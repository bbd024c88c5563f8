SPECIFICATION Spec
CONSTANTS
  a = a
  b = b
  c = c
  e = e
  node = node
  NoDep = NoDep
  NoNode = NoNode
  Deployments = {a, b, c, e}
  Nodes = {node}
  CacheNode <- OneNode
  GPUCount <- OneGPU
  Capacity <- TwoSlots
  Priority <- LowestA
  SpecBodies <- NoEdits
  InitialSpecs <- QueueAgainstAB
  InitialCache = "Ready"
  CachePhases = {}
  NodeStates = {}
  FaultKinds = {"Stall"}
  MaxEdits = 0
  MaxFaults = 1
INVARIANTS
  NoOversubscription

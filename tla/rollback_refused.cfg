SPECIFICATION Spec
CONSTANTS
  a = a
  b = b
  c = c
  e = e
  node = node
  NoDep = NoDep
  NoNode = NoNode
  Deployments = {a, b}
  Nodes = {node}
  CacheNode <- OneNode
  GPUCount <- OneGPU
  Capacity <- OneSlot
  Priority <- LowestA
  SpecBodies <- NoEdits
  InitialSpecs <- RejectAgainstB
  InitialCache = "Ready"
  CachePhases = {}
  NodeStates = {}
  FaultKinds = {"Stall"}
  MaxEdits = 0
  MaxFaults = 1
PROPERTIES
  RestorationNotRefused

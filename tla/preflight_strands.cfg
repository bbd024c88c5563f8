SPECIFICATION Spec
CONSTANTS
  a = a
  b = b
  c = c
  e = e
  node = node
  NoDep = NoDep
  NoNode = NoNode
  Deployments = {a, b}
  Nodes = {node}
  CacheNode <- OneNode
  GPUCount <- OneGPU
  Capacity <- OneSlot
  Priority <- LowestA
  SpecBodies <- NoEdits
  InitialSpecs <- OversizedB
  InitialCache = "Ready"
  CachePhases = {}
  NodeStates = {}
  FaultKinds = {}
  MaxEdits = 0
  MaxFaults = 0
INVARIANTS
  FailedEndsTransaction

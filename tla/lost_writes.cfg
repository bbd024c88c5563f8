SPECIFICATION Spec
CONSTANTS
  a = a
  b = b
  c = c
  e = e
  node = node
  NoDep = NoDep
  NoNode = NoNode
  Deployments = {a, b, c}
  Nodes = {node}
  CacheNode <- OneNode
  GPUCount <- OneGPU
  Capacity <- OneSlot
  Priority <- LowestA
  SpecBodies <- PriorityEdits
  InitialSpecs <- QueueAgainstB
  InitialCache = "Ready"
  CachePhases = {}
  NodeStates = {}
  FaultKinds = {"Stall", "Error", "Remove"}
  MaxEdits = 1
  MaxFaults = 2
INVARIANTS
  HandoffReserved
  TransactionMatchesSpec
  DrainingDetached
PROPERTIES
  RolledBackRestored
  ImplementsLease

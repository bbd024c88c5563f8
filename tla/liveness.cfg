SPECIFICATION FairSpec
CONSTANTS
  a = a
  b = b
  c = c
  e = e
  node = node
  NoDep = NoDep
  NoNode = NoNode
  Deployments = {a, b}
  Nodes = {node}
  CacheNode <- OneNode
  GPUCount <- OneGPU
  Capacity <- OneSlot
  Priority <- LowestA
  SpecBodies <- UserEdits
  InitialSpecs <- QueueAgainstB
  InitialCache = "Ready"
  CachePhases = {}
  NodeStates = {}
  FaultKinds = {"Stall", "Error"}
  MaxEdits = 1
  MaxFaults = 2
PROPERTIES
  TransactionEnds
  DisplacedRestored
  Settles
  SlotReassigned

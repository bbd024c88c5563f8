SPECIFICATION Spec
CONSTANTS
  a = a
  b = b
  c = c
  e = e
  node = node
  NoDep = NoDep
  NoNode = NoNode
  Deployments = {a, b, c}
  Nodes = {node}
  CacheNode <- OneNode
  GPUCount <- OneGPU
  Capacity <- OneSlot
  Priority <- LowestA
  SpecBodies <- OldestEdits
  InitialSpecs <- Contending
  InitialCache = "Ready"
  CachePhases = {}
  NodeStates = {}
  FaultKinds = {"Stall", "Remove"}
  MaxEdits = 1
  MaxFaults = 2
INVARIANTS
  HandoffReserved
  NoOversubscription
  FailedEndsTransaction
PROPERTIES
  DrainBeforeTeardown

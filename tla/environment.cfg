SPECIFICATION Spec
CONSTANTS
  a = a
  b = b
  c = c
  e = e
  node = node
  NoDep = NoDep
  NoNode = NoNode
  Deployments = {a, b, c}
  Nodes = {node}
  CacheNode <- OneNode
  GPUCount <- CPUOnlyC
  Capacity <- OneSlot
  Priority <- LowestA
  SpecBodies <- BadEdits
  InitialSpecs <- QueueAgainstB
  InitialCache = "Absent"
  CachePhases = {"Absent", "Failed", "Downloading"}
  NodeStates = {"Fit", "Down", "TooSmall", "Constrained"}
  FaultKinds = {"Cache", "Node", "Unready"}
  MaxEdits = 1
  MaxFaults = 1
INVARIANTS
  TypeOK
  NoOversubscription

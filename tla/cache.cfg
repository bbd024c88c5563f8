SPECIFICATION Spec
CONSTANTS
  a = a
  b = b
  n1 = n1
  n2 = n2
  p = p
  q = q
  NoNode = NoNode
  NoPath = NoPath
  Caches = {a, b}
  Nodes = {n1, n2}
  Paths = {p, q}
  Capacity <- TwoNodes
  NodeRank <- RankTwo
  MaxInt64 = 7
  Specs <- SpecsRivals
  InitialSpecs <- GuardedAndSmall
  Tokens = {0}
  Lagging = FALSE
  FaultKinds = {"Download", "Expire", "Node", "Secret"}
  MaxEdits = 2
  MaxFaults = 1
INVARIANT CapacityRespected
INVARIANT OneWriter
INVARIANT ReadyOnDisk
INVARIANT NoSharedPlacement
CHECK_DEADLOCK FALSE

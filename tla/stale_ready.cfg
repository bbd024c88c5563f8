SPECIFICATION Spec
CONSTANTS
  a = a
  b = b
  n1 = n1
  n2 = n2
  p = p
  q = q
  NoNode = NoNode
  NoPath = NoPath
  Caches = {a}
  Nodes = {n1, n2}
  Paths = {p, q}
  Capacity <- TwoNodes
  NodeRank <- RankTwo
  MaxInt64 = 7
  Specs <- SpecsEdited
  InitialSpecs <- BothBase
  Tokens = {0}
  Lagging = TRUE
  FaultKinds = {"Node"}
  MaxEdits = 0
  MaxFaults = 1
INVARIANT ReadyOnDisk
CHECK_DEADLOCK FALSE

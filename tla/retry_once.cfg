SPECIFICATION FairSpec
CONSTANTS
  a = a
  b = b
  n1 = n1
  n2 = n2
  p = p
  q = q
  NoNode = NoNode
  NoPath = NoPath
  Caches = {a}
  Nodes = {n1}
  Paths = {p, q}
  Capacity <- OneNode
  NodeRank <- RankOne
  MaxInt64 = 7
  Specs <- SpecsInvalid
  InitialSpecs <- BothBase
  Tokens = {0, 1}
  Lagging = FALSE
  FaultKinds = {"Download", "Expire"}
  MaxEdits = 1
  MaxFaults = 3
PROPERTY RetryOnce
CHECK_DEADLOCK FALSE

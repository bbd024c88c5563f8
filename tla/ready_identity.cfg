SPECIFICATION FairSpec
CONSTANTS
  a = a
  b = b
  n1 = n1
  n2 = n2
  p = p
  q = q
  NoNode = NoNode
  NoPath = NoPath
  Caches = {a}
  Nodes = {n1}
  Paths = {p, q}
  Capacity <- OneNode
  NodeRank <- RankOne
  MaxInt64 = 7
  Specs <- SpecsInvalid
  InitialSpecs <- BothBase
  Tokens = {0}
  Lagging = FALSE
  FaultKinds = {}
  MaxEdits = 2
  MaxFaults = 0
PROPERTY ReadyImmutable
CHECK_DEADLOCK FALSE

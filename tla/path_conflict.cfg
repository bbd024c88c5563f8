SPECIFICATION FairSpec
CONSTANTS
  a = a
  b = b
  n1 = n1
  n2 = n2
  p = p
  q = q
  NoNode = NoNode
  NoPath = NoPath
  Caches = {a, b}
  Nodes = {n1}
  Paths = {p, q}
  Capacity <- OneNode
  NodeRank <- RankOne
  MaxInt64 = 7
  Specs <- SpecsPinned
  InitialSpecs <- BothPinned
  Tokens = {0}
  Lagging = FALSE
  FaultKinds = {"Download"}
  MaxEdits = 0
  MaxFaults = 1
PROPERTY PathConflictHasOwner
CHECK_DEADLOCK FALSE

SPECIFICATION Spec
CONSTANTS
  a = a
  b = b
  n1 = n1
  n2 = n2
  p = p
  q = q
  NoNode = NoNode
  NoPath = NoPath
  Caches = {a, b}
  Nodes = {n1}
  Paths = {p, q}
  Capacity <- OneNode
  NodeRank <- RankOne
  MaxInt64 = 7
  Specs <- SpecsEdited
  InitialSpecs <- BaseAndRev2
  Tokens = {0}
  Lagging = TRUE
  FaultKinds = {}
  MaxEdits = 0
  MaxFaults = 0
INVARIANT NoSharedPlacement
CHECK_DEADLOCK FALSE

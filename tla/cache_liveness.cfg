SPECIFICATION FairSpec
CONSTANTS
  a = a
  b = b
  n1 = n1
  n2 = n2
  p = p
  q = q
  NoNode = NoNode
  NoPath = NoPath
  Caches = {a, b}
  Nodes = {n1}
  Paths = {p, q}
  Capacity <- OneNode
  NodeRank <- RankOne
  MaxInt64 = 7
  Specs <- NoSpecs
  InitialSpecs <- RivalsOrNot
  Tokens = {0, 1}
  Lagging = TRUE
  FaultKinds = {"Error", "Download", "Expire"}
  MaxEdits = 1
  MaxFaults = 1
PROPERTY RetryHonoured
PROPERTY DownloadEnds
PROPERTY Settles
INVARIANT ReadyOnDisk
CHECK_DEADLOCK FALSE

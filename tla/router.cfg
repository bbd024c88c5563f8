SPECIFICATION RouterSpec
CONSTANTS
  Backends = {1, 2, 3}
  Entries <- CanaryEntries
  MaxLoad = 1
  MaxSelects = 7
  MaxSkips = 17
INVARIANT ScoresBounded
INVARIANT NoStarvation
INVARIANT ExactShare

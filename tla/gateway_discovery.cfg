SPECIFICATION FairSpec
CONSTANTS
  Interval = 3
  SyncTimeout = 3
  RetryBase = 1
  AgeBound = 18
  MaxUID = 2
  MaxChanges = 2
INVARIANT TypeOK
INVARIANT StopsRouting
PROPERTY Converges

SPECIFICATION Spec
CONSTANTS
  Interval = 4
  SyncTimeout = 4
  RetryBase = 1
  AgeBound = 25
  MaxUID = 1
  MaxChanges = 0
INVARIANT StaleIsUnavailable

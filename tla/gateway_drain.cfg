SPECIFICATION FairSpec
CONSTANTS
  Gateways = {1, 2}
  Requests = {r1}
  MaxSwitches = 1
  MaxEvents = 1
  Timeouts = TRUE
INVARIANT AnsweredStaysClosed
INVARIANT OnlyUncountedLate
PROPERTY DrainEnds

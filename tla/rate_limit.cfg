SPECIFICATION LimiterSpec
CONSTANTS
  Clients = {c1, c2, c3}
  Policies <- TwoPolicies
  MaxClock = 6
  MaxPolicies = 1
SYMMETRY ClientSymmetry
INVARIANT WithinRate
PROPERTY RetryKept

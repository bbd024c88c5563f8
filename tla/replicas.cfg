SPECIFICATION FairSpec
CONSTANTS
  Setups <- AllSetups
INVARIANT NoOverbooking
PROPERTY ServingKept
PROPERTY RolloutHasRoom
PROPERTY LongRequestKept
PROPERTY HeldAtZero
PROPERTY ComesToRest

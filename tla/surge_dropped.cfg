SPECIFICATION Spec
CONSTANTS
  Setups <- RollingEdited
INVARIANT SurgeReserved

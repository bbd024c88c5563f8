SPECIFICATION Spec
CONSTANTS
  Setups <- RollingCrowded
INVARIANT SlotsFit

SPECIFICATION Spec
CONSTANTS
  Setups <- CrowdedLowered
INVARIANT SlotsFit

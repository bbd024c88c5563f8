SPECIFICATION Spec
CONSTANTS
  Setups <- CrowdedFaulty
INVARIANT SlotsFit

SPECIFICATION Spec
CONSTANTS
  Setups <- OneWoken
PROPERTY ZeroAfterTimeout

SPECIFICATION Spec
CONSTANTS
  Gateways = {1}
  Requests = {r1}
  MaxSwitches = 1
  MaxEvents = 1
  Timeouts = FALSE
INVARIANT DrainMeansIdle

SPECIFICATION Spec
CONSTANTS
  Gateways = {1}
  Requests = {r1}
  MaxSwitches = 3
  MaxEvents = 1
  Timeouts = FALSE
INVARIANT CompleteMeansObserved

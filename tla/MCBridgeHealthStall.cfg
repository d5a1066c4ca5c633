SPECIFICATION HealthSpec
CONSTANTS
  Logins = {l1, l2}
  FailureThreshold = 2
  MinimumAge = 2
  StallTimeout = 3
INVARIANTS
  StallIsReal
CHECK_DEADLOCK FALSE

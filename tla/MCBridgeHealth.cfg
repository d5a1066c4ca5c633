SPECIFICATION HealthFairSpec
CONSTANTS
  Logins = {l1, l2}
  FailureThreshold = 3
  MinimumAge = 2
  StallTimeout = 3
INVARIANTS
  LoginsCovered
  RestartJustified
PROPERTIES
  StuckLoginRestarts
  FailingApiRestarts
CHECK_DEADLOCK FALSE

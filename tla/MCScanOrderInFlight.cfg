CONSTANTS
  r1 = r1
  r2 = r2
  w1 = w1
  Requests <- TwoRequests
  Workers <- OneJob
  MaxAttempts = 2
  MaxTries = 2
  MaxRetries = 2
  MaxCrashes = 1
SPECIFICATION Spec
CHECK_DEADLOCK FALSE
INVARIANT OneInFlight

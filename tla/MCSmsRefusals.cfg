SPECIFICATION RefusalsSpec
CONSTANTS
  Adjustments <- MCAdjustments
  MaxAdjusts = 0
  Amount = 2
  Recipients <- MCRecipients
  Price = 1
  Requests <- MCRequests
  Recovery = "job"
  Reconcile = "job"
  MaxAttempts = 2
  MaxRefundPerRun = 1
  MaxMishaps = 0
CHECK_DEADLOCK FALSE
INVARIANT UncertainNotRefunded

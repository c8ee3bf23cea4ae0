SPECIFICATION Spec
CONSTANTS
  Adjustments <- MCAdjustments
  MaxAdjusts = 1
  Amount = 2
  Recipients <- MCRecipients
  Price = 1
  Requests <- MCRequests
  Recovery = "job"
  Reconcile = "job"
  MaxAttempts = 2
  MaxRefundPerRun = 1
  MaxMishaps = 1
CHECK_DEADLOCK FALSE
INVARIANT TypeOK
INVARIANT WalletAddsUp
INVARIANT CreditedOnce
INVARIANT ClosedTakesNoMoney
INVARIANT RefundedOnce
INVARIANT RefundHasGrounds
PROPERTY KeepsPromise
PROPERTY PaidIsCredited
PROPERTY EveryTextSettles

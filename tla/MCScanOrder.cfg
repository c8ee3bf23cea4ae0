CONSTANTS
  r1 = r1
  r2 = r2
  w1 = w1
  Requests <- OneRequest
  Workers <- OneJob
  MaxAttempts = 3
  MaxTries = 2
  MaxRetries = 2
  MaxCrashes = 1
SPECIFICATION Spec
CHECK_DEADLOCK FALSE
INVARIANTS
  TypeOK
  PaidIsBacked
  CaptureAccounted
  DoneMeansRecorded
  RefundOnlyWhenRefunding
  BooksMatch
  GoodsMatch
  DamageBounded
  RefundVersions
  RetryHasOwner
  RefundingHasTask
  FlowsAgree
PROPERTIES
  VersionGuardsStatus
  KeepsPromise

SPECIFICATION Spec
CONSTANTS
  Kinds <- MCKinds
  Verifiers <- MCVerifiers
  Worker = "worker"
  Scan = "scan"
  Slow <- MCSlow
  NoOne = "noone"
  Accounts <- MCAccounts
  MaxTries = 2
  MaxMishaps = 1
  MaxRebinds = 1
CHECK_DEADLOCK FALSE
INVARIANT TypeOK
INVARIANT SettledMatchesRow
INVARIANT DraftNeverAhead
INVARIANT CapturedStaysOpen
INVARIANT LockKept
PROPERTY LockFreedByHolder
PROPERTY CapturedSettles
PROPERTY KeepsPromise

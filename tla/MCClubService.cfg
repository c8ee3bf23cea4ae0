SPECIFICATION Spec
CONSTANTS
  Kinds <- MCService
  Verifiers <- MCVerifiers
  Worker = "worker"
  Scan = "scan"
  Slow <- MCNoneSlow
  NoOne = "noone"
  Accounts <- MCAccounts
  MaxTries = 2
  MaxMishaps = 0
  MaxRebinds = 0
CHECK_DEADLOCK FALSE
INVARIANT SettledOnce

CONSTANTS
  Threads = {t1, t2}
  MaxCalls = 2
  Period = 2
  MaxAttempts = 3
  Delay <- MCDelay
  SnapshotTtl = 2
  RateTtl = 2
  FailTtl = 1
  Rates = {r1}
  None = None
SPECIFICATION Spec
SYMMETRY ThreadSymmetry
PROPERTY LastGoodKept
CHECK_DEADLOCK FALSE

CONSTANTS
  monitor_trades = monitor_trades
  evaluate_signals = evaluate_signals
  Jobs = {monitor_trades, evaluate_signals}
  MaxInstances <- MonitorTwice
  Workers = {w1, w2}
  Requests = {r1}
  Bootstrap = bootstrap
  None = None
  MaxManual = 1
  MaxResets = 1
SPECIFICATION FairSpec
INVARIANTS TypeOK ExclusiveSinceReset NothingLeaks DueIsKept
PROPERTY DueRuns
CHECK_DEADLOCK TRUE

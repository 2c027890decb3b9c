CONSTANTS
  Trades = {t1}
  Orders = {1, 2, 3}
  Externals = {x1}
  BTC = BTC
  Symbols <- OneSymbol
  SymbolOf <- AllBTC
  Scheduler = scheduler
  Operators = {op1}
  None = None
  HonoursRequestId = FALSE
  MaxManual = 1
  MaxFailures = 1
SPECIFICATION FairSpec
INVARIANTS EntryOrdersBounded CleanCancel ExitIsClaimed
PROPERTIES PendingResolves VanishedIsClosed ExitCompletes
CHECK_DEADLOCK FALSE

CONSTANTS
  Trades = {t1}
  Orders = {1, 2}
  Externals = {}
  BTC = BTC
  Symbols <- OneSymbol
  SymbolOf <- AllBTC
  Scheduler = scheduler
  Operators = {op1}
  None = None
  HonoursRequestId = TRUE
  MaxManual = 1
  MaxFailures = 0
SPECIFICATION Spec
SYMMETRY TradeSymmetry
INVARIANT CancelledNeverFilled
CHECK_DEADLOCK FALSE

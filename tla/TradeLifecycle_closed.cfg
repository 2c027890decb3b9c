CONSTANTS
  Trades = {t1}
  Orders = {1, 2}
  Externals = {}
  BTC = BTC
  Symbols <- OneSymbol
  SymbolOf <- AllBTC
  Scheduler = scheduler
  Operators = {}
  None = None
  HonoursRequestId = TRUE
  MaxManual = 1
  MaxFailures = 1
SPECIFICATION Spec
SYMMETRY TradeSymmetry
INVARIANT ClosedMeansFlat
CHECK_DEADLOCK FALSE

CONSTANTS
  Trades = {t1, t2}
  Orders = {1, 2}
  Externals = {}
  BTC = BTC
  Symbols <- OneSymbol
  SymbolOf <- AllBTC
  Scheduler = scheduler
  Operators = {op1}
  None = None
  HonoursRequestId = TRUE
  MaxManual = 1
  MaxFailures = 1
SPECIFICATION Spec
SYMMETRY TradeSymmetry
INVARIANT TypeOK
INVARIANT OneActivePerSymbol
INVARIANT ClosedWasOpened
PROPERTY ClosedNeverReopens
CHECK_DEADLOCK FALSE
PROPERTY RefinesTradeBook

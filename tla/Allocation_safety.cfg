CONSTANTS
  b1 = b1
  b2 = b2
  s1 = s1
  Trades = {b1, b2, s1}
  CategoryOf <- Two
  MaxOpenStock = 1
  MaxOpenCrypto = 1
  Minimum = 4
  Dollar = 1
  StartCash = 15
  RiskSizes <- SmallSizes
  Proceeds <- SmallProceeds
  None = None
  MaxFaults = 1
SPECIFICATION Spec
SYMMETRY CoinSymmetry
INVARIANTS TypeOK SlotsRespected Funded OthersFunded
CHECK_DEADLOCK FALSE

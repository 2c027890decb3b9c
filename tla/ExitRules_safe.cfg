CONSTANTS
  Entry = 10
  Prices <- SmallPrices
  Scale = 10
  Buffer = 1
  Signals <- SmallSignals
  Payloads <- SmallPayloads
  Proposals <- SmallProposals
  Operators = {op1}
  None = None
  MaxEdits = 1
SPECIFICATION FairSpec
INVARIANTS TypeOK TriggersFollowTop
PROPERTIES TriggersRatchet ExitsWhenDue EditsTakeEffect
CHECK_DEADLOCK FALSE

SPECIFICATION Spec
CONSTANTS
  ES = ES
  NQ = NQ
  None = None
  Bar = Bar
  Symbols <- MCSymbols
  Correlated <- MCCorrelated
  Requests = {}
  ConfiguredKind = "live"
  LiveTradingConfirmed = TRUE
  TradeIds = {1, 2}
  OperatorModes = {"live"}
  MaxNet = 1
SYMMETRY MCSymmetry
INVARIANTS
  OneOpenTradePerProcess
  BarTradesNeverConflict
  
  OneEntryOnTheTicket

SPECIFICATION Spec
CONSTANTS
  ES = ES
  NQ = NQ
  None = None
  Bar = Bar
  Symbols = {ES}
  Correlated = {}
  Requests = {}
  ConfiguredKind = "live"
  LiveTradingConfirmed = TRUE
  TradeIds = {1, 2}
  OperatorModes = {"live"}
  MaxNet = 2
INVARIANTS
  OneOpenTradePerSymbol

SPECIFICATION Spec
CONSTANTS
  ES = ES
  NQ = NQ
  None = None
  Bar = Bar
  Symbols = {ES}
  Correlated = {}
  Requests = {r1}
  ConfiguredKind = "live"
  LiveTradingConfirmed = TRUE
  TradeIds = {1, 2}
  OperatorModes = {"analysis_only", "live"}
  MaxNet = 1
INVARIANTS
  OneOpenTradePerProcess
  

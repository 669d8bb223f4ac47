SPECIFICATION Spec
CONSTANTS
  ES = ES
  NQ = NQ
  None = None
  Bar = Bar
  Symbols = {ES}
  Correlated = {}
  Requests = {r1}
  ConfiguredKind = "live"
  LiveTradingConfirmed = TRUE
  TradeIds = {1, 2}
  OperatorModes = {"paper"}
  MaxNet = 1
INVARIANTS
  ManualRowsNameTheirBroker

SPECIFICATION FairSpec
CONSTANTS
  ES = ES
  NQ = NQ
  None = None
  Bar = Bar
  Symbols = {ES}
  Correlated = {}
  Requests = {}
  ConfiguredKind = "live"
  LiveTradingConfirmed = TRUE
  TradeIds = {1, 2}
  OperatorModes = {"analysis_only", "paper", "live"}
  MaxNet = 1
INVARIANTS
  TypeOK
  EngineRowsNameTheirBroker
PROPERTIES
  ScanEnds
  BarEnds

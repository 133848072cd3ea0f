SPECIFICATION EngineSpec
CONSTANTS
  Mode = "grace"
  GraceBars = 1
  StopoutLimit = 2
  HaltBars = 1
  DailyLossPct = 2
  WeeklyLossPct = 4
  Symbols = {a}
  MaxConcurrentLong = 1
  MaxConcurrentShort = 1
  MaxEntriesLong = 2
  MaxEntriesShort = 1
  CancelBars = 2
  ShortsEnabled = FALSE
  BiasGateEnabled = TRUE
  Sector <- MCSector
  TopList = 2
  TopTradeable = 2
  MaxPerSector = 2
  StartingEquity = 100
  Pnls <- MCPnls
  MaxBars = 4
INVARIANTS TriggerSignalsArePermitted
PROPERTIES ImplementsOrderBook

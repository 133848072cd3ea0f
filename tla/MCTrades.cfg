SPECIFICATION MCSpec
CONSTANTS
  Prices <- Quotes
  Last = 12
  EntryAtr = 4
  Atrs = {0, 4, 8}
  LimitOffset = 1
  Slip = 1
  CancelBars = 2
  Equity = 4000
  RiskPart = 200
  NotionalPart = 50
  ScoreLow = 50
  ScoreHigh = 100
  ScoreValues = {40, 100}
  Participations = {0, 4, 9}
  MaxHold = 3
  StopoutLimit = 2
  HaltBars = 2
  DailyLossPct = 2
  WeeklyLossPct = 4
  StartingEquity = 100
  Pnls <- MCPnls
  MaxBars = 3
  MaxExits = 3
  Symbols <- MCSymbols
  Sector <- MCSector
  MaxScore = 2
  TopList = 3
  TopTradeable = 2
  MaxPerSector = 1
  MaxConcurrentLong = 1
  MaxConcurrentShort = 1
  ShortsEnabled = TRUE
  BiasGateEnabled = TRUE
  BookHold = 2
  MaxDays = 4
INVARIANTS ExitsWithinStops DailyExitsWithinStops HaltsExact BookFits
PROPERTIES PricesAreHonest EntersOnLastBias
CHECK_DEADLOCK FALSE

SPECIFICATION Spec
CONSTANTS
  Symbols = {s1, s2}
  MaxConcurrentLong = 1
  MaxConcurrentShort = 1
  MaxEntriesLong = 2
  MaxEntriesShort = 1
  CancelBars = 2
  ShortsEnabled = TRUE
  BiasGateEnabled = FALSE
  Sector <- MCSector
  TopList = 2
  TopTradeable = 2
  MaxPerSector = 2
  StartingEquity = 100
  Pnls <- MCPnls
  MaxBars = 3
  StopoutLimit = 1
  HaltBars = 1
  DailyLossPct = 3
  WeeklyLossPct = 4
SYMMETRY MCSymmetry
INVARIANTS EntryCap LockoutHolds OneClaimPerSymbol SlotCap OrderConservation ManagedAway
PROPERTIES OrdersSurviveSubmission EvalsAccounted

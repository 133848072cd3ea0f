SPECIFICATION MCSpec
CONSTANTS
  Symbols = {s1, s2}
  Endpoints = {most_actives, movers}
  MaxDay = 3
  Covered = {1, 3}
  Assets = {1, 2}
  Curated = {}
  Labelled = {1}
  Quotes <- MCQuotes
  ScanDays = 3
  AdvWindow = 2
  MinPrice = 2
  MinShares = 3
  MinDollars = 15
  MinCoverage = 80
  MaxChanges = 1
  Cutoff = 1
  Target = 1
  MaxScanAge = 1
INVARIANTS FlagsAndRuns NightIsRecorded
PROPERTIES RescanAgrees UniverseIsRanked
CHECK_DEADLOCK FALSE

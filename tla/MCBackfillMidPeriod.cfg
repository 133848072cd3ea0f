SPECIFICATION Spec
CONSTANTS
  Symbols = {1, 2}
  Traded <- MCTraded
  Periods = 2
  Starts <- MCStarts
  Day = 2
  Opened = 5
  ScriptSpans = {}
  NightlySpan = 8
  Tail = 2
  BatchSize = 1
INVARIANT MidPeriodHealed

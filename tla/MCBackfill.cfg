SPECIFICATION Spec
CONSTANTS
  Symbols = {1, 2}
  Traded <- MCTraded
  Periods = 2
  Starts <- MCStarts
  Day = 2
  Opened = 5
  ScriptSpans = {4, 6}
  NightlySpan = 5
  Tail = 2
  BatchSize = 1
INVARIANTS RecordsCover DoneUnitsStored TailsCatchUp
PROPERTIES DoneStays

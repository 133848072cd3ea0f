SPECIFICATION Spec
CONSTANTS
  DayLen = 12
  Window = 2
  Long = 3
  Strength = 1
  MinGap = 1
  FollowSessions = 2
  Days = 6
  SilentDays = {2}
  Lag = 1
  Open = 2
  LastMinute = 7
  BarLen = 2
  HourLen = 4
INVARIANT BiasIsCausal
CHECK_DEADLOCK FALSE

SPECIFICATION MCSpec
CONSTANTS
  HoldBars = 3
  DayLen = 12
  Window = 2
  Long = 3
  Strength = 1
  MinGap = 1
  FollowSessions = 2
  Days = 6
  SilentDays = {2}
  Lag = 1
  Open = 2
  LastMinute = 7
  BarLen = 2
  HourLen = 4
  Missing = Missing
  RrsM5 = 1
  RrsD1 = 2
  NotExtended = 2
  MaxOff = 2
INVARIANTS SidesFollowRuns FlipNeverFires FramesAreCausal SidesMirror ChecksAgree
PROPERTIES ImplementsWalk PastStands
CHECK_DEADLOCK FALSE

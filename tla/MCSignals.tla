----------------------------- MODULE MCSignals -----------------------------
(* What a decision is made of: a behaviour prepares the frames of more and  *)
(* more stored sessions, or walks the bias through its scores, or puts rows *)
(* in front of the gates, scores and reconfirmations; the machines that do  *)
(* not run keep one initial state.                                          *)
EXTENDS BiasBuckets

CONSTANTS
  DayLen, Window, Long, Strength, MinGap, FollowSessions,
  Days, SilentDays, Lag, Open, LastMinute, BarLen, HourLen,
  Missing, RrsM5, RrsD1, NotExtended, MaxOff

VARIABLES
  machine,                                     \* "frames", "bias" or "rows"
  silent, minuteDays, dailyDays, prepared,     \* of FeatureFrames
  row, off, disabled, crosscheck               \* of RowWalk

Frames == INSTANCE FeatureFrames
Rows == INSTANCE RowWalk

\* The modules that are not extended are held to their constants here.
ASSUME SignalsConstants == Frames!ClockConstants /\ Rows!RowConstants

biasVars == <<state, pendingDir, pendingCount, bucket, prior, trigger, flip,
              confirmed, bullRun, bearRun>>
frameVars == <<silent, minuteDays, dailyDays, prepared>>
rowVars == <<row, off, disabled, crosscheck>>
allVars == <<machine, biasVars, frameVars, rowVars>>

MCInit ==
  /\ machine \in {"frames", "bias", "rows"}
  /\ Init /\ Frames!Init /\ Rows!Init
  /\ machine # "frames" => silent = <<"spy", {}>>
  /\ machine # "rows" => row = Rows!Candidate /\ disabled = {} /\ crosscheck = FALSE

MCNext ==
  \/ machine = "frames" /\ Frames!Next /\ UNCHANGED <<machine, biasVars, rowVars>>
  \/ machine = "bias" /\ Next /\ UNCHANGED <<machine, frameVars, rowVars>>
  \/ machine = "rows" /\ Rows!Next /\ UNCHANGED <<machine, biasVars, frameVars>>

MCSpec == MCInit /\ [][MCNext]_allVars

FramesAreCausal == Frames!FramesAreCausal
PastStands == Frames!PastStands
SidesMirror == Rows!SidesMirror
ChecksAgree == Rows!ChecksAgree
=============================================================================

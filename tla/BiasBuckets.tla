---------------------------- MODULE BiasBuckets ----------------------------
(***************************************************************************)
(* The bias engine bar by bar: apply_hysteresis (bias/buckets.py) turns    *)
(* the smoothed score into a bucket, compute_trendline_trigger             *)
(* (bias/trigger.py) and _flip_flatten (bias/engine.py) read that bucket   *)
(* and the one of the bar before.  Scores are abstracted to the intervals  *)
(* the four thresholds cut.                                                *)
(***************************************************************************)
EXTENDS BiasFamily, Integers

CONSTANT HoldBars          \* hold_bars (2)

ASSUME HoldBarsAssumption == HoldBars \in Nat \ {0}

VARIABLES
  state,          \* the hysteresis state
  pendingDir,     \* pending_dir: side waiting for confirmation, or "None"
  pendingCount,   \* pending_count
  bucket,         \* bias of this bar; "None" while the score is NaN
  prior,          \* bias.shift(1)
  trigger,        \* trigger of this bar
  flip,           \* flip_flatten of this bar
  confirmed,      \* spy stacked against the old side, with RVOL, on this bar
  bullRun, bearRun  \* history: consecutive scores beyond +-25, up to HoldBars+1

hysteresis == <<state, pendingDir, pendingCount>>
vars == <<hysteresis, bucket, prior, trigger, flip, confirmed, bullRun, bearRun>>

Levels == {"strong_bear", "bear", "mid", "bull", "strong_bull"}
Bullish == {"bull", "strong_bull"}      \* s >= BULL_TH
Bearish == {"bear", "strong_bear"}      \* s <= BEAR_TH

Buckets == {"STRONG_BULL", "BULL", "NEUTRAL", "BEAR", "STRONG_BEAR"}
BullFamily == {"BULL", "STRONG_BULL"}
BearFamily == {"BEAR", "STRONG_BEAR"}
Triggers == {"LONG_TRIGGER", "SHORT_TRIGGER", "NONE"}

\* The tier of a side, from the score alone.
Tier(level) ==
  CASE level = "strong_bull" -> "STRONG_BULL"
    [] level = "bull" -> "BULL"
    [] level = "bear" -> "BEAR"
    [] level = "strong_bear" -> "STRONG_BEAR"
    [] level = "mid" -> "NEUTRAL"

SideOf(level) == IF level \in Bullish THEN "BULL" ELSE "BEAR"

Init ==
  /\ state = "NEUTRAL"
  /\ pendingDir = "None"
  /\ pendingCount = 0
  /\ bucket = "None"
  /\ prior = "None"
  /\ trigger = "NONE"
  /\ flip = FALSE
  /\ confirmed = FALSE
  /\ bullRun = 0
  /\ bearRun = 0

\* One more score beyond +-25 on a side: it starts or extends a run, and the
\* HoldBars-th of the run changes the state.
Count(level) ==
  LET count == IF pendingDir = SideOf(level) THEN pendingCount + 1 ELSE 1
  IN  IF count >= HoldBars
      THEN /\ state' = Tier(level)
           /\ pendingDir' = "None" /\ pendingCount' = 0
      ELSE /\ pendingDir' = SideOf(level) /\ pendingCount' = count
           /\ UNCHANGED state

\* In NEUTRAL a score inside +-25 drops the run.  (In the variant the run
\* survives it.)
FromNeutralKeepsRun(level) ==
  /\ state = "NEUTRAL"
  /\ IF level = "mid" THEN UNCHANGED hysteresis ELSE Count(level)
FromNeutral(level) ==
  /\ state = "NEUTRAL"
  /\ IF level = "mid"
     THEN pendingDir' = "None" /\ pendingCount' = 0 /\ UNCHANGED state
     ELSE Count(level)

\* On a side: the tier follows the score at once, and so does the fall back to
\* NEUTRAL, however far beyond the other threshold the score is.  (The variants
\* reverse to the other side at once.)
FromBullReverses(level) ==
  /\ state \in BullFamily
  /\ state' = IF level = "mid" THEN "NEUTRAL" ELSE Tier(level)
  /\ UNCHANGED <<pendingDir, pendingCount>>
FromBull(level) ==
  /\ state \in BullFamily
  /\ state' = IF level \in Bullish THEN Tier(level) ELSE "NEUTRAL"
  /\ UNCHANGED <<pendingDir, pendingCount>>

FromBearReverses(level) ==
  /\ state \in BearFamily
  /\ state' = IF level = "mid" THEN "NEUTRAL" ELSE Tier(level)
  /\ UNCHANGED <<pendingDir, pendingCount>>
FromBear(level) ==
  /\ state \in BearFamily
  /\ state' = IF level \in Bearish THEN Tier(level) ELSE "NEUTRAL"
  /\ UNCHANGED <<pendingDir, pendingCount>>

\* _flip_flatten of this bar; confirm stands for the stacked-candle and RVOL
\* conditions of the direction in question.
FlipFlatten(before, after, confirm) ==
  /\ confirm
  /\ \/ before \in BullFamily /\ after \in BearFamily
     \/ before \in BearFamily /\ after \in BullFamily

\* compute_trendline_trigger: a fresh breach of SPY's own trendline, or with no
\* active line the first bar of a STRONG bucket, on the side bias permits.
TriggerOf(before, after, freshUp, freshDown, noDownLine, noUpLine) ==
  IF after \in BearFamily /\ (freshDown \/ (after = "STRONG_BEAR" /\ noUpLine
                                              /\ before # "STRONG_BEAR"))
  THEN "SHORT_TRIGGER"
  ELSE IF after \in BullFamily /\ (freshUp \/ (after = "STRONG_BULL" /\ noDownLine
                                                /\ before # "STRONG_BULL"))
  THEN "LONG_TRIGGER"
  ELSE "NONE"

Longer(run) == IF run > HoldBars THEN run ELSE run + 1

\* One bar with a score.  The NaN bars of the ATR warm-up are a prefix of the
\* series and leave every variable as Init sets it, so they are stuttering.
ScoredBar ==
  \E level \in Levels, confirm \in BOOLEAN, freshUp \in BOOLEAN,
     freshDown \in BOOLEAN, noDownLine \in BOOLEAN, noUpLine \in BOOLEAN :
    /\ FromNeutral(level) \/ FromBull(level) \/ FromBear(level)
    /\ bucket' = state'
    /\ prior' = bucket
    /\ confirmed' = confirm
    /\ flip' = FlipFlatten(bucket, state', confirm)
    /\ freshUp => ~noDownLine       \* a breach needs the line it breaches
    /\ freshDown => ~noUpLine
    /\ trigger' = TriggerOf(bucket, state', freshUp, freshDown, noDownLine,
                            noUpLine)
    /\ bullRun' = IF level \in Bullish THEN Longer(bullRun) ELSE 0
    /\ bearRun' = IF level \in Bearish THEN Longer(bearRun) ELSE 0

Next == ScoredBar

Spec == Init /\ [][Next]_vars

-----------------------------------------------------------------------------
TypeOK ==
  /\ state \in Buckets
  /\ pendingDir \in {"BULL", "BEAR", "None"}
  /\ pendingCount \in Nat
  /\ bucket \in Buckets \cup {"None"}
  /\ prior \in Buckets \cup {"None"}
  /\ trigger \in Triggers
  /\ flip \in BOOLEAN
  /\ confirmed \in BOOLEAN
  /\ bullRun \in 0..(HoldBars + 1)
  /\ bearRun \in 0..(HoldBars + 1)

\* "Confirm rather than anticipate": a directional bucket stands on at least
\* HoldBars consecutive scores beyond its threshold, so a single-bar spike, or
\* a run broken by one bar inside +-25, never opens a side.
SideIsConfirmed ==
  /\ bucket \in BullFamily => bullRun >= HoldBars
  /\ bucket \in BearFamily => bearRun >= HoldBars

\* And it is not late: after HoldBars + 1 consecutive scores beyond a threshold
\* the bucket is on that side, even when the run began on the other side (the
\* bar that leaves the old side does not count towards the new one).
SideIsPrompt ==
  /\ bullRun > HoldBars => bucket \in BullFamily
  /\ bearRun > HoldBars => bucket \in BearFamily

\* The signal that is to flatten positions on a full reversal is never raised:
\* _flip_flatten compares adjacent bars, and no two adjacent bars are on
\* opposite sides.
FlipNeverFires == ~flip

\* An entry trigger never fires against the permitted side of its own bar, and
\* never on an unconfirmed excursion of the score.
TriggerOnConfirmedSide ==
  /\ trigger = "LONG_TRIGGER" => bullRun >= HoldBars
  /\ trigger = "SHORT_TRIGGER" => bearRun >= HoldBars

\* The four together: sides and triggers follow the runs of scores exactly.
SidesFollowRuns ==
  TypeOK /\ SideIsConfirmed /\ SideIsPrompt /\ TriggerOnConfirmedSide

FamilyOf(b) ==
  IF b \in BullFamily THEN "BULL" ELSE IF b \in BearFamily THEN "BEAR" ELSE "NEUTRAL"

\* What the trade engine relies on: seen as families, the buckets of successive
\* bars walk through NEUTRAL.
Walk == INSTANCE BiasWalk WITH family <- FamilyOf(bucket)
ImplementsWalk == Walk!Spec
=============================================================================

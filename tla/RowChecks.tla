----------------------------- MODULE RowChecks -----------------------------
(***************************************************************************)
(* What one row of features is worth: the hard gates of                    *)
(* src/rs_spy/selection/gates.py, the scores of selection/scoring.py, the  *)
(* trigger reconfirmation of algo/long.py and algo/short.py, and the audit *)
(* of the gates (backtest/studies/gate_audit_m5.py).  Long and short are   *)
(* written twice in the code, by hand, and twice here.                     *)
(*                                                                         *)
(* RRS, volume ratios, headroom and deviations are counted in halves,      *)
(* streaks in days, points in 1/1200.  Missing (NaN) compares false with everything. *)
(***************************************************************************)
EXTENDS Integers

CONSTANTS
  Missing,
  RrsM5, RrsD1,        \* rrs_m5_threshold_*, rrs_d1_threshold_* (1.0), of both sides
  NotExtended          \* confirm_not_extended_atr_mult (1.0)

\* What the code has of its constants; MCSignals evaluates it.
RowConstants ==
  Missing \notin Int /\ RrsM5 \in Int /\ RrsD1 \in Int /\ NotExtended \in Nat

Number == Int \cup {Missing}
\* One row: over is close - vwap, extended close - ema8 in ATRs, gap is within 20%.
Row == [price : BOOLEAN, adv : BOOLEAN, blackout : BOOLEAN, wonder : BOOLEAN,
        gap : BOOLEAN, rrs_m5 : Number, rrs_qqq : Number, rrs_d1 : Number,
        ha : Number, stack : {"ABOVE_ALL", "BELOW_ALL", "MIXED", "None"},
        room_long : Number, room_short : Number, volume : Number, rvol : Number,
        over : Number, extended : Number, pc : Number, bench : Number,
        std : Number]

AtLeast(x, k) == x # Missing /\ x >= k
AtMost(x, k) == x # Missing /\ x <= k
Above(x, k) == x # Missing /\ x > k
Below(x, k) == x # Missing /\ x < k

\* Names of the rules an ablation may disable.
HardRules == {"rrs", "ha", "sma", "rrs_m5", "vwap"}
\* What d1_session leaves out of the gates a candidate must keep.
HoldDisabled == {"rrs_m5", "vwap", "one_candle_wonder"}

\* gates_pass_long and gates_pass_short: the daily gates.
Tradable(r) == r.price /\ r.adv /\ ~r.blackout
Roomy(room) == room = Missing \/ AtLeast(room, 2)

GatesLong(r, rrs, disabled) ==
  /\ Tradable(r)
  /\ "rrs" \in disabled \/ AtLeast(r.rrs_d1, rrs)
  /\ "ha" \in disabled \/ AtLeast(r.ha, 2)
  /\ "sma" \in disabled \/ r.stack = "ABOVE_ALL"
  /\ Roomy(r.room_long)
  /\ AtLeast(r.volume, 2)

GatesShort(r, rrs, disabled) ==
  /\ Tradable(r)
  /\ "rrs" \in disabled \/ AtMost(r.rrs_d1, -rrs)
  /\ "ha" \in disabled \/ AtMost(r.ha, -2)
  /\ "sma" \in disabled \/ r.stack = "BELOW_ALL"
  /\ Roomy(r.room_short)
  /\ AtLeast(r.volume, 2)

\* gates_pass_long_m5 and gates_pass_short_m5.  The crosscheck keeps its own
\* threshold, whatever the configuration says.
GatesLongM5(r, rrsM5, rrsD1, crosscheck, disabled) ==
  /\ GatesLong(r, rrsD1, disabled)
  /\ "rrs_m5" \in disabled \/ AtLeast(r.rrs_m5, rrsM5)
  /\ "vwap" \in disabled \/ Above(r.over, 0)
  /\ "one_candle_wonder" \in disabled \/ ~r.wonder
  /\ r.gap
  /\ crosscheck => AtLeast(r.rrs_qqq, 2)

GatesShortM5(r, rrsM5, rrsD1, crosscheck, disabled) ==
  /\ GatesShort(r, rrsD1, disabled)
  /\ "rrs_m5" \in disabled \/ AtMost(r.rrs_m5, -rrsM5)
  /\ "vwap" \in disabled \/ Below(r.over, 0)
  /\ "one_candle_wonder" \in disabled \/ ~r.wonder
  /\ r.gap
  /\ crosscheck => AtMost(r.rrs_qqq, -2)

\* The two the engine prepares, as _prepare_m5 calls them.
GateLong(r, crosscheck, disabled) == GatesLongM5(r, RrsM5, RrsD1, crosscheck, disabled)
GateShort(r, crosscheck, disabled) == GatesShortM5(r, RrsM5, RrsD1, crosscheck, disabled)
HoldLong(r, crosscheck, disabled) == GateLong(r, crosscheck, disabled \cup HoldDisabled)
HoldShort(r, crosscheck, disabled) == GateShort(r, crosscheck, disabled \cup HoldDisabled)

\* confirm_trigger_entry_*: the reconfirmation on the trigger bar.  (The variant has
\* the threshold of the specification, as the code once did.)
ConfirmLongAtDefault(r) ==
  AtLeast(r.rrs_m5, 2) /\ Above(r.over, 0) /\ AtMost(r.extended, NotExtended)
ConfirmLong(r) ==
  AtLeast(r.rrs_m5, RrsM5) /\ Above(r.over, 0) /\ AtMost(r.extended, NotExtended)
ConfirmShort(r) ==
  AtMost(r.rrs_m5, -RrsM5) /\ Below(r.over, 0) /\ AtLeast(r.extended, -NotExtended)

-----------------------------------------------------------------------------
\* _linear_score: points per half, between low and high.
Clip(x, low, high) == IF x < low THEN low ELSE IF x > high THEN high ELSE x
Linear(x, low, high, points) == points * (Clip(x, low, high) - low)

\* The components both cadences and both sides share: HA continuation, room and
\* consistency.  No resistance at all is full room.
HaScore(streak) == 4500 * Clip(streak, 0, 4)
RoomScore(room) == IF room = Missing THEN 12000 ELSE Linear(room, 2, 4, 6000)
SteadyScore(std) == IF std = Missing THEN 0 ELSE 6000 - 1500 * Clip(std, 0, 4)
\* Divergence from the benchmark, or else proportional strength.
Divergence(diverges, rrs) ==
  IF diverges THEN 18000 ELSE Linear(rrs, 2, 6, 2385)

Unscored(r) == Missing \in {r.rrs_d1, r.ha, r.volume}
ScoreLong(r) ==
  IF Unscored(r) THEN Missing
  ELSE Linear(r.rrs_d1, 2, 6, 13500) + HaScore(r.ha)
       + Divergence(Above(r.pc, 0) /\ AtMost(r.bench, 0), r.rrs_d1)
       + Linear(r.volume, 2, 4, 6000) + RoomScore(r.room_long) + SteadyScore(r.std)
ScoreShort(r) ==
  IF Unscored(r) THEN Missing
  ELSE Linear(-r.rrs_d1, 2, 6, 13500) + HaScore(-r.ha)
       + Divergence(Below(r.pc, 0) /\ AtLeast(r.bench, 0), -r.rrs_d1)
       + Linear(r.volume, 2, 4, 6000) + RoomScore(r.room_short) + SteadyScore(r.std)

\* score_long_m5, score_short_m5: bench is SPY's power index here.
UnscoredM5(r) == Missing \in {r.rrs_m5, r.rrs_d1, r.ha, r.rvol}
ScoreLongM5(r) ==
  IF UnscoredM5(r) THEN Missing
  ELSE Linear(r.rrs_m5, 2, 6, 7500) + Linear(r.rrs_d1, 1, 4, 8000) + HaScore(r.ha)
       + Divergence(Above(r.pc, 0) /\ AtMost(r.bench, -2), r.rrs_m5)
       + Linear(r.rvol, 2, 4, 6000) + RoomScore(r.room_long) + SteadyScore(r.std)
\* (The variant forgot one sign.)
ScoreShortM5Unsigned(r) ==
  IF UnscoredM5(r) THEN Missing
  ELSE Linear(-r.rrs_m5, 2, 6, 7500) + Linear(r.rrs_d1, 1, 4, 8000) + HaScore(-r.ha)
       + Divergence(Below(r.pc, 0) /\ AtLeast(r.bench, 2), -r.rrs_m5)
       + Linear(r.rvol, 2, 4, 6000) + RoomScore(r.room_short) + SteadyScore(r.std)
ScoreShortM5(r) ==
  IF UnscoredM5(r) THEN Missing
  ELSE Linear(-r.rrs_m5, 2, 6, 7500) + Linear(-r.rrs_d1, 1, 4, 8000) + HaScore(-r.ha)
       + Divergence(Below(r.pc, 0) /\ AtLeast(r.bench, 2), -r.rrs_m5)
       + Linear(r.rvol, 2, 4, 6000) + RoomScore(r.room_short) + SteadyScore(r.std)

-----------------------------------------------------------------------------
\* The audit: eleven gates one at a time, at the default thresholds, and the joint
\* gate without the configured ones.
AuditChecksLong(r) ==
  {r.price, r.adv, AtLeast(r.rrs_d1, 2), AtLeast(r.ha, 2), r.stack = "ABOVE_ALL",
   Roomy(r.room_long), AtLeast(r.volume, 2), AtLeast(r.rrs_m5, 2), Above(r.over, 0),
   ~r.wonder, r.gap}
AuditChecksShort(r) ==
  {r.price, r.adv, AtMost(r.rrs_d1, -2), AtMost(r.ha, -2), r.stack = "BELOW_ALL",
   Roomy(r.room_short), AtLeast(r.volume, 2), AtMost(r.rrs_m5, -2), Below(r.over, 0),
   ~r.wonder, r.gap}
AuditLong(r, crosscheck, disabled) == GatesLongM5(r, 2, 2, crosscheck, disabled)
AuditShort(r, crosscheck, disabled) == GatesShortM5(r, 2, 2, crosscheck, disabled)
=============================================================================

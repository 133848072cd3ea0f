--------------------------- MODULE WatchlistRules ---------------------------
(***************************************************************************)
(* The per-symbol watchlist of src/rs_spy/selection/watchlist.py and the   *)
(* way run_m5_backtest drives it (step 3 of the bar loop), for one symbol  *)
(* of one book.  next_state_long and next_state_short are the same machine *)
(* with the crossing turned round, so one set of operators serves both.    *)
(* Module Watchlist runs it alone, EngineM5 inside the engine.             *)
(***************************************************************************)
EXTENDS Integers

CONSTANTS
  Mode,         \* dip_hold_mode
  GraceBars     \* dip_hold_grace_bars

ASSUME WatchlistConstants ==
  /\ Mode \in {"strict", "d1_session", "grace"}
  /\ GraceBars \in Nat

WatchStates == {"IDLE", "QUALIFIED", "DIP_ARMED", "ENTRY_EVAL"}
Paths == {"none", "A", "B"}      \* entry_path: no key, via trigger, via dip

\* What one symbol keeps between bars: the state, gate_fail_streak and
\* entry_path.  The last two survive a return to IDLE and a new session.
Watch == [st: WatchStates, streak: Nat, path: Paths]
Unwatched == [st |-> "IDLE", streak |-> 0, path |-> "none"]

\* What one bar says of a symbol.  score: below min_hold_score (or NaN),
\* between it and min_list_score, or above; gate: the full gates; hold: the
\* gates without the intraday ones, which pass whenever the full ones do;
\* crossed: RRS or LRSI crossed back this bar.
Scores == {"below", "hold", "list"}
Readings ==
  {r \in [gate: BOOLEAN, hold: BOOLEAN, score: Scores, crossed: BOOLEAN] :
     r.gate => r.hold}
\* A bar the symbol did not print: gates reindexed to False, score NaN.
NoBar == [gate |-> FALSE, hold |-> FALSE, score |-> "below", crossed |-> FALSE]

StreakAfter(w, r) ==
  IF Mode # "grace" THEN w.streak
  ELSE IF r.gate THEN 0 ELSE w.streak + 1

\* Whether a candidate keeps its place on this bar.
HoldsOneMore(r, streak) ==
  /\ r.score # "below"
  /\ CASE Mode = "strict"     -> r.gate
       [] Mode = "d1_session" -> r.hold
       [] Mode = "grace"      -> r.gate \/ streak <= GraceBars + 1
HoldsOnAnyScore(r, streak) ==
  CASE Mode = "strict"     -> r.gate
    [] Mode = "d1_session" -> r.hold
    [] Mode = "grace"      -> r.gate \/ streak <= GraceBars
Holds(r, streak) ==
  /\ r.score # "below"
  /\ CASE Mode = "strict"     -> r.gate
       [] Mode = "d1_session" -> r.hold
       [] Mode = "grace"      -> r.gate \/ streak <= GraceBars

\* next_state_long / next_state_short
NextStateRearms(st, r, holds) ==
  CASE st = "IDLE" ->
         IF r.gate /\ r.score = "list" THEN "QUALIFIED" ELSE "IDLE"
    [] st # "IDLE" /\ ~holds -> "IDLE"
    [] st = "QUALIFIED" /\ holds -> IF r.crossed THEN "DIP_ARMED" ELSE "QUALIFIED"
    [] st = "DIP_ARMED" /\ holds -> "ENTRY_EVAL"
    [] st = "ENTRY_EVAL" /\ holds -> "DIP_ARMED"
NextState(st, r, holds) ==
  CASE st = "IDLE" ->
         IF r.gate /\ r.score = "list" THEN "QUALIFIED" ELSE "IDLE"
    [] st # "IDLE" /\ ~holds -> "IDLE"
    [] st = "QUALIFIED" /\ holds -> IF r.crossed THEN "DIP_ARMED" ELSE "QUALIFIED"
    [] st = "DIP_ARMED" /\ holds -> "ENTRY_EVAL"
    [] st = "ENTRY_EVAL" /\ holds -> "QUALIFIED"

\* The first loop of step 3 for one symbol.
Observe(w, r) ==
  LET streak == StreakAfter(w, r)
      st == NextState(w.st, r, Holds(r, streak))
  IN  [st |-> st,
       streak |-> streak,
       path |-> IF w.st = "QUALIFIED" /\ st = "DIP_ARMED" THEN "B" ELSE w.path]

\* The trigger loop for one symbol: what a matching trigger does to it, and the
\* counter that says so.
BypassUnheld(w, r, biasOk) ==
  IF w.st # "QUALIFIED" THEN "untouched"
  ELSE IF ~r.gate THEN "killed_by_gate" ELSE "bypass"
TriggerOutcome(w, r, biasOk) ==
  IF w.st # "QUALIFIED" THEN "untouched"
  ELSE IF ~biasOk THEN "killed_by_bias_hold"
  ELSE IF ~r.gate THEN "killed_by_gate" ELSE "bypass"

TriggeredKeepsPath(w, r, biasOk) ==
  IF TriggerOutcome(w, r, biasOk) = "bypass"
  THEN [w EXCEPT !.st = "ENTRY_EVAL"] ELSE w
Triggered(w, r, biasOk) ==
  IF TriggerOutcome(w, r, biasOk) = "bypass"
  THEN [w EXCEPT !.st = "ENTRY_EVAL", !.path = "A"] ELSE w

\* A new session: only the d1_session mode starts over.
SessionOpen(w) == IF Mode = "d1_session" THEN [w EXCEPT !.st = "IDLE"] ELSE w
=============================================================================

----------------------------- MODULE RiskGuards -----------------------------
(***************************************************************************)
(* The account-level guards of src/rs_spy/algo/risk.py: RiskManager as a   *)
(* record and one operator per method.  The order book (OrderBook) embeds  *)
(* the record; RiskManager drives it alone against a history of exits.     *)
(*                                                                         *)
(* haltUntil = 0 stands for the None of halt_until_bar: both make          *)
(* "bar_index < halt_until_bar" false for every bar index.                 *)
(***************************************************************************)
EXTENDS Integers

CONSTANTS
  StopoutLimit,     \* CONSECUTIVE_STOPOUT_LIMIT (3)
  HaltBars,         \* CONSECUTIVE_STOPOUT_HALT_BARS (24 five-minute bars)
  DailyLossPct,     \* -DAILY_LOSS_LIMIT_PCT, in percent (2)
  WeeklyLossPct     \* -WEEKLY_LOSS_LIMIT_PCT, in percent (4)

ASSUME RiskConstants ==
  /\ StopoutLimit \in Nat \ {0}
  /\ HaltBars \in Nat
  /\ DailyLossPct \in Nat
  /\ WeeklyLossPct \in Nat

RiskState ==
  [today: Int, week: Int, consec: Nat, haltUntil: Nat,
   daily: BOOLEAN, weekly: BOOLEAN]

FreshRisk(start) ==
  [today |-> start, week |-> start, consec |-> 0, haltUntil |-> 0,
   daily |-> FALSE, weekly |-> FALSE]

CanEnter(r, i) == ~r.daily /\ ~r.weekly /\ i >= r.haltUntil

\* (equity - start) / start <= -pct/100, for a positive start
LossLimitHit(equity, start, pct) == 100 * (equity - start) <= -(pct * start)

RegisterExit(r, equity, reason, i) ==
  LET stops == IF reason = "hard_stop" THEN r.consec + 1 ELSE 0
  IN  [today |-> r.today,
       week |-> r.week,
       consec |-> stops,
       haltUntil |-> IF stops >= StopoutLimit THEN i + HaltBars ELSE r.haltUntil,
       daily |-> IF LossLimitHit(equity, r.today, DailyLossPct)
                 THEN TRUE ELSE r.daily,
       weekly |-> IF LossLimitHit(equity, r.week, WeeklyLossPct)
                  THEN TRUE ELSE r.weekly]

\* The variant of new_session forgives the week, too.
NewSessionClearsWeek(r, equity) ==
  [r EXCEPT !.today = equity, !.consec = 0, !.haltUntil = 0, !.daily = FALSE,
            !.weekly = FALSE]
NewSession(r, equity) ==
  [today |-> equity, week |-> r.week, consec |-> 0, haltUntil |-> 0,
   daily |-> FALSE, weekly |-> r.weekly]

NewWeek(r, equity) ==
  [today |-> r.today, week |-> equity, consec |-> r.consec,
   haltUntil |-> r.haltUntil, daily |-> r.daily, weekly |-> FALSE]

\* The engine's calendar rollover: a new week always starts a new session too,
\* and new_session is called before new_week.
Rollover(r, roll, equity) ==
  CASE roll = "none"    -> r
    [] roll = "session" -> NewSession(r, equity)
    [] roll = "week"    -> NewWeek(NewSession(r, equity), equity)
=============================================================================

---------------------------- MODULE RiskManager ----------------------------
(***************************************************************************)
(* RiskManager (src/rs_spy/algo/risk.py) driven by the engine's calls:     *)
(* new_session / new_week at calendar boundaries and register_exit after   *)
(* every closed trade.  The variable "risk" is the program's object, which *)
(* keeps only counters and flags; "exits" is a history variable, the list  *)
(* of this week's exits, from which the properties recompute what the      *)
(* guards must say.                                                        *)
(***************************************************************************)
EXTENDS RiskGuards, Sequences

CONSTANTS
  StartingEquity,
  Pnls,             \* bound: the profits and losses a trade may book
  MaxBars,          \* bound: the last bar index
  MaxExits          \* bound: exits remembered in one week

\* What the code has of its constants; MCTrades evaluates it.
RiskManagerConstants ==
  /\ StopoutLimit \in Nat \ {0} /\ HaltBars \in Nat
  /\ DailyLossPct \in Nat /\ WeeklyLossPct \in Nat
  /\ StartingEquity \in Nat \ {0}
  /\ Pnls \subseteq Int
  /\ MaxBars \in Nat
  /\ MaxExits \in Nat

VARIABLES risk, equity, bar, session, exits

vars == <<risk, equity, bar, session, exits>>

Reasons == {"hard_stop", "trail_stop"}

Init ==
  /\ risk = FreshRisk(StartingEquity)
  /\ equity = StartingEquity
  /\ bar = 0
  /\ session = 0
  /\ exits = <<>>

Close(pnl, reason) ==
  /\ Len(exits) < MaxExits
  /\ equity + pnl > 0
  /\ equity' = equity + pnl
  /\ risk' = RegisterExit(risk, equity + pnl, reason, bar)
  /\ exits' = Append(exits, [equity |-> equity + pnl, bar |-> bar,
                             stop |-> (reason = "hard_stop"),
                             session |-> session])
  /\ UNCHANGED <<bar, session>>

NextBar(roll) ==
  /\ bar < MaxBars
  /\ bar' = bar + 1
  /\ risk' = Rollover(risk, roll, equity)
  /\ session' = IF roll = "none" THEN session ELSE session + 1
  /\ exits' = IF roll = "week" THEN <<>> ELSE exits
  /\ UNCHANGED equity

Next ==
  \/ \E pnl \in Pnls, reason \in Reasons : Close(pnl, reason)
  \/ \E roll \in {"none", "session", "week"} : NextBar(roll)

Spec == Init /\ [][Next]_vars

-----------------------------------------------------------------------------
TypeOK ==
  /\ risk \in RiskState
  /\ equity \in Int
  /\ bar \in Nat
  /\ session \in Nat
  /\ exits \in Seq([equity: Int, bar: Nat, stop: BOOLEAN, session: Nat])

Today == {k \in DOMAIN exits : exits[k].session = session}

\* Exit k completes a run of StopoutLimit hard stops with nothing between them.
EndsStopoutRun(k) ==
  /\ k >= StopoutLimit
  /\ \A j \in (k - StopoutLimit + 1)..k : j \in Today /\ exits[j].stop

\* The daily flag remembers the worst point of the session: it is set exactly
\* when some exit of this session left the account at or below the daily loss
\* limit, whatever was won back since.
DailyHaltExact ==
  risk.daily <=> \E k \in Today :
                    LossLimitHit(exits[k].equity, risk.today, DailyLossPct)

\* The weekly flag does the same over the week, across session boundaries that
\* reset every other guard.
WeeklyHaltExact ==
  risk.weekly <=> \E k \in DOMAIN exits :
                    LossLimitHit(exits[k].equity, risk.week, WeeklyLossPct)

\* The stop-out pause covers exactly the HaltBars bars that follow an exit that
\* ended a run of consecutive hard stops of this session: a later winning exit
\* resets the run but does not lift a pause already running.
StopoutPauseExact ==
  (bar < risk.haltUntil)
    <=> \E k \in Today : EndsStopoutRun(k) /\ bar < exits[k].bar + HaltBars

\* The three guards together: at every moment the counters and flags the object
\* keeps say what the week's exits justify, no more and no less.
HaltsExact == TypeOK /\ DailyHaltExact /\ WeeklyHaltExact /\ StopoutPauseExact
=============================================================================

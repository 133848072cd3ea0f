----------------------------- MODULE Watchlist -----------------------------
(***************************************************************************)
(* The watchlist of one book of the M5 engine, bar by bar: step 3 of       *)
(* run_m5_backtest (src/rs_spy/backtest/engine_m5.py), with its part of    *)
(* the funnel.  A bar is StartBar, Update (the loop over the universe) and *)
(* then Trigger when the bias engine raises the book's trigger.  The two   *)
(* books run the same code on their own dicts and never read each other.   *)
(***************************************************************************)
EXTENDS Integers, FiniteSets

CONSTANTS
  Symbols,      \* universe_m5
  GraceBars,    \* dip_hold_grace_bars
  MaxBars       \* bound: length of the calendar

ASSUME WatchlistBounds ==
  IsFiniteSet(Symbols) /\ GraceBars \in Nat /\ MaxBars \in Nat

VARIABLES
  mode,         \* dip_hold_mode: chosen when the run starts, then fixed
  bar, phase,
  watch,        \* state_*, gate_fail_streak_*, entry_path_* per symbol
  reading,      \* what this bar says of each symbol
  qualified, armed, viaDip,       \* funnel: *_qualified_signals, *_dip_armed,
                                  \* *_entry_eval_via_dip
  coincidences, killedByBias, killedByGate, bypassed,   \* *_trigger_*
  admitted,     \* history: symbols that left IDLE this session on full gates
                \* and a list score
  sinceGreen    \* history: bars since the full gates last passed, up to
                \* GraceBars + 1

funnel == <<qualified, armed, viaDip, coincidences, killedByBias, killedByGate,
            bypassed>>
vars == <<mode, bar, phase, watch, reading, funnel, admitted, sinceGreen>>

INSTANCE WatchlistRules WITH Mode <- mode

In(st) == {s \in Symbols : watch[s].st = st}
\* Symbols that move from state a to state b in this step.
Moved(a, b) == {s \in Symbols : watch[s].st = a /\ watch'[s].st = b}

Init ==
  /\ mode \in {"strict", "d1_session", "grace"}
  /\ bar = 0
  /\ phase = "next_bar"
  /\ watch = [s \in Symbols |-> Unwatched]
  /\ reading = [s \in Symbols |-> NoBar]
  /\ qualified = 0 /\ armed = 0 /\ viaDip = 0
  /\ coincidences = 0 /\ killedByBias = 0 /\ killedByGate = 0 /\ bypassed = 0
  /\ admitted = {}
  /\ sinceGreen = [s \in Symbols |-> GraceBars + 1]

\* Step 0's part: a new session may reset the states.
StartBar ==
  /\ phase = "next_bar"
  /\ bar < MaxBars
  /\ phase' = "update"
  /\ \/ /\ bar > 0
        /\ UNCHANGED <<watch, admitted>>
     \/ /\ watch' = [s \in Symbols |-> SessionOpen(watch[s])]
        /\ admitted' = {}
  /\ UNCHANGED <<mode, bar, reading, funnel, sinceGreen>>

GreenAge(s, r) ==
  IF r.gate THEN 0
  ELSE IF sinceGreen[s] > GraceBars THEN sinceGreen[s] ELSE sinceGreen[s] + 1

\* The loop over the universe: every symbol reads its bar and moves once.
Update ==
  /\ phase = "update"
  /\ \E bars \in [Symbols -> Readings] :
       /\ reading' = bars
       /\ watch' = [s \in Symbols |-> Observe(watch[s], bars[s])]
       /\ sinceGreen' = [s \in Symbols |-> GreenAge(s, bars[s])]
       /\ admitted' = admitted \cup
            {s \in Moved("IDLE", "QUALIFIED") :
               bars[s].gate /\ bars[s].score = "list"}
  /\ qualified' = qualified + Cardinality(Moved("IDLE", "QUALIFIED"))
  /\ armed' = armed + Cardinality(Moved("QUALIFIED", "DIP_ARMED"))
  /\ viaDip' = viaDip + Cardinality(Moved("DIP_ARMED", "ENTRY_EVAL"))
  /\ phase' = "trigger"
  /\ UNCHANGED <<mode, bar, coincidences, killedByBias, killedByGate, bypassed>>

\* A bar with the book's trigger: the QUALIFIED symbols with green gates go
\* straight to ENTRY_EVAL, if the bias hold allows.
Trigger ==
  /\ phase = "trigger"
  /\ \E biasOk \in BOOLEAN :
       LET Ending(outcome) ==
             {s \in Symbols :
                TriggerOutcome(watch[s], reading[s], biasOk) = outcome}
       IN
       /\ watch' = [s \in Symbols |-> Triggered(watch[s], reading[s], biasOk)]
       /\ coincidences' = coincidences + Cardinality(In("QUALIFIED"))
       /\ killedByBias' =
            killedByBias + Cardinality(Ending("killed_by_bias_hold"))
       /\ killedByGate' = killedByGate + Cardinality(Ending("killed_by_gate"))
       /\ bypassed' = bypassed + Cardinality(Ending("bypass"))
  /\ phase' = "evaluate"
  /\ UNCHANGED <<mode, bar, reading, qualified, armed, viaDip, admitted, sinceGreen>>

NoTrigger ==
  /\ phase = "trigger"
  /\ phase' = "evaluate"
  /\ UNCHANGED <<mode, bar, watch, reading, funnel, admitted, sinceGreen>>

\* Step 4 reads the states and changes none of them.
EndBar ==
  /\ phase = "evaluate"
  /\ bar' = bar + 1
  /\ phase' = "next_bar"
  /\ reading' = [s \in Symbols |-> NoBar]
  /\ UNCHANGED <<mode, watch, funnel, admitted, sinceGreen>>

Finished == phase = "next_bar" /\ bar = MaxBars /\ UNCHANGED vars

Next == StartBar \/ Update \/ Trigger \/ NoTrigger \/ EndBar \/ Finished

Spec == Init /\ [][Next]_vars

-----------------------------------------------------------------------------
TypeOK ==
  /\ mode \in {"strict", "d1_session", "grace"}
  /\ bar \in Nat
  /\ phase \in {"next_bar", "update", "trigger", "evaluate"}
  /\ watch \in [Symbols -> Watch]
  /\ reading \in [Symbols -> Readings]
  /\ qualified \in Nat /\ armed \in Nat /\ viaDip \in Nat
  /\ coincidences \in Nat /\ killedByBias \in Nat /\ killedByGate \in Nat
  /\ bypassed \in Nat
  /\ admitted \subseteq Symbols
  /\ sinceGreen \in [Symbols -> 0..(GraceBars + 1)]

\* What an entry stands on when step 4 evaluates it: the score has not fallen
\* below the hold threshold, and the gates are as recent as the mode promises
\* -- green on this bar, D1-green on this bar, or green within the last
\* GraceBars bars.  A trigger entry needs the full gates of this very bar in
\* every mode.
EvalIsGrounded ==
  phase = "evaluate" =>
    \A s \in In("ENTRY_EVAL") :
      /\ reading[s].score # "below"
      /\ mode = "strict" => reading[s].gate
      /\ mode = "d1_session" => reading[s].hold
      /\ mode = "grace" => sinceGreen[s] <= GraceBars
      /\ watch[s].path = "A" => reading[s].gate

\* In d1_session mode no candidacy crosses the night: a symbol on the list was
\* admitted through the full gates in this very session.
AdmittedThisSession ==
  (mode = "d1_session" /\ phase # "next_bar") =>
    \A s \in Symbols : watch[s].st # "IDLE" => s \in admitted

\* entry_path is never cleared, so it must be rewritten on every way into
\* ENTRY_EVAL: it decides which quality check step 4 applies.
PathMatchesRoute ==
  [][ \A s \in Symbols :
        (watch[s].st # "ENTRY_EVAL" /\ watch'[s].st = "ENTRY_EVAL")
          => watch'[s].path = (IF watch[s].st = "DIP_ARMED" THEN "B" ELSE "A") ]_vars

\* A coincidence killed by the gate is "only reachable in the d1_session/grace
\* dip-hold modes, where a symbol can be QUALIFIED while its full gate is
\* False" (the comment on the funnel): in strict mode none is counted, and in
\* every mode each coincidence is counted under one outcome.
TriggerFunnel ==
  /\ mode = "strict" => killedByGate = 0
  /\ coincidences = killedByBias + killedByGate + bypassed

\* The dip counters never run ahead of the states: every symbol evaluated via a
\* dip was armed first and every candidate qualified first, so what waits in
\* DIP_ARMED, and what is on the list at all, is covered by the counters.
DipFunnel ==
  /\ viaDip + Cardinality(In("DIP_ARMED")) <= armed
  /\ Cardinality(Symbols \ In("IDLE")) <= qualified

\* What reaches step 4 is what it may judge: grounded in gates and, where
\* sessions start over, in this session; and the funnel adds up with the states
\* it describes.
CandidatesGrounded ==
  TypeOK /\ EvalIsGrounded /\ AdmittedThisSession /\ TriggerFunnel /\ DipFunnel
=============================================================================

------------------------------ MODULE EngineM5 ------------------------------
(***************************************************************************)
(* The M5 bar loop whole: the order book of OrderBook with the watchlist   *)
(* of WatchlistRules in the place of its abstract UpdateWatchlist (step 3  *)
(* of run_m5_backtest, src/rs_spy/backtest/engine_m5.py).  Every other     *)
(* step is OrderBook's own action.                                         *)
(***************************************************************************)
EXTENDS OrderBook, WatchlistRules

VARIABLE watch        \* state_*, gate_fail_streak_*, entry_path_*, per book

engineVars == <<vars, watch>>

Books == IF ShortsEnabled THEN Dir ELSE {"LONG"}

EngineInit ==
  /\ Init
  /\ watch = [d \in Dir |-> [s \in Symbols |-> Unwatched]]

\* Step 0: a new session may reset the watchlist states of both books.
EngineStartBar ==
  /\ StartBar
  /\ watch' = IF now'.roll = "none" THEN watch
              ELSE [d \in Dir |-> [s \in Symbols |-> SessionOpen(watch[d][s])]]

\* What the bar says of every symbol of the active books: nothing for a symbol
\* that did not print.
BarReadings ==
  {f \in [Books -> [Symbols -> Readings]] :
     \A d \in Books, s \in Symbols \ now.prints : f[d][s] = NoBar}

\* Step 3: the loop over the universe and the trigger loops.  The bias engine
\* raises a book's trigger only on a bar of the book's family (BiasBuckets).
AfterBar(d, s, r, trigger) ==
  IF d \notin Books THEN watch[d][s]
  ELSE IF trigger = d THEN Triggered(Observe(watch[d][s], r), r, d \in now.ok)
  ELSE Observe(watch[d][s], r)

WatchTheBar ==
  /\ phase = "close"
  /\ \A s \in Symbols : closing[s] = "none"
  /\ \E trigger \in Books \cup {"NONE"}, readings \in BarReadings :
       /\ trigger = "LONG" => now.bias = "BULL"
       /\ trigger = "SHORT" => now.bias = "BEAR"
       /\ watch' = [d \in Dir |-> [s \in Symbols |->
                      AfterBar(d, s, IF d \in Books THEN readings[d][s] ELSE NoBar,
                               trigger)]]
  /\ signal' = [d \in Dir |-> {s \in Symbols : watch'[d][s].st = "ENTRY_EVAL"}]
  /\ phase' = "submit_LONG"
  /\ UNCHANGED <<bar, now, bookVars, risk, equity, todo, closing, tally,
                 flowVars>>

EngineNext ==
  \/ EngineStartBar
  \/ WatchTheBar
  \/ /\ \/ \E s \in Symbols : FillOne(s)
        \/ Manage
        \/ \E s \in Symbols : CloseOne(s)
        \/ \E d \in Dir : Submit(d)
        \/ EndBar
        \/ Finished
     /\ UNCHANGED watch

EngineSpec == EngineInit /\ [][EngineNext]_engineVars

-----------------------------------------------------------------------------
WatchTypeOK == watch \in [Dir -> [Symbols -> Watch]]

\* The engine is an order book: its watchlist only ever signals symbols that
\* printed the bar, and never for shorts when they are off.  What is proved of
\* OrderBook holds of the engine.
ImplementsOrderBook == Spec

\* A signal raised by the trigger is never turned away by the bias check of
\* step 4: the bias hold was already asked in the trigger loop, so a killed
\* trigger is counted once, under trigger_killed_by_bias_hold.
TriggerSignalsArePermitted ==
  \A d \in Dir :
    phase = SubmitPhase(d) =>
      \A s \in signal[d] : watch[d][s].path = "A" => d \in now.ok
=============================================================================

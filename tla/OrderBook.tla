----------------------------- MODULE OrderBook -----------------------------
(***************************************************************************)
(* Orders, positions and account guards of the M5 backtest engine:         *)
(* run_m5_backtest in src/rs_spy/backtest/engine_m5.py, steps 0 (session   *)
(* rollover), 1 (fill pending entries), 2 (manage and close positions) and *)
(* 4 (submit entries) of the bar loop.  Step 3, the watchlist, is the      *)
(* module Watchlist; here it is one action, UpdateWatchlist, that hands    *)
(* over any set of symbols in ENTRY_EVAL.                                  *)
(*                                                                         *)
(* One bar is: StartBar, then FillOne for every pending order, Manage,     *)
(* CloseOne for every position to close, UpdateWatchlist, Submit("LONG"),  *)
(* Submit("SHORT").  Prices are abstracted to what they decide: whether a  *)
(* symbol printed a bar, whether the bar reaches the limit, which exit     *)
(* rule fires and what the trade earns.  The order in which a Python dict  *)
(* is walked is abstracted to any order.                                   *)
(***************************************************************************)
EXTENDS RiskGuards, BiasFamily, FiniteSets

CONSTANTS
  Symbols,              \* universe_m5
  MaxConcurrentLong, MaxConcurrentShort,
  MaxEntriesLong, MaxEntriesShort,      \* max_entries_per_symbol_*
  CancelBars,           \* unfilled_cancel_bars
  ShortsEnabled,        \* shorts_enabled
  BiasGateEnabled,      \* "bias" is not in disabled_gates
  Sector,               \* sectors: symbol -> sector
  TopList, TopTradeable, MaxPerSector,  \* top_n_list, top_n_tradeable, ...
  StartingEquity,
  Pnls,                 \* bound: the profits and losses a trade may book
  MaxBars               \* bound: length of the calendar

ASSUME OrderBookConstants ==
  /\ IsFiniteSet(Symbols)
  /\ MaxConcurrentLong \in Nat /\ MaxConcurrentShort \in Nat
  /\ MaxEntriesLong \in Nat /\ MaxEntriesShort \in Nat
  /\ CancelBars \in Nat
  /\ ShortsEnabled \in BOOLEAN /\ BiasGateEnabled \in BOOLEAN
  /\ TopList \in Nat /\ TopTradeable \in Nat /\ MaxPerSector \in Nat
  /\ StartingEquity \in Nat \ {0}
  /\ Pnls \subseteq Int
  /\ MaxBars \in Nat

VARIABLES
  bar,            \* i, the calendar index
  phase,          \* where in the body of the bar loop the program is
  now,            \* what this bar brings: the inputs several steps read
  order,          \* pending: symbol -> entry order, or NoOrder
  position,       \* positions: symbol -> open position, or NoPosition
  entriesToday,   \* entries_today_long / entries_today_short
  lockedOut,      \* locked_out_long / locked_out_short
  risk, equity,   \* risk_mgr, equity
  todo,           \* pending orders the fill loop has not visited yet
  closing,        \* to_close: symbol -> exit reason, or "none"
  signal,         \* symbols whose watchlist state is ENTRY_EVAL, per book
  tally,          \* what this bar adds to the funnel's eval_* counters
  submitted, filled, cancelled,   \* the funnel's orders_* counters
  trades          \* length of the trade list, per direction

bookVars == <<order, position, entriesToday, lockedOut>>
flowVars == <<submitted, filled, cancelled, trades>>
vars == <<bar, phase, now, bookVars, risk, equity, todo, closing, signal,
          tally, flowVars>>

-----------------------------------------------------------------------------
Dir == {"LONG", "SHORT"}
Side == Dir \cup {"NONE"}

MaxConcurrent(d) == IF d = "LONG" THEN MaxConcurrentLong ELSE MaxConcurrentShort
MaxEntries(d) == IF d = "LONG" THEN MaxEntriesLong ELSE MaxEntriesShort

NoOrder == [dir |-> "NONE", waited |-> 0]
NewOrder(d) == [dir |-> d, waited |-> 0]
NoPosition == [dir |-> "NONE", engaged |-> FALSE]
NewPosition(d) == [dir |-> d, engaged |-> FALSE]

Pending(d) == {s \in Symbols : order[s].dir = d}
Held(d) == {s \in Symbols : position[s].dir = d}
\* Symbols that occupy a slot of book d: held, or claimed by a pending entry.
Exposure(d) == Pending(d) \cup Held(d)

\* Time of day (US/Eastern): before the warmup cutoff, in the entry window (up
\* to 15:30), after it, and from 15:55 (TIME_FLAT) on.
Times == {"warmup", "window", "late", "flat"}
TimeRank == [t \in Times |->
               CASE t = "warmup" -> 0 [] t = "window" -> 1
                 [] t = "late" -> 2   [] t = "flat" -> 3]

\* bias_ok_long / bias_ok_short on a bar of family b: the hold of
\* bias_hold_bars and the D1 regime may still say no.
BiasAllows(ok, b) ==
  IF BiasGateEnabled
  THEN /\ "LONG" \in ok => b = "BULL"
       /\ "SHORT" \in ok => b = "BEAR"
  ELSE ok = Dir

InEntryWindow == now.time = "window"
CanEnterNow == CanEnter(risk, bar) /\ InEntryWindow

Outcomes == {"window", "halt", "bias", "lockout", "quality", "ranking",
             "slots", "sizing", "submitted"}
NoTally == [o \in Outcomes |-> 0]
TallySum(t) ==
  t["window"] + t["halt"] + t["bias"] + t["lockout"] + t["quality"]
    + t["ranking"] + t["slots"] + t["sizing"] + t["submitted"]

-----------------------------------------------------------------------------
Init ==
  /\ bar = 0
  /\ phase = "next_bar"
  /\ now = [roll |-> "none", time |-> "warmup", bias |-> "NEUTRAL",
            flip |-> FALSE, prints |-> {}, ok |-> {}]
  /\ order = [s \in Symbols |-> NoOrder]
  /\ position = [s \in Symbols |-> NoPosition]
  /\ entriesToday = [d \in Dir |-> [s \in Symbols |-> 0]]
  /\ lockedOut = [d \in Dir |-> {}]
  /\ risk = FreshRisk(StartingEquity)
  /\ equity = StartingEquity
  /\ todo = {}
  /\ closing = [s \in Symbols |-> "none"]
  /\ signal = [d \in Dir |-> {}]
  /\ tally = [d \in Dir |-> NoTally]
  /\ submitted = [d \in Dir |-> 0]
  /\ filled = [d \in Dir |-> 0]
  /\ cancelled = [d \in Dir |-> 0]
  /\ trades = [d \in Dir |-> 0]

\* Step 0: read the bar, roll the session and the week.  The bias walks as
\* BiasBuckets promises (BiasWalk), and flip_flatten is what it makes of two
\* adjacent bars.  The first bar of the
\* calendar rolls both (prev_session and prev_week are None).  Pending orders
\* and positions are not touched by a rollover.
Rolls == {"none", "session", "week"}

Opens(roll, t, b, flip, prints, ok) ==
  /\ bar = 0 => roll = "week"
  /\ roll = "none" => TimeRank[t] >= TimeRank[now.time]
  /\ b \in Successors(now.bias)
  /\ flip => Opposite(now.bias, b)
  /\ BiasAllows(ok, b)
  /\ now' = [roll |-> roll, time |-> t, bias |-> b, flip |-> flip,
             prints |-> prints, ok |-> ok]
  /\ risk' = Rollover(risk, roll, equity)
  /\ entriesToday' = IF roll = "none" THEN entriesToday
                     ELSE [d \in Dir |-> [s \in Symbols |-> 0]]
  /\ lockedOut' = IF roll = "none" THEN lockedOut ELSE [d \in Dir |-> {}]

StartBar ==
  /\ phase = "next_bar"
  /\ bar < MaxBars
  /\ \E roll \in Rolls, t \in Times, b \in Families, flip \in BOOLEAN,
        prints \in SUBSET Symbols, ok \in SUBSET Dir :
       Opens(roll, t, b, flip, prints, ok)
  /\ todo' = Pending("LONG") \cup Pending("SHORT")
  /\ phase' = "fill"
  /\ UNCHANGED <<bar, order, position, equity, closing, signal, tally,
                 flowVars>>

\* Step 1, an order whose limit the bar reaches (try_fill_entry): it becomes a
\* position and counts as an entry of the day.
Fill(s) ==
  LET d == order[s].dir IN
  /\ s \in now.prints
  /\ position' = [position EXCEPT ![s] = NewPosition(d)]
  /\ order' = [order EXCEPT ![s] = NoOrder]
  /\ entriesToday' = [entriesToday EXCEPT ![d][s] = @ + 1]
  /\ filled' = [filled EXCEPT ![d] = @ + 1]
  /\ UNCHANGED cancelled

\* Step 1, an order that is not filled, because the symbol has no bar or the
\* bar does not reach the limit: it waits, and is cancelled when it has waited
\* unfilled_cancel_bars bars.
WaitCancelUncounted(s) ==
  LET d == order[s].dir
      waited == order[s].waited + 1 IN
  /\ order' = [order EXCEPT ![s] = IF waited >= CancelBars THEN NoOrder
                                   ELSE [dir |-> d, waited |-> waited]]
  /\ UNCHANGED <<cancelled, position, entriesToday, filled>>
Wait(s) ==
  LET d == order[s].dir
      waited == order[s].waited + 1 IN
  /\ IF waited >= CancelBars
     THEN /\ order' = [order EXCEPT ![s] = NoOrder]
          /\ cancelled' = [cancelled EXCEPT ![d] = @ + 1]
     ELSE /\ order' = [order EXCEPT ![s] = [dir |-> d, waited |-> waited]]
          /\ UNCHANGED cancelled
  /\ UNCHANGED <<position, entriesToday, filled>>

FillOne(s) ==
  /\ phase = "fill"
  /\ s \in todo
  /\ todo' = todo \ {s}
  /\ Fill(s) \/ Wait(s)
  /\ UNCHANGED <<bar, phase, now, lockedOut, risk, equity, closing, signal,
                 tally, submitted, trades>>

\* What the exit rules of step 2 may decide for a position of a symbol that
\* printed this bar: a reason to close, or "engage" / "hold" to keep it (with
\* the trailing stop engaged, or as it was).  A stop hit by a position whose
\* trail engaged is a managed exit, not a stop-out.  A short is closed on any
\* bar of the BULL family; a long only on a confirmed flip to BEAR.  From 15:55
\* on nothing is kept.
StopReasonOfD1Engine(p) == "stop"
StopReason(p) == IF p.engaged THEN "trail_stop" ELSE "hard_stop"

VerdictsFlatOptional(p) ==
  {StopReason(p)} \cup
  (IF p.dir = "SHORT" THEN {"squeeze_guard"} ELSE {}) \cup
  (IF \/ p.dir = "LONG" /\ now.flip /\ now.bias = "BEAR"
      \/ p.dir = "SHORT" /\ now.bias = "BULL"
   THEN {"market_flip"}
   ELSE {"rs_failure", "vwap_loss", "profit_take", "time_flat", "engage", "hold"})
Verdicts(p) ==
  {StopReason(p)} \cup
  (IF p.dir = "SHORT" THEN {"squeeze_guard"} ELSE {}) \cup
  (IF \/ p.dir = "LONG" /\ now.flip /\ now.bias = "BEAR"
      \/ p.dir = "SHORT" /\ now.bias = "BULL"
   THEN {"market_flip"}
   ELSE {"rs_failure", "vwap_loss", "profit_take"} \cup
        (IF now.time = "flat" THEN {"time_flat"} ELSE {"engage", "hold"}))

\* Step 2, first loop: every open position that has a bar is judged; one
\* without a bar is carried unmanaged.
Manage ==
  /\ phase = "fill"
  /\ todo = {}
  /\ LET judged == (Held("LONG") \cup Held("SHORT")) \cap now.prints IN
     \E verdict \in [judged -> UNION {Verdicts(position[s]) : s \in judged}] :
       /\ \A s \in judged : verdict[s] \in Verdicts(position[s])
       /\ closing' = [s \in Symbols |->
                        IF s \in judged /\ verdict[s] \notin {"engage", "hold"}
                        THEN verdict[s] ELSE "none"]
       /\ position' = [s \in Symbols |->
                         IF s \in judged /\ verdict[s] = "engage"
                         THEN [position[s] EXCEPT !.engaged = TRUE]
                         ELSE position[s]]
  /\ phase' = "close"
  /\ UNCHANGED <<bar, now, order, entriesToday, lockedOut, risk, equity, todo,
                 signal, tally, flowVars>>

\* Step 2, second loop: book one exit.
CloseOne(s) ==
  LET d == position[s].dir IN
  /\ phase = "close"
  /\ closing[s] # "none"
  /\ \E pnl \in Pnls :
       /\ equity' = equity + pnl
       /\ risk' = RegisterExit(risk, equity + pnl, closing[s], bar)
  /\ position' = [position EXCEPT ![s] = NoPosition]
  /\ trades' = [trades EXCEPT ![d] = @ + 1]
  /\ lockedOut' = IF closing[s] = "hard_stop"
                  THEN [lockedOut EXCEPT ![d] = @ \cup {s}]
                  ELSE lockedOut
  /\ closing' = [closing EXCEPT ![s] = "none"]
  /\ UNCHANGED <<bar, phase, now, order, entriesToday, todo, signal, tally,
                 submitted, filled, cancelled>>

\* Step 3, abstracted: the watchlist reports which symbols are in ENTRY_EVAL.
\* A symbol without a bar has no score and is never in that state.
UpdateWatchlist ==
  /\ phase = "close"
  /\ \A s \in Symbols : closing[s] = "none"
  /\ \E sig \in [Dir -> SUBSET now.prints] :
       /\ ~ShortsEnabled => sig["SHORT"] = {}
       /\ signal' = sig
  /\ phase' = "submit_LONG"
  /\ UNCHANGED <<bar, now, bookVars, risk, equity, todo, closing, tally,
                 flowVars>>

-----------------------------------------------------------------------------
\* Step 4.  evals_long / evals_short: symbols in ENTRY_EVAL that are neither
\* held nor waiting for a fill, in either direction.
EvalsNotHeldCheck(d) == {s \in signal[d] : order[s].dir = "NONE"}
EvalsOwnBookOnly(d) ==
  {s \in signal[d] : order[s].dir # d /\ position[s].dir = "NONE"}
Evals(d) ==
  {s \in signal[d] : order[s].dir = "NONE" /\ position[s].dir = "NONE"}

\* Locked out for the session, or out of entries for the day.
BarredOffByOne(d) ==
  {s \in Evals(d) : s \in lockedOut[d] \/ entriesToday[d][s] > MaxEntries(d)}
BarredByCapOnly(d) ==
  {s \in Evals(d) : entriesToday[d][s] >= MaxEntries(d)}
Barred(d) ==
  {s \in Evals(d) : s \in lockedOut[d] \/ entriesToday[d][s] >= MaxEntries(d)}

\* A list build_tradeable_list may return for the eligible symbols, whatever
\* their scores (module TradeableList has the algorithm and checks this).
TradeableFrom(list, eligible) ==
  /\ list \subseteq eligible
  /\ Cardinality(list) <= TopTradeable
  /\ \A s \in list :
       Cardinality({t \in list : Sector[t] = Sector[s]}) <= MaxPerSector

\* len(tradeable[:slots]) for a Python slice: a negative bound drops that many
\* from the end.
SliceLen(len, slots) ==
  IF slots >= 0 THEN IF len <= slots THEN len ELSE slots
  ELSE IF len + slots >= 0 THEN len + slots ELSE 0

SlotsIgnoringPending(d) == MaxConcurrent(d) - Cardinality(Held(d))
SlotsFree(d) ==
  MaxConcurrent(d) - Cardinality(Held(d)) - Cardinality(Pending(d))

\* The whole book is turned away on this bar, and one counter says why.
BlockedBy(d) ==
  IF ~InEntryWindow THEN "window"
  ELSE IF ~CanEnter(risk, bar) THEN "halt" ELSE "bias"

TurnedCountingSignals(d) ==
  /\ ~(CanEnterNow /\ d \in now.ok)
  /\ tally' = [tally EXCEPT ![d][BlockedBy(d)] = Cardinality(signal[d])]
  /\ UNCHANGED <<order, submitted>>
Turned(d) ==
  /\ ~(CanEnterNow /\ d \in now.ok)
  /\ tally' = [tally EXCEPT ![d][BlockedBy(d)] = Cardinality(Evals(d))]
  /\ UNCHANGED <<order, submitted>>

\* Lockout and per-day cap, entry quality, ranking, free slots, sizing: each
\* stage drops some of the evaluated symbols; the rest become orders.
Places(d, eligible, list, slice, sized) ==
  LET evals == Evals(d)
      barred == Barred(d)
      slots == SlotsFree(d)
      over == Cardinality(list) - (IF slots >= 0 THEN slots ELSE 0)
  IN
  /\ eligible \subseteq evals \ barred
  /\ TradeableFrom(list, eligible)
  /\ slice \subseteq list
  /\ Cardinality(slice) = SliceLen(Cardinality(list), slots)
  /\ sized \subseteq slice
  /\ order' = [s \in Symbols |-> IF s \in sized THEN NewOrder(d) ELSE order[s]]
  /\ submitted' = [submitted EXCEPT ![d] = @ + Cardinality(sized)]
  /\ tally' = [tally EXCEPT ![d] =
       [o \in Outcomes |->
          CASE o = "lockout"   -> Cardinality(barred)
            [] o = "quality"   -> Cardinality((evals \ barred) \ eligible)
            [] o = "ranking"   -> Cardinality(eligible) - Cardinality(list)
            [] o = "slots"     -> IF over >= 0 THEN over ELSE 0
            [] o = "sizing"    -> Cardinality(slice) - Cardinality(sized)
            [] o = "submitted" -> Cardinality(sized)
            [] OTHER           -> 0]]

Enter(d) ==
  /\ CanEnterNow /\ d \in now.ok
  /\ \E eligible \in SUBSET (Evals(d) \ Barred(d)) :
     \E list \in SUBSET eligible :
     \E slice \in SUBSET list :
     \E sized \in SUBSET slice :
       Places(d, eligible, list, slice, sized)

SubmitPhase(d) == IF d = "LONG" THEN "submit_LONG" ELSE "submit_SHORT"
NextPhase(d) == IF d = "LONG" THEN "submit_SHORT" ELSE "end_bar"

Submit(d) ==
  /\ phase = SubmitPhase(d)
  /\ Turned(d) \/ Enter(d)
  /\ phase' = NextPhase(d)
  /\ UNCHANGED <<bar, now, position, entriesToday, lockedOut, risk, equity,
                 todo, closing, signal, filled, cancelled, trades>>

\* The end of the loop body: what only this bar needed is forgotten.
EndBar ==
  /\ phase = "end_bar"
  /\ bar' = bar + 1
  /\ now' = [now EXCEPT !.roll = "none", !.flip = FALSE, !.prints = {},
                        !.ok = {}]
  /\ signal' = [d \in Dir |-> {}]
  /\ tally' = [d \in Dir |-> NoTally]
  /\ phase' = "next_bar"
  /\ UNCHANGED <<bookVars, risk, equity, todo, closing, flowVars>>

\* The calendar is exhausted: the engine returns its result.
Finished == phase = "next_bar" /\ bar = MaxBars /\ UNCHANGED vars

Next ==
  \/ StartBar
  \/ \E s \in Symbols : FillOne(s)
  \/ Manage
  \/ \E s \in Symbols : CloseOne(s)
  \/ UpdateWatchlist
  \/ \E d \in Dir : Submit(d)
  \/ EndBar
  \/ Finished

Spec == Init /\ [][Next]_vars

-----------------------------------------------------------------------------
Phases == {"next_bar", "fill", "close", "submit_LONG", "submit_SHORT",
           "end_bar"}
Reasons == {"hard_stop", "trail_stop", "squeeze_guard", "market_flip",
            "rs_failure", "vwap_loss", "profit_take", "time_flat"}

TypeOK ==
  /\ bar \in Nat
  /\ phase \in Phases
  /\ now \in [roll: Rolls, time: Times, bias: Families, flip: BOOLEAN,
              prints: SUBSET Symbols, ok: SUBSET Dir]
  /\ order \in [Symbols -> [dir: Side, waited: Nat]]
  /\ position \in [Symbols -> [dir: Side, engaged: BOOLEAN]]
  /\ entriesToday \in [Dir -> [Symbols -> Nat]]
  /\ lockedOut \in [Dir -> SUBSET Symbols]
  /\ risk \in RiskState
  /\ equity \in Int
  /\ todo \subseteq Symbols
  /\ closing \in [Symbols -> Reasons \cup {"none"}]
  /\ signal \in [Dir -> SUBSET Symbols]
  /\ tally \in [Dir -> [Outcomes -> Int]]
  /\ submitted \in [Dir -> Nat]
  /\ filled \in [Dir -> Nat]
  /\ cancelled \in [Dir -> Nat]
  /\ trades \in [Dir -> Nat]

\* A symbol is never pending and held at once.  pending and positions are two
\* dicts keyed by symbol alone: a fill over an open position, of either
\* direction, would overwrite it and lose the trade.
OneClaimPerSymbol ==
  \A s \in Symbols : order[s].dir = "NONE" \/ position[s].dir = "NONE"

\* Positions and pending entries of a book never exceed its slots, so the
\* slice tradeable[:slots_free] never sees a negative bound (which would submit
\* orders beyond the limit instead of none).
SlotCap ==
  \A d \in Dir :
    Cardinality(Held(d)) + Cardinality(Pending(d)) <= MaxConcurrent(d)

\* max_entries_per_symbol_* bounds the entries of a session although it is
\* compared when the order is submitted and counted when it fills: an order
\* still waiting always has room left in today's count.
EntryCap ==
  \A d \in Dir, s \in Symbols :
    LET waiting == IF order[s].dir = d THEN 1 ELSE 0
    IN  entriesToday[d][s] + waiting <= MaxEntries(d)

\* A symbol locked out of a book by a hard stop has neither an order nor a
\* position there for the rest of the session: no order submitted earlier can
\* still fill after the stop-out.
LockoutHolds ==
  \A d \in Dir : lockedOut[d] \cap Exposure(d) = {}

\* The funnel's order counters and the trade list account for every order and
\* every position: submitted = filled + cancelled + waiting, and
\* filled = closed trades + open positions, in each book.
OrderConservation ==
  \A d \in Dir :
    /\ submitted[d] = filled[d] + cancelled[d] + Cardinality(Pending(d))
    /\ filled[d] = trades[d] + Cardinality(Held(d))

\* Once the positions of a bar are managed, none that printed a bar at or after
\* 15:55 is left, an entry filled on that very bar included; and no short that
\* printed survives a bar of the BULL family.
ManagedAway ==
  (phase \in {"submit_LONG", "submit_SHORT", "end_bar"}) =>
    \A s \in now.prints :
      /\ now.time = "flat" => position[s].dir = "NONE"
      /\ now.bias = "BULL" => position[s].dir # "SHORT"

\* Every symbol evaluated for entry is accounted for exactly once by the
\* eval_* counters and the submitted orders of the bar, though they are
\* computed by separate subtractions and a slice.
EvalsAccounted ==
  [][ \A d \in Dir :
        (phase = SubmitPhase(d) /\ phase' # phase)
          => TallySum(tally'[d]) = Cardinality(Evals(d)) ]_vars

\* Two books, one pending dict: submitting one book never drops or replaces an
\* order of the other, and an order leaves only by a fill or a cancellation.
OrdersSurviveSubmission ==
  [][ \A s \in Symbols :
        (order[s].dir # "NONE" /\ order'[s] # order[s])
          => /\ phase = "fill"
             /\ \/ order'[s] = [order[s] EXCEPT !.waited = @ + 1]
                \/ order'[s] = NoOrder /\ position'[s].dir = order[s].dir
                \/ order'[s] = NoOrder /\ order[s].waited + 1 >= CancelBars ]_vars
=============================================================================

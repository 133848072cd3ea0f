------------------------------- MODULE BookD1 -------------------------------
(***************************************************************************)
(* The book of the daily engine (run_d1_backtest of src/rs_spy/backtest/   *)
(* engine.py): what is decided at a close is filled at the next open.  A   *)
(* day fills the orders of yesterday, manages the positions, closes some,  *)
(* and draws up the orders for tomorrow from the tradeable lists of today. *)
(* Gates, scores, prices and watchlist states are whatever they may be.    *)
(***************************************************************************)
EXTENDS TradeableList

CONSTANTS
  Symbols,                                 \* numbers, in the order of the dict
  MaxScore,                                \* bound: distinct scores on the list
  MaxConcurrentLong, MaxConcurrentShort,   \* max_concurrent_*
  ShortsEnabled,                           \* shorts_enabled
  BiasGateEnabled,                         \* "bias" is not in disabled_gates
  MaxHold,                                 \* MAX_HOLD_DAYS
  MaxDays                                  \* bound: the length of the calendar

\* What the code has of its constants; MCTrades evaluates it.
BookD1Constants ==
  /\ IsFiniteSet(Symbols) /\ Symbols \subseteq Nat
  /\ MaxScore \in Nat
  /\ MaxConcurrentLong \in Nat /\ MaxConcurrentShort \in Nat
  /\ ShortsEnabled \in BOOLEAN /\ BiasGateEnabled \in BOOLEAN
  /\ MaxHold \in Nat \ {0} /\ MaxDays \in Nat \ {0}
  /\ TradeableConstants

VARIABLES
  day,         \* i
  phase,       \* "fill", "manage", "signal", "over"
  pending,     \* pending_entries: symbol and direction, in order
  position,    \* positions: direction and days_held, or NoPosition
  bias,        \* the bias of the day whose close drew up "pending"
  scored       \* history: the scores of that close, until the next open

vars == <<day, phase, pending, position, bias, scored>>

Dir == {"LONG", "SHORT"}
Biases == {"BULL", "NEUTRAL", "BEAR"}
NoPosition == [dir |-> "none", held |-> 0]
Scores == [Symbols -> 0..MaxScore]
Unscored == [d \in Dir |-> [s \in Symbols |-> 0]]
MaxConcurrent(d) == IF d = "LONG" THEN MaxConcurrentLong ELSE MaxConcurrentShort
Held(d) == {s \in Symbols : position[s].dir = d}

Init ==
  /\ day = 0
  /\ phase = "fill"
  /\ pending = <<>>
  /\ position = [s \in Symbols |-> NoPosition]
  /\ bias = "NEUTRAL"
  /\ scored = Unscored

\* is_long_full, is_short_full: counted anew for every order.
FullWithRoomForOne(d) == Cardinality(Held(d)) > MaxConcurrent(d)
Full(d) == Cardinality(Held(d)) >= MaxConcurrent(d)

\* The next order fills at the open, or is dropped: the symbol is held, the book
\* is full, or there is no ATR to size it with.
FillOne ==
  LET s == Head(pending)[1]
      d == Head(pending)[2]
      dropped == position[s] # NoPosition \/ Full(d)
  IN /\ phase = "fill" /\ pending # <<>>
     /\ pending' = Tail(pending)
     /\ \/ UNCHANGED position
        \/ ~dropped /\ position' = [position EXCEPT ![s] = [dir |-> d, held |-> 0]]
     /\ scored' = Unscored
     /\ UNCHANGED <<day, phase, bias>>

AllFilled ==
  /\ phase = "fill" /\ pending = <<>>
  /\ phase' = "manage"
  /\ scored' = Unscored
  /\ UNCHANGED <<day, pending, position, bias>>

\* days_held + 1 for each position; any may close, and one of max_hold days must.
MustClose(s) == position[s].held + 1 >= MaxHold

Manage ==
  LET held == Held("LONG") \cup Held("SHORT") IN
  /\ phase = "manage"
  /\ \E closed \in SUBSET held :
       /\ {s \in held : MustClose(s)} \subseteq closed
       /\ position' = [s \in Symbols |->
            IF s \in closed \/ s \notin held THEN NoPosition
            ELSE [position[s] EXCEPT !.held = @ + 1]]
  /\ phase' = "signal"
  /\ UNCHANGED <<day, pending, bias, scored>>

\* The orders of a direction: its tradeable list, less what is held and, for
\* longs, what the watchlist does not have in an eligible state.
Orders(score, d, eligible) ==
  FoldLeft(LAMBDA orders, s :
             IF s \in eligible /\ position[s] = NoPosition
             THEN Append(orders, <<s, d>>) ELSE orders,
           <<>>, BuildTradeable(score))

LongsOnAnyBias(b) == TRUE
LongsOnBias(b) == ~BiasGateEnabled \/ b = "BULL"
ShortsOnBias(b) == ShortsEnabled /\ b = "BEAR"

\* The orders for tomorrow: longs, then shorts.  A list that the bias does not
\* allow is not built.
Signal ==
  /\ phase = "signal"
  /\ \E b \in Biases, longs \in Scores, shorts \in Scores, eligible \in SUBSET Symbols :
       /\ longs # Unscored["LONG"] => LongsOnBias(b)
       /\ shorts # Unscored["SHORT"] => ShortsOnBias(b)
       /\ pending' = Orders(longs, "LONG", eligible) \o Orders(shorts, "SHORT", Symbols)
       /\ scored' = [d \in Dir |-> IF d = "LONG" THEN longs ELSE shorts]
       /\ bias' = b
  /\ day' = day + 1
  /\ phase' = IF day + 1 = MaxDays THEN "over" ELSE "fill"
  /\ UNCHANGED position

Over == phase = "over" /\ UNCHANGED vars

Next == FillOne \/ AllFilled \/ Manage \/ Signal \/ Over

Spec == Init /\ [][Next]_vars

-----------------------------------------------------------------------------
TypeOK ==
  /\ day \in 0..MaxDays
  /\ phase \in {"fill", "manage", "signal", "over"}
  /\ pending \in Seq(Symbols \X Dir)
  /\ position \in [Symbols -> [dir: Dir, held: 0..(MaxHold - 1)] \cup {NoPosition}]
  /\ bias \in Biases
  /\ scored \in [Dir -> Scores]

\* Held positions of one direction never exceed max_concurrent, although up to
\* top_n_tradeable orders are drawn up whatever the book still has room for.
ConcurrencyCap == \A d \in Dir : Cardinality(Held(d)) <= MaxConcurrent(d)

\* The lists the orders come from fit the caps of the book, for every score.
FitsTheBook == \A d \in Dir : Fits(scored[d], BuildTradeable(scored[d]))

\* No symbol is passed over for a worse one, except for its sector or the cut
\* of the list, and orders are queued best first: when there are fewer slots
\* than orders, the fills go down the list.
BestFirst == \A d \in Dir : IsBest(scored[d], BuildTradeable(scored[d]))

\* The book: its lists, its caps, and in its type a hold of fewer than MaxHold
\* days.
BookFits == TypeOK /\ ConcurrencyCap /\ FitsTheBook /\ BestFirst

\* An order lives one night: what is entered was permitted by the bias of the
\* close before, never by an older one.
EntersOnLastBias ==
  [][ /\ Held("LONG")' \ Held("LONG") # {} => (BiasGateEnabled => bias = "BULL")
      /\ Held("SHORT")' \ Held("SHORT") # {} => (ShortsEnabled /\ bias = "BEAR") ]_vars
=============================================================================

----------------------------- MODULE PositionD1 -----------------------------
(***************************************************************************)
(* One trade of the daily engine, steps 1 and 2 of run_d1_backtest         *)
(* (src/rs_spy/backtest/engine.py): entered at the open after the signal,  *)
(* without limit or slippage, and managed from that day's bar on.  Unlike  *)
(* PositionM5 the stop hangs on the entry price, the trail uses the ATR of *)
(* the entry and stops at the entry price, and a trail exit is a           *)
(* "hard_stop".  BookD1 has the same trade without its prices.             *)
(***************************************************************************)
EXTENDS SidedBars

CONSTANTS
  EntryAtr,      \* ATR of the day before the entry
  MaxHold        \* MAX_HOLD_DAYS

\* What the code has of its constants; MCTrades evaluates it.
PositionD1Constants ==
  /\ EntryAtr \in Nat \ {0} /\ EntryAtr % 4 = 0
  /\ MaxHold \in Nat \ {0}

VARIABLES
  turn,          \* "entry", "day", "manage" or "closed"
  pos,           \* Position
  sold           \* Trade: exit_reason and exit_price

vars == <<dir, now, turn, pos, sold>>

Threshold == (3 * EntryAtr) \div 2     \* stop, trail trigger, profit target
Flat == [entry |-> 0, stop |-> 0, peak |-> 0, held |-> 0]
Unsold == [reason |-> "none", price |-> 0]

Init ==
  /\ dir \in {"LONG", "SHORT"}
  /\ now = Unprinted
  /\ turn = "entry"
  /\ pos = Flat
  /\ sold = Unsold

Enter ==
  /\ turn = "entry"
  /\ now' \in Bars
  /\ pos' = [entry |-> now'.open, stop |-> now'.open - Sign * Threshold,
             peak |-> 0, held |-> 0]
  /\ turn' = "manage"
  /\ UNCHANGED <<dir, sold>>

NextDay ==
  /\ turn = "day"
  /\ now' \in Bars
  /\ turn' = "manage"
  /\ UNCHANGED <<dir, pos, sold>>

Sell(price, reason) ==
  /\ sold' = [reason |-> reason, price |-> price]
  /\ turn' = "closed"

StopReached == Gain(pos.stop, now.worst) >= 0
StopPriceIgnoringGaps == pos.stop
StopPrice == Worse(pos.stop, now.open)

StopHit ==
  /\ turn = "manage"
  /\ StopReached
  /\ Sell(StopPrice, "hard_stop")
  /\ pos' = [pos EXCEPT !.held = @ + 1]
  /\ UNCHANGED <<dir, now>>

\* market_flip, rrs_failure: before the peak is updated.
SignalExit ==
  /\ turn = "manage"
  /\ ~StopReached
  /\ Sell(now.close, "signal")
  /\ pos' = [pos EXCEPT !.held = @ + 1]
  /\ UNCHANGED <<dir, now>>

Favorable == Gain(now.close, pos.entry)
Peak == IF Favorable > pos.peak THEN Favorable ELSE pos.peak

\* The target, on a day whose Heikin-Ashi candles do not continue.
ProfitTake ==
  /\ turn = "manage"
  /\ ~StopReached
  /\ Favorable >= Threshold
  /\ Sell(now.close, "profit_take")
  /\ pos' = [pos EXCEPT !.held = @ + 1, !.peak = Peak]
  /\ UNCHANGED <<dir, now>>

\* Behind EMA8 by a quarter of the entry's ATR, and at most up to the entry.
Trailed(ema8) ==
  Better(pos.stop, Worse(ema8 - Sign * (EntryAtr \div 4), pos.entry))

\* No rule fired: the stop trails, and the last day sells at the close.
CarryOn ==
  /\ turn = "manage"
  /\ ~StopReached
  /\ \E ema8 \in Prices :
       pos' = [pos EXCEPT !.held = @ + 1, !.peak = Peak,
                          !.stop = IF Peak >= Threshold THEN Trailed(ema8) ELSE @]
  /\ IF pos.held + 1 >= MaxHold
     THEN Sell(now.close, "max_hold")
     ELSE turn' = "day" /\ UNCHANGED sold
  /\ UNCHANGED <<dir, now>>

Closed == turn = "closed" /\ UNCHANGED vars

Next == Enter \/ NextDay \/ StopHit \/ SignalExit \/ ProfitTake \/ CarryOn \/ Closed

Spec == Init /\ [][Next]_vars

-----------------------------------------------------------------------------
TypeOK ==
  /\ dir \in {"LONG", "SHORT"}
  /\ now \in Bars \cup {Unprinted}
  /\ turn \in {"entry", "day", "manage", "closed"}
  /\ pos \in [entry: Int, stop: Int, peak: Nat, held: 0..MaxHold]
  /\ sold \in [reason: {"none", "hard_stop", "signal", "profit_take", "max_hold"},
               price: Int]

\* Whichever rule sells, on whichever day, the trade loses at most the 1.5 ATR
\* its shares were sized for, unless a day opened beyond the stop.
LossWithinRisk ==
  turn = "closed" =>
    \/ Gain(sold.price, pos.entry) >= -Threshold
    \/ sold.price = now.open /\ Gain(pos.stop, now.open) >= 0

\* The trail of the daily engine protects the entry and nothing beyond it: an
\* exit at the stop is never a winner, which "hard_stop" takes for granted.
StopExitsNeverWin ==
  sold.reason = "hard_stop" => Gain(sold.price, pos.entry) <= 0

\* A sale happens at a price of its day: a stop beyond which the day opened does
\* not fill at its own price.
SoldInsideTheDay ==
  turn = "closed" =>
    /\ Gain(sold.price, now.worst) >= 0
    /\ Gain(now.open, sold.price) >= 0 \/ Gain(now.close, sold.price) >= 0

\* What the stop of the daily engine promises at the exit.
DailyExitsWithinStops ==
  TypeOK /\ LossWithinRisk /\ StopExitsNeverWin /\ SoldInsideTheDay

\* From the entry on, the stop of the daily engine is never moved away from the
\* price, although EMA8 falls as well as rises.
DailyStopTightens ==
  [][ turn # "entry" => Gain(pos'.stop, pos.stop) >= 0 ]_vars
=============================================================================

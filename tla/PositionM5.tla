----------------------------- MODULE PositionM5 -----------------------------
(***************************************************************************)
(* The prices of one trade of the M5 engine, from its entry order to its   *)
(* exit: steps 1 and 2 of run_m5_backtest (src/rs_spy/backtest/            *)
(* engine_m5.py), the stop arithmetic of src/rs_spy/algo/risk.py and the   *)
(* fills of src/rs_spy/backtest/broker_sim.py.  OrderBook has the same     *)
(* trade without its prices.  Prices are integers, with an ATR divisible   *)
(* by 4 for the quarter ATRs of the trail.                                 *)
(***************************************************************************)
EXTENDS SidedBars, Sizing

CONSTANTS
  Last,          \* close of the signal bar, from which limit and stop derive
  EntryAtr,      \* ATR of the signal bar
  Atrs,          \* bound: the ATRs of later bars; 0 stands for NaN
  LimitOffset,   \* ENTRY_LIMIT_ATR_MULT * ATR
  Slip,          \* what apply_slippage adds or takes
  CancelBars,    \* unfilled_cancel_bars
  Equity,        \* the account at the signal
  ScoreValues,        \* bound: the candidate's score
  Participations \* bound: its participation cap, in shares

ASSUME PositionConstants ==
  /\ Last \in Int
  /\ EntryAtr \in Nat \ {0}
  /\ Atrs \subseteq Nat /\ \A a \in Atrs \cup {EntryAtr} : a % 4 = 0
  /\ LimitOffset \in Nat /\ Slip \in Nat
  /\ CancelBars \in Nat
  /\ Last > 0 /\ Equity \in Nat
  /\ ScoreValues \subseteq Nat /\ Participations \subseteq Nat

VARIABLES
  phase,        \* "next_bar", "fill", "manage"
  waited,       \* bars_waited
  trade,        \* "pending", "open", "closed" or "cancelled"
  shares,       \* fixed with the order
  entry, stop, peak, engaged,   \* PositionM5
  out           \* the exit: reason, price, and the denominator of r_multiple

vars == <<dir, phase, now, waited, trade, shares, entry, stop, peak, engaged,
          out>>

Limit == Last + Sign * LimitOffset                     \* entry_limit_price
InitialStop == Last - Sign * EntryAtr                  \* stop_price_*
NoExit == [reason |-> "none", price |-> 0, risked |-> 0]

Init ==
  /\ dir \in {"LONG", "SHORT"}
  /\ \E strong \in BOOLEAN, score \in ScoreValues, participation \in Participations :
       shares = CapShares(SizedShares(Equity, EntryAtr, strong, score, dir),
                          Equity, Last, participation)
  /\ shares > 0                      \* or the order is not placed
  /\ phase = "next_bar"
  /\ now = Unprinted
  /\ waited = 0
  /\ trade = "pending"
  /\ entry = 0 /\ stop = InitialStop /\ peak = 0 /\ engaged = FALSE
  /\ out = NoExit

\* A bar the symbol did not print ages an order, and leaves a position alone.
NextBar ==
  /\ phase = "next_bar"
  /\ trade \in {"pending", "open"}
  /\ \/ now' \in Bars
     \/ trade = "pending" /\ now' = Unprinted
  /\ phase' = IF trade = "pending" THEN "fill" ELSE "manage"
  /\ UNCHANGED <<dir, waited, trade, shares, entry, stop, peak, engaged, out>>

\* try_fill_entry, apply_slippage: the better of the limit and the open, if the
\* bar comes back to the limit.
ReachesLimit == now # Unprinted /\ Gain(Limit, now.worst) >= 0
FillPriceAtOpen == now.open
FillPrice == Worse(Limit, now.open)

Fill ==
  /\ phase = "fill"
  /\ ReachesLimit
  /\ entry' = FillPrice + Sign * Slip
  /\ trade' = "open"
  /\ phase' = "manage"
  /\ UNCHANGED <<shares, dir, now, waited, stop, peak, engaged, out>>

Wait ==
  /\ phase = "fill"
  /\ ~ReachesLimit
  /\ waited' = waited + 1
  /\ trade' = IF waited + 1 >= CancelBars THEN "cancelled" ELSE "pending"
  /\ phase' = "next_bar"
  /\ UNCHANGED <<dir, now, shares, entry, stop, peak, engaged, out>>

-----------------------------------------------------------------------------
\* stop_dist: |entry - stop| as the stop stands at the exit, or the entry ATR
\* when that is nothing.
Distance(x, y) == IF x >= y THEN x - y ELSE y - x
StopDistance == IF entry = stop THEN EntryAtr ELSE Distance(entry, stop)

Exit(price, reason) ==
  /\ out' = [reason |-> reason, price |-> price - Sign * Slip,
             risked |-> StopDistance]
  /\ trade' = "closed"
  /\ phase' = "next_bar"

StopReached == Gain(stop, now.worst) >= 0

\* The resting stop is judged first: the bar's range reached it, and it fills at
\* the stop, or at the open of a bar that gapped through it.
StopHit ==
  /\ phase = "manage"
  /\ StopReached
  /\ Exit(Worse(stop, now.open), IF engaged THEN "trail_stop" ELSE "hard_stop")
  /\ UNCHANGED <<dir, now, waited, shares, entry, stop, peak, engaged>>

\* market_flip, squeeze_guard, rs_failure, vwap_loss: at the close, before the
\* peak is updated.
SignalExitFirst ==
  /\ phase = "manage"
  /\ Exit(now.close, "signal")
  /\ UNCHANGED <<dir, now, waited, shares, entry, stop, peak, engaged>>
SignalExit ==
  /\ phase = "manage"
  /\ ~StopReached
  /\ Exit(now.close, "signal")
  /\ UNCHANGED <<dir, now, waited, shares, entry, stop, peak, engaged>>

NewPeak ==
  LET favorable == Gain(now.close, entry) IN
  IF favorable > peak THEN favorable ELSE peak

\* profit_take: at 1 ATR, times 0.75 in a CHOP regime, times 0.75 in the final
\* stretch.
ProfitTake ==
  /\ phase = "manage"
  /\ ~StopReached
  /\ \E sixteenths \in {16, 12, 9} :
       16 * Gain(now.close, entry) >= sixteenths * EntryAtr
  /\ peak' = NewPeak
  /\ Exit(now.close, "profit_take")
  /\ UNCHANGED <<dir, now, waited, shares, entry, stop, engaged>>

\* neutral_tighten_stop_*: half an ATR from the entry, or the entry itself once
\* the price is half an ATR beyond it; never away from the price.
TightenedLoose(atr) == entry - Sign * (atr \div 2)
Tightened(atr) ==
  LET candidate == entry - Sign * (atr \div 2) IN
  Better(stop, IF 2 * Gain(now.close, entry) >= atr
               THEN Better(candidate, entry) ELSE candidate)

\* The trail: a quarter ATR behind EMA8, never behind the entry.
Trailed(current, ema8, atr) ==
  Better(current, Better(ema8 - Sign * (atr \div 4), entry))

\* No exit rule fired: tighten in a NEUTRAL bias, trail after 1.5 ATR of peak
\* gain, and close all the same from 15:55 on.
CarryOn ==
  /\ phase = "manage"
  /\ ~StopReached
  /\ peak' = NewPeak
  /\ \E atr \in Atrs, neutral \in BOOLEAN :
       LET tight == IF neutral /\ atr # 0 THEN Tightened(atr) ELSE stop
           trails == 2 * NewPeak >= 3 * EntryAtr /\ atr # 0 IN
       /\ engaged' = (engaged \/ trails)
       /\ \E ema8 \in Prices :
            stop' = IF trails THEN Trailed(tight, ema8, atr) ELSE tight

Hold ==
  /\ CarryOn
  /\ phase' = "next_bar"
  /\ UNCHANGED <<dir, now, waited, trade, shares, entry, out>>

TimeFlat ==
  /\ CarryOn
  /\ out' = [reason |-> "time_flat", price |-> now.close - Sign * Slip,
             risked |-> IF entry = stop' THEN EntryAtr ELSE Distance(entry, stop')]
  /\ trade' = "closed"
  /\ phase' = "next_bar"
  /\ UNCHANGED <<shares, dir, now, waited, entry>>

Over == trade \in {"closed", "cancelled"} /\ UNCHANGED vars

Next ==
  \/ NextBar
  \/ Fill
  \/ Wait
  \/ StopHit
  \/ SignalExit
  \/ ProfitTake
  \/ Hold
  \/ TimeFlat
  \/ Over

Spec == Init /\ [][Next]_vars

-----------------------------------------------------------------------------
Reasons == {"none", "hard_stop", "trail_stop", "signal", "profit_take", "time_flat"}

TypeOK ==
  /\ dir \in {"LONG", "SHORT"}
  /\ phase \in {"next_bar", "fill", "manage"}
  /\ now \in Bars \cup {Unprinted}
  /\ waited \in Nat
  /\ shares \in Nat
  /\ trade \in {"pending", "open", "closed", "cancelled"}
  /\ entry \in Int /\ stop \in Int /\ peak \in Nat
  /\ engaged \in BOOLEAN
  /\ out \in [reason: Reasons, price: Int, risked: Nat]

\* "Stops are never moved away from price" (algo-spec/07-risk-management.md:46):
\* three rules write the stop, in one bar, from an ATR and an EMA that move
\* either way.
StopTightens == Gain(stop', stop) >= 0

\* The entry is never worse than the limit (before slippage) and lies inside
\* the bar that filled it.
FillsHonestly ==
  (trade = "pending" /\ trade' = "open") =>
    LET fill == entry' - Sign * Slip IN
    /\ Gain(Limit, fill) >= 0
    /\ Gain(fill, now.worst) >= 0

\* What a step may do to the prices of a position.
PricesAreHonest == [][ StopTightens /\ FillsHonestly ]_vars

\* A trade never loses more than the stop it was opened with, whichever rule
\* closes it and however the stop moved, unless a bar opened beyond that stop.
LossWithinRisk ==
  trade = "closed" =>
    Gain(out.price + Sign * Slip, Worse(InitialStop, now.open)) >= 0

\* The account loses at most its risk of a trade: the shares are sized at the
\* close of the signal for the distance to the stop, the fill comes later and may
\* cost up to the limit's offset and the slippage more.
LossWithinBudget ==
  trade = "closed" /\ Gain(now.open, InitialStop) >= 0 =>
    RiskPart * shares * (Gain(entry, out.price) - LimitOffset - 2 * Slip) <= Equity

\* Once the trail engaged, a stop exit is a managed exit: it is not below the
\* entry, except for a bar that opened there.
TrailKeepsBreakeven ==
  out.reason = "trail_stop" =>
    Gain(out.price + Sign * Slip, Worse(entry, now.open)) >= 0

\* What the stop promises at the exit, before and after the trail engaged.
ExitsWithinStops ==
  TypeOK /\ LossWithinRisk /\ LossWithinBudget /\ TrailKeepsBreakeven
=============================================================================

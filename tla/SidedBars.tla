------------------------------ MODULE SidedBars ------------------------------
(***************************************************************************)
(* What both engines read of a bar.  The long and the short branch of      *)
(* run_m5_backtest and of run_d1_backtest (src/rs_spy/backtest/) are one   *)
(* another's mirror image, so both are written once, with the sign of the  *)
(* direction: of a bar only the open, the close and the extreme against    *)
(* the trade (low for a long, high for a short) are ever read.             *)
(***************************************************************************)
EXTENDS Integers

CONSTANT Prices        \* bound: what a bar or an EMA8 may quote

ASSUME PricesAreIntegers == Prices \subseteq Int

VARIABLES
  dir,          \* direction of the order and the position
  now           \* the bar

Sign == IF dir = "LONG" THEN 1 ELSE -1
\* How far x lies beyond y in the direction of the trade.
Gain(x, y) == Sign * (x - y)
Better(x, y) == IF Gain(x, y) >= 0 THEN x ELSE y
Worse(x, y) == IF Gain(x, y) >= 0 THEN y ELSE x

Bars == {b \in [open: Prices, close: Prices, worst: Prices] :
           Gain(b.open, b.worst) >= 0 /\ Gain(b.close, b.worst) >= 0}
Unprinted == [open |-> 0, close |-> 0, worst |-> 0]    \* NaN
=============================================================================

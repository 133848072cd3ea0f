------------------------------- MODULE Sizing -------------------------------
(***************************************************************************)
(* position_size and cap_shares of src/rs_spy/algo/risk.py.  Factors are   *)
(* whole numbers: the bias and the side in quarters, the score in          *)
(* hundredths, the risk of a trade as one RiskPart-th of the equity, and   *)
(* the notional cap as one NotionalPart-th.  The caps come before the      *)
(* floor in the code; the least of the floors is the floor of the least.   *)
(***************************************************************************)
EXTENDS Integers, FiniteSetsExt

CONSTANTS
  RiskPart,          \* 1 / risk_per_trade_pct (200)
  NotionalPart,      \* 1 / MAX_NOTIONAL_PCT (5)
  ScoreLow, ScoreHigh      \* SCORE_LOW (50), SCORE_HIGH (100)

ASSUME SizingConstants ==
  /\ RiskPart \in Nat \ {0} /\ NotionalPart \in Nat \ {0}
  /\ ScoreLow \in Nat /\ ScoreHigh \in Nat /\ ScoreLow < ScoreHigh

BiasQuarters(strong) == IF strong THEN 4 ELSE 3
SideQuarters(d) == IF d = "SHORT" THEN 3 ELSE 4

\* 0.7 at SCORE_LOW and below, 1.0 at SCORE_HIGH and above.
ScoreHundredths(score) ==
  LET clipped == IF score < ScoreLow THEN ScoreLow
                 ELSE IF score > ScoreHigh THEN ScoreHigh ELSE score
  IN  70 + (30 * (clipped - ScoreLow)) \div (ScoreHigh - ScoreLow)

SizedShares(equity, distance, strong, score, d) ==
  (equity * BiasQuarters(strong) * ScoreHundredths(score) * SideQuarters(d))
    \div (distance * RiskPart * 1600)

NotionalCap(equity, price) == equity \div (NotionalPart * price)

\* participation: MAX_PARTICIPATION_PCT of the volume of the expected hold.
CapSharesUnfloored(shares, equity, price, participation) ==
  Min({shares + 1, NotionalCap(equity, price), participation})
CapShares(shares, equity, price, participation) ==
  Min({shares, NotionalCap(equity, price), participation})
=============================================================================

----------------------------- MODULE TradesProofs -----------------------------
(***************************************************************************)
(* Proofs about the machines of MCTrades, for any prices, ATRs, limits,    *)
(* lengths and pools of profits.  Of PositionM5: the stop never falls      *)
(* behind the one the trade was opened with, nor behind the entry once it  *)
(* trails.  Of PositionD1: the stop lies between the entry and 1.5 ATR     *)
(* behind it, however it trails.  Of RiskManager: its counter is the run   *)
(* of stop-outs that ends with the last exit, and its pause the latest end *)
(* of any of this session.  Of BookD1: the cap on positions, the lists     *)
(* that fit it and pass nobody over, and the bias an entry rests on.       *)
(***************************************************************************)
EXTENDS MCTrades, Sequences, FunctionTheorems, FiniteSetTheorems, WellFoundedInduction, TLAPS

\* One trade of the M5 engine: what the stop is worth, and when it is managed.
StopHolds ==
  /\ Gain(stop, InitialStop) >= 0
  /\ engaged => Gain(stop, entry) >= 0
  /\ trade = "pending" => ~engaged

ManagedOnABar ==
  /\ phase = "manage" => trade = "open" /\ now \in Bars
  /\ phase = "fill" => trade = "pending"
  /\ trade # "closed" => out.reason = "none"

\* The shares are worth the risk of a trade at the first stop, and the entry is within
\* the limit.
SizedWithinBudget ==
  /\ RiskPart * shares * EntryAtr <= Equity
  /\ trade \in {"open", "closed"} => Gain(Limit, entry - Sign * Slip) >= 0

PriceInv == StopHolds /\ ManagedOnABar /\ SizedWithinBudget /\ ExitsWithinStops

-----------------------------------------------------------------------------
\* The order of prices, seen from the side of the trade.
LEMMA GainIsInt ==
  ASSUME NEW x \in Int, NEW y \in Int
  PROVE  Gain(x, y) \in Int
  BY DEF Gain, Sign

LEMMA BetterIsBetter ==
  ASSUME NEW x \in Int, NEW y \in Int
  PROVE  /\ Better(x, y) \in Int
         /\ Gain(Better(x, y), x) >= 0 /\ Gain(Better(x, y), y) >= 0
  BY DEF Better, Gain, Sign

LEMMA WorseIsWorse ==
  ASSUME NEW x \in Int, NEW y \in Int
  PROVE  /\ Worse(x, y) \in {x, y}
         /\ Gain(x, Worse(x, y)) >= 0 /\ Gain(y, Worse(x, y)) >= 0
  BY DEF Worse, Gain, Sign

LEMMA WorseIsMonotone ==
  ASSUME NEW x \in Int, NEW y \in Int, NEW z \in Int, Gain(x, y) >= 0
  PROVE  Gain(Worse(x, z), Worse(y, z)) >= 0
  BY DEF Worse, Gain, Sign

LEMMA GainIsTransitive ==
  ASSUME NEW x \in Int, NEW y \in Int, NEW z \in Int,
         Gain(x, y) >= 0, Gain(y, z) >= 0
  PROVE  Gain(x, z) >= 0
  BY DEF Gain, Sign

\* A bar is made of prices, and its extreme is one.
LEMMA BarOfPrices ==
  ASSUME NEW b \in Bars
  PROVE  /\ b.open \in Int /\ b.close \in Int /\ b.worst \in Int
         /\ b.open \in Prices
         /\ Gain(b.open, b.worst) >= 0 /\ Gain(b.close, b.worst) >= 0
  BY PricesAreIntegers DEF Bars

LEMMA OwnStops == InitialStop \in Int /\ Limit \in Int /\ Sign \in {1, -1}
  BY PositionConstants DEF InitialStop, Limit, Sign

LEMMA PeakIsNat ==
  ASSUME TypeOK, now \in Bars
  PROVE  NewPeak \in Nat
<1>1. Gain(now.close, entry) \in Int /\ peak \in Nat
  BY BarOfPrices, GainIsInt DEF TypeOK
<1>. QED  BY <1>1 DEF NewPeak

\* Whatever carries a position on tightens its stop and leaves it beyond the entry
\* once it trails.
LEMMA CarryOnTightens ==
  ASSUME TypeOK, StopHolds, now \in Bars, CarryOn
  PROVE  /\ stop' \in Int /\ peak' \in Nat /\ engaged' \in BOOLEAN
         /\ Gain(stop', stop) >= 0
         /\ engaged' => Gain(stop', entry) >= 0
<1>. USE BarOfPrices DEF TypeOK
<1>1. NewPeak \in Nat
  BY PeakIsNat
<1>2. PICK atr \in Atrs, neutral \in BOOLEAN :
        LET tight == IF neutral /\ atr # 0 THEN Tightened(atr) ELSE stop
            trails == 2 * NewPeak >= 3 * EntryAtr /\ atr # 0 IN
        /\ engaged' = (engaged \/ trails)
        /\ \E ema8 \in Prices :
             stop' = IF trails THEN Trailed(tight, ema8, atr) ELSE tight
  BY DEF CarryOn
<1>. DEFINE tight == IF neutral /\ atr # 0 THEN Tightened(atr) ELSE stop
            trails == 2 * NewPeak >= 3 * EntryAtr /\ atr # 0
<1>3. atr \in Int /\ atr \div 2 \in Int /\ atr \div 4 \in Int
  BY PositionConstants
<1>4. Tightened(atr) \in Int /\ Gain(Tightened(atr), stop) >= 0
  <2>. DEFINE candidate == entry - Sign * (atr \div 2)
  <2>1. candidate \in Int
    BY <1>3, OwnStops
  <2>2. (IF 2 * Gain(now.close, entry) >= atr
         THEN Better(candidate, entry) ELSE candidate) \in Int
    BY <2>1, BetterIsBetter
  <2>. QED  BY <2>2, BetterIsBetter DEF Tightened
<1>5. tight \in Int /\ Gain(tight, stop) >= 0
  BY <1>4 DEF Gain, Sign
<1>. PICK ema8 \in Prices :
        stop' = IF trails THEN Trailed(tight, ema8, atr) ELSE tight
  BY <1>2
<1>6. /\ Trailed(tight, ema8, atr) \in Int
      /\ Gain(Trailed(tight, ema8, atr), tight) >= 0
      /\ Gain(Trailed(tight, ema8, atr), entry) >= 0
  <2>. DEFINE behind == ema8 - Sign * (atr \div 4)
              floor == Better(behind, entry)
  <2>1. behind \in Int
    BY <1>3, OwnStops, PricesAreIntegers
  <2>2. floor \in Int /\ Gain(floor, entry) >= 0
    BY <2>1, BetterIsBetter
  <2>3. /\ Better(tight, floor) \in Int
        /\ Gain(Better(tight, floor), tight) >= 0
        /\ Gain(Better(tight, floor), floor) >= 0
    BY <1>5, <2>2, BetterIsBetter
  <2>4. Trailed(tight, ema8, atr) = Better(tight, floor)
    BY DEF Trailed
  <2>. HIDE DEF floor, tight
  <2>. QED  BY <2>2, <2>3, <2>4, GainIsTransitive
<1>. HIDE DEF tight, trails
<1>7. stop' \in Int /\ Gain(stop', tight) >= 0
  BY <1>5, <1>6 DEF Gain, Sign
<1>8. Gain(stop', stop) >= 0
  BY <1>5, <1>7, GainIsTransitive
<1>9. peak' \in Nat /\ engaged' \in BOOLEAN
  BY <1>1, <1>2 DEF CarryOn, trails
<1>10. ASSUME engaged' PROVE Gain(stop', entry) >= 0
  <2>1. CASE trails
    BY <2>1, <1>6
  <2>2. CASE ~trails
    <3>1. engaged
      BY <2>2, <1>2, <1>10 DEF trails
    <3>. QED  BY <3>1, <1>7, <1>8, GainIsTransitive DEF StopHolds
  <2>. QED  BY <2>1, <2>2
<1>. QED  BY <1>7, <1>8, <1>9, <1>10

\* A close on a bar that left the stop alone loses no more than the first stop.
LEMMA CloseBeyondRisk ==
  ASSUME TypeOK, StopHolds, now \in Bars, ~StopReached
  PROVE  Gain(now.close, Worse(InitialStop, now.open)) >= 0
<1>. USE BarOfPrices, OwnStops DEF TypeOK
<1>1. Gain(now.close, stop) >= 0
  BY DEF StopReached, Gain, Sign
<1>2. Gain(now.close, InitialStop) >= 0
  BY <1>1, GainIsTransitive DEF StopHolds
<1>. QED  BY <1>2, WorseIsWorse, GainIsTransitive

LEMMA DistanceIsNat == ASSUME TypeOK PROVE StopDistance \in Nat
  BY PositionConstants DEF TypeOK, StopDistance, Distance

-----------------------------------------------------------------------------
LEMMA FloorOfShare ==
  ASSUME NEW a \in Nat, NEW b \in Nat \ {0}
  PROVE  a \div b \in Nat /\ (a \div b) * b <= a
  OBVIOUS

LEMMA ProductGrows ==
  ASSUME NEW a \in Nat, NEW x \in Int, NEW y \in Int, x <= y
  PROVE  a * x <= a * y
  OBVIOUS

\* No factor of the size exceeds one, so the shares risk at most their part.
LEMMA SharesWithinRisk ==
  ASSUME NEW strong \in BOOLEAN, NEW score \in Nat, NEW d \in {"LONG", "SHORT"}
  PROVE  LET n == SizedShares(Equity, EntryAtr, strong, score, d)
         IN  n \in Nat /\ RiskPart * n * EntryAtr <= Equity
<1>. USE PositionConstants, SizingConstants
<1>. DEFINE h == ScoreHundredths(score)
            clipped == IF score < ScoreLow THEN ScoreLow
                       ELSE IF score > ScoreHigh THEN ScoreHigh ELSE score
            q == BiasQuarters(strong)
            s == SideQuarters(d)
            n == SizedShares(Equity, EntryAtr, strong, score, d)
<1>1. q \in 3..4 /\ s \in 3..4
  BY DEF BiasQuarters, SideQuarters
<1>2. h \in 70..100
  <2>1. clipped - ScoreLow \in Nat /\ clipped - ScoreLow <= ScoreHigh - ScoreLow
    OBVIOUS
  <2>2. (30 * (clipped - ScoreLow)) \div (ScoreHigh - ScoreLow) \in 0..30
    <3>. DEFINE x == clipped - ScoreLow
                y == ScoreHigh - ScoreLow
    <3>1. x \in Nat /\ y \in Nat \ {0} /\ 30 * x <= 30 * y
      BY <2>1
    <3>. HIDE DEF x, y, clipped
    <3>2. (30 * x) \div y \in Nat /\ ((30 * x) \div y) * y <= 30 * x
      BY <3>1, FloorOfShare
    <3>3. (30 * x) \div y <= 30
      BY <3>1, <3>2
    <3>. QED  BY <3>2, <3>3 DEF x, y
  <2>. HIDE DEF clipped
  <2>. QED  BY <2>2 DEF ScoreHundredths, clipped
<1>. HIDE DEF h, q, s, n
<1>. DEFINE top == Equity * q * h * s
            bottom == EntryAtr * RiskPart * 1600
<1>3. n = top \div bottom
  BY DEF n, h, q, s, SizedShares
<1>4. top \in Nat /\ top <= Equity * 1600
  <2>1. q * h \in Nat /\ q * h <= 400
    BY <1>1, <1>2
  <2>2. (q * h) * s \in Nat /\ (q * h) * s <= 1600
    BY <1>1, <2>1
  <2>3. Equity * ((q * h) * s) <= Equity * 1600
    BY <2>2, ProductGrows
  <2>4. top = Equity * ((q * h) * s)
    BY <1>1, <1>2
  <2>. QED  BY <2>2, <2>3, <2>4
<1>5. bottom \in Nat \ {0}
  OBVIOUS
<1>. HIDE DEF top, bottom
<1>6. n \in Nat /\ n * bottom <= top
  BY <1>3, <1>4, <1>5, FloorOfShare
<1>7. n * bottom = (RiskPart * n * EntryAtr) * 1600
  BY <1>6 DEF bottom
<1>8. RiskPart * n * EntryAtr \in Nat
  BY <1>6
<1>. QED  BY <1>4, <1>6, <1>7, <1>8 DEF n

LEMMA CapsCut ==
  ASSUME NEW n \in Nat, NEW part \in Nat
  PROVE  /\ CapShares(n, Equity, Last, part) \in Nat
         /\ CapShares(n, Equity, Last, part) <= n
<1>. USE PositionConstants, SizingConstants
<1>. DEFINE cap == NotionalCap(Equity, Last)
<1>1. cap \in Nat
  BY FloorOfShare DEF NotionalCap
<1>. HIDE DEF cap
<1>2. \E x \in {n, cap, part} : \A y \in {n, cap, part} : x <= y
  BY <1>1
<1>3. Min({n, cap, part}) \in {n, cap, part} /\ Min({n, cap, part}) <= n
  BY <1>2 DEF Min
<1>. QED  BY <1>1, <1>3 DEF CapShares, cap

-----------------------------------------------------------------------------
LEMMA InitPrices == Init => PriceInv
<1>. SUFFICES ASSUME Init PROVE PriceInv
  OBVIOUS
<1>0. /\ dir \in {"LONG", "SHORT"} /\ phase = "next_bar" /\ trade = "pending"
      /\ entry = 0 /\ stop = InitialStop /\ peak = 0 /\ engaged = FALSE
      /\ waited = 0 /\ now = Unprinted /\ out = NoExit
  BY DEF Init
<1>1. shares \in Nat /\ RiskPart * shares * EntryAtr <= Equity
  <2>1. PICK strong \in BOOLEAN, score \in ScoreValues, participation \in Participations :
          shares = CapShares(SizedShares(Equity, EntryAtr, strong, score, dir),
                             Equity, Last, participation)
    BY DEF Init
  <2>. DEFINE n == SizedShares(Equity, EntryAtr, strong, score, dir)
  <2>2. n \in Nat /\ RiskPart * n * EntryAtr <= Equity
    BY <1>0, SharesWithinRisk, PositionConstants
  <2>. HIDE DEF n
  <2>3. shares \in Nat /\ shares <= n
    <3>1. shares = CapShares(n, Equity, Last, participation)
      BY <2>1 DEF n
    <3>. QED  BY <3>1, <2>2, CapsCut, PositionConstants
  <2>4. RiskPart * EntryAtr \in Nat
    BY PositionConstants, SizingConstants
  <2>5. (RiskPart * EntryAtr) * shares <= (RiskPart * EntryAtr) * n
    BY <2>2, <2>3, <2>4, ProductGrows
  <2>. QED  BY <2>2, <2>3, <2>5, PositionConstants, SizingConstants
<1>2. TypeOK
  <2>1. NoExit \in [reason: Reasons, price: Int, risked: Nat]
    BY DEF NoExit, Reasons
  <2>2. engaged \in BOOLEAN
    BY <1>0, Zenon
  <2>. QED  BY <1>0, <1>1, <2>1, <2>2, OwnStops DEF TypeOK
<1>3. StopHolds
  BY <1>0, OwnStops DEF StopHolds, Gain, Sign
<1>4. ManagedOnABar /\ LossWithinRisk /\ LossWithinBudget /\ TrailKeepsBreakeven
  BY <1>0 DEF ManagedOnABar, LossWithinRisk, LossWithinBudget, TrailKeepsBreakeven, NoExit
<1>5. SizedWithinBudget
  BY <1>0, <1>1 DEF SizedWithinBudget
<1>. QED  BY <1>2, <1>3, <1>4, <1>5 DEF PriceInv, ExitsWithinStops

\* An exit at a price that keeps both promises keeps the invariant.
LEMMA ExitKeeps ==
  ASSUME PriceInv, phase = "manage",
         NEW price \in Int, NEW reason \in Reasons, NEW risked \in Nat,
         UNCHANGED <<dir, now, entry, shares, waited>>,
         trade' = "closed", phase' = "next_bar",
         out' = [reason |-> reason, price |-> price - Sign * Slip, risked |-> risked],
         stop' \in Int, peak' \in Nat, engaged' \in BOOLEAN,
         Gain(stop', stop) >= 0, engaged' => Gain(stop', entry) >= 0,
         Gain(price, Worse(InitialStop, now.open)) >= 0,
         reason = "trail_stop" => Gain(price, Worse(entry, now.open)) >= 0
  PROVE  PriceInv' /\ StopTightens /\ FillsHonestly
<1>. USE OwnStops, BarOfPrices DEF PriceInv, ExitsWithinStops, TypeOK, ManagedOnABar
<1>1. Bars' = Bars
  BY DEF Bars, Gain, Sign
<1>2. TypeOK'
  BY <1>1, PositionConstants
<1>3. StopHolds'
  <2>1. Gain(stop', InitialStop) >= 0
    BY GainIsTransitive DEF StopHolds
  <2>. QED  BY <2>1 DEF StopHolds, InitialStop, Gain, Sign
<1>4. ManagedOnABar'
  OBVIOUS
<1>5. out'.price + Sign * Slip = price
  BY PositionConstants
<1>6. LossWithinRisk' /\ TrailKeepsBreakeven'
  BY <1>5 DEF LossWithinRisk, TrailKeepsBreakeven, Gain, Sign, Worse, InitialStop
<1>8. SizedWithinBudget'
  BY PositionConstants DEF SizedWithinBudget, Gain, Sign, Limit
<1>9. LossWithinBudget'
  <2>. DEFINE loss == Gain(entry, out'.price) - LimitOffset - 2 * Slip
  <2>. SUFFICES ASSUME Gain(now.open, InitialStop) >= 0
                PROVE  RiskPart * shares * loss <= Equity
    BY DEF LossWithinBudget, Gain, Sign, InitialStop
  <2>1. Gain(price, InitialStop) >= 0
    BY DEF Worse, Gain, Sign
  <2>2. loss \in Int /\ loss <= EntryAtr
    BY <1>5, <2>1, PositionConstants
    DEF SizedWithinBudget, Gain, Sign, Limit, InitialStop
  <2>3. RiskPart * shares \in Nat
    BY SizingConstants
  <2>. HIDE DEF loss
  <2>4. (RiskPart * shares) * loss <= (RiskPart * shares) * EntryAtr
    BY <2>2, <2>3, ProductGrows, PositionConstants
  <2>. QED  BY <2>2, <2>3, <2>4, PositionConstants DEF SizedWithinBudget
<1>7. StopTightens /\ FillsHonestly
  BY DEF StopTightens, FillsHonestly, Gain, Sign
<1>. QED  BY <1>2, <1>3, <1>4, <1>6, <1>7, <1>8, <1>9

LEMMA NextPrices ==
  ASSUME PriceInv, [Next]_vars
  PROVE  PriceInv' /\ StopTightens /\ FillsHonestly
<1>. USE BarOfPrices, OwnStops DEF PriceInv, ExitsWithinStops, TypeOK, ManagedOnABar
<1>1. CASE NextBar
  <2>. USE <1>1 DEF NextBar
  <2>1. Bars' = Bars
    BY DEF Bars, Gain, Sign
  <2>2. TypeOK' /\ ManagedOnABar' /\ trade' # "closed"
    BY <2>1
  <2>3. StopHolds' /\ StopTightens /\ FillsHonestly
    BY DEF StopHolds, StopTightens, FillsHonestly, Gain, Sign, InitialStop
  <2>4. LossWithinRisk' /\ LossWithinBudget' /\ TrailKeepsBreakeven'
    BY DEF LossWithinRisk, LossWithinBudget, TrailKeepsBreakeven
  <2>5. SizedWithinBudget'
    BY DEF SizedWithinBudget, Gain, Sign, Limit
  <2>. QED  BY <2>2, <2>3, <2>4, <2>5
<1>2. CASE Fill
  <2>. USE <1>2 DEF Fill
  <2>1. now \in Bars /\ Gain(Limit, now.worst) >= 0
    BY DEF ReachesLimit
  <2>2. /\ FillPrice \in Int
        /\ Gain(Limit, FillPrice) >= 0 /\ Gain(FillPrice, now.worst) >= 0
    BY <2>1, WorseIsWorse DEF FillPrice
  <2>3. entry' \in Int /\ entry' - Sign * Slip = FillPrice
    BY <2>2, PositionConstants
  <2>4. Bars' = Bars
    BY DEF Bars, Gain, Sign
  <2>5. TypeOK' /\ ManagedOnABar'
    BY <2>1, <2>3, <2>4
  <2>6. StopHolds' /\ StopTightens
    BY DEF StopHolds, StopTightens, Gain, Sign, InitialStop
  <2>7. FillsHonestly
    BY <2>2, <2>3 DEF FillsHonestly
  <2>8. LossWithinRisk' /\ LossWithinBudget' /\ TrailKeepsBreakeven'
    BY DEF LossWithinRisk, LossWithinBudget, TrailKeepsBreakeven
  <2>9. SizedWithinBudget'
    BY <2>2, <2>3 DEF SizedWithinBudget, Gain, Sign, Limit
  <2>. QED  BY <2>5, <2>6, <2>7, <2>8, <2>9
<1>3. CASE Wait
  <2>. USE <1>3 DEF Wait
  <2>1. Bars' = Bars
    BY DEF Bars, Gain, Sign
  <2>2. TypeOK' /\ ManagedOnABar' /\ trade' # "closed" /\ trade' # "open"
    BY <2>1
  <2>3. StopHolds' /\ StopTightens /\ FillsHonestly
    BY <2>2 DEF StopHolds, StopTightens, FillsHonestly, Gain, Sign, InitialStop
  <2>4. LossWithinRisk' /\ LossWithinBudget' /\ TrailKeepsBreakeven'
    BY <2>2 DEF LossWithinRisk, LossWithinBudget, TrailKeepsBreakeven
  <2>5. SizedWithinBudget'
    BY <2>2 DEF SizedWithinBudget, Gain, Sign, Limit
  <2>. QED  BY <2>2, <2>3, <2>4, <2>5
<1>4. CASE StopHit
  <2>. USE <1>4 DEF StopHit, Exit
  <2>1. now \in Bars /\ trade = "open"
    OBVIOUS
  <2>2. Worse(stop, now.open) \in Int
    BY <2>1, WorseIsWorse
  <2>3. Gain(Worse(stop, now.open), Worse(InitialStop, now.open)) >= 0
    BY <2>1, WorseIsMonotone DEF StopHolds
  <2>4. engaged => Gain(Worse(stop, now.open), Worse(entry, now.open)) >= 0
    BY <2>1, WorseIsMonotone DEF StopHolds
  <2>5. Gain(stop', stop) >= 0 /\ (engaged' => Gain(stop', entry) >= 0)
    BY DEF StopHolds, Gain, Sign
  <2>6. (IF engaged THEN "trail_stop" ELSE "hard_stop") \in Reasons
    BY DEF Reasons
  <2>. QED
    BY <2>1, <2>2, <2>3, <2>4, <2>5, <2>6, DistanceIsNat, ExitKeeps
<1>5. CASE SignalExit
  <2>. USE <1>5 DEF SignalExit, Exit
  <2>1. Gain(now.close, Worse(InitialStop, now.open)) >= 0
    BY CloseBeyondRisk
  <2>2. Gain(stop', stop) >= 0 /\ (engaged' => Gain(stop', entry) >= 0)
    BY DEF StopHolds, Gain, Sign
  <2>. QED  BY <2>1, <2>2, DistanceIsNat, ExitKeeps DEF Reasons
<1>6. CASE ProfitTake
  <2>. USE <1>6 DEF ProfitTake, Exit
  <2>1. Gain(now.close, Worse(InitialStop, now.open)) >= 0
    BY CloseBeyondRisk
  <2>2. Gain(stop', stop) >= 0 /\ (engaged' => Gain(stop', entry) >= 0)
    BY DEF StopHolds, Gain, Sign
  <2>3. peak' \in Nat
    BY PeakIsNat
  <2>. QED  BY <2>1, <2>2, <2>3, DistanceIsNat, ExitKeeps DEF Reasons
<1>7. CASE Hold
  <2>. USE <1>7 DEF Hold
  <2>1. phase = "manage" /\ now \in Bars /\ trade = "open"
    BY DEF CarryOn
  <2>2. /\ stop' \in Int /\ peak' \in Nat /\ engaged' \in BOOLEAN
        /\ Gain(stop', stop) >= 0
        /\ engaged' => Gain(stop', entry) >= 0
    BY <2>1, CarryOnTightens
  <2>3. Bars' = Bars
    BY DEF Bars, Gain, Sign
  <2>4. TypeOK' /\ ManagedOnABar'
    BY <2>1, <2>2, <2>3
  <2>5. Gain(stop', InitialStop) >= 0
    BY <2>2, GainIsTransitive DEF StopHolds
  <2>6. StopHolds' /\ StopTightens /\ FillsHonestly
    BY <2>1, <2>2, <2>5
    DEF StopHolds, StopTightens, FillsHonestly, Gain, Sign, InitialStop
  <2>7. LossWithinRisk' /\ LossWithinBudget' /\ TrailKeepsBreakeven'
    BY <2>1 DEF LossWithinRisk, LossWithinBudget, TrailKeepsBreakeven
  <2>8. SizedWithinBudget'
    BY <2>1 DEF SizedWithinBudget, Gain, Sign, Limit
  <2>. QED  BY <2>4, <2>6, <2>7, <2>8
<1>8. CASE TimeFlat
  <2>. USE <1>8 DEF TimeFlat
  <2>1. phase = "manage" /\ now \in Bars /\ ~StopReached
    BY DEF CarryOn
  <2>2. /\ stop' \in Int /\ peak' \in Nat /\ engaged' \in BOOLEAN
        /\ Gain(stop', stop) >= 0
        /\ engaged' => Gain(stop', entry) >= 0
    BY <2>1, CarryOnTightens
  <2>3. Gain(now.close, Worse(InitialStop, now.open)) >= 0
    BY <2>1, CloseBeyondRisk
  <2>4. (IF entry = stop' THEN EntryAtr ELSE Distance(entry, stop')) \in Nat
    <3>1. \A x, y \in Int : Distance(x, y) \in Nat
      BY DEF Distance
    <3>2. entry \in Int /\ stop' \in Int /\ EntryAtr \in Nat
      BY <2>2, PositionConstants
    <3>. QED  BY <3>1, <3>2
  <2>. QED  BY <2>1, <2>2, <2>3, <2>4, ExitKeeps DEF Reasons
<1>9. CASE Over \/ UNCHANGED vars
  BY <1>9 DEF Over, vars, Bars, StopHolds, StopTightens, FillsHonestly, LossWithinRisk,
     LossWithinBudget, TrailKeepsBreakeven, SizedWithinBudget, Gain, Sign, Worse,
     InitialStop, Limit
<1>. QED
  BY <1>1, <1>2, <1>3, <1>4, <1>5, <1>6, <1>7, <1>8, <1>9 DEF Next

-----------------------------------------------------------------------------
\* The stop never falls behind the one the trade was opened with, nor behind the
\* entry once it trails.
THEOREM PriceInvariant == Spec => []PriceInv
<1>1. PriceInv /\ [Next]_vars => PriceInv'
  BY NextPrices
<1>. QED  BY <1>1, InitPrices, PTL DEF Spec

\* Tightening, trailing and the fill, in any order of bars: the stop is never moved
\* away from the price, and an entry fills at a price of its bar within its limit.
THEOREM PricesAreHonestAlways == Spec => PricesAreHonest
<1>1. PriceInv /\ [Next]_vars => (StopTightens /\ FillsHonestly) \/ UNCHANGED vars
  BY NextPrices
<1>. QED  BY <1>1, PriceInvariant, PTL DEF Spec, PricesAreHonest

\* No trade loses more than the stop it was opened with, nor the account more than
\* the risk of a trade, unless a bar opened beyond that stop; and none that trails
\* gives back its entry.
THEOREM ExitsWithinStopsAlways == Spec => []ExitsWithinStops
  BY PriceInvariant, PTL DEF PriceInv

-----------------------------------------------------------------------------
\* One trade of the daily engine.
StopBelowEntry ==
  turn \in {"day", "manage"} =>
    /\ D1!Gain(pos.stop, pos.entry) >= -D1!Threshold
    /\ D1!Gain(pos.stop, pos.entry) <= 0
    /\ pos.held < MaxHold

DayAtHand ==
  /\ turn = "manage" => now \in D1!Bars
  /\ turn # "closed" => sold.reason = "none"

DailyInv == StopBelowEntry /\ DayAtHand /\ D1!DailyExitsWithinStops

-----------------------------------------------------------------------------
LEMMA ThresholdIsNat == ASSUME D1!PositionD1Constants PROVE D1!Threshold \in Nat
  BY DEF D1!PositionD1Constants, D1!Threshold

LEMMA DayOfPrices ==
  ASSUME NEW b \in D1!Bars
  PROVE  /\ b.open \in Int /\ b.close \in Int /\ b.worst \in Int
         /\ D1!Gain(b.open, b.worst) >= 0 /\ D1!Gain(b.close, b.worst) >= 0
  BY PricesAreIntegers DEF D1!Bars

\* Wherever the average is, a trailed stop tightens and stays behind the entry.
LEMMA TrailStaysBehind ==
  ASSUME D1!PositionD1Constants, D1!TypeOK, NEW ema8 \in Prices,
         D1!Gain(pos.stop, pos.entry) <= 0
  PROVE  /\ D1!Trailed(ema8) \in Int
         /\ D1!Gain(D1!Trailed(ema8), pos.stop) >= 0
         /\ D1!Gain(D1!Trailed(ema8), pos.entry) <= 0
<1>. DEFINE behind == ema8 - D1!Sign * (EntryAtr \div 4)
<1>1. behind \in Int /\ pos.stop \in Int /\ pos.entry \in Int
  BY PricesAreIntegers DEF D1!PositionD1Constants, D1!TypeOK, D1!Sign
<1>2. D1!Trailed(ema8) = D1!Better(pos.stop, D1!Worse(behind, pos.entry))
  BY DEF D1!Trailed
<1>. HIDE DEF behind
<1>. QED  BY <1>1, <1>2 DEF D1!Better, D1!Worse, D1!Gain, D1!Sign

\* A sale at a price that keeps the promises of an exit keeps the invariant.
LEMMA SaleKeeps ==
  ASSUME D1!PositionD1Constants, DailyInv, turn = "manage",
         NEW price \in Int, NEW reason \in {"hard_stop", "signal", "profit_take",
           "max_hold"},
         D1!Sell(price, reason), UNCHANGED <<dir, now>>,
         pos' \in [entry: Int, stop: Int, peak: Nat, held: 0..MaxHold],
         pos'.entry = pos.entry, D1!Gain(pos'.stop, pos.stop) >= 0,
         \/ D1!Gain(price, pos.entry) >= -D1!Threshold
         \/ price = now.open /\ D1!Gain(pos.stop, now.open) >= 0,
         reason = "hard_stop" => D1!Gain(price, pos.entry) <= 0,
         D1!Gain(price, now.worst) >= 0,
         D1!Gain(now.open, price) >= 0 \/ D1!Gain(now.close, price) >= 0
  PROVE  DailyInv' /\ (turn # "entry" => D1!Gain(pos'.stop, pos.stop) >= 0)
<1>. USE DEF DailyInv, D1!DailyExitsWithinStops, DayAtHand, D1!Sell
<1>1. D1!Threshold' = D1!Threshold /\ D1!Bars' = D1!Bars /\ D1!Sign' = D1!Sign
  BY DEF D1!Threshold, D1!Bars, D1!Gain, D1!Sign
<1>2. D1!TypeOK'
  BY <1>1 DEF D1!TypeOK
<1>3. StopBelowEntry' /\ DayAtHand'
  BY DEF StopBelowEntry
<1>4. D1!LossWithinRisk'
  <2>1. CASE D1!Gain(price, pos.entry) >= -D1!Threshold
    BY <2>1 DEF D1!LossWithinRisk, D1!Gain, D1!Sign, D1!Threshold
  <2>2. CASE price = now.open /\ D1!Gain(pos.stop, now.open) >= 0
    <3>1. now.open \in Int /\ pos.stop \in Int /\ pos'.stop \in Int
      BY DayOfPrices DEF D1!TypeOK
    <3>2. D1!Gain(pos'.stop, now.open) >= 0
      BY <2>2, <3>1 DEF D1!Gain, D1!Sign
    <3>. QED  BY <2>2, <3>2 DEF D1!LossWithinRisk, D1!Gain, D1!Sign
  <2>. QED  BY <2>1, <2>2
<1>5. D1!StopExitsNeverWin'
  BY DEF D1!StopExitsNeverWin, D1!Gain, D1!Sign
<1>6. D1!SoldInsideTheDay'
  BY DEF D1!SoldInsideTheDay, D1!Gain, D1!Sign
<1>. QED  BY <1>2, <1>3, <1>4, <1>5, <1>6

\* A close on a day that left the stop alone keeps them.
LEMMA CloseKeepsPromises ==
  ASSUME D1!PositionD1Constants, DailyInv, turn = "manage", ~D1!StopReached
  PROVE  /\ now.close \in Int
         /\ D1!Gain(now.close, pos.entry) >= -D1!Threshold
         /\ D1!Gain(now.close, now.worst) >= 0
         /\ D1!Gain(now.close, now.close) >= 0
<1>1. /\ now.close \in Int /\ now.worst \in Int /\ D1!Gain(now.close, now.worst) >= 0
  BY DayOfPrices DEF DailyInv, DayAtHand
<1>2. pos.stop \in Int /\ pos.entry \in Int /\ D1!Threshold \in Nat
  BY ThresholdIsNat DEF DailyInv, D1!DailyExitsWithinStops, D1!TypeOK
<1>3. D1!Gain(pos.stop, pos.entry) >= -D1!Threshold
  BY DEF DailyInv, StopBelowEntry
<1>. HIDE DEF D1!Threshold
<1>. QED  BY <1>1, <1>2, <1>3 DEF D1!StopReached, D1!Gain, D1!Sign

-----------------------------------------------------------------------------
LEMMA InitDaily == ASSUME D1!PositionD1Constants, D1!Init PROVE DailyInv
  BY DEF D1!PositionD1Constants, D1!Init, DailyInv, StopBelowEntry, DayAtHand,
     D1!DailyExitsWithinStops, D1!TypeOK, D1!LossWithinRisk, D1!StopExitsNeverWin,
       D1!SoldInsideTheDay,
     D1!Flat, D1!Unsold

LEMMA NextDaily ==
  ASSUME D1!PositionD1Constants, DailyInv, [D1!Next]_D1!vars
  PROVE  DailyInv' /\ (turn # "entry" => D1!Gain(pos'.stop, pos.stop) >= 0)
<1>. USE DEF DailyInv, DayAtHand
<1>1. D1!TypeOK /\ D1!Threshold \in Nat /\ MaxHold \in Nat \ {0}
  BY ThresholdIsNat DEF D1!DailyExitsWithinStops, D1!PositionD1Constants
<1>2. CASE D1!Enter
  <2>. USE <1>2 DEF D1!Enter
  <2>1. dir' = dir /\ D1!Bars' = D1!Bars /\ D1!Threshold' = D1!Threshold
    BY DEF D1!Bars, D1!Gain, D1!Sign, D1!Threshold
  <2>2. now'.open \in Int
    BY DayOfPrices
  <2>3. D1!TypeOK'
    BY <1>1, <2>1, <2>2 DEF D1!TypeOK, D1!Sign
  <2>4. StopBelowEntry'
    BY <1>1, <2>1, <2>2 DEF StopBelowEntry, D1!Gain, D1!Sign
  <2>5. DayAtHand' /\ D1!LossWithinRisk' /\ D1!StopExitsNeverWin' /\ D1!SoldInsideTheDay'
    BY <2>1 DEF D1!LossWithinRisk, D1!StopExitsNeverWin, D1!SoldInsideTheDay
  <2>. QED  BY <2>3, <2>4, <2>5 DEF D1!DailyExitsWithinStops
<1>3. CASE D1!NextDay
  <2>. USE <1>3 DEF D1!NextDay
  <2>1. dir' = dir /\ D1!Bars' = D1!Bars /\ D1!Threshold' = D1!Threshold
    BY DEF D1!Bars, D1!Gain, D1!Sign, D1!Threshold
  <2>2. D1!TypeOK'
    BY <1>1, <2>1 DEF D1!TypeOK
  <2>3. StopBelowEntry' /\ D1!Gain(pos'.stop, pos.stop) >= 0
    BY <1>1, <2>1 DEF D1!TypeOK, StopBelowEntry, D1!Gain, D1!Sign
  <2>4. DayAtHand' /\ D1!LossWithinRisk' /\ D1!StopExitsNeverWin' /\ D1!SoldInsideTheDay'
    BY <2>1 DEF D1!LossWithinRisk, D1!StopExitsNeverWin, D1!SoldInsideTheDay
  <2>. QED  BY <2>2, <2>3, <2>4 DEF D1!DailyExitsWithinStops
<1>4. ASSUME turn = "manage"
      PROVE  /\ now \in D1!Bars /\ now.open \in Int /\ now.worst \in Int
             /\ pos.held + 1 \in 0..MaxHold
             /\ pos.stop \in Int /\ pos.entry \in Int /\ pos.peak \in Nat
             /\ D1!Gain(pos.stop, pos.stop) >= 0
  BY <1>1, <1>4, DayOfPrices DEF D1!TypeOK, StopBelowEntry, D1!Gain, D1!Sign
<1>5. CASE D1!StopHit
  <2>. USE <1>5 DEF D1!StopHit
  <2>1. /\ D1!StopPrice \in Int
        /\ \/ D1!Gain(D1!StopPrice, pos.entry) >= -D1!Threshold
           \/ D1!StopPrice = now.open /\ D1!Gain(pos.stop, now.open) >= 0
        /\ D1!Gain(D1!StopPrice, pos.entry) <= 0
        /\ D1!Gain(D1!StopPrice, now.worst) >= 0
        /\ D1!Gain(now.open, D1!StopPrice) >= 0
    BY <1>1, <1>4, DayOfPrices DEF D1!StopPrice, D1!StopReached, StopBelowEntry,
      D1!Worse, D1!Gain, D1!Sign
  <2>2. /\ pos' \in [entry: Int, stop: Int, peak: Nat, held: 0..MaxHold]
        /\ pos'.entry = pos.entry /\ pos'.stop = pos.stop
    BY <1>1, <1>4 DEF D1!TypeOK
  <2>. QED  BY <1>4, <2>1, <2>2, SaleKeeps
<1>6. CASE D1!SignalExit
  <2>. USE <1>6 DEF D1!SignalExit
  <2>1. /\ pos' \in [entry: Int, stop: Int, peak: Nat, held: 0..MaxHold]
        /\ pos'.entry = pos.entry /\ pos'.stop = pos.stop
    BY <1>1, <1>4 DEF D1!TypeOK
  <2>. QED  BY <1>4, <2>1, CloseKeepsPromises, SaleKeeps
<1>7. ASSUME turn = "manage" PROVE D1!Peak \in Nat
  <2>1. D1!Favorable \in Int
    BY <1>4, <1>7, DayOfPrices DEF D1!Favorable, D1!Gain, D1!Sign
  <2>. QED  BY <1>4, <1>7, <2>1 DEF D1!Peak
<1>8. CASE D1!ProfitTake
  <2>. USE <1>8 DEF D1!ProfitTake
  <2>1. /\ pos' \in [entry: Int, stop: Int, peak: Nat, held: 0..MaxHold]
        /\ pos'.entry = pos.entry /\ pos'.stop = pos.stop
    BY <1>1, <1>4, <1>7 DEF D1!TypeOK
  <2>. QED  BY <1>4, <2>1, CloseKeepsPromises, SaleKeeps
<1>9. CASE D1!CarryOn
  <2>. USE <1>9 DEF D1!CarryOn
  <2>1. PICK ema8 \in Prices :
          pos' = [pos EXCEPT !.held = @ + 1, !.peak = D1!Peak,
                             !.stop = IF D1!Peak >= D1!Threshold
                                        THEN D1!Trailed(ema8) ELSE @]
    OBVIOUS
  <2>2. /\ D1!Trailed(ema8) \in Int
        /\ D1!Gain(D1!Trailed(ema8), pos.stop) >= 0
        /\ D1!Gain(D1!Trailed(ema8), pos.entry) <= 0
    BY <1>1, TrailStaysBehind DEF StopBelowEntry
  <2>3. /\ pos' \in [entry: Int, stop: Int, peak: Nat, held: 0..MaxHold]
        /\ pos'.entry = pos.entry /\ D1!Gain(pos'.stop, pos.stop) >= 0
        /\ pos'.held = pos.held + 1 /\ D1!Gain(pos'.stop, pos.entry) <= 0
    BY <1>1, <1>4, <1>7, <2>1, <2>2 DEF D1!TypeOK, StopBelowEntry
  <2>4. CASE pos.held + 1 >= MaxHold
    BY <2>3, <2>4, CloseKeepsPromises, SaleKeeps
  <2>5. CASE ~(pos.held + 1 >= MaxHold)
    <3>1. dir' = dir /\ D1!Bars' = D1!Bars /\ D1!Threshold' = D1!Threshold
      BY DEF D1!Bars, D1!Gain, D1!Sign, D1!Threshold
    <3>2. D1!TypeOK'
      BY <1>1, <2>3, <2>5, <3>1 DEF D1!TypeOK
    <3>3. D1!Gain(pos'.stop, pos.entry) >= -D1!Threshold
      <4>1. pos \in [entry: Int, stop: Int, peak: Nat, held: 0..MaxHold]
        BY <1>1 DEF D1!TypeOK
      <4>2. D1!Gain(pos.stop, pos.entry) >= -D1!Threshold
        BY <1>4 DEF StopBelowEntry
      <4>3. D1!Gain(pos'.stop, pos.entry) >= -D1!Threshold
        BY ONLY <1>1, <2>3, <4>1, <4>2 DEF D1!Gain, D1!Sign
      <4>. QED  BY <4>3
    <3>4. pos'.held < MaxHold
      <4>1. pos.held \in Nat
        BY <1>1 DEF D1!TypeOK
      <4>. QED  BY ONLY <1>1, <2>3, <2>5, <4>1
    <3>5. StopBelowEntry'
      BY ONLY <2>3, <3>1, <3>3, <3>4 DEF StopBelowEntry, D1!Gain, D1!Sign
    <3>6. DayAtHand' /\ D1!LossWithinRisk' /\ D1!StopExitsNeverWin' /\ D1!SoldInsideTheDay'
      BY <2>5, <3>1 DEF D1!LossWithinRisk, D1!StopExitsNeverWin, D1!SoldInsideTheDay
    <3>. QED  BY <2>3, <3>2, <3>5, <3>6 DEF D1!DailyExitsWithinStops
  <2>. QED  BY <2>4, <2>5
<1>10. CASE D1!Closed \/ UNCHANGED D1!vars
  BY <1>1, <1>10 DEF D1!Closed, D1!vars, StopBelowEntry, D1!DailyExitsWithinStops,
     D1!TypeOK, D1!LossWithinRisk, D1!StopExitsNeverWin, D1!SoldInsideTheDay, D1!Bars,
     D1!Threshold, D1!Gain, D1!Sign
<1>. QED
  BY <1>2, <1>3, <1>5, <1>6, <1>8, <1>9, <1>10 DEF D1!Next

-----------------------------------------------------------------------------
\* The daily trade in MCTrades, where other machines move the bar and the direction
\* only before the trade is entered.
DailyMachine == DailyInv /\ (machine # "d1" => turn = "entry")

LEMMA OthersLeaveTheDayAlone ==
  ASSUME [MCNext]_allVars, machine # "d1"
  PROVE  /\ UNCHANGED <<dir, turn, pos, sold, machine>>
         /\ now' \in Bars \cup {Unprinted, now}
<1>. USE DEF d1Vars
<1>1. CASE machine = "m5" /\ Next /\ UNCHANGED <<machine, d1Vars, guardVars, bookVars>>
  BY <1>1 DEF Next, NextBar, Fill, Wait, StopHit, SignalExit, ProfitTake, Hold,
       TimeFlat, Over, vars
<1>2. CASE UNCHANGED <<machine, dir, now, d1Vars>>
  BY <1>2
<1>. QED  BY <1>1, <1>2 DEF MCNext, allVars

LEMMA DailyMachineStep ==
  ASSUME DailyMachine, [MCNext]_allVars
  PROVE  DailyMachine' /\ [turn # "entry" => D1!Gain(pos'.stop, pos.stop) >= 0]_D1!vars
<1>1. CASE machine = "d1"
  <2>1. [D1!Next]_D1!vars /\ machine' = machine
    BY <1>1 DEF MCNext, allVars, d1Vars, D1!vars
  <2>2. DailyInv' /\ (turn # "entry" => D1!Gain(pos'.stop, pos.stop) >= 0)
    BY <2>1, NextDaily, TradesConstants DEF DailyMachine
  <2>. QED  BY <1>1, <2>1, <2>2 DEF DailyMachine
<1>2. CASE machine # "d1"
  <2>1. /\ UNCHANGED <<dir, turn, pos, sold, machine>> /\ turn = "entry"
        /\ now' \in D1!Bars \cup {D1!Unprinted, now}
    BY <1>2, OthersLeaveTheDayAlone
    DEF DailyMachine, Bars, D1!Bars, Gain, D1!Gain, Sign, D1!Sign, Unprinted, D1!Unprinted
  <2>2. D1!TypeOK' /\ sold.reason = "none"
    BY <2>1 DEF DailyMachine, DailyInv, DayAtHand, D1!DailyExitsWithinStops, D1!TypeOK,
       D1!Bars, D1!Gain, D1!Sign
  <2>3. DailyInv'
    BY <2>1, <2>2 DEF DailyInv, DayAtHand, StopBelowEntry, D1!DailyExitsWithinStops,
       D1!LossWithinRisk, D1!StopExitsNeverWin, D1!SoldInsideTheDay
  <2>. QED  BY <1>2, <2>1, <2>3 DEF DailyMachine
<1>. QED  BY <1>1, <1>2

LEMMA DailyMachineInvariant == MCSpec => []DailyMachine
<1>1. MCInit => DailyMachine
  <2>. SUFFICES ASSUME MCInit PROVE DailyMachine
    OBVIOUS
  <2>1. D1!Init
    BY DEF MCInit
  <2>2. DailyInv
    BY <2>1, InitDaily, TradesConstants
  <2>. QED  BY <2>1, <2>2 DEF DailyMachine, D1!Init
<1>. QED  BY <1>1, DailyMachineStep, PTL DEF MCSpec

\* No trade of the daily engine loses more than the 1.5 ATR it was sized for unless a
\* day opened beyond its stop, its stop exits never win, and it is sold at a price of
\* its day.
THEOREM DailyExitsAlways == MCSpec => []DailyExitsWithinStops
<1>1. DailyMachine => DailyExitsWithinStops
  BY DEF DailyMachine, DailyInv, DailyExitsWithinStops
<1>. QED  BY <1>1, DailyMachineInvariant, PTL

\* Its stop is never moved away from the price.
THEOREM DailyStopAlwaysTightens == MCSpec => DailyStopTightens
<1>. DEFINE Tightens == turn # "entry" => D1!Gain(pos'.stop, pos.stop) >= 0
<1>1. DailyMachine /\ [MCNext]_allVars => [Tightens]_D1!vars
  BY DailyMachineStep
<1>2. [][MCNext]_allVars /\ []DailyMachine => [][Tightens]_D1!vars
  <2>. HIDE DEF Tightens
  <2>. QED  BY <1>1, PTL
<1>. QED  BY <1>2, DailyMachineInvariant DEF MCSpec, DailyStopTightens, D1!DailyStopTightens

-----------------------------------------------------------------------------
\* The guards.  What the counter and the pause stand for: the run of stop-outs that
\* ends with the last exit, and the latest end of any pause of this session.
ExitType == [equity: Int, bar: Nat, stop: BOOLEAN, session: Nat]
Stopped == {k \in Guards!Today : exits[k].stop}
Endings == {k \in Stopped : /\ k >= StopoutLimit
                            /\ (k - StopoutLimit + 1)..k \subseteq Stopped}

RunCounted ==
  /\ risk.consec <= Len(exits)
  /\ (Len(exits) - risk.consec + 1)..Len(exits) \subseteq Stopped
  /\ Len(exits) - risk.consec \notin Stopped

PauseKept ==
  /\ risk.haltUntil > 0 => \E k \in Endings : risk.haltUntil = exits[k].bar + HaltBars
  /\ \A k \in Endings : exits[k].bar + HaltBars <= risk.haltUntil

ExitsPast ==
  \A k \in DOMAIN exits : exits[k].bar <= bar /\ exits[k].session <= session

GuardsInv ==
  /\ Guards!TypeOK /\ Guards!DailyHaltExact /\ Guards!WeeklyHaltExact
  /\ RunCounted /\ PauseKept /\ ExitsPast

LEMMA GuardsTyped ==
  ASSUME Guards!TypeOK
  PROVE  /\ bar \in Nat /\ equity \in Int /\ session \in Nat
         /\ exits \in Seq(ExitType) /\ Len(exits) \in Nat
         /\ DOMAIN exits = 1..Len(exits)
         /\ \A k \in DOMAIN exits : /\ exits[k].bar \in Nat /\ exits[k].session \in Nat
                                    /\ exits[k].equity \in Int /\ exits[k].stop \in BOOLEAN
         /\ risk \in Guards!RiskState
         /\ risk.today \in Int /\ risk.week \in Int
         /\ risk.consec \in Nat /\ risk.haltUntil \in Nat
         /\ risk.daily \in BOOLEAN /\ risk.weekly \in BOOLEAN
<1>1. exits \in Seq(ExitType) /\ risk \in Guards!RiskState
  BY DEF Guards!TypeOK, ExitType
<1>2. /\ Len(exits) \in Nat /\ DOMAIN exits = 1..Len(exits)
      /\ \A k \in DOMAIN exits : exits[k] \in ExitType
  BY <1>1
<1>3. \A k \in DOMAIN exits : /\ exits[k].bar \in Nat /\ exits[k].session \in Nat
                              /\ exits[k].equity \in Int /\ exits[k].stop \in BOOLEAN
  BY <1>2 DEF ExitType
<1>4. /\ risk.today \in Int /\ risk.week \in Int
      /\ risk.consec \in Nat /\ risk.haltUntil \in Nat
      /\ risk.daily \in BOOLEAN /\ risk.weekly \in BOOLEAN
  BY <1>1 DEF Guards!RiskState
<1>. QED  BY <1>1, <1>2, <1>3, <1>4 DEF Guards!TypeOK

LEMMA LimitsTyped ==
  /\ StopoutLimit \in Nat \ {0} /\ HaltBars \in Nat
  /\ StartingEquity \in Nat /\ Pnls \subseteq Int
BY TradesConstants DEF Guards!RiskManagerConstants

LEMMA GuardsAgree == ASSUME GuardsInv PROVE Guards!HaltsExact
<1>. USE LimitsTyped
<1>1. /\ bar \in Nat /\ risk.haltUntil \in Nat
      /\ Guards!Today \subseteq DOMAIN exits /\ DOMAIN exits \subseteq Nat
      /\ \A k \in DOMAIN exits : exits[k].bar \in Nat
  BY GuardsTyped DEF GuardsInv, Guards!Today
<1>2. \A k \in Guards!Today : Guards!EndsStopoutRun(k) <=> k \in Endings
  <2>. SUFFICES ASSUME NEW k \in Guards!Today
                PROVE  Guards!EndsStopoutRun(k) <=> k \in Endings
    OBVIOUS
  <2>1. k \in Nat
    BY <1>1
  <2>2. k \in (k - StopoutLimit + 1)..k
    BY <2>1
  <2>3. Guards!EndsStopoutRun(k)
          <=> k >= StopoutLimit /\ (k - StopoutLimit + 1)..k \subseteq Stopped
    BY DEF Guards!EndsStopoutRun, Stopped
  <2>. QED  BY <2>2, <2>3 DEF Endings
<1>3. Endings \subseteq Guards!Today
  BY DEF Endings, Stopped
<1>4. (bar < risk.haltUntil) <=> \E k \in Endings : bar < exits[k].bar + HaltBars
  BY <1>1, <1>3 DEF GuardsInv, PauseKept
<1>5. Guards!StopoutPauseExact
  BY <1>2, <1>3, <1>4 DEF Guards!StopoutPauseExact
<1>. QED  BY <1>5 DEF GuardsInv, Guards!HaltsExact

LEMMA InitGuards == ASSUME Guards!Init PROVE GuardsInv
<1>. USE LimitsTyped DEF Guards!Init, Guards!FreshRisk
<1>1. exits = <<>> /\ Len(exits) = 0 /\ DOMAIN exits = {}
  OBVIOUS
<1>2. Guards!TypeOK
  BY DEF Guards!TypeOK, Guards!RiskState
<1>3. Guards!Today = {} /\ Stopped = {} /\ Endings = {}
  BY <1>1 DEF Guards!Today, Stopped, Endings
<1>4. Guards!DailyHaltExact /\ Guards!WeeklyHaltExact /\ PauseKept /\ ExitsPast
  BY <1>1, <1>3 DEF Guards!DailyHaltExact, Guards!WeeklyHaltExact, PauseKept, ExitsPast
<1>5. RunCounted
  BY <1>1, <1>3 DEF RunCounted
<1>. QED  BY <1>2, <1>4, <1>5 DEF GuardsInv

\* What an exit adds to the history.
LEMMA CloseExtends ==
  ASSUME Guards!TypeOK, NEW pnl \in Pnls, NEW reason \in Guards!Reasons,
         Guards!Close(pnl, reason)
  PROVE  LET last == Len(exits) + 1 IN
         /\ Guards!TypeOK'
         /\ bar' = bar /\ session' = session /\ equity' = equity + pnl
         /\ risk'.today = risk.today /\ risk'.week = risk.week
         /\ Len(exits') = last /\ DOMAIN exits' = 1..last
         /\ \A k \in DOMAIN exits : exits'[k] = exits[k]
         /\ exits'[last].equity = equity + pnl
         /\ exits'[last].bar = bar /\ exits'[last].session = session
         /\ Guards!Today' = Guards!Today \cup {last}
         /\ Stopped' = Stopped \cup (IF reason = "hard_stop" THEN {last} ELSE {})
<1>. USE LimitsTyped, GuardsTyped
<1>. DEFINE n == Len(exits)
            e == [equity |-> equity + pnl, bar |-> bar, stop |-> (reason = "hard_stop"),
                  session |-> session]
            stops == IF reason = "hard_stop" THEN risk.consec + 1 ELSE 0
<1>1. /\ bar' = bar /\ session' = session /\ equity' = equity + pnl
      /\ exits' = Append(exits, e)
  BY DEF Guards!Close
<1>2. e \in ExitType
  BY DEF ExitType
<1>3. /\ e.equity = equity + pnl /\ e.bar = bar /\ e.session = session
      /\ (e.stop <=> reason = "hard_stop")
  OBVIOUS
<1>. HIDE DEF e
<1>4. /\ exits' \in Seq(ExitType) /\ Len(exits') = n + 1 /\ DOMAIN exits' = 1..(n + 1)
      /\ DOMAIN exits = 1..n /\ exits'[n + 1] = e
      /\ \A k \in 1..n : exits'[k] = exits[k]
  BY <1>1, <1>2
<1>5. Guards!Today' = Guards!Today \cup {n + 1} /\ Guards!Today \subseteq 1..n
  BY <1>1, <1>3, <1>4 DEF Guards!Today
<1>6. Stopped' = Stopped \cup (IF reason = "hard_stop" THEN {n + 1} ELSE {})
  <2>1. n + 1 \notin Guards!Today
    BY <1>5
  <2>. QED  BY <1>3, <1>4, <1>5, <2>1 DEF Stopped
<1>7. risk' \in Guards!RiskState /\ risk'.today = risk.today /\ risk'.week = risk.week
  <2>. DEFINE paused == IF stops >= StopoutLimit THEN bar + HaltBars ELSE risk.haltUntil
              daily == IF Guards!LossLimitHit(equity + pnl, risk.today, DailyLossPct)
                       THEN TRUE ELSE risk.daily
              weekly == IF Guards!LossLimitHit(equity + pnl, risk.week, WeeklyLossPct)
                        THEN TRUE ELSE risk.weekly
  <2>1. risk' = [today |-> risk.today, week |-> risk.week, consec |-> stops,
                 haltUntil |-> paused, daily |-> daily, weekly |-> weekly]
    BY DEF Guards!Close, Guards!RegisterExit
  <2>2. stops \in Nat /\ paused \in Nat
    OBVIOUS
  <2>3. daily \in BOOLEAN /\ weekly \in BOOLEAN
    OBVIOUS
  <2>. HIDE DEF stops, paused, daily, weekly
  <2>. QED  BY <2>1, <2>2, <2>3 DEF Guards!RiskState
<1>8. Guards!TypeOK'
  BY <1>1, <1>4, <1>7 DEF Guards!TypeOK, ExitType
<1>. QED  BY <1>1, <1>3, <1>4, <1>5, <1>6, <1>7, <1>8

\* register_exit.
LEMMA CloseGuards ==
  ASSUME GuardsInv, NEW pnl \in Pnls, NEW reason \in Guards!Reasons,
         Guards!Close(pnl, reason)
  PROVE  GuardsInv'
<1>. USE LimitsTyped
<1>. DEFINE n == Len(exits)
            last == n + 1
            stops == IF reason = "hard_stop" THEN risk.consec + 1 ELSE 0
<1>1. /\ Guards!TypeOK /\ n \in Nat /\ DOMAIN exits = 1..n
      /\ bar \in Nat /\ session \in Nat
      /\ risk.consec \in Nat /\ risk.haltUntil \in Nat /\ stops \in Nat
      /\ \A k \in 1..n : exits[k].bar \in Nat
  BY GuardsTyped DEF GuardsInv
<1>2. /\ Guards!TypeOK'
      /\ bar' = bar /\ session' = session /\ equity' = equity + pnl
      /\ risk'.today = risk.today /\ risk'.week = risk.week
      /\ Len(exits') = last /\ DOMAIN exits' = 1..last
      /\ \A k \in 1..n : exits'[k] = exits[k]
      /\ exits'[last].equity = equity + pnl
      /\ exits'[last].bar = bar /\ exits'[last].session = session
      /\ Guards!Today' = Guards!Today \cup {last}
      /\ Stopped' = Stopped \cup (IF reason = "hard_stop" THEN {last} ELSE {})
  BY <1>1, CloseExtends
<1>3. /\ risk'.consec = stops
      /\ risk'.haltUntil = (IF stops >= StopoutLimit THEN bar + HaltBars
                            ELSE risk.haltUntil)
      /\ risk'.daily = (IF Guards!LossLimitHit(equity + pnl, risk.today, DailyLossPct)
                        THEN TRUE ELSE risk.daily)
      /\ risk'.weekly = (IF Guards!LossLimitHit(equity + pnl, risk.week, WeeklyLossPct)
                         THEN TRUE ELSE risk.weekly)
  BY DEF Guards!Close, Guards!RegisterExit
<1>4. /\ Guards!Today \subseteq 1..n /\ Stopped \subseteq 1..n /\ Endings \subseteq Stopped
      /\ last \in Nat /\ last \notin 1..n /\ 1..last = 1..n \cup {last}
  BY <1>1 DEF Guards!Today, Stopped, Endings
<1>. HIDE DEF stops, n
<1>5. Guards!DailyHaltExact'
  <2>1. (\E k \in Guards!Today' :
           Guards!LossLimitHit(exits'[k].equity, risk.today, DailyLossPct))
        <=> \/ \E k \in Guards!Today :
                 Guards!LossLimitHit(exits[k].equity, risk.today, DailyLossPct)
            \/ Guards!LossLimitHit(equity + pnl, risk.today, DailyLossPct)
    BY <1>2, <1>4
  <2>. QED  BY <1>2, <1>3, <2>1 DEF GuardsInv, Guards!DailyHaltExact
<1>6. Guards!WeeklyHaltExact'
  <2>1. (\E k \in DOMAIN exits' :
           Guards!LossLimitHit(exits'[k].equity, risk.week, WeeklyLossPct))
        <=> \/ \E k \in DOMAIN exits :
                 Guards!LossLimitHit(exits[k].equity, risk.week, WeeklyLossPct)
            \/ Guards!LossLimitHit(equity + pnl, risk.week, WeeklyLossPct)
    BY <1>1, <1>2, <1>4
  <2>. QED  BY <1>2, <1>3, <2>1 DEF GuardsInv, Guards!WeeklyHaltExact
<1>7. /\ risk.consec <= n
      /\ (n - risk.consec + 1)..n \subseteq Stopped
      /\ n - risk.consec \notin Stopped
  BY DEF GuardsInv, RunCounted, n
<1>8. /\ stops <= last
      /\ (last - stops + 1)..last \subseteq Stopped'
      /\ last - stops \notin Stopped'
  <2>1. CASE reason = "hard_stop"
    <3>1. stops = risk.consec + 1
      BY <2>1 DEF stops
    <3>2. /\ last - stops + 1 = n - risk.consec + 1 /\ last - stops = n - risk.consec
          /\ n - risk.consec # last /\ stops <= last
          /\ (n - risk.consec + 1)..last = (n - risk.consec + 1)..n \cup {last}
      BY <1>1, <1>7, <3>1
    <3>3. Stopped' = Stopped \cup {last}
      BY <1>2, <2>1
    <3>. QED  BY <1>7, <3>2, <3>3
  <2>2. CASE reason # "hard_stop"
    <3>1. stops = 0 /\ Stopped' = Stopped
      BY <1>2, <2>2 DEF stops
    <3>2. (last - 0 + 1)..last = {} /\ last - 0 = last /\ 0 <= last
      BY <1>1
    <3>. QED  BY <1>4, <3>1, <3>2
  <2>. QED  BY <2>1, <2>2
<1>9. RunCounted'
  BY <1>2, <1>3, <1>8 DEF RunCounted
<1>10. Endings' = Endings \cup (IF stops >= StopoutLimit THEN {last} ELSE {})
  <2>1. ASSUME NEW k \in 1..n
        PROVE  k \in Endings' <=> k \in Endings
    <3>1. (k - StopoutLimit + 1)..k \subseteq Stopped'
            <=> (k - StopoutLimit + 1)..k \subseteq Stopped
      <4>1. last \notin (k - StopoutLimit + 1)..k
        BY <1>1
      <4>. QED  BY <1>2, <4>1
    <3>2. k \in Stopped' <=> k \in Stopped
      BY <1>2, <1>4
    <3>. QED  BY <3>1, <3>2 DEF Endings
  <2>2. Endings' \subseteq 1..n \cup {last}
    BY <1>2, <1>4 DEF Endings
  <2>3. last \in Endings' <=> stops >= StopoutLimit
    <3>1. CASE stops >= StopoutLimit
      <4>1. /\ last >= StopoutLimit
            /\ (last - StopoutLimit + 1)..last \subseteq (last - stops + 1)..last
            /\ last \in (last - StopoutLimit + 1)..last
        BY <1>1, <1>8, <3>1
      <4>. QED  BY <1>8, <3>1, <4>1 DEF Endings
    <3>2. CASE stops < StopoutLimit
      <4>1. last >= StopoutLimit =>
              last - stops \in (last - StopoutLimit + 1)..last
        BY <1>1, <1>8, <3>2
      <4>2. ~(stops >= StopoutLimit)
        BY <1>1, <3>2
      <4>. QED  BY <1>8, <4>1, <4>2 DEF Endings
    <3>. QED  BY <1>1, <3>1, <3>2
  <2>. QED  BY <1>4, <2>1, <2>2, <2>3
<1>11. ExitsPast'
  BY <1>1, <1>2, <1>4 DEF GuardsInv, ExitsPast
<1>12. PauseKept'
  <2>1. \A k \in Endings : /\ exits[k].bar \in Nat /\ exits[k].bar <= bar
                           /\ exits'[k] = exits[k]
    BY <1>1, <1>2, <1>4 DEF GuardsInv, ExitsPast
  <2>2. CASE stops >= StopoutLimit
    <3>1. risk'.haltUntil = bar + HaltBars /\ Endings' = Endings \cup {last}
      BY <1>3, <1>10, <2>2
    <3>2. exits'[last].bar + HaltBars = risk'.haltUntil
      BY <1>2, <3>1
    <3>3. \A k \in Endings : exits'[k].bar + HaltBars <= risk'.haltUntil
      BY <1>1, <2>1, <3>1
    <3>4. risk'.haltUntil <= risk'.haltUntil
      BY <1>1, <3>1
    <3>. QED  BY <3>1, <3>2, <3>3, <3>4 DEF PauseKept
  <2>3. CASE ~(stops >= StopoutLimit)
    <3>1. risk'.haltUntil = risk.haltUntil /\ Endings' = Endings
      BY <1>3, <1>10, <2>3
    <3>. QED  BY <2>1, <3>1 DEF GuardsInv, PauseKept
  <2>. QED  BY <2>2, <2>3
<1>. QED  BY <1>2, <1>5, <1>6, <1>9, <1>11, <1>12 DEF GuardsInv

\* new_session and new_week.
LEMMA RollGuards ==
  ASSUME GuardsInv, NEW roll \in {"none", "session", "week"}, Guards!NextBar(roll)
  PROVE  GuardsInv'
<1>. USE LimitsTyped
<1>1. /\ Guards!TypeOK /\ risk \in Guards!RiskState
      /\ equity \in Int /\ bar \in Nat /\ session \in Nat
      /\ Len(exits) \in Nat /\ DOMAIN exits = 1..Len(exits)
      /\ \A k \in DOMAIN exits : exits[k].bar \in Nat /\ exits[k].session \in Nat
      /\ risk.today \in Int /\ risk.week \in Int
      /\ risk.daily \in BOOLEAN /\ risk.weekly \in BOOLEAN
  BY GuardsTyped DEF GuardsInv
<1>2. /\ equity' = equity /\ bar' = bar + 1
      /\ risk' = Guards!Rollover(risk, roll, equity)
  BY DEF Guards!NextBar
<1>3. CASE roll = "none"
  <2>1. risk' = risk /\ exits' = exits /\ session' = session
    BY <1>2, <1>3 DEF Guards!NextBar, Guards!Rollover
  <2>2. Guards!Today' = Guards!Today /\ Stopped' = Stopped /\ Endings' = Endings
    BY <2>1 DEF Guards!Today, Stopped, Endings
  <2>3. Guards!TypeOK' /\ Guards!DailyHaltExact' /\ Guards!WeeklyHaltExact'
    BY <1>1, <1>2, <2>1, <2>2 DEF GuardsInv, Guards!TypeOK, Guards!DailyHaltExact,
       Guards!WeeklyHaltExact
  <2>4. RunCounted' /\ PauseKept'
    BY <2>1, <2>2 DEF GuardsInv, RunCounted, PauseKept
  <2>5. ExitsPast'
    BY <1>1, <1>2, <2>1 DEF GuardsInv, ExitsPast
  <2>. QED  BY <2>3, <2>4, <2>5 DEF GuardsInv
<1>4. CASE roll = "session"
  <2>1. /\ risk' = [today |-> equity, week |-> risk.week, consec |-> 0, haltUntil |-> 0,
                    daily |-> FALSE, weekly |-> risk.weekly]
        /\ exits' = exits /\ session' = session + 1
    BY <1>2, <1>4 DEF Guards!NextBar, Guards!Rollover, Guards!NewSession
  <2>2. \A k \in DOMAIN exits : exits[k].bar <= bar /\ exits[k].session <= session
    BY DEF GuardsInv, ExitsPast
  <2>3. Guards!Today' = {} /\ Stopped' = {} /\ Endings' = {}
    <3>1. \A k \in DOMAIN exits : exits[k].session # session + 1
      BY <1>1, <2>2
    <3>. QED  BY <2>1, <3>1 DEF Guards!Today, Stopped, Endings
  <2>4. Guards!TypeOK'
    BY <1>1, <1>2, <2>1 DEF Guards!TypeOK, Guards!RiskState
  <2>5. Guards!DailyHaltExact' /\ Guards!WeeklyHaltExact'
    BY <2>1, <2>3 DEF GuardsInv, Guards!DailyHaltExact, Guards!WeeklyHaltExact
  <2>6. PauseKept'
    BY <2>1, <2>3 DEF PauseKept
  <2>7. ExitsPast'
    BY <1>1, <1>2, <2>1, <2>2 DEF ExitsPast
  <2>8. RunCounted'
    <3>1. (Len(exits) - 0 + 1)..Len(exits) = {}
      BY <1>1
    <3>. QED  BY <1>1, <2>1, <2>3, <3>1 DEF RunCounted
  <2>. QED  BY <2>4, <2>5, <2>6, <2>7, <2>8 DEF GuardsInv
<1>5. CASE roll = "week"
  <2>1. /\ risk' = [today |-> equity, week |-> equity, consec |-> 0, haltUntil |-> 0,
                    daily |-> FALSE, weekly |-> FALSE]
        /\ exits' = <<>> /\ session' = session + 1
    BY <1>2, <1>5 DEF Guards!NextBar, Guards!Rollover, Guards!NewSession, Guards!NewWeek
  <2>2. Len(exits') = 0 /\ DOMAIN exits' = {}
    BY <2>1
  <2>3. Guards!Today' = {} /\ Stopped' = {} /\ Endings' = {}
    BY <2>2 DEF Guards!Today, Stopped, Endings
  <2>4. Guards!TypeOK'
    BY <1>1, <1>2, <2>1 DEF Guards!TypeOK, Guards!RiskState
  <2>5. /\ Guards!DailyHaltExact' /\ Guards!WeeklyHaltExact'
        /\ PauseKept' /\ ExitsPast'
    BY <2>1, <2>2, <2>3 DEF Guards!DailyHaltExact, Guards!WeeklyHaltExact, PauseKept,
       ExitsPast
  <2>6. RunCounted'
    BY <2>1, <2>2, <2>3 DEF RunCounted
  <2>. QED  BY <2>4, <2>5, <2>6 DEF GuardsInv
<1>. QED  BY <1>3, <1>4, <1>5

LEMMA GuardsInvariant == MCSpec => [](machine = "guards" => GuardsInv)
<1>1. MCInit => (machine = "guards" => GuardsInv)
  BY InitGuards DEF MCInit
<1>2. (machine = "guards" => GuardsInv) /\ [MCNext]_allVars
        => (machine = "guards" => GuardsInv)'
  <2>. SUFFICES ASSUME GuardsInv, machine = "guards", [MCNext]_allVars PROVE GuardsInv'
    BY DEF MCNext, allVars
  <2>1. CASE Guards!Next
    BY <2>1, CloseGuards, RollGuards DEF Guards!Next
  <2>2. CASE UNCHANGED guardVars
    BY <2>2 DEF guardVars, GuardsInv, Guards!TypeOK, Guards!DailyHaltExact,
       Guards!WeeklyHaltExact, RunCounted, PauseKept, ExitsPast, Stopped, Endings,
       Guards!Today
  <2>. QED  BY <2>1, <2>2 DEF MCNext, allVars
<1>. QED  BY <1>1, <1>2, PTL DEF MCSpec

\* The counters and flags of RiskManager say at every moment what the exits of the
\* week justify: for any limits, any pause and any profits and losses.
THEOREM HaltsExactAlways == MCSpec => []HaltsExact
<1>1. (machine = "guards" => GuardsInv) => HaltsExact
  BY GuardsAgree DEF HaltsExact
<1>. QED  BY <1>1, GuardsInvariant, PTL

-----------------------------------------------------------------------------
\* The book of the daily engine never holds more of a direction than max_concurrent,
\* whatever the lists the orders come from: is_full is asked anew for every order.
BookCap ==
  /\ IsFiniteSet(Symbols)
  /\ DOMAIN position = Symbols
  /\ \A d \in Book!Dir : Cardinality(Book!Held(d)) <= Book!MaxConcurrent(d)

\* BookD1 counts with the operators of its own copy of FiniteSets.
LEMMA BookCounts ==
  /\ Book!IsFiniteSet(Symbols) <=> IsFiniteSet(Symbols)
  /\ \A S : Book!Cardinality(S) = Cardinality(S)
BY DEF Book!IsFiniteSet, Book!Cardinality, IsFiniteSet, Cardinality

LEMMA CapsTyped ==
  /\ IsFiniteSet(Symbols)
  /\ \A d : Book!MaxConcurrent(d) \in Nat
BY BookCounts, TradesConstants DEF Book!BookD1Constants, Book!MaxConcurrent

LEMMA HeldCounted ==
  \A d : /\ IsFiniteSet(Book!Held(d)) /\ Cardinality(Book!Held(d)) \in Nat
         /\ Book!Full(d) <=> Cardinality(Book!Held(d)) >= Book!MaxConcurrent(d)
<1>. TAKE d
<1>1. Book!Held(d) \subseteq Symbols
  BY DEF Book!Held
<1>2. IsFiniteSet(Book!Held(d))
  BY <1>1, CapsTyped, FS_Subset
<1>. HIDE DEF Book!Held
<1>3. Cardinality(Book!Held(d)) \in Nat
  BY <1>2, FS_CardinalityType
<1>4. Book!Full(d) <=> Cardinality(Book!Held(d)) >= Book!MaxConcurrent(d)
  BY BookCounts DEF Book!Full
<1>. QED  BY <1>2, <1>3, <1>4

\* A position that closes only makes room.
LEMMA RoomKept ==
  ASSUME BookCap, DOMAIN position' = Symbols,
         \A d \in Book!Dir : Book!Held(d)' \subseteq Book!Held(d)
  PROVE  BookCap'
<1>. SUFFICES ASSUME NEW d \in Book!Dir
              PROVE  Cardinality(Book!Held(d)') <= Book!MaxConcurrent(d)
  BY CapsTyped DEF BookCap, Book!MaxConcurrent
<1>. DEFINE before == Book!Held(d)
            after == Book!Held(d)'
            cap == Book!MaxConcurrent(d)
<1>1. after \subseteq before /\ IsFiniteSet(before)
      /\ Cardinality(before) \in Nat /\ Cardinality(before) <= cap /\ cap \in Nat
  BY HeldCounted, CapsTyped DEF BookCap
<1>. HIDE DEF before, after, cap
<1>2. Cardinality(after) <= Cardinality(before) /\ Cardinality(after) \in Nat
  BY <1>1, FS_Subset, FS_CardinalityType
<1>3. Cardinality(after) <= cap
  BY <1>1, <1>2
<1>. QED  BY <1>3 DEF after, cap

\* An order fills only where the count taken for it leaves a slot.
LEMMA FillTakesASlot ==
  ASSUME BookCap, NEW s, NEW e, ~Book!Full(e),
         position' = [position EXCEPT ![s] = [dir |-> e, held |-> 0]]
  PROVE  BookCap'
<1>. SUFFICES ASSUME NEW d \in Book!Dir
              PROVE  Cardinality(Book!Held(d)') <= Book!MaxConcurrent(d)
  BY CapsTyped DEF BookCap, Book!MaxConcurrent
<1>. DEFINE before == Book!Held(d)
            after == Book!Held(d)'
            cap == Book!MaxConcurrent(d)
<1>1. /\ IsFiniteSet(before) /\ Cardinality(before) \in Nat
      /\ Cardinality(before) <= cap /\ cap \in Nat
      /\ d = e => Cardinality(before) < cap
  BY HeldCounted, CapsTyped DEF BookCap
<1>2. after \subseteq before \cup {s} /\ (d # e => after \subseteq before)
  BY DEF BookCap, Book!Held
<1>. HIDE DEF before, after, cap
<1>3. /\ IsFiniteSet(before \cup {s})
      /\ Cardinality(before \cup {s}) \in Nat
      /\ Cardinality(before \cup {s}) <= Cardinality(before) + 1
  <2>1. /\ IsFiniteSet(before \cup {s})
        /\ \/ Cardinality(before \cup {s}) = Cardinality(before)
           \/ Cardinality(before \cup {s}) = Cardinality(before) + 1
    BY <1>1, FS_AddElement, Zenon
  <2>. QED  BY <1>1, <2>1
<1>4. CASE d = e
  <2>1. Cardinality(after) <= Cardinality(before \cup {s}) /\ Cardinality(after) \in Nat
    BY <1>2, <1>3, FS_Subset, FS_CardinalityType
  <2>2. Cardinality(after) <= cap
    BY <1>1, <1>3, <1>4, <2>1
  <2>. QED  BY <2>2 DEF after, cap
<1>5. CASE d # e
  <2>1. Cardinality(after) <= Cardinality(before) /\ Cardinality(after) \in Nat
    BY <1>1, <1>2, <1>5, FS_Subset, FS_CardinalityType
  <2>2. Cardinality(after) <= cap
    BY <1>1, <2>1
  <2>. QED  BY <2>2 DEF after, cap
<1>. QED  BY <1>4, <1>5

LEMMA ManageOnlyCloses ==
  ASSUME BookCap, Book!Manage
  PROVE  /\ DOMAIN position' = Symbols
         /\ \A d \in Book!Dir : Book!Held(d)' \subseteq Book!Held(d)
<1>1. PICK closed \in SUBSET (Book!Held("LONG") \cup Book!Held("SHORT")) :
        position' = [s \in Symbols |->
           IF s \in closed \/ s \notin Book!Held("LONG") \cup Book!Held("SHORT")
           THEN Book!NoPosition ELSE [position[s] EXCEPT !.held = @ + 1]]
  BY DEF Book!Manage
<1>2. SUFFICES ASSUME NEW d \in Book!Dir, NEW s \in Symbols, position'[s].dir = d
               PROVE  position[s].dir = d
  BY <1>1 DEF Book!Held
<1>3. CASE position'[s] = Book!NoPosition
  BY <1>2, <1>3 DEF Book!NoPosition, Book!Dir
<1>4. CASE /\ position'[s] = [position[s] EXCEPT !.held = @ + 1]
           /\ s \in Book!Held("LONG") \cup Book!Held("SHORT")
  <2>1. [position[s] EXCEPT !.held = @ + 1].dir = position[s].dir
    BY <1>2, <1>4 DEF Book!Held
  <2>. QED  BY <1>2, <1>4, <2>1
<1>. QED  BY <1>1, <1>3, <1>4

LEMMA BookCapStep == ASSUME BookCap, Book!Next PROVE BookCap'
<1>1. CASE Book!FillOne
  <2>. DEFINE s == Head(pending)[1]
              e == Head(pending)[2]
  <2>1. position' = position
        \/ (~Book!Full(e) /\ position' = [position EXCEPT ![s] = [dir |-> e, held |-> 0]])
    BY <1>1 DEF Book!FillOne
  <2>. HIDE DEF s, e
  <2>2. CASE position' = position
    BY <2>2 DEF BookCap, Book!Held
  <2>. QED  BY <2>1, <2>2, FillTakesASlot
<1>2. CASE Book!Manage
  BY <1>2, ManageOnlyCloses, RoomKept
<1>3. CASE UNCHANGED position
  BY <1>3 DEF BookCap, Book!Held
<1>. QED
  BY <1>1, <1>2, <1>3 DEF Book!Next, Book!AllFilled, Book!Signal, Book!Over, Book!vars

-----------------------------------------------------------------------------
\* Induction over the natural numbers, for a set.
LEMMA NatInSet ==
  ASSUME NEW T, 0 \in T, \A k \in Nat : k \in T => k + 1 \in T
  PROVE  Nat \subseteq T
<1>. SUFFICES ASSUME Nat \ T # {} PROVE FALSE
  OBVIOUS
<1>1. IsWellFoundedOn(OpToRel(<, Nat), Nat)
  BY NatLessThanWellFounded
<1>2. PICK m \in Nat \ T : \A k \in Nat \ T : <<k, m>> \notin OpToRel(<, Nat)
  BY <1>1, WFMin
<1>3. m # 0 /\ m - 1 \in Nat /\ m - 1 < m
  OBVIOUS
<1>4. m - 1 \in T
  BY <1>2, <1>3 DEF OpToRel
<1>. QED  BY <1>3, <1>4

LEMMA GreatestOf ==
  ASSUME NEW n \in Nat, NEW s \in SUBSET (1..n), s # {}
  PROVE  Book!Max(s) \in s /\ \A i \in s : Book!Max(s) >= i
<1>. DEFINE P(k) == \A t \in SUBSET (1..k) : t # {} => \E m \in t : \A i \in t : m >= i
            T == {k \in Nat : P(k)}
<1>1. P(0)
  <2>1. 1..0 = {}
    OBVIOUS
  <2>. QED  BY <2>1
<1>2. ASSUME NEW k \in Nat, P(k) PROVE P(k + 1)
  <2>. SUFFICES ASSUME NEW t \in SUBSET (1..(k + 1)), t # {}
                PROVE  \E m \in t : \A i \in t : m >= i
    OBVIOUS
  <2>1. CASE k + 1 \in t
    <3>1. \A i \in t : k + 1 >= i
      OBVIOUS
    <3>. QED  BY <2>1, <3>1
  <2>2. CASE k + 1 \notin t
    <3>1. t \in SUBSET (1..k)
      BY <2>2
    <3>. QED  BY <1>2, <3>1
  <2>. QED  BY <2>1, <2>2
<1>. HIDE DEF P
<1>3. 0 \in T /\ \A k \in Nat : k \in T => k + 1 \in T
  BY <1>1, <1>2
<1>. HIDE DEF T
<1>4. n \in T
  BY <1>3, NatInSet
<1>5. P(n)
  BY <1>4 DEF T
<1>6. \E m \in s : \A i \in s : m >= i
  BY <1>5 DEF P
<1>. QED  BY <1>6 DEF Book!Max

\* What the folds compute exists: a function from the sets of indices of which each value
\* follows from that of the set without its greatest index.
Folded(f, n, grow) ==
  f = [s \in SUBSET (1..n) |->
         IF s = {} THEN <<>> ELSE grow[Book!Max(s)][f[s \ {Book!Max(s)}]]]

LEMMA FoldExists ==
  ASSUME NEW Lists, <<>> \in Lists, NEW n \in Nat, NEW grow \in [1..n -> [Lists -> Lists]]
  PROVE  \E f \in [SUBSET (1..n) -> Lists] : Folded(f, n, grow)
<1>. DEFINE P(k) == k <= n => \E f \in [SUBSET (1..k) -> Lists] : Folded(f, k, grow)
            T == {k \in Nat : P(k)}
<1>1. P(0)
  <2>. DEFINE f == [s \in {{}} |-> <<>>]
  <2>1. SUBSET (1..0) = {{}}
    OBVIOUS
  <2>2. f \in [SUBSET (1..0) -> Lists] /\ Folded(f, 0, grow)
    BY <2>1 DEF Folded
  <2>. QED  BY <2>2
<1>2. ASSUME NEW k \in Nat, P(k) PROVE P(k + 1)
  <2>. SUFFICES ASSUME k + 1 <= n
                PROVE  \E f \in [SUBSET (1..(k + 1)) -> Lists] : Folded(f, k + 1, grow)
    OBVIOUS
  <2>0. k <= n
    OBVIOUS
  <2>1. PICK g \in [SUBSET (1..k) -> Lists] : Folded(g, k, grow)
    BY <1>2, <2>0, Zenon
  <2>. DEFINE f == [s \in SUBSET (1..(k + 1)) |->
                      IF k + 1 \in s THEN grow[k + 1][g[s \ {k + 1}]] ELSE g[s]]
  <2>2. \A s \in SUBSET (1..(k + 1)) :
          /\ k + 1 \in s => s \ {k + 1} \in SUBSET (1..k)
          /\ k + 1 \notin s => s \in SUBSET (1..k)
    OBVIOUS
  <2>3. k + 1 \in 1..n
    OBVIOUS
  <2>4. f \in [SUBSET (1..(k + 1)) -> Lists]
    BY <2>2, <2>3
  <2>5. ASSUME NEW s \in SUBSET (1..(k + 1))
        PROVE  f[s] = IF s = {} THEN <<>>
                      ELSE grow[Book!Max(s)][f[s \ {Book!Max(s)}]]
    <3>1. CASE k + 1 \in s
      <4>0. k + 1 \in Nat /\ s # {}
        BY <3>1
      <4>1. Book!Max(s) \in s /\ Book!Max(s) >= k + 1
        BY <3>1, <4>0, GreatestOf, Zenon
      <4>4. Book!Max(s) \in 1..(k + 1)
        BY <4>1
      <4>2. Book!Max(s) = k + 1
        BY <4>1, <4>4
      <4>3. f[s \ {k + 1}] = g[s \ {k + 1}]
        BY <2>2, <3>1
      <4>. QED  BY <3>1, <4>2, <4>3
    <3>2. CASE k + 1 \notin s /\ s # {}
      <4>1. s \in SUBSET (1..k) /\ Book!Max(s) \in s
        BY <2>2, <3>2, GreatestOf
      <4>2. s \ {Book!Max(s)} \in SUBSET (1..k) /\ k + 1 \notin s \ {Book!Max(s)}
        BY <3>2, <4>1
      <4>3. f[s \ {Book!Max(s)}] = g[s \ {Book!Max(s)}] /\ f[s] = g[s]
        BY <3>2, <4>1, <4>2
      <4>4. g[s] = grow[Book!Max(s)][g[s \ {Book!Max(s)}]]
        BY <2>1, <3>2, <4>1 DEF Folded
      <4>. QED  BY <3>2, <4>3, <4>4
    <3>3. CASE s = {}
      <4>1. g[{}] = <<>>
        BY <2>1 DEF Folded
      <4>. QED  BY <3>3, <4>1
    <3>. QED  BY <3>1, <3>2, <3>3
  <2>6. Folded(f, k + 1, grow)
    <3>. HIDE DEF f
    <3>. DEFINE h == [s \in SUBSET (1..(k + 1)) |->
                       IF s = {} THEN <<>> ELSE grow[Book!Max(s)][f[s \ {Book!Max(s)}]]]
    <3>1. f = [s \in SUBSET (1..(k + 1)) |-> f[s]]
      BY <2>4
    <3>2. f = h
      BY <2>5, <3>1
    <3>. QED  BY <3>2 DEF Folded
  <2>. QED  BY <2>4, <2>6
<1>. HIDE DEF P
<1>3. 0 \in T /\ \A k \in Nat : k \in T => k + 1 \in T
  BY <1>1, <1>2
<1>. HIDE DEF T
<1>4. n \in T
  BY <1>3, NatInSet
<1>5. P(n)
  BY <1>4 DEF T
<1>6. n <= n
  OBVIOUS
<1>. QED  BY <1>5, <1>6, Zenon DEF P

\* g is computed with grow as long as what it computes are lists.
Folds(g, n, grow, Lists) ==
  /\ g[{}] = <<>>
  /\ \A s \in SUBSET (1..n) :
       s # {} /\ g[s \ {Book!Max(s)}] \in Lists
         => g[s] = grow[Book!Max(s)][g[s \ {Book!Max(s)}]]

\* The successive values of a fold, from the empty list to its result.
WalksTo(result, lists, n, grow) ==
  /\ lists[0] = <<>>
  /\ \A k \in 1..n : lists[k] = grow[k][lists[k - 1]]
  /\ lists[n] = result

LEMMA FoldWalks ==
  ASSUME NEW Lists, <<>> \in Lists, NEW n \in Nat, NEW grow \in [1..n -> [Lists -> Lists]],
         NEW g, Folds(g, n, grow, Lists)
  PROVE  \E lists \in [0..n -> Lists] : WalksTo(g[1..n], lists, n, grow)
<1>. USE DEF Folds
<1>. DEFINE lists == [k \in 0..n |-> g[1..k]]
<1>1. lists[0] = <<>>
  <2>1. 1..0 = {}
    OBVIOUS
  <2>. QED  BY <2>1
<1>2. ASSUME NEW k \in 1..n, lists[k - 1] \in Lists PROVE lists[k] = grow[k][lists[k - 1]]
  <2>1. /\ k \in Nat /\ k \in 1..k /\ k - 1 \in 0..n /\ k \in 0..n
        /\ 1..k \in SUBSET (1..n)
    OBVIOUS
  <2>2. Book!Max(1..k) \in 1..k /\ Book!Max(1..k) >= k
    <3>1. 1..k \in SUBSET (1..k) /\ 1..k # {}
      BY <2>1
    <3>. QED  BY <2>1, <3>1, GreatestOf, Zenon
  <2>3. Book!Max(1..k) = k
    BY <2>1, <2>2
  <2>4. (1..k) \ {k} = 1..(k - 1)
    BY <2>1
  <2>5. g[1..(k - 1)] \in Lists
    BY <1>2, <2>1
  <2>6. g[1..k] = grow[k][g[1..(k - 1)]]
    BY <2>1, <2>3, <2>4, <2>5
  <2>. QED  BY <2>1, <2>6
<1>3. \A k \in 0..n : lists[k] \in Lists
  <2>. DEFINE P(k) == k <= n => lists[k] \in Lists
              T == {k \in Nat : P(k)}
  <2>. HIDE DEF lists
  <2>1. P(0)
    BY <1>1
  <2>2. ASSUME NEW k \in Nat, P(k) PROVE P(k + 1)
    <3>. SUFFICES ASSUME k + 1 <= n PROVE lists[k + 1] \in Lists
      OBVIOUS
    <3>1. k + 1 \in 1..n /\ k + 1 - 1 = k /\ lists[k] \in Lists
      BY <2>2
    <3>2. lists[k + 1] = grow[k + 1][lists[k]]
      BY <1>2, <3>1
    <3>. QED  BY <3>1, <3>2
  <2>. HIDE DEF P
  <2>3. 0 \in T /\ \A k \in Nat : k \in T => k + 1 \in T
    <3>1. 0 \in Nat /\ \A k \in Nat : k + 1 \in Nat
      OBVIOUS
    <3>. QED  BY <2>1, <2>2, <3>1, Zenon
  <2>. HIDE DEF T
  <2>4. ASSUME NEW k \in 0..n PROVE lists[k] \in Lists
    <3>1. k \in Nat /\ k <= n
      OBVIOUS
    <3>2. P(k)
      BY <2>3, <3>1, NatInSet DEF T
    <3>. QED  BY <3>1, <3>2 DEF P
  <2>. QED  BY <2>4
<1>4. lists[n] = g[1..n]
  OBVIOUS
<1>5. lists \in [0..n -> Lists]
  BY <1>3
<1>6. \A k \in 1..n : lists[k] = grow[k][lists[k - 1]]
  <2>. TAKE k \in 1..n
  <2>1. k - 1 \in 0..n
    OBVIOUS
  <2>. QED  BY <1>2, <1>3, <2>1
<1>. HIDE DEF lists
<1>. QED  BY <1>1, <1>4, <1>5, <1>6 DEF WalksTo

-----------------------------------------------------------------------------
\* What build_tradeable_list does with the next candidate.
Taken(list, s) == IF Book!HasRoom(list, s) THEN Append(list, s) ELSE list

TakenFold(f, c) ==
  f = [s \in SUBSET (DOMAIN c) |->
         IF s = {} THEN <<>>
         ELSE IF Book!HasRoom(f[s \ {Book!Max(s)}], c[Book!Max(s)])
              THEN Append(f[s \ {Book!Max(s)}], c[Book!Max(s)])
              ELSE f[s \ {Book!Max(s)}]]

\* The list grows candidate by candidate.
LEMMA BuildWalks ==
  ASSUME NEW S, NEW score, Book!Candidates(score) \in Seq(S)
  PROVE  LET c == Book!Candidates(score) IN
         \E lists \in [0..Len(c) -> Seq(S)] :
           /\ lists[0] = <<>>
           /\ \A k \in 1..Len(c) : lists[k] = Taken(lists[k - 1], c[k])
           /\ lists[Len(c)] = Book!BuildTradeable(score)
<1>. DEFINE c == Book!Candidates(score)
            n == Len(c)
            grow == [i \in 1..n |-> [l \in Seq(S) |-> Taken(l, c[i])]]
<1>1. n \in Nat /\ DOMAIN c = 1..n /\ (\A i \in 1..n : c[i] \in S) /\ <<>> \in Seq(S)
  OBVIOUS
<1>2. grow \in [1..n -> [Seq(S) -> Seq(S)]]
  <2>1. \A i \in 1..n, l \in Seq(S) : Taken(l, c[i]) \in Seq(S)
    BY <1>1 DEF Taken
  <2>. QED  BY <2>1
<1>3. PICK f \in [SUBSET (1..n) -> Seq(S)] : Folded(f, n, grow)
  <2>. HIDE DEF grow, n
  <2>. QED  BY <1>1, <1>2, FoldExists
<1>4. TakenFold(f, c)
  <2>. DEFINE h == [s \in SUBSET (1..n) |->
         IF s = {} THEN <<>>
         ELSE IF Book!HasRoom(f[s \ {Book!Max(s)}], c[Book!Max(s)])
              THEN Append(f[s \ {Book!Max(s)}], c[Book!Max(s)])
              ELSE f[s \ {Book!Max(s)}]]
  <2>1. ASSUME NEW s \in SUBSET (1..n) PROVE f[s] = h[s]
    <3>1. CASE s = {}
      BY <1>3, <3>1 DEF Folded
    <3>2. CASE s # {}
      <4>1. Book!Max(s) \in 1..n /\ s \ {Book!Max(s)} \in SUBSET (1..n)
        BY <1>1, <3>2, GreatestOf
      <4>2. f[s] = grow[Book!Max(s)][f[s \ {Book!Max(s)}]]
        BY <1>3, <3>2 DEF Folded
      <4>3. f[s] = Taken(f[s \ {Book!Max(s)}], c[Book!Max(s)])
        BY <4>1, <4>2
      <4>. QED  BY <3>2, <4>3 DEF Taken
    <3>. QED  BY <3>1, <3>2
  <2>2. f = [s \in SUBSET (1..n) |-> f[s]]
    OBVIOUS
  <2>3. f = h
    <3>. HIDE DEF h
    <3>1. h = [s \in SUBSET (1..n) |-> h[s]]
      BY DEF h
    <3>. QED  BY <2>1, <2>2, <3>1
  <2>. QED  BY <1>1, <2>3 DEF TakenFold
<1>5. PICK g : TakenFold(g, c) /\ g[DOMAIN c] = Book!BuildTradeable(score)
  <2>. HIDE DEF c
  <2>. DEFINE g == CHOOSE g : g = [s \in SUBSET (DOMAIN c) |->
         IF s = {} THEN <<>>
         ELSE IF Book!HasRoom(g[s \ {Book!Max(s)}], c[Book!Max(s)])
              THEN Append(g[s \ {Book!Max(s)}], c[Book!Max(s)])
              ELSE g[s \ {Book!Max(s)}]]
  <2>1. g[DOMAIN c] = Book!BuildTradeable(score)
    BY DEF c, Book!BuildTradeable, Book!FoldLeft, Book!MapThenFoldSet
  <2>2. g = CHOOSE h : TakenFold(h, c)
    BY DEF TakenFold
  <2>3. TakenFold(g, c)
    BY <1>4, <2>2
  <2>. HIDE DEF g
  <2>. QED  BY <2>1, <2>3
<1>6. PICK lists \in [0..n -> Seq(S)] : WalksTo(g[1..n], lists, n, grow)
  <2>1. g[{}] = <<>>
    BY <1>5 DEF TakenFold
  <2>2. ASSUME NEW s \in SUBSET (1..n), s # {}, g[s \ {Book!Max(s)}] \in Seq(S)
        PROVE  g[s] = grow[Book!Max(s)][g[s \ {Book!Max(s)}]]
    <3>1. Book!Max(s) \in 1..n
      BY <1>1, <2>2, GreatestOf
    <3>2. g[s] = Taken(g[s \ {Book!Max(s)}], c[Book!Max(s)])
      BY <1>1, <1>5, <2>2 DEF TakenFold, Taken
    <3>. QED  BY <2>2, <3>1, <3>2
  <2>. HIDE DEF grow, n
  <2>3. Folds(g, n, grow, Seq(S))
    BY <2>1, <2>2 DEF Folds
  <2>. QED  BY <1>1, <1>2, <2>3, FoldWalks
<1>7. \A k \in 1..n : lists[k] = Taken(lists[k - 1], c[k])
  <2>1. \A k \in 1..n : lists[k - 1] \in Seq(S)
    BY <1>1
  <2>. QED  BY <1>6, <2>1 DEF WalksTo
<1>. QED  BY <1>1, <1>5, <1>6, <1>7 DEF WalksTo

\* What the loop over a tradeable list does with its next symbol.
Ordered(orders, s, d, eligible) ==
  IF s \in eligible /\ position[s] = Book!NoPosition
  THEN Append(orders, <<s, d>>) ELSE orders

OrderedFold(f, c, d, eligible) ==
  f = [s \in SUBSET (DOMAIN c) |->
         IF s = {} THEN <<>>
         ELSE IF c[Book!Max(s)] \in eligible
                 /\ position[c[Book!Max(s)]] = Book!NoPosition
              THEN Append(f[s \ {Book!Max(s)}], <<c[Book!Max(s)], d>>)
              ELSE f[s \ {Book!Max(s)}]]

\* The orders of a direction are of its direction, and none come from an empty list.
LEMMA OrdersAreOf ==
  ASSUME NEW score, NEW d, NEW eligible, Book!BuildTradeable(score) \in Seq(Symbols)
  PROVE  /\ Book!Orders(score, d, eligible) \in Seq(Symbols \X {d})
         /\ Book!BuildTradeable(score) = <<>> => Book!Orders(score, d, eligible) = <<>>
<1>. DEFINE c == Book!BuildTradeable(score)
            n == Len(c)
            Lists == Seq(Symbols \X {d})
            grow == [i \in 1..n |-> [l \in Lists |-> Ordered(l, c[i], d, eligible)]]
<1>1. n \in Nat /\ DOMAIN c = 1..n /\ (\A i \in 1..n : c[i] \in Symbols) /\ <<>> \in Lists
  OBVIOUS
<1>2. grow \in [1..n -> [Lists -> Lists]]
  <2>1. \A i \in 1..n, l \in Lists : Ordered(l, c[i], d, eligible) \in Lists
    BY <1>1 DEF Ordered
  <2>. QED  BY <2>1
<1>3. PICK f \in [SUBSET (1..n) -> Lists] : Folded(f, n, grow)
  <2>. HIDE DEF grow, n
  <2>. QED  BY <1>1, <1>2, FoldExists
<1>4. OrderedFold(f, c, d, eligible)
  <2>. DEFINE h == [s \in SUBSET (1..n) |->
         IF s = {} THEN <<>>
         ELSE IF c[Book!Max(s)] \in eligible
                 /\ position[c[Book!Max(s)]] = Book!NoPosition
              THEN Append(f[s \ {Book!Max(s)}], <<c[Book!Max(s)], d>>)
              ELSE f[s \ {Book!Max(s)}]]
  <2>1. ASSUME NEW s \in SUBSET (1..n) PROVE f[s] = h[s]
    <3>1. CASE s = {}
      BY <1>3, <3>1 DEF Folded
    <3>2. CASE s # {}
      <4>1. Book!Max(s) \in 1..n /\ s \ {Book!Max(s)} \in SUBSET (1..n)
        BY <1>1, <3>2, GreatestOf
      <4>2. f[s] = grow[Book!Max(s)][f[s \ {Book!Max(s)}]]
        BY <1>3, <3>2 DEF Folded
      <4>3. f[s] = Ordered(f[s \ {Book!Max(s)}], c[Book!Max(s)], d, eligible)
        BY <4>1, <4>2
      <4>. QED  BY <3>2, <4>3 DEF Ordered
    <3>. QED  BY <3>1, <3>2
  <2>2. f = [s \in SUBSET (1..n) |-> f[s]]
    OBVIOUS
  <2>3. f = h
    <3>. HIDE DEF h
    <3>1. h = [s \in SUBSET (1..n) |-> h[s]]
      BY DEF h
    <3>. QED  BY <2>1, <2>2, <3>1
  <2>. QED  BY <1>1, <2>3 DEF OrderedFold
<1>5. PICK g : OrderedFold(g, c, d, eligible) /\ g[DOMAIN c] = Book!Orders(score, d, eligible)
  <2>. HIDE DEF c
  <2>. DEFINE g == CHOOSE g : g = [s \in SUBSET (DOMAIN c) |->
         IF s = {} THEN <<>>
         ELSE IF c[Book!Max(s)] \in eligible
                 /\ position[c[Book!Max(s)]] = Book!NoPosition
              THEN Append(g[s \ {Book!Max(s)}], <<c[Book!Max(s)], d>>)
              ELSE g[s \ {Book!Max(s)}]]
  <2>1. g[DOMAIN c] = Book!Orders(score, d, eligible)
    BY DEF c, Book!Orders, Book!FoldLeft, Book!MapThenFoldSet
  <2>2. g = CHOOSE h : OrderedFold(h, c, d, eligible)
    BY DEF OrderedFold
  <2>3. OrderedFold(g, c, d, eligible)
    BY <1>4, <2>2
  <2>. HIDE DEF g
  <2>. QED  BY <2>1, <2>3
<1>6. PICK lists \in [0..n -> Lists] : WalksTo(g[1..n], lists, n, grow)
  <2>1. g[{}] = <<>>
    BY <1>5 DEF OrderedFold
  <2>2. ASSUME NEW s \in SUBSET (1..n), s # {}, g[s \ {Book!Max(s)}] \in Lists
        PROVE  g[s] = grow[Book!Max(s)][g[s \ {Book!Max(s)}]]
    <3>1. Book!Max(s) \in 1..n
      BY <1>1, <2>2, GreatestOf
    <3>2. g[s] = Ordered(g[s \ {Book!Max(s)}], c[Book!Max(s)], d, eligible)
      BY <1>1, <1>5, <2>2 DEF OrderedFold, Ordered
    <3>. QED  BY <2>2, <3>1, <3>2
  <2>. HIDE DEF grow, n
  <2>3. Folds(g, n, grow, Lists)
    BY <2>1, <2>2 DEF Folds
  <2>. QED  BY <1>1, <1>2, <2>3, FoldWalks
<1>7. lists[n] = Book!Orders(score, d, eligible)
  BY <1>1, <1>5, <1>6 DEF WalksTo
<1>8. lists[n] \in Seq(Symbols \X {d}) /\ (n = 0 => lists[n] = <<>>)
  <2>1. n \in 0..n /\ lists[0] = <<>>
    BY <1>1, <1>6 DEF WalksTo
  <2>2. lists[n] \in Lists
    <3>. HIDE DEF Lists, n
    <3>. QED  BY <2>1
  <2>. QED  BY <2>1, <2>2
<1>9. c = <<>> => n = 0
  OBVIOUS
<1>. QED  BY <1>7, <1>8, <1>9

-----------------------------------------------------------------------------
\* Scores rank their symbols: no two are level, since ties go by the order of the dict.
LEMMA BeforeRanks ==
  ASSUME NEW score \in Book!Scores
  PROVE  /\ Book!Listable(score) \subseteq Symbols /\ Symbols \subseteq Nat
         /\ \A s \in Symbols : score[s] \in Nat /\ ~Book!Before(score, s, s)
         /\ \A s, t \in Symbols :
              s # t => Book!Before(score, s, t) \/ Book!Before(score, t, s)
         /\ \A s, t, r \in Symbols :
              Book!Before(score, s, t) /\ Book!Before(score, t, r) => Book!Before(score, s, r)
<1>1. Symbols \subseteq Nat /\ MaxScore \in Nat
  BY TradesConstants DEF Book!BookD1Constants
<1>2. Book!Listable(score) \subseteq Symbols /\ \A s \in Symbols : score[s] \in Nat
  BY <1>1 DEF Book!Scores, Book!Listable
<1>. QED  BY <1>1, <1>2 DEF Book!Before

LEMMA SortedListsAll ==
  ASSUME NEW score \in Book!Scores
  PROVE  LET S == Book!Listable(score)
             q == Book!Sorted(score)
             n == Cardinality(S)
         IN  /\ n \in Nat /\ IsFiniteSet(S)
             /\ q \in [1..n -> S]
             /\ \A i, k \in 1..n : i < k => Book!Before(score, q[i], q[k])
             /\ \A s \in S : \E i \in 1..n : q[i] = s
<1> DEFINE S == Book!Listable(score)
           n == Cardinality(S)
           Above(s) == {t \in S : Book!Before(score, t, s)}
           rank == [s \in S |-> Cardinality(Above(s)) + 1]
           Ascending(q) == \A i, k \in 1..n : i < k => Book!Before(score, q[i], q[k])
<1>1. IsFiniteSet(S) /\ n \in Nat /\ S \subseteq Symbols
  BY CapsTyped, BeforeRanks, FS_Subset, FS_CardinalityType
<1>0. Book!Sorted(score) = CHOOSE q \in [1..n -> S] : Ascending(q)
  <2>1. Book!Cardinality(S) = n
    BY BookCounts
  <2>2. Book!Sorted(score) =
          CHOOSE q \in [1..n -> S] : \A i, k \in DOMAIN q : i < k => Book!Before(score, q[i], q[k])
    BY <2>1 DEF Book!Sorted
  <2>3. \A q \in [1..n -> S] : DOMAIN q = 1..n
    OBVIOUS
  <2>. HIDE DEF S, n
  <2>. QED  BY <2>2, <2>3
<1>2. /\ \A s \in S : ~Book!Before(score, s, s)
      /\ \A s, t \in S : s # t => Book!Before(score, s, t) \/ Book!Before(score, t, s)
      /\ \A s, t, r \in S :
           Book!Before(score, s, t) /\ Book!Before(score, t, r) => Book!Before(score, s, r)
  BY <1>1, BeforeRanks
<1>3. IsFiniteSet(1..n) /\ Cardinality(1..n) = n
  BY <1>1, FS_Interval
<1> HIDE DEF S
<1>4. \A s \in S : /\ IsFiniteSet(Above(s)) /\ Cardinality(Above(s)) \in Nat
                  /\ rank[s] = Cardinality(Above(s)) + 1
  BY <1>1, FS_Subset, FS_CardinalityType
<1> HIDE DEF Above
<1> HIDE DEF rank
<1>5. \A s \in S : rank[s] \in 1..n
  <2> TAKE s \in S
  <2>1. s \notin Above(s) /\ Above(s) \in SUBSET S
    BY <1>2 DEF Above
  <2>2. Cardinality(Above(s)) <= n /\ Cardinality(Above(s)) # n
    BY <1>1, <2>1, FS_Subset
  <2> QED
    BY <1>1, <1>4, <2>2
<1>6. ASSUME NEW s \in S, NEW t \in S, Book!Before(score, s, t)
      PROVE  rank[s] < rank[t]
  <2>1. Above(s) \in SUBSET Above(t) /\ s \in Above(t) /\ s \notin Above(s)
    BY <1>2, <1>6 DEF Above
  <2>2. Cardinality(Above(s)) <= Cardinality(Above(t))
        /\ Cardinality(Above(s)) # Cardinality(Above(t))
    BY <1>4, <2>1, FS_Subset
  <2> QED
    BY <1>4, <2>2
<1>7. \A s, t \in S : rank[s] = rank[t] => s = t
  BY <1>2, <1>5, <1>6
<1>8. rank \in [S -> 1..n]
  BY <1>5 DEF rank
<1>9. rank \in Bijection(S, 1..n)
  <2>1. rank \in Injection(S, 1..n)
    BY <1>7, <1>8 DEF Injection, IsInjective
  <2> QED
    BY <1>1, <1>3, <2>1, FS_Injection DEF Bijection
<1>10. PICK q \in Bijection(1..n, S) : \A i \in 1..n : rank[q[i]] = i
  <2>1. /\ Inverse(rank, S, 1..n) \in Bijection(1..n, S)
        /\ \A s \in S : Inverse(rank, S, 1..n)[rank[s]] = s
    BY <1>9, Fun_BijInverse
  <2>2. \A i \in 1..n : \E s \in S : rank[s] = i
    BY <1>9 DEF Bijection, Surjection
  <2> QED
    BY <2>1, <2>2
<1>11. q \in [1..n -> S] /\ Ascending(q)
  <2>1. q \in [1..n -> S]
    BY DEF Bijection, Injection
  <2>2. \A i, k \in 1..n : i < k => Book!Before(score, q[i], q[k])
    BY <1>1, <1>2, <1>6, <1>10, <2>1
  <2> QED
    BY <2>1, <2>2
<1> DEFINE sorted == Book!Sorted(score)
<1>12. sorted \in [1..n -> S] /\ Ascending(sorted)
  <2> HIDE DEF Ascending
  <2> QED  BY <1>0, <1>11
<1> HIDE DEF sorted
<1>13. sorted \in Injection(1..n, S)
  <2>1. \A i, k \in 1..n : sorted[i] = sorted[k] => i = k
    BY <1>1, <1>2, <1>12
  <2> QED
    BY <1>12, <2>1 DEF Injection, IsInjective
<1>14. sorted \in Surjection(1..n, S)
  BY <1>1, <1>3, <1>13, FS_Injection
<1>15. \A s \in S : \E i \in 1..n : sorted[i] = s
  BY <1>14 DEF Surjection
<1> QED
  BY <1>1, <1>12, <1>15 DEF sorted, S

\* The candidates are the best of them.
LEMMA CandidatesAre ==
  ASSUME NEW score \in Book!Scores
  PROVE  LET n == Cardinality(Book!Listable(score))
             c == Book!Candidates(score)
         IN  /\ c \in Seq(Book!Listable(score))
             /\ Len(c) \in Nat /\ n \in Nat /\ Len(c) <= n
             /\ Len(c) = n \/ Len(c) = TopList
             /\ \A i \in 1..Len(c) : c[i] = Book!Sorted(score)[i]
<1>. DEFINE S == Book!Listable(score)
            n == Cardinality(S)
            q == Book!Sorted(score)
            m == IF n <= TopList THEN n ELSE TopList
<1>1. n \in Nat /\ q \in [1..n -> S]
  BY SortedListsAll
<1>2. TopList \in Nat
  BY TradesConstants DEF Book!BookD1Constants, Book!TradeableConstants
<1>3. Book!Candidates(score) = SubSeq(q, 1, m)
  BY BookCounts DEF Book!Candidates
<1>. HIDE DEF S, q
<1>4. q \in Seq(S) /\ Len(q) = n
  BY <1>1
<1>5. m \in Nat /\ m <= n /\ (m = n \/ m = TopList)
  BY <1>1, <1>2
<1>. HIDE DEF n, m
<1>6. /\ SubSeq(q, 1, m) \in Seq(S) /\ Len(SubSeq(q, 1, m)) = m
      /\ \A i \in 1..m : SubSeq(q, 1, m)[i] = q[i]
  BY <1>1, <1>4, <1>5
<1>. QED  BY <1>1, <1>3, <1>5, <1>6 DEF S, q, n

-----------------------------------------------------------------------------
\* The list after k candidates: within its caps, in their order, and every candidate so
\* far is on it or lost its place to better ones.
OfSector(list, s) == {i \in 1..Len(list) : Sector[list[i]] = Sector[s]}

Placed(score, list, s) ==
  \/ \E i \in 1..Len(list) : list[i] = s
  \/ Len(list) = TopTradeable /\ \A i \in 1..Len(list) : Book!Before(score, list[i], s)
  \/ Cardinality({i \in OfSector(list, s) : Book!Before(score, list[i], s)}) = MaxPerSector

Grown(score, list, k) ==
  /\ Len(list) <= TopTradeable
  /\ \A i \in 1..Len(list) : \E j \in 1..k : list[i] = Book!Candidates(score)[j]
  /\ \A i, j \in 1..Len(list) : i < j => Book!Before(score, list[i], list[j])
  /\ \A s \in Symbols : Cardinality(OfSector(list, s)) <= MaxPerSector
  /\ \A j \in 1..k : Placed(score, list, Book!Candidates(score)[j])

LEMMA SectorsCounted ==
  ASSUME NEW list, Len(list) \in Nat, NEW s
  PROVE  /\ IsFiniteSet(OfSector(list, s)) /\ Cardinality(OfSector(list, s)) \in Nat
         /\ \A T \in SUBSET OfSector(list, s) : IsFiniteSet(T) /\ Cardinality(T) \in Nat
<1>1. IsFiniteSet(1..Len(list))
  BY FS_Interval
<1>2. IsFiniteSet(OfSector(list, s))
  BY <1>1, FS_Subset DEF OfSector
<1>. QED  BY <1>2, FS_Subset, FS_CardinalityType

LEMMA GrowStep ==
  ASSUME NEW score \in Book!Scores, NEW k \in 1..Len(Book!Candidates(score)),
         NEW list \in Seq(Book!Listable(score)), Grown(score, list, k - 1)
  PROVE  Grown(score, Taken(list, Book!Candidates(score)[k]), k)
<1>. DEFINE S == Book!Listable(score)
            c == Book!Candidates(score)
            x == c[k]
            before(s, t) == Book!Before(score, s, t)
<1>1. /\ Len(c) \in Nat /\ c \in Seq(S) /\ S \subseteq Symbols
      /\ k \in Nat /\ k - 1 \in Nat /\ 1..(k - 1) \subseteq 1..Len(c)
  BY CandidatesAre, BeforeRanks
<1>2. /\ TopTradeable \in Nat /\ MaxPerSector \in Nat
  BY TradesConstants DEF Book!BookD1Constants, Book!TradeableConstants
<1>3. \A i \in 1..Len(c) : c[i] \in S
  BY <1>1
<1>4. \A i, j \in 1..Len(c) : i < j => before(c[i], c[j])
  <2>1. \A i \in 1..Len(c) : i \in 1..Cardinality(S)
    BY CandidatesAre
  <2>. QED  BY <2>1, CandidatesAre, SortedListsAll
<1>5. /\ \A s, t \in S : before(s, t) => ~before(t, s)
  BY <1>1, BeforeRanks
<1>6. \A i \in 1..Len(list) : before(list[i], x) /\ list[i] \in S
  <2>. TAKE i \in 1..Len(list)
  <2>1. PICK j \in 1..(k - 1) : list[i] = c[j]
    BY DEF Grown
  <2>2. j \in 1..Len(c) /\ k \in 1..Len(c) /\ j < k
    BY <1>1
  <2>. QED  BY <1>3, <1>4, <2>1, <2>2
<1>7. \A j \in 1..(k - 1) : before(c[j], x) /\ c[j] \in S
  BY <1>1, <1>3, <1>4
<1>8. x \in S /\ x \in Symbols
  BY <1>1, <1>3
<1>9. Book!HasRoom(list, x) <=> /\ Len(list) < TopTradeable
                                /\ Cardinality(OfSector(list, x)) < MaxPerSector
  <2>1. DOMAIN list = 1..Len(list)
    OBVIOUS
  <2>. HIDE DEF x
  <2>. QED  BY <2>1, BookCounts DEF Book!HasRoom, OfSector
<1>. HIDE DEF S, c, before
<1>10. Len(list) \in Nat
  OBVIOUS
<1>11. CASE Book!HasRoom(list, x)
  <2>. DEFINE new == Append(list, x)
              l == Len(list)
  <2>1. /\ Len(new) = l + 1 /\ new[l + 1] = x /\ new \in Seq(S)
        /\ \A i \in 1..l : new[i] = list[i]
    BY <1>8 DEF S
  <2>2. l \in Nat /\ 1..(l + 1) = 1..l \cup {l + 1} /\ l + 1 \notin 1..l
    BY <1>10
  <2>. HIDE DEF new, x
  <2>3. Len(new) <= TopTradeable
    BY <1>2, <1>9, <1>11, <2>1, <2>2
  <2>. HIDE DEF l
  <2>4. \A i \in 1..Len(new) : \E j \in 1..k : new[i] = c[j]
    <3>1. \A i \in 1..l : \E j \in 1..(k - 1) : new[i] = c[j]
      BY <2>1 DEF Grown, l, c
    <3>2. 1..(k - 1) \subseteq 1..k /\ k \in 1..k
      BY <1>1
    <3>. QED  BY <2>1, <2>2, <3>1, <3>2 DEF x
  <2>5. \A i, j \in 1..Len(new) : i < j => before(new[i], new[j])
    <3>1. \A i, j \in 1..l : i < j => before(new[i], new[j])
      BY <2>1 DEF Grown, l, before
    <3>2. \A i \in 1..l : before(new[i], x)
      BY <1>6, <2>1 DEF l
    <3>3. \A i, j \in 1..(l + 1) : i < j => (i \in 1..l /\ (j \in 1..l \/ j = l + 1))
      BY <2>2
    <3>. QED  BY <2>1, <3>1, <3>2, <3>3
  <2>6. \A s \in Symbols : Cardinality(OfSector(new, s)) <= MaxPerSector
    <3>. TAKE s \in Symbols
    <3>1. Cardinality(OfSector(list, s)) \in Nat /\ IsFiniteSet(OfSector(list, s))
          /\ Cardinality(OfSector(list, s)) <= MaxPerSector
      BY <1>10, SectorsCounted DEF Grown
    <3>2. CASE Sector[x] = Sector[s]
      <4>1. OfSector(new, s) = OfSector(list, s) \cup {l + 1}
        BY <2>1, <2>2, <3>2 DEF OfSector, l
      <4>2. OfSector(list, s) = OfSector(list, x)
        BY <3>2 DEF OfSector
      <4>3. l + 1 \notin OfSector(list, s)
        BY <2>2 DEF OfSector, l
      <4>4. Cardinality(OfSector(new, s)) = Cardinality(OfSector(list, s)) + 1
        BY <3>1, <4>1, <4>3, FS_AddElement
      <4>. QED  BY <1>2, <1>9, <1>11, <3>1, <4>2, <4>4
    <3>3. CASE Sector[x] # Sector[s]
      <4>1. OfSector(new, s) = OfSector(list, s)
        BY <2>1, <2>2, <3>3 DEF OfSector, l
      <4>. QED  BY <3>1, <4>1
    <3>. QED  BY <3>2, <3>3
  <2>7. \A j \in 1..k : Placed(score, new, c[j])
    <3>1. Placed(score, new, x)
      BY <2>1, <2>2 DEF Placed
    <3>2. ASSUME NEW j \in 1..(k - 1) PROVE Placed(score, new, c[j])
      <4>1. Placed(score, list, c[j])
        BY DEF Grown, c
      <4>2. CASE \E i \in 1..l : list[i] = c[j]
        BY <2>1, <2>2, <4>2 DEF Placed
      <4>3. CASE Len(list) = TopTradeable
        BY <1>9, <1>11, <1>2, <4>3
      <4>4. CASE Cardinality({i \in OfSector(list, c[j]) : Book!Before(score, list[i], c[j])})
                   = MaxPerSector
        <5>1. ~before(x, c[j])
          BY <1>5, <1>7, <1>8
        <5>2. {i \in OfSector(new, c[j]) : Book!Before(score, new[i], c[j])}
                = {i \in OfSector(list, c[j]) : Book!Before(score, list[i], c[j])}
          BY <2>1, <2>2, <5>1 DEF OfSector, l, before
        <5>. QED  BY <4>4, <5>2 DEF Placed
      <4>. QED  BY <4>1, <4>2, <4>3, <4>4 DEF Placed, l
    <3>3. \A j \in 1..k : j \in 1..(k - 1) \/ j = k
      BY <1>1
    <3>. QED  BY <3>1, <3>2, <3>3 DEF x
  <2>8. Taken(list, x) = new
    BY <1>11 DEF Taken, new
  <2>. QED  BY <2>3, <2>4, <2>5, <2>6, <2>7, <2>8 DEF Grown, c, x, before
<1>12. CASE ~Book!HasRoom(list, x)
  <2>1. Taken(list, x) = list
    BY <1>12 DEF Taken
  <2>2. Placed(score, list, x)
    <3>1. CASE Len(list) = TopTradeable
      BY <1>6, <3>1 DEF Placed, before
    <3>2. CASE Len(list) # TopTradeable
      <4>1. Len(list) < TopTradeable
        BY <1>2, <1>10, <3>2 DEF Grown
      <4>2. Cardinality(OfSector(list, x)) = MaxPerSector
        <5>1. /\ Cardinality(OfSector(list, x)) <= MaxPerSector
              /\ Cardinality(OfSector(list, x)) \in Nat
          BY <1>8, <1>10, SectorsCounted DEF Grown
        <5>. QED  BY <1>2, <1>9, <1>12, <4>1, <5>1
      <4>3. {i \in OfSector(list, x) : Book!Before(score, list[i], x)} = OfSector(list, x)
        BY <1>6 DEF OfSector, before
      <4>. QED  BY <4>2, <4>3 DEF Placed
    <3>. QED  BY <3>1, <3>2
  <2>3. \A j \in 1..k : Placed(score, list, c[j])
    <3>1. \A j \in 1..k : j \in 1..(k - 1) \/ j = k
      BY <1>1
    <3>. QED  BY <2>2, <3>1 DEF Grown, c
  <2>4. \A i \in 1..Len(list) : \E j \in 1..k : list[i] = c[j]
    <3>1. 1..(k - 1) \subseteq 1..k
      BY <1>1
    <3>. QED  BY <3>1 DEF Grown, c
  <2>. QED  BY <2>1, <2>3, <2>4 DEF Grown, c
<1>. QED  BY <1>11, <1>12

LEMMA BuildGrows ==
  ASSUME NEW score \in Book!Scores
  PROVE  /\ Book!BuildTradeable(score) \in Seq(Book!Listable(score))
         /\ Grown(score, Book!BuildTradeable(score), Len(Book!Candidates(score)))
<1>. DEFINE S == Book!Listable(score)
            c == Book!Candidates(score)
            n == Len(c)
<1>1. n \in Nat /\ c \in Seq(S) /\ S \subseteq Symbols
  BY CandidatesAre, BeforeRanks
<1>2. PICK lists \in [0..n -> Seq(S)] :
        /\ lists[0] = <<>>
        /\ \A k \in 1..n : lists[k] = Taken(lists[k - 1], c[k])
        /\ lists[n] = Book!BuildTradeable(score)
  BY <1>1, BuildWalks
<1>. DEFINE P(k) == k <= n => Grown(score, lists[k], k)
            T == {k \in Nat : P(k)}
<1>3. P(0)
  <2>1. TopTradeable \in Nat /\ MaxPerSector \in Nat
    BY TradesConstants DEF Book!BookD1Constants, Book!TradeableConstants
  <2>2. Len(lists[0]) = 0 /\ 1..0 = {}
    BY <1>2
  <2>3. \A s \in Symbols : OfSector(lists[0], s) = {}
    BY <2>2 DEF OfSector
  <2>4. \A s \in Symbols : Cardinality(OfSector(lists[0], s)) = 0
    BY <2>3, FS_EmptySet
  <2>. QED  BY <2>1, <2>2, <2>4 DEF Grown
<1>4. ASSUME NEW k \in Nat, P(k) PROVE P(k + 1)
  <2>. SUFFICES ASSUME k + 1 <= n PROVE Grown(score, lists[k + 1], k + 1)
    OBVIOUS
  <2>1. k + 1 \in 1..n /\ k + 1 - 1 = k /\ k <= n /\ k \in 0..n
    BY <1>1
  <2>2. Grown(score, lists[k], k)
    BY <1>4, <2>1
  <2>3. lists[k + 1] = Taken(lists[k], c[k + 1])
    BY <1>2, <2>1
  <2>4. lists[k] \in Seq(S)
    <3>. HIDE DEF S, n
    <3>. QED  BY <2>1
  <2>5. Grown(score, Taken(lists[k], c[k + 1]), k + 1)
    BY <2>1, <2>2, <2>4, GrowStep
  <2>. QED  BY <2>3, <2>5
<1>. HIDE DEF P
<1>5. 0 \in T /\ \A k \in Nat : k \in T => k + 1 \in T
  <2>1. 0 \in Nat /\ \A k \in Nat : k + 1 \in Nat
    OBVIOUS
  <2>. QED  BY <1>3, <1>4, <2>1, Zenon
<1>. HIDE DEF T
<1>6. n \in T
  BY <1>1, <1>5, NatInSet
<1>7. P(n) /\ n <= n /\ n \in 0..n
  BY <1>1, <1>6 DEF T
<1>8. Grown(score, lists[n], n)
  BY <1>7, Zenon DEF P
<1>9. lists[n] \in Seq(S)
  <2>. HIDE DEF S, n
  <2>. QED  BY <1>7
<1>. QED  BY <1>2, <1>8, <1>9

-----------------------------------------------------------------------------
LEMMA DistinctCounted ==
  ASSUME NEW I, IsFiniteSet(I), NEW q, \A i, k \in I : q[i] = q[k] => i = k
  PROVE  /\ IsFiniteSet({q[i] : i \in I})
         /\ Cardinality({q[i] : i \in I}) = Cardinality(I)
<1>. DEFINE T == {q[i] : i \in I}
            f == [i \in I |-> q[i]]
<1>1. f \in Bijection(I, T)
  <2>1. f \in [I -> T] /\ \A i \in I : f[i] = q[i]
    OBVIOUS
  <2>2. \A t \in T : \E i \in I : f[i] = t
    OBVIOUS
  <2>. HIDE DEF T, f
  <2>3. f \in Injection(I, T)
    BY <2>1 DEF Injection, IsInjective
  <2>4. f \in Surjection(I, T)
    BY <2>1, <2>2 DEF Surjection
  <2>. QED  BY <2>3, <2>4 DEF Bijection
<1>. HIDE DEF T, f
<1>2. ExistsBijection(I, T)
  BY <1>1 DEF ExistsBijection
<1>3. IsFiniteSet(T) /\ Cardinality(T) = Cardinality(I)
  BY <1>2, FS_Bijection
<1>. QED  BY <1>3 DEF T

\* A tradeable list is what it promises, for any scores.
LEMMA ListIsGood ==
  ASSUME NEW score \in Book!Scores
  PROVE  /\ Book!Fits(score, Book!BuildTradeable(score))
         /\ Book!IsBest(score, Book!BuildTradeable(score))
<1>. DEFINE S == Book!Listable(score)
            c == Book!Candidates(score)
            list == Book!BuildTradeable(score)
            l == Len(list)
            q == Book!Sorted(score)
            n == Cardinality(S)
            before(s, t) == Book!Before(score, s, t)
            better(s) == {t \in S : before(t, s)}
<1>1. list \in Seq(S) /\ Grown(score, list, Len(c))
  BY BuildGrows
<1>2. /\ S \subseteq Symbols /\ IsFiniteSet(S)
      /\ q \in [1..n -> S] /\ n \in Nat /\ Len(c) \in Nat /\ Len(c) <= n
      /\ Len(c) = n \/ Len(c) = TopList
      /\ \A i \in 1..Len(c) : c[i] = q[i]
      /\ \A i, k \in 1..n : i < k => before(q[i], q[k])
      /\ \A s \in S : \E i \in 1..n : q[i] = s
  BY BeforeRanks, SortedListsAll, CandidatesAre
<1>3. \A s \in Symbols : ~before(s, s)
  BY BeforeRanks
<1>4. TopList \in Nat
  BY TradesConstants DEF Book!BookD1Constants, Book!TradeableConstants
<1>. HIDE DEF S, c, list, q, n, before
<1>5. l \in Nat /\ DOMAIN list = 1..l /\ \A i \in 1..l : list[i] \in S
  BY <1>1
<1>. HIDE DEF l
<1>6. \A i, k \in 1..l : i < k => before(list[i], list[k])
  BY <1>1 DEF Grown, l, before
<1>7. \A i, k \in 1..l : list[i] = list[k] => i = k
  BY <1>2, <1>3, <1>5, <1>6
<1>8. IsFiniteSet(1..l) /\ Cardinality(1..l) = l
  BY <1>5, FS_Interval
<1>9. Book!ToSet(list) = {list[i] : i \in 1..l}
  BY <1>5 DEF Book!ToSet
<1>10. ASSUME NEW I \in SUBSET (1..l)
       PROVE  Cardinality({list[i] : i \in I}) = Cardinality(I)
  <2>1. IsFiniteSet(I)
    BY <1>8, FS_Subset
  <2>2. \A i, k \in I : list[i] = list[k] => i = k
    BY <1>7
  <2>. QED  BY <2>1, <2>2, DistinctCounted
<1>11. Book!Fits(score, list)
  <2>1. Book!ToSet(list) \subseteq S
    BY <1>5, <1>9
  <2>2. Book!Cardinality(Book!ToSet(list)) = Len(list)
    BY <1>8, <1>9, <1>10, BookCounts DEF l
  <2>3. Len(list) <= TopTradeable
    BY <1>1 DEF Grown
  <2>4. ASSUME NEW s \in Book!ToSet(list)
        PROVE  Book!Cardinality({t \in Book!ToSet(list) : Sector[t] = Sector[s]}) <= MaxPerSector
    <3>1. {t \in Book!ToSet(list) : Sector[t] = Sector[s]} = {list[i] : i \in OfSector(list, s)}
      BY <1>9 DEF OfSector, l
    <3>2. OfSector(list, s) \in SUBSET (1..l) /\ s \in Symbols
      BY <1>2, <2>1, <2>4 DEF OfSector, l
    <3>3. Cardinality(OfSector(list, s)) <= MaxPerSector
      BY <1>1, <3>2 DEF Grown
    <3>. QED  BY <1>10, <3>1, <3>2, <3>3, BookCounts
  <2>. QED  BY <2>1, <2>2, <2>3, <2>4 DEF Book!Fits, S
<1>12. Book!IsBest(score, list)
  <2>1. \A i, k \in DOMAIN list : i < k => Book!Before(score, list[i], list[k])
    BY <1>5, <1>6 DEF before
  <2>2. ASSUME NEW s \in S \ Book!ToSet(list)
        PROVE  \/ Book!Cardinality(better(s)) >= TopList
               \/ Len(list) = TopTradeable /\ Book!ToSet(list) \subseteq better(s)
               \/ Book!Cardinality({t \in Book!ToSet(list) \cap better(s) : Sector[t] = Sector[s]})
                     = MaxPerSector
    <3>1. PICK k \in 1..n : q[k] = s
      BY <1>2
    <3>2. CASE k \in 1..Len(c)
      <4>1. Placed(score, list, s)
        BY <1>1, <1>2, <3>1, <3>2 DEF Grown, c
      <4>2. ~ \E i \in 1..l : list[i] = s
        BY <1>9, <2>2
      <4>3. CASE Len(list) = TopTradeable /\ \A i \in 1..l : before(list[i], s)
        BY <1>5, <1>9, <4>3
      <4>4. CASE Cardinality({i \in OfSector(list, s) : Book!Before(score, list[i], s)})
                   = MaxPerSector
        <5>. DEFINE I == {i \in OfSector(list, s) : before(list[i], s)}
        <5>1. I \in SUBSET (1..l)
          BY DEF OfSector, l
        <5>2. {t \in Book!ToSet(list) \cap better(s) : Sector[t] = Sector[s]}
                = {list[i] : i \in I}
          BY <1>5, <1>9 DEF OfSector, l
        <5>. QED  BY <1>10, <4>4, <5>1, <5>2, BookCounts DEF before
      <4>. QED  BY <4>1, <4>2, <4>3, <4>4 DEF Placed, l, before
    <3>3. CASE k \notin 1..Len(c)
      <4>1. Len(c) = TopList /\ 1..TopList \in SUBSET (1..n) /\ \A i \in 1..TopList : i < k
        BY <1>2, <3>3
      <4>2. {q[i] : i \in 1..TopList} \subseteq better(s)
        BY <1>2, <3>1, <4>1
      <4>3. IsFiniteSet(1..TopList) /\ Cardinality(1..TopList) = TopList
        BY <1>4, FS_Interval
      <4>4. Cardinality({q[i] : i \in 1..TopList}) = TopList
        <5>. DEFINE I == 1..TopList
        <5>1. \A i, j \in I : q[i] = q[j] => i = j
          BY <1>2, <1>3, <4>1
        <5>2. IsFiniteSet(I) /\ Cardinality(I) = TopList
          BY <4>3
        <5>. HIDE DEF I
        <5>3. Cardinality({q[i] : i \in I}) = TopList
          BY <5>1, <5>2, DistinctCounted
        <5>. QED  BY <5>3 DEF I
      <4>5. IsFiniteSet(better(s)) /\ Cardinality(better(s)) \in Nat
        BY <1>2, FS_Subset, FS_CardinalityType
      <4>6. Cardinality(better(s)) >= TopList
        <5>. HIDE DEF better
        <5>1. Cardinality({q[i] : i \in 1..TopList}) <= Cardinality(better(s))
          BY <4>2, <4>5, FS_Subset
        <5>. QED  BY <1>4, <4>4, <4>5, <5>1
      <4>. QED  BY <4>6, BookCounts
    <3>. QED  BY <3>2, <3>3
  <2>. QED  BY <2>1, <2>2 DEF Book!IsBest, S, before
<1>. QED  BY <1>11, <1>12 DEF list

-----------------------------------------------------------------------------
\* The book itself: its types, what day a phase may fall on, and that what is still
\* pending was permitted by the bias of the close that ordered it.
Permits(b, d) ==
  /\ d = "LONG" => (BiasGateEnabled => b = "BULL")
  /\ d = "SHORT" => ShortsEnabled /\ b = "BEAR"

PendingPermitted == \A i \in 1..Len(pending) : Permits(bias, pending[i][2])

BookInv ==
  /\ Book!TypeOK /\ BookCap /\ PendingPermitted
  /\ step # "over" => day < MaxDays

LEMMA InitBook == ASSUME Book!Init PROVE BookInv
<1>. USE DEF Book!Init
<1>1. Book!BookD1Constants
  BY TradesConstants
<1>2. Book!Unscored \in [Book!Dir -> Book!Scores]
  BY <1>1 DEF Book!Unscored, Book!Scores, Book!BookD1Constants
<1>3. Book!TypeOK
  <2>1. pending \in Seq(Symbols \X Book!Dir)
    OBVIOUS
  <2>2. position \in [Symbols -> [dir: Book!Dir, held: 0..(BookHold - 1)] \cup {Book!NoPosition}]
    OBVIOUS
  <2>3. day \in 0..MaxDays /\ bias \in Book!Biases
    BY <1>1 DEF Book!Biases, Book!BookD1Constants
  <2>. QED  BY <1>2, <2>1, <2>2, <2>3 DEF Book!TypeOK
<1>4. BookCap
  <2>1. \A d \in Book!Dir : Book!Held(d) = {}
    BY DEF Book!Held, Book!NoPosition, Book!Dir
  <2>2. \A d \in Book!Dir : Cardinality(Book!Held(d)) <= Book!MaxConcurrent(d)
    BY <2>1, FS_EmptySet, CapsTyped
  <2>. QED  BY <2>2, CapsTyped DEF BookCap
<1>5. PendingPermitted /\ day < MaxDays
  BY <1>1 DEF PendingPermitted, Book!BookD1Constants
<1>. QED  BY <1>3, <1>4, <1>5 DEF BookInv

\* An order of a direction whose list was not built does not exist.
LEMMA UnscoredOrdersNothing ==
  ASSUME NEW score \in Book!Scores, NEW d, NEW eligible
  PROVE  /\ Book!Orders(score, d, eligible) \in Seq(Symbols \X {d})
         /\ (\A s \in Symbols : score[s] = 0) => Book!Orders(score, d, eligible) = <<>>
<1>1. Book!BuildTradeable(score) \in Seq(Book!Listable(score))
  BY BuildGrows
<1>2. Book!Listable(score) \subseteq Symbols
  BY BeforeRanks
<1>3. Book!BuildTradeable(score) \in Seq(Symbols)
  <2>. HIDE DEF Book!Listable, Book!BuildTradeable
  <2>. QED  BY <1>1, <1>2
<1>4. ASSUME \A s \in Symbols : score[s] = 0
      PROVE  Book!BuildTradeable(score) = <<>>
  <2>1. Book!Listable(score) = {}
    BY <1>4 DEF Book!Listable, Book!Scores
  <2>2. \A q \in Seq({}) : q = <<>>
    OBVIOUS
  <2>. QED  BY <1>1, <2>1, <2>2
<1>. QED  BY <1>3, <1>4, OrdersAreOf

LEMMA SignalPermits ==
  ASSUME BookInv, Book!Signal
  PROVE  /\ pending' \in Seq(Symbols \X Book!Dir)
         /\ PendingPermitted'
         /\ bias' \in Book!Biases /\ scored' \in [Book!Dir -> Book!Scores]
<1>1. PICK b \in Book!Biases, longs \in Book!Scores, shorts \in Book!Scores,
           eligible \in SUBSET Symbols :
        /\ longs # Book!Unscored["LONG"] => Book!LongsOnBias(b)
        /\ shorts # Book!Unscored["SHORT"] => Book!ShortsOnBias(b)
        /\ pending' = Book!Orders(longs, "LONG", eligible) \o Book!Orders(shorts, "SHORT", Symbols)
        /\ scored' = [d \in Book!Dir |-> IF d = "LONG" THEN longs ELSE shorts]
        /\ bias' = b
  BY DEF Book!Signal
<1>. DEFINE bought == Book!Orders(longs, "LONG", eligible)
            soldShort == Book!Orders(shorts, "SHORT", Symbols)
<1>2. /\ bought \in Seq(Symbols \X {"LONG"})
      /\ longs = Book!Unscored["LONG"] => bought = <<>>
  <2>1. longs = Book!Unscored["LONG"] => \A s \in Symbols : longs[s] = 0
    BY DEF Book!Unscored, Book!Dir
  <2>. QED  BY <2>1, UnscoredOrdersNothing
<1>3. /\ soldShort \in Seq(Symbols \X {"SHORT"})
      /\ shorts = Book!Unscored["SHORT"] => soldShort = <<>>
  <2>1. shorts = Book!Unscored["SHORT"] => \A s \in Symbols : shorts[s] = 0
    BY DEF Book!Unscored, Book!Dir
  <2>. QED  BY <2>1, UnscoredOrdersNothing
<1>. HIDE DEF bought, soldShort
<1>4. pending' = bought \o soldShort
  BY <1>1 DEF bought, soldShort
<1>5. bought \in Seq(Symbols \X Book!Dir) /\ soldShort \in Seq(Symbols \X Book!Dir)
  <2>1. Symbols \X {"LONG"} \subseteq Symbols \X Book!Dir
        /\ Symbols \X {"SHORT"} \subseteq Symbols \X Book!Dir
    BY DEF Book!Dir
  <2>. QED  BY <1>2, <1>3, <2>1
<1>6. PendingPermitted'
  <2>1. ASSUME NEW i \in 1..Len(bought) PROVE Permits(b, bought[i][2])
    <3>1. bought[i] \in Symbols \X {"LONG"} /\ bought # <<>>
      BY <1>2, <2>1
    <3>2. bought[i][2] = "LONG" /\ Book!LongsOnBias(b)
      BY <1>1, <1>2, <3>1
    <3>. QED  BY <3>2 DEF Permits, Book!LongsOnBias
  <2>2. ASSUME NEW i \in 1..Len(soldShort) PROVE Permits(b, soldShort[i][2])
    <3>1. soldShort[i] \in Symbols \X {"SHORT"} /\ soldShort # <<>>
      BY <1>3, <2>2
    <3>2. soldShort[i][2] = "SHORT" /\ Book!ShortsOnBias(b)
      BY <1>1, <1>3, <3>1
    <3>. QED  BY <3>2 DEF Permits, Book!ShortsOnBias
  <2>3. ASSUME NEW i \in 1..Len(bought \o soldShort)
        PROVE  Permits(b, (bought \o soldShort)[i][2])
    <3>1. CASE i <= Len(bought)
      <4>1. i \in 1..Len(bought) /\ (bought \o soldShort)[i] = bought[i]
        BY <1>5, <3>1
      <4>. QED  BY <2>1, <4>1
    <3>2. CASE i > Len(bought)
      <4>1. i - Len(bought) \in 1..Len(soldShort)
            /\ (bought \o soldShort)[i] = soldShort[i - Len(bought)]
        BY <1>5, <3>2
      <4>. QED  BY <2>2, <4>1
    <3>. QED  BY <1>5, <3>1, <3>2
  <2>. QED  BY <1>1, <1>4, <2>3 DEF PendingPermitted
<1>7. bias' \in Book!Biases /\ scored' \in [Book!Dir -> Book!Scores]
  BY <1>1
<1>8. pending' \in Seq(Symbols \X Book!Dir)
  BY <1>4, <1>5
<1>. QED  BY <1>6, <1>7, <1>8

LEMMA NextBook == ASSUME BookInv, Book!Next PROVE BookInv'
<1>. USE DEF BookInv
<1>0. Book!BookD1Constants
  BY TradesConstants
<1>1. BookCap'
  BY BookCapStep
<1>2. CASE Book!FillOne
  <2>. DEFINE s == Head(pending)[1]
              e == Head(pending)[2]
  <2>1. /\ pending # <<>> /\ pending' = Tail(pending)
        /\ UNCHANGED <<day, step, bias>> /\ scored' = Book!Unscored
        /\ \/ UNCHANGED position
           \/ position' = [position EXCEPT ![s] = [dir |-> e, held |-> 0]]
    BY <1>2 DEF Book!FillOne
  <2>2. pending \in Seq(Symbols \X Book!Dir)
    BY DEF Book!TypeOK
  <2>3. s \in Symbols /\ e \in Book!Dir
    <3>1. Head(pending) \in Symbols \X Book!Dir
      BY <2>1, <2>2
    <3>. QED  BY <3>1
  <2>4. pending' \in Seq(Symbols \X Book!Dir) /\ PendingPermitted'
    BY <2>1, <2>2 DEF PendingPermitted, Permits
  <2>5. position' \in [Symbols -> [dir: Book!Dir, held: 0..(BookHold - 1)] \cup {Book!NoPosition}]
    <3>1. 0 \in 0..(BookHold - 1)
      BY <1>0 DEF Book!BookD1Constants
    <3>. QED  BY <2>1, <2>3, <3>1 DEF Book!TypeOK
  <2>6. Book!Unscored \in [Book!Dir -> Book!Scores]
    BY <1>0 DEF Book!Unscored, Book!Scores, Book!BookD1Constants
  <2>. QED  BY <1>1, <2>1, <2>4, <2>5, <2>6 DEF Book!TypeOK
<1>3. CASE Book!AllFilled
  <2>1. Book!Unscored \in [Book!Dir -> Book!Scores]
    BY <1>0 DEF Book!Unscored, Book!Scores, Book!BookD1Constants
  <2>. QED
    BY <1>1, <1>3, <2>1 DEF Book!AllFilled, Book!TypeOK, PendingPermitted, Permits
<1>4. CASE Book!Manage
  <2>1. PICK closed \in SUBSET (Book!Held("LONG") \cup Book!Held("SHORT")) :
          /\ {s \in Book!Held("LONG") \cup Book!Held("SHORT") : Book!MustClose(s)} \subseteq closed
          /\ position' = [s \in Symbols |->
               IF s \in closed \/ s \notin Book!Held("LONG") \cup Book!Held("SHORT")
               THEN Book!NoPosition ELSE [position[s] EXCEPT !.held = @ + 1]]
    BY <1>4 DEF Book!Manage
  <2>2. ASSUME NEW s \in Symbols, s \notin closed, s \in Book!Held("LONG") \cup Book!Held("SHORT")
        PROVE  [position[s] EXCEPT !.held = @ + 1] \in [dir: Book!Dir, held: 0..(BookHold - 1)]
    <3>1. position[s] \in [dir: Book!Dir, held: 0..(BookHold - 1)]
      BY <2>2 DEF Book!TypeOK, Book!Held, Book!NoPosition
    <3>2. ~(position[s].held + 1 >= BookHold)
      BY <2>1, <2>2 DEF Book!MustClose
    <3>3. BookHold \in Nat
      BY <1>0 DEF Book!BookD1Constants
    <3>. QED  BY <3>1, <3>2, <3>3
  <2>3. position' \in [Symbols -> [dir: Book!Dir, held: 0..(BookHold - 1)] \cup {Book!NoPosition}]
    BY <2>1, <2>2
  <2>. QED
    BY <1>1, <1>4, <2>3 DEF Book!Manage, Book!TypeOK, PendingPermitted, Permits
<1>5. CASE Book!Signal
  <2>1. /\ pending' \in Seq(Symbols \X Book!Dir) /\ PendingPermitted'
        /\ bias' \in Book!Biases /\ scored' \in [Book!Dir -> Book!Scores]
    BY <1>5, SignalPermits
  <2>2. /\ step = "signal" /\ day' = day + 1 /\ UNCHANGED position
        /\ step' = IF day + 1 = MaxDays THEN "over" ELSE "fill"
    BY <1>5 DEF Book!Signal
  <2>3. day \in Nat /\ day < MaxDays /\ MaxDays \in Nat
    BY <1>0, <2>2 DEF Book!TypeOK, Book!BookD1Constants
  <2>4. day' \in 0..MaxDays /\ (step' # "over" => day' < MaxDays)
        /\ step' \in {"fill", "manage", "signal", "over"}
    BY <2>2, <2>3
  <2>5. position' \in [Symbols -> [dir: Book!Dir, held: 0..(BookHold - 1)] \cup {Book!NoPosition}]
    BY <2>2 DEF Book!TypeOK
  <2>. QED  BY <1>1, <2>1, <2>4, <2>5 DEF Book!TypeOK
<1>6. CASE Book!Over
  BY <1>1, <1>6 DEF Book!Over, Book!vars, Book!TypeOK, PendingPermitted, Permits
<1>. QED  BY <1>2, <1>3, <1>4, <1>5, <1>6 DEF Book!Next

LEMMA BookInvariant == MCSpec => []BookInv
<1>1. MCInit => BookInv
  BY InitBook DEF MCInit
<1>2. BookInv /\ [MCNext]_allVars => BookInv'
  <2>. SUFFICES ASSUME BookInv, [MCNext]_allVars PROVE BookInv'
    OBVIOUS
  <2>1. CASE Book!Next
    BY <2>1, NextBook
  <2>2. CASE UNCHANGED bookVars
    BY <2>2 DEF bookVars, BookInv, Book!TypeOK, BookCap, Book!Held, PendingPermitted,
                Permits
  <2>. QED  BY <2>1, <2>2 DEF MCNext, allVars
<1>. QED  BY <1>1, <1>2, PTL DEF MCSpec

\* BookFits: for any scores, sectors and caps the lists fit the book and pass nobody over
\* for a worse symbol, and no more positions of a direction are held than
\* max_concurrent, none beyond its hold, whatever fills.
THEOREM BookFitsAlways == MCSpec => []BookFits
<1>1. BookInv => BookFits
  <2>. SUFFICES ASSUME BookInv PROVE Book!BookFits
    BY DEF BookFits
  <2>1. Book!TypeOK /\ Book!ConcurrencyCap
    BY BookCounts DEF BookInv, BookCap, Book!ConcurrencyCap
  <2>2. \A d \in Book!Dir : scored[d] \in Book!Scores
    BY DEF BookInv, Book!TypeOK
  <2>3. Book!FitsTheBook /\ Book!BestFirst
    BY <2>2, ListIsGood DEF Book!FitsTheBook, Book!BestFirst
  <2>. QED  BY <2>1, <2>3 DEF Book!BookFits
<1>. QED  BY <1>1, BookInvariant, PTL

\* EntersOnLastBias: what is entered at an open was permitted by the bias of the close
\* before it.
THEOREM EntersOnLastBiasAlways == MCSpec => EntersOnLastBias
<1>. DEFINE Enters == \A d \in Book!Dir : Book!Held(d)' \ Book!Held(d) # {} => Permits(bias, d)
<1>1. BookInv /\ [MCNext]_allVars => Enters
  <2>. SUFFICES ASSUME BookInv, [MCNext]_allVars PROVE Enters
    OBVIOUS
  <2>1. CASE Book!FillOne
    <3>. DEFINE e == Head(pending)[2]
    <3>1. pending # <<>> /\ pending \in Seq(Symbols \X Book!Dir)
      BY <2>1 DEF Book!FillOne, BookInv, Book!TypeOK
    <3>2. Permits(bias, e)
      <4>1. Head(pending) = pending[1] /\ 1 \in 1..Len(pending)
        BY <3>1
      <4>. QED  BY <4>1 DEF BookInv, PendingPermitted
    <3>3. ASSUME NEW d \in Book!Dir, d # e PROVE Book!Held(d)' \subseteq Book!Held(d)
      BY <2>1, <3>3 DEF Book!FillOne, Book!Held, BookInv, Book!TypeOK
    <3>. QED  BY <3>2, <3>3
  <2>2. CASE Book!Manage
    <3>1. ASSUME NEW d \in Book!Dir PROVE Book!Held(d)' \subseteq Book!Held(d)
      BY <2>2, ManageOnlyCloses DEF BookInv
    <3>. QED  BY <3>1
  <2>3. CASE UNCHANGED position
    BY <2>3 DEF Book!Held
  <2>. QED
    BY <2>1, <2>2, <2>3 DEF MCNext, allVars, bookVars, Book!Next, Book!AllFilled, Book!Signal,
                            Book!Over, Book!vars
<1>2. Enters => /\ Book!Held("LONG")' \ Book!Held("LONG") # {} => (BiasGateEnabled => bias = "BULL")
                /\ Book!Held("SHORT")' \ Book!Held("SHORT") # {} => (ShortsEnabled /\ bias = "BEAR")
  BY DEF Permits, Book!Dir
<1>3. BookInv /\ [MCNext]_allVars =>
        [ /\ Book!Held("LONG")' \ Book!Held("LONG") # {} => (BiasGateEnabled => bias = "BULL")
          /\ Book!Held("SHORT")' \ Book!Held("SHORT") # {} => (ShortsEnabled /\ bias = "BEAR")
        ]_Book!vars
  BY <1>1, <1>2
<1>. QED  BY <1>3, BookInvariant, PTL DEF MCSpec, EntersOnLastBias, Book!EntersOnLastBias
=============================================================================

--------------------------- MODULE EngineM5Proofs ---------------------------
(***************************************************************************)
(* Theorems of OrderBook and of EngineM5 for any finite set of symbols,    *)
(* any limits and any sequence of bars.                                    *)
(*                                                                         *)
(* Of the order book: ClaimInv is the inductive invariant.  The three      *)
(* promises about claims (one claim per symbol, the per-day cap, the       *)
(* lockout) lean on each other -- a lockout is safe only because the       *)
(* symbol stopped out was held and so had no order -- and need the types.  *)
(* CountInv, on top of it: the slots of a book are never overdrawn, and    *)
(* the funnel's counters and the trade list account for every order and    *)
(* position, because a fill moves one symbol that was pending and not      *)
(* held.                                                                   *)
(*                                                                         *)
(* The engine with its watchlist implements the order book, in each of the *)
(* three dip-hold modes, so what is proved of OrderBook holds of it.  What *)
(* the trigger promotes keeps apart from what a dip armed.                 *)
(***************************************************************************)
EXTENDS EngineM5, FiniteSetTheorems, TLAPS


LoopsVisitClaims ==
  /\ phase = "fill" => \A s \in todo : order[s].dir \in Dir
  /\ \A s \in Symbols : closing[s] # "none" => position[s].dir \in Dir

ClaimInv ==
  /\ TypeOK
  /\ OneClaimPerSymbol
  /\ EntryCap
  /\ LockoutHolds
  /\ LoopsVisitClaims

-----------------------------------------------------------------------------
\* Every set of symbols the program counts is finite.
LEMMA CountIsNat ==
  ASSUME NEW S, S \subseteq Symbols
  PROVE  IsFiniteSet(S) /\ Cardinality(S) \in Nat
BY OrderBookConstants, FS_Subset, FS_CardinalityType

LEMMA LimitsAreNat ==
  ASSUME NEW d \in Dir
  PROVE  MaxEntries(d) \in Nat /\ MaxConcurrent(d) \in Nat
BY OrderBookConstants DEF MaxEntries, MaxConcurrent

\* The guards keep their shape through every method of the risk manager.
LEMMA RiskTypes ==
  ASSUME NEW r \in RiskState, NEW e \in Int, NEW i \in Nat, NEW reason,
         NEW roll \in Rolls
  PROVE  /\ RegisterExit(r, e, reason, i) \in RiskState
         /\ Rollover(r, roll, e) \in RiskState
<1>1. RegisterExit(r, e, reason, i) \in RiskState
  <2> DEFINE stops == IF reason = "hard_stop" THEN r.consec + 1 ELSE 0
  <2> DEFINE until == IF stops >= StopoutLimit THEN i + HaltBars ELSE r.haltUntil
  <2> DEFINE daily == IF LossLimitHit(e, r.today, DailyLossPct)
                      THEN TRUE ELSE r.daily
  <2> DEFINE weekly == IF LossLimitHit(e, r.week, WeeklyLossPct)
                       THEN TRUE ELSE r.weekly
  <2>1. stops \in Nat /\ until \in Nat
    BY RiskConstants DEF RiskState
  <2>2. daily \in BOOLEAN /\ weekly \in BOOLEAN
    BY DEF RiskState
  <2>3. r.today \in Int /\ r.week \in Int
    BY DEF RiskState
  <2>4. RegisterExit(r, e, reason, i) =
          [today |-> r.today, week |-> r.week, consec |-> stops,
           haltUntil |-> until, daily |-> daily, weekly |-> weekly]
    BY DEF RegisterExit
  <2> HIDE DEF stops, until, daily, weekly
  <2> QED
    BY <2>1, <2>2, <2>3, <2>4 DEF RiskState
<1>2. NewSession(r, e) \in RiskState
  BY DEF NewSession, RiskState
<1>3. NewWeek(NewSession(r, e), e) \in RiskState
  BY DEF NewWeek, NewSession, RiskState
<1>4. Rollover(r, roll, e) \in RiskState
  BY <1>2, <1>3 DEF Rollover, Rolls
<1> QED
  BY <1>1, <1>4

-----------------------------------------------------------------------------
LEMMA InitClaim == Init => ClaimInv
<1> SUFFICES ASSUME Init PROVE ClaimInv
  OBVIOUS
<1>1. risk \in RiskState
  BY OrderBookConstants DEF Init, FreshRisk, RiskState
<1>2. now \in [roll: Rolls, time: Times, bias: Families, flip: BOOLEAN,
               prints: SUBSET Symbols, ok: SUBSET Dir]
  BY DEF Init, Rolls, Times, Families
<1>3. tally \in [Dir -> [Outcomes -> Int]]
  BY DEF Init, NoTally
<1>4. TypeOK
  BY <1>1, <1>2, <1>3, OrderBookConstants
  DEF Init, TypeOK, Phases, Side, Dir, NoOrder, NoPosition, Reasons
<1>5. OneClaimPerSymbol /\ LockoutHolds
  BY DEF Init, OneClaimPerSymbol, LockoutHolds, NoOrder
<1>6. EntryCap
  BY LimitsAreNat DEF Init, EntryCap, NoOrder, Dir
<1>7. LoopsVisitClaims
  BY DEF Init, LoopsVisitClaims
<1> QED
  BY <1>4, <1>5, <1>6, <1>7 DEF ClaimInv

LEMMA StartBarClaim ==
  ASSUME ClaimInv, StartBar
  PROVE  ClaimInv'
<1> USE DEF ClaimInv
<1> PICK roll \in Rolls, t \in Times, b \in Families, flip \in BOOLEAN,
         prints \in SUBSET Symbols, ok \in SUBSET Dir :
      Opens(roll, t, b, flip, prints, ok)
  BY DEF StartBar
<1> USE DEF Opens
<1>1. risk' \in RiskState
  BY RiskTypes DEF TypeOK
<1>3. /\ entriesToday' \in [Dir -> [Symbols -> Nat]]
      /\ lockedOut' \in [Dir -> SUBSET Symbols]
  BY DEF TypeOK
<1>4. TypeOK'
  <2>1. now' \in [roll: Rolls, time: Times, bias: Families, flip: BOOLEAN,
                  prints: SUBSET Symbols, ok: SUBSET Dir]
    OBVIOUS
  <2>2. todo' \subseteq Symbols
    BY DEF StartBar, Pending
  <2> QED
    BY <1>1, <1>3, <2>1, <2>2 DEF TypeOK, StartBar, Phases, flowVars
<1>5. OneClaimPerSymbol'
  BY DEF StartBar, OneClaimPerSymbol
<1>6. LockoutHolds'
  BY DEF StartBar, LockoutHolds, Exposure, Pending, Held, TypeOK
<1>7. EntryCap'
  BY LimitsAreNat DEF StartBar, EntryCap, TypeOK
<1>8. LoopsVisitClaims'
  BY DEF StartBar, LoopsVisitClaims, Pending, Dir
<1> QED
  BY <1>4, <1>5, <1>6, <1>7, <1>8

\* The fill loop: an entry moves from order to position in the same book.
LEMMA FillOneClaim ==
  ASSUME ClaimInv, NEW s \in Symbols, FillOne(s), order[s].dir \in Dir
  PROVE  ClaimInv'
<1> USE DEF ClaimInv
<1>1. CASE Fill(s)
  <2> DEFINE d == order[s].dir
  <2>1. /\ position' = [position EXCEPT ![s] = [dir |-> d, engaged |-> FALSE]]
        /\ order' = [order EXCEPT ![s] = [dir |-> "NONE", waited |-> 0]]
        /\ entriesToday' = [entriesToday EXCEPT ![d][s] = @ + 1]
        /\ filled' = [filled EXCEPT ![d] = @ + 1]
        /\ UNCHANGED <<lockedOut, cancelled>>
    BY <1>1 DEF FillOne, Fill, NewPosition, NoOrder
  <2>2. d \in Dir
    OBVIOUS
  <2>3. TypeOK'
    <3>1. entriesToday' \in [Dir -> [Symbols -> Nat]] /\ filled' \in [Dir -> Nat]
      BY <2>1, <2>2 DEF TypeOK
    <3>2. /\ position' \in [Symbols -> [dir: Side, engaged: BOOLEAN]]
          /\ order' \in [Symbols -> [dir: Side, waited: Nat]]
      BY <2>1, <2>2 DEF TypeOK, Side
    <3> QED
      BY <1>1, <3>1, <3>2 DEF TypeOK, FillOne, Fill
  <2>4. OneClaimPerSymbol'
    BY <2>1 DEF OneClaimPerSymbol, TypeOK
  <2>5. LockoutHolds'
    <3>1. \A e \in Dir : Exposure(e)' \subseteq Exposure(e)
      BY <2>1, <2>2 DEF Exposure, Pending, Held, TypeOK, Dir
    <3> QED
      BY <2>1, <3>1 DEF LockoutHolds
  <2>6. EntryCap'
    <3> SUFFICES ASSUME NEW e \in Dir, NEW r \in Symbols
        PROVE  entriesToday'[e][r] + (IF order'[r].dir = e THEN 1 ELSE 0)
                 <= MaxEntries(e)
      BY DEF EntryCap
    <3>1. entriesToday[e][r] + (IF order[r].dir = e THEN 1 ELSE 0)
            <= MaxEntries(e)
      BY DEF EntryCap
    <3>2. CASE e = d /\ r = s
      BY <3>1, <3>2, <2>1, LimitsAreNat DEF TypeOK, Dir
    <3>3. CASE ~(e = d /\ r = s)
      BY <3>1, <3>3, <2>1, LimitsAreNat DEF TypeOK, Dir
    <3> QED
      BY <3>2, <3>3
  <2>7. LoopsVisitClaims'
    BY <1>1, <2>1, <2>2 DEF LoopsVisitClaims, FillOne, Fill, TypeOK
  <2> QED
    BY <2>3, <2>4, <2>5, <2>6, <2>7
<1>2. CASE Wait(s)
  <2> DEFINE waited == order[s].waited + 1
  <2>1. /\ \/ order' = [order EXCEPT ![s] = [dir |-> "NONE", waited |-> 0]]
           \/ order' = [order EXCEPT ![s] = [dir |-> order[s].dir, waited |-> waited]]
        /\ UNCHANGED <<position, entriesToday, filled, lockedOut>>
    BY <1>2 DEF FillOne, Wait, NoOrder
  <2>2. cancelled' \in [Dir -> Nat]
    <3>1. \/ UNCHANGED cancelled
          \/ cancelled' = [cancelled EXCEPT ![order[s].dir] = @ + 1]
      BY <1>2 DEF Wait
    <3> QED
      BY <3>1 DEF TypeOK
  <2>3. order[s].dir \in Side /\ waited \in Nat
    BY DEF TypeOK, Side
  <2>4. order' \in [Symbols -> [dir: Side, waited: Nat]]
    BY <2>1, <2>3 DEF TypeOK, Side
  <2>5. \A r \in Symbols : order'[r].dir = order[r].dir \/ order'[r].dir = "NONE"
    <3> SUFFICES ASSUME NEW r \in Symbols
        PROVE  order'[r].dir = order[r].dir \/ order'[r].dir = "NONE"
      OBVIOUS
    <3>1. order \in [Symbols -> [dir: Side, waited: Nat]]
      BY DEF TypeOK
    <3>2. CASE r = s
      BY <2>1, <3>1, <3>2
    <3>3. CASE r # s
      BY <2>1, <3>1, <3>3
    <3> QED
      BY <3>2, <3>3
  <2>6. TypeOK'
    BY <2>1, <2>2, <2>4 DEF TypeOK, FillOne
  <2>7. OneClaimPerSymbol'
    BY <2>1, <2>5 DEF OneClaimPerSymbol
  <2>8. LockoutHolds'
    BY <2>1, <2>5 DEF LockoutHolds, Exposure, Pending, Held, Dir
  <2>9. EntryCap'
    <3> SUFFICES ASSUME NEW e \in Dir, NEW r \in Symbols
        PROVE  entriesToday'[e][r] + (IF order'[r].dir = e THEN 1 ELSE 0)
                 <= MaxEntries(e)
      BY DEF EntryCap
    <3>1. entriesToday[e][r] + (IF order[r].dir = e THEN 1 ELSE 0)
            <= MaxEntries(e)
      BY DEF EntryCap
    <3>2. e # "NONE" /\ entriesToday[e][r] \in Nat
      BY DEF Dir, TypeOK
    <3> QED
      BY <2>1, <2>5, <3>1, <3>2, LimitsAreNat
  <2>10. LoopsVisitClaims'
    BY <2>1 DEF LoopsVisitClaims, FillOne, TypeOK
  <2> QED
    BY <2>6, <2>7, <2>8, <2>9, <2>10
<1> QED
  BY <1>1, <1>2 DEF FillOne

\* Judging the positions changes no claim: it only engages trailing stops.
LEMMA ManageClaim ==
  ASSUME ClaimInv, Manage
  PROVE  ClaimInv'
<1> USE DEF ClaimInv
<1> DEFINE judged == (Held("LONG") \cup Held("SHORT")) \cap now.prints
<1>1. PICK verdict \in [judged -> UNION {Verdicts(position[s]) : s \in judged}] :
        /\ \A s \in judged : verdict[s] \in Verdicts(position[s])
        /\ closing' = [s \in Symbols |->
                         IF s \in judged /\ verdict[s] \notin {"engage", "hold"}
                         THEN verdict[s] ELSE "none"]
        /\ position' = [s \in Symbols |->
                          IF s \in judged /\ verdict[s] = "engage"
                          THEN [position[s] EXCEPT !.engaged = TRUE]
                          ELSE position[s]]
  BY DEF Manage
<1>2. UNCHANGED <<bar, now, order, entriesToday, lockedOut, risk, equity, todo,
                  signal, tally, submitted, filled, cancelled, trades>>
      /\ phase' = "close"
  BY DEF Manage, flowVars
<1>3. \A s \in judged : verdict[s] \in Reasons \cup {"engage", "hold"}
  BY <1>1 DEF Verdicts, StopReason, Reasons
<1>4. closing' \in [Symbols -> Reasons \cup {"none"}]
  BY <1>1, <1>3
<1>5. \A s \in Symbols : /\ position'[s].dir = position[s].dir
                         /\ position'[s] \in [dir: Side, engaged: BOOLEAN]
  BY <1>1 DEF TypeOK
<1>6. position' \in [Symbols -> [dir: Side, engaged: BOOLEAN]]
  BY <1>1, <1>5
<1>7. TypeOK'
  BY <1>2, <1>4, <1>6 DEF TypeOK, Phases
<1>8. OneClaimPerSymbol' /\ EntryCap'
  BY <1>2, <1>5 DEF OneClaimPerSymbol, EntryCap
<1>9. LockoutHolds'
  BY <1>2, <1>5 DEF LockoutHolds, Exposure, Pending, Held
<1>10. \A s \in judged : position[s].dir \in Dir
  BY DEF Held, Dir
<1>11. LoopsVisitClaims'
  BY <1>1, <1>2, <1>5, <1>10 DEF LoopsVisitClaims
<1> QED
  BY <1>7, <1>8, <1>9, <1>11

\* Booking an exit: the symbol locked out was held, so it had no order.
LEMMA CloseOneClaim ==
  ASSUME ClaimInv, NEW s \in Symbols, CloseOne(s)
  PROVE  ClaimInv'
<1> USE DEF ClaimInv
<1> DEFINE d == position[s].dir
<1>1. /\ closing[s] # "none" /\ d \in Dir
      /\ order[s].dir = "NONE"
  BY DEF CloseOne, LoopsVisitClaims, OneClaimPerSymbol, Dir
<1>2. /\ position' = [position EXCEPT ![s] = [dir |-> "NONE", engaged |-> FALSE]]
      /\ trades' = [trades EXCEPT ![d] = @ + 1]
      /\ closing' = [closing EXCEPT ![s] = "none"]
      /\ \/ lockedOut' = lockedOut
         \/ lockedOut' = [lockedOut EXCEPT ![d] = @ \cup {s}]
      /\ UNCHANGED <<bar, phase, now, order, entriesToday, todo, signal, tally,
                     submitted, filled, cancelled>>
  BY DEF CloseOne, NoPosition
<1>3. equity' \in Int /\ risk' \in RiskState
  <2>1. PICK pnl \in Pnls :
          /\ equity' = equity + pnl
          /\ risk' = RegisterExit(risk, equity + pnl, closing[s], bar)
    BY DEF CloseOne
  <2>2. equity + pnl \in Int
    BY OrderBookConstants DEF TypeOK
  <2> QED
    BY <2>1, <2>2, RiskTypes DEF TypeOK, Rolls
<1>4. /\ lockedOut' \in [Dir -> SUBSET Symbols]
      /\ trades' \in [Dir -> Nat]
  BY <1>1, <1>2 DEF TypeOK
<1>5. position' \in [Symbols -> [dir: Side, engaged: BOOLEAN]]
  BY <1>2 DEF TypeOK, Side
<1>6. TypeOK'
  BY <1>2, <1>3, <1>4, <1>5 DEF TypeOK
<1>7. OneClaimPerSymbol' /\ EntryCap'
  BY <1>2 DEF OneClaimPerSymbol, EntryCap, TypeOK
<1>8. LockoutHolds'
  <2> SUFFICES ASSUME NEW e \in Dir, NEW r \in lockedOut'[e], r \in Symbols
      PROVE  order'[r].dir # e /\ position'[r].dir # e
    BY DEF LockoutHolds, Exposure, Pending, Held
  <2>1. e # "NONE"
    BY DEF Dir
  <2>2. CASE r = s
    BY <1>1, <1>2, <2>1, <2>2 DEF TypeOK
  <2>3. CASE r # s
    <3>1. r \in lockedOut[e]
      <4>1. lockedOut \in [Dir -> SUBSET Symbols]
        BY DEF TypeOK
      <4>2. lockedOut'[e] \subseteq lockedOut[e] \cup {s}
        BY <1>1, <1>2, <4>1
      <4> QED
        BY <2>3, <4>2
    <3>2. order[r].dir # e /\ position[r].dir # e
      BY <3>1 DEF LockoutHolds, Exposure, Pending, Held
    <3> QED
      BY <1>2, <2>3, <3>2 DEF TypeOK
  <2> QED
    BY <2>2, <2>3
<1>9. LoopsVisitClaims'
  BY <1>2 DEF LoopsVisitClaims, TypeOK
<1> QED
  BY <1>6, <1>7, <1>8, <1>9

LEMMA UpdateWatchlistClaim ==
  ASSUME ClaimInv, UpdateWatchlist
  PROVE  ClaimInv'
<1> USE DEF ClaimInv
<1>1. UNCHANGED <<bar, now, order, position, entriesToday, lockedOut, risk,
                  equity, todo, closing, tally, submitted, filled, cancelled,
                  trades>>
  BY DEF UpdateWatchlist, bookVars, flowVars
<1>2. /\ signal' \in [Dir -> SUBSET Symbols]
      /\ phase' = "submit_LONG"
  BY DEF UpdateWatchlist, TypeOK
<1>3. TypeOK'
  BY <1>1, <1>2 DEF TypeOK, Phases
<1>4. OneClaimPerSymbol' /\ EntryCap' /\ LoopsVisitClaims'
  BY <1>1, <1>2 DEF OneClaimPerSymbol, EntryCap, LoopsVisitClaims
<1>5. LockoutHolds'
  BY <1>1 DEF LockoutHolds, Exposure, Pending, Held
<1> QED
  BY <1>3, <1>4, <1>5

-----------------------------------------------------------------------------
\* The book is turned away, or its orders go to symbols that have no claim, are
\* not locked out and have an entry left.
LEMMA TurnedClaim ==
  ASSUME ClaimInv, NEW d \in Dir, Submit(d), Turned(d)
  PROVE  ClaimInv'
<1> USE DEF ClaimInv
<1>1. UNCHANGED <<bar, now, order, position, entriesToday, lockedOut, risk,
                  equity, todo, closing, signal, submitted, filled, cancelled,
                  trades>>
  BY DEF Submit, Turned
<1>2. phase' \in Phases /\ phase' # "fill"
  BY DEF Submit, NextPhase, Phases
<1>3. tally' \in [Dir -> [Outcomes -> Int]]
  <2>1. Cardinality(Evals(d)) \in Int
    BY CountIsNat DEF Evals, TypeOK
  <2>2. tally' = [tally EXCEPT ![d][BlockedBy(d)] = Cardinality(Evals(d))]
    BY DEF Turned
  <2> QED
    BY <2>1, <2>2 DEF TypeOK
<1>4. TypeOK'
  BY <1>1, <1>2, <1>3 DEF TypeOK
<1>5. OneClaimPerSymbol' /\ EntryCap' /\ LoopsVisitClaims'
  BY <1>1, <1>2 DEF OneClaimPerSymbol, EntryCap, LoopsVisitClaims
<1>6. LockoutHolds'
  BY <1>1 DEF LockoutHolds, Exposure, Pending, Held
<1> QED
  BY <1>4, <1>5, <1>6

LEMMA EnterClaim ==
  ASSUME ClaimInv, NEW d \in Dir, Submit(d), Enter(d)
  PROVE  ClaimInv'
<1> USE DEF ClaimInv
<1> PICK eligible, list, slice, sized :
      Places(d, eligible, list, slice, sized)
  BY DEF Enter
<1> /\ eligible \subseteq Evals(d) \ Barred(d)
    /\ list \subseteq eligible /\ slice \subseteq list /\ sized \subseteq slice
  BY DEF Places, TradeableFrom
<1>1. UNCHANGED <<bar, now, position, entriesToday, lockedOut, risk, equity,
                  todo, closing, signal, filled, cancelled, trades>>
  BY DEF Submit
<1>2. phase' \in Phases /\ phase' # "fill"
  BY DEF Submit, NextPhase, Phases
<1>3. \A s \in sized : /\ s \in Symbols
                       /\ position[s].dir = "NONE"
                       /\ s \notin lockedOut[d]
                       /\ entriesToday[d][s] < MaxEntries(d)
  BY LimitsAreNat DEF Evals, Barred, TypeOK
<1>4. order' = [s \in Symbols |->
                  IF s \in sized THEN [dir |-> d, waited |-> 0] ELSE order[s]]
  BY DEF Places, NewOrder
<1>5. order' \in [Symbols -> [dir: Side, waited: Nat]]
  BY <1>4 DEF TypeOK, Side
<1>6. /\ Cardinality(sized) \in Nat /\ Cardinality(slice) \in Nat
      /\ Cardinality(list) \in Nat /\ Cardinality(eligible) \in Nat
      /\ Cardinality(Barred(d)) \in Nat
      /\ Cardinality((Evals(d) \ Barred(d)) \ eligible) \in Nat
      /\ Cardinality(Held(d)) \in Nat /\ Cardinality(Pending(d)) \in Nat
  <2>1. Evals(d) \subseteq Symbols
    BY DEF Evals, TypeOK
  <2>2. /\ Barred(d) \subseteq Evals(d)
        /\ Held(d) \subseteq Symbols /\ Pending(d) \subseteq Symbols
    BY DEF Barred, Held, Pending
  <2> QED
    BY <2>1, <2>2, CountIsNat
<1>7. submitted' \in [Dir -> Nat]
  BY <1>6 DEF Places, TypeOK
<1>8. tally' \in [Dir -> [Outcomes -> Int]]
  <2>1. SlotsFree(d) \in Int
    BY <1>6, LimitsAreNat DEF SlotsFree
  <2> DEFINE over == Cardinality(list)
                       - (IF SlotsFree(d) >= 0 THEN SlotsFree(d) ELSE 0)
  <2> DEFINE counts == [o \in Outcomes |->
               CASE o = "lockout"   -> Cardinality(Barred(d))
                 [] o = "quality"   -> Cardinality((Evals(d) \ Barred(d)) \ eligible)
                 [] o = "ranking"   -> Cardinality(eligible) - Cardinality(list)
                 [] o = "slots"     -> IF over >= 0 THEN over ELSE 0
                 [] o = "sizing"    -> Cardinality(slice) - Cardinality(sized)
                 [] o = "submitted" -> Cardinality(sized)
                 [] OTHER           -> 0]
  <2>2. over \in Int
    BY <1>6, <2>1
  <2>3. counts \in [Outcomes -> Int]
    <3> HIDE DEF over
    <3> QED
      BY <1>6, <2>2
  <2>4. tally' = [tally EXCEPT ![d] = counts]
    BY DEF Places
  <2> HIDE DEF counts
  <2> QED
    BY <2>3, <2>4 DEF TypeOK
<1>9. TypeOK'
  BY <1>1, <1>2, <1>5, <1>7, <1>8 DEF TypeOK
<1>10. OneClaimPerSymbol'
  BY <1>1, <1>3, <1>4 DEF OneClaimPerSymbol
<1>11. LockoutHolds'
  <2> SUFFICES ASSUME NEW e \in Dir, NEW r \in Symbols, r \in lockedOut[e]
      PROVE  order'[r].dir # e /\ position[r].dir # e
    BY <1>1 DEF LockoutHolds, Exposure, Pending, Held
  <2>1. order[r].dir # e /\ position[r].dir # e
    BY DEF LockoutHolds, Exposure, Pending, Held
  <2> QED
    BY <1>3, <1>4, <2>1
<1>12. EntryCap'
  <2> SUFFICES ASSUME NEW e \in Dir, NEW r \in Symbols
      PROVE  entriesToday[e][r] + (IF order'[r].dir = e THEN 1 ELSE 0)
               <= MaxEntries(e)
    BY <1>1 DEF EntryCap
  <2>1. /\ entriesToday[e][r] + (IF order[r].dir = e THEN 1 ELSE 0)
             <= MaxEntries(e)
        /\ entriesToday[e][r] \in Nat
    BY DEF EntryCap, TypeOK
  <2>2. CASE r \in sized
    BY <1>3, <1>4, <2>1, <2>2, LimitsAreNat
  <2>3. CASE r \notin sized
    BY <1>4, <2>1, <2>3
  <2> QED
    BY <2>2, <2>3
<1>13. LoopsVisitClaims'
  BY <1>1, <1>2 DEF LoopsVisitClaims
<1> QED
  BY <1>9, <1>10, <1>11, <1>12, <1>13

LEMMA EndBarClaim ==
  ASSUME ClaimInv, EndBar
  PROVE  ClaimInv'
<1> USE DEF ClaimInv
<1>1. UNCHANGED <<order, position, entriesToday, lockedOut, risk, equity, todo,
                  closing, submitted, filled, cancelled, trades>>
      /\ phase' = "next_bar"
  BY DEF EndBar, bookVars, flowVars
<1>2. now' \in [roll: Rolls, time: Times, bias: Families, flip: BOOLEAN,
                prints: SUBSET Symbols, ok: SUBSET Dir]
  BY DEF EndBar, TypeOK, Rolls
<1>3. /\ bar' \in Nat
      /\ signal' \in [Dir -> SUBSET Symbols]
      /\ tally' \in [Dir -> [Outcomes -> Int]]
  BY DEF EndBar, TypeOK, NoTally
<1>4. TypeOK'
  BY <1>1, <1>2, <1>3 DEF TypeOK, Phases
<1>5. OneClaimPerSymbol' /\ EntryCap' /\ LoopsVisitClaims'
  BY <1>1 DEF OneClaimPerSymbol, EntryCap, LoopsVisitClaims
<1>6. LockoutHolds'
  BY <1>1 DEF LockoutHolds, Exposure, Pending, Held
<1> QED
  BY <1>4, <1>5, <1>6

LEMMA StutterClaim ==
  ASSUME ClaimInv, UNCHANGED vars
  PROVE  ClaimInv'
BY DEF ClaimInv, vars, bookVars, flowVars, TypeOK, OneClaimPerSymbol, EntryCap,
       LockoutHolds, LoopsVisitClaims, Exposure, Pending, Held

-----------------------------------------------------------------------------
\* The claims of the order book are safe in every reachable state, whatever the
\* universe, the limits and the bars.
THEOREM ClaimInvariant == Spec => []ClaimInv
<1>1. Init => ClaimInv
  BY InitClaim
<1>2. ClaimInv /\ [Next]_vars => ClaimInv'
  <2> SUFFICES ASSUME ClaimInv, [Next]_vars PROVE ClaimInv'
    OBVIOUS
  <2>1. CASE StartBar
    BY <2>1, StartBarClaim
  <2>2. ASSUME NEW s \in Symbols, FillOne(s) PROVE ClaimInv'
    <3>1. order[s].dir \in Dir
      BY <2>2 DEF ClaimInv, LoopsVisitClaims, FillOne
    <3> QED
      BY <2>2, <3>1, FillOneClaim
  <2>3. CASE Manage
    BY <2>3, ManageClaim
  <2>4. ASSUME NEW s \in Symbols, CloseOne(s) PROVE ClaimInv'
    BY <2>4, CloseOneClaim
  <2>5. CASE UpdateWatchlist
    BY <2>5, UpdateWatchlistClaim
  <2>6. ASSUME NEW d \in Dir, Submit(d) PROVE ClaimInv'
    BY <2>6, TurnedClaim, EnterClaim DEF Submit
  <2>7. CASE EndBar
    BY <2>7, EndBarClaim
  <2>8. CASE Finished \/ UNCHANGED vars
    BY <2>8, StutterClaim DEF Finished
  <2> QED
    BY <2>1, <2>2, <2>3, <2>4, <2>5, <2>6, <2>7, <2>8 DEF Next
<1> QED
  BY <1>1, <1>2, PTL DEF Spec

\* Every variable of the bar loop keeps its type.
THEOREM TypeCorrect == Spec => []TypeOK
BY ClaimInvariant, PTL DEF ClaimInv

\* pending and positions never claim the same symbol, so no fill overwrites an
\* open position.
THEOREM OneClaimAlways == Spec => []OneClaimPerSymbol
BY ClaimInvariant, PTL DEF ClaimInv

\* The per-day cap holds although it is checked at submission and counted at
\* the fill.
THEOREM EntryCapAlways == Spec => []EntryCap
BY ClaimInvariant, PTL DEF ClaimInv

\* A symbol stopped out has no order and no position left in that book for the
\* rest of the session.
THEOREM LockoutAlways == Spec => []LockoutHolds
BY ClaimInvariant, PTL DEF ClaimInv

-----------------------------------------------------------------------------
CountInv ==
  /\ SlotCap
  /\ OrderConservation

-----------------------------------------------------------------------------
\* Cardinalities of the two sets of a book, before and after a step.
LEMMA BookSets ==
  ASSUME NEW d \in Dir
  PROVE  /\ IsFiniteSet(Pending(d)) /\ IsFiniteSet(Held(d))
         /\ Cardinality(Pending(d)) \in Nat /\ Cardinality(Held(d)) \in Nat
BY CountIsNat DEF Pending, Held

\* A step that leaves the books and the counters alone keeps CountInv.
LEMMA SameBooks ==
  ASSUME CountInv,
         \A d \in Dir : Pending(d)' = Pending(d) /\ Held(d)' = Held(d),
         UNCHANGED <<submitted, filled, cancelled, trades>>
  PROVE  CountInv'
BY DEF CountInv, SlotCap, OrderConservation, MaxConcurrent

\* A fill takes one symbol out of Pending(d) and puts it into Held(d).
LEMMA FillCounts ==
  ASSUME ClaimInv, CountInv, NEW s \in Symbols, FillOne(s), Fill(s),
         order[s].dir \in Dir
  PROVE  CountInv'
<1> PICK d \in Dir : d = order[s].dir
  OBVIOUS
<1>1. /\ position' = [position EXCEPT ![s] = [dir |-> d, engaged |-> FALSE]]
      /\ order' = [order EXCEPT ![s] = [dir |-> "NONE", waited |-> 0]]
      /\ filled' = [filled EXCEPT ![d] = @ + 1]
      /\ UNCHANGED <<submitted, cancelled, trades>>
  BY DEF FillOne, Fill, NewPosition, NoOrder
<1>2. /\ position[s].dir = "NONE" /\ d # "NONE"
      /\ order \in [Symbols -> [dir: Side, waited: Nat]]
      /\ position \in [Symbols -> [dir: Side, engaged: BOOLEAN]]
      /\ submitted \in [Dir -> Nat] /\ filled \in [Dir -> Nat]
      /\ cancelled \in [Dir -> Nat] /\ trades \in [Dir -> Nat]
  BY DEF ClaimInv, OneClaimPerSymbol, TypeOK, Dir
<1>3. /\ Pending(d)' = Pending(d) \ {s} /\ s \in Pending(d)
      /\ Held(d)' = Held(d) \cup {s} /\ s \notin Held(d)
  BY <1>1, <1>2 DEF Pending, Held
<1>4. /\ Cardinality(Pending(d)') = Cardinality(Pending(d)) - 1
      /\ Cardinality(Held(d)') = Cardinality(Held(d)) + 1
  <2>1. IsFiniteSet(Pending(d)) /\ IsFiniteSet(Held(d))
    BY BookSets
  <2>2. /\ Cardinality(Pending(d) \ {s}) = Cardinality(Pending(d)) - 1
        /\ Cardinality(Held(d) \cup {s}) = Cardinality(Held(d)) + 1
    BY <1>3, <2>1, FS_AddElement, FS_RemoveElement
  <2> QED
    BY <1>3, <2>2
<1>5. \A e \in Dir : e # d => Pending(e)' = Pending(e) /\ Held(e)' = Held(e)
  BY <1>1, <1>2 DEF Pending, Held, Dir
<1> SUFFICES ASSUME NEW e \in Dir
    PROVE  /\ Cardinality(Held(e)') + Cardinality(Pending(e)') <= MaxConcurrent(e)
           /\ submitted'[e] = filled'[e] + cancelled'[e] + Cardinality(Pending(e)')
           /\ filled'[e] = trades'[e] + Cardinality(Held(e)')
  BY DEF CountInv, SlotCap, OrderConservation, MaxConcurrent
<1>6. /\ Cardinality(Held(e)) + Cardinality(Pending(e)) <= MaxConcurrent(e)
      /\ submitted[e] = filled[e] + cancelled[e] + Cardinality(Pending(e))
      /\ filled[e] = trades[e] + Cardinality(Held(e))
  BY DEF CountInv, SlotCap, OrderConservation
<1>7. CASE e = d
  BY <1>1, <1>2, <1>4, <1>6, <1>7, BookSets, LimitsAreNat
<1>8. CASE e # d
  BY <1>1, <1>2, <1>5, <1>6, <1>8
<1> QED
  BY <1>7, <1>8

\* An order that waits stays, or leaves Pending(d) as a cancellation.
LEMMA WaitCounts ==
  ASSUME ClaimInv, CountInv, NEW s \in Symbols, FillOne(s), Wait(s),
         order[s].dir \in Dir
  PROVE  CountInv'
<1> PICK d \in Dir : d = order[s].dir
  OBVIOUS
<1> DEFINE waited == order[s].waited + 1
<1>1. UNCHANGED <<position, submitted, filled, trades>>
  BY DEF FillOne, Wait
<1>2. /\ d # "NONE"
      /\ order \in [Symbols -> [dir: Side, waited: Nat]]
      /\ submitted \in [Dir -> Nat] /\ filled \in [Dir -> Nat]
      /\ cancelled \in [Dir -> Nat] /\ trades \in [Dir -> Nat]
  BY DEF ClaimInv, TypeOK, Dir
<1>3. \A e \in Dir : Held(e)' = Held(e)
  BY <1>1 DEF Held
<1>4. CASE waited >= CancelBars
  <2>1. /\ order' = [order EXCEPT ![s] = [dir |-> "NONE", waited |-> 0]]
        /\ cancelled' = [cancelled EXCEPT ![d] = @ + 1]
    BY <1>4 DEF Wait, NoOrder
  <2>2. Pending(d)' = Pending(d) \ {s} /\ s \in Pending(d)
    BY <1>2, <2>1 DEF Pending
  <2>3. Cardinality(Pending(d)') = Cardinality(Pending(d)) - 1
    BY <2>2, BookSets, FS_RemoveElement
  <2>4. \A e \in Dir : e # d => Pending(e)' = Pending(e)
    BY <1>2, <2>1 DEF Pending, Dir
  <2> SUFFICES ASSUME NEW e \in Dir
      PROVE  /\ Cardinality(Held(e)') + Cardinality(Pending(e)') <= MaxConcurrent(e)
             /\ submitted'[e] = filled'[e] + cancelled'[e] + Cardinality(Pending(e)')
             /\ filled'[e] = trades'[e] + Cardinality(Held(e)')
    BY DEF CountInv, SlotCap, OrderConservation, MaxConcurrent
  <2>5. /\ Cardinality(Held(e)) + Cardinality(Pending(e)) <= MaxConcurrent(e)
        /\ submitted[e] = filled[e] + cancelled[e] + Cardinality(Pending(e))
        /\ filled[e] = trades[e] + Cardinality(Held(e))
    BY DEF CountInv, SlotCap, OrderConservation
  <2>6. CASE e = d
    <3> HIDE DEF waited
    <3> QED
      BY <1>1, <1>2, <1>3, <2>1, <2>3, <2>5, <2>6, BookSets, LimitsAreNat
  <2>7. CASE e # d
    BY <1>1, <1>2, <1>3, <2>1, <2>4, <2>5, <2>7
  <2> QED
    BY <2>6, <2>7
<1>5. CASE ~(waited >= CancelBars)
  <2>1. /\ order' = [order EXCEPT ![s] = [dir |-> d, waited |-> waited]]
        /\ cancelled' = cancelled
    BY <1>5 DEF Wait
  <2>2. \A e \in Dir : Pending(e)' = Pending(e)
    BY <1>2, <2>1 DEF Pending
  <2> QED
    BY <1>1, <1>3, <2>1, <2>2, SameBooks
<1> QED
  BY <1>4, <1>5

\* Booking an exit takes one symbol out of Held(d) and adds one trade.
LEMMA CloseCounts ==
  ASSUME ClaimInv, CountInv, NEW s \in Symbols, CloseOne(s)
  PROVE  CountInv'
<1> PICK d \in Dir : d = position[s].dir
  BY DEF ClaimInv, LoopsVisitClaims, CloseOne
<1>1. /\ position' = [position EXCEPT ![s] = [dir |-> "NONE", engaged |-> FALSE]]
      /\ trades' = [trades EXCEPT ![d] = @ + 1]
      /\ UNCHANGED <<order, submitted, filled, cancelled>>
  BY DEF CloseOne, NoPosition
<1>2. /\ d \in Dir /\ d # "NONE"
      /\ position \in [Symbols -> [dir: Side, engaged: BOOLEAN]]
      /\ filled \in [Dir -> Nat] /\ trades \in [Dir -> Nat]
  BY DEF ClaimInv, LoopsVisitClaims, CloseOne, TypeOK, Dir
<1>3. Held(d)' = Held(d) \ {s} /\ s \in Held(d)
  BY <1>1, <1>2 DEF Held
<1>4. Cardinality(Held(d)') = Cardinality(Held(d)) - 1
  BY <1>2, <1>3, BookSets, FS_RemoveElement
<1>5. /\ \A e \in Dir : e # d => Held(e)' = Held(e)
      /\ \A e \in Dir : Pending(e)' = Pending(e)
  BY <1>1, <1>2 DEF Held, Pending, Dir
<1> SUFFICES ASSUME NEW e \in Dir
    PROVE  /\ Cardinality(Held(e)') + Cardinality(Pending(e)') <= MaxConcurrent(e)
           /\ submitted'[e] = filled'[e] + cancelled'[e] + Cardinality(Pending(e)')
           /\ filled'[e] = trades'[e] + Cardinality(Held(e)')
  BY DEF CountInv, SlotCap, OrderConservation, MaxConcurrent
<1>6. /\ Cardinality(Held(e)) + Cardinality(Pending(e)) <= MaxConcurrent(e)
      /\ submitted[e] = filled[e] + cancelled[e] + Cardinality(Pending(e))
      /\ filled[e] = trades[e] + Cardinality(Held(e))
  BY DEF CountInv, SlotCap, OrderConservation
<1>7. CASE e = d
  <2>1. /\ trades'[e] = trades[e] + 1
        /\ UNCHANGED <<submitted, filled, cancelled>>
    BY <1>1, <1>2, <1>7
  <2>2. /\ Cardinality(Held(e)') = Cardinality(Held(e)) - 1
        /\ Pending(e)' = Pending(e)
    BY <1>4, <1>5, <1>7
  <2>3. trades[e] \in Nat /\ filled[e] \in Nat
    BY <1>2
  <2> QED
    BY <1>6, <2>1, <2>2, <2>3, BookSets, LimitsAreNat
<1>8. CASE e # d
  BY <1>1, <1>2, <1>5, <1>6, <1>8
<1> QED
  BY <1>7, <1>8

\* A submission adds at most the free slots to Pending(d): while SlotCap holds,
\* slots_free is not negative and the slice is the ordinary prefix.
LEMMA EnterCounts ==
  ASSUME ClaimInv, CountInv, NEW d \in Dir, Submit(d), Enter(d)
  PROVE  CountInv'
<1> PICK eligible, list, slice, sized :
      Places(d, eligible, list, slice, sized)
  BY DEF Enter
<1>1. UNCHANGED <<position, filled, cancelled, trades>>
  BY DEF Submit
<1>2. /\ order' = [s \in Symbols |->
                     IF s \in sized THEN [dir |-> d, waited |-> 0] ELSE order[s]]
      /\ submitted' = [submitted EXCEPT ![d] = @ + Cardinality(sized)]
  BY DEF Places, NewOrder
<1>3. /\ order \in [Symbols -> [dir: Side, waited: Nat]]
      /\ submitted \in [Dir -> Nat]
      /\ filled \in [Dir -> Nat] /\ cancelled \in [Dir -> Nat]
      /\ Evals(d) \subseteq Symbols
  BY DEF ClaimInv, TypeOK, Evals
<1>4. /\ eligible \subseteq Evals(d) /\ list \subseteq eligible
      /\ slice \subseteq list /\ sized \subseteq slice
  BY DEF Places, TradeableFrom
<1>5. \A s \in sized : s \in Symbols /\ order[s].dir = "NONE"
  BY <1>3, <1>4 DEF Evals
<1>6. /\ IsFiniteSet(sized) /\ IsFiniteSet(slice)
      /\ Cardinality(sized) \in Nat /\ Cardinality(slice) \in Nat
      /\ Cardinality(list) \in Nat
  BY <1>3, <1>4, CountIsNat
<1>7. Cardinality(sized) <= Cardinality(slice)
  BY <1>4, <1>6, FS_Subset
<1>8. /\ SlotsFree(d) \in Nat
      /\ SlotsFree(d) = MaxConcurrent(d) - Cardinality(Held(d))
                          - Cardinality(Pending(d))
  BY BookSets, LimitsAreNat DEF CountInv, SlotCap, SlotsFree
<1>9. Cardinality(slice) <= SlotsFree(d)
  <2>1. Cardinality(slice) = SliceLen(Cardinality(list), SlotsFree(d))
    BY DEF Places
  <2> QED
    BY <1>6, <1>8, <2>1 DEF SliceLen
<1>10. /\ Pending(d)' = Pending(d) \cup sized
       /\ Pending(d) \cap sized = {}
  BY <1>2, <1>5 DEF Pending, Dir
<1>11. Cardinality(Pending(d)') = Cardinality(Pending(d)) + Cardinality(sized)
  <2>1. Cardinality(Pending(d) \cap sized) = 0
    BY <1>10, FS_EmptySet
  <2>2. Cardinality(Pending(d) \cup sized) =
          Cardinality(Pending(d)) + Cardinality(sized)
            - Cardinality(Pending(d) \cap sized)
    BY <1>6, BookSets, FS_Union
  <2> QED
    BY <1>6, <1>10, <2>1, <2>2, BookSets
<1>12. /\ \A e \in Dir : e # d => Pending(e)' = Pending(e)
       /\ \A e \in Dir : Held(e)' = Held(e)
  BY <1>1, <1>2, <1>5 DEF Pending, Held, Dir
<1> SUFFICES ASSUME NEW e \in Dir
    PROVE  /\ Cardinality(Held(e)') + Cardinality(Pending(e)') <= MaxConcurrent(e)
           /\ submitted'[e] = filled'[e] + cancelled'[e] + Cardinality(Pending(e)')
           /\ filled'[e] = trades'[e] + Cardinality(Held(e)')
  BY DEF CountInv, SlotCap, OrderConservation, MaxConcurrent
<1>13. /\ Cardinality(Held(e)) + Cardinality(Pending(e)) <= MaxConcurrent(e)
       /\ submitted[e] = filled[e] + cancelled[e] + Cardinality(Pending(e))
       /\ filled[e] = trades[e] + Cardinality(Held(e))
  BY DEF CountInv, SlotCap, OrderConservation
<1>14. CASE e = d
  BY <1>1, <1>2, <1>3, <1>6, <1>7, <1>8, <1>9, <1>11, <1>12, <1>13, <1>14,
     BookSets, LimitsAreNat
<1>15. CASE e # d
  BY <1>1, <1>2, <1>3, <1>12, <1>13, <1>15
<1> QED
  BY <1>14, <1>15

-----------------------------------------------------------------------------
LEMMA InitCounts == Init => CountInv
<1> SUFFICES ASSUME Init PROVE CountInv
  OBVIOUS
<1>1. \A d \in Dir : Pending(d) = {} /\ Held(d) = {}
  BY DEF Init, Pending, Held, NoOrder, NoPosition, Dir
<1>2. \A d \in Dir : Cardinality(Pending(d)) = 0 /\ Cardinality(Held(d)) = 0
  BY <1>1, FS_EmptySet
<1> QED
  BY <1>2, LimitsAreNat DEF Init, CountInv, SlotCap, OrderConservation

LEMMA NextCounts ==
  ASSUME ClaimInv, CountInv, [Next]_vars
  PROVE  CountInv'
<1>1. CASE StartBar
  BY <1>1, SameBooks DEF StartBar, Opens, flowVars, Pending, Held
<1>2. ASSUME NEW s \in Symbols, FillOne(s) PROVE CountInv'
  <2>1. order[s].dir \in Dir
    BY <1>2 DEF ClaimInv, LoopsVisitClaims, FillOne
  <2> QED
    BY <1>2, <2>1, FillCounts, WaitCounts DEF FillOne
<1>3. CASE Manage
  <2>1. UNCHANGED <<order, submitted, filled, cancelled, trades>>
    BY <1>3 DEF Manage, flowVars
  <2>2. \A s \in Symbols : position'[s].dir = position[s].dir
    BY <1>3 DEF Manage, ClaimInv, TypeOK
  <2> QED
    BY <2>1, <2>2, SameBooks DEF Pending, Held
<1>4. ASSUME NEW s \in Symbols, CloseOne(s) PROVE CountInv'
  BY <1>4, CloseCounts
<1>5. CASE UpdateWatchlist
  BY <1>5, SameBooks DEF UpdateWatchlist, bookVars, flowVars, Pending, Held
<1>6. ASSUME NEW d \in Dir, Submit(d) PROVE CountInv'
  <2>1. CASE Turned(d)
    BY <1>6, <2>1, SameBooks DEF Submit, Turned, Pending, Held
  <2> QED
    BY <1>6, <2>1, EnterCounts DEF Submit
<1>7. CASE EndBar
  BY <1>7, SameBooks DEF EndBar, bookVars, flowVars, Pending, Held
<1>8. CASE Finished \/ UNCHANGED vars
  BY <1>8, SameBooks DEF Finished, vars, bookVars, flowVars, Pending, Held
<1> QED
  BY <1>1, <1>2, <1>3, <1>4, <1>5, <1>6, <1>7, <1>8 DEF Next

\* The two counting promises hold in every reachable state.
THEOREM CountInvariant == Spec => []CountInv
<1>1. Init => ClaimInv /\ CountInv
  BY InitClaim, InitCounts
<1>2. ClaimInv /\ CountInv /\ [Next]_vars => CountInv'
  BY NextCounts
<1> QED
  BY <1>1, <1>2, ClaimInvariant, PTL DEF Spec

\* A book never holds or awaits more symbols than it has slots.
THEOREM SlotCapAlways == Spec => []SlotCap
BY CountInvariant, PTL DEF CountInv

\* Every order submitted is filled, cancelled or waiting, and every fill is a
\* trade or an open position.
THEOREM ConservationAlways == Spec => []OrderConservation
BY CountInvariant, PTL DEF CountInv

-----------------------------------------------------------------------------
\* What the close loop has still to do of what Manage decided.
ToCloseInv ==
  phase = "close" =>
    \A s \in now.prints :
      /\ now.time = "flat" => position[s].dir = "NONE" \/ closing[s] # "none"
      /\ now.bias = "BULL" => position[s].dir # "SHORT" \/ closing[s] # "none"

ManagedInv == ToCloseInv /\ ManagedAway

LEMMA ManageDecides ==
  ASSUME TypeOK, Manage
  PROVE  ManagedInv'
<1> DEFINE judged == (Held("LONG") \cup Held("SHORT")) \cap now.prints
<1> PICK verdict \in [judged -> UNION {Verdicts(position[s]) : s \in judged}] :
      /\ \A s \in judged : verdict[s] \in Verdicts(position[s])
      /\ closing' = [s \in Symbols |->
                       IF s \in judged /\ verdict[s] \notin {"engage", "hold"}
                       THEN verdict[s] ELSE "none"]
      /\ position' = [s \in Symbols |->
                        IF s \in judged /\ verdict[s] = "engage"
                        THEN [position[s] EXCEPT !.engaged = TRUE]
                        ELSE position[s]]
  BY DEF Manage
<1>1. phase' = "close" /\ UNCHANGED now
  BY DEF Manage
<1>2. ASSUME NEW s \in now.prints
      PROVE  /\ s \in Symbols /\ position'[s].dir = position[s].dir
             /\ position[s].dir \in Side
             /\ s \in judged <=> position[s].dir # "NONE"
  BY <1>2 DEF TypeOK, Held, Side, Dir
<1>3. ASSUME NEW s \in now.prints, position[s].dir # "NONE",
             now.time = "flat" \/ (now.bias = "BULL" /\ position[s].dir = "SHORT")
      PROVE  closing'[s] # "none"
  <2>1. s \in judged /\ s \in Symbols
    BY <1>2, <1>3
  <2>2. verdict[s] \in Verdicts(position[s])
    BY <2>1
  <2>3. verdict[s] \notin {"engage", "hold", "none"}
    BY <1>3, <2>2 DEF Verdicts, StopReason
  <2>4. closing'[s] = verdict[s]
    BY <2>1, <2>3
  <2> QED
    BY <2>3, <2>4
<1> QED
  BY <1>1, <1>2, <1>3 DEF ManagedInv, ToCloseInv, ManagedAway

LEMMA ManagedStep ==
  ASSUME TypeOK, ManagedInv, [Next]_vars
  PROVE  ManagedInv'
<1> USE DEF ManagedInv, ToCloseInv, ManagedAway
<1>1. CASE StartBar
  BY <1>1 DEF StartBar
<1>2. ASSUME NEW s \in Symbols, FillOne(s) PROVE ManagedInv'
  BY <1>2 DEF FillOne
<1>3. CASE Manage
  BY <1>3, ManageDecides
<1>4. ASSUME NEW s \in Symbols, CloseOne(s) PROVE ManagedInv'
  BY <1>4 DEF CloseOne, TypeOK, NoPosition
<1>5. CASE UpdateWatchlist
  BY <1>5 DEF UpdateWatchlist, bookVars, TypeOK
<1>6. ASSUME NEW d \in Dir, Submit(d) PROVE ManagedInv'
  BY <1>6 DEF Submit, SubmitPhase, NextPhase
<1>7. CASE EndBar
  BY <1>7 DEF EndBar
<1>8. CASE UNCHANGED vars
  BY <1>8 DEF vars, bookVars
<1> QED
  BY <1>1, <1>2, <1>3, <1>4, <1>5, <1>6, <1>7, <1>8 DEF Next, Finished

\* After the close loop of a bar, no symbol that printed it at or after 15:55 is held,
\* and none is held short under a BULL bias, whatever filled on that bar.
THEOREM ManagedAwayAlways == Spec => []ManagedAway
<1>1. Init => ManagedInv
  BY DEF Init, ManagedInv, ToCloseInv, ManagedAway
<1>2. TypeOK /\ ManagedInv /\ [Next]_vars => ManagedInv'
  BY ManagedStep
<1> QED
  BY <1>1, <1>2, TypeCorrect, PTL DEF Spec, ManagedInv

-----------------------------------------------------------------------------
\* The tally of a book is empty until its submission.
TallyInv ==
  /\ phase \notin {"submit_SHORT", "end_bar"} => tally["LONG"] = NoTally
  /\ phase # "end_bar" => tally["SHORT"] = NoTally

LEMMA TallyStep ==
  ASSUME TypeOK, TallyInv, [Next]_vars
  PROVE  TallyInv'
<1> USE DEF TallyInv
<1>1. CASE StartBar
  BY <1>1 DEF StartBar
<1>2. ASSUME NEW s \in Symbols, FillOne(s) \/ CloseOne(s) PROVE TallyInv'
  BY <1>2 DEF FillOne, CloseOne
<1>3. CASE Manage \/ UpdateWatchlist
  BY <1>3 DEF Manage, UpdateWatchlist
<1>4. ASSUME NEW d \in Dir, Submit(d) PROVE TallyInv'
  BY <1>4 DEF Submit, SubmitPhase, NextPhase, Turned, Enter, Places, Dir, TypeOK
<1>5. CASE EndBar
  BY <1>5 DEF EndBar, Dir
<1>6. CASE UNCHANGED vars
  BY <1>6 DEF vars
<1> QED
  BY <1>1, <1>2, <1>3, <1>4, <1>5, <1>6 DEF Next, Finished

LEMMA RestOfSet ==
  ASSUME NEW S, NEW T \in SUBSET S, S \subseteq Symbols
  PROVE  /\ Cardinality(S \ T) = Cardinality(S) - Cardinality(T)
         /\ Cardinality(S) \in Nat /\ Cardinality(T) \in Nat
         /\ Cardinality(T) <= Cardinality(S)
<1>1. /\ IsFiniteSet(S) /\ Cardinality(S) \in Nat
      /\ IsFiniteSet(T) /\ Cardinality(T) \in Nat
      /\ IsFiniteSet(S \ T) /\ Cardinality(S \ T) \in Nat
  BY CountIsNat
<1>2. (S \ T) \cup T = S /\ (S \ T) \cap T = {}
  OBVIOUS
<1>3. Cardinality((S \ T) \cup T) =
        Cardinality(S \ T) + Cardinality(T) - Cardinality((S \ T) \cap T)
  BY <1>1, FS_Union
<1>4. Cardinality((S \ T) \cap T) = 0
  BY <1>2, FS_EmptySet
<1> QED
  BY <1>1, <1>2, <1>3, <1>4

\* A book turned away: one counter takes every evaluated symbol.
LEMMA TurnedAccounts ==
  ASSUME TypeOK, NEW d \in Dir, tally[d] = NoTally, Turned(d)
  PROVE  TallySum(tally'[d]) = Cardinality(Evals(d))
<1>1. Evals(d) \subseteq Symbols
  BY DEF Evals, TypeOK
<1>2. Cardinality(Evals(d)) \in Nat
  BY <1>1, CountIsNat
<1>3. tally'[d] = [NoTally EXCEPT ![BlockedBy(d)] = Cardinality(Evals(d))]
  BY DEF Turned, TypeOK
<1>4. BlockedBy(d) \in {"window", "halt", "bias"}
  BY DEF BlockedBy
<1> DEFINE n == Cardinality(Evals(d))
<1> HIDE DEF n
<1>5. tally'[d] = [NoTally EXCEPT ![BlockedBy(d)] = n] /\ n \in Nat
  BY <1>2, <1>3 DEF n
<1>6. TallySum(tally'[d]) = n
  BY <1>4, <1>5 DEF TallySum, NoTally, Outcomes
<1> QED
  BY <1>6 DEF n

\* A book let in: each stage counts what it drops.
LEMMA EnterAccounts ==
  ASSUME TypeOK, SlotCap, NEW d \in Dir, Enter(d)
  PROVE  TallySum(tally'[d]) = Cardinality(Evals(d))
<1> PICK eligible \in SUBSET (Evals(d) \ Barred(d)) :
      \E list \in SUBSET eligible :
      \E slice \in SUBSET list :
      \E sized \in SUBSET slice :
        Places(d, eligible, list, slice, sized)
  BY DEF Enter
<1> PICK list \in SUBSET eligible :
      \E slice \in SUBSET list :
      \E sized \in SUBSET slice :
        Places(d, eligible, list, slice, sized)
  OBVIOUS
<1> PICK slice \in SUBSET list :
      \E sized \in SUBSET slice :
        Places(d, eligible, list, slice, sized)
  OBVIOUS
<1> PICK sized \in SUBSET slice : Places(d, eligible, list, slice, sized)
  OBVIOUS
<1> DEFINE evals == Evals(d)
           barred == Barred(d)
           slots == SlotsFree(d)
           nEvals == Cardinality(evals)
           nBarred == Cardinality(barred)
           nEligible == Cardinality(eligible)
           nList == Cardinality(list)
           nSlice == Cardinality(slice)
           nSized == Cardinality(sized)
           over == nList - (IF slots >= 0 THEN slots ELSE 0)
<1>1. evals \subseteq Symbols /\ barred \subseteq evals
  BY DEF Evals, Barred, TypeOK
<1>2. /\ Cardinality(evals \ barred) = nEvals - nBarred
      /\ nEvals \in Nat /\ nBarred \in Nat
  BY <1>1, RestOfSet
<1>3. /\ Cardinality((evals \ barred) \ eligible) = Cardinality(evals \ barred) - nEligible
      /\ nEligible \in Nat
  BY <1>1, RestOfSet
<1>4. nList \in Nat /\ nSlice \in Nat /\ nSized \in Nat
  BY <1>1, CountIsNat
<1>5. slots \in Int /\ slots >= 0
  BY LimitsAreNat, CountIsNat DEF SlotsFree, SlotCap, Held, Pending
<1>6. nSlice = IF nList <= slots THEN nList ELSE slots
  BY <1>5 DEF Places, SliceLen
<1>7. /\ tally'[d]["window"] = 0 /\ tally'[d]["halt"] = 0 /\ tally'[d]["bias"] = 0
      /\ tally'[d]["lockout"] = nBarred
      /\ tally'[d]["quality"] = Cardinality((evals \ barred) \ eligible)
      /\ tally'[d]["ranking"] = nEligible - nList
      /\ tally'[d]["slots"] = IF over >= 0 THEN over ELSE 0
      /\ tally'[d]["sizing"] = nSlice - nSized
      /\ tally'[d]["submitted"] = nSized
  BY DEF Places, TypeOK, Outcomes
<1> DEFINE left == Cardinality((evals \ barred) \ eligible)
           t == tally'[d]
<1>8. left = nEvals - nBarred - nEligible
  BY <1>2, <1>3
<1> HIDE DEF nEvals, nBarred, nEligible, nList, nSlice, nSized, left, slots, t
<1>9. TallySum(t) = nEvals
  BY <1>2, <1>3, <1>4, <1>5, <1>6, <1>7, <1>8 DEF TallySum, t, left
<1> QED
  BY <1>9 DEF t, nEvals

LEMMA SubmitAccounts ==
  ASSUME TypeOK, SlotCap, TallyInv, [Next]_vars, NEW d \in Dir,
         phase = SubmitPhase(d), phase' # phase
  PROVE  TallySum(tally'[d]) = Cardinality(Evals(d))
<1>1. Submit(d)
  BY DEF Next, StartBar, FillOne, Manage, CloseOne, UpdateWatchlist, EndBar, Finished,
         Submit, SubmitPhase, Dir, vars
<1>2. tally[d] = NoTally
  BY DEF TallyInv, SubmitPhase, Dir
<1> QED
  BY <1>1, <1>2, TurnedAccounts, EnterAccounts DEF Submit

\* On every bar the eval_* counters and the submitted orders of a book add up to
\* the symbols it evaluated, though each is computed by a subtraction of its own;
\* the slice takes no negative bound, because the slots are never overdrawn.
THEOREM EvalsAccountedAlways == Spec => EvalsAccounted
<1>1. Init => TallyInv
  BY DEF Init, TallyInv, Dir
<1>2. TypeOK /\ TallyInv /\ [Next]_vars => TallyInv'
  BY TallyStep
<1>3. TypeOK /\ SlotCap /\ TallyInv /\ [Next]_vars =>
        [ \A d \in Dir : (phase = SubmitPhase(d) /\ phase' # phase)
            => TallySum(tally'[d]) = Cardinality(Evals(d)) ]_vars
  BY SubmitAccounts
<1> QED
  BY <1>1, <1>2, <1>3, TypeCorrect, SlotCapAlways, PTL DEF Spec, EvalsAccounted

-----------------------------------------------------------------------------
LEMMA OrderLeaves ==
  ASSUME TypeOK, [Next]_vars, NEW s \in Symbols,
         order[s].dir # "NONE", order'[s] # order[s]
  PROVE  /\ phase = "fill"
         /\ \/ order'[s] = [order[s] EXCEPT !.waited = @ + 1]
            \/ order'[s] = NoOrder /\ position'[s].dir = order[s].dir
            \/ order'[s] = NoOrder /\ order[s].waited + 1 >= CancelBars
<1>1. ASSUME NEW t \in Symbols, FillOne(t)
      PROVE  /\ phase = "fill" /\ t = s
             /\ Fill(s) \/ Wait(s)
  BY <1>1 DEF FillOne, Fill, Wait, TypeOK
<1>2. ASSUME NEW d \in Dir, Submit(d)
      PROVE  FALSE
  <2>1. Enter(d)
    BY <1>2 DEF Submit, Turned
  <2>2. PICK sized \in SUBSET Evals(d) :
          order' = [t \in Symbols |-> IF t \in sized THEN NewOrder(d) ELSE order[t]]
    BY <2>1 DEF Enter, Places
  <2> QED
    BY <2>2 DEF Evals
<1>3. \E t \in Symbols : FillOne(t)
  BY <1>2 DEF Next, StartBar, Manage, CloseOne, UpdateWatchlist, EndBar, Finished,
              bookVars, vars
<1>4. order[s] \in [dir: Side, waited: Nat]
  BY DEF TypeOK
<1>5. CASE Fill(s)
  BY <1>1, <1>3, <1>5 DEF Fill, TypeOK, NewPosition
<1>6. CASE Wait(s)
  BY <1>1, <1>3, <1>4, <1>6 DEF Wait, TypeOK
<1> QED
  BY <1>1, <1>3, <1>5, <1>6

\* An order that waits leaves the shared pending dict only by its fill or by its
\* cancellation: neither book's submission drops or replaces one of the other.
THEOREM OrdersSurviveAlways == Spec => OrdersSurviveSubmission
<1>1. TypeOK /\ [Next]_vars =>
        [ \A s \in Symbols : (order[s].dir # "NONE" /\ order'[s] # order[s])
            => /\ phase = "fill"
               /\ \/ order'[s] = [order[s] EXCEPT !.waited = @ + 1]
                  \/ order'[s] = NoOrder /\ position'[s].dir = order[s].dir
                  \/ order'[s] = NoOrder /\ order[s].waited + 1 >= CancelBars ]_vars
  BY OrderLeaves
<1> QED
  BY <1>1, TypeCorrect, PTL DEF Spec, OrdersSurviveSubmission


-----------------------------------------------------------------------------
\* The engine.  The short book is never touched while shorts are off.
OffBookIdle ==
  \A d \in Dir : d \notin Books => watch[d] = [s \in Symbols |-> Unwatched]

\* Without a bar a symbol falls to IDLE: it has no score to hold on.
LEMMA NoBarNoSignal ==
  ASSUME NEW w, NEW biasOk
  PROVE  /\ Observe(w, NoBar).st = "IDLE"
         /\ Triggered(Observe(w, NoBar), NoBar, biasOk) = Observe(w, NoBar)
<1>1. \A streak : ~Holds(NoBar, streak)
  BY DEF Holds, NoBar
<1>2. \A st : NextState(st, NoBar, Holds(NoBar, StreakAfter(w, NoBar))) = "IDLE"
  BY <1>1 DEF NextState, NoBar
<1>3. Observe(w, NoBar).st = "IDLE"
  BY <1>2 DEF Observe
<1>4. TriggerOutcome(Observe(w, NoBar), NoBar, biasOk) = "untouched"
  BY <1>3 DEF TriggerOutcome
<1> QED
  BY <1>3, <1>4 DEF Triggered

\* The watchlist loop is a step of the abstract watchlist.
LEMMA WatchTheBarUpdates ==
  ASSUME OffBookIdle, WatchTheBar
  PROVE  UpdateWatchlist /\ OffBookIdle'
<1> PICK trigger \in Books \cup {"NONE"}, readings \in BarReadings :
      watch' = [d \in Dir |-> [s \in Symbols |->
                  AfterBar(d, s, IF d \in Books THEN readings[d][s] ELSE NoBar,
                           trigger)]]
  BY DEF WatchTheBar
<1>1. signal' = [d \in Dir |-> {s \in Symbols : watch'[d][s].st = "ENTRY_EVAL"}]
  BY DEF WatchTheBar
<1>2. ASSUME NEW d \in Dir, d \notin Books
      PROVE  watch'[d] = [s \in Symbols |-> Unwatched] /\ signal'[d] = {}
  <2>1. \A s \in Symbols : watch'[d][s] = watch[d][s]
    BY <1>2 DEF AfterBar
  <2>2. watch'[d] = [s \in Symbols |-> watch'[d][s]]
    OBVIOUS
  <2>3. watch'[d] = [s \in Symbols |-> Unwatched]
    BY <1>2, <2>1, <2>2 DEF OffBookIdle
  <2> QED
    BY <1>1, <2>3 DEF Unwatched
<1>3. ASSUME NEW d \in Books, NEW s \in Symbols, s \notin now.prints
      PROVE  watch'[d][s].st = "IDLE"
  <2>1. d \in Dir /\ readings[d][s] = NoBar
    BY <1>3 DEF Books, Dir, BarReadings
  <2>2. watch'[d][s] = AfterBar(d, s, NoBar, trigger)
    BY <2>1
  <2>3. AfterBar(d, s, NoBar, trigger) = Observe(watch[d][s], NoBar)
    BY NoBarNoSignal DEF AfterBar
  <2> QED
    BY <2>2, <2>3, NoBarNoSignal
<1>4. \A d \in Dir : signal'[d] \subseteq now.prints
  BY <1>1, <1>2, <1>3
<1>5. signal' \in [Dir -> SUBSET now.prints]
  BY <1>1, <1>4
<1>6. ~ShortsEnabled => signal'["SHORT"] = {}
  BY <1>2 DEF Books, Dir
<1>7. UpdateWatchlist
  BY <1>5, <1>6 DEF WatchTheBar, UpdateWatchlist
<1> QED
  BY <1>2, <1>7 DEF OffBookIdle, Books

LEMMA StartBarKeepsOffBook ==
  ASSUME OffBookIdle, EngineStartBar
  PROVE  OffBookIdle'
<1> SUFFICES ASSUME NEW d \in Dir, d \notin Books
    PROVE  watch'[d] = [s \in Symbols |-> Unwatched]
  BY DEF OffBookIdle, Books
<1>1. watch[d] = [s \in Symbols |-> Unwatched]
  BY DEF OffBookIdle
<1>2. SessionOpen(Unwatched) = Unwatched
  BY DEF SessionOpen, Unwatched
<1> QED
  BY <1>1, <1>2 DEF EngineStartBar

\* Every step of the engine is a step of the order book, or leaves it alone.
LEMMA EngineStep ==
  ASSUME OffBookIdle, [EngineNext]_engineVars
  PROVE  [Next]_vars /\ OffBookIdle'
<1>1. CASE EngineStartBar
  BY <1>1, StartBarKeepsOffBook DEF EngineStartBar, Next
<1>2. CASE WatchTheBar
  BY <1>2, WatchTheBarUpdates DEF Next
<1>3. ASSUME Next, UNCHANGED watch PROVE [Next]_vars /\ OffBookIdle'
  BY <1>3 DEF OffBookIdle, Books
<1>4. ASSUME UNCHANGED engineVars PROVE [Next]_vars /\ OffBookIdle'
  BY <1>4 DEF OffBookIdle, Books, engineVars
<1>5. EngineNext => EngineStartBar \/ WatchTheBar \/ (Next /\ UNCHANGED watch)
  BY DEF EngineNext, Next
<1> QED
  BY <1>1, <1>2, <1>3, <1>4, <1>5

\* The engine implements the order book: whatever the mode, its watchlist only
\* signals symbols that printed, and no shorts while they are off.
THEOREM EngineImplementsOrderBook == EngineSpec => ImplementsOrderBook
<1>1. EngineInit => Init /\ OffBookIdle
  BY DEF EngineInit, OffBookIdle
<1>2. OffBookIdle /\ [EngineNext]_engineVars => [Next]_vars /\ OffBookIdle'
  BY EngineStep
<1> QED
  BY <1>1, <1>2, PTL DEF EngineSpec, ImplementsOrderBook, Spec

\* So the engine never claims a symbol twice, overdraws its slots, exceeds the
\* per-day cap, re-enters a symbol stopped out, loses an order or a trade, drops one
\* book's order in the other's submission, holds on to a symbol past its flat time or
\* evaluates a symbol that no counter of the funnel has.
THEOREM EngineIsSafe ==
  EngineSpec => /\ [](/\ OneClaimPerSymbol /\ EntryCap /\ LockoutHolds
                      /\ SlotCap /\ OrderConservation /\ ManagedAway)
                /\ EvalsAccounted /\ OrdersSurviveSubmission
<1>1. Spec => [](ClaimInv /\ CountInv /\ ManagedAway)
  BY ClaimInvariant, CountInvariant, ManagedAwayAlways, PTL
<1>2. ClaimInv /\ CountInv /\ ManagedAway =>
        /\ OneClaimPerSymbol /\ EntryCap /\ LockoutHolds
        /\ SlotCap /\ OrderConservation /\ ManagedAway
  BY DEF ClaimInv, CountInv
<1>3. EngineSpec => Spec
  BY EngineImplementsOrderBook DEF ImplementsOrderBook
<1>4. EngineSpec => EvalsAccounted /\ OrdersSurviveSubmission
  BY <1>3, EvalsAccountedAlways, OrdersSurviveAlways
<1> QED
  BY <1>1, <1>2, <1>3, <1>4, PTL

-----------------------------------------------------------------------------
\* A symbol is armed only on the way of a dip, and a signal that came the way of the
\* trigger came on a bar whose bias holds for its book.
ArmedByDip ==
  \A d \in Dir, s \in Symbols : watch[d][s].st = "DIP_ARMED" => watch[d][s].path = "B"

SignalsPermitted ==
  phase \in {"submit_LONG", "submit_SHORT"} =>
    \A d \in Dir : \A s \in signal[d] : watch[d][s].path = "A" => d \in now.ok

BypassInv == WatchTypeOK /\ ArmedByDip /\ SignalsPermitted

LEMMA ObserveKeeps ==
  ASSUME NEW w \in Watch, w.st = "DIP_ARMED" => w.path = "B", NEW r \in Readings
  PROVE  /\ Observe(w, r) \in Watch
         /\ Observe(w, r).st \in {"DIP_ARMED", "ENTRY_EVAL"} => Observe(w, r).path = "B"
<1> DEFINE streak == StreakAfter(w, r)
           holds == Holds(r, streak)
           st == NextState(w.st, r, holds)
<1>1. streak \in Nat
  BY DEF StreakAfter, Watch
<1>2. holds \in BOOLEAN
  BY WatchlistConstants DEF Holds, Readings
<1>3. /\ st \in WatchStates
      /\ st = "DIP_ARMED" => w.st = "QUALIFIED"
      /\ st = "ENTRY_EVAL" => w.st = "DIP_ARMED"
  <2> HIDE DEF holds
  <2> QED
    BY <1>2 DEF NextState, Watch, WatchStates
<1>4. Observe(w, r) =
        [st |-> st, streak |-> streak,
         path |-> IF w.st = "QUALIFIED" /\ st = "DIP_ARMED" THEN "B" ELSE w.path]
  BY DEF Observe
<1> HIDE DEF streak, st
<1> QED
  BY <1>1, <1>3, <1>4 DEF Watch, Paths

LEMMA TriggeredKeeps ==
  ASSUME NEW w \in Watch, NEW r \in Readings, NEW biasOk \in BOOLEAN,
         w.st \in {"DIP_ARMED", "ENTRY_EVAL"} => w.path = "B"
  PROVE  LET t == Triggered(w, r, biasOk) IN
         /\ t \in Watch
         /\ t.st = "DIP_ARMED" => t.path = "B"
         /\ t.st = "ENTRY_EVAL" /\ t.path = "A" => biasOk
<1>1. CASE TriggerOutcome(w, r, biasOk) = "bypass"
  <2>1. biasOk
    BY <1>1 DEF TriggerOutcome
  <2>2. Triggered(w, r, biasOk) = [w EXCEPT !.st = "ENTRY_EVAL", !.path = "A"]
    BY <1>1 DEF Triggered
  <2> QED
    BY <2>1, <2>2 DEF Watch, WatchStates, Paths
<1>2. CASE TriggerOutcome(w, r, biasOk) # "bypass"
  BY <1>2 DEF Triggered
<1> QED
  BY <1>1, <1>2

LEMMA NoBarIsReading == NoBar \in Readings
BY DEF NoBar, Readings, Scores

\* What the loops of step 3 leave of one symbol of one book.
LEMMA AfterBarKeeps ==
  ASSUME BypassInv, OffBookIdle, NEW d \in Dir, NEW s \in Symbols,
         NEW r \in Readings, NEW trigger
  PROVE  LET w == AfterBar(d, s, r, trigger) IN
         /\ w \in Watch
         /\ w.st = "DIP_ARMED" => w.path = "B"
         /\ w.st = "ENTRY_EVAL" /\ w.path = "A" => d \in now.ok
<1>1. watch[d][s] \in Watch /\ (watch[d][s].st = "DIP_ARMED" => watch[d][s].path = "B")
  BY DEF BypassInv, WatchTypeOK, ArmedByDip
<1>2. CASE d \notin Books
  BY <1>1, <1>2 DEF AfterBar, OffBookIdle, Unwatched
<1> DEFINE seen == Observe(watch[d][s], r)
<1>3. /\ seen \in Watch
      /\ seen.st \in {"DIP_ARMED", "ENTRY_EVAL"} => seen.path = "B"
  BY <1>1, ObserveKeeps
<1> HIDE DEF seen
<1>4. CASE d \in Books /\ trigger = d
  <2>1. AfterBar(d, s, r, trigger) = Triggered(seen, r, d \in now.ok)
    BY <1>4 DEF AfterBar, seen
  <2>2. (d \in now.ok) \in BOOLEAN
    OBVIOUS
  <2> QED
    BY <1>3, <2>1, <2>2, TriggeredKeeps
<1>5. CASE d \in Books /\ trigger # d
  <2>1. AfterBar(d, s, r, trigger) = seen
    BY <1>5 DEF AfterBar, seen
  <2> QED
    BY <1>3, <2>1
<1> QED
  BY <1>2, <1>4, <1>5

LEMMA BypassStep ==
  ASSUME BypassInv, OffBookIdle, [EngineNext]_engineVars
  PROVE  BypassInv'
<1> USE DEF BypassInv
<1>1. CASE EngineStartBar
  <2>1. phase' = "fill"
    BY <1>1 DEF EngineStartBar, StartBar
  <2>2. ASSUME NEW d \in Dir, NEW s \in Symbols
        PROVE  /\ SessionOpen(watch[d][s]) \in Watch
               /\ SessionOpen(watch[d][s]).st = "DIP_ARMED" =>
                     SessionOpen(watch[d][s]).path = "B"
    BY <2>2 DEF SessionOpen, WatchTypeOK, ArmedByDip, Watch, WatchStates
  <2>3. WatchTypeOK' /\ ArmedByDip'
    BY <1>1, <2>2 DEF EngineStartBar, WatchTypeOK, ArmedByDip
  <2> QED
    BY <2>1, <2>3 DEF SignalsPermitted
<1>2. CASE WatchTheBar
  <2> PICK trigger \in Books \cup {"NONE"}, readings \in BarReadings :
        watch' = [d \in Dir |-> [s \in Symbols |->
                    AfterBar(d, s, IF d \in Books THEN readings[d][s] ELSE NoBar,
                             trigger)]]
    BY <1>2 DEF WatchTheBar
  <2>1. ASSUME NEW d \in Dir, NEW s \in Symbols
        PROVE  /\ watch'[d][s] \in Watch
               /\ watch'[d][s].st = "DIP_ARMED" => watch'[d][s].path = "B"
               /\ watch'[d][s].st = "ENTRY_EVAL" /\ watch'[d][s].path = "A" => d \in now.ok
    <3> DEFINE r == IF d \in Books THEN readings[d][s] ELSE NoBar
    <3>1. r \in Readings
      BY NoBarIsReading DEF BarReadings
    <3> HIDE DEF r
    <3>2. watch'[d][s] = AfterBar(d, s, r, trigger)
      BY DEF r
    <3> QED
      BY <3>1, <3>2, AfterBarKeeps
  <2>2. /\ signal' = [d \in Dir |-> {s \in Symbols : watch'[d][s].st = "ENTRY_EVAL"}]
        /\ UNCHANGED now
    BY <1>2 DEF WatchTheBar
  <2>3. watch' \in [Dir -> [Symbols -> Watch]]
    BY <2>1
  <2> QED
    BY <2>1, <2>2, <2>3 DEF WatchTypeOK, ArmedByDip, SignalsPermitted
<1>3. ASSUME UNCHANGED watch,
             phase' \in {"submit_LONG", "submit_SHORT"} =>
               /\ phase \in {"submit_LONG", "submit_SHORT"}
               /\ UNCHANGED <<now, signal>>
      PROVE  BypassInv'
  BY <1>3 DEF WatchTypeOK, ArmedByDip, SignalsPermitted
<1>4. ASSUME NEW s \in Symbols, FillOne(s) \/ CloseOne(s), UNCHANGED watch
      PROVE  BypassInv'
  BY <1>3, <1>4 DEF FillOne, CloseOne
<1>5. CASE (Manage \/ EndBar \/ Finished) /\ UNCHANGED watch
  BY <1>3, <1>5 DEF Manage, EndBar, Finished, vars
<1>6. ASSUME NEW d \in Dir, Submit(d), UNCHANGED watch
      PROVE  BypassInv'
  BY <1>3, <1>6 DEF Submit, SubmitPhase, NextPhase
<1>7. CASE UNCHANGED engineVars
  BY <1>3, <1>7 DEF engineVars, vars
<1> QED
  BY <1>1, <1>2, <1>4, <1>5, <1>6, <1>7 DEF EngineNext

\* The bias check of step 4 never turns a trigger's signal away: a symbol is evaluated
\* by way of the trigger only on a bar whose bias hold the trigger loop has asked, and
\* one evaluated after a dip carries the dip's path whatever way it took before.
THEOREM TriggersPermittedAlways == EngineSpec => []TriggerSignalsArePermitted
<1>1. EngineInit => OffBookIdle /\ BypassInv
  BY DEF EngineInit, Init, OffBookIdle, BypassInv, WatchTypeOK, ArmedByDip, SignalsPermitted,
         Unwatched, Watch, WatchStates, Paths
<1>2. OffBookIdle /\ BypassInv /\ [EngineNext]_engineVars => OffBookIdle' /\ BypassInv'
  BY EngineStep, BypassStep
<1>3. BypassInv => TriggerSignalsArePermitted
  BY DEF BypassInv, SignalsPermitted, TriggerSignalsArePermitted, SubmitPhase, Dir
<1> QED
  BY <1>1, <1>2, <1>3, PTL DEF EngineSpec
=============================================================================

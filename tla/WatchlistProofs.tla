--------------------------- MODULE WatchlistProofs ---------------------------
(***************************************************************************)
(* Proofs about Watchlist, for any symbols, any grace and any length of    *)
(* the calendar.  ListInv says of every phase what CandidatesGrounded says *)
(* of the evaluation: what a symbol on the list rests on, that its         *)
(* gate_fail_streak never runs behind the gates it stands for, and that an *)
(* armed dip already carries the path of a dip.                            *)
(***************************************************************************)
EXTENDS Watchlist, FiniteSetTheorems, TLAPS

Listed(s) == watch[s].st # "IDLE"

\* What the hold of the last bar has seen to.
Grounded(s) ==
  /\ reading[s].score # "below"
  /\ mode = "strict" => reading[s].gate
  /\ mode = "d1_session" => reading[s].hold
  /\ mode = "grace" => sinceGreen[s] <= GraceBars

SymbolInv(s) ==
  /\ watch[s].st = "DIP_ARMED" => watch[s].path = "B"
  /\ (mode = "grace" /\ Listed(s)) => sinceGreen[s] <= watch[s].streak
  /\ (mode = "d1_session" /\ Listed(s)) => s \in admitted
  /\ phase \in {"trigger", "evaluate"} =>
       /\ Listed(s) => Grounded(s)
       /\ (watch[s].st = "ENTRY_EVAL" /\ watch[s].path = "A") => reading[s].gate

SymbolsInv == \A s \in Symbols : SymbolInv(s)

ListInv == TypeOK /\ SymbolsInv /\ TriggerFunnel /\ DipFunnel

-----------------------------------------------------------------------------
LEMMA SubsetsAreFinite ==
  ASSUME NEW S \in SUBSET Symbols
  PROVE  IsFiniteSet(S) /\ Cardinality(S) \in Nat
  BY WatchlistBounds, FS_Subset, FS_CardinalityType

LEMMA SmallerSubset ==
  ASSUME NEW T \in SUBSET Symbols, NEW S \in SUBSET T
  PROVE  Cardinality(S) <= Cardinality(T)
  BY SubsetsAreFinite, FS_Subset

LEMMA AtMostTheSum ==
  ASSUME NEW S \in SUBSET Symbols, NEW T \in SUBSET Symbols
  PROVE  Cardinality(S \cup T) <= Cardinality(S) + Cardinality(T)
<1>1. /\ IsFiniteSet(S) /\ IsFiniteSet(T)
      /\ Cardinality(S) \in Nat /\ Cardinality(T) \in Nat
      /\ Cardinality(S \cap T) \in Nat
  BY SubsetsAreFinite
<1>2. Cardinality(S \cup T) = Cardinality(S) + Cardinality(T) - Cardinality(S \cap T)
  BY <1>1, FS_Union
<1>. QED  BY <1>1, <1>2

LEMMA DisjointSum ==
  ASSUME NEW S \in SUBSET Symbols, NEW T \in SUBSET Symbols, S \cap T = {}
  PROVE  Cardinality(S \cup T) = Cardinality(S) + Cardinality(T)
<1>1. /\ IsFiniteSet(S) /\ IsFiniteSet(T)
      /\ Cardinality(S) \in Nat /\ Cardinality(T) \in Nat
  BY SubsetsAreFinite
<1>2. Cardinality(S \cup T) = Cardinality(S) + Cardinality(T) - Cardinality(S \cap T)
  BY <1>1, FS_Union
<1>3. Cardinality(S \cap T) = 0
  BY FS_EmptySet
<1>. QED  BY <1>1, <1>2, <1>3

-----------------------------------------------------------------------------
\* One symbol's bar: it enters the list on green gates and a list score, stays on a
\* hold, is armed from QUALIFIED and evaluated from DIP_ARMED.
LEMMA ObserveSteps ==
  ASSUME NEW w \in Watch, NEW r \in Readings, mode \in {"strict", "d1_session", "grace"}
  PROVE  LET v == Observe(w, r) IN
         /\ v \in Watch
         /\ (w.st = "IDLE" /\ v.st # "IDLE") =>
              v.st = "QUALIFIED" /\ r.gate /\ r.score = "list"
         /\ (w.st # "IDLE" /\ v.st # "IDLE") => Holds(r, v.streak)
         /\ v.st = "DIP_ARMED" => w.st = "QUALIFIED" /\ v.path = "B"
         /\ v.st = "ENTRY_EVAL" => w.st = "DIP_ARMED" /\ v.path = w.path
         /\ mode = "grace" => v.streak = (IF r.gate THEN 0 ELSE w.streak + 1)
<1>. DEFINE v == Observe(w, r)
<1>1. /\ v.streak = StreakAfter(w, r)
      /\ v.st = NextState(w.st, r, Holds(r, v.streak))
      /\ v.path = IF w.st = "QUALIFIED" /\ v.st = "DIP_ARMED" THEN "B" ELSE w.path
      /\ v = [st |-> v.st, streak |-> v.streak, path |-> v.path]
  BY DEF Observe
<1>2. /\ w.st \in WatchStates /\ w.streak \in Nat /\ w.path \in Paths
      /\ r.gate \in BOOLEAN /\ r.score \in Scores
  BY DEF Watch, Readings
<1>3. v.streak \in Nat
  BY <1>1, <1>2 DEF StreakAfter
<1>4. Holds(r, v.streak) \in BOOLEAN
  BY <1>2 DEF Holds
<1>. HIDE DEF v
<1>5. /\ v.st \in WatchStates
      /\ (w.st = "IDLE" /\ v.st # "IDLE") =>
           v.st = "QUALIFIED" /\ r.gate /\ r.score = "list"
      /\ (w.st # "IDLE" /\ v.st # "IDLE") => Holds(r, v.streak)
      /\ v.st = "DIP_ARMED" => w.st = "QUALIFIED"
      /\ v.st = "ENTRY_EVAL" => w.st = "DIP_ARMED"
  BY <1>1, <1>2, <1>4 DEF NextState, WatchStates
<1>6. v \in Watch
  BY <1>1, <1>2, <1>3, <1>5 DEF Watch, Paths
<1>7. mode = "grace" => v.streak = (IF r.gate THEN 0 ELSE w.streak + 1)
  BY <1>1 DEF StreakAfter
<1>. QED  BY <1>1, <1>5, <1>6, <1>7 DEF v

LEMMA NoBarIsAReading == NoBar \in Readings
  BY DEF NoBar, Readings, Scores

-----------------------------------------------------------------------------
LEMMA InitList == Init => ListInv
<1>. SUFFICES ASSUME Init PROVE ListInv
  OBVIOUS
<1>1. Unwatched \in Watch /\ NoBar \in Readings
  BY NoBarIsAReading DEF Unwatched, Watch, WatchStates, Paths
<1>2. TypeOK
  BY <1>1, WatchlistBounds DEF Init, TypeOK
<1>3. SymbolsInv
  BY DEF Init, SymbolsInv, SymbolInv, Listed, Unwatched
<1>4. TriggerFunnel
  BY DEF Init, TriggerFunnel
<1>5. In("DIP_ARMED") = {} /\ Symbols \ In("IDLE") = {}
  BY DEF Init, In, Unwatched
<1>6. Cardinality({}) = 0
  BY FS_EmptySet
<1>7. DipFunnel
  BY <1>5, <1>6 DEF Init, DipFunnel
<1>. QED  BY <1>2, <1>3, <1>4, <1>7 DEF ListInv

LEMMA StartBarKeeps == ASSUME ListInv, StartBar PROVE ListInv'
<1>. USE DEF ListInv, StartBar
<1>1. \A s \in Symbols :
        /\ watch[s] \in Watch /\ watch'[s] \in Watch
        /\ watch'[s].streak = watch[s].streak /\ watch'[s].path = watch[s].path
        /\ watch'[s].st \in {watch[s].st, "IDLE"}
        /\ watch'[s].st # "IDLE" /\ mode = "d1_session" =>
             watch' = watch /\ admitted' = admitted
  BY DEF TypeOK, SessionOpen, Watch, WatchStates
<1>2. TypeOK'
  <2>1. watch' \in [Symbols -> Watch]
    BY <1>1 DEF TypeOK
  <2>. QED  BY <2>1 DEF TypeOK, funnel
<1>3. SymbolsInv'
  BY <1>1 DEF SymbolsInv, SymbolInv, Listed
<1>4. TriggerFunnel'
  BY DEF TriggerFunnel, funnel
<1>5. DipFunnel'
  <2>1. In("DIP_ARMED")' \subseteq In("DIP_ARMED")
    BY <1>1 DEF In
  <2>2. (Symbols \ In("IDLE"))' \subseteq Symbols \ In("IDLE")
    BY <1>1 DEF In
  <2>3. /\ Cardinality(In("DIP_ARMED")') <= Cardinality(In("DIP_ARMED"))
        /\ Cardinality((Symbols \ In("IDLE"))') <= Cardinality(Symbols \ In("IDLE"))
    BY <2>1, <2>2, SmallerSubset DEF In
  <2>4. /\ Cardinality(In("DIP_ARMED")) \in Nat /\ Cardinality(In("DIP_ARMED")') \in Nat
        /\ Cardinality(Symbols \ In("IDLE")) \in Nat
        /\ Cardinality((Symbols \ In("IDLE"))') \in Nat
    BY SubsetsAreFinite DEF In
  <2>5. viaDip' = viaDip /\ armed' = armed /\ qualified' = qualified
    BY DEF funnel
  <2>. QED  BY <2>3, <2>4, <2>5 DEF DipFunnel, TypeOK
<1>. QED  BY <1>2, <1>3, <1>4, <1>5

LEMMA UpdateKeeps == ASSUME ListInv, Update PROVE ListInv'
<1>. USE DEF ListInv
<1>1. PICK bars \in [Symbols -> Readings] :
        /\ reading' = bars
        /\ watch' = [s \in Symbols |-> Observe(watch[s], bars[s])]
        /\ sinceGreen' = [s \in Symbols |-> GreenAge(s, bars[s])]
        /\ admitted' = admitted \cup {s \in Moved("IDLE", "QUALIFIED") :
                                        bars[s].gate /\ bars[s].score = "list"}
  BY DEF Update
<1>2. /\ UNCHANGED <<mode, bar, coincidences, killedByBias, killedByGate, bypassed>>
      /\ phase' = "trigger" /\ mode \in {"strict", "d1_session", "grace"}
      /\ qualified' = qualified + Cardinality(Moved("IDLE", "QUALIFIED"))
      /\ armed' = armed + Cardinality(Moved("QUALIFIED", "DIP_ARMED"))
      /\ viaDip' = viaDip + Cardinality(Moved("DIP_ARMED", "ENTRY_EVAL"))
  BY DEF Update, TypeOK
<1>3. ASSUME NEW s \in Symbols
      PROVE  /\ watch'[s] \in Watch /\ watch[s] \in Watch
             /\ bars[s] \in Readings
             /\ (~Listed(s) /\ watch'[s].st # "IDLE") =>
                  watch'[s].st = "QUALIFIED" /\ bars[s].gate /\ bars[s].score = "list"
             /\ (Listed(s) /\ watch'[s].st # "IDLE") => Holds(bars[s], watch'[s].streak)
             /\ watch'[s].st = "DIP_ARMED" =>
                  watch[s].st = "QUALIFIED" /\ watch'[s].path = "B"
             /\ watch'[s].st = "ENTRY_EVAL" =>
                  watch[s].st = "DIP_ARMED" /\ watch'[s].path = watch[s].path
             /\ mode = "grace" =>
                  watch'[s].streak = (IF bars[s].gate THEN 0 ELSE watch[s].streak + 1)
  <2>1. watch[s] \in Watch /\ bars[s] \in Readings
    BY DEF TypeOK
  <2>2. watch'[s] = Observe(watch[s], bars[s])
    BY <1>1
  <2>. QED  BY <1>2, <2>1, <2>2, ObserveSteps DEF Listed
<1>4. ASSUME NEW s \in Symbols
      PROVE  /\ sinceGreen'[s] \in 0..(GraceBars + 1)
             /\ bars[s].gate => sinceGreen'[s] = 0
             /\ sinceGreen'[s] <= sinceGreen[s] + 1
  <2>1. sinceGreen[s] \in 0..(GraceBars + 1) /\ GraceBars \in Nat
    BY WatchlistBounds DEF TypeOK
  <2>2. sinceGreen'[s] = GreenAge(s, bars[s])
    BY <1>1
  <2>. QED  BY <2>1, <2>2 DEF GreenAge
<1>5. TypeOK'
  <2>1. watch' \in [Symbols -> Watch] /\ sinceGreen' \in [Symbols -> 0..(GraceBars + 1)]
    BY <1>1, <1>3, <1>4
  <2>2. admitted' \subseteq Symbols
    BY <1>1 DEF TypeOK, Moved
  <2>3. /\ Cardinality(Moved("IDLE", "QUALIFIED")) \in Nat
        /\ Cardinality(Moved("QUALIFIED", "DIP_ARMED")) \in Nat
        /\ Cardinality(Moved("DIP_ARMED", "ENTRY_EVAL")) \in Nat
    BY SubsetsAreFinite DEF Moved
  <2>4. Readings' = Readings /\ Watch' = Watch
    OBVIOUS
  <2>. QED  BY <1>1, <1>2, <2>1, <2>2, <2>3 DEF TypeOK
<1>6. ASSUME NEW s \in Symbols PROVE SymbolInv(s)'
  <2>1. SymbolInv(s)
    BY DEF SymbolsInv
  <2>2. watch'[s].st = "DIP_ARMED" => watch'[s].path = "B"
    BY <1>3
  <2>3. (mode = "grace" /\ watch'[s].st # "IDLE") => sinceGreen'[s] <= watch'[s].streak
    <3>. SUFFICES ASSUME mode = "grace", watch'[s].st # "IDLE"
                  PROVE  sinceGreen'[s] <= watch'[s].streak
      OBVIOUS
    <3>1. /\ sinceGreen[s] \in Nat /\ watch[s].streak \in Nat
          /\ sinceGreen'[s] \in Nat /\ watch'[s].streak \in Nat
      BY <1>3, <1>4, WatchlistBounds DEF TypeOK, Watch
    <3>2. CASE bars[s].gate
      BY <1>3, <1>4, <3>1, <3>2
    <3>3. CASE ~bars[s].gate
      <4>1. sinceGreen[s] <= watch[s].streak
        BY <1>3, <2>1, <3>3 DEF SymbolInv
      <4>. QED  BY <1>3, <1>4, <3>1, <3>3, <4>1
    <3>. QED  BY <3>2, <3>3
  <2>4. (mode = "d1_session" /\ watch'[s].st # "IDLE") => s \in admitted'
    BY <1>1, <1>3, <2>1 DEF SymbolInv, Listed, Moved
  <2>5. watch'[s].st # "IDLE" => Grounded(s)'
    <3>. SUFFICES ASSUME watch'[s].st # "IDLE" PROVE Grounded(s)'
      OBVIOUS
    <3>1. CASE ~Listed(s)
      <4>1. bars[s].gate /\ bars[s].score = "list" /\ bars[s].hold /\ sinceGreen'[s] = 0
        BY <1>3, <1>4, <3>1 DEF Readings
      <4>. QED  BY <1>1, <1>2, <4>1, WatchlistBounds DEF Grounded
    <3>2. CASE Listed(s)
      <4>1. Holds(bars[s], watch'[s].streak)
        BY <1>3, <3>2
      <4>2. bars[s].score # "below"
        BY <4>1 DEF Holds
      <4>3. mode = "strict" => bars[s].gate
        BY <4>1 DEF Holds
      <4>4. mode = "d1_session" => bars[s].hold
        BY <4>1 DEF Holds
      <4>5. mode = "grace" => sinceGreen'[s] <= GraceBars
        <5>. SUFFICES ASSUME mode = "grace" PROVE sinceGreen'[s] <= GraceBars
          OBVIOUS
        <5>1. bars[s].gate \/ watch'[s].streak <= GraceBars
          BY <4>1 DEF Holds
        <5>2. /\ sinceGreen'[s] \in Nat /\ watch'[s].streak \in Nat /\ GraceBars \in Nat
          BY <1>3, <1>4, WatchlistBounds DEF Watch
        <5>. QED  BY <1>4, <2>3, <5>1, <5>2
      <4>. QED  BY <1>1, <1>2, <4>2, <4>3, <4>4, <4>5 DEF Grounded
    <3>. QED  BY <3>1, <3>2
  <2>6. watch'[s].st = "ENTRY_EVAL" => watch'[s].path = "B"
    BY <1>3, <2>1 DEF SymbolInv
  <2>. QED  BY <1>2, <2>2, <2>3, <2>4, <2>5, <2>6 DEF SymbolInv, Listed
<1>7. TriggerFunnel'
  BY <1>2 DEF TriggerFunnel
<1>8. DipFunnel'
  <2>. DEFINE D == In("DIP_ARMED")
              L == Symbols \ In("IDLE")
              QD == Moved("QUALIFIED", "DIP_ARMED")
              DE == Moved("DIP_ARMED", "ENTRY_EVAL")
              IQ == Moved("IDLE", "QUALIFIED")
              D1 == {s \in Symbols : watch'[s].st = "DIP_ARMED"}
              L1 == {s \in Symbols : watch'[s].st # "IDLE"}
  <2>1. D1 = QD /\ DE \subseteq D /\ L1 \subseteq L \cup IQ
    BY <1>3 DEF In, Moved, Listed
  <2>2. In("DIP_ARMED")' = D1 /\ (Symbols \ In("IDLE"))' = L1
    BY DEF In
  <2>3. /\ D \in SUBSET Symbols /\ L \in SUBSET Symbols /\ QD \in SUBSET Symbols
        /\ DE \in SUBSET Symbols /\ IQ \in SUBSET Symbols /\ L1 \in SUBSET Symbols
        /\ L \cup IQ \in SUBSET Symbols
    BY DEF In, Moved
  <2>4. /\ armed' = armed + Cardinality(QD) /\ viaDip' = viaDip + Cardinality(DE)
        /\ qualified' = qualified + Cardinality(IQ)
        /\ viaDip + Cardinality(D) <= armed /\ Cardinality(L) <= qualified
        /\ armed \in Nat /\ viaDip \in Nat /\ qualified \in Nat
    BY <1>2 DEF DipFunnel, TypeOK
  <2>. HIDE DEF D, L, QD, DE, IQ, L1
  <2>5. /\ Cardinality(DE) <= Cardinality(D)
        /\ Cardinality(L1) <= Cardinality(L \cup IQ)
        /\ Cardinality(L \cup IQ) <= Cardinality(L) + Cardinality(IQ)
    BY <2>1, <2>3, SmallerSubset, AtMostTheSum
  <2>6. /\ Cardinality(D) \in Nat /\ Cardinality(L) \in Nat /\ Cardinality(QD) \in Nat
        /\ Cardinality(DE) \in Nat /\ Cardinality(IQ) \in Nat /\ Cardinality(L1) \in Nat
        /\ Cardinality(L \cup IQ) \in Nat
    BY <2>3, SubsetsAreFinite
  <2>7. viaDip' + Cardinality(QD) <= armed' /\ Cardinality(L1) <= qualified'
    BY <2>4, <2>5, <2>6
  <2>. QED  BY <2>1, <2>2, <2>7 DEF DipFunnel
<1>. QED  BY <1>5, <1>6, <1>7, <1>8 DEF SymbolsInv

LEMMA TriggerKeeps == ASSUME ListInv, Trigger PROVE ListInv'
<1>. USE DEF ListInv
<1>1. PICK biasOk \in BOOLEAN :
        /\ watch' = [s \in Symbols |-> Triggered(watch[s], reading[s], biasOk)]
        /\ coincidences' = coincidences + Cardinality(In("QUALIFIED"))
        /\ killedByBias' = killedByBias + Cardinality({s \in Symbols :
             TriggerOutcome(watch[s], reading[s], biasOk) = "killed_by_bias_hold"})
        /\ killedByGate' = killedByGate + Cardinality({s \in Symbols :
             TriggerOutcome(watch[s], reading[s], biasOk) = "killed_by_gate"})
        /\ bypassed' = bypassed + Cardinality({s \in Symbols :
             TriggerOutcome(watch[s], reading[s], biasOk) = "bypass"})
  BY DEF Trigger
<1>2. /\ phase = "trigger" /\ phase' = "evaluate"
      /\ UNCHANGED <<mode, bar, reading, qualified, armed, viaDip, admitted, sinceGreen>>
  BY DEF Trigger
<1>3. ASSUME NEW s \in Symbols
      PROVE  /\ watch[s] \in Watch /\ watch'[s] \in Watch /\ reading[s] \in Readings
             /\ watch'[s].streak = watch[s].streak
             /\ \/ watch'[s] = watch[s]
                \/ /\ watch[s].st = "QUALIFIED" /\ reading[s].gate
                   /\ watch'[s].st = "ENTRY_EVAL" /\ watch'[s].path = "A"
  <2>1. watch[s] \in Watch /\ reading[s] \in Readings
    BY DEF TypeOK
  <2>2. watch'[s] = Triggered(watch[s], reading[s], biasOk)
    BY <1>1
  <2>3. "ENTRY_EVAL" \in WatchStates /\ "A" \in Paths
    BY DEF WatchStates, Paths
  <2>4. CASE TriggerOutcome(watch[s], reading[s], biasOk) = "bypass"
    <3>1. watch[s].st = "QUALIFIED" /\ reading[s].gate
      BY <2>4 DEF TriggerOutcome
    <3>2. watch'[s] = [watch[s] EXCEPT !.st = "ENTRY_EVAL", !.path = "A"]
      BY <2>2, <2>4 DEF Triggered
    <3>. QED  BY <2>1, <2>3, <3>1, <3>2 DEF Watch
  <2>5. CASE TriggerOutcome(watch[s], reading[s], biasOk) # "bypass"
    BY <2>1, <2>2, <2>5 DEF Triggered
  <2>. QED  BY <2>4, <2>5
<1>. DEFINE Ending(outcome) ==
       {s \in Symbols : TriggerOutcome(watch[s], reading[s], biasOk) = outcome}
<1>4. TypeOK'
  <2>1. watch' \in [Symbols -> Watch]
    BY <1>1, <1>3
  <2>2. /\ Cardinality(In("QUALIFIED")) \in Nat
        /\ Cardinality(Ending("killed_by_bias_hold")) \in Nat
        /\ Cardinality(Ending("killed_by_gate")) \in Nat
        /\ Cardinality(Ending("bypass")) \in Nat
    BY SubsetsAreFinite DEF In
  <2>. QED  BY <1>1, <1>2, <2>1, <2>2 DEF TypeOK
<1>5. SymbolsInv'
  <2>. SUFFICES ASSUME NEW s \in Symbols PROVE SymbolInv(s)'
    BY DEF SymbolsInv
  <2>1. SymbolInv(s)
    BY DEF SymbolsInv
  <2>. QED  BY <1>2, <1>3, <2>1 DEF SymbolInv, Listed, Grounded
<1>6. TriggerFunnel'
  <2>. DEFINE B == Ending("killed_by_bias_hold")
              G == Ending("killed_by_gate")
              P == Ending("bypass")
  <2>1. /\ B \in SUBSET Symbols /\ G \in SUBSET Symbols /\ P \in SUBSET Symbols
        /\ B \cup G \in SUBSET Symbols
        /\ B \cap G = {} /\ (B \cup G) \cap P = {}
    OBVIOUS
  <2>2. In("QUALIFIED") = (B \cup G) \cup P
    BY DEF In, TriggerOutcome
  <2>3. mode = "strict" => G = {}
    <3>. SUFFICES ASSUME mode = "strict", NEW s \in G PROVE FALSE
      OBVIOUS
    <3>1. watch[s].st = "QUALIFIED" /\ ~reading[s].gate
      BY DEF TriggerOutcome
    <3>. QED  BY <1>2, <3>1 DEF SymbolsInv, SymbolInv, Listed, Grounded
  <2>4. /\ killedByBias' = killedByBias + Cardinality(B)
        /\ killedByGate' = killedByGate + Cardinality(G)
        /\ bypassed' = bypassed + Cardinality(P)
        /\ coincidences' = coincidences + Cardinality(In("QUALIFIED"))
    BY <1>1
  <2>. HIDE DEF B, G, P
  <2>5. Cardinality(In("QUALIFIED")) = Cardinality(B) + Cardinality(G) + Cardinality(P)
    BY <2>1, <2>2, DisjointSum
  <2>6. Cardinality(B) \in Nat /\ Cardinality(G) \in Nat /\ Cardinality(P) \in Nat
    BY <2>1, SubsetsAreFinite
  <2>7. coincidences' = killedByBias' + killedByGate' + bypassed'
    BY <2>4, <2>5, <2>6 DEF TriggerFunnel, TypeOK
  <2>8. mode = "strict" => killedByGate' = 0
    BY <2>3, <2>4, FS_EmptySet DEF TriggerFunnel
  <2>. QED  BY <1>2, <2>7, <2>8 DEF TriggerFunnel
<1>7. DipFunnel'
  <2>1. In("DIP_ARMED")' = In("DIP_ARMED") /\ In("IDLE")' = In("IDLE")
    BY <1>3 DEF In
  <2>. QED  BY <1>2, <2>1 DEF DipFunnel
<1>. QED  BY <1>4, <1>5, <1>6, <1>7

LEMMA RestKeeps ==
  ASSUME ListInv, NoTrigger \/ EndBar \/ UNCHANGED vars PROVE ListInv'
<1>. USE DEF ListInv
<1>1. /\ UNCHANGED <<mode, watch, funnel, admitted, sinceGreen>>
      /\ bar' \in {bar, bar + 1}
      /\ phase' \in {"evaluate", "next_bar", phase}
      /\ \/ reading' = reading /\ phase' \in {"evaluate", phase}
            /\ (phase' = "evaluate" => phase \in {"trigger", "evaluate"})
         \/ reading' = [s \in Symbols |-> NoBar] /\ phase' = "next_bar"
  BY DEF NoTrigger, EndBar, vars
<1>2. TypeOK'
  BY <1>1, NoBarIsAReading DEF TypeOK, funnel
<1>3. SymbolsInv'
  BY <1>1 DEF SymbolsInv, SymbolInv, Listed, Grounded
<1>4. TriggerFunnel'
  BY <1>1 DEF TriggerFunnel, funnel
<1>5. In("DIP_ARMED")' = In("DIP_ARMED") /\ In("IDLE")' = In("IDLE")
  BY <1>1 DEF In
<1>6. DipFunnel'
  BY <1>1, <1>5 DEF DipFunnel, funnel
<1>. QED  BY <1>2, <1>3, <1>4, <1>6

LEMMA NextList == ListInv /\ [Next]_vars => ListInv'
  BY StartBarKeeps, UpdateKeeps, TriggerKeeps, RestKeeps DEF Next, Finished

LEMMA ListInvariant == Spec => []ListInv
  BY InitList, NextList, PTL DEF Spec

-----------------------------------------------------------------------------
\* What reaches step 4 is grounded in the gates its mode asks for, was admitted in
\* this session where sessions start over, and the funnel counts every way it came:
\* for any number of symbols and any grace.
THEOREM CandidatesGroundedAlways == Spec => []CandidatesGrounded
<1>1. ListInv => CandidatesGrounded
  BY DEF ListInv, CandidatesGrounded, EvalIsGrounded, AdmittedThisSession, SymbolsInv,
         SymbolInv, Grounded, Listed, In
<1>. QED  BY <1>1, ListInvariant, PTL

\* entry_path always names the way a symbol came to ENTRY_EVAL, though nothing ever
\* clears it.
THEOREM PathMatchesRouteAlways == Spec => PathMatchesRoute
<1>. DEFINE Matches == \A s \in Symbols :
       (watch[s].st # "ENTRY_EVAL" /\ watch'[s].st = "ENTRY_EVAL")
         => watch'[s].path = (IF watch[s].st = "DIP_ARMED" THEN "B" ELSE "A")
<1>1. ListInv /\ [Next]_vars => [Matches]_vars
  <2>. SUFFICES ASSUME ListInv, [Next]_vars, NEW s \in Symbols,
                       watch[s].st # "ENTRY_EVAL", watch'[s].st = "ENTRY_EVAL"
                PROVE  watch'[s].path = (IF watch[s].st = "DIP_ARMED" THEN "B" ELSE "A")
    OBVIOUS
  <2>1. watch[s] \in Watch
    BY DEF ListInv, TypeOK
  <2>2. CASE StartBar
    BY <2>1, <2>2 DEF StartBar, SessionOpen, Watch
  <2>3. CASE Update
    <3>1. PICK bars \in [Symbols -> Readings] :
            watch' = [t \in Symbols |-> Observe(watch[t], bars[t])]
      BY <2>3 DEF Update
    <3>2. watch'[s] = Observe(watch[s], bars[s]) /\ bars[s] \in Readings
      BY <3>1
    <3>3. watch[s].st = "DIP_ARMED" /\ watch'[s].path = watch[s].path
      BY <2>1, <3>2, ObserveSteps DEF ListInv, TypeOK
    <3>. QED  BY <3>3 DEF ListInv, SymbolsInv, SymbolInv
  <2>4. CASE Trigger
    <3>1. PICK biasOk \in BOOLEAN :
            watch' = [t \in Symbols |-> Triggered(watch[t], reading[t], biasOk)]
      BY <2>4 DEF Trigger
    <3>2. watch'[s] = Triggered(watch[s], reading[s], biasOk)
      BY <3>1
    <3>. QED  BY <2>1, <3>2 DEF Triggered, TriggerOutcome, Watch
  <2>5. CASE watch' = watch
    BY <2>5
  <2>. QED  BY <2>2, <2>3, <2>4, <2>5 DEF Next, NoTrigger, EndBar, Finished, vars
<1>2. [][Next]_vars /\ []ListInv => [][Matches]_vars
  <2>. HIDE DEF Matches
  <2>. QED  BY <1>1, PTL
<1>. QED  BY <1>2, ListInvariant DEF Spec, PathMatchesRoute
=============================================================================

--------------------------- MODULE BackfillProofs ---------------------------
(***************************************************************************)
(* Proofs about Backfill, for any symbols, periods, calendar of bars,      *)
(* windows, batch size and tail, and visits that die anywhere: what a done *)
(* record promises, that nothing is missing inside what is stored, and     *)
(* what the tails make up for.  The invariant adds how a visit's window    *)
(* lies around the clock (no bar is later than it, and a script's end is   *)
(* only 24 hours earlier), what the batch at hand has already written, and *)
(* how far the tail has come.                                              *)
(***************************************************************************)
EXTENDS Backfill, FiniteSetTheorems, WellFoundedInduction, TLAPS

\* The program counters between the plan of a unit and its last record.
AtUnit == {"fetch", "write", "record"}

UnitInv == visit.pc \in AtUnit => visit.unit \in Units

\* What a visit has recorded so far; its window begins no later than what is left.
WindowRecorded(before) ==
  \A s \in visit.syms, u \in Units : (InWindow(u) /\ u < before) => manifest[s][u] # "none"

CoverInv ==
  /\ visit.pc \in AtUnit \cup {"plan"} =>
       /\ WindowRecorded(visit.unit)
       /\ \A u \in Units : visit.unit <= u => visit.start < Starts[u + 1]
  /\ visit.pc \in AtUnit =>
       /\ visit.batch \subseteq visit.todo /\ visit.todo \subseteq visit.syms
       /\ \A s \in visit.todo : manifest[s][visit.unit] \notin Done
       /\ \A s \in visit.syms \ visit.todo : manifest[s][visit.unit] # "none"
  /\ visit.pc \in {"tail", "done"} =>
       \A s \in visit.syms, u \in Units : InWindow(u) => manifest[s][u] # "none"

\* The window of a visit: its start is more than 24 hours before now, and its end is
\* at most 24 hours from now, after it for an onboarding.
WindowInv ==
  visit.pc # "idle" =>
    /\ visit.kind \in Kinds
    /\ visit.start + Day <= now
    /\ warehouse = "main" => now <= visit.end + Day
    /\ visit.kind = "onboard" => now <= visit.end /\ Cardinality(visit.syms) = 1

BarsPast == \A s \in Symbols : \A d \in bars[s] : d < now

AskedInv ==
  \A s \in Symbols, u \in Units :
    /\ Starts[u] <= asked[s][u].from
    /\ asked[s][u].from = Starts[u] \/ asked[s][u].from + Day <= now

BatchWritten ==
  (visit.pc = "record" /\ ~visit.failed) =>
    \A s \in visit.batch :
      /\ asked[s][visit.unit].from = ChunkStart(visit.unit)
      /\ Vendor(s, ChunkStart(visit.unit), Reach(visit.unit)) \subseteq bars[s]

\* Where the tail begins, and the symbols it has reached.
TailInv ==
  visit.pc = "tail" =>
    /\ visit.todo \subseteq visit.syms
    /\ visit.kind \in {"refresh", "onboard"}
    /\ visit.kind = "refresh" => visit.tailFrom <= visit.end - Tail
    /\ visit.kind = "onboard" => \A s \in visit.syms : visit.tailFrom \in bars[s]
    /\ \A s \in visit.syms \ visit.todo : Vendor(s, visit.tailFrom, Until) \subseteq bars[s]

TypeInv == TypeOK /\ UnitInv

VisitInv == CoverInv /\ WindowInv /\ TailInv

BackfillInv ==
  /\ TypeInv /\ VisitInv
  /\ BarsPast /\ AskedInv /\ BatchWritten
  /\ DoneUnitsStored /\ PeriodsJoin /\ TailsCatchUp

LEMMA StartsAreNat ==
  /\ Starts \in [0..Periods -> Nat] /\ Periods \in Nat \ {0} /\ Instants \subseteq Nat
  /\ Day \in Nat /\ Tail \in Nat
  /\ \A u \in Units : /\ u \in 0..Periods /\ u + 1 \in 0..Periods
                      /\ Starts[u] \in Nat /\ Starts[u + 1] \in Nat
<1>1. Starts \in [0..Periods -> Nat] /\ Periods \in Nat \ {0} /\ Day \in Nat /\ Tail \in Nat
  BY BackfillConstants
<1>2. 0 \in 0..Periods /\ Periods \in 0..Periods
  BY <1>1
<1>3. \A u \in Units : u \in 0..Periods /\ u + 1 \in 0..Periods
  BY <1>1 DEF Units
<1>. QED  BY <1>1, <1>2, <1>3 DEF Instants

-----------------------------------------------------------------------------
\* Least and greatest elements, which stand in for induction.
LEMMA LeastNat ==
  ASSUME NEW T \in SUBSET Nat, T # {}
  PROVE  \E m \in T : \A n \in T : m <= n
<1>1. IsWellFoundedOn(OpToRel(<, Nat), Nat)
  BY NatLessThanWellFounded
<1>2. PICK m \in T : \A n \in T : <<n, m>> \notin OpToRel(<, Nat)
  BY <1>1, WFMin
<1>3. \A n \in T : ~(n < m)
  BY <1>2 DEF OpToRel
<1>. QED  BY <1>3

LEMMA GreatestNat ==
  ASSUME NEW S \in SUBSET Nat, S # {}, NEW b \in Nat, \A e \in S : e <= b
  PROVE  \E m \in S : \A e \in S : e <= m
<1>. DEFINE T == {k \in Nat : \A e \in S : e <= k}
<1>1. PICK m \in T : \A k \in T : m <= k
  <2>1. T \in SUBSET Nat /\ b \in T
    OBVIOUS
  <2>. HIDE DEF T
  <2>. QED  BY <2>1, LeastNat
<1>2. m \in S
  <2>. SUFFICES ASSUME m \notin S PROVE FALSE
    OBVIOUS
  <2>1. \A e \in S : e < m /\ e <= m - 1
    OBVIOUS
  <2>2. PICK e \in S : e \in Nat /\ e < m
    BY <2>1
  <2>3. m - 1 \in Nat
    BY <2>2
  <2>4. m - 1 \in T
    BY <2>1, <2>3
  <2>. QED  BY <1>1, <2>2, <2>4
<1>. QED  BY <1>2

LEMMA StartsAscend ==
  ASSUME NEW u \in 0..Periods, NEW v \in 0..Periods, u < v
  PROVE  Starts[u] < Starts[v]
<1>. DEFINE T == {k \in 0..Periods : u < k /\ ~(Starts[u] < Starts[k])}
<1>. SUFFICES ASSUME T # {} PROVE FALSE
  OBVIOUS
<1>1. T \in SUBSET Nat
  BY StartsAreNat
<1>2. PICK m \in T : \A k \in T : m <= k
  <2>. HIDE DEF T
  <2>. QED  BY <1>1, LeastNat
<1>3. m \in 1..Periods /\ m - 1 \in 0..(Periods - 1)
  BY StartsAreNat
<1>4. Starts[m - 1] < Starts[m]
  BY <1>3, BackfillConstants
<1>5. m - 1 \notin T
  BY <1>2, <1>3
<1>6. u = m - 1 \/ Starts[u] < Starts[m - 1]
  BY <1>3, <1>5, StartsAreNat
<1>. QED  BY <1>3, <1>4, <1>6, StartsAreNat

\* The periods cut the calendar into pieces that do not overlap.
LEMMA OnePeriodOfAnInstant ==
  ASSUME NEW u \in Units, NEW v \in Units, NEW d \in Nat,
         Starts[u] <= d, d < Starts[u + 1], Starts[v] <= d, d < Starts[v + 1]
  PROVE  u = v
<1>1. /\ u \in 0..Periods /\ u + 1 \in 0..Periods /\ v \in 0..Periods /\ v + 1 \in 0..Periods
      /\ u \in Int /\ v \in Int
  BY StartsAreNat DEF Units
<1>2. CASE u < v
  <2>1. u + 1 = v \/ u + 1 < v
    BY <1>1, <1>2
  <2>. QED  BY <1>1, <2>1, StartsAscend, StartsAreNat
<1>3. CASE v < u
  <2>1. v + 1 = u \/ v + 1 < u
    BY <1>1, <1>3
  <2>. QED  BY <1>1, <2>1, StartsAscend, StartsAreNat
<1>. QED  BY <1>1, <1>2, <1>3

LEMMA NewestIsStored ==
  ASSUME NEW stored \in SUBSET Instants
  PROVE  /\ Newest(stored, 0) \in Nat
         /\ stored # {} => Newest(stored, 0) \in stored
         /\ \A e \in stored : e <= Newest(stored, 0)
<1>. DEFINE S == stored \cup {0}
<1>1. S \in SUBSET Nat /\ S # {} /\ Starts[Periods] \in Nat /\ \A e \in S : e <= Starts[Periods]
  BY StartsAreNat DEF Instants
<1>2. \E m \in S : \A e \in S : e <= m
  <2>. HIDE DEF S
  <2>. QED  BY <1>1, GreatestNat
<1>3. /\ Newest(stored, 0) \in S
      /\ \A e \in S : e <= Newest(stored, 0)
  BY <1>2 DEF Newest
<1>4. ASSUME stored # {} PROVE Newest(stored, 0) \in stored
  <2>1. PICK e \in stored : TRUE
    BY <1>4
  <2>2. e \in Nat /\ 0 <= e /\ e <= Newest(stored, 0)
    BY <1>1, <1>3
  <2>. QED  BY <1>1, <1>3, <2>2
<1>. QED  BY <1>1, <1>3, <1>4

-----------------------------------------------------------------------------
VisitType ==
  [pc: {"idle", "plan", "fetch", "write", "record", "tail", "done"},
   kind: Kinds \cup {"none"}, syms: SUBSET Symbols, start: Int, end: Int,
   unit: 0..Periods, todo: SUBSET Symbols, batch: SUBSET Symbols,
   failed: BOOLEAN, tailFrom: Int]

\* Who writes what.
LEMMA Frames ==
  ASSUME [Next]_vars
  PROVE  /\ UNCHANGED warehouse /\ Kinds' = Kinds
         /\ Tick \/ UNCHANGED now
         /\ Write \/ TailBatch \/ UNCHANGED bars
         /\ Write \/ (\E s \in Symbols : Record(s)) \/ UNCHANGED asked
         /\ (\E s \in Symbols : Record(s)) \/ UNCHANGED manifest
  BY DEF Next, Tick, Begin, Work, PlanUnit, FetchFails, Fetch, Write, Record, NextFetch,
         EndOfUnits, TailBatch, EndOfTail, Return, Die, Kinds, vars

\* Time does not run back, the symbol's bars only grow, and during a visit its window
\* stays where it is.
LEMMA Grows ==
  ASSUME TypeInv, [Next]_vars
  PROVE  /\ now' \in Nat /\ now <= now'
         /\ \A s \in Symbols : bars[s] \subseteq bars'[s]
<1>1. now \in Nat
  BY StartsAreNat DEF TypeInv, TypeOK
<1>2. now' \in Nat /\ now <= now'
  BY <1>1, Frames DEF Tick
<1>3. \A s \in Symbols : bars[s] \subseteq bars'[s]
  BY Frames DEF Write, TailBatch
<1>. QED  BY <1>2, <1>3

LEMMA BeginTypes ==
  ASSUME TypeInv, NEW kind \in Kinds, NEW syms \in SUBSET Known,
         NEW end \in Ends(kind), NEW span \in Spans(kind)
  PROVE  /\ end \in Int /\ end - span \in Int /\ syms \in SUBSET Symbols
         /\ (end - span) + Day <= now
         /\ warehouse = "main" => now <= end + Day
         /\ kind = "onboard" => now <= end
<1>1. now \in Nat /\ Day \in Nat
  BY StartsAreNat DEF TypeInv, TypeOK
<1>2. /\ end \in Int /\ end <= now + Day
      /\ kind = "script" => end = now - Day
      /\ kind = "onboard" => now <= end
  BY <1>1 DEF Ends
<1>3. span \in Nat /\ 2 * Day <= span
  BY BackfillConstants DEF Spans
<1>4. warehouse = "main" => kind \in {"script", "onboard"}
  BY DEF Kinds
<1>. QED  BY <1>1, <1>2, <1>3, <1>4 DEF Known

LEMMA TypeStep ==
  ASSUME TypeInv, [Next]_vars
  PROVE  TypeInv'
<1>. USE StartsAreNat
<1>1. /\ visit \in VisitType /\ now \in Nat
      /\ visit.pc \in AtUnit => visit.unit \in Units
  BY DEF TypeInv, TypeOK, UnitInv, VisitType
<1>2. NoVisit \in VisitType
  BY DEF NoVisit, VisitType
<1>3. warehouse' \in {"main", "scan"} /\ Kinds' = Kinds
  BY Frames DEF TypeInv, TypeOK
<1>4. now' \in Instants /\ bars' \in [Symbols -> SUBSET Instants]
  <2>1. \A s \in Symbols, a, b \in Int : Vendor(s, a, b) \in SUBSET Instants
    BY BackfillConstants DEF Vendor
  <2>2. CASE Write
    <3>1. ChunkStart(visit.unit) \in Int /\ Reach(visit.unit) \in Int
      BY <1>1, <2>2 DEF Write, AtUnit, ChunkStart, Reach, ChunkEnd, Later, Earlier, VisitType
    <3>. QED  BY <2>1, <2>2, <3>1 DEF Write, TypeInv, TypeOK
  <2>3. CASE TailBatch
    <3>1. visit.tailFrom \in Int /\ Earlier(visit.end, now) \in Int
      BY <1>1 DEF Earlier, VisitType
    <3>. QED  BY <2>1, <2>3, <3>1 DEF TailBatch, TypeInv, TypeOK
  <2>. QED  BY <2>2, <2>3, Frames DEF Tick, TypeInv, TypeOK
<1>5. /\ manifest' \in [Symbols -> [Units -> Done \cup {"none", "error"}]]
      /\ asked' \in [Symbols -> [Units -> [from: Nat, to: Int]]]
  <2>. DEFINE u == visit.unit
              r == [from |-> ChunkStart(u), to |-> Reach(u)]
  <2>1. visit.pc \in AtUnit => /\ u \in Units
                               /\ ChunkStart(u) \in Nat /\ Reach(u) \in Int
    BY <1>1 DEF ChunkStart, Reach, ChunkEnd, Later, Earlier, VisitType
  <2>2. CASE Write
    <3>1. visit.pc \in AtUnit
      BY <2>2 DEF Write, AtUnit
    <3>2. ASSUME NEW s \in Symbols
          PROVE  [asked[s] EXCEPT ![u].from = ChunkStart(u)] \in [Units -> [from: Nat, to: Int]]
      <4>1. asked[s] \in [Units -> [from: Nat, to: Int]]
        BY DEF TypeInv, TypeOK
      <4>2. [asked[s][u] EXCEPT !.from = ChunkStart(u)] \in [from: Nat, to: Int]
        BY <2>1, <3>1, <4>1
      <4>. QED  BY <2>1, <3>1, <4>1, <4>2
    <3>3. UNCHANGED manifest
          /\ asked' = [s \in Symbols |-> IF s \in visit.batch
                                        THEN [asked[s] EXCEPT ![u].from = ChunkStart(u)]
                                        ELSE asked[s]]
      BY <2>2 DEF Write
    <3>. QED  BY <3>2, <3>3 DEF TypeInv, TypeOK
  <2>3. ASSUME NEW s \in Symbols, Record(s)
        PROVE  <1>5!1 /\ <1>5!2
    <3>1. Outcome(s) \in Done \cup {"none", "error"}
      BY DEF Outcome, Done
    <3>2. visit.pc \in AtUnit
      BY <2>3 DEF Record, AtUnit
    <3>3. manifest' = [manifest EXCEPT ![s][u] = Outcome(s)]
      BY <2>3 DEF Record
    <3>4. \/ asked' = asked
          \/ asked' = [asked EXCEPT ![s] = [@ EXCEPT ![u] = r]]
      BY <2>3 DEF Record
    <3>5. r \in [from: Nat, to: Int]
      BY <2>1, <3>2
    <3>6. /\ manifest \in [Symbols -> [Units -> Done \cup {"none", "error"}]]
          /\ asked \in [Symbols -> [Units -> [from: Nat, to: Int]]]
          /\ u \in Units
      BY <2>1, <3>2 DEF TypeInv, TypeOK
    <3>. HIDE DEF u, r
    <3>7. manifest' \in [Symbols -> [Units -> Done \cup {"none", "error"}]]
      BY <3>1, <3>3, <3>6
    <3>8. asked' \in [Symbols -> [Units -> [from: Nat, to: Int]]]
      <4>1. CASE asked' = asked
        BY <3>6, <4>1
      <4>2. CASE asked' = [asked EXCEPT ![s] = [@ EXCEPT ![u] = r]]
        <5>1. [asked[s] EXCEPT ![u] = r] \in [Units -> [from: Nat, to: Int]]
          BY <3>5, <3>6
        <5>. QED  BY <3>6, <4>2, <5>1
      <4>. QED  BY <3>4, <4>1, <4>2
    <3>. QED  BY <3>7, <3>8
  <2>. QED  BY <2>2, <2>3, Frames DEF TypeInv, TypeOK
<1>6. visit' \in VisitType /\ UnitInv'
  <2>. USE <1>1 DEF VisitType, UnitInv, AtUnit
  <2>1. ASSUME NEW kind \in Kinds, NEW syms \in SUBSET Known,
               NEW end \in Ends(kind), NEW span \in Spans(kind),
               Begin(kind, syms, end, span)
        PROVE  visit' \in VisitType /\ UnitInv'
    <3>1. kind \in Kinds \cup {"none"} /\ end \in Int /\ end - span \in Int
          /\ syms \in SUBSET Symbols
      BY BeginTypes
    <3>2. PICK first \in 0..Periods :
            visit' = [NoVisit EXCEPT !.pc = "plan", !.kind = kind, !.syms = syms,
                        !.start = end - span, !.end = end, !.unit = first]
      BY <2>1 DEF Begin
    <3>. QED  BY <1>2, <3>1, <3>2
  <2>2. CASE PlanUnit
    <3>1. /\ visit.unit \in Units /\ visit.unit + 1 \in 0..Periods
          /\ Pending(visit.syms, visit.unit) \in SUBSET Symbols
          /\ NextBatch(Pending(visit.syms, visit.unit)) \in SUBSET Symbols
      BY <2>2 DEF PlanUnit, Pending, NextBatch, InWindow
    <3>2. \/ visit' = [visit EXCEPT !.unit = @ + 1]
          \/ visit' = [visit EXCEPT !.pc = "fetch", !.todo = Pending(visit.syms, visit.unit),
                                   !.batch = NextBatch(Pending(visit.syms, visit.unit))]
      BY <2>2 DEF PlanUnit
    <3>. QED  BY <2>2, <3>1, <3>2 DEF PlanUnit
  <2>3. CASE FetchFails \/ Fetch \/ Write
    BY <2>3 DEF FetchFails, Fetch, Write
  <2>4. ASSUME NEW s \in Symbols, Record(s)
        PROVE  visit' \in VisitType /\ UnitInv'
    BY <2>4 DEF Record
  <2>5. CASE NextFetch
    <3>1. /\ visit.unit \in Units /\ visit.unit + 1 \in 0..Periods
          /\ NextBatch(visit.todo) \in SUBSET Symbols
      BY <2>5 DEF NextFetch, NextBatch
    <3>2. \/ visit' = [visit EXCEPT !.pc = "plan", !.unit = @ + 1]
          \/ visit' = [visit EXCEPT !.pc = "fetch", !.batch = NextBatch(visit.todo)]
      BY <2>5 DEF NextFetch
    <3>. QED  BY <3>1, <3>2
  <2>6. CASE EndOfUnits
    <3>. DEFINE stored == UNION {bars[s] : s \in visit.syms}
    <3>1. stored \in SUBSET Instants
      BY DEF TypeInv, TypeOK
    <3>2. TailStart(stored) \in Int
      <4>. HIDE DEF stored
      <4>. QED  BY <3>1, NewestIsStored DEF TailStart
    <3>3. visit' \in {[visit EXCEPT !.pc = "tail", !.tailFrom = TailStart(stored),
                                   !.todo = visit.syms],
                     [visit EXCEPT !.pc = "done"]}
      BY <2>6 DEF EndOfUnits
    <3>. HIDE DEF stored
    <3>. QED  BY <3>2, <3>3
  <2>7. CASE TailBatch
    BY <2>7 DEF TailBatch
  <2>8. CASE EndOfTail
    BY <2>8 DEF EndOfTail
  <2>9. CASE Return \/ Die
    BY <1>2, <2>9 DEF Return, Die, NoVisit
  <2>10. CASE UNCHANGED visit
    BY <2>10
  <2>. QED  BY <2>1, <2>2, <2>3, <2>4, <2>5, <2>6, <2>7, <2>8, <2>9, <2>10
            DEF Next, Tick, Work, vars
<1>. QED  BY <1>3, <1>4, <1>5, <1>6 DEF TypeInv, TypeOK, VisitType

\* A visit keeps its window and its symbols to the end.
LEMMA VisitStays ==
  ASSUME TypeInv, Work \/ Die \/ Tick \/ UNCHANGED vars
  PROVE  \/ visit' = NoVisit
         \/ /\ visit'.kind = visit.kind /\ visit'.syms = visit.syms
            /\ visit'.start = visit.start /\ visit'.end = visit.end
            /\ visit'.pc # "idle" => visit.pc # "idle"
            /\ visit.pc # "idle" => UNCHANGED now
<1>. visit \in VisitType
  BY DEF TypeInv, TypeOK, VisitType
<1>. USE DEF VisitType
<1>1. CASE Tick \/ UNCHANGED vars
  BY <1>1 DEF Tick, vars
<1>2. CASE PlanUnit
  BY <1>2 DEF PlanUnit
<1>3. CASE FetchFails \/ Fetch \/ Write
  BY <1>3 DEF FetchFails, Fetch, Write
<1>4. CASE NextFetch
  BY <1>4 DEF NextFetch
<1>5. CASE EndOfUnits
  <2>1. \/ \E f, todo : visit' = [visit EXCEPT !.pc = "tail", !.tailFrom = f, !.todo = todo]
        \/ visit' = [visit EXCEPT !.pc = "done"]
    BY <1>5 DEF EndOfUnits
  <2>. QED  BY <1>5, <2>1 DEF EndOfUnits
<1>6. CASE TailBatch \/ EndOfTail
  BY <1>6 DEF TailBatch, EndOfTail
<1>7. CASE \E s \in Symbols : Record(s)
  BY <1>7 DEF Record
<1>8. CASE Return \/ Die
  BY <1>8 DEF Return, Die
<1>. QED  BY <1>1, <1>2, <1>3, <1>4, <1>5, <1>6, <1>7, <1>8 DEF Work

LEMMA WindowStep ==
  ASSUME TypeInv, WindowInv, [Next]_vars
  PROVE  WindowInv'
<1>. UNCHANGED warehouse /\ Kinds' = Kinds
  BY Frames
<1>1. ASSUME NEW kind \in Kinds, NEW syms \in SUBSET Known,
             NEW end \in Ends(kind), NEW span \in Spans(kind),
             Begin(kind, syms, end, span)
      PROVE  WindowInv'
  <2>1. /\ visit'.kind = kind /\ visit'.syms = syms
        /\ visit'.start = end - span /\ visit'.end = end
        /\ kind = "onboard" => Cardinality(syms) = 1
        /\ UNCHANGED now
    BY <1>1 DEF Begin, NoVisit
  <2>. QED  BY <2>1, BeginTypes DEF WindowInv
<1>2. CASE Work \/ Die \/ Tick \/ UNCHANGED vars
  BY <1>2, VisitStays DEF WindowInv, NoVisit
<1>. QED  BY <1>1, <1>2 DEF Next

-----------------------------------------------------------------------------
\* The bars a fetch adds are of the past.
LEMMA PastStep ==
  ASSUME TypeInv, BarsPast, [Next]_vars
  PROVE  BarsPast'
<1>. SUFFICES ASSUME NEW s \in Symbols, NEW d \in bars'[s] PROVE d < now'
  BY DEF BarsPast
<1>1. /\ now \in Nat /\ bars[s] \subseteq Nat /\ Traded[s] \subseteq Nat
      /\ visit \in VisitType
      /\ visit.pc \in AtUnit => visit.unit \in Units
  BY StartsAreNat, BackfillConstants DEF TypeInv, TypeOK, VisitType, UnitInv
<1>2. d \in bars[s] => d < now'
  BY <1>1, Grows DEF BarsPast
<1>3. CASE Write
  <2>1. /\ UNCHANGED now
        /\ d \in bars[s] \/ d \in Vendor(s, ChunkStart(visit.unit), Reach(visit.unit))
    BY <1>3 DEF Write
  <2>2. Reach(visit.unit) \in Int /\ Reach(visit.unit) <= now
    BY <1>1, <1>3, StartsAreNat DEF Write, AtUnit, Reach, ChunkEnd, Earlier, VisitType
  <2>. QED  BY <1>1, <1>2, <2>1, <2>2 DEF Vendor
<1>4. CASE TailBatch
  <2>1. /\ UNCHANGED now
        /\ d \in bars[s] \/ d \in Vendor(s, visit.tailFrom, Earlier(visit.end, now))
    BY <1>4 DEF TailBatch
  <2>2. Earlier(visit.end, now) \in Int /\ Earlier(visit.end, now) <= now
    BY <1>1 DEF Earlier, VisitType
  <2>. QED  BY <1>1, <1>2, <2>1, <2>2 DEF Vendor
<1>. QED  BY <1>2, <1>3, <1>4, Frames

\* A chunk starts with its period, or more than 24 hours ago.
LEMMA AskedStep ==
  ASSUME TypeInv, WindowInv, AskedInv, [Next]_vars
  PROVE  AskedInv'
<1>. SUFFICES ASSUME NEW s \in Symbols, NEW u \in Units
              PROVE  /\ Starts[u] <= asked'[s][u].from
                     /\ asked'[s][u].from = Starts[u] \/ asked'[s][u].from + Day <= now'
  BY DEF AskedInv
<1>1. /\ now \in Nat /\ visit \in VisitType
      /\ asked \in [Symbols -> [Units -> [from: Nat, to: Int]]]
      /\ visit.pc \in AtUnit => visit.unit \in Units
  BY StartsAreNat DEF TypeInv, TypeOK, VisitType, UnitInv
<1>2. \/ asked'[s][u].from = asked[s][u].from
      \/ u = visit.unit /\ visit.pc \in AtUnit /\ asked'[s][u].from = ChunkStart(u)
  <2>1. CASE Write
    BY <1>1, <2>1 DEF Write, AtUnit
  <2>2. ASSUME NEW t \in Symbols, Record(t) PROVE <1>2
    <3>. DEFINE r == [from |-> ChunkStart(visit.unit), to |-> Reach(visit.unit)]
    <3>1. /\ visit.pc \in AtUnit /\ r.from = ChunkStart(visit.unit)
          /\ asked' = asked \/ asked' = [asked EXCEPT ![t] = [@ EXCEPT ![visit.unit] = r]]
      BY <2>2 DEF Record, AtUnit
    <3>. HIDE DEF r
    <3>2. asked'[s][u] = asked[s][u] \/ (u = visit.unit /\ asked'[s][u] = r)
      BY <1>1, <3>1
    <3>. QED  BY <3>1, <3>2
  <2>. QED  BY <2>1, <2>2, Frames
<1>3. CASE asked'[s][u].from = asked[s][u].from
  BY <1>1, <1>3, Grows, StartsAreNat DEF AskedInv
<1>4. CASE u = visit.unit /\ visit.pc \in AtUnit /\ asked'[s][u].from = ChunkStart(u)
  <2>1. visit.start \in Int /\ visit.start + Day <= now
    BY <1>1, <1>4 DEF WindowInv, AtUnit, VisitType
  <2>2. Starts[u] \in Nat /\ Day \in Nat /\ now' \in Nat /\ now <= now'
    BY Grows, StartsAreNat
  <2>3. ChunkStart(u) = visit.start \/ ChunkStart(u) = Starts[u]
    BY DEF ChunkStart, Later
  <2>4. Starts[u] <= ChunkStart(u)
    BY <2>1, <2>2 DEF ChunkStart, Later
  <2>. QED  BY <1>1, <1>4, <2>1, <2>2, <2>3, <2>4
<1>. QED  BY <1>2, <1>3, <1>4

-----------------------------------------------------------------------------
\* What is recorded stays recorded, and done stays done: a visit asks again only for
\* units that are not done.
LEMMA RecordsStay ==
  ASSUME TypeInv, CoverInv, [Next]_vars, NEW s \in Symbols, NEW u \in Units
  PROVE  /\ manifest[s][u] # "none" => manifest'[s][u] # "none"
         /\ manifest[s][u] \in Done => manifest'[s][u] \in Done
<1>1. ASSUME NEW t \in Symbols, Record(t)
      PROVE  /\ manifest'[s][u] = manifest[s][u]
               \/ /\ manifest[s][u] \notin Done
                  /\ manifest'[s][u] # "none"
  <2>1. visit.pc = "record" /\ t \in visit.batch /\ visit.unit \in Units
    BY <1>1 DEF Record, TypeInv, UnitInv, AtUnit
  <2>2. manifest[t][visit.unit] \notin Done
    BY <2>1 DEF CoverInv, AtUnit
  <2>3. manifest' = [manifest EXCEPT ![t] = [@ EXCEPT ![visit.unit] = Outcome(t)]]
    BY <1>1 DEF Record
  <2>4. Outcome(t) # "none"
    BY DEF Outcome
  <2>. QED  BY <2>1, <2>2, <2>3, <2>4 DEF TypeInv, TypeOK
<1>. QED  BY <1>1, Frames

LEMMA CoverStep ==
  ASSUME TypeInv, CoverInv, [Next]_vars
  PROVE  CoverInv'
<1>. USE StartsAreNat DEF AtUnit
<1>0. visit \in VisitType
  BY DEF TypeInv, TypeOK, VisitType
<1>. USE <1>0 DEF VisitType
<1>1. CASE Tick \/ UNCHANGED vars
  BY <1>1 DEF Tick, vars, CoverInv, InWindow, WindowRecorded
<1>2. ASSUME NEW kind \in Kinds, NEW syms \in SUBSET Known,
             NEW end \in Ends(kind), NEW span \in Spans(kind),
             Begin(kind, syms, end, span)
      PROVE  CoverInv'
  <2>1. PICK first \in 0..Periods :
          /\ \A u \in Units : u < first <=> Starts[u + 1] <= end - span
          /\ visit' = [NoVisit EXCEPT !.pc = "plan", !.kind = kind, !.syms = syms,
                         !.start = end - span, !.end = end, !.unit = first]
    BY <1>2 DEF Begin
  <2>2. end - span \in Int
    BY BeginTypes
  <2>3. visit'.pc = "plan" /\ visit'.unit = first /\ visit'.start = end - span
    BY <2>1 DEF NoVisit
  <2>4. \A u \in Units : first <= u => end - span < Starts[u + 1]
    BY <2>1, <2>2 DEF Units
  <2>5. \A u \in Units : u < first => ~(end - span < Starts[u + 1])
    BY <2>1, <2>2 DEF Units
  <2>. QED  BY <2>3, <2>4, <2>5 DEF CoverInv, WindowRecorded, InWindow
<1>3. CASE PlanUnit
  <2>. DEFINE todo == Pending(visit.syms, visit.unit)
  <2>1. /\ visit.pc = "plan" /\ visit.unit \in Units /\ UNCHANGED manifest
        /\ WindowRecorded(visit.unit)
        /\ \A u \in Units : visit.unit <= u => visit.start < Starts[u + 1]
    BY <1>3 DEF PlanUnit, InWindow, CoverInv
  <2>2. /\ todo \subseteq visit.syms /\ NextBatch(todo) \subseteq todo
        /\ \A s \in todo : manifest[s][visit.unit] \notin Done
        /\ \A s \in visit.syms \ todo : manifest[s][visit.unit] # "none"
    BY DEF Pending, NextBatch, Done
  <2>3. CASE todo = {}
    <3>1. WindowRecorded(visit.unit + 1)
      BY <2>1, <2>2, <2>3 DEF WindowRecorded, InWindow, Units
    <3>2. visit' = [visit EXCEPT !.unit = @ + 1]
      BY <1>3, <2>3 DEF PlanUnit
    <3>. QED  BY <2>1, <3>1, <3>2 DEF CoverInv, WindowRecorded, InWindow
  <2>4. CASE todo # {}
    <3>1. visit' = [visit EXCEPT !.pc = "fetch", !.todo = todo, !.batch = NextBatch(todo)]
      BY <1>3, <2>4 DEF PlanUnit
    <3>. HIDE DEF todo
    <3>. QED  BY <2>1, <2>2, <3>1 DEF CoverInv, WindowRecorded, InWindow
  <2>. QED  BY <2>3, <2>4
<1>4. CASE FetchFails \/ Fetch \/ Write
  <2>1. /\ visit.pc \in AtUnit /\ visit'.pc \in AtUnit /\ UNCHANGED manifest
        /\ visit'.unit = visit.unit /\ visit'.syms = visit.syms
        /\ visit'.batch = visit.batch /\ visit'.todo = visit.todo
        /\ visit'.start = visit.start /\ visit'.end = visit.end
    BY <1>4 DEF FetchFails, Fetch, Write
  <2>2. WindowRecorded(visit.unit)'
    BY <2>1 DEF CoverInv, WindowRecorded, InWindow
  <2>. QED  BY <2>1, <2>2 DEF CoverInv, WindowRecorded, InWindow
<1>5. ASSUME NEW s \in Symbols, Record(s)
      PROVE  CoverInv'
  <2>1. /\ visit.pc = "record" /\ s \in visit.batch /\ visit.unit \in Units
        /\ visit' = [visit EXCEPT !.batch = @ \ {s}, !.todo = @ \ {s}]
        /\ manifest' = [manifest EXCEPT ![s] = [@ EXCEPT ![visit.unit] = Outcome(s)]]
    BY <1>5 DEF Record, TypeInv, UnitInv
  <2>2. /\ visit.batch \subseteq visit.todo /\ visit.todo \subseteq visit.syms
        /\ visit.syms \subseteq Symbols
    BY <2>1 DEF CoverInv
  <2>3. WindowRecorded(visit.unit)'
    BY <2>1, <2>2, RecordsStay DEF CoverInv, WindowRecorded, InWindow
  <2>4. \A t \in visit'.todo : manifest'[t][visit.unit] \notin Done
    BY <2>1, <2>2 DEF CoverInv, TypeInv, TypeOK
  <2>5. ASSUME NEW t \in visit'.syms \ visit'.todo
        PROVE  manifest'[t][visit.unit] # "none"
    <3>1. CASE t = s
      BY <2>1, <3>1 DEF TypeInv, TypeOK, Outcome
    <3>2. CASE t # s
      <4>1. t \in visit.syms \ visit.todo /\ t \in Symbols
        BY <2>1, <2>2, <2>5, <3>2
      <4>. QED  BY <2>1, <3>2, <4>1 DEF CoverInv, TypeInv, TypeOK
    <3>. QED  BY <3>1, <3>2
  <2>6. /\ visit'.pc = "record" /\ visit'.unit = visit.unit /\ visit'.syms = visit.syms
        /\ visit'.start = visit.start /\ visit'.end = visit.end
        /\ visit'.batch \subseteq visit'.todo /\ visit'.todo \subseteq visit'.syms
    BY <2>1, <2>2
  <2>. QED  BY <2>1, <2>3, <2>4, <2>5, <2>6 DEF CoverInv, WindowRecorded, InWindow
<1>6. CASE NextFetch
  <2>1. /\ visit.pc = "record" /\ visit.unit \in Units /\ UNCHANGED manifest
        /\ NextBatch(visit.todo) \subseteq visit.todo
    BY <1>6 DEF NextFetch, TypeInv, UnitInv, NextBatch
  <2>2. CASE visit.todo = {}
    <3>1. WindowRecorded(visit.unit + 1)
      BY <2>1, <2>2 DEF CoverInv, WindowRecorded, InWindow, Units
    <3>2. visit' = [visit EXCEPT !.pc = "plan", !.unit = @ + 1]
      BY <1>6, <2>2 DEF NextFetch
    <3>. QED  BY <2>1, <3>1, <3>2 DEF CoverInv, WindowRecorded, InWindow
  <2>3. CASE visit.todo # {}
    <3>1. visit' = [visit EXCEPT !.pc = "fetch", !.batch = NextBatch(visit.todo)]
      BY <1>6, <2>3 DEF NextFetch
    <3>. QED  BY <2>1, <3>1 DEF CoverInv, WindowRecorded, InWindow
  <2>. QED  BY <2>2, <2>3
<1>7. CASE EndOfUnits
  <2>1. /\ visit.pc = "plan" /\ ~InWindow(visit.unit) /\ UNCHANGED manifest
        /\ visit'.pc \in {"tail", "done"} /\ visit'.syms = visit.syms
        /\ visit'.start = visit.start /\ visit'.end = visit.end
    <3>1. \/ \E f, todo : visit' = [visit EXCEPT !.pc = "tail", !.tailFrom = f, !.todo = todo]
          \/ visit' = [visit EXCEPT !.pc = "done"]
      BY <1>7 DEF EndOfUnits
    <3>. QED  BY <1>7, <3>1 DEF EndOfUnits
  <2>2. ASSUME NEW s \in visit.syms, NEW u \in Units, InWindow(u)
        PROVE  manifest[s][u] # "none"
    <3>1. u < visit.unit
      <4>. SUFFICES ASSUME visit.unit <= u PROVE FALSE
        BY DEF Units
      <4>1. visit.unit \in Units /\ visit.unit \in 0..Periods /\ u \in 0..Periods
        BY DEF Units
      <4>2. Starts[visit.unit] <= Starts[u]
        BY <4>1, StartsAscend
      <4>3. visit.start < Starts[visit.unit + 1]
        BY <2>1, <4>1 DEF CoverInv
      <4>. QED  BY <2>1, <2>2, <4>1, <4>2, <4>3 DEF InWindow
    <3>. QED  BY <2>1, <2>2, <3>1 DEF CoverInv, WindowRecorded, InWindow
  <2>. QED  BY <2>1, <2>2 DEF CoverInv, InWindow
<1>8. CASE TailBatch
  <2>1. /\ visit.pc = "tail" /\ UNCHANGED manifest
        /\ visit' = [visit EXCEPT !.todo = @ \ NextBatch(visit.todo)]
    BY <1>8 DEF TailBatch
  <2>. QED  BY <2>1 DEF CoverInv, InWindow
<1>9. CASE EndOfTail
  BY <1>9 DEF EndOfTail, CoverInv, InWindow
<1>10. CASE Return \/ Die
  BY <1>10 DEF Return, Die, CoverInv, NoVisit
<1>. QED  BY <1>1, <1>2, <1>3, <1>4, <1>5, <1>6, <1>7, <1>8, <1>9, <1>10
          DEF Next, Work

-----------------------------------------------------------------------------
\* The write comes before the record, and covers what was asked for.
LEMMA WrittenStep ==
  ASSUME TypeInv, BatchWritten, [Next]_vars
  PROVE  BatchWritten'
<1>. DEFINE u == visit.unit
<1>0. /\ visit \in VisitType
      /\ asked \in [Symbols -> [Units -> [from: Nat, to: Int]]]
      /\ bars \in [Symbols -> SUBSET Instants]
      /\ visit.pc \in AtUnit => u \in Units
  BY DEF TypeInv, TypeOK, VisitType, UnitInv
<1>. USE <1>0 DEF VisitType
<1>1. CASE Write
  <2>1. /\ visit.pc = "write" /\ visit' = [visit EXCEPT !.pc = "record"] /\ UNCHANGED now
        /\ \A s \in visit.batch :
             /\ bars'[s] = bars[s] \cup Vendor(s, ChunkStart(u), Reach(u))
             /\ asked'[s] = [asked[s] EXCEPT ![u].from = ChunkStart(u)]
    BY <1>1 DEF Write
  <2>2. u \in Units
    BY <2>1 DEF AtUnit
  <2>3. /\ visit'.batch = visit.batch /\ visit'.unit = u
        /\ visit'.start = visit.start /\ visit'.end = visit.end
    BY <2>1
  <2>4. ChunkStart(u)' = ChunkStart(u) /\ Reach(u)' = Reach(u)
    BY <2>1, <2>3 DEF ChunkStart, Reach, ChunkEnd
  <2>5. ASSUME NEW s \in visit.batch
        PROVE  /\ asked'[s][u].from = ChunkStart(u)
               /\ Vendor(s, ChunkStart(u), Reach(u)) \subseteq bars'[s]
    <3>. HIDE DEF u
    <3>1. asked[s] \in [Units -> [from: Nat, to: Int]]
      OBVIOUS
    <3>2. asked'[s][u] = [asked[s][u] EXCEPT !.from = ChunkStart(u)]
      BY <2>1, <2>2, <3>1
    <3>3. asked'[s][u].from = ChunkStart(u)
      BY <2>2, <3>1, <3>2
    <3>. QED  BY <2>1, <3>3
  <2>. QED  BY <2>1, <2>3, <2>4, <2>5 DEF BatchWritten, Vendor
<1>2. ASSUME NEW s \in Symbols, Record(s)
      PROVE  BatchWritten'
  <2>1. /\ visit.pc = "record" /\ visit' = [visit EXCEPT !.batch = @ \ {s}, !.todo = @ \ {s}]
        /\ UNCHANGED <<bars, now>>
        /\ \A t \in Symbols \ {s} : asked'[t] = asked[t]
    BY <1>2 DEF Record
  <2>2. /\ visit'.batch = visit.batch \ {s} /\ visit'.unit = u /\ visit'.failed = visit.failed
        /\ visit'.start = visit.start /\ visit'.end = visit.end
    BY <2>1
  <2>3. ChunkStart(u)' = ChunkStart(u) /\ Reach(u)' = Reach(u)
    BY <2>1, <2>2 DEF ChunkStart, Reach, ChunkEnd
  <2>. QED  BY <2>1, <2>2, <2>3 DEF BatchWritten, Vendor
<1>3. CASE visit'.pc # "record" \/ visit'.failed
  BY <1>3 DEF BatchWritten
<1>4. CASE UNCHANGED vars
  BY <1>4 DEF vars, BatchWritten, Vendor, ChunkStart, Reach, ChunkEnd
<1>5. ASSUME Tick \/ PlanUnit \/ FetchFails \/ Fetch \/ NextFetch \/ EndOfUnits \/ TailBatch
               \/ EndOfTail \/ Return \/ Die
      PROVE  visit'.pc # "record" \/ visit'.failed
  <2>1. EndOfUnits => visit'.pc # "record"
    <3>. SUFFICES ASSUME EndOfUnits PROVE visit'.pc # "record"
      OBVIOUS
    <3>1. \/ \E f, todo : visit' = [visit EXCEPT !.pc = "tail", !.tailFrom = f, !.todo = todo]
          \/ visit' = [visit EXCEPT !.pc = "done"]
      BY DEF EndOfUnits
    <3>. QED  BY <3>1
  <2>2. PlanUnit => visit'.pc # "record"
    BY DEF PlanUnit
  <2>3. NextFetch => visit'.pc # "record"
    BY DEF NextFetch
  <2>4. FetchFails => visit'.failed
    BY DEF FetchFails
  <2>5. Tick \/ Fetch \/ EndOfTail => visit'.pc # "record"
    BY DEF Tick, Fetch, EndOfTail
  <2>6. TailBatch => visit'.pc # "record"
    BY DEF TailBatch
  <2>7. Return \/ Die => visit'.pc # "record"
    BY DEF Return, Die, NoVisit
  <2>. QED  BY <1>5, <2>1, <2>2, <2>3, <2>4, <2>5, <2>6, <2>7
<1>6. ASSUME NEW kind \in Kinds, NEW syms \in SUBSET Known,
             NEW end \in Ends(kind), NEW span \in Spans(kind),
             Begin(kind, syms, end, span)
      PROVE  visit'.pc # "record"
  BY <1>6 DEF Begin, NoVisit
<1>. QED  BY <1>1, <1>2, <1>3, <1>4, <1>5, <1>6 DEF Next, Work

\* A record says what was written; a fetch asks again only for what is not done.
LEMMA StoredStep ==
  ASSUME TypeInv, CoverInv, BatchWritten, DoneUnitsStored, [Next]_vars
  PROVE  DoneUnitsStored'
<1>. SUFFICES ASSUME NEW s \in Symbols, NEW u \in Units, manifest'[s][u] \in Done
              PROVE  /\ Vendor(s, asked'[s][u].from, asked'[s][u].to) \subseteq bars'[s]
                     /\ manifest'[s][u] = "empty" =>
                          Vendor(s, asked'[s][u].from, asked'[s][u].to) = {}
  BY DEF DoneUnitsStored, Vendor, Done
<1>0. /\ visit \in VisitType
      /\ asked \in [Symbols -> [Units -> [from: Nat, to: Int]]]
      /\ manifest \in [Symbols -> [Units -> Done \cup {"none", "error"}]]
      /\ visit.pc \in AtUnit => visit.unit \in Units
  BY DEF TypeInv, TypeOK, VisitType, UnitInv
<1>1. CASE asked'[s][u] = asked[s][u] /\ manifest'[s][u] = manifest[s][u]
  <2>1. bars[s] \subseteq bars'[s]
    BY Grows
  <2>. QED  BY <1>1, <2>1 DEF DoneUnitsStored
<1>2. CASE Write
  <2>1. ~(s \in visit.batch /\ u = visit.unit)
    <3>1. visit.pc = "write" /\ UNCHANGED manifest
      BY <1>2 DEF Write
    <3>. QED  BY <3>1 DEF CoverInv, AtUnit
  <2>2. asked'[s][u] = asked[s][u] /\ manifest'[s][u] = manifest[s][u]
    BY <1>0, <1>2, <2>1 DEF Write
  <2>. QED  BY <1>1, <2>2
<1>3. ASSUME NEW t \in Symbols, Record(t), s = t /\ u = visit.unit
      PROVE  /\ Vendor(s, asked'[s][u].from, asked'[s][u].to) \subseteq bars'[s]
             /\ manifest'[s][u] = "empty" =>
                  Vendor(s, asked'[s][u].from, asked'[s][u].to) = {}
  <2>. DEFINE r == [from |-> ChunkStart(u), to |-> Reach(u)]
  <2>1. /\ visit.pc = "record" /\ s \in visit.batch
        /\ manifest' = [manifest EXCEPT ![s] = [@ EXCEPT ![u] = Outcome(s)]]
        /\ asked' = IF Outcome(s) = "error" THEN asked
                    ELSE [asked EXCEPT ![s] = [@ EXCEPT ![u] = r]]
        /\ UNCHANGED bars
    BY <1>3 DEF Record
  <2>2. manifest'[s][u] = Outcome(s)
    BY <1>0, <2>1
  <2>3. ~visit.failed /\ Outcome(s) # "error"
    BY <2>2 DEF Outcome, Done
  <2>4. Vendor(s, ChunkStart(u), Reach(u)) \subseteq bars[s]
    BY <1>3, <2>1, <2>3 DEF BatchWritten
  <2>5. Outcome(s) = "empty" => Vendor(s, ChunkStart(u), Reach(u)) = {}
    BY <1>3 DEF Outcome
  <2>6. asked'[s][u] = r
    <3>. HIDE DEF r
    <3>. QED  BY <1>0, <2>1, <2>3
  <2>7. r.from = ChunkStart(u) /\ r.to = Reach(u)
    OBVIOUS
  <2>. HIDE DEF r
  <2>. QED  BY <2>1, <2>2, <2>4, <2>5, <2>6, <2>7
<1>4. ASSUME NEW t \in Symbols, Record(t), ~(s = t /\ u = visit.unit)
      PROVE  asked'[s][u] = asked[s][u] /\ manifest'[s][u] = manifest[s][u]
  <2>. DEFINE r == [from |-> ChunkStart(visit.unit), to |-> Reach(visit.unit)]
  <2>1. /\ manifest' = [manifest EXCEPT ![t] = [@ EXCEPT ![visit.unit] = Outcome(t)]]
        /\ asked' = asked \/ asked' = [asked EXCEPT ![t] = [@ EXCEPT ![visit.unit] = r]]
    BY <1>4 DEF Record
  <2>. HIDE DEF r
  <2>. QED  BY <1>0, <1>4, <2>1
<1>5. CASE UNCHANGED <<asked, manifest>>
  BY <1>1, <1>5
<1>. QED  BY <1>1, <1>2, <1>3, <1>4, <1>5, Frames

-----------------------------------------------------------------------------
LEMMA Types ==
  ASSUME TypeInv
  PROVE  /\ visit \in VisitType /\ now \in Nat
         /\ asked \in [Symbols -> [Units -> [from: Nat, to: Int]]]
         /\ bars \in [Symbols -> SUBSET Instants]
         /\ \A s \in Symbols : bars[s] \subseteq Nat /\ Traded[s] \subseteq Nat
         /\ visit.pc \in AtUnit => visit.unit \in Units
  BY StartsAreNat, BackfillConstants DEF TypeInv, TypeOK, VisitType, UnitInv

\* A chunk written over what is stored leaves no hole: it reaches the end of its period,
\* or today, or the last 24 hours, where the older chunk has no hole.
LEMMA ChunkJoins ==
  ASSUME TypeInv, WindowInv, BarsPast, AskedInv, PeriodsJoin, Write, warehouse = "main",
         NEW s \in Symbols, NEW u \in Units
  PROVE  NoHoleIn(s, u)'
<1>. DEFINE chunk == ChunkStart(visit.unit)
            reach == Reach(visit.unit)
<1>0. /\ visit \in VisitType /\ now \in Nat /\ Day \in Nat
      /\ asked \in [Symbols -> [Units -> [from: Nat, to: Int]]]
      /\ bars[s] \subseteq Nat /\ Traded[s] \subseteq Nat
      /\ visit.pc = "write" /\ visit.unit \in Units
      /\ Starts[u] \in Nat /\ Starts[u + 1] \in Nat
      /\ Starts[visit.unit] \in Nat /\ Starts[visit.unit + 1] \in Nat
  BY Types, StartsAreNat DEF Write, AtUnit
<1>1. /\ chunk \in Nat /\ reach \in Int /\ visit.end \in Int
      /\ Starts[visit.unit] <= chunk /\ reach <= Starts[visit.unit + 1]
      /\ reach \in {now, visit.end, Starts[visit.unit + 1]}
  BY <1>0 DEF ChunkStart, Later, Reach, ChunkEnd, Earlier, VisitType
<1>2. NoHoleIn(s, u)
  BY DEF PeriodsJoin
<1>. SUFFICES ASSUME NEW d \in bars'[s], Starts[u] <= d, d < Starts[u + 1],
                     NEW e \in Vendor(s, asked'[s][u].from, d)
              PROVE  e \in bars'[s] /\ Starts[u] <= e /\ e < Starts[u + 1]
  BY DEF NoHoleIn
<1>. HIDE DEF chunk, reach
<1>3. CASE s \in visit.batch /\ u = visit.unit
  <2>1. /\ bars'[s] = bars[s] \cup Vendor(s, chunk, reach)
        /\ asked'[s][u].from = chunk
    <3>1. asked[s] \in [Units -> [from: Nat, to: Int]]
      BY <1>0
    <3>2. asked'[s] = [asked[s] EXCEPT ![u].from = chunk]
      BY <1>3 DEF Write, chunk
    <3>3. asked'[s][u] = [asked[s][u] EXCEPT !.from = chunk]
      BY <3>1, <3>2
    <3>4. asked'[s][u].from = chunk
      BY <3>1, <3>3
    <3>. QED  BY <1>3, <3>4 DEF Write, chunk, reach
  <2>2. /\ e \in Traded[s] /\ e \in Nat /\ d \in Nat /\ chunk <= e /\ e < d
        /\ Starts[u] <= e /\ e < Starts[u + 1]
    BY <1>0, <1>1, <1>3, <2>1 DEF Vendor
  <2>3. CASE e < reach
    BY <2>1, <2>2, <2>3 DEF Vendor
  <2>4. CASE reach <= e
    <3>1. d \in bars[s] /\ d < now
      BY <1>0, <1>1, <2>1, <2>2, <2>4 DEF Vendor, BarsPast
    <3>2. visit.end <= e /\ now <= visit.end + Day
      BY <1>0, <1>1, <1>3, <2>2, <2>4, <3>1 DEF WindowInv
    <3>3. asked[s][u].from \in Nat /\ asked[s][u].from <= e
      BY <1>0, <1>1, <2>2, <3>2 DEF AskedInv
    <3>. QED  BY <1>2, <2>1, <2>2, <3>1, <3>3 DEF NoHoleIn, Vendor
  <2>. QED  BY <1>1, <2>2, <2>3, <2>4
<1>4. CASE ~(s \in visit.batch /\ u = visit.unit)
  <2>1. asked'[s][u] = asked[s][u]
    BY <1>0, <1>4 DEF Write
  <2>2. d \in bars[s]
    <3>. SUFFICES ASSUME d \notin bars[s] PROVE FALSE
      OBVIOUS
    <3>1. s \in visit.batch /\ d \in Vendor(s, chunk, reach)
      BY DEF Write, chunk, reach
    <3>2. d \in Nat /\ Starts[visit.unit] <= d /\ d < Starts[visit.unit + 1]
      BY <1>0, <1>1, <3>1 DEF Vendor
    <3>. QED  BY <1>0, <1>4, <3>1, <3>2, OnePeriodOfAnInstant
  <2>3. bars[s] \subseteq bars'[s]
    BY DEF Write
  <2>. QED  BY <1>2, <2>1, <2>2, <2>3 DEF NoHoleIn
<1>. QED  BY <1>3, <1>4

\* The tail of an onboarding begins at a stored bar.
LEMMA TailJoins ==
  ASSUME TypeInv, AskedInv, TailInv, WindowInv, PeriodsJoin, TailBatch, warehouse = "main",
         NEW s \in Symbols, NEW u \in Units
  PROVE  NoHoleIn(s, u)'
<1>. DEFINE until == Earlier(visit.end, now)
<1>0. /\ visit \in VisitType /\ now \in Nat
      /\ asked[s][u].from \in Nat
      /\ bars[s] \subseteq Nat /\ Traded[s] \subseteq Nat
      /\ Starts[u] \in Nat /\ Starts[u + 1] \in Nat
      /\ until \in Int /\ visit.tailFrom \in Int
  <2>1. visit \in VisitType /\ asked[s] \in [Units -> [from: Nat, to: Int]]
    BY Types
  <2>2. asked[s][u].from \in Nat
    BY <2>1
  <2>3. Starts[u] \in Nat /\ Starts[u + 1] \in Nat
    BY StartsAreNat
  <2>4. now \in Nat /\ bars[s] \subseteq Nat /\ Traded[s] \subseteq Nat
    BY Types
  <2>5. until \in Int /\ visit.tailFrom \in Int
    BY <2>1, <2>4 DEF Earlier, VisitType
  <2>. QED  BY <2>1, <2>2, <2>3, <2>4, <2>5
<1>1. NoHoleIn(s, u) /\ UNCHANGED asked /\ bars[s] \subseteq bars'[s]
  BY DEF PeriodsJoin, TailBatch
<1>. SUFFICES ASSUME NEW d \in bars'[s], Starts[u] <= d, d < Starts[u + 1],
                     NEW e \in Vendor(s, asked[s][u].from, d)
              PROVE  e \in bars'[s] /\ Starts[u] <= e /\ e < Starts[u + 1]
  BY <1>1 DEF NoHoleIn
<1>. HIDE DEF until
<1>2. CASE d \in bars[s]
  BY <1>1, <1>2 DEF NoHoleIn
<1>3. CASE d \notin bars[s]
  <2>1. /\ s \in NextBatch(visit.todo) /\ d \in Vendor(s, visit.tailFrom, until)
        /\ bars'[s] = bars[s] \cup Vendor(s, visit.tailFrom, until)
    BY <1>3 DEF TailBatch, until
  <2>2. visit.tailFrom \in bars[s] /\ visit.tailFrom \in Nat
    <3>1. visit.kind = "onboard"
      BY DEF TailInv, TailBatch, WindowInv, Kinds
    <3>. QED  BY <1>0, <2>1, <3>1 DEF TailInv, TailBatch, NextBatch
  <2>3. /\ visit.tailFrom <= d /\ d < until /\ d \in Nat
        /\ e \in Traded[s] /\ e \in Nat /\ asked[s][u].from <= e /\ e < d
        /\ Starts[u] <= asked[s][u].from
    BY <1>0, <2>1 DEF Vendor, AskedInv
  <2>4. CASE visit.tailFrom <= e
    BY <1>0, <2>1, <2>3, <2>4 DEF Vendor
  <2>5. CASE e < visit.tailFrom
    <3>1. Starts[u] <= visit.tailFrom /\ visit.tailFrom < Starts[u + 1]
      BY <1>0, <2>2, <2>3, <2>5
    <3>. QED  BY <1>1, <2>2, <2>3, <2>5, <3>1 DEF NoHoleIn, Vendor
  <2>. QED  BY <2>2, <2>3, <2>4, <2>5
<1>. QED  BY <1>2, <1>3

LEMMA JoinStep ==
  ASSUME TypeInv, CoverInv, WindowInv, TailInv, BarsPast, AskedInv, BatchWritten, PeriodsJoin,
         [Next]_vars
  PROVE  PeriodsJoin'
<1>. SUFFICES ASSUME warehouse' = "main", NEW s \in Symbols, NEW u \in Units
              PROVE  NoHoleIn(s, u)'
  BY DEF PeriodsJoin
<1>1. warehouse = "main"
  BY Frames
<1>2. CASE Write
  BY <1>1, <1>2, ChunkJoins
<1>3. CASE TailBatch
  BY <1>1, <1>3, TailJoins
<1>4. ASSUME UNCHANGED bars, asked'[s][u].from = asked[s][u].from
      PROVE  NoHoleIn(s, u)'
  BY <1>1, <1>4 DEF PeriodsJoin, NoHoleIn, Vendor
<1>5. ASSUME NEW t \in Symbols, Record(t)
      PROVE  UNCHANGED bars /\ asked'[s][u].from = asked[s][u].from
  <2>. DEFINE r == [from |-> ChunkStart(visit.unit), to |-> Reach(visit.unit)]
  <2>1. /\ visit.pc = "record" /\ t \in visit.batch /\ UNCHANGED bars
        /\ asked' = IF Outcome(t) = "error" THEN asked
                    ELSE [asked EXCEPT ![t] = [@ EXCEPT ![visit.unit] = r]]
        /\ r.from = ChunkStart(visit.unit)
    BY <1>5 DEF Record
  <2>2. Outcome(t) # "error" => asked[t][visit.unit].from = ChunkStart(visit.unit)
    BY <2>1 DEF Outcome, BatchWritten
  <2>3. asked \in [Symbols -> [Units -> [from: Nat, to: Int]]]
    BY Types
  <2>. HIDE DEF r
  <2>. QED  BY <2>1, <2>2, <2>3
<1>. QED  BY <1>2, <1>3, <1>4, <1>5, Frames

-----------------------------------------------------------------------------
\* The tail begins where TailStart says, and every batch of it is written before it
\* returns.
LEMMA TailStep ==
  ASSUME TypeInv, WindowInv, BarsPast, TailInv, [Next]_vars
  PROVE  TailInv'
<1>0. visit \in VisitType /\ bars \in [Symbols -> SUBSET Instants]
  BY Types
<1>. USE <1>0 DEF VisitType
<1>1. CASE visit'.pc # "tail"
  BY <1>1 DEF TailInv
<1>2. CASE EndOfUnits /\ visit'.pc = "tail"
  <2>. DEFINE stored == UNION {bars[s] : s \in visit.syms}
  <2>1. /\ visit.pc = "plan" /\ UNCHANGED <<bars, now>>
        /\ visit' = [visit EXCEPT !.pc = "tail", !.tailFrom = TailStart(stored),
                                  !.todo = visit.syms]
        /\ visit.kind \in {"refresh", "onboard"}
        /\ visit.kind = "onboard" => stored # {}
    BY <1>2 DEF EndOfUnits
  <2>2. stored \in SUBSET Instants
    OBVIOUS
  <2>3. visit.kind = "refresh" => TailStart(stored) <= visit.end - Tail
    <3>. HIDE DEF stored
    <3>. QED  BY <2>2, NewestIsStored, StartsAreNat DEF TailStart
  <2>4. ASSUME visit.kind = "onboard", NEW s \in visit.syms
        PROVE  TailStart(stored) \in bars[s]
    <3>1. Cardinality(visit.syms) = 1 /\ IsFiniteSet(visit.syms)
      BY <2>1, <2>4, BackfillConstants, FS_Subset DEF WindowInv
    <3>2. PICK x : visit.syms = {x}
      BY <3>1, FS_Singleton
    <3>3. stored = bars[s] /\ TailStart(stored) = Newest(stored, 0)
      BY <2>4, <3>2 DEF TailStart
    <3>. HIDE DEF stored
    <3>. QED  BY <2>1, <2>2, <2>4, <3>3, NewestIsStored
  <2>. HIDE DEF stored
  <2>5. /\ visit'.kind = visit.kind /\ visit'.syms = visit.syms /\ visit'.end = visit.end
        /\ visit'.todo = visit.syms /\ visit'.tailFrom = TailStart(stored)
    BY <2>1
  <2>. QED  BY <2>1, <2>3, <2>4, <2>5 DEF TailInv
<1>3. CASE TailBatch
  <2>1. /\ visit.pc = "tail" /\ UNCHANGED now
        /\ visit' = [visit EXCEPT !.todo = @ \ NextBatch(visit.todo)]
        /\ \A s \in Symbols : bars[s] \subseteq bars'[s]
        /\ \A s \in NextBatch(visit.todo) \cap Symbols :
             Vendor(s, visit.tailFrom, Until) \subseteq bars'[s]
    BY <1>3 DEF TailBatch, Until
  <2>2. /\ visit'.kind = visit.kind /\ visit'.syms = visit.syms /\ visit'.end = visit.end
        /\ visit'.tailFrom = visit.tailFrom
        /\ visit'.todo = visit.todo \ NextBatch(visit.todo)
    BY <2>1
  <2>3. Until' = Until
    BY <2>1, <2>2 DEF Until
  <2>4. visit.syms \subseteq Symbols
    OBVIOUS
  <2>. QED  BY <2>1, <2>2, <2>3, <2>4 DEF TailInv, Vendor
<1>4. CASE UNCHANGED vars
  BY <1>4 DEF vars, TailInv, Vendor, Until
<1>5. ASSUME visit'.pc = "tail"
      PROVE  EndOfUnits \/ TailBatch \/ UNCHANGED vars
  <2>1. ASSUME NEW kind, NEW syms, NEW end, NEW span, Begin(kind, syms, end, span)
        PROVE  visit'.pc # "tail"
    BY <2>1 DEF Begin, NoVisit
  <2>2. ~PlanUnit /\ ~NextFetch
    BY <1>5 DEF PlanUnit, NextFetch
  <2>3. ~Tick /\ ~FetchFails /\ ~Fetch /\ ~Write /\ ~EndOfTail
    BY <1>5 DEF Tick, FetchFails, Fetch, Write, EndOfTail
  <2>4. ~Return /\ ~Die
    BY <1>5 DEF Return, Die, NoVisit
  <2>5. \A s \in Symbols : ~Record(s)
    BY <1>5 DEF Record
  <2>. QED  BY <1>5, <2>1, <2>2, <2>3, <2>4, <2>5 DEF Next, Work
<1>. QED  BY <1>1, <1>2, <1>3, <1>4, <1>5

\* When the last batch of the tail is written: for an onboarding, what is stored before
\* the tail has no hole either.
LEMMA CatchUpStep ==
  ASSUME TypeInv, WindowInv, BarsPast, AskedInv, PeriodsJoin, TailInv, TailsCatchUp,
         [Next]_vars
  PROVE  TailsCatchUp'
<1>0. visit \in VisitType /\ now \in Nat /\ bars \in [Symbols -> SUBSET Instants]
  BY Types
<1>. USE <1>0 DEF VisitType
<1>1. CASE visit'.pc # "done"
  BY <1>1 DEF TailsCatchUp
<1>2. CASE EndOfUnits /\ visit'.pc = "done"
  <2>1. /\ visit' = [visit EXCEPT !.pc = "done"] /\ UNCHANGED <<bars, now, asked>>
        /\ visit.kind # "refresh"
        /\ visit.kind = "onboard" => UNION {bars[s] : s \in visit.syms} = {}
    <3>. DEFINE stored == UNION {bars[s] : s \in visit.syms}
    <3>1. /\ visit.pc = "plan" /\ UNCHANGED <<bars, now, asked>>
          /\ IF visit.kind = "refresh" \/ (visit.kind = "onboard" /\ stored # {})
             THEN visit' = [visit EXCEPT !.pc = "tail", !.tailFrom = TailStart(stored),
                                         !.todo = visit.syms]
             ELSE visit' = [visit EXCEPT !.pc = "done"]
      BY <1>2 DEF EndOfUnits
    <3>. HIDE DEF stored
    <3>2. ~(visit.kind = "refresh" \/ (visit.kind = "onboard" /\ stored # {}))
      BY <1>2, <3>1
    <3>. QED  BY <3>1, <3>2 DEF stored
  <2>. QED  BY <2>1 DEF TailsCatchUp
<1>3. CASE EndOfTail
  <2>1. /\ visit.pc = "tail" /\ visit.todo = {} /\ UNCHANGED <<bars, now, asked>>
        /\ visit' = [visit EXCEPT !.pc = "done"]
    BY <1>3 DEF EndOfTail
  <2>2. /\ visit'.kind = visit.kind /\ visit'.syms = visit.syms /\ visit'.end = visit.end
        /\ Until' = Until /\ Until \in Int /\ Until <= now /\ Until <= visit.end
    BY <2>1 DEF Until, Earlier
  <2>3. ASSUME NEW s \in visit.syms, visit.kind = "refresh"
        PROVE  Vendor(s, visit.end - Tail, Until) \subseteq bars[s]
    <3>1. /\ visit.tailFrom <= visit.end - Tail
          /\ Vendor(s, visit.tailFrom, Until) \subseteq bars[s]
      BY <2>1, <2>3 DEF TailInv
    <3>2. Traded[s] \subseteq Nat
      BY Types
    <3>. QED  BY <2>2, <3>1, <3>2, StartsAreNat DEF Vendor
  <2>4. ASSUME NEW s \in visit.syms, visit.kind = "onboard",
               NEW u \in Units, Starts[u] < visit.end, visit.end <= Starts[u + 1]
        PROVE  Vendor(s, asked[s][u].from, Until) \subseteq bars[s]
    <3>. SUFFICES ASSUME NEW e \in Vendor(s, asked[s][u].from, Until) PROVE e \in bars[s]
      OBVIOUS
    <3>1. /\ s \in Symbols /\ bars[s] \subseteq Nat /\ Traded[s] \subseteq Nat
          /\ Starts[u] \in Nat /\ Starts[u + 1] \in Nat
          /\ asked[s][u].from \in Nat
      <4>1. s \in Symbols
        OBVIOUS
      <4>2. asked[s] \in [Units -> [from: Nat, to: Int]]
        BY <4>1, Types
      <4>3. asked[s][u].from \in Nat
        BY <4>2
      <4>. QED  BY <4>1, <4>3, Types, StartsAreNat
    <3>2. /\ visit.tailFrom \in bars[s] /\ visit.tailFrom < now
          /\ Vendor(s, visit.tailFrom, Until) \subseteq bars[s]
          /\ now <= visit.end /\ warehouse = "main"
          /\ Starts[u] <= asked[s][u].from
      BY <2>1, <2>4, <3>1 DEF TailInv, BarsPast, WindowInv, AskedInv, Kinds
    <3>3. /\ e \in Traded[s] /\ e \in Nat /\ asked[s][u].from <= e /\ e < Until
      BY <3>1 DEF Vendor
    <3>4. CASE visit.tailFrom <= e
      BY <3>2, <3>3, <3>4 DEF Vendor
    <3>5. CASE e < visit.tailFrom
      <4>1. Starts[u] <= visit.tailFrom /\ visit.tailFrom < Starts[u + 1]
        BY <2>4, <3>1, <3>2, <3>3, <3>5
      <4>2. NoHoleIn(s, u)
        BY <3>1, <3>2 DEF PeriodsJoin
      <4>. QED  BY <3>1, <3>2, <3>3, <3>5, <4>1, <4>2 DEF NoHoleIn, Vendor
    <3>. QED  BY <3>1, <3>2, <3>3, <3>4, <3>5
  <2>. QED  BY <2>1, <2>2, <2>3, <2>4 DEF TailsCatchUp, Vendor
<1>4. CASE UNCHANGED vars
  BY <1>4 DEF vars, TailsCatchUp, Vendor, Until
<1>5. ASSUME visit'.pc = "done"
      PROVE  EndOfUnits \/ EndOfTail \/ UNCHANGED vars
  <2>1. ASSUME NEW kind, NEW syms, NEW end, NEW span, Begin(kind, syms, end, span)
        PROVE  visit'.pc # "done"
    BY <2>1 DEF Begin, NoVisit
  <2>2. ~PlanUnit /\ ~NextFetch
    BY <1>5 DEF PlanUnit, NextFetch
  <2>3. ~Tick /\ ~FetchFails /\ ~Fetch /\ ~Write
    BY <1>5 DEF Tick, FetchFails, Fetch, Write
  <2>4. ~Return /\ ~Die
    BY <1>5 DEF Return, Die, NoVisit
  <2>5. (\A s \in Symbols : ~Record(s)) /\ ~TailBatch
    BY <1>5 DEF Record, TailBatch
  <2>. QED  BY <1>5, <2>1, <2>2, <2>3, <2>4, <2>5 DEF Next, Work
<1>. QED  BY <1>1, <1>2, <1>3, <1>4, <1>5

-----------------------------------------------------------------------------
LEMMA InitBackfill == Init => BackfillInv
<1>. SUFFICES ASSUME Init PROVE BackfillInv
  OBVIOUS
<1>. USE StartsAreNat
<1>1. TypeInv
  BY BackfillConstants DEF Init, TypeInv, TypeOK, UnitInv, AtUnit, NoVisit, Done
<1>2. VisitInv
  BY DEF Init, VisitInv, CoverInv, WindowInv, TailInv, NoVisit, AtUnit
<1>3. BarsPast /\ BatchWritten /\ PeriodsJoin /\ TailsCatchUp
  BY DEF Init, BarsPast, BatchWritten, PeriodsJoin, NoHoleIn, TailsCatchUp, NoVisit
<1>4. AskedInv /\ DoneUnitsStored
  BY DEF Init, AskedInv, DoneUnitsStored, Done
<1>. QED  BY <1>1, <1>2, <1>3, <1>4 DEF BackfillInv

LEMMA NextBackfill == BackfillInv /\ [Next]_vars => BackfillInv'
  BY TypeStep, CoverStep, WindowStep, TailStep, PastStep, AskedStep, WrittenStep,
     StoredStep, JoinStep, CatchUpStep
  DEF BackfillInv, VisitInv

\* The inductive invariant holds of every visit of every kind, with a window that begins
\* and ends inside a period.
THEOREM BackfillInvariant == Spec => []BackfillInv
  BY InitBackfill, NextBackfill, PTL DEF Spec

\* manifest.py's promise, of the part of a period that a record stands for: a done unit
\* stores all that the vendor had from the start to the end of the recorded request.
THEOREM DoneUnitsStoredAlways == Spec => []DoneUnitsStored
<1>1. BackfillInv => DoneUnitsStored
  BY DEF BackfillInv
<1>. QED  BY <1>1, BackfillInvariant, PTL

\* A visit that returned has a record for every unit of its window, and in the main
\* warehouse no stored bar of a period has a hole before it, back to where the period was
\* last asked for.
THEOREM RecordsCoverAlways == Spec => []RecordsCover
<1>1. BackfillInv => RecordsCover
  BY DEF BackfillInv, TypeInv, VisitInv, CoverInv, RecordsCover, VisitCovers
<1>. QED  BY <1>1, BackfillInvariant, PTL

\* A refresh that returned has stored its tail, an onboarding the period it ends in.
THEOREM TailsCatchUpAlways == Spec => []TailsCatchUp
<1>1. BackfillInv => TailsCatchUp
  BY DEF BackfillInv
<1>. QED  BY <1>1, BackfillInvariant, PTL

\* A unit that is done is never asked for again, so no later visit, failing or dying,
\* takes its record back.
THEOREM DoneStaysAlways == Spec => DoneStays
<1>. DEFINE Stays == \A s \in Symbols, u \in Units :
                       manifest[s][u] \in Done => manifest'[s][u] \in Done
<1>1. BackfillInv /\ [Next]_vars => [Stays]_vars
  BY RecordsStay DEF BackfillInv, VisitInv
<1>2. [][Next]_vars /\ []BackfillInv => [][Stays]_vars
  <2>. HIDE DEF Stays
  <2>. QED  BY <1>1, PTL
<1>. QED  BY <1>2, BackfillInvariant DEF Spec, DoneStays
=============================================================================

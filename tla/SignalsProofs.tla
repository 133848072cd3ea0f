---------------------------- MODULE SignalsProofs ----------------------------
(***************************************************************************)
(* Proofs about the three machines of MCSignals.  Of BiasBuckets, for      *)
(* every hold_bars >= 1: the counters of the hysteresis follow the runs of *)
(* scores.  Of RowWalk, for every threshold, every set of disabled rules   *)
(* and every number of readings that differ: what the runs show of rows    *)
(* around the defaults holds of every row.  Of FeatureFrames, for every    *)
(* clock, lookback and gap in the minutes: no column looks ahead, and what *)
(* was prepared of the past stands when more is stored.                    *)
(***************************************************************************)
EXTENDS MCSignals, FiniteSetTheorems, WellFoundedInduction, TLAPS

\* How the program's counters relate to the runs of scores: a pending side has
\* seen its run, except perhaps the one bar on which the old side was left.
RunInv ==
  /\ bucket = "None" => state = "NEUTRAL"
  /\ bucket # "None" => bucket = state
  /\ pendingCount < HoldBars
  /\ pendingDir = "None" => pendingCount = 0
  /\ state = "NEUTRAL" /\ pendingDir = "None" => bullRun <= 1 /\ bearRun <= 1
  /\ state = "NEUTRAL" /\ pendingDir = "BULL" =>
        pendingCount <= bullRun /\ bullRun <= pendingCount + 1 /\ bearRun = 0
  /\ state = "NEUTRAL" /\ pendingDir = "BEAR" =>
        pendingCount <= bearRun /\ bearRun <= pendingCount + 1 /\ bullRun = 0
  /\ state \in BullFamily =>
        bullRun >= HoldBars /\ bearRun = 0 /\ pendingDir = "None"
  /\ state \in BearFamily =>
        bearRun >= HoldBars /\ bullRun = 0 /\ pendingDir = "None"

BiasInv ==
  /\ TypeOK
  /\ RunInv
  /\ FlipNeverFires
  /\ TriggerOnConfirmedSide

\* One scored bar keeps the counters in step with the runs, whichever of the
\* three branches of apply_hysteresis it takes.
LEMMA ScoredBarInv ==
  ASSUME BiasInv, ScoredBar
  PROVE  BiasInv'
<1> USE HoldBarsAssumption
<1> PICK level \in Levels, confirm \in BOOLEAN, freshUp \in BOOLEAN,
         freshDown \in BOOLEAN, noDownLine \in BOOLEAN, noUpLine \in BOOLEAN :
      /\ FromNeutral(level) \/ FromBull(level) \/ FromBear(level)
      /\ bucket' = state'
      /\ prior' = bucket
      /\ confirmed' = confirm
      /\ flip' = FlipFlatten(bucket, state', confirm)
      /\ trigger' = TriggerOf(bucket, state', freshUp, freshDown, noDownLine,
                              noUpLine)
      /\ bullRun' = IF level \in Bullish THEN Longer(bullRun) ELSE 0
      /\ bearRun' = IF level \in Bearish THEN Longer(bearRun) ELSE 0
  BY DEF ScoredBar
<1>1. /\ bullRun' \in 0..(HoldBars + 1)
      /\ bearRun' \in 0..(HoldBars + 1)
      /\ level \in Bullish => bullRun' >= 1 /\ bearRun' = 0
      /\ level \in Bearish => bearRun' >= 1 /\ bullRun' = 0
      /\ level = "mid" => bullRun' = 0 /\ bearRun' = 0
  BY DEF BiasInv, TypeOK, Longer, Levels, Bullish, Bearish
<1>2. state' \in Buckets /\ pendingDir' \in {"BULL", "BEAR", "None"}
      /\ pendingCount' \in Nat
  <2>1. CASE FromNeutral(level)
    BY <2>1 DEF FromNeutral, Count, BiasInv, TypeOK, Levels, Bullish, Buckets, Tier,
                SideOf
  <2>2. CASE FromBull(level)
    BY <2>2 DEF FromBull, BiasInv, TypeOK, Levels, Bullish, Buckets, Tier
  <2>3. CASE FromBear(level)
    BY <2>3 DEF FromBear, BiasInv, TypeOK, Levels, Bearish, Buckets, Tier
  <2> QED
    BY <2>1, <2>2, <2>3
<1>3. RunInv'
  <2>1. CASE FromNeutral(level)
    BY <2>1, <1>1, <1>2
    DEF FromNeutral, Count, BiasInv, TypeOK, RunInv, Levels, Bullish, Bearish, Tier,
        SideOf, Longer, BullFamily, BearFamily, Buckets
  <2>2. CASE FromBull(level)
    BY <2>2, <1>1, <1>2
    DEF FromBull, BiasInv, TypeOK, RunInv, Levels, Bullish, Bearish, Tier,
        Longer, BullFamily, BearFamily, Buckets
  <2>3. CASE FromBear(level)
    BY <2>3, <1>1, <1>2
    DEF FromBear, BiasInv, TypeOK, RunInv, Levels, Bullish, Bearish, Tier,
        Longer, BullFamily, BearFamily, Buckets
  <2> QED
    BY <2>1, <2>2, <2>3
<1>4. flip' = FALSE
  <2>1. /\ bucket \in BullFamily => state' \notin BearFamily
        /\ bucket \in BearFamily => state' \notin BullFamily
    BY DEF FromNeutral, Count, FromBull, FromBear, BiasInv, RunInv, TypeOK, BullFamily,
           BearFamily, Bullish, Bearish, Levels, Tier, Buckets
  <2> QED
    BY <2>1, Zenon DEF FlipFlatten
<1>5. TriggerOnConfirmedSide'
  BY <1>2, <1>3 DEF TriggerOnConfirmedSide, TriggerOf, RunInv, BullFamily, BearFamily
<1>6. TypeOK'
  <2>1. trigger' \in Triggers
    BY DEF Triggers, TriggerOf
  <2>2. flip' \in BOOLEAN
    BY <1>4
  <2>3. bucket' \in Buckets \cup {"None"} /\ prior' \in Buckets \cup {"None"}
    BY <1>2 DEF BiasInv, TypeOK
  <2> QED
    BY <1>1, <1>2, <2>1, <2>2, <2>3 DEF TypeOK
<1> QED
  BY <1>3, <1>4, <1>5, <1>6 DEF BiasInv, FlipNeverFires

\* The counters, types and signals invariant holds in every behaviour.
THEOREM BiasInvariant == Spec => []BiasInv
<1>1. Init => BiasInv
  <2> SUFFICES ASSUME Init PROVE BiasInv
    OBVIOUS
  <2>1. TypeOK
    <3>1. /\ pendingCount \in Nat
          /\ bullRun \in 0..(HoldBars + 1) /\ bearRun \in 0..(HoldBars + 1)
      BY HoldBarsAssumption DEF Init
    <3>2. flip \in BOOLEAN /\ confirmed \in BOOLEAN
      BY Zenon DEF Init
    <3> QED
      BY <3>1, <3>2 DEF Init, TypeOK, Buckets, Triggers
  <2>2. RunInv
    BY HoldBarsAssumption DEF Init, RunInv, BullFamily, BearFamily
  <2>3. FlipNeverFires /\ TriggerOnConfirmedSide
    BY DEF Init, FlipNeverFires, TriggerOnConfirmedSide
  <2> QED
    BY <2>1, <2>2, <2>3 DEF BiasInv
<1>2. BiasInv /\ [Next]_vars => BiasInv'
  <2>1. ASSUME BiasInv, ScoredBar PROVE BiasInv'
    BY <2>1, ScoredBarInv
  <2>2. ASSUME BiasInv, UNCHANGED vars PROVE BiasInv'
    BY <2>2 DEF BiasInv, TypeOK, RunInv, FlipNeverFires, TriggerOnConfirmedSide,
                vars, hysteresis
  <2> QED
    BY <2>1, <2>2 DEF Next
<1> QED
  BY <1>1, <1>2, PTL DEF Spec

\* flip_flatten is never raised, for any hold count: the long market-flip exit
\* of the M5 engine that waits for it is never taken.
THEOREM FlatteningNeverFires == Spec => []FlipNeverFires
<1>1. BiasInv => FlipNeverFires
  BY DEF BiasInv
<1> QED
  BY <1>1, BiasInvariant, PTL

\* A directional bucket and a trigger are confirmed by hold_bars consecutive
\* scores, and the bucket comes at most one bar after that.
THEOREM SidesConfirmedAndPrompt == Spec => []SidesFollowRuns
<1>1. BiasInv => SidesFollowRuns
  <2>1. BiasInv => SideIsConfirmed /\ SideIsPrompt
    BY HoldBarsAssumption
    DEF BiasInv, TypeOK, RunInv, SideIsConfirmed, SideIsPrompt, Buckets,
        BullFamily, BearFamily
  <2> QED
    BY <2>1 DEF BiasInv, SidesFollowRuns
<1> QED
  BY <1>1, BiasInvariant, PTL

\* The bias engine implements the walk of families the trade engine assumes.
THEOREM BucketsWalk == Spec => ImplementsWalk
<1>1. Init => Walk!Init
  BY DEF Init, Walk!Init, FamilyOf, BullFamily, BearFamily
<1>2. BiasInv /\ [Next]_vars => [Walk!Next]_(FamilyOf(bucket))
  <2>1. ASSUME BiasInv, ScoredBar PROVE Walk!Next
    <3>1. FamilyOf(bucket) = FamilyOf(state)
      BY <2>1 DEF BiasInv, RunInv, FamilyOf, BullFamily, BearFamily
    <3>2. PICK level \in Levels :
            /\ FromNeutral(level) \/ FromBull(level) \/ FromBear(level)
            /\ bucket' = state'
      BY <2>1 DEF ScoredBar
    <3>3. FamilyOf(bucket') \in Successors(FamilyOf(state))
      BY <3>2, <2>1
      DEF FromNeutral, Count, FromBull, FromBear, Successors, Families, FamilyOf,
          BullFamily, BearFamily, BiasInv, TypeOK, Buckets, Levels, Bullish,
          Bearish, Tier
    <3> QED
      BY <3>1, <3>3 DEF Walk!Next, Walk!Successors, Walk!Families, Successors,
                        Families, FamilyOf
  <2>2. ASSUME UNCHANGED vars PROVE UNCHANGED FamilyOf(bucket)
    BY <2>2 DEF vars, FamilyOf
  <2> QED
    BY <2>1, <2>2 DEF Next
<1> QED
  BY <1>1, <1>2, BiasInvariant, PTL DEF Spec, ImplementsWalk, Walk!Spec

-----------------------------------------------------------------------------
\* The readings of a row.
Readings ==
  {"price", "adv", "blackout", "wonder", "gap", "rrs_m5", "rrs_qqq", "rrs_d1", "ha",
   "stack", "room_long", "room_short", "volume", "rvol", "over", "extended", "pc",
   "bench", "std"}

LEMMA RowsAreRead ==
  ASSUME NEW r \in Rows!Row PROVE DOMAIN r = Readings
BY DEF Rows!Row, Readings

LEMMA ValuesFit ==
  ASSUME NEW r \in Rows!Row, NEW f \in DOMAIN r, NEW v \in Rows!Values(f)
  PROVE  [r EXCEPT ![f] = v] \in Rows!Row
<1>1. f \in Readings
  BY RowsAreRead
<1>2. CASE f \in {"price", "adv", "blackout", "wonder", "gap"}
  <2>1. v \in BOOLEAN
    BY <1>2 DEF Rows!Values
  <2>. QED  BY <1>2, <2>1 DEF Rows!Row
<1>3. CASE f = "stack"
  <2>1. v \in {"ABOVE_ALL", "BELOW_ALL", "MIXED", "None"}
    BY <1>3 DEF Rows!Values
  <2>. QED  BY <1>3, <2>1 DEF Rows!Row
<1>4. CASE f \in Readings \ {"price", "adv", "blackout", "wonder", "gap", "stack"}
  <2>1. v \in Rows!Number
    BY <1>4 DEF Rows!Values, Readings, Rows!Number
  <2>. QED  BY <1>4, <2>1 DEF Rows!Row, Readings
<1>. QED  BY <1>1, <1>2, <1>3, <1>4

LEMMA MirrorIsRow ==
  ASSUME NEW r \in Rows!Row
  PROVE  /\ Rows!Mirror(r) \in Rows!Row
         /\ \A f \in {"price", "adv", "blackout", "wonder", "gap", "volume", "rvol", "std"} :
              Rows!Mirror(r)[f] = r[f]
         /\ \A f \in {"rrs_m5", "rrs_qqq", "rrs_d1", "ha", "over", "extended", "pc",
                      "bench"} : Rows!Mirror(r)[f] = Rows!Negated(r[f])
         /\ Rows!Mirror(r).stack = CASE r.stack = "ABOVE_ALL" -> "BELOW_ALL"
                                [] r.stack = "BELOW_ALL" -> "ABOVE_ALL"
                                [] OTHER -> r.stack
         /\ Rows!Mirror(r).room_long = r.room_short /\ Rows!Mirror(r).room_short = r.room_long
<1>1. \A x \in Rows!Number : Rows!Negated(x) \in Rows!Number
  BY DEF Rows!Negated, Rows!Number
<1>2. DOMAIN r = Readings
  BY RowsAreRead
<1>. DEFINE m == Rows!Mirror(r)
<1>3. /\ \A f \in {"price", "adv", "blackout", "wonder", "gap", "volume", "rvol", "std"} :
              m[f] = r[f]
      /\ \A f \in {"rrs_m5", "rrs_qqq", "rrs_d1", "ha", "over", "extended", "pc",
                   "bench"} : m[f] = Rows!Negated(r[f])
  BY <1>2 DEF Rows!Mirror, Readings
<1>4. /\ m.stack = CASE r.stack = "ABOVE_ALL" -> "BELOW_ALL"
                     [] r.stack = "BELOW_ALL" -> "ABOVE_ALL"
                     [] OTHER -> r.stack
      /\ m.room_long = r.room_short /\ m.room_short = r.room_long
  BY <1>2 DEF Rows!Mirror, Readings
<1>5. m.stack \in {"ABOVE_ALL", "BELOW_ALL", "MIXED", "None"}
  BY <1>4 DEF Rows!Row
<1>6. \A f \in {"rrs_m5", "rrs_qqq", "rrs_d1", "ha", "over", "extended", "pc", "bench"} :
        m[f] \in Rows!Number
  BY <1>1, <1>3 DEF Rows!Row
<1>7. m = [f \in Readings |-> m[f]]
  BY <1>2 DEF Rows!Mirror
<1>. HIDE DEF m
<1>8. m \in Rows!Row
  BY <1>3, <1>4, <1>5, <1>6, <1>7 DEF Rows!Row, Readings
<1>. QED  BY <1>3, <1>4, <1>8 DEF m

\* Whatever is read of a row, it stays a row.
RowOK == row \in Rows!Row

LEMMA RowsAlways == MCSpec => []RowOK
<1>1. MCInit => RowOK
  <2>1. Rows!Candidate \in Rows!Row
    BY DEF Rows!Candidate, Rows!Row, Rows!Number
  <2>. QED  BY <2>1, MirrorIsRow DEF MCInit, Rows!Init, RowOK
<1>2. RowOK /\ [MCNext]_allVars => RowOK'
  BY ValuesFit
    DEF MCNext, Rows!Next, Rows!Read, Rows!Finished, Rows!vars, rowVars, allVars,
     RowOK
<1>. QED  BY <1>1, <1>2, PTL DEF MCSpec

-----------------------------------------------------------------------------
\* What lies below a threshold lies above its negative once it is negated, and a
\* missing reading stays missing.
LEMMA Turned ==
  ASSUME Rows!RowConstants, NEW x \in Rows!Number, NEW k \in Int
  PROVE  /\ Rows!AtMost(x, -k) <=> Rows!AtLeast(Rows!Negated(x), k)
         /\ Rows!AtLeast(x, -k) <=> Rows!AtMost(Rows!Negated(x), k)
         /\ Rows!AtLeast(x, k) <=> Rows!AtMost(Rows!Negated(x), -k)
         /\ Rows!Below(x, 0) <=> Rows!Above(Rows!Negated(x), 0)
         /\ Rows!Negated(x) = Missing <=> x = Missing
         /\ x # Missing => Rows!Negated(x) = -x
BY DEF Rows!RowConstants, Rows!Number, Rows!AtMost, Rows!AtLeast, Rows!Below,
       Rows!Above, Rows!Negated

LEMMA RowMirrors ==
  ASSUME Rows!RowConstants, RowOK PROVE Rows!SidesMirror
<1>. DEFINE m == Rows!Mirror(row)
<1>1. /\ m.price = row.price /\ m.adv = row.adv /\ m.blackout = row.blackout
      /\ m.wonder = row.wonder /\ m.gap = row.gap /\ m.volume = row.volume
      /\ m.rvol = row.rvol /\ m.std = row.std
      /\ m.room_long = row.room_short /\ m.room_short = row.room_long
  BY MirrorIsRow DEF RowOK
<1>2. /\ m.rrs_m5 = Rows!Negated(row.rrs_m5) /\ m.rrs_qqq = Rows!Negated(row.rrs_qqq)
      /\ m.rrs_d1 = Rows!Negated(row.rrs_d1) /\ m.ha = Rows!Negated(row.ha)
      /\ m.over = Rows!Negated(row.over) /\ m.extended = Rows!Negated(row.extended)
      /\ m.pc = Rows!Negated(row.pc) /\ m.bench = Rows!Negated(row.bench)
  BY MirrorIsRow DEF RowOK
<1>3. row.stack = "BELOW_ALL" <=> m.stack = "ABOVE_ALL"
  BY MirrorIsRow DEF RowOK
<1>4. /\ row.rrs_m5 \in Rows!Number /\ row.rrs_qqq \in Rows!Number /\ row.rrs_d1 \in Rows!Number
      /\ row.ha \in Rows!Number /\ row.over \in Rows!Number /\ row.extended \in Rows!Number
      /\ row.pc \in Rows!Number /\ row.bench \in Rows!Number
  BY DEF RowOK, Rows!Row
<1>5. RrsM5 \in Int /\ RrsD1 \in Int /\ NotExtended \in Int /\ Missing \notin Int
  BY DEF Rows!RowConstants
<1>. HIDE DEF m
<1>6. ASSUME NEW k \in Int, NEW D PROVE Rows!GatesShort(row, k, D) = Rows!GatesLong(m, k, D)
  <2>1. /\ Rows!AtMost(row.rrs_d1, -k) <=> Rows!AtLeast(m.rrs_d1, k)
        /\ Rows!AtMost(row.ha, -2) <=> Rows!AtLeast(m.ha, 2)
    BY <1>2, <1>4, Turned
  <2>. QED  BY <1>1, <1>3, <2>1 DEF Rows!GatesShort, Rows!GatesLong, Rows!Tradable
<1>7. ASSUME NEW i \in Int, NEW k \in Int, NEW c, NEW D
      PROVE  Rows!GatesShortM5(row, i, k, c, D) = Rows!GatesLongM5(m, i, k, c, D)
  <2>1. /\ Rows!AtMost(row.rrs_m5, -i) <=> Rows!AtLeast(m.rrs_m5, i)
        /\ Rows!AtMost(row.rrs_qqq, -2) <=> Rows!AtLeast(m.rrs_qqq, 2)
        /\ Rows!Below(row.over, 0) <=> Rows!Above(m.over, 0)
    BY <1>2, <1>4, Turned
  <2>. QED  BY <1>1, <1>6, <2>1 DEF Rows!GatesShortM5, Rows!GatesLongM5
<1>8. Rows!ConfirmShort(row) = Rows!ConfirmLong(m)
  <2>1. /\ Rows!AtMost(row.rrs_m5, -RrsM5) <=> Rows!AtLeast(m.rrs_m5, RrsM5)
        /\ Rows!Below(row.over, 0) <=> Rows!Above(m.over, 0)
        /\ Rows!AtLeast(row.extended, -NotExtended) <=> Rows!AtMost(m.extended, NotExtended)
    BY <1>2, <1>4, <1>5, Turned
  <2>. QED  BY <2>1 DEF Rows!ConfirmShort, Rows!ConfirmLong
<1>9. /\ Rows!Below(row.pc, 0) <=> Rows!Above(m.pc, 0)
      /\ Rows!AtLeast(row.bench, 0) <=> Rows!AtMost(m.bench, 0)
      /\ Rows!AtLeast(row.bench, 2) <=> Rows!AtMost(m.bench, -2)
  BY <1>2, <1>4, Turned
<1>10. /\ m.rrs_d1 = Missing <=> row.rrs_d1 = Missing
       /\ m.rrs_m5 = Missing <=> row.rrs_m5 = Missing
       /\ m.ha = Missing <=> row.ha = Missing
       /\ row.rrs_d1 # Missing => m.rrs_d1 = -row.rrs_d1
       /\ row.rrs_m5 # Missing => m.rrs_m5 = -row.rrs_m5
       /\ row.ha # Missing => m.ha = -row.ha
  BY <1>2, <1>4, Turned
<1>11. Rows!ScoreShort(row) = Rows!ScoreLong(m)
  <2>1. Rows!Unscored(m) <=> Rows!Unscored(row)
    BY <1>1, <1>10 DEF Rows!Unscored
  <2>. QED  BY <1>1, <1>9, <1>10, <2>1
    DEF Rows!ScoreShort, Rows!ScoreLong, Rows!Unscored
<1>12. Rows!ScoreShortM5(row) = Rows!ScoreLongM5(m)
  <2>1. Rows!UnscoredM5(m) <=> Rows!UnscoredM5(row)
    BY <1>1, <1>10 DEF Rows!UnscoredM5
  <2>. QED  BY <1>1, <1>9, <1>10, <2>1
    DEF Rows!ScoreShortM5, Rows!ScoreLongM5, Rows!UnscoredM5
<1>13. Rows!AuditChecksShort(row) = Rows!AuditChecksLong(m)
  <2>1. /\ Rows!AtMost(row.rrs_d1, -2) <=> Rows!AtLeast(m.rrs_d1, 2)
        /\ Rows!AtMost(row.ha, -2) <=> Rows!AtLeast(m.ha, 2)
        /\ Rows!AtMost(row.rrs_m5, -2) <=> Rows!AtLeast(m.rrs_m5, 2)
        /\ Rows!Below(row.over, 0) <=> Rows!Above(m.over, 0)
    BY <1>2, <1>4, Turned
  <2>2. /\ Rows!AtMost(row.rrs_d1, -2) = Rows!AtLeast(m.rrs_d1, 2)
        /\ Rows!AtMost(row.ha, -2) = Rows!AtLeast(m.ha, 2)
        /\ Rows!AtMost(row.rrs_m5, -2) = Rows!AtLeast(m.rrs_m5, 2)
        /\ Rows!Below(row.over, 0) = Rows!Above(m.over, 0)
        /\ (row.stack = "BELOW_ALL") = (m.stack = "ABOVE_ALL")
    BY <1>3, <2>1, Zenon DEF Rows!AtMost, Rows!AtLeast, Rows!Below, Rows!Above
  <2>. QED  BY <1>1, <2>2, Zenon DEF Rows!AuditChecksShort, Rows!AuditChecksLong
<1>14. /\ Rows!GateShort(row, crosscheck, disabled) = Rows!GateLong(m, crosscheck, disabled)
       /\ Rows!HoldShort(row, crosscheck, disabled) = Rows!HoldLong(m, crosscheck, disabled)
       /\ Rows!AuditShort(row, crosscheck, disabled) = Rows!AuditLong(m, crosscheck, disabled)
  BY <1>5, <1>7
    DEF Rows!GateShort, Rows!GateLong, Rows!HoldShort, Rows!HoldLong, Rows!AuditShort,
        Rows!AuditLong
<1>. QED
  BY <1>5, <1>6, <1>8, <1>11, <1>12, <1>13, <1>14 DEF Rows!SidesMirror, RowOK, m

\* The checks of a row that is not both long and short: thresholds are positive.
LEMMA RowAgrees ==
  ASSUME Rows!RowConstants, RrsM5 > 0, RrsD1 > 0, RowOK PROVE Rows!ChecksAgree
<1>1. RrsM5 \in Int /\ RrsD1 \in Int /\ NotExtended \in Int /\ Missing \notin Int
  BY DEF Rows!RowConstants
<1>2. /\ row.rrs_m5 \in Rows!Number /\ row.rrs_d1 \in Rows!Number
      /\ row.over \in Rows!Number /\ row.ha \in Rows!Number
  BY DEF RowOK, Rows!Row
<1>. DEFINE IsLong == Rows!GateLong(row, crosscheck, disabled)
            IsShort == Rows!GateShort(row, crosscheck, disabled)
<1>3. IsLong => Rows!HoldLong(row, crosscheck, disabled)
  BY DEF Rows!GateLong, Rows!HoldLong, Rows!GatesLongM5, Rows!GatesLong,
         Rows!HoldDisabled
<1>4. IsShort => Rows!HoldShort(row, crosscheck, disabled)
  BY DEF Rows!GateShort, Rows!HoldShort, Rows!GatesShortM5, Rows!GatesShort,
         Rows!HoldDisabled
<1>5. ASSUME disabled \cap {"rrs_m5", "vwap"} = {}
      PROVE  /\ IsLong => (Rows!ConfirmLong(row) <=> Rows!AtMost(row.extended, NotExtended))
             /\ IsShort => (Rows!ConfirmShort(row) <=> Rows!AtLeast(row.extended, -NotExtended))
  <2>1. "rrs_m5" \notin disabled /\ "vwap" \notin disabled
    BY <1>5
  <2>. QED
    BY <2>1
      DEF Rows!GateLong, Rows!GateShort, Rows!GatesLongM5, Rows!GatesShortM5,
          Rows!ConfirmLong, Rows!ConfirmShort
<1>6. IsLong /\ IsShort => Rows!HardRules \subseteq disabled
  <2>1. ~(Rows!AtLeast(row.rrs_m5, RrsM5) /\ Rows!AtMost(row.rrs_m5, -RrsM5))
    BY <1>1, <1>2 DEF Rows!AtLeast, Rows!AtMost, Rows!Number
  <2>2. ~(Rows!AtLeast(row.rrs_d1, RrsD1) /\ Rows!AtMost(row.rrs_d1, -RrsD1))
    BY <1>1, <1>2 DEF Rows!AtLeast, Rows!AtMost, Rows!Number
  <2>3. ~(Rows!AtLeast(row.ha, 2) /\ Rows!AtMost(row.ha, -2))
    BY <1>1, <1>2 DEF Rows!AtLeast, Rows!AtMost, Rows!Number
  <2>4. ~(Rows!Above(row.over, 0) /\ Rows!Below(row.over, 0))
    BY <1>1, <1>2 DEF Rows!Above, Rows!Below, Rows!Number
  <2>. QED
    BY <2>1, <2>2, <2>3, <2>4
    DEF Rows!GateLong, Rows!GateShort, Rows!GatesLongM5, Rows!GatesShortM5,
        Rows!GatesLong, Rows!GatesShort, Rows!HardRules
<1>7. ~row.blackout => (Rows!AuditLong(row, FALSE, {}) <=> Rows!AuditChecksLong(row) = {TRUE})
  <2>1. Rows!AuditChecksLong(row) = {TRUE} <=> \A b \in Rows!AuditChecksLong(row) : b = TRUE
    BY DEF Rows!AuditChecksLong
  <2>. QED
    BY <2>1, Zenon
      DEF Rows!AuditLong, Rows!AuditChecksLong, Rows!GatesLongM5, Rows!GatesLong,
          Rows!Tradable, RowOK, Rows!Row
<1>8. ~row.blackout => (Rows!AuditShort(row, FALSE, {}) <=> Rows!AuditChecksShort(row) = {TRUE})
  <2>1. Rows!AuditChecksShort(row) = {TRUE} <=> \A b \in Rows!AuditChecksShort(row) : b = TRUE
    BY DEF Rows!AuditChecksShort
  <2>. QED
    BY <2>1, Zenon
      DEF Rows!AuditShort, Rows!AuditChecksShort, Rows!GatesShortM5, Rows!GatesShort,
          Rows!Tradable, RowOK, Rows!Row
<1>. QED
  BY <1>3, <1>4, <1>5, <1>6, <1>7, <1>8 DEF Rows!ChecksAgree

-----------------------------------------------------------------------------
\* The short twin of every gate, score, reconfirmation and audit says of a row what
\* the long one says of its mirror image, for any thresholds.
THEOREM SidesMirrorAlways == MCSpec => []SidesMirror
<1>1. RowOK => SidesMirror
  BY RowMirrors, SignalsConstants DEF SidesMirror
<1>. QED  BY <1>1, RowsAlways, PTL

\* The checks that judge one row in several places agree, for any positive
\* thresholds.
THEOREM ChecksAgreeAlways ==
  ASSUME RrsM5 > 0, RrsD1 > 0 PROVE MCSpec => []ChecksAgree
<1>1. RowOK => ChecksAgree
  BY RowAgrees, SignalsConstants DEF ChecksAgree
<1>. QED  BY <1>1, RowsAlways, PTL

-----------------------------------------------------------------------------
\* What the columns are made of: greatest and least instants, positions of rows.
LEMMA GreatestOf ==
  ASSUME NEW S \in SUBSET Nat, S # {}, NEW b \in Nat, \A e \in S : e <= b
  PROVE  Frames!Max(S) \in S /\ \A e \in S : e <= Frames!Max(S)
<1>. DEFINE T == {k \in Nat : \A e \in S : e <= k}
<1>1. PICK m \in T : \A k \in T : m <= k
  <2>1. IsWellFoundedOn(OpToRel(<, Nat), Nat)
    BY NatLessThanWellFounded
  <2>2. T \in SUBSET Nat /\ b \in T
    OBVIOUS
  <2>. HIDE DEF T
  <2>3. PICK m \in T : \A k \in T : <<k, m>> \notin OpToRel(<, Nat)
    BY <2>1, <2>2, WFMin
  <2>4. \A k \in T : ~(k < m)
    BY <2>2, <2>3 DEF OpToRel
  <2>. QED  BY <2>2, <2>4
<1>2. m \in S
  <2>. SUFFICES ASSUME m \notin S PROVE FALSE
    OBVIOUS
  <2>1. \A e \in S : e < m /\ e <= m - 1
    OBVIOUS
  <2>2. PICK e \in S : e \in Nat /\ e < m
    BY <2>1
  <2>3. m - 1 \in Nat
    BY <2>2
  <2>4. m - 1 \in T
    BY <2>1, <2>3
  <2>. QED  BY <1>1, <2>2, <2>4
<1>3. \E x \in S : \A y \in S : x >= y
  BY <1>2
<1>4. Frames!Max(S) \in S /\ \A y \in S : Frames!Max(S) >= y
  BY <1>3 DEF Frames!Max
<1>. QED  BY <1>4

LEMMA LeastOf ==
  ASSUME NEW S \in SUBSET Nat, S # {}
  PROVE  Frames!Min(S) \in S /\ \A e \in S : Frames!Min(S) <= e
<1>1. IsWellFoundedOn(OpToRel(<, Nat), Nat)
  BY NatLessThanWellFounded
<1>2. PICK m \in S : \A i \in S : <<i, m>> \notin OpToRel(<, Nat)
  BY <1>1, WFMin
<1>3. \A i \in S : ~(i < m)
  BY <1>2 DEF OpToRel
<1>4. \E x \in S : \A y \in S : x =< y
  BY <1>3
<1>. QED  BY <1>4 DEF Frames!Min

LEMMA AnyOfBound ==
  ASSUME NEW b \in Nat, NEW S \in SUBSET (0..b)
  PROVE  /\ Frames!AnyOf(S) \in 0..b
         /\ \A e \in S : e <= Frames!AnyOf(S)
         /\ Frames!AnyOf(S) \in S \cup {0}
<1>1. S \cup {0} \in SUBSET Nat /\ S \cup {0} # {} /\ \A e \in S \cup {0} : e <= b
  OBVIOUS
<1>2. /\ Frames!Max(S \cup {0}) \in S \cup {0}
      /\ \A e \in S \cup {0} : e <= Frames!Max(S \cup {0})
  BY <1>1, GreatestOf
<1>3. Frames!AnyOf(S) = Frames!Max(S \cup {0})
  BY DEF Frames!AnyOf, Frames!NaN
<1>4. S \cup {0} \subseteq 0..b /\ S \subseteq S \cup {0}
  OBVIOUS
<1>. QED  BY <1>2, <1>3, <1>4, Zenon

LEMMA AllOfBound ==
  ASSUME NEW b \in Nat, NEW S \in SUBSET (0..b)
  PROVE  Frames!AllOf(S) \in 0..b
<1>1. CASE S = {} \/ Frames!NaN \in S
  BY <1>1 DEF Frames!AllOf, Frames!NaN
<1>2. CASE ~(S = {} \/ Frames!NaN \in S)
  <2>1. Frames!Max(S) \in S
    BY <1>2, GreatestOf
  <2>. QED  BY <1>2, <2>1 DEF Frames!AllOf
<1>. QED  BY <1>1, <1>2

LEMMA FramesCount ==
  /\ \A S : Frames!Cardinality(S) = Cardinality(S)
  /\ \A S : Frames!IsFiniteSet(S) <=> IsFiniteSet(S)
BY DEF Frames!Cardinality, Frames!IsFiniteSet, Cardinality, IsFiniteSet

\* Rows are counted from the first; each position up to a row's is that of one row.
LEMMA Positions ==
  ASSUME NEW c, DOMAIN c \subseteq Nat, NEW t \in Nat
  PROVE  /\ IsFiniteSet(Frames!Upto(c, t)) /\ Frames!Upto(c, t) \subseteq Nat
         /\ Frames!Pos(c, t) = Cardinality(Frames!Upto(c, t))
         /\ Frames!Pos(c, t) \in Nat
         /\ t \in DOMAIN c => Frames!Pos(c, t) >= 1
<1>. DEFINE U == Frames!Upto(c, t)
<1>1. U \subseteq 0..t /\ (t \in DOMAIN c => t \in U)
  BY DEF Frames!Upto
<1>. HIDE DEF U
<1>2. IsFiniteSet(0..t)
  BY FS_Interval
<1>3. IsFiniteSet(U) /\ Cardinality(U) \in Nat
  BY <1>1, <1>2, FS_Subset, FS_CardinalityType
<1>4. t \in DOMAIN c => Cardinality(U) # 0
  BY <1>1, <1>3, FS_EmptySet
<1>5. Frames!Pos(c, t) = Cardinality(U)
  BY FramesCount DEF Frames!Pos, U
<1>. QED  BY <1>1, <1>3, <1>4, <1>5 DEF U

LEMMA PositionsAscend ==
  ASSUME NEW c, DOMAIN c \subseteq Nat, NEW r \in Nat, NEW t \in DOMAIN c, r < t
  PROVE  Frames!Pos(c, r) < Frames!Pos(c, t)
<1>1. t \in Nat
  OBVIOUS
<1>2. /\ Frames!Upto(c, r) \subseteq Frames!Upto(c, t)
      /\ t \in Frames!Upto(c, t) \ Frames!Upto(c, r)
  BY <1>1 DEF Frames!Upto
<1>3. Cardinality(Frames!Upto(c, r)) < Cardinality(Frames!Upto(c, t))
  <2>1. IsFiniteSet(Frames!Upto(c, t))
    BY <1>1, Positions
  <2>2. /\ Cardinality(Frames!Upto(c, r)) <= Cardinality(Frames!Upto(c, t))
        /\ Cardinality(Frames!Upto(c, r)) # Cardinality(Frames!Upto(c, t))
        /\ Cardinality(Frames!Upto(c, r)) \in Nat /\ Cardinality(Frames!Upto(c, t)) \in Nat
    <3>1. Frames!Upto(c, r) # Frames!Upto(c, t)
      BY <1>2
    <3>. QED  BY <1>2, <2>1, <3>1, FS_Subset, FS_CardinalityType
  <2>. QED  BY <2>2
<1>. QED  BY <1>1, <1>3, Positions

LEMMA RowAtIs ==
  ASSUME NEW c, DOMAIN c \subseteq Nat, NEW t \in DOMAIN c,
         NEW n \in Nat, 1 <= n, n <= Frames!Pos(c, t)
  PROVE  /\ Frames!RowAt(c, n) \in DOMAIN c /\ Frames!Pos(c, Frames!RowAt(c, n)) = n
         /\ Frames!RowAt(c, n) <= t
         /\ n < Frames!Pos(c, t) => Frames!RowAt(c, n) < t
<1>. DEFINE T == {r \in DOMAIN c : n <= Frames!Pos(c, r)}
            m == Frames!Min(T)
<1>1. m \in T /\ \A r \in T : m <= r
  <2>1. T \in SUBSET Nat /\ T # {}
    OBVIOUS
  <2>. HIDE DEF T
  <2>. QED  BY <2>1, LeastOf
<1>. HIDE DEF m
<1>2. m \in DOMAIN c /\ m \in Nat /\ n <= Frames!Pos(c, m)
  BY <1>1
<1>3. Frames!Pos(c, m) = n
  <2>. SUFFICES ASSUME Frames!Pos(c, m) # n PROVE FALSE
    OBVIOUS
  <2>. DEFINE U == Frames!Upto(c, m) \ {m}
              p == Frames!Max(U)
  <2>1. /\ IsFiniteSet(Frames!Upto(c, m)) /\ m \in Frames!Upto(c, m)
        /\ Frames!Pos(c, m) = Cardinality(Frames!Upto(c, m)) /\ Frames!Pos(c, m) \in Nat
    BY <1>2, Positions DEF Frames!Upto
  <2>2. IsFiniteSet(U) /\ Cardinality(U) = Frames!Pos(c, m) - 1
    BY <2>1, FS_RemoveElement
  <2>3. Cardinality(U) >= n /\ Cardinality(U) # 0
    BY <1>2, <2>1, <2>2
  <2>4. U # {}
    BY <2>3, FS_EmptySet
  <2>5. U \in SUBSET Nat /\ \A e \in U : e \in DOMAIN c /\ e <= m /\ e # m
    BY <1>2 DEF Frames!Upto
  <2>6. p \in U /\ \A e \in U : e <= p
    <3>. HIDE DEF U
    <3>. QED  BY <1>2, <2>4, <2>5, GreatestOf
  <2>. HIDE DEF p
  <2>7. p \in DOMAIN c /\ p \in Nat /\ p < m
    BY <1>2, <2>5, <2>6
  <2>8. Frames!Upto(c, p) = U
    <3>1. \A e \in DOMAIN c : e <= p <=> (e <= m /\ e # m)
      <4>. TAKE e \in DOMAIN c
      <4>1. e \in Nat
        OBVIOUS
      <4>2. e <= m /\ e # m => e \in U
        BY DEF Frames!Upto
      <4>. HIDE DEF U
      <4>. QED  BY <1>2, <2>6, <2>7, <4>1, <4>2
    <3>. QED  BY <3>1 DEF Frames!Upto
  <2>9. Frames!Pos(c, p) >= n
    <3>. HIDE DEF U
    <3>. QED  BY <2>3, <2>7, <2>8, Positions
  <2>. QED  BY <1>1, <1>2, <2>7, <2>9
<1>4. Frames!RowAt(c, n) \in DOMAIN c /\ Frames!Pos(c, Frames!RowAt(c, n)) = n
  BY <1>2, <1>3 DEF Frames!RowAt
<1>. HIDE DEF T
<1>. DEFINE p == Frames!RowAt(c, n)
<1>5. p \in DOMAIN c /\ p \in Nat /\ t \in Nat /\ Frames!Pos(c, p) = n
  BY <1>4
<1>. HIDE DEF p
<1>6. t < p => Frames!Pos(c, t) < Frames!Pos(c, p)
  BY <1>5, PositionsAscend
<1>7. p <= t /\ (n < Frames!Pos(c, t) => p # t)
  <2>1. Frames!Pos(c, t) \in Nat
    BY <1>5, Positions
  <2>. QED  BY <1>5, <1>6, <2>1
<1>8. n < Frames!Pos(c, t) => p < t
  BY <1>5, <1>7
<1>. QED  BY <1>5, <1>7, <1>8 DEF p

\* A column is causal within a limit when no value is later than the limit of its
\* row; limits never go back from one row to the next.
Limits == {L \in [Nat -> Nat] : \A s, t \in Nat : s <= t => L[s] <= L[t]}
Causal(c, L) == DOMAIN c \subseteq Nat /\ \A t \in DOMAIN c : c[t] \in 0..L[t]

LEMMA PastIsBounded ==
  ASSUME NEW L \in Limits, NEW c, Causal(c, L), NEW t \in Nat,
         NEW S, S \subseteq Frames!Upto(c, t)
  PROVE  {c[r] : r \in S} \subseteq 0..L[t]
<1>. SUFFICES ASSUME NEW r \in S PROVE c[r] \in 0..L[t]
  OBVIOUS
<1>1. r \in DOMAIN c /\ r \in Nat /\ r <= t
  BY DEF Frames!Upto, Causal
<1>2. L[r] <= L[t] /\ L[r] \in Nat /\ L[t] \in Nat
  BY <1>1 DEF Limits
<1>3. c[r] \in 0..L[r]
  BY <1>1 DEF Causal
<1>. QED  BY <1>2, <1>3

LEMMA AtIsBounded ==
  ASSUME NEW L \in Limits, NEW c, Causal(c, L), NEW t \in Nat
  PROVE  Frames!At(c, t) \in 0..L[t]
BY DEF Frames!At, Frames!NaN, Causal, Limits

LEMMA RowIsBounded ==
  ASSUME NEW L \in Limits, NEW c, Causal(c, L), NEW t \in DOMAIN c,
         NEW n \in Nat, 1 <= n, n <= Frames!Pos(c, t)
  PROVE  c[Frames!RowAt(c, n)] \in 0..L[t]
<1>. DEFINE p == Frames!RowAt(c, n)
<1>1. DOMAIN c \subseteq Nat
  BY DEF Causal
<1>2. p \in DOMAIN c /\ p <= t
  BY <1>1, RowAtIs
<1>. HIDE DEF p
<1>3. t \in Nat /\ {p} \subseteq Frames!Upto(c, t)
  BY <1>1, <1>2 DEF Frames!Upto
<1>4. {c[r] : r \in {p}} \subseteq 0..L[t]
  BY <1>3, PastIsBounded
<1>. QED  BY <1>4 DEF p

LEMMA ReindexCausal ==
  ASSUME NEW L \in Limits, NEW c, Causal(c, L), NEW index \in SUBSET Nat
  PROVE  Causal(Frames!Reindex(c, index), L) /\ DOMAIN Frames!Reindex(c, index) = index
BY AtIsBounded DEF Frames!Reindex, Causal

LEMMA AbsentCausal ==
  ASSUME NEW L \in Limits, NEW index \in SUBSET Nat
  PROVE  Causal(Frames!AbsentOn(index), L) /\ DOMAIN Frames!AbsentOn(index) = index
BY DEF Frames!AbsentOn, Frames!NaN, Causal, Limits

LEMMA ArithCausal ==
  ASSUME NEW L \in Limits, NEW c, Causal(c, L), NEW others, \A d \in others : Causal(d, L)
  PROVE  Causal(Frames!Arith(c, others), L) /\ DOMAIN Frames!Arith(c, others) = DOMAIN c
<1>. SUFFICES ASSUME NEW t \in DOMAIN c
              PROVE  t \in Nat /\ Frames!AllOf({c[t]} \cup {Frames!At(d, t) : d \in others})
                                    \in 0..L[t]
  BY DEF Frames!Arith, Causal
<1>1. t \in Nat /\ c[t] \in 0..L[t] /\ L[t] \in Nat
  BY DEF Causal, Limits
<1>2. {c[t]} \cup {Frames!At(d, t) : d \in others} \in SUBSET (0..L[t])
  BY <1>1, AtIsBounded
<1>. QED  BY <1>1, <1>2, AllOfBound

LEMMA FlagCausal ==
  ASSUME NEW L \in Limits, NEW c, Causal(c, L), NEW others, \A d \in others : Causal(d, L)
  PROVE  Causal(Frames!Flag(c, others), L) /\ DOMAIN Frames!Flag(c, others) = DOMAIN c
<1>. SUFFICES ASSUME NEW t \in DOMAIN c
              PROVE  t \in Nat /\ Frames!AnyOf({c[t]} \cup {Frames!At(d, t) : d \in others})
                                    \in 0..L[t]
  BY DEF Frames!Flag, Causal
<1>1. t \in Nat /\ c[t] \in 0..L[t] /\ L[t] \in Nat
  BY DEF Causal, Limits
<1>2. {c[t]} \cup {Frames!At(d, t) : d \in others} \in SUBSET (0..L[t])
  BY <1>1, AtIsBounded
<1>. QED  BY <1>1, <1>2, AnyOfBound

LEMMA WhereCausal ==
  ASSUME NEW L \in Limits, NEW c, Causal(c, L), NEW condition
  PROVE  Causal(Frames!Where(c, condition), L) /\ DOMAIN Frames!Where(c, condition) = DOMAIN c
BY DEF Frames!Where, Frames!NaN, Causal, Limits

LEMMA ShiftCausal ==
  ASSUME NEW L \in Limits, NEW c, Causal(c, L), NEW n \in Nat
  PROVE  Causal(Frames!Shift(c, n), L) /\ DOMAIN Frames!Shift(c, n) = DOMAIN c
<1>. SUFFICES ASSUME NEW t \in DOMAIN c, ~(Frames!Pos(c, t) <= n)
              PROVE  c[Frames!RowAt(c, Frames!Pos(c, t) - n)] \in 0..L[t]
  BY DEF Frames!Shift, Frames!NaN, Causal, Limits
<1>1. DOMAIN c \subseteq Nat /\ t \in Nat
  BY DEF Causal
<1>2. Frames!Pos(c, t) \in Nat
  BY <1>1, Positions
<1>3. /\ Frames!Pos(c, t) - n \in Nat /\ 1 <= Frames!Pos(c, t) - n
      /\ Frames!Pos(c, t) - n <= Frames!Pos(c, t)
  BY <1>2
<1>. QED  BY <1>3, RowIsBounded

LEMMA LastRowsArePast == \A c, t, n : Frames!LastRows(c, t, n) \subseteq Frames!Upto(c, t)
BY DEF Frames!LastRows

LEMMA RollingCausal ==
  ASSUME NEW L \in Limits, NEW c, Causal(c, L), NEW n
  PROVE  Causal(Frames!Rolling(c, n), L) /\ DOMAIN Frames!Rolling(c, n) = DOMAIN c
<1>. SUFFICES ASSUME NEW t \in DOMAIN c
              PROVE  Frames!AllOf({c[r] : r \in Frames!LastRows(c, t, n)}) \in 0..L[t]
  BY DEF Frames!Rolling, Frames!NaN, Causal, Limits
<1>1. t \in Nat /\ L[t] \in Nat
  BY DEF Causal, Limits
<1>2. {c[r] : r \in Frames!LastRows(c, t, n)} \subseteq 0..L[t]
  BY <1>1, LastRowsArePast, PastIsBounded
<1>. QED  BY <1>1, <1>2, AllOfBound

LEMMA RollingAnyCausal ==
  ASSUME NEW L \in Limits, NEW c, Causal(c, L), NEW n
  PROVE  Causal(Frames!RollingAny(c, n), L) /\ DOMAIN Frames!RollingAny(c, n) = DOMAIN c
<1>. SUFFICES ASSUME NEW t \in DOMAIN c
              PROVE  Frames!AnyOf({c[r] : r \in Frames!LastRows(c, t, n)}) \in 0..L[t]
  BY DEF Frames!RollingAny, Causal
<1>1. t \in Nat /\ L[t] \in Nat
  BY DEF Causal, Limits
<1>2. {c[r] : r \in Frames!LastRows(c, t, n)} \subseteq 0..L[t]
  BY <1>1, LastRowsArePast, PastIsBounded
<1>. QED  BY <1>1, <1>2, AnyOfBound

LEMMA ChangeCausal ==
  ASSUME NEW L \in Limits, NEW c, Causal(c, L), NEW n \in Nat
  PROVE  Causal(Frames!Change(c, n), L) /\ DOMAIN Frames!Change(c, n) = DOMAIN c
<1>1. \A d \in {Frames!Shift(c, n)} : Causal(d, L)
  BY ShiftCausal
<1>2. /\ Causal(Frames!Arith(c, {Frames!Shift(c, n)}), L)
      /\ DOMAIN Frames!Arith(c, {Frames!Shift(c, n)}) = DOMAIN c
  BY <1>1, ArithCausal
<1>. QED  BY <1>2 DEF Frames!Change

LEMMA RecursiveCausal ==
  ASSUME NEW L \in Limits, NEW c, Causal(c, L)
  PROVE  Causal(Frames!Recursive(c), L) /\ DOMAIN Frames!Recursive(c) = DOMAIN c
<1>. SUFFICES ASSUME NEW t \in DOMAIN c
              PROVE  Frames!AnyOf({c[r] : r \in Frames!Upto(c, t)}) \in 0..L[t]
  BY DEF Frames!Recursive, Causal
<1>1. t \in Nat /\ L[t] \in Nat
  BY DEF Causal, Limits
<1>2. {c[r] : r \in Frames!Upto(c, t)} \subseteq 0..L[t]
  BY <1>1, PastIsBounded
<1>. QED  BY <1>1, <1>2, AnyOfBound

LEMMA SessionSoFarCausal ==
  ASSUME NEW L \in Limits, NEW c, Causal(c, L)
  PROVE  Causal(Frames!SessionSoFar(c), L) /\ DOMAIN Frames!SessionSoFar(c) = DOMAIN c
<1>. DEFINE Same(t) == {q \in Frames!Upto(c, t) : Frames!DayOf(q) = Frames!DayOf(t)}
<1>. SUFFICES ASSUME NEW t \in DOMAIN c
              PROVE  Frames!AnyOf({c[r] : r \in Same(t)}) \in 0..L[t]
  BY DEF Frames!SessionSoFar, Causal
<1>1. t \in Nat /\ L[t] \in Nat /\ Same(t) \subseteq Frames!Upto(c, t)
  BY DEF Causal, Limits
<1>. HIDE DEF Same
<1>2. {c[r] : r \in Same(t)} \subseteq 0..L[t]
  BY <1>1, PastIsBounded
<1>. QED  BY <1>1, <1>2, AnyOfBound

LEMMA SessionFirstCausal ==
  ASSUME NEW L \in Limits, NEW c, Causal(c, L)
  PROVE  Causal(Frames!SessionFirst(c), L) /\ DOMAIN Frames!SessionFirst(c) = DOMAIN c
<1>. DEFINE Same(t) == {q \in DOMAIN c : Frames!DayOf(q) = Frames!DayOf(t)}
<1>. SUFFICES ASSUME NEW t \in DOMAIN c PROVE c[Frames!Min(Same(t))] \in 0..L[t]
  BY DEF Frames!SessionFirst, Causal
<1>. DEFINE m == Frames!Min(Same(t))
<1>1. t \in Nat /\ L[t] \in Nat /\ Same(t) \in SUBSET Nat /\ t \in Same(t)
      /\ Same(t) \subseteq DOMAIN c
  BY DEF Causal, Limits
<1>. HIDE DEF Same
<1>2. m \in Same(t) /\ m <= t
  BY <1>1, LeastOf
<1>. HIDE DEF m
<1>3. {m} \subseteq Frames!Upto(c, t)
  BY <1>1, <1>2 DEF Frames!Upto
<1>4. {c[r] : r \in {m}} \subseteq 0..L[t]
  BY <1>1, <1>3, PastIsBounded
<1>. QED  BY <1>4 DEF m

\* align_causal: a row of one index sees a row of another that is not after it.
LEMMA AlignCausalBound ==
  ASSUME NEW L \in Limits, NEW c, Causal(c, L), NEW index \in SUBSET Nat
  PROVE  /\ Causal(Frames!AlignCausal(c, index), L)
         /\ DOMAIN Frames!AlignCausal(c, index) = index
<1>. DEFINE K(t) == {r \in Frames!Upto(c, t) : c[r] # Frames!NaN}
<1>. SUFFICES ASSUME NEW t \in index, K(t) # {}
              PROVE  c[Frames!Max(K(t))] \in 0..L[t]
  BY DEF Frames!AlignCausal, Frames!NaN, Causal, Limits
<1>. DEFINE m == Frames!Max(K(t))
<1>1. t \in Nat /\ K(t) \in SUBSET Nat /\ K(t) \subseteq Frames!Upto(c, t)
      /\ \A e \in K(t) : e <= t
  BY DEF Causal, Frames!Upto
<1>. HIDE DEF K
<1>2. m \in K(t)
  BY <1>1, GreatestOf
<1>. HIDE DEF m
<1>3. {m} \subseteq Frames!Upto(c, t)
  BY <1>1, <1>2
<1>4. {c[r] : r \in {m}} \subseteq 0..L[t]
  BY <1>1, <1>3, PastIsBounded
<1>. QED  BY <1>4 DEF m

LEMMA Clocks ==
  /\ DayLen \in Nat \ {0} /\ Window \in Nat \ {0} /\ Long \in Nat \ {0}
  /\ Strength \in Nat \ {0} /\ MinGap \in Nat \ {0} /\ FollowSessions \in Nat \ {0}
  /\ Days \in Nat /\ BarLen \in Nat \ {0} /\ HourLen \in Nat \ {0} /\ Lag \in Nat \ {0}
  /\ Open \in Nat \ {0} /\ LastMinute \in Nat \ {0}
  /\ Open <= LastMinute /\ LastMinute + BarLen < DayLen
BY SignalsConstants DEF Frames!ClockConstants, Frames!WindowConstants

LEMMA AtrCausal ==
  ASSUME NEW L \in Limits, NEW c, Causal(c, L)
  PROVE  Causal(Frames!Atr(c), L) /\ DOMAIN Frames!Atr(c) = DOMAIN c
<1>1. Causal(Frames!Recursive(c), L) /\ DOMAIN Frames!Recursive(c) = DOMAIN c
  BY RecursiveCausal
<1>. QED  BY <1>1 DEF Frames!Atr, Frames!NaN, Causal, Limits

LEMMA RrsCausal ==
  ASSUME NEW L \in Limits, NEW c, NEW atr, NEW b, NEW batr,
         Causal(c, L), Causal(atr, L), Causal(b, L), Causal(batr, L)
  PROVE  /\ Causal(Frames!Rrs(c, atr, b, batr), L)
         /\ DOMAIN Frames!Rrs(c, atr, b, batr) = DOMAIN c \cup DOMAIN b
<1>. DEFINE rows == DOMAIN c \cup DOMAIN b
            own == Frames!Reindex(Frames!Change(c, Window), rows)
            others == {Frames!Change(b, Window), atr, batr}
<1>1. Window \in Nat /\ rows \in SUBSET Nat
  BY Clocks DEF Causal
<1>2. Causal(Frames!Change(c, Window), L) /\ Causal(Frames!Change(b, Window), L)
  BY <1>1, ChangeCausal
<1>3. Causal(own, L) /\ DOMAIN own = rows
  BY <1>1, <1>2, ReindexCausal
<1>4. \A d \in others : Causal(d, L)
  BY <1>2
<1>. HIDE DEF own, others
<1>5. Causal(Frames!Arith(own, others), L) /\ DOMAIN Frames!Arith(own, others) = rows
  BY <1>3, <1>4, ArithCausal
<1>. QED  BY <1>5 DEF Frames!Rrs, own, others

LEMMA RollingRrsCausal ==
  ASSUME NEW L \in Limits, NEW c, Causal(c, L)
  PROVE  Causal(Frames!RollingRrs(c), L) /\ DOMAIN Frames!RollingRrs(c) = DOMAIN c
BY RollingCausal DEF Frames!RollingRrs

LEMMA VwapCausal ==
  ASSUME NEW L \in Limits, NEW c, Causal(c, L)
  PROVE  Causal(Frames!Vwap(c), L) /\ DOMAIN Frames!Vwap(c) = DOMAIN c
BY SessionSoFarCausal DEF Frames!Vwap

\* A minute of an earlier day stands before every minute of this one.
LEMMA DaysAscend ==
  ASSUME NEW s \in Nat, NEW t \in Nat
  PROVE  /\ Frames!DayOf(t) \in Nat /\ t % DayLen \in 0 .. DayLen - 1
         /\ t = Frames!DayOf(t) * DayLen + (t % DayLen)
         /\ s <= t => Frames!DayOf(s) <= Frames!DayOf(t)
<1>1. DayLen \in Nat /\ DayLen > 0
  BY Clocks
<1>2. \A k \in Nat : /\ k \div DayLen \in Nat /\ k % DayLen \in 0 .. DayLen - 1
                     /\ k = (k \div DayLen) * DayLen + (k % DayLen)
  BY <1>1
<1>3. s <= t => s \div DayLen <= t \div DayLen
  BY <1>1
<1>. QED  BY <1>2, <1>3 DEF Frames!DayOf

LEMMA EarlierDays ==
  ASSUME NEW d \in Nat, NEW e \in Nat, d < e
  PROVE  d * DayLen + DayLen <= e * DayLen /\ d * DayLen \in Nat /\ e * DayLen \in Nat
<1>1. DayLen \in Nat
  BY Clocks
<1>2. PICK k \in Nat : e = d + 1 + k
  <2>1. e - d - 1 \in Nat /\ e = d + 1 + (e - d - 1)
    OBVIOUS
  <2>. QED  BY <2>1
<1>3. e * DayLen = d * DayLen + DayLen + k * DayLen /\ k * DayLen \in Nat
  BY <1>1, <1>2
<1>. QED  BY <1>1, <1>3

LEMMA RvolCausal ==
  ASSUME NEW L \in Limits, NEW c, Causal(c, L)
  PROVE  Causal(Frames!Rvol(c), L) /\ DOMAIN Frames!Rvol(c) = DOMAIN c
<1>. DEFINE sofar == Frames!SessionSoFar(c)
            days == {Frames!DayOf(r) : r \in DOMAIN c}
            Before(t) == {d \in days : d < Frames!DayOf(t) /\
                            Frames!Cardinality({e \in days : d < e /\ e < Frames!DayOf(t)}) < Window}
            Baseline(t) == {Frames!At(sofar, (d * DayLen) + (t % DayLen)) : d \in Before(t)}
<1>1. Causal(sofar, L) /\ DOMAIN sofar = DOMAIN c
  BY SessionSoFarCausal
<1>. SUFFICES ASSUME NEW t \in DOMAIN c
              PROVE  Frames!AllOf({sofar[t]} \cup Baseline(t)) \in 0..L[t]
  <2>1. Frames!Rvol(c) =
          [t \in DOMAIN c |-> IF Frames!Cardinality(Before(t)) < Window THEN Frames!NaN
                              ELSE Frames!AllOf({sofar[t]} \cup Baseline(t))]
    BY DEF Frames!Rvol
  <2>2. \A t \in DOMAIN c : t \in Nat /\ L[t] \in Nat
    BY DEF Causal, Limits
  <2>. HIDE DEF Baseline, Before, sofar
  <2>. QED  BY <2>1, <2>2 DEF Frames!NaN, Causal
<1>2. t \in Nat /\ L[t] \in Nat /\ days \subseteq Nat
  BY DaysAscend DEF Causal, Limits
<1>3. ASSUME NEW d \in Before(t)
      PROVE  Frames!At(sofar, (d * DayLen) + (t % DayLen)) \in 0..L[t]
  <2>. DEFINE s == (d * DayLen) + (t % DayLen)
  <2>1. d \in Nat /\ d < Frames!DayOf(t)
    BY <1>2
  <2>2. s \in Nat /\ s <= t
    <3>1. Frames!DayOf(t) \in Nat
      BY <1>2, DaysAscend
    <3>2. /\ d * DayLen \in Nat /\ Frames!DayOf(t) * DayLen \in Nat
          /\ d * DayLen + DayLen <= Frames!DayOf(t) * DayLen
      BY <2>1, <3>1, EarlierDays
    <3>3. /\ t % DayLen \in Nat /\ DayLen \in Nat
          /\ t = Frames!DayOf(t) * DayLen + (t % DayLen)
      <4>1. DayLen \in Nat
        BY Clocks
      <4>2. t % DayLen \in 0 .. DayLen - 1
        BY <1>2, DaysAscend
      <4>3. t = Frames!DayOf(t) * DayLen + (t % DayLen)
        BY <1>2, DaysAscend
      <4>. QED  BY <4>1, <4>2, <4>3
    <3>. QED  BY <1>2, <3>2, <3>3
  <2>. HIDE DEF s, sofar
  <2>3. Frames!At(sofar, s) \in 0..L[s] /\ L[s] <= L[t] /\ L[s] \in Nat
    BY <1>1, <1>2, <2>2, AtIsBounded DEF Limits
  <2>. QED  BY <1>2, <2>3 DEF s
<1>4. Baseline(t) \subseteq 0..L[t]
  BY <1>3
<1>5. sofar[t] \in 0..L[t]
  BY <1>1 DEF Causal
<1>. HIDE DEF Baseline, sofar
<1>6. {sofar[t]} \cup Baseline(t) \in SUBSET (0..L[t])
  BY <1>4, <1>5
<1>. QED  BY <1>2, <1>6, AllOfBound

LEMMA VolumeRatioCausal ==
  ASSUME NEW L \in Limits, NEW c, Causal(c, L)
  PROVE  Causal(Frames!VolumeRatio(c), L) /\ DOMAIN Frames!VolumeRatio(c) = DOMAIN c
<1>1. Causal(Frames!Shift(c, 1), L)
  BY ShiftCausal
<1>2. Causal(Frames!Rolling(Frames!Shift(c, 1), Window), L)
  BY <1>1, RollingCausal
<1>3. \A d \in {Frames!Rolling(Frames!Shift(c, 1), Window)} : Causal(d, L)
  BY <1>2
<1>4. /\ Causal(Frames!Arith(c, {Frames!Rolling(Frames!Shift(c, 1), Window)}), L)
      /\ DOMAIN Frames!Arith(c, {Frames!Rolling(Frames!Shift(c, 1), Window)}) = DOMAIN c
  BY <1>3, ArithCausal
<1>. QED  BY <1>4 DEF Frames!VolumeRatio

LEMMA ChopRatioCausal ==
  ASSUME NEW L \in Limits, NEW c, Causal(c, L)
  PROVE  Causal(Frames!ChopRatio(c), L) /\ DOMAIN Frames!ChopRatio(c) = DOMAIN c
<1>1. Causal(Frames!Change(c, 1), L) /\ DOMAIN Frames!Change(c, 1) = DOMAIN c
  BY ChangeCausal
<1>2. /\ Causal(Frames!Rolling(Frames!Change(c, 1), Window), L)
      /\ DOMAIN Frames!Rolling(Frames!Change(c, 1), Window) = DOMAIN Frames!Change(c, 1)
  BY <1>1, RollingCausal
<1>. QED  BY <1>1, <1>2 DEF Frames!ChopRatio

\* A recursion over what a row and another column of it say.
LEMMA RecursiveFlagCausal ==
  ASSUME NEW L \in Limits, NEW c, NEW d, Causal(c, L), Causal(d, L)
  PROVE  /\ Causal(Frames!Recursive(Frames!Flag(c, {d})), L)
         /\ DOMAIN Frames!Recursive(Frames!Flag(c, {d})) = DOMAIN c
<1>1. \A e \in {d} : Causal(e, L)
  OBVIOUS
<1>2. Causal(Frames!Flag(c, {d}), L) /\ DOMAIN Frames!Flag(c, {d}) = DOMAIN c
  BY <1>1, FlagCausal
<1>3. /\ Causal(Frames!Recursive(Frames!Flag(c, {d})), L)
      /\ DOMAIN Frames!Recursive(Frames!Flag(c, {d})) = DOMAIN Frames!Flag(c, {d})
  BY <1>2, RecursiveCausal
<1>. QED  BY <1>2, <1>3

LEMMA StackedCountCausal ==
  ASSUME NEW L \in Limits, NEW c, NEW d, Causal(c, L), Causal(d, L)
  PROVE  Causal(Frames!StackedCount(c, d), L) /\ DOMAIN Frames!StackedCount(c, d) = DOMAIN c
BY RecursiveFlagCausal DEF Frames!StackedCount

LEMMA HaContinuationCausal ==
  ASSUME NEW L \in Limits, NEW c, NEW d, Causal(c, L), Causal(d, L)
  PROVE  /\ Causal(Frames!HaContinuation(c, d), L)
         /\ DOMAIN Frames!HaContinuation(c, d) = DOMAIN c
BY RecursiveFlagCausal DEF Frames!HaContinuation

LEMMA LaguerreRsiCausal ==
  ASSUME NEW L \in Limits, NEW c, Causal(c, L)
  PROVE  Causal(Frames!LaguerreRsi(c), L) /\ DOMAIN Frames!LaguerreRsi(c) = DOMAIN c
BY RecursiveCausal DEF Frames!LaguerreRsi

LEMMA OneCandleWonderCausal ==
  ASSUME NEW L \in Limits, NEW c, Causal(c, L)
  PROVE  Causal(Frames!OneCandleWonder(c), L) /\ DOMAIN Frames!OneCandleWonder(c) = DOMAIN c
<1>. DEFINE others == {Frames!Rolling(Frames!Change(c, 1), Window), Frames!Change(c, Window)}
<1>1. Causal(Frames!Rolling(Frames!Change(c, 1), Window), L)
  BY ChangeCausal, RollingCausal
<1>2. Causal(Frames!Change(c, Window), L)
  BY ChangeCausal, Clocks
<1>3. \A d \in others : Causal(d, L)
  BY <1>1, <1>2
<1>. HIDE DEF others
<1>4. Causal(Frames!Flag(c, others), L) /\ DOMAIN Frames!Flag(c, others) = DOMAIN c
  BY <1>3, FlagCausal
<1>. QED  BY <1>4 DEF Frames!OneCandleWonder, others

LEMMA SmaStackCausal ==
  ASSUME NEW L \in Limits, NEW c, Causal(c, L)
  PROVE  Causal(Frames!SmaStack(c), L) /\ DOMAIN Frames!SmaStack(c) = DOMAIN c
<1>. DEFINE others == {Frames!Sma(c, Window), Frames!Sma(c, Long)}
<1>1. \A d \in others : Causal(d, L)
  BY RollingCausal DEF Frames!Sma
<1>. HIDE DEF others
<1>2. Causal(Frames!Arith(c, others), L) /\ DOMAIN Frames!Arith(c, others) = DOMAIN c
  BY <1>1, ArithCausal
<1>. QED  BY <1>2 DEF Frames!SmaStack, others

\* A pivot that is confirmed by a row was told by bars that are not after it.
LEMMA PivotsArePast ==
  ASSUME NEW L \in Limits, NEW c, Causal(c, L), NEW t \in DOMAIN c,
         NEW S, S \subseteq Frames!Confirmed(c, t)
  PROVE  Frames!AnyOf({Frames!PivotReads(c, j) : j \in S}) \in 0..L[t]
<1>1. DOMAIN c \subseteq Nat /\ t \in Nat /\ L[t] \in Nat
  BY DEF Causal, Limits
<1>2. ASSUME NEW j \in S PROVE Frames!PivotReads(c, j) \in 0..L[t]
  <2>1. /\ j \in DOMAIN c /\ j \in Nat
        /\ Frames!Pos(c, j) + Strength <= Frames!Pos(c, t)
    BY <1>1 DEF Frames!Confirmed, Frames!Pivots
  <2>2. Frames!Pos(c, j) + Strength \in Nat /\ 1 <= Frames!Pos(c, j) + Strength
    BY <1>1, <2>1, Positions, Clocks
  <2>3. c[Frames!RowAt(c, Frames!Pos(c, j) + Strength)] \in 0..L[t]
    BY <2>1, <2>2, RowIsBounded
  <2>. QED  BY <2>3 DEF Frames!PivotReads
<1>3. {Frames!PivotReads(c, j) : j \in S} \in SUBSET (0..L[t])
  BY <1>2
<1>. QED  BY <1>1, <1>3, AnyOfBound

LEMMA TrendlineCausal ==
  ASSUME NEW L \in Limits, NEW c, Causal(c, L)
  PROVE  Causal(Frames!Trendline(c), L) /\ DOMAIN Frames!Trendline(c) = DOMAIN c
<1>1. \A t \in DOMAIN c :
        Frames!AnyOf({Frames!PivotReads(c, j) : j \in Frames!Confirmed(c, t)}) \in 0..L[t]
  BY PivotsArePast
<1>. QED  BY <1>1 DEF Frames!Trendline, Frames!NaN, Causal, Limits

LEMMA FreshBreachCausal ==
  ASSUME NEW L \in Limits, NEW c, NEW line, NEW atr,
         Causal(c, L), Causal(line, L), Causal(atr, L)
  PROVE  /\ Causal(Frames!FreshBreach(c, line, atr), L)
         /\ DOMAIN Frames!FreshBreach(c, line, atr) = DOMAIN c
<1>. DEFINE breach == Frames!Where(Frames!Flag(c, {line, atr}), Frames!Arith(line, {atr}))
<1>1. \A d \in {line, atr} : Causal(d, L)
  OBVIOUS
<1>2. Causal(Frames!Flag(c, {line, atr}), L) /\ DOMAIN Frames!Flag(c, {line, atr}) = DOMAIN c
  BY <1>1, FlagCausal
<1>3. Causal(breach, L) /\ DOMAIN breach = DOMAIN c
  BY <1>2, WhereCausal
<1>. HIDE DEF breach
<1>4. \A d \in {Frames!Shift(breach, 1)} : Causal(d, L)
  BY <1>3, ShiftCausal
<1>5. /\ Causal(Frames!Flag(breach, {Frames!Shift(breach, 1)}), L)
      /\ DOMAIN Frames!Flag(breach, {Frames!Shift(breach, 1)}) = DOMAIN c
  BY <1>3, <1>4, FlagCausal
<1>6. /\ Causal(Frames!Where(Frames!Flag(breach, {Frames!Shift(breach, 1)}), breach), L)
      /\ DOMAIN Frames!Where(Frames!Flag(breach, {Frames!Shift(breach, 1)}), breach) = DOMAIN c
  BY <1>5, WhereCausal
<1>. QED  BY <1>6 DEF Frames!FreshBreach, breach

LEMMA HeadroomCausal ==
  ASSUME NEW L \in Limits, NEW c, NEW atr, Causal(c, L), Causal(atr, L)
  PROVE  Causal(Frames!Headroom(c, atr), L) /\ DOMAIN Frames!Headroom(c, atr) = DOMAIN c
<1>. DEFINE Recent(t) == {p \in Frames!Confirmed(c, t) : Frames!Pos(c, t) - Frames!Pos(c, p) <= Long}
            swing == [t \in DOMAIN c |-> Frames!AnyOf({Frames!PivotReads(c, j) : j \in Recent(t)})]
            others == {Frames!Sma(c, Window), Frames!Sma(c, Long), swing}
<1>1. \A t \in DOMAIN c : swing[t] \in 0..L[t]
  <2>. TAKE t \in DOMAIN c
  <2>1. Recent(t) \subseteq Frames!Confirmed(c, t)
    OBVIOUS
  <2>. HIDE DEF Recent
  <2>2. Frames!AnyOf({Frames!PivotReads(c, j) : j \in Recent(t)}) \in 0..L[t]
    BY <2>1, PivotsArePast
  <2>. QED  BY <2>2
<1>2. Causal(swing, L)
  BY <1>1 DEF Causal
<1>. HIDE DEF swing
<1>3. \A d \in others : Causal(d, L)
  BY <1>2, RollingCausal DEF Frames!Sma
<1>. HIDE DEF others
<1>4. Causal(Frames!RollingAny(c, Long), L) /\ DOMAIN Frames!RollingAny(c, Long) = DOMAIN c
  BY RollingAnyCausal
<1>5. /\ Causal(Frames!Flag(Frames!RollingAny(c, Long), others), L)
      /\ DOMAIN Frames!Flag(Frames!RollingAny(c, Long), others) = DOMAIN c
  BY <1>3, <1>4, FlagCausal
<1>6. /\ Causal(Frames!Where(Frames!Flag(Frames!RollingAny(c, Long), others), atr), L)
      /\ DOMAIN Frames!Where(Frames!Flag(Frames!RollingAny(c, Long), others), atr) = DOMAIN c
  BY <1>5, WhereCausal
<1>. QED  BY <1>6 DEF Frames!Headroom, others, swing

LEMMA RegimeCausal ==
  ASSUME NEW L \in Limits, NEW c, Causal(c, L)
  PROVE  Causal(Frames!Regime(c), L) /\ DOMAIN Frames!Regime(c) = DOMAIN c
<1>. DEFINE others == {Frames!Change(Frames!Sma(c, Long), 1)}
<1>1. Causal(Frames!Sma(c, Long), L)
  BY RollingCausal DEF Frames!Sma
<1>2. \A d \in others : Causal(d, L)
  BY <1>1, ChangeCausal
<1>. HIDE DEF others
<1>3. /\ Causal(Frames!Rolling(c, Window), L)
      /\ DOMAIN Frames!Rolling(c, Window) = DOMAIN c
  BY RollingCausal
<1>4. /\ Causal(Frames!Arith(Frames!Rolling(c, Window), others), L)
      /\ DOMAIN Frames!Arith(Frames!Rolling(c, Window), others) = DOMAIN c
  BY <1>2, <1>3, ArithCausal
<1>. QED  BY <1>4 DEF Frames!Regime, others

\* What is known of the rows of a frame: a bar's by its label, a minute's by the next,
\* and a day's by the close of its session.
ByLabel == [t \in Nat |-> t]
ByNextMinute == [t \in Nat |-> t + 1]
BySession == [t \in Nat |-> Frames!CloseOf(Frames!DayOf(t))]

Dates == {d * DayLen : d \in Nat}
Minutes(c) == DOMAIN c \subseteq Nat /\ \A m \in DOMAIN c : c[m] = m + 1
Dailies(c) == DOMAIN c \subseteq Dates /\ \A r \in DOMAIN c : c[r] = Frames!CloseOf(Frames!DayOf(r))
AllCausal(f, L) == \A col \in DOMAIN f : Causal(f[col], L)

\* A session closes before the next begins.
LEMMA SessionsClose ==
  /\ \A d \in Nat : /\ d * DayLen \in Nat /\ Frames!CloseOf(d) \in Nat
                    /\ Frames!CloseOf(d) < d * DayLen + DayLen
                    /\ d * DayLen < Frames!CloseOf(d)
                    /\ Frames!DayOf(d * DayLen) = d
  /\ \A d, e \in Nat : d < e => Frames!CloseOf(d) < e * DayLen
  /\ \A d, e \in Nat : d <= e => Frames!CloseOf(d) <= Frames!CloseOf(e)
<1>1. DayLen \in Nat /\ DayLen > 0 /\ LastMinute \in Nat /\ LastMinute + 1 < DayLen /\ LastMinute + 1 \in Nat
      /\ LastMinute + 1 > 0
  BY Clocks
<1>2. ASSUME NEW d \in Nat PROVE d * DayLen \in Nat /\ Frames!CloseOf(d) = d * DayLen + (LastMinute + 1)
  BY <1>1 DEF Frames!CloseOf
<1>3. ASSUME NEW d \in Nat PROVE Frames!DayOf(d * DayLen) = d
  BY <1>1 DEF Frames!DayOf
<1>4. \A d, e \in Nat : d < e => Frames!CloseOf(d) < e * DayLen
  <2>. TAKE d, e \in Nat
  <2>. HAVE d < e
  <2>1. d * DayLen + DayLen <= e * DayLen /\ e * DayLen \in Nat
    BY EarlierDays
  <2>. QED  BY <1>1, <1>2, <2>1
<1>5. \A d, e \in Nat : d <= e => Frames!CloseOf(d) <= Frames!CloseOf(e)
  <2>. TAKE d, e \in Nat
  <2>1. CASE d < e
    <3>1. Frames!CloseOf(d) < e * DayLen /\ e * DayLen \in Nat
      BY <1>2, <1>4, <2>1
    <3>. QED  BY <1>1, <1>2, <3>1
  <2>2. CASE d = e
    BY <1>1, <1>2, <2>2
  <2>. QED  BY <2>1, <2>2
<1>. QED  BY <1>1, <1>2, <1>3, <1>4, <1>5

LEMMA TheLimits == ByLabel \in Limits /\ ByNextMinute \in Limits /\ BySession \in Limits
<1>1. ByLabel \in Limits /\ ByNextMinute \in Limits
  BY DEF Limits, ByLabel, ByNextMinute
<1>2. BySession \in [Nat -> Nat]
  BY SessionsClose, DaysAscend DEF BySession
<1>3. ASSUME NEW s \in Nat, NEW t \in Nat, s <= t PROVE BySession[s] <= BySession[t]
  BY <1>3, SessionsClose, DaysAscend DEF BySession
<1>. QED  BY <1>1, <1>2, <1>3 DEF Limits

LEMMA DatesAre ==
  ASSUME NEW r \in Dates
  PROVE  r \in Nat /\ Frames!DayOf(r) \in Nat /\ r = Frames!DayOf(r) * DayLen
<1>1. PICK d \in Nat : r = d * DayLen
  BY DEF Dates
<1>. QED  BY <1>1, SessionsClose

LEMMA BarsCausal ==
  /\ \A c : Minutes(c) => Causal(c, ByNextMinute)
  /\ \A c : Dailies(c) => Causal(c, BySession)
<1>1. ASSUME NEW c, Minutes(c) PROVE Causal(c, ByNextMinute)
  BY <1>1 DEF Minutes, Causal, ByNextMinute
<1>2. ASSUME NEW c, Dailies(c) PROVE Causal(c, BySession)
  <2>1. DOMAIN c \subseteq Nat
    BY <1>2, DatesAre DEF Dailies
  <2>. SUFFICES ASSUME NEW r \in DOMAIN c PROVE c[r] \in 0 .. BySession[r]
    BY <2>1 DEF Causal
  <2>2. c[r] = BySession[r] /\ BySession[r] \in Nat
    BY <1>2, <2>1, TheLimits DEF Dailies, BySession, Limits
  <2>. QED  BY <2>2
<1>. QED  BY <1>1, <1>2

\* A bar that closes on the left edge of its bucket is before the label, one that may
\* end with it is not after it.
LEMMA Edges ==
  ASSUME NEW r \in Nat, NEW len \in Nat \ {0}
  PROVE  /\ Frames!Edge(r, len, "left") \in Nat /\ r < Frames!Edge(r, len, "left")
         /\ Frames!Edge(r, len, "right") \in Nat /\ r <= Frames!Edge(r, len, "right")
         /\ Frames!Edge(r, len, "right") % len = 0
<1>1. r \div len \in Nat /\ r % len \in 0 .. len - 1 /\ r = (r \div len) * len + (r % len)
  OBVIOUS
<1>2. (r \div len + 1) * len = (r \div len) * len + len
  BY <1>1
<1>3. (r \div len + 1) * len \in Nat /\ r < (r \div len + 1) * len
      /\ ((r \div len + 1) * len) % len = 0
  BY <1>1, <1>2
<1>4. Frames!Edge(r, len, "left") = (r \div len + 1) * len
  BY DEF Frames!Edge
<1>5. Frames!Edge(r, len, "right") = IF r % len = 0 THEN r ELSE (r \div len + 1) * len
  BY DEF Frames!Edge
<1>. QED  BY <1>3, <1>4, <1>5

LEMMA ResampleCausal ==
  ASSUME NEW len \in Nat \ {0}, NEW c
  PROVE  /\ Causal(c, ByNextMinute) => Causal(Frames!Resample(c, len, "left"), ByLabel)
         /\ Causal(c, ByLabel) => Causal(Frames!Resample(c, len, "right"), ByLabel)
<1>1. ASSUME NEW closed, DOMAIN c \subseteq Nat,
             \A r \in DOMAIN c : /\ Frames!Edge(r, len, closed) \in Nat
                                 /\ c[r] \in 0 .. Frames!Edge(r, len, closed)
      PROVE  Causal(Frames!Resample(c, len, closed), ByLabel)
  <2>. DEFINE Bucket(b) == {q \in DOMAIN c : Frames!Edge(q, len, closed) = b}
  <2>. SUFFICES ASSUME NEW r0 \in DOMAIN c, NEW b, b = Frames!Edge(r0, len, closed)
                PROVE  Frames!AnyOf({c[r] : r \in Bucket(b)}) \in 0..b
    BY <1>1 DEF Frames!Resample, Causal, ByLabel
  <2>1. {c[r] : r \in Bucket(b)} \in SUBSET (0..b) /\ b \in Nat
    BY <1>1
  <2>. HIDE DEF Bucket
  <2>. QED  BY <2>1, AnyOfBound
<1>2. ASSUME Causal(c, ByNextMinute) PROVE Causal(Frames!Resample(c, len, "left"), ByLabel)
  <2>1. \A r \in DOMAIN c : r \in Nat /\ c[r] \in 0 .. r + 1
    BY <1>2 DEF Causal, ByNextMinute
  <2>2. \A r \in DOMAIN c : /\ Frames!Edge(r, len, "left") \in Nat
                            /\ c[r] \in 0 .. Frames!Edge(r, len, "left")
    BY <2>1, Edges
  <2>. QED  BY <1>1, <2>1, <2>2
<1>3. ASSUME Causal(c, ByLabel) PROVE Causal(Frames!Resample(c, len, "right"), ByLabel)
  <2>1. \A r \in DOMAIN c : r \in Nat /\ c[r] \in 0 .. r
    BY <1>3 DEF Causal, ByLabel
  <2>2. \A r \in DOMAIN c : /\ Frames!Edge(r, len, "right") \in Nat
                            /\ c[r] \in 0 .. Frames!Edge(r, len, "right")
    BY <2>1, Edges
  <2>. QED  BY <1>1, <2>1, <2>2
<1>. QED  BY <1>2, <1>3

LEMMA FiveMinutesCausal ==
  ASSUME NEW c, Minutes(c)
  PROVE  Causal(Frames!FiveMinutes(c), ByLabel)
BY BarsCausal, ResampleCausal, Clocks DEF Frames!FiveMinutes

LEMMA HourAtrCausal ==
  ASSUME NEW c, Causal(c, ByLabel), NEW index \in SUBSET Nat
  PROVE  /\ Causal(Frames!HourAtr(c, index), ByLabel)
         /\ DOMAIN Frames!HourAtr(c, index) = index
<1>1. Causal(Frames!Hours(c), ByLabel)
  BY ResampleCausal, Clocks DEF Frames!Hours
<1>2. Causal(Frames!Atr(Frames!Hours(c)), ByLabel)
  BY <1>1, TheLimits, AtrCausal
<1>3. /\ Causal(Frames!AlignCausal(Frames!Atr(Frames!Hours(c)), index), ByLabel)
      /\ DOMAIN Frames!AlignCausal(Frames!Atr(Frames!Hours(c)), index) = index
  BY <1>2, TheLimits, AlignCausalBound
<1>. QED  BY <1>3 DEF Frames!HourAtr

LEMMA CloseLabelCausal ==
  ASSUME NEW c, Causal(c, ByNextMinute)
  PROVE  Causal(Frames!CloseLabel(c), ByLabel)
<1>1. \A r \in DOMAIN c : r \in Nat /\ c[r] \in 0 .. r + 1
  BY DEF Causal, ByNextMinute
<1>2. DOMAIN Frames!CloseLabel(c) = {r + 1 : r \in DOMAIN c}
      /\ \A t \in {r + 1 : r \in DOMAIN c} : Frames!CloseLabel(c)[t] = c[t - 1]
  BY DEF Frames!CloseLabel
<1>3. ASSUME NEW r \in DOMAIN c
      PROVE  r + 1 \in Nat /\ Frames!CloseLabel(c)[r + 1] \in 0 .. ByLabel[r + 1]
  <2>1. r + 1 \in Nat /\ (r + 1) - 1 = r /\ ByLabel[r + 1] = r + 1
    BY <1>1 DEF ByLabel
  <2>. QED  BY <1>1, <1>2, <2>1
<1>. QED  BY <1>2, <1>3 DEF Causal

\* align_daily_to_intraday: the shift by one session is what makes a daily value known
\* by its label.
LEMMA AlignDailyCausal ==
  ASSUME NEW c, Causal(c, BySession), DOMAIN c \subseteq Dates, NEW index \in SUBSET Nat
  PROVE  /\ Causal(Frames!AlignDaily(c, index), ByLabel)
         /\ DOMAIN Frames!AlignDaily(c, index) = index
<1>. DEFINE shifted == Frames!Shift(c, 1)
<1>1. DOMAIN c \subseteq Nat
  BY DEF Causal
<1>2. Causal(shifted, ByLabel)
  <2>. SUFFICES ASSUME NEW t \in DOMAIN c, ~(Frames!Pos(c, t) <= 1)
                PROVE  c[Frames!RowAt(c, Frames!Pos(c, t) - 1)] \in 0..t
    BY <1>1 DEF Frames!Shift, Frames!NaN, Causal, ByLabel
  <2>. DEFINE n == Frames!Pos(c, t) - 1
              p == Frames!RowAt(c, n)
  <2>1. t \in Nat /\ Frames!Pos(c, t) \in Nat
    BY <1>1, Positions
  <2>2. n \in Nat /\ 1 <= n /\ n < Frames!Pos(c, t) /\ n <= Frames!Pos(c, t)
    BY <2>1
  <2>. HIDE DEF n
  <2>3. p \in DOMAIN c /\ p < t
    BY <1>1, <2>2, RowAtIs
  <2>. HIDE DEF p
  <2>4. /\ Frames!DayOf(p) \in Nat /\ p = Frames!DayOf(p) * DayLen
        /\ Frames!DayOf(t) \in Nat /\ t = Frames!DayOf(t) * DayLen
    BY <2>3, DatesAre
  <2>5. Frames!DayOf(p) < Frames!DayOf(t)
    <3>1. p \in Nat /\ Frames!DayOf(p) <= Frames!DayOf(t)
      BY <1>1, <2>1, <2>3, DaysAscend
    <3>2. Frames!DayOf(p) # Frames!DayOf(t)
      BY <2>1, <2>3, <2>4, <3>1
    <3>. QED  BY <2>4, <3>1, <3>2
  <2>6. Frames!CloseOf(Frames!DayOf(p)) < t
    BY <2>4, <2>5, SessionsClose
  <2>7. c[p] \in 0 .. Frames!CloseOf(Frames!DayOf(p)) /\ Frames!CloseOf(Frames!DayOf(p)) \in Nat
    BY <1>1, <2>3, <2>4, SessionsClose DEF Causal, BySession
  <2>8. c[p] \in 0..t
    BY <2>1, <2>6, <2>7
  <2>. QED  BY <2>8 DEF p, n
<1>. HIDE DEF shifted
<1>3. /\ Causal(Frames!AlignCausal(shifted, index), ByLabel)
      /\ DOMAIN Frames!AlignCausal(shifted, index) = index
  BY <1>2, TheLimits, AlignCausalBound
<1>. QED  BY <1>3 DEF Frames!AlignDaily, shifted

\* DailyFeatures: no column is later than the bars it is made of, on the rows of the
\* stock.
LEMMA DailyFeaturesCausal ==
  ASSUME NEW L \in Limits, NEW c, NEW b, Causal(c, L), Causal(b, L)
  PROVE  LET f == Frames!DailyFeatures(c, b)
         IN  \A col \in DOMAIN f : Causal(f[col], L) /\ DOMAIN f[col] = DOMAIN c
<1>. DEFINE atr == Frames!Atr(c)
            rrs == Frames!Rrs(c, atr, b, Frames!Atr(b))
            f == [atr_d1 |-> atr,
                  rrs_d1 |-> Frames!Reindex(rrs, DOMAIN c),
                  rolling_rrs_d1 |-> Frames!Reindex(Frames!RollingRrs(rrs), DOMAIN c),
                  rrs_d1_std |-> Frames!Reindex(Frames!Rolling(rrs, Window), DOMAIN c),
                  ha_cont_d1 |-> Frames!HaContinuation(c, atr),
                  sma_stack |-> Frames!SmaStack(c),
                  headroom |-> Frames!Headroom(c, atr),
                  volume_ratio_d1 |-> Frames!VolumeRatio(c),
                  day_pc |-> Frames!Change(c, 1),
                  bench_day_pc |-> Frames!Reindex(Frames!Change(b, 1), DOMAIN c),
                  close_d1 |-> c]
            Fine(d) == Causal(d, L) /\ DOMAIN d = DOMAIN c
<1>0. Frames!DailyFeatures(c, b) = f
  BY DEF Frames!DailyFeatures
<1>1. DOMAIN c \in SUBSET Nat
  BY DEF Causal
<1>2. Fine(atr) /\ Causal(Frames!Atr(b), L)
  BY AtrCausal
<1>. HIDE DEF atr
<1>3. Causal(rrs, L)
  BY <1>2, RrsCausal
<1>. HIDE DEF rrs
<1>4. Fine(Frames!Reindex(rrs, DOMAIN c))
  BY <1>1, <1>3, ReindexCausal
<1>5. Fine(Frames!Reindex(Frames!RollingRrs(rrs), DOMAIN c))
  BY <1>1, <1>3, RollingRrsCausal, ReindexCausal
<1>6. Fine(Frames!Reindex(Frames!Rolling(rrs, Window), DOMAIN c))
  BY <1>1, <1>3, RollingCausal, ReindexCausal
<1>7. Fine(Frames!HaContinuation(c, atr)) /\ Fine(Frames!Headroom(c, atr))
  BY <1>2, HaContinuationCausal, HeadroomCausal
<1>8. Fine(Frames!SmaStack(c)) /\ Fine(Frames!VolumeRatio(c))
  BY SmaStackCausal, VolumeRatioCausal
<1>9. Fine(Frames!Change(c, 1)) /\ Causal(Frames!Change(b, 1), L)
  BY ChangeCausal
<1>10. Fine(Frames!Reindex(Frames!Change(b, 1), DOMAIN c))
  BY <1>1, <1>9, ReindexCausal
<1>11. Fine(c)
  OBVIOUS
<1>12. \A col \in DOMAIN f : Fine(f[col])
  <2>. HIDE DEF Fine
  <2>. QED  BY <1>2, <1>4, <1>5, <1>6, <1>7, <1>8, <1>9, <1>10, <1>11
<1>. HIDE DEF f
<1>. QED  BY <1>0, <1>12

\* BiasOf: of a score that is causal, on bars that are.
LEMMA BiasOfCausal ==
  ASSUME NEW L \in Limits, NEW c, NEW raw, NEW stacked,
         Causal(c, L), Causal(raw, L), Causal(stacked, L)
  PROVE  AllCausal(Frames!BiasOf(c, raw, stacked), L)
<1>. DEFINE smoothed == Frames!Where(Frames!Recursive(raw), raw)
            bias == Frames!Where(Frames!Recursive(smoothed), smoothed)
            line == Frames!Trendline(c)
            fresh == Frames!FreshBreach(c, line, Frames!Atr(c))
            before == Frames!Shift(bias, 1)
            fired == Frames!Flag(bias, {before, fresh, line})
            turned == Frames!Flag(bias, {before, stacked})
            f == [raw_score |-> raw, smoothed_score |-> smoothed, bias |-> bias,
                  trigger |-> fired, flip_flatten |-> turned]
<1>0. Frames!BiasOf(c, raw, stacked) = f
  BY DEF Frames!BiasOf
<1>1. Causal(smoothed, L)
  BY RecursiveCausal, WhereCausal
<1>. HIDE DEF smoothed
<1>2. Causal(bias, L)
  BY <1>1, RecursiveCausal, WhereCausal
<1>. HIDE DEF bias
<1>3. Causal(line, L)
  BY TrendlineCausal
<1>. HIDE DEF line
<1>4. Causal(fresh, L)
  BY <1>3, AtrCausal, FreshBreachCausal
<1>. HIDE DEF fresh
<1>5. Causal(before, L)
  BY <1>2, ShiftCausal
<1>. HIDE DEF before
<1>6. \A d \in {before, fresh, line} : Causal(d, L)
  BY <1>3, <1>4, <1>5
<1>7. \A d \in {before, stacked} : Causal(d, L)
  BY <1>5
<1>8. Causal(fired, L)
  BY <1>2, <1>6, FlagCausal
<1>9. Causal(turned, L)
  BY <1>2, <1>7, FlagCausal
<1>. HIDE DEF fired, turned
<1>10. AllCausal(f, L)
  BY <1>1, <1>2, <1>8, <1>9 DEF AllCausal
<1>. HIDE DEF f
<1>. QED  BY <1>0, <1>10

LEMMA BesideCausal ==
  ASSUME NEW L, NEW f, NEW g, AllCausal(f, L), AllCausal(g, L)
  PROVE  AllCausal(Frames!Beside(f, g), L)
BY DEF AllCausal, Frames!Beside

\* A flag of a row that looks at several columns (as FlagCausal, for the row before too).
LEMMA TwiceCausal ==
  ASSUME NEW L \in Limits, NEW c, Causal(c, L)
  PROVE  /\ Causal(Frames!Flag(c, {Frames!Shift(c, 1)}), L)
         /\ DOMAIN Frames!Flag(c, {Frames!Shift(c, 1)}) = DOMAIN c
<1>1. \A d \in {Frames!Shift(c, 1)} : Causal(d, L)
  BY ShiftCausal
<1>. QED  BY <1>1, FlagCausal

LEMMA DailyContextCausal ==
  ASSUME NEW spy, Causal(spy, BySession)
  PROVE  LET context == Frames!DailyContext(spy)
             plain == Frames!Unaudited(context)
         IN  /\ Causal(plain.regime_d1, BySession) /\ DOMAIN plain.regime_d1 = DOMAIN spy
             /\ Causal(plain.d1_range, BySession) /\ DOMAIN plain.d1_range = DOMAIN spy
             /\ Causal(plain.suspect, BySession) /\ DOMAIN plain.suspect = DOMAIN spy
             /\ plain.regime_d1 = context.regime_d1
<1>. DEFINE context == Frames!DailyContext(spy)
            plain == Frames!Unaudited(context)
            fresh == Frames!FreshBreach(spy, Frames!Trendline(spy), Frames!Atr(spy))
<1>1. context = [regime_d1 |-> Frames!Regime(spy), d1_range |-> spy,
                 suspect |-> Frames!Suspect(spy, fresh)]
  BY DEF Frames!DailyContext
<1>2. DOMAIN Frames!Suspect(spy, fresh) = DOMAIN spy
  BY DEF Frames!Suspect
<1>. HIDE DEF context, fresh
<1>3. plain = [context EXCEPT !.suspect = Frames!AbsentOn(DOMAIN context.suspect)]
  BY DEF Frames!Unaudited
<1>. HIDE DEF plain
<1>4. /\ plain.regime_d1 = Frames!Regime(spy) /\ plain.d1_range = spy
      /\ plain.suspect = Frames!AbsentOn(DOMAIN spy) /\ context.regime_d1 = Frames!Regime(spy)
  BY <1>1, <1>2, <1>3
<1>5. DOMAIN spy \in SUBSET Nat
  BY DEF Causal
<1>6. /\ Causal(Frames!AbsentOn(DOMAIN spy), BySession)
      /\ DOMAIN Frames!AbsentOn(DOMAIN spy) = DOMAIN spy
      /\ Causal(Frames!Regime(spy), BySession) /\ DOMAIN Frames!Regime(spy) = DOMAIN spy
  BY <1>5, TheLimits, AbsentCausal, RegimeCausal
<1>7. /\ Causal(plain.regime_d1, BySession) /\ DOMAIN plain.regime_d1 = DOMAIN spy
      /\ Causal(plain.d1_range, BySession) /\ DOMAIN plain.d1_range = DOMAIN spy
      /\ Causal(plain.suspect, BySession) /\ DOMAIN plain.suspect = DOMAIN spy
      /\ plain.regime_d1 = context.regime_d1
  BY <1>4, <1>6
<1>. QED  BY <1>7 DEF plain, context

\* What a warehouse holds of the three symbols, in the frames made of it.
Stored(m1, m5, d1) ==
  \A s \in Frames!Symbols :
    /\ Minutes(m1[s]) /\ Causal(m5[s], ByLabel)
    /\ Causal(d1[s], BySession) /\ DOMAIN d1[s] \subseteq Dates
    /\ DOMAIN m5[s] \in SUBSET Nat

LEMMA OwnVwapCausal ==
  ASSUME NEW c, Minutes(c), NEW index \in SUBSET Nat
  PROVE  Causal(Frames!AlignCausal(Frames!CloseLabel(Frames!Vwap(c)), index), ByLabel)
<1>1. Causal(Frames!Vwap(c), ByNextMinute)
  BY BarsCausal, TheLimits, VwapCausal
<1>2. Causal(Frames!CloseLabel(Frames!Vwap(c)), ByLabel)
  BY <1>1, CloseLabelCausal
<1>. QED  BY <1>2, TheLimits, AlignCausalBound

LEMMA FeaturesCausal ==
  ASSUME NEW m1, NEW m5, NEW d1, Stored(m1, m5, d1)
  PROVE  LET f == Frames!Features(m1, m5, d1)
             index == DOMAIN m5["stock"]
         IN  /\ AllCausal(f, ByLabel)
             /\ DOMAIN f = {"rrs_m5", "rolling_rrs_m5", "rrs_m5_qqq", "rolling_rrs_m5_qqq",
                            "power_index_m5", "hour_atr", "vwap_m5", "rvol_m5", "lrsi_m5",
                            "one_candle_wonder", "gap_pct", "close", "prior_close",
                            "rolling_rrs_d1", "ha_cont_d1", "sma_stack", "headroom",
                            "volume_ratio_d1"}
             /\ f.vwap_m5 = Frames!AlignCausal(Frames!CloseLabel(Frames!Vwap(m1["stock"])), index)
             /\ f.hour_atr = Frames!HourAtr(m5["stock"], index)
             /\ f.prior_close = Frames!AlignDaily(d1["stock"], index)
<1>. DEFINE c == m5["stock"]
            index == DOMAIN c
            daily == Frames!DailyFeatures(d1["stock"], d1["spy"])
            aligned == [col \in DOMAIN daily |-> Frames!AlignDaily(daily[col], index)]
            spy == Frames!Reindex(m5["spy"], index)
            qqq == Frames!Reindex(m5["qqq"], index)
            hour == [s \in Frames!Symbols |-> Frames!HourAtr(m5[s], index)]
            rrs == Frames!Rrs(c, hour["stock"], spy, hour["spy"])
            rrsQqq == Frames!Rrs(c, hour["stock"], qqq, hour["qqq"])
            vwap == Frames!AlignCausal(Frames!CloseLabel(Frames!Vwap(m1["stock"])), index)
            rvol == Frames!AlignCausal(Frames!CloseLabel(Frames!Rvol(m1["stock"])), index)
            rolling == Frames!RollingRrs(rrs)
            rollingQqq == Frames!RollingRrs(rrsQqq)
            power == Frames!Arith(Frames!Change(spy, Window), {hour["spy"]})
            lrsi == Frames!LaguerreRsi(c)
            wonder == Frames!OneCandleWonder(c)
            gap == Frames!Arith(Frames!SessionFirst(c), {aligned["close_d1"]})
            f == [rrs_m5 |-> rrs, rolling_rrs_m5 |-> rolling,
                  rrs_m5_qqq |-> rrsQqq, rolling_rrs_m5_qqq |-> rollingQqq,
                  power_index_m5 |-> power,
                  hour_atr |-> hour["stock"],
                  vwap_m5 |-> vwap, rvol_m5 |-> rvol,
                  lrsi_m5 |-> lrsi,
                  one_candle_wonder |-> wonder,
                  gap_pct |-> gap,
                  close |-> c,
                  prior_close |-> aligned["close_d1"],
                  rolling_rrs_d1 |-> aligned["rolling_rrs_d1"],
                  ha_cont_d1 |-> aligned["ha_cont_d1"],
                  sma_stack |-> aligned["sma_stack"],
                  headroom |-> aligned["headroom"],
                  volume_ratio_d1 |-> aligned["volume_ratio_d1"]]
            Known(d) == Causal(d, ByLabel)
<1>0. Frames!Features(m1, m5, d1) = f
  BY DEF Frames!Features
<1>1. /\ Minutes(m1["stock"]) /\ Known(c) /\ Known(m5["spy"]) /\ Known(m5["qqq"])
      /\ Causal(d1["stock"], BySession) /\ DOMAIN d1["stock"] \subseteq Dates
      /\ Causal(d1["spy"], BySession) /\ index \in SUBSET Nat
  BY DEF Stored, Frames!Symbols
<1>2. \A col \in DOMAIN daily : Causal(daily[col], BySession) /\ DOMAIN daily[col] \subseteq Dates
  BY <1>1, TheLimits, DailyFeaturesCausal
<1>3. \A col \in DOMAIN daily : Known(aligned[col])
  BY <1>1, <1>2, AlignDailyCausal
<1>4. /\ {"close_d1", "rolling_rrs_d1", "ha_cont_d1", "sma_stack", "headroom",
          "volume_ratio_d1"} \subseteq DOMAIN daily
      /\ daily["close_d1"] = d1["stock"]
  BY DEF Frames!DailyFeatures
<1>5. aligned["close_d1"] = Frames!AlignDaily(d1["stock"], index)
  BY <1>4
<1>6. /\ Known(aligned["close_d1"]) /\ Known(aligned["rolling_rrs_d1"])
      /\ Known(aligned["ha_cont_d1"]) /\ Known(aligned["sma_stack"])
      /\ Known(aligned["headroom"]) /\ Known(aligned["volume_ratio_d1"])
  BY <1>3, <1>4
<1>. HIDE DEF aligned, daily
<1>7. Known(spy) /\ Known(qqq)
  BY <1>1, TheLimits, ReindexCausal
<1>. HIDE DEF spy, qqq
<1>8. /\ Known(hour["stock"]) /\ Known(hour["spy"]) /\ Known(hour["qqq"])
      /\ hour["stock"] = Frames!HourAtr(c, index)
  BY <1>1, HourAtrCausal DEF Frames!Symbols
<1>. HIDE DEF hour
<1>9. Known(rrs) /\ Known(rrsQqq)
  BY <1>1, <1>7, <1>8, TheLimits, RrsCausal
<1>. HIDE DEF rrs, rrsQqq
<1>10. Known(rolling) /\ Known(rollingQqq)
  BY <1>9, TheLimits, RollingRrsCausal
<1>11. Known(vwap)
  BY <1>1, OwnVwapCausal
<1>12. Known(rvol)
  <2>1. Causal(Frames!Rvol(m1["stock"]), ByNextMinute)
    BY <1>1, BarsCausal, TheLimits, RvolCausal
  <2>2. Causal(Frames!CloseLabel(Frames!Rvol(m1["stock"])), ByLabel)
    BY <2>1, CloseLabelCausal
  <2>. QED  BY <1>1, <2>2, TheLimits, AlignCausalBound
<1>13. Known(power)
  <2>1. Known(Frames!Change(spy, Window))
    BY <1>7, Clocks, TheLimits, ChangeCausal
  <2>2. \A d \in {hour["spy"]} : Known(d)
    BY <1>8
  <2>. QED  BY <2>1, <2>2, TheLimits, ArithCausal
<1>14. Known(lrsi) /\ Known(wonder)
  BY <1>1, TheLimits, LaguerreRsiCausal, OneCandleWonderCausal
<1>15. Known(gap)
  <2>1. Known(Frames!SessionFirst(c))
    BY <1>1, TheLimits, SessionFirstCausal
  <2>2. \A d \in {aligned["close_d1"]} : Known(d)
    BY <1>6
  <2>. QED  BY <2>1, <2>2, TheLimits, ArithCausal
<1>. HIDE DEF rolling, rollingQqq, vwap, rvol, power, lrsi, wonder, gap
<1>16. AllCausal(f, ByLabel)
  BY <1>1, <1>6, <1>8, <1>9, <1>10, <1>11, <1>12, <1>13, <1>14, <1>15 DEF AllCausal
<1>17. /\ DOMAIN f = {"rrs_m5", "rolling_rrs_m5", "rrs_m5_qqq", "rolling_rrs_m5_qqq",
                      "power_index_m5", "hour_atr", "vwap_m5", "rvol_m5", "lrsi_m5",
                      "one_candle_wonder", "gap_pct", "close", "prior_close",
                      "rolling_rrs_d1", "ha_cont_d1", "sma_stack", "headroom",
                      "volume_ratio_d1"}
       /\ f.vwap_m5 = vwap /\ f.hour_atr = hour["stock"] /\ f.prior_close = aligned["close_d1"]
  OBVIOUS
<1>. HIDE DEF f
<1>. QED  BY <1>0, <1>5, <1>8, <1>16, <1>17 DEF vwap

\* RawScore: c1 .. c8 on SPY's bars.
LEMMA RawScoreCausal ==
  ASSUME NEW m1, NEW m5, NEW d1, Stored(m1, m5, d1), NEW context,
         Causal(context.regime_d1, BySession), DOMAIN context.regime_d1 \subseteq Dates,
         Causal(context.d1_range, BySession), DOMAIN context.d1_range \subseteq Dates,
         Causal(context.suspect, BySession), DOMAIN context.suspect \subseteq Dates
  PROVE  Causal(Frames!RawScore(m1, m5, context), ByLabel)
<1>. DEFINE c == m5["spy"]
            index == DOMAIN c
            rvol == Frames!Rvol(c)
            move == Frames!Change(c, 1)
            OwnVwap(s) == Frames!AlignCausal(Frames!CloseLabel(Frames!Vwap(m1[s])), index)
            c1 == Frames!Flag(c, {OwnVwap("spy")})
            c2 == Frames!Flag(Frames!StackedCount(c, rvol), {Frames!ChopRatio(c)})
            c3 == Frames!SessionSoFar(c)
            c4 == Frames!Flag(c, {Frames!AlignDaily(context.d1_range, index)})
            c5 == Frames!Flag(c, {Frames!Trendline(c)})
            c6 == Frames!Flag(move, {rvol, Frames!AlignDaily(context.suspect, index)})
            c7 == Frames!Flag(move, {Frames!AlignDaily(context.regime_d1, index)})
            c8 == Frames!Flag(c1, {m5["qqq"], OwnVwap("qqq")})
            Known(d) == Causal(d, ByLabel)
<1>0. Frames!RawScore(m1, m5, context) =
        Frames!Where(Frames!Flag(c1, {c2, c3, c4, c5, c6, c7, c8}), Frames!Atr(c))
  BY DEF Frames!RawScore
<1>1. /\ Minutes(m1["spy"]) /\ Minutes(m1["qqq"]) /\ Known(c) /\ Known(m5["qqq"])
      /\ index \in SUBSET Nat
  BY DEF Stored, Frames!Symbols
<1>2. Known(OwnVwap("spy")) /\ Known(OwnVwap("qqq"))
  BY <1>1, OwnVwapCausal
<1>. HIDE DEF OwnVwap
<1>3. Known(rvol) /\ Known(move) /\ Known(c3) /\ Known(Frames!ChopRatio(c))
      /\ Known(Frames!Trendline(c))
  BY <1>1, TheLimits, RvolCausal, ChangeCausal, SessionSoFarCausal, ChopRatioCausal,
     TrendlineCausal
<1>. HIDE DEF rvol, move, c3
<1>4. /\ Known(Frames!AlignDaily(context.d1_range, index))
      /\ Known(Frames!AlignDaily(context.suspect, index))
      /\ Known(Frames!AlignDaily(context.regime_d1, index))
  BY <1>1, AlignDailyCausal
<1>5. ASSUME NEW a, NEW S, Known(a), \A d \in S : Known(d) PROVE Known(Frames!Flag(a, S))
  BY <1>5, TheLimits, FlagCausal
<1>6. Known(c1)
  BY <1>1, <1>2, <1>5
<1>. HIDE DEF c1
<1>7. Known(c2)
  <2>1. Known(Frames!StackedCount(c, rvol))
    BY <1>1, <1>3, TheLimits, StackedCountCausal
  <2>. QED  BY <1>3, <1>5, <2>1
<1>8. Known(c4) /\ Known(c5)
  BY <1>1, <1>3, <1>4, <1>5
<1>9. Known(c6)
  <2>1. \A d \in {rvol, Frames!AlignDaily(context.suspect, index)} : Known(d)
    BY <1>3, <1>4
  <2>. QED  BY <1>3, <1>5, <2>1
<1>10. Known(c7)
  BY <1>3, <1>4, <1>5
<1>11. Known(c8)
  <2>1. \A d \in {m5["qqq"], OwnVwap("qqq")} : Known(d)
    BY <1>1, <1>2
  <2>. QED  BY <1>5, <1>6, <2>1
<1>. HIDE DEF c2, c4, c5, c6, c7, c8
<1>12. \A d \in {c2, c3, c4, c5, c6, c7, c8} : Known(d)
  BY <1>3, <1>7, <1>8, <1>9, <1>10, <1>11
<1>13. Known(Frames!Flag(c1, {c2, c3, c4, c5, c6, c7, c8}))
  BY <1>5, <1>6, <1>12
<1>. QED  BY <1>0, <1>13, TheLimits, WhereCausal

LEMMA BiasM5Causal ==
  ASSUME NEW m1, NEW m5, NEW d1, Stored(m1, m5, d1), NEW context,
         Causal(context.regime_d1, BySession), DOMAIN context.regime_d1 \subseteq Dates,
         Causal(context.d1_range, BySession), DOMAIN context.d1_range \subseteq Dates,
         Causal(context.suspect, BySession), DOMAIN context.suspect \subseteq Dates
  PROVE  AllCausal(Frames!BiasM5(m1, m5, context), ByLabel)
<1>1. Causal(m5["spy"], ByLabel)
  BY DEF Stored, Frames!Symbols
<1>2. Causal(Frames!Rvol(m5["spy"]), ByLabel)
  BY <1>1, TheLimits, RvolCausal
<1>3. Causal(Frames!StackedCount(m5["spy"], Frames!Rvol(m5["spy"])), ByLabel)
  BY <1>1, <1>2, TheLimits, StackedCountCausal
<1>4. Causal(Frames!RawScore(m1, m5, context), ByLabel)
  BY RawScoreCausal
<1>. QED  BY <1>1, <1>3, <1>4, TheLimits, BiasOfCausal DEF Frames!BiasM5

\* Decisions: gates, scores, reconfirmations and exit signals, from causal features.
LEMMA DecisionsCausal ==
  ASSUME NEW c, NEW f, NEW adv,
         Causal(c, ByLabel), Causal(adv, ByLabel), AllCausal(f, ByLabel),
         {"rrs_m5", "rolling_rrs_m5", "rolling_rrs_m5_qqq", "power_index_m5", "vwap_m5",
          "rvol_m5", "lrsi_m5", "one_candle_wonder", "gap_pct", "rolling_rrs_d1",
          "ha_cont_d1", "sma_stack", "headroom", "volume_ratio_d1"} \subseteq DOMAIN f
  PROVE  AllCausal(Frames!Decisions(c, f, adv), ByLabel)
<1>. DEFINE atr == Frames!Atr(c)
            ema8 == Frames!Recursive(c)
            held == {adv, f.rolling_rrs_d1, f.ha_cont_d1, f.sma_stack, f.headroom,
                     f.volume_ratio_d1, f.gap_pct}
            known == Frames!Arith(f.rolling_rrs_m5, {f.rolling_rrs_d1, f.ha_cont_d1, f.rvol_m5})
            Twice(col) == Frames!Flag(col, {Frames!Shift(col, 1)})
            hold == Frames!Flag(c, held)
            gate == Frames!Flag(c, held \cup {f.rolling_rrs_m5, f.vwap_m5,
                                              f.one_candle_wonder, f.rolling_rrs_m5_qqq})
            score == Frames!Where(Frames!Flag(known, {f.power_index_m5, f.headroom,
                                    Frames!Change(c, Window), Frames!Rolling(f.rrs_m5, Window)}),
                                  known)
            failure == Twice(f.rolling_rrs_m5)
            loss == Twice(Frames!Flag(c, {f.vwap_m5}))
            stall == Twice(f.lrsi_m5)
            confirm == Frames!Flag(c, {f.rolling_rrs_m5, f.vwap_m5, ema8, atr})
            dip == Frames!Flag(c, {Frames!ChopRatio(c), Frames!StackedCount(c, f.rvol_m5), atr,
                                   Frames!Rolling(f.rvol_m5, Window), Frames!RollingAny(c, Window),
                                   Frames!RollingAny(Frames!Flag(c, {f.vwap_m5}), Window)})
            squeeze == Frames!Flag(c, {Frames!Shift(c, 1), atr, f.rvol_m5})
            d == [ema8 |-> ema8, atr_m5 |-> atr, adv20 |-> adv, gate_hold |-> hold,
                  gate |-> gate, score |-> score, rs_failure |-> failure,
                  vwap_loss |-> loss, momentum_stall |-> stall, confirm_trigger |-> confirm,
                  dip_quality |-> dip, squeeze_guard |-> squeeze]
            Known(e) == Causal(e, ByLabel)
<1>0. Frames!Decisions(c, f, adv) = d
  BY DEF Frames!Decisions
<1>1. /\ Known(f.rrs_m5) /\ Known(f.rolling_rrs_m5) /\ Known(f.rolling_rrs_m5_qqq)
      /\ Known(f.power_index_m5) /\ Known(f.vwap_m5) /\ Known(f.rvol_m5) /\ Known(f.lrsi_m5)
      /\ Known(f.one_candle_wonder) /\ Known(f.gap_pct) /\ Known(f.rolling_rrs_d1)
      /\ Known(f.ha_cont_d1) /\ Known(f.sma_stack) /\ Known(f.headroom)
      /\ Known(f.volume_ratio_d1)
  BY DEF AllCausal
<1>2. Known(atr) /\ Known(ema8)
  BY TheLimits, AtrCausal, RecursiveCausal
<1>. HIDE DEF atr, ema8
<1>3. ASSUME NEW a, NEW S, Known(a), \A e \in S : Known(e) PROVE Known(Frames!Flag(a, S))
  BY <1>3, TheLimits, FlagCausal
<1>4. ASSUME NEW a, Known(a) PROVE Known(Twice(a))
  BY <1>4, TheLimits, TwiceCausal
<1>. HIDE DEF Twice
<1>5. ASSUME NEW a, Known(a)
      PROVE  Known(Frames!Rolling(a, Window)) /\ Known(Frames!RollingAny(a, Window))
  BY <1>5, TheLimits, RollingCausal, RollingAnyCausal
<1>6. \A e \in held : Known(e)
  BY <1>1
<1>. HIDE DEF held
<1>7. Known(hold)
  BY <1>3, <1>6
<1>8. Known(gate)
  <2>1. \A e \in held \cup {f.rolling_rrs_m5, f.vwap_m5, f.one_candle_wonder,
                            f.rolling_rrs_m5_qqq} : Known(e)
    BY <1>1, <1>6
  <2>. QED  BY <1>3, <2>1
<1>9. Known(known)
  <2>1. \A e \in {f.rolling_rrs_d1, f.ha_cont_d1, f.rvol_m5} : Known(e)
    BY <1>1
  <2>. QED  BY <1>1, <2>1, TheLimits, ArithCausal
<1>. HIDE DEF known
<1>10. Known(Frames!Change(c, Window)) /\ Known(Frames!Shift(c, 1)) /\ Known(Frames!ChopRatio(c))
  BY Clocks, TheLimits, ChangeCausal, ShiftCausal, ChopRatioCausal
<1>11. Known(score)
  <2>. DEFINE S == {f.power_index_m5, f.headroom, Frames!Change(c, Window),
                    Frames!Rolling(f.rrs_m5, Window)}
  <2>1. \A e \in S : Known(e)
    BY <1>1, <1>5, <1>10
  <2>. HIDE DEF S
  <2>2. Known(Frames!Flag(known, S))
    BY <1>3, <1>9, <2>1
  <2>3. Known(Frames!Where(Frames!Flag(known, S), known))
    BY <2>2, TheLimits, WhereCausal
  <2>. QED  BY <2>3 DEF S
<1>12. Known(Frames!Flag(c, {f.vwap_m5}))
  BY <1>1, <1>3
<1>13. Known(failure) /\ Known(loss) /\ Known(stall)
  BY <1>1, <1>4, <1>12
<1>14. Known(confirm)
  <2>1. \A e \in {f.rolling_rrs_m5, f.vwap_m5, ema8, atr} : Known(e)
    BY <1>1, <1>2
  <2>. QED  BY <1>3, <2>1
<1>15. Known(Frames!StackedCount(c, f.rvol_m5))
  BY <1>1, TheLimits, StackedCountCausal
<1>16. Known(dip)
  <2>. DEFINE S == {Frames!ChopRatio(c), Frames!StackedCount(c, f.rvol_m5), atr,
                    Frames!Rolling(f.rvol_m5, Window), Frames!RollingAny(c, Window),
                    Frames!RollingAny(Frames!Flag(c, {f.vwap_m5}), Window)}
  <2>1. \A e \in S : Known(e)
    BY <1>1, <1>2, <1>5, <1>10, <1>12, <1>15
  <2>. HIDE DEF S
  <2>2. Known(Frames!Flag(c, S))
    BY <1>3, <2>1
  <2>. QED  BY <2>2 DEF S
<1>17. Known(squeeze)
  <2>1. \A e \in {Frames!Shift(c, 1), atr, f.rvol_m5} : Known(e)
    BY <1>1, <1>2, <1>10
  <2>. QED  BY <1>3, <2>1
<1>. HIDE DEF hold, gate, score, failure, loss, stall, confirm, dip, squeeze
<1>18. AllCausal(d, ByLabel)
  BY <1>2, <1>7, <1>8, <1>11, <1>13, <1>14, <1>16, <1>17 DEF AllCausal
<1>. HIDE DEF d
<1>. QED  BY <1>0, <1>18

\* _prepare_m5: no column of the M5 frame is later than its row; and where the features
\* that FramesAreCausal follows further end up.
LEMMA PreparedM5Causal ==
  ASSUME NEW m1, NEW m5, NEW d1, Stored(m1, m5, d1), NEW context,
         Causal(context.regime_d1, BySession), DOMAIN context.regime_d1 \subseteq Dates,
         Causal(context.d1_range, BySession), DOMAIN context.d1_range \subseteq Dates,
         Causal(context.suspect, BySession), DOMAIN context.suspect \subseteq Dates
  PROVE  LET p == Frames!PreparedM5(m1, m5, d1, context)
             calendar == DOMAIN m5["spy"]
             own == DOMAIN m5["stock"]
         IN  /\ AllCausal(p, ByLabel)
             /\ DOMAIN p.close = calendar
             /\ \A t \in calendar \cap own :
                  /\ p.vwap_m5[t] =
                       Frames!AlignCausal(Frames!CloseLabel(Frames!Vwap(m1["stock"])), own)[t]
                  /\ p.hour_atr[t] = Frames!HourAtr(m5["stock"], own)[t]
                  /\ p.prior_close[t] = Frames!AlignDaily(d1["stock"], own)[t]
<1>. DEFINE f == Frames!Features(m1, m5, d1)
            own == DOMAIN m5["stock"]
            adv == Frames!AlignDaily(Frames!Rolling(d1["stock"], Window), own)
            decided == Frames!Decisions(m5["stock"], f, adv)
            calendar == DOMAIN m5["spy"]
            bias == Frames!BiasM5(m1, m5, context)
            Laid(g) == [col \in DOMAIN g |-> Frames!Reindex(g[col], calendar)]
            regime == [regime_d1 |-> Frames!AlignDaily(context.regime_d1, calendar)]
            p == Frames!Beside(Frames!Beside(Laid(f), Laid(decided)),
                               Frames!Beside(bias, regime))
<1>0. Frames!PreparedM5(m1, m5, d1, context) = p
  BY DEF Frames!PreparedM5
<1>1. /\ Causal(m5["stock"], ByLabel) /\ own \in SUBSET Nat /\ calendar \in SUBSET Nat
      /\ Causal(d1["stock"], BySession) /\ DOMAIN d1["stock"] \subseteq Dates
  BY DEF Stored, Frames!Symbols
<1>2. /\ AllCausal(f, ByLabel)
      /\ DOMAIN f = {"rrs_m5", "rolling_rrs_m5", "rrs_m5_qqq", "rolling_rrs_m5_qqq",
                     "power_index_m5", "hour_atr", "vwap_m5", "rvol_m5", "lrsi_m5",
                     "one_candle_wonder", "gap_pct", "close", "prior_close",
                     "rolling_rrs_d1", "ha_cont_d1", "sma_stack", "headroom",
                     "volume_ratio_d1"}
      /\ f.vwap_m5 = Frames!AlignCausal(Frames!CloseLabel(Frames!Vwap(m1["stock"])), own)
      /\ f.hour_atr = Frames!HourAtr(m5["stock"], own)
      /\ f.prior_close = Frames!AlignDaily(d1["stock"], own)
  BY FeaturesCausal
<1>. HIDE DEF f
<1>3. Causal(adv, ByLabel)
  <2>1. /\ Causal(Frames!Rolling(d1["stock"], Window), BySession)
        /\ DOMAIN Frames!Rolling(d1["stock"], Window) = DOMAIN d1["stock"]
    BY <1>1, TheLimits, RollingCausal
  <2>. QED  BY <1>1, <2>1, AlignDailyCausal
<1>. HIDE DEF adv
<1>4. AllCausal(decided, ByLabel)
  BY <1>1, <1>2, <1>3, DecisionsCausal
<1>. HIDE DEF decided
<1>5. AllCausal(bias, ByLabel)
  BY BiasM5Causal
<1>. HIDE DEF bias
<1>6. AllCausal(regime, ByLabel)
  BY <1>1, AlignDailyCausal DEF AllCausal
<1>. HIDE DEF regime
<1>7. ASSUME NEW g, AllCausal(g, ByLabel) PROVE AllCausal(Laid(g), ByLabel)
  BY <1>1, <1>7, TheLimits, ReindexCausal DEF AllCausal
<1>8. AllCausal(Laid(f), ByLabel) /\ AllCausal(Laid(decided), ByLabel)
  BY <1>2, <1>4, <1>7
<1>9. /\ DOMAIN Laid(f) = DOMAIN f
      /\ \A col \in DOMAIN f : /\ DOMAIN Laid(f)[col] = calendar
                               /\ \A t \in calendar \cap DOMAIN f[col] : Laid(f)[col][t] = f[col][t]
  BY DEF Frames!Reindex, Frames!At
<1>. HIDE DEF Laid
<1>10. AllCausal(p, ByLabel)
  BY <1>5, <1>6, <1>8, BesideCausal
<1>11. \A col \in DOMAIN f : p[col] = Laid(f)[col]
  BY <1>9 DEF Frames!Beside
<1>. HIDE DEF p
<1>12. p.close = Laid(f).close /\ p.vwap_m5 = Laid(f).vwap_m5
       /\ p.hour_atr = Laid(f).hour_atr /\ p.prior_close = Laid(f).prior_close
  BY <1>2, <1>11
<1>13. DOMAIN p.close = calendar
  BY <1>2, <1>9, <1>12
<1>14. DOMAIN f.vwap_m5 = own /\ DOMAIN f.hour_atr = own /\ DOMAIN f.prior_close = own
  BY <1>2 DEF Frames!AlignCausal, Frames!HourAtr, Frames!AlignDaily
<1>15. \A t \in calendar \cap own : /\ p.vwap_m5[t] = f.vwap_m5[t]
                                    /\ p.hour_atr[t] = f.hour_atr[t]
                                    /\ p.prior_close[t] = f.prior_close[t]
  BY <1>2, <1>9, <1>12, <1>14
<1>. QED  BY <1>0, <1>2, <1>10, <1>13, <1>15

\* _prepare of the daily engine: no column is later than the close of its row's day.
LEMMA PreparedD1Causal ==
  ASSUME NEW d1, \A s \in Frames!Symbols : Causal(d1[s], BySession)
  PROVE  AllCausal(Frames!PreparedD1(d1), BySession)
<1>. DEFINE L == BySession
            calendar == DOMAIN d1["spy"] \cap DOMAIN d1["qqq"] \cap DOMAIN d1["stock"]
            d == [s \in Frames!Symbols |-> Frames!Reindex(d1[s], calendar)]
            f == Frames!DailyFeatures(d["stock"], d["spy"])
            known == Frames!Arith(f.rolling_rrs_d1, {f.ha_cont_d1, f.volume_ratio_d1})
            score == Frames!Where(Frames!Flag(known, {f.headroom, f.rrs_d1_std, f.day_pc,
                                                      f.bench_day_pc}), known)
            ema8 == Frames!Recursive(d["stock"])
            scored == [score |-> score, ema8 |-> ema8]
            raw == Frames!RawScoreD1(d["spy"], d["qqq"])
            bias == Frames!BiasOf(d["spy"], raw, d["spy"])
            Known(e) == Causal(e, L)
<1>0. Frames!PreparedD1(d1) = Frames!Beside(Frames!Beside(f, bias), scored)
  BY DEF Frames!PreparedD1
<1>1. L \in Limits /\ Known(d1["spy"]) /\ Known(d1["qqq"]) /\ Known(d1["stock"])
  BY TheLimits DEF Frames!Symbols
<1>. HIDE DEF L
<1>2. calendar \in SUBSET Nat
  BY <1>1 DEF Causal
<1>. HIDE DEF calendar
<1>3. Known(d["spy"]) /\ Known(d["qqq"]) /\ Known(d["stock"])
  BY <1>1, <1>2, ReindexCausal DEF Frames!Symbols
<1>. HIDE DEF d
<1>4. \A col \in DOMAIN f : Known(f[col])
  BY <1>1, <1>3, DailyFeaturesCausal
<1>5. {"rolling_rrs_d1", "ha_cont_d1", "volume_ratio_d1", "headroom", "rrs_d1_std",
       "day_pc", "bench_day_pc"} \subseteq DOMAIN f
  BY DEF Frames!DailyFeatures
<1>. HIDE DEF f
<1>6. /\ Known(f.rolling_rrs_d1) /\ Known(f.ha_cont_d1) /\ Known(f.volume_ratio_d1)
      /\ Known(f.headroom) /\ Known(f.rrs_d1_std) /\ Known(f.day_pc) /\ Known(f.bench_day_pc)
  BY <1>4, <1>5
<1>7. ASSUME NEW a, NEW S, Known(a), \A e \in S : Known(e)
      PROVE  Known(Frames!Flag(a, S)) /\ Known(Frames!Arith(a, S))
  BY <1>1, <1>7, FlagCausal, ArithCausal
<1>8. Known(known)
  <2>1. \A e \in {f.ha_cont_d1, f.volume_ratio_d1} : Known(e)
    BY <1>6
  <2>. QED  BY <1>6, <1>7, <2>1
<1>. HIDE DEF known
<1>9. Known(score)
  <2>. DEFINE S == {f.headroom, f.rrs_d1_std, f.day_pc, f.bench_day_pc}
  <2>1. \A e \in S : Known(e)
    BY <1>6
  <2>. HIDE DEF S
  <2>2. Known(Frames!Where(Frames!Flag(known, S), known))
    BY <1>1, <1>7, <1>8, <2>1, WhereCausal
  <2>. QED  BY <2>2 DEF S
<1>10. Known(ema8)
  BY <1>1, <1>3, RecursiveCausal
<1>. HIDE DEF score, ema8
<1>11. AllCausal(scored, L)
  BY <1>9, <1>10 DEF AllCausal
<1>12. Known(raw)
  <2>. DEFINE c == d["spy"]
              move == Frames!Change(c, 1)
              parts == {Frames!SmaStack(c), Frames!StackedCount(c, Frames!VolumeRatio(c)), move,
                        Frames!Trendline(c), Frames!VolumeRatio(c), Frames!Regime(c),
                        Frames!Change(d["qqq"], 1)}
  <2>1. /\ Known(move) /\ Known(Frames!Change(d["qqq"], 1)) /\ Known(Frames!SmaStack(c))
        /\ Known(Frames!VolumeRatio(c)) /\ Known(Frames!Trendline(c)) /\ Known(Frames!Regime(c))
    BY <1>1, <1>3, ChangeCausal, SmaStackCausal, VolumeRatioCausal, TrendlineCausal, RegimeCausal
  <2>2. Known(Frames!StackedCount(c, Frames!VolumeRatio(c)))
    BY <1>1, <1>3, <2>1, StackedCountCausal
  <2>3. \A e \in parts : Known(e)
    BY <2>1, <2>2
  <2>4. raw = Frames!Where(Frames!Flag(c, parts), Frames!Atr(c))
    BY DEF Frames!RawScoreD1
  <2>. HIDE DEF parts
  <2>5. Known(Frames!Flag(c, parts))
    BY <1>3, <1>7, <2>3
  <2>. QED  BY <1>1, <2>4, <2>5, WhereCausal
<1>. HIDE DEF raw
<1>13. AllCausal(bias, L)
  BY <1>1, <1>3, <1>12, BiasOfCausal
<1>. HIDE DEF bias, scored
<1>14. AllCausal(f, L)
  BY <1>4 DEF AllCausal
<1>15. AllCausal(Frames!Beside(Frames!Beside(f, bias), scored), L)
  BY <1>11, <1>13, <1>14, BesideCausal
<1>. QED  BY <1>0, <1>15 DEF L

-----------------------------------------------------------------------------
\* And not later than it must be.
LEMMA AnyOfNone == Frames!AnyOf({}) = Frames!NaN
<1>1. Frames!AnyOf({}) \in {} \cup {0}
  BY AnyOfBound
<1>. QED  BY <1>1 DEF Frames!NaN

LEMMA AnyOfIs ==
  ASSUME NEW m \in Nat, NEW S \in SUBSET (0..m), m \in S
  PROVE  Frames!AnyOf(S) = m
<1>1. Frames!AnyOf(S) \in 0..m /\ m <= Frames!AnyOf(S)
  BY AnyOfBound
<1>. QED  BY <1>1

LEMMA AnyOfAtMost ==
  ASSUME NEW b \in Nat, NEW S \in SUBSET (0..b), NEW T \in SUBSET (0..b),
         \A e \in S : e = 0 \/ \E x \in T : e <= x
  PROVE  Frames!AnyOf(S) <= Frames!AnyOf(T)
<1>1. Frames!AnyOf(T) \in 0..b /\ \A x \in T : x <= Frames!AnyOf(T)
  BY AnyOfBound
<1>2. Frames!AnyOf(S) \in S \cup {0} /\ Frames!AnyOf(S) \in 0..b
  BY AnyOfBound
<1>3. CASE Frames!AnyOf(S) = 0
  BY <1>1, <1>3
<1>4. CASE Frames!AnyOf(S) # 0
  <2>1. PICK x \in T : Frames!AnyOf(S) <= x
    BY <1>2, <1>4
  <2>2. x \in Nat
    OBVIOUS
  <2>. QED  BY <1>1, <1>2, <2>1, <2>2
<1>. QED  BY <1>3, <1>4

LEMMA Multiples ==
  ASSUME NEW len \in Nat \ {0}, NEW d \in Nat, NEW e \in Nat
  PROVE  /\ d * len \in Nat /\ e * len \in Nat
         /\ d < e => d * len + len <= e * len
         /\ d * len < e * len => d < e
<1>1. ASSUME NEW i \in Nat, NEW j \in Nat, i < j PROVE i * len + len <= j * len
  <2>1. j - i - 1 \in Nat /\ j = i + 1 + (j - i - 1)
    BY <1>1
  <2>2. PICK k \in Nat : j = i + 1 + k
    BY <2>1
  <2>3. j * len = i * len + len + k * len /\ k * len \in Nat /\ i * len \in Nat
    BY <2>2
  <2>. QED  BY <2>3
<1>2. d * len \in Nat /\ e * len \in Nat
  OBVIOUS
<1>3. ~(d < e) => d = e \/ e < d
  OBVIOUS
<1>4. e < d => e * len + len <= d * len
  BY <1>1
<1>. QED  BY <1>1, <1>2, <1>3, <1>4

\* A bar is in an hour that has ended by t when it ends by the last full hour.
LEMMA HourHasEnded ==
  ASSUME NEW b \in Nat, NEW t \in Nat
  PROVE  Frames!Edge(b, HourLen, "right") <= t <=> b <= (t \div HourLen) * HourLen
<1>. DEFINE H == HourLen
            q == b \div H
            f == t \div H
            E == Frames!Edge(b, H, "right")
<1>1. H \in Nat \ {0}
  BY Clocks
<1>2. /\ q \in Nat /\ b % H \in 0 .. H - 1 /\ b = q * H + (b % H)
      /\ f \in Nat /\ t % H \in 0 .. H - 1 /\ t = f * H + (t % H)
  BY <1>1
<1>3. E = IF b % H = 0 THEN b ELSE (q + 1) * H
  BY DEF Frames!Edge
<1>4. q + 1 \in Nat /\ f + 1 \in Nat
  BY <1>2
<1>. HIDE DEF H, q, f, E
<1>5. /\ q * H \in Nat /\ f * H \in Nat /\ (q + 1) * H = q * H + H /\ (f + 1) * H = f * H + H
      /\ q < f => q * H + H <= f * H
      /\ q * H < f * H => q < f
      /\ f < q => f * H + H <= q * H
  BY <1>1, <1>2, Multiples
<1>6. CASE b % H = 0
  <2>1. E = q * H /\ b = q * H
    BY <1>2, <1>3, <1>5, <1>6
  <2>2. q * H <= t => q <= f
    BY <1>1, <1>2, <1>5
  <2>3. q <= f => q * H <= f * H
    BY <1>1, <1>2, <1>5
  <2>. QED  BY <1>1, <1>2, <1>5, <2>1, <2>2, <2>3 DEF H, E, f
<1>7. CASE b % H # 0
  <2>1. E = q * H + H /\ q * H < b /\ b < q * H + H
    BY <1>1, <1>2, <1>3, <1>5, <1>7
  <2>2. ASSUME q < f PROVE E <= t /\ b <= f * H
    BY <1>1, <1>2, <1>5, <2>1, <2>2
  <2>3. ASSUME ~(q < f) PROVE ~(E <= t) /\ ~(b <= f * H)
    <3>1. f * H <= q * H
      BY <1>2, <1>5, <2>3
    <3>. QED  BY <1>1, <1>2, <1>5, <2>1, <3>1
  <2>. QED  BY <2>2, <2>3 DEF H, E, f
<1>. QED  BY <1>6, <1>7

LEMMA VwapIsFresh ==
  ASSUME NEW c, Minutes(c), NEW index \in SUBSET Nat, NEW t \in index
  PROVE  Frames!AlignCausal(Frames!CloseLabel(Frames!Vwap(c)), index)[t] =
           Frames!AnyOf({c[r] : r \in {m \in DOMAIN c : m < t}})
<1>. DEFINE v == Frames!Vwap(c)
            w == Frames!CloseLabel(v)
            K == {r \in Frames!Upto(w, t) : w[r] # Frames!NaN}
            N == {c[r] : r \in {m \in DOMAIN c : m < t}}
<1>1. DOMAIN c \subseteq Nat /\ t \in Nat /\ \A m \in DOMAIN c : c[m] = m + 1
  BY DEF Minutes
<1>2. DOMAIN v = DOMAIN c /\ \A r \in DOMAIN c : v[r] = r + 1
  <2>1. DOMAIN v = DOMAIN c
    BY DEF Frames!Vwap, Frames!SessionSoFar
  <2>2. ASSUME NEW r \in DOMAIN c PROVE v[r] = r + 1
    <3>. DEFINE S == {q \in Frames!Upto(c, r) : Frames!DayOf(q) = Frames!DayOf(r)}
    <3>1. v[r] = Frames!AnyOf({c[q] : q \in S})
      BY DEF Frames!Vwap, Frames!SessionSoFar
    <3>2. r \in S /\ \A q \in S : q \in DOMAIN c /\ q <= r
      BY <1>1 DEF Frames!Upto
    <3>. HIDE DEF S
    <3>3. {c[q] : q \in S} \in SUBSET (0 .. r + 1) /\ r + 1 \in {c[q] : q \in S} /\ r + 1 \in Nat
      BY <1>1, <3>2
    <3>. QED  BY <3>1, <3>3, AnyOfIs
  <2>. QED  BY <2>1, <2>2
<1>. HIDE DEF v
<1>3. DOMAIN w = {r + 1 : r \in DOMAIN c} /\ \A x \in DOMAIN w : w[x] = x /\ x \in Nat /\ x # 0
  <2>1. DOMAIN w = {r + 1 : r \in DOMAIN c}
    BY <1>2 DEF Frames!CloseLabel
  <2>2. ASSUME NEW r \in DOMAIN c PROVE w[r + 1] = r + 1 /\ r + 1 \in Nat /\ r + 1 # 0
    <3>1. r \in Nat /\ (r + 1) - 1 = r
      BY <1>1
    <3>2. w[r + 1] = v[(r + 1) - 1]
      BY <1>2 DEF Frames!CloseLabel
    <3>. QED  BY <1>2, <3>1, <3>2
  <2>. QED  BY <2>1, <2>2
<1>4. Frames!AlignCausal(w, index)[t] = IF K = {} THEN Frames!NaN ELSE w[Frames!Max(K)]
  BY DEF Frames!AlignCausal
<1>. HIDE DEF w
<1>5. K = N
  <2>1. K = {x \in {r + 1 : r \in DOMAIN c} : x <= t}
    BY <1>3 DEF Frames!Upto, Frames!NaN
  <2>2. N = {r + 1 : r \in {m \in DOMAIN c : m < t}}
    BY <1>1
  <2>3. \A r \in DOMAIN c : r < t <=> r + 1 <= t
    BY <1>1
  <2>. HIDE DEF K, N
  <2>. QED  BY <2>1, <2>2, <2>3
<1>6. K \in SUBSET Nat /\ K \subseteq DOMAIN w /\ \A e \in K : e <= t
  BY <1>3 DEF Frames!Upto
<1>. HIDE DEF K, N
<1>7. ASSUME K = {} PROVE Frames!AlignCausal(w, index)[t] = Frames!AnyOf(N)
  BY <1>4, <1>5, <1>7, AnyOfNone
<1>8. ASSUME K # {} PROVE Frames!AlignCausal(w, index)[t] = Frames!AnyOf(N)
  <2>. DEFINE m == Frames!Max(K)
  <2>1. m \in K /\ \A e \in K : e <= m
    BY <1>1, <1>6, <1>8, GreatestOf
  <2>. HIDE DEF m
  <2>2. m \in Nat /\ K \in SUBSET (0..m) /\ w[m] = m
    BY <1>3, <1>6, <2>1
  <2>3. Frames!AnyOf(K) = m
    BY <2>1, <2>2, AnyOfIs
  <2>. QED  BY <1>4, <1>5, <1>8, <2>2, <2>3 DEF m
<1>9. Frames!AlignCausal(w, index)[t] = Frames!AnyOf(N)
  BY <1>7, <1>8
<1>. QED  BY <1>9 DEF w, v, N

\* The bars of a stock say when their newest minute closed.
LEMMA BarsSpeak ==
  ASSUME NEW c, Minutes(c)
  PROVE  \A b \in DOMAIN Frames!FiveMinutes(c) : Frames!FiveMinutes(c)[b] # 0
<1>. DEFINE Bucket(b) == {q \in DOMAIN c : Frames!Edge(q, BarLen, "left") = b}
<1>. SUFFICES ASSUME NEW r0 \in DOMAIN c, NEW b, b = Frames!Edge(r0, BarLen, "left")
              PROVE  Frames!AnyOf({c[r] : r \in Bucket(b)}) # 0
  BY DEF Frames!FiveMinutes, Frames!Resample
<1>1. \A r \in DOMAIN c : r \in Nat /\ c[r] = r + 1 /\ r < Frames!Edge(r, BarLen, "left")
                          /\ Frames!Edge(r, BarLen, "left") \in Nat
  BY Edges, Clocks DEF Minutes
<1>2. /\ b \in Nat /\ {c[r] : r \in Bucket(b)} \in SUBSET (0..b)
      /\ r0 + 1 \in {c[r] : r \in Bucket(b)}
  BY <1>1
<1>. HIDE DEF Bucket
<1>3. r0 + 1 <= Frames!AnyOf({c[r] : r \in Bucket(b)})
  BY <1>2, AnyOfBound
<1>. QED  BY <1>1, <1>2, <1>3, AnyOfBound

LEMMA HourAtrIsFresh ==
  ASSUME NEW c, Causal(c, ByLabel), \A b \in DOMAIN c : c[b] # 0,
         NEW index \in SUBSET Nat, NEW t \in index
  PROVE  Frames!HourAtr(c, index)[t] \in
           {Frames!NaN, Frames!AnyOf({c[b] : b \in {b \in DOMAIN c :
                                                      b <= (t \div HourLen) * HourLen}})}
<1>. DEFINE h == Frames!Hours(c)
            a == Frames!Atr(h)
            In(e) == {q \in DOMAIN c : Frames!Edge(q, HourLen, "right") = e}
            K == {r \in Frames!Upto(a, t) : a[r] # Frames!NaN}
            k == Frames!Max(K)
            Ended == {b \in DOMAIN c : b <= (t \div HourLen) * HourLen}
<1>1. DOMAIN c \subseteq Nat /\ t \in Nat /\ \A b \in DOMAIN c : c[b] \in 0..b
  BY DEF Causal, ByLabel
<1>2. /\ DOMAIN h = {Frames!Edge(r, HourLen, "right") : r \in DOMAIN c}
      /\ \A e \in DOMAIN h : h[e] = Frames!AnyOf({c[r] : r \in In(e)})
  BY DEF Frames!Hours, Frames!Resample
<1>3. \A r \in DOMAIN c : /\ Frames!Edge(r, HourLen, "right") \in Nat
                          /\ r <= Frames!Edge(r, HourLen, "right")
  BY <1>1, Edges, Clocks
<1>4. Causal(h, ByLabel) /\ DOMAIN h \subseteq Nat /\ \A e \in DOMAIN h : h[e] \in 0..e
  <2>1. Causal(h, ByLabel)
    BY ResampleCausal, Clocks DEF Frames!Hours
  <2>. HIDE DEF h
  <2>. QED  BY <2>1 DEF Causal, ByLabel
<1>5. \A e \in DOMAIN h : {c[r] : r \in In(e)} \in SUBSET (0..e) /\ e \in Nat
  <2>. TAKE e \in DOMAIN h
  <2>1. \A r \in In(e) : c[r] \in 0..e
    BY <1>1, <1>3
  <2>. HIDE DEF h, In
  <2>. QED  BY <1>4, <2>1
<1>6. \A e \in DOMAIN h : \A r \in In(e) : c[r] <= h[e]
  <2>. TAKE e \in DOMAIN h
  <2>1. \A x \in {c[r] : r \in In(e)} : x <= Frames!AnyOf({c[r] : r \in In(e)})
    BY <1>5, AnyOfBound
  <2>. HIDE DEF h, In
  <2>. QED  BY <1>2, <2>1
<1>7. \A e \in DOMAIN h : h[e] = 0 \/ \E r \in In(e) : h[e] = c[r]
  <2>. TAKE e \in DOMAIN h
  <2>1. Frames!AnyOf({c[r] : r \in In(e)}) \in {c[r] : r \in In(e)} \cup {0}
    BY <1>5, AnyOfBound
  <2>. HIDE DEF h, In
  <2>. QED  BY <1>2, <2>1
<1>8. \A b \in DOMAIN c : /\ Frames!Edge(b, HourLen, "right") \in DOMAIN h
                          /\ b \in In(Frames!Edge(b, HourLen, "right"))
  <2>. HIDE DEF h
  <2>. QED  BY <1>2
<1>9. \A e \in DOMAIN h : h[e] # 0
  <2>. TAKE e \in DOMAIN h
  <2>1. PICK r \in DOMAIN c : e = Frames!Edge(r, HourLen, "right")
    BY <1>2
  <2>2. c[r] <= h[e] /\ c[r] # 0 /\ c[r] \in Nat
    BY <1>1, <1>6, <1>8, <2>1
  <2>3. h[e] \in Nat
    BY <1>4
  <2>. HIDE DEF h
  <2>. QED  BY <2>2, <2>3
<1>. HIDE DEF h
<1>10. /\ DOMAIN a = DOMAIN h
       /\ \A x \in DOMAIN h : a[x] = IF Frames!Pos(h, x) < Window THEN Frames!NaN
                                     ELSE Frames!Recursive(h)[x]
       /\ \A x \in DOMAIN h : Frames!Recursive(h)[x] =
                                Frames!AnyOf({h[r] : r \in Frames!Upto(h, x)})
  BY DEF Frames!Atr, Frames!Recursive
<1>11. Frames!AlignCausal(a, index)[t] = IF K = {} THEN Frames!NaN ELSE a[k]
  BY DEF Frames!AlignCausal
<1>12. K \in SUBSET Nat /\ K \subseteq DOMAIN h /\ \A e \in K : e <= t /\ a[e] # Frames!NaN
  <2>1. DOMAIN a \subseteq Nat
    BY <1>4, <1>10
  <2>. HIDE DEF a
  <2>. QED  BY <1>10, <2>1 DEF Frames!Upto
<1>13. \A x \in DOMAIN h : x <= t /\ a[x] # Frames!NaN => x \in K
  <2>. HIDE DEF a
  <2>. QED  BY <1>10 DEF Frames!Upto
<1>. HIDE DEF a, K
\* The values of the hours that have ended by t, seen in the hours and in the bars.
<1>14. Frames!AnyOf({h[r] : r \in Frames!Upto(h, t)}) = Frames!AnyOf({c[b] : b \in Ended})
  <2>1. \A b \in DOMAIN c : b \in Ended <=> Frames!Edge(b, HourLen, "right") <= t
    BY <1>1, HourHasEnded
  <2>2. Ended \subseteq DOMAIN c
    OBVIOUS
  <2>. HIDE DEF Ended
  <2>. DEFINE A == {h[r] : r \in Frames!Upto(h, t)}
              B == {c[b] : b \in Ended}
  <2>3. \A r \in Frames!Upto(h, t) : r \in DOMAIN h /\ r \in Nat /\ r <= t
    BY <1>4 DEF Frames!Upto
  <2>4. A \in SUBSET (0..t)
    BY <1>1, <1>4, <2>3
  <2>5. \A b \in Ended : b \in Nat /\ b <= t /\ c[b] \in 0..b
    BY <1>1, <1>3, <2>1, <2>2
  <2>6. B \in SUBSET (0..t)
    BY <1>1, <2>5
  <2>7. \A x \in A : x = 0 \/ \E y \in B : x <= y
    <3>. SUFFICES ASSUME NEW e \in Frames!Upto(h, t), h[e] # 0
                  PROVE  \E y \in B : h[e] <= y
      OBVIOUS
    <3>1. PICK r \in In(e) : h[e] = c[r]
      BY <1>7, <2>3
    <3>2. r \in Ended /\ h[e] \in Nat
      BY <1>4, <2>1, <2>3, <3>1
    <3>. QED  BY <3>1, <3>2
  <2>8. \A y \in B : y = 0 \/ \E x \in A : y <= x
    <3>. SUFFICES ASSUME NEW b \in Ended PROVE \E x \in A : c[b] <= x
      OBVIOUS
    <3>. DEFINE e == Frames!Edge(b, HourLen, "right")
    <3>1. b \in DOMAIN c /\ e <= t
      BY <2>1, <2>2
    <3>2. e \in DOMAIN h /\ c[b] <= h[e]
      BY <1>6, <1>8, <3>1
    <3>. HIDE DEF e
    <3>3. e \in Frames!Upto(h, t)
      BY <3>1, <3>2 DEF Frames!Upto
    <3>. QED  BY <3>2, <3>3
  <2>. HIDE DEF A, B
  <2>9. Frames!AnyOf(A) <= Frames!AnyOf(B) /\ Frames!AnyOf(B) <= Frames!AnyOf(A)
    BY <1>1, <2>4, <2>6, <2>7, <2>8, AnyOfAtMost
  <2>10. Frames!AnyOf(A) \in Nat /\ Frames!AnyOf(B) \in Nat
    <3>1. Frames!AnyOf(A) \in 0..t /\ Frames!AnyOf(B) \in 0..t
      BY <1>1, <2>4, <2>6, AnyOfBound
    <3>. QED  BY <1>1, <3>1
  <2>. QED  BY <2>9, <2>10 DEF A, B
<1>. HIDE DEF Ended
<1>15. ASSUME K # {}
       PROVE  a[k] = Frames!AnyOf({c[b] : b \in Ended})
  <2>1. k \in K /\ \A e \in K : e <= k
    BY <1>1, <1>12, <1>15, GreatestOf
  <2>. HIDE DEF k
  <2>2. k \in DOMAIN h /\ k \in Nat /\ k <= t /\ a[k] # Frames!NaN
    BY <1>12, <2>1
  <2>3. ~(Frames!Pos(h, k) < Window) /\ a[k] = Frames!AnyOf({h[r] : r \in Frames!Upto(h, k)})
    BY <1>10, <2>2
  <2>4. ASSUME NEW x \in DOMAIN h, x <= t PROVE x <= k
    <3>. SUFFICES ASSUME ~(x <= k) PROVE FALSE
      OBVIOUS
    <3>1. x \in Nat /\ k < x
      BY <1>4, <2>2
    <3>2. /\ Frames!Pos(h, k) < Frames!Pos(h, x)
          /\ Frames!Pos(h, k) \in Nat /\ Frames!Pos(h, x) \in Nat
      BY <1>4, <2>2, <3>1, PositionsAscend, Positions
    <3>3. ~(Frames!Pos(h, x) < Window)
      BY <2>3, <3>2, Clocks
    <3>4. a[x] = Frames!AnyOf({h[r] : r \in Frames!Upto(h, x)})
      BY <1>10, <3>3
    <3>5. {h[r] : r \in Frames!Upto(h, x)} \in SUBSET (0..x)
      BY <1>4, <3>1 DEF Frames!Upto
    <3>6. h[x] \in {h[r] : r \in Frames!Upto(h, x)}
      BY <3>1 DEF Frames!Upto
    <3>7. a[x] \in 0..x /\ h[x] <= a[x]
      BY <3>1, <3>4, <3>5, <3>6, AnyOfBound
    <3>8. a[x] # 0
      BY <1>4, <1>9, <3>1, <3>7
    <3>9. x \in K
      BY <1>13, <2>4, <3>8 DEF Frames!NaN
    <3>. QED  BY <2>1, <3>9
  <2>5. Frames!Upto(h, k) = Frames!Upto(h, t)
    BY <1>1, <1>4, <2>2, <2>4 DEF Frames!Upto
  <2>. QED  BY <1>14, <2>3, <2>5
<1>16. Frames!HourAtr(c, index) = Frames!AlignCausal(a, index)
  BY DEF Frames!HourAtr, a, h
<1>17. Frames!HourAtr(c, index)[t] \in {Frames!NaN, Frames!AnyOf({c[b] : b \in Ended})}
  BY <1>11, <1>15, <1>16
<1>. QED  BY <1>17 DEF Ended

LEMMA PriorCloseIsFresh ==
  ASSUME NEW c, Dailies(c), NEW index \in SUBSET Nat, NEW t \in index,
         Frames!DayOf(t) * DayLen \in DOMAIN c
  PROVE  Frames!AlignDaily(c, index)[t] =
           Frames!AnyOf({c[r] : r \in {d \in DOMAIN c : Frames!DayOf(d) < Frames!DayOf(t)}})
<1>. DEFINE s == Frames!Shift(c, 1)
            D == Frames!DayOf(t) * DayLen
            K == {r \in Frames!Upto(s, t) : s[r] # Frames!NaN}
            Earlier == {d \in DOMAIN c : Frames!DayOf(d) < Frames!DayOf(t)}
<1>1. t \in Nat /\ Frames!DayOf(t) \in Nat
  BY DaysAscend
<1>2. DOMAIN c \subseteq Dates /\ \A r \in DOMAIN c : c[r] = Frames!CloseOf(Frames!DayOf(r))
  BY DEF Dailies
<1>3. \A r \in DOMAIN c : r \in Nat /\ Frames!DayOf(r) \in Nat /\ r = Frames!DayOf(r) * DayLen
  BY <1>2, DatesAre
<1>4. D \in Nat /\ D <= t /\ Frames!DayOf(D) = Frames!DayOf(t)
  <2>1. t = Frames!DayOf(t) * DayLen + (t % DayLen) /\ t % DayLen \in 0 .. DayLen - 1
    BY <1>1, DaysAscend
  <2>2. DayLen \in Nat
    BY Clocks
  <2>3. t % DayLen \in Nat
    BY <2>1, <2>2
  <2>4. D \in Nat /\ Frames!DayOf(D) = Frames!DayOf(t)
    BY <1>1, SessionsClose
  <2>. QED  BY <1>1, <2>1, <2>3, <2>4
<1>5. D \in DOMAIN c
  OBVIOUS
<1>. HIDE DEF D
<1>6. \A r \in DOMAIN c : r <= t => r <= D
  <2>. TAKE r \in DOMAIN c
  <2>. HAVE r <= t
  <2>1. Frames!DayOf(r) <= Frames!DayOf(t)
    BY <1>1, <1>3, DaysAscend
  <2>2. Frames!DayOf(r) * DayLen <= D
    <3>1. CASE Frames!DayOf(r) = Frames!DayOf(t)
      BY <1>3, <1>4, <1>5, <3>1
    <3>2. CASE Frames!DayOf(r) < Frames!DayOf(t)
      <4>1. Frames!DayOf(r) * DayLen + DayLen <= Frames!DayOf(t) * DayLen
        BY <1>1, <1>3, <3>2, EarlierDays
      <4>. QED  BY <1>3, <1>4, <4>1, Clocks DEF D
    <3>. QED  BY <1>1, <1>3, <2>1, <3>1, <3>2
  <2>. QED  BY <1>3, <2>2
<1>7. \A r \in DOMAIN c : Frames!DayOf(r) < Frames!DayOf(t) <=> r < D
  <2>. TAKE r \in DOMAIN c
  <2>1. Frames!DayOf(r) < Frames!DayOf(t) => r < D
    <3>. HAVE Frames!DayOf(r) < Frames!DayOf(t)
    <3>1. Frames!DayOf(r) * DayLen + DayLen <= Frames!DayOf(t) * DayLen
      BY <1>1, <1>3, EarlierDays
    <3>. QED  BY <1>3, <1>4, <3>1, Clocks DEF D
  <2>2. r < D => Frames!DayOf(r) < Frames!DayOf(t)
    <3>. HAVE r < D
    <3>1. Frames!DayOf(r) <= Frames!DayOf(t)
      BY <1>3, <1>4, DaysAscend
    <3>2. Frames!DayOf(r) # Frames!DayOf(t)
      BY <1>3, <1>4, <1>5
    <3>. QED  BY <1>1, <1>3, <3>1, <3>2
  <2>. QED  BY <2>1, <2>2
<1>8. Earlier = {d \in DOMAIN c : d < D}
  BY <1>7
<1>9. /\ DOMAIN s = DOMAIN c
      /\ \A r \in DOMAIN c : s[r] = IF Frames!Pos(c, r) <= 1 THEN Frames!NaN
                                    ELSE c[Frames!RowAt(c, Frames!Pos(c, r) - 1)]
  BY DEF Frames!Shift
<1>10. Frames!AlignCausal(s, index)[t] = IF K = {} THEN Frames!NaN ELSE s[Frames!Max(K)]
  BY DEF Frames!AlignCausal
<1>. HIDE DEF s
<1>11. K \in SUBSET Nat /\ \A r : r \in K <=> r \in DOMAIN c /\ r <= D /\ s[r] # Frames!NaN
  BY <1>1, <1>3, <1>4, <1>6, <1>9 DEF Frames!Upto
<1>. HIDE DEF K, Earlier
<1>12. DOMAIN c \subseteq Nat
  BY <1>3
<1>13. \A r \in DOMAIN c : Frames!Pos(c, r) \in Nat /\ Frames!Pos(c, r) >= 1
  BY <1>12, Positions
<1>14. \A q, r \in DOMAIN c : q < r => Frames!Pos(c, q) < Frames!Pos(c, r)
  BY <1>12, PositionsAscend
<1>15. ASSUME Frames!Pos(c, D) <= 1
       PROVE  Frames!AlignCausal(s, index)[t] = Frames!AnyOf({c[r] : r \in Earlier})
  <2>1. \A r \in DOMAIN c : ~(r < D)
    BY <1>5, <1>13, <1>14, <1>15
  <2>2. K = {} /\ Earlier = {}
    <3>1. \A r \in DOMAIN c : r <= D => r = D
      BY <1>4, <1>12, <2>1
    <3>. QED  BY <1>8, <1>9, <1>11, <1>15, <2>1, <3>1
  <2>. QED  BY <1>10, <2>2, AnyOfNone
<1>16. ASSUME ~(Frames!Pos(c, D) <= 1)
       PROVE  Frames!AlignCausal(s, index)[t] = Frames!AnyOf({c[r] : r \in Earlier})
  <2>. DEFINE n == Frames!Pos(c, D) - 1
              p == Frames!RowAt(c, n)
  <2>1. n \in Nat /\ 1 <= n /\ n < Frames!Pos(c, D) /\ n <= Frames!Pos(c, D)
    BY <1>5, <1>13, <1>16
  <2>2. s[D] = c[p]
    BY <1>5, <1>9, <1>16
  <2>3. \A q \in DOMAIN c : q < D => Frames!Pos(c, q) <= n
    BY <1>5, <1>13, <1>14
  <2>. HIDE DEF n
  <2>4. p \in DOMAIN c /\ p < D /\ Frames!Pos(c, p) = n
    BY <1>5, <1>12, <2>1, RowAtIs
  <2>. HIDE DEF p
  <2>5. \A q \in DOMAIN c : q < D => q <= p
    <3>. TAKE q \in DOMAIN c
    <3>. HAVE q < D
    <3>1. ~(p < q)
      BY <1>13, <1>14, <2>1, <2>3, <2>4
    <3>. QED  BY <1>12, <2>4, <3>1
  <2>6. \A q \in DOMAIN c : q < D => c[q] <= c[p]
    <3>. TAKE q \in DOMAIN c
    <3>. HAVE q < D
    <3>1. Frames!DayOf(q) <= Frames!DayOf(p)
      BY <1>12, <2>4, <2>5, DaysAscend
    <3>2. Frames!CloseOf(Frames!DayOf(q)) <= Frames!CloseOf(Frames!DayOf(p))
      BY <1>3, <2>4, <3>1, SessionsClose
    <3>. QED  BY <1>2, <2>4, <3>2
  <2>7. \A q \in DOMAIN c : c[q] \in Nat /\ c[q] # 0
    <3>. TAKE q \in DOMAIN c
    <3>1. /\ Frames!CloseOf(Frames!DayOf(q)) \in Nat
          /\ q < Frames!CloseOf(Frames!DayOf(q))
      BY <1>3, SessionsClose
    <3>. QED  BY <1>2, <1>3, <3>1
  <2>8. D \in K /\ \A e \in K : e <= D
    BY <1>4, <1>5, <1>11, <2>2, <2>4, <2>7 DEF Frames!NaN
  <2>9. Frames!Max(K) = D
    <3>1. Frames!Max(K) \in K /\ \A e \in K : e <= Frames!Max(K)
      BY <1>4, <1>11, <2>8, GreatestOf
    <3>2. Frames!Max(K) <= D /\ D <= Frames!Max(K) /\ Frames!Max(K) \in Nat
      BY <1>11, <2>8, <3>1
    <3>. QED  BY <1>4, <3>2
  <2>10. /\ {c[r] : r \in Earlier} \in SUBSET (0..c[p]) /\ c[p] \in {c[r] : r \in Earlier}
         /\ c[p] \in Nat
    BY <1>8, <2>4, <2>6, <2>7
  <2>11. Frames!AnyOf({c[r] : r \in Earlier}) = c[p]
    BY <2>10, AnyOfIs
  <2>12. K # {}
    BY <2>8
  <2>. QED  BY <1>10, <2>2, <2>9, <2>11, <2>12
<1>17. Frames!AlignCausal(s, index)[t] = Frames!AnyOf({c[r] : r \in Earlier})
  BY <1>15, <1>16
<1>. QED  BY <1>17 DEF Frames!AlignDaily, s, Earlier

LEMMA WarehouseBars ==
  ASSUME NEW s, NEW n
  PROVE  Minutes(Frames!MinuteBars(s, n)) /\ Dailies(Frames!DailyBars(s, n))
<1>. DEFINE R == Frames!RegularMinutes(Frames!Feed(s, n))
<1>1. R \subseteq Nat
  BY DEF Frames!RegularMinutes, Frames!Feed
<1>. HIDE DEF R
<1>2. Minutes(Frames!MinuteBars(s, n))
  BY <1>1 DEF Frames!MinuteBars, Minutes, R
<1>3. \A m \in R : Frames!DayOf(m) \in Nat
  BY <1>1, DaysAscend
<1>4. Dailies(Frames!DailyBars(s, n))
  <2>1. /\ DOMAIN Frames!DailyBars(s, n) = {d * DayLen : d \in {Frames!DayOf(m) : m \in R}}
        /\ \A r \in DOMAIN Frames!DailyBars(s, n) :
             Frames!DailyBars(s, n)[r] = Frames!CloseOf(Frames!DayOf(r))
    BY DEF Frames!DailyBars, R
  <2>. QED  BY <1>3, <2>1 DEF Dailies, Dates
<1>. QED  BY <1>2, <1>4

Fresh(q, minutes, bars, days) ==
  \A t \in DOMAIN q.close \cap DOMAIN bars :
    /\ q.vwap_m5[t] = Frames!AnyOf({minutes[r] : r \in {m \in DOMAIN minutes : m < t}})
    /\ q.hour_atr[t] \in
         {Frames!NaN, Frames!AnyOf({bars[r] : r \in {b \in DOMAIN bars :
                                                       b <= (t \div HourLen) * HourLen}})}
    /\ Frames!DayOf(t) * DayLen \in DOMAIN days =>
         q.prior_close[t] =
           Frames!AnyOf({days[r] : r \in {d \in DOMAIN days :
                                            Frames!DayOf(d) < Frames!DayOf(t)}})

LEMMA PreparedIsCausal ==
  ASSUME NEW minutes, NEW dailies
  PROVE  /\ AllCausal(Frames!Prepare(minutes, dailies).m5, ByLabel)
         /\ AllCausal(Frames!Prepare(minutes, dailies).d1, BySession)
         /\ Fresh(Frames!Prepare(minutes, dailies).m5, Frames!MinuteBars("stock", minutes),
                  Frames!FiveMinutes(Frames!MinuteBars("stock", minutes)),
                  Frames!DailyBars("stock", dailies))
<1>. DEFINE p == Frames!Prepare(minutes, dailies)
            m1 == [s \in Frames!Symbols |-> Frames!MinuteBars(s, minutes)]
            m5 == [s \in Frames!Symbols |-> Frames!FiveMinutes(m1[s])]
            d1 == [s \in Frames!Symbols |-> Frames!DailyBars(s, dailies)]
            context == Frames!DailyContext(d1["spy"])
            plain == Frames!Unaudited(context)
            stock == Frames!MinuteBars("stock", minutes)
            bars == Frames!FiveMinutes(stock)
            days == Frames!DailyBars("stock", dailies)
            own == DOMAIN bars
            q == Frames!PreparedM5(m1, m5, d1, plain)
<1>1. p.m5 = q /\ p.d1 = Frames!PreparedD1(d1)
  BY DEF Frames!Prepare
<1>. HIDE DEF p
<1>2. /\ \A s \in Frames!Symbols : Minutes(m1[s]) /\ Dailies(d1[s])
      /\ "spy" \in Frames!Symbols /\ "stock" \in Frames!Symbols
  BY WarehouseBars DEF Frames!Symbols
<1>3. m1["stock"] = stock /\ m5["stock"] = bars /\ d1["stock"] = days
  BY <1>2
<1>. HIDE DEF m1, d1, stock, days
<1>4. \A s \in Frames!Symbols : /\ Causal(m5[s], ByLabel) /\ DOMAIN m5[s] \in SUBSET Nat
                                /\ Causal(d1[s], BySession) /\ DOMAIN d1[s] \subseteq Dates
  <2>. TAKE s \in Frames!Symbols
  <2>1. m5[s] = Frames!FiveMinutes(m1[s])
    OBVIOUS
  <2>. HIDE DEF m5
  <2>2. Causal(m5[s], ByLabel)
    BY <1>2, <2>1, FiveMinutesCausal
  <2>3. Causal(d1[s], BySession) /\ DOMAIN d1[s] \subseteq Dates
    BY <1>2, BarsCausal DEF Dailies
  <2>. QED  BY <2>2, <2>3 DEF Causal
<1>. HIDE DEF m5, bars
<1>5. Stored(m1, m5, d1)
  BY <1>2, <1>4 DEF Stored
<1>6. /\ Causal(plain.regime_d1, BySession) /\ DOMAIN plain.regime_d1 \subseteq Dates
      /\ Causal(plain.d1_range, BySession) /\ DOMAIN plain.d1_range \subseteq Dates
      /\ Causal(plain.suspect, BySession) /\ DOMAIN plain.suspect \subseteq Dates
  BY <1>2, <1>4, DailyContextCausal
<1>. HIDE DEF plain
<1>7. /\ AllCausal(q, ByLabel)
      /\ \A t \in DOMAIN q.close \cap own :
           /\ q.vwap_m5[t] = Frames!AlignCausal(Frames!CloseLabel(Frames!Vwap(stock)), own)[t]
           /\ q.hour_atr[t] = Frames!HourAtr(bars, own)[t]
           /\ q.prior_close[t] = Frames!AlignDaily(days, own)[t]
  BY <1>3, <1>5, <1>6, PreparedM5Causal
<1>. HIDE DEF q
<1>8. AllCausal(Frames!PreparedD1(d1), BySession)
  BY <1>4, PreparedD1Causal
<1>9. /\ Minutes(stock) /\ Dailies(days) /\ own \in SUBSET Nat /\ Causal(bars, ByLabel)
      /\ \A b \in own : bars[b] # 0
  BY <1>2, <1>3, <1>4, BarsSpeak DEF bars
<1>10. Fresh(q, stock, bars, days)
  <2>. SUFFICES ASSUME NEW t \in DOMAIN q.close \cap own
                PROVE  /\ q.vwap_m5[t] = Frames!AnyOf({stock[r] : r \in {m \in DOMAIN stock : m < t}})
                       /\ q.hour_atr[t] \in
                            {Frames!NaN,
                             Frames!AnyOf({bars[r] : r \in {b \in DOMAIN bars :
                                                              b <= (t \div HourLen) * HourLen}})}
                       /\ Frames!DayOf(t) * DayLen \in DOMAIN days =>
                            q.prior_close[t] =
                              Frames!AnyOf({days[r] : r \in {d \in DOMAIN days :
                                                               Frames!DayOf(d) < Frames!DayOf(t)}})
    BY DEF Fresh
  <2>1. t \in own
    OBVIOUS
  <2>2. q.vwap_m5[t] = Frames!AnyOf({stock[r] : r \in {m \in DOMAIN stock : m < t}})
    BY <1>7, <1>9, VwapIsFresh
  <2>3. q.hour_atr[t] \in
          {Frames!NaN,
           Frames!AnyOf({bars[r] : r \in {b \in DOMAIN bars : b <= (t \div HourLen) * HourLen}})}
    BY <1>7, <1>9, <2>1, HourAtrIsFresh
  <2>4. Frames!DayOf(t) * DayLen \in DOMAIN days =>
          q.prior_close[t] =
            Frames!AnyOf({days[r] : r \in {d \in DOMAIN days : Frames!DayOf(d) < Frames!DayOf(t)}})
    BY <1>7, <1>9, <2>1, PriorCloseIsFresh
  <2>. QED  BY <2>2, <2>3, <2>4
<1>. QED  BY <1>1, <1>7, <1>8, <1>10 DEF p, stock, days, bars

-----------------------------------------------------------------------------
\* What is prepared is a function of what is stored.
FramesInv == prepared = Frames!Prepare(minuteDays, dailyDays)

LEMMA PreparedFollows ==
  ASSUME silent' = silent
  PROVE  \A m, d : Frames!Prepare(m, d)' = Frames!Prepare(m, d)
BY DEF Frames!Prepare, Frames!MinuteBars, Frames!DailyBars, Frames!RegularMinutes, Frames!Feed

\* No value of a row was computed from a bar that closed after it, and the newest
\* minute, hour and session a bar may see is in it: _prepare_m5 and _prepare neither
\* look ahead nor lag behind.
THEOREM FramesAreCausalAlways == MCSpec => []FramesAreCausal
<1>1. MCInit => FramesInv
  BY DEF MCInit, Frames!Init, FramesInv
<1>2. FramesInv /\ [MCNext]_allVars => FramesInv'
  <2>. SUFFICES ASSUME FramesInv, [MCNext]_allVars PROVE FramesInv'
    OBVIOUS
  <2>1. CASE Frames!StoreMinutes
    BY <2>1, PreparedFollows DEF Frames!StoreMinutes, FramesInv
  <2>2. CASE Frames!StoreDailies
    BY <2>2, PreparedFollows DEF Frames!StoreDailies, FramesInv
  <2>3. CASE UNCHANGED frameVars
    BY <2>3, PreparedFollows DEF frameVars, FramesInv
  <2>4. Frames!Next \/ UNCHANGED frameVars
    BY DEF MCNext, allVars, frameVars
  <2>. QED  BY <2>1, <2>2, <2>3, <2>4 DEF Frames!Next
<1>3. FramesInv => FramesAreCausal
  <2>. SUFFICES ASSUME FramesInv PROVE FramesAreCausal
    OBVIOUS
  <2>1. /\ AllCausal(prepared.m5, ByLabel) /\ AllCausal(prepared.d1, BySession)
        /\ Fresh(prepared.m5, Frames!MinuteBars("stock", minuteDays),
                 Frames!FiveMinutes(Frames!MinuteBars("stock", minuteDays)),
                 Frames!DailyBars("stock", dailyDays))
    BY PreparedIsCausal DEF FramesInv
  <2>2. \A col \in DOMAIN prepared.m5 : \A t \in DOMAIN prepared.m5[col] : prepared.m5[col][t] <= t
    <3>1. \A col \in DOMAIN prepared.m5 : \A t \in DOMAIN prepared.m5[col] :
            t \in Nat /\ prepared.m5[col][t] \in 0..ByLabel[t] /\ ByLabel[t] = t
      BY <2>1 DEF AllCausal, Causal, ByLabel
    <3>. QED  BY <3>1
  <2>3. \A col \in DOMAIN prepared.d1 : \A t \in DOMAIN prepared.d1[col] :
          prepared.d1[col][t] <= Frames!CloseOf(Frames!DayOf(t))
    <3>1. \A col \in DOMAIN prepared.d1 : \A t \in DOMAIN prepared.d1[col] :
            /\ t \in Nat /\ prepared.d1[col][t] \in 0..BySession[t]
            /\ BySession[t] = Frames!CloseOf(Frames!DayOf(t))
      BY <2>1 DEF AllCausal, Causal, BySession
    <3>. QED  BY <3>1
  <2>. QED  BY <2>1, <2>2, <2>3 DEF Fresh, FramesAreCausal, Frames!FramesAreCausal
<1>. QED  BY <1>1, <1>2, <1>3, PTL DEF MCSpec

-----------------------------------------------------------------------------
\* PastStands: what is stored later adds rows after T and changes none up to it.  Two
\* columns are alike up to T when they have the same rows and values there.
Alike(c, e, T) ==
  /\ DOMAIN c \subseteq Nat /\ DOMAIN e \subseteq Nat
  /\ IsFiniteSet(DOMAIN c) /\ IsFiniteSet(DOMAIN e)
  /\ \A r \in Nat : r <= T => /\ r \in DOMAIN c <=> r \in DOMAIN e
                              /\ r \in DOMAIN c => c[r] = e[r]
AlikeSets(S, R, T) == /\ \A c \in S : \E e \in R : Alike(c, e, T)
                      /\ \A e \in R : \E c \in S : Alike(c, e, T)
Covers(c, e, d, g) == DOMAIN c \subseteq DOMAIN d /\ DOMAIN e \subseteq DOMAIN g

LEMMA RowsAlike ==
  ASSUME NEW T \in Nat, NEW c, NEW e, Alike(c, e, T), NEW t \in Nat, t <= T
  PROVE  /\ Frames!Upto(c, t) = Frames!Upto(e, t)
         /\ Frames!Pos(c, t) = Frames!Pos(e, t)
         /\ Frames!At(c, t) = Frames!At(e, t)
         /\ \A n : Frames!LastRows(c, t, n) = Frames!LastRows(e, t, n)
<1>1. Frames!Upto(c, t) = Frames!Upto(e, t)
  BY DEF Frames!Upto, Alike
<1>2. Frames!Pos(c, t) = Frames!Pos(e, t)
  BY <1>1 DEF Frames!Pos
<1>3. Frames!At(c, t) = Frames!At(e, t)
  BY DEF Frames!At, Alike
<1>4. \A n : Frames!LastRows(c, t, n) = Frames!LastRows(e, t, n)
  BY <1>1 DEF Frames!LastRows
<1>. QED  BY <1>1, <1>2, <1>3, <1>4

LEMMA PastAlike ==
  ASSUME NEW T \in Nat, NEW c, NEW e, Alike(c, e, T), NEW t \in Nat, t <= T,
         NEW S, S \subseteq Frames!Upto(c, t)
  PROVE  {c[r] : r \in S} = {e[r] : r \in S}
<1>1. \A r \in S : c[r] = e[r]
  BY DEF Frames!Upto, Alike
<1>. QED  BY <1>1

LEMMA RowAtAlike ==
  ASSUME NEW T \in Nat, NEW c, NEW e, Alike(c, e, T), NEW t \in DOMAIN c, t <= T,
         NEW n \in Nat, 1 <= n, n <= Frames!Pos(c, t)
  PROVE  /\ Frames!RowAt(c, n) = Frames!RowAt(e, n)
         /\ c[Frames!RowAt(c, n)] = e[Frames!RowAt(e, n)]
<1>. DEFINE p == Frames!RowAt(c, n)
            q == Frames!RowAt(e, n)
<1>1. /\ DOMAIN c \subseteq Nat /\ DOMAIN e \subseteq Nat /\ t \in Nat /\ t \in DOMAIN e
      /\ Frames!Pos(c, t) = Frames!Pos(e, t)
  <2>1. DOMAIN c \subseteq Nat /\ DOMAIN e \subseteq Nat /\ t \in Nat /\ t \in DOMAIN e
    BY DEF Alike
  <2>. QED  BY <2>1, RowsAlike
<1>2. p \in DOMAIN c /\ p <= t /\ Frames!Pos(c, p) = n
  BY <1>1, RowAtIs
<1>3. q \in DOMAIN e /\ q <= t /\ Frames!Pos(e, q) = n
  BY <1>1, RowAtIs
<1>. HIDE DEF p, q
<1>4. p \in Nat /\ q \in Nat /\ p <= T /\ q <= T
  BY <1>1, <1>2, <1>3
<1>5. p \in DOMAIN e /\ Frames!Pos(e, p) = n /\ c[p] = e[p]
  BY <1>2, <1>4, RowsAlike DEF Alike
<1>6. p = q
  <2>1. ~(p < q) /\ ~(q < p)
    BY <1>1, <1>3, <1>4, <1>5, PositionsAscend
  <2>. QED  BY <1>4, <2>1
<1>. QED  BY <1>5, <1>6 DEF p, q

LEMMA RowsKept ==
  \A c, d, n : /\ DOMAIN Frames!Arith(c, d) = DOMAIN c /\ DOMAIN Frames!Flag(c, d) = DOMAIN c
               /\ DOMAIN Frames!Where(c, d) = DOMAIN c /\ DOMAIN Frames!Shift(c, n) = DOMAIN c
               /\ DOMAIN Frames!Rolling(c, n) = DOMAIN c
               /\ DOMAIN Frames!RollingAny(c, n) = DOMAIN c
               /\ DOMAIN Frames!Change(c, n) = DOMAIN c
               /\ DOMAIN Frames!Recursive(c) = DOMAIN c
               /\ DOMAIN Frames!SessionSoFar(c) = DOMAIN c
               /\ DOMAIN Frames!SessionFirst(c) = DOMAIN c
               /\ DOMAIN Frames!Atr(c) = DOMAIN c /\ DOMAIN Frames!Rvol(c) = DOMAIN c
               /\ DOMAIN Frames!Trendline(c) = DOMAIN c
BY DEF Frames!Arith, Frames!Flag, Frames!Where, Frames!Shift, Frames!Rolling,
       Frames!RollingAny, Frames!Change, Frames!Recursive, Frames!SessionSoFar,
       Frames!SessionFirst, Frames!Atr, Frames!Rvol, Frames!Trendline

\* An operator that keeps the rows keeps them alike when it does so row by row.
LEMMA AlikeByRow ==
  ASSUME NEW T \in Nat, NEW c, NEW e, Alike(c, e, T), NEW x, NEW y,
         DOMAIN x = DOMAIN c, DOMAIN y = DOMAIN e,
         \A t \in DOMAIN c : t \in DOMAIN e /\ t \in Nat /\ t <= T => x[t] = y[t]
  PROVE  Alike(x, y, T)
BY DEF Alike

LEMMA ReindexAlike ==
  ASSUME NEW T \in Nat, NEW c, NEW e, Alike(c, e, T),
         NEW index, NEW jndex, index \subseteq Nat, jndex \subseteq Nat,
         IsFiniteSet(index), IsFiniteSet(jndex),
         \A r \in Nat : r <= T => (r \in index <=> r \in jndex)
  PROVE  Alike(Frames!Reindex(c, index), Frames!Reindex(e, jndex), T)
<1>1. \A r \in Nat : r <= T => Frames!At(c, r) = Frames!At(e, r)
  BY RowsAlike
<1>. QED  BY <1>1 DEF Frames!Reindex, Alike

LEMMA OthersAlike ==
  ASSUME NEW T \in Nat, NEW S, NEW R, AlikeSets(S, R, T), NEW t \in Nat, t <= T
  PROVE  {Frames!At(d, t) : d \in S} = {Frames!At(d, t) : d \in R}
BY RowsAlike DEF AlikeSets

LEMMA ArithAlike ==
  ASSUME NEW T \in Nat, NEW c, NEW e, Alike(c, e, T), NEW S, NEW R, AlikeSets(S, R, T)
  PROVE  /\ Alike(Frames!Arith(c, S), Frames!Arith(e, R), T)
         /\ Alike(Frames!Flag(c, S), Frames!Flag(e, R), T)
<1>1. \A t \in Nat : t <= T => {Frames!At(d, t) : d \in S} = {Frames!At(d, t) : d \in R}
  BY OthersAlike
<1>2. \A t \in DOMAIN c : t \in DOMAIN e /\ t \in Nat /\ t <= T => c[t] = e[t]
  BY DEF Alike
<1>3. /\ \A t \in DOMAIN c : t \in DOMAIN e /\ t \in Nat /\ t <= T =>
           Frames!Arith(c, S)[t] = Frames!Arith(e, R)[t]
      /\ \A t \in DOMAIN c : t \in DOMAIN e /\ t \in Nat /\ t <= T =>
           Frames!Flag(c, S)[t] = Frames!Flag(e, R)[t]
  BY <1>1, <1>2 DEF Frames!Arith, Frames!Flag
<1>. QED  BY <1>3, AlikeByRow, RowsKept

LEMMA WhereAlike ==
  ASSUME NEW T \in Nat, NEW c, NEW e, Alike(c, e, T), NEW d, NEW g, Alike(d, g, T),
         Covers(c, e, d, g)
  PROVE  Alike(Frames!Where(c, d), Frames!Where(e, g), T)
<1>1. \A t \in DOMAIN c : t \in DOMAIN e /\ t \in Nat /\ t <= T => c[t] = e[t] /\ d[t] = g[t]
  BY DEF Alike, Covers
<1>2. \A t \in DOMAIN c : t \in DOMAIN e /\ t \in Nat /\ t <= T =>
        Frames!Where(c, d)[t] = Frames!Where(e, g)[t]
  BY <1>1 DEF Frames!Where
<1>. QED  BY <1>2, AlikeByRow, RowsKept

LEMMA ShiftAlike ==
  ASSUME NEW T \in Nat, NEW c, NEW e, Alike(c, e, T), NEW n \in Nat
  PROVE  Alike(Frames!Shift(c, n), Frames!Shift(e, n), T)
<1>1. ASSUME NEW t \in DOMAIN c, t \in DOMAIN e, t \in Nat, t <= T
      PROVE  Frames!Shift(c, n)[t] = Frames!Shift(e, n)[t]
  <2>1. Frames!Pos(c, t) = Frames!Pos(e, t)
    BY <1>1, RowsAlike
  <2>2. Frames!Pos(c, t) \in Nat
    BY <1>1, Positions DEF Alike
  <2>3. ASSUME ~(Frames!Pos(c, t) <= n)
        PROVE  c[Frames!RowAt(c, Frames!Pos(c, t) - n)] = e[Frames!RowAt(e, Frames!Pos(c, t) - n)]
    <3>1. /\ Frames!Pos(c, t) - n \in Nat /\ 1 <= Frames!Pos(c, t) - n
          /\ Frames!Pos(c, t) - n <= Frames!Pos(c, t)
      BY <2>2, <2>3
    <3>. QED  BY <1>1, <3>1, RowAtAlike
  <2>. QED  BY <1>1, <2>1, <2>3 DEF Frames!Shift
<1>. QED  BY <1>1, AlikeByRow, RowsKept

LEMMA RollingAlike ==
  ASSUME NEW T \in Nat, NEW c, NEW e, Alike(c, e, T), NEW n
  PROVE  /\ Alike(Frames!Rolling(c, n), Frames!Rolling(e, n), T)
         /\ Alike(Frames!RollingAny(c, n), Frames!RollingAny(e, n), T)
<1>1. ASSUME NEW t \in DOMAIN c, t \in DOMAIN e, t \in Nat, t <= T
      PROVE  /\ Frames!Rolling(c, n)[t] = Frames!Rolling(e, n)[t]
             /\ Frames!RollingAny(c, n)[t] = Frames!RollingAny(e, n)[t]
  <2>1. /\ Frames!Pos(c, t) = Frames!Pos(e, t)
        /\ Frames!LastRows(c, t, n) = Frames!LastRows(e, t, n)
    BY <1>1, RowsAlike
  <2>2. {c[r] : r \in Frames!LastRows(c, t, n)} = {e[r] : r \in Frames!LastRows(c, t, n)}
    <3>1. \A r \in Frames!LastRows(c, t, n) : c[r] = e[r]
      BY <1>1 DEF Frames!LastRows, Frames!Upto, Alike
    <3>. QED  BY <3>1
  <2>. QED  BY <1>1, <2>1, <2>2 DEF Frames!Rolling, Frames!RollingAny
<1>. QED  BY <1>1, AlikeByRow, RowsKept

LEMMA ChangeAlike ==
  ASSUME NEW T \in Nat, NEW c, NEW e, Alike(c, e, T), NEW n \in Nat
  PROVE  Alike(Frames!Change(c, n), Frames!Change(e, n), T)
<1>1. AlikeSets({Frames!Shift(c, n)}, {Frames!Shift(e, n)}, T)
  BY ShiftAlike DEF AlikeSets
<1>. QED  BY <1>1, ArithAlike DEF Frames!Change

LEMMA RecursiveAlike ==
  ASSUME NEW T \in Nat, NEW c, NEW e, Alike(c, e, T)
  PROVE  Alike(Frames!Recursive(c), Frames!Recursive(e), T)
<1>1. ASSUME NEW t \in DOMAIN c, t \in DOMAIN e, t \in Nat, t <= T
      PROVE  Frames!Recursive(c)[t] = Frames!Recursive(e)[t]
  <2>. DEFINE S == Frames!Upto(c, t)
  <2>1. S = Frames!Upto(e, t) /\ S \subseteq Frames!Upto(c, t)
    BY <1>1, RowsAlike
  <2>2. /\ Frames!Recursive(c)[t] = Frames!AnyOf({c[r] : r \in Frames!Upto(c, t)})
        /\ Frames!Recursive(e)[t] = Frames!AnyOf({e[r] : r \in Frames!Upto(e, t)})
    BY <1>1 DEF Frames!Recursive
  <2>3. /\ Frames!Recursive(c)[t] = Frames!AnyOf({c[r] : r \in S})
        /\ Frames!Recursive(e)[t] = Frames!AnyOf({e[r] : r \in S})
    BY <2>1, <2>2
  <2>4. \A r \in S : c[r] = e[r]
    BY <1>1 DEF Frames!Upto, Alike
  <2>. HIDE DEF S
  <2>5. {c[r] : r \in S} = {e[r] : r \in S}
    BY <2>4
  <2>. QED  BY <2>3, <2>5
<1>. QED  BY <1>1, AlikeByRow, RowsKept

LEMMA SessionSoFarAlike ==
  ASSUME NEW T \in Nat, NEW c, NEW e, Alike(c, e, T)
  PROVE  Alike(Frames!SessionSoFar(c), Frames!SessionSoFar(e), T)
<1>1. ASSUME NEW t \in DOMAIN c, t \in DOMAIN e, t \in Nat, t <= T
      PROVE  Frames!SessionSoFar(c)[t] = Frames!SessionSoFar(e)[t]
  <2>. DEFINE S == {q \in Frames!Upto(c, t) : Frames!DayOf(q) = Frames!DayOf(t)}
              R == {q \in Frames!Upto(e, t) : Frames!DayOf(q) = Frames!DayOf(t)}
  <2>1. S = R /\ S \subseteq Frames!Upto(c, t)
    BY <1>1, RowsAlike
  <2>2. /\ Frames!SessionSoFar(c)[t] = Frames!AnyOf({c[r] : r \in S})
        /\ Frames!SessionSoFar(e)[t] = Frames!AnyOf({e[r] : r \in R})
    BY <1>1 DEF Frames!SessionSoFar
  <2>. HIDE DEF S, R
  <2>3. {c[r] : r \in S} = {e[r] : r \in S}
    BY <1>1, <2>1, PastAlike
  <2>. QED  BY <2>1, <2>2, <2>3
<1>. QED  BY <1>1, AlikeByRow, RowsKept

LEMMA SessionFirstAlike ==
  ASSUME NEW T \in Nat, NEW c, NEW e, Alike(c, e, T)
  PROVE  Alike(Frames!SessionFirst(c), Frames!SessionFirst(e), T)
<1>1. ASSUME NEW t \in DOMAIN c, t \in DOMAIN e, t \in Nat, t <= T
      PROVE  Frames!SessionFirst(c)[t] = Frames!SessionFirst(e)[t]
  <2>. DEFINE S == {q \in DOMAIN c : Frames!DayOf(q) = Frames!DayOf(t)}
              R == {q \in DOMAIN e : Frames!DayOf(q) = Frames!DayOf(t)}
  <2>1. /\ S \in SUBSET Nat /\ R \in SUBSET Nat /\ t \in S /\ t \in R
        /\ \A q \in Nat : q <= T => (q \in S <=> q \in R)
        /\ \A q \in Nat : q <= T /\ q \in S => c[q] = e[q]
    BY <1>1 DEF Alike
  <2>2. /\ Frames!SessionFirst(c)[t] = c[Frames!Min(S)]
        /\ Frames!SessionFirst(e)[t] = e[Frames!Min(R)]
    BY <1>1 DEF Frames!SessionFirst
  <2>. HIDE DEF S, R
  <2>3. /\ Frames!Min(S) \in S /\ \A q \in S : Frames!Min(S) <= q
        /\ Frames!Min(R) \in R /\ \A q \in R : Frames!Min(R) <= q
    BY <2>1, LeastOf
  <2>4. Frames!Min(S) \in Nat /\ Frames!Min(R) \in Nat /\ Frames!Min(S) <= T /\ Frames!Min(R) <= T
    <3>1. Frames!Min(S) <= t /\ Frames!Min(R) <= t
      BY <2>1, <2>3
    <3>2. Frames!Min(S) \in Nat /\ Frames!Min(R) \in Nat
      BY <2>1, <2>3
    <3>. QED  BY <1>1, <3>1, <3>2
  <2>5. Frames!Min(S) = Frames!Min(R)
    BY <2>1, <2>3, <2>4
  <2>. QED  BY <2>1, <2>2, <2>3, <2>4, <2>5
<1>. QED  BY <1>1, AlikeByRow, RowsKept

LEMMA AlignAlike ==
  ASSUME NEW T \in Nat, NEW c, NEW e, Alike(c, e, T),
         NEW index, NEW jndex, index \subseteq Nat, jndex \subseteq Nat,
         IsFiniteSet(index), IsFiniteSet(jndex),
         \A r \in Nat : r <= T => (r \in index <=> r \in jndex)
  PROVE  /\ Alike(Frames!AlignCausal(c, index), Frames!AlignCausal(e, jndex), T)
         /\ DOMAIN Frames!AlignCausal(c, index) = index
         /\ DOMAIN Frames!AlignCausal(e, jndex) = jndex
<1>1. DOMAIN Frames!AlignCausal(c, index) = index /\ DOMAIN Frames!AlignCausal(e, jndex) = jndex
  BY DEF Frames!AlignCausal
<1>2. ASSUME NEW t \in index, t \in jndex, t \in Nat, t <= T
      PROVE  Frames!AlignCausal(c, index)[t] = Frames!AlignCausal(e, jndex)[t]
  <2>. DEFINE K == {r \in Frames!Upto(c, t) : c[r] # Frames!NaN}
              M == {r \in Frames!Upto(e, t) : e[r] # Frames!NaN}
  <2>1. Frames!Upto(c, t) = Frames!Upto(e, t) /\ \A r \in Frames!Upto(c, t) : c[r] = e[r]
    BY <1>2, RowsAlike DEF Frames!Upto, Alike
  <2>2. /\ Frames!AlignCausal(c, index)[t] = IF K = {} THEN Frames!NaN ELSE c[Frames!Max(K)]
        /\ Frames!AlignCausal(e, jndex)[t] = IF M = {} THEN Frames!NaN ELSE e[Frames!Max(M)]
    BY <1>2 DEF Frames!AlignCausal
  <2>3. K = M /\ K \subseteq Frames!Upto(c, t) /\ K \in SUBSET Nat /\ \A r \in K : r <= t
    BY <2>1 DEF Frames!Upto, Alike
  <2>. HIDE DEF K, M
  <2>4. K # {} => Frames!Max(K) \in K
    BY <1>2, <2>3, GreatestOf
  <2>. QED  BY <2>1, <2>2, <2>3, <2>4
<1>. QED  BY <1>1, <1>2 DEF Alike

LEMMA AlignDailyAlike ==
  ASSUME NEW T \in Nat, NEW c, NEW e, Alike(c, e, T),
         NEW index, NEW jndex, index \subseteq Nat, jndex \subseteq Nat,
         IsFiniteSet(index), IsFiniteSet(jndex),
         \A r \in Nat : r <= T => (r \in index <=> r \in jndex)
  PROVE  /\ Alike(Frames!AlignDaily(c, index), Frames!AlignDaily(e, jndex), T)
         /\ DOMAIN Frames!AlignDaily(c, index) = index
<1>1. Alike(Frames!Shift(c, 1), Frames!Shift(e, 1), T)
  BY ShiftAlike
<1>2. /\ Alike(Frames!AlignCausal(Frames!Shift(c, 1), index),
               Frames!AlignCausal(Frames!Shift(e, 1), jndex), T)
      /\ DOMAIN Frames!AlignCausal(Frames!Shift(c, 1), index) = index
  BY <1>1, AlignAlike
<1>. QED  BY <1>2 DEF Frames!AlignDaily

LEMMA AlikeIsSymmetric == \A c, e, T : Alike(c, e, T) => Alike(e, c, T)
BY DEF Alike

LEMMA AtrAlike ==
  ASSUME NEW T \in Nat, NEW c, NEW e, Alike(c, e, T)
  PROVE  Alike(Frames!Atr(c), Frames!Atr(e), T)
<1>1. \A t \in DOMAIN c : t \in DOMAIN e /\ t \in Nat /\ t <= T =>
        /\ Frames!Recursive(c)[t] = Frames!Recursive(e)[t]
        /\ Frames!Pos(c, t) = Frames!Pos(e, t)
  BY RecursiveAlike, RowsAlike, RowsKept DEF Alike
<1>2. \A t \in DOMAIN c : t \in DOMAIN e /\ t \in Nat /\ t <= T =>
        Frames!Atr(c)[t] = Frames!Atr(e)[t]
  BY <1>1 DEF Frames!Atr
<1>. QED  BY <1>2, AlikeByRow, RowsKept

LEMMA RrsAlike ==
  ASSUME NEW T \in Nat, NEW c, NEW e, NEW b, NEW g, NEW atr, NEW btr, NEW btc, NEW gtr,
         Alike(c, e, T), Alike(b, g, T), Alike(atr, btr, T), Alike(btc, gtr, T)
  PROVE  Alike(Frames!Rrs(c, atr, b, btc), Frames!Rrs(e, btr, g, gtr), T)
<1>1. Window \in Nat
  BY Clocks
<1>2. Alike(Frames!Change(c, Window), Frames!Change(e, Window), T)
      /\ Alike(Frames!Change(b, Window), Frames!Change(g, Window), T)
  BY <1>1, ChangeAlike
<1>. DEFINE rows == DOMAIN c \cup DOMAIN b
            sows == DOMAIN e \cup DOMAIN g
<1>3. /\ rows \subseteq Nat /\ sows \subseteq Nat
      /\ \A r \in Nat : r <= T => (r \in rows <=> r \in sows)
  BY DEF Alike
<1>4. IsFiniteSet(rows) /\ IsFiniteSet(sows)
  BY FS_Union DEF Alike
<1>. HIDE DEF rows, sows
<1>5. Alike(Frames!Reindex(Frames!Change(c, Window), rows),
            Frames!Reindex(Frames!Change(e, Window), sows), T)
  BY <1>2, <1>3, <1>4, ReindexAlike
<1>6. AlikeSets({Frames!Change(b, Window), atr, btc}, {Frames!Change(g, Window), btr, gtr}, T)
  BY <1>2 DEF AlikeSets
<1>7. Alike(Frames!Arith(Frames!Reindex(Frames!Change(c, Window), rows),
                         {Frames!Change(b, Window), atr, btc}),
            Frames!Arith(Frames!Reindex(Frames!Change(e, Window), sows),
                         {Frames!Change(g, Window), btr, gtr}), T)
  BY <1>5, <1>6, ArithAlike
<1>. QED  BY <1>7 DEF Frames!Rrs, rows, sows

LEMMA VwapAlike ==
  ASSUME NEW T \in Nat, NEW c, NEW e, Alike(c, e, T)
  PROVE  Alike(Frames!Vwap(c), Frames!Vwap(e), T)
BY SessionSoFarAlike DEF Frames!Vwap

LEMMA RvolAlike ==
  ASSUME NEW T \in Nat, NEW c, NEW e, Alike(c, e, T)
  PROVE  Alike(Frames!Rvol(c), Frames!Rvol(e), T)
<1>. DEFINE Dates_(f) == {Frames!DayOf(r) : r \in DOMAIN f}
            Before(f, t) == {d \in Dates_(f) : d < Frames!DayOf(t) /\
                   Frames!Cardinality({i \in Dates_(f) : d < i /\ i < Frames!DayOf(t)}) < Window}
            Baseline(f, t) == {Frames!At(Frames!SessionSoFar(f), (d * DayLen) + (t % DayLen)) :
                                 d \in Before(f, t)}
            Value(f, t) == IF Frames!Cardinality(Before(f, t)) < Window THEN Frames!NaN
                           ELSE Frames!AllOf({Frames!SessionSoFar(f)[t]} \cup Baseline(f, t))
<1>1. Alike(Frames!SessionSoFar(c), Frames!SessionSoFar(e), T)
  BY SessionSoFarAlike
<1>2. ASSUME NEW t \in DOMAIN c, t \in DOMAIN e, t \in Nat, t <= T
      PROVE  Value(c, t) = Value(e, t)
  <2>1. /\ DOMAIN c \subseteq Nat /\ DOMAIN e \subseteq Nat
        /\ \A r \in Nat : r <= T => (r \in DOMAIN c <=> r \in DOMAIN e)
    BY DEF Alike
  <2>2. \A r \in Nat : Frames!DayOf(r) \in Nat /\ (Frames!DayOf(r) < Frames!DayOf(t) => r <= T)
    <3>. TAKE r \in Nat
    <3>1. Frames!DayOf(r) \in Nat /\ Frames!DayOf(t) \in Nat
      BY <1>2, DaysAscend
    <3>2. t <= r => Frames!DayOf(t) <= Frames!DayOf(r)
      BY <1>2, DaysAscend
    <3>. QED  BY <1>2, <3>1, <3>2
  <2>3. \A d : d < Frames!DayOf(t) => (d \in Dates_(c) <=> d \in Dates_(e))
    BY <2>1, <2>2
  <2>4. Dates_(c) \subseteq Nat
    BY <2>1, <2>2
  <2>. HIDE DEF Dates_
  <2>5. \A d : {i \in Dates_(c) : d < i /\ i < Frames!DayOf(t)} =
               {i \in Dates_(e) : d < i /\ i < Frames!DayOf(t)}
    BY <2>3
  <2>6. Before(c, t) = Before(e, t)
    BY <2>3, <2>5
  <2>7. \A d \in Before(c, t) : /\ (d * DayLen) + (t % DayLen) \in Nat
                                /\ (d * DayLen) + (t % DayLen) <= T
    <3>. TAKE d \in Before(c, t)
    <3>1. d \in Nat /\ d < Frames!DayOf(t)
      BY <2>4
    <3>2. Frames!DayOf(t) \in Nat /\ t % DayLen \in 0 .. DayLen - 1
          /\ t = Frames!DayOf(t) * DayLen + (t % DayLen)
      BY <1>2, DaysAscend
    <3>3. d * DayLen + DayLen <= Frames!DayOf(t) * DayLen /\ d * DayLen \in Nat
          /\ Frames!DayOf(t) * DayLen \in Nat
      BY <3>1, <3>2, EarlierDays
    <3>4. DayLen \in Nat
      BY Clocks
    <3>5. t % DayLen \in Nat
      BY <3>2, <3>4
    <3>. QED  BY <1>2, <3>2, <3>3, <3>4, <3>5
  <2>. HIDE DEF Before
  <2>8. \A d \in Before(c, t) : Frames!At(Frames!SessionSoFar(c), (d * DayLen) + (t % DayLen)) =
                                Frames!At(Frames!SessionSoFar(e), (d * DayLen) + (t % DayLen))
    BY <1>1, <2>7, RowsAlike
  <2>9. Baseline(c, t) = Baseline(e, t)
    BY <2>6, <2>8
  <2>10. Frames!SessionSoFar(c)[t] = Frames!SessionSoFar(e)[t]
    BY <1>1, <1>2, RowsKept DEF Alike
  <2>. HIDE DEF Baseline
  <2>. QED  BY <2>6, <2>9, <2>10
<1>3. \A f : Frames!Rvol(f) = [t \in DOMAIN f |-> Value(f, t)]
  BY DEF Frames!Rvol
<1>. HIDE DEF Value
<1>4. /\ \A t \in DOMAIN c : Frames!Rvol(c)[t] = Value(c, t)
      /\ \A t \in DOMAIN e : Frames!Rvol(e)[t] = Value(e, t)
  BY <1>3
<1>5. \A t \in DOMAIN c : t \in DOMAIN e /\ t \in Nat /\ t <= T =>
        Frames!Rvol(c)[t] = Frames!Rvol(e)[t]
  BY <1>2, <1>4
<1>. QED  BY <1>5, AlikeByRow, RowsKept

LEMMA VolumeRatioAlike ==
  ASSUME NEW T \in Nat, NEW c, NEW e, Alike(c, e, T)
  PROVE  Alike(Frames!VolumeRatio(c), Frames!VolumeRatio(e), T)
<1>1. Alike(Frames!Shift(c, 1), Frames!Shift(e, 1), T)
  BY ShiftAlike
<1>2. Alike(Frames!Rolling(Frames!Shift(c, 1), Window), Frames!Rolling(Frames!Shift(e, 1), Window), T)
  BY <1>1, RollingAlike
<1>3. AlikeSets({Frames!Rolling(Frames!Shift(c, 1), Window)},
                {Frames!Rolling(Frames!Shift(e, 1), Window)}, T)
  BY <1>2 DEF AlikeSets
<1>. QED  BY <1>3, ArithAlike DEF Frames!VolumeRatio

LEMMA ChopRatioAlike ==
  ASSUME NEW T \in Nat, NEW c, NEW e, Alike(c, e, T)
  PROVE  Alike(Frames!ChopRatio(c), Frames!ChopRatio(e), T)
<1>1. Alike(Frames!Change(c, 1), Frames!Change(e, 1), T)
  BY ChangeAlike
<1>. QED  BY <1>1, RollingAlike DEF Frames!ChopRatio

LEMMA RecursiveFlagAlike ==
  ASSUME NEW T \in Nat, NEW c, NEW e, Alike(c, e, T), NEW d, NEW g, Alike(d, g, T)
  PROVE  /\ Alike(Frames!StackedCount(c, d), Frames!StackedCount(e, g), T)
         /\ Alike(Frames!HaContinuation(c, d), Frames!HaContinuation(e, g), T)
<1>1. AlikeSets({d}, {g}, T)
  BY DEF AlikeSets
<1>2. Alike(Frames!Flag(c, {d}), Frames!Flag(e, {g}), T)
  BY <1>1, ArithAlike
<1>3. Alike(Frames!Recursive(Frames!Flag(c, {d})), Frames!Recursive(Frames!Flag(e, {g})), T)
  BY <1>2, RecursiveAlike
<1>. QED  BY <1>3 DEF Frames!StackedCount, Frames!HaContinuation

LEMMA LaguerreRsiAlike ==
  ASSUME NEW T \in Nat, NEW c, NEW e, Alike(c, e, T)
  PROVE  Alike(Frames!LaguerreRsi(c), Frames!LaguerreRsi(e), T)
BY RecursiveAlike DEF Frames!LaguerreRsi

LEMMA OneCandleWonderAlike ==
  ASSUME NEW T \in Nat, NEW c, NEW e, Alike(c, e, T)
  PROVE  Alike(Frames!OneCandleWonder(c), Frames!OneCandleWonder(e), T)
<1>1. Window \in Nat
  BY Clocks
<1>2. /\ Alike(Frames!Change(c, 1), Frames!Change(e, 1), T)
      /\ Alike(Frames!Change(c, Window), Frames!Change(e, Window), T)
  BY <1>1, ChangeAlike
<1>3. Alike(Frames!Rolling(Frames!Change(c, 1), Window), Frames!Rolling(Frames!Change(e, 1), Window), T)
  BY <1>2, RollingAlike
<1>4. AlikeSets({Frames!Rolling(Frames!Change(c, 1), Window), Frames!Change(c, Window)},
                {Frames!Rolling(Frames!Change(e, 1), Window), Frames!Change(e, Window)}, T)
  BY <1>2, <1>3 DEF AlikeSets
<1>. QED  BY <1>4, ArithAlike DEF Frames!OneCandleWonder

LEMMA SmaStackAlike ==
  ASSUME NEW T \in Nat, NEW c, NEW e, Alike(c, e, T)
  PROVE  Alike(Frames!SmaStack(c), Frames!SmaStack(e), T)
<1>1. /\ Alike(Frames!Sma(c, Window), Frames!Sma(e, Window), T)
      /\ Alike(Frames!Sma(c, Long), Frames!Sma(e, Long), T)
  BY RollingAlike DEF Frames!Sma
<1>2. AlikeSets({Frames!Sma(c, Window), Frames!Sma(c, Long)},
                {Frames!Sma(e, Window), Frames!Sma(e, Long)}, T)
  BY <1>1 DEF AlikeSets
<1>. QED  BY <1>2, ArithAlike DEF Frames!SmaStack

\* A pivot that is confirmed by a row is confirmed by it in a longer frame too, and read
\* off the same rows.
LEMMA PivotStands ==
  ASSUME NEW T \in Nat, NEW c, NEW e, Alike(c, e, T), NEW t \in DOMAIN c, t <= T,
         NEW j \in Frames!Confirmed(c, t)
  PROVE  /\ j \in Frames!Confirmed(e, t) /\ Frames!Pos(c, j) = Frames!Pos(e, j)
         /\ Frames!PivotReads(c, j) = Frames!PivotReads(e, j)
<1>1. /\ DOMAIN c \subseteq Nat /\ DOMAIN e \subseteq Nat /\ t \in Nat /\ t \in DOMAIN e
      /\ IsFiniteSet(DOMAIN e)
  BY DEF Alike
<1>2. /\ j \in DOMAIN c /\ j \in Nat /\ Frames!Pos(c, j) > Strength
      /\ Frames!Pos(c, j) + Strength <= Frames!Pos(c, t)
  BY <1>1 DEF Frames!Confirmed, Frames!Pivots
<1>3. /\ Frames!Pos(c, j) \in Nat /\ Frames!Pos(c, t) \in Nat
      /\ Strength \in Nat /\ Strength > 0
  BY <1>1, <1>2, Positions, Clocks
<1>4. j <= t /\ j <= T
  <2>1. ~(t < j)
    BY <1>1, <1>2, <1>3, PositionsAscend
  <2>2. T \in Nat
    OBVIOUS
  <2>. QED  BY <1>1, <1>2, <2>1, <2>2
<1>5. /\ j \in DOMAIN e /\ Frames!Pos(e, j) = Frames!Pos(c, j)
      /\ Frames!Pos(e, t) = Frames!Pos(c, t)
  <2>1. j \in DOMAIN e
    BY <1>2, <1>4 DEF Alike
  <2>. QED  BY <1>1, <1>2, <1>4, <2>1, RowsAlike
<1>6. Frames!Pos(e, t) <= Frames!Cardinality(DOMAIN e) /\ Frames!Cardinality(DOMAIN e) \in Nat
  <2>1. Frames!Pos(e, t) = Cardinality(Frames!Upto(e, t)) /\ Frames!Upto(e, t) \subseteq DOMAIN e
    BY <1>1, Positions DEF Frames!Upto
  <2>2. Cardinality(Frames!Upto(e, t)) <= Cardinality(DOMAIN e) /\ Cardinality(DOMAIN e) \in Nat
    BY <1>1, <2>1, FS_Subset, FS_CardinalityType
  <2>. QED  BY <2>1, <2>2, FramesCount
<1>7. j \in Frames!Confirmed(e, t)
  BY <1>2, <1>3, <1>5, <1>6 DEF Frames!Confirmed, Frames!Pivots
<1>8. c[Frames!RowAt(c, Frames!Pos(c, j) + Strength)] = e[Frames!RowAt(e, Frames!Pos(c, j) + Strength)]
  <2>1. Frames!Pos(c, j) + Strength \in Nat /\ 1 <= Frames!Pos(c, j) + Strength
    BY <1>3
  <2>. QED  BY <1>2, <2>1, RowAtAlike
<1>. QED  BY <1>5, <1>7, <1>8 DEF Frames!PivotReads

LEMMA PivotsAlike ==
  ASSUME NEW T \in Nat, NEW c, NEW e, Alike(c, e, T), NEW t \in DOMAIN c, t <= T
  PROVE  /\ Frames!Confirmed(c, t) = Frames!Confirmed(e, t)
         /\ \A j \in Frames!Confirmed(c, t) : /\ Frames!Pos(c, j) = Frames!Pos(e, j)
                                              /\ Frames!PivotReads(c, j) = Frames!PivotReads(e, j)
<1>1. t \in DOMAIN e /\ Alike(e, c, T)
  BY AlikeIsSymmetric DEF Alike
<1>2. \A j \in Frames!Confirmed(c, t) : /\ j \in Frames!Confirmed(e, t)
                                        /\ Frames!Pos(c, j) = Frames!Pos(e, j)
                                        /\ Frames!PivotReads(c, j) = Frames!PivotReads(e, j)
  BY PivotStands
<1>3. \A j \in Frames!Confirmed(e, t) : j \in Frames!Confirmed(c, t)
  BY <1>1, PivotStands
<1>. QED  BY <1>2, <1>3

LEMMA TrendlineAlike ==
  ASSUME NEW T \in Nat, NEW c, NEW e, Alike(c, e, T)
  PROVE  Alike(Frames!Trendline(c), Frames!Trendline(e), T)
<1>1. ASSUME NEW t \in DOMAIN c, t \in DOMAIN e, t \in Nat, t <= T
      PROVE  Frames!Trendline(c)[t] = Frames!Trendline(e)[t]
  <2>. DEFINE S == Frames!Confirmed(c, t)
  <2>1. /\ S = Frames!Confirmed(e, t)
        /\ \A j \in S : /\ Frames!Pos(c, j) = Frames!Pos(e, j)
                        /\ Frames!PivotReads(c, j) = Frames!PivotReads(e, j)
    BY <1>1, PivotsAlike
  <2>. DEFINE Apart(f) == \E i, j \in S : Frames!Pos(f, j) - Frames!Pos(f, i) >= MinGap
              Reads(f) == {Frames!PivotReads(f, j) : j \in S}
  <2>2. /\ Frames!Trendline(c)[t] = IF Apart(c) THEN Frames!AnyOf(Reads(c)) ELSE Frames!NaN
        /\ Frames!Trendline(e)[t] = IF Apart(e) THEN Frames!AnyOf(Reads(e)) ELSE Frames!NaN
    BY <1>1, <2>1 DEF Frames!Trendline
  <2>. HIDE DEF S
  <2>3. Reads(c) = Reads(e) /\ (Apart(c) <=> Apart(e))
    BY <2>1
  <2>. HIDE DEF Apart, Reads
  <2>. QED  BY <2>2, <2>3
<1>. QED  BY <1>1, AlikeByRow, RowsKept

LEMMA FreshBreachAlike ==
  ASSUME NEW T \in Nat, NEW c, NEW e, NEW line, NEW mine, NEW atr, NEW btr,
         Alike(c, e, T), Alike(line, mine, T), Alike(atr, btr, T),
         Covers(c, e, line, mine)
  PROVE  Alike(Frames!FreshBreach(c, line, atr), Frames!FreshBreach(e, mine, btr), T)
<1>. DEFINE x == Frames!Where(Frames!Flag(c, {line, atr}), Frames!Arith(line, {atr}))
            y == Frames!Where(Frames!Flag(e, {mine, btr}), Frames!Arith(mine, {btr}))
<1>1. AlikeSets({line, atr}, {mine, btr}, T) /\ AlikeSets({atr}, {btr}, T)
  BY DEF AlikeSets
<1>2. /\ Alike(Frames!Flag(c, {line, atr}), Frames!Flag(e, {mine, btr}), T)
      /\ Alike(Frames!Arith(line, {atr}), Frames!Arith(mine, {btr}), T)
  BY <1>1, ArithAlike
<1>3. Covers(Frames!Flag(c, {line, atr}), Frames!Flag(e, {mine, btr}),
             Frames!Arith(line, {atr}), Frames!Arith(mine, {btr}))
  BY RowsKept DEF Covers
<1>4. Alike(x, y, T)
  BY <1>2, <1>3, WhereAlike
<1>. HIDE DEF x, y
<1>5. AlikeSets({Frames!Shift(x, 1)}, {Frames!Shift(y, 1)}, T)
  BY <1>4, ShiftAlike DEF AlikeSets
<1>6. Alike(Frames!Flag(x, {Frames!Shift(x, 1)}), Frames!Flag(y, {Frames!Shift(y, 1)}), T)
  BY <1>4, <1>5, ArithAlike
<1>7. Covers(Frames!Flag(x, {Frames!Shift(x, 1)}), Frames!Flag(y, {Frames!Shift(y, 1)}), x, y)
  BY RowsKept DEF Covers
<1>8. Alike(Frames!Where(Frames!Flag(x, {Frames!Shift(x, 1)}), x),
            Frames!Where(Frames!Flag(y, {Frames!Shift(y, 1)}), y), T)
  BY <1>4, <1>6, <1>7, WhereAlike
<1>. QED  BY <1>8 DEF Frames!FreshBreach, x, y

LEMMA HeadroomAlike ==
  ASSUME NEW T \in Nat, NEW c, NEW e, NEW atr, NEW btr, Alike(c, e, T), Alike(atr, btr, T),
         Covers(c, e, atr, btr)
  PROVE  Alike(Frames!Headroom(c, atr), Frames!Headroom(e, btr), T)
<1>. DEFINE Recent(f, t) == {p \in Frames!Confirmed(f, t) :
                               Frames!Pos(f, t) - Frames!Pos(f, p) <= Long}
            Swing(f) == [t \in DOMAIN f |->
                           Frames!AnyOf({Frames!PivotReads(f, j) : j \in Recent(f, t)})]
            Others(f) == {Frames!Sma(f, Window), Frames!Sma(f, Long), Swing(f)}
<1>1. ASSUME NEW t \in DOMAIN c, t \in DOMAIN e, t \in Nat, t <= T
      PROVE  Swing(c)[t] = Swing(e)[t]
  <2>1. /\ Frames!Confirmed(c, t) = Frames!Confirmed(e, t)
        /\ \A j \in Frames!Confirmed(c, t) : /\ Frames!Pos(c, j) = Frames!Pos(e, j)
                                             /\ Frames!PivotReads(c, j) = Frames!PivotReads(e, j)
        /\ Frames!Pos(c, t) = Frames!Pos(e, t)
    BY <1>1, PivotsAlike, RowsAlike
  <2>2. Recent(c, t) = Recent(e, t) /\ Recent(c, t) \subseteq Frames!Confirmed(c, t)
    BY <2>1
  <2>3. /\ Swing(c)[t] = Frames!AnyOf({Frames!PivotReads(c, j) : j \in Recent(c, t)})
        /\ Swing(e)[t] = Frames!AnyOf({Frames!PivotReads(e, j) : j \in Recent(e, t)})
    BY <1>1
  <2>. HIDE DEF Recent, Swing
  <2>4. {Frames!PivotReads(c, j) : j \in Recent(c, t)} = {Frames!PivotReads(e, j) : j \in Recent(c, t)}
    BY <2>1, <2>2
  <2>. QED  BY <2>2, <2>3, <2>4
<1>2. DOMAIN Swing(c) = DOMAIN c /\ DOMAIN Swing(e) = DOMAIN e
  OBVIOUS
<1>3. \A f : Frames!Headroom(f, atr) = Frames!Where(Frames!Flag(Frames!RollingAny(f, Long), Others(f)), atr)
  BY DEF Frames!Headroom
<1>4. \A f : Frames!Headroom(f, btr) = Frames!Where(Frames!Flag(Frames!RollingAny(f, Long), Others(f)), btr)
  BY DEF Frames!Headroom
<1>. HIDE DEF Swing
<1>5. Alike(Swing(c), Swing(e), T)
  BY <1>1, <1>2, AlikeByRow
<1>6. /\ Alike(Frames!Sma(c, Window), Frames!Sma(e, Window), T)
      /\ Alike(Frames!Sma(c, Long), Frames!Sma(e, Long), T)
      /\ Alike(Frames!RollingAny(c, Long), Frames!RollingAny(e, Long), T)
  BY RollingAlike DEF Frames!Sma
<1>7. AlikeSets(Others(c), Others(e), T)
  BY <1>5, <1>6 DEF AlikeSets
<1>. HIDE DEF Others
<1>8. Alike(Frames!Flag(Frames!RollingAny(c, Long), Others(c)),
            Frames!Flag(Frames!RollingAny(e, Long), Others(e)), T)
  BY <1>6, <1>7, ArithAlike
<1>9. Covers(Frames!Flag(Frames!RollingAny(c, Long), Others(c)),
             Frames!Flag(Frames!RollingAny(e, Long), Others(e)), atr, btr)
  BY RowsKept DEF Covers
<1>. QED  BY <1>3, <1>4, <1>8, <1>9, WhereAlike

LEMMA RegimeAlike ==
  ASSUME NEW T \in Nat, NEW c, NEW e, Alike(c, e, T)
  PROVE  Alike(Frames!Regime(c), Frames!Regime(e), T)
<1>1. /\ Alike(Frames!Sma(c, Long), Frames!Sma(e, Long), T)
      /\ Alike(Frames!Rolling(c, Window), Frames!Rolling(e, Window), T)
  BY RollingAlike DEF Frames!Sma
<1>2. Alike(Frames!Change(Frames!Sma(c, Long), 1), Frames!Change(Frames!Sma(e, Long), 1), T)
  BY <1>1, ChangeAlike
<1>3. AlikeSets({Frames!Change(Frames!Sma(c, Long), 1)}, {Frames!Change(Frames!Sma(e, Long), 1)}, T)
  BY <1>2 DEF AlikeSets
<1>. QED  BY <1>1, <1>3, ArithAlike DEF Frames!Regime

AlikeFrames(f, g, T) == /\ DOMAIN f = DOMAIN g
                        /\ \A col \in DOMAIN f : Alike(f[col], g[col], T)

LEMMA ImageIsFinite ==
  ASSUME NEW S, IsFiniteSet(S), NEW R, NEW f \in [S -> R], \A y \in R : \E x \in S : f[x] = y
  PROVE  IsFiniteSet(R)
<1>1. f \in Surjection(S, R)
  BY DEF Surjection
<1>. QED  BY <1>1, FS_Surjection

\* A bucket that has ended by T holds the same bars in a longer frame.
LEMMA ResampleAlike ==
  ASSUME NEW T \in Nat, NEW c, NEW e, Alike(c, e, T), NEW len \in Nat \ {0},
         NEW closed \in {"left", "right"}
  PROVE  Alike(Frames!Resample(c, len, closed), Frames!Resample(e, len, closed), T)
<1>. DEFINE Ends(f) == {Frames!Edge(r, len, closed) : r \in DOMAIN f}
            In(f, b) == {q \in DOMAIN f : Frames!Edge(q, len, closed) = b}
<1>1. /\ DOMAIN c \subseteq Nat /\ DOMAIN e \subseteq Nat
      /\ \A r \in Nat : r <= T => (r \in DOMAIN c <=> r \in DOMAIN e)
      /\ \A r \in Nat : r <= T /\ r \in DOMAIN c => c[r] = e[r]
  BY DEF Alike
<1>2. \A r \in Nat : /\ Frames!Edge(r, len, closed) \in Nat
                     /\ r <= Frames!Edge(r, len, closed)
  BY Edges
<1>3. /\ DOMAIN Frames!Resample(c, len, closed) = Ends(c)
      /\ DOMAIN Frames!Resample(e, len, closed) = Ends(e)
      /\ \A b \in Ends(c) : Frames!Resample(c, len, closed)[b] = Frames!AnyOf({c[r] : r \in In(c, b)})
      /\ \A b \in Ends(e) : Frames!Resample(e, len, closed)[b] = Frames!AnyOf({e[r] : r \in In(e, b)})
  BY DEF Frames!Resample
<1>4. Ends(c) \subseteq Nat /\ Ends(e) \subseteq Nat
  BY <1>1, <1>2
<1>5. IsFiniteSet(Ends(c)) /\ IsFiniteSet(Ends(e))
  <2>. DEFINE End(f) == [r \in DOMAIN f |-> Frames!Edge(r, len, closed)]
  <2>1. /\ End(c) \in [DOMAIN c -> Ends(c)] /\ \A y \in Ends(c) : \E x \in DOMAIN c : End(c)[x] = y
        /\ End(e) \in [DOMAIN e -> Ends(e)] /\ \A y \in Ends(e) : \E x \in DOMAIN e : End(e)[x] = y
    OBVIOUS
  <2>2. IsFiniteSet(DOMAIN c) /\ IsFiniteSet(DOMAIN e)
    BY DEF Alike
  <2>. HIDE DEF End, Ends
  <2>. QED  BY <2>1, <2>2, ImageIsFinite
<1>6. ASSUME NEW b \in Nat, b <= T
      PROVE  /\ In(c, b) = In(e, b) /\ (b \in Ends(c) <=> b \in Ends(e))
             /\ \A r \in In(c, b) : c[r] = e[r]
  <2>1. \A r \in Nat : Frames!Edge(r, len, closed) = b => r <= T
    BY <1>2, <1>6
  <2>. QED  BY <1>1, <2>1
<1>. HIDE DEF Ends, In
<1>7. ASSUME NEW b \in Nat, b <= T, b \in Ends(c)
      PROVE  Frames!Resample(c, len, closed)[b] = Frames!Resample(e, len, closed)[b]
  <2>1. In(c, b) = In(e, b) /\ b \in Ends(e) /\ \A r \in In(c, b) : c[r] = e[r]
    BY <1>6, <1>7
  <2>2. {c[r] : r \in In(c, b)} = {e[r] : r \in In(c, b)}
    BY <2>1
  <2>. QED  BY <1>3, <1>7, <2>1, <2>2
<1>8. \A b \in Nat : b <= T => (b \in Ends(c) <=> b \in Ends(e))
  BY <1>6
<1>. DEFINE x == Frames!Resample(c, len, closed)
            y == Frames!Resample(e, len, closed)
<1>9. DOMAIN x = Ends(c) /\ DOMAIN y = Ends(e)
      /\ \A b \in Nat : b <= T => (b \in Ends(c) => x[b] = y[b])
  BY <1>3, <1>7
<1>. HIDE DEF x, y
<1>10. Alike(x, y, T)
  BY <1>4, <1>5, <1>8, <1>9 DEF Alike
<1>. QED  BY <1>10 DEF x, y

LEMMA CloseLabelAlike ==
  ASSUME NEW T \in Nat, NEW c, NEW e, Alike(c, e, T)
  PROVE  Alike(Frames!CloseLabel(c), Frames!CloseLabel(e), T)
<1>. DEFINE Ends(f) == {r + 1 : r \in DOMAIN f}
<1>1. /\ DOMAIN Frames!CloseLabel(c) = Ends(c) /\ DOMAIN Frames!CloseLabel(e) = Ends(e)
      /\ \A t \in Ends(c) : Frames!CloseLabel(c)[t] = c[t - 1]
      /\ \A t \in Ends(e) : Frames!CloseLabel(e)[t] = e[t - 1]
  BY DEF Frames!CloseLabel
<1>2. /\ DOMAIN c \subseteq Nat /\ DOMAIN e \subseteq Nat
      /\ \A r \in Nat : r <= T => (r \in DOMAIN c <=> r \in DOMAIN e)
      /\ \A r \in Nat : r <= T /\ r \in DOMAIN c => c[r] = e[r]
  BY DEF Alike
<1>3. IsFiniteSet(Ends(c)) /\ IsFiniteSet(Ends(e))
  <2>. DEFINE End(f) == [r \in DOMAIN f |-> r + 1]
  <2>1. /\ End(c) \in [DOMAIN c -> Ends(c)] /\ \A y \in Ends(c) : \E x \in DOMAIN c : End(c)[x] = y
        /\ End(e) \in [DOMAIN e -> Ends(e)] /\ \A y \in Ends(e) : \E x \in DOMAIN e : End(e)[x] = y
    OBVIOUS
  <2>2. IsFiniteSet(DOMAIN c) /\ IsFiniteSet(DOMAIN e)
    BY DEF Alike
  <2>. HIDE DEF End, Ends
  <2>. QED  BY <2>1, <2>2, ImageIsFinite
<1>4. \A f : DOMAIN f \subseteq Nat =>
        \A t : t \in Ends(f) <=> t - 1 \in DOMAIN f /\ t \in Nat /\ t - 1 \in Nat /\ t = (t - 1) + 1
  <2>. SUFFICES ASSUME NEW f, DOMAIN f \subseteq Nat, NEW t
                PROVE  t \in Ends(f) <=> t - 1 \in DOMAIN f /\ t \in Nat /\ t - 1 \in Nat /\ t = (t - 1) + 1
    OBVIOUS
  <2>1. ASSUME t \in Ends(f)
        PROVE  t - 1 \in DOMAIN f /\ t \in Nat /\ t - 1 \in Nat /\ t = (t - 1) + 1
    <3>1. PICK r \in DOMAIN f : t = r + 1
      BY <2>1
    <3>2. r \in Nat /\ t - 1 = r
      BY <3>1
    <3>. QED  BY <3>1, <3>2
  <2>. QED  BY <2>1
<1>5. Ends(c) \subseteq Nat /\ Ends(e) \subseteq Nat
  BY <1>2
<1>6. ASSUME NEW t \in Nat, t <= T
      PROVE  /\ t \in Ends(c) <=> t \in Ends(e)
             /\ t \in Ends(c) => c[t - 1] = e[t - 1]
  <2>1. t - 1 \in Nat => t - 1 <= T
    BY <1>6
  <2>. HIDE DEF Ends
  <2>. QED  BY <1>2, <1>4, <1>6, <2>1
<1>. HIDE DEF Ends
<1>. QED  BY <1>1, <1>3, <1>5, <1>6 DEF Alike

LEMMA HourAtrAlike ==
  ASSUME NEW T \in Nat, NEW c, NEW e, Alike(c, e, T),
         NEW index, NEW jndex, index \subseteq Nat, jndex \subseteq Nat,
         IsFiniteSet(index), IsFiniteSet(jndex),
         \A r \in Nat : r <= T => (r \in index <=> r \in jndex)
  PROVE  Alike(Frames!HourAtr(c, index), Frames!HourAtr(e, jndex), T)
<1>1. Alike(Frames!Hours(c), Frames!Hours(e), T)
  BY ResampleAlike, Clocks DEF Frames!Hours
<1>2. Alike(Frames!Atr(Frames!Hours(c)), Frames!Atr(Frames!Hours(e)), T)
  BY <1>1, AtrAlike
<1>3. Alike(Frames!AlignCausal(Frames!Atr(Frames!Hours(c)), index),
            Frames!AlignCausal(Frames!Atr(Frames!Hours(e)), jndex), T)
  BY <1>2, AlignAlike
<1>. QED  BY <1>3 DEF Frames!HourAtr

LEMMA DailyFeaturesAlike ==
  ASSUME NEW T \in Nat, NEW c, NEW e, NEW b, NEW g, Alike(c, e, T), Alike(b, g, T)
  PROVE  AlikeFrames(Frames!DailyFeatures(c, b), Frames!DailyFeatures(e, g), T)
<1>. DEFINE RrsOf(x, y) == Frames!Rrs(x, Frames!Atr(x), y, Frames!Atr(y))
            Bench(x, y) == Frames!Reindex(Frames!Change(y, 1), DOMAIN x)
            F(x, y) == [atr_d1 |-> Frames!Atr(x),
                        rrs_d1 |-> Frames!Reindex(RrsOf(x, y), DOMAIN x),
                        rolling_rrs_d1 |-> Frames!Reindex(Frames!RollingRrs(RrsOf(x, y)), DOMAIN x),
                        rrs_d1_std |-> Frames!Reindex(Frames!Rolling(RrsOf(x, y), Window), DOMAIN x),
                        ha_cont_d1 |-> Frames!HaContinuation(x, Frames!Atr(x)),
                        sma_stack |-> Frames!SmaStack(x),
                        headroom |-> Frames!Headroom(x, Frames!Atr(x)),
                        volume_ratio_d1 |-> Frames!VolumeRatio(x),
                        day_pc |-> Frames!Change(x, 1),
                        bench_day_pc |-> Bench(x, y),
                        close_d1 |-> x]
<1>0. \A x, y : Frames!DailyFeatures(x, y) = F(x, y)
  BY DEF Frames!DailyFeatures
<1>1. /\ DOMAIN c \subseteq Nat /\ DOMAIN e \subseteq Nat
      /\ IsFiniteSet(DOMAIN c) /\ IsFiniteSet(DOMAIN e)
      /\ \A r \in Nat : r <= T => (r \in DOMAIN c <=> r \in DOMAIN e)
  BY DEF Alike
<1>2. ASSUME NEW d, NEW h, Alike(d, h, T)
      PROVE  Alike(Frames!Reindex(d, DOMAIN c), Frames!Reindex(h, DOMAIN e), T)
  BY <1>1, <1>2, ReindexAlike
<1>3. Alike(Frames!Atr(c), Frames!Atr(e), T) /\ Alike(Frames!Atr(b), Frames!Atr(g), T)
  BY AtrAlike
<1>4. Alike(RrsOf(c, b), RrsOf(e, g), T)
  BY <1>3, RrsAlike
<1>. HIDE DEF RrsOf
<1>5. /\ Alike(Frames!RollingRrs(RrsOf(c, b)), Frames!RollingRrs(RrsOf(e, g)), T)
      /\ Alike(Frames!Rolling(RrsOf(c, b), Window), Frames!Rolling(RrsOf(e, g), Window), T)
  BY <1>4, RollingAlike DEF Frames!RollingRrs
<1>6. /\ Alike(Frames!Reindex(RrsOf(c, b), DOMAIN c), Frames!Reindex(RrsOf(e, g), DOMAIN e), T)
      /\ Alike(Frames!Reindex(Frames!RollingRrs(RrsOf(c, b)), DOMAIN c),
               Frames!Reindex(Frames!RollingRrs(RrsOf(e, g)), DOMAIN e), T)
      /\ Alike(Frames!Reindex(Frames!Rolling(RrsOf(c, b), Window), DOMAIN c),
               Frames!Reindex(Frames!Rolling(RrsOf(e, g), Window), DOMAIN e), T)
  BY <1>2, <1>4, <1>5
<1>7. /\ Alike(Frames!HaContinuation(c, Frames!Atr(c)), Frames!HaContinuation(e, Frames!Atr(e)), T)
      /\ Alike(Frames!SmaStack(c), Frames!SmaStack(e), T)
      /\ Alike(Frames!VolumeRatio(c), Frames!VolumeRatio(e), T)
  BY <1>3, RecursiveFlagAlike, SmaStackAlike, VolumeRatioAlike
<1>8. Alike(Frames!Headroom(c, Frames!Atr(c)), Frames!Headroom(e, Frames!Atr(e)), T)
  BY <1>3, HeadroomAlike, RowsKept DEF Covers
<1>9. Alike(Frames!Change(c, 1), Frames!Change(e, 1), T)
      /\ Alike(Frames!Change(b, 1), Frames!Change(g, 1), T)
  BY ChangeAlike
<1>10. Alike(Bench(c, b), Bench(e, g), T)
  BY <1>2, <1>9
<1>. HIDE DEF Bench
<1>11. AlikeFrames(F(c, b), F(e, g), T)
  BY <1>3, <1>6, <1>7, <1>8, <1>9, <1>10 DEF AlikeFrames
<1>. HIDE DEF F
<1>. QED  BY <1>0, <1>11

LEMMA BiasOfAlike ==
  ASSUME NEW T \in Nat, NEW c, NEW e, NEW raw, NEW saw, NEW stacked, NEW piled,
         Alike(c, e, T), Alike(raw, saw, T), Alike(stacked, piled, T)
  PROVE  /\ AlikeFrames(Frames!BiasOf(c, raw, stacked), Frames!BiasOf(e, saw, piled), T)
         /\ \A col \in DOMAIN Frames!BiasOf(c, raw, stacked) :
              DOMAIN Frames!BiasOf(c, raw, stacked)[col] = DOMAIN raw
<1>. DEFINE Smoothed(x) == Frames!Where(Frames!Recursive(x), x)
            Bias(x) == Smoothed(Smoothed(x))
            Breach(x) == Frames!FreshBreach(x, Frames!Trendline(x), Frames!Atr(x))
            Fired(x, y) == Frames!Flag(Bias(y), {Frames!Shift(Bias(y), 1), Breach(x),
                                                 Frames!Trendline(x)})
            TurnedBy(y, z) == Frames!Flag(Bias(y), {Frames!Shift(Bias(y), 1), z})
            F(x, y, z) == [raw_score |-> y, smoothed_score |-> Smoothed(y), bias |-> Bias(y),
                           trigger |-> Fired(x, y), flip_flatten |-> TurnedBy(y, z)]
<1>0. \A x, y, z : Frames!BiasOf(x, y, z) = F(x, y, z)
  BY DEF Frames!BiasOf
<1>1. ASSUME NEW x, NEW y, Alike(x, y, T) PROVE Alike(Smoothed(x), Smoothed(y), T)
  <2>1. Alike(Frames!Recursive(x), Frames!Recursive(y), T)
    BY <1>1, RecursiveAlike
  <2>2. Covers(Frames!Recursive(x), Frames!Recursive(y), x, y)
    BY RowsKept DEF Covers
  <2>. QED  BY <1>1, <2>1, <2>2, WhereAlike
<1>2. \A x : DOMAIN Smoothed(x) = DOMAIN x
  BY RowsKept
<1>. HIDE DEF Smoothed
<1>3. Alike(Smoothed(raw), Smoothed(saw), T) /\ Alike(Bias(raw), Bias(saw), T)
  BY <1>1
<1>4. DOMAIN Bias(raw) = DOMAIN raw
  BY <1>2
<1>. HIDE DEF Bias
<1>5. Alike(Frames!Trendline(c), Frames!Trendline(e), T) /\ Alike(Frames!Atr(c), Frames!Atr(e), T)
  BY TrendlineAlike, AtrAlike
<1>6. Alike(Breach(c), Breach(e), T)
  BY <1>5, FreshBreachAlike, RowsKept DEF Covers
<1>. HIDE DEF Breach
<1>7. Alike(Frames!Shift(Bias(raw), 1), Frames!Shift(Bias(saw), 1), T)
  BY <1>3, ShiftAlike
<1>8. /\ AlikeSets({Frames!Shift(Bias(raw), 1), Breach(c), Frames!Trendline(c)},
                   {Frames!Shift(Bias(saw), 1), Breach(e), Frames!Trendline(e)}, T)
      /\ AlikeSets({Frames!Shift(Bias(raw), 1), stacked}, {Frames!Shift(Bias(saw), 1), piled}, T)
  BY <1>5, <1>6, <1>7 DEF AlikeSets
<1>9. Alike(Fired(c, raw), Fired(e, saw), T) /\ Alike(TurnedBy(raw, stacked), TurnedBy(saw, piled), T)
  BY <1>3, <1>8, ArithAlike
<1>10. DOMAIN Fired(c, raw) = DOMAIN raw /\ DOMAIN TurnedBy(raw, stacked) = DOMAIN raw
  BY <1>4, RowsKept
<1>. HIDE DEF Fired, TurnedBy
<1>11. AlikeFrames(F(c, raw, stacked), F(e, saw, piled), T)
  BY <1>3, <1>9 DEF AlikeFrames
<1>12. \A col \in DOMAIN F(c, raw, stacked) : DOMAIN F(c, raw, stacked)[col] = DOMAIN raw
  BY <1>2, <1>4, <1>10
<1>. HIDE DEF F
<1>. QED  BY <1>0, <1>11, <1>12

\* Two warehouses that agree up to T, in the frames made of them.
StoredAlike(m1, n1, m5, n5, d1, e1, T) ==
  \A s \in Frames!Symbols : /\ Alike(m1[s], n1[s], T) /\ Alike(m5[s], n5[s], T)
                            /\ Alike(d1[s], e1[s], T)

LEMMA IndexAlike ==
  ASSUME NEW T, NEW c, NEW e, Alike(c, e, T)
  PROVE  /\ DOMAIN c \subseteq Nat /\ DOMAIN e \subseteq Nat
         /\ IsFiniteSet(DOMAIN c) /\ IsFiniteSet(DOMAIN e)
         /\ \A r \in Nat : r <= T => (r \in DOMAIN c <=> r \in DOMAIN e)
BY DEF Alike

LEMMA OwnVwapAlike ==
  ASSUME NEW T \in Nat, NEW c, NEW e, Alike(c, e, T), NEW x, NEW y, Alike(x, y, T)
  PROVE  Alike(Frames!AlignCausal(Frames!CloseLabel(Frames!Vwap(c)), DOMAIN x),
               Frames!AlignCausal(Frames!CloseLabel(Frames!Vwap(e)), DOMAIN y), T)
<1>1. Alike(Frames!CloseLabel(Frames!Vwap(c)), Frames!CloseLabel(Frames!Vwap(e)), T)
  BY VwapAlike, CloseLabelAlike
<1>. QED  BY <1>1, IndexAlike, AlignAlike

LEMMA FeaturesAlike ==
  ASSUME NEW T \in Nat, NEW m1, NEW n1, NEW m5, NEW n5, NEW d1, NEW e1,
         StoredAlike(m1, n1, m5, n5, d1, e1, T)
  PROVE  AlikeFrames(Frames!Features(m1, m5, d1), Frames!Features(n1, n5, e1), T)
<1>. DEFINE Daily(xd) == Frames!DailyFeatures(xd["stock"], xd["spy"])
            Aligned(x5, xd) == [col \in DOMAIN Daily(xd) |->
                                  Frames!AlignDaily(Daily(xd)[col], DOMAIN x5["stock"])]
            Spy(x5) == Frames!Reindex(x5["spy"], DOMAIN x5["stock"])
            Qqq(x5) == Frames!Reindex(x5["qqq"], DOMAIN x5["stock"])
            Hour(x5) == [s \in Frames!Symbols |-> Frames!HourAtr(x5[s], DOMAIN x5["stock"])]
            RrsSpy(x5) == Frames!Rrs(x5["stock"], Hour(x5)["stock"], Spy(x5), Hour(x5)["spy"])
            RrsQqq(x5) == Frames!Rrs(x5["stock"], Hour(x5)["stock"], Qqq(x5), Hour(x5)["qqq"])
            OwnVwap(x1, x5) == Frames!AlignCausal(Frames!CloseLabel(Frames!Vwap(x1["stock"])),
                                                  DOMAIN x5["stock"])
            OwnRvol(x1, x5) == Frames!AlignCausal(Frames!CloseLabel(Frames!Rvol(x1["stock"])),
                                                  DOMAIN x5["stock"])
            RollSpy(x5) == Frames!RollingRrs(RrsSpy(x5))
            RollQqq(x5) == Frames!RollingRrs(RrsQqq(x5))
            Power(x5) == Frames!Arith(Frames!Change(Spy(x5), Window), {Hour(x5)["spy"]})
            Lrsi(x5) == Frames!LaguerreRsi(x5["stock"])
            Wonder(x5) == Frames!OneCandleWonder(x5["stock"])
            Gap(x5, xd) == Frames!Arith(Frames!SessionFirst(x5["stock"]),
                                        {Aligned(x5, xd)["close_d1"]})
            F(x1, x5, xd) == [rrs_m5 |-> RrsSpy(x5), rolling_rrs_m5 |-> RollSpy(x5),
                  rrs_m5_qqq |-> RrsQqq(x5), rolling_rrs_m5_qqq |-> RollQqq(x5),
                  power_index_m5 |-> Power(x5),
                  hour_atr |-> Hour(x5)["stock"],
                  vwap_m5 |-> OwnVwap(x1, x5), rvol_m5 |-> OwnRvol(x1, x5),
                  lrsi_m5 |-> Lrsi(x5),
                  one_candle_wonder |-> Wonder(x5),
                  gap_pct |-> Gap(x5, xd),
                  close |-> x5["stock"],
                  prior_close |-> Aligned(x5, xd)["close_d1"],
                  rolling_rrs_d1 |-> Aligned(x5, xd)["rolling_rrs_d1"],
                  ha_cont_d1 |-> Aligned(x5, xd)["ha_cont_d1"],
                  sma_stack |-> Aligned(x5, xd)["sma_stack"],
                  headroom |-> Aligned(x5, xd)["headroom"],
                  volume_ratio_d1 |-> Aligned(x5, xd)["volume_ratio_d1"]]
<1>0. /\ Frames!Features(m1, m5, d1) = F(m1, m5, d1)
      /\ Frames!Features(n1, n5, e1) = F(n1, n5, e1)
  BY DEF Frames!Features
<1>1. /\ Alike(m1["stock"], n1["stock"], T) /\ Alike(m5["stock"], n5["stock"], T)
      /\ Alike(m5["spy"], n5["spy"], T) /\ Alike(m5["qqq"], n5["qqq"], T)
      /\ Alike(d1["stock"], e1["stock"], T) /\ Alike(d1["spy"], e1["spy"], T)
  BY DEF StoredAlike, Frames!Symbols
<1>. DEFINE index == DOMAIN m5["stock"]
            jndex == DOMAIN n5["stock"]
<1>2. /\ index \subseteq Nat /\ jndex \subseteq Nat /\ IsFiniteSet(index) /\ IsFiniteSet(jndex)
      /\ \A r \in Nat : r <= T => (r \in index <=> r \in jndex)
  BY <1>1, IndexAlike
<1>3. AlikeFrames(Daily(d1), Daily(e1), T)
  BY <1>1, DailyFeaturesAlike
<1>4. {"close_d1", "rolling_rrs_d1", "ha_cont_d1", "sma_stack", "headroom",
       "volume_ratio_d1"} \subseteq DOMAIN Daily(d1)
  BY DEF Frames!DailyFeatures
<1>. HIDE DEF Daily
<1>5. \A col \in DOMAIN Daily(d1) : Alike(Aligned(m5, d1)[col], Aligned(n5, e1)[col], T)
  <2>. TAKE col \in DOMAIN Daily(d1)
  <2>1. Alike(Daily(d1)[col], Daily(e1)[col], T) /\ col \in DOMAIN Daily(e1)
    BY <1>3 DEF AlikeFrames
  <2>2. Alike(Frames!AlignDaily(Daily(d1)[col], index), Frames!AlignDaily(Daily(e1)[col], jndex), T)
    <3>. HIDE DEF index, jndex
    <3>. QED  BY <1>2, <2>1, AlignDailyAlike
  <2>. QED  BY <2>1, <2>2
<1>. HIDE DEF Aligned
<1>6. /\ Alike(Aligned(m5, d1)["close_d1"], Aligned(n5, e1)["close_d1"], T)
      /\ Alike(Aligned(m5, d1)["rolling_rrs_d1"], Aligned(n5, e1)["rolling_rrs_d1"], T)
      /\ Alike(Aligned(m5, d1)["ha_cont_d1"], Aligned(n5, e1)["ha_cont_d1"], T)
      /\ Alike(Aligned(m5, d1)["sma_stack"], Aligned(n5, e1)["sma_stack"], T)
      /\ Alike(Aligned(m5, d1)["headroom"], Aligned(n5, e1)["headroom"], T)
      /\ Alike(Aligned(m5, d1)["volume_ratio_d1"], Aligned(n5, e1)["volume_ratio_d1"], T)
  BY <1>4, <1>5
<1>7. Alike(Spy(m5), Spy(n5), T) /\ Alike(Qqq(m5), Qqq(n5), T)
  BY <1>1, <1>2, ReindexAlike
<1>. HIDE DEF Spy, Qqq
<1>8. /\ Alike(Hour(m5)["stock"], Hour(n5)["stock"], T) /\ Alike(Hour(m5)["spy"], Hour(n5)["spy"], T)
      /\ Alike(Hour(m5)["qqq"], Hour(n5)["qqq"], T)
  <2>1. ASSUME NEW s \in Frames!Symbols PROVE Alike(Hour(m5)[s], Hour(n5)[s], T)
    <3>1. Alike(m5[s], n5[s], T)
      BY DEF StoredAlike
    <3>2. Alike(Frames!HourAtr(m5[s], index), Frames!HourAtr(n5[s], jndex), T)
      <4>. HIDE DEF index, jndex
      <4>. QED  BY <1>2, <3>1, HourAtrAlike
    <3>. QED  BY <3>2
  <2>. HIDE DEF Hour
  <2>. QED  BY <2>1 DEF Frames!Symbols
<1>. HIDE DEF Hour
<1>9. Alike(RrsSpy(m5), RrsSpy(n5), T) /\ Alike(RrsQqq(m5), RrsQqq(n5), T)
  BY <1>1, <1>7, <1>8, RrsAlike
<1>. HIDE DEF RrsSpy, RrsQqq
<1>10. Alike(RollSpy(m5), RollSpy(n5), T) /\ Alike(RollQqq(m5), RollQqq(n5), T)
  BY <1>9, RollingAlike DEF Frames!RollingRrs
<1>11. Alike(OwnVwap(m1, m5), OwnVwap(n1, n5), T)
  BY <1>1, OwnVwapAlike
<1>12. Alike(OwnRvol(m1, m5), OwnRvol(n1, n5), T)
  <2>1. Alike(Frames!CloseLabel(Frames!Rvol(m1["stock"])), Frames!CloseLabel(Frames!Rvol(n1["stock"])), T)
    BY <1>1, RvolAlike, CloseLabelAlike
  <2>. QED  BY <1>2, <2>1, AlignAlike
<1>13. Alike(Power(m5), Power(n5), T)
  <2>1. Alike(Frames!Change(Spy(m5), Window), Frames!Change(Spy(n5), Window), T)
    BY <1>7, ChangeAlike, Clocks
  <2>2. AlikeSets({Hour(m5)["spy"]}, {Hour(n5)["spy"]}, T)
    BY <1>8 DEF AlikeSets
  <2>. QED  BY <2>1, <2>2, ArithAlike
<1>14. Alike(Lrsi(m5), Lrsi(n5), T) /\ Alike(Wonder(m5), Wonder(n5), T)
  BY <1>1, LaguerreRsiAlike, OneCandleWonderAlike
<1>15. Alike(Gap(m5, d1), Gap(n5, e1), T)
  <2>1. Alike(Frames!SessionFirst(m5["stock"]), Frames!SessionFirst(n5["stock"]), T)
    BY <1>1, SessionFirstAlike
  <2>2. AlikeSets({Aligned(m5, d1)["close_d1"]}, {Aligned(n5, e1)["close_d1"]}, T)
    BY <1>6 DEF AlikeSets
  <2>. QED  BY <2>1, <2>2, ArithAlike
<1>. HIDE DEF RollSpy, RollQqq, OwnVwap, OwnRvol, Power, Lrsi, Wonder, Gap
<1>16. AlikeFrames(F(m1, m5, d1), F(n1, n5, e1), T)
  BY <1>1, <1>6, <1>8, <1>9, <1>10, <1>11, <1>12, <1>13, <1>14, <1>15 DEF AlikeFrames
<1>. HIDE DEF F
<1>. QED  BY <1>0, <1>16

LEMMA RawScoreAlike ==
  ASSUME NEW T \in Nat, NEW m1, NEW n1, NEW m5, NEW n5, NEW d1, NEW e1,
         StoredAlike(m1, n1, m5, n5, d1, e1, T), NEW context, NEW dontext,
         Alike(context.regime_d1, dontext.regime_d1, T),
         Alike(context.d1_range, dontext.d1_range, T),
         Alike(context.suspect, dontext.suspect, T)
  PROVE  /\ Alike(Frames!RawScore(m1, m5, context), Frames!RawScore(n1, n5, dontext), T)
         /\ DOMAIN Frames!RawScore(m1, m5, context) = DOMAIN m5["spy"]
<1>. DEFINE Volume(x5) == Frames!Rvol(x5["spy"])
            Move(x5) == Frames!Change(x5["spy"], 1)
            OwnVwap(x1, x5, s) == Frames!AlignCausal(Frames!CloseLabel(Frames!Vwap(x1[s])),
                                                     DOMAIN x5["spy"])
            OnBars(x5, d) == Frames!AlignDaily(d, DOMAIN x5["spy"])
            C1(x1, x5) == Frames!Flag(x5["spy"], {OwnVwap(x1, x5, "spy")})
            C2(x5) == Frames!Flag(Frames!StackedCount(x5["spy"], Volume(x5)), {Frames!ChopRatio(x5["spy"])})
            C3(x5) == Frames!SessionSoFar(x5["spy"])
            C4(x5, xc) == Frames!Flag(x5["spy"], {OnBars(x5, xc.d1_range)})
            C5(x5) == Frames!Flag(x5["spy"], {Frames!Trendline(x5["spy"])})
            C6(x5, xc) == Frames!Flag(Move(x5), {Volume(x5), OnBars(x5, xc.suspect)})
            C7(x5, xc) == Frames!Flag(Move(x5), {OnBars(x5, xc.regime_d1)})
            C8(x1, x5) == Frames!Flag(C1(x1, x5), {x5["qqq"], OwnVwap(x1, x5, "qqq")})
            Parts(x1, x5, xc) == {C2(x5), C3(x5), C4(x5, xc), C5(x5), C6(x5, xc), C7(x5, xc), C8(x1, x5)}
            Sum_(x1, x5, xc) == Frames!Flag(C1(x1, x5), Parts(x1, x5, xc))
<1>0. /\ Frames!RawScore(m1, m5, context) =
           Frames!Where(Sum_(m1, m5, context), Frames!Atr(m5["spy"]))
      /\ Frames!RawScore(n1, n5, dontext) =
           Frames!Where(Sum_(n1, n5, dontext), Frames!Atr(n5["spy"]))
  BY DEF Frames!RawScore
<1>1. /\ Alike(m1["spy"], n1["spy"], T) /\ Alike(m1["qqq"], n1["qqq"], T)
      /\ Alike(m5["spy"], n5["spy"], T) /\ Alike(m5["qqq"], n5["qqq"], T)
  BY DEF StoredAlike, Frames!Symbols
<1>2. /\ Alike(OwnVwap(m1, m5, "spy"), OwnVwap(n1, n5, "spy"), T)
      /\ Alike(OwnVwap(m1, m5, "qqq"), OwnVwap(n1, n5, "qqq"), T)
  BY <1>1, OwnVwapAlike
<1>. HIDE DEF OwnVwap
<1>3. ASSUME NEW d, NEW e, Alike(d, e, T) PROVE Alike(OnBars(m5, d), OnBars(n5, e), T)
  <2>. DEFINE index == DOMAIN m5["spy"]
              jndex == DOMAIN n5["spy"]
  <2>1. /\ index \subseteq Nat /\ jndex \subseteq Nat /\ IsFiniteSet(index) /\ IsFiniteSet(jndex)
        /\ \A r \in Nat : r <= T => (r \in index <=> r \in jndex)
    BY <1>1, IndexAlike
  <2>. HIDE DEF index, jndex
  <2>2. Alike(Frames!AlignDaily(d, index), Frames!AlignDaily(e, jndex), T)
    BY <1>3, <2>1, AlignDailyAlike
  <2>. QED  BY <2>2 DEF index, jndex
<1>4. /\ Alike(OnBars(m5, context.d1_range), OnBars(n5, dontext.d1_range), T)
      /\ Alike(OnBars(m5, context.suspect), OnBars(n5, dontext.suspect), T)
      /\ Alike(OnBars(m5, context.regime_d1), OnBars(n5, dontext.regime_d1), T)
  BY <1>3
<1>. HIDE DEF OnBars
<1>5. /\ Alike(Volume(m5), Volume(n5), T) /\ Alike(Move(m5), Move(n5), T)
      /\ Alike(C3(m5), C3(n5), T)
      /\ Alike(Frames!ChopRatio(m5["spy"]), Frames!ChopRatio(n5["spy"]), T)
      /\ Alike(Frames!Trendline(m5["spy"]), Frames!Trendline(n5["spy"]), T)
      /\ Alike(Frames!Atr(m5["spy"]), Frames!Atr(n5["spy"]), T)
  BY <1>1, RvolAlike, ChangeAlike, SessionSoFarAlike, ChopRatioAlike, TrendlineAlike, AtrAlike
<1>. HIDE DEF Volume, Move, C3
<1>6. ASSUME NEW a, NEW b, NEW x, NEW y, Alike(a, b, T), Alike(x, y, T)
      PROVE  Alike(Frames!Flag(a, {x}), Frames!Flag(b, {y}), T)
  <2>1. AlikeSets({x}, {y}, T)
    BY <1>6 DEF AlikeSets
  <2>. QED  BY <1>6, <2>1, ArithAlike
<1>7. Alike(C1(m1, m5), C1(n1, n5), T) /\ DOMAIN C1(m1, m5) = DOMAIN m5["spy"]
      /\ DOMAIN C1(n1, n5) = DOMAIN n5["spy"]
  BY <1>1, <1>2, <1>6, RowsKept
<1>. HIDE DEF C1
<1>8. Alike(C2(m5), C2(n5), T)
  <2>1. Alike(Frames!StackedCount(m5["spy"], Volume(m5)), Frames!StackedCount(n5["spy"], Volume(n5)), T)
    BY <1>1, <1>5, RecursiveFlagAlike
  <2>. QED  BY <1>5, <1>6, <2>1
<1>9. Alike(C4(m5, context), C4(n5, dontext), T) /\ Alike(C5(m5), C5(n5), T)
      /\ Alike(C7(m5, context), C7(n5, dontext), T)
  BY <1>1, <1>4, <1>5, <1>6
<1>10. Alike(C6(m5, context), C6(n5, dontext), T)
  <2>1. AlikeSets({Volume(m5), OnBars(m5, context.suspect)}, {Volume(n5), OnBars(n5, dontext.suspect)}, T)
    BY <1>4, <1>5 DEF AlikeSets
  <2>. QED  BY <1>5, <2>1, ArithAlike
<1>11. Alike(C8(m1, m5), C8(n1, n5), T)
  <2>1. AlikeSets({m5["qqq"], OwnVwap(m1, m5, "qqq")}, {n5["qqq"], OwnVwap(n1, n5, "qqq")}, T)
    BY <1>1, <1>2 DEF AlikeSets
  <2>. QED  BY <1>7, <2>1, ArithAlike
<1>. HIDE DEF C2, C4, C5, C6, C7, C8
<1>12. AlikeSets(Parts(m1, m5, context), Parts(n1, n5, dontext), T)
  BY <1>5, <1>8, <1>9, <1>10, <1>11 DEF AlikeSets
<1>. HIDE DEF Parts
<1>13. Alike(Sum_(m1, m5, context), Sum_(n1, n5, dontext), T)
  BY <1>7, <1>12, ArithAlike
<1>14. /\ DOMAIN Sum_(m1, m5, context) = DOMAIN m5["spy"]
       /\ DOMAIN Sum_(n1, n5, dontext) = DOMAIN n5["spy"]
  BY <1>7, RowsKept
<1>. HIDE DEF Sum_
<1>15. Covers(Sum_(m1, m5, context), Sum_(n1, n5, dontext), Frames!Atr(m5["spy"]), Frames!Atr(n5["spy"]))
  BY <1>14, RowsKept DEF Covers
<1>. QED  BY <1>0, <1>5, <1>13, <1>14, <1>15, WhereAlike, RowsKept

LEMMA BiasM5Alike ==
  ASSUME NEW T \in Nat, NEW m1, NEW n1, NEW m5, NEW n5, NEW d1, NEW e1,
         StoredAlike(m1, n1, m5, n5, d1, e1, T), NEW context, NEW dontext,
         Alike(context.regime_d1, dontext.regime_d1, T),
         Alike(context.d1_range, dontext.d1_range, T),
         Alike(context.suspect, dontext.suspect, T)
  PROVE  /\ AlikeFrames(Frames!BiasM5(m1, m5, context), Frames!BiasM5(n1, n5, dontext), T)
         /\ \A col \in DOMAIN Frames!BiasM5(m1, m5, context) :
              DOMAIN Frames!BiasM5(m1, m5, context)[col] = DOMAIN m5["spy"]
<1>. DEFINE c == m5["spy"]
            e == n5["spy"]
            stacked == Frames!StackedCount(c, Frames!Rvol(c))
            piled == Frames!StackedCount(e, Frames!Rvol(e))
            raw == Frames!RawScore(m1, m5, context)
            saw == Frames!RawScore(n1, n5, dontext)
<1>1. Alike(c, e, T)
  BY DEF StoredAlike, Frames!Symbols
<1>2. Alike(stacked, piled, T)
  BY <1>1, RvolAlike, RecursiveFlagAlike
<1>3. Alike(raw, saw, T) /\ DOMAIN raw = DOMAIN c
  BY RawScoreAlike
<1>4. /\ Frames!BiasM5(m1, m5, context) = Frames!BiasOf(c, raw, stacked)
      /\ Frames!BiasM5(n1, n5, dontext) = Frames!BiasOf(e, saw, piled)
  BY DEF Frames!BiasM5
<1>. HIDE DEF stacked, piled, raw, saw, c, e
<1>5. AlikeFrames(Frames!BiasOf(c, raw, stacked), Frames!BiasOf(e, saw, piled), T)
  BY <1>1, <1>2, <1>3, BiasOfAlike
<1>6. \A col \in DOMAIN Frames!BiasOf(c, raw, stacked) :
        DOMAIN Frames!BiasOf(c, raw, stacked)[col] = DOMAIN raw
  BY RowsKept DEF Frames!BiasOf
<1>. QED  BY <1>3, <1>4, <1>5, <1>6 DEF c

LEMMA DecisionsAlike ==
  ASSUME NEW T \in Nat, NEW c, NEW e, NEW f, NEW g, NEW adv, NEW bdv,
         Alike(c, e, T), Alike(adv, bdv, T), AlikeFrames(f, g, T),
         {"rrs_m5", "rolling_rrs_m5", "rolling_rrs_m5_qqq", "power_index_m5", "vwap_m5",
          "rvol_m5", "lrsi_m5", "one_candle_wonder", "gap_pct", "rolling_rrs_d1",
          "ha_cont_d1", "sma_stack", "headroom", "volume_ratio_d1"} \subseteq DOMAIN f
  PROVE  AlikeFrames(Frames!Decisions(c, f, adv), Frames!Decisions(e, g, bdv), T)
<1>. DEFINE Atr5(x) == Frames!Atr(x)
            Ema(x) == Frames!Recursive(x)
            Held(h, a) == {a, h.rolling_rrs_d1, h.ha_cont_d1, h.sma_stack, h.headroom,
                           h.volume_ratio_d1, h.gap_pct}
            Live(h) == {h.rolling_rrs_m5, h.vwap_m5, h.one_candle_wonder, h.rolling_rrs_m5_qqq}
            Known(h) == Frames!Arith(h.rolling_rrs_m5, {h.rolling_rrs_d1, h.ha_cont_d1, h.rvol_m5})
            Twice(col) == Frames!Flag(col, {Frames!Shift(col, 1)})
            Hold(x, h, a) == Frames!Flag(x, Held(h, a))
            Gate(x, h, a) == Frames!Flag(x, Held(h, a) \cup Live(h))
            Weighed(x, h) == {h.power_index_m5, h.headroom, Frames!Change(x, Window),
                              Frames!Rolling(h.rrs_m5, Window)}
            Score(x, h) == Frames!Where(Frames!Flag(Known(h), Weighed(x, h)), Known(h))
            AtVwap(x, h) == Frames!Flag(x, {h.vwap_m5})
            Loss(x, h) == Twice(AtVwap(x, h))
            Failure(h) == Twice(h.rolling_rrs_m5)
            Stall(h) == Twice(h.lrsi_m5)
            Confirm(x, h) == Frames!Flag(x, {h.rolling_rrs_m5, h.vwap_m5, Ema(x), Atr5(x)})
            Asked(x, h) == {Frames!ChopRatio(x), Frames!StackedCount(x, h.rvol_m5), Atr5(x),
                            Frames!Rolling(h.rvol_m5, Window), Frames!RollingAny(x, Window),
                            Frames!RollingAny(AtVwap(x, h), Window)}
            Dip(x, h) == Frames!Flag(x, Asked(x, h))
            Squeeze(x, h) == Frames!Flag(x, {Frames!Shift(x, 1), Atr5(x), h.rvol_m5})
            F(x, h, a) == [ema8 |-> Ema(x), atr_m5 |-> Atr5(x), adv20 |-> a,
                  gate_hold |-> Hold(x, h, a),
                  gate |-> Gate(x, h, a), score |-> Score(x, h), rs_failure |-> Failure(h),
                  vwap_loss |-> Loss(x, h), momentum_stall |-> Stall(h),
                  confirm_trigger |-> Confirm(x, h),
                  dip_quality |-> Dip(x, h), squeeze_guard |-> Squeeze(x, h)]
<1>0. /\ Frames!Decisions(c, f, adv) = F(c, f, adv)
      /\ Frames!Decisions(e, g, bdv) = F(e, g, bdv)
  BY DEF Frames!Decisions
<1>1. /\ Alike(f.rrs_m5, g.rrs_m5, T) /\ Alike(f.rolling_rrs_m5, g.rolling_rrs_m5, T)
      /\ Alike(f.rolling_rrs_m5_qqq, g.rolling_rrs_m5_qqq, T)
      /\ Alike(f.power_index_m5, g.power_index_m5, T) /\ Alike(f.vwap_m5, g.vwap_m5, T)
      /\ Alike(f.rvol_m5, g.rvol_m5, T) /\ Alike(f.lrsi_m5, g.lrsi_m5, T)
      /\ Alike(f.one_candle_wonder, g.one_candle_wonder, T) /\ Alike(f.gap_pct, g.gap_pct, T)
      /\ Alike(f.rolling_rrs_d1, g.rolling_rrs_d1, T) /\ Alike(f.ha_cont_d1, g.ha_cont_d1, T)
      /\ Alike(f.sma_stack, g.sma_stack, T) /\ Alike(f.headroom, g.headroom, T)
      /\ Alike(f.volume_ratio_d1, g.volume_ratio_d1, T)
  BY DEF AlikeFrames
<1>2. Alike(Atr5(c), Atr5(e), T) /\ Alike(Ema(c), Ema(e), T)
  BY AtrAlike, RecursiveAlike
<1>. HIDE DEF Atr5, Ema
<1>3. AlikeSets(Held(f, adv), Held(g, bdv), T) /\ AlikeSets(Live(f), Live(g), T)
  BY <1>1 DEF AlikeSets
<1>. HIDE DEF Held, Live
<1>4. AlikeSets(Held(f, adv) \cup Live(f), Held(g, bdv) \cup Live(g), T)
  BY <1>3 DEF AlikeSets
<1>5. Alike(Hold(c, f, adv), Hold(e, g, bdv), T) /\ Alike(Gate(c, f, adv), Gate(e, g, bdv), T)
  BY <1>3, <1>4, ArithAlike
<1>. HIDE DEF Hold, Gate
<1>6. Alike(Known(f), Known(g), T)
  <2>1. AlikeSets({f.rolling_rrs_d1, f.ha_cont_d1, f.rvol_m5},
                  {g.rolling_rrs_d1, g.ha_cont_d1, g.rvol_m5}, T)
    BY <1>1 DEF AlikeSets
  <2>. QED  BY <1>1, <2>1, ArithAlike
<1>. HIDE DEF Known
<1>7. Alike(Frames!Change(c, Window), Frames!Change(e, Window), T)
      /\ Alike(Frames!Rolling(f.rrs_m5, Window), Frames!Rolling(g.rrs_m5, Window), T)
  BY <1>1, ChangeAlike, RollingAlike, Clocks
<1>8. AlikeSets(Weighed(c, f), Weighed(e, g), T)
  BY <1>1, <1>7 DEF AlikeSets
<1>. HIDE DEF Weighed
<1>9. Alike(Score(c, f), Score(e, g), T)
  <2>1. Alike(Frames!Flag(Known(f), Weighed(c, f)), Frames!Flag(Known(g), Weighed(e, g)), T)
    BY <1>6, <1>8, ArithAlike
  <2>2. Covers(Frames!Flag(Known(f), Weighed(c, f)), Frames!Flag(Known(g), Weighed(e, g)),
               Known(f), Known(g))
    BY RowsKept DEF Covers
  <2>. QED  BY <1>6, <2>1, <2>2, WhereAlike
<1>. HIDE DEF Score
<1>10. ASSUME NEW x, NEW y, Alike(x, y, T) PROVE Alike(Twice(x), Twice(y), T)
  <2>1. AlikeSets({Frames!Shift(x, 1)}, {Frames!Shift(y, 1)}, T)
    BY <1>10, ShiftAlike DEF AlikeSets
  <2>. QED  BY <1>10, <2>1, ArithAlike
<1>. HIDE DEF Twice
<1>11. Alike(AtVwap(c, f), AtVwap(e, g), T)
  <2>1. AlikeSets({f.vwap_m5}, {g.vwap_m5}, T)
    BY <1>1 DEF AlikeSets
  <2>. QED  BY <2>1, ArithAlike
<1>. HIDE DEF AtVwap
<1>12. Alike(Failure(f), Failure(g), T) /\ Alike(Loss(c, f), Loss(e, g), T)
       /\ Alike(Stall(f), Stall(g), T)
  BY <1>1, <1>10, <1>11
<1>. HIDE DEF Failure, Loss, Stall
<1>13. Alike(Confirm(c, f), Confirm(e, g), T)
  <2>1. AlikeSets({f.rolling_rrs_m5, f.vwap_m5, Ema(c), Atr5(c)},
                  {g.rolling_rrs_m5, g.vwap_m5, Ema(e), Atr5(e)}, T)
    BY <1>1, <1>2 DEF AlikeSets
  <2>. QED  BY <2>1, ArithAlike
<1>. HIDE DEF Confirm
<1>14. /\ Alike(Frames!ChopRatio(c), Frames!ChopRatio(e), T)
       /\ Alike(Frames!StackedCount(c, f.rvol_m5), Frames!StackedCount(e, g.rvol_m5), T)
       /\ Alike(Frames!Rolling(f.rvol_m5, Window), Frames!Rolling(g.rvol_m5, Window), T)
       /\ Alike(Frames!RollingAny(c, Window), Frames!RollingAny(e, Window), T)
       /\ Alike(Frames!RollingAny(AtVwap(c, f), Window), Frames!RollingAny(AtVwap(e, g), Window), T)
       /\ Alike(Frames!Shift(c, 1), Frames!Shift(e, 1), T)
  BY <1>1, <1>11, ChopRatioAlike, RecursiveFlagAlike, RollingAlike, ShiftAlike
<1>15. Alike(Dip(c, f), Dip(e, g), T)
  <2>1. AlikeSets(Asked(c, f), Asked(e, g), T)
    BY <1>2, <1>14 DEF AlikeSets
  <2>. HIDE DEF Asked
  <2>. QED  BY <2>1, ArithAlike
<1>16. Alike(Squeeze(c, f), Squeeze(e, g), T)
  <2>1. AlikeSets({Frames!Shift(c, 1), Atr5(c), f.rvol_m5}, {Frames!Shift(e, 1), Atr5(e), g.rvol_m5}, T)
    BY <1>1, <1>2, <1>14 DEF AlikeSets
  <2>. QED  BY <2>1, ArithAlike
<1>. HIDE DEF Dip, Squeeze
<1>17. AlikeFrames(F(c, f, adv), F(e, g, bdv), T)
  BY <1>2, <1>5, <1>9, <1>12, <1>13, <1>15, <1>16 DEF AlikeFrames
<1>. HIDE DEF F
<1>. QED  BY <1>0, <1>17

LEMMA BesideAlike ==
  ASSUME NEW T, NEW f, NEW g, NEW x, NEW y, AlikeFrames(f, x, T), AlikeFrames(g, y, T)
  PROVE  AlikeFrames(Frames!Beside(f, g), Frames!Beside(x, y), T)
BY DEF AlikeFrames, Frames!Beside

\* SPY's own days, as the engine's frames take them.
LEMMA DailyContextAlike ==
  ASSUME NEW T \in Nat, NEW c, NEW e, Alike(c, e, T)
  PROVE  LET plain == Frames!Unaudited(Frames!DailyContext(c))
             other == Frames!Unaudited(Frames!DailyContext(e))
         IN  /\ Alike(plain.regime_d1, other.regime_d1, T)
             /\ Alike(plain.d1_range, other.d1_range, T)
             /\ Alike(plain.suspect, other.suspect, T)
<1>. DEFINE Context(x) == Frames!DailyContext(x)
            Plain(x) == Frames!Unaudited(Context(x))
            New(x) == Frames!FreshBreach(x, Frames!Trendline(x), Frames!Atr(x))
<1>1. \A x : Context(x) = [regime_d1 |-> Frames!Regime(x), d1_range |-> x,
                           suspect |-> Frames!Suspect(x, New(x))]
  BY DEF Frames!DailyContext
<1>2. \A x : DOMAIN Frames!Suspect(x, New(x)) = DOMAIN x
  BY DEF Frames!Suspect
<1>. HIDE DEF Context, New
<1>3. \A x : Plain(x) = [Context(x) EXCEPT !.suspect = Frames!AbsentOn(DOMAIN Context(x).suspect)]
  BY DEF Frames!Unaudited
<1>. HIDE DEF Plain
<1>4. \A x : /\ Plain(x).regime_d1 = Frames!Regime(x) /\ Plain(x).d1_range = x
             /\ Plain(x).suspect = Frames!AbsentOn(DOMAIN x)
  BY <1>1, <1>2, <1>3
<1>5. Alike(Frames!AbsentOn(DOMAIN c), Frames!AbsentOn(DOMAIN e), T)
  BY DEF Frames!AbsentOn, Alike
<1>6. Alike(Frames!Regime(c), Frames!Regime(e), T)
  BY RegimeAlike
<1>. QED  BY <1>4, <1>5, <1>6 DEF Plain, Context

\* Every column of a prepared frame stands on SPY's calendar.
OnRows(f, index) == \A col \in DOMAIN f : DOMAIN f[col] = index

LEMMA BesideOnRows ==
  ASSUME NEW f, NEW g, NEW index, OnRows(f, index), OnRows(g, index)
  PROVE  OnRows(Frames!Beside(f, g), index)
BY DEF OnRows, Frames!Beside

LEMMA PreparedM5Alike ==
  ASSUME NEW T \in Nat, NEW m1, NEW n1, NEW m5, NEW n5, NEW d1, NEW e1,
         StoredAlike(m1, n1, m5, n5, d1, e1, T), NEW context, NEW dontext,
         Alike(context.regime_d1, dontext.regime_d1, T),
         Alike(context.d1_range, dontext.d1_range, T),
         Alike(context.suspect, dontext.suspect, T)
  PROVE  AlikeFrames(Frames!PreparedM5(m1, m5, d1, context),
                     Frames!PreparedM5(n1, n5, e1, dontext), T)
<1>. DEFINE Adv(x5, x1) == Frames!AlignDaily(Frames!Rolling(x1["stock"], Window), DOMAIN x5["stock"])
            Feats(y1, x5, x1) == Frames!Features(y1, x5, x1)
            Decided(y1, x5, x1) == Frames!Decisions(x5["stock"], Feats(y1, x5, x1), Adv(x5, x1))
            Laid(g, x5) == [col \in DOMAIN g |-> Frames!Reindex(g[col], DOMAIN x5["spy"])]
            Reg(x5, z) == [regime_d1 |-> Frames!AlignDaily(z.regime_d1, DOMAIN x5["spy"])]
            All(y1, x5, x1, z) ==
              Frames!Beside(Frames!Beside(Laid(Feats(y1, x5, x1), x5), Laid(Decided(y1, x5, x1), x5)),
                            Frames!Beside(Frames!BiasM5(y1, x5, z), Reg(x5, z)))
<1>0. /\ Frames!PreparedM5(m1, m5, d1, context) = All(m1, m5, d1, context)
      /\ Frames!PreparedM5(n1, n5, e1, dontext) = All(n1, n5, e1, dontext)
  BY DEF Frames!PreparedM5
<1>1. /\ Alike(m5["spy"], n5["spy"], T) /\ Alike(m5["stock"], n5["stock"], T)
      /\ Alike(d1["stock"], e1["stock"], T)
  BY DEF StoredAlike, Frames!Symbols
<1>2. Alike(Adv(m5, d1), Adv(n5, e1), T)
  <2>1. Alike(Frames!Rolling(d1["stock"], Window), Frames!Rolling(e1["stock"], Window), T)
    BY <1>1, RollingAlike
  <2>. QED  BY <1>1, <2>1, IndexAlike, AlignDailyAlike
<1>3. AlikeFrames(Feats(m1, m5, d1), Feats(n1, n5, e1), T)
  BY FeaturesAlike
<1>4. {"rrs_m5", "rolling_rrs_m5", "rolling_rrs_m5_qqq", "power_index_m5", "vwap_m5",
       "rvol_m5", "lrsi_m5", "one_candle_wonder", "gap_pct", "rolling_rrs_d1",
       "ha_cont_d1", "sma_stack", "headroom", "volume_ratio_d1"} \subseteq DOMAIN Feats(m1, m5, d1)
  BY DEF Frames!Features
<1>. HIDE DEF Adv, Feats
<1>5. AlikeFrames(Decided(m1, m5, d1), Decided(n1, n5, e1), T)
  BY <1>1, <1>2, <1>3, <1>4, DecisionsAlike
<1>. HIDE DEF Decided
<1>6. ASSUME NEW f, NEW g, AlikeFrames(f, g, T) PROVE AlikeFrames(Laid(f, m5), Laid(g, n5), T)
  <2>1. \A col \in DOMAIN f : Alike(Frames!Reindex(f[col], DOMAIN m5["spy"]),
                                    Frames!Reindex(g[col], DOMAIN n5["spy"]), T)
    BY <1>1, <1>6, IndexAlike, ReindexAlike DEF AlikeFrames
  <2>2. /\ DOMAIN Laid(f, m5) = DOMAIN f /\ DOMAIN Laid(g, n5) = DOMAIN g /\ DOMAIN f = DOMAIN g
        /\ \A col \in DOMAIN f : /\ Laid(f, m5)[col] = Frames!Reindex(f[col], DOMAIN m5["spy"])
                                 /\ Laid(g, n5)[col] = Frames!Reindex(g[col], DOMAIN n5["spy"])
    BY <1>6 DEF AlikeFrames
  <2>. HIDE DEF Laid
  <2>. QED  BY <2>1, <2>2 DEF AlikeFrames
<1>. HIDE DEF Laid
<1>7. AlikeFrames(Reg(m5, context), Reg(n5, dontext), T)
  <2>1. Alike(Frames!AlignDaily(context.regime_d1, DOMAIN m5["spy"]),
              Frames!AlignDaily(dontext.regime_d1, DOMAIN n5["spy"]), T)
    BY <1>1, IndexAlike, AlignDailyAlike
  <2>. QED  BY <2>1 DEF AlikeFrames
<1>. HIDE DEF Reg
<1>8. AlikeFrames(Frames!BiasM5(m1, m5, context), Frames!BiasM5(n1, n5, dontext), T)
  BY BiasM5Alike
<1>9. AlikeFrames(All(m1, m5, d1, context), All(n1, n5, e1, dontext), T)
  BY <1>3, <1>5, <1>6, <1>7, <1>8, BesideAlike
<1>. HIDE DEF All
<1>. QED  BY <1>0, <1>9

LEMMA RawScoreD1Alike ==
  ASSUME NEW T \in Nat, NEW c, NEW e, NEW q, NEW p, Alike(c, e, T), Alike(q, p, T)
  PROVE  /\ Alike(Frames!RawScoreD1(c, q), Frames!RawScoreD1(e, p), T)
         /\ DOMAIN Frames!RawScoreD1(c, q) = DOMAIN c
<1>. DEFINE Parts(x, y) == {Frames!SmaStack(x), Frames!StackedCount(x, Frames!VolumeRatio(x)),
                            Frames!Change(x, 1), Frames!Trendline(x), Frames!VolumeRatio(x),
                            Frames!Regime(x), Frames!Change(y, 1)}
            Sum_(x, y) == Frames!Flag(x, Parts(x, y))
<1>0. /\ Frames!RawScoreD1(c, q) = Frames!Where(Sum_(c, q), Frames!Atr(c))
      /\ Frames!RawScoreD1(e, p) = Frames!Where(Sum_(e, p), Frames!Atr(e))
  BY DEF Frames!RawScoreD1
<1>1. Alike(Frames!VolumeRatio(c), Frames!VolumeRatio(e), T)
  BY VolumeRatioAlike
<1>2. /\ Alike(Frames!SmaStack(c), Frames!SmaStack(e), T)
      /\ Alike(Frames!Trendline(c), Frames!Trendline(e), T)
      /\ Alike(Frames!Regime(c), Frames!Regime(e), T) /\ Alike(Frames!Atr(c), Frames!Atr(e), T)
      /\ Alike(Frames!Change(c, 1), Frames!Change(e, 1), T)
      /\ Alike(Frames!Change(q, 1), Frames!Change(p, 1), T)
  BY SmaStackAlike, TrendlineAlike, RegimeAlike, AtrAlike, ChangeAlike
<1>3. Alike(Frames!StackedCount(c, Frames!VolumeRatio(c)),
            Frames!StackedCount(e, Frames!VolumeRatio(e)), T)
  BY <1>1, RecursiveFlagAlike
<1>4. AlikeSets(Parts(c, q), Parts(e, p), T)
  BY <1>1, <1>2, <1>3 DEF AlikeSets
<1>. HIDE DEF Parts
<1>5. Alike(Sum_(c, q), Sum_(e, p), T)
  BY <1>4, ArithAlike
<1>6. DOMAIN Sum_(c, q) = DOMAIN c /\ DOMAIN Sum_(e, p) = DOMAIN e
  BY RowsKept
<1>. HIDE DEF Sum_
<1>7. Covers(Sum_(c, q), Sum_(e, p), Frames!Atr(c), Frames!Atr(e))
  BY <1>6, RowsKept DEF Covers
<1>. QED  BY <1>0, <1>2, <1>5, <1>6, <1>7, WhereAlike, RowsKept

LEMMA PreparedD1Alike ==
  ASSUME NEW T \in Nat, NEW d1, NEW e1,
         \A s \in Frames!Symbols : Alike(d1[s], e1[s], T)
  PROVE  AlikeFrames(Frames!PreparedD1(d1), Frames!PreparedD1(e1), T)
<1>. DEFINE Calendar(x) == DOMAIN x["spy"] \cap DOMAIN x["qqq"] \cap DOMAIN x["stock"]
            D(x) == [s \in Frames!Symbols |-> Frames!Reindex(x[s], Calendar(x))]
            F(x) == Frames!DailyFeatures(D(x)["stock"], D(x)["spy"])
            Known(h) == Frames!Arith(h.rolling_rrs_d1, {h.ha_cont_d1, h.volume_ratio_d1})
            Weighed(h) == {h.headroom, h.rrs_d1_std, h.day_pc, h.bench_day_pc}
            Score(h) == Frames!Where(Frames!Flag(Known(h), Weighed(h)), Known(h))
            Ema(x) == Frames!Recursive(D(x)["stock"])
            Scored(x) == [score |-> Score(F(x)), ema8 |-> Ema(x)]
            Raw(x) == Frames!RawScoreD1(D(x)["spy"], D(x)["qqq"])
            Bias(x) == Frames!BiasOf(D(x)["spy"], Raw(x), D(x)["spy"])
<1>0. \A x : Frames!PreparedD1(x) = Frames!Beside(Frames!Beside(F(x), Bias(x)), Scored(x))
  BY DEF Frames!PreparedD1
<1>1. /\ Alike(d1["spy"], e1["spy"], T) /\ Alike(d1["qqq"], e1["qqq"], T)
      /\ Alike(d1["stock"], e1["stock"], T)
  BY DEF Frames!Symbols
<1>2. /\ Calendar(d1) \subseteq Nat /\ Calendar(e1) \subseteq Nat
      /\ IsFiniteSet(Calendar(d1)) /\ IsFiniteSet(Calendar(e1))
      /\ \A r \in Nat : r <= T => (r \in Calendar(d1) <=> r \in Calendar(e1))
  <2>1. Calendar(d1) \subseteq DOMAIN d1["spy"] /\ Calendar(e1) \subseteq DOMAIN e1["spy"]
    OBVIOUS
  <2>2. IsFiniteSet(DOMAIN d1["spy"]) /\ IsFiniteSet(DOMAIN e1["spy"])
    BY <1>1 DEF Alike
  <2>3. IsFiniteSet(Calendar(d1)) /\ IsFiniteSet(Calendar(e1))
    BY <2>1, <2>2, FS_Subset
  <2>. QED  BY <1>1, <2>3 DEF Alike
<1>. HIDE DEF Calendar
<1>3. /\ Alike(D(d1)["spy"], D(e1)["spy"], T) /\ Alike(D(d1)["qqq"], D(e1)["qqq"], T)
      /\ Alike(D(d1)["stock"], D(e1)["stock"], T)
  BY <1>1, <1>2, ReindexAlike DEF Frames!Symbols
<1>. HIDE DEF D
<1>4. AlikeFrames(F(d1), F(e1), T)
  BY <1>3, DailyFeaturesAlike
<1>5. {"rolling_rrs_d1", "ha_cont_d1", "volume_ratio_d1", "headroom", "rrs_d1_std",
       "day_pc", "bench_day_pc"} \subseteq DOMAIN F(d1)
  BY DEF Frames!DailyFeatures
<1>. DEFINE f == F(d1)
            g == F(e1)
<1>. HIDE DEF F
<1>6. /\ Alike(f.rolling_rrs_d1, g.rolling_rrs_d1, T) /\ Alike(f.ha_cont_d1, g.ha_cont_d1, T)
      /\ Alike(f.volume_ratio_d1, g.volume_ratio_d1, T) /\ Alike(f.headroom, g.headroom, T)
      /\ Alike(f.rrs_d1_std, g.rrs_d1_std, T) /\ Alike(f.day_pc, g.day_pc, T)
      /\ Alike(f.bench_day_pc, g.bench_day_pc, T)
  BY <1>4, <1>5 DEF AlikeFrames
<1>7. Alike(Known(f), Known(g), T)
  <2>1. AlikeSets({f.ha_cont_d1, f.volume_ratio_d1}, {g.ha_cont_d1, g.volume_ratio_d1}, T)
    BY <1>6 DEF AlikeSets
  <2>. QED  BY <1>6, <2>1, ArithAlike
<1>. HIDE DEF Known
<1>8. AlikeSets(Weighed(f), Weighed(g), T)
  BY <1>6 DEF AlikeSets
<1>. HIDE DEF Weighed
<1>9. Alike(Score(f), Score(g), T)
  <2>1. Alike(Frames!Flag(Known(f), Weighed(f)), Frames!Flag(Known(g), Weighed(g)), T)
    BY <1>7, <1>8, ArithAlike
  <2>2. Covers(Frames!Flag(Known(f), Weighed(f)), Frames!Flag(Known(g), Weighed(g)),
               Known(f), Known(g))
    BY RowsKept DEF Covers
  <2>. QED  BY <1>7, <2>1, <2>2, WhereAlike
<1>. HIDE DEF Score
<1>10. Alike(Ema(d1), Ema(e1), T) /\ Alike(Raw(d1), Raw(e1), T)
  BY <1>3, RecursiveAlike, RawScoreD1Alike
<1>. HIDE DEF Ema, Raw
<1>11. AlikeFrames(Scored(d1), Scored(e1), T)
  BY <1>9, <1>10 DEF AlikeFrames
<1>12. AlikeFrames(Bias(d1), Bias(e1), T)
  BY <1>3, <1>10, BiasOfAlike
<1>. HIDE DEF Scored, Bias
<1>13. AlikeFrames(Frames!Beside(Frames!Beside(F(d1), Bias(d1)), Scored(d1)),
                   Frames!Beside(Frames!Beside(F(e1), Bias(e1)), Scored(e1)), T)
  BY <1>4, <1>11, <1>12, BesideAlike
<1>. QED  BY <1>0, <1>13

\* The bias of a frame stands on the rows of its score.
LEMMA BiasRows == \A c, raw, stacked : OnRows(Frames!BiasOf(c, raw, stacked), DOMAIN raw)
<1>. TAKE c, raw, stacked
<1>1. \A x, y : DOMAIN Frames!Flag(x, y) = DOMAIN x /\ DOMAIN Frames!Where(x, y) = DOMAIN x
                /\ DOMAIN Frames!Recursive(x) = DOMAIN x
  BY RowsKept
<1>. QED  BY <1>1 DEF Frames!BiasOf, OnRows

LEMMA PreparedM5Rows ==
  ASSUME NEW m1, NEW m5, NEW d1, NEW context
  PROVE  OnRows(Frames!PreparedM5(m1, m5, d1, context), DOMAIN m5["spy"])
<1>. DEFINE index == DOMAIN m5["spy"]
            Laid(g) == [col \in DOMAIN g |-> Frames!Reindex(g[col], index)]
            f == Frames!Features(m1, m5, d1)
            decided == Frames!Decisions(m5["stock"], f,
                         Frames!AlignDaily(Frames!Rolling(d1["stock"], Window), DOMAIN m5["stock"]))
            bias == Frames!BiasM5(m1, m5, context)
            regime == [regime_d1 |-> Frames!AlignDaily(context.regime_d1, index)]
<1>1. Frames!PreparedM5(m1, m5, d1, context) =
        Frames!Beside(Frames!Beside(Laid(f), Laid(decided)), Frames!Beside(bias, regime))
  BY DEF Frames!PreparedM5
<1>2. OnRows(bias, index)
  <2>1. DOMAIN Frames!RawScore(m1, m5, context) = index
    BY RowsKept DEF Frames!RawScore
  <2>. QED  BY <2>1, BiasRows DEF Frames!BiasM5
<1>3. OnRows(regime, index)
  BY DEF OnRows, Frames!AlignDaily, Frames!AlignCausal
<1>. HIDE DEF f, decided, bias, regime
<1>4. OnRows(Laid(f), index) /\ OnRows(Laid(decided), index)
  BY DEF OnRows, Frames!Reindex
<1>. HIDE DEF Laid, index
<1>5. OnRows(Frames!Beside(Frames!Beside(Laid(f), Laid(decided)), Frames!Beside(bias, regime)), index)
  BY <1>2, <1>3, <1>4, BesideOnRows
<1>. QED  BY <1>1, <1>5 DEF index

LEMMA PreparedD1Rows ==
  ASSUME NEW d1, \A s \in Frames!Symbols : Causal(d1[s], BySession)
  PROVE  \A col \in DOMAIN Frames!PreparedD1(d1) :
           DOMAIN Frames!PreparedD1(d1)[col] \subseteq DOMAIN d1["spy"]
<1>. DEFINE calendar == DOMAIN d1["spy"] \cap DOMAIN d1["qqq"] \cap DOMAIN d1["stock"]
            d == [s \in Frames!Symbols |-> Frames!Reindex(d1[s], calendar)]
            f == Frames!DailyFeatures(d["stock"], d["spy"])
            known == Frames!Arith(f.rolling_rrs_d1, {f.ha_cont_d1, f.volume_ratio_d1})
            score == Frames!Where(Frames!Flag(known, {f.headroom, f.rrs_d1_std, f.day_pc,
                                                      f.bench_day_pc}), known)
            scored == [score |-> score, ema8 |-> Frames!Recursive(d["stock"])]
            raw == Frames!RawScoreD1(d["spy"], d["qqq"])
            bias == Frames!BiasOf(d["spy"], raw, d["spy"])
<1>0. Frames!PreparedD1(d1) = Frames!Beside(Frames!Beside(f, bias), scored)
  BY DEF Frames!PreparedD1
<1>1. Causal(d1["spy"], BySession) /\ Causal(d1["stock"], BySession) /\ BySession \in Limits
  BY TheLimits DEF Frames!Symbols
<1>2. calendar \in SUBSET Nat /\ calendar \subseteq DOMAIN d1["spy"]
  BY <1>1 DEF Causal
<1>. HIDE DEF calendar
<1>3. /\ Causal(d["spy"], BySession) /\ Causal(d["stock"], BySession)
      /\ DOMAIN d["spy"] = calendar /\ DOMAIN d["stock"] = calendar
  BY <1>1, <1>2, ReindexCausal DEF Frames!Symbols
<1>. HIDE DEF d
<1>4. \A col \in DOMAIN f : DOMAIN f[col] = calendar
  BY <1>1, <1>3, DailyFeaturesCausal
<1>5. OnRows(f, calendar)
  BY <1>4 DEF OnRows
<1>6. "rolling_rrs_d1" \in DOMAIN f
  BY DEF Frames!DailyFeatures
<1>. HIDE DEF f
<1>7. OnRows(bias, calendar)
  <2>1. DOMAIN raw = calendar
    BY <1>3, RowsKept DEF Frames!RawScoreD1
  <2>. HIDE DEF raw
  <2>. QED  BY <2>1, BiasRows
<1>8. OnRows(scored, calendar)
  BY <1>3, <1>4, <1>6, RowsKept DEF OnRows
<1>. HIDE DEF bias, scored
<1>9. OnRows(Frames!Beside(Frames!Beside(f, bias), scored), calendar)
  BY <1>5, <1>7, <1>8, BesideOnRows
<1>. QED  BY <1>0, <1>2, <1>9 DEF OnRows

\* The minutes of n sessions are those of n + 1 before the newest begins, and each
\* bar of five is over before its day is.
LEMMA StoredMinutes ==
  ASSUME NEW s, NEW n \in Nat
  PROVE  /\ IsFiniteSet(DOMAIN Frames!MinuteBars(s, n)) /\ DOMAIN Frames!MinuteBars(s, n) \subseteq Nat
         /\ \A m \in DOMAIN Frames!MinuteBars(s, n) : m + BarLen < n * DayLen
         /\ \A T \in Nat : T < n * DayLen =>
              Alike(Frames!MinuteBars(s, n), Frames!MinuteBars(s, n + 1), T)
<1>. DEFINE Gone == IF silent[1] = s THEN silent[2] ELSE {}
            R(k) == Frames!RegularMinutes(Frames!Feed(s, k))
            Span == (Open - 1) .. (LastMinute + 1)
<1>1. \A k : /\ DOMAIN Frames!MinuteBars(s, k) = R(k)
             /\ \A m \in R(k) : Frames!MinuteBars(s, k)[m] = m + 1
  BY DEF Frames!MinuteBars
<1>2. \A k, m : m \in R(k) <=> /\ m \in 0 .. k * DayLen - 1 /\ m % DayLen \in Span /\ m \notin Gone
                               /\ m % DayLen \in Frames!Minute
  BY DEF Frames!RegularMinutes, Frames!Feed
<1>. HIDE DEF Gone, R, Span
<1>3. DayLen \in Nat /\ LastMinute \in Nat /\ Open \in Nat /\ BarLen \in Nat
      /\ LastMinute + BarLen < DayLen
  BY Clocks
<1>4. n * DayLen \in Nat /\ (n + 1) * DayLen = n * DayLen + DayLen /\ (n + 1) * DayLen \in Nat
  BY <1>3
<1>5. ASSUME NEW k \in Nat PROVE IsFiniteSet(R(k)) /\ R(k) \subseteq Nat
  <2>1. k * DayLen \in Nat
    BY <1>3
  <2>. DEFINE last == k * DayLen - 1
  <2>2. last \in Int
    BY <2>1
  <2>. HIDE DEF last
  <2>3. 0 .. last \subseteq Nat /\ IsFiniteSet(0 .. last)
    BY <2>2, FS_Interval
  <2>4. R(k) \subseteq 0 .. last
    BY <1>2 DEF last
  <2>. QED  BY <2>3, <2>4, FS_Subset
<1>6. ASSUME NEW m \in R(n) PROVE m + BarLen < n * DayLen
  <2>0. m \in 0 .. n * DayLen - 1 /\ m % DayLen \in Open .. LastMinute
    BY <1>2, <1>6 DEF Frames!Minute
  <2>1. m \in Nat /\ m < n * DayLen /\ m % DayLen <= LastMinute /\ m % DayLen \in Nat
    BY <1>3, <1>4, <2>0
  <2>2. Frames!DayOf(m) \in Nat /\ m = Frames!DayOf(m) * DayLen + (m % DayLen)
    BY <2>1, DaysAscend
  <2>3. Frames!DayOf(m) < n
    <3>. SUFFICES ASSUME n <= Frames!DayOf(m) PROVE FALSE
      BY <2>2
    <3>1. n * DayLen <= Frames!DayOf(m) * DayLen
      <4>1. CASE n = Frames!DayOf(m)
        BY <4>1, <1>4
      <4>2. CASE n < Frames!DayOf(m)
        BY <4>2, <2>2, <1>3, EarlierDays
      <4>. QED  BY <4>1, <4>2, <2>2
    <3>2. Frames!DayOf(m) * DayLen \in Nat
      BY <2>2, <1>3
    <3>. QED  BY <1>4, <2>1, <2>2, <3>1, <3>2
  <2>4. Frames!DayOf(m) * DayLen + DayLen <= n * DayLen /\ Frames!DayOf(m) * DayLen \in Nat
    BY <2>2, <2>3, EarlierDays
  <2>. QED  BY <1>3, <1>4, <2>1, <2>2, <2>4
<1>7. ASSUME NEW T \in Nat, T < n * DayLen
      PROVE  Alike(Frames!MinuteBars(s, n), Frames!MinuteBars(s, n + 1), T)
  <2>1. ASSUME NEW r \in Nat, r <= T PROVE r \in R(n) <=> r \in R(n + 1)
    <3>1. r \in 0 .. n * DayLen - 1 /\ r \in 0 .. (n + 1) * DayLen - 1
      BY <1>3, <1>4, <1>7, <2>1
    <3>. QED  BY <1>2, <3>1
  <2>. QED  BY <1>1, <1>5, <2>1 DEF Alike
<1>. QED  BY <1>1, <1>5, <1>6, <1>7

\* The same of the daily bars.
LEMMA StoredDays ==
  ASSUME NEW s, NEW n \in Nat
  PROVE  /\ IsFiniteSet(DOMAIN Frames!DailyBars(s, n)) /\ DOMAIN Frames!DailyBars(s, n) \subseteq Nat
         /\ \A r \in DOMAIN Frames!DailyBars(s, n) : r < n * DayLen
         /\ \A T \in Nat : T < n * DayLen =>
              Alike(Frames!DailyBars(s, n), Frames!DailyBars(s, n + 1), T)
<1>. DEFINE R(k) == DOMAIN Frames!MinuteBars(s, k)
            Date(m) == Frames!DayOf(m) * DayLen
            Labels(k) == {Date(m) : m \in R(k)}
            Label(k) == [m \in R(k) |-> Date(m)]
<1>1. \A k : /\ DOMAIN Frames!DailyBars(s, k) = Labels(k)
             /\ \A r \in Labels(k) : Frames!DailyBars(s, k)[r] = Frames!CloseOf(Frames!DayOf(r))
  BY DEF Frames!DailyBars, Frames!MinuteBars
<1>2. n + 1 \in Nat /\ DayLen \in Nat \ {0} /\ BarLen \in Nat /\ n * DayLen \in Nat
  BY Clocks
<1>3. \A k \in Nat : IsFiniteSet(R(k)) /\ R(k) \subseteq Nat
  BY StoredMinutes
<1>4. \A m \in R(n) : m < n * DayLen
  BY <1>2, <1>3, StoredMinutes
<1>5. \A m \in Nat : Date(m) \in Nat /\ Date(m) <= m /\ m < Date(m) + DayLen
  <2>. TAKE m \in Nat
  <2>1. /\ Frames!DayOf(m) \in Nat /\ m = Date(m) + (m % DayLen) /\ m % DayLen \in 0 .. DayLen - 1
    BY DaysAscend
  <2>2. Date(m) \in Nat
    BY <1>2, <2>1
  <2>. QED  BY <1>2, <2>1, <2>2
<1>6. ASSUME NEW k \in Nat PROVE IsFiniteSet(Labels(k)) /\ Labels(k) \subseteq Nat
  <2>1. Label(k) \in [R(k) -> Labels(k)] /\ \A y \in Labels(k) : \E x \in R(k) : Label(k)[x] = y
    OBVIOUS
  <2>2. Labels(k) \subseteq Nat
    BY <1>3, <1>5
  <2>3. IsFiniteSet(R(k))
    BY <1>3
  <2>. HIDE DEF R, Labels, Label
  <2>. QED  BY <2>1, <2>2, <2>3, ImageIsFinite
<1>7. \A r \in Labels(n) : r < n * DayLen
  BY <1>2, <1>3, <1>4, <1>5
<1>8. ASSUME NEW T \in Nat, T < n * DayLen, NEW r \in Nat, r <= T
      PROVE  r \in Labels(n) <=> r \in Labels(n + 1)
  <2>1. ASSUME NEW m \in Nat, Date(m) = r PROVE m < n * DayLen
    <3>1. Frames!DayOf(m) \in Nat
      BY DaysAscend
    <3>2. Frames!DayOf(m) < n
      <4>. SUFFICES ASSUME n <= Frames!DayOf(m) PROVE FALSE
        BY <3>1
      <4>1. n * DayLen <= Date(m)
        <5>1. CASE n = Frames!DayOf(m)
          BY <5>1, <1>2
        <5>2. CASE n < Frames!DayOf(m)
          BY <5>2, <3>1, <1>2, EarlierDays
        <5>. QED  BY <5>1, <5>2, <3>1
      <4>. QED  BY <1>2, <1>8, <2>1, <4>1
    <3>3. Date(m) + DayLen <= n * DayLen
      BY <3>1, <3>2, EarlierDays
    <3>. QED  BY <1>2, <1>5, <3>3
  <2>2. ASSUME NEW m \in Nat, m < n * DayLen PROVE m \in R(n) <=> m \in R(n + 1)
    <3>1. n * DayLen \in Nat /\ m <= m
      BY <1>2
    <3>2. Alike(Frames!MinuteBars(s, n), Frames!MinuteBars(s, n + 1), m)
      BY <2>2, StoredMinutes
    <3>. QED  BY <3>1, <3>2 DEF Alike
  <2>. QED  BY <1>2, <1>3, <2>1, <2>2
<1>. HIDE DEF R, Date, Labels, Label
<1>9. ASSUME NEW T \in Nat, T < n * DayLen
      PROVE  Alike(Frames!DailyBars(s, n), Frames!DailyBars(s, n + 1), T)
  BY <1>1, <1>2, <1>6, <1>8, <1>9 DEF Alike
<1>. QED  BY <1>1, <1>6, <1>7, <1>9

\* A bar of five minutes is labelled before the next day.
LEMMA StoredBars ==
  ASSUME NEW s, NEW n \in Nat
  PROVE  \A b \in DOMAIN Frames!FiveMinutes(Frames!MinuteBars(s, n)) : b \in Nat /\ b < n * DayLen
<1>. DEFINE c == Frames!MinuteBars(s, n)
<1>1. \A m \in DOMAIN c : m \in Nat /\ m + BarLen < n * DayLen
  BY StoredMinutes
<1>. HIDE DEF c
<1>2. DOMAIN Frames!FiveMinutes(c) = {Frames!Edge(m, BarLen, "left") : m \in DOMAIN c}
  BY DEF Frames!FiveMinutes, Frames!Resample
<1>3. BarLen \in Nat \ {0} /\ n * DayLen \in Nat
  BY Clocks
<1>4. ASSUME NEW m \in Nat
      PROVE  Frames!Edge(m, BarLen, "left") \in Nat /\ Frames!Edge(m, BarLen, "left") <= m + BarLen
  <2>1. /\ m \div BarLen \in Nat /\ m % BarLen \in 0 .. BarLen - 1
        /\ m = (m \div BarLen) * BarLen + (m % BarLen)
    BY <1>3
  <2>2. (m \div BarLen + 1) * BarLen = (m \div BarLen) * BarLen + BarLen
        /\ (m \div BarLen) * BarLen \in Nat
    BY <1>3, <2>1
  <2>3. Frames!Edge(m, BarLen, "left") = (m \div BarLen + 1) * BarLen
    BY DEF Frames!Edge
  <2>. QED  BY <1>3, <2>1, <2>2, <2>3
<1>5. \A b \in DOMAIN Frames!FiveMinutes(c) : b \in Nat /\ b < n * DayLen
  BY <1>1, <1>2, <1>3, <1>4
<1>. QED  BY <1>5 DEF c

\* Frames prepared from a warehouse of more sessions agree up to T, when the ones
\* they add begin after T.
Adds(n, k, T) == k = n \/ (k = n + 1 /\ T < n * DayLen)

LEMMA PreparedStands ==
  ASSUME NEW m \in Nat, NEW d \in Nat, NEW p \in Nat, NEW q \in Nat, NEW T \in Nat,
         Adds(m, p, T), Adds(d, q, T)
  PROVE  /\ AlikeFrames(Frames!Prepare(m, d).m5, Frames!Prepare(p, q).m5, T)
         /\ AlikeFrames(Frames!Prepare(m, d).d1, Frames!Prepare(p, q).d1, T)
<1>. DEFINE M1(k) == [s \in Frames!Symbols |-> Frames!MinuteBars(s, k)]
            M5(k) == [s \in Frames!Symbols |-> Frames!FiveMinutes(M1(k)[s])]
            D1(k) == [s \in Frames!Symbols |-> Frames!DailyBars(s, k)]
            Plain(k) == Frames!Unaudited(Frames!DailyContext(D1(k)["spy"]))
<1>1. \A k, l : /\ Frames!Prepare(k, l).m5 = Frames!PreparedM5(M1(k), M5(k), D1(l), Plain(l))
                /\ Frames!Prepare(k, l).d1 = Frames!PreparedD1(D1(l))
  BY DEF Frames!Prepare
<1>2. \A s : Alike(Frames!MinuteBars(s, m), Frames!MinuteBars(s, p), T)
  <2>. TAKE s
  <2>1. CASE p = m
    BY <2>1, StoredMinutes DEF Alike
  <2>2. CASE p = m + 1 /\ T < m * DayLen
    BY <2>2, StoredMinutes
  <2>. QED  BY <2>1, <2>2 DEF Adds
<1>3. \A s : Alike(Frames!DailyBars(s, d), Frames!DailyBars(s, q), T)
  <2>. TAKE s
  <2>1. CASE q = d
    BY <2>1, StoredDays DEF Alike
  <2>2. CASE q = d + 1 /\ T < d * DayLen
    BY <2>2, StoredDays
  <2>. QED  BY <2>1, <2>2 DEF Adds
<1>4. \A s : Alike(Frames!FiveMinutes(Frames!MinuteBars(s, m)),
                   Frames!FiveMinutes(Frames!MinuteBars(s, p)), T)
  BY <1>2, Clocks, ResampleAlike DEF Frames!FiveMinutes
<1>5. StoredAlike(M1(m), M1(p), M5(m), M5(p), D1(d), D1(q), T)
  BY <1>2, <1>3, <1>4 DEF StoredAlike
<1>6. \A s \in Frames!Symbols : Alike(D1(d)[s], D1(q)[s], T)
  BY <1>3
<1>7. "spy" \in Frames!Symbols
  BY DEF Frames!Symbols
<1>. HIDE DEF M1, M5, D1
<1>8. /\ Alike(Plain(d).regime_d1, Plain(q).regime_d1, T)
      /\ Alike(Plain(d).d1_range, Plain(q).d1_range, T)
      /\ Alike(Plain(d).suspect, Plain(q).suspect, T)
  BY <1>6, <1>7, DailyContextAlike
<1>. HIDE DEF Plain
<1>9. AlikeFrames(Frames!PreparedM5(M1(m), M5(m), D1(d), Plain(d)),
                  Frames!PreparedM5(M1(p), M5(p), D1(q), Plain(q)), T)
  BY <1>5, <1>8, PreparedM5Alike
<1>10. AlikeFrames(Frames!PreparedD1(D1(d)), Frames!PreparedD1(D1(q)), T)
  BY <1>6, PreparedD1Alike
<1>. QED  BY <1>1, <1>9, <1>10

\* No row of a frame is later than the sessions it was prepared from.
LEMMA PreparedRows ==
  ASSUME NEW m \in Nat, NEW d \in Nat
  PROVE  /\ \A col \in DOMAIN Frames!Prepare(m, d).m5 :
              \A t \in DOMAIN Frames!Prepare(m, d).m5[col] : t \in Nat /\ t < m * DayLen
         /\ \A col \in DOMAIN Frames!Prepare(m, d).d1 :
              \A t \in DOMAIN Frames!Prepare(m, d).d1[col] : t \in Nat /\ t < d * DayLen
<1>. DEFINE m1 == [s \in Frames!Symbols |-> Frames!MinuteBars(s, m)]
            m5 == [s \in Frames!Symbols |-> Frames!FiveMinutes(m1[s])]
            d1 == [s \in Frames!Symbols |-> Frames!DailyBars(s, d)]
            plain == Frames!Unaudited(Frames!DailyContext(d1["spy"]))
<1>1. /\ Frames!Prepare(m, d).m5 = Frames!PreparedM5(m1, m5, d1, plain)
      /\ Frames!Prepare(m, d).d1 = Frames!PreparedD1(d1)
  BY DEF Frames!Prepare
<1>2. \A t \in DOMAIN m5["spy"] : t \in Nat /\ t < m * DayLen
  BY StoredBars DEF Frames!Symbols
<1>3. \A t \in DOMAIN d1["spy"] : t \in Nat /\ t < d * DayLen
  BY StoredDays DEF Frames!Symbols
<1>4. \A s \in Frames!Symbols : Causal(d1[s], BySession)
  BY WarehouseBars, BarsCausal
<1>. HIDE DEF m1, m5, d1, plain
<1>5. OnRows(Frames!PreparedM5(m1, m5, d1, plain), DOMAIN m5["spy"])
  BY PreparedM5Rows
<1>6. \A col \in DOMAIN Frames!PreparedD1(d1) :
        DOMAIN Frames!PreparedD1(d1)[col] \subseteq DOMAIN d1["spy"]
  BY <1>4, PreparedD1Rows
<1>. QED  BY <1>1, <1>2, <1>3, <1>5, <1>6 DEF OnRows

\* What is prepared follows what is stored, in sessions.
StoredInv == FramesInv /\ minuteDays \in Nat /\ dailyDays \in Nat

\* A decision of the past is a decision of the present: storing one more session
\* of minutes, or of daily bars, changes no row of a session whose daily bars were
\* there.
THEOREM PastStandsAlways == MCSpec => PastStands
<1>. DEFINE Stands == /\ \A col \in DOMAIN prepared.m5 : \A t \in DOMAIN prepared.m5[col] :
                           Frames!DayOf(t) < dailyDays => prepared'.m5[col][t] = prepared.m5[col][t]
                      /\ \A col \in DOMAIN prepared.d1 : \A t \in DOMAIN prepared.d1[col] :
                           prepared'.d1[col][t] = prepared.d1[col][t]
<1>1. MCInit => StoredInv
  BY DEF MCInit, Frames!Init, FramesInv, StoredInv
<1>2. StoredInv /\ [MCNext]_allVars =>
        StoredInv' /\ (Frames!StoreMinutes \/ Frames!StoreDailies \/ UNCHANGED Frames!vars)
  <2>. SUFFICES ASSUME StoredInv, [MCNext]_allVars
                PROVE  /\ StoredInv'
                       /\ Frames!StoreMinutes \/ Frames!StoreDailies \/ UNCHANGED Frames!vars
    OBVIOUS
  <2>1. CASE Frames!StoreMinutes
    BY <2>1, PreparedFollows DEF Frames!StoreMinutes, FramesInv, StoredInv
  <2>2. CASE Frames!StoreDailies
    BY <2>2, PreparedFollows DEF Frames!StoreDailies, FramesInv, StoredInv
  <2>3. CASE UNCHANGED frameVars
    BY <2>3, PreparedFollows DEF frameVars, Frames!vars, FramesInv, StoredInv
  <2>4. Frames!Next \/ UNCHANGED frameVars
    BY DEF MCNext, allVars, frameVars
  <2>. QED  BY <2>1, <2>2, <2>3, <2>4 DEF Frames!Next
<1>3. ASSUME StoredInv, NEW p \in Nat, NEW q \in Nat, prepared' = Frames!Prepare(p, q),
             \/ p = minuteDays + 1 /\ q = dailyDays
             \/ p = minuteDays /\ q = dailyDays + 1
      PROVE  Stands
  <2>1. /\ minuteDays \in Nat /\ dailyDays \in Nat /\ DayLen \in Nat \ {0}
        /\ minuteDays * DayLen \in Nat /\ dailyDays * DayLen \in Nat
        /\ prepared = Frames!Prepare(minuteDays, dailyDays)
    BY <1>3, Clocks DEF StoredInv, FramesInv
  <2>2. /\ \A col \in DOMAIN prepared.m5 : \A t \in DOMAIN prepared.m5[col] :
             t \in Nat /\ t < minuteDays * DayLen
        /\ \A col \in DOMAIN prepared.d1 : \A t \in DOMAIN prepared.d1[col] :
             t \in Nat /\ t < dailyDays * DayLen
    BY <2>1, PreparedRows
  <2>3. ASSUME NEW t \in Nat, Adds(minuteDays, p, t), Adds(dailyDays, q, t)
        PROVE  /\ AlikeFrames(prepared.m5, prepared'.m5, t)
               /\ AlikeFrames(prepared.d1, prepared'.d1, t)
    BY <1>3, <2>1, <2>3, PreparedStands
  <2>4. ASSUME NEW col \in DOMAIN prepared.m5, NEW t \in DOMAIN prepared.m5[col],
               Frames!DayOf(t) < dailyDays
        PROVE  prepared'.m5[col][t] = prepared.m5[col][t]
    <3>1. t \in Nat /\ t < minuteDays * DayLen
      BY <2>2
    <3>2. t < dailyDays * DayLen
      <4>1. /\ Frames!DayOf(t) \in Nat /\ t % DayLen \in 0 .. DayLen - 1
            /\ t = Frames!DayOf(t) * DayLen + (t % DayLen)
        BY <3>1, DaysAscend
      <4>2. /\ Frames!DayOf(t) * DayLen + DayLen <= dailyDays * DayLen
            /\ Frames!DayOf(t) * DayLen \in Nat
        BY <2>1, <2>4, <4>1, EarlierDays
      <4>. QED  BY <2>1, <4>1, <4>2
    <3>3. Adds(minuteDays, p, t) /\ Adds(dailyDays, q, t)
      BY <1>3, <3>1, <3>2 DEF Adds
    <3>4. Alike(prepared.m5[col], prepared'.m5[col], t)
      BY <2>3, <2>4, <3>1, <3>3 DEF AlikeFrames
    <3>. QED  BY <2>1, <3>1, <3>4 DEF Alike
  <2>5. ASSUME NEW col \in DOMAIN prepared.d1, NEW t \in DOMAIN prepared.d1[col]
        PROVE  prepared'.d1[col][t] = prepared.d1[col][t]
    <3>1. t \in Nat /\ t < dailyDays * DayLen
      BY <2>2
    <3>2. CASE p = minuteDays + 1
      <4>1. prepared.d1 = Frames!PreparedD1([s \in Frames!Symbols |-> Frames!DailyBars(s, dailyDays)])
        BY <2>1 DEF Frames!Prepare
      <4>2. q = dailyDays
        BY <1>3, <2>1, <3>2
      <4>3. prepared'.d1 = Frames!PreparedD1([s \in Frames!Symbols |-> Frames!DailyBars(s, dailyDays)])
        BY <1>3, <4>2 DEF Frames!Prepare
      <4>. QED  BY <4>1, <4>3
    <3>3. CASE p = minuteDays
      <4>1. Adds(minuteDays, p, t) /\ Adds(dailyDays, q, t)
        BY <1>3, <3>1, <3>3 DEF Adds
      <4>2. Alike(prepared.d1[col], prepared'.d1[col], t)
        BY <2>3, <2>5, <3>1, <4>1 DEF AlikeFrames
      <4>. QED  BY <3>1, <4>2 DEF Alike
    <3>. QED  BY <1>3, <3>2, <3>3
  <2>. QED  BY <2>4, <2>5
<1>4. StoredInv /\ [MCNext]_allVars => [Stands]_(Frames!vars)
  <2>. SUFFICES ASSUME StoredInv, [MCNext]_allVars, ~ UNCHANGED Frames!vars PROVE Stands
    OBVIOUS
  <2>1. minuteDays \in Nat /\ dailyDays \in Nat
    BY DEF StoredInv
  <2>2. CASE Frames!StoreMinutes
    <3>1. minuteDays + 1 \in Nat /\ prepared' = Frames!Prepare(minuteDays + 1, dailyDays)
      BY <2>1, <2>2 DEF Frames!StoreMinutes
    <3>. QED  BY <1>3, <2>1, <3>1
  <2>3. CASE Frames!StoreDailies
    <3>1. dailyDays + 1 \in Nat /\ prepared' = Frames!Prepare(minuteDays, dailyDays + 1)
      BY <2>1, <2>3 DEF Frames!StoreDailies
    <3>. QED  BY <1>3, <2>1, <3>1
  <2>. QED  BY <1>2, <2>2, <2>3
<1>5. MCSpec => [][Stands]_(Frames!vars)
  BY <1>1, <1>2, <1>4, PTL DEF MCSpec
<1>. QED  BY <1>5 DEF PastStands, Frames!PastStands
=============================================================================

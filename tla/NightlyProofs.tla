--------------------------- MODULE NightlyProofs ---------------------------
(***************************************************************************)
(* Proofs about NightlyScan, for any stocks, endpoints, coverage and       *)
(* number of days, with nights that die anywhere and are run again.  The   *)
(* invariant follows the transaction of the one connection: no write ever  *)
(* waits for a later commit, because a transaction that only reads is      *)
(* opened after save_scan and not before, and one that failed stops the    *)
(* night at save_scan.  And about UniverseScan, for any bars, corrections  *)
(* and gates: a snapshot that nothing disturbed is what a scan of its day  *)
(* would be now, because a scan reads nothing after its day, and what is   *)
(* written of the universe is the top of its ranking.                      *)
(***************************************************************************)
EXTENDS MCNightly, Sequences, FunctionTheorems, FiniteSetTheorems, WellFoundedInduction, TLAPS

Stages == {"idle", "capture", "archive", "assets", "save", "connect", "plan_maintenance",
           "maintain", "onboard", "close", "launch", "done"}

NightType ==
  [pc: Stages, asOf: 0..MaxDay, backdated: BOOLEAN, todo: SUBSET (Symbols \cup Endpoints),
   snapshots: BOOLEAN, scanSaved: BOOLEAN, newly: SUBSET Symbols]

Depth == [daily: {"none", "short", "mature"}, minute: BOOLEAN, hole: BOOLEAN]

\* What a stage knows of the night it belongs to.
StageInv ==
  /\ night \in NightType
  /\ ~At("idle") => night.asOf \in Dates
  /\ night.pc \in {"capture", "archive"} => night.asOf = today
  /\ At("archive") => night.todo \subseteq Endpoints
  /\ night.pc \in {"maintain", "onboard"} => night.todo \subseteq Symbols
  /\ At("maintain") => \A s \in night.todo : db.onboarded[s] # NoRow
  /\ At("save") => night.asOf \in Covered

\* What the connection sees is what is committed.
ConnectionInv ==
  /\ work = db
  /\ night.pc \in {"idle", "capture", "archive"} => txn = "idle"
  /\ night.pc \in {"assets", "save"} => txn \in {"idle", "failed"}

NightInv == StageInv /\ ConnectionInv /\ FlagsAndRuns /\ NightIsRecorded

-----------------------------------------------------------------------------
LEMMA InitNight == Init => NightInv
<1>. SUFFICES ASSUME Init PROVE NightInv
  OBVIOUS
<1>. USE NightlyConstants DEF Init
<1>1. StageInv
  BY DEF StageInv, NightType, NoNight, Stages, At
<1>2. ConnectionInv
  BY DEF ConnectionInv, NoNight
<1>3. TypeOK
  <2>1. db \in Tables
    <3>1. [d \in Dates |-> [e \in Endpoints |-> 0]] \in [Dates -> [Endpoints -> 0..MaxDay]]
      OBVIOUS
    <3>2. [s \in Symbols |-> NoRow] \in [Symbols -> Flags \cup {NoRow}]
      OBVIOUS
    <3>. QED  BY <3>1, <3>2 DEF Tables
  <2>2. 1 \in Dates /\ 0 \in 0..MaxDay
    BY DEF Dates
  <2>3. writer \in BOOLEAN
    BY Zenon
  <2>. QED  BY <2>1, <2>2, <2>3 DEF TypeOK, NoNight
<1>4. FlagsMatchBars /\ RunsAreMature /\ LaunchFindsNoWriter
  BY DEF FlagsMatchBars, RunsAreMature, LaunchFindsNoWriter, NoRow
<1>5. NightIsRecorded
  BY DEF NightIsRecorded, GenuineSnapshots, RefusedNightsLeaveNoScan, ScanSavedIsDurable,
         NoNight
<1>. QED  BY <1>1, <1>2, <1>3, <1>4, <1>5 DEF NightInv, FlagsAndRuns

\* A stage that writes nothing keeps what the stores say of each other.
LEMMA StoresKeep ==
  ASSUME NightInv, UNCHANGED <<db, work, stored>>,
         today' \in Dates, txn' \in {"idle", "open", "failed"}, writer' \in BOOLEAN,
         night'.asOf \in 0..MaxDay,
         night'.pc = "launch" => ~writer',
         night'.scanSaved => night.scanSaved /\ night'.asOf = night.asOf
  PROVE  FlagsAndRuns' /\ NightIsRecorded'
<1>. USE DEF NightInv, FlagsAndRuns, NightIsRecorded
<1>1. TypeOK'
  BY DEF TypeOK, Tables
<1>2. FlagsMatchBars' /\ RunsAreMature' /\ LaunchFindsNoWriter'
  BY DEF FlagsMatchBars, RunsAreMature, LaunchFindsNoWriter, At
<1>3. GenuineSnapshots' /\ RefusedNightsLeaveNoScan' /\ ScanSavedIsDurable'
  BY DEF GenuineSnapshots, RefusedNightsLeaveNoScan, ScanSavedIsDurable
<1>. QED  BY <1>1, <1>2, <1>3

\* A stage that only hands over to the next one.
LEMMA HandsOver ==
  ASSUME NightInv, night.pc # "idle",
         NEW to \in {"assets", "connect", "plan_maintenance", "close", "launch", "done"},
         night' = [night EXCEPT !.pc = to],
         UNCHANGED <<today, db, work, stored>>,
         txn' \in {"idle", "open", "failed"}, to = "assets" => txn' # "open",
         writer' \in BOOLEAN, to = "launch" => ~writer'
  PROVE  NightInv'
<1>1. /\ night \in NightType /\ night.asOf \in Dates /\ work = db /\ today \in Dates
  BY DEF NightInv, StageInv, ConnectionInv, FlagsAndRuns, TypeOK, At
<1>2. to \in Stages
  BY DEF Stages
<1>3. /\ night' \in NightType /\ night'.pc = to /\ night'.asOf = night.asOf
      /\ night'.scanSaved = night.scanSaved /\ night'.todo = night.todo
  BY <1>1, <1>2 DEF NightType
<1>4. Dates' = Dates
  BY DEF Dates
<1>5. StageInv' /\ ConnectionInv'
  BY <1>1, <1>3, <1>4 DEF StageInv, ConnectionInv, At
<1>6. FlagsAndRuns' /\ NightIsRecorded'
  <2>1. night'.asOf \in 0..MaxDay /\ today' \in Dates
    BY <1>1, <1>3 DEF NightType
  <2>. QED  BY <1>3, <2>1, StoresKeep
<1>. QED  BY <1>5, <1>6 DEF NightInv

LEMMA ReadingStages ==
  ASSUME NightInv,
         \/ NextDay \/ (\E d \in 1..today : Start(d)) \/ Capture \/ ArchiveFails \/ Scan
         \/ Connect \/ PlanMaintenance \/ PlanOnboarding \/ OnboardedAll \/ Close \/ Return
         \/ UNCHANGED vars
  PROVE  NightInv'
<1>. USE NightlyConstants
<1>0. /\ TypeOK /\ StageInv /\ ConnectionInv
      /\ today \in Dates /\ txn \in {"idle", "open", "failed"} /\ writer \in BOOLEAN
      /\ night \in NightType
  BY DEF NightInv, FlagsAndRuns, TypeOK, StageInv
<1>1. CASE NextDay
  <2>. USE <1>1 DEF NextDay, At
  <2>1. today' \in Dates
    BY <1>0 DEF Dates
  <2>2. StageInv' /\ ConnectionInv'
    BY <1>0, <2>1 DEF StageInv, ConnectionInv, Dates
  <2>3. FlagsAndRuns' /\ NightIsRecorded'
    BY <1>0, <2>1, StoresKeep DEF NightType
  <2>. QED  BY <2>2, <2>3 DEF NightInv
<1>2. ASSUME NEW d \in 1..today, Start(d) PROVE NightInv'
  <2>. USE <1>2 DEF Start, At
  <2>1. d \in Dates /\ Dates \subseteq 0..MaxDay /\ Dates' = Dates
    <3>1. today \in 1..MaxDay /\ d \in 1..today
      BY <1>0, <1>2 DEF Dates
    <3>2. d \in Dates /\ Dates \subseteq 0..MaxDay
      BY ONLY <3>1, NightlyConstants DEF Dates
    <3>. QED  BY ONLY <3>2 DEF Dates
  <2>2. /\ night' \in NightType
        /\ night'.pc = (IF Backdated(d) THEN "assets" ELSE "capture")
        /\ night'.asOf = d /\ ~night'.scanSaved
    BY <2>1 DEF NightType, NoNight, Stages, Backdated
  <2>3. StageInv' /\ ConnectionInv'
    <3>1. /\ txn' = "idle" /\ work' = db' /\ today' = today
          /\ night'.pc = "capture" => d = today
          /\ night'.pc \in {"assets", "capture"}
      <4>1. txn' = "idle" /\ work' = db' /\ today' = today
        BY <1>0 DEF ConnectionInv
      <4>2. /\ night'.pc = "capture" => d = today
            /\ night'.pc \in {"assets", "capture"}
        BY ONLY <2>2 DEF Backdated
      <4>. QED  BY ONLY <4>1, <4>2
    <3>. QED  BY ONLY <2>1, <2>2, <3>1 DEF StageInv, ConnectionInv, At
  <2>4. FlagsAndRuns' /\ NightIsRecorded'
    <3>1. night'.asOf \in 0..MaxDay /\ night'.pc # "launch"
      BY ONLY <2>1, <2>2
    <3>2. UNCHANGED <<today, db, work, stored, txn, writer>>
      OBVIOUS
    <3>. QED  BY ONLY NightInv, <1>0, <2>2, <3>1, <3>2, StoresKeep
  <2>. QED  BY <2>3, <2>4 DEF NightInv
<1>4. CASE Capture
  <2>. USE <1>4 DEF Capture, GoTo, At
  <2>1. CASE night' = [night EXCEPT !.pc = "assets"]
    <3>1. txn' = "idle"
      BY <1>0 DEF ConnectionInv
    <3>2. /\ UNCHANGED <<today, db, work, stored>> /\ txn' # "open" /\ writer' \in BOOLEAN
          /\ night.pc # "idle" /\ txn' \in {"idle", "open", "failed"}
      BY <1>0, <3>1
    <3>. QED  BY ONLY NightInv, <2>1, <3>2, HandsOver
  <2>2. CASE night' = [night EXCEPT !.pc = "archive", !.todo = Endpoints, !.snapshots = TRUE]
    <3>1. /\ night' \in NightType /\ night'.pc = "archive" /\ night'.todo = Endpoints
          /\ night'.asOf = night.asOf /\ night'.scanSaved = night.scanSaved
      BY <1>0, <2>2 DEF NightType, Stages
    <3>2. StageInv' /\ ConnectionInv'
      BY <1>0, <3>1 DEF StageInv, ConnectionInv, Dates
    <3>3. FlagsAndRuns' /\ NightIsRecorded'
      BY <1>0, <3>1, StoresKeep DEF NightType
    <3>. QED  BY <3>2, <3>3 DEF NightInv
  <2>. QED  BY <2>1, <2>2
<1>5. CASE ArchiveFails
  <2>1. /\ night' = [night EXCEPT !.pc = "assets"] /\ night.pc # "idle"
        /\ txn' \in {"idle", "failed"} /\ UNCHANGED <<today, db, work, stored, writer>>
    BY <1>0, <1>5 DEF ArchiveFails, GoTo, At, ConnectionInv
  <2>. QED  BY ONLY NightInv, <1>0, <2>1, HandsOver
<1>6. CASE Scan
  <2>. USE <1>6 DEF Scan, GoTo, At
  <2>1. /\ night' \in NightType /\ night'.pc = "save"
        /\ night'.asOf = night.asOf /\ night'.scanSaved = night.scanSaved
    BY <1>0 DEF NightType, Stages
  <2>2. StageInv' /\ ConnectionInv'
    BY <1>0, <2>1 DEF StageInv, ConnectionInv, Refuses, Dates
  <2>3. FlagsAndRuns' /\ NightIsRecorded'
    BY <1>0, <2>1, StoresKeep DEF NightType
  <2>. QED  BY <2>2, <2>3 DEF NightInv
<1>7. CASE Connect
  <2>1. /\ \/ night' = [night EXCEPT !.pc = "plan_maintenance"]
           \/ night' = [night EXCEPT !.pc = "done"]
        /\ night.pc # "idle" /\ writer' \in BOOLEAN
        /\ UNCHANGED <<today, db, work, stored, txn>>
    BY <1>0, <1>7 DEF Connect, GoTo, At
  <2>. QED  BY ONLY NightInv, <1>0, <2>1, HandsOver
<1>8. CASE PlanMaintenance
  <2>. USE <1>8 DEF PlanMaintenance, Read, At
  <2>1. Flagged("insufficient") \cup Holes \subseteq Symbols
    BY DEF Flagged, Holes
  <2>2. /\ night' \in NightType /\ night'.pc = "maintain"
        /\ night'.todo = Flagged("insufficient") \cup Holes
        /\ night'.asOf = night.asOf /\ night'.scanSaved = night.scanSaved
    BY <1>0, <2>1 DEF NightType, Stages
  <2>3. \A s \in night'.todo : db.onboarded[s] # NoRow
    BY <1>0, <2>2 DEF Flagged, Holes, NoRow, ConnectionInv
  <2>4. StageInv' /\ ConnectionInv'
    BY <1>0, <2>1, <2>2, <2>3 DEF StageInv, ConnectionInv, Dates
  <2>5. FlagsAndRuns' /\ NightIsRecorded'
    BY <1>0, <2>2, StoresKeep DEF NightType
  <2>. QED  BY <2>4, <2>5 DEF NightInv
<1>9. CASE PlanOnboarding
  <2>. USE <1>9 DEF PlanOnboarding, Read, At, GoTo
  <2>1. CASE night' = [night EXCEPT !.pc = "close"]
    <3>1. /\ night.pc # "idle" /\ UNCHANGED <<today, db, work, stored, writer>>
          /\ txn' \in {"idle", "open", "failed"}
      BY <1>0
    <3>. QED  BY ONLY NightInv, <1>0, <2>1, <3>1, HandsOver
  <2>2. ASSUME NEW candidates \in SUBSET Flagged(NoRow),
               night' = [night EXCEPT !.pc = "onboard", !.todo = candidates]
        PROVE  NightInv'
    <3>1. candidates \subseteq Symbols
      BY DEF Flagged
    <3>2. /\ night' \in NightType /\ night'.pc = "onboard" /\ night'.todo = candidates
          /\ night'.asOf = night.asOf /\ night'.scanSaved = night.scanSaved
      BY <1>0, <2>2, <3>1 DEF NightType, Stages
    <3>3. /\ UNCHANGED <<today, db, work, stored, writer>>
          /\ txn' \in {"idle", "open", "failed"}
      BY <1>0
    <3>4. StageInv' /\ ConnectionInv'
      BY <1>0, <3>1, <3>2, <3>3 DEF StageInv, ConnectionInv, Dates
    <3>5. FlagsAndRuns' /\ NightIsRecorded'
      BY <1>0, <3>2, <3>3, StoresKeep DEF NightType
    <3>. QED  BY <3>4, <3>5 DEF NightInv
  <2>. QED  BY <2>1, <2>2
<1>10. CASE OnboardedAll
  <2>1. /\ night' = [night EXCEPT !.pc = "close"] /\ night.pc # "idle"
        /\ UNCHANGED <<today, db, work, stored, txn, writer>>
    BY <1>10 DEF OnboardedAll, GoTo, At
  <2>. QED  BY ONLY NightInv, <1>0, <2>1, HandsOver
<1>11. CASE Close
  <2>1. /\ \/ night' = [night EXCEPT !.pc = "launch"]
           \/ night' = [night EXCEPT !.pc = "done"]
        /\ night.pc # "idle" /\ ~writer' /\ writer' \in BOOLEAN
        /\ UNCHANGED <<today, db, work, stored, txn>>
    BY <1>11 DEF Close, GoTo, At
  <2>. QED  BY ONLY NightInv, <1>0, <2>1, HandsOver
<1>12. CASE Return
  <2>. USE <1>12 DEF Return, At
  <2>1. night' \in NightType /\ night'.pc = "idle" /\ ~night'.scanSaved
        /\ night'.asOf = 0 /\ txn' = "idle" /\ writer' \in BOOLEAN
    <3>1. /\ night' \in NightType /\ night'.pc = "idle" /\ night'.scanSaved = FALSE
          /\ night'.asOf = 0
      BY DEF NightType, NoNight, Stages
    <3>. QED  BY <3>1
  <2>2. UNCHANGED <<today, db, work, stored>>
    BY <1>0 DEF ConnectionInv
  <2>3. StageInv' /\ ConnectionInv'
    BY <1>0, <2>1, <2>2 DEF StageInv, ConnectionInv
  <2>4. FlagsAndRuns' /\ NightIsRecorded'
    <3>1. night'.asOf \in 0..MaxDay
      BY <2>1
    <3>. QED  BY ONLY NightInv, <1>0, <2>1, <2>2, <3>1, StoresKeep
  <2>. QED  BY <2>3, <2>4 DEF NightInv
<1>13. CASE UNCHANGED vars
  <2>1. StageInv' /\ ConnectionInv'
    BY <1>0, <1>13 DEF StageInv, ConnectionInv, At, vars, Dates
  <2>2. FlagsAndRuns' /\ NightIsRecorded'
    BY <1>0, <1>13, StoresKeep DEF NightType, vars, NightInv, FlagsAndRuns,
       LaunchFindsNoWriter, At
  <2>. QED  BY <2>1, <2>2 DEF NightInv
<1>. QED
  BY <1>1, <1>2, <1>4, <1>5, <1>6, <1>7, <1>8, <1>9, <1>10, <1>11, <1>12, <1>13

-----------------------------------------------------------------------------
\* save_screener_snapshot and save_scan.
LEMMA ArchiveKeeps == ASSUME NightInv, Archive PROVE NightInv'
<1>. USE NightlyConstants DEF NightInv, FlagsAndRuns, NightIsRecorded, At
<1>1. PICK e \in night.todo :
        /\ Commit([work EXCEPT !.screener[night.asOf][e] = today])
        /\ night' = [night EXCEPT !.todo = @ \ {e},
                                  !.pc = IF night.todo = {e} THEN "assets" ELSE @]
  BY DEF Archive
<1>2. /\ night.pc = "archive" /\ night \in NightType /\ UNCHANGED <<today, stored, writer>>
      /\ night.asOf = today /\ today \in Dates /\ e \in Endpoints
      /\ work = db /\ txn = "idle" /\ db \in Tables
  BY DEF Archive, StageInv, ConnectionInv, TypeOK
<1>3. /\ night' \in NightType /\ night'.pc \in {"archive", "assets"}
      /\ night'.todo \subseteq night.todo
      /\ night'.asOf = night.asOf /\ night'.scanSaved = night.scanSaved
  BY <1>1, <1>2 DEF NightType, Stages
<1>4. /\ work' = db' /\ txn' = "idle"
      /\ db' = [db EXCEPT !.screener[today][e] = today]
  BY <1>1, <1>2 DEF Commit
<1>5. /\ db'.scans = db.scans /\ db'.onboarded = db.onboarded /\ db'.runs = db.runs
      /\ \A d \in Dates, f \in Endpoints :
           db'.screener[d][f] = IF d = today /\ f = e THEN today ELSE db.screener[d][f]
      /\ db' \in Tables
  <2>1. today \in 0..MaxDay
    BY <1>2 DEF Dates
  <2>2. db.screener \in [Dates -> [Endpoints -> 0..MaxDay]]
    BY <1>2 DEF Tables
  <2>3. db'.screener = [db.screener EXCEPT ![today][e] = today]
    BY <1>2, <1>4 DEF Tables
  <2>4. db'.screener \in [Dates -> [Endpoints -> 0..MaxDay]]
    BY <1>2, <2>1, <2>2, <2>3
  <2>5. /\ db'.scans = db.scans /\ db'.onboarded = db.onboarded /\ db'.runs = db.runs
        /\ db' = [screener |-> db'.screener, scans |-> db'.scans,
                  onboarded |-> db'.onboarded, runs |-> db'.runs]
    BY <1>2, <1>4 DEF Tables
  <2>6. db' \in Tables
    BY <1>2, <2>4, <2>5 DEF Tables
  <2>. QED  BY <1>2, <2>2, <2>3, <2>5, <2>6
<1>6. StageInv' /\ ConnectionInv'
  BY <1>2, <1>3, <1>4 DEF StageInv, ConnectionInv
<1>7. TypeOK'
  BY <1>2, <1>3, <1>4, <1>5 DEF TypeOK, NightType
<1>8. FlagsMatchBars' /\ RunsAreMature' /\ LaunchFindsNoWriter'
  BY <1>2, <1>3, <1>5 DEF FlagsMatchBars, RunsAreMature, LaunchFindsNoWriter
<1>9. GenuineSnapshots' /\ RefusedNightsLeaveNoScan' /\ ScanSavedIsDurable'
  BY <1>2, <1>3, <1>5 DEF GenuineSnapshots, RefusedNightsLeaveNoScan, ScanSavedIsDurable
<1>. QED  BY <1>6, <1>7, <1>8, <1>9

LEMMA SaveScanKeeps == ASSUME NightInv, SaveScan PROVE NightInv'
<1>. USE NightlyConstants DEF NightInv, FlagsAndRuns, NightIsRecorded, At
<1>1. /\ night.pc = "save" /\ night \in NightType /\ UNCHANGED <<today, stored, writer>>
      /\ night.asOf \in Dates /\ night.asOf \in Covered
      /\ work = db /\ txn # "open" /\ db \in Tables /\ today \in Dates
      /\ night' = [night EXCEPT !.scanSaved = TRUE,
                                !.pc = IF night.backdated THEN "done" ELSE "connect"]
  BY DEF SaveScan, StageInv, ConnectionInv, TypeOK
<1>2. /\ night' \in NightType /\ night'.pc \in {"done", "connect"}
      /\ night'.asOf = night.asOf
  BY <1>1 DEF NightType, Stages
<1>3. /\ work' = db' /\ txn' = "idle"
      /\ db' = [db EXCEPT !.scans = @ \cup {night.asOf}]
  BY <1>1 DEF SaveScan, Commit
<1>4. /\ db'.scans = db.scans \cup {night.asOf} /\ db'.onboarded = db.onboarded
      /\ db'.runs = db.runs /\ db'.screener = db.screener /\ db' \in Tables
  BY <1>1, <1>3 DEF Tables
<1>5. StageInv' /\ ConnectionInv'
  BY <1>1, <1>2, <1>3 DEF StageInv, ConnectionInv
<1>6. TypeOK'
  BY <1>1, <1>2, <1>3, <1>4 DEF TypeOK, NightType
<1>7. FlagsMatchBars' /\ RunsAreMature' /\ LaunchFindsNoWriter'
  BY <1>1, <1>2, <1>4 DEF FlagsMatchBars, RunsAreMature, LaunchFindsNoWriter
<1>8. GenuineSnapshots' /\ RefusedNightsLeaveNoScan' /\ ScanSavedIsDurable'
  BY <1>1, <1>2, <1>4 DEF GenuineSnapshots, RefusedNightsLeaveNoScan, ScanSavedIsDurable
<1>. QED  BY <1>5, <1>6, <1>7, <1>8

-----------------------------------------------------------------------------
\* A visit adds bars, whatever becomes of it.
LEMMA VisitsDeepen ==
  ASSUME TypeOK, NEW s \in Symbols, NEW v \in Visited(s)
  PROVE  /\ v \in Depth
         /\ stored[s].daily = "mature" => v.daily = "mature"
         /\ stored[s].daily # "none" => v.daily # "none"
         /\ stored[s].minute => v.minute
<1>1. stored[s] \in Depth /\ v \in Depth
  BY DEF TypeOK, Visited, Depth
<1>2. Rank(v.daily) >= Rank(stored[s].daily)
  BY DEF Visited
<1>. QED  BY <1>1, <1>2 DEF Depth, Rank, Visited

\* update_onboarded and record_onboarded write a flag that says what is stored; a
\* visit that failed leaves flag and history as they were, and more bars.
LEMMA VisitKeeps ==
  ASSUME NightInv, NEW s \in Symbols, NEW v \in Visited(s),
         stored' = [stored EXCEPT ![s] = v],
         UNCHANGED <<today, writer>>,
         \/ /\ v.daily # "none" /\ v.minute
            /\ Commit([work EXCEPT !.onboarded[s] = Flag(v)])
         \/ UNCHANGED <<db, work, txn>>,
         night' \in NightType, night'.pc = night.pc, night'.asOf = night.asOf,
         night'.scanSaved = night.scanSaved, night'.todo \subseteq night.todo,
         night.pc \in {"maintain", "onboard"}
  PROVE  NightInv'
<1>. USE NightlyConstants DEF NightInv, FlagsAndRuns, NightIsRecorded, At
<1>1. /\ work = db /\ db \in Tables /\ TypeOK /\ night \in NightType
  BY DEF ConnectionInv, TypeOK, StageInv
<1>2. /\ v \in Depth
      /\ stored[s].daily = "mature" => v.daily = "mature"
      /\ stored[s].daily # "none" => v.daily # "none"
      /\ stored[s].minute => v.minute
  BY <1>1, VisitsDeepen
<1>3. stored' \in [Symbols -> Depth]
  BY <1>1, <1>2 DEF TypeOK, Depth
<1>4. \A t \in Symbols : stored'[t] = IF t = s THEN v ELSE stored[t]
  BY <1>1 DEF TypeOK
<1>5. /\ db'.screener = db.screener /\ db'.scans = db.scans /\ db'.runs = db.runs
      /\ work' = db' /\ db' \in Tables /\ txn' \in {"idle", txn}
      /\ \A t \in Symbols :
           \/ db'.onboarded[t] = db.onboarded[t]
           \/ /\ t = s /\ v.daily # "none" /\ v.minute /\ db'.onboarded[t] = Flag(v)
  <2>1. CASE UNCHANGED <<db, work, txn>>
    BY <1>1, <2>1
  <2>2. CASE /\ v.daily # "none" /\ v.minute
             /\ Commit([work EXCEPT !.onboarded[s] = Flag(v)])
    <3>1. Flag(v) \in Flags
      BY DEF Flag, Flags
    <3>2. /\ db' = [db EXCEPT !.onboarded = [@ EXCEPT ![s] = Flag(v)]]
          /\ work' = db' /\ txn' = "idle"
      BY <1>1, <2>2 DEF Commit
    <3>. QED  BY <1>1, <2>2, <3>1, <3>2 DEF Tables
  <2>. QED  BY <2>1, <2>2
<1>6. \A r \in db.runs : r \subseteq Symbols
  BY <1>1 DEF Tables
<1>7. StageInv'
  <2>1. ASSUME night.pc = "maintain", NEW t \in night'.todo
        PROVE  db'.onboarded[t] # NoRow
    <3>1. t \in Symbols /\ db.onboarded[t] # NoRow
      BY <2>1 DEF StageInv
    <3>. QED  BY <1>5, <3>1 DEF Flag, NoRow
  <2>. QED  BY <2>1 DEF StageInv, Dates
<1>8. ConnectionInv'
  BY <1>5 DEF ConnectionInv
<1>9. TypeOK'
  BY <1>1, <1>3, <1>5 DEF TypeOK, Depth, NightType
<1>10. FlagsMatchBars'
  <2>. SUFFICES ASSUME NEW t \in Symbols, db'.onboarded[t] # NoRow
                PROVE  /\ stored'[t].daily # "none" /\ stored'[t].minute
                       /\ db'.onboarded[t] = "sufficient" => stored'[t].daily = "mature"
    BY DEF FlagsMatchBars
  <2>1. CASE t # s
    BY <1>4, <1>5, <2>1 DEF FlagsMatchBars
  <2>2. CASE t = s /\ db'.onboarded[t] = db.onboarded[t]
    BY <1>2, <1>4, <2>2 DEF FlagsMatchBars
  <2>3. CASE t = s /\ v.daily # "none" /\ v.minute /\ db'.onboarded[t] = Flag(v)
    BY <1>4, <2>3 DEF Flag
  <2>. QED  BY <1>5, <2>1, <2>2, <2>3
<1>11. RunsAreMature'
  BY <1>2, <1>4, <1>5, <1>6 DEF RunsAreMature
<1>12. LaunchFindsNoWriter' /\ GenuineSnapshots' /\ RefusedNightsLeaveNoScan'
       /\ ScanSavedIsDurable'
  BY <1>5 DEF LaunchFindsNoWriter, GenuineSnapshots, RefusedNightsLeaveNoScan,
             ScanSavedIsDurable
<1>. QED  BY <1>7, <1>8, <1>9, <1>10, <1>11, <1>12

LEMMA MaintainKeeps ==
  ASSUME NightInv, NEW s \in Symbols, Maintain(s) PROVE NightInv'
<1>1. PICK v \in Visited(s) :
        /\ stored' = [stored EXCEPT ![s] = v]
        /\ \/ Commit([work EXCEPT !.onboarded[s] = Flag(v)])
           \/ UNCHANGED <<db, work, txn>>
  BY DEF Maintain
<1>2. /\ night.pc = "maintain" /\ night \in NightType /\ s \in night.todo
      /\ TypeOK /\ FlagsMatchBars /\ db.onboarded[s] # NoRow
      /\ night' = [night EXCEPT !.todo = @ \ {s}] /\ UNCHANGED <<today, writer>>
  BY DEF Maintain, At, NightInv, StageInv, FlagsAndRuns
<1>3. v.daily # "none" /\ v.minute
  BY <1>2, VisitsDeepen DEF FlagsMatchBars
<1>4. /\ night' \in NightType /\ night'.pc = night.pc /\ night'.asOf = night.asOf
      /\ night'.scanSaved = night.scanSaved /\ night'.todo \subseteq night.todo
  BY <1>2 DEF NightType
<1>. QED  BY <1>1, <1>2, <1>3, <1>4, VisitKeeps

LEMMA OnboardKeeps ==
  ASSUME NightInv, NEW s \in Symbols, Onboard(s) PROVE NightInv'
<1>1. PICK v \in Visited(s) :
        /\ stored' = [stored EXCEPT ![s] = v]
        /\ \/ /\ Complete(v)
              /\ Commit([work EXCEPT !.onboarded[s] = Flag(v)])
              /\ night' = [night EXCEPT !.todo = @ \ {s}, !.newly = @ \cup {s}]
           \/ /\ UNCHANGED <<db, work, txn>>
              /\ night' = [night EXCEPT !.todo = @ \ {s}]
  BY DEF Onboard
<1>2. night.pc = "onboard" /\ night \in NightType /\ UNCHANGED <<today, writer>>
  BY DEF Onboard, At, NightInv, StageInv
<1>3. /\ night' \in NightType /\ night'.pc = night.pc /\ night'.asOf = night.asOf
      /\ night'.scanSaved = night.scanSaved /\ night'.todo \subseteq night.todo
  <2>1. \/ night' = [night EXCEPT !.todo = @ \ {s}, !.newly = @ \cup {s}]
        \/ night' = [night EXCEPT !.todo = @ \ {s}]
    BY <1>1
  <2>2. /\ night.todo \ {s} \in SUBSET (Symbols \cup Endpoints)
        /\ night.newly \cup {s} \in SUBSET Symbols
    BY <1>2 DEF NightType
  <2>. QED  BY ONLY <1>2, <2>1, <2>2 DEF NightType
<1>. QED  BY <1>1, <1>2, <1>3, VisitKeeps DEF Complete

LEMMA LaunchKeeps == ASSUME NightInv, LaunchRun PROVE NightInv'
<1>. USE NightlyConstants DEF NightInv, FlagsAndRuns, NightIsRecorded, At
<1>1. /\ night.pc = "launch" /\ night \in NightType /\ UNCHANGED <<today, stored, writer>>
      /\ work = db /\ db \in Tables /\ TypeOK
      /\ night' = [night EXCEPT !.pc = "done"]
  BY DEF LaunchRun, GoTo, StageInv, ConnectionInv, TypeOK
<1>2. /\ night' \in NightType /\ night'.pc = "done" /\ night'.asOf = night.asOf
      /\ night'.scanSaved = night.scanSaved
  BY <1>1 DEF NightType, Stages
<1>3. /\ RunSymbols \subseteq Symbols
      /\ \A s \in RunSymbols : stored[s].daily = "mature"
  BY <1>1 DEF RunSymbols, Flagged, FlagsMatchBars, NoRow
<1>4. /\ db'.screener = db.screener /\ db'.scans = db.scans
      /\ db'.onboarded = db.onboarded /\ db'.runs \subseteq db.runs \cup {RunSymbols}
      /\ work' = db' /\ db' \in Tables /\ txn' \in {"idle", "open", "failed"}
  <2>1. CASE RunSymbols = {}
    BY <1>1, <2>1 DEF LaunchRun, Read, TypeOK
  <2>2. CASE RunSymbols # {}
    <3>1. /\ db' = [db EXCEPT !.runs = @ \cup {RunSymbols}]
          /\ work' = db' /\ txn' = "idle"
      BY <1>1, <2>2 DEF LaunchRun, Commit
    <3>. QED  BY <1>1, <1>3, <3>1 DEF Tables
  <2>. QED  BY <2>1, <2>2
<1>5. StageInv' /\ ConnectionInv'
  BY <1>1, <1>2, <1>4 DEF StageInv, ConnectionInv, Dates
<1>6. TypeOK'
  BY <1>1, <1>2, <1>4 DEF TypeOK, NightType
<1>7. FlagsMatchBars' /\ LaunchFindsNoWriter'
  BY <1>1, <1>2, <1>4 DEF FlagsMatchBars, LaunchFindsNoWriter
<1>8. RunsAreMature'
  BY <1>1, <1>3, <1>4 DEF RunsAreMature
<1>9. GenuineSnapshots' /\ RefusedNightsLeaveNoScan' /\ ScanSavedIsDurable'
  BY <1>2, <1>4 DEF GenuineSnapshots, RefusedNightsLeaveNoScan, ScanSavedIsDurable
<1>. QED  BY <1>5, <1>6, <1>7, <1>8, <1>9

-----------------------------------------------------------------------------
LEMMA NextNight == NightInv /\ [Next]_vars => NightInv'
  BY ReadingStages, ArchiveKeeps, SaveScanKeeps, MaintainKeeps, OnboardKeeps, LaunchKeeps
  DEF Next

LEMMA NightInvariant == Spec => []NightInv
  BY InitNight, NextNight, PTL DEF Spec

\* What Postgres says of a night is what happened in it, wherever nights die and
\* however often they are run again: no snapshot of another day's market, no scan of a
\* day the vendor did not cover, and a scan that was reported saved is committed.
THEOREM NightIsRecordedAlways == Spec => []NightIsRecorded
<1>1. NightInv => NightIsRecorded
  BY DEF NightInv
<1>. QED  BY <1>1, NightInvariant, PTL

\* Flags, bars and runs agree through every failed, repeated or killed visit, and the
\* run is launched when the warehouse is let go of.
THEOREM FlagsAndRunsAlways == Spec => []FlagsAndRuns
<1>1. NightInv => FlagsAndRuns
  BY DEF NightInv
<1>. QED  BY <1>1, NightInvariant, PTL

-----------------------------------------------------------------------------
\* Induction over the natural numbers, for a set.
LEMMA NatInSet ==
  ASSUME NEW T, 0 \in T, \A k \in Nat : k \in T => k + 1 \in T
  PROVE  Nat \subseteq T
<1>. SUFFICES ASSUME Nat \ T # {} PROVE FALSE
  OBVIOUS
<1>1. IsWellFoundedOn(OpToRel(<, Nat), Nat)
  BY NatLessThanWellFounded
<1>2. PICK m \in Nat \ T : \A k \in Nat \ T : <<k, m>> \notin OpToRel(<, Nat)
  BY <1>1, WFMin
<1>3. m # 0 /\ m - 1 \in Nat /\ m - 1 < m
  OBVIOUS
<1>4. m - 1 \in T
  BY <1>2, <1>3 DEF OpToRel
<1>. QED  BY <1>3, <1>4

-----------------------------------------------------------------------------
\* The sum of a function into the naturals, as SumFunction unfolds it: the set that is
\* left loses the element that is chosen of it.
Chosen(s) == CHOOSE x \in s : TRUE
Summed(f, fun) ==
  f = [s \in SUBSET (DOMAIN fun) |->
         IF s = {} THEN 0 ELSE fun[Chosen(s)] + f[s \ {Chosen(s)}]]

LEMMA OneLess ==
  ASSUME NEW S, IsFiniteSet(S), NEW s \in SUBSET S
  PROVE  /\ Cardinality(s) \in Nat /\ Cardinality(s) <= Cardinality(S)
         /\ Cardinality(s) = 0 <=> s = {}
         /\ s # {} => /\ Chosen(s) \in s /\ s \ {Chosen(s)} \in SUBSET S
                      /\ Cardinality(s \ {Chosen(s)}) = Cardinality(s) - 1
<1>1. IsFiniteSet(s) /\ Cardinality(s) \in Nat /\ Cardinality(s) <= Cardinality(S)
  BY FS_Subset, FS_CardinalityType
<1>2. Cardinality(s) = 0 <=> s = {}
  BY <1>1, FS_EmptySet
<1>3. s # {} => Chosen(s) \in s
  BY DEF Chosen
<1>4. \A x \in s : Cardinality(s \ {x}) = Cardinality(s) - 1
  BY <1>1, FS_RemoveElement
<1>. QED  BY <1>1, <1>2, <1>3, <1>4

LEMMA SumExists ==
  ASSUME NEW S, IsFiniteSet(S), NEW fun \in [S -> Nat]
  PROVE  \E f \in [SUBSET S -> Nat] : Summed(f, fun)
<1>. DEFINE Follows(f, s) == f[s] = IF s = {} THEN 0 ELSE fun[Chosen(s)] + f[s \ {Chosen(s)}]
            P(k) == \E f \in [SUBSET S -> Nat] :
                      \A s \in SUBSET S : Cardinality(s) <= k => Follows(f, s)
            T == {k \in Nat : P(k)}
<1>1. P(0)
  <2>. DEFINE f == [s \in SUBSET S |-> 0]
  <2>1. ASSUME NEW s \in SUBSET S, Cardinality(s) <= 0 PROVE Follows(f, s)
    <3>1. Cardinality(s) \in Nat /\ (Cardinality(s) = 0 <=> s = {})
      BY OneLess, Zenon
    <3>2. s = {}
      BY <2>1, <3>1
    <3>. QED  BY <3>2
  <2>2. f \in [SUBSET S -> Nat]
    OBVIOUS
  <2>. QED  BY <2>1, <2>2
<1>2. ASSUME NEW k \in Nat, P(k) PROVE P(k + 1)
  <2>1. PICK f \in [SUBSET S -> Nat] :
          \A s \in SUBSET S : Cardinality(s) <= k => Follows(f, s)
    BY <1>2
  <2>. DEFINE g == [s \in SUBSET S |-> IF Cardinality(s) = k + 1
                                      THEN fun[Chosen(s)] + f[s \ {Chosen(s)}] ELSE f[s]]
  <2>2. g \in [SUBSET S -> Nat]
    <3>. SUFFICES ASSUME NEW s \in SUBSET S, Cardinality(s) = k + 1
                  PROVE  fun[Chosen(s)] + f[s \ {Chosen(s)}] \in Nat
      OBVIOUS
    <3>1. Chosen(s) \in S /\ s \ {Chosen(s)} \in SUBSET S
      BY OneLess
    <3>. QED  BY <3>1
  <2>3. ASSUME NEW s \in SUBSET S, Cardinality(s) <= k + 1 PROVE Follows(g, s)
    <3>1. CASE s = {}
      <4>1. Cardinality(s) <= k /\ Cardinality(s) # k + 1
        <5>1. Cardinality(s) = 0
          BY <3>1, FS_EmptySet
        <5>. QED  BY <5>1
      <4>. QED  BY <2>1, <3>1, <4>1
    <3>2. CASE s # {}
      <4>1. /\ s \ {Chosen(s)} \in SUBSET S /\ Cardinality(s) \in Nat
            /\ Cardinality(s \ {Chosen(s)}) = Cardinality(s) - 1
        BY <3>2, OneLess
      <4>2. g[s \ {Chosen(s)}] = f[s \ {Chosen(s)}]
        <5>1. Cardinality(s \ {Chosen(s)}) # k + 1
          BY <2>3, <4>1
        <5>. QED  BY <4>1, <5>1
      <4>3. Cardinality(s) = k + 1 \/ Cardinality(s) <= k
        BY <2>3, <4>1
      <4>4. g[s] = fun[Chosen(s)] + f[s \ {Chosen(s)}]
        <5>1. CASE Cardinality(s) = k + 1
          BY <5>1
        <5>2. CASE Cardinality(s) <= k
          <6>1. Cardinality(s) # k + 1
            BY <4>1, <5>2
          <6>. QED  BY <2>1, <3>2, <5>2, <6>1
        <5>. QED  BY <4>3, <5>1, <5>2
      <4>. QED  BY <3>2, <4>2, <4>4
    <3>. QED  BY <3>1, <3>2
  <2>. QED  BY <2>2, <2>3
<1>. HIDE DEF P
<1>3. 0 \in T /\ \A k \in Nat : k \in T => k + 1 \in T
  BY <1>1, <1>2
<1>. HIDE DEF T
<1>4. Cardinality(S) \in T
  BY <1>3, NatInSet, FS_CardinalityType
<1>5. PICK f \in [SUBSET S -> Nat] :
        \A s \in SUBSET S : Cardinality(s) <= Cardinality(S) => Follows(f, s)
  BY <1>4 DEF T, P
<1>6. \A s \in SUBSET S : Follows(f, s)
  BY <1>5, OneLess
<1>7. f = [s \in SUBSET S |->
             IF s = {} THEN 0 ELSE fun[Chosen(s)] + f[s \ {Chosen(s)}]]
  BY <1>6
<1>8. DOMAIN fun = S
  OBVIOUS
<1>. QED  BY <1>7, <1>8 DEF Summed

LEMMA SumIsNat ==
  ASSUME NEW S, IsFiniteSet(S), NEW fun \in [S -> Nat]
  PROVE  Universe!SumFunction(fun) \in Nat
<1>1. PICK g : Summed(g, fun) /\ g[DOMAIN fun] = Universe!SumFunction(fun)
  <2>. DEFINE g == CHOOSE g : g = [s \in SUBSET (DOMAIN fun) |->
         IF s = {} THEN 0 ELSE fun[CHOOSE x \in s : TRUE] + g[s \ {CHOOSE x \in s : TRUE}]]
  <2>1. g[DOMAIN fun] = Universe!SumFunction(fun)
    BY DEF Universe!SumFunction, Universe!SumFunctionOnSet, Universe!FoldFunctionOnSet,
           Universe!MapThenFoldSet
  <2>2. g = CHOOSE h : Summed(h, fun)
    BY DEF Summed, Chosen
  <2>3. Summed(g, fun)
    <3>. HIDE DEF g
    <3>1. \E h : Summed(h, fun)
      BY SumExists
    <3>. QED  BY <2>2, <3>1
  <2>. HIDE DEF g
  <2>. QED  BY <2>1, <2>3
<1>. DEFINE T == {k \in Nat : \A s \in SUBSET S : Cardinality(s) = k => g[s] \in Nat}
<1>2. 0 \in T
  <2>1. g[{}] = 0
    BY <1>1 DEF Summed
  <2>2. \A s \in SUBSET S : Cardinality(s) = 0 => s = {}
    BY OneLess, Zenon
  <2>. QED  BY <2>1, <2>2
<1>3. ASSUME NEW k \in Nat, k \in T PROVE k + 1 \in T
  <2>. SUFFICES ASSUME NEW s \in SUBSET S, Cardinality(s) = k + 1 PROVE g[s] \in Nat
    OBVIOUS
  <2>1. /\ s # {} /\ Chosen(s) \in S /\ s \ {Chosen(s)} \in SUBSET S
        /\ Cardinality(s \ {Chosen(s)}) = k
    BY OneLess
  <2>2. g[s \ {Chosen(s)}] \in Nat
    BY <1>3, <2>1
  <2>3. g[s] = fun[Chosen(s)] + g[s \ {Chosen(s)}]
    BY <1>1, <2>1 DEF Summed
  <2>. QED  BY <2>1, <2>2, <2>3
<1>. HIDE DEF T
<1>4. Cardinality(S) \in T
  BY <1>2, <1>3, NatInSet, FS_CardinalityType
<1>. QED  BY <1>1, <1>4 DEF T

-----------------------------------------------------------------------------
\* The scan: what is typed, that a snapshot not disturbed is what a scan of its day would
\* be now, and that a symbol passed on bars that are still there.
UniverseType ==
  /\ day \in 0..ScanDays
  /\ bars \in [Assets -> [Universe!Dates -> [close: Nat, volume: Nat]]]
  /\ \A s \in Assets, x \in Universe!Dates : x > day => bars[s][x] = Universe!Unprinted
  /\ DOMAIN scans = Universe!Dates
  /\ \A d \in Universe!Dates :
       scans[d] # Universe!NoScan =>
         d <= day /\ \A s \in Assets : scans[d][s].dollars \in Nat

ScansStand ==
  \A d \in Universe!Dates :
    scans[d] # Universe!NoScan /\ d \notin disturbed => scans[d] = Universe!Result(d)

PassedOnBars ==
  \A d \in Universe!Dates, s \in Assets :
    scans[d] # Universe!NoScan /\ scans[d][s].verdict = "passed"
      => Cardinality(Universe!Admitted(s, d)) >= AdvWindow

UniverseInv == UniverseType /\ ScansStand /\ PassedOnBars

\* UniverseScan counts with the operators of its own copy of FiniteSets.
LEMMA UniverseCounts ==
  /\ Universe!IsFiniteSet(Assets) <=> IsFiniteSet(Assets)
  /\ \A S : Universe!Cardinality(S) = Cardinality(S)
BY DEF Universe!IsFiniteSet, Universe!Cardinality, IsFiniteSet, Cardinality

LEMMA ScanTyped ==
  /\ ScanDays \in Nat \ {0} /\ AdvWindow \in Nat \ {0} /\ Target \in Nat
  /\ Assets \subseteq Nat /\ IsFiniteSet(Assets) /\ Curated \subseteq Assets
  /\ \A s \in Assets : /\ Quotes[s] \subseteq [close: Nat, volume: Nat]
                       /\ Universe!Unprinted \notin Quotes[s]
  /\ Universe!Unprinted \in [close: Nat, volume: Nat]
  /\ Universe!Dates = 1..ScanDays
BY UniverseCounts, ScanConstants
DEF Universe!UniverseConstants, Universe!Unprinted, Universe!Dates

\* The greatest of the days up to n, the least of any.
LEMMA GreatestOf ==
  ASSUME NEW n \in Nat, NEW s \in SUBSET (1..n), s # {}
  PROVE  Universe!Max(s) \in s /\ \A i \in s : Universe!Max(s) >= i
<1>. DEFINE P(k) == \A t \in SUBSET (1..k) : t # {} => \E m \in t : \A i \in t : m >= i
            T == {k \in Nat : P(k)}
<1>1. P(0)
  <2>1. 1..0 = {}
    OBVIOUS
  <2>. QED  BY <2>1
<1>2. ASSUME NEW k \in Nat, P(k) PROVE P(k + 1)
  <2>. SUFFICES ASSUME NEW t \in SUBSET (1..(k + 1)), t # {}
                PROVE  \E m \in t : \A i \in t : m >= i
    OBVIOUS
  <2>1. CASE k + 1 \in t
    <3>1. \A i \in t : k + 1 >= i
      OBVIOUS
    <3>. QED  BY <2>1, <3>1
  <2>2. CASE k + 1 \notin t
    <3>1. t \in SUBSET (1..k)
      BY <2>2
    <3>. QED  BY <1>2, <3>1
  <2>. QED  BY <2>1, <2>2
<1>. HIDE DEF P
<1>3. 0 \in T /\ \A k \in Nat : k \in T => k + 1 \in T
  BY <1>1, <1>2
<1>. HIDE DEF T
<1>4. n \in T
  BY <1>3, NatInSet
<1>5. P(n)
  BY <1>4 DEF T
<1>6. \E m \in s : \A i \in s : m >= i
  BY <1>5 DEF P
<1>. QED  BY <1>6 DEF Universe!Max

LEMMA LeastOf ==
  ASSUME NEW s \in SUBSET Nat, s # {}
  PROVE  Universe!Min(s) \in s /\ \A i \in s : Universe!Min(s) <= i
<1>1. IsWellFoundedOn(OpToRel(<, Nat), Nat)
  BY NatLessThanWellFounded
<1>2. PICK m \in s : \A i \in s : <<i, m>> \notin OpToRel(<, Nat)
  BY <1>1, WFMin
<1>3. \A i \in s : ~(i < m)
  BY <1>2 DEF OpToRel
<1>4. \E x \in s : \A y \in s : x =< y
  BY <1>3
<1>. QED  BY <1>4 DEF Universe!Min

\* The days an average is taken over, and what it sums.
LEMMA DaysCounted ==
  ASSUME NEW s, NEW d \in Universe!Dates
  PROVE  /\ Universe!Admitted(s, d) \in SUBSET (1..d) /\ d \in Nat
         /\ IsFiniteSet(Universe!Admitted(s, d)) /\ IsFiniteSet(Universe!AdvDays(s, d))
         /\ Universe!AdvDays(s, d) \subseteq Universe!Admitted(s, d)
         /\ Cardinality(Universe!AdvDays(s, d)) <= Cardinality(Universe!Admitted(s, d))
         /\ Cardinality(Universe!AdvDays(s, d)) \in Nat
         /\ Cardinality(Universe!Admitted(s, d)) \in Nat
<1>1. d \in Nat
  BY ScanTyped
<1>2. IsFiniteSet(1..d)
  BY <1>1, FS_Interval
<1>3. /\ Universe!Admitted(s, d) \subseteq 1..d
      /\ Universe!AdvDays(s, d) \subseteq Universe!Admitted(s, d)
  BY DEF Universe!Admitted, Universe!AdvDays
<1>. QED  BY <1>1, <1>2, <1>3, FS_Subset, FS_CardinalityType

LEMMA DollarsAreNat ==
  ASSUME UniverseType, NEW s \in Assets, NEW d \in Universe!Dates
  PROVE  Universe!Metrics(s, d).dollars \in Nat
<1>. DEFINE days == Universe!AdvDays(s, d)
            traded == [x \in days |-> bars[s][x].close * bars[s][x].volume]
<1>1. \A x \in days : bars[s][x].close \in Nat /\ bars[s][x].volume \in Nat
  BY DaysCounted, ScanTyped DEF UniverseType
<1>2. \A m, n \in Nat : m * n \in Nat
  OBVIOUS
<1>. HIDE DEF days
<1>3. traded \in [days -> Nat]
  BY <1>1, <1>2
<1>4. IsFiniteSet(days)
  BY DaysCounted DEF days
<1>5. Universe!SumFunction(traded) \in Nat
  BY <1>3, <1>4, SumIsNat
<1>. QED  BY <1>5 DEF Universe!Metrics, days

-----------------------------------------------------------------------------
\* A scan of a day reads the bars up to that day and the assets, and nothing else.
LEMMA ResultStays ==
  ASSUME NEW d \in Universe!Dates, listed' = listed,
         \A s \in Assets, x \in 1..d : bars'[s][x] = bars[s][x]
  PROVE  Universe!Result(d)' = Universe!Result(d)
<1>1. ASSUME NEW s \in Assets PROVE Universe!Metrics(s, d)' = Universe!Metrics(s, d)
  <2>. DEFINE days == Universe!AdvDays(s, d)
  <2>1. Universe!Admitted(s, d)' = Universe!Admitted(s, d)
    BY DEF Universe!Admitted
  <2>2. Universe!AdvDays(s, d)' = days
    BY <2>1 DEF Universe!AdvDays
  <2>3. \A x \in days : bars'[s][x] = bars[s][x]
    BY DaysCounted
  <2>4. days # {} => Universe!Max(days) \in days
    BY DaysCounted, GreatestOf
  <2>. HIDE DEF days
  <2>5. [x \in days |-> bars'[s][x].volume] = [x \in days |-> bars[s][x].volume]
    BY <2>3
  <2>6. [x \in days |-> bars'[s][x].close * bars'[s][x].volume]
          = [x \in days |-> bars[s][x].close * bars[s][x].volume]
    BY <2>3
  <2>7. (IF days = {} THEN 0 ELSE bars'[s][Universe!Max(days)].close)
          = (IF days = {} THEN 0 ELSE bars[s][Universe!Max(days)].close)
    BY <2>3, <2>4
  <2>. QED  BY <2>2, <2>5, <2>6, <2>7, Zenon DEF Universe!Metrics, days
<1>2. ASSUME NEW s \in Assets
      PROVE  Universe!Evaluated(s, Universe!Metrics(s, d))'
               = Universe!Evaluated(s, Universe!Metrics(s, d))
  BY <1>1, Zenon DEF Universe!Evaluated, Universe!GateOk
<1>. QED  BY <1>2 DEF Universe!Result

\* Who passes passes every gate.
LEMMA PassesAll ==
  ASSUME NEW s, NEW m, Universe!Evaluated(s, m).verdict = "passed"
  PROVE  m.n >= AdvWindow
<1>. DEFINE failed == {i \in DOMAIN Universe!GateOrder :
                         ~Universe!GateOk(Universe!GateOrder[i], s, m)}
<1>1. DOMAIN Universe!GateOrder = 1..5
  BY DEF Universe!GateOrder
<1>2. CASE failed # {}
  <2>1. Universe!Min(failed) \in 1..5
    BY <1>1, <1>2, LeastOf
  <2>2. \A i \in 1..5 : Universe!GateOrder[i] # "passed"
    BY DEF Universe!GateOrder
  <2>. HIDE DEF failed
  <2>3. Universe!Evaluated(s, m).verdict = Universe!GateOrder[Universe!Min(failed)]
    BY <1>2 DEF Universe!Evaluated, failed
  <2>. QED  BY <2>1, <2>2, <2>3
<1>3. CASE failed = {}
  <2>1. Universe!GateOrder[2] = "coverage"
    BY DEF Universe!GateOrder
  <2>2. Universe!GateOk("coverage", s, m)
    BY <1>1, <1>3, <2>1
  <2>. QED  BY <2>2 DEF Universe!GateOk
<1>. QED  BY <1>2, <1>3

\* What a scan says of each symbol.
LEMMA ResultIs ==
  ASSUME UniverseType, NEW d \in Universe!Dates, NEW s \in Assets
  PROVE  /\ Universe!Result(d)[s].dollars \in Nat
         /\ Universe!Result(d)[s].verdict = "passed"
              => Cardinality(Universe!Admitted(s, d)) >= AdvWindow
<1>. DEFINE m == Universe!Metrics(s, d)
<1>1. m.n = Cardinality(Universe!AdvDays(s, d)) /\ m.dollars \in Nat
  BY UniverseCounts, DollarsAreNat DEF Universe!Metrics
<1>2. Universe!Result(d)[s] = Universe!Evaluated(s, m)
  BY DEF Universe!Result
<1>. HIDE DEF m
<1>3. Universe!Evaluated(s, m).dollars = m.dollars
  BY DEF Universe!Evaluated
<1>4. Universe!Evaluated(s, m).verdict = "passed" => m.n >= AdvWindow
  BY PassesAll
<1>5. m.n >= AdvWindow => Cardinality(Universe!Admitted(s, d)) >= AdvWindow
  BY <1>1, DaysCounted, ScanTyped
<1>. QED  BY <1>1, <1>2, <1>3, <1>4, <1>5

LEMMA InitUniverse == Universe!Init => UniverseInv
<1>. SUFFICES ASSUME Universe!Init PROVE UniverseInv
  OBVIOUS
<1>1. UniverseType
  BY ScanTyped DEF Universe!Init, UniverseType
<1>. QED  BY <1>1 DEF Universe!Init, UniverseInv, ScansStand, PassedOnBars

\* Bars that keep what was printed keep what was admitted.
LEMMA PassesStay ==
  ASSUME PassedOnBars, scans' = scans,
         \A s \in Assets, x \in Universe!Dates :
           bars[s][x] # Universe!Unprinted => bars'[s][x] # Universe!Unprinted
  PROVE  PassedOnBars'
<1>. SUFFICES ASSUME NEW d \in Universe!Dates, NEW s \in Assets,
                     scans[d] # Universe!NoScan, scans[d][s].verdict = "passed"
              PROVE  Cardinality(Universe!Admitted(s, d)') >= AdvWindow
  BY DEF PassedOnBars, Universe!Dates, Universe!NoScan
<1>. DEFINE before == Universe!Admitted(s, d)
            after == Universe!Admitted(s, d)'
<1>1. after \subseteq 1..d /\ d \in Nat /\ Cardinality(before) \in Nat
  BY DaysCounted DEF Universe!Admitted
<1>2. before \subseteq after
  BY ScanTyped DEF Universe!Admitted
<1>3. Cardinality(before) >= AdvWindow
  BY DEF PassedOnBars
<1>. HIDE DEF before, after
<1>4. IsFiniteSet(after)
  <2>1. IsFiniteSet(1..d) /\ after \in SUBSET (1..d)
    BY <1>1, FS_Interval
  <2>. QED  BY <2>1, FS_Subset
<1>5. Cardinality(after) \in Nat /\ Cardinality(before) <= Cardinality(after)
  BY <1>2, <1>4, FS_Subset, FS_CardinalityType
<1>6. Cardinality(after) >= AdvWindow
  BY <1>1, <1>3, <1>5, ScanTyped
<1>. QED  BY <1>6 DEF after

LEMMA NextUniverse == ASSUME UniverseInv, Universe!Next PROVE UniverseInv'
<1>. USE DEF UniverseInv
<1>1. ASSUME NEW d \in 1..day, Universe!Scan(d) PROVE UniverseInv'
  <2>1. d \in Universe!Dates /\ d <= day
    BY ScanTyped DEF UniverseType
  <2>2. /\ scans' = [scans EXCEPT ![d] = Universe!Result(d)] /\ disturbed' = disturbed \ {d}
        /\ UNCHANGED <<day, bars, listed>>
    BY <1>1 DEF Universe!Scan
  <2>3. \A e \in Universe!Dates : Universe!Result(e)' = Universe!Result(e)
    BY <2>2, ResultStays
  <2>4. \A s \in Assets : /\ Universe!Result(d)[s].dollars \in Nat
                          /\ Universe!Result(d)[s].verdict = "passed"
                               => Cardinality(Universe!Admitted(s, d)) >= AdvWindow
    BY <2>1, ResultIs
  <2>5. \A e \in Universe!Dates :
          scans'[e] = IF e = d THEN Universe!Result(d) ELSE scans[e]
    BY <2>1, <2>2 DEF UniverseType
  <2>6. UniverseType'
    <3>1. DOMAIN scans' = Universe!Dates
      BY <2>2 DEF UniverseType
    <3>. QED  BY <2>1, <2>2, <2>4, <2>5, <3>1 DEF UniverseType, Universe!Dates, Universe!NoScan,
                                                 Universe!Unprinted
  <2>7. ScansStand'
    BY <2>2, <2>3, <2>5 DEF ScansStand, Universe!Dates, Universe!NoScan
  <2>8. PassedOnBars'
    <3>1. \A e \in Universe!Dates, s \in Assets :
            Universe!Admitted(s, e)' = Universe!Admitted(s, e)
      BY <2>2 DEF Universe!Admitted, Universe!Unprinted
    <3>. QED  BY <2>4, <2>5, <3>1 DEF PassedOnBars, Universe!Dates, Universe!NoScan
  <2>. QED  BY <2>6, <2>7, <2>8
<1>2. CASE Universe!NextDay
  <2>1. PICK tonight \in [Assets -> UNION {Quotes[s] : s \in Assets} \cup {Universe!Unprinted}] :
          /\ \A s \in Assets : tonight[s] \in Quotes[s] \cup {Universe!Unprinted}
          /\ bars' = [s \in Assets |-> [bars[s] EXCEPT ![day + 1] = tonight[s]]]
    BY <1>2 DEF Universe!NextDay
  <2>2. /\ day' = day + 1 /\ day + 1 \in Universe!Dates /\ day \in Nat
        /\ UNCHANGED <<listed, scans, disturbed>>
    BY <1>2, ScanTyped DEF Universe!NextDay, UniverseType
  <2>3. \A s \in Assets, x \in Universe!Dates :
          /\ bars'[s][x] = IF x = day + 1 THEN tonight[s] ELSE bars[s][x]
          /\ tonight[s] \in [close: Nat, volume: Nat]
    BY <2>1, ScanTyped DEF UniverseType
  <2>4. UniverseType'
    <3>1. bars' \in [Assets -> [Universe!Dates -> [close: Nat, volume: Nat]]]
      BY <2>1, <2>3 DEF UniverseType
    <3>2. day' \in 0..ScanDays
      BY <2>2, ScanTyped
    <3>3. \A s \in Assets, x \in Universe!Dates : x > day' => bars'[s][x] = Universe!Unprinted
      <4>1. \A x \in Universe!Dates : x > day' => x > day /\ x # day + 1
        BY <2>2, ScanTyped
      <4>. QED  BY <2>3, <4>1 DEF UniverseType
    <3>4. \A d \in Universe!Dates : d <= day => d <= day'
      BY <2>2, ScanTyped
    <3>. QED  BY <2>2, <3>1, <3>2, <3>3, <3>4 DEF UniverseType, Universe!Dates, Universe!NoScan,
                                                  Universe!Unprinted
  <2>5. ScansStand'
    <3>. SUFFICES ASSUME NEW d \in Universe!Dates, scans[d] # Universe!NoScan, d \notin disturbed
                  PROVE  scans[d] = Universe!Result(d)'
      BY <2>2 DEF ScansStand, Universe!Dates, Universe!NoScan
    <3>1. \A s \in Assets, x \in 1..d : bars'[s][x] = bars[s][x]
      <4>1. d <= day
        BY DEF UniverseType
      <4>2. \A x \in 1..d : x \in Universe!Dates /\ x # day + 1
        BY <2>2, <4>1, ScanTyped
      <4>. QED  BY <2>3, <4>2
    <3>2. Universe!Result(d)' = Universe!Result(d)
      BY <2>2, <3>1, ResultStays
    <3>. QED  BY <3>2 DEF ScansStand
  <2>6. PassedOnBars'
    <3>1. \A s \in Assets : bars[s][day + 1] = Universe!Unprinted
      BY <2>2 DEF UniverseType
    <3>. QED  BY <2>2, <2>3, <3>1, PassesStay
  <2>. QED  BY <2>4, <2>5, <2>6
<1>3. ASSUME NEW e \in 1..day, NEW t \in Assets, Universe!Arrive(t, e) PROVE UniverseInv'
  <2>1. e \in Universe!Dates
    BY ScanTyped DEF UniverseType
  <2>2. PICK quote \in Quotes[t] \ {bars[t][e]} : bars' = [bars EXCEPT ![t][e] = quote]
    BY <1>3 DEF Universe!Arrive
  <2>3. /\ disturbed' = disturbed \cup e..ScanDays /\ UNCHANGED <<day, listed, scans>>
    BY <1>3 DEF Universe!Arrive
  <2>4. quote \in [close: Nat, volume: Nat] /\ quote # Universe!Unprinted
    BY ScanTyped
  <2>5. \A s \in Assets, x \in Universe!Dates :
          bars'[s][x] = IF s = t /\ x = e THEN quote ELSE bars[s][x]
    BY <2>1, <2>2 DEF UniverseType
  <2>6. UniverseType'
    <3>1. bars' \in [Assets -> [Universe!Dates -> [close: Nat, volume: Nat]]]
      BY <2>1, <2>2, <2>4 DEF UniverseType
    <3>2. \A s \in Assets, x \in Universe!Dates : x > day => bars'[s][x] = Universe!Unprinted
      <4>1. \A x \in Universe!Dates : x > day => x # e
        BY ScanTyped DEF UniverseType
      <4>. QED  BY <2>5, <4>1 DEF UniverseType
    <3>. QED  BY <2>3, <3>1, <3>2 DEF UniverseType, Universe!Dates, Universe!NoScan,
                                      Universe!Unprinted
  <2>7. ScansStand'
    <3>. SUFFICES ASSUME NEW d \in Universe!Dates, scans[d] # Universe!NoScan,
                         d \notin disturbed \cup e..ScanDays
                  PROVE  scans[d] = Universe!Result(d)'
      BY <2>3 DEF ScansStand, Universe!Dates, Universe!NoScan
    <3>1. \A x \in 1..d : x \in Universe!Dates /\ x # e
      BY <2>1, ScanTyped
    <3>2. Universe!Result(d)' = Universe!Result(d)
      BY <2>3, <2>5, <3>1, ResultStays
    <3>. QED  BY <3>2 DEF ScansStand
  <2>8. PassedOnBars'
    BY <2>3, <2>4, <2>5, PassesStay
  <2>. QED  BY <2>6, <2>7, <2>8
<1>4. ASSUME NEW s \in Assets, Universe!Relist(s) PROVE UniverseInv'
  <2>1. disturbed' = Universe!Dates /\ UNCHANGED <<day, bars, scans>>
    BY <1>4 DEF Universe!Relist
  <2>2. UniverseType'
    BY <2>1 DEF UniverseType, Universe!Dates, Universe!NoScan, Universe!Unprinted
  <2>3. ScansStand'
    BY <2>1 DEF ScansStand, Universe!Dates
  <2>4. PassedOnBars'
    BY <2>1, PassesStay
  <2>. QED  BY <2>2, <2>3, <2>4
<1>5. CASE UNCHANGED <<day, bars, listed, scans, disturbed>>
  <2>1. UniverseType'
    BY <1>5 DEF UniverseType, Universe!Dates, Universe!NoScan, Universe!Unprinted
  <2>2. ScansStand'
    <3>1. \A d \in Universe!Dates : Universe!Result(d)' = Universe!Result(d)
      BY <1>5, ResultStays
    <3>. QED  BY <1>5, <3>1 DEF ScansStand, Universe!Dates, Universe!NoScan
  <2>3. PassedOnBars'
    BY <1>5, PassesStay
  <2>. QED  BY <2>1, <2>2, <2>3
<1>. QED  BY <1>1, <1>2, <1>3, <1>4, <1>5 DEF Universe!Next, Universe!BuildUniverse

LEMMA UniverseInvariant == MCSpec => []UniverseInv
<1>1. MCInit => UniverseInv
  BY InitUniverse DEF MCInit
<1>2. UniverseInv /\ [MCNext]_allVars => UniverseInv'
  <2>. SUFFICES ASSUME UniverseInv, [MCNext]_allVars PROVE UniverseInv'
    OBVIOUS
  <2>1. CASE Universe!Next
    BY <2>1, NextUniverse
  <2>2. CASE UNCHANGED universeVars
    <3>. USE <2>2 DEF universeVars, UniverseInv
    <3>1. UniverseType'
      BY DEF UniverseType, Universe!Dates, Universe!NoScan, Universe!Unprinted
    <3>2. ScansStand'
      <4>1. \A d \in Universe!Dates : Universe!Result(d)' = Universe!Result(d)
        BY ResultStays
      <4>. QED  BY <4>1 DEF ScansStand, Universe!Dates, Universe!NoScan
    <3>3. PassedOnBars'
      BY PassesStay
    <3>. QED  BY <3>1, <3>2, <3>3
  <2>. QED  BY <2>1, <2>2 DEF MCNext, allVars
<1>. QED  BY <1>1, <1>2, PTL DEF MCSpec

\* RescanAgrees: for any bars, corrections and listings, a day scanned again comes out as
\* it did unless a bar of that day or before it, or the assets, changed in between.
THEOREM RescanAgreesAlways == MCSpec => RescanAgrees
<1>1. UniverseInv /\ [MCNext]_allVars =>
        [\A d \in Universe!Scanned : scans'[d] # scans[d] => d \in disturbed]_Universe!vars
  <2>. SUFFICES ASSUME UniverseInv, [MCNext]_allVars, NEW d \in Universe!Scanned,
                       scans'[d] # scans[d]
                PROVE  d \in disturbed
    OBVIOUS
  <2>1. PICK e \in 1..day : Universe!Scan(e)
    BY DEF MCNext, allVars, universeVars, Universe!Next, Universe!NextDay, Universe!Arrive,
           Universe!Relist, Universe!BuildUniverse
  <2>2. scans' = [scans EXCEPT ![e] = Universe!Result(e)]
    BY <2>1 DEF Universe!Scan
  <2>3. d = e /\ scans'[e] = Universe!Result(e)
    BY <2>2 DEF Universe!Scanned, UniverseInv, UniverseType
  <2>. QED  BY <2>3 DEF Universe!Scanned, UniverseInv, ScansStand
<1>. QED  BY <1>1, UniverseInvariant, PTL DEF MCSpec, RescanAgrees, Universe!RescanAgrees

-----------------------------------------------------------------------------
\* Outranks(d, _, _) orders the symbols of a scan: no two are level, since ties go by name.
LEMMA DollarsRank ==
  ASSUME UniverseType, NEW d \in Universe!Scanned
  PROVE  LET S == Universe!Eligible(d) IN
         /\ S \subseteq Assets /\ IsFiniteSet(S) /\ Cardinality(S) \in Nat
         /\ \A s \in S : ~Universe!Outranks(d, s, s)
         /\ \A s, t \in S : s # t => Universe!Outranks(d, s, t) \/ Universe!Outranks(d, t, s)
         /\ \A s, t, r \in S :
              Universe!Outranks(d, s, t) /\ Universe!Outranks(d, t, r)
                => Universe!Outranks(d, s, r)
<1>. DEFINE S == Universe!Eligible(d)
<1>1. S \subseteq Assets
  BY DEF Universe!Eligible
<1>2. IsFiniteSet(S) /\ Cardinality(S) \in Nat
  BY <1>1, ScanTyped, FS_Subset, FS_CardinalityType
<1>3. \A s \in S : s \in Nat /\ scans[d][s].dollars \in Nat
  BY <1>1, ScanTyped DEF UniverseType, Universe!Scanned
<1>. HIDE DEF S
<1>4. /\ \A s \in S : ~Universe!Outranks(d, s, s)
      /\ \A s, t \in S : s # t => Universe!Outranks(d, s, t) \/ Universe!Outranks(d, t, s)
  BY <1>3 DEF Universe!Outranks
<1>5. \A s, t, r \in S :
        Universe!Outranks(d, s, t) /\ Universe!Outranks(d, t, r) => Universe!Outranks(d, s, r)
  BY <1>3 DEF Universe!Outranks
<1>. QED  BY <1>1, <1>2, <1>4, <1>5 DEF S

\* sorted: the eligible symbols can be, and are, lined up by rank.
LEMMA RankedListsAll ==
  ASSUME UniverseType, NEW d \in Universe!Scanned
  PROVE  LET S == Universe!Eligible(d)
             q == Universe!Ranked(d)
             n == Cardinality(S)
         IN  /\ n \in Nat
             /\ q \in [1..n -> S]
             /\ \A i, k \in 1..n : i < k => Universe!Outranks(d, q[i], q[k])
             /\ \A s \in S : \E i \in 1..n : q[i] = s
<1> DEFINE S == Universe!Eligible(d)
           n == Cardinality(S)
           Above(s) == {t \in S : Universe!Outranks(d, t, s)}
           rank == [s \in S |-> Cardinality(Above(s)) + 1]
           Ascending(q) == \A i, k \in 1..n : i < k => Universe!Outranks(d, q[i], q[k])
<1>1. IsFiniteSet(S) /\ n \in Nat
  BY DollarsRank
<1>0. Universe!Ranked(d) = CHOOSE q \in [1..n -> S] : Ascending(q)
  <2>1. Universe!Cardinality(S) = n
    BY UniverseCounts
  <2>2. Universe!Ranked(d) =
          CHOOSE q \in [1..n -> S] :
            \A i, k \in DOMAIN q : i < k => Universe!Outranks(d, q[i], q[k])
    BY <2>1 DEF Universe!Ranked
  <2>3. \A q \in [1..n -> S] : DOMAIN q = 1..n
    OBVIOUS
  <2>. HIDE DEF S, n
  <2>. QED  BY <2>2, <2>3
<1>2. /\ \A s \in S : ~Universe!Outranks(d, s, s)
      /\ \A s, t \in S : s # t => Universe!Outranks(d, s, t) \/ Universe!Outranks(d, t, s)
      /\ \A s, t, r \in S :
           Universe!Outranks(d, s, t) /\ Universe!Outranks(d, t, r)
             => Universe!Outranks(d, s, r)
  BY DollarsRank
<1>3. IsFiniteSet(1..n) /\ Cardinality(1..n) = n
  BY <1>1, FS_Interval
<1> HIDE DEF S
<1>4. \A s \in S : /\ IsFiniteSet(Above(s)) /\ Cardinality(Above(s)) \in Nat
                  /\ rank[s] = Cardinality(Above(s)) + 1
  BY <1>1, FS_Subset, FS_CardinalityType
<1> HIDE DEF Above
<1> HIDE DEF rank
<1>5. \A s \in S : rank[s] \in 1..n
  <2> TAKE s \in S
  <2>1. s \notin Above(s) /\ Above(s) \in SUBSET S
    BY <1>2 DEF Above
  <2>2. Cardinality(Above(s)) <= n /\ Cardinality(Above(s)) # n
    BY <1>1, <2>1, FS_Subset
  <2> QED
    BY <1>1, <1>4, <2>2
<1>6. ASSUME NEW s \in S, NEW t \in S, Universe!Outranks(d, s, t)
      PROVE  rank[s] < rank[t]
  <2>1. Above(s) \in SUBSET Above(t) /\ s \in Above(t) /\ s \notin Above(s)
    BY <1>2, <1>6 DEF Above
  <2>2. Cardinality(Above(s)) <= Cardinality(Above(t))
        /\ Cardinality(Above(s)) # Cardinality(Above(t))
    BY <1>4, <2>1, FS_Subset
  <2> QED
    BY <1>4, <2>2
<1>7. \A s, t \in S : rank[s] = rank[t] => s = t
  BY <1>2, <1>5, <1>6
<1>8. rank \in [S -> 1..n]
  BY <1>5 DEF rank
<1>9. rank \in Bijection(S, 1..n)
  <2>1. rank \in Injection(S, 1..n)
    BY <1>7, <1>8 DEF Injection, IsInjective
  <2> QED
    BY <1>1, <1>3, <2>1, FS_Injection DEF Bijection
<1>10. PICK q \in Bijection(1..n, S) : \A i \in 1..n : rank[q[i]] = i
  <2>1. /\ Inverse(rank, S, 1..n) \in Bijection(1..n, S)
        /\ \A s \in S : Inverse(rank, S, 1..n)[rank[s]] = s
    BY <1>9, Fun_BijInverse
  <2>2. \A i \in 1..n : \E s \in S : rank[s] = i
    BY <1>9 DEF Bijection, Surjection
  <2> QED
    BY <2>1, <2>2
<1>11. q \in [1..n -> S] /\ Ascending(q)
  <2>1. q \in [1..n -> S]
    BY DEF Bijection, Injection
  <2>2. \A i, k \in 1..n : i < k => Universe!Outranks(d, q[i], q[k])
    BY <1>1, <1>2, <1>6, <1>10, <2>1
  <2> QED
    BY <2>1, <2>2
<1> DEFINE sorted == Universe!Ranked(d)
<1>12. sorted \in [1..n -> S] /\ Ascending(sorted)
  <2> HIDE DEF Ascending
  <2> QED  BY <1>0, <1>11
<1> HIDE DEF sorted
<1>13. sorted \in Injection(1..n, S)
  <2>1. \A i, k \in 1..n : sorted[i] = sorted[k] => i = k
    BY <1>1, <1>2, <1>12
  <2> QED
    BY <1>12, <2>1 DEF Injection, IsInjective
<1>14. sorted \in Surjection(1..n, S)
  BY <1>1, <1>3, <1>13, FS_Injection
<1>15. \A s \in S : \E i \in 1..n : sorted[i] = s
  BY <1>14 DEF Surjection
<1> QED
  BY <1>1, <1>12, <1>15 DEF sorted, S

LEMMA MaxOfTwo ==
  ASSUME NEW a \in Int, NEW b \in Int
  PROVE  /\ Universe!Max({a, b}) \in {a, b} /\ Universe!Max({a, b}) >= a
         /\ Universe!Max({a, b}) >= b
<1>1. \E x \in {a, b} : \A y \in {a, b} : x >= y
  OBVIOUS
<1>. QED  BY <1>1 DEF Universe!Max

LEMMA MinOfTwo ==
  ASSUME NEW a \in Int, NEW b \in Int
  PROVE  /\ Universe!Min({a, b}) \in {a, b} /\ Universe!Min({a, b}) <= a
         /\ Universe!Min({a, b}) <= b
<1>1. \E x \in {a, b} : \A y \in {a, b} : x =< y
  OBVIOUS
<1>. QED  BY <1>1 DEF Universe!Min

\* select_topup takes the best of the eligible: as many as are needed, or all of them.
LEMMA TopUpIs ==
  ASSUME UniverseType, NEW d \in Universe!Scanned
  PROVE  LET S == Universe!Eligible(d)
             topup == Universe!TopUp(d)
             chosen == {topup[i] : i \in DOMAIN topup}
         IN  /\ chosen \subseteq S /\ IsFiniteSet(chosen)
             /\ Universe!Needed \in Nat
             /\ Cardinality(chosen) \in Nat /\ Cardinality(chosen) <= Universe!Needed
             /\ Cardinality(chosen) < Universe!Needed => S \subseteq chosen
             /\ \A r \in S \ chosen, s \in chosen : Universe!Outranks(d, s, r)
<1>. DEFINE S == Universe!Eligible(d)
            n == Cardinality(S)
            q == Universe!Ranked(d)
            need == Universe!Needed
            m == Universe!Min({need, n})
            topup == Universe!TopUp(d)
            chosen == {topup[i] : i \in DOMAIN topup}
<1>1. /\ n \in Nat /\ q \in [1..n -> S]
      /\ \A i, k \in 1..n : i < k => Universe!Outranks(d, q[i], q[k])
      /\ \A s \in S : \E i \in 1..n : q[i] = s
  BY RankedListsAll
<1>2. IsFiniteSet(S) /\ \A s \in S : ~Universe!Outranks(d, s, s)
  BY DollarsRank
<1>3. need \in Nat
  <2>1. Cardinality(Curated) \in Nat
    BY ScanTyped, FS_Subset, FS_CardinalityType
  <2>. DEFINE short == Target - Cardinality(Curated)
  <2>2. need = Universe!Max({0, short})
    BY UniverseCounts DEF Universe!Needed
  <2>3. 0 \in Int /\ short \in Int
    BY <2>1, ScanTyped
  <2>. HIDE DEF need, short
  <2>4. Universe!Max({0, short}) \in {0, short} /\ Universe!Max({0, short}) >= 0
    BY <2>3, MaxOfTwo, Zenon
  <2>. QED  BY <2>2, <2>3, <2>4
<1>4. topup = SubSeq(q, 1, m)
  BY UniverseCounts DEF Universe!TopUp
<1>. HIDE DEF S, q, need, topup
<1>. HIDE DEF n
<1>5. m \in {need, n} /\ m <= need /\ m <= n
  <2>1. need \in Int /\ n \in Int
    BY <1>1, <1>3
  <2>. QED  BY <2>1, MinOfTwo, Zenon
<1>. HIDE DEF m
<1>6. DOMAIN topup = 1..m /\ \A i \in 1..m : topup[i] = q[i]
  <2>1. q \in Seq(S) /\ Len(q) = n /\ m \in Nat
    BY <1>1, <1>3, <1>5
  <2>2. SubSeq(q, 1, m) = [i \in 1..m |-> q[i]]
    BY <1>1, <1>5, <2>1
  <2>. QED  BY <1>4, <2>2
<1>7. chosen = {q[i] : i \in 1..m} /\ m \in Nat
  BY <1>1, <1>3, <1>5, <1>6
<1>. HIDE DEF chosen
<1>8. chosen \subseteq S
  BY <1>1, <1>5, <1>7
<1>9. IsFiniteSet(chosen) /\ Cardinality(chosen) \in Nat
  BY <1>2, <1>8, FS_Subset, FS_CardinalityType
<1>10. Cardinality(chosen) = m
  <2>. DEFINE f == [i \in 1..m |-> q[i]]
  <2>1. \A i, k \in 1..m : i # k => q[i] # q[k]
    BY <1>1, <1>2, <1>5, <1>7
  <2>2. f \in Bijection(1..m, chosen)
    BY <1>7, <2>1 DEF Bijection, Injection, IsInjective, Surjection
  <2>3. IsFiniteSet(1..m) /\ Cardinality(1..m) = m
    BY <1>7, FS_Interval
  <2>. HIDE DEF f
  <2>4. ExistsBijection(1..m, chosen)
    BY <2>2 DEF ExistsBijection
  <2>. QED  BY <2>3, <2>4, FS_Bijection
<1>11. Cardinality(chosen) < need => S \subseteq chosen
  <2>. SUFFICES ASSUME m < need PROVE S \subseteq chosen
    BY <1>10
  <2>1. m = n
    BY <1>3, <1>5
  <2>. QED  BY <1>1, <1>7, <2>1
<1>12. ASSUME NEW r \in S \ chosen, NEW s \in chosen PROVE Universe!Outranks(d, s, r)
  <2>1. PICK i \in 1..m : q[i] = s
    BY <1>7
  <2>2. PICK k \in 1..n : q[k] = r
    BY <1>1
  <2>3. i \in 1..n /\ i < k
    BY <1>1, <1>5, <1>7, <2>1, <2>2
  <2>. QED  BY <1>1, <2>1, <2>2, <2>3
<1>. QED
  BY <1>3, <1>5, <1>8, <1>9, <1>10, <1>11, <1>12 DEF S, need, chosen, topup

\* UniverseIsRanked: for any scans, target, cutoff and age, the universe that is written
\* is ranked from the newest scan, which is fresh; whoever it names passed on bars that
\* are there and reach back to the cutoff; and it passes nobody over for a worse one.
THEOREM UniverseIsRankedAlways == MCSpec => UniverseIsRanked
<1>. DEFINE Good ==
       LET from == universe'.from
           chosen == {universe'.topup[i] : i \in DOMAIN universe'.topup}
       IN
       /\ day - from <= MaxScanAge /\ \A d \in Universe!Scanned : d <= from
       /\ Universe!Cardinality(Curated) + Universe!Cardinality(chosen)
            <= Universe!Max({Target, Universe!Cardinality(Curated)})
       /\ \A s \in chosen :
            /\ s \notin Curated /\ scans[from][s].verdict = "passed"
            /\ Universe!Cardinality(Universe!Admitted(s, from)) >= AdvWindow
            /\ \E x \in Universe!Dates : x <= Cutoff /\ bars[s][x] # Universe!Unprinted
       /\ Universe!Cardinality(chosen) < Universe!Needed => Universe!Eligible(from) \subseteq chosen
       /\ \A r \in Universe!Eligible(from) \ chosen, s \in chosen : Universe!Outranks(from, s, r)
<1>1. UniverseInv /\ [MCNext]_allVars => [universe' # universe => Good]_Universe!vars
  <2>. SUFFICES ASSUME UniverseInv, [MCNext]_allVars, universe' # universe PROVE Good
    OBVIOUS
  <2>. USE DEF UniverseInv
  <2>1. Universe!BuildUniverse
    BY DEF MCNext, allVars, universeVars, Universe!Next, Universe!NextDay, Universe!Arrive,
           Universe!Relist, Universe!Scan
  <2>. DEFINE from == Universe!LatestScan
              topup == Universe!TopUp(from)
              chosen == {topup[i] : i \in DOMAIN topup}
  <2>2. /\ universe'.from = from /\ universe'.topup = topup /\ day - from <= MaxScanAge
        /\ Universe!Scanned # {}
    BY <2>1 DEF Universe!BuildUniverse
  <2>3. from \in Universe!Scanned /\ \A d \in Universe!Scanned : d <= from
    <3>1. Universe!Scanned \in SUBSET (1..ScanDays) /\ ScanDays \in Nat
      BY ScanTyped DEF Universe!Scanned
    <3>. QED  BY <2>2, <3>1, GreatestOf, ScanTyped DEF Universe!LatestScan
  <2>4. /\ chosen \subseteq Universe!Eligible(from)
        /\ Universe!Needed \in Nat
        /\ Cardinality(chosen) \in Nat /\ Cardinality(chosen) <= Universe!Needed
        /\ Cardinality(chosen) < Universe!Needed => Universe!Eligible(from) \subseteq chosen
        /\ \A r \in Universe!Eligible(from) \ chosen, s \in chosen : Universe!Outranks(from, s, r)
    <3>. HIDE DEF from
    <3>. QED  BY <2>3, TopUpIs
  <2>. HIDE DEF topup, chosen, from
  <2>5. Cardinality(Curated) + Cardinality(chosen) <= Universe!Max({Target, Cardinality(Curated)})
    <3>. DEFINE held == Cardinality(Curated)
    <3>1. held \in Nat /\ Target \in Nat
      BY ScanTyped, FS_Subset, FS_CardinalityType
    <3>2. Universe!Needed = Universe!Max({0, Target - held})
      BY UniverseCounts DEF Universe!Needed
    <3>. HIDE DEF held
    <3>3. Universe!Needed \in {0, Target - held}
      <4>. DEFINE short == Target - held
      <4>1. 0 \in Int /\ short \in Int
        BY <3>1
      <4>. HIDE DEF short
      <4>2. Universe!Max({0, short}) \in {0, short}
        BY <4>1, MaxOfTwo, Zenon
      <4>. QED  BY <3>2, <4>2 DEF short
    <3>4. /\ Universe!Max({Target, held}) \in {Target, held}
          /\ Universe!Max({Target, held}) >= Target /\ Universe!Max({Target, held}) >= held
      BY <3>1, MaxOfTwo
    <3>5. held + Cardinality(chosen) <= Universe!Max({Target, held})
      BY <2>4, <3>1, <3>3, <3>4
    <3>. QED  BY <3>5 DEF held
  <2>6. ASSUME NEW s \in chosen
        PROVE  /\ s \notin Curated /\ scans[from][s].verdict = "passed"
               /\ Cardinality(Universe!Admitted(s, from)) >= AdvWindow
               /\ \E x \in Universe!Dates : x <= Cutoff /\ bars[s][x] # Universe!Unprinted
    <3>1. /\ s \in Assets \ Curated /\ scans[from][s].verdict = "passed"
          /\ Universe!Admitted(s, ScanDays) # {}
          /\ Universe!Min(Universe!Admitted(s, ScanDays)) <= Cutoff
      BY <2>4 DEF Universe!Eligible
    <3>2. Cardinality(Universe!Admitted(s, from)) >= AdvWindow
      BY <2>3, <3>1 DEF PassedOnBars, Universe!Scanned
    <3>3. ScanDays \in Universe!Dates
      BY ScanTyped
    <3>4. Universe!Min(Universe!Admitted(s, ScanDays)) \in Universe!Admitted(s, ScanDays)
      <4>1. Universe!Admitted(s, ScanDays) \in SUBSET Nat
        BY <3>3, DaysCounted
      <4>. QED  BY <3>1, <4>1, LeastOf
    <3>5. \A x \in Universe!Admitted(s, ScanDays) :
            x \in Universe!Dates /\ bars[s][x] # Universe!Unprinted
      BY ScanTyped DEF Universe!Admitted
    <3>. QED  BY <3>1, <3>2, <3>4, <3>5
  <2>7. chosen = {universe'.topup[i] : i \in DOMAIN universe'.topup} /\ from = universe'.from
    BY <2>2 DEF chosen
  <2>. QED  BY <2>2, <2>3, <2>4, <2>5, <2>6, <2>7, UniverseCounts, Zenon
<1>. QED  BY <1>1, UniverseInvariant, PTL DEF MCSpec, UniverseIsRanked, Universe!UniverseIsRanked
=============================================================================

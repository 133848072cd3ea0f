---------------------------- MODULE NightlyScan ----------------------------
(***************************************************************************)
(* The nightly job (src/rs_spy/scan/nightly.py, run_nightly) over its      *)
(* stores: Postgres through one connection with its transaction            *)
(* (store/scan_repository.py), the main warehouse it opens read-write, and *)
(* the run it launches.  The job may die between any two calls, and it is  *)
(* run again, for tonight or for a day gone by.  What a visit to the       *)
(* warehouse stores is in Backfill; here it is how much of a symbol is     *)
(* stored, and whether a unit failed.                                      *)
(***************************************************************************)
EXTENDS Integers, FiniteSets

CONSTANTS
  Symbols,     \* the stocks that may be most active, none of them curated
  Endpoints,   \* the screener endpoints of one capture
  MaxDay,      \* bound: the last day
  Covered      \* the days for which the vendor covers enough symbols

ASSUME NightlyConstants ==
  /\ IsFiniteSet(Symbols) /\ IsFiniteSet(Endpoints)
  /\ MaxDay \in Nat \ {0} /\ Covered \subseteq 1..MaxDay

VARIABLES
  today,      \* _today_et
  db,         \* Postgres: what is committed
  work,       \* Postgres as the connection of the job sees it
  txn,        \* its transaction: "idle", "open" or "failed"
  stored,     \* main warehouse: bars and failed units, per symbol
  writer,     \* whether the job holds the main warehouse read-write
  night       \* pc and local variables of the job

vars == <<today, db, work, txn, stored, writer, night>>

Dates == 1..MaxDay
NoRow == "absent"
Flags == {"insufficient", "sufficient"}

NoNight == [pc |-> "idle", asOf |-> 0, backdated |-> FALSE, todo |-> {},
            snapshots |-> FALSE, scanSaved |-> FALSE, newly |-> {}]

Init ==
  /\ today = 1
  /\ db = [screener |-> [d \in Dates |-> [e \in Endpoints |-> 0]],  \* day captured
           scans |-> {},                          \* scan_runs, universe_snapshots
           onboarded |-> [s \in Symbols |-> NoRow],
           runs |-> {}]                           \* extra_symbols of each run
  /\ work = db
  /\ txn = "idle"
  /\ stored = [s \in Symbols |-> [daily |-> "none", minute |-> FALSE, hole |-> FALSE]]
  /\ writer = FALSE
  /\ night = NoNight

NextDay ==
  /\ night.pc = "idle"
  /\ today < MaxDay
  /\ today' = today + 1
  /\ UNCHANGED <<db, work, txn, stored, writer, night>>

At(pc) == night.pc = pc
GoTo(pc) == night' = [night EXCEPT !.pc = pc]

\* A write of the connection, and its commit: all it wrote since the last one.
Commit(w) == work' = w /\ db' = w /\ txn' = "idle"
\* A read begins a transaction when none is open.
Read == txn' = (IF txn = "idle" THEN "open" ELSE txn) /\ UNCHANGED <<db, work>>

BackdatedNever(d) == FALSE
Backdated(d) == d # today

\* run_nightly: init_schema has committed.
Start(d) ==
  /\ At("idle")
  /\ night' = [NoNight EXCEPT !.pc = IF Backdated(d) THEN "assets" ELSE "capture",
                              !.asOf = d, !.backdated = Backdated(d)]
  /\ UNCHANGED <<today, db, work, txn, stored, writer>>

-----------------------------------------------------------------------------
\* 1) the screener capture, isolated: the endpoints are real-time only.
Capture ==
  /\ At("capture")
  /\ \/ night' = [night EXCEPT !.pc = "archive", !.todo = Endpoints, !.snapshots = TRUE]
     \/ GoTo("assets")
  /\ UNCHANGED <<today, db, work, txn, stored, writer>>

\* save_screener_snapshot, an upsert of its own for each endpoint.
ArchiveUncommitted ==
  /\ At("archive")
  /\ \E e \in night.todo :
       /\ work' = [work EXCEPT !.screener[night.asOf][e] = today]
       /\ night' = [night EXCEPT !.todo = @ \ {e},
                                 !.pc = IF night.todo = {e} THEN "assets" ELSE @]
  /\ txn' = "open"
  /\ UNCHANGED <<today, db, stored, writer>>
Archive ==
  /\ At("archive")
  /\ \E e \in night.todo :
       /\ Commit([work EXCEPT !.screener[night.asOf][e] = today])
       /\ night' = [night EXCEPT !.todo = @ \ {e},
                                 !.pc = IF night.todo = {e} THEN "assets" ELSE @]
  /\ UNCHANGED <<today, stored, writer>>

\* The exception is recorded and the transaction left as it is: Postgres refused the
\* payload, or the client failed before it sent anything.
ArchiveFails ==
  /\ At("archive")
  /\ txn' \in {txn, "failed"}
  /\ GoTo("assets")
  /\ UNCHANGED <<today, db, work, stored, writer>>

-----------------------------------------------------------------------------
\* 2) assets, refresh of the scan warehouse and the scan.
RefusesNever(d) == FALSE
Refuses(d) == d \notin Covered

Scan ==
  /\ At("assets")
  /\ ~Refuses(night.asOf)
  /\ GoTo("save")
  /\ UNCHANGED <<today, db, work, txn, stored, writer>>

\* save_scan: "with conn.transaction()" commits when it is the outermost.
SaveScan ==
  LET saved == [work EXCEPT !.scans = @ \cup {night.asOf}] IN
  /\ At("save")
  /\ \/ txn = "idle" /\ Commit(saved)
     \/ txn = "open" /\ work' = saved /\ UNCHANGED <<db, txn>>
  /\ night' = [night EXCEPT !.scanSaved = TRUE,
                            !.pc = IF night.backdated THEN "done" ELSE "connect"]
  /\ UNCHANGED <<today, stored, writer>>

-----------------------------------------------------------------------------
\* 3) onboarding: the main warehouse is opened read-write, or it is not to be
\* had tonight.
Connect ==
  /\ At("connect")
  /\ \/ writer' = TRUE /\ GoTo("plan_maintenance")
     \/ UNCHANGED writer /\ GoTo("done")
  /\ UNCHANGED <<today, db, work, txn, stored>>

Flagged(flag) == {s \in Symbols : work.onboarded[s] = flag}
Holes == {s \in Flagged("sufficient") : stored[s].hole}

PlanMaintenance ==
  /\ At("plan_maintenance")
  /\ Read
  /\ night' = [night EXCEPT !.pc = "maintain", !.todo = Flagged("insufficient") \cup Holes]
  /\ UNCHANGED <<today, stored, writer>>

\* What a visit can make of a symbol: bars are added, never removed.
Rank(daily) == CASE daily = "none" -> 0 [] daily = "short" -> 1 [] daily = "mature" -> 2
Visited(s) ==
  {v \in [daily: {"none", "short", "mature"}, minute: BOOLEAN, hole: BOOLEAN] :
     Rank(v.daily) >= Rank(stored[s].daily) /\ (stored[s].minute => v.minute)}
Flag(v) == IF v.daily = "mature" THEN "sufficient" ELSE "insufficient"

\* onboard_symbol for one symbol of the maintenance, and update_onboarded; what
\* was fetched before a visit failed stays.
Maintain(s) ==
  /\ At("maintain") /\ s \in night.todo
  /\ \E v \in Visited(s) :
       /\ stored' = [stored EXCEPT ![s] = v]
       /\ \/ Commit([work EXCEPT !.onboarded[s] = Flag(v)])
          \/ UNCHANGED <<db, work, txn>>
  /\ night' = [night EXCEPT !.todo = @ \ {s}]
  /\ UNCHANGED <<today, writer>>

\* The most-active names that pass the scan and are not onboarded.
PlanOnboarding ==
  /\ At("maintain") /\ night.todo = {}
  /\ \/ /\ night.snapshots
        /\ Read
        /\ \E candidates \in SUBSET Flagged(NoRow) :
             night' = [night EXCEPT !.pc = "onboard", !.todo = candidates]
     \/ /\ ~night.snapshots
        /\ GoTo("close")
        /\ UNCHANGED <<db, work, txn>>
  /\ UNCHANGED <<today, stored, writer>>

CompleteInOneCadence(v) == v.daily # "none" \/ v.minute
Complete(v) == v.daily # "none" /\ v.minute

\* onboard_symbol for one candidate, and record_onboarded when both cadences
\* have bars.
Onboard(s) ==
  /\ At("onboard") /\ s \in night.todo
  /\ \E v \in Visited(s) :
       /\ stored' = [stored EXCEPT ![s] = v]
       /\ \/ /\ Complete(v)
             /\ Commit([work EXCEPT !.onboarded[s] = Flag(v)])
             /\ night' = [night EXCEPT !.todo = @ \ {s}, !.newly = @ \cup {s}]
          \/ /\ UNCHANGED <<db, work, txn>>
             /\ night' = [night EXCEPT !.todo = @ \ {s}]
  /\ UNCHANGED <<today, writer>>

OnboardedAll ==
  /\ At("onboard") /\ night.todo = {}
  /\ GoTo("close")
  /\ UNCHANGED <<today, db, work, txn, stored, writer>>

Close ==
  /\ At("close")
  /\ writer' = FALSE
  /\ GoTo(IF night.newly # {} THEN "launch" ELSE "done")
  /\ UNCHANGED <<today, db, work, txn, stored>>

RunSymbols == Flagged("sufficient")

\* create_run and launch_run over everything sufficient, when the night brought
\* something new.
LaunchRun ==
  /\ At("launch")
  /\ IF RunSymbols = {} THEN Read
     ELSE Commit([work EXCEPT !.runs = @ \cup {RunSymbols}])
  /\ GoTo("done")
  /\ UNCHANGED <<today, stored, writer>>

\* The connections are closed, or the process dies: with a kill, or with any
\* exception its stages do not catch.
Return ==
  /\ night.pc # "idle"
  /\ night' = NoNight
  /\ work' = db /\ txn' = "idle"
  /\ writer' = FALSE
  /\ UNCHANGED <<today, db, stored>>

Next ==
  \/ NextDay
  \/ \E d \in 1..today : Start(d)
  \/ Capture
  \/ Archive
  \/ ArchiveFails
  \/ Scan
  \/ SaveScan
  \/ Connect
  \/ PlanMaintenance
  \/ \E s \in Symbols : Maintain(s) \/ Onboard(s)
  \/ PlanOnboarding
  \/ OnboardedAll
  \/ Close
  \/ LaunchRun
  \/ Return

Spec == Init /\ [][Next]_vars

-----------------------------------------------------------------------------
Tables == [screener: [Dates -> [Endpoints -> 0..MaxDay]], scans: SUBSET Dates,
           onboarded: [Symbols -> Flags \cup {NoRow}], runs: SUBSET SUBSET Symbols]

TypeOK ==
  /\ today \in Dates
  /\ db \in Tables /\ work \in Tables
  /\ txn \in {"idle", "open", "failed"}
  /\ stored \in [Symbols -> [daily: {"none", "short", "mature"},
                             minute: BOOLEAN, hole: BOOLEAN]]
  /\ writer \in BOOLEAN
  /\ night.asOf \in 0..MaxDay

\* An archived screener snapshot was captured on the day it is filed under: a
\* backdated re-run never overwrites one with the market of another day.
GenuineSnapshots ==
  \A d \in Dates, e \in Endpoints : db.screener[d][e] \in {0, d}

\* No scan is stored for a day whose bars were missing when it was scanned.
RefusedNightsLeaveNoScan == db.scans \subseteq Covered

\* scan_saved is set once the scan is committed: whatever kills the job after
\* that, the scan is there.
ScanSavedIsDurable == night.scanSaved => night.asOf \in db.scans

\* What Postgres says of a night is what happened in it.
NightIsRecorded == GenuineSnapshots /\ RefusedNightsLeaveNoScan /\ ScanSavedIsDurable

\* What is onboarded has bars in both cadences, and what is not flagged
\* insufficient has enough of them, through every failed, repeated or killed
\* visit.
FlagsMatchBars ==
  \A s \in Symbols :
    db.onboarded[s] # NoRow =>
      /\ stored[s].daily # "none" /\ stored[s].minute
      /\ db.onboarded[s] = "sufficient" => stored[s].daily = "mature"

\* The run launched tonight trades only names with enough history.
RunsAreMature ==
  \A run \in db.runs : \A s \in run : stored[s].daily = "mature"

\* The launched job opens the warehouse to read, which a writer would refuse it:
\* at the launch the nightly job has let go of it.
LaunchFindsNoWriter == At("launch") => ~writer

\* Flags, bars and runs agree, whichever of the two paths wrote the flag.
FlagsAndRuns == TypeOK /\ FlagsMatchBars /\ RunsAreMature /\ LaunchFindsNoWriter
=============================================================================

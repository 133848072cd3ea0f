------------------------------ MODULE RunJobs ------------------------------
(***************************************************************************)
(* The rows of the runs table (src/rs_spy/store/repository.py) and the     *)
(* detached job processes that write them (src/rs_spy/jobs/launch.py,      *)
(* src/rs_spy/jobs/runner.py).  Every repository call commits, so each is  *)
(* one step, and none of them looks at the status it overwrites.  A job is *)
(* the process one driver launched for one run; several jobs of one run    *)
(* write the same row.  A job may be killed, or lose the store, at any     *)
(* point of its life.                                                      *)
(***************************************************************************)
CONSTANTS
  Cohorts,         \* 1..n_cohorts
  Invocations      \* bound: 1..k, how often the campaign script is invoked

VARIABLES
  status,        \* runs.status; "absent" before the INSERT
  stored,        \* the run has its trades and equity_curves rows
  job            \* where each job process is

storeVars == <<status, stored>>
jobVars == <<status, stored, job>>

\* A run_id stands for a row: the invocation that inserted it, and its cohort,
\* which is what its label m10-{tag}-{variant}-c{cohort} shows.
Runs == Invocations \X Cohorts
CohortOf(r) == r[2]

Jobs == Invocations \X Runs
RunOf(j) == j[2]

Statuses == {"absent", "queued", "running", "succeeded", "failed"}
Terminal == {"succeeded", "failed"}

\* "none": not launched; "starting": before mark_running; "executing": loading
\* bars and backtesting; "raised": in the except clause, before mark_failed;
\* "closing": its last write is done; "gone": the process has ended, by itself,
\* on an exception it could not record, by SIGKILL or by the OOM killer.
Places == {"none", "starting", "executing", "raised", "closing", "gone"}
Working == {"starting", "executing", "raised"}

JobInit ==
  /\ status = [r \in Runs |-> "absent"]
  /\ stored = [r \in Runs |-> FALSE]
  /\ job = [j \in Jobs |-> "none"]

MoveJob(j, from, to) == job[j] \in from /\ job' = [job EXCEPT ![j] = to]

\* The repository's writes.
SetStatus(r, s) == status' = [status EXCEPT ![r] = s]
CreateRun(r) == status[r] = "absent" /\ SetStatus(r, "queued")
MarkRunning(r) == SetStatus(r, "running")
MarkFailed(r) == SetStatus(r, "failed")

\* launch_run: the process exists, nothing is written yet.
Launch(j) == MoveJob(j, {"none"}, "starting")

Start(j) ==
  /\ MoveJob(j, {"starting"}, "executing")
  /\ MarkRunning(RunOf(j))
  /\ UNCHANGED stored

\* save_result, one transaction.  equity_curves.run_id is a primary key: a
\* second result for the same run aborts the transaction and raises.
SaveStatusFirst(j) ==
  IF status[RunOf(j)] # "succeeded"
  THEN /\ MoveJob(j, {"executing"}, "executing")
       /\ SetStatus(RunOf(j), "succeeded")
       /\ UNCHANGED stored
  ELSE /\ MoveJob(j, {"executing"}, "closing")
       /\ stored' = [stored EXCEPT ![RunOf(j)] = TRUE]
       /\ UNCHANGED status
Save(j) ==
  IF stored[RunOf(j)]
  THEN MoveJob(j, {"executing"}, "raised") /\ UNCHANGED storeVars
  ELSE /\ MoveJob(j, {"executing"}, "closing")
       /\ SetStatus(RunOf(j), "succeeded")
       /\ stored' = [stored EXCEPT ![RunOf(j)] = TRUE]

\* _execute_backtest or save_result raises: no bars, bad config, ...
Raise(j) == MoveJob(j, {"executing"}, "raised") /\ UNCHANGED storeVars

Report(j) ==
  /\ MoveJob(j, {"raised"}, "closing")
  /\ MarkFailed(RunOf(j))
  /\ UNCHANGED stored

\* An exception outside the try block (connect, init_schema, get_config,
\* mark_running), or mark_failed itself failing on a lost connection.
Crash(j) == MoveJob(j, {"starting", "raised"}, "gone") /\ UNCHANGED storeVars

Exit(j) == MoveJob(j, {"closing"}, "gone") /\ UNCHANGED storeVars

\* Anywhere else a kill leaves what Crash or Exit leaves.
Kill(j) == MoveJob(j, {"executing"}, "gone") /\ UNCHANGED storeVars

\* What a job does by itself; a kill comes from outside.
Proceed(j) == Start(j) \/ Save(j) \/ Raise(j) \/ Report(j) \/ Crash(j) \/ Exit(j)
JobStep(j) == Proceed(j) \/ Kill(j)
=============================================================================

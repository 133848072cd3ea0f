------------------------------ MODULE Campaign ------------------------------
(***************************************************************************)
(* The campaign driver: scripts/run_campaign_500.py (main) and             *)
(* create_campaign_runs, queued_campaign_runs and poll_and_launch of       *)
(* src/rs_spy/backtest/campaign.py, for one tag and one variant, over the  *)
(* rows and jobs of RunJobs.  A driver is one invocation of the script; it *)
(* may be interrupted (Ctrl-C) between any two of its store or process     *)
(* calls, and its jobs live on, because they are detached.  The next       *)
(* invocation, with or without --resume, begins when no other is active.   *)
(***************************************************************************)
EXTENDS RunJobs, Integers, Sequences, FiniteSets

CONSTANTS
  MaxParallel,   \* max_parallel
  MaxJobs        \* bound: a --resume that could exceed it is not made

ASSUME CampaignConstants ==
  /\ Cohorts \subseteq Nat \ {0} /\ IsFiniteSet(Cohorts)
  /\ MaxParallel \in Nat \ {0} /\ MaxJobs \in Nat
  /\ Invocations \subseteq Nat /\ IsFiniteSet(Invocations)

VARIABLES
  driver,      \* pc and local variables of each invocation
  final,       \* what each poll_and_launch returns, per run; or "none"
  overlapped   \* history: a --resume began while a job of an earlier
               \* invocation was still at work

vars == <<jobVars, driver, final, overlapped>>

driverVars == <<driver, final, overlapped>>

NoDriver == [pc |-> "off", pending |-> <<>>, live |-> <<>>, kept |-> <<>>]

Init ==
  /\ JobInit
  /\ driver = [d \in Invocations |-> NoDriver]
  /\ final = [d \in Invocations |-> [r \in Runs |-> "none"]]
  /\ overlapped = FALSE

Idle == {"off", "returned", "interrupted"}
Active(d) == driver[d].pc \notin Idle
NoneActive == \A d \in Invocations : ~Active(d)

At(d, pc) == driver[d].pc = pc
GoTo(d, pc) == driver' = [driver EXCEPT ![d].pc = pc]

\* One invocation after the other.
MayInvoke(d) ==
  /\ At(d, "off")
  /\ NoneActive
  /\ \A e \in Invocations : e < d => driver[e].pc # "off"

Existing == {r \in Runs : status[r] # "absent"}

\* ORDER BY label; the rows of one campaign differ in their cohort.
ByLabel(R) ==
  CHOOSE q \in [1..Cardinality(R) -> R] :
    \A i, k \in DOMAIN q : i < k => CohortOf(q[i]) < CohortOf(q[k])

\* An invocation that is refused exits before it writes anything: it is not a
\* step, and the invocation may still be made.

\* Without --resume: refused when a row of this tag and variant exists.
Invoke(d) ==
  /\ MayInvoke(d)
  /\ Existing = {}
  /\ GoTo(d, "creating")
  /\ UNCHANGED <<jobVars, final>>

\* create_campaign_runs: one committed row per cohort, in order.
Create(d) ==
  LET missing == {c \in Cohorts : status[<<d, c>>] = "absent"} IN
  /\ At(d, "creating")
  /\ \/ /\ missing = {}
        /\ GoTo(d, "looping")
        /\ UNCHANGED status
     \/ \E c \in missing :
          /\ \A e \in missing : c <= e
          /\ CreateRun(<<d, c>>)
          /\ driver' = [driver EXCEPT ![d].pending = Append(@, <<d, c>>)]
  /\ UNCHANGED <<stored, job, final>>

\* With --resume: this campaign's queued rows, or a refusal if there are none.
Resume(d) ==
  LET queued == {r \in Existing : status[r] = "queued"} IN
  /\ MayInvoke(d)
  /\ queued # {}
  /\ Cardinality({j \in Jobs : job[j] # "none"}) + Cardinality(queued) <= MaxJobs
  /\ driver' = [driver EXCEPT ![d].pc = "looping", ![d].pending = ByLabel(queued)]
  /\ overlapped' = (overlapped \/ \E j \in Jobs : job[j] \notin {"none", "gone"})
  /\ UNCHANGED <<jobVars, final>>

-----------------------------------------------------------------------------
\* poll_and_launch.  "kept" is still_live, "live" the runs this round has yet
\* to look at; a round looks at each live run, then launches while slots are
\* free, then sleeps or returns.
Checking(d) == At(d, "looping") /\ driver[d].live # <<>>
Launching(d) == At(d, "looping") /\ driver[d].live = <<>>

SlotFreeOffByOne(d) ==
  driver[d].pending # <<>> /\ Len(driver[d].kept) <= MaxParallel
SlotFree(d) ==
  driver[d].pending # <<>> /\ Len(driver[d].kept) < MaxParallel

LaunchNext(d) ==
  LET r == Head(driver[d].pending) IN
  /\ Launching(d)
  /\ SlotFree(d)
  /\ Launch(<<d, r>>)
  /\ driver' = [driver EXCEPT ![d].pending = Tail(@),
                              ![d].kept = Append(@, r)]
  /\ UNCHANGED <<status, stored, final>>

\* Nothing more to launch: sleep until the next round, or return.
EndOfRound(d) ==
  LET me == driver[d] IN
  /\ Launching(d)
  /\ ~SlotFree(d)
  /\ driver' = [driver EXCEPT ![d] =
       IF me.pending = <<>> /\ me.kept = <<>>
       THEN [me EXCEPT !.pc = "returned"]
       ELSE [me EXCEPT !.live = me.kept, !.kept = <<>>]]
  /\ UNCHANGED <<jobVars, final>>

\* The run at hand leaves the poll: its status is final.
Settle(d, s) ==
  /\ final' = [final EXCEPT ![d][Head(driver[d].live)] = s]
  /\ driver' = [driver EXCEPT ![d].live = Tail(@), ![d].pc = "looping"]

\* get_run: the first read of the status.
ReadStatus(d) ==
  LET s == status[Head(driver[d].live)] IN
  /\ Checking(d)
  /\ IF s \in Terminal THEN Settle(d, s)
     ELSE GoTo(d, "polling") /\ UNCHANGED final
  /\ UNCHANGED jobVars

\* popen.poll().
PollExitNever(d) ==
  /\ At(d, "polling")
  /\ driver' = [driver EXCEPT ![d].live = Tail(@), ![d].pc = "looping",
                              ![d].kept = Append(@, Head(driver[d].live))]
  /\ UNCHANGED <<jobVars, final>>
PollExit(d) ==
  LET r == Head(driver[d].live) IN
  /\ At(d, "polling")
  /\ IF job[<<d, r>>] = "gone"
     THEN GoTo(d, "rechecking")
     ELSE driver' = [driver EXCEPT ![d].live = Tail(@), ![d].pc = "looping",
                                   ![d].kept = Append(@, r)]
  /\ UNCHANGED <<jobVars, final>>

\* The race guard: the process is gone, read the status once more.
RecheckSkipped(d) ==
  /\ At(d, "rechecking")
  /\ GoTo(d, "failing")
  /\ UNCHANGED <<jobVars, final>>
RecheckTrusting(d) ==
  /\ At(d, "rechecking")
  /\ Settle(d, "failed")
  /\ UNCHANGED jobVars
Recheck(d) ==
  LET s == status[Head(driver[d].live)] IN
  /\ At(d, "rechecking")
  /\ IF s \in Terminal THEN Settle(d, s)
     ELSE GoTo(d, "failing") /\ UNCHANGED final
  /\ UNCHANGED jobVars

FailRun(d) ==
  /\ At(d, "failing")
  /\ MarkFailed(Head(driver[d].live))
  /\ Settle(d, "failed")
  /\ UNCHANGED <<stored, job>>

\* The last invocation of the bound is left alone: after its interruption only
\* jobs move, as they do after an earlier one.
Interrupt(d) ==
  /\ Active(d)
  /\ \E e \in Invocations : At(e, "off")
  /\ driver' = [driver EXCEPT ![d] = [NoDriver EXCEPT !.pc = "interrupted"]]
  /\ UNCHANGED <<jobVars, final>>

DriverStep(d) ==
  \/ Create(d)
  \/ LaunchNext(d)
  \/ EndOfRound(d)
  \/ ReadStatus(d)
  \/ PollExit(d)
  \/ Recheck(d)
  \/ FailRun(d)

Next ==
  \/ \E d \in Invocations :
       \/ Resume(d)
       \/ /\ Invoke(d) \/ DriverStep(d) \/ Interrupt(d)
          /\ UNCHANGED overlapped
  \/ \E j \in Jobs : JobStep(j) /\ UNCHANGED driverVars

\* A driver that is not interrupted keeps polling (one is active at a time),
\* and some job that can go on does: a job's computation is finite, so this
\* brings every one of them to its end.  Invocations, interrupts and kills are
\* not fair.
Fairness ==
  /\ WF_vars(\E d \in Invocations : DriverStep(d) /\ UNCHANGED overlapped)
  /\ WF_vars(\E j \in Jobs : Proceed(j) /\ UNCHANGED driverVars)

Spec == Init /\ [][Next]_vars
FairSpec == Spec /\ Fairness

-----------------------------------------------------------------------------
PCs == Idle \cup {"creating", "looping", "polling",
                  "rechecking", "failing"}

TypeOK ==
  /\ status \in [Runs -> Statuses]
  /\ stored \in [Runs -> BOOLEAN]
  /\ job \in [Jobs -> Places]
  /\ driver \in [Invocations -> [pc: PCs, pending: Seq(Runs), live: Seq(Runs),
                                 kept: Seq(Runs)]]
  /\ final \in [Invocations -> [Runs -> Statuses \cup {"none"}]]
  /\ overlapped \in BOOLEAN

\* Unless an operator resumed over jobs at work, no more than max_parallel jobs
\* are at work on the machine, although a driver judges a slot free from rows
\* that the jobs themselves write: no write marks a run finished while its job
\* still has work to do.
ParallelBound ==
  ~overlapped => Cardinality({j \in Jobs : job[j] \in Working}) <= MaxParallel

\* What a driver reports of a run is what the store says of it, then and later:
\* a job that saved its result between the driver's two looks is not reported,
\* or marked, as failed.  (An operator who resumes over jobs at work gives one
\* row two writers, and loses this.)
FinalIsStored ==
  ~overlapped =>
    \A d \in Invocations, r \in Runs :
      final[d][r] # "none" => final[d][r] = status[r]

\* Until jobs overlap, every reader of the runs-store may rely on the life
\* cycle of RunLifecycle: a campaign step is a step of it or changes no row.
Lifecycle == INSTANCE RunLifecycle
ImplementsLifecycle ==
  Lifecycle!Init /\ [][ ~overlapped' => Lifecycle!Next ]_storeVars

\* A run shown as succeeded has its trades and its equity curve, whichever of
\* its jobs wrote the row last and whoever was interrupted.
SucceededHasResults ==
  \A r \in Runs : status[r] = "succeeded" => stored[r]

\* A tag and variant never has two runs of one cohort when one invocation
\* follows the other, however the earlier one ended: pooling would count the
\* cohort twice.
OneRunPerCohort ==
  \A r, t \in Existing : CohortOf(r) = CohortOf(t) => r = t

\* What a reader may pool of a campaign is one run of a cohort, with its results,
\* and what a driver reports of it is what is stored.
PoolableRuns == SucceededHasResults /\ OneRunPerCohort /\ FinalIsStored

\* When a driver returns, no run of the campaign is left queued: each was
\* started or was marked failed, those of an interrupted driver included.
NothingLeftQueued ==
  (\E d \in Invocations : At(d, "returned"))
    => \A r \in Existing : status[r] # "queued"

\* The driver's side of it: jobs within the bound, and none forgotten.
JobsAccounted == ParallelBound /\ NothingLeftQueued

\* A driver that is not interrupted returns, whatever happens to its jobs: none
\* of them can keep it waiting by dying silently.
DriverReturns == []<>NoneActive
=============================================================================

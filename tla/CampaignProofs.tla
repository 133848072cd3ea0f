--------------------------- MODULE CampaignProofs ---------------------------
(***************************************************************************)
(* What a campaign leaves in the runs-store, for any number of cohorts,    *)
(* slots and invocations, whoever is interrupted or killed.  Two inductive *)
(* invariants: RowsInv holds always, QuietInv until an operator resumes    *)
(* over jobs at work, after which one row may have two writers.            *)
(***************************************************************************)
EXTENDS CampaignPool, FunctionTheorems, FiniteSetTheorems, SequenceTheorems, TLAPS

Elems(q) == {q[i] : i \in 1..Len(q)}

\* The runs an active driver will still launch or look at.
Polled(d) == Elems(driver[d].live) \cup Elems(driver[d].kept)
Tracked(d) == Elems(driver[d].pending) \cup Polled(d)

AtWork(j) == job[j] \notin {"none", "gone"}

\* One driver at a time; it knows only rows that exist, and its head is a run.
DriverInv ==
  /\ \A d, e \in Invocations : Active(d) /\ Active(e) => d = e
  /\ \A d \in Invocations :
       ~Active(d) => driver[d] = [NoDriver EXCEPT !.pc = driver[d].pc]
  /\ \A d \in Invocations : Tracked(d) \subseteq Existing
  /\ \A d \in Invocations :
       driver[d].pc \in {"polling", "rechecking", "failing"} => driver[d].live # <<>>

\* Only one invocation ever inserts rows, and every job has its row.
OwnerInv ==
  /\ \A r, t \in Existing : r[1] = t[1]
  /\ \A j \in Jobs : job[j] # "none" => RunOf(j) \in Existing
  /\ \A d \in Invocations :
       At(d, "creating") =>
         /\ \A j \in Jobs : job[j] = "none"
         /\ \A r \in Existing : r[1] = d /\ status[r] = "queued"
         /\ \A e \in Invocations : At(e, "returned") => Cohorts = {}
  /\ \A d \in Invocations :
       driver[d].pc \notin {"off", "creating", "interrupted"}
         => Existing # {} \/ Cohorts = {}

\* A driver forgets no queued row while it works, and leaves none.
QueueInv ==
  /\ \A d \in Invocations :
       Active(d) => \A r \in Existing : status[r] = "queued" => r \in Tracked(d)
  /\ NothingLeftQueued

RowsInv == DriverInv /\ OwnerInv /\ QueueInv /\ SucceededHasResults

\* Until jobs overlap, all jobs at work are those of the latest driver, which
\* polls them, and a row says where its job is.
JobsInv ==
  /\ \A j, k \in Jobs : AtWork(j) /\ AtWork(k) => j[1] = k[1]
  /\ \A d \in Invocations, j \in Jobs :
       Active(d) /\ AtWork(j) => j[1] = d
  /\ \A d \in Invocations, j \in Jobs :
       Active(d) /\ job[j] \in Working => RunOf(j) \in Polled(d)
  /\ \A j \in Jobs :
       /\ job[j] = "starting" => status[RunOf(j)] = "queued"
       /\ job[j] \in {"executing", "raised"} => status[RunOf(j)] = "running"
       /\ job[j] = "closing" => status[RunOf(j)] \in Terminal

\* What a driver is about to write is still right when it writes it.
PlanInv(d) ==
  /\ \A r \in Elems(driver[d].pending) : job[<<d, r>>] = "none" => status[r] = "queued"
  /\ driver[d].pc \in {"rechecking", "failing"} => job[<<d, Head(driver[d].live)>>] = "gone"
  /\ At(d, "failing") => status[Head(driver[d].live)] \notin Terminal

ReportInv ==
  /\ \A r \in Runs : stored[r] => status[r] = "succeeded"
  /\ \A d \in Invocations, r \in Runs :
       final[d][r] # "none" => final[d][r] \in Terminal /\ final[d][r] = status[r]

WorkingJobs == {j \in Jobs : job[j] \in Working}

Quiet ==
  /\ JobsInv /\ ReportInv
  /\ \A d \in Invocations : PlanInv(d)
  /\ Cardinality(WorkingJobs) <= MaxParallel

QuietInv == ~overlapped => Quiet

IInv == TypeOK /\ RowsInv /\ QuietInv

Whole == {CohortOf(r) : r \in Existing} = Cohorts
WholeUnlessBegun == Existing = {} \/ (\E d \in Invocations : At(d, "creating")) \/ Whole

PoolInv ==
  /\ pool \subseteq Existing
  /\ \A r \in pool : stored[r]
  /\ pool # {} /\ ~cutShort => {CohortOf(r) : r \in pool} = Cohorts
  /\ ~cutShort => WholeUnlessBegun

-----------------------------------------------------------------------------
\* Sequences of runs as sets.
LEMMA ElemsEmpty == Elems(<<>>) = {}
BY DEF Elems

LEMMA ElemsAppend ==
  ASSUME NEW S, NEW q \in Seq(S), NEW e \in S
  PROVE  /\ Append(q, e) \in Seq(S)
         /\ Elems(Append(q, e)) = Elems(q) \cup {e}
BY AppendProperties DEF Elems

LEMMA ElemsHeadTail ==
  ASSUME NEW S, NEW q \in Seq(S), q # <<>>
  PROVE  /\ Head(q) \in S /\ Tail(q) \in Seq(S)
         /\ Elems(q) = {Head(q)} \cup Elems(Tail(q))
BY HeadTailProperties DEF Elems

LEMMA ElemsType ==
  ASSUME NEW S, NEW q \in Seq(S)
  PROVE  Elems(q) \subseteq S
BY DEF Elems

\* (ByLabel) The rows in the order of their cohorts are all of the rows: the row with n
\* cohorts before it is the (n+1)-th.
LEMMA RunsFinite == IsFiniteSet(Runs)
BY CampaignConstants, FS_Product DEF Runs

LEMMA ByLabelListsAll ==
  ASSUME NEW R, R \subseteq Runs, \A r, t \in R : CohortOf(r) = CohortOf(t) => r = t
  PROVE  /\ ByLabel(R) \in Seq(R)
         /\ Elems(ByLabel(R)) = R
<1> DEFINE n == Cardinality(R)
           Before(r) == {t \in R : CohortOf(t) < CohortOf(r)}
           rank == [r \in R |-> Cardinality(Before(r)) + 1]
           Increasing(q) == \A i, k \in DOMAIN q : i < k => CohortOf(q[i]) < CohortOf(q[k])
           listed == ByLabel(R)
<1>1. IsFiniteSet(R) /\ n \in Nat
  BY RunsFinite, FS_Subset, FS_CardinalityType
<1>2. \A r \in R : CohortOf(r) \in Nat
  BY CampaignConstants DEF Runs, CohortOf
<1>3. IsFiniteSet(1..n) /\ Cardinality(1..n) = n
  BY <1>1, FS_Interval
<1>4. \A r \in R : /\ IsFiniteSet(Before(r)) /\ Cardinality(Before(r)) \in Nat
                  /\ rank[r] = Cardinality(Before(r)) + 1
  BY <1>1, FS_Subset, FS_CardinalityType
<1> HIDE DEF Before
<1> HIDE DEF rank
<1>5. \A r \in R : rank[r] \in 1..n
  <2> TAKE r \in R
  <2>1. r \notin Before(r) /\ Before(r) \in SUBSET R
    BY <1>2 DEF Before
  <2>2. Cardinality(Before(r)) <= n /\ Cardinality(Before(r)) # n
    BY <1>1, <2>1, FS_Subset
  <2> QED
    BY <1>1, <1>4, <2>2
<1>6. ASSUME NEW r \in R, NEW t \in R, CohortOf(r) < CohortOf(t)
      PROVE  rank[r] < rank[t]
  <2>1. Before(r) \in SUBSET Before(t) /\ r \in Before(t) /\ r \notin Before(r)
    BY <1>2, <1>6 DEF Before
  <2>2. Cardinality(Before(r)) <= Cardinality(Before(t))
        /\ Cardinality(Before(r)) # Cardinality(Before(t))
    BY <1>4, <2>1, FS_Subset
  <2> QED
    BY <1>4, <2>2
<1>7. \A r, t \in R : rank[r] = rank[t] => r = t
  BY <1>2, <1>5, <1>6
<1>8. rank \in [R -> 1..n]
  BY <1>5 DEF rank
<1>9. rank \in Bijection(R, 1..n)
  <2>1. rank \in Injection(R, 1..n)
    BY <1>7, <1>8 DEF Injection, IsInjective
  <2> QED
    BY <1>3, <2>1, FS_Injection DEF Bijection
<1>10. PICK q \in Bijection(1..n, R) : \A i \in 1..n : rank[q[i]] = i
  <2>1. /\ Inverse(rank, R, 1..n) \in Bijection(1..n, R)
        /\ \A r \in R : Inverse(rank, R, 1..n)[rank[r]] = r
    BY <1>9, Fun_BijInverse
  <2>2. \A i \in 1..n : \E r \in R : rank[r] = i
    BY <1>9 DEF Bijection, Surjection
  <2> QED
    BY <2>1, <2>2
<1>11. q \in [1..n -> R] /\ Increasing(q)
  <2>1. q \in [1..n -> R]
    BY DEF Bijection, Injection
  <2>2. \A i, k \in 1..n : i < k => CohortOf(q[i]) < CohortOf(q[k])
    BY <1>2, <1>6, <1>10, <2>1
  <2> QED
    BY <2>1, <2>2
<1>12. listed \in [1..n -> R] /\ Increasing(listed)
  BY <1>11 DEF ByLabel
<1> HIDE DEF listed
<1>13. listed \in Injection(1..n, R)
  <2>1. \A i, k \in 1..n : listed[i] = listed[k] => i = k
    BY <1>1, <1>2, <1>12
  <2> QED
    BY <1>12, <2>1 DEF Injection, IsInjective
<1>14. listed \in Surjection(1..n, R)
  BY <1>1, <1>3, <1>13, FS_Injection
<1>15. listed \in Seq(R) /\ Len(listed) = n
  BY <1>1, <1>12
<1>16. Elems(listed) = R
  BY <1>12, <1>14, <1>15 DEF Surjection, Elems
<1> QED
  BY <1>15, <1>16 DEF listed

-----------------------------------------------------------------------------
\* What the steps of a driver do to it, field by field.
Drivers == [pc: PCs, pending: Seq(Runs), live: Seq(Runs), kept: Seq(Runs)]

Becomes(d, pc, pending, live, kept) ==
  /\ driver' \in [Invocations -> Drivers]
  /\ driver'[d].pc = pc /\ driver'[d].pending = pending
  /\ driver'[d].live = live /\ driver'[d].kept = kept
  /\ \A e \in Invocations \ {d} : driver'[e] = driver[e]

\* The loop of poll_and_launch, without the insertion of the rows.
LoopStep(d) ==
  LaunchNext(d) \/ EndOfRound(d) \/ ReadStatus(d) \/ PollExit(d) \/ Recheck(d) \/ FailRun(d)

LEMMA GoToBecomes ==
  ASSUME TypeOK, NEW d \in Invocations, NEW pc \in PCs, GoTo(d, pc)
  PROVE  Becomes(d, pc, driver[d].pending, driver[d].live, driver[d].kept)
BY DEF TypeOK, GoTo, Becomes, Drivers

LEMMA InvokeBecomes ==
  ASSUME TypeOK, DriverInv, NEW d \in Invocations, Invoke(d)
  PROVE  Becomes(d, "creating", <<>>, <<>>, <<>>)
<1>1. driver[d] = NoDriver
  BY DEF Invoke, MayInvoke, DriverInv, Active, At, Idle, NoDriver
<1> QED
  BY <1>1, GoToBecomes DEF Invoke, PCs, NoDriver

LEMMA ResumeBecomes ==
  ASSUME TypeOK, DriverInv, OwnerInv, NEW d \in Invocations, Resume(d)
  PROVE  \E queued \in Seq(Runs) :
           /\ Elems(queued) = {r \in Existing : status[r] = "queued"}
           /\ Becomes(d, "looping", queued, <<>>, <<>>)
<1> DEFINE R == {r \in Existing : status[r] = "queued"}
<1>1. driver[d] = NoDriver
  BY DEF Resume, MayInvoke, DriverInv, Active, At, Idle, NoDriver
<1>2. R \subseteq Runs /\ \A r, t \in R : CohortOf(r) = CohortOf(t) => r = t
  BY DEF Existing, OwnerInv, CohortOf, Runs
<1>3. ByLabel(R) \in Seq(R) /\ Elems(ByLabel(R)) = R
  BY <1>2, ByLabelListsAll
<1>4. ByLabel(R) \in Seq(Runs)
  BY <1>2, <1>3, SeqMonotonic
<1>5. driver' = [driver EXCEPT ![d].pc = "looping", ![d].pending = ByLabel(R)]
  BY DEF Resume
<1> HIDE DEF R
<1> DEFINE q == ByLabel(R)
<1> HIDE DEF q
<1>6. q \in Seq(Runs) /\ driver' = [driver EXCEPT ![d].pc = "looping", ![d].pending = q]
  BY <1>4, <1>5 DEF q
<1>7. Becomes(d, "looping", q, driver[d].live, driver[d].kept)
  BY <1>6 DEF TypeOK, Becomes, Drivers, PCs
<1> QED
  BY <1>1, <1>3, <1>4, <1>7 DEF R, q, NoDriver

LEMMA CreateBecomes ==
  ASSUME TypeOK, NEW d \in Invocations, Create(d)
  PROVE  \/ /\ \A c \in Cohorts : status[<<d, c>>] # "absent"
            /\ Becomes(d, "looping", driver[d].pending, driver[d].live, driver[d].kept)
            /\ UNCHANGED status
         \/ \E c \in Cohorts :
              /\ <<d, c>> \in Runs /\ status[<<d, c>>] = "absent"
              /\ status' = [status EXCEPT ![<<d, c>>] = "queued"]
              /\ Becomes(d, "creating", Append(driver[d].pending, <<d, c>>),
                         driver[d].live, driver[d].kept)
<1>1. CASE GoTo(d, "looping") /\ {c \in Cohorts : status[<<d, c>>] = "absent"} = {}
               /\ UNCHANGED status
  BY <1>1, GoToBecomes DEF PCs
<1>2. ASSUME NEW c \in Cohorts, status[<<d, c>>] = "absent", CreateRun(<<d, c>>),
             driver' = [driver EXCEPT ![d].pending = Append(@, <<d, c>>)]
      PROVE  /\ <<d, c>> \in Runs /\ status[<<d, c>>] = "absent"
             /\ status' = [status EXCEPT ![<<d, c>>] = "queued"]
             /\ Becomes(d, "creating", Append(driver[d].pending, <<d, c>>),
                         driver[d].live, driver[d].kept)
  <2>1. <<d, c>> \in Runs
    BY DEF Runs
  <2>2. driver[d] \in Drivers /\ driver[d].pc = "creating"
    BY DEF TypeOK, Drivers, Create, At
  <2>3. Append(driver[d].pending, <<d, c>>) \in Seq(Runs)
    BY <2>1, <2>2, AppendProperties DEF Drivers
  <2>4. Becomes(d, "creating", Append(driver[d].pending, <<d, c>>),
                driver[d].live, driver[d].kept)
    BY <1>2, <2>2, <2>3 DEF TypeOK, Becomes, Drivers
  <2> QED
    BY <1>2, <2>1, <2>4 DEF CreateRun, SetStatus
<1> QED
  BY <1>1, <1>2 DEF Create

LEMMA InterruptBecomes ==
  ASSUME TypeOK, NEW d \in Invocations, Interrupt(d)
  PROVE  Becomes(d, "interrupted", <<>>, <<>>, <<>>)
BY EmptySeq DEF TypeOK, Interrupt, Becomes, Drivers, NoDriver, PCs, Idle

LEMMA LaunchBecomes ==
  ASSUME TypeOK, NEW d \in Invocations, LaunchNext(d)
  PROVE  LET r == Head(driver[d].pending) IN
         /\ r \in Runs /\ r \in Elems(driver[d].pending) /\ driver[d].pending # <<>>
         /\ At(d, "looping") /\ driver[d].live = <<>>
         /\ Len(driver[d].kept) < MaxParallel
         /\ job[<<d, r>>] = "none"
         /\ job' = [job EXCEPT ![<<d, r>>] = "starting"]
         /\ UNCHANGED <<status, stored, final>>
         /\ Becomes(d, "looping", Tail(driver[d].pending), <<>>,
                    Append(driver[d].kept, r))
<1> DEFINE r == Head(driver[d].pending)
<1>1. driver[d] \in Drivers /\ driver[d].pc = "looping" /\ driver[d].live = <<>>
  BY DEF TypeOK, Drivers, LaunchNext, Launching, At
<1>2. driver[d].pending # <<>> /\ Len(driver[d].kept) < MaxParallel
  BY DEF LaunchNext, SlotFree
<1>3. /\ r \in Runs /\ Tail(driver[d].pending) \in Seq(Runs)
      /\ r \in Elems(driver[d].pending)
  BY <1>1, <1>2, ElemsHeadTail DEF Drivers
<1>4. Append(driver[d].kept, r) \in Seq(Runs)
  BY <1>1, <1>3, AppendProperties DEF Drivers
<1>5. /\ driver' = [driver EXCEPT ![d].pending = Tail(@), ![d].kept = Append(@, r)]
      /\ job[<<d, r>>] = "none"
      /\ job' = [job EXCEPT ![<<d, r>>] = "starting"]
      /\ UNCHANGED <<status, stored, final>>
  BY DEF LaunchNext, Launch, MoveJob
<1> HIDE DEF r
<1>6. Becomes(d, "looping", Tail(driver[d].pending), <<>>, Append(driver[d].kept, r))
  BY <1>1, <1>3, <1>4, <1>5 DEF TypeOK, Becomes, Drivers
<1>7. At(d, "looping")
  BY <1>1 DEF At
<1> QED
  BY <1>1, <1>2, <1>3, <1>5, <1>6, <1>7 DEF r

LEMMA EndOfRoundBecomes ==
  ASSUME TypeOK, NEW d \in Invocations, EndOfRound(d)
  PROVE  /\ At(d, "looping") /\ driver[d].live = <<>>
         /\ UNCHANGED <<status, stored, job, final>>
         /\ \/ /\ driver[d].pending = <<>> /\ driver[d].kept = <<>>
               /\ Becomes(d, "returned", <<>>, <<>>, <<>>)
            \/ Becomes(d, "looping", driver[d].pending, driver[d].kept, <<>>)
<1>1. driver[d] \in Drivers /\ driver[d].pc = "looping" /\ driver[d].live = <<>>
  BY DEF TypeOK, Drivers, EndOfRound, Launching, At
<1>2. CASE driver[d].pending = <<>> /\ driver[d].kept = <<>>
  <2>1. driver' = [driver EXCEPT ![d] = [driver[d] EXCEPT !.pc = "returned"]]
    BY <1>2 DEF EndOfRound
  <2>2. Becomes(d, "returned", <<>>, <<>>, <<>>)
    BY <1>1, <1>2, <2>1 DEF TypeOK, Becomes, Drivers, PCs, Idle
  <2> QED
    BY <1>1, <1>2, <2>2 DEF At, EndOfRound, jobVars
<1>3. CASE ~(driver[d].pending = <<>> /\ driver[d].kept = <<>>)
  <2>1. driver' = [driver EXCEPT ![d] = [driver[d] EXCEPT !.live = driver[d].kept,
                                                          !.kept = <<>>]]
    BY <1>3 DEF EndOfRound
  <2>2. Becomes(d, "looping", driver[d].pending, driver[d].kept, <<>>)
    BY <1>1, <2>1, EmptySeq DEF TypeOK, Becomes, Drivers
  <2> QED
    BY <1>1, <2>2 DEF At, EndOfRound, jobVars
<1> QED
  BY <1>2, <1>3

\* Where a driver looks at a run: its head leaves the poll, is kept for the next
\* round, or is looked at once more.
LEMMA SettleBecomes ==
  ASSUME TypeOK, NEW d \in Invocations, driver[d].live # <<>>,
         NEW s, Settle(d, s)
  PROVE  /\ Becomes(d, "looping", driver[d].pending, Tail(driver[d].live), driver[d].kept)
         /\ final' = [final EXCEPT ![d] = [@ EXCEPT ![Head(driver[d].live)] = s]]
<1>1. driver[d] \in Drivers /\ Tail(driver[d].live) \in Seq(Runs)
  BY HeadTailProperties DEF TypeOK, Drivers
<1>2. driver' = [driver EXCEPT ![d].live = Tail(@), ![d].pc = "looping"]
  BY DEF Settle
<1>3. Becomes(d, "looping", driver[d].pending, Tail(driver[d].live), driver[d].kept)
  BY <1>1, <1>2 DEF TypeOK, Becomes, Drivers, PCs
<1> QED
  BY <1>3 DEF Settle

LEMMA ReadStatusBecomes ==
  ASSUME TypeOK, NEW d \in Invocations, ReadStatus(d)
  PROVE  LET r == Head(driver[d].live) IN
         /\ At(d, "looping") /\ driver[d].live # <<>>
         /\ UNCHANGED <<status, stored, job>>
         /\ \/ /\ status[r] \in Terminal
               /\ Becomes(d, "looping", driver[d].pending, Tail(driver[d].live),
                          driver[d].kept)
               /\ final' = [final EXCEPT ![d] = [@ EXCEPT ![r] = status[r]]]
            \/ /\ Becomes(d, "polling", driver[d].pending, driver[d].live, driver[d].kept)
               /\ UNCHANGED final
<1>1. At(d, "looping") /\ driver[d].live # <<>>
  BY DEF ReadStatus, Checking
<1>2. UNCHANGED <<status, stored, job>>
  BY DEF ReadStatus, jobVars
<1>3. CASE status[Head(driver[d].live)] \in Terminal
  BY <1>1, <1>2, <1>3, SettleBecomes DEF ReadStatus
<1>4. CASE status[Head(driver[d].live)] \notin Terminal
  BY <1>1, <1>2, <1>4, GoToBecomes DEF ReadStatus, PCs
<1> QED
  BY <1>3, <1>4

LEMMA PollExitBecomes ==
  ASSUME TypeOK, DriverInv, NEW d \in Invocations, PollExit(d)
  PROVE  LET r == Head(driver[d].live) IN
         /\ At(d, "polling") /\ driver[d].live # <<>> /\ r \in Runs
         /\ UNCHANGED <<status, stored, job, final>>
         /\ \/ /\ job[<<d, r>>] = "gone"
               /\ Becomes(d, "rechecking", driver[d].pending, driver[d].live,
                          driver[d].kept)
            \/ Becomes(d, "looping", driver[d].pending, Tail(driver[d].live),
                       Append(driver[d].kept, r))
<1> DEFINE r == Head(driver[d].live)
<1>1. At(d, "polling") /\ driver[d].live # <<>>
  BY DEF PollExit, At, DriverInv
<1>2. UNCHANGED <<status, stored, job, final>>
  BY DEF PollExit, jobVars
<1>3. driver[d] \in Drivers /\ r \in Runs /\ Tail(driver[d].live) \in Seq(Runs)
  BY <1>1, HeadTailProperties DEF TypeOK, Drivers
<1>4. CASE job[<<d, r>>] = "gone"
  BY <1>1, <1>2, <1>3, <1>4, GoToBecomes DEF PollExit, PCs
<1>5. CASE job[<<d, r>>] # "gone"
  <2>1. driver' = [driver EXCEPT ![d].live = Tail(@), ![d].pc = "looping",
                                 ![d].kept = Append(@, r)]
    BY <1>5 DEF PollExit
  <2>2. Append(driver[d].kept, r) \in Seq(Runs)
    BY <1>3, AppendProperties DEF Drivers
  <2> HIDE DEF r
  <2>3. Becomes(d, "looping", driver[d].pending, Tail(driver[d].live),
                Append(driver[d].kept, r))
    BY <1>3, <2>1, <2>2 DEF TypeOK, Becomes, Drivers, PCs
  <2> QED
    BY <1>1, <1>2, <1>3, <2>3 DEF r
<1> QED
  BY <1>4, <1>5

LEMMA RecheckBecomes ==
  ASSUME TypeOK, DriverInv, NEW d \in Invocations, Recheck(d)
  PROVE  LET r == Head(driver[d].live) IN
         /\ At(d, "rechecking") /\ driver[d].live # <<>>
         /\ UNCHANGED <<status, stored, job>>
         /\ \/ /\ status[r] \in Terminal
               /\ Becomes(d, "looping", driver[d].pending, Tail(driver[d].live),
                          driver[d].kept)
               /\ final' = [final EXCEPT ![d] = [@ EXCEPT ![r] = status[r]]]
            \/ /\ status[r] \notin Terminal
               /\ Becomes(d, "failing", driver[d].pending, driver[d].live, driver[d].kept)
               /\ UNCHANGED final
<1>1. At(d, "rechecking") /\ driver[d].live # <<>>
  BY DEF Recheck, At, DriverInv
<1>2. UNCHANGED <<status, stored, job>>
  BY DEF Recheck, jobVars
<1>3. CASE status[Head(driver[d].live)] \in Terminal
  BY <1>1, <1>2, <1>3, SettleBecomes DEF Recheck
<1>4. CASE status[Head(driver[d].live)] \notin Terminal
  BY <1>1, <1>2, <1>4, GoToBecomes DEF Recheck, PCs
<1> QED
  BY <1>3, <1>4

LEMMA FailRunBecomes ==
  ASSUME TypeOK, DriverInv, NEW d \in Invocations, FailRun(d)
  PROVE  LET r == Head(driver[d].live) IN
         /\ At(d, "failing") /\ driver[d].live # <<>>
         /\ UNCHANGED <<stored, job>>
         /\ status' = [status EXCEPT ![r] = "failed"]
         /\ final' = [final EXCEPT ![d] = [@ EXCEPT ![r] = "failed"]]
         /\ Becomes(d, "looping", driver[d].pending, Tail(driver[d].live), driver[d].kept)
<1>1. At(d, "failing") /\ driver[d].live # <<>>
  BY DEF FailRun, At, DriverInv
<1> QED
  BY <1>1, SettleBecomes DEF FailRun, MarkFailed, SetStatus

-----------------------------------------------------------------------------
\* What a job does to its row and its place.
LEMMA JobEffect ==
  ASSUME TypeOK, NEW j \in Jobs, JobStep(j)
  PROVE  /\ AtWork(j) /\ RunOf(j) \in Runs
         /\ \E p \in Places \ {"none", "starting"} : job' = [job EXCEPT ![j] = p]
         /\ \/ UNCHANGED status
            \/ \E s \in {"running", "succeeded", "failed"} :
                 /\ status' = [status EXCEPT ![RunOf(j)] = s]
                 /\ s = "succeeded" => stored'[RunOf(j)]
         /\ UNCHANGED stored \/ stored' = [stored EXCEPT ![RunOf(j)] = TRUE]
<1> USE DEF MoveJob, storeVars, AtWork, Places, SetStatus
<1>1. RunOf(j) \in Runs
  BY DEF Jobs, RunOf
<1>2. CASE Start(j)
  BY <1>1, <1>2 DEF Start, MarkRunning
<1>3. CASE Save(j)
  BY <1>1, <1>3 DEF Save, TypeOK
<1>4. CASE Raise(j)
  BY <1>1, <1>4 DEF Raise
<1>5. CASE Report(j)
  BY <1>1, <1>5 DEF Report, MarkFailed
<1>6. CASE Crash(j)
  BY <1>1, <1>6 DEF Crash
<1>7. CASE Exit(j)
  BY <1>1, <1>7 DEF Exit
<1>8. CASE Kill(j)
  BY <1>1, <1>8 DEF Kill
<1> QED
  BY <1>2, <1>3, <1>4, <1>5, <1>6, <1>7, <1>8 DEF JobStep, Proceed

\* What the poll does to the driver's lists: a run leaves them only when its
\* status is final.
LEMMA LoopEffect ==
  ASSUME TypeOK, DriverInv, NEW d \in Invocations, LoopStep(d)
  PROVE  /\ driver[d].pc \in {"looping", "polling", "rechecking", "failing"}
         /\ driver' \in [Invocations -> Drivers]
         /\ \A e \in Invocations \ {d} : driver'[e] = driver[e]
         /\ driver'[d].pc \in {"looping", "polling", "rechecking", "failing", "returned"}
         /\ driver'[d].pc \in {"polling", "rechecking", "failing"} => driver'[d].live # <<>>
         /\ Tracked(d)' \subseteq Tracked(d)
         /\ \A r \in Tracked(d) \ Tracked(d)' : status'[r] \in Terminal
         /\ driver'[d].pc = "returned" =>
              /\ driver'[d].pending = <<>> /\ driver'[d].live = <<>>
              /\ driver'[d].kept = <<>>
         /\ UNCHANGED status \/ \E r \in Tracked(d) : status' = [status EXCEPT ![r] = "failed"]
         /\ UNCHANGED stored
         /\ \/ UNCHANGED job
            \/ \E r \in Tracked(d) : job' = [job EXCEPT ![<<d, r>>] = "starting"]
<1> USE DEF Becomes, Tracked, Polled, At
<1>0. driver[d] \in Drivers
  BY DEF TypeOK, Drivers
<1>1. CASE LaunchNext(d)
  <2> DEFINE r == Head(driver[d].pending)
  <2>1. /\ r \in Runs /\ driver[d].pending # <<>>
        /\ At(d, "looping") /\ driver[d].live = <<>>
        /\ job' = [job EXCEPT ![<<d, r>>] = "starting"]
        /\ UNCHANGED <<status, stored>>
        /\ Becomes(d, "looping", Tail(driver[d].pending), <<>>, Append(driver[d].kept, r))
    BY <1>1, LaunchBecomes
  <2>2. /\ Elems(driver[d].pending) = {r} \cup Elems(Tail(driver[d].pending))
        /\ Elems(Append(driver[d].kept, r)) = Elems(driver[d].kept) \cup {r}
    BY <1>0, <2>1, ElemsHeadTail, ElemsAppend DEF Drivers
  <2> HIDE DEF r
  <2> QED
    BY <2>1, <2>2
<1>2. CASE EndOfRound(d)
  BY <1>2, EndOfRoundBecomes, ElemsEmpty
<1> DEFINE r == Head(driver[d].live)
<1>3. driver[d].live # <<>> =>
        /\ r \in Runs
        /\ Elems(driver[d].live) = {r} \cup Elems(Tail(driver[d].live))
        /\ Elems(Append(driver[d].kept, r)) = Elems(driver[d].kept) \cup {r}
  BY <1>0, ElemsHeadTail, ElemsAppend DEF Drivers
<1>4. CASE ReadStatus(d)
  <2>1. /\ At(d, "looping") /\ driver[d].live # <<>>
        /\ UNCHANGED <<status, stored, job>>
        /\ \/ /\ status[r] \in Terminal
              /\ Becomes(d, "looping", driver[d].pending, Tail(driver[d].live),
                         driver[d].kept)
           \/ Becomes(d, "polling", driver[d].pending, driver[d].live, driver[d].kept)
    BY <1>4, ReadStatusBecomes
  <2> HIDE DEF r
  <2> QED
    BY <1>3, <2>1
<1>5. CASE PollExit(d)
  <2>1. /\ At(d, "polling") /\ driver[d].live # <<>>
        /\ UNCHANGED <<status, stored, job>>
        /\ \/ Becomes(d, "rechecking", driver[d].pending, driver[d].live, driver[d].kept)
           \/ Becomes(d, "looping", driver[d].pending, Tail(driver[d].live),
                      Append(driver[d].kept, r))
    BY <1>5, PollExitBecomes
  <2> HIDE DEF r
  <2> QED
    BY <1>3, <2>1
<1>6. CASE Recheck(d)
  <2>1. /\ At(d, "rechecking") /\ driver[d].live # <<>>
        /\ UNCHANGED <<status, stored, job>>
        /\ \/ /\ status[r] \in Terminal
              /\ Becomes(d, "looping", driver[d].pending, Tail(driver[d].live),
                         driver[d].kept)
           \/ Becomes(d, "failing", driver[d].pending, driver[d].live, driver[d].kept)
    BY <1>6, RecheckBecomes
  <2> HIDE DEF r
  <2> QED
    BY <1>3, <2>1
<1>7. CASE FailRun(d)
  <2>1. /\ At(d, "failing") /\ driver[d].live # <<>>
        /\ UNCHANGED <<stored, job>>
        /\ status' = [status EXCEPT ![r] = "failed"]
        /\ Becomes(d, "looping", driver[d].pending, Tail(driver[d].live), driver[d].kept)
    BY <1>7, FailRunBecomes
  <2>2. r \in Runs /\ status'[r] = "failed"
    BY <1>3, <2>1 DEF TypeOK
  <2> HIDE DEF r
  <2> QED
    BY <1>3, <2>1, <2>2 DEF Terminal
<1> QED
  BY <1>1, <1>2, <1>4, <1>5, <1>6, <1>7 DEF LoopStep

\* The kinds of step there are.
LEMMA StepKinds ==
  ASSUME [Next]_vars
  PROVE  \/ \E d \in Invocations : Resume(d)
         \/ \E d \in Invocations :
              /\ Invoke(d) \/ Create(d) \/ LoopStep(d) \/ Interrupt(d)
              /\ UNCHANGED overlapped
         \/ \E j \in Jobs : JobStep(j) /\ UNCHANGED driverVars
         \/ UNCHANGED vars
BY DEF Next, DriverStep, LoopStep

-----------------------------------------------------------------------------
LEMMA FinalStep ==
  ASSUME TypeOK, DriverInv, NEW d \in Invocations,
         NEW s \in Statuses, driver[d].live # <<>>,
         final' = [final EXCEPT ![d] = [@ EXCEPT ![Head(driver[d].live)] = s]]
  PROVE  final' \in [Invocations -> [Runs -> Statuses \cup {"none"}]]
BY HeadTailProperties DEF TypeOK

LEMMA TypeStep ==
  ASSUME TypeOK, DriverInv, OwnerInv, [Next]_vars
  PROVE  TypeOK'
<1> USE DEF Becomes, Drivers
<1>1. ASSUME NEW d \in Invocations, Resume(d)
      PROVE  TypeOK'
  BY <1>1, ResumeBecomes DEF TypeOK, Resume, jobVars
<1>2. ASSUME NEW d \in Invocations, Invoke(d), UNCHANGED overlapped
      PROVE  TypeOK'
  BY <1>2, InvokeBecomes DEF TypeOK, Invoke, jobVars
<1>3. ASSUME NEW d \in Invocations, Create(d), UNCHANGED overlapped
      PROVE  TypeOK'
  <2>1. UNCHANGED <<stored, job, final, overlapped>>
    BY <1>3 DEF Create
  <2>2. status' \in [Runs -> Statuses] /\ driver' \in [Invocations -> Drivers]
    BY <1>3, CreateBecomes DEF TypeOK, Statuses
  <2> QED
    BY <2>1, <2>2 DEF TypeOK
<1>4. ASSUME NEW d \in Invocations, Interrupt(d), UNCHANGED overlapped
      PROVE  TypeOK'
  BY <1>4, InterruptBecomes DEF TypeOK, Interrupt, jobVars
<1>5. ASSUME NEW d \in Invocations, LoopStep(d), UNCHANGED overlapped
      PROVE  TypeOK'
  <2>1. driver' \in [Invocations -> Drivers] /\ UNCHANGED stored
    BY <1>5, LoopEffect
  <2>2. status' \in [Runs -> Statuses]
    BY <1>5, LoopEffect DEF TypeOK, Statuses
  <2>3. job' \in [Jobs -> Places]
    BY <1>5, LoopEffect DEF TypeOK, Places
  <2>4. final' \in [Invocations -> [Runs -> Statuses \cup {"none"}]]
    <3>1. \/ UNCHANGED final
          \/ /\ driver[d].live # <<>>
             /\ \E s \in Terminal : final' =
                  [final EXCEPT ![d] = [@ EXCEPT ![Head(driver[d].live)] = s]]
      <4>1. CASE LaunchNext(d) \/ EndOfRound(d) \/ PollExit(d)
        BY <4>1 DEF LaunchNext, EndOfRound, PollExit
      <4>2. CASE ReadStatus(d)
        BY <4>2, ReadStatusBecomes
      <4>3. CASE Recheck(d)
        BY <4>3, RecheckBecomes
      <4>4. CASE FailRun(d)
        BY <4>4, FailRunBecomes DEF Terminal
      <4> QED
        BY <1>5, <4>1, <4>2, <4>3, <4>4 DEF LoopStep
    <3> QED
      BY <3>1, FinalStep DEF TypeOK, Terminal, Statuses
  <2> QED
    BY <1>5, <2>1, <2>2, <2>3, <2>4 DEF TypeOK
<1>6. ASSUME NEW j \in Jobs, JobStep(j), UNCHANGED driverVars
      PROVE  TypeOK'
  BY <1>6, JobEffect DEF TypeOK, driverVars, Statuses, Places
<1>7. CASE UNCHANGED vars
  BY <1>7 DEF TypeOK, vars, jobVars
<1> QED
  BY <1>1, <1>2, <1>3, <1>4, <1>5, <1>6, <1>7, StepKinds

\* No row ever goes back to absent, and only create_campaign_runs adds one.
LEMMA RowsStay ==
  ASSUME TypeOK, DriverInv, OwnerInv, [Next]_vars
  PROVE  /\ Existing \subseteq Existing'
         /\ Existing' = Existing \/ \E d \in Invocations : Create(d)
<1>1. ASSUME NEW d \in Invocations, Invoke(d) \/ Resume(d) \/ Interrupt(d)
      PROVE  Existing' = Existing
  BY <1>1 DEF Invoke, Resume, Interrupt, jobVars, Existing
<1>2. ASSUME NEW d \in Invocations, Create(d)
      PROVE  Existing \subseteq Existing'
  BY <1>2, CreateBecomes DEF TypeOK, Existing
<1>3. ASSUME NEW d \in Invocations, LoopStep(d)
      PROVE  Existing' = Existing
  BY <1>3, LoopEffect DEF TypeOK, Existing, DriverInv
<1>4. ASSUME NEW j \in Jobs, JobStep(j)
      PROVE  Existing' = Existing
  <2>1. RunOf(j) \in Existing
    BY <1>4, JobEffect DEF OwnerInv, AtWork
  <2> QED
    BY <1>4, <2>1, JobEffect DEF TypeOK, Existing
<1>5. CASE UNCHANGED vars
  BY <1>5 DEF vars, jobVars, Existing
<1> QED
  BY <1>1, <1>2, <1>3, <1>4, <1>5, StepKinds

\* DriverInv after a step of driver d, from what holds of d then.
LEMMA DriverInvFrom ==
  ASSUME TypeOK, DriverInv, NEW d \in Invocations, Existing \subseteq Existing',
         driver' \in [Invocations -> Drivers],
         \A e \in Invocations \ {d} : driver'[e] = driver[e] /\ ~Active(e),
         driver'[d].pc \in Idle =>
           driver'[d].pending = <<>> /\ driver'[d].live = <<>> /\ driver'[d].kept = <<>>,
         Tracked(d)' \subseteq Existing',
         driver'[d].pc \in {"polling", "rechecking", "failing"} => driver'[d].live # <<>>
  PROVE  DriverInv'
<1>1. \A e, f \in Invocations : (Active(e) /\ Active(f))' => e = f
  BY DEF Active
<1>2. \A e \in Invocations : ~Active(e)' => driver'[e] = [NoDriver EXCEPT !.pc = driver'[e].pc]
  <2> SUFFICES ASSUME NEW e \in Invocations, ~Active(e)'
      PROVE  driver'[e] = [NoDriver EXCEPT !.pc = driver'[e].pc]
    OBVIOUS
  <2>1. CASE e = d
    BY <2>1 DEF Active, Drivers, NoDriver
  <2>2. CASE e # d
    BY <2>2 DEF DriverInv
  <2> QED
    BY <2>1, <2>2
<1>3. ASSUME NEW e \in Invocations PROVE Tracked(e)' \subseteq Existing'
  <2>1. CASE e = d
    BY <2>1
  <2>2. CASE e # d
    BY <2>2 DEF DriverInv, Tracked, Polled
  <2> QED
    BY <2>1, <2>2
<1>4. \A e \in Invocations :
        driver'[e].pc \in {"polling", "rechecking", "failing"} => driver'[e].live # <<>>
  BY DEF DriverInv
<1> QED
  BY <1>1, <1>2, <1>3, <1>4 DEF DriverInv

\* DriverInv: who is active, and what it may hold.
LEMMA DriverInvStep ==
  ASSUME TypeOK, DriverInv, OwnerInv, [Next]_vars
  PROVE  DriverInv'
<1>0. Existing \subseteq Existing'
  BY RowsStay
<1> USE DEF Becomes
<1>1. ASSUME NEW d \in Invocations, Resume(d)
      PROVE  DriverInv'
  <2>1. \A e \in Invocations : ~Active(e)
    BY <1>1 DEF Resume, MayInvoke, NoneActive
  <2>2. PICK queued \in Seq(Runs) :
          /\ Elems(queued) \subseteq Existing
          /\ Becomes(d, "looping", queued, <<>>, <<>>)
    BY <1>1, ResumeBecomes
  <2>3. Tracked(d)' = Elems(queued)
    BY <2>2, ElemsEmpty DEF Tracked, Polled
  <2> QED
    BY <1>0, <2>1, <2>2, <2>3, DriverInvFrom DEF Idle
<1>2. ASSUME NEW d \in Invocations, Invoke(d)
      PROVE  DriverInv'
  <2>1. \A e \in Invocations : ~Active(e)
    BY <1>2 DEF Invoke, MayInvoke, NoneActive
  <2>2. Becomes(d, "creating", <<>>, <<>>, <<>>)
    BY <1>2, InvokeBecomes
  <2>3. Tracked(d)' = {}
    BY <2>2, ElemsEmpty DEF Tracked, Polled
  <2> QED
    BY <1>0, <2>1, <2>2, <2>3, DriverInvFrom DEF Idle
<1>3. ASSUME NEW d \in Invocations, Create(d)
      PROVE  DriverInv'
  <2>0. /\ driver[d].pc = "creating" /\ driver[d] \in Drivers
        /\ \A e \in Invocations \ {d} : ~Active(e)
        /\ Tracked(d) \subseteq Existing
    BY <1>3 DEF Create, At, TypeOK, Drivers, DriverInv, Active, Idle
  <2>1. CASE Becomes(d, "looping", driver[d].pending, driver[d].live, driver[d].kept)
    <3>1. Tracked(d)' = Tracked(d)
      BY <2>1 DEF Tracked, Polled
    <3> QED
      BY <1>0, <2>0, <2>1, <3>1, DriverInvFrom DEF Idle
  <2>2. ASSUME NEW c \in Cohorts, <<d, c>> \in Runs,
               status' = [status EXCEPT ![<<d, c>>] = "queued"],
               Becomes(d, "creating", Append(driver[d].pending, <<d, c>>),
                       driver[d].live, driver[d].kept)
        PROVE  DriverInv'
    <3> DEFINE new == <<d, c>>
    <3>0. new \in Runs
      BY <2>2
    <3> HIDE DEF new
    <3>1. new \in Existing'
      BY <2>2 DEF TypeOK, Existing, new
    <3>2. Elems(Append(driver[d].pending, new)) = Elems(driver[d].pending) \cup {new}
      BY <2>0, <3>0, ElemsAppend DEF Drivers
    <3>3. Becomes(d, "creating", Append(driver[d].pending, new), driver[d].live, driver[d].kept)
      BY <2>2 DEF new
    <3>4. Tracked(d)' = Tracked(d) \cup {new}
      BY <3>2, <3>3 DEF Tracked, Polled
    <3> QED
      BY <1>0, <2>0, <3>1, <3>3, <3>4, DriverInvFrom DEF Idle
  <2> QED
    BY <1>3, <2>1, <2>2, CreateBecomes
<1>4. ASSUME NEW d \in Invocations, Interrupt(d)
      PROVE  DriverInv'
  <2>1. Becomes(d, "interrupted", <<>>, <<>>, <<>>)
    BY <1>4, InterruptBecomes
  <2>2. \A e \in Invocations \ {d} : ~Active(e)
    BY <1>4 DEF Interrupt, DriverInv
  <2>3. Tracked(d)' = {}
    BY <2>1, ElemsEmpty DEF Tracked, Polled
  <2> QED
    BY <1>0, <2>1, <2>2, <2>3, DriverInvFrom
<1>5. ASSUME NEW d \in Invocations, LoopStep(d)
      PROVE  DriverInv'
  <2>1. /\ driver[d].pc \in {"looping", "polling", "rechecking", "failing"}
        /\ driver' \in [Invocations -> Drivers]
        /\ \A e \in Invocations \ {d} : driver'[e] = driver[e]
        /\ driver'[d].pc \in {"looping", "polling", "rechecking", "failing", "returned"}
        /\ driver'[d].pc \in {"polling", "rechecking", "failing"} => driver'[d].live # <<>>
        /\ Tracked(d)' \subseteq Tracked(d)
        /\ driver'[d].pc = "returned" =>
             /\ driver'[d].pending = <<>> /\ driver'[d].live = <<>>
             /\ driver'[d].kept = <<>>
    BY <1>5, LoopEffect
  <2>2. /\ \A e \in Invocations \ {d} : ~Active(e)
        /\ Tracked(d) \subseteq Existing
    BY <2>1 DEF DriverInv, Active, Idle
  <2> QED
    BY <1>0, <2>1, <2>2, DriverInvFrom DEF Idle
<1>6. ASSUME UNCHANGED driver
      PROVE  DriverInv'
  BY <1>0, <1>6 DEF DriverInv, Active, Tracked, Polled
<1> QED
  BY <1>1, <1>2, <1>3, <1>4, <1>5, <1>6, StepKinds DEF driverVars, vars

\* OwnerInv: the rows of a campaign are inserted by one invocation.
LEMMA OwnerInvStep ==
  ASSUME TypeOK, DriverInv, OwnerInv, [Next]_vars
  PROVE  OwnerInv'
<1>0. Existing \subseteq Existing'
  BY RowsStay
<1> USE DEF Active, At, Idle, Becomes
<1>1. ASSUME NEW d \in Invocations, Resume(d)
      PROVE  OwnerInv'
  <2>1. \A e \in Invocations : ~Active(e)
    BY <1>1 DEF Resume, MayInvoke, NoneActive
  <2>2. Existing # {} /\ UNCHANGED <<status, job>>
    BY <1>1 DEF Resume, jobVars
  <2>3. driver'[d].pc = "looping" /\ \A e \in Invocations \ {d} : driver'[e] = driver[e]
    BY <1>1, ResumeBecomes
  <2> QED
    BY <2>1, <2>2, <2>3 DEF OwnerInv, Existing
<1>2. ASSUME NEW d \in Invocations, Invoke(d)
      PROVE  OwnerInv'
  <2>1. \A e \in Invocations : ~Active(e)
    BY <1>2 DEF Invoke, MayInvoke, NoneActive
  <2>2. Existing = {} /\ UNCHANGED <<status, job>>
    BY <1>2 DEF Invoke, jobVars
  <2>3. driver'[d].pc = "creating" /\ \A e \in Invocations \ {d} : driver'[e] = driver[e]
    BY <1>2, InvokeBecomes
  <2>4. \A j \in Jobs : job[j] = "none"
    BY <2>2 DEF OwnerInv
  <2> QED
    BY <2>1, <2>2, <2>3, <2>4 DEF OwnerInv, Existing
<1>3. ASSUME NEW d \in Invocations, Create(d)
      PROVE  OwnerInv'
  <2>0. driver[d].pc = "creating" /\ UNCHANGED job
    BY <1>3 DEF Create
  <2>1. CASE /\ \A c \in Cohorts : status[<<d, c>>] # "absent"
             /\ Becomes(d, "looping", driver[d].pending, driver[d].live, driver[d].kept)
             /\ UNCHANGED status
    <3>1. Cohorts # {} => Existing # {}
      BY <2>1 DEF Existing, Runs
    <3>2. Existing' = Existing
      BY <2>1 DEF Existing
    <3> QED
      BY <2>0, <2>1, <3>1, <3>2 DEF OwnerInv, DriverInv
  <2>2. ASSUME NEW c \in Cohorts, <<d, c>> \in Runs,
               status' = [status EXCEPT ![<<d, c>>] = "queued"],
               Becomes(d, "creating", Append(driver[d].pending, <<d, c>>),
                       driver[d].live, driver[d].kept)
        PROVE  OwnerInv'
    <3>0. Existing' = Existing \cup {<<d, c>>}
      <4> DEFINE new == <<d, c>>
      <4> HIDE DEF new
      <4>1. new \in Runs /\ status' = [status EXCEPT ![new] = "queued"]
        BY <2>2 DEF new
      <4>2. Existing' = Existing \cup {new}
        BY <4>1 DEF TypeOK, Existing
      <4> QED
        BY <4>2 DEF new
    <3>1. Existing' = Existing \cup {<<d, c>>} /\ \A r \in Existing' : r[1] = d
      BY <2>0, <3>0 DEF OwnerInv
    <3>2. \A r \in Existing' : status'[r] = "queued"
      BY <2>0, <2>2, <3>1 DEF TypeOK, OwnerInv, Existing
    <3> QED
      BY <2>0, <2>2, <3>1, <3>2 DEF OwnerInv, DriverInv
  <2> QED
    BY <1>3, <2>1, <2>2, CreateBecomes
<1>4. ASSUME NEW d \in Invocations, Interrupt(d)
      PROVE  OwnerInv'
  <2>1. Becomes(d, "interrupted", <<>>, <<>>, <<>>)
    BY <1>4, InterruptBecomes
  <2>2. UNCHANGED <<status, job>>
    BY <1>4 DEF Interrupt, jobVars
  <2> QED
    BY <2>1, <2>2 DEF OwnerInv, Existing
<1>5. ASSUME NEW d \in Invocations, LoopStep(d)
      PROVE  OwnerInv'
  <2>1. /\ driver[d].pc \in {"looping", "polling", "rechecking", "failing"}
        /\ \A e \in Invocations \ {d} : driver'[e] = driver[e]
        /\ driver'[d].pc \in {"looping", "polling", "rechecking", "failing", "returned"}
        /\ \/ UNCHANGED status
           \/ \E r \in Tracked(d) : status' = [status EXCEPT ![r] = "failed"]
        /\ \/ UNCHANGED job
           \/ \E r \in Tracked(d) : job' = [job EXCEPT ![<<d, r>>] = "starting"]
    BY <1>5, LoopEffect
  <2>2. Tracked(d) \subseteq Existing
    BY DEF DriverInv
  <2>3. \A e \in Invocations : driver[e].pc # "creating"
    BY <2>1 DEF DriverInv
  <2>4. Existing' = Existing
    BY <2>1, <2>2 DEF TypeOK, Existing
  <2>5. \A j \in Jobs : job'[j] # "none" => RunOf(j) \in Existing'
    <3>1. CASE UNCHANGED job
      BY <2>4, <3>1 DEF OwnerInv
    <3>2. ASSUME NEW r \in Tracked(d), job' = [job EXCEPT ![<<d, r>>] = "starting"],
                 NEW j \in Jobs, job'[j] # "none"
          PROVE  RunOf(j) \in Existing'
      <4>1. CASE j = <<d, r>>
        BY <2>2, <2>4, <4>1 DEF RunOf
      <4>2. CASE j # <<d, r>>
        BY <2>4, <3>2, <4>2 DEF OwnerInv, TypeOK
      <4> QED
        BY <4>1, <4>2
    <3> QED
      BY <2>1, <3>1, <3>2
  <2> QED
    BY <2>1, <2>3, <2>4, <2>5 DEF OwnerInv
<1>6. ASSUME NEW j \in Jobs, JobStep(j), UNCHANGED driver
      PROVE  OwnerInv'
  <2>1. /\ job[j] # "none"
        /\ \A k \in Jobs : job'[k] # "none" => job[k] # "none"
    BY <1>6, JobEffect DEF AtWork, TypeOK
  <2>2. \A d \in Invocations : driver[d].pc # "creating"
    BY <2>1 DEF OwnerInv
  <2>3. Existing' = Existing
    BY <1>6, <2>1, JobEffect DEF TypeOK, Existing, OwnerInv
  <2> QED
    BY <1>6, <2>1, <2>2, <2>3 DEF OwnerInv
<1>7. CASE UNCHANGED vars
  BY <1>7 DEF OwnerInv, vars, jobVars, Existing
<1> QED
  BY <1>1, <1>2, <1>3, <1>4, <1>5, <1>6, <1>7, StepKinds DEF driverVars

\* QueueInv: a row that is queued is still in the hands of the driver at work.
LEMMA QueueInvStep ==
  ASSUME TypeOK, DriverInv, OwnerInv, QueueInv, [Next]_vars
  PROVE  QueueInv'
<1> USE DEF Becomes
<1> DEFINE Queued == {r \in Runs : status[r] = "queued"}
<1>0. /\ \A d \in Invocations : Active(d) => Queued \subseteq Tracked(d)
      /\ \A d \in Invocations : At(d, "returned") => Queued = {}
  BY DEF QueueInv, NothingLeftQueued, Existing
<1>00. ASSUME /\ \A d \in Invocations : Active(d)' => Queued' \subseteq Tracked(d)'
              /\ \A d \in Invocations : At(d, "returned")' => Queued' = {}
       PROVE  QueueInv'
  BY <1>00 DEF QueueInv, NothingLeftQueued, Existing
<1> HIDE DEF Queued
<1>1. ASSUME NEW d \in Invocations, Resume(d)
      PROVE  QueueInv'
  <2>1. \A e \in Invocations : ~Active(e)
    BY <1>1 DEF Resume, MayInvoke, NoneActive
  <2>2. /\ UNCHANGED status
        /\ {r \in Existing : status[r] = "queued"} # {}
    BY <1>1 DEF Resume, jobVars
  <2>3. Queued' = Queued /\ Queued # {} /\ Queued = {r \in Existing : status[r] = "queued"}
    BY <2>2 DEF Queued, Existing
  <2>4. PICK queued \in Seq(Runs) :
          /\ Elems(queued) = Queued
          /\ Becomes(d, "looping", queued, <<>>, <<>>)
    BY <1>1, <2>3, ResumeBecomes
  <2>5. Tracked(d)' = Queued
    BY <2>4, ElemsEmpty DEF Tracked, Polled
  <2>6. \A e \in Invocations : Active(e)' => e = d
    BY <2>1, <2>4 DEF Active
  <2>7. \A e \in Invocations : ~At(e, "returned")'
    BY <1>0, <2>3, <2>4 DEF At
  <2> QED
    BY <1>00, <2>3, <2>5, <2>6, <2>7
<1>2. ASSUME NEW d \in Invocations, Invoke(d)
      PROVE  QueueInv'
  <2>1. UNCHANGED status /\ Existing = {}
    BY <1>2 DEF Invoke, jobVars
  <2>2. Queued' = {}
    BY <2>1 DEF Queued, Existing
  <2> QED
    BY <1>00, <2>2
<1>3. ASSUME NEW d \in Invocations, Create(d)
      PROVE  QueueInv'
  <2>0. /\ At(d, "creating") /\ Active(d) /\ driver[d] \in Drivers
        /\ \A e \in Invocations \ {d} : ~Active(e)
    BY <1>3 DEF Create, At, TypeOK, Drivers, DriverInv, Active, Idle
  <2>1. CASE /\ Becomes(d, "looping", driver[d].pending, driver[d].live, driver[d].kept)
             /\ UNCHANGED status
    <3>1. Tracked(d)' = Tracked(d) /\ Queued' = Queued
      BY <2>1 DEF Tracked, Polled, Queued
    <3>2. \A e \in Invocations : Active(e)' => e = d
      BY <2>0, <2>1 DEF Active
    <3>3. Queued' \subseteq Tracked(d)'
      BY <1>0, <2>0, <3>1
    <3>4. ASSUME NEW e \in Invocations, At(e, "returned")'
          PROVE  Queued' = {}
      <4>1. At(e, "returned")
        BY <2>0, <2>1, <3>4 DEF At
      <4> QED
        BY <1>0, <3>1, <4>1
    <3> QED
      BY <1>00, <3>2, <3>3, <3>4
  <2>2. ASSUME NEW c \in Cohorts, <<d, c>> \in Runs,
               status' = [status EXCEPT ![<<d, c>>] = "queued"],
               Becomes(d, "creating", Append(driver[d].pending, <<d, c>>),
                       driver[d].live, driver[d].kept)
        PROVE  QueueInv'
    <3> DEFINE new == <<d, c>>
    <3>0. new \in Runs /\ status' = [status EXCEPT ![new] = "queued"]
      BY <2>2
    <3> HIDE DEF new
    <3>1. Queued' = Queued \cup {new}
      BY <3>0 DEF TypeOK, Queued
    <3>2. Elems(Append(driver[d].pending, new)) = Elems(driver[d].pending) \cup {new}
      BY <2>0, <3>0, ElemsAppend DEF Drivers
    <3>3. Tracked(d)' = Tracked(d) \cup {new}
      BY <2>2, <3>2 DEF Tracked, Polled, new
    <3>4. \A e \in Invocations : ~At(e, "returned")
      BY <2>0 DEF OwnerInv
    <3>5. \A e \in Invocations : ~At(e, "returned")' /\ (Active(e)' => e = d)
      BY <2>0, <2>2, <3>4 DEF At, Active
    <3> QED
      BY <1>0, <1>00, <2>0, <3>1, <3>3, <3>5
  <2> QED
    BY <1>3, <2>1, <2>2, CreateBecomes
<1>4. ASSUME NEW d \in Invocations, Interrupt(d)
      PROVE  QueueInv'
  <2>1. Becomes(d, "interrupted", <<>>, <<>>, <<>>) /\ UNCHANGED status
    BY <1>4, InterruptBecomes DEF Interrupt, jobVars
  <2>2. \A e \in Invocations : ~Active(e)'
    BY <1>4, <2>1 DEF Interrupt, DriverInv, Active, Idle
  <2>3. Queued' = Queued /\ \A e \in Invocations : At(e, "returned")' => At(e, "returned")
    BY <2>1 DEF Queued, At
  <2> QED
    BY <1>0, <1>00, <2>2, <2>3
<1>5. ASSUME NEW d \in Invocations, LoopStep(d)
      PROVE  QueueInv'
  <2>1. /\ driver[d].pc \in {"looping", "polling", "rechecking", "failing"}
        /\ \A e \in Invocations \ {d} : driver'[e] = driver[e]
        /\ \A r \in Tracked(d) \ Tracked(d)' : status'[r] \in Terminal
        /\ driver'[d].pc = "returned" =>
             /\ driver'[d].pending = <<>> /\ driver'[d].live = <<>>
             /\ driver'[d].kept = <<>>
        /\ UNCHANGED status \/ \E r \in Tracked(d) : status' = [status EXCEPT ![r] = "failed"]
    BY <1>5, LoopEffect
  <2>2. Queued' \subseteq Queued
    BY <2>1 DEF Queued, TypeOK
  <2>3. \A r \in Queued' : status'[r] \notin Terminal
    BY DEF Queued, Terminal
  <2>4. Active(d) /\ \A e \in Invocations \ {d} : ~Active(e)
    BY <2>1 DEF DriverInv, Active, Idle
  <2>5. Queued' \subseteq Tracked(d)'
    BY <1>0, <2>1, <2>2, <2>3, <2>4
  <2>6. \A e \in Invocations : Active(e)' => e = d
    BY <2>1, <2>4 DEF Active
  <2>7. At(d, "returned")' => Tracked(d)' = {}
    BY <2>1, ElemsEmpty DEF Tracked, Polled, At
  <2>8. \A e \in Invocations \ {d} : At(e, "returned")' => At(e, "returned")
    BY <2>1 DEF At
  <2> QED
    BY <1>0, <1>00, <2>2, <2>5, <2>6, <2>7, <2>8
<1>6. ASSUME UNCHANGED driver, Queued' \subseteq Queued
      PROVE  QueueInv'
  <2>1. ASSUME NEW d \in Invocations, Active(d)'
        PROVE  Queued' \subseteq Tracked(d)'
    <3>1. Active(d) /\ Tracked(d)' = Tracked(d)
      BY <1>6, <2>1 DEF Active, Tracked, Polled
    <3> QED
      BY <1>0, <1>6, <3>1
  <2>2. ASSUME NEW d \in Invocations, At(d, "returned")'
        PROVE  Queued' = {}
    <3>1. At(d, "returned")
      BY <1>6, <2>2 DEF At
    <3> QED
      BY <1>0, <1>6, <3>1
  <2> QED
    BY <1>00, <2>1, <2>2
<1>7. ASSUME NEW j \in Jobs, JobStep(j)
      PROVE  Queued' \subseteq Queued
  BY <1>7, JobEffect DEF Queued, TypeOK
<1>8. UNCHANGED vars => UNCHANGED driver /\ Queued' = Queued
  BY DEF Queued, vars, jobVars
<1> QED
  BY <1>1, <1>2, <1>3, <1>4, <1>5, <1>6, <1>7, <1>8, StepKinds DEF driverVars

\* SucceededHasResults: a result is never taken back.
LEMMA ResultsStay ==
  ASSUME TypeOK, DriverInv, [Next]_vars
  PROVE  /\ \A r \in Runs : stored[r] => stored'[r]
         /\ SucceededHasResults => SucceededHasResults'
<1>1. ASSUME NEW d \in Invocations, Invoke(d) \/ Resume(d) \/ Interrupt(d)
      PROVE  UNCHANGED <<status, stored>>
  BY <1>1 DEF Invoke, Resume, Interrupt, jobVars
<1>2. ASSUME NEW d \in Invocations, Create(d)
      PROVE  /\ UNCHANGED stored
             /\ \A r \in Runs : status'[r] = "succeeded" => status[r] = "succeeded"
  BY <1>2, CreateBecomes DEF Create, TypeOK
<1>3. ASSUME NEW d \in Invocations, LoopStep(d)
      PROVE  /\ UNCHANGED stored
             /\ \A r \in Runs : status'[r] = "succeeded" => status[r] = "succeeded"
  BY <1>3, LoopEffect DEF TypeOK
<1>4. ASSUME NEW j \in Jobs, JobStep(j)
      PROVE  /\ \A r \in Runs : stored[r] => stored'[r]
             /\ SucceededHasResults => SucceededHasResults'
  <2>1. \A r \in Runs : stored[r] => stored'[r]
    BY <1>4, JobEffect DEF TypeOK
  <2> QED
    BY <1>4, <2>1, JobEffect DEF TypeOK, SucceededHasResults
<1>5. CASE UNCHANGED vars
  BY <1>5 DEF vars, jobVars, SucceededHasResults
<1> QED
  BY <1>1, <1>2, <1>3, <1>4, <1>5, StepKinds DEF SucceededHasResults

-----------------------------------------------------------------------------
\* QuietInv, while no operator has resumed over jobs at work.

\* What a job finds in its row and what it leaves there.
QuietEffect(j) ==
  /\ AtWork(j)
  /\ \E p \in Places \ {"none", "starting"} :
       /\ job' = [job EXCEPT ![j] = p]
       /\ p \in Working => job[j] \in Working
       /\ p \in {"executing", "raised"} => status'[RunOf(j)] = "running"
       /\ p = "closing" => status'[RunOf(j)] \in Terminal
  /\ \/ UNCHANGED storeVars
     \/ \E s \in {"running", "succeeded", "failed"} :
          /\ status[RunOf(j)] \in {"queued", "running"}
          /\ status' = [status EXCEPT ![RunOf(j)] = s]
          /\ \/ UNCHANGED stored
             \/ s = "succeeded" /\ stored' = [stored EXCEPT ![RunOf(j)] = TRUE]

LEMMA QuietJob ==
  ASSUME TypeOK, JobsInv, ReportInv, NEW j \in Jobs, JobStep(j)
  PROVE  QuietEffect(j)
<1> DEFINE moves(p) ==
      /\ job' = [job EXCEPT ![j] = p]
      /\ p \in Working => job[j] \in Working
      /\ p \in {"executing", "raised"} => status'[RunOf(j)] = "running"
      /\ p = "closing" => status'[RunOf(j)] \in Terminal
    writes(s) ==
      /\ status[RunOf(j)] \in {"queued", "running"}
      /\ status' = [status EXCEPT ![RunOf(j)] = s]
      /\ UNCHANGED stored \/ (s = "succeeded" /\ stored' = [stored EXCEPT ![RunOf(j)] = TRUE])
<1>0. ASSUME AtWork(j), moves("executing") \/ moves("raised") \/ moves("closing")
                         \/ moves("gone"),
             \/ UNCHANGED storeVars
             \/ writes("running") \/ writes("succeeded") \/ writes("failed")
      PROVE  QuietEffect(j)
  BY <1>0 DEF QuietEffect, Places
<1>1. /\ RunOf(j) \in Runs
      /\ job[j] = "starting" => status[RunOf(j)] = "queued"
      /\ job[j] \in {"executing", "raised"} => status[RunOf(j)] = "running"
      /\ stored[RunOf(j)] => status[RunOf(j)] = "succeeded"
  BY DEF Jobs, RunOf, JobsInv, ReportInv
<1> USE DEF MoveJob, storeVars, AtWork, SetStatus, Working, Terminal
<1>2. CASE Start(j)
  <2>1. /\ job[j] = "starting" /\ job' = [job EXCEPT ![j] = "executing"]
        /\ status' = [status EXCEPT ![RunOf(j)] = "running"] /\ UNCHANGED stored
    BY <1>2 DEF Start, MarkRunning
  <2>2. AtWork(j) /\ writes("running")
    BY <1>1, <2>1
  <2>3. moves("executing")
    BY <1>1, <2>1 DEF TypeOK
  <2> QED
    BY <1>0, <2>2, <2>3
<1>3. CASE Save(j)
  <2>1. AtWork(j) /\ ~stored[RunOf(j)] /\ moves("closing") /\ writes("succeeded")
    BY <1>1, <1>3 DEF Save, TypeOK
  <2> QED
    BY <1>0, <2>1
<1>4. CASE Raise(j)
  <2>1. AtWork(j) /\ moves("raised") /\ UNCHANGED storeVars
    BY <1>1, <1>4 DEF Raise
  <2> QED
    BY <1>0, <2>1
<1>5. CASE Report(j)
  <2>1. /\ job[j] = "raised" /\ job' = [job EXCEPT ![j] = "closing"]
        /\ status' = [status EXCEPT ![RunOf(j)] = "failed"] /\ UNCHANGED stored
    BY <1>5 DEF Report, MarkFailed
  <2>2. AtWork(j) /\ writes("failed")
    BY <1>1, <2>1
  <2>3. moves("closing")
    BY <1>1, <2>1 DEF TypeOK
  <2> QED
    BY <1>0, <2>2, <2>3
<1>6. CASE Crash(j) \/ Exit(j) \/ Kill(j)
  <2>1. AtWork(j) /\ moves("gone") /\ UNCHANGED storeVars
    BY <1>6 DEF Crash, Exit, Kill
  <2> QED
    BY <1>0, <2>1
<1> QED
  BY <1>2, <1>3, <1>4, <1>5, <1>6 DEF JobStep, Proceed

LEMMA JobsFinite == IsFiniteSet(Jobs)
BY RunsFinite, CampaignConstants, FS_Product DEF Jobs

\* Fewer jobs at work: the bound stays.
LEMMA FewerWorking ==
  ASSUME Cardinality(WorkingJobs) <= MaxParallel, WorkingJobs' \subseteq WorkingJobs
  PROVE  Cardinality(WorkingJobs') <= MaxParallel
<1>1. IsFiniteSet(WorkingJobs)
  BY JobsFinite, FS_Subset DEF WorkingJobs
<1>2. /\ Cardinality(WorkingJobs) \in Nat /\ Cardinality(WorkingJobs') \in Nat
      /\ Cardinality(WorkingJobs') <= Cardinality(WorkingJobs)
  BY <1>1, FS_Subset, FS_CardinalityType
<1> QED
  BY <1>2, CampaignConstants

\* As many jobs as a list has runs.
LEMMA AtMostListed ==
  ASSUME NEW d \in Invocations, NEW q \in Seq(Runs), Len(q) <= MaxParallel,
         NEW W, \A j \in W : \E i \in 1..Len(q) : j = <<d, q[i]>>
  PROVE  Cardinality(W) <= MaxParallel
<1> DEFINE pairs == [i \in 1..Len(q) |-> <<d, q[i]>>]
           listed == {pairs[i] : i \in 1..Len(q)}
<1>0. Len(q) \in Nat
  OBVIOUS
<1>1. IsFiniteSet(1..Len(q)) /\ Cardinality(1..Len(q)) = Len(q)
  BY <1>0, FS_Interval
<1>2. pairs \in Surjection(1..Len(q), listed)
  BY DEF Surjection
<1>3. IsFiniteSet(listed) /\ Cardinality(listed) <= Len(q)
  BY <1>1, <1>2, FS_Surjection
<1>4. W \in SUBSET listed
  OBVIOUS
<1>5. IsFiniteSet(W) /\ Cardinality(W) <= Cardinality(listed)
  BY <1>3, <1>4, FS_Subset
<1>6. Cardinality(W) \in Nat /\ Cardinality(listed) \in Nat
  BY <1>3, <1>5, FS_CardinalityType
<1> HIDE DEF listed
<1> QED
  BY <1>0, <1>3, <1>5, <1>6, CampaignConstants

\* JobsInv after a step of the active driver that starts no job.
LEMMA JobsInvFrom ==
  ASSUME JobsInv, NEW d \in Invocations, UNCHANGED job,
         \A j \in Jobs : AtWork(j) => j[1] = d /\ status'[RunOf(j)] = status[RunOf(j)],
         \A e \in Invocations \ {d} : driver'[e] = driver[e] /\ ~Active(e),
         Active(d)' => \A j \in WorkingJobs : RunOf(j) \in Polled(d)'
  PROVE  JobsInv'
<1>1. ASSUME NEW e \in Invocations, Active(e)'
      PROVE  e = d
  BY <1>1 DEF Active
<1>2. \A j \in Jobs : AtWork(j)' = AtWork(j)
  BY DEF AtWork
<1>3. \A j, k \in Jobs : (AtWork(j) /\ AtWork(k))' => j[1] = k[1]
  BY <1>2
<1>4. \A j \in Jobs :
        /\ job'[j] = "starting" => status'[RunOf(j)] = "queued"
        /\ job'[j] \in {"executing", "raised"} => status'[RunOf(j)] = "running"
        /\ job'[j] = "closing" => status'[RunOf(j)] \in Terminal
  BY DEF JobsInv, AtWork
<1>5. ASSUME NEW e \in Invocations, Active(e)', NEW j \in Jobs
      PROVE  /\ AtWork(j)' => j[1] = e
             /\ job'[j] \in Working => RunOf(j) \in Polled(e)'
  BY <1>1, <1>2, <1>5 DEF WorkingJobs
<1> QED
  BY <1>3, <1>4, <1>5 DEF JobsInv

\* PlanInv of the drivers that are not active: they plan nothing.
LEMMA IdlePlansNothing ==
  ASSUME DriverInv, NEW e \in Invocations, ~Active(e), driver'[e] = driver[e]
  PROVE  PlanInv(e)'
<1>1. driver'[e].pending = <<>> /\ driver'[e].pc \notin {"rechecking", "failing"}
  BY DEF DriverInv, NoDriver, Active, Idle
<1> QED
  BY <1>1, ElemsEmpty DEF PlanInv, At

\* The job of a run that the active driver has started is the only one of that
\* run at work.
LEMMA OneWriter ==
  ASSUME JobsInv, NEW d \in Invocations, Active(d), NEW j \in Jobs, AtWork(j)
  PROVE  j = <<d, RunOf(j)>>
BY DEF JobsInv, Jobs, RunOf

\* The begin of an invocation, when no job is at work.
LEMMA QuietBegin ==
  ASSUME TypeOK, DriverInv, OwnerInv, Quiet, NEW d \in Invocations,
         \A j \in Jobs : ~AtWork(j),
         Invoke(d) \/ Resume(d)
  PROVE  Quiet'
<1>1. UNCHANGED <<status, stored, job, final>> /\ \A e \in Invocations : ~Active(e)
  BY DEF Invoke, Resume, jobVars, MayInvoke, NoneActive
<1>2. /\ \A e \in Invocations \ {d} : driver'[e] = driver[e]
      /\ driver'[d].pc \in {"creating", "looping"}
      /\ \A r \in Elems(driver'[d].pending) : status[r] = "queued"
  BY InvokeBecomes, ResumeBecomes, ElemsEmpty DEF Becomes
<1>3. JobsInv'
  BY <1>1 DEF JobsInv, AtWork, Working
<1>4. ReportInv'
  BY <1>1 DEF Quiet, ReportInv
<1>5. ASSUME NEW e \in Invocations
      PROVE  PlanInv(e)'
  <2>1. CASE e = d
    BY <1>1, <1>2, <2>1 DEF PlanInv, At
  <2>2. CASE e # d
    BY <1>1, <1>2, <2>2, IdlePlansNothing
  <2> QED
    BY <2>1, <2>2
<1>6. WorkingJobs' = WorkingJobs
  BY <1>1 DEF WorkingJobs
<1> QED
  BY <1>3, <1>4, <1>5, <1>6, FewerWorking DEF Quiet

LEMMA QuietCreate ==
  ASSUME TypeOK, DriverInv, OwnerInv, Quiet, NEW d \in Invocations, Create(d)
  PROVE  Quiet'
<1>1. /\ UNCHANGED <<stored, job, final>> /\ At(d, "creating") /\ driver[d] \in Drivers
      /\ \A e \in Invocations \ {d} : ~Active(e)
      /\ \A j \in Jobs : ~AtWork(j)
  BY DEF Create, At, TypeOK, Drivers, DriverInv, OwnerInv, Active, Idle, AtWork
<1>2. JobsInv'
  BY <1>1 DEF JobsInv, AtWork, Working
<1>3. WorkingJobs' = WorkingJobs
  BY <1>1 DEF WorkingJobs
<1>4. CASE /\ Becomes(d, "looping", driver[d].pending, driver[d].live, driver[d].kept)
           /\ UNCHANGED status
  <2>1. ReportInv'
    BY <1>1, <1>4 DEF Quiet, ReportInv
  <2>2. ASSUME NEW e \in Invocations
        PROVE  PlanInv(e)'
    <3>1. CASE e = d
      BY <1>1, <1>4, <3>1 DEF Quiet, PlanInv, Becomes, At
    <3>2. CASE e # d
      BY <1>1, <1>4, <3>2, IdlePlansNothing DEF Becomes
    <3> QED
      BY <3>1, <3>2
  <2> QED
    BY <1>2, <1>3, <2>1, <2>2, FewerWorking DEF Quiet
<1>5. ASSUME NEW c \in Cohorts, <<d, c>> \in Runs, status[<<d, c>>] = "absent",
             status' = [status EXCEPT ![<<d, c>>] = "queued"],
             Becomes(d, "creating", Append(driver[d].pending, <<d, c>>),
                     driver[d].live, driver[d].kept)
      PROVE  Quiet'
  <2> DEFINE new == <<d, c>>
  <2>0. /\ new \in Runs /\ status[new] = "absent"
        /\ status' = [status EXCEPT ![new] = "queued"]
        /\ Becomes(d, "creating", Append(driver[d].pending, new),
                   driver[d].live, driver[d].kept)
    BY <1>5
  <2> HIDE DEF new
  <2>1. ReportInv'
    BY <1>1, <2>0 DEF Quiet, ReportInv, TypeOK, Terminal
  <2>2. ASSUME NEW e \in Invocations
        PROVE  PlanInv(e)'
    <3>1. CASE e = d
      <4>1. Elems(driver'[d].pending) = Elems(driver[d].pending) \cup {new}
        BY <1>1, <2>0, ElemsAppend DEF Drivers, Becomes
      <4>2. ASSUME NEW r \in Elems(driver'[d].pending), job'[<<d, r>>] = "none"
            PROVE  status'[r] = "queued"
        <5>1. CASE r = new
          BY <2>0, <5>1 DEF TypeOK
        <5>2. CASE r # new
          <6>1. status[r] = "queued" /\ r \in Runs
            BY <1>1, <4>1, <4>2, <5>2, ElemsType DEF Quiet, PlanInv, Drivers
          <6> QED
            BY <2>0, <5>2, <6>1 DEF TypeOK
        <5> QED
          BY <5>1, <5>2
      <4> QED
        BY <2>0, <3>1, <4>2 DEF PlanInv, Becomes, At
    <3>2. CASE e # d
      BY <1>1, <2>0, <3>2, IdlePlansNothing DEF Becomes
    <3> QED
      BY <3>1, <3>2
  <2> QED
    BY <1>2, <1>3, <2>1, <2>2, FewerWorking DEF Quiet
<1> QED
  BY <1>4, <1>5, CreateBecomes

LEMMA QuietInterrupt ==
  ASSUME TypeOK, DriverInv, Quiet, NEW d \in Invocations, Interrupt(d)
  PROVE  Quiet'
<1>1. /\ UNCHANGED <<status, stored, job, final>>
      /\ Becomes(d, "interrupted", <<>>, <<>>, <<>>)
      /\ \A e \in Invocations \ {d} : ~Active(e)
  BY InterruptBecomes DEF Interrupt, jobVars, DriverInv
<1>2. ASSUME NEW e \in Invocations
      PROVE  ~Active(e)' /\ PlanInv(e)'
  <2>1. CASE e = d
    BY <1>1, <2>1, ElemsEmpty DEF Becomes, Active, Idle, PlanInv, At
  <2>2. CASE e # d
    BY <1>1, <2>2, IdlePlansNothing DEF Becomes, Active
  <2> QED
    BY <2>1, <2>2
<1>3. JobsInv'
  <2>1. \A e \in Invocations : ~Active(e)'
    BY <1>2
  <2>2. \A j, k \in Jobs : (AtWork(j) /\ AtWork(k))' => j[1] = k[1]
    BY <1>1 DEF Quiet, JobsInv, AtWork
  <2> QED
    BY <1>1, <2>1, <2>2 DEF Quiet, JobsInv
<1>4. ReportInv'
  BY <1>1 DEF Quiet, ReportInv
<1>5. WorkingJobs' = WorkingJobs
  BY <1>1 DEF WorkingJobs
<1> QED
  BY <1>2, <1>3, <1>4, <1>5, FewerWorking DEF Quiet

LEMMA QuietLaunch ==
  ASSUME TypeOK, DriverInv, Quiet, NEW d \in Invocations, LaunchNext(d)
  PROVE  Quiet'
<1> DEFINE r == Head(driver[d].pending)
<1>0. /\ driver[d] \in Drivers /\ r \in Runs /\ r \in Elems(driver[d].pending)
      /\ driver[d].pending # <<>>
      /\ At(d, "looping") /\ driver[d].live = <<>> /\ Len(driver[d].kept) < MaxParallel
      /\ job[<<d, r>>] = "none" /\ job' = [job EXCEPT ![<<d, r>>] = "starting"]
      /\ UNCHANGED <<status, stored, final>>
      /\ Becomes(d, "looping", Tail(driver[d].pending), <<>>, Append(driver[d].kept, r))
  BY LaunchBecomes DEF TypeOK, Drivers
<1> DEFINE jb == <<d, r>>
<1>1. jb \in Jobs /\ RunOf(jb) = r /\ jb[1] = d
  BY <1>0 DEF Jobs, RunOf
<1>2. /\ Elems(driver[d].pending) = {r} \cup Elems(Tail(driver[d].pending))
      /\ Elems(Append(driver[d].kept, r)) = Elems(driver[d].kept) \cup {r}
      /\ Append(driver[d].kept, r) \in Seq(Runs)
      /\ Len(Append(driver[d].kept, r)) = Len(driver[d].kept) + 1
  BY <1>0, ElemsHeadTail, ElemsAppend, AppendProperties DEF Drivers
<1>3. /\ Active(d) /\ Polled(d) = Elems(driver[d].kept)
      /\ \A e \in Invocations \ {d} : ~Active(e)
  BY <1>0, ElemsEmpty DEF DriverInv, Active, At, Idle, Polled
<1> HIDE DEF r
<1>4. /\ job[jb] = "none" /\ job' = [job EXCEPT ![jb] = "starting"]
      /\ \A k \in Jobs : job'[k] = IF k = jb THEN "starting" ELSE job[k]
  BY <1>0, <1>1 DEF TypeOK
<1>5. Polled(d)' = Elems(driver[d].kept) \cup {r}
  BY <1>0, <1>2, ElemsEmpty DEF Polled, Becomes
<1>6. \A e \in Invocations : Active(e)' => e = d
  BY <1>0, <1>3 DEF Active, Becomes
<1>7. \A k \in Jobs : AtWork(k)' => k[1] = d
  BY <1>1, <1>3, <1>4 DEF AtWork, Quiet, JobsInv
<1>8. \A k \in Jobs : job'[k] \in Working => RunOf(k) \in Polled(d)'
  BY <1>1, <1>3, <1>4, <1>5 DEF Quiet, JobsInv
<1>9. status[r] = "queued"
  BY <1>0 DEF Quiet, PlanInv
<1>10. \A k \in Jobs :
         /\ job'[k] = "starting" => status'[RunOf(k)] = "queued"
         /\ job'[k] \in {"executing", "raised"} => status'[RunOf(k)] = "running"
         /\ job'[k] = "closing" => status'[RunOf(k)] \in Terminal
  BY <1>0, <1>1, <1>4, <1>9 DEF Quiet, JobsInv
<1>11. JobsInv'
  <2>1. \A j, k \in Jobs : (AtWork(j) /\ AtWork(k))' => j[1] = k[1]
    BY <1>7
  <2>2. ASSUME NEW e \in Invocations, Active(e)', NEW k \in Jobs
        PROVE  /\ AtWork(k)' => k[1] = e
               /\ job'[k] \in Working => RunOf(k) \in Polled(e)'
    BY <1>6, <1>7, <1>8, <2>2
  <2> QED
    BY <1>10, <2>1, <2>2 DEF JobsInv
<1>12. ReportInv'
  BY <1>0 DEF Quiet, ReportInv
<1>13. ASSUME NEW e \in Invocations
       PROVE  PlanInv(e)'
  <2>1. CASE e = d
    <3>1. ASSUME NEW t \in Elems(driver'[d].pending), job'[<<d, t>>] = "none"
          PROVE  status'[t] = "queued"
      <4>1. t \in Elems(driver[d].pending) /\ t \in Runs
        BY <1>0, <1>2, <3>1, ElemsType DEF Becomes, Drivers
      <4>2. <<d, t>> \in Jobs
        BY <4>1 DEF Jobs
      <4>3. job[<<d, t>>] = "none"
        BY <1>4, <3>1, <4>2
      <4> QED
        BY <1>0, <4>1, <4>3 DEF Quiet, PlanInv
    <3> QED
      BY <1>0, <2>1, <3>1 DEF PlanInv, Becomes, At
  <2>2. CASE e # d
    BY <1>0, <1>3, <2>2, IdlePlansNothing DEF Becomes
  <2> QED
    BY <2>1, <2>2
<1>14. Cardinality(WorkingJobs') <= MaxParallel
  <2> DEFINE q == Append(driver[d].kept, r)
  <2>1. ASSUME NEW k \in WorkingJobs'
        PROVE  \E i \in 1..Len(q) : k = <<d, q[i]>>
    <3>1. k \in Jobs /\ k[1] = d /\ RunOf(k) \in Elems(q)
      BY <1>2, <1>5, <1>7, <1>8 DEF WorkingJobs, AtWork, Working
    <3> QED
      BY <3>1 DEF Elems, Jobs, RunOf
  <2>2. q \in Seq(Runs) /\ Len(q) <= MaxParallel
    BY <1>0, <1>2, CampaignConstants, LenProperties DEF Drivers
  <2> HIDE DEF q
  <2> QED
    BY <2>1, <2>2, AtMostListed
<1> QED
  BY <1>11, <1>12, <1>13, <1>14 DEF Quiet

\* A look at the rows or the jobs that changes neither.
LEMMA QuietLook ==
  ASSUME TypeOK, DriverInv, Quiet, NEW d \in Invocations, Active(d),
         UNCHANGED <<status, stored, job>>,
         \A e \in Invocations \ {d} : driver'[e] = driver[e],
         driver'[d].pending = driver[d].pending,
         Active(d)' => \A j \in WorkingJobs : RunOf(j) \in Polled(d)',
         driver'[d].pc \in {"rechecking", "failing"} =>
           job[<<d, Head(driver'[d].live)>>] = "gone",
         driver'[d].pc = "failing" => status[Head(driver'[d].live)] \notin Terminal,
         \/ UNCHANGED final
         \/ \E r \in Runs : /\ status[r] \in Terminal
                            /\ final' = [final EXCEPT ![d] = [@ EXCEPT ![r] = status[r]]]
  PROVE  Quiet'
<1>1. \A e \in Invocations \ {d} : ~Active(e)
  BY DEF DriverInv
<1>2. JobsInv'
  BY <1>1, JobsInvFrom DEF Quiet, JobsInv
<1>3. ReportInv'
  <2>1. ASSUME NEW e \in Invocations, NEW t \in Runs, final'[e][t] # "none"
        PROVE  final'[e][t] \in Terminal /\ final'[e][t] = status[t]
    <3>1. CASE final'[e][t] = final[e][t]
      BY <2>1, <3>1 DEF Quiet, ReportInv
    <3>2. CASE final'[e][t] # final[e][t]
      <4>1. PICK r \in Runs : /\ status[r] \in Terminal
                              /\ final' = [final EXCEPT ![d] = [@ EXCEPT ![r] = status[r]]]
        BY <3>2
      <4>2. final \in [Invocations -> [Runs -> Statuses \cup {"none"}]]
        BY DEF TypeOK
      <4>3. e = d /\ t = r /\ final'[e][t] = status[r]
        BY <3>2, <4>1, <4>2
      <4> QED
        BY <4>1, <4>3
    <3> QED
      BY <3>1, <3>2
  <2> QED
    BY <2>1 DEF Quiet, ReportInv
<1>4. ASSUME NEW e \in Invocations
      PROVE  PlanInv(e)'
  <2>1. CASE e = d
    BY <2>1 DEF Quiet, PlanInv, At
  <2>2. CASE e # d
    BY <1>1, <2>2, IdlePlansNothing
  <2> QED
    BY <2>1, <2>2
<1>5. WorkingJobs' = WorkingJobs
  BY DEF WorkingJobs
<1> QED
  BY <1>2, <1>3, <1>4, <1>5, FewerWorking DEF Quiet

LEMMA QuietPoll ==
  ASSUME TypeOK, DriverInv, Quiet, NEW d \in Invocations,
         EndOfRound(d) \/ ReadStatus(d) \/ PollExit(d) \/ Recheck(d)
  PROVE  Quiet'
<1> DEFINE r == Head(driver[d].live)
<1> USE DEF Becomes
<1>1. driver[d] \in Drivers
  BY DEF TypeOK, Drivers
<1>2. driver[d].live # <<>> =>
        /\ r \in Runs
        /\ Elems(driver[d].live) = {r} \cup Elems(Tail(driver[d].live))
        /\ Elems(Append(driver[d].kept, r)) = Elems(driver[d].kept) \cup {r}
  BY <1>1, ElemsHeadTail, ElemsAppend DEF Drivers
<1>3. ASSUME Active(d)
      PROVE  \A j \in WorkingJobs : RunOf(j) \in Polled(d) /\ status[RunOf(j)] \notin Terminal
  BY <1>3 DEF Quiet, JobsInv, WorkingJobs, Working, Terminal
<1>4. CASE EndOfRound(d)
  <2>1. At(d, "looping") /\ driver[d].live = <<>> /\ UNCHANGED <<status, stored, job, final>>
    BY <1>4, EndOfRoundBecomes
  <2>2. Active(d) /\ Polled(d) = Elems(driver[d].kept)
    BY <2>1, ElemsEmpty DEF Active, At, Idle, Polled
  <2>3. /\ \A e \in Invocations \ {d} : driver'[e] = driver[e]
        /\ driver'[d].pending = driver[d].pending
        /\ driver'[d].pc \notin {"rechecking", "failing"}
        /\ Active(d)' => Polled(d)' = Polled(d)
    BY <1>4, <2>2, EndOfRoundBecomes, ElemsEmpty DEF Active, Idle, Polled
  <2> QED
    BY <1>3, <2>1, <2>2, <2>3, QuietLook
<1>5. CASE PollExit(d)
  <2>1. /\ At(d, "polling") /\ driver[d].live # <<>> /\ r \in Runs
        /\ UNCHANGED <<status, stored, job, final>>
        /\ \/ /\ job[<<d, r>>] = "gone"
              /\ Becomes(d, "rechecking", driver[d].pending, driver[d].live, driver[d].kept)
           \/ Becomes(d, "looping", driver[d].pending, Tail(driver[d].live),
                      Append(driver[d].kept, r))
    BY <1>5, PollExitBecomes
  <2>2. Active(d)
    BY <2>1 DEF Active, At, Idle
  <2>3. Polled(d)' = Polled(d)
    <3> HIDE DEF r
    <3> QED
      BY <1>2, <2>1 DEF Polled
  <2>4. /\ \A e \in Invocations \ {d} : driver'[e] = driver[e]
        /\ driver'[d].pending = driver[d].pending
        /\ driver'[d].pc = "rechecking" => job[<<d, Head(driver'[d].live)>>] = "gone"
        /\ driver'[d].pc # "failing"
    BY <2>1
  <2> QED
    BY <1>3, <2>1, <2>2, <2>3, <2>4, QuietLook
<1>6. CASE ReadStatus(d) \/ Recheck(d)
  <2>1. /\ driver[d].pc \in {"looping", "rechecking"} /\ driver[d].live # <<>>
        /\ UNCHANGED <<status, stored, job>>
        /\ \/ /\ status[r] \in Terminal
              /\ Becomes(d, "looping", driver[d].pending, Tail(driver[d].live), driver[d].kept)
              /\ final' = [final EXCEPT ![d] = [@ EXCEPT ![r] = status[r]]]
           \/ /\ Becomes(d, "polling", driver[d].pending, driver[d].live, driver[d].kept)
              /\ UNCHANGED final
           \/ /\ At(d, "rechecking") /\ status[r] \notin Terminal
              /\ Becomes(d, "failing", driver[d].pending, driver[d].live, driver[d].kept)
              /\ UNCHANGED final
    BY <1>6, ReadStatusBecomes, RecheckBecomes DEF At
  <2>2. Active(d)
    BY <2>1 DEF Active, Idle
  <2>3. \A j \in WorkingJobs : RunOf(j) \in Polled(d)'
    <3> HIDE DEF r
    <3>1. \/ Polled(d) \subseteq Polled(d)'
          \/ status[r] \in Terminal /\ Polled(d) \subseteq Polled(d)' \cup {r}
      BY <1>2, <2>1 DEF Polled
    <3> QED
      BY <1>3, <2>2, <3>1
  <2>4. /\ \A e \in Invocations \ {d} : driver'[e] = driver[e]
        /\ driver'[d].pending = driver[d].pending
        /\ driver'[d].pc # "rechecking"
        /\ driver'[d].pc = "failing" =>
             /\ job[<<d, Head(driver'[d].live)>>] = "gone"
             /\ status[Head(driver'[d].live)] \notin Terminal
    BY <2>1 DEF Quiet, PlanInv, At
  <2> QED
    BY <1>2, <2>1, <2>2, <2>3, <2>4, QuietLook
<1> QED
  BY <1>4, <1>5, <1>6

LEMMA QuietFail ==
  ASSUME TypeOK, DriverInv, Quiet, NEW d \in Invocations, FailRun(d)
  PROVE  Quiet'
<1> DEFINE r == Head(driver[d].live)
<1>1. /\ driver[d] \in Drivers /\ At(d, "failing") /\ driver[d].live # <<>>
      /\ UNCHANGED <<stored, job>>
      /\ status' = [status EXCEPT ![r] = "failed"]
      /\ final' = [final EXCEPT ![d] = [@ EXCEPT ![r] = "failed"]]
      /\ Becomes(d, "looping", driver[d].pending, Tail(driver[d].live), driver[d].kept)
  BY FailRunBecomes DEF TypeOK, Drivers
<1>2. r \in Runs /\ Elems(driver[d].live) = {r} \cup Elems(Tail(driver[d].live))
  BY <1>1, ElemsHeadTail DEF Drivers
<1>3. Active(d) /\ \A e \in Invocations \ {d} : ~Active(e)
  BY <1>1 DEF DriverInv, Active, At, Idle
<1>4. job[<<d, r>>] = "gone" /\ status[r] \notin Terminal
  BY <1>1 DEF Quiet, PlanInv, At
<1> HIDE DEF r
<1>5. ASSUME NEW j \in Jobs, AtWork(j)
      PROVE  RunOf(j) # r /\ status'[RunOf(j)] = status[RunOf(j)] /\ j[1] = d
  <2>1. j = <<d, RunOf(j)>> /\ RunOf(j) \in Runs
    BY <1>3, <1>5, OneWriter DEF Quiet, Jobs, RunOf
  <2>2. RunOf(j) # r
    BY <1>4, <1>5, <2>1 DEF AtWork
  <2> QED
    BY <1>1, <2>1, <2>2 DEF TypeOK
<1>6. JobsInv'
  <2>1. \A j \in WorkingJobs : RunOf(j) \in Polled(d)'
    BY <1>1, <1>2, <1>3, <1>5 DEF Quiet, JobsInv, Polled, Becomes, WorkingJobs, AtWork, Working
  <2> QED
    BY <1>1, <1>3, <1>5, <2>1, JobsInvFrom DEF Quiet, Becomes
<1>7. ReportInv'
  BY <1>1, <1>2, <1>4 DEF Quiet, ReportInv, TypeOK, Terminal
<1>8. ASSUME NEW e \in Invocations
      PROVE  PlanInv(e)'
  <2>1. CASE e = d
    <3>1. ASSUME NEW t \in Elems(driver'[d].pending), job'[<<d, t>>] = "none"
          PROVE  status'[t] = "queued"
      <4>1. t \in Elems(driver[d].pending) /\ t \in Runs /\ t # r
        BY <1>1, <1>4, <3>1, ElemsType DEF Becomes, Drivers
      <4> QED
        BY <1>1, <3>1, <4>1 DEF Quiet, PlanInv, TypeOK
    <3> QED
      BY <1>1, <2>1, <3>1 DEF PlanInv, Becomes, At
  <2>2. CASE e # d
    BY <1>1, <1>3, <2>2, IdlePlansNothing DEF Becomes
  <2> QED
    BY <2>1, <2>2
<1>9. WorkingJobs' = WorkingJobs
  BY <1>1 DEF WorkingJobs
<1> QED
  BY <1>6, <1>7, <1>8, <1>9, FewerWorking DEF Quiet

LEMMA QuietJobStep ==
  ASSUME TypeOK, DriverInv, Quiet, NEW j \in Jobs, JobStep(j), UNCHANGED driverVars
  PROVE  Quiet'
<1> DEFINE r == RunOf(j)
<1>0. QuietEffect(j) /\ r \in Runs /\ UNCHANGED <<driver, final>>
  BY QuietJob DEF Quiet, Jobs, RunOf, driverVars
<1>1. PICK p \in Places \ {"none", "starting"} :
        /\ job' = [job EXCEPT ![j] = p]
        /\ p \in Working => job[j] \in Working
        /\ p \in {"executing", "raised"} => status'[r] = "running"
        /\ p = "closing" => status'[r] \in Terminal
  BY <1>0 DEF QuietEffect
<1>2. \A k \in Jobs : job'[k] = IF k = j THEN p ELSE job[k]
  BY <1>1 DEF TypeOK
<1>3. \A k \in Jobs : AtWork(k)' => AtWork(k)
  BY <1>0, <1>2 DEF QuietEffect, AtWork
<1>4. WorkingJobs' \subseteq WorkingJobs
  BY <1>1, <1>2 DEF WorkingJobs
<1>5. /\ \A t \in Runs \ {r} : status'[t] = status[t] /\ stored'[t] = stored[t]
      /\ \/ UNCHANGED storeVars
         \/ /\ status[r] \in {"queued", "running"}
            /\ status'[r] \in Statuses \ {"absent"}
            /\ stored'[r] # stored[r] => status'[r] = "succeeded"
  BY <1>0 DEF QuietEffect, TypeOK, storeVars, Statuses
<1>6. ASSUME NEW k \in Jobs, k # j, AtWork(k)
      PROVE  status'[RunOf(k)] = status[RunOf(k)]
  <2>1. k[1] = j[1]
    BY <1>0, <1>6 DEF Quiet, JobsInv, QuietEffect
  <2>2. RunOf(k) # r /\ RunOf(k) \in Runs
    BY <1>6, <2>1 DEF Jobs, RunOf
  <2> QED
    BY <1>5, <2>2
<1>7. JobsInv'
  <2>1. \A k \in Jobs :
          /\ job'[k] = "starting" => status'[RunOf(k)] = "queued"
          /\ job'[k] \in {"executing", "raised"} => status'[RunOf(k)] = "running"
          /\ job'[k] = "closing" => status'[RunOf(k)] \in Terminal
    <3> TAKE k \in Jobs
    <3>1. CASE k = j
      BY <1>1, <1>2, <3>1
    <3>2. CASE k # j
      BY <1>2, <1>6, <3>2 DEF Quiet, JobsInv, AtWork
    <3> QED
      BY <3>1, <3>2
  <2>2. \A k, m \in Jobs : (AtWork(k) /\ AtWork(m))' => k[1] = m[1]
    BY <1>3 DEF Quiet, JobsInv
  <2>3. ASSUME NEW e \in Invocations, Active(e)', NEW k \in Jobs
        PROVE  /\ AtWork(k)' => k[1] = e
               /\ job'[k] \in Working => RunOf(k) \in Polled(e)'
    <3>1. Active(e) /\ Polled(e)' = Polled(e)
      BY <1>0, <2>3 DEF Active, Polled
    <3> QED
      BY <1>3, <1>4, <3>1 DEF Quiet, JobsInv, WorkingJobs
  <2> QED
    BY <2>1, <2>2, <2>3 DEF JobsInv
<1>8. ReportInv'
  BY <1>0, <1>5 DEF Quiet, ReportInv, Terminal, TypeOK, storeVars
<1>9. ASSUME NEW e \in Invocations
      PROVE  PlanInv(e)'
  <2>1. CASE ~Active(e)
    BY <1>0, <2>1, IdlePlansNothing
  <2>2. CASE Active(e)
    <3>1. j = <<e, r>> /\ AtWork(j)
      BY <1>0, <2>2, OneWriter DEF Quiet, QuietEffect
    <3>2. ASSUME NEW t \in Runs, <<e, t>> # j
          PROVE  job'[<<e, t>>] = job[<<e, t>>] /\ status'[t] = status[t]
      BY <1>2, <1>5, <3>1, <3>2 DEF Jobs
    <3>3. ASSUME NEW t \in Elems(driver[e].pending), job'[<<e, t>>] = "none"
          PROVE  status'[t] = "queued"
      <4>1. t \in Runs
        BY ElemsType DEF TypeOK, Drivers
      <4>2. <<e, t>> # j
        BY <1>2, <3>3
      <4> QED
        BY <3>2, <3>3, <4>1, <4>2 DEF Quiet, PlanInv
    <3>4. ASSUME driver[e].pc \in {"rechecking", "failing"}
          PROVE  /\ job'[<<e, Head(driver[e].live)>>] = "gone"
                 /\ status'[Head(driver[e].live)] = status[Head(driver[e].live)]
      <4>1. Head(driver[e].live) \in Runs
        BY <3>4, ElemsHeadTail DEF TypeOK, Drivers, DriverInv
      <4>2. job[<<e, Head(driver[e].live)>>] = "gone"
        BY <3>4 DEF Quiet, PlanInv
      <4>3. <<e, Head(driver[e].live)>> # j
        BY <3>1, <4>2 DEF AtWork
      <4> QED
        BY <3>2, <4>1, <4>2, <4>3
    <3> QED
      BY <1>0, <3>3, <3>4 DEF Quiet, PlanInv, At
  <2> QED
    BY <2>1, <2>2
<1> QED
  BY <1>4, <1>7, <1>8, <1>9, FewerWorking DEF Quiet

LEMMA QuietInvStep ==
  ASSUME TypeOK, DriverInv, OwnerInv, QuietInv, [Next]_vars
  PROVE  QuietInv'
<1> SUFFICES ASSUME ~overlapped' PROVE Quiet'
  BY DEF QuietInv
<1>1. Quiet
  BY StepKinds DEF QuietInv, Resume, driverVars, vars
<1>2. ASSUME NEW d \in Invocations, Resume(d)
      PROVE  Quiet'
  BY <1>1, <1>2, QuietBegin DEF Resume, AtWork
<1>3. ASSUME NEW d \in Invocations, Invoke(d)
      PROVE  Quiet'
  BY <1>1, <1>3, QuietBegin DEF Invoke, OwnerInv, AtWork
<1>4. ASSUME NEW d \in Invocations, Create(d) \/ LoopStep(d) \/ Interrupt(d)
      PROVE  Quiet'
  BY <1>1, <1>4, QuietCreate, QuietLaunch, QuietPoll, QuietFail, QuietInterrupt DEF LoopStep
<1>5. ASSUME NEW j \in Jobs, JobStep(j), UNCHANGED driverVars
      PROVE  Quiet'
  BY <1>1, <1>5, QuietJobStep
<1>6. CASE UNCHANGED vars
  BY <1>1, <1>6, FewerWorking
     DEF Quiet, JobsInv, ReportInv, PlanInv, WorkingJobs, AtWork, Active, Polled, At,
         vars, jobVars
<1> QED
  BY <1>2, <1>3, <1>4, <1>5, <1>6, StepKinds

-----------------------------------------------------------------------------
LEMMA IInvInit == Init => IInv
<1> SUFFICES ASSUME Init PROVE IInv
  OBVIOUS
<1> USE DEF Init, JobInit, NoDriver
<1>1. TypeOK
  BY EmptySeq DEF TypeOK, PCs, Idle, Statuses, Places
<1>2. Existing = {} /\ \A d \in Invocations : ~Active(d) /\ Tracked(d) = {}
  BY ElemsEmpty DEF Existing, Active, Idle, Tracked, Polled
<1>3. RowsInv
  BY <1>2 DEF RowsInv, DriverInv, OwnerInv, QueueInv, SucceededHasResults,
              NothingLeftQueued, At
<1>4. WorkingJobs = {}
  BY DEF WorkingJobs, Working
<1>5. Cardinality(WorkingJobs) <= MaxParallel
  BY <1>4, FS_EmptySet, CampaignConstants
<1>6. JobsInv /\ ReportInv
  BY DEF JobsInv, ReportInv, AtWork, Working
<1>7. \A d \in Invocations : PlanInv(d)
  BY ElemsEmpty DEF PlanInv, At
<1> QED
  BY <1>1, <1>3, <1>5, <1>6, <1>7 DEF IInv, QuietInv, Quiet

LEMMA IInvStep == IInv /\ [Next]_vars => IInv'
BY TypeStep, DriverInvStep, OwnerInvStep, QueueInvStep, ResultsStay, QuietInvStep
   DEF IInv, RowsInv

\* The invariants of a campaign, alone and while its runs are pooled.
LEMMA Invariant == PoolSpec => []IInv
<1>1. PoolInit => IInv
  BY IInvInit DEF PoolInit
<1>2. [PoolNext]_poolVars => [Next]_vars
  BY DEF PoolNext, poolVars
<1>3. IInv /\ [PoolNext]_poolVars => IInv'
  BY <1>2, IInvStep
<1> QED
  BY <1>1, <1>3, PTL DEF PoolSpec

LEMMA OneRunPerCohortOf == OwnerInv => OneRunPerCohort
BY DEF OwnerInv, OneRunPerCohort, Existing, Runs, CohortOf

\* Every run that a reader may pool is the only one of its cohort, has its trades
\* and equity curve, and is what its driver reported: whatever the order of the
\* drivers' looks and the jobs' writes, whoever is interrupted or killed.
THEOREM PoolableForEver == PoolSpec => []PoolableRuns
<1>1. IInv => PoolableRuns
  BY OneRunPerCohortOf
     DEF IInv, RowsInv, QuietInv, Quiet, ReportInv, PoolableRuns, FinalIsStored
<1> QED
  BY <1>1, Invariant, PTL

\* No more than max_parallel jobs are at work on the machine, although a driver
\* judges a slot free from rows that the jobs write, and a driver that returns
\* has left no run queued.
THEOREM JobsAccountedForEver == PoolSpec => []JobsAccounted
<1>1. IInv => JobsAccounted
  BY DEF IInv, RowsInv, QueueInv, QuietInv, Quiet, WorkingJobs, JobsAccounted, ParallelBound
<1> QED
  BY <1>1, Invariant, PTL

-----------------------------------------------------------------------------
\* A step of the campaign is one of the life cycle of a run, or changes no row.
LEMMA LifecycleStep ==
  ASSUME IInv, [Next]_vars, ~overlapped'
  PROVE  Lifecycle!Next \/ UNCHANGED storeVars
<1> USE DEF Lifecycle!Next, Lifecycle!Queue, Lifecycle!Run, Lifecycle!Fail,
            Lifecycle!Succeed, Lifecycle!Becomes, storeVars
<1>0. /\ Quiet /\ TypeOK /\ DriverInv /\ OwnerInv
      /\ \A r \in Runs : status[r] \in Statuses
  BY StepKinds DEF IInv, RowsInv, TypeOK, QuietInv, Resume, driverVars, vars
<1>1. ASSUME NEW d \in Invocations, Invoke(d) \/ Resume(d) \/ Interrupt(d)
      PROVE  UNCHANGED storeVars
  BY <1>1 DEF Invoke, Resume, Interrupt, jobVars
<1>2. ASSUME NEW d \in Invocations, Create(d)
      PROVE  Lifecycle!Next \/ UNCHANGED storeVars
  BY <1>0, <1>2, CreateBecomes DEF Create
<1>3. ASSUME NEW d \in Invocations, LaunchNext(d) \/ EndOfRound(d) \/ ReadStatus(d)
                                    \/ PollExit(d) \/ Recheck(d)
      PROVE  UNCHANGED storeVars
  BY <1>0, <1>3, LaunchBecomes, EndOfRoundBecomes, ReadStatusBecomes, PollExitBecomes,
     RecheckBecomes
<1>4. ASSUME NEW d \in Invocations, FailRun(d)
      PROVE  Lifecycle!Next
  <2> DEFINE r == Head(driver[d].live)
  <2>1. /\ r \in Runs /\ status' = [status EXCEPT ![r] = "failed"] /\ UNCHANGED stored
    BY <1>0, <1>4, FailRunBecomes, ElemsHeadTail DEF TypeOK, Drivers
  <2>2. status[r] \notin Terminal /\ r \in Existing
    <3>1. At(d, "failing") /\ driver[d].live # <<>> /\ driver[d].live \in Seq(Runs)
      BY <1>0, <1>4, FailRunBecomes DEF TypeOK
    <3>2. r \in Tracked(d)
      BY <3>1, ElemsHeadTail DEF Tracked, Polled
    <3> QED
      BY <1>0, <3>1, <3>2 DEF Quiet, PlanInv, DriverInv
  <2> HIDE DEF r
  <2> QED
    BY <1>0, <2>1, <2>2 DEF Terminal, Statuses, Existing
<1>5. ASSUME NEW j \in Jobs, JobStep(j)
      PROVE  Lifecycle!Next \/ UNCHANGED storeVars
  <2> DEFINE r == RunOf(j)
  <2>1. r \in Runs
    BY DEF Jobs, RunOf
  <2> USE DEF MoveJob, SetStatus
  <2>2. /\ job[j] = "starting" => status[r] = "queued"
        /\ job[j] \in {"executing", "raised"} => status[r] = "running"
    BY <1>0 DEF Quiet, JobsInv
  <2>3. CASE Start(j)
    BY <2>1, <2>2, <2>3 DEF Start, MarkRunning
  <2>4. CASE Save(j)
    BY <2>1, <2>2, <2>4 DEF Save
  <2>5. CASE Report(j)
    BY <2>1, <2>2, <2>5 DEF Report, MarkFailed
  <2>6. CASE Raise(j) \/ Crash(j) \/ Exit(j) \/ Kill(j)
    BY <2>6 DEF Raise, Crash, Exit, Kill
  <2> QED
    BY <1>5, <2>3, <2>4, <2>5, <2>6 DEF JobStep, Proceed
<1>6. UNCHANGED vars => UNCHANGED storeVars
  BY DEF vars, jobVars
<1> QED
  BY <1>1, <1>2, <1>3, <1>4, <1>5, <1>6, StepKinds DEF LoopStep

\* Until an operator resumes over jobs at work, the driver, its jobs and whatever
\* stops them move a row of the runs-store only as RunLifecycle says: queued once,
\* then running, then finished for good, with its results exactly if it succeeded.
THEOREM LifecycleRefined == PoolSpec => ImplementsLifecycle
<1>1. PoolInit => Lifecycle!Init
  BY DEF PoolInit, Init, JobInit, Lifecycle!Init
<1>2. IInv /\ [PoolNext]_poolVars => [~overlapped' => Lifecycle!Next]_storeVars
  BY LifecycleStep DEF PoolNext, poolVars
<1> QED
  BY <1>1, <1>2, Invariant, PTL DEF PoolSpec, ImplementsLifecycle

-----------------------------------------------------------------------------
\* The pool of aggregate_campaign.
LEMMA PoolInvInit == PoolInit => PoolInv
BY DEF PoolInit, PoolInv, WholeUnlessBegun, Init, JobInit, Existing

\* The rows of a driver that inserted one of each cohort.
LEMMA CreatedWhole ==
  ASSUME NEW d \in Invocations, \A c \in Cohorts : status[<<d, c>>] # "absent"
  PROVE  Whole
<1>1. \A c \in Cohorts : <<d, c>> \in Existing /\ CohortOf(<<d, c>>) = c
  BY DEF Existing, Runs, CohortOf
<1>2. \A r \in Existing : CohortOf(r) \in Cohorts
  BY DEF Existing, Runs, CohortOf
<1> QED
  BY <1>1, <1>2 DEF Whole

\* Only an interruption between two INSERTs leaves a campaign without a cohort.
LEMMA WholeStep ==
  ASSUME TypeOK, DriverInv, OwnerInv, Next, ~cutShort',
         cutShort' = (cutShort \/ \E d \in Invocations :
                        /\ At(d, "creating") /\ driver'[d].pc = "interrupted"
                        /\ \E c \in Cohorts : status[<<d, c>>] = "absent"),
         WholeUnlessBegun
  PROVE  WholeUnlessBegun'
<1> USE DEF At, Becomes, WholeUnlessBegun
<1>1. ASSUME Existing' = Existing, Whole
      PROVE  Whole'
  BY <1>1 DEF Whole
<1>2. CASE \E d \in Invocations : Create(d)
  <2>1. PICK d \in Invocations : Create(d)
    BY <1>2
  <2>2. CASE (\A c \in Cohorts : status[<<d, c>>] # "absent") /\ UNCHANGED status
    <3>1. Whole /\ Existing' = Existing
      BY <2>2, CreatedWhole DEF Existing
    <3> QED
      BY <1>1, <3>1
  <2>3. CASE driver'[d].pc = "creating"
    BY <2>3
  <2> QED
    BY <2>1, <2>2, <2>3, CreateBecomes
<1>3. ASSUME Existing' = Existing, NEW d \in Invocations, At(d, "creating"),
             ~At(d, "creating")'
      PROVE  Whole'
  <2>1. Interrupt(d) \/ Create(d)
    <3>1. \A e \in Invocations : ~Invoke(e) /\ ~Resume(e) /\ ~LoopStep(e)
      BY <1>3, LoopEffect
         DEF Invoke, Resume, MayInvoke, NoneActive, Active, Idle, DriverInv
    <3>2. \A e \in Invocations : Interrupt(e) \/ Create(e) => e = d
      BY <1>3 DEF Interrupt, Create, DriverInv, Active, Idle
    <3> QED
      BY <1>3, <3>1, <3>2, StepKinds DEF driverVars, vars
  <2>2. CASE Interrupt(d)
    BY <1>1, <1>3, <2>2, InterruptBecomes, CreatedWhole
  <2>3. CASE Create(d)
    BY <1>1, <1>3, <2>3, CreateBecomes, CreatedWhole
  <2> QED
    BY <2>1, <2>2, <2>3
<1> QED
  BY <1>1, <1>2, <1>3, RowsStay

LEMMA PoolInvStep ==
  ASSUME IInv, PoolInv, [PoolNext]_poolVars
  PROVE  PoolInv'
<1>0. TypeOK /\ DriverInv /\ OwnerInv /\ SucceededHasResults
  BY DEF IInv, RowsInv
<1>1. CASE Next /\ UNCHANGED pool /\
           cutShort' = (cutShort \/ \E d \in Invocations :
                          /\ At(d, "creating") /\ driver'[d].pc = "interrupted"
                          /\ \E c \in Cohorts : status[<<d, c>>] = "absent")
  <2>1. Existing \subseteq Existing' /\ \A r \in Runs : stored[r] => stored'[r]
    BY <1>0, <1>1, RowsStay, ResultsStay
  <2>2. Existing \subseteq Runs
    BY DEF Existing
  <2>3. ~cutShort' => ~cutShort
    BY <1>1
  <2>4. ~cutShort' => WholeUnlessBegun'
    BY <1>0, <1>1, <2>3, WholeStep DEF PoolInv
  <2> QED
    BY <1>1, <2>1, <2>2, <2>3, <2>4 DEF PoolInv
<1>2. CASE Aggregate /\ UNCHANGED <<vars, cutShort>>
  <2>1. Existing # {} /\ \A r \in Existing : status[r] = "succeeded"
    BY <1>2 DEF Aggregate, Admits, StatusesOf
  <2>2. \A d \in Invocations : ~At(d, "creating")
    BY <1>0, <2>1 DEF OwnerInv
  <2>3. ~cutShort => {CohortOf(r) : r \in Existing} = Cohorts
    BY <2>1, <2>2 DEF PoolInv, WholeUnlessBegun, Whole
  <2>4. \A r \in Existing : stored[r]
    BY <1>0, <2>1 DEF SucceededHasResults, Existing
  <2>5. pool' = Existing /\ Existing' = Existing /\ UNCHANGED <<stored, cutShort>>
    BY <1>2 DEF Aggregate, vars, jobVars, Existing
  <2>6. WholeUnlessBegun' <=> WholeUnlessBegun
    BY <1>2 DEF vars, jobVars, WholeUnlessBegun, Whole, Existing, At
  <2> QED
    BY <2>3, <2>4, <2>5, <2>6 DEF PoolInv
<1>3. CASE UNCHANGED poolVars
  BY <1>3 DEF poolVars, vars, jobVars, PoolInv, WholeUnlessBegun, Whole, Existing, At
<1> QED
  BY <1>1, <1>2, <1>3 DEF PoolNext

\* What a page or a script adds up is one run of a cohort, with its results in the
\* store whenever they are read, and, unless a driver was interrupted while it
\* inserted the rows, every cohort of the campaign.
THEOREM PoolSoundForEver == PoolSpec => []PoolIsSound
<1>1. IInv /\ PoolInv => PoolIsSound
  BY OneRunPerCohortOf DEF IInv, RowsInv, PoolInv, PoolIsSound, OneRunPerCohort
<1>2. IInv /\ PoolInv /\ [PoolNext]_poolVars => PoolInv'
  BY PoolInvStep
<1> QED
  BY <1>1, <1>2, PoolInvInit, Invariant, PTL DEF PoolSpec
=============================================================================

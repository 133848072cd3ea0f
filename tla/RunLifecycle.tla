---------------------------- MODULE RunLifecycle ----------------------------
(***************************************************************************)
(* What the runs-store promises its readers (the UI, the aggregation, an   *)
(* operator): a run is queued, may run, and ends once, succeeded or failed *)
(* for good; its trades and equity curve are stored exactly when it        *)
(* succeeded.  Campaign, with a single driver, implements this.            *)
(***************************************************************************)
CONSTANT Runs

VARIABLES status, stored

Init ==
  /\ status = [r \in Runs |-> "absent"]
  /\ stored = [r \in Runs |-> FALSE]

Becomes(r, before, after) ==
  /\ status[r] \in before
  /\ status' = [status EXCEPT ![r] = after]

Queue(r) == Becomes(r, {"absent"}, "queued") /\ UNCHANGED stored
Run(r) == Becomes(r, {"queued"}, "running") /\ UNCHANGED stored
Fail(r) == Becomes(r, {"queued", "running"}, "failed") /\ UNCHANGED stored
Succeed(r) ==
  /\ Becomes(r, {"running"}, "succeeded")
  /\ stored' = [stored EXCEPT ![r] = TRUE]

Next == \E r \in Runs : Queue(r) \/ Run(r) \/ Fail(r) \/ Succeed(r)

Spec == Init /\ [][Next]_<<status, stored>>
=============================================================================

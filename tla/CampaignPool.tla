---------------------------- MODULE CampaignPool ----------------------------
(***************************************************************************)
(* The readers of a campaign: campaign_groups (src/rs_spy/ui/data.py), the *)
(* Campaigns page (src/rs_spy/ui/pages.py) and aggregate_campaign          *)
(* (src/rs_spy/backtest/aggregate.py), which scripts/aggregate_campaign.py *)
(* calls directly, while drivers and jobs go on.                           *)
(***************************************************************************)
EXTENDS Campaign

VARIABLES
  pool,        \* the runs that are pooled: their results are read from then on
  cutShort     \* history: a driver was interrupted between two of its INSERTs

poolVars == <<vars, pool, cutShort>>

PoolInit ==
  /\ Init
  /\ pool = {}
  /\ cutShort = FALSE

StatusesOf(R) == {status[r] : r \in R}

\* find_campaign_runs and the refusals: no run, or one that did not succeed.
\* campaign_groups lets the page ask for a campaign under the same condition;
\* the page may have been drawn long before.  (The store holds fewer than the 500
\* rows it reads.)
AdmitsUnfinished(R) == R # {} /\ "succeeded" \in StatusesOf(R)
Admits(R) == R # {} /\ StatusesOf(R) = {"succeeded"}

\* aggregate_campaign, of the page or of the script.  A refusal changes nothing.
Aggregate ==
  /\ pool = {}
  /\ Admits(Existing)
  /\ pool' = Existing

PoolNext ==
  \/ /\ Next
     /\ cutShort' = (cutShort \/ \E d \in Invocations :
                       /\ At(d, "creating") /\ driver'[d].pc = "interrupted"
                       /\ \E c \in Cohorts : status[<<d, c>>] = "absent")
     /\ UNCHANGED pool
  \/ Aggregate /\ UNCHANGED <<vars, cutShort>>

PoolSpec == PoolInit /\ [][PoolNext]_poolVars /\ Fairness

-----------------------------------------------------------------------------
\* A pool counts no cohort twice, and every result it adds up is in the store
\* whenever it is read, although statuses and results are read one after the
\* other.  It lacks no cohort as long as no driver was interrupted
\* while it created the rows.
PoolIsSound ==
  /\ TypeOK
  /\ \A r, q \in pool : CohortOf(r) = CohortOf(q) => r = q
  /\ \A r \in pool : stored[r]
  /\ pool # {} /\ ~cutShort => {CohortOf(r) : r \in pool} = Cohorts

\* aggregate.py says that it "refuses partial campaigns" and names the error for
\* "missing/unfinished/failed cohort runs": what is pooled is the whole campaign.
PoolIsWhole == pool # {} => {CohortOf(r) : r \in pool} = Cohorts
=============================================================================

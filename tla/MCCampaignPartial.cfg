SPECIFICATION PoolSpec
CONSTANTS
  Cohorts <- MCCohorts
  MaxParallel = 2
  MaxJobs = 4
  Invocations <- MCInvocations
INVARIANT PoolIsWhole
CHECK_DEADLOCK FALSE

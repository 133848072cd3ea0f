SPECIFICATION PoolSpec
CONSTANTS
  Cohorts <- MCCohorts
  MaxParallel = 2
  MaxJobs = 4
  Invocations <- MCInvocations
INVARIANTS PoolableRuns JobsAccounted PoolIsSound
PROPERTIES ImplementsLifecycle DriverReturns
CHECK_DEADLOCK FALSE

SPECIFICATION FairSpec
CONSTANTS
  MaxCalls = 3
  WindowS = 4
  MaxRetries = 5
  BackoffBase = 1
  BackoffCap = 5
INVARIANTS WindowKept
PROPERTIES RequestEnds

SPECIFICATION FairSpec
CONSTANTS
  Threads = {c1, c2}
  Jobs = {j1, j2}
  c1 = c1
  c2 = c2
  j1 = j1
  j2 = j2
  PoolSize = 1
  MaxWait = 1
  NULL = NULL
PROPERTY WaitReturns
PROPERTY SlotReturned
PROPERTY ContinuationRuns
CHECK_DEADLOCK FALSE

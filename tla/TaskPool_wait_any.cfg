SPECIFICATION FairSpec
CONSTANTS
  Threads = {c1}
  Jobs = {j1}
  c1 = c1
  j1 = j1
  PoolSize = 1
  MaxWait = 2
  NULL = NULL
PROPERTY WaitAnyReturns
CHECK_DEADLOCK FALSE

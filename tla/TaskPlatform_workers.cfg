SPECIFICATION PlatformSpec
CONSTANTS
  Threads = {c1}
  Jobs = {j1}
  c1 = c1
  j1 = j1
  PoolSize = 1
  MaxWait = 1
  NULL = NULL
  NestedRuns = FALSE
  WaitKinds = {"timed"}
INVARIANT DeinitWaitsForWorkers
CHECK_DEADLOCK FALSE

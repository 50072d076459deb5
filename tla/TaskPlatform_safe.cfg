SPECIFICATION PlatformSpec
CONSTANTS
  Threads = {c1}
  Jobs = {j1, j2}
  c1 = c1
  j1 = j1
  j2 = j2
  PoolSize = 2
  MaxWait = 1
  NULL = NULL
  NestedRuns = FALSE
  WaitKinds = {"timed"}
SYMMETRY Symmetry
 
INVARIANT NoSharing
CHECK_DEADLOCK FALSE

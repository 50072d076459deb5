SPECIFICATION Spec
CONSTANTS
  Threads = {c1, c2}
  Jobs = {j1, j2}
  c1 = c1
  c2 = c2
  j1 = j1
  j2 = j2
  PoolSize = 1
  MaxWait = 2
  NULL = NULL
SYMMETRY Symmetry
INVARIANT RefCountIsHolders
INVARIANT OutcomeIsOwn
INVARIANT ContinuationOnce
PROPERTY TerminalIsFinal
PROPERTY ImplementsFuture
CHECK_DEADLOCK FALSE
INVARIANT IInv

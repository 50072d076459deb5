SPECIFICATION FairSpec
CONSTANTS
  Threads = {t1, t2, t3}
  Values = {v1, v2}
  NoValue = NoValue
INVARIANT WaitersSeeWinner
PROPERTY ImplementsPromise
PROPERTY WaitReturns

CONSTANTS
  t1 = t1
  t2 = t2
  t3 = t3
  Threads <- MCThreads
  NumLocks = 1
  MaxDepth = 2
  NoThread = NoThread
SPECIFICATION FairSpec
INVARIANTS Exclusion NoLostWakeup
PROPERTIES WritersProgress

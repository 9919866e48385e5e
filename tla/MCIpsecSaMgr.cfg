CONSTANTS
  t1 = t1
  t2 = t2
  t3 = t3
  t4 = t4
  a1 = a1
  a2 = a2
  a3 = a3
  s1 = s1
  s2 = s2
  s3 = s3
  None = None
  Threads = {t1, t2, t3, t4}
  Addrs = {a1, a2, a3}
  Spis = {s1, s2, s3}
  MaxSas = 4
  Scenarios <- MCScenarios
SPECIFICATION FairSpec
INVARIANTS EntriesSound ExclusiveUse NoLostWakeup ExpiryExact
PROPERTIES FlushComplete RemovalEnds
CHECK_DEADLOCK FALSE

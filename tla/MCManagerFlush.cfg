CONSTANTS
  t0 = t0
  t1 = t1
  t2 = t2
  t3 = t3
  e1 = e1
  e2 = e2
  e3 = e3
  m1 = m1
  m2 = m2
  h1 = h1
  h2 = h2
  None = None
  Threads <- TwoWorkers
  Flusher = t0
  Sas <- TwoSas
  NumSegments = 2
  Inits = {m1}
  MsgIds = {1}
  Hosts = {h1}
  Limit = 0
  Ops = {"checkout", "message", "new", "enum", "unique", "rekey", "destroy", "newspi", "flush"}
SPECIFICATION Spec
SYMMETRY MCSymmetry
INVARIANTS DrivenOut NothingLeft
CHECK_DEADLOCK FALSE

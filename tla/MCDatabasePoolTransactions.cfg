SPECIFICATION Spec
CONSTANTS
  a1 = a1
  a2 = a2
  s1 = s1
  t1 = t1
  t2 = t2
  t3 = t3
  d1 = d1
  None = None
  Async = {a1}
  Sync = {s1}
  Txns = {t1, t2, t3, d1}
  Direct = {d1}
  Size <- MCSize
  StatementFaults = {"error", "deadlock", "refused", "fatal"}
  CommitFaults = {"error", "deadlock", "lost", "refused"}
  MaxFaults = 2
  LoopBreaker = 5
  HighWater = 2
INVARIANTS AllOrNothing AtMostOnce FailureHonest
PROPERTIES InOrder

SPECIFICATION Spec
CONSTANTS
  a1 = a1
  a2 = a2
  s1 = s1
  t1 = t1
  t2 = t2
  t3 = t3
  d1 = d1
  None = None
  Async = {a1}
  Sync = {}
  Txns = {t1}
  Direct = {}
  Size <- MCSize
  StatementFaults = {"deadlock"}
  CommitFaults = {}
  MaxFaults = 1
  LoopBreaker = 5
  HighWater = 2
INVARIANTS DeadlockRetried

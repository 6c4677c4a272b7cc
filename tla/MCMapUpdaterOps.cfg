SPECIFICATION FairSpec
CONSTANTS
  w1 = w1
  w2 = w2
  continent = continent
  dungeon = dungeon
  i1 = i1
  i2 = i2
  p1 = p1
  o1 = o1
  o2 = o2
  Null = Null
  Workers = {w1, w2}
  BaseMaps = {dungeon}
  Instances = {i1}
  Base <- MCBase
  Players = {}
  Operations = {o1, o2}
  MaxCriteria = 0
INVARIANTS OperationsKept
PROPERTIES OperationTried Stops

SPECIFICATION Spec
CONSTANTS
  w1 = w1
  w2 = w2
  continent = continent
  dungeon = dungeon
  i1 = i1
  i2 = i2
  p1 = p1
  o1 = o1
  o2 = o2
  Null = Null
  Workers = {w1, w2}
  BaseMaps = {continent, dungeon}
  Instances = {i1, i2}
  Base <- MCBase
  Players = {p1}
  Operations = {}
  MaxCriteria = 2
SYMMETRY Symmetry
INVARIANTS PendingExact Quiescent NoNullRequest NoConcurrentUpdate NoDanglingMap CriteriaInOrder
PROPERTIES ImplementsTick

SPECIFICATION Spec
CONSTANTS
  w1 = w1
  w2 = w2
  continent = continent
  dungeon = dungeon
  i1 = i1
  i2 = i2
  p1 = p1
  o1 = o1
  o2 = o2
  Null = Null
  Workers = {}
  BaseMaps = {continent, dungeon}
  Instances = {i1, i2}
  Base <- MCBase
  Players = {p1}
  Operations = {o1}
  MaxCriteria = 2
PROPERTIES ImplementsTick

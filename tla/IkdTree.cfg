SPECIFICATION Spec
CONSTANTS
  Points <- MCPoints
  Boxes <- MCBoxes
  Clouds <- MCClouds
  Queries <- MCQueries
  KNearest = 4
  MaxDists <- MCMaxDists
  CellSize = 2
  MinimalUnbalanced = 3
  DeleteParam = 50
  BalanceParam = 70
  Infinity = 10000
  Null = Null
  MaxOps = 4
  MaxHeight = 11
INVARIANTS TypeOK TreeInOrder SearchesExact
PROPERTIES ImplementsStore

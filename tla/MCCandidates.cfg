CONSTANTS
  a = a  b = b  c = c  d = d  e = e
  Nodes = {a, b, c, d, e}
  Hops = 3
  MaxDegree = 3
  MinNodes = 3
  Caps = {4, 5}
  MinEdges = 2
  Strategies <- AllStrategies
  GraphSet <- MCGraphs
  Accounts = {1, 2, 3, 4, 5, 6}
  P = 1
  Q = 2
  Length = 3
  Scores = {1, 2}
  Orderings <- AllOrderings
  Lists <- MCLists
SPECIFICATION MCSpec
CHECK_DEADLOCK FALSE
INVARIANTS ExpansionIsSound PruningIsSound OneStructure
  SuppressionIsSound PoolIgnoresScore
PROPERTIES Returns

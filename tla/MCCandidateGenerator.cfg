CONSTANTS
  n1 = n1  n2 = n2  n3 = n3  n4 = n4  n5 = n5
  Nodes = {n1, n2, n3, n4, n5}
  Hops = 2
  MaxDegree = 3
  MinNodes = 3
  MinEdges = 2
  Lookbacks = {1, 3}
  WindowTicks = 3
  Every = 2
  Batches <- MCBatches
  BudgetPercent = 50
  P = 1
  Q = 2
  Scores = {1, 2}
  LowConfidence = 2
  Capacity = 2
  ControlPercent = 10
  MayForget = TRUE
  MaxTicks = 5
SPECIFICATION Spec
CHECK_DEADLOCK FALSE
INVARIANTS SeedsAreRight NoSeedIsLost CapacityIsSpentWell

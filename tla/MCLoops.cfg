CONSTANTS
  n1 = n1  n2 = n2  n3 = n3  n4 = n4
  Nodes = {n1, n2, n3, n4}
  Window = 4
  Tick = 2
  Minutes = {0, 1, 2, 3, 6}
  StreamSet <- MCStreams
  MAX_CYCLE_LEN = 4
  MAX_EXACT_NODES = 4
  SCATTER_GATHER_WINDOW_MINUTES = 2
  SMURF_WIDTH_SATURATION = 2
  MaxWidth = 3
  MaxDegree = 2
  MinFragment = 1
  MAX_BRIDGE = 1
  MAX_MERGED_NODES = 3
  MAX_WITNESS_FANOUT = 3
  FastMinutes = 3
  HourMinutes = 2
SPECIFICATION Spec
CHECK_DEADLOCK FALSE
INVARIANTS ValidLoopsAreTravelled

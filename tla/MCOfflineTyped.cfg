CONSTANTS
  Parts = {"publication"}
  Attrs = {"phone", "address", "ip"}
  Size <- MCSize
  RARE_MULTIPLICITY = 2
  BriefRefs = 1
  Params <- MCParams
  Orders <- MCOrders
  Flagged <- MCFlagged
  Edits = {"generation", "meaning", "computation", "score"}
  Datasets = {d1, d2}
  Questions = {"scorer", "recall", "vibes"}
  Readings <- MCReadings
  Documents = {1, 2}
  MaxCollects = 3
  Terms = {"a", "b", "c"}
  Blends <- MCBlends
  Lanes <- MCLanes
  MIN_OBSERVATIONS_PER_ARM = 1
  MaxDisposed = 3
  One = 60
  CostModels <- MCModels
  Measured <- MCMeasured
  FALLBACK_SCORE <- MCFallback
  REPORTED_PRECISION = 18
  Tenths = {1, 2, 5, 10, 30, 100}
  Typologies = {"CYCLE", "STACK"}
  PatternRows <- MCPatternRows
  Labelled <- MCPatternRows
  Plain <- MCPlain
  MaxLines = 5
  MaxChunks = 2
  MaxChunk = 2
  AccountFiles <- MCAccountFiles
  START_TICK = 2
  N_CYCLES = 3
  EVERY = 1
  Window = 4
  MinNodes = 3
  MaxEdges = {1, 2, 9}
  TypologyOf <- MCTypologyOf
  Traffics <- MCTraffics
  Seedings <- MCSeedings
  Queues <- MCQueues
  CheatPools <- MCCheatPools
  JoinedBy <- MCJoinedBy
  DrawnPairs <- MCDrawnPairs
  MAX_MERGED_NODES = 6
  Touched <- MCTouched
  ExtraSeeds <- MCExtraSeeds
  ArmPools <- MCArmPools
  TriesPerMerge = 2
  HIT_SHARES = {4, 5, 6}
  MIN_JACCARDS = {2, 3, 4}
  Ks = {1, 2}
  DeepKs = {1, 2, 3}
  RANK_K = 2
  MIN_RING_NODES = 3
  SplitNumerator = 2
  SplitDenominator = 3
  MaxQueryRows = 2
  Whole = 6
  MaxCycles = 3
SPECIFICATION OfflineSpec
INVARIANT NoTypedNumberRots
CHECK_DEADLOCK FALSE

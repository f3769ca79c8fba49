CONSTANTS
  s1 = s1  s2 = s2
  a = a  b = b  b2 = b2
  c1 = c1  c2 = c2
  None = None
  Nothing = Nothing
  Snapshots = {s1, s2}
  Ring = {s1}
  Accounts = {a, b}
  Bodies <- MCBodies
  Faults = {"fail", "torn", "crash"}
  MaxCases = 2
  MaxBuilds = 1
  MaxVerdicts = 3
  Cases = {c1, c2}
  AccountKeys = {a, b, b2}
  MembersOf <- MCMembersOf
  primary = primary  control = control
  Lanes = {primary, control}
  LaneOf <- MCLaneOf
  Patient = TRUE
  MaxSelects = 3
  MaxPosts = 2
  MaxLoads = 2
  MaxLanes = 1
  MaxGates = 3
SPECIFICATION MCSpec
CHECK_DEADLOCK FALSE
INVARIANTS AnsweredVerdictStands LabelBelongsToItsAlert ActsOnWhatIsShown
PROPERTIES ImplementsCaseLedger DecidedOnce SelectionIsShown

CONSTANTS
  c1 = c1  c2 = c2
  a = a  b = b  b2 = b2
  Nothing = Nothing
  Cases = {c1, c2}
  AccountKeys = {a, b, b2}
  MembersOf <- MCMembersOf
  primary = primary  control = control
  Lanes = {primary, control}
  LaneOf <- MCLaneOf
  Patient = FALSE
  MaxSelects = 2
  MaxPosts = 3
  MaxLoads = 3
  MaxLanes = 1
  MaxGates = 3
SPECIFICATION ConsoleSpec
CHECK_DEADLOCK FALSE
INVARIANT VerdictIsAboutTheCaseShown

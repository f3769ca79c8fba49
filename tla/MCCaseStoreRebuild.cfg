CONSTANTS
  s1 = s1  s2 = s2
  a = a  b = b
  None = None
  Snapshots = {s1, s2}
  Ring = {s1}
  Accounts = {a, b}
  Bodies <- MCBodies
  Faults = {"crash"}
  MaxCases = 1
  MaxBuilds = 2
  MaxVerdicts = 3
SPECIFICATION Spec
CHECK_DEADLOCK FALSE
INVARIANT LabelBelongsToItsAlert

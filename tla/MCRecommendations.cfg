CONSTANTS
  x = x  y = y  z = z
  ann = ann  bob = bob
  Contents = {x, y}
  Refused = {z}
  People = {ann, bob}
  Faults = {"fail", "torn", "crash"}
  MaxRecs = 2
  MaxClock = 6
SYMMETRY Symmetry
SPECIFICATION Spec
CHECK_DEADLOCK FALSE
INVARIANTS HumanGate LogTellsOneStory AnsweredIsKnown
PROPERTIES DecidedOnWhatWasShown ImplementsEscalationGate

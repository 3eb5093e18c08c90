SPECIFICATION Spec
CONSTANTS
  p1 = p1
  p2 = p2
  Proc = {p1, p2}
  Task = {1, 2}
  None = None
  N = 3
  Needs <- Join
  Tolerant = {1}
  Width = 2
  Misnamed = {2}
  Synthesize = TRUE
  MaxEvents = 1
SYMMETRY Symmetry
INVARIANTS TypeOK DrivesUnderLease RowIsDrivers NeedsMet NeverStuck CompletedMeansDone
CHECK_DEADLOCK FALSE

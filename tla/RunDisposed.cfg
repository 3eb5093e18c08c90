SPECIFICATION Spec
CONSTANTS
  p1 = p1
  p2 = p2
  Proc = {p1, p2}
  Task = {1, 2}
  None = None
  N = 2
  Needs <- Chain
  Tolerant = {}
  Width = 2
  Misnamed = {}
  Synthesize = TRUE
  MaxEvents = 1
INVARIANT DisposedRunsResume
CHECK_DEADLOCK FALSE

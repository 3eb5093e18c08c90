SPECIFICATION Spec
CONSTANTS
  p1 = p1
  t1 = t1
  t2 = t2
  t3 = t3
  Proc = {p1}
  Tui = {}
  Task = {t1, t2, t3}
  Handlers = {"set", "pause"}
  Budget = {0}
  MaxGoals = 1
  MaxTokens = 0
  AutoResumeInterrupted = TRUE
SYMMETRY Symmetry
INVARIANTS UserPauseHeld
CHECK_DEADLOCK FALSE

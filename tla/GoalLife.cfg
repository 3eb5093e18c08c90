SPECIFICATION Spec
CONSTANTS
  p1 = p1
  p2 = p2
  p3 = p3
  t1 = t1
  t2 = t2
  Proc = {p1, p2, p3}
  Tui = {p3}
  Task = {t1, t2}
  Handlers = {"set", "setSame", "add", "sequence", "focus", "dogfood", "clear", "pause", "resume", "budget", "edit", "create", "unmet", "complete", "human", "interrupt", "idle", "watchdog", "created", "die", "close"}
  Budget = {0, 1}
  MaxGoals = 2
  MaxTokens = 1
  AutoResumeInterrupted = TRUE
SYMMETRY Symmetry
INVARIANTS TypeOK CompleteIsAudited ActiveWithinBudget OneFocused DriversLostLock
 
CHECK_DEADLOCK FALSE

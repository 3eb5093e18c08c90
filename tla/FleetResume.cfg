SPECIFICATION Spec
CONSTANTS
  lead = lead
  w1 = w1
  w2 = w2
  r1 = r1
  None = None
  Failure = Failure
  Lead = lead
  Worker <- Fleet
  Isolated = {}
  Run = {r1}
  Mode = {"council", "orchestrate", "parallel"}
  Tasks <- Twice
  MaxParallel = 2
  AgentLimit = 2
  MaxExec = 2
  MaxCrashes = 1
INVARIANTS AbortReaches  ReplayMatches CollabEndsQuiet
CHECK_DEADLOCK FALSE

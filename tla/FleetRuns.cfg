SPECIFICATION FairSpec
CONSTANTS
  lead = lead
  w1 = w1
  w2 = w2
  r1 = r1
  r2 = r2
  None = None
  Failure = Failure
  Lead = lead
  Worker <- Alone
  Isolated = {lead}
  Run = {r1, r2}
  Mode = {"lead", "module"}
  Tasks <- Single
  MaxParallel = 2
  AgentLimit = 2
  MaxExec = 2
  MaxCrashes = 0
INVARIANTS TypeOK SessionsHold
PROPERTIES AbortEnds
CHECK_DEADLOCK FALSE

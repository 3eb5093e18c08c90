SPECIFICATION FairSpec
CONSTANTS
  a1 = a1
  t1 = t1
  f1 = f1
  f2 = f2
  e1 = e1
  b1 = b1
  d1 = d1
  z1 = z1
  q1 = q1
  q2 = q2
  None = None
  ToolAsk = {t1}
  Ask = {a1}
  Follow = {f1, f2}
  End = {e1}
  Beta = {b1}
  Deletion = {d1}
  Shutdown = {z1}
  Question = {q1, q2}
  Concurrency = 2
  History = 1
  Attempts = 3
  MaxCalls = 3
INVARIANTS TypeOK AskLeavesNothing ThreadUsable OverlayTruthful
PROPERTIES QuestionsEnd
CHECK_DEADLOCK FALSE

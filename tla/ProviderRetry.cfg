SPECIFICATION Spec
CONSTANTS
  r1 = r1
  r2 = r2
  r3 = r3
  a1 = a1
  c1 = c1
  m1 = m1
  m2 = m2
  None = None
  Run = {r1, r2, r3}
  Delegate = {}
  Review = {}
  Closer = {}
  Event = {}
  Shutdown = {}
  Other = {}
  Agent = {a1}
  Tool = {}
  Config = {c1}
  Message = {m1, m2}
  Managed = FALSE
  MaxRecords = 2
  MaxCalls = 3
SYMMETRY Symmetry
INVARIANTS RetryRunsOnce
CHECK_DEADLOCK FALSE

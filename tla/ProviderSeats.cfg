SPECIFICATION Spec
CONSTANTS
  r1 = r1
  r2 = r2
  d1 = d1
  x1 = x1
  e1 = e1
  o1 = o1
  v1 = v1
  z1 = z1
  a1 = a1
  s1 = s1
  c1 = c1
  c2 = c2
  m1 = m1
  m2 = m2
  None = None
  Run = {r1, r2}
  Delegate = {d1}
  Review = {v1}
  Closer = {x1}
  Event = {e1}
  Shutdown = {z1}
  Other = {o1}
  Agent = {a1}
  Tool = {s1}
  Config = {c1, c2}
  Message = {m1}
  Managed = TRUE
  MaxRecords = 2
  MaxCalls = 3
SYMMETRY Symmetry
INVARIANTS TypeOK    WaitsEnd
CHECK_DEADLOCK FALSE

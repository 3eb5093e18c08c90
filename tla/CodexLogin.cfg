SPECIFICATION FairSpec
CONSTANTS
  c1 = c1
  c2 = c2
  z1 = z1
  e1 = e1
  Connect = {c1, c2}
  CloseAll = {z1}
  Caller = {e1}
  None = None
  MaxCalls = 2
  MaxOut = 2
  Transport <- MCTransport
INVARIANTS TypeOK Settlements NoStrayServer
PROPERTIES CallsEnd
CHECK_DEADLOCK FALSE

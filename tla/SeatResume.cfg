SPECIFICATION Spec
CONSTANTS
  a1 = a1
  c1 = c1
  t1 = t1
  t2 = t2
  Turn = {t1, t2}
  Review = {}
  Signalled = {t1}
  Canceller = {c1}
  Approval = {a1}
  CloseCall = CloseCall
  Stream = Stream
  None = None
  Transports = {"app-server", "exec"}
  MaxClose = 0
  MaxResume = 1
INVARIANTS AcceptedTurnsSerial 
CHECK_DEADLOCK FALSE

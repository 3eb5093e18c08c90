SPECIFICATION FairSpec
CONSTANTS
  t1 = t1
  r1 = r1
  Turn = {t1}
  Review = {r1}
  Signalled = {}
  Canceller = {}
  Approval = {}
  CloseCall = CloseCall
  Stream = Stream
  None = None
  Transports = {"app-server"}
  MaxClose = 1
  MaxResume = 0
INVARIANTS TypeOK LaneExclusive CleanupAfterDrain
PROPERTIES LaneOrder CallsReturn
CHECK_DEADLOCK FALSE

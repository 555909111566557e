SPECIFICATION CronFairSpec
CONSTANTS
  Reqs = {r1, r2, r3}
  Explicit = {r1, r2}
  Failing = {r2}
  Disconnected = {r3}
  Masked = {}
  SessIds = {i1, i2}
  FreeSpanLimit = 1
  Timeout = 1
  LastArrival = 1
  LastMonth = 0
  Plans = {"pro"}
  None = None
CHECK_DEADLOCK FALSE
INVARIANTS
  CronInv
PROPERTIES
  StatusIsEarned
  ClosedStaysClosed
  SessionsClose

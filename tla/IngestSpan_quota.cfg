SPECIFICATION Spec
CONSTANTS
  Reqs = {r1, r2, r3}
  Explicit = {r1, r2}
  Failing = {r1}
  Disconnected = {}
  Masked = {r1}
  SessIds = {i1, i2, i3}
  FreeSpanLimit = 1
  Timeout = 1
  LastArrival = 0
  LastMonth = 1
  Plans = {"free", "pro"}
  None = None
CHECK_DEADLOCK FALSE
SYMMETRY Symmetry
INVARIANTS
  Bookkeeping
  OneExplicitSession
  QuotaHolds

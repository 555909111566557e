SPECIFICATION Spec
CONSTANTS
  Reqs = {r1}
  Explicit = {}
  Failing = {}
  Disconnected = {}
  Masked = {r1}
  SessIds = {i1}
  FreeSpanLimit = 1
  Timeout = 1
  LastArrival = 0
  LastMonth = 0
  Plans = {"pro"}
  None = None
CHECK_DEADLOCK FALSE
INVARIANT MaskingMapNonFatal

SPECIFICATION MCSpec
CONSTANTS
  Mounts = 2
  Sockets <- ThreeSockets
  Live <- AllPages
  Links <- Everywhere
  MaxAttempts = 2
  MaxKeys = 1
  MaxFaults = 2
  MaxStored = 2
  PageSize = 1
  Buffer = 1
  s1 = s1
  s2 = s2
  s3 = s3
  None = None
CHECK_DEADLOCK FALSE
INVARIANTS
  SocketsSound
  SettledMeansSeen
PROPERTIES
  Reconnects
  RowsStay

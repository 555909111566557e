SPECIFICATION MCSpec
CONSTANTS
  Mounts = 1
  Sockets <- ThreeSockets
  Live <- OnlyDash
  Links <- OnDash
  MaxAttempts = 1
  MaxKeys = 1
  MaxFaults = 0
  MaxStored = 1
  PageSize = 1
  Buffer = 1
  s1 = s1
  s2 = s2
  s3 = s3
  None = None
CHECK_DEADLOCK FALSE
PROPERTIES
  EmptyStateLeaves

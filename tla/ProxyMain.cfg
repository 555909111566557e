SPECIFICATION MainFairSpec
CONSTANTS
  Spans = {s1, s2, s3}
  Workers = {w1}
  Drainers = {main}
  BufferSize = 1
  NoSpan = NoSpan
CHECK_DEADLOCK FALSE
INVARIANTS
  MainInv
PROPERTIES
  OnlyFullBufferDrops
  SignalExits

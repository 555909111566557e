SPECIFICATION FairSpec
CONSTANTS
  Spans = {s1, s2}
  Workers = {w1, w2}
  Drainers = {d1, d2}
  BufferSize = 1
  NoSpan = NoSpan
CHECK_DEADLOCK FALSE
INVARIANTS
  ChannelInv
  Accounting
PROPERTIES
  DrainIsFinal
  ImplementsDelivery
  Progress

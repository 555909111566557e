SPECIFICATION MCSpec
CONSTANTS
  Keys = {k1, k2, k3}
  Lookups = {l1, l2}
  Ttl = 1
  MaxStale = 2
  FetchTimeout = 1
  Cooldown = 1
  FailThreshold = 2
  MaxEntries = 2
  MaxTime = 4
  CacheTime = 2
  NoKey = NoKey
SYMMETRY Symmetry
CHECK_DEADLOCK FALSE
INVARIANTS
  TypeOK
  BreakerShieldsProcessing
PROPERTIES
  RevocationBound
  CacheKeepsLimit

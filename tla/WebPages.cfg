SPECIFICATION MCSpec
CONSTANTS
  Tabs = {"general", "privacy"}
  Orgs = {oa, ob}
  Vals = {v1, v2}
  MaxEdits = 1
  MaxEvents = 2
  oa = oa
  ob = ob
  v1 = v1
  None = None
  Lists = {"members", "invites", "alerts", "keys"}
  Rows = {r1, r2, r3}
  FirstRows = {r1, r2}
  MaxClicks = 2
  MaxListEvents = 1
  Keys = {k1, k2, k3}
  FirstKeys = {k1}
  Custom = {k2}
  Countdown = 3
  MaxTests = 2
  MaxLeft = 1
  MaxPosts = 2
  MaxProEvents = 3
  Tickets = {t1, t2}
  Messages = {m1, m2}
  FirstTickets = {t1}
  MaxTexts = 1
  MaxSupportEvents = 3
  Size = 3
  Times = {0, 1, 400}
  Lengths = {0, 1, 400}
  Clusters = {c1, c2, c3}
  ClustersOfB = {c3}
  FirstClusters = {c1}
  Sessions = {s1, s2}
  FirstSessions = {s1}
  MaxSwitches = 2
  Counts = {3, 4, 6}
  Limit = 5
CHECK_DEADLOCK FALSE
INVARIANTS
  FormIsOwn
  OwnWritesSeen
  SecretIsTimed
  DialogIsTrue
  TimelineReads
  RowsAreItsOwn
  WarnedJustOnce
PROPERTIES
  RepliesAppear

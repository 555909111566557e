SPECIFICATION MCSpec
CONSTANTS
  Users = {alice, bob}
  FirstOwner = alice
  FirstAdmins = {bob}
  Keys = {k1}
  FirstKeys = {}
  Reqs = {r1, r2}
  Ops = {"delete", "restore", "transfer", "leave", "remove", "setRole", "createKey", "deactivateKey"}
  GracePeriod = 1
  MaxTime = 1
  Nobody = nobody
  Addresses = {carol, dave}
  Spellings = {lower, typed}
  Lower = lower
  MaxInvites = 2
  MaxPending = 1
  MaxRemovals = 1
SYMMETRY Symmetry
CHECK_DEADLOCK FALSE
INVARIANTS
  TypeOK
  OneOwner
  KeysFollowStatus
  PendingWithinLimit
  RemovedStaysOut
PROPERTIES
  DeletedWhenDue

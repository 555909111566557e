SPECIFICATION Spec
CONSTANTS
  Users = {alice, bob}
  FirstOwner = alice
  FirstAdmins = {bob}
  Keys = {k1}
  FirstKeys = {k1}
  Reqs = {r1, r2}
  Ops = {"transfer", "remove"}
  GracePeriod = 1
  MaxTime = 0
  Nobody = nobody
CHECK_DEADLOCK FALSE
PROPERTIES
  OwnerNotRemoved

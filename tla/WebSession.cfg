SPECIFICATION Spec
CONSTANTS
  Users = {a, b}
  Orgs = {oa, ob, oi}
  Invitee = b
  InviteOrg = oi
  FirstMember <- HomeOf
  FirstAccounts = {a}
  MaxEvents = 1
  MaxActs = 5
  a = a
  b = b
  oa = oa
  ob = ob
  oi = oi
  None = None
CHECK_DEADLOCK FALSE
INVARIANTS
  InviteKept
  ActiveOrg
PROPERTIES
  NoBlankPage

------------------------------ MODULE Invites ------------------------------
(***************************************************************************)
(* The invites of one organization and the members who came by them        *)
(* (processing/internal/service/invite.go).  CreateInvite looks at the     *)
(* memberships before its transaction and counts in it; AcceptInvite reads *)
(* the invite, looks for a membership and writes.  Both transactions run   *)
(* at READ COMMITTED, lock nothing they only read, and become visible with *)
(* their commit.                                                           *)
(*                                                                         *)
(* An invite goes to an address in lower case.  Registration stores the    *)
(* address as it was typed, so that one address may have several accounts; *)
(* only the one that is stored in lower case is found by CreateInvite,     *)
(* whereas AcceptInvite compares without regard to case and lets any of    *)
(* them in.  Accounts of other addresses are refused before anything is    *)
(* written.                                                                *)
(***************************************************************************)
EXTENDS Integers, FiniteSets

CONSTANTS
  Addresses,    \* e-mail addresses, in lower case
  Spellings,    \* the ways an address may be typed
  Lower,        \* the one without capital letters
  Members0,     \* accounts that are members at the start, which can be removed
  MaxInvites,   \* rows that the table invites ever gets (bound)
  MaxPending,   \* 50
  Reqs,         \* slots for concurrent requests
  MaxRemovals,  \* removals of members (bound)
  Nothing       \* neither an address, nor a spelling, nor a row

VARIABLES
  members,      \* the accounts with a membership
  invite,       \* invite[i]: the row, see States
  email,        \* email[i]: whom it invites
  request,      \* request[r]: what the request has read
  removals,     \* number of removals
  out,          \* history: accounts removed, and their address not invited since
  back,         \* history: members again although they were out
  overlapped,   \* history: addresses of which two requests were under way at once
  overlooked,   \* history: addresses whose membership CreateInvite could not see
  crowded       \* history: an invite was inserted while another creation had counted

history == <<removals, out, back, overlapped, overlooked, crowded>>
vars == <<members, invite, email, request, history>>

Ids == 1 .. MaxInvites
Accounts == Addresses \X Spellings

\* What the proofs assume of the constants.
InvitesAssumption ==
  /\ Lower \in Spellings /\ Members0 \subseteq Accounts
  /\ Nothing \notin Addresses \cup Spellings \cup Ids
  /\ MaxInvites \in Nat /\ MaxPending \in Nat /\ MaxRemovals \in Nat

\* no row yet; not accepted; accepted_at; past expires_at; deleted
States == {"absent", "pending", "accepted", "expired", "deleted"}
Idle   == [at |-> "idle", address |-> Nothing, typed |-> Nothing, id |-> Nothing, counted |-> 0]

Request == [at : {"idle", "count", "find", "insert", "check", "write"},
            address : Addresses \cup {Nothing}, typed : Spellings \cup {Nothing},
            id : Ids \cup {Nothing}, counted : 0 .. Cardinality(Ids)]

\* The types of the rows, the requests and the histories.
TypeOK ==
  /\ members \subseteq Accounts
  /\ invite \in [Ids -> States] /\ email \in [Ids -> Addresses \cup {Nothing}]
  /\ request \in [Reqs -> Request]
  /\ removals \in 0 .. MaxRemovals
  /\ out \subseteq Accounts /\ back \subseteq Accounts
  /\ overlapped \subseteq Addresses /\ overlooked \subseteq Addresses
  /\ crowded \in BOOLEAN

Init ==
  /\ members = Members0
  /\ invite = [i \in Ids |-> "absent"] /\ email = [i \in Ids |-> Nothing]
  /\ request = [r \in Reqs |-> Idle]
  /\ removals = 0 /\ out = {} /\ back = {} /\ overlapped = {} /\ overlooked = {}
  /\ crowded = FALSE

Pending == {i \in Ids : invite[i] = "pending"}
About(a) == {r \in Reqs : request[r].address = a}
AccountsOf(a) == {a} \X Spellings

\* Request r begins, about address a and, if it accepts, for the account typed so.
Begin(r, at, a, typed, i) ==
  /\ request[r] = Idle
  /\ request' = [request EXCEPT ![r] =
                   [Idle EXCEPT !.at = at, !.address = a, !.typed = typed, !.id = i]]
  /\ overlapped' = (IF About(a) = {} THEN overlapped ELSE overlapped \cup {a})

\* It is answered, with or without a commit.
End(r) == request' = [request EXCEPT ![r] = Idle]

----------------------------------------------------------------------------
(* CreateInvite *)

\* Faulty variant: memberships are not looked at.
SeenNobody(a, found) == {}
\* GetUserByEmail and GetMembership: the member whose address is stored as the invite's.
\* An error of either of them, found = FALSE, is taken for nobody.
Seen(a, found) == IF found THEN {<<a, Lower>>} \cap members ELSE {}

\* Members that the two lookups do not see: any if one of them fails, otherwise those who
\* registered with a capital letter.
Unseen(a, found) ==
  {u \in AccountsOf(a) \cap members : ~found \/ u # <<a, Lower>>}

\* Whoever is seen to be a member is not invited.
Create(r, a, found) ==
  /\ Seen(a, found) = {} /\ Begin(r, "count", a, Nothing, Nothing)
  /\ overlooked' = (IF Unseen(a, found) = {} THEN overlooked ELSE overlooked \cup {a})
  /\ UNCHANGED <<members, invite, email, removals, out, back, crowded>>

Count(r) ==
  /\ request[r].at = "count"
  /\ request' = [request EXCEPT ![r].at = "find", ![r].counted = Cardinality(Pending)]
  /\ UNCHANGED <<members, invite, email, history>>

\* GetInviteByEmailAndOrg: a pending invite for the same address, to be replaced.
Found(a) ==
  LET same == {i \in Pending : email[i] = a} IN IF same = {} THEN {Nothing} ELSE same

Find(r, i) ==
  /\ request[r].at = "find" /\ i \in Found(request[r].address)
  /\ IF request[r].counted - (IF i = Nothing THEN 0 ELSE 1) >= MaxPending THEN End(r)
     ELSE request' = [request EXCEPT ![r].at = "insert", ![r].id = i]
  /\ UNCHANGED <<members, invite, email, history>>

\* Faulty variant: the invite that is replaced stays.
ReplacedNot(old, new) == [invite EXCEPT ![new] = "pending"]
\* The new row, in place of the old one, which may have been accepted meanwhile.
Replaced(old, new) ==
  [i \in Ids |-> IF i = new THEN "pending" ELSE IF i = old THEN "deleted" ELSE invite[i]]

Insert(r, new) ==
  LET a == request[r].address
  IN /\ request[r].at = "insert"
     /\ invite[new] = "absent" /\ \A i \in 1 .. new - 1 : invite[i] # "absent"
     /\ invite' = Replaced(request[r].id, new) /\ email' = [email EXCEPT ![new] = a]
     /\ crowded' = (crowded \/ \E q \in Reqs \ {r} : request[q].at \in {"find", "insert"})
     /\ out' = out \ AccountsOf(a) /\ End(r)
     /\ UNCHANGED <<members, removals, back, overlapped, overlooked>>

----------------------------------------------------------------------------
(* AcceptInvite *)

\* By any account of the address that was invited.
Accept(r, i, typed) ==
  /\ i \in Pending /\ Begin(r, "check", email[i], typed, i)
  /\ UNCHANGED <<members, invite, email, removals, out, back, overlooked, crowded>>

Account(r) == <<request[r].address, request[r].typed>>

\* Members are refused.
Check(r) ==
  /\ request[r].at = "check"
  /\ IF Account(r) \in members THEN End(r)
     ELSE request' = [request EXCEPT ![r].at = "write"]
  /\ UNCHANGED <<members, invite, email, history>>

\* The UPDATE finds the row by its id, whatever became of it, or finds none.
Spent(i) == IF invite[i] = "deleted" THEN invite ELSE [invite EXCEPT ![i] = "accepted"]

\* A membership of the same account that was committed first makes the insertion fail.
Write(r) ==
  LET u == Account(r)
  IN /\ request[r].at = "write" /\ End(r)
     /\ IF u \in members THEN UNCHANGED <<members, invite, back>>
        ELSE /\ members' = members \cup {u} /\ invite' = Spent(request[r].id)
             /\ back' = IF u \in out THEN back \cup {u} ELSE back
     /\ UNCHANGED <<email, removals, out, overlapped, overlooked, crowded>>

----------------------------------------------------------------------------
(* The rest *)

\* A statement fails, or the client hangs up: the transaction is rolled back.
Abort(r) ==
  /\ request[r] # Idle /\ End(r)
  /\ UNCHANGED <<members, invite, email, history>>

\* RevokeInvite: whatever state the invite is in.
Revoke(i) ==
  /\ invite[i] \in {"pending", "accepted", "expired"}
  /\ invite' = [invite EXCEPT ![i] = "deleted"]
  /\ UNCHANGED <<members, email, request, history>>

Expire(i) ==
  /\ i \in Pending /\ invite' = [invite EXCEPT ![i] = "expired"]
  /\ UNCHANGED <<members, email, request, history>>

\* RemoveMember, or the member leaves; pending invites are not looked at.
Remove(a, typed) ==
  LET u == <<a, typed>>
  IN /\ u \in members /\ removals < MaxRemovals
     /\ members' = members \ {u} /\ removals' = removals + 1 /\ out' = out \cup {u}
     /\ overlapped' = (IF About(a) = {} THEN overlapped ELSE overlapped \cup {a})
     /\ UNCHANGED <<invite, email, request, back, overlooked, crowded>>

Next ==
  \/ \E r \in Reqs : \/ \E a \in Addresses, found \in BOOLEAN : Create(r, a, found)
                     \/ \E i \in Ids, typed \in Spellings : Accept(r, i, typed)
                     \/ \E i \in Ids : Insert(r, i)
                     \/ \E i \in Ids \cup {Nothing} : Find(r, i)
                     \/ Count(r) \/ Check(r) \/ Write(r) \/ Abort(r)
  \/ \E i \in Ids : Revoke(i) \/ Expire(i)
  \/ \E a \in Addresses, typed \in Spellings : Remove(a, typed)

Spec == Init /\ [][Next]_vars

----------------------------------------------------------------------------
(* Properties *)

\* There are at most MaxPending pending invites and one for each address, as long as no
\* creation began before another one had ended.
PendingWithinLimit ==
  ~crowded => /\ Cardinality(Pending) <= MaxPending
              /\ \A i, j \in Pending : email[i] = email[j] => i = j

\* An account that was removed comes back only by an invite that was made afterwards: no
\* invite works twice and none is left over.  There are two exceptions: requests about its
\* address overlapped, or an invite was made while an account of the address was a member
\* and CreateInvite did not see that, because a lookup failed or the account is stored
\* with a capital letter.
RemovedStaysOut == \A u \in back : u[1] \in overlapped \cup overlooked
=============================================================================

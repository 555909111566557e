--------------------------- MODULE InvitesProofs ---------------------------
(***************************************************************************)
(* The two promises of Invites for any number of addresses, spellings,     *)
(* invites, requests and removals.  The inductive invariant says what an   *)
(* address has pending or under way of which there never were two requests *)
(* at once and no membership was overlooked: a request holds the one       *)
(* invite that can be theirs, no account that is a member has either, and  *)
(* an account that was removed has no invite and is not accepting one.     *)
(***************************************************************************)
EXTENDS Invites, FiniteSetTheorems, TLAPS

\* Of address a one request is under way, and one invite pending, which is the one it holds.
OneRequest(a) == \A q, r \in Reqs : request[q].address = a /\ request[r].address = a => q = r
OneInvite(a) == \A i, j \in Pending : email[i] = a /\ email[j] = a => i = j
Holding(a) ==
  \A r \in Reqs, i \in Pending :
    request[r].address = a /\ request[r].at \in {"insert", "check", "write"} /\ email[i] = a
      => i = request[r].id
\* With an account that is a member there is no request and no pending invite.
In(a) == \E s \in Spellings : <<a, s>> \in members
MemberDone(a) ==
  In(a) => /\ \A r \in Reqs : request[r].address # a
           /\ \A i \in Pending : email[i] # a
\* With an account that is out there is no pending invite and none is being accepted.
Out(a) == \E s \in Spellings : <<a, s>> \in out
OutDone(a) ==
  Out(a) => /\ \A r \in Reqs : request[r].address = a => request[r].at \notin {"check", "write"}
            /\ \A i \in Pending : email[i] # a

Single(a) == OneRequest(a) /\ OneInvite(a) /\ Holding(a) /\ MemberDone(a) /\ OutDone(a)
\* Pending invites and requests under way are about an address, and accepting is up to one
\* of its accounts.
Addressed ==
  /\ \A i \in Pending : email[i] \in Addresses
  /\ \A r \in Reqs : /\ request[r].at # "idle" => request[r].address \in Addresses
                     /\ request[r].at \in {"check", "write"} => request[r].typed \in Spellings

Disturbed == overlapped \cup overlooked
OutInv == RemovedStaysOut /\ \A a \in Addresses \ Disturbed : Single(a)

----------------------------------------------------------------------------
\* Every action keeps the types.
LEMMA PendingFinite ==
  ASSUME InvitesAssumption
  PROVE  /\ IsFiniteSet(Pending) /\ Cardinality(Pending) \in 0 .. Cardinality(Ids)
         /\ 0 \in 0 .. Cardinality(Ids)
<1>1. IsFiniteSet(Ids)
  BY FS_Interval DEF InvitesAssumption, Ids
<1>2. Pending \subseteq Ids
  BY DEF Pending
<1>3. IsFiniteSet(Pending) /\ Cardinality(Pending) <= Cardinality(Ids)
  BY <1>1, <1>2, FS_Subset
<1>4. Cardinality(Pending) \in Nat /\ Cardinality(Ids) \in Nat
  BY <1>1, <1>3, FS_CardinalityType
<1>5. QED
  BY <1>3, <1>4

LEMMA TypeInit == InvitesAssumption /\ Init => TypeOK
<1>1. SUFFICES ASSUME InvitesAssumption, Init PROVE TypeOK
  OBVIOUS
<1>2. 0 \in 0 .. Cardinality(Ids)
  BY <1>1, PendingFinite
<1>3. request \in [Reqs -> Request]
  BY <1>1, <1>2 DEF Init, Idle, Request
<1>4. invite \in [Ids -> States] /\ email \in [Ids -> Addresses \cup {Nothing}]
  BY <1>1 DEF Init, States
<1>5. removals \in 0 .. MaxRemovals /\ members \subseteq Accounts
  BY <1>1 DEF Init, InvitesAssumption
<1>6. QED
  BY <1>1, <1>3, <1>4, <1>5 DEF Init, TypeOK

LEMMA TypeNext == InvitesAssumption /\ TypeOK /\ Addressed /\ [Next]_vars => TypeOK'
<1>1. SUFFICES ASSUME InvitesAssumption, TypeOK, Addressed, [Next]_vars PROVE TypeOK'
  OBVIOUS
<1>2. Cardinality(Pending) \in 0 .. Cardinality(Ids) /\ 0 \in 0 .. Cardinality(Ids)
  BY <1>1, PendingFinite
<1>3. Idle \in Request
  BY <1>2 DEF Idle, Request
<1>4. ASSUME NEW r \in Reqs, End(r) PROVE request' \in [Reqs -> Request]
  BY <1>1, <1>3, <1>4 DEF TypeOK, End
<1>5. ASSUME NEW r \in Reqs, NEW at \in {"count", "check"}, NEW a \in Addresses,
             NEW s \in Spellings \cup {Nothing}, NEW i \in Ids \cup {Nothing},
             Begin(r, at, a, s, i)
      PROVE  request' \in [Reqs -> Request] /\ overlapped' \subseteq Addresses
  <2>1. [Idle EXCEPT !.at = at, !.address = a, !.typed = s, !.id = i] \in Request
    BY <1>2 DEF Idle, Request
  <2>2. QED
    BY <1>1, <1>5, <2>1 DEF TypeOK, Begin
<1>6. ASSUME NEW r \in Reqs, NEW a \in Addresses, NEW found \in BOOLEAN, Create(r, a, found)
      PROVE  TypeOK'
  BY <1>1, <1>5, <1>6 DEF TypeOK, Create
<1>7. ASSUME NEW r \in Reqs, Count(r) PROVE TypeOK'
  <2>1. [request[r] EXCEPT !.at = "find", !.counted = Cardinality(Pending)] \in Request
    BY <1>1, <1>2 DEF TypeOK, Request
  <2>2. request' = [request EXCEPT ![r] =
                      [request[r] EXCEPT !.at = "find", !.counted = Cardinality(Pending)]]
    BY <1>1, <1>7 DEF TypeOK, Count, Request
  <2>3. QED
    BY <1>1, <1>7, <2>1, <2>2 DEF TypeOK, Count, history
<1>8. ASSUME NEW r \in Reqs, NEW i \in Ids \cup {Nothing}, Find(r, i) PROVE TypeOK'
  <2>1. [request[r] EXCEPT !.at = "insert", !.id = i] \in Request
    BY <1>1 DEF TypeOK, Request
  <2>2. request' \in [Reqs -> Request]
    BY <1>1, <1>4, <1>8, <2>1 DEF TypeOK, Find
  <2>3. QED
    BY <1>1, <1>8, <2>2 DEF TypeOK, Find, history
<1>9. ASSUME NEW r \in Reqs, NEW new \in Ids, Insert(r, new) PROVE TypeOK'
  <2>1. request[r].at = "insert" /\ request[r].address \in Addresses \cup {Nothing}
    BY <1>1, <1>9 DEF TypeOK, Insert, Request
  <2>2. invite' \in [Ids -> States]
    BY <1>1, <1>9 DEF TypeOK, Insert, Replaced, States
  <2>3. email' \in [Ids -> Addresses \cup {Nothing}] /\ out' \subseteq Accounts
    BY <1>1, <1>9, <2>1 DEF TypeOK, Insert
  <2>4. request' \in [Reqs -> Request]
    BY <1>4, <1>9 DEF Insert
  <2>5. crowded' \in BOOLEAN
    BY <1>1, <1>9 DEF TypeOK, Insert
  <2>6. QED
    BY <1>1, <1>9, <2>2, <2>3, <2>4, <2>5 DEF TypeOK, Insert
<1>10. ASSUME NEW r \in Reqs, NEW i \in Ids, NEW s \in Spellings, Accept(r, i, s)
       PROVE  TypeOK'
  <2>1. email[i] \in Addresses /\ Begin(r, "check", email[i], s, i)
    BY <1>1, <1>10 DEF Accept, Addressed
  <2>2. request' \in [Reqs -> Request] /\ overlapped' \subseteq Addresses
    BY <1>5, <2>1
  <2>3. QED
    BY <1>1, <1>10, <2>2 DEF TypeOK, Accept
<1>11. ASSUME NEW r \in Reqs, Check(r) PROVE TypeOK'
  <2>1. [request[r] EXCEPT !.at = "write"] \in Request
    BY <1>1 DEF TypeOK, Request
  <2>2. request' \in [Reqs -> Request]
    BY <1>1, <1>4, <1>11, <2>1 DEF TypeOK, Check
  <2>3. QED
    BY <1>1, <1>11, <2>2 DEF TypeOK, Check, history
<1>12. ASSUME NEW r \in Reqs, Write(r) PROVE TypeOK'
  <2>1. Account(r) \in Accounts /\ request' \in [Reqs -> Request]
    BY <1>1, <1>4, <1>12 DEF Write, Addressed, Account, Accounts
  <2>2. Spent(request[r].id) \in [Ids -> States]
    BY <1>1 DEF TypeOK, Spent, States
  <2>3. QED
    BY <1>1, <1>12, <2>1, <2>2 DEF TypeOK, Write
<1>13. ASSUME NEW r \in Reqs, Abort(r) PROVE TypeOK'
  BY <1>1, <1>4, <1>13 DEF TypeOK, Abort, history
<1>14. ASSUME NEW i \in Ids, Revoke(i) \/ Expire(i) PROVE TypeOK'
  BY <1>1, <1>14 DEF TypeOK, Revoke, Expire, history, States
<1>15. ASSUME NEW a \in Addresses, NEW s \in Spellings, Remove(a, s) PROVE TypeOK'
  <2>1. removals' \in 0 .. MaxRemovals /\ <<a, s>> \in Accounts
    BY <1>1, <1>15 DEF TypeOK, Remove, InvitesAssumption, Accounts
  <2>2. QED
    BY <1>1, <1>15, <2>1 DEF TypeOK, Remove
<1>16. CASE UNCHANGED vars
  BY <1>1, <1>16 DEF TypeOK, vars, history
<1>17. QED
  BY <1>1, <1>6, <1>7, <1>8, <1>9, <1>10, <1>11, <1>12, <1>13, <1>14, <1>15, <1>16 DEF Next

----------------------------------------------------------------------------
\* Every action but Insert.
Others ==
  \/ \E r \in Reqs : \/ \E a \in Addresses, found \in BOOLEAN : Create(r, a, found)
                     \/ \E i \in Ids, s \in Spellings : Accept(r, i, s)
                     \/ \E i \in Ids \cup {Nothing} : Find(r, i)
                     \/ Count(r) \/ Check(r) \/ Write(r) \/ Abort(r)
  \/ \E i \in Ids : Revoke(i) \/ Expire(i)
  \/ \E a \in Addresses, s \in Spellings : Remove(a, s)

LEMMA NextCases == Next => Others \/ \E r \in Reqs, new \in Ids : Insert(r, new)
  BY DEF Next, Others

\* What they do to the invites: these only cease to be pending.
LEMMA PendingShrinks ==
  ASSUME TypeOK, InvitesAssumption,
         Others
  PROVE  Pending' \subseteq Pending /\ email' = email
<1>1. CASE UNCHANGED <<invite, email>>
  BY <1>1 DEF Pending
<1>2. ASSUME NEW r \in Reqs, Write(r) PROVE Pending' \subseteq Pending /\ email' = email
  BY <1>2 DEF TypeOK, Write, Spent, Pending
<1>3. ASSUME NEW i \in Ids, Revoke(i) \/ Expire(i)
      PROVE  Pending' \subseteq Pending /\ email' = email
  BY <1>3 DEF TypeOK, Revoke, Expire, Pending
<1>4. QED
  BY <1>1, <1>2, <1>3 DEF Others, Create, Accept, Find, Count, Check, Abort, Remove

\* Insert makes one invite pending, and the one it replaces is pending no more.
LEMMA InsertAdds ==
  ASSUME TypeOK, NEW r \in Reqs, NEW new \in Ids, Insert(r, new)
  PROVE  /\ new \notin Pending
         /\ Pending' = (Pending \ {request[r].id}) \cup {new}
         /\ email'[new] = request[r].address
         /\ \A i \in Pending : email'[i] = email[i]
<1>1. invite[new] = "absent" /\ new \notin Pending
  BY DEF Insert, Pending
<1>2. \A i \in Ids : invite'[i] = IF i = new THEN "pending"
                                  ELSE IF i = request[r].id THEN "deleted" ELSE invite[i]
  BY DEF Insert, Replaced
<1>3. Pending' = (Pending \ {request[r].id}) \cup {new}
  BY <1>1, <1>2 DEF Pending
<1>4. email'[new] = request[r].address /\ \A i \in Pending : email'[i] = email[i]
  BY <1>1 DEF TypeOK, Insert, Pending
<1>5. QED
  BY <1>1, <1>3, <1>4

\* A request keeps its address and account until it ends; new ones are about an address.
LEMMA AddressedNext == InvitesAssumption /\ TypeOK /\ Addressed /\ [Next]_vars => Addressed'
<1>1. SUFFICES ASSUME InvitesAssumption, TypeOK, Addressed, [Next]_vars PROVE Addressed'
  OBVIOUS
<1> DEFINE Somebodys(q) ==
      /\ q.at # "idle" => q.address \in Addresses
      /\ q.at \in {"check", "write"} => q.typed \in Spellings
<1>2. CASE UNCHANGED vars
  BY <1>1, <1>2 DEF Addressed, vars, Pending
<1>3. ASSUME NEW r \in Reqs, End(r)
      PROVE  \A q \in Reqs : Somebodys(request'[q])
  BY <1>1, <1>3 DEF TypeOK, End, Idle, Addressed
<1>4. ASSUME NEW r \in Reqs, NEW new \in Ids, Insert(r, new) PROVE Addressed'
  <2>1. request[r].address \in Addresses /\ End(r)
    BY <1>1, <1>4 DEF Insert, Addressed
  <2>2. \A i \in Pending' : email'[i] \in Addresses
    BY <1>1, <1>4, <2>1, InsertAdds DEF Addressed
  <2>3. QED
    BY <1>3, <2>1, <2>2 DEF Addressed
<1>5. CASE Others
  <2>1. \A i \in Pending' : email'[i] \in Addresses
    BY <1>1, <1>5, PendingShrinks DEF Addressed
  <2>2. ASSUME NEW r \in Reqs, NEW a \in Addresses, NEW i, NEW s,
               NEW at, at = "count" \/ s \in Spellings, Begin(r, at, a, s, i)
        PROVE  \A q \in Reqs : Somebodys(request'[q])
    BY <1>1, <2>2 DEF TypeOK, Begin, Idle, Addressed
  <2>3. ASSUME NEW r \in Reqs, Count(r) \/ Check(r) \/ \E i \in Ids \cup {Nothing} : Find(r, i)
        PROVE  \A q \in Reqs : Somebodys(request'[q])
    BY <1>1, <1>3, <2>3 DEF TypeOK, Request, Count, Find, Check, Addressed
  <2>4. ASSUME NEW r \in Reqs, Write(r) \/ Abort(r)
        PROVE  \A q \in Reqs : Somebodys(request'[q])
    BY <1>3, <2>4 DEF Write, Abort
  <2>5. CASE \/ \E i \in Ids : Revoke(i) \/ Expire(i)
             \/ \E a \in Addresses, s \in Spellings : Remove(a, s)
    BY <1>1, <2>1, <2>5 DEF Revoke, Expire, Remove, Addressed
  <2>6. ASSUME NEW r \in Reqs, NEW a \in Addresses, NEW found \in BOOLEAN, Create(r, a, found)
        PROVE  \A q \in Reqs : Somebodys(request'[q])
    BY <2>2, <2>6 DEF Create
  <2>7. ASSUME NEW r \in Reqs, NEW i \in Ids, NEW s \in Spellings, Accept(r, i, s)
        PROVE  \A q \in Reqs : Somebodys(request'[q])
    BY <1>1, <2>2, <2>7 DEF Accept, Addressed
  <2>8. QED
    BY <1>5, <2>1, <2>3, <2>4, <2>5, <2>6, <2>7 DEF Addressed, Others
<1>6. QED
  BY <1>1, <1>2, <1>4, <1>5, NextCases

----------------------------------------------------------------------------
\* An address that a step does not concern: no request about it is new or further, none of
\* its invites is new, none of its accounts has joined or was removed.
LEMMA Undisturbed ==
  ASSUME NEW v \in Addresses, Single(v),
         \A i \in Pending' : email'[i] = v => i \in Pending /\ email[i] = v,
         In(v)' => In(v), Out(v)' => Out(v),
         \A r \in Reqs : request'[r].address = v => request'[r] = request[r]
  PROVE  Single(v)'
<1>1. OneRequest(v)' /\ OneInvite(v)' /\ Holding(v)'
  BY DEF Single, OneRequest, OneInvite, Holding
<1>2. MemberDone(v)' /\ OutDone(v)'
  BY DEF Single, MemberDone, OutDone
<1>3. QED
  BY <1>1, <1>2 DEF Single

\* A request about v that goes on, as far as the invites allow.
LEMMA Further ==
  ASSUME NEW v \in Addresses, NEW r \in Reqs, Single(v), request[r].address = v,
         UNCHANGED <<members, invite, email, out>>,
         \A q \in Reqs : request'[q].address = request[q].address,
         \A q \in Reqs \ {r} : request'[q] = request[q],
         request'[r].at \in {"insert", "check", "write"} =>
           \A i \in Pending : email[i] = v => i = request'[r].id,
         request'[r].at \in {"check", "write"} => ~Out(v)
  PROVE  Single(v)'
<1>1. Pending' = Pending
  BY DEF Pending
<1>2. OneRequest(v)' /\ OneInvite(v)'
  BY <1>1 DEF Single, OneRequest, OneInvite
<1>3. Holding(v)'
  <2>1. SUFFICES ASSUME NEW q \in Reqs, NEW i \in Pending, email[i] = v, request'[q].address = v,
                        request'[q].at \in {"insert", "check", "write"}
                 PROVE  i = request'[q].id
    BY <1>1 DEF Holding
  <2>2. q = r
    BY <2>1 DEF Single, OneRequest
  <2>3. QED
    BY <2>1, <2>2
<1>4. MemberDone(v)' /\ OutDone(v)'
  <2>1. ~In(v)' /\ (Out(v)' => Out(v))
    BY DEF Single, MemberDone, In, Out
  <2>2. ASSUME Out(v)', NEW q \in Reqs, request'[q].address = v
        PROVE  request'[q].at \notin {"check", "write"}
    <3>1. q = r
      BY <2>2 DEF Single, OneRequest
    <3>2. QED
      BY <2>1, <2>2, <3>1
  <2>3. Out(v)' => \A i \in Pending' : email'[i] # v
    BY <1>1, <2>1 DEF Single, OutDone
  <2>4. QED
    BY <2>1, <2>2, <2>3 DEF MemberDone, OutDone
<1>5. QED
  BY <1>2, <1>3, <1>4 DEF Single

\* CreateInvite goes on only for an address without a member, unless it overlooks one.
LEMMA NobodyIn ==
  ASSUME NEW a \in Addresses, NEW found \in BOOLEAN, Seen(a, found) = {}, Unseen(a, found) = {}
  PROVE  ~In(a)
<1>1. SUFFICES ASSUME NEW s \in Spellings, <<a, s>> \in members PROVE FALSE
  BY DEF In
<1>2. CASE found /\ <<a, s>> = <<a, Lower>>
  BY <1>1, <1>2 DEF Seen
<1>3. CASE ~found \/ <<a, s>> # <<a, Lower>>
  BY <1>1, <1>3 DEF Unseen, AccountsOf
<1>4. QED
  BY <1>2, <1>3

\* The steps about an address that is not disturbed, one action at a time.
LEMMA SingleBegins ==
  ASSUME InvitesAssumption, TypeOK, NEW v \in Addresses \ Disturbed', Single(v),
         NEW r \in Reqs, \/ \E a \in Addresses, found \in BOOLEAN : Create(r, a, found)
                        \/ \E i \in Ids, s \in Spellings : Accept(r, i, s)
  PROVE  Single(v)'
<1>1. Pending' = Pending /\ UNCHANGED <<members, email, out>>
  BY DEF Create, Accept, Pending
<1>2. PICK at, a, s, i : /\ Begin(r, at, a, s, i)
                         /\ \/ at = "count" /\ (a = v => ~In(v))
                            \/ at = "check" /\ i \in Pending /\ email[i] = a
  <2>1. ASSUME NEW a \in Addresses, NEW found \in BOOLEAN, Create(r, a, found), a = v
        PROVE  ~In(v)
    BY <2>1, NobodyIn DEF Create, Disturbed
  <2>2. QED
    BY <2>1 DEF Create, Accept
<1>3. /\ request'[r] = [Idle EXCEPT !.at = at, !.address = a, !.typed = s, !.id = i]
      /\ \A q \in Reqs \ {r} : request'[q] = request[q]
      /\ request'[r].at = at /\ request'[r].address = a /\ request'[r].id = i
  BY <1>2 DEF TypeOK, Begin, Idle
<1>4. (In(v)' <=> In(v)) /\ (Out(v)' <=> Out(v))
  BY <1>1 DEF In, Out
<1>5. CASE a # v
  BY <1>1, <1>3, <1>4, <1>5, Undisturbed
<1>6. CASE a = v
  <2>1. \A q \in Reqs : request[q].address # v
    BY <1>2, <1>6 DEF Begin, About, Disturbed
  <2>2. ~In(v)
    BY <1>2, <1>6 DEF Single, MemberDone
  <2>3. \/ at = "count"
        \/ at = "check" /\ i \in Pending /\ email[i] = v
    BY <1>2, <1>6
  <2>4. OneRequest(v)' /\ OneInvite(v)' /\ MemberDone(v)'
    BY <1>1, <1>3, <1>4, <2>1, <2>2 DEF Single, OneRequest, OneInvite, MemberDone
  <2>5. Holding(v)' /\ OutDone(v)'
    <3>1. \A q \in Reqs : request'[q].address = v => q = r
      BY <1>3, <2>1
    <3>2. Holding(v)'
      <4>1. ASSUME NEW j \in Pending, email[j] = v, at \in {"insert", "check", "write"}
            PROVE  j = i
        BY <2>3, <4>1 DEF Single, OneInvite
      <4>2. QED
        BY <1>1, <1>3, <3>1, <4>1 DEF Holding
    <3>3. OutDone(v)'
      <4>1. Out(v) => at = "count" /\ \A j \in Pending : email[j] # v
        BY <2>3 DEF Single, OutDone
      <4>2. QED
        BY <1>1, <1>3, <1>4, <3>1, <4>1 DEF OutDone
    <3>4. QED
      BY <3>2, <3>3
  <2>6. QED
    BY <2>4, <2>5 DEF Single
<1>7. QED
  BY <1>5, <1>6

LEMMA SingleEnds ==
  ASSUME InvitesAssumption, TypeOK, NEW v \in Addresses, Single(v),
         NEW r \in Reqs, End(r), UNCHANGED <<members, invite, email, out>>
  PROVE  Single(v)'
<1>1. /\ request'[r].address # v
      /\ \A q \in Reqs \ {r} : request'[q] = request[q]
  BY DEF TypeOK, End, Idle, InvitesAssumption
<1>2. Pending' = Pending /\ (In(v)' => In(v)) /\ (Out(v)' => Out(v))
  BY DEF Pending, In, Out
<1>3. QED
  BY <1>1, <1>2, Undisturbed

LEMMA SingleReads ==
  ASSUME InvitesAssumption, TypeOK, NEW v \in Addresses, Single(v),
         NEW r \in Reqs, Count(r) \/ Check(r) \/ \E i \in Ids \cup {Nothing} : Find(r, i)
  PROVE  Single(v)'
<1>1. /\ UNCHANGED <<members, invite, email, out>> /\ Pending' = Pending
      /\ (In(v)' => In(v)) /\ (Out(v)' => Out(v))
  BY DEF Count, Check, Find, history, Pending, In, Out
<1>2. CASE End(r)
  BY <1>1, <1>2, SingleEnds
<1>3. CASE ~End(r)
  <2>1. /\ \A q \in Reqs : request'[q].address = request[q].address
        /\ \A q \in Reqs \ {r} : request'[q] = request[q]
    BY <1>3 DEF TypeOK, Request, Count, Check, Find
  <2>2. CASE request[r].address # v
    BY <1>1, <2>1, <2>2, Undisturbed
  <2>3. CASE request[r].address = v
    <3>1. CASE Count(r)
      <4>1. request'[r].at = "find"
        BY <3>1 DEF TypeOK, Request, Count
      <4>2. QED
        BY <1>1, <2>1, <2>3, <4>1, Further
    <3>2. CASE Check(r)
      <4>1. request[r].at = "check" /\ request'[r].id = request[r].id
        BY <1>3, <3>2 DEF TypeOK, Request, Check
      <4>2. /\ ~Out(v)
            /\ \A i \in Pending : email[i] = v => i = request'[r].id
        BY <2>3, <4>1 DEF Single, Holding, OutDone
      <4>3. QED
        BY <1>1, <2>1, <2>3, <4>2, Further
    <3>3. ASSUME NEW i \in Ids \cup {Nothing}, Find(r, i) PROVE Single(v)'
      <4>1. request'[r].at = "insert" /\ request'[r].id = i /\ i \in Found(v)
        BY <1>3, <2>3, <3>3 DEF TypeOK, Request, Find
      <4>2. \A j \in Pending : email[j] = v => j = i
        BY <4>1 DEF Found, Single, OneInvite
      <4>3. QED
        BY <1>1, <2>1, <2>3, <4>1, <4>2, Further
    <3>4. QED
      BY <3>1, <3>2, <3>3
  <2>4. QED
    BY <2>2, <2>3
<1>4. QED
  BY <1>2, <1>3

LEMMA SingleJoins ==
  ASSUME InvitesAssumption, TypeOK, Addressed, NEW v \in Addresses, Single(v),
         NEW r \in Reqs, Write(r)
  PROVE  Single(v)'
<1>1. /\ request'[r].address # v
      /\ \A q \in Reqs \ {r} : request'[q] = request[q]
      /\ email' = email /\ out' = out /\ (Out(v)' => Out(v))
  BY DEF TypeOK, Write, End, Idle, InvitesAssumption, Out
<1>2. Pending' \subseteq Pending
  BY PendingShrinks DEF Others
<1>3. CASE request[r].address # v
  <2>1. In(v)' => In(v)
    BY <1>3 DEF Write, Account, In
  <2>2. QED
    BY <1>1, <1>2, <2>1, Undisturbed
<1>4. CASE request[r].address = v
  <2>1. ~In(v) /\ request[r].at = "write"
    BY <1>4 DEF Write, Single, MemberDone
  <2>2. \A q \in Reqs : request'[q].address # v
    BY <1>1, <1>4 DEF Single, OneRequest
  <2>3. invite' = Spent(request[r].id)
    BY <1>4, <2>1 DEF Write, Account, In, Addressed
  <2>4. \A i \in Pending' : email'[i] # v
    <3>1. SUFFICES ASSUME NEW i \in Pending', email'[i] = v PROVE FALSE
      OBVIOUS
    <3>2. i = request[r].id
      BY <1>1, <1>2, <1>4, <2>1, <2>3, <3>1 DEF Single, Holding
    <3>3. QED
      BY <2>3, <3>1, <3>2 DEF TypeOK, Spent, Pending
  <2>5. QED
    BY <1>1, <2>1, <2>2, <2>4
       DEF Single, OneRequest, OneInvite, Holding, MemberDone, OutDone
<1>5. QED
  BY <1>3, <1>4

LEMMA SingleInserts ==
  ASSUME InvitesAssumption, TypeOK, NEW v \in Addresses, Single(v),
         NEW r \in Reqs, NEW new \in Ids, Insert(r, new)
  PROVE  Single(v)'
<1>1. /\ request'[r].address # v
      /\ \A q \in Reqs \ {r} : request'[q] = request[q]
      /\ members' = members /\ out' = out \ AccountsOf(request[r].address)
      /\ (In(v)' => In(v)) /\ (Out(v)' => Out(v))
  BY DEF TypeOK, Insert, End, Idle, InvitesAssumption, In, Out
<1>2. /\ new \notin Pending /\ Pending' = (Pending \ {request[r].id}) \cup {new}
      /\ email'[new] = request[r].address /\ \A i \in Pending : email'[i] = email[i]
  BY InsertAdds
<1>3. CASE request[r].address # v
  BY <1>1, <1>2, <1>3, Undisturbed
<1>4. CASE request[r].address = v
  <2>1. ~In(v)' /\ ~Out(v)'
    BY <1>1, <1>4 DEF Single, MemberDone, Out, AccountsOf
  <2>2. \A q \in Reqs : request'[q].address # v
    BY <1>1, <1>4 DEF Single, OneRequest
  <2>3. \A i \in Pending' : email'[i] = v => i = new
    BY <1>2, <1>4 DEF Insert, Single, Holding
  <2>4. QED
    BY <2>1, <2>2, <2>3 DEF Single, OneRequest, OneInvite, Holding, MemberDone, OutDone
<1>5. QED
  BY <1>3, <1>4

LEMMA SingleRest ==
  ASSUME InvitesAssumption, TypeOK, NEW v \in Addresses \ Disturbed', Single(v),
         \/ \E i \in Ids : Revoke(i) \/ Expire(i)
         \/ \E a \in Addresses, s \in Spellings : Remove(a, s)
  PROVE  Single(v)'
<1>1. Pending' \subseteq Pending /\ email' = email
  BY PendingShrinks DEF Others
<1>2. request' = request /\ (In(v)' => In(v))
  BY DEF Revoke, Expire, Remove, In, history
<1>3. CASE \E i \in Ids : Revoke(i) \/ Expire(i)
  <2>1. Out(v)' => Out(v)
    BY <1>3 DEF Revoke, Expire, history, Out
  <2>2. QED
    BY <1>1, <1>2, <2>1, Undisturbed
<1>4. ASSUME NEW a \in Addresses, NEW s \in Spellings, Remove(a, s), a # v PROVE Single(v)'
  <2>1. Out(v)' => Out(v)
    BY <1>4 DEF Remove, Out
  <2>2. QED
    BY <1>1, <1>2, <2>1, Undisturbed
<1>5. ASSUME NEW s \in Spellings, Remove(v, s) PROVE Single(v)'
  <2>1. \A q \in Reqs : request'[q].address # v
    BY <1>2, <1>5 DEF Remove, About, Disturbed
  <2>2. \A i \in Pending' : email'[i] # v
    <3>1. In(v)
      BY <1>5 DEF Remove, In
    <3>2. QED
      BY <1>1, <3>1 DEF Single, MemberDone
  <2>3. QED
    BY <2>1, <2>2 DEF Single, OneRequest, OneInvite, Holding, MemberDone, OutDone
<1>6. QED
  BY <1>3, <1>4, <1>5

----------------------------------------------------------------------------
\* No account comes back that is out and whose address was not disturbed.
LEMMA OutNext ==
  InvitesAssumption /\ TypeOK /\ Addressed /\ OutInv /\ [Next]_vars => OutInv'
<1>1. SUFFICES ASSUME InvitesAssumption, TypeOK, Addressed, OutInv, [Next]_vars PROVE OutInv'
  OBVIOUS
<1>2. CASE UNCHANGED vars
  BY <1>1, <1>2 DEF vars, history, OutInv, RemovedStaysOut, Single, OneRequest, OneInvite,
                    Holding, MemberDone, In, OutDone, Out, Disturbed, Pending
<1>3. CASE Next
  <2>1. overlapped \subseteq overlapped' /\ overlooked \subseteq overlooked'
    BY <1>3 DEF Next, Create, Accept, Begin, Count, Find, Insert, Check, Write, Abort,
                Revoke, Expire, Remove, history
  <2>2. ASSUME NEW v \in Addresses \ Disturbed' PROVE Single(v)'
    <3>1. Single(v)
      BY <1>1, <2>1, <2>2 DEF OutInv, Disturbed
    <3>2. ASSUME NEW r \in Reqs, Abort(r) PROVE Single(v)'
      BY <1>1, <3>1, <3>2, SingleEnds DEF Abort, history
    <3>3. CASE \E r \in Reqs : Count(r) \/ Check(r) \/ \E i \in Ids \cup {Nothing} : Find(r, i)
      BY <1>1, <3>1, <3>3, SingleReads
    <3>4. CASE \E r \in Reqs : \/ \E a \in Addresses, found \in BOOLEAN : Create(r, a, found)
                             \/ \E i \in Ids, s \in Spellings : Accept(r, i, s)
      BY <1>1, <2>2, <3>1, <3>4, SingleBegins
    <3>5. CASE \E r \in Reqs : Write(r) \/ \E new \in Ids : Insert(r, new)
      BY <1>1, <3>1, <3>5, SingleJoins, SingleInserts
    <3>6. CASE \/ \E i \in Ids : Revoke(i) \/ Expire(i)
               \/ \E a \in Addresses, s \in Spellings : Remove(a, s)
      BY <1>1, <2>2, <3>1, <3>6, SingleRest
    <3>7. QED
      BY <1>3, <3>2, <3>3, <3>4, <3>5, <3>6 DEF Next
  <2>3. RemovedStaysOut'
    <3>1. CASE back' = back
      BY <1>1, <2>1, <3>1 DEF OutInv, RemovedStaysOut
    <3>2. ASSUME NEW r \in Reqs, Write(r) PROVE RemovedStaysOut'
      <4> DEFINE a == request[r].address
      <4>1. /\ request[r].at = "write" /\ a \in Addresses /\ request[r].typed \in Spellings
            /\ UNCHANGED <<overlapped, overlooked>>
            /\ back' = back \/ (back' = back \cup {Account(r)} /\ Account(r) \in out)
        BY <1>1, <3>2 DEF Write, Addressed
      <4>2. Account(r) = <<a, request[r].typed>> /\ Account(r)[1] = a
        BY DEF Account
      <4>3. Account(r) \in out => a \in Disturbed
        BY <1>1, <4>1, <4>2 DEF OutInv, Single, OutDone, Out
      <4>4. QED
        BY <1>1, <4>1, <4>2, <4>3 DEF OutInv, RemovedStaysOut, Disturbed
    <3>3. QED
      BY <1>3, <3>1, <3>2 DEF Next, Create, Accept, Count, Find, Insert, Check, Abort,
                              Revoke, Expire, Remove, history
  <2>4. QED
    BY <2>2, <2>3 DEF OutInv
<1>4. QED
  BY <1>1, <1>2, <1>3

\* At the start there is no invite and no request, and nobody was removed.
LEMMA OutInit == InvitesAssumption /\ Init => Addressed /\ OutInv
<1>1. SUFFICES ASSUME InvitesAssumption, Init PROVE Addressed /\ OutInv
  OBVIOUS
<1>2. Pending = {} /\ out = {} /\ back = {}
  BY <1>1 DEF Init, Pending
<1>3. \A r \in Reqs : request[r].at = "idle" /\ request[r].address = Nothing
  BY <1>1 DEF Init, Idle
<1>4. \A a \in Addresses : Single(a)
  BY <1>1, <1>2, <1>3 DEF InvitesAssumption, Single, OneRequest, OneInvite, Holding,
                          MemberDone, OutDone, Out
<1>5. QED
  BY <1>2, <1>3, <1>4 DEF Addressed, OutInv, RemovedStaysOut

\* Rows, requests and histories keep their types (invite.go), for every value of the
\* constants.
THEOREM TypeCorrect == ASSUME InvitesAssumption PROVE Spec => []TypeOK
<1>1. Init => TypeOK /\ Addressed
  BY TypeInit, OutInit
<1>2. TypeOK /\ Addressed /\ [Next]_vars => (TypeOK /\ Addressed)'
  BY TypeNext, AddressedNext
<1>3. QED
  BY <1>1, <1>2, PTL DEF Spec

\* An account that was removed comes back only by an invite that was made afterwards, unless
\* requests about its address overlapped or CreateInvite overlooked that one of its accounts
\* was a member: AcceptInvite spends the invite, CreateInvite replaces the pending one and
\* invites nobody whom it sees to be a member.
THEOREM RemovalLasts == ASSUME InvitesAssumption PROVE Spec => []RemovedStaysOut
<1> DEFINE IInv == TypeOK /\ Addressed /\ OutInv
<1>1. Init => IInv
  BY TypeInit, OutInit
<1>2. IInv /\ [Next]_vars => IInv'
  BY TypeNext, AddressedNext, OutNext
<1>3. IInv => RemovedStaysOut
  BY DEF OutInv
<1>4. QED
  BY <1>1, <1>2, <1>3, PTL DEF Spec

----------------------------------------------------------------------------
\* What keeps the limit as long as creations do not overlap: the count of a creation is not
\* below the pending invites, and what it is about to insert finds room beside the invite it
\* replaces, the only one for that address.
Counted(r) == request[r].at = "find" => Cardinality(Pending) <= request[r].counted
Room(r) ==
  request[r].at = "insert" =>
    /\ Cardinality(Pending \ {request[r].id}) < MaxPending
    /\ \A i \in Pending : email[i] = request[r].address => i = request[r].id
LimitInv == PendingWithinLimit /\ (~crowded => \A r \in Reqs : Counted(r) /\ Room(r))

LEMMA Shrink ==
  ASSUME InvitesAssumption, NEW x, Pending' \subseteq Pending
  PROVE  /\ Cardinality(Pending') <= Cardinality(Pending)
         /\ Cardinality(Pending' \ {x}) <= Cardinality(Pending \ {x})
         /\ Cardinality(Pending) \in Nat /\ Cardinality(Pending') \in Nat
         /\ Cardinality(Pending \ {x}) \in Nat /\ Cardinality(Pending' \ {x}) \in Nat
<1>1. IsFiniteSet(Pending) /\ IsFiniteSet(Pending \ {x})
  BY PendingFinite, FS_Subset
<1>2. Pending' \ {x} \subseteq Pending \ {x}
  OBVIOUS
<1>3. /\ IsFiniteSet(Pending') /\ Cardinality(Pending') <= Cardinality(Pending)
      /\ IsFiniteSet(Pending' \ {x})
      /\ Cardinality(Pending' \ {x}) <= Cardinality(Pending \ {x})
  BY <1>1, <1>2, FS_Subset
<1>4. QED
  BY <1>1, <1>3, FS_CardinalityType

LEMMA PendingStays ==
  ASSUME InvitesAssumption, TypeOK, LimitInv, ~crowded, Pending' \subseteq Pending,
         email' = email
  PROVE  PendingWithinLimit'
<1>1. Cardinality(Pending') <= Cardinality(Pending)
      /\ Cardinality(Pending) \in Nat /\ Cardinality(Pending') \in Nat
  BY Shrink
<1>2. Cardinality(Pending) <= MaxPending /\ MaxPending \in Nat
  BY DEF LimitInv, PendingWithinLimit, InvitesAssumption
<1>3. QED
  BY <1>1, <1>2 DEF LimitInv, PendingWithinLimit

LEMMA CreationStays ==
  ASSUME InvitesAssumption, TypeOK, LimitInv, ~crowded, Pending' \subseteq Pending,
         email' = email, NEW q \in Reqs,
         request'[q].at \in {"find", "insert"} => request'[q] = request[q]
  PROVE  Counted(q)' /\ Room(q)'
<1>1. CASE request'[q].at = "find"
  <2>1. Cardinality(Pending) <= request[q].counted /\ request'[q] = request[q]
    BY <1>1 DEF LimitInv, Counted
  <2>2. request[q].counted \in Int
    BY PendingFinite DEF TypeOK, Request
  <2>3. Cardinality(Pending') <= Cardinality(Pending)
        /\ Cardinality(Pending) \in Nat /\ Cardinality(Pending') \in Nat
    BY Shrink
  <2>4. QED
    BY <1>1, <2>1, <2>2, <2>3 DEF Counted, Room
<1>2. CASE request'[q].at = "insert"
  <2> DEFINE x == request[q].id
  <2>1. /\ request'[q] = request[q] /\ Cardinality(Pending \ {x}) < MaxPending
        /\ \A i \in Pending : email[i] = request[q].address => i = x
    BY <1>2 DEF LimitInv, Room
  <2>2. Cardinality(Pending' \ {x}) <= Cardinality(Pending \ {x})
        /\ Cardinality(Pending \ {x}) \in Nat /\ Cardinality(Pending' \ {x}) \in Nat
    BY Shrink
  <2>3. Cardinality(Pending' \ {x}) < MaxPending
    BY <2>1, <2>2 DEF InvitesAssumption
  <2>4. Room(q)'
    BY <2>1, <2>3 DEF Room
  <2>5. QED
    BY <1>2, <2>4 DEF Counted
<1>3. QED
  BY <1>1, <1>2 DEF Counted, Room

LEMMA LimitCounts ==
  ASSUME InvitesAssumption, TypeOK, LimitInv, ~crowded, NEW r \in Reqs, Count(r)
  PROVE  \A q \in Reqs : Counted(q)' /\ Room(q)'
<1>1. Pending' = Pending /\ email' = email
  BY DEF Count, Pending
<1>2. /\ \A q \in Reqs \ {r} : request'[q] = request[q]
      /\ request'[r].at = "find" /\ request'[r].counted = Cardinality(Pending)
  BY DEF TypeOK, Request, Count
<1>3. Counted(r)' /\ Room(r)'
  <2>1. Cardinality(Pending) \in Nat
    BY PendingFinite, FS_CardinalityType
  <2>2. QED
    BY <1>1, <1>2, <2>1 DEF Counted, Room
<1>4. QED
  BY <1>1, <1>2, <1>3, CreationStays

LEMMA LimitFinds ==
  ASSUME InvitesAssumption, TypeOK, LimitInv, ~crowded, NEW r \in Reqs,
         NEW i \in Ids \cup {Nothing}, Find(r, i)
  PROVE  \A q \in Reqs : Counted(q)' /\ Room(q)'
<1>1. Pending' = Pending /\ email' = email
  BY DEF Find, Pending
<1>2. \A q \in Reqs \ {r} : request'[q] = request[q]
  BY DEF TypeOK, Find, End
<1>3. CASE End(r)
  <2>1. request'[r].at = "idle"
    BY <1>3 DEF TypeOK, End, Idle
  <2>2. QED
    BY <1>1, <1>2, <2>1, CreationStays
<1>4. CASE ~End(r)
  <2>1. /\ request[r].at = "find" /\ i \in Found(request[r].address)
        /\ ~(request[r].counted - (IF i = Nothing THEN 0 ELSE 1) >= MaxPending)
        /\ request' = [request EXCEPT ![r].at = "insert", ![r].id = i]
    BY <1>4 DEF Find
  <2>2. /\ request'[r].at = "insert" /\ request'[r].id = i
        /\ request'[r].address = request[r].address
    BY <2>1 DEF TypeOK, Request
  <2>3. /\ Cardinality(Pending) <= request[r].counted /\ request[r].counted \in Int
        /\ Cardinality(Pending) \in Nat /\ MaxPending \in Nat
    BY <2>1, PendingFinite, FS_CardinalityType
       DEF LimitInv, Counted, TypeOK, Request, InvitesAssumption
  <2>4. \/ i = Nothing /\ \A j \in Pending : email[j] # request[r].address
        \/ i \in Pending /\ email[i] = request[r].address
    BY <2>1 DEF Found
  <2>5. \A j \in Pending : email[j] = request[r].address => j = i
    BY <2>4 DEF LimitInv, PendingWithinLimit
  <2>6. Cardinality(Pending \ {i}) < MaxPending
    <3>1. CASE i = Nothing
      <4>1. Pending \ {i} = Pending
        BY <3>1 DEF Pending, InvitesAssumption
      <4>2. QED
        BY <2>1, <2>3, <3>1, <4>1
    <3>2. CASE i # Nothing
      <4>1. Cardinality(Pending \ {i}) = Cardinality(Pending) - 1
        BY <2>4, <3>2, PendingFinite, FS_RemoveElement
      <4>2. QED
        BY <2>1, <2>3, <3>2, <4>1
    <3>3. QED
      BY <3>1, <3>2
  <2>7. Counted(r)' /\ Room(r)'
    BY <1>1, <2>2, <2>5, <2>6 DEF Counted, Room
  <2>8. QED
    BY <1>1, <1>2, <2>7, CreationStays
<1>5. QED
  BY <1>3, <1>4

LEMMA LimitInserts ==
  ASSUME InvitesAssumption, TypeOK, LimitInv, ~crowded', NEW r \in Reqs, NEW new \in Ids,
         Insert(r, new)
  PROVE  LimitInv'
<1> DEFINE rest == Pending \ {request[r].id}
<1>1. /\ new \notin Pending /\ Pending' = rest \cup {new}
      /\ email'[new] = request[r].address /\ \A i \in Pending : email'[i] = email[i]
  BY InsertAdds
<1>2. ~crowded /\ \A q \in Reqs \ {r} : request[q].at \notin {"find", "insert"}
  BY DEF TypeOK, Insert
<1>3. /\ Cardinality(rest) < MaxPending /\ MaxPending \in Nat
      /\ \A i \in rest : email[i] # request[r].address
  BY <1>2 DEF Insert, LimitInv, Room, InvitesAssumption
<1>4. IsFiniteSet(rest) /\ new \notin rest
  BY <1>1, PendingFinite, FS_Subset
<1>5. Cardinality(rest \cup {new}) = Cardinality(rest) + 1 /\ Cardinality(rest) \in Nat
  BY <1>4, FS_AddElement, FS_CardinalityType
<1>6. Cardinality(Pending') <= MaxPending
  BY <1>1, <1>3, <1>5
<1>7. \A i, j \in Pending' : email'[i] = email'[j] => i = j
  BY <1>1, <1>2, <1>3 DEF LimitInv, PendingWithinLimit
<1>8. \A q \in Reqs : request'[q].at \notin {"find", "insert"}
  BY <1>2 DEF TypeOK, Insert, End, Idle
<1>9. QED
  BY <1>6, <1>7, <1>8 DEF LimitInv, PendingWithinLimit, Counted, Room

\* The limit holds step by step.
LEMMA LimitNext == InvitesAssumption /\ TypeOK /\ LimitInv /\ [Next]_vars => LimitInv'
<1>1. SUFFICES ASSUME InvitesAssumption, TypeOK, LimitInv, [Next]_vars PROVE LimitInv'
  OBVIOUS
<1>2. CASE UNCHANGED vars
  BY <1>1, <1>2 DEF vars, history, LimitInv, PendingWithinLimit, Counted, Room, Pending
<1>3. ASSUME NEW r \in Reqs, NEW new \in Ids, Insert(r, new) PROVE LimitInv'
  BY <1>1, <1>3, LimitInserts DEF LimitInv, PendingWithinLimit
<1>4. CASE Others
  <2>1. crowded' = crowded
    BY <1>4 DEF Others, Create, Accept, Count, Find, Check, Write, Abort, Revoke, Expire,
                Remove, history
  <2>2. CASE crowded
    BY <2>1, <2>2 DEF LimitInv, PendingWithinLimit
  <2>3. CASE ~crowded
    <3>1. Pending' \subseteq Pending /\ email' = email
      BY <1>1, <1>4, PendingShrinks
    <3>2. PendingWithinLimit'
      BY <1>1, <2>3, <3>1, PendingStays
    <3>3. ASSUME NEW q \in Reqs PROVE Counted(q)' /\ Room(q)'
      <4>1. CASE \E r \in Reqs : Count(r)
        BY <1>1, <2>3, <4>1, LimitCounts
      <4>2. CASE \E r \in Reqs, i \in Ids \cup {Nothing} : Find(r, i)
        BY <1>1, <2>3, <4>2, LimitFinds
      <4>3. CASE \E r \in Reqs, at \in {"count", "check"} : \E a, s, i : Begin(r, at, a, s, i)
        <5>1. request'[q].at \in {"find", "insert"} => request'[q] = request[q]
          BY <1>1, <4>3 DEF TypeOK, Begin, Idle
        <5>2. QED
          BY <1>1, <2>3, <3>1, <5>1, CreationStays
      <4>4. CASE \E r \in Reqs : Check(r) \/ Write(r) \/ Abort(r)
        <5>1. request'[q].at \in {"find", "insert"} => request'[q] = request[q]
          BY <1>1, <4>4 DEF TypeOK, Request, Check, Write, Abort, End, Idle
        <5>2. QED
          BY <1>1, <2>3, <3>1, <5>1, CreationStays
      <4>5. CASE request' = request
        BY <1>1, <2>3, <3>1, <4>5, CreationStays
      <4>6. QED
        BY <1>4, <4>1, <4>2, <4>3, <4>4, <4>5 DEF Others, Create, Accept, Revoke, Expire, Remove
    <3>4. QED
      BY <3>2, <3>3 DEF LimitInv
  <2>4. QED
    BY <2>2, <2>3
<1>5. QED
  BY <1>1, <1>2, <1>3, <1>4, NextCases

LEMMA LimitInit == InvitesAssumption /\ Init => LimitInv
<1>1. SUFFICES ASSUME InvitesAssumption, Init PROVE LimitInv
  OBVIOUS
<1>2. Pending = {} /\ Cardinality(Pending) = 0
  BY <1>1, FS_EmptySet DEF Init, Pending
<1>3. \A r \in Reqs : request[r].at = "idle"
  BY <1>1 DEF Init, Idle
<1>4. QED
  BY <1>1, <1>2, <1>3 DEF LimitInv, PendingWithinLimit, Counted, Room, InvitesAssumption

\* CreateInvite keeps the limit of pending invites and leaves one for each address, as long
\* as no creation began before another one had ended: its count is then still an upper
\* bound when it inserts.
THEOREM LimitKept == ASSUME InvitesAssumption PROVE Spec => []PendingWithinLimit
<1> DEFINE IInv == TypeOK /\ Addressed /\ LimitInv
<1>1. Init => IInv
  BY TypeInit, OutInit, LimitInit
<1>2. IInv /\ [Next]_vars => IInv'
  BY TypeNext, AddressedNext, LimitNext
<1>3. IInv => PendingWithinLimit
  BY DEF LimitInv
<1>4. QED
  BY <1>1, <1>2, <1>3, PTL DEF Spec
=============================================================================

------------------------- MODULE OrganizationProofs -------------------------
(***************************************************************************)
(* Organization is type correct, keeps OneOwner, keeps the keys in step    *)
(* with the status and deletes only what is due, for every number of       *)
(* users, requests and keys.  At the end, the promises of Invites for the  *)
(* instance in which MCOrganization puts it beside Organization, from the  *)
(* invariant of InvitesProofs.                                             *)
(***************************************************************************)
EXTENDS MCOrganization, TLAPS

(***************************************************************************)
(* The inductive invariant.  OneOwner alone is not inductive: a removal    *)
(* that is about to delete must still be about a member who is not the     *)
(* owner, and a transfer that is about to commit must still replace the    *)
(* one owner by a user with a row.  Both hold because a transfer that no   *)
(* other change of the members overlaps with is alone.                     *)
(***************************************************************************)

\* What a request is executing belongs to its operation.
CallFits ==
  \A r \in Reqs :
    /\ pc[r] \in {"owner"} \union Transferring => call[r].op = "transfer"
    /\ pc[r] \in {"leaveRead", "leaveDelete"} => call[r].op = "leave"
    /\ pc[r] \in {"removeRead", "removeDelete"} => call[r].op = "remove"
    /\ pc[r] \in {"roleRead", "roleWrite"} => call[r].op = "setRole"

SingleOwner == \E u \in Users : \A v \in Users : role[v] = "owner" <=> v = u

\* A transfer is alone, and replaces an owner by a user with a row.
TransferSound ==
  \A r \in Reqs :
    pc[r] \in Transferring =>
      /\ \A q \in Reqs \ {r} : pc[q] \notin Transferring \union ChangingOne
      /\ oldOwner[r] \in Users /\ role[oldOwner[r]] = "owner"
      /\ pc[r] # "target" => role[call[r].user] # "none"

\* Who is about to be removed or given another role is not the owner.
ChangeSound ==
  \A r \in Reqs : pc[r] \in ChangingOne => role[call[r].user] # "owner"

OwnerInv ==
  /\ CallFits
  /\ status # "gone" /\ ~raced => SingleOwner /\ TransferSound /\ ChangeSound
-----------------------------------------------------------------------------
(***************************************************************************)
(* Type correctness                                                        *)
(***************************************************************************)

\* TypeOK in three parts, with one fact more, which the first step of a request
\* rests on: a request that is busy has an operation.
RowsOK ==
  /\ now \in 0..MaxTime /\ status \in {"active", "pending", "gone"} /\ deleteAt \in Nat
  /\ key \in [Keys -> KeyStates] /\ role \in [Users -> Roles \union {"none"}]
ReqsOK ==
  /\ pc \in [Reqs -> PCs] /\ call \in [Reqs -> Calls \union {NoCall}]
  /\ oldOwner \in [Reqs -> Users \union {Nobody}]
  /\ \A r \in Reqs : pc[r] # "idle" => call[r] \in Calls
HistoryOK ==
  /\ due \in BOOLEAN /\ raced \in BOOLEAN /\ torn \in BOOLEAN /\ contested \in BOOLEAN
  /\ late \subseteq Keys
TypeInv == RowsOK /\ ReqsOK /\ HistoryOK

LEMMA InitType == Init => TypeInv
<1> SUFFICES ASSUME Init PROVE TypeInv  OBVIOUS
<1>1. RowsOK  BY TimeAssumption DEF Init, RowsOK, KeyStates, Roles
<1>2. ReqsOK  BY DEF Init, ReqsOK, PCs
<1>3. HistoryOK  BY DEF Init, HistoryOK
<1>. QED  BY <1>1, <1>2, <1>3 DEF TypeInv

\* A request that goes on, and one that ends, are well typed.
LEMMA GotoType ==
  ASSUME ReqsOK, NEW r \in Reqs, NEW p \in PCs, pc[r] # "idle", Goto(r, p)
  PROVE ReqsOK'
BY DEF ReqsOK, Goto

LEMMA FinishType ==
  ASSUME ReqsOK, NEW r \in Reqs, Finish(r)
  PROVE ReqsOK'
BY DEF ReqsOK, Finish, PCs

LEMMA BooleanOr == \A a, b : a \in BOOLEAN => (a \/ b) \in BOOLEAN
OBVIOUS

\* Steps that leave the rows, or the histories, alone.
LEMMA RowsKept == ASSUME RowsOK, UNCHANGED <<now, orgVars, key, role>> PROVE RowsOK'
BY DEF RowsOK, orgVars

LEMMA HistoryKept == ASSUME HistoryOK, UNCHANGED <<due, history>> PROVE HistoryOK'
BY DEF HistoryOK, history

LEMMA AdmissionType ==
  ASSUME TypeInv, NEW r \in Reqs,
         Admit(r) \/ \E u \in Users, c \in Calls : Arrive(r, u, c)
  PROVE  TypeInv'
<1> SUFFICES RowsOK' /\ ReqsOK' /\ HistoryOK'  BY DEF TypeInv
<1>. USE DEF TypeInv
<1>1. CASE Admit(r)
  <2>1. RowsOK' /\ HistoryOK'  BY <1>1, RowsKept, HistoryKept DEF Admit
  <2>2. FirstStep[call[r].op] \in PCs
    <3>1. call[r].op \in AllOps  BY <1>1 DEF Admit, ReqsOK, Calls, AllOps
    <3>. QED
      BY <3>1 DEF FirstStep, PCs, AllOps, HalfWay, Transferring, ChangingOne
  <2>3. Finish(r) \/ Goto(r, FirstStep[call[r].op])  BY <1>1 DEF Admit
  <2>. QED  BY <1>1, <2>1, <2>2, <2>3, FinishType, GotoType DEF Admit
<1>2. CASE \E u \in Users, c \in Calls : Arrive(r, u, c)
  <2>1. RowsOK' /\ HistoryOK'  BY <1>2, RowsKept, HistoryKept DEF Arrive
  <2>2. ReqsOK'  BY <1>2 DEF Arrive, ReqsOK, PCs
  <2>. QED  BY <2>1, <2>2
<1>. QED  BY <1>1, <1>2

\* Deletion, restoration and the keys write rows that keep their types.
LEMMA KeyType ==
  ASSUME TypeInv, NEW r \in Reqs,
         \/ Schedule(r) \/ ParkKeys(r) \/ RestoreOrg(r) \/ UnparkKeys(r)
         \/ CreateKey(r) \/ DeactivateKey(r)
  PROVE  TypeInv'
<1> SUFFICES RowsOK' /\ ReqsOK' /\ HistoryOK'  BY DEF TypeInv
<1>. USE DEF TypeInv
<1>1. "parkKeys" \in PCs /\ "unparkKeys" \in PCs  BY DEF PCs, HalfWay
<1>2. CASE Schedule(r)
  <2>1. ReqsOK'  BY <1>1, <1>2, GotoType DEF Schedule
  <2>2. now + GracePeriod \in Nat  BY TimeAssumption DEF RowsOK
  <2>3. RowsOK'  BY <1>2, <2>2 DEF Schedule, RowsOK, orgVars
  <2>4. HistoryOK'
    <3>1. torn' \in BOOLEAN  BY <1>2 DEF Schedule, MeetsHalfWay
    <3>. QED  BY <1>2, <3>1 DEF Schedule, HistoryOK
  <2>. QED  BY <2>1, <2>3, <2>4
<1>3. CASE RestoreOrg(r)
  <2>1. ReqsOK'  BY <1>1, <1>3, GotoType DEF RestoreOrg
  <2>2. RowsOK'  BY <1>3 DEF RestoreOrg, RowsOK, orgVars
  <2>3. HistoryOK'
    <3>1. torn' \in BOOLEAN /\ contested' \in BOOLEAN
      BY <1>3 DEF RestoreOrg, MeetsHalfWay
    <3>. QED  BY <1>3, <3>1 DEF RestoreOrg, HistoryOK
  <2>. QED  BY <2>1, <2>2, <2>3
<1>4. CASE ParkKeys(r)
  <2>1. ReqsOK'  BY <1>4, FinishType DEF ParkKeys
  <2>2. key' \in [Keys -> KeyStates]  BY <1>4 DEF ParkKeys, RowsOK, KeyStates
  <2>3. RowsOK' /\ HistoryOK'  BY <1>4, <2>2 DEF ParkKeys, RowsOK, HistoryOK, orgVars
  <2>. QED  BY <2>1, <2>3
<1>5. CASE UnparkKeys(r)
  <2>1. ReqsOK'  BY <1>5, FinishType DEF UnparkKeys
  <2>2. key' \in [Keys -> KeyStates]  BY <1>5 DEF UnparkKeys, RowsOK, KeyStates
  <2>3. RowsOK' /\ HistoryOK'
    BY <1>5, <2>2, HistoryKept DEF UnparkKeys, RowsOK, orgVars
  <2>. QED  BY <2>1, <2>3
<1>6. CASE CreateKey(r)
  <2>1. ReqsOK'  BY <1>6, FinishType DEF CreateKey
  <2>2. key' \in [Keys -> KeyStates] /\ late' \subseteq Keys
    BY <1>6 DEF CreateKey, RowsOK, HistoryOK, KeyStates
  <2>3. RowsOK' /\ HistoryOK'  BY <1>6, <2>2 DEF CreateKey, RowsOK, HistoryOK, orgVars
  <2>. QED  BY <2>1, <2>3
<1>7. CASE DeactivateKey(r)
  <2>1. ReqsOK'  BY <1>7, FinishType DEF DeactivateKey
  <2>2. key' \in [Keys -> KeyStates]  BY <1>7 DEF DeactivateKey, RowsOK, KeyStates
  <2>3. RowsOK' /\ HistoryOK'
    BY <1>7, <2>2, HistoryKept DEF DeactivateKey, RowsOK, orgVars
  <2>. QED  BY <2>1, <2>3
<1>. QED  BY <1>2, <1>3, <1>4, <1>5, <1>6, <1>7

LEMMA MemberType ==
  ASSUME TypeInv, NEW r \in Reqs,
         \/ ReadOwner(r) \/ ReadTarget(r) \/ Demote(r) \/ Promote(r) \/ CommitTransfer(r)
         \/ LeaveRead(r) \/ RemoveRead(r) \/ RoleRead(r) \/ DeleteMember(r) \/ RoleWrite(r)
  PROVE  TypeInv'
<1> SUFFICES RowsOK' /\ ReqsOK' /\ HistoryOK'  BY DEF TypeInv
<1>. USE DEF TypeInv
<1>1. \A p \in {"target", "demote", "promote", "commit", "leaveDelete", "removeDelete",
                "roleWrite"} : p \in PCs
  BY DEF PCs, Transferring, ChangingOne
<1>2. CASE ReadOwner(r)
  <2>1. ReqsOK'
    <3>1. CASE Finish(r)  BY <3>1, FinishType
    <3>2. CASE \E u \in Users : /\ oldOwner' = [oldOwner EXCEPT ![r] = u]
                                /\ pc' = [pc EXCEPT ![r] = "target"] /\ UNCHANGED call
      BY <1>1, <1>2, <3>2 DEF ReadOwner, ReqsOK
    <3>. QED  BY <1>2, <3>1, <3>2 DEF ReadOwner
  <2>2. raced' \in BOOLEAN  BY <1>2 DEF ReadOwner, HistoryOK, Overlap
  <2>3. RowsOK' /\ HistoryOK'
    BY <1>2, <2>2, RowsKept DEF ReadOwner, HistoryOK
  <2>. QED  BY <2>1, <2>3
<1>3. CASE ReadTarget(r) \/ Demote(r) \/ Promote(r)
  <2>1. RowsOK' /\ HistoryOK'
    BY <1>3, RowsKept, HistoryKept DEF ReadTarget, Demote, Promote
  <2>2. ReqsOK'
    BY <1>1, <1>3, GotoType, FinishType DEF ReadTarget, Demote, Promote
  <2>. QED  BY <2>1, <2>2
<1>4. CASE CommitTransfer(r)
  <2>1. role' \in [Users -> Roles \union {"none"}]
    BY <1>4 DEF CommitTransfer, RowsOK, Roles
  <2>2. RowsOK' /\ HistoryOK'
    BY <1>4, <2>1, HistoryKept DEF CommitTransfer, RowsOK, orgVars
  <2>. QED  BY <1>4, <2>2, FinishType DEF CommitTransfer
<1>5. ASSUME NEW from \in PCs \ {"idle"}, NEW next \in PCs, ReadMember(r, from, next)
      PROVE  RowsOK' /\ ReqsOK' /\ HistoryOK'
  <2>1. ReqsOK'  BY <1>5, GotoType, FinishType DEF ReadMember
  <2>2. raced' \in BOOLEAN  BY <1>5 DEF ReadMember, HistoryOK, Overlap
  <2>3. RowsOK' /\ HistoryOK'
    BY <1>5, <2>2, RowsKept DEF ReadMember, HistoryOK
  <2>. QED  BY <2>1, <2>3
<1>6. CASE LeaveRead(r) \/ RemoveRead(r) \/ RoleRead(r)
  <2>1. {"leaveRead", "removeRead", "roleRead"} \subseteq PCs \ {"idle"}  BY DEF PCs
  <2>. QED  BY <1>1, <1>5, <1>6, <2>1 DEF LeaveRead, RemoveRead, RoleRead
<1>7. CASE DeleteMember(r)
  <2>1. role' \in [Users -> Roles \union {"none"}]
    BY <1>7 DEF DeleteMember, RowsOK, Roles
  <2>2. RowsOK' /\ HistoryOK'
    BY <1>7, <2>1, HistoryKept DEF DeleteMember, RowsOK, orgVars
  <2>. QED  BY <1>7, <2>2, FinishType DEF DeleteMember
<1>8. CASE RoleWrite(r) /\ pc[r] # "idle"
  <2>1. call[r].to \in Roles \union {"none"}
    BY <1>8 DEF ReqsOK, Calls, Roles
  <2>2. role' \in [Users -> Roles \union {"none"}]
    BY <1>8, <2>1 DEF RoleWrite, RowsOK, Roles
  <2>3. RowsOK' /\ HistoryOK'
    BY <1>8, <2>2, HistoryKept DEF RoleWrite, RowsOK, orgVars
  <2>. QED  BY <1>8, <2>3, FinishType DEF RoleWrite
<1>. QED  BY <1>2, <1>3, <1>4, <1>6, <1>7, <1>8 DEF RoleWrite

LEMMA StepType == TypeInv /\ [Next]_vars => TypeInv'
<1> SUFFICES ASSUME TypeInv, [Next]_vars PROVE TypeInv'  OBVIOUS
<1>1. ASSUME NEW r \in Reqs, Request(r) PROVE TypeInv'
  <2>1. CASE Fail(r)
    <3>1. torn' \in BOOLEAN  BY <2>1 DEF Fail, TypeInv, HistoryOK, HalfWay
    <3>2. RowsOK' /\ HistoryOK'
      BY <2>1, <3>1, RowsKept DEF Fail, HistoryOK, TypeInv
    <3>. QED  BY <2>1, <3>2, FinishType DEF Fail, TypeInv
  <2>. QED  BY <1>1, <2>1, AdmissionType, KeyType, MemberType DEF Request
<1>2. CASE CronList \/ CronFail
  BY <1>2 DEF CronList, CronFail, TypeInv, RowsOK, ReqsOK, HistoryOK, orgVars, reqVars, history
<1>3. CASE CronDelete
  BY <1>3 DEF CronDelete, TypeInv, RowsOK, ReqsOK, HistoryOK, reqVars, history, KeyStates, Roles
<1>4. CASE Tick
  BY <1>4, TimeAssumption
  DEF Tick, TypeInv, RowsOK, ReqsOK, HistoryOK, orgVars, reqVars, history
<1>5. CASE UNCHANGED vars
  BY <1>5 DEF vars, TypeInv, RowsOK, ReqsOK, HistoryOK, orgVars, reqVars, history
<1>. QED  BY <1>1, <1>2, <1>3, <1>4, <1>5 DEF Next

\* The rows, the requests and the histories keep their types in every run.
THEOREM TypeCorrect == Spec => []TypeOK
<1>1. TypeInv => TypeOK  BY DEF TypeInv, TypeOK, RowsOK, ReqsOK, HistoryOK
<1>. QED  BY <1>1, InitType, StepType, PTL DEF Spec
-----------------------------------------------------------------------------
(***************************************************************************)
(* One owner                                                               *)
(***************************************************************************)

\* The invariant, while the organization exists and no transfer was overlapped.
Sound == SingleOwner /\ TransferSound /\ ChangeSound

\* A request that goes on, or ends, changes nothing of the others.
Others(r) ==
  \A q \in Reqs \ {r} : pc'[q] = pc[q] /\ call'[q] = call[q] /\ oldOwner'[q] = oldOwner[q]

LEMMA GotoOthers ==
  ASSUME ReqsOK, NEW r \in Reqs, NEW p, Goto(r, p)
  PROVE  Others(r) /\ pc'[r] = p /\ call'[r] = call[r] /\ oldOwner'[r] = oldOwner[r]
BY DEF ReqsOK, Goto, Others

LEMMA FinishOthers ==
  ASSUME ReqsOK, NEW r \in Reqs, Finish(r)
  PROVE  Others(r) /\ pc'[r] = "idle"
BY DEF ReqsOK, Finish, Others

\* A step of r that is none of a transfer or a change, and writes no membership.
LEMMA QuietStep ==
  ASSUME Sound, NEW r \in Reqs, Others(r), pc'[r] \notin Transferring \union ChangingOne,
         UNCHANGED role
  PROVE  Sound'
BY DEF Sound, SingleOwner, TransferSound, ChangeSound, Others

\* A request only steps to statements of its operation.
LEMMA FitsStep ==
  ASSUME CallFits, NEW r \in Reqs, Others(r),
         \/ pc'[r] = "idle"
         \/ pc'[r] \in {"parkKeys", "unparkKeys", "admit"}
         \/ /\ pc[r] \in {"owner"} \union Transferring /\ pc'[r] \in Transferring
            /\ call'[r] = call[r]
         \/ pc[r] = "leaveRead" /\ pc'[r] = "leaveDelete" /\ call'[r] = call[r]
         \/ pc[r] = "removeRead" /\ pc'[r] = "removeDelete" /\ call'[r] = call[r]
         \/ pc[r] = "roleRead" /\ pc'[r] = "roleWrite" /\ call'[r] = call[r]
  PROVE  CallFits'
BY DEF CallFits, Others, Transferring

LEMMA InitOwner == Init => OwnerInv
<1> SUFFICES ASSUME Init PROVE OwnerInv  OBVIOUS
<1>1. CallFits  BY DEF Init, CallFits, Transferring
<1>2. SingleOwner  BY PeopleAssumption DEF Init, SingleOwner
<1>3. TransferSound /\ ChangeSound
  BY DEF Init, TransferSound, ChangeSound, Transferring, ChangingOne
<1>. QED  BY <1>1, <1>2, <1>3 DEF OwnerInv

\* Requests that are admitted, and those that write no membership.
LEMMA QuietOwner ==
  ASSUME TypeInv, OwnerInv, NEW r \in Reqs,
         \/ \E u \in Users, c \in Calls : Arrive(r, u, c)
         \/ Admit(r) \/ Schedule(r) \/ ParkKeys(r) \/ RestoreOrg(r) \/ UnparkKeys(r)
         \/ CreateKey(r) \/ DeactivateKey(r) \/ Fail(r)
  PROVE  OwnerInv'
<1>1. ReqsOK /\ CallFits  BY DEF TypeInv, OwnerInv
<1>2. ASSUME Others(r), pc'[r] \notin Transferring \union ChangingOne, CallFits',
             UNCHANGED <<role, raced>>, status' # "gone" => status # "gone"
      PROVE  OwnerInv'
  BY <1>2, QuietStep DEF OwnerInv, Sound
<1>3. \A p \in {"idle", "admit", "parkKeys", "unparkKeys"} :
        p \notin Transferring \union ChangingOne
  BY DEF Transferring, ChangingOne
<1>4. CASE \E u \in Users, c \in Calls : Arrive(r, u, c)
  <2>1. Others(r) /\ pc'[r] = "admit" /\ UNCHANGED <<role, raced, status>>
    BY <1>1, <1>4 DEF Arrive, Others, ReqsOK, orgVars, history
  <2>. QED  BY <1>1, <1>2, <1>3, <2>1, FitsStep
<1>5. CASE Admit(r)
  <2>1. UNCHANGED <<role, raced, status>>  BY <1>5 DEF Admit, orgVars, history
  <2>2. CASE Finish(r)  BY <1>1, <1>2, <1>3, <2>1, <2>2, FinishOthers, FitsStep
  <2>3. CASE Goto(r, FirstStep[call[r].op])
    <3>1. /\ Others(r) /\ pc'[r] = FirstStep[call[r].op] /\ call'[r] = call[r]
          /\ call[r].op \in AllOps
      BY <1>1, <1>5, <2>3, GotoOthers DEF Admit, ReqsOK, Calls, AllOps
    <3>2. /\ pc'[r] \notin Transferring \union ChangingOne
          /\ pc'[r] = "owner" => call[r].op = "transfer"
          /\ pc'[r] = "leaveRead" => call[r].op = "leave"
          /\ pc'[r] = "removeRead" => call[r].op = "remove"
          /\ pc'[r] = "roleRead" => call[r].op = "setRole"
      BY <3>1 DEF FirstStep, AllOps, Transferring, ChangingOne
    <3>3. CallFits'  BY <1>1, <3>1, <3>2 DEF CallFits, Others, ChangingOne
    <3>. QED  BY <1>2, <2>1, <3>1, <3>2, <3>3
  <2>. QED  BY <1>5, <2>2, <2>3 DEF Admit
<1>6. CASE Schedule(r) \/ RestoreOrg(r)
  <2>1. Others(r) /\ pc'[r] \in {"parkKeys", "unparkKeys"}
    BY <1>1, <1>6, GotoOthers DEF Schedule, RestoreOrg
  <2>2. UNCHANGED <<role, raced>> /\ (status' # "gone" => status # "gone")
    BY <1>6 DEF Schedule, RestoreOrg, orgVars
  <2>. QED  BY <1>1, <1>2, <1>3, <2>1, <2>2, FitsStep
<1>7. CASE ParkKeys(r) \/ UnparkKeys(r) \/ CreateKey(r) \/ DeactivateKey(r) \/ Fail(r)
  <2>1. Others(r) /\ pc'[r] = "idle"
    BY <1>1, <1>7, FinishOthers DEF ParkKeys, UnparkKeys, CreateKey, DeactivateKey, Fail
  <2>2. UNCHANGED <<role, raced, status>>
    BY <1>7 DEF ParkKeys, UnparkKeys, CreateKey, DeactivateKey, Fail, orgVars, history
  <2>. QED  BY <1>1, <1>2, <1>3, <2>1, <2>2, FitsStep
<1>. QED  BY <1>4, <1>5, <1>6, <1>7

\* The first reads.  A read that overlaps with a transfer is raced; otherwise the
\* transfer is alone, and who is about to be changed is not the owner.
LEMMA ReadOwnerSound ==
  ASSUME TypeInv, OwnerInv, NEW r \in Reqs, ReadOwner(r)
  PROVE  OwnerInv'
<1>1. ReqsOK /\ CallFits /\ role' = role /\ status' = status
  BY DEF TypeInv, OwnerInv, ReadOwner, orgVars
<1>2. CASE Finish(r) /\ UNCHANGED raced
  <2>1. Others(r) /\ pc'[r] = "idle"  BY <1>1, <1>2, FinishOthers
  <2>2. CallFits'  BY <1>1, <2>1, FitsStep
  <2>3. pc'[r] \notin Transferring \union ChangingOne
    BY <2>1 DEF Transferring, ChangingOne
  <2>. QED  BY <1>1, <1>2, <2>1, <2>2, <2>3, QuietStep DEF OwnerInv, Sound
<1>3. CASE \E u \in Users : /\ role[u] = "owner"
                            /\ oldOwner' = [oldOwner EXCEPT ![r] = u]
                            /\ pc' = [pc EXCEPT ![r] = "target"]
                            /\ UNCHANGED call
                            /\ Overlap(r)
  <2>1. /\ Others(r) /\ pc'[r] = "target" /\ call'[r] = call[r]
        /\ oldOwner'[r] \in Users /\ role[oldOwner'[r]] = "owner"
    BY <1>1, <1>3 DEF Others, ReqsOK
  <2>2. CallFits'  BY <1>1, <2>1, FitsStep DEF ReadOwner, Transferring
  <2>3. ASSUME status' # "gone", ~raced' PROVE Sound'
    <3>1. call[r].op = "transfer"  BY <1>1 DEF CallFits, ReadOwner
    <3>2. ~raced /\ \A q \in Reqs \ {r} : pc[q] \notin Transferring \union ChangingOne
      BY <1>3, <2>3, <3>1 DEF Overlap
    <3>3. Sound  BY <1>1, <2>3, <3>2 DEF OwnerInv, Sound
    <3>4. SingleOwner'  BY <1>1, <3>3 DEF Sound, SingleOwner
    <3>5. ChangeSound'
      BY <2>1, <3>2 DEF ChangeSound, Others, ChangingOne
    <3>6. TransferSound'  BY <1>1, <2>1, <3>2 DEF TransferSound, Others
    <3>. QED  BY <3>4, <3>5, <3>6 DEF Sound
  <2>. QED  BY <2>2, <2>3 DEF OwnerInv, Sound
<1>. QED  BY <1>2, <1>3 DEF ReadOwner

LEMMA ReadMemberSound ==
  ASSUME TypeInv, OwnerInv, NEW r \in Reqs, NEW from, NEW next \in ChangingOne,
         \/ from = "leaveRead" /\ next = "leaveDelete"
         \/ from = "removeRead" /\ next = "removeDelete"
         \/ from = "roleRead" /\ next = "roleWrite",
         ReadMember(r, from, next)
  PROVE  OwnerInv'
<1>1. ReqsOK /\ CallFits /\ role' = role /\ status' = status
  BY DEF TypeInv, OwnerInv, ReadMember, orgVars
<1>2. CASE Finish(r) /\ UNCHANGED raced
  <2>1. Others(r) /\ pc'[r] = "idle"  BY <1>1, <1>2, FinishOthers
  <2>2. CallFits'  BY <1>1, <2>1, FitsStep
  <2>3. pc'[r] \notin Transferring \union ChangingOne
    BY <2>1 DEF Transferring, ChangingOne
  <2>. QED  BY <1>1, <1>2, <2>1, <2>2, <2>3, QuietStep DEF OwnerInv, Sound
<1>3. CASE role[call[r].user] \in Roles \ {"owner"} /\ Goto(r, next) /\ Overlap(r)
  <2>1. Others(r) /\ pc'[r] = next /\ call'[r] = call[r]  BY <1>1, <1>3, GotoOthers
  <2>2. pc[r] = from  BY DEF ReadMember
  <2>3. CallFits'  BY <1>1, <2>1, <2>2, FitsStep
  <2>4. ASSUME status' # "gone", ~raced' PROVE Sound'
    <3>1. ~raced /\ \A q \in Reqs \ {r} : pc[q] \notin Transferring
      BY <1>3, <2>4 DEF Overlap
    <3>2. Sound  BY <1>1, <2>4, <3>1 DEF OwnerInv, Sound
    <3>3. SingleOwner'  BY <1>1, <3>2 DEF Sound, SingleOwner
    <3>4. ChangeSound'
      BY <1>1, <1>3, <2>1, <3>2 DEF Sound, ChangeSound, Others
    <3>5. pc'[r] \notin Transferring  BY <2>1 DEF Transferring, ChangingOne
    <3>6. TransferSound'  BY <2>1, <3>1, <3>5 DEF TransferSound, Others
    <3>. QED  BY <3>3, <3>4, <3>6 DEF Sound
  <2>. QED  BY <2>3, <2>4 DEF OwnerInv, Sound
<1>. QED  BY <1>2, <1>3 DEF ReadMember

\* The steps of a transfer up to its commit.
LEMMA TransferStepSound ==
  ASSUME TypeInv, OwnerInv, NEW r \in Reqs, ReadTarget(r) \/ Demote(r) \/ Promote(r)
  PROVE  OwnerInv'
<1>1. /\ ReqsOK /\ CallFits /\ role' = role /\ status' = status /\ raced' = raced
      /\ pc[r] \in Transferring
  BY DEF TypeInv, OwnerInv, ReadTarget, Demote, Promote, orgVars, history, Transferring
<1>2. CASE Finish(r)
  <2>1. Others(r) /\ pc'[r] = "idle"  BY <1>1, <1>2, FinishOthers
  <2>2. CallFits'  BY <1>1, <2>1, FitsStep
  <2>3. pc'[r] \notin Transferring \union ChangingOne
    BY <2>1 DEF Transferring, ChangingOne
  <2>. QED  BY <1>1, <2>1, <2>2, <2>3, QuietStep DEF OwnerInv, Sound
<1>3. CASE \E p \in Transferring \ {"target"} :
              /\ Goto(r, p)
              /\ pc[r] = "target" => role[call[r].user] # "none"
  <2>1. /\ Others(r) /\ pc'[r] \in Transferring /\ call'[r] = call[r]
        /\ oldOwner'[r] = oldOwner[r]
    BY <1>1, <1>3, GotoOthers
  <2>2. CallFits'  BY <1>1, <2>1, FitsStep
  <2>3. ASSUME Sound PROVE Sound'
    <3>1. SingleOwner'  BY <1>1, <2>3 DEF Sound, SingleOwner
    <3>2. TransferSound'  BY <1>1, <1>3, <2>1, <2>3 DEF Sound, TransferSound, Others
    <3>3. pc'[r] \notin ChangingOne  BY <2>1 DEF Transferring, ChangingOne
    <3>4. ChangeSound'  BY <1>1, <2>1, <2>3, <3>3 DEF Sound, ChangeSound, Others
    <3>. QED  BY <3>1, <3>2, <3>4 DEF Sound
  <2>. QED  BY <1>1, <2>2, <2>3 DEF OwnerInv, Sound
<1>4. Finish(r) \/ \E p \in Transferring \ {"target"} :
                      /\ Goto(r, p)
                      /\ pc[r] = "target" => role[call[r].user] # "none"
  BY DEF ReadTarget, Demote, Promote, Transferring
<1>. QED  BY <1>2, <1>3, <1>4

\* The writes.
LEMMA CommitSound ==
  ASSUME TypeInv, OwnerInv, NEW r \in Reqs, CommitTransfer(r)
  PROVE  OwnerInv'
<1>1. /\ RowsOK /\ ReqsOK /\ CallFits /\ status' = status /\ raced' = raced
      /\ pc[r] = "commit" /\ Finish(r)
  BY DEF TypeInv, OwnerInv, CommitTransfer, orgVars, history
<1>2. Others(r) /\ pc'[r] = "idle"  BY <1>1, FinishOthers
<1>3. CallFits'  BY <1>1, <1>2, FitsStep
<1>4. ASSUME Sound PROVE Sound'
  <2>1. /\ \A q \in Reqs \ {r} : pc[q] \notin Transferring \union ChangingOne
        /\ oldOwner[r] \in Users /\ role[oldOwner[r]] = "owner"
        /\ role[call[r].user] # "none"
    BY <1>1, <1>4 DEF Sound, TransferSound, Transferring
  <2>2. call[r].user \in Users
    <3>1. call[r] \in Calls /\ call[r].op = "transfer"
      BY <1>1 DEF ReqsOK, CallFits, Transferring
    <3>. QED  BY <3>1 DEF Calls
  <2>3. \A v \in Users : role'[v] = "owner" <=> v = call[r].user
    <3>1. \A v \in Users : role[v] = "owner" <=> v = oldOwner[r]
      BY <1>4, <2>1 DEF Sound, SingleOwner
    <3>2. \A v \in Users : role'[v] = IF role[v] = "none" THEN "none"
                                      ELSE IF v = call[r].user THEN "owner"
                                      ELSE IF v = oldOwner[r] THEN "admin" ELSE role[v]
      BY DEF CommitTransfer
    <3>. QED  BY <2>1, <3>1, <3>2
  <2>4. SingleOwner'  BY <2>2, <2>3 DEF SingleOwner
  <2>5. \A q \in Reqs : pc'[q] \notin Transferring \union ChangingOne
    BY <1>2, <2>1 DEF Others, Transferring, ChangingOne
  <2>. QED  BY <2>4, <2>5 DEF Sound, TransferSound, ChangeSound
<1>. QED  BY <1>1, <1>3, <1>4 DEF OwnerInv, Sound

LEMMA ChangeStepSound ==
  ASSUME TypeInv, OwnerInv, NEW r \in Reqs, DeleteMember(r) \/ RoleWrite(r)
  PROVE  OwnerInv'
<1>1. /\ RowsOK /\ ReqsOK /\ CallFits /\ status' = status /\ raced' = raced
      /\ pc[r] \in ChangingOne /\ Finish(r)
  BY DEF TypeInv, OwnerInv, DeleteMember, RoleWrite, orgVars, history, ChangingOne
<1>2. Others(r) /\ pc'[r] = "idle"  BY <1>1, FinishOthers
<1>3. CallFits'  BY <1>1, <1>2, FitsStep
<1>4. call[r] \in Calls /\ (pc[r] = "roleWrite" => call[r].op = "setRole")
  BY <1>1 DEF ReqsOK, CallFits, ChangingOne
<1>5. pc[r] = "roleWrite" => call[r].to # "owner"  BY <1>4 DEF Calls
<1>6. \A v \in Users : IF v = call[r].user THEN role'[v] # "owner" ELSE role'[v] = role[v]
  BY <1>1, <1>5 DEF DeleteMember, RoleWrite, RowsOK
<1>7. ASSUME Sound PROVE Sound'
  <2>1. role[call[r].user] # "owner"  BY <1>1, <1>7 DEF Sound, ChangeSound
  <2>2. SingleOwner'  BY <1>6, <1>7, <2>1 DEF Sound, SingleOwner
  <2>3. \A q \in Reqs : pc[q] \notin Transferring
    BY <1>1, <1>7 DEF Sound, TransferSound, Transferring, ChangingOne
  <2>4. TransferSound'  BY <1>2, <2>3 DEF TransferSound, Others, Transferring
  <2>5. ChangeSound'
    <3> SUFFICES ASSUME NEW q \in Reqs \ {r}, pc[q] \in ChangingOne
                 PROVE  role'[call[q].user] # "owner"
      BY <1>2 DEF ChangeSound, Others, ChangingOne
    <3>1. role[call[q].user] # "owner"  BY <1>7 DEF Sound, ChangeSound
    <3>2. call[q].user \in Users
      <4>1. /\ call[q] \in Calls
            /\ call[q].op \in {"leave", "remove", "setRole"}
        BY <1>1 DEF ReqsOK, CallFits, ChangingOne
      <4>. QED  BY <4>1 DEF Calls
    <3>. QED  BY <1>6, <3>1, <3>2
  <2>. QED  BY <2>2, <2>4, <2>5 DEF Sound
<1>. QED  BY <1>1, <1>3, <1>7 DEF OwnerInv, Sound

LEMMA StepOwner == TypeInv /\ OwnerInv /\ [Next]_vars => OwnerInv'
<1> SUFFICES ASSUME TypeInv, OwnerInv, [Next]_vars PROVE OwnerInv'  OBVIOUS
<1>1. ASSUME NEW r \in Reqs, Request(r) PROVE OwnerInv'
  <2>1. CASE LeaveRead(r) \/ RemoveRead(r) \/ RoleRead(r)
    BY <2>1, ReadMemberSound DEF LeaveRead, RemoveRead, RoleRead, ChangingOne
  <2>. QED
    BY <1>1, <2>1, QuietOwner, ReadOwnerSound, TransferStepSound, CommitSound,
       ChangeStepSound DEF Request
<1>2. CASE CronList \/ CronFail \/ Tick \/ UNCHANGED vars
  <2>1. UNCHANGED <<role, status, raced, pc, call, oldOwner>>
    BY <1>2 DEF CronList, CronFail, Tick, vars, orgVars, reqVars, history
  <2>. QED  BY <2>1 DEF OwnerInv, CallFits, SingleOwner, TransferSound, ChangeSound
<1>3. CASE CronDelete
  <2>1. status' = "gone" /\ UNCHANGED <<pc, call>>  BY <1>3 DEF CronDelete, reqVars
  <2>. QED  BY <2>1 DEF OwnerInv, CallFits
<1>. QED  BY <1>1, <1>2, <1>3 DEF Next

\* However requests overlap and fail, an organization that exists has exactly one
\* owner, unless a transfer overlapped with another change of the members.
THEOREM OneOwnerKept == Spec => []OneOwner
<1>1. OwnerInv => OneOwner  BY DEF OwnerInv, OneOwner, SingleOwner
<1>2. TypeInv /\ OwnerInv /\ [Next]_vars => (TypeInv /\ OwnerInv)'  BY StepType, StepOwner
<1>. QED  BY <1>1, <1>2, InitType, InitOwner, PTL DEF Spec
-----------------------------------------------------------------------------
(***************************************************************************)
(* The keys and the status                                                 *)
(***************************************************************************)

\* What each state of the organization promises of its keys, between the two statements
\* of a deletion or restoration too: until one has failed half way or met another, one
\* request at most is half way, and the status is the one it wrote.
KeysFit ==
  /\ status = "active" => \A k \in Keys : key[k] # "parked"
  /\ status = "pending" => \A k \in Keys : key[k] = "on" => k \in late
HalfWayFits ==
  /\ \A q, r \in Reqs : pc[q] \in HalfWay /\ pc[r] \in HalfWay => q = r
  /\ \A r \in Reqs : /\ pc[r] = "parkKeys" => status # "active"
                     /\ pc[r] = "unparkKeys" => status # "pending"
KeysInv ==
  ~torn => HalfWayFits /\ ((\A r \in Reqs : pc[r] \notin HalfWay) => KeysFit)

LEMMA KeysInit == Init => KeysInv
BY DEF Init, KeysInv, KeysFit, HalfWayFits, HalfWay

\* A request that is not half way before or after, and leaves the status alone.
LEMMA KeysElsewhere ==
  ASSUME KeysInv, NEW r \in Reqs, Others(r), pc[r] \notin HalfWay, pc'[r] \notin HalfWay,
         UNCHANGED <<status, torn>>, KeysFit => KeysFit'
  PROVE  KeysInv'
BY DEF KeysInv, HalfWayFits, Others, HalfWay

LEMMA KeysRequest ==
  ASSUME TypeInv, KeysInv, NEW r \in Reqs, Request(r)
  PROVE  KeysInv'
<1>0. ReqsOK /\ RowsOK
  BY DEF TypeInv
<1>1. CASE Schedule(r) \/ RestoreOrg(r)
  <2>1. PICK p \in HalfWay : Goto(r, p) /\ (p = "parkKeys" <=> Schedule(r))
    BY <1>1 DEF Schedule, RestoreOrg, HalfWay
  <2>2. Others(r) /\ pc'[r] = p
    BY <1>0, <2>1, GotoOthers
  <2>3. ~torn' => ~torn /\ \A q \in Reqs \ {r} : pc[q] \notin HalfWay
    BY <1>1 DEF Schedule, RestoreOrg, MeetsHalfWay
  <2>4. /\ p = "parkKeys" => status' # "active"
        /\ p = "unparkKeys" => status' # "pending"
    BY <1>1, <2>1 DEF Schedule, RestoreOrg, orgVars
  <2>. QED  BY <2>2, <2>3, <2>4 DEF KeysInv, HalfWayFits, Others, HalfWay
<1>2. CASE ParkKeys(r) \/ UnparkKeys(r)
  <2>1. Others(r) /\ pc'[r] = "idle" /\ pc[r] \in HalfWay /\ UNCHANGED <<status, torn>>
    BY <1>0, <1>2, FinishOthers DEF ParkKeys, UnparkKeys, orgVars, history, HalfWay
  <2>2. ~torn => KeysFit'
    BY <1>0, <1>2 DEF ParkKeys, UnparkKeys, KeysInv, HalfWayFits, KeysFit, RowsOK,
                      orgVars, history
  <2>3. ~torn => HalfWayFits'
    BY <2>1 DEF KeysInv, HalfWayFits, Others, HalfWay
  <2>. QED  BY <2>1, <2>2, <2>3 DEF KeysInv
<1>3. CASE CreateKey(r) \/ DeactivateKey(r)
  <2>1. /\ Others(r) /\ pc'[r] \notin HalfWay /\ pc[r] \notin HalfWay
        /\ UNCHANGED <<status, torn>>
    BY <1>0, <1>3, FinishOthers DEF CreateKey, DeactivateKey, orgVars, history, HalfWay
  <2>2. KeysFit => KeysFit'
    BY <1>0, <1>3 DEF CreateKey, DeactivateKey, KeysFit, RowsOK, orgVars, history
  <2>. QED  BY <2>1, <2>2, KeysElsewhere
<1>4. CASE Fail(r)
  <2>1. /\ Others(r) /\ pc'[r] \notin HalfWay /\ UNCHANGED <<status, key, late>>
        /\ ~torn' => ~torn /\ pc[r] \notin HalfWay
    BY <1>0, <1>4, FinishOthers DEF Fail, orgVars, HalfWay
  <2>. QED  BY <2>1 DEF KeysInv, HalfWayFits, KeysFit, Others, HalfWay
<1>5. ASSUME UNCHANGED <<status, torn, key, late>>, Others(r),
             pc[r] \notin HalfWay, pc'[r] \notin HalfWay
      PROVE  KeysInv'
  BY <1>5, KeysElsewhere DEF KeysFit
<1>6. CASE \E u \in Users, c \in Calls : Arrive(r, u, c)
  BY <1>0, <1>5, <1>6 DEF Arrive, orgVars, history, Others, ReqsOK, HalfWay
<1>7. CASE Admit(r)
  <2>1. FirstStep[call[r].op] \notin HalfWay
    <3>1. call[r].op \in AllOps
      BY <1>0, <1>7 DEF Admit, ReqsOK, Calls, AllOps
    <3>. QED  BY <3>1 DEF FirstStep, AllOps, HalfWay
  <2>2. Others(r) /\ pc'[r] \notin HalfWay /\ pc[r] \notin HalfWay
    BY <1>0, <1>7, <2>1, GotoOthers, FinishOthers DEF Admit, HalfWay
  <2>. QED  BY <1>5, <1>7, <2>2 DEF Admit, orgVars, history
<1>8. CASE \/ ReadOwner(r) \/ ReadTarget(r) \/ Demote(r) \/ Promote(r) \/ CommitTransfer(r)
           \/ LeaveRead(r) \/ RemoveRead(r) \/ RoleRead(r) \/ DeleteMember(r) \/ RoleWrite(r)
  <2>1. UNCHANGED <<status, torn, key, late>> /\ pc[r] \notin HalfWay
    BY <1>8 DEF ReadOwner, ReadTarget, Demote, Promote, CommitTransfer, LeaveRead, RemoveRead,
       RoleRead, ReadMember, DeleteMember, RoleWrite, orgVars, history, HalfWay
  <2>2. \/ Finish(r)
        \/ \E p \in {"demote", "promote", "commit", "leaveDelete", "removeDelete",
                     "roleWrite"} : Goto(r, p)
        \/ \E u \in Users : /\ oldOwner' = [oldOwner EXCEPT ![r] = u]
                            /\ pc' = [pc EXCEPT ![r] = "target"] /\ UNCHANGED call
    BY <1>8 DEF ReadOwner, ReadTarget, Demote, Promote, CommitTransfer, LeaveRead, RemoveRead,
       RoleRead, ReadMember, DeleteMember, RoleWrite
  <2>3. Others(r) /\ pc'[r] \notin HalfWay
    <3>1. CASE Finish(r)
      BY <1>0, <3>1, FinishOthers DEF HalfWay
    <3>2. CASE \E p \in {"demote", "promote", "commit", "leaveDelete", "removeDelete",
                     "roleWrite"} : Goto(r, p)
      BY <1>0, <3>2, GotoOthers DEF HalfWay
    <3>3. CASE \E u \in Users : /\ oldOwner' = [oldOwner EXCEPT ![r] = u]
                            /\ pc' = [pc EXCEPT ![r] = "target"] /\ UNCHANGED call
      BY <1>0, <3>3 DEF Others, ReqsOK, HalfWay
    <3>. QED  BY <2>2, <3>1, <3>2, <3>3
  <2>. QED  BY <1>5, <2>1, <2>3
<1>. QED  BY <1>1, <1>2, <1>3, <1>4, <1>6, <1>7, <1>8 DEF Request

LEMMA KeysStep == TypeInv /\ KeysInv /\ [Next]_vars => KeysInv'
<1> SUFFICES ASSUME TypeInv, KeysInv, [Next]_vars PROVE KeysInv'
  OBVIOUS
<1>1. CASE \E r \in Reqs : Request(r)
  BY <1>1, KeysRequest
<1>2. CASE CronDelete
  <2>1. UNCHANGED <<pc, torn>> /\ status' = "gone"
    BY <1>2 DEF CronDelete, reqVars, history
  <2>. QED  BY <2>1 DEF KeysInv, KeysFit, HalfWayFits, HalfWay
<1>3. CASE CronList \/ CronFail \/ Tick \/ UNCHANGED vars
  <2>1. UNCHANGED <<pc, torn, status, key, late>>
    BY <1>3 DEF CronList, CronFail, Tick, vars, orgVars, reqVars, history
  <2>. QED  BY <2>1 DEF KeysInv, KeysFit, HalfWayFits
<1>. QED  BY <1>1, <1>2, <1>3 DEF Next

\* An active organization has got back every key its deletion turned off, and one that is
\* scheduled for deletion has no working key but those created since, unless one of the
\* two-statement requests of InitiateDeletion and CancelDeletion failed half way or met
\* another.
THEOREM KeysKept == Spec => []KeysFollowStatus
<1>1. KeysInv => KeysFollowStatus
  BY DEF KeysInv, KeysFit, KeysFollowStatus
<1>2. TypeInv /\ KeysInv /\ [Next]_vars => (TypeInv /\ KeysInv)'
  BY StepType, KeysStep
<1>. QED  BY <1>1, <1>2, InitType, KeysInit, PTL DEF Spec
-----------------------------------------------------------------------------
(***************************************************************************)
(* The date of the deletion                                                *)
(***************************************************************************)

\* What the cron has listed stays overdue until a restoration, because a deletion that
\* was admitted while the organization was active is answered within the same day: it
\* finds no organization that is overdue, and cannot put the date off.
DueInv ==
  /\ due /\ ~contested => status = "pending" /\ deleteAt <= now
  /\ \A r \in Reqs : pc[r] = "schedule" => ~(status = "pending" /\ deleteAt <= now)

LEMMA DueRequest ==
  ASSUME TypeInv, DueInv, NEW r \in Reqs, Request(r)
  PROVE  DueInv' /\ (status' = "gone" => status = "gone")
<1>0. ReqsOK /\ RowsOK /\ HistoryOK
  BY DEF TypeInv
<1>1. CASE Schedule(r)
  <2>1. Others(r) /\ pc'[r] = "parkKeys"
    BY <1>0, <1>1, GotoOthers DEF Schedule
  <2>2. \A n, g \in Nat : g # 0 => ~(n + g <= n)
    OBVIOUS
  <2>3. now \in Nat /\ ~(now + GracePeriod <= now)
    BY <1>0, <2>2, TimeAssumption DEF RowsOK
  <2>. QED  BY <1>1, <2>1, <2>3 DEF Schedule, DueInv, Others, orgVars
<1>2. CASE RestoreOrg(r)
  <2>1. Others(r) /\ pc'[r] = "unparkKeys"
    BY <1>0, <1>2, GotoOthers DEF RestoreOrg
  <2>. QED  BY <1>2, <2>1 DEF RestoreOrg, DueInv, Others, orgVars
<1>3. CASE Admit(r)
  <2>1. Others(r) /\ (pc'[r] = "schedule" => status = "active")
    <3>1. CASE Finish(r)
      BY <1>0, <3>1, FinishOthers
    <3>2. CASE /\ status = IF call[r].op = "restore" THEN "pending" ELSE "active"
               /\ Goto(r, FirstStep[call[r].op])
      <4>1. call[r].op = "restore" => FirstStep[call[r].op] = "restore"
        BY DEF FirstStep
      <4>. QED  BY <1>0, <3>2, <4>1, GotoOthers
    <3>. QED  BY <1>3, <3>1, <3>2 DEF Admit
  <2>2. UNCHANGED <<now, status, deleteAt, due, contested>>
    BY <1>3 DEF Admit, orgVars, history
  <2>. QED  BY <2>1, <2>2 DEF DueInv, Others
<1>4. CASE ~(Schedule(r) \/ RestoreOrg(r) \/ Admit(r))
  <2>1. UNCHANGED <<now, status, deleteAt, due, contested>>
    BY <1>4 DEF Request, Arrive, ParkKeys, UnparkKeys, CreateKey, DeactivateKey, ReadOwner,
       ReadTarget, Demote, Promote, CommitTransfer, LeaveRead, RemoveRead, RoleRead,
       ReadMember, DeleteMember, RoleWrite, Fail, orgVars, history
  <2>2. \A q \in Reqs : pc'[q] = "schedule" => pc[q] = "schedule"
    BY <1>0, <1>4 DEF Request, Arrive, ParkKeys, UnparkKeys, CreateKey, DeactivateKey,
       ReadOwner, ReadTarget, Demote, Promote, CommitTransfer, LeaveRead, RemoveRead,
       RoleRead, ReadMember, DeleteMember, RoleWrite, Fail, Goto, Finish, ReqsOK
  <2>. QED  BY <2>1, <2>2 DEF DueInv
<1>. QED  BY <1>1, <1>2, <1>3, <1>4

LEMMA DueStep ==
  ASSUME TypeInv, DueInv, [Next]_vars
  PROVE  /\ DueInv'
         /\ status # "gone" /\ status' = "gone" /\ ~contested
              => status = "pending" /\ deleteAt <= now
<1>1. CASE \E r \in Reqs : Request(r)
  BY <1>1, DueRequest
<1>2. CASE CronDelete
  BY <1>2 DEF CronDelete, DueInv, reqVars, history
<1>3. CASE CronList \/ CronFail \/ UNCHANGED vars
  BY <1>3 DEF CronList, CronFail, vars, orgVars, reqVars, history, DueInv
<1>4. CASE Tick
  BY <1>4 DEF Tick, orgVars, reqVars, history, DueInv
<1>. QED  BY <1>1, <1>2, <1>3, <1>4 DEF Next

\* DeleteOrganization of the hard-delete cron meets the organization only when its date
\* has come, unless it was restored since GetOrganizationsDueForDeletion listed it.
THEOREM DeletionIsDue == Spec => DeletedWhenDue
<1>1. Init => DueInv
  BY DEF Init, DueInv
<1>2. Spec => [](TypeInv /\ DueInv)
  <2>1. TypeInv /\ DueInv /\ [Next]_vars => (TypeInv /\ DueInv)'
    BY StepType, DueStep
  <2>. QED  BY <1>1, <2>1, InitType, PTL DEF Spec
<1>3. TypeInv /\ DueInv /\ [Next]_vars =>
        [status # "gone" /\ status' = "gone" /\ ~contested
           => status = "pending" /\ deleteAt <= now]_vars
  BY DueStep
<1>. QED  BY <1>2, <1>3, PTL DEF Spec, DeletedWhenDue
-----------------------------------------------------------------------------
(***************************************************************************)
(* The invites beside it: InvitesProofs, for the addresses                 *)
(***************************************************************************)
IP == INSTANCE InvitesProofs WITH
        Members0 <- {}, Nothing <- Nobody

\* InvitesProofs is about the same invites.
LEMMA SameCardinality == \A S : I!Cardinality(S) = IP!Cardinality(S)
BY DEF I!Cardinality, IP!Cardinality

LEMMA SameStates ==
  /\ I!Init <=> IP!Init
  /\ I!TypeOK <=> IP!TypeOK
  /\ I!InvitesAssumption <=> IP!InvitesAssumption
  /\ I!PendingWithinLimit <=> IP!PendingWithinLimit
  /\ I!RemovedStaysOut <=> IP!RemovedStaysOut
<1>0. /\ I!Ids = IP!Ids /\ I!Idle = IP!Idle /\ I!States = IP!States
      /\ I!Pending = IP!Pending /\ I!Accounts = IP!Accounts
  BY DEF I!Ids, IP!Ids, I!Idle, IP!Idle, I!States, IP!States, I!Pending, IP!Pending,
         I!Accounts, IP!Accounts
<1>1. I!Init <=> IP!Init
  BY <1>0 DEF I!Init, IP!Init
<1>2. I!TypeOK <=> IP!TypeOK
  <2>1. I!Request = IP!Request
    BY <1>0, SameCardinality, Zenon DEF I!Request, IP!Request
  <2>. QED  BY <1>0, <2>1 DEF I!TypeOK, IP!TypeOK
<1>3. I!InvitesAssumption <=> IP!InvitesAssumption
  BY <1>0 DEF I!InvitesAssumption, IP!InvitesAssumption
<1>4. I!PendingWithinLimit <=> IP!PendingWithinLimit
  BY <1>0, SameCardinality DEF I!PendingWithinLimit, IP!PendingWithinLimit
<1>5. I!RemovedStaysOut <=> IP!RemovedStaysOut
  BY DEF I!RemovedStaysOut, IP!RemovedStaysOut
<1>. QED  BY <1>1, <1>2, <1>3, <1>4, <1>5

LEMMA SameSteps == I!Next => IP!Next
<1>0. /\ I!Ids = IP!Ids /\ I!Idle = IP!Idle /\ I!Pending = IP!Pending
      /\ \A a : I!AccountsOf(a) = IP!AccountsOf(a)
      /\ \A r : I!Account(r) = IP!Account(r)
  BY DEF I!Ids, IP!Ids, I!Idle, IP!Idle, I!Pending, IP!Pending,
         I!AccountsOf, IP!AccountsOf, I!Account, IP!Account
<1>1. \A r : I!End(r) <=> IP!End(r)
  BY <1>0 DEF I!End, IP!End
<1>2. ASSUME NEW r, NEW at, NEW a, NEW s, NEW i, I!Begin(r, at, a, s, i)
      PROVE  IP!Begin(r, at, a, s, i)
  BY <1>0, <1>2, Zenon DEF I!Begin, IP!Begin, I!About, IP!About
<1>3. ASSUME NEW r \in Reqs PROVE
        /\ \A a \in Addresses, found \in BOOLEAN :
              I!Create(r, a, found) => IP!Create(r, a, found)
        /\ \A i \in I!Ids, s \in Spellings : I!Accept(r, i, s) => IP!Accept(r, i, s)
  <2>1. \A a, found : I!Seen(a, found) = IP!Seen(a, found) 
                      /\ I!Unseen(a, found) = IP!Unseen(a, found)
    BY <1>0 DEF I!Seen, IP!Seen, I!Unseen, IP!Unseen
  <2>. QED
    BY <1>0, <1>2, <2>1, Zenon DEF I!Create, IP!Create, I!Accept, IP!Accept
<1>4. ASSUME NEW r \in Reqs PROVE
        /\ \A i \in I!Ids : I!Insert(r, i) => IP!Insert(r, i)
  BY <1>0, <1>1, Zenon DEF I!Insert, IP!Insert, I!Replaced, IP!Replaced
<1>5. ASSUME NEW r \in Reqs PROVE
        /\ \A i \in I!Ids \cup {Nobody} : I!Find(r, i) => IP!Find(r, i)
  BY <1>0, <1>1, Zenon DEF I!Find, IP!Find, I!Found, IP!Found, I!history, IP!history
<1>6. ASSUME NEW r \in Reqs PROVE
        /\ I!Count(r) => IP!Count(r)
  BY <1>0, SameCardinality, Zenon DEF I!Count, IP!Count, I!history, IP!history
<1>7. ASSUME NEW r \in Reqs PROVE
        /\ I!Check(r) => IP!Check(r)
        /\ I!Write(r) => IP!Write(r)
        /\ I!Abort(r) => IP!Abort(r)
  BY <1>0, <1>1, Zenon
  DEF I!Check, IP!Check, I!Write, IP!Write, I!Spent, IP!Spent, I!Abort, IP!Abort,
      I!history, IP!history
<1>8. /\ \A i \in I!Ids : /\ I!Revoke(i) => IP!Revoke(i) 
                          /\ I!Expire(i) => IP!Expire(i)
      /\ \A a \in Addresses, s \in Spellings : I!Remove(a, s) => IP!Remove(a, s)
  BY <1>0, Zenon DEF I!Revoke, IP!Revoke, I!Expire, IP!Expire, I!Remove, IP!Remove,
      I!About, IP!About, I!history, IP!history
<1>. QED
  BY <1>0, <1>3, <1>4, <1>5, <1>6, <1>7, <1>8 DEF I!Next, IP!Next

\* In a behavior of the instance the invites go on as those of InvitesProofs, or rest.
LEMMA InvitesGoOn ==
  /\ MCInit => IP!InvitesAssumption /\ IP!Init
  /\ [MCNext]_<<page, vars, inviteVars>> => IP!Next \/ UNCHANGED inviteVars
<1>1. IP!InvitesAssumption
  BY AddressesAssumption, SameStates
<1>2. MCInit => IP!Init
  BY SameStates DEF MCInit
<1>3. [MCNext]_<<page, vars, inviteVars>> => IP!Next \/ UNCHANGED inviteVars
  BY SameSteps DEF MCNext
<1>. QED  BY <1>1, <1>2, <1>3

\* The invariant of InvitesProofs.
InvitesInv == IP!TypeOK /\ IP!Addressed /\ IP!OutInv /\ IP!LimitInv

LEMMA InvitesKept ==
  /\ MCInit => InvitesInv
  /\ InvitesInv /\ [MCNext]_<<page, vars, inviteVars>> => InvitesInv'
<1>1. IP!InvitesAssumption
  BY AddressesAssumption, SameStates
<1>2. MCInit => InvitesInv
  BY <1>1, InvitesGoOn, IP!TypeInit, IP!OutInit, IP!LimitInit DEF InvitesInv
<1>3. UNCHANGED inviteVars => UNCHANGED IP!vars
  BY DEF inviteVars, IP!vars, IP!history
<1>4. InvitesInv /\ [IP!Next]_IP!vars => InvitesInv'
  BY <1>1, IP!TypeNext, IP!AddressedNext, IP!OutNext, IP!LimitNext DEF InvitesInv
<1>. QED  BY <1>2, <1>3, <1>4, InvitesGoOn

\* CreateInvite keeps the limit and leaves one pending invite for each address, as long as no
\* creation began before another one had ended.
THEOREM InviteLimitKept == MCSpec => []PendingWithinLimit
<1>1. InvitesInv => PendingWithinLimit
  BY SameStates DEF InvitesInv, IP!LimitInv, PendingWithinLimit
<1>. QED  BY <1>1, InvitesKept, PTL DEF MCSpec

\* An account that was removed comes back only by an invite that was made afterwards, unless
\* requests about its address overlapped or CreateInvite overlooked a member of it.
THEOREM InviteesStayOut == MCSpec => []RemovedStaysOut
<1>1. InvitesInv => RemovedStaysOut
  BY SameStates DEF InvitesInv, IP!OutInv, RemovedStaysOut
<1>. QED  BY <1>1, InvitesKept, PTL DEF MCSpec
=============================================================================

---------------------------- MODULE Organization ----------------------------
(***************************************************************************)
(* One organization of Processing: who owns it, whether it is scheduled    *)
(* for deletion, and its API keys.  HTTP requests run concurrently.  Each  *)
(* is admitted by RequireOrg, RequireActiveOrg and RequireRole from what   *)
(* they read, then runs the statements of its service method one by one;   *)
(* only TransferOwnership runs in a transaction, at READ COMMITTED, where  *)
(* an updated row stays locked until the commit.  Any statement may fail.  *)
(* The hard-delete cron lists the organizations that are due and deletes   *)
(* them.  A user who left does not come back (invites are not part of      *)
(* this module), so that a user stands for a membership row.               *)
(***************************************************************************)
EXTENDS Integers, FiniteSets

CONSTANTS
  Users,
  FirstOwner,    \* created the organization
  FirstAdmins,   \* admins at the start; the other users are members
  Keys,          \* API keys
  FirstKeys,     \* those that exist at the start
  Reqs,          \* slots for concurrent requests
  Ops,           \* the operations that are called in this instance
  GracePeriod,   \* 14 days, in ticks
  MaxTime,       \* bound on the clock
  Nobody         \* not a user

AllOps == {"delete", "restore", "transfer", "leave", "remove", "setRole", "createKey",
           "deactivateKey"}

ASSUME PeopleAssumption ==
  /\ IsFiniteSet(Users) /\ FirstOwner \in Users /\ FirstAdmins \subseteq Users \ {FirstOwner}
  /\ Nobody \notin Users
ASSUME KeysAssumption == FirstKeys \subseteq Keys
ASSUME OpsAssumption == Ops \subseteq AllOps
ASSUME TimeAssumption == GracePeriod \in Nat \ {0} /\ MaxTime \in Nat

VARIABLES
  now,
  status,      \* organizations.status; "gone" once the row is deleted
  deleteAt,    \* deletion_scheduled_at, 0 for NULL
  key,         \* key[k]: the row of k, see KeyStates
  role,        \* role[u]: memberships.role, "none" without a row
  pc,          \* pc[r]: the next statement of request r
  call,        \* call[r]: its operation and arguments
  oldOwner,    \* oldOwner[r]: the owner that a transfer has read
  due,         \* the cron has listed the organization and will delete it
  raced,       \* history: a transfer overlapped with a change of the members
  torn,        \* history: a deletion or restoration failed half way or met another
  contested,   \* history: the organization was restored since the cron listed it
  late         \* history: keys created since the keys were last turned off

orgVars == <<status, deleteAt>>
reqVars == <<pc, call, oldOwner>>
history == <<raced, torn, contested, late>>
vars == <<now, orgVars, key, role, reqVars, due, history>>

\* active; not active; not active and deactivated_by_deletion; no row
KeyStates == {"on", "off", "parked", "absent"}
Roles == {"owner", "admin", "member"}

NoCall == [op |-> "none", user |-> Nobody, to |-> "none"]
Calls ==
  [op : {"delete", "restore", "createKey", "deactivateKey"}, user : {Nobody}, to : {"none"}]
    \union [op : {"transfer", "leave", "remove"}, user : Users, to : {"none"}]
    \union [op : {"setRole"}, user : Users, to : Roles \ {"owner"}]

Init ==
  /\ now = 0
  /\ status = "active" /\ deleteAt = 0
  /\ key = [k \in Keys |-> IF k \in FirstKeys THEN "on" ELSE "absent"]
  /\ role = [u \in Users |-> CASE u = FirstOwner -> "owner"
                               [] u \in FirstAdmins -> "admin"
                               [] OTHER -> "member"]
  /\ pc = [r \in Reqs |-> "idle"]
  /\ call = [r \in Reqs |-> NoCall]
  /\ oldOwner = [r \in Reqs |-> Nobody]
  /\ due = FALSE
  /\ late = {}
  /\ raced = FALSE /\ torn = FALSE /\ contested = FALSE

\* Between its first read and its last write, a request has seen the members.
Transferring == {"target", "demote", "promote", "commit"}
ChangingOne  == {"leaveDelete", "removeDelete", "roleWrite"}
HalfWay      == {"parkKeys", "unparkKeys"}

Goto(r, p) == pc' = [pc EXCEPT ![r] = p] /\ UNCHANGED <<call, oldOwner>>

\* The request is answered.
Finish(r) ==
  /\ pc' = [pc EXCEPT ![r] = "idle"]
  /\ call' = [call EXCEPT ![r] = NoCall]
  /\ oldOwner' = [oldOwner EXCEPT ![r] = Nobody]

\* Request r has made its first read of the members.
Overlap(r) ==
  raced' = (raced \/ \E q \in Reqs \ {r} :
                       \/ pc[q] \in Transferring
                       \/ pc[q] \in ChangingOne /\ call[r].op = "transfer")
-----------------------------------------------------------------------------
(***************************************************************************)
(* Admission                                                               *)
(***************************************************************************)

Allowed(op) ==
  CASE op \in {"delete", "restore", "transfer"} -> {"owner"}
    [] op \in {"remove", "setRole"} -> {"owner", "admin"}
    [] op \in {"leave", "createKey", "deactivateKey"} -> Roles

\* RequireOrg reads the membership of user u, which RequireRole looks at.
Arrive(r, u, c) ==
  /\ pc[r] = "idle" /\ c.op \in Ops
  /\ role[u] \in Allowed(c.op)
  /\ c.op = "leave" => c.user = u
  /\ pc' = [pc EXCEPT ![r] = "admit"]
  /\ call' = [call EXCEPT ![r] = c]
  /\ UNCHANGED <<now, orgVars, key, role, oldOwner, due, history>>

FirstStep == [delete |-> "schedule", restore |-> "restore", transfer |-> "owner",
              leave |-> "leaveRead", remove |-> "removeRead", setRole |-> "roleRead",
              createKey |-> "createKey", deactivateKey |-> "deactivateKey"]

\* RequireOrg reads the organization.  restore is for a pending organization,
\* everything else for an active one (RequireActiveOrg, or the handler's guard).
Admit(r) ==
  /\ pc[r] = "admit"
  /\ \/ /\ status = IF call[r].op = "restore" THEN "pending" ELSE "active"
        /\ Goto(r, FirstStep[call[r].op])
     \/ /\ status # IF call[r].op = "restore" THEN "pending" ELSE "active"
        /\ Finish(r)
  /\ UNCHANGED <<now, orgVars, key, role, due, history>>
-----------------------------------------------------------------------------
(***************************************************************************)
(* Deletion and restoration                                                *)
(***************************************************************************)

MeetsHalfWay(r) == \E q \in Reqs \ {r} : pc[q] \in HalfWay

\* Faulty variant: the date lies in the past.
ScheduleBackwards(r) ==
  /\ pc[r] = "schedule"
  /\ status' = "pending" /\ deleteAt' = now - GracePeriod
  /\ torn' = (torn \/ MeetsHalfWay(r))
  /\ Goto(r, "parkKeys")
  /\ UNCHANGED <<now, key, role, due, raced, contested, late>>

\* InitiateDeletion's first statement ...
Schedule(r) ==
  /\ pc[r] = "schedule"
  /\ \/ status # "gone" /\ status' = "pending" /\ deleteAt' = now + GracePeriod
     \/ status = "gone" /\ UNCHANGED orgVars
  /\ torn' = (torn \/ MeetsHalfWay(r))
  /\ Goto(r, "parkKeys")
  /\ UNCHANGED <<now, key, role, due, raced, contested, late>>

\* ... and its second.  The notices change nothing here.
ParkKeys(r) ==
  /\ pc[r] = "parkKeys"
  /\ key' = [k \in Keys |-> IF key[k] = "on" THEN "parked" ELSE key[k]]
  /\ late' = {}
  /\ Finish(r)
  /\ UNCHANGED <<now, orgVars, role, due, raced, torn, contested>>

\* CancelDeletion's first statement ...
RestoreOrg(r) ==
  /\ pc[r] = "restore"
  /\ \/ status # "gone" /\ status' = "active" /\ deleteAt' = 0
     \/ status = "gone" /\ UNCHANGED orgVars
  /\ torn' = (torn \/ MeetsHalfWay(r))
  /\ contested' = (contested \/ due)
  /\ Goto(r, "unparkKeys")
  /\ UNCHANGED <<now, key, role, due, raced, late>>

\* Faulty variant: the keys that are off for good are turned on instead.
UnparkKeysWrongFlag(r) ==
  /\ pc[r] = "unparkKeys"
  /\ key' = [k \in Keys |-> IF key[k] = "off" THEN "on" ELSE key[k]]
  /\ Finish(r)
  /\ UNCHANGED <<now, orgVars, role, due, history>>

\* ... and its second.
UnparkKeys(r) ==
  /\ pc[r] = "unparkKeys"
  /\ key' = [k \in Keys |-> IF key[k] = "parked" THEN "on" ELSE key[k]]
  /\ Finish(r)
  /\ UNCHANGED <<now, orgVars, role, due, history>>

\* CreateAPIKey: the row needs its organization.
CreateKey(r) ==
  /\ pc[r] = "createKey"
  /\ \/ \E k \in Keys : /\ key[k] = "absent" /\ status # "gone"
                        /\ key' = [key EXCEPT ![k] = "on"] /\ late' = late \union {k}
     \/ (status = "gone" \/ \A k \in Keys : key[k] # "absent") /\ UNCHANGED <<key, late>>
  /\ Finish(r)
  /\ UNCHANGED <<now, orgVars, role, due, raced, torn, contested>>

\* DeactivateAPIKey leaves deactivated_by_deletion alone.
DeactivateKey(r) ==
  /\ pc[r] = "deactivateKey"
  /\ \E k \in Keys : key' = [key EXCEPT ![k] = IF @ = "on" THEN "off" ELSE @]
  /\ Finish(r)
  /\ UNCHANGED <<now, orgVars, role, due, history>>
-----------------------------------------------------------------------------
(***************************************************************************)
(* Members                                                                 *)
(***************************************************************************)

\* A transaction of another request has updated the row of u.
Locked(r, u) ==
  /\ role[u] # "none"
  /\ \E q \in Reqs \ {r} : \/ pc[q] \in {"promote", "commit"} /\ oldOwner[q] = u
                           \/ pc[q] = "commit" /\ call[q].user = u

\* GetOwnerMembership; LIMIT 1 picks any owner.
ReadOwner(r) ==
  /\ pc[r] = "owner"
  /\ \/ \E u \in Users : /\ role[u] = "owner"
                         /\ oldOwner' = [oldOwner EXCEPT ![r] = u]
                         /\ pc' = [pc EXCEPT ![r] = "target"]
                         /\ UNCHANGED call
                         /\ Overlap(r)
     \/ (\A u \in Users : role[u] # "owner") /\ Finish(r) /\ UNCHANGED raced
  /\ UNCHANGED <<now, orgVars, key, role, due, torn, contested, late>>

\* The new owner has to be a member.
ReadTarget(r) ==
  /\ pc[r] = "target"
  /\ \/ role[call[r].user] # "none" /\ Goto(r, "demote")
     \/ role[call[r].user] = "none" /\ Finish(r)
  /\ UNCHANGED <<now, orgVars, key, role, due, history>>

\* The updates are visible to others at the commit; until then they lock.
Demote(r) ==
  /\ pc[r] = "demote" /\ ~Locked(r, oldOwner[r])
  /\ Goto(r, "promote")
  /\ UNCHANGED <<now, orgVars, key, role, due, history>>

Promote(r) ==
  /\ pc[r] = "promote" /\ ~Locked(r, call[r].user)
  /\ Goto(r, "commit")
  /\ UNCHANGED <<now, orgVars, key, role, due, history>>

\* An update of a row that is gone by now does nothing and is no error.
CommitTransfer(r) ==
  /\ pc[r] = "commit"
  /\ role' = [u \in Users |-> IF role[u] = "none" THEN "none"
                             ELSE IF u = call[r].user THEN "owner"
                             ELSE IF u = oldOwner[r] THEN "admin" ELSE role[u]]
  /\ Finish(r)
  /\ UNCHANGED <<now, orgVars, key, due, history>>

\* The membership that r is about is read; an owner's is left alone.
ReadMember(r, from, next) ==
  /\ pc[r] = from
  /\ \/ role[call[r].user] \in Roles \ {"owner"} /\ Goto(r, next) /\ Overlap(r)
     \/ role[call[r].user] \in {"none", "owner"} /\ Finish(r) /\ UNCHANGED raced
  /\ UNCHANGED <<now, orgVars, key, role, due, torn, contested, late>>

\* Faulty variant: nobody asks whether the owner leaves.
LeaveReadAnyRole(r) ==
  /\ pc[r] = "leaveRead" /\ Goto(r, "leaveDelete") /\ Overlap(r)
  /\ UNCHANGED <<now, orgVars, key, role, due, torn, contested, late>>

LeaveRead(r) == ReadMember(r, "leaveRead", "leaveDelete")
RemoveRead(r) == ReadMember(r, "removeRead", "removeDelete")
RoleRead(r) == ReadMember(r, "roleRead", "roleWrite")

\* DeleteMembership, by LeaveOrganization or RemoveMember.
DeleteMember(r) ==
  /\ pc[r] \in {"leaveDelete", "removeDelete"} /\ ~Locked(r, call[r].user)
  /\ role' = [role EXCEPT ![call[r].user] = "none"]
  /\ Finish(r)
  /\ UNCHANGED <<now, orgVars, key, due, history>>

\* UpdateMembershipRole, by UpdateMemberRole.
RoleWrite(r) ==
  /\ pc[r] = "roleWrite" /\ ~Locked(r, call[r].user)
  /\ role' = [role EXCEPT ![call[r].user] = IF @ = "none" THEN "none" ELSE call[r].to]
  /\ Finish(r)
  /\ UNCHANGED <<now, orgVars, key, due, history>>

\* A statement fails, the deadline of the request passes or the process stops: a
\* transaction is rolled back, what other statements wrote stays.
Fail(r) ==
  /\ pc[r] # "idle"
  /\ torn' = (torn \/ pc[r] \in HalfWay)
  /\ Finish(r)
  /\ UNCHANGED <<now, orgVars, key, role, due, raced, contested, late>>
-----------------------------------------------------------------------------
(***************************************************************************)
(* The hard-delete cron, and time                                          *)
(***************************************************************************)

\* Faulty variant: the date is not looked at.
CronListEarly ==
  /\ ~due /\ status = "pending"
  /\ due' = TRUE /\ contested' = FALSE
  /\ UNCHANGED <<now, orgVars, key, role, reqVars, raced, torn, late>>

\* GetOrganizationsDueForDeletion
CronList ==
  /\ ~due /\ status = "pending" /\ deleteAt <= now
  /\ due' = TRUE /\ contested' = FALSE
  /\ UNCHANGED <<now, orgVars, key, role, reqVars, raced, torn, late>>

\* DeleteOrganization, with everything that refers to it.
CronDelete ==
  /\ due /\ \A u \in Users : ~Locked(Nobody, u)
  /\ due' = FALSE
  /\ status' = "gone" /\ deleteAt' = 0
  /\ key' = [k \in Keys |-> "absent"]
  /\ role' = [u \in Users |-> "none"]
  /\ UNCHANGED <<now, reqVars, history>>

\* The run ends with an error; the row is left to the next run.
CronFail == due /\ due' = FALSE
            /\ UNCHANGED <<now, orgVars, key, role, reqVars, history>>

\* Requests have a deadline of seconds and statements a timeout: neither lasts a
\* tick of days.
Tick ==
  /\ now < MaxTime
  /\ ~due /\ \A r \in Reqs : pc[r] = "idle"
  /\ now' = now + 1
  /\ UNCHANGED <<orgVars, key, role, reqVars, due, history>>

Request(r) ==
  \/ \E u \in Users, c \in Calls : Arrive(r, u, c)
  \/ Admit(r)
  \/ Schedule(r) \/ ParkKeys(r) \/ RestoreOrg(r) \/ UnparkKeys(r)
  \/ CreateKey(r) \/ DeactivateKey(r)
  \/ ReadOwner(r) \/ ReadTarget(r) \/ Demote(r) \/ Promote(r) \/ CommitTransfer(r)
  \/ LeaveRead(r) \/ RemoveRead(r) \/ RoleRead(r) \/ DeleteMember(r) \/ RoleWrite(r)
  \/ Fail(r)

Next == (\E r \in Reqs : Request(r)) \/ CronList \/ CronDelete \/ CronFail \/ Tick

Spec == Init /\ [][Next]_vars
-----------------------------------------------------------------------------
(***************************************************************************)
(* Properties                                                              *)
(***************************************************************************)

PCs == {"idle", "admit", "createKey", "deactivateKey", "schedule", "restore", "owner",
        "leaveRead", "removeRead", "roleRead"} \union HalfWay \union Transferring
          \union ChangingOne

\* The types of the rows, the requests and the histories.
TypeOK ==
  /\ now \in 0..MaxTime /\ status \in {"active", "pending", "gone"} /\ deleteAt \in Nat
  /\ key \in [Keys -> KeyStates] /\ role \in [Users -> Roles \union {"none"}]
  /\ pc \in [Reqs -> PCs] /\ call \in [Reqs -> Calls \union {NoCall}]
  /\ oldOwner \in [Reqs -> Users \union {Nobody}]
  /\ due \in BOOLEAN /\ raced \in BOOLEAN /\ torn \in BOOLEAN /\ contested \in BOOLEAN
  /\ late \subseteq Keys

\* Leaving, removals, role changes and single transfers, however they overlap
\* among themselves or fail, leave the organization with exactly one owner; only a
\* transfer that overlaps with another change of the members may not.
OneOwner ==
  status # "gone" /\ ~raced =>
    \E u \in Users : \A v \in Users : role[v] = "owner" <=> v = u

\* An active organization has got back every key that its deletion turned off, and
\* one that is scheduled for deletion has no working key but those that requests
\* admitted earlier created since; except after a deletion or restoration that
\* failed half way or overlapped with another.
KeysFollowStatus ==
  ~torn /\ (\A r \in Reqs : pc[r] \notin HalfWay) =>
    /\ status = "active" => \A k \in Keys : key[k] # "parked"
    /\ status = "pending" => \A k \in Keys : key[k] = "on" => k \in late

\* The organization is only deleted when its date has come, unless it was restored
\* while the cron ran.
DeletedWhenDue ==
  [][status # "gone" /\ status' = "gone" /\ ~contested
       => status = "pending" /\ deleteAt <= now]_vars

\* The doc of RemoveMember: "Cannot remove the owner."
OwnerNotRemoved ==
  [][\A u \in Users, r \in Reqs :
       pc[r] = "removeDelete" /\ pc'[r] = "idle" /\ role[u] = "owner" => role'[u] # "none"]_vars
=============================================================================

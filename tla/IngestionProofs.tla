-------------------------- MODULE IngestionProofs ---------------------------
(***************************************************************************)
(* The books, the external ids and the quota of IngestSpan, for any number *)
(* of requests, sessions, plans and months and any limit.  The inductive   *)
(* invariant ties what a transaction holds to where its request is: the    *)
(* session it is about, whether it is the one that creates it, and the     *)
(* organization's row, under which the answer of the gate stays true.      *)
(*                                                                         *)
(* Then SessionClosure, the cron among those ingestions: the books survive *)
(* it, what it announced is closed, its verdicts are earned by the spans   *)
(* that are stored, and what is closed stays closed.  Its invariant says   *)
(* what the cron's earlier reads are still worth, because spans are only   *)
(* added and nobody else closes what was listed.                           *)
(***************************************************************************)
EXTENDS SessionClosure, FiniteSetTheorems, TLAPS

\* A request has a session from the statement that found it to the end, and a span in
\* it once it is stored.
Targets ==
  \A r \in Reqs :
    /\ ipc[r] \in {"insert", "update", "stored"} => target[r] \in SessIds
    /\ ipc[r] \notin {"insert", "update", "stored"} => target[r] = None
    /\ spanOf[r] = IF ipc[r] = "stored" THEN target[r] ELSE None
\* A row that is not committed yet belongs to the request that creates it.
Creators ==
  \A q, r \in Reqs, i \in SessIds :
    sess[i].status = "none" /\ target[q] = i /\ target[r] = i => q = r
BooksInv == TypeOK /\ Targets /\ Creators /\ CountsMatch

\* One session in progress has the external id; while one is being created there is
\* none, and nobody else creates one.
OneExt == \A i, j \in InProgress : sess[i].ext /\ sess[j].ext => i = j
CreatesFirst ==
  \A r \in Explicit, i \in SessIds :
    sess[i].status = "none" /\ target[r] = i =>
      /\ \A j \in InProgress : ~sess[j].ext
      /\ \A q \in Explicit, j \in SessIds :
           sess[j].status = "none" /\ target[q] = j => q = r
ExtInv == OneExt /\ CreatesFirst

\* A request that passed the gate holds the organization's row until it ends, and what
\* the gate found is still true.
HoldsOrg ==
  \A r \in Reqs : orgLock = r <=> Gated(r) /\ ipc[r] \in {"find", "insert", "update"}
StillOpen == \A r \in Reqs : orgLock = r => QuotaOpen(r)
Counted == {r \in Reqs : ipc[r] = "stored" /\ Gated(r)}
NoneAhead == \A r \in Counted : tm[r] <= period
QuotaInv == HoldsOrg /\ StillOpen /\ NoneAhead /\ QuotaHolds
-----------------------------------------------------------------------------
\* The types are kept.
LEMMA TypeInit == Init => TypeOK
BY ReqsAssumption, PlansAssumption
DEF Init, TypeOK, SessionRow, NoSession, Terminal, IngestPCs

LEMMA UnlockType ==
  ASSUME TypeOK, NEW r \in Reqs, Unlock(r)
  PROVE  orgLock' \in Reqs \union {None} /\ rowLock' \in [SessIds -> Reqs \union {None}]
BY DEF Unlock, TypeOK

LEMMA TypeStep == TypeOK /\ Targets /\ [Next]_vars => TypeOK'
<1> SUFFICES ASSUME TypeOK, Targets, [Next]_vars PROVE TypeOK'
  OBVIOUS
<1> USE DEF TypeOK, IngestPCs, Goto, dbVars, reqVars
<1>1. ASSUME NEW r \in Reqs, IngestReadPlan(r) \/ IngestBegin(r) PROVE TypeOK'
  BY <1>1 DEF IngestReadPlan, IngestBegin
<1>2. ASSUME NEW r \in Reqs, IngestGate(r) PROVE TypeOK'
  BY <1>2 DEF IngestGate
<1>3. ASSUME NEW r \in Reqs, IngestFindAuto(r) PROVE TypeOK'
  <2>1. target' \in [Reqs -> SessIds \union {None}] /\ UNCHANGED rowLock
    BY <1>3 DEF IngestFindAuto, CreateSession, ActiveFor, InProgress
  <2> QED
    BY <1>3, <2>1 DEF IngestFindAuto
<1>4. ASSUME NEW r \in Reqs, IngestFindExplicit(r) PROVE TypeOK'
  <2>1. /\ target' \in [Reqs -> SessIds \union {None}]
        /\ rowLock' \in [SessIds -> Reqs \union {None}]
    BY <1>4 DEF IngestFindExplicit, CreateSession, InProgress
  <2> QED
    BY <1>4, <2>1 DEF IngestFindExplicit
<1>5. ASSUME NEW r \in Reqs, IngestInsert(r) PROVE TypeOK'
  BY <1>5 DEF IngestInsert
<1>6. ASSUME NEW r \in Reqs, IngestCommit(r) PROVE TypeOK'
  <2>1. target[r] \in SessIds
    BY <1>6 DEF IngestCommit, Targets
  <2>2. AfterSpan(r) \in SessionRow
    <3>1. sess[target[r]] \in SessionRow /\ ts[r] \in Nat
      BY <2>1
    <3>2. CASE target[r] \in Creating
      BY <3>1, <3>2 DEF AfterSpan, SessionRow
    <3>3. CASE target[r] \notin Creating
      <4>1. AfterSpan(r) = [sess[target[r]] EXCEPT !.count = @ + 1, !.last = ts[r]]
        BY <3>3 DEF AfterSpan
      <4> DEFINE row == sess[target[r]]
      <4>2. /\ row = [status |-> row.status, ext |-> row.ext, count |-> row.count,
                     last |-> row.last]
            /\ row.status \in {"none", "in_progress"} \union Terminal
            /\ row.ext \in BOOLEAN /\ row.count \in Nat
        BY <3>1 DEF SessionRow
      <4>3. AfterSpan(r) = [status |-> row.status, ext |-> row.ext,
                            count |-> row.count + 1, last |-> ts[r]]
        BY <4>1, <4>2
      <4>4. row.count + 1 \in Nat
        BY <4>2
      <4> HIDE DEF row
      <4> QED
        BY <3>1, <4>2, <4>3, <4>4 DEF SessionRow
    <3> QED
      BY <3>2, <3>3
  <2>3. sess' \in [SessIds -> SessionRow] /\ spanOf' \in [Reqs -> SessIds \union {None}]
    BY <1>6, <2>1, <2>2 DEF IngestCommit
  <2>4. counter' \in Nat /\ period' \in Nat
    BY <1>6 DEF IngestCommit
  <2>5. orgLock' \in Reqs \union {None} /\ rowLock' \in [SessIds -> Reqs \union {None}]
    BY <1>6, UnlockType DEF IngestCommit
  <2>6. ipc' \in [Reqs -> IngestPCs]
    BY <1>6 DEF IngestCommit
  <2>7. UNCHANGED <<now, month, plan, planSeen, ts, tm, target, txAborted>>
    BY <1>6 DEF IngestCommit
  <2> QED
    BY <2>3, <2>4, <2>5, <2>6, <2>7
<1>7. ASSUME NEW r \in Reqs, IngestRollback(r) PROVE TypeOK'
  BY <1>7, UnlockType DEF IngestRollback
<1>8. CASE ChangePlan \/ Tick \/ NewMonth
  BY <1>8, PlansAssumption DEF ChangePlan, Tick, NewMonth
<1>9. CASE UNCHANGED vars
  BY <1>9 DEF vars
<1> QED
  BY <1>1, <1>2, <1>3, <1>4, <1>5, <1>6, <1>7, <1>8, <1>9 DEF Next, Ingest
-----------------------------------------------------------------------------
(***************************************************************************)
(* The books                                                               *)
(***************************************************************************)

\* The session a request is about: found in progress, or one nobody else creates.
LEMMA FindsSession ==
  ASSUME TypeOK, NEW r \in Reqs, IngestFindAuto(r) \/ IngestFindExplicit(r)
  PROVE  \E i \in SessIds :
           /\ target' = [target EXCEPT ![r] = i]
           /\ \/ sess[i].status = "in_progress"
              \/ sess[i].status = "none" /\ \A q \in Reqs : target[q] # i
BY DEF IngestFindAuto, IngestFindExplicit, CreateSession, ActiveFor, InProgress, Creating

LEMMA TargetsStep == TypeOK /\ Targets /\ [Next]_vars => Targets'
<1> SUFFICES ASSUME TypeOK, Targets, [Next]_vars PROVE Targets'
  OBVIOUS
<1> USE DEF Targets, Goto, dbVars, reqVars
<1>0. /\ ipc \in [Reqs -> IngestPCs] /\ spanOf \in [Reqs -> SessIds \union {None}]
      /\ target \in [Reqs -> SessIds \union {None}] /\ None \notin SessIds
  BY ReqsAssumption DEF TypeOK
<1>1. ASSUME NEW r \in Reqs, IngestReadPlan(r) \/ IngestBegin(r) \/ IngestGate(r)
      PROVE  Targets'
  BY <1>0, <1>1 DEF IngestReadPlan, IngestBegin, IngestGate
<1>2. ASSUME NEW r \in Reqs, IngestFindAuto(r) \/ IngestFindExplicit(r) PROVE Targets'
  <2>1. /\ UNCHANGED spanOf /\ ipc[r] = "find" /\ ipc' = [ipc EXCEPT ![r] = "insert"]
    BY <1>2 DEF IngestFindAuto, IngestFindExplicit
  <2> QED
    BY <1>0, <1>2, <2>1, FindsSession
<1>3. ASSUME NEW r \in Reqs, IngestInsert(r) PROVE Targets'
  BY <1>0, <1>3 DEF IngestInsert
<1>4. ASSUME NEW r \in Reqs, IngestCommit(r) PROVE Targets'
  BY <1>0, <1>4 DEF IngestCommit
<1>5. ASSUME NEW r \in Reqs, IngestRollback(r) PROVE Targets'
  BY <1>0, <1>5 DEF IngestRollback
<1>6. CASE ChangePlan \/ Tick \/ NewMonth
  BY <1>6 DEF ChangePlan, Tick, NewMonth
<1>7. CASE UNCHANGED vars
  BY <1>7 DEF vars
<1> QED
  BY <1>1, <1>2, <1>3, <1>4, <1>5, <1>6, <1>7 DEF Next, Ingest

\* The rows after a commit.
LEMMA CommitRows ==
  ASSUME BooksInv, NEW r \in Reqs, IngestCommit(r)
  PROVE  /\ target[r] \in SessIds /\ spanOf[r] = None
         /\ \A i \in SessIds \ {target[r]} : sess'[i] = sess[i]
         /\ sess[target[r]].status = "none" =>
              /\ sess'[target[r]].status = "in_progress"
              /\ sess'[target[r]].ext = (r \in Explicit)
              /\ sess'[target[r]].count = 1
         /\ sess[target[r]].status # "none" =>
              /\ sess'[target[r]].status = sess[target[r]].status
              /\ sess'[target[r]].ext = sess[target[r]].ext
              /\ sess'[target[r]].count = sess[target[r]].count + 1
<1>1. target[r] \in SessIds /\ spanOf[r] = None
  BY DEF BooksInv, Targets, IngestCommit
<1>2. target[r] \in Creating <=> sess[target[r]].status = "none"
  BY <1>1 DEF Creating
<1>3. sess'[target[r]] = AfterSpan(r) /\ \A i \in SessIds \ {target[r]} : sess'[i] = sess[i]
  BY <1>1 DEF IngestCommit, BooksInv, TypeOK
<1>4. sess[target[r]] \in SessionRow
  BY <1>1 DEF BooksInv, TypeOK
<1> QED
  BY <1>1, <1>2, <1>3, <1>4 DEF AfterSpan, SessionRow

LEMMA CreatorsStep == BooksInv /\ [Next]_vars => Creators'
<1> SUFFICES ASSUME BooksInv, [Next]_vars PROVE Creators'
  OBVIOUS
<1> USE DEF Creators
<1>0. /\ TypeOK /\ Targets /\ Creators /\ None \notin SessIds
      /\ target \in [Reqs -> SessIds \union {None}]
  BY ReqsAssumption DEF BooksInv, TypeOK
<1>1. ASSUME NEW r \in Reqs, IngestFindAuto(r) \/ IngestFindExplicit(r) PROVE Creators'
  <2>1. UNCHANGED sess
    BY <1>1 DEF IngestFindAuto, IngestFindExplicit
  <2> QED
    BY <1>0, <1>1, <2>1, FindsSession
<1>2. ASSUME NEW r \in Reqs, IngestCommit(r) PROVE Creators'
  <2>1. UNCHANGED target
    BY <1>2 DEF IngestCommit
  <2>2. \A i \in SessIds : sess'[i].status = "none" => sess[i].status = "none"
    BY <1>2, CommitRows
  <2> QED
    BY <1>0, <2>1, <2>2
<1>3. ASSUME NEW r \in Reqs, IngestRollback(r) PROVE Creators'
  BY <1>0, <1>3 DEF IngestRollback
<1>4. ASSUME UNCHANGED <<sess, target>> PROVE Creators'
  BY <1>0, <1>4
<1> QED
  BY <1>1, <1>2, <1>3, <1>4
  DEF Next, Ingest, IngestReadPlan, IngestBegin, IngestGate, IngestInsert,
      ChangePlan, Tick, NewMonth, dbVars, reqVars, vars

LEMMA SpansFinite ==
  ASSUME NEW i
  PROVE  IsFiniteSet(SpansIn(i)) /\ Cardinality(SpansIn(i)) \in Nat
BY ReqsAssumption, FS_Subset, FS_CardinalityType DEF SpansIn

LEMMA CountsStep == BooksInv /\ [Next]_vars => CountsMatch'
<1> SUFFICES ASSUME BooksInv, [Next]_vars PROVE CountsMatch'
  OBVIOUS
<1>1. ASSUME NEW r \in Reqs, IngestCommit(r) PROVE CountsMatch'
  <2>0. /\ spanOf' = [spanOf EXCEPT ![r] = target[r]]
        /\ spanOf \in [Reqs -> SessIds \union {None}] /\ None \notin SessIds
    BY <1>1, ReqsAssumption DEF IngestCommit, BooksInv, TypeOK
  <2>1. ASSUME NEW i \in SessIds \ {target[r]}
        PROVE  /\ sess'[i].count = Cardinality(SpansIn(i)')
               /\ sess'[i].status # "none" <=> SpansIn(i)' # {}
    <3>1. SpansIn(i)' = SpansIn(i)
      BY <1>1, <2>0, CommitRows DEF SpansIn
    <3> QED
      BY <1>1, <3>1, CommitRows DEF BooksInv, CountsMatch
  <2>2. PICK i \in SessIds : target[r] = i
    BY <1>1, CommitRows
  <2>3. SpansIn(i)' = SpansIn(i) \union {r} /\ r \notin SpansIn(i)
    BY <1>1, <2>0, <2>2, CommitRows DEF SpansIn
  <2>4. Cardinality(SpansIn(i) \union {r}) =
          IF r \in SpansIn(i) THEN Cardinality(SpansIn(i)) ELSE Cardinality(SpansIn(i)) + 1
    BY SpansFinite, FS_AddElement, Zenon
  <2>5. Cardinality(SpansIn(i)') = Cardinality(SpansIn(i)) + 1
    BY <2>3, <2>4
  <2>6. /\ sess[i].count = Cardinality(SpansIn(i))
        /\ sess[i].status # "none" <=> SpansIn(i) # {}
    BY DEF BooksInv, CountsMatch
  <2>7. sess[i].status = "none" => Cardinality(SpansIn(i)) = 0
    BY <2>6, FS_EmptySet
  <2>8. sess'[i].count = Cardinality(SpansIn(i)') /\ sess'[i].status # "none"
    BY <1>1, <2>2, <2>5, <2>6, <2>7, CommitRows
  <2> QED
    BY <2>1, <2>2, <2>3, <2>8 DEF CountsMatch
<1>2. ASSUME UNCHANGED <<sess, spanOf>> PROVE CountsMatch'
  BY <1>2 DEF BooksInv, CountsMatch, SpansIn
<1> QED
  BY <1>1, <1>2
  DEF Next, Ingest, IngestReadPlan, IngestBegin, IngestGate, IngestFindAuto,
      IngestFindExplicit, IngestInsert, IngestRollback, ChangePlan, Tick, NewMonth,
      dbVars, reqVars, vars

LEMMA BooksInit == Init => BooksInv
<1> SUFFICES ASSUME Init PROVE BooksInv
  OBVIOUS
<1>1. None \notin SessIds /\ \A i \in SessIds : SpansIn(i) = {} /\ sess[i] = NoSession
  BY ReqsAssumption DEF Init, SpansIn
<1>2. CountsMatch
  BY <1>1, FS_EmptySet DEF CountsMatch, NoSession
<1>3. Targets /\ Creators
  BY <1>1 DEF Init, Targets, Creators
<1> QED
  BY <1>2, <1>3, TypeInit DEF BooksInv

LEMMA BooksStep == BooksInv /\ [Next]_vars => BooksInv'
BY TypeStep, TargetsStep, CreatorsStep, CountsStep DEF BooksInv

\* The counters of the sessions are right, however transactions interleave and abort,
\* for any number of requests and sessions.
THEOREM BooksKept == Spec => []Bookkeeping
<1>1. BooksInv => Bookkeeping
  BY DEF BooksInv, Bookkeeping
<1> QED
  BY <1>1, BooksInit, BooksStep, PTL DEF Spec
-----------------------------------------------------------------------------
(***************************************************************************)
(* One session for an external id                                          *)
(***************************************************************************)

IInv == BooksInv /\ ExtInv

LEMMA ExtInit == Init => ExtInv
<1> SUFFICES ASSUME Init PROVE ExtInv
  OBVIOUS
<1>1. InProgress = {} /\ None \notin SessIds
  BY ReqsAssumption DEF Init, NoSession, InProgress
<1> QED
  BY <1>1, ReqsAssumption DEF Init, ExtInv, OneExt, CreatesFirst

LEMMA ExtStep == IInv /\ [Next]_vars => ExtInv'
<1> SUFFICES ASSUME IInv, [Next]_vars PROVE ExtInv'
  OBVIOUS
<1> USE DEF OneExt, CreatesFirst
<1>0. /\ BooksInv /\ OneExt /\ CreatesFirst /\ TypeOK /\ Targets /\ Creators
      /\ Explicit \subseteq Reqs /\ None \notin SessIds
      /\ target \in [Reqs -> SessIds \union {None}]
  BY ReqsAssumption DEF IInv, ExtInv, BooksInv, TypeOK
<1>1. ASSUME NEW r \in Reqs, IngestFindAuto(r) PROVE ExtInv'
  <2>1. UNCHANGED sess /\ r \notin Explicit /\ InProgress' = InProgress
    BY <1>1 DEF IngestFindAuto, InProgress
  <2>2. \A q \in Explicit : target'[q] = target[q]
    BY <1>0, <1>1, <2>1, FindsSession
  <2> QED
    BY <1>0, <2>1, <2>2 DEF ExtInv
<1>2. ASSUME NEW r \in Reqs, IngestFindExplicit(r) PROVE ExtInv'
  <2>1. /\ UNCHANGED sess /\ r \in Explicit /\ InProgress' = InProgress
        /\ \A q \in Explicit \ {r} : target[q] \notin Creating
    BY <1>2 DEF IngestFindExplicit, InProgress
  <2>2. PICK i \in SessIds :
          /\ target' = [target EXCEPT ![r] = i]
          /\ sess[i].status = "none" => \A j \in InProgress : ~sess[j].ext
    BY <1>2 DEF IngestFindExplicit, CreateSession, InProgress
  <2>3. \A q \in Explicit \ {r}, j \in SessIds :
          target'[q] = j => sess[j].status # "none"
    BY <1>0, <2>1, <2>2 DEF Creating
  <2> QED
    BY <1>0, <2>1, <2>2, <2>3 DEF ExtInv
<1>3. ASSUME NEW r \in Reqs, IngestCommit(r) PROVE ExtInv'
  <2>1. PICK i \in SessIds : target[r] = i
    BY <1>0, <1>3, CommitRows
  <2>2. UNCHANGED target /\ \A j \in SessIds \ {i} : sess'[j] = sess[j]
    BY <1>0, <1>3, <2>1, CommitRows DEF IngestCommit
  <2>3. CASE sess[i].status = "none"
    <3>1. /\ sess'[i].status = "in_progress" /\ sess'[i].ext = (r \in Explicit)
          /\ InProgress' = InProgress \union {i} /\ i \notin InProgress
      BY <1>0, <1>3, <2>1, <2>2, <2>3, CommitRows DEF InProgress
    <3>2. \A q \in Reqs : target[q] = i => q = r
      BY <1>0, <2>1, <2>3 DEF Creators
    <3>3. r \in Explicit => \A j \in InProgress : ~sess[j].ext
      BY <1>0, <2>1, <2>3
    <3>4. InProgress \subseteq SessIds
      BY DEF InProgress
    <3>5. \A j \in InProgress : sess'[j].ext = sess[j].ext
      BY <2>2, <3>1, <3>4
    <3>6. \A j, k \in InProgress' : sess'[j].ext /\ sess'[k].ext => j = k
      <4> SUFFICES ASSUME NEW j \in InProgress', NEW k \in InProgress',
                          sess'[j].ext, sess'[k].ext
                   PROVE  j = k
        OBVIOUS
      <4>1. CASE j \in InProgress /\ k \in InProgress
        BY <1>0, <3>5, <4>1
      <4>2. CASE j = i \/ k = i
        BY <3>1, <3>3, <3>5, <4>2
      <4> QED
        BY <3>1, <4>1, <4>2
    <3>7. OneExt'
      BY <3>6
    <3>8. CreatesFirst'
      <4> SUFFICES ASSUME NEW q \in Explicit, NEW k \in SessIds,
                          target'[q] = k, sess'[k].status = "none"
                   PROVE  /\ \A j \in InProgress' : ~sess'[j].ext
                          /\ \A p \in Explicit, j \in SessIds :
                               sess'[j].status = "none" /\ target'[p] = j => p = q
        OBVIOUS
      <4>1. k # i /\ target[q] = k /\ sess[k].status = "none"
        BY <2>2, <3>1
      <4>2. /\ \A j \in InProgress : ~sess[j].ext
            /\ \A p \in Explicit, j \in SessIds :
                 sess[j].status = "none" /\ target[p] = j => p = q
        BY <1>0, <4>1
      <4>3. r \notin Explicit
        BY <2>1, <2>3, <4>1, <4>2
      <4>4. \A j \in SessIds : sess'[j].status = "none" => sess[j].status = "none"
        BY <2>2, <3>1
      <4> QED
        BY <2>2, <3>1, <3>5, <4>2, <4>3, <4>4
    <3> QED
      BY <3>7, <3>8 DEF ExtInv
  <2>4. CASE sess[i].status # "none"
    <3>1. /\ \A j \in SessIds : sess'[j].status = sess[j].status /\ sess'[j].ext = sess[j].ext
          /\ InProgress' = InProgress /\ InProgress \subseteq SessIds
      BY <1>0, <1>3, <2>1, <2>2, <2>4, CommitRows DEF InProgress
    <3> QED
      BY <1>0, <2>2, <3>1 DEF ExtInv
  <2> QED
    BY <2>3, <2>4
<1>4. ASSUME NEW r \in Reqs, IngestRollback(r) PROVE ExtInv'
  <2>1. /\ UNCHANGED sess /\ InProgress' = InProgress
        /\ target' = [target EXCEPT ![r] = None]
    BY <1>4 DEF IngestRollback, InProgress
  <2> QED
    BY <1>0, <2>1 DEF ExtInv
<1>5. ASSUME UNCHANGED <<sess, target>> PROVE ExtInv'
  BY <1>0, <1>5 DEF ExtInv, InProgress
<1> QED
  BY <1>1, <1>2, <1>3, <1>4, <1>5
  DEF Next, Ingest, IngestReadPlan, IngestBegin, IngestGate, IngestInsert,
      ChangePlan, Tick, NewMonth, dbVars, reqVars, vars

\* A set without two different members has one at most.
LEMMA AtMostOne ==
  ASSUME NEW S, \A i, j \in S : i = j
  PROVE  Cardinality(S) <= 1
<1>1. CASE S = {}
  BY <1>1, FS_EmptySet
<1>2. ASSUME NEW i \in S PROVE Cardinality(S) <= 1
  <2>1. S = {i}
    OBVIOUS
  <2>2. Cardinality(S) = 1
    BY <2>1, FS_Singleton, Zenon
  <2> QED
    BY <2>2
<1> QED
  BY <1>1, <1>2

\* An external id has one session in progress, for any number of requests that name it at
\* the same time.
THEOREM OneForEachId == Spec => []OneExplicitSession
<1>1. IInv => OneExplicitSession
  <2> SUFFICES ASSUME IInv PROVE OneExplicitSession
    OBVIOUS
  <2>1. \A i, j \in {k \in InProgress : sess[k].ext} : i = j
    BY DEF IInv, ExtInv, OneExt
  <2> QED
    BY <2>1, AtMostOne DEF OneExplicitSession
<1>2. Init => IInv
  BY BooksInit, ExtInit DEF IInv
<1>3. IInv /\ [Next]_vars => IInv'
  BY BooksStep, ExtStep DEF IInv
<1> QED
  BY <1>1, <1>2, <1>3, PTL DEF Spec
-----------------------------------------------------------------------------
(***************************************************************************)
(* The quota                                                               *)
(***************************************************************************)

LEMMA QuotaInit == Init => QuotaInv
<1> SUFFICES ASSUME Init PROVE QuotaInv
  OBVIOUS
<1>1. Counted = {} /\ None \notin Reqs
  BY ReqsAssumption DEF Init, Counted
<1>2. \A S : S \subseteq Counted => S = {}
  BY <1>1
<1>3. Cardinality(Counted) = 0 /\ Cardinality({r \in Counted : tm[r] = period}) = 0
  BY <1>1, FS_EmptySet
<1>4. QuotaHolds
  BY <1>3, BoundsAssumption DEF Init, QuotaHolds, Counted
<1>5. HoldsOrg /\ StillOpen /\ NoneAhead
  BY <1>1 DEF Init, HoldsOrg, StillOpen, NoneAhead
<1> QED
  BY <1>4, <1>5 DEF QuotaInv

LEMMA CountedFinite ==
  /\ IsFiniteSet(Counted) /\ Cardinality(Counted) \in Nat
  /\ \A S \in SUBSET Counted : IsFiniteSet(S) /\ Cardinality(S) \in Nat
<1>1. IsFiniteSet(Counted) /\ \A S \in SUBSET Counted : IsFiniteSet(S)
  BY ReqsAssumption, FS_Subset DEF Counted
<1> QED
  BY <1>1, FS_CardinalityType

\* Only a request of the free plan comes to the gate.
GateIsForFree == \A r \in Reqs : ipc[r] = "gate" => Gated(r)

LEMMA HoldsStep ==
  TypeOK /\ GateIsForFree /\ HoldsOrg /\ [Next]_vars => (GateIsForFree /\ HoldsOrg)'
<1> SUFFICES ASSUME TypeOK, GateIsForFree, HoldsOrg, [Next]_vars
             PROVE  (GateIsForFree /\ HoldsOrg)'
  OBVIOUS
<1> USE DEF GateIsForFree, HoldsOrg, Gated, Goto, dbVars, reqVars
<1>0. /\ ipc \in [Reqs -> IngestPCs] /\ planSeen \in [Reqs -> {"free", "pro"}]
      /\ None \notin Reqs
  BY ReqsAssumption DEF TypeOK
<1>1. ASSUME NEW r \in Reqs, IngestReadPlan(r) PROVE (GateIsForFree /\ HoldsOrg)'
  BY <1>0, <1>1 DEF IngestReadPlan
<1>2. ASSUME NEW r \in Reqs, IngestBegin(r) PROVE (GateIsForFree /\ HoldsOrg)'
  BY <1>0, <1>2 DEF IngestBegin
<1>3. ASSUME NEW r \in Reqs, IngestGate(r) PROVE (GateIsForFree /\ HoldsOrg)'
  BY <1>0, <1>3 DEF IngestGate
<1>4. ASSUME NEW r \in Reqs, IngestFindAuto(r) \/ IngestFindExplicit(r) \/ IngestInsert(r)
      PROVE  (GateIsForFree /\ HoldsOrg)'
  BY <1>0, <1>4 DEF IngestFindAuto, IngestFindExplicit, IngestInsert
<1>5. ASSUME NEW r \in Reqs, IngestCommit(r) \/ IngestRollback(r)
      PROVE  (GateIsForFree /\ HoldsOrg)'
  BY <1>0, <1>5 DEF IngestCommit, IngestRollback, Unlock
<1>6. CASE ChangePlan \/ Tick \/ NewMonth
  BY <1>6 DEF ChangePlan, Tick, NewMonth
<1>7. CASE UNCHANGED vars
  BY <1>7 DEF vars
<1> QED
  BY <1>1, <1>2, <1>3, <1>4, <1>5, <1>6, <1>7 DEF Next, Ingest

\* What the gate found stays true as long as its request holds the row: the plan and the
\* counter belong to that row.
LEMMA OpenStep ==
  ASSUME TypeOK, GateIsForFree, QuotaInv, [Next]_vars
  PROVE  StillOpen'
<1> USE DEF StillOpen, QuotaOpen, dbVars, reqVars
<1>0. /\ StillOpen /\ HoldsOrg /\ None \notin Reqs /\ tm \in [Reqs -> Nat]
  BY ReqsAssumption DEF QuotaInv, TypeOK
<1>1. ASSUME NEW r \in Reqs, IngestBegin(r) PROVE StillOpen'
  <2>1. orgLock # r
    BY <1>0, <1>1 DEF HoldsOrg, IngestBegin
  <2> QED
    BY <1>0, <1>1, <2>1 DEF IngestBegin
<1>2. ASSUME NEW r \in Reqs, IngestGate(r) PROVE StillOpen'
  BY <1>0, <1>2 DEF IngestGate
<1>3. ASSUME NEW r \in Reqs, IngestCommit(r) PROVE StillOpen'
  <2>1. CASE Gated(r)
    <3>1. orgLock = r
      BY <1>0, <1>3, <2>1 DEF HoldsOrg, IngestCommit
    <3> QED
      BY <1>0, <1>3, <3>1 DEF IngestCommit, Unlock
  <2>2. CASE ~Gated(r)
    <3>1. orgLock' = orgLock \/ orgLock' = None
      BY <1>3 DEF IngestCommit, Unlock
    <3>2. UNCHANGED <<plan, counter, period, tm>>
      BY <1>3, <2>2 DEF IngestCommit
    <3> QED
      BY <1>0, <3>1, <3>2
  <2> QED
    BY <2>1, <2>2
<1>4. ASSUME NEW r \in Reqs, IngestRollback(r) PROVE StillOpen'
  BY <1>0, <1>4 DEF IngestRollback, Unlock
<1>5. CASE ChangePlan
  BY <1>0, <1>5 DEF ChangePlan
<1>6. ASSUME UNCHANGED <<orgLock, plan, counter, period, tm>> PROVE StillOpen'
  BY <1>0, <1>6
<1> QED
  BY <1>1, <1>2, <1>3, <1>4, <1>5, <1>6
  DEF Next, Ingest, IngestReadPlan, IngestFindAuto, IngestFindExplicit, IngestInsert,
      Tick, NewMonth, vars

\* A commit of the free plan counts its span, in the period of its month or a later one.
LEMMA CommitCounts ==
  ASSUME TypeOK, GateIsForFree, QuotaInv, NEW r \in Reqs, IngestCommit(r), Gated(r)
  PROVE  (NoneAhead /\ QuotaHolds)'
<1>0. /\ counter \in Nat /\ period \in Nat /\ tm \in [Reqs -> Nat]
      /\ ipc \in [Reqs -> IngestPCs] /\ FreeSpanLimit \in Nat \ {0}
  BY BoundsAssumption DEF TypeOK
<1>1. r \notin Counted /\ Counted' = Counted \union {r}
  BY <1>0 DEF IngestCommit, Counted, Gated, Goto
<1>2. QuotaOpen(r)
  <2>1. orgLock = r
    BY DEF QuotaInv, HoldsOrg, IngestCommit
  <2> QED
    BY <2>1 DEF QuotaInv, StillOpen
<1>3. /\ counter' = (IF period < tm[r] THEN 1 ELSE counter + 1)
      /\ period' = (IF period < tm[r] THEN tm[r] ELSE period)
      /\ UNCHANGED tm
  BY DEF IngestCommit
<1>4. \A q \in Counted : tm[q] <= period /\ q \in Reqs
  BY DEF QuotaInv, NoneAhead, Counted
<1>5. NoneAhead'
  BY <1>0, <1>1, <1>3, <1>4 DEF NoneAhead
<1> DEFINE Now == {q \in Counted : tm[q] = period}
<1>6. /\ counter <= FreeSpanLimit /\ Cardinality(Now) <= counter
      /\ counter <= Cardinality(Counted)
  BY DEF QuotaInv, QuotaHolds, Counted
<1>7. Cardinality(Counted') = Cardinality(Counted) + 1
  <2>1. Cardinality(Counted \union {r}) =
          IF r \in Counted THEN Cardinality(Counted) ELSE Cardinality(Counted) + 1
    BY CountedFinite, FS_AddElement, Zenon
  <2> QED
    BY <1>1, <2>1
<1>8. CASE period < tm[r]
  <2>1. {q \in Counted' : tm'[q] = period'} = {r}
    BY <1>0, <1>1, <1>3, <1>4, <1>8
  <2>2. Cardinality({q \in Counted' : tm'[q] = period'}) = 1
    BY <2>1, FS_Singleton, Zenon
  <2>3. counter' = 1
    BY <1>3, <1>8
  <2> QED
    BY <1>0, <1>5, <1>7, <2>2, <2>3, CountedFinite DEF QuotaHolds, Counted
<1>9. CASE ~(period < tm[r])
  <2>1. counter' = counter + 1 /\ period' = period /\ counter < FreeSpanLimit
    BY <1>2, <1>3, <1>9 DEF QuotaOpen
  <2>2. {q \in Counted' : tm'[q] = period'} \in {Now, Now \union {r}}
    BY <1>1, <1>3, <2>1
  <2>3. IsFiniteSet(Now) /\ Cardinality(Now) \in Nat
    BY CountedFinite
  <2>4. Cardinality(Now \union {r}) = IF r \in Now THEN Cardinality(Now) ELSE Cardinality(Now) + 1
    BY <2>3, FS_AddElement, Zenon
  <2>5. \/ Cardinality({q \in Counted' : tm'[q] = period'}) = Cardinality(Now)
        \/ Cardinality({q \in Counted' : tm'[q] = period'}) = Cardinality(Now \union {r})
    BY <2>2, Zenon
  <2>6. Cardinality({q \in Counted' : tm'[q] = period'}) \in {Cardinality(Now), Cardinality(Now) + 1}
    BY <2>4, <2>5, Zenon
  <2>7. Cardinality({q \in Counted' : tm'[q] = period'}) <= counter'
    BY <1>0, <1>6, <2>1, <2>3, <2>6
  <2> QED
    BY <1>0, <1>5, <1>6, <1>7, <2>1, <2>7, CountedFinite DEF QuotaHolds, Counted
<1> QED
  BY <1>8, <1>9

LEMMA QuotaStep ==
  ASSUME TypeOK, GateIsForFree, QuotaInv, [Next]_vars
  PROVE  (NoneAhead /\ QuotaHolds)'
<1>0. ipc \in [Reqs -> IngestPCs] /\ planSeen \in [Reqs -> {"free", "pro"}]
      /\ tm \in [Reqs -> Nat]
  BY DEF TypeOK
<1>1. ASSUME Counted' = Counted, \A q \in Counted : tm'[q] = tm[q],
             UNCHANGED <<counter, period>>
      PROVE  (NoneAhead /\ QuotaHolds)'
  <2>1. {q \in Counted' : tm'[q] = period'} = {q \in Counted : tm[q] = period}
    BY <1>1
  <2> QED
    BY <1>1, <2>1 DEF QuotaInv, NoneAhead, QuotaHolds, Counted
<1>2. ASSUME NEW r \in Reqs, IngestCommit(r), ~Gated(r) PROVE (NoneAhead /\ QuotaHolds)'
  <2>1. Counted' = Counted /\ UNCHANGED <<counter, period, tm>>
    BY <1>0, <1>2 DEF IngestCommit, Counted, Gated, Goto
  <2> QED
    BY <1>1, <2>1
<1>3. ASSUME NEW r \in Reqs, Ingest(r), ~IngestCommit(r) PROVE (NoneAhead /\ QuotaHolds)'
  <2>1. Counted' = Counted
    BY <1>0, <1>3
    DEF Ingest, IngestReadPlan, IngestBegin, IngestGate, IngestFindAuto, IngestFindExplicit,
        IngestInsert, IngestRollback, Counted, Gated, Goto
  <2>2. UNCHANGED <<counter, period>> /\ \A q \in Counted : tm'[q] = tm[q]
    BY <1>0, <1>3
    DEF Ingest, IngestReadPlan, IngestBegin, IngestGate, IngestFindAuto, IngestFindExplicit,
        IngestInsert, IngestRollback, Counted, dbVars
  <2> QED
    BY <1>1, <2>1, <2>2
<1>4. CASE ChangePlan \/ Tick \/ NewMonth \/ UNCHANGED vars
  <2>1. UNCHANGED <<ipc, planSeen, tm, counter, period>>
    BY <1>4 DEF ChangePlan, Tick, NewMonth, dbVars, reqVars, vars
  <2> QED
    BY <1>1, <2>1 DEF Counted, Gated
<1> QED
  BY <1>2, <1>3, <1>4, CommitCounts DEF Next

\* The quota is kept under any concurrency, for every limit: it is never exceeded, counts
\* every stored span of its period, and counts no other.
THEOREM QuotaKept == Spec => []QuotaHolds
<1> DEFINE Inv == TypeOK /\ Targets /\ GateIsForFree /\ QuotaInv
<1>1. Init => Inv
  BY BooksInit, QuotaInit DEF BooksInv, Init, GateIsForFree
<1>2. Inv /\ [Next]_vars => Inv'
  BY TypeStep, TargetsStep, HoldsStep, OpenStep, QuotaStep DEF QuotaInv
<1>3. Inv => QuotaHolds
  BY DEF QuotaInv
<1> QED
  BY <1>1, <1>2, <1>3, PTL DEF Spec
-----------------------------------------------------------------------------
(***************************************************************************)
(* Closure: what the cron does to the books                                *)
(***************************************************************************)

Closing == \E st \in Statuses : CronClose(st)
Reading == CronList \/ CronCountErrors \/ CronCountDisconnected \/ CronClosed \/ CronFail

\* Every step is one of an ingestion, one that closes, the pipeline's, or one of the cron
\* that leaves the tables alone.
LEMMA CronSteps ==
  [CronNext]_allVars =>
    \/ Next /\ UNCHANGED cronVars
    \/ Closing \/ CronPipeline
    \/ Reading /\ UNCHANGED vars
    \/ UNCHANGED allVars
BY DEF CronNext, Closing, Reading, CronList, CronCountErrors, CronCountDisconnected,
       CronClosed, CronFail

\* A status of a session that is stored becomes another; nothing else changes.
StatusOnly ==
  /\ UNCHANGED <<now, month, plan, counter, period, orgLock, rowLock, spanOf, reqVars>>
  /\ \E st \in [SessIds -> Terminal \union {"in_progress", "none"}] :
       /\ sess' = [i \in SessIds |-> [sess[i] EXCEPT !.status = st[i]]]
       /\ \A i \in SessIds : st[i] = "none" <=> sess[i].status = "none"

LEMMA CronStatusOnly ==
  ASSUME CronTypeOK, Closing \/ CronPipeline
  PROVE  StatusOnly
<1>0. /\ sess \in [SessIds -> SessionRow]
      /\ \A i \in SessIds : sess[i] = [sess[i] EXCEPT !.status = sess[i].status]
  BY DEF CronTypeOK, TypeOK, SessionRow
<1>1. ASSUME NEW new \in Terminal, NEW S \in SUBSET SessIds,
             \A i \in S : sess[i].status # "none",
             sess' = [i \in SessIds |-> IF i \in S THEN [sess[i] EXCEPT !.status = new]
                                        ELSE sess[i]],
             UNCHANGED <<now, month, plan, counter, period, orgLock, rowLock, spanOf, reqVars>>
      PROVE  StatusOnly
  <2> DEFINE st == [i \in SessIds |-> IF i \in S THEN new ELSE sess[i].status]
  <2>1. st \in [SessIds -> Terminal \union {"in_progress", "none"}]
    BY <1>0 DEF SessionRow
  <2>2. \A i \in SessIds : st[i] = "none" <=> sess[i].status = "none"
    BY <1>1 DEF Terminal
  <2>3. sess' = [i \in SessIds |-> [sess[i] EXCEPT !.status = st[i]]]
    BY <1>0, <1>1
  <2> HIDE DEF st
  <2>. QED  BY <1>1, <2>1, <2>2, <2>3 DEF StatusOnly
<1>2. CASE Closing
  <2>1. PICK new \in Terminal : CronClose(new)
    BY <1>2 DEF Closing, Statuses
  <2>2. PICK S \in SUBSET SessIds :
          /\ \A i \in S : sess[i].status # "none"
          /\ sess' = [i \in SessIds |-> IF i \in S THEN [sess[i] EXCEPT !.status = new]
                                        ELSE sess[i]]
    <3> DEFINE T == {i \in Listed : verdict[i] = new} \intersect InProgress
    <3>1. T \in SUBSET SessIds /\ \A i \in T : sess[i].status # "none"
      BY DEF InProgress
    <3>2. sess' = [i \in SessIds |-> IF i \in T THEN [sess[i] EXCEPT !.status = new]
                                        ELSE sess[i]]
      BY <2>1 DEF CronClose
    <3>. QED  BY <3>1, <3>2
  <2>3. UNCHANGED <<now, month, plan, counter, period, orgLock, rowLock, spanOf, reqVars>>
    BY <2>1 DEF CronClose
  <2>. QED  BY <1>1, <2>2, <2>3
<1>3. CASE CronPipeline
  <2>1. PICK S \in SUBSET {i \in Listed : sess[i].status = "completed"} :
          sess' = [i \in SessIds |-> IF i \in S
                    THEN [sess[i] EXCEPT !.status = "completed_with_errors"] ELSE sess[i]]
    BY <1>3 DEF CronPipeline
  <2>2. S \in SUBSET SessIds /\ \A i \in S : sess[i].status # "none"
    BY DEF Listed
  <2>3. UNCHANGED <<now, month, plan, counter, period, orgLock, rowLock, spanOf, reqVars>>
    BY <1>3 DEF CronPipeline
  <2>4. "completed_with_errors" \in Terminal
    BY DEF Terminal
  <2>. QED  BY <1>1, <2>1, <2>2, <2>3, <2>4
<1>. QED  BY <1>2, <1>3

\* The rows after a change of statuses.
LEMMA StatusOnlyRows ==
  ASSUME TypeOK, StatusOnly
  PROVE  /\ TypeOK'
         /\ \A i \in SessIds :
              /\ sess'[i].count = sess[i].count /\ sess'[i].ext = sess[i].ext
              /\ sess'[i].status = "none" <=> sess[i].status = "none"
<1>1. PICK st \in [SessIds -> Terminal \union {"in_progress", "none"}] :
        /\ sess' = [i \in SessIds |-> [sess[i] EXCEPT !.status = st[i]]]
        /\ \A i \in SessIds : st[i] = "none" <=> sess[i].status = "none"
  BY DEF StatusOnly
<1>2. ASSUME NEW i \in SessIds
      PROVE  /\ sess'[i] \in SessionRow /\ sess'[i].status = st[i]
             /\ sess'[i].count = sess[i].count /\ sess'[i].ext = sess[i].ext
  BY <1>1 DEF TypeOK, SessionRow
<1>3. sess' \in [SessIds -> SessionRow]
  <2>1. sess' = [i \in SessIds |-> sess'[i]]
    BY <1>1
  <2>. QED  BY <1>2, <2>1
<1>4. TypeOK'
  BY <1>3 DEF TypeOK, StatusOnly, reqVars
<1>. QED  BY <1>1, <1>2, <1>4

LEMMA StatusOnlyBooks == BooksInv /\ StatusOnly => BooksInv'
<1> SUFFICES ASSUME BooksInv, StatusOnly PROVE BooksInv'
  OBVIOUS
<1>1. TypeOK' /\ \A i \in SessIds :
              /\ sess'[i].count = sess[i].count
              /\ sess'[i].status = "none" <=> sess[i].status = "none"
  BY StatusOnlyRows DEF BooksInv
<1>2. UNCHANGED <<ipc, target, spanOf>>
  BY DEF StatusOnly, reqVars
<1>3. Targets' /\ Creators'
  BY <1>1, <1>2 DEF BooksInv, Targets, Creators
<1>4. CountsMatch'
  BY <1>1, <1>2 DEF BooksInv, CountsMatch, SpansIn
<1>. QED  BY <1>1, <1>3, <1>4 DEF BooksInv

LEMMA CronBooksStep == BooksInv /\ CronTypeOK /\ [CronNext]_allVars => BooksInv'
BY CronSteps, CronStatusOnly, StatusOnlyBooks, BooksStep DEF allVars

\* What an ingestion does to the sessions: spans are added and counted, and the status
\* of a session that is stored stays.
LEMMA IngestRows ==
  ASSUME BooksInv, BooksInv', [Next]_vars, NEW i \in SessIds
  PROVE  /\ SpansIn(i) \subseteq SpansIn(i)'
         /\ sess[i].count <= sess'[i].count
         /\ sess'[i].count = sess[i].count => SpansIn(i)' = SpansIn(i)
         /\ sess[i].status # "none" => sess'[i].status = sess[i].status
         /\ sess[i].status = "none" => sess'[i].status \in {"none", "in_progress"}
<1>1. \A r \in Reqs : spanOf[r] = i => spanOf'[r] = i
  <2>1. ASSUME NEW r \in Reqs, IngestCommit(r) PROVE \A q \in Reqs : spanOf[q] = i => spanOf'[q] = i
    <3>1. spanOf[r] = None /\ spanOf' = [spanOf EXCEPT ![r] = target[r]] /\ i # None
      BY <2>1, CommitRows, ReqsAssumption DEF IngestCommit
    <3>. QED  BY <3>1 DEF BooksInv, TypeOK
  <2>. QED
    BY <2>1
    DEF Next, Ingest, IngestReadPlan, IngestBegin, IngestGate, IngestFindAuto,
        IngestFindExplicit, IngestInsert, IngestRollback, ChangePlan, Tick, NewMonth,
        dbVars, reqVars, vars
<1>2. SpansIn(i) \subseteq SpansIn(i)'
  BY <1>1 DEF SpansIn
<1>3. IsFiniteSet(SpansIn(i)') /\ IsFiniteSet(SpansIn(i))
  BY ReqsAssumption, FS_Subset DEF SpansIn
<1>4. /\ Cardinality(SpansIn(i)) <= Cardinality(SpansIn(i)')
      /\ Cardinality(SpansIn(i)) = Cardinality(SpansIn(i)') => SpansIn(i)' = SpansIn(i)
  BY <1>2, <1>3, FS_Subset
<1>5. sess[i].count = Cardinality(SpansIn(i)) /\ sess'[i].count = Cardinality(SpansIn(i)')
  BY DEF BooksInv, CountsMatch
<1>6. /\ sess[i].status # "none" => sess'[i].status = sess[i].status
      /\ sess[i].status = "none" => sess'[i].status \in {"none", "in_progress"}
  <2>1. ASSUME NEW r \in Reqs, IngestCommit(r)
        PROVE  /\ sess[i].status # "none" => sess'[i].status = sess[i].status
               /\ sess[i].status = "none" => sess'[i].status \in {"none", "in_progress"}
    BY <2>1, CommitRows
  <2>. QED
    BY <2>1
    DEF Next, Ingest, IngestReadPlan, IngestBegin, IngestGate, IngestFindAuto,
        IngestFindExplicit, IngestInsert, IngestRollback, ChangePlan, Tick, NewMonth,
        dbVars, reqVars, vars
<1>. QED  BY <1>2, <1>4, <1>5, <1>6

-----------------------------------------------------------------------------
(***************************************************************************)
(* The types of the cron, and what it knows of the sessions it has listed  *)
(***************************************************************************)

LEMMA StatusForType ==
  ASSUME NEW c, NEW e, NEW d
  PROVE  StatusFor(c, e, d) \in Terminal
BY DEF StatusFor, Terminal

LEMMA CronTypeStep == BooksInv /\ BooksInv' /\ CronTypeOK /\ [CronNext]_allVars => CronTypeOK'
<1> SUFFICES ASSUME BooksInv, BooksInv', CronTypeOK, [CronNext]_allVars PROVE CronTypeOK'
  OBVIOUS
<1> USE DEF CronTypeOK, CronPCs
<1>0. TypeOK' /\ sess \in [SessIds -> SessionRow] /\ \A i \in SessIds : sess[i].count \in Nat
  BY DEF BooksInv, TypeOK, SessionRow
<1>1. CASE UNCHANGED cronVars
  BY <1>0, <1>1 DEF cronVars
<1>2. CASE CronList
  BY <1>0, <1>2 DEF CronList
<1>3. CASE CronCountErrors
  <2>1. \A i \in SessIds : Cardinality(SpansIn(i) \intersect Failing) \in Nat
    BY ReqsAssumption, FS_Subset, FS_CardinalityType DEF SpansIn
  <2>2. errs' \in [SessIds -> Nat]
    BY <1>3, <2>1 DEF CronCountErrors
  <2>. QED  BY <1>0, <1>3, <2>2 DEF CronCountErrors
<1>4. CASE CronCountDisconnected
  <2>1. \A i \in SessIds : verdict'[i] \in Terminal \union {"none"}
    BY <1>4, StatusForType DEF CronCountDisconnected
  <2>2. verdict' \in [SessIds -> Terminal \union {"none"}]
    <3>1. verdict' = [i \in SessIds |-> verdict'[i]]
      BY <1>4 DEF CronCountDisconnected
    <3>. QED  BY <2>1, <3>1
  <2>3. todo' \in SUBSET Terminal
    <3>1. todo' = {verdict'[i] : i \in Listed}
      BY <1>4, Zenon DEF CronCountDisconnected
    <3>2. \A i \in Listed : verdict'[i] \in Terminal
      BY <1>4, StatusForType DEF CronCountDisconnected, Listed
    <3>. QED  BY <3>1, <3>2
  <2>. QED  BY <1>0, <1>4, <2>2, <2>3 DEF CronCountDisconnected
<1>5. CASE Closing
  BY <1>0, <1>5 DEF Closing, CronClose
<1>6. CASE CronClosed
  BY <1>0, <1>6 DEF CronClosed
<1>7. CASE CronPipeline
  BY <1>0, <1>7 DEF CronPipeline, Unlisted, NoVerdict
<1>8. CASE CronFail
  BY <1>0, <1>8 DEF CronFail, Unlisted, NoVerdict
<1>. QED
  BY <1>1, <1>2, <1>3, <1>4, <1>5, <1>6, <1>7, <1>8, CronSteps DEF Reading, allVars

\* A listed session is in progress until its group is closed, and then has the status
\* it was given: nobody but the cron closes one.
ClosedByGroup ==
  \A i \in Listed :
    /\ cpc \in {"errors", "disconnected"} => sess[i].status = "in_progress"
    /\ cpc = "close" => IF verdict[i] \in todo THEN sess[i].status = "in_progress"
                                              ELSE sess[i].status = verdict[i]
    /\ cpc = "pipeline" => sess[i].status = verdict[i]

\* What the counts say is still so, because spans stay; and when no span has come since
\* the session was listed, it is exact.
Counted0(i) ==
  /\ errs[i] > 0 => SpansIn(i) \intersect Failing # {}
  /\ sess[i].count = listed[i] => errs[i] = Cardinality(SpansIn(i) \intersect Failing)
Judged(i) ==
  /\ verdict[i] = "abandoned" => SpansIn(i) \intersect Disconnected # {}
  /\ verdict[i] \in {"failed", "completed_with_errors"} => SpansIn(i) \intersect Failing # {}
  /\ sess[i].count = listed[i] => verdict[i] = DocStatus(i)
Evidence ==
  \A i \in Listed :
    /\ listed[i] > 0 /\ listed[i] <= sess[i].count
    /\ cpc = "disconnected" => Counted0(i)
    /\ cpc = "close" => Judged(i)

\* A span that names its session holds the row of one that is in progress, or is about
\* to create it.
HoldsRow ==
  \A r \in Explicit :
    ipc[r] \in {"insert", "update"} =>
      \/ sess[target[r]].status = "none"
      \/ sess[target[r]].status = "in_progress" /\ rowLock[target[r]] = r

ClosureInv ==
  /\ BooksInv /\ CronTypeOK /\ ClosedByGroup /\ Evidence /\ HoldsRow /\ AnnouncedIsClosed

LEMMA ClosureInit == CronInit => ClosureInv
<1> SUFFICES ASSUME CronInit PROVE ClosureInv
  OBVIOUS
<1>1. Init /\ BooksInv
  BY BooksInit DEF CronInit
<1>2. CronTypeOK
  BY <1>1 DEF CronInit, CronTypeOK, CronPCs, Unlisted, NoVerdict, BooksInv
<1>3. Listed = {}
  BY DEF CronInit, Listed, Unlisted
<1>4. HoldsRow
  BY <1>1, ReqsAssumption DEF Init, HoldsRow
<1>5. AnnouncedIsClosed
  BY DEF CronInit, AnnouncedIsClosed, NoVerdict
<1>. QED  BY <1>1, <1>2, <1>3, <1>4, <1>5 DEF ClosureInv, ClosedByGroup, Evidence

LEMMA HoldsRowIngest ==
  ASSUME BooksInv, HoldsRow, [Next]_vars
  PROVE  HoldsRow'
<1>0. /\ ipc \in [Reqs -> IngestPCs] /\ target \in [Reqs -> SessIds \union {None}]
      /\ rowLock \in [SessIds -> Reqs \union {None}] /\ None \notin Reqs \union SessIds
      /\ Explicit \subseteq Reqs
      /\ \A r \in Reqs : ipc[r] \in {"insert", "update"} => target[r] \in SessIds
  BY ReqsAssumption DEF BooksInv, TypeOK, Targets
<1>1. ASSUME NEW q \in Reqs, IngestFindExplicit(q) PROVE HoldsRow'
  <2>1. /\ UNCHANGED sess /\ ipc' = [ipc EXCEPT ![q] = "insert"]
    BY <1>1 DEF IngestFindExplicit, Goto
  <2>2. PICK i \in SessIds :
          /\ target' = [target EXCEPT ![q] = i]
          /\ \/ /\ sess[i].status = "in_progress" /\ rowLock[i] = None
                /\ rowLock' = [rowLock EXCEPT ![i] = q]
             \/ sess[i].status = "none" /\ UNCHANGED rowLock
    BY <1>1 DEF IngestFindExplicit, CreateSession, InProgress
  <2>. QED  BY <1>0, <2>1, <2>2 DEF HoldsRow
<1>2. ASSUME NEW q \in Reqs, IngestFindAuto(q) PROVE HoldsRow'
  <2>1. /\ UNCHANGED <<sess, rowLock>> /\ q \notin Explicit
        /\ \A r \in Explicit : ipc'[r] = ipc[r] /\ target'[r] = target[r]
    BY <1>0, <1>2, FindsSession DEF IngestFindAuto, CreateSession, Goto, BooksInv
  <2>. QED  BY <2>1 DEF HoldsRow
<1>3. ASSUME NEW q \in Reqs, IngestInsert(q) PROVE HoldsRow'
  BY <1>0, <1>3 DEF IngestInsert, Goto, dbVars, HoldsRow
<1>4. ASSUME NEW q \in Reqs, IngestCommit(q) PROVE HoldsRow'
  <2>1. /\ UNCHANGED target /\ ipc' = [ipc EXCEPT ![q] = "stored"]
        /\ rowLock' = [i \in SessIds |-> IF rowLock[i] = q THEN None ELSE rowLock[i]]
    BY <1>4 DEF IngestCommit, Goto, Unlock
  <2>2. ASSUME NEW r \in Explicit, ipc'[r] \in {"insert", "update"}
        PROVE  \/ sess'[target[r]].status = "none"
               \/ sess'[target[r]].status = "in_progress" /\ rowLock'[target[r]] = r
    <3>1. r # q /\ ipc[r] \in {"insert", "update"} /\ target[r] \in SessIds
      BY <1>0, <2>1, <2>2
    <3>2. CASE target[r] = target[q] /\ sess[target[q]].status = "none"
      BY <1>0, <3>1, <3>2 DEF BooksInv, Creators
    <3>3. CASE target[r] # target[q]
      BY <1>0, <1>4, <2>1, <3>1, <3>3, CommitRows DEF HoldsRow
    <3>4. CASE target[r] = target[q] /\ sess[target[q]].status # "none"
      BY <1>0, <1>4, <2>1, <3>1, <3>4, CommitRows DEF HoldsRow
    <3>. QED  BY <3>2, <3>3, <3>4
  <2>. QED  BY <2>1, <2>2 DEF HoldsRow
<1>5. ASSUME NEW q \in Reqs, IngestRollback(q) PROVE HoldsRow'
  <2>1. /\ UNCHANGED sess /\ ipc' = [ipc EXCEPT ![q] = "failed"]
        /\ target' = [target EXCEPT ![q] = None]
        /\ rowLock' = [i \in SessIds |-> IF rowLock[i] = q THEN None ELSE rowLock[i]]
    BY <1>5 DEF IngestRollback, Goto, Unlock
  <2>. QED  BY <1>0, <2>1 DEF HoldsRow
<1>6. ASSUME NEW q \in Reqs, IngestReadPlan(q) \/ IngestBegin(q) \/ IngestGate(q)
      PROVE  HoldsRow'
  <2>1. /\ UNCHANGED <<sess, target, rowLock>>
        /\ \A r \in Reqs : ipc'[r] \in {"insert", "update"} => ipc[r] = ipc'[r]
    BY <1>0, <1>6 DEF IngestReadPlan, IngestBegin, IngestGate, Goto, dbVars
  <2>. QED  BY <1>0, <2>1 DEF HoldsRow
<1>7. CASE ChangePlan \/ Tick \/ NewMonth \/ UNCHANGED vars
  BY <1>7 DEF ChangePlan, Tick, NewMonth, reqVars, dbVars, vars, HoldsRow
<1>. QED
  BY <1>1, <1>2, <1>3, <1>4, <1>5, <1>6, <1>7 DEF Next, Ingest

LEMMA SpansFiniteEach ==
  ASSUME NEW S \in SUBSET Reqs
  PROVE  IsFiniteSet(S) /\ Cardinality(S) \in Nat /\ (Cardinality(S) > 0 <=> S # {})
BY ReqsAssumption, FS_Subset, FS_CardinalityType, FS_EmptySet

\* What is listed is stored, with a span.
LEMMA ListedStored ==
  ASSUME BooksInv, CronTypeOK, Evidence, NEW i \in Listed
  PROVE  sess[i].status # "none" /\ SpansIn(i) # {}
<1>1. i \in SessIds /\ listed[i] \in Int /\ sess[i].count \in Nat /\ sess[i].count > 0
  BY DEF Listed, Evidence, CronTypeOK, BooksInv, TypeOK, SessionRow
<1>2. SpansIn(i) \in SUBSET Reqs
  BY DEF SpansIn
<1>. QED  BY <1>1, <1>2, SpansFiniteEach DEF BooksInv, CountsMatch

LEMMA IngestClosure ==
  ASSUME ClosureInv, BooksInv', Next, UNCHANGED cronVars
  PROVE  ClosedByGroup' /\ Evidence' /\ AnnouncedIsClosed'
<1>0. /\ BooksInv /\ CronTypeOK /\ ClosedByGroup /\ Evidence /\ AnnouncedIsClosed
      /\ Listed' = Listed /\ Listed \subseteq SessIds
      /\ UNCHANGED <<cpc, listed, errs, verdict, todo, published>>
  BY DEF ClosureInv, Listed, cronVars
<1>1. \A i \in SessIds :
        /\ SpansIn(i) \subseteq SpansIn(i)' /\ sess[i].count <= sess'[i].count
        /\ sess'[i].count = sess[i].count => SpansIn(i)' = SpansIn(i)
        /\ sess[i].status # "none" => sess'[i].status = sess[i].status
        /\ sess[i].count \in Nat /\ sess'[i].count \in Nat /\ listed[i] \in Int
  BY <1>0, IngestRows DEF BooksInv, TypeOK, SessionRow, CronTypeOK
<1>2. ClosedByGroup'
  BY <1>0, <1>1, ListedStored DEF ClosedByGroup
<1>3. Evidence'
  <2>1. ASSUME NEW i \in Listed
        PROVE  /\ listed[i] > 0 /\ listed[i] <= sess'[i].count
               /\ cpc = "disconnected" => Counted0(i)'
               /\ cpc = "close" => Judged(i)'
    <3>1. i \in SessIds /\ listed[i] > 0 /\ listed[i] <= sess[i].count
      BY <1>0, <2>1 DEF Evidence
    <3>2. sess'[i].count = listed[i] =>
            sess[i].count = listed[i] /\ SpansIn(i)' = SpansIn(i)
      BY <1>1, <3>1
    <3>3. cpc = "disconnected" => Counted0(i)'
      BY <1>0, <1>1, <3>1, <3>2 DEF Evidence, Counted0
    <3>4. cpc = "close" => Judged(i)'
      BY <1>0, <1>1, <3>1, <3>2 DEF Evidence, Judged, DocStatus
    <3>5. listed[i] <= sess'[i].count
      BY <1>1, <3>1
    <3>. QED  BY <3>1, <3>3, <3>4, <3>5
  <2>. QED  BY <1>0, <2>1 DEF Evidence
<1>4. AnnouncedIsClosed'
  BY <1>0, <1>1 DEF AnnouncedIsClosed, CronTypeOK, Terminal
<1>. QED  BY <1>2, <1>3, <1>4

LEMMA ListClosure ==
  ASSUME ClosureInv, CronList
  PROVE  ClosedByGroup' /\ Evidence' /\ AnnouncedIsClosed'
<1>1. /\ UNCHANGED vars /\ cpc' = "errors" /\ published' = published
      /\ listed' = [i \in SessIds |-> IF Idle(i) THEN sess[i].count ELSE -1]
  BY DEF CronList
<1>2. ASSUME NEW i \in Listed'
      PROVE  /\ sess[i].status = "in_progress" /\ i \in SessIds
             /\ listed'[i] > 0 /\ listed'[i] <= sess[i].count
  <2>1. i \in SessIds /\ Idle(i) /\ listed'[i] = sess[i].count
    BY <1>1, <1>2 DEF Listed
  <2>2. sess[i].status = "in_progress" /\ SpansIn(i) \in SUBSET Reqs
    BY <2>1 DEF Idle, InProgress, SpansIn
  <2>3. sess[i].count = Cardinality(SpansIn(i)) /\ SpansIn(i) # {}
    BY <2>1, <2>2 DEF ClosureInv, BooksInv, CountsMatch
  <2>. QED  BY <2>1, <2>2, <2>3, SpansFiniteEach
<1>3. AnnouncedIsClosed'
  BY <1>1 DEF ClosureInv, AnnouncedIsClosed, vars, dbVars
<1>. QED  BY <1>1, <1>2, <1>3 DEF ClosedByGroup, Evidence, vars, dbVars

LEMMA ErrorsClosure ==
  ASSUME ClosureInv, CronCountErrors
  PROVE  ClosedByGroup' /\ Evidence' /\ AnnouncedIsClosed'
<1>1. /\ UNCHANGED <<sess, spanOf, listed, verdict, todo, published>> /\ Listed' = Listed
      /\ cpc = "errors" /\ cpc' = "disconnected" /\ Listed \subseteq SessIds
      /\ errs' = [i \in SessIds |-> Cardinality(SpansIn(i) \intersect Failing)]
  BY DEF CronCountErrors, vars, dbVars, Listed
<1>2. \A i \in SessIds : SpansIn(i)' = SpansIn(i) /\ SpansIn(i) \intersect Failing \in SUBSET Reqs
  BY <1>1 DEF SpansIn
<1>3. \A i \in Listed : Counted0(i)'
  BY <1>1, <1>2, SpansFiniteEach DEF Counted0
<1>4. ClosedByGroup' /\ AnnouncedIsClosed'
  BY <1>1 DEF ClosureInv, ClosedByGroup, AnnouncedIsClosed
<1>. QED  BY <1>1, <1>3, <1>4 DEF ClosureInv, Evidence

\* The status that the heuristic gives is earned, and exact without a late span.
LEMMA VerdictIsEarned ==
  ASSUME ClosureInv, NEW i \in Listed, cpc = "disconnected",
         NEW v, v = StatusFor(listed[i], errs[i], Cardinality(SpansIn(i) \intersect Disconnected))
  PROVE  /\ v = "abandoned" => SpansIn(i) \intersect Disconnected # {}
         /\ v \in {"failed", "completed_with_errors"} => SpansIn(i) \intersect Failing # {}
         /\ sess[i].count = listed[i] => v = DocStatus(i)
<1> DEFINE S == SpansIn(i)  D == S \intersect Disconnected  E == S \intersect Failing
<1>1. /\ i \in SessIds /\ listed[i] \in Int /\ errs[i] \in Nat /\ listed[i] > 0
      /\ Counted0(i) /\ sess[i].count = Cardinality(S)
  BY DEF Listed, ClosureInv, CronTypeOK, Evidence, BooksInv, CountsMatch
<1>2. S \in SUBSET Reqs /\ D \in SUBSET Reqs /\ E \in SUBSET Reqs /\ E \in SUBSET S
  BY DEF SpansIn
<1> HIDE DEF S, D, E
<1>3. /\ Cardinality(D) \in Nat /\ (Cardinality(D) > 0 <=> D # {})
      /\ Cardinality(E) \in Nat /\ (Cardinality(E) > 0 <=> E # {})
      /\ IsFiniteSet(S) /\ Cardinality(S) \in Nat
  BY <1>2, SpansFiniteEach
<1>4. Cardinality(E) = Cardinality(S) <=> E = S
  BY <1>2, <1>3, FS_Subset
<1>5. /\ v = "abandoned" <=> D # {}
      /\ v \in {"failed", "completed_with_errors"} => errs[i] > 0
  BY <1>1, <1>3 DEF StatusFor, D, S
<1>6. errs[i] > 0 => E # {}
  BY <1>1 DEF Counted0, E, S
<1>7. ASSUME sess[i].count = listed[i] PROVE v = DocStatus(i)
  <2>1. listed[i] = Cardinality(S) /\ errs[i] = Cardinality(E)
    BY <1>1, <1>7 DEF Counted0, E, S
  <2>2. S \subseteq Failing <=> E = S
    BY DEF E
  <2>3. v = IF D # {} THEN "abandoned" ELSE IF E = S THEN "failed"
            ELSE IF E # {} THEN "completed_with_errors" ELSE "completed"
    BY <1>3, <1>4, <2>1 DEF StatusFor, D, S
  <2>. QED  BY <2>2, <2>3 DEF DocStatus, D, E, S
<1>. QED  BY <1>5, <1>6, <1>7 DEF D, E, S

LEMMA DisconnectedClosure ==
  ASSUME ClosureInv, CronCountDisconnected
  PROVE  ClosedByGroup' /\ Evidence' /\ AnnouncedIsClosed'
<1>1. /\ UNCHANGED <<sess, spanOf, listed, errs, published>> /\ Listed' = Listed
      /\ cpc = "disconnected" /\ cpc' = "close" /\ Listed \subseteq SessIds
      /\ todo' = {verdict'[i] : i \in Listed}
  BY DEF CronCountDisconnected, vars, dbVars, Listed
<1>2. \A i \in Listed :
        verdict'[i] = StatusFor(listed[i], errs[i], Cardinality(SpansIn(i) \intersect Disconnected))
  BY <1>1 DEF CronCountDisconnected
<1>3. \A i \in SessIds : SpansIn(i)' = SpansIn(i) /\ DocStatus(i)' = DocStatus(i)
  BY <1>1 DEF SpansIn, DocStatus
<1>4. ASSUME NEW i \in Listed PROVE Judged(i)'
  <2>1. PICK v : v = verdict'[i]
    OBVIOUS
  <2>2. /\ v = "abandoned" => SpansIn(i) \intersect Disconnected # {}
        /\ v \in {"failed", "completed_with_errors"} => SpansIn(i) \intersect Failing # {}
        /\ sess[i].count = listed[i] => v = DocStatus(i)
    BY <1>1, <1>2, <2>1, VerdictIsEarned
  <2>. QED  BY <1>1, <1>3, <2>1, <2>2 DEF Judged
<1>5. ClosedByGroup' /\ AnnouncedIsClosed'
  BY <1>1 DEF ClosureInv, ClosedByGroup, AnnouncedIsClosed
<1>. QED  BY <1>1, <1>4, <1>5 DEF ClosureInv, Evidence

LEMMA CloseClosure ==
  ASSUME ClosureInv, Closing
  PROVE  ClosedByGroup' /\ Evidence' /\ AnnouncedIsClosed' /\ HoldsRow'
<1>1. PICK st \in Terminal : CronClose(st)
  BY DEF Closing, Statuses
<1>2. PICK G \in SUBSET SessIds : G = {i \in Listed : verdict[i] = st}
  BY DEF Listed
<1>3. /\ UNCHANGED <<cpc, listed, verdict, published, spanOf, rowLock, ipc, target>>
      /\ todo' = todo \ {st} /\ st \in todo /\ cpc = "close"
      /\ \A i \in G : rowLock[i] = None
      /\ Listed' = Listed /\ Listed \subseteq SessIds
  BY <1>1, <1>2 DEF CronClose, Listed, reqVars
<1>4. \A i \in G : sess[i].status = "in_progress"
  BY <1>2, <1>3 DEF ClosureInv, ClosedByGroup
<1>5. sess' = [i \in SessIds |-> IF i \in G THEN [sess[i] EXCEPT !.status = st] ELSE sess[i]]
  <2>1. sess' = [i \in SessIds |-> IF i \in G \intersect InProgress
                                   THEN [sess[i] EXCEPT !.status = st] ELSE sess[i]]
    BY <1>1, <1>2 DEF CronClose
  <2>2. G \intersect InProgress = G
    BY <1>2, <1>4 DEF InProgress
  <2>. QED  BY <2>1, <2>2
<1>6. \A i \in SessIds :
        /\ sess'[i].count = sess[i].count
        /\ sess'[i].status = IF i \in G THEN st ELSE sess[i].status
        /\ SpansIn(i)' = SpansIn(i)
  BY <1>3, <1>5 DEF ClosureInv, BooksInv, TypeOK, SessionRow, SpansIn
<1>7. ClosedByGroup'
  BY <1>2, <1>3, <1>6 DEF ClosureInv, ClosedByGroup
<1>8. Evidence'
  <2>1. ASSUME NEW i \in Listed
        PROVE  listed[i] > 0 /\ listed[i] <= sess'[i].count /\ Judged(i)'
    BY <1>3, <1>6, <2>1 DEF ClosureInv, Evidence, Judged, DocStatus
  <2>. QED  BY <1>3, <2>1 DEF Evidence
<1>9. AnnouncedIsClosed'
  BY <1>3, <1>4, <1>6 DEF ClosureInv, AnnouncedIsClosed, CronTypeOK, Terminal
<1>10. HoldsRow'
  <2>1. ASSUME NEW r \in Explicit, ipc[r] \in {"insert", "update"}
        PROVE  target[r] \in SessIds /\ (target[r] \in G => sess[target[r]].status = "none")
    <3>1. r \in Reqs /\ r # None
      BY ReqsAssumption
    <3>2. target[r] \in SessIds
      BY <2>1, <3>1 DEF ClosureInv, BooksInv, Targets
    <3>. QED  BY <1>3, <2>1, <3>1, <3>2 DEF ClosureInv, HoldsRow
  <2>. QED  BY <1>3, <1>4, <1>6, <2>1 DEF ClosureInv, HoldsRow
<1>. QED  BY <1>7, <1>8, <1>9, <1>10

LEMMA PipelineClosure ==
  ASSUME ClosureInv, CronPipeline
  PROVE  ClosedByGroup' /\ Evidence' /\ AnnouncedIsClosed' /\ HoldsRow'
<1>1. PICK up \in SUBSET {i \in Listed : sess[i].status = "completed"} :
        sess' = [i \in SessIds |-> IF i \in up
                    THEN [sess[i] EXCEPT !.status = "completed_with_errors"] ELSE sess[i]]
  BY DEF CronPipeline
<1>2. /\ cpc = "pipeline" /\ listed' = Unlisted /\ UNCHANGED <<ipc, target, rowLock>>
      /\ published' = [i \in SessIds |-> IF i \in Listed THEN verdict[i] ELSE published[i]]
  BY DEF CronPipeline, reqVars
<1>3. Listed' = {} /\ Listed \subseteq SessIds
  BY <1>2 DEF Listed, Unlisted
<1>4. \A i \in SessIds :
        sess'[i].status = IF i \in up THEN "completed_with_errors" ELSE sess[i].status
  BY <1>1 DEF ClosureInv, BooksInv, TypeOK, SessionRow
<1>5. AnnouncedIsClosed'
  <2>1. \A i \in Listed : sess[i].status = verdict[i]
    BY <1>2 DEF ClosureInv, ClosedByGroup
  <2>. QED  BY <1>1, <1>2, <1>4, <2>1 DEF ClosureInv, AnnouncedIsClosed
<1>6. HoldsRow'
  <2>1. \A r \in Explicit : ipc[r] \in {"insert", "update"} => target[r] \in SessIds
    BY ReqsAssumption DEF ClosureInv, BooksInv, Targets
  <2>. QED  BY <1>1, <1>2, <1>4, <2>1 DEF ClosureInv, HoldsRow
<1>. QED  BY <1>3, <1>5, <1>6 DEF ClosedByGroup, Evidence

\* The steps that end a run or its loop over the groups change no row.
LEMMA EndClosure ==
  ASSUME ClosureInv, CronClosed \/ CronFail
  PROVE  ClosedByGroup' /\ Evidence' /\ AnnouncedIsClosed'
<1>1. UNCHANGED <<sess, spanOf, published>>
  BY DEF CronClosed, CronFail, vars, dbVars
<1>2. AnnouncedIsClosed'
  BY <1>1 DEF ClosureInv, AnnouncedIsClosed
<1>3. CASE CronFail
  BY <1>2, <1>3 DEF CronFail, Listed, Unlisted, ClosedByGroup, Evidence
<1>4. CASE CronClosed
  <2>1. /\ cpc = "close" /\ cpc' = "pipeline" /\ todo = {} /\ Listed' = Listed
        /\ UNCHANGED <<listed, verdict>>
    BY <1>4 DEF CronClosed, Listed
  <2>. QED  BY <1>1, <1>2, <2>1 DEF ClosureInv, ClosedByGroup, Evidence
<1>. QED  BY <1>3, <1>4

LEMMA ClosureStep == ClosureInv /\ [CronNext]_allVars => ClosureInv'
<1> SUFFICES ASSUME ClosureInv, [CronNext]_allVars PROVE ClosureInv'
  OBVIOUS
<1>1. BooksInv' /\ CronTypeOK'
  BY CronBooksStep, CronTypeStep DEF ClosureInv
<1>2. ClosedByGroup' /\ Evidence' /\ AnnouncedIsClosed' /\ HoldsRow'
  <2>1. CASE Next /\ UNCHANGED cronVars
    BY <1>1, <2>1, IngestClosure, HoldsRowIngest DEF ClosureInv
  <2>2. CASE Closing
    BY <2>2, CloseClosure
  <2>3. CASE CronPipeline
    BY <2>3, PipelineClosure
  <2>4. CASE Reading /\ UNCHANGED vars
    <3>1. HoldsRow'
      BY <2>4 DEF ClosureInv, HoldsRow, vars, dbVars, reqVars
    <3>. QED
      BY <2>4, <3>1, ListClosure, ErrorsClosure, DisconnectedClosure, EndClosure DEF Reading
  <2>5. CASE UNCHANGED allVars
    <3>1. /\ UNCHANGED <<sess, spanOf, ipc, target, rowLock>>
          /\ UNCHANGED <<cpc, listed, errs, verdict, todo, published>>
          /\ Listed' = Listed
      BY <2>5 DEF allVars, cronVars, vars, dbVars, reqVars, Listed
    <3>2. \A i \in SessIds : SpansIn(i)' = SpansIn(i)
      BY <3>1 DEF SpansIn
    <3>3. Evidence'
      <4>1. \A i \in Listed : i \in SessIds
        BY DEF Listed
      <4>. QED  BY <3>1, <3>2, <4>1 DEF ClosureInv, Evidence, Counted0, Judged, DocStatus
    <3>. QED
      BY <3>1, <3>3 DEF ClosureInv, ClosedByGroup, HoldsRow, AnnouncedIsClosed
  <2>. QED  BY <2>1, <2>2, <2>3, <2>4, <2>5, CronSteps
<1>. QED  BY <1>1, <1>2 DEF ClosureInv

\* The cron's variables have their types, and what it announced as closed is closed in the
\* database: RunSessionClosureCron publishes only after every group was closed.
THEOREM ClosureKept == CronSpec => []CronInv
<1>1. CronSpec => []ClosureInv
  BY ClosureInit, ClosureStep, PTL DEF CronSpec
<1>2. ClosureInv => CronInv
  BY DEF ClosureInv, CronInv
<1>. QED  BY <1>1, <1>2, PTL

-----------------------------------------------------------------------------
\* Who may close a session that is in progress: the cron, with its verdict.
LEMMA ClosedByVerdict ==
  ASSUME ClosureInv, BooksInv', [CronNext]_allVars, NEW i \in SessIds,
         sess[i].status = "in_progress", sess'[i].status # "in_progress"
  PROVE  i \in Listed /\ Judged(i) /\ sess'[i].status = verdict[i]
<1>0. sess \in [SessIds -> SessionRow]
  BY DEF ClosureInv, BooksInv, TypeOK
<1>1. CASE Next
  BY <1>1, IngestRows DEF ClosureInv
<1>2. CASE Closing
  <2>1. PICK st \in Terminal : CronClose(st)
    BY <1>2 DEF Closing, Statuses
  <2>2. i \in Listed /\ verdict[i] = st /\ sess'[i].status = st /\ cpc = "close"
    BY <1>0, <2>1 DEF CronClose, SessionRow
  <2>. QED  BY <2>2 DEF ClosureInv, Evidence
<1>3. CASE CronPipeline
  BY <1>0, <1>3 DEF CronPipeline, SessionRow
<1>4. CASE UNCHANGED vars
  BY <1>4 DEF vars, dbVars
<1>. QED  BY <1>1, <1>2, <1>3, <1>4, CronSteps DEF allVars

\* A status that blames is earned, and a session that received no span since it was listed
\* is closed with exactly the documented status: the counts of CountErrorSpansForSessions
\* and CountDisconnectedSpansForSessions stay true because no span is taken away.
THEOREM StatusEarned == CronSpec => StatusIsEarned
<1>1. CronSpec => []ClosureInv
  BY ClosureInit, ClosureStep, PTL DEF CronSpec
<1>2. ClosureInv /\ BooksInv' /\ [CronNext]_allVars =>
        [\A i \in SessIds :
           sess[i].status = "in_progress" =>
             /\ sess'[i].status = "abandoned" => SpansIn(i) \intersect Disconnected # {}
             /\ sess'[i].status \in {"failed", "completed_with_errors"}
                  => SpansIn(i) \intersect Failing # {}]_allVars
  BY ClosedByVerdict DEF Judged
<1>3. ClosureInv /\ BooksInv' /\ [CronNext]_allVars =>
        [\A i \in SessIds :
           sess[i].status = "in_progress" /\ sess'[i].status \in Terminal
             => \/ sess'[i].status = DocStatus(i)
                \/ sess[i].count # listed[i]]_allVars
  BY ClosedByVerdict DEF Judged, Terminal
<1>4. ClosureInv => BooksInv
  BY DEF ClosureInv
<1>5. CronSpec => BlameIsEarned
  BY <1>1, <1>2, <1>4, PTL DEF CronSpec, BlameIsEarned
<1>6. CronSpec => UndisturbedIsExact
  BY <1>1, <1>3, <1>4, PTL DEF CronSpec, UndisturbedIsExact
<1>. QED  BY <1>5, <1>6 DEF StatusIsEarned

-----------------------------------------------------------------------------
LEMMA FinalStep ==
  ASSUME ClosureInv, BooksInv', [CronNext]_allVars, NEW i \in SessIds,
         sess[i].status \in Terminal
  PROVE  \/ sess'[i].status = sess[i].status
         \/ sess[i].status = "completed" /\ sess'[i].status = "completed_with_errors"
<1>0. sess \in [SessIds -> SessionRow]
  BY DEF ClosureInv, BooksInv, TypeOK
<1>1. CASE Next
  BY <1>1, IngestRows DEF ClosureInv, Terminal
<1>2. CASE Closing
  BY <1>0, <1>2 DEF Closing, CronClose, SessionRow, InProgress, Terminal
<1>3. CASE CronPipeline
  BY <1>0, <1>3 DEF CronPipeline, SessionRow
<1>4. CASE UNCHANGED vars
  BY <1>4 DEF vars, dbVars
<1>. QED  BY <1>1, <1>2, <1>3, <1>4, CronSteps DEF allVars

LEMMA ExplicitStep ==
  ASSUME ClosureInv, [CronNext]_allVars, NEW r \in Explicit, NEW i \in SessIds,
         spanOf[r] = None, spanOf'[r] = i
  PROVE  sess'[i].status = "in_progress"
<1>0. r \in Reqs /\ None \notin SessIds /\ spanOf \in [Reqs -> SessIds \union {None}]
  BY ReqsAssumption DEF ClosureInv, BooksInv, TypeOK
<1>1. ASSUME NEW q \in Reqs, IngestCommit(q) PROVE sess'[i].status = "in_progress"
  <2>1. q = r /\ target[r] = i /\ ipc[r] = "update"
    BY <1>0, <1>1 DEF IngestCommit
  <2>. QED  BY <1>0, <1>1, <2>1, CommitRows DEF ClosureInv, HoldsRow
<1>2. ASSUME UNCHANGED spanOf PROVE FALSE
  BY <1>0, <1>2
<1>3. CASE Next
  <2>1. (\E q \in Reqs : IngestCommit(q)) \/ UNCHANGED spanOf
    BY <1>3 DEF Next, Ingest, IngestReadPlan, IngestBegin, IngestGate, IngestFindAuto,
        IngestFindExplicit, IngestInsert, IngestRollback, ChangePlan, Tick, NewMonth,
        dbVars
  <2>. QED  BY <1>1, <1>2, <2>1
<1>4. CASE Closing \/ CronPipeline
  BY <1>2, <1>4 DEF Closing, CronClose, CronPipeline
<1>5. CASE UNCHANGED vars
  BY <1>2, <1>5 DEF vars, dbVars
<1>. QED  BY <1>3, <1>4, <1>5, CronSteps DEF allVars

\* "Terminal statuses are never reversed", and a span that names its session is never added
\* to a closed one: the upsert holds the session's row until the commit, and
\* CloseSessionsWithStatus waits for it.
THEOREM ClosedForGood == CronSpec => ClosedStaysClosed
<1>1. CronSpec => []ClosureInv
  BY ClosureInit, ClosureStep, PTL DEF CronSpec
<1>2. ClosureInv /\ BooksInv' /\ [CronNext]_allVars =>
        [\A i \in SessIds :
           sess[i].status \in Terminal =>
             \/ sess'[i].status = sess[i].status
             \/ sess[i].status = "completed"
                /\ sess'[i].status = "completed_with_errors"]_allVars
  BY FinalStep
<1>3. ClosureInv /\ [CronNext]_allVars =>
        [\A r \in Explicit, i \in SessIds :
           spanOf[r] = None /\ spanOf'[r] = i => sess'[i].status = "in_progress"]_allVars
  BY ExplicitStep
<1>4. ClosureInv => BooksInv
  BY DEF ClosureInv
<1>5. CronSpec => TerminalIsFinal
  BY <1>1, <1>2, <1>4, PTL DEF CronSpec, TerminalIsFinal
<1>6. CronSpec => ExplicitSpanFindsOpenSession
  BY <1>1, <1>3, PTL DEF CronSpec, ExplicitSpanFindsOpenSession
<1>. QED  BY <1>5, <1>6 DEF ClosedStaysClosed
=============================================================================

----------------------------- MODULE IngestSpan -----------------------------
(***************************************************************************)
(* Span ingestion in Processing: IngestSpan of internal/service/           *)
(* internal.go and the SQL it runs, for the spans of one organization and  *)
(* one API key.  A request reads the plan, opens a transaction, passes the *)
(* quota gate, finds or creates a session, inserts the span and its        *)
(* masking map, and updates the session, with the other requests, the      *)
(* clock and plan changes in between.                                      *)
(*                                                                         *)
(* Postgres is external, at READ COMMITTED: each statement sees what was   *)
(* committed before it, an UPDATE (and ON CONFLICT DO UPDATE) holds its    *)
(* row until the transaction ends, NOW() is the transaction's start, a     *)
(* unique index makes a second insert wait for the first, and a failed     *)
(* statement dooms the rest of its transaction.                            *)
(***************************************************************************)
EXTENDS Integers, FiniteSets

CONSTANTS
  Reqs,           \* ingest requests; a request is also the span it inserts
  Explicit,       \* requests that name the session with X-AgentOrbit-Session
  Failing,        \* requests whose span has http_status >= 400
  Disconnected,   \* requests whose span has client_disconnected
  Masked,         \* requests with masking map entries
  SessIds,        \* session ids the database may hand out
  FreeSpanLimit,  \* monthly quota of the free plan
  Timeout,        \* session_timeout_seconds, in clock ticks
  LastArrival,    \* bound: no transaction begins after this time
  LastMonth,      \* bound: months the clock passes through
  Plans,          \* plans the organization may have
  None

ASSUME ReqsAssumption ==
  /\ IsFiniteSet(Reqs) /\ IsFiniteSet(SessIds)
  /\ Explicit \subseteq Reqs /\ Failing \subseteq Reqs
  /\ Disconnected \subseteq Reqs /\ Masked \subseteq Reqs
  /\ None \notin Reqs \union SessIds
ASSUME BoundsAssumption ==
  /\ FreeSpanLimit \in Nat \ {0} /\ Timeout \in Nat
  /\ LastArrival \in Nat /\ LastMonth \in Nat
ASSUME PlansAssumption == Plans \subseteq {"free", "pro"}

VARIABLES
  now, month,    \* the database clock
  plan,          \* organizations.plan
  counter,       \* organizations.spans_this_month_count
  period,        \* organizations.spans_count_period_start
  orgLock,       \* the transaction that holds the organization's row
  sess,          \* the sessions table, committed rows
  rowLock,       \* rowLock[i]: the transaction that holds session i's row
  spanOf,        \* the spans table: spanOf[r] is the session of span r
  ipc,           \* ipc[r]: where request r is in IngestSpan
  planSeen,      \* planSeen[r]: the plan read before the transaction
  ts, tm,        \* ts[r], tm[r]: NOW() and its month in r's transaction
  target,        \* target[r]: the session r found or created
  txAborted      \* txAborted[r]: a statement of r's transaction failed

dbVars == <<now, month, plan, counter, period, orgLock, sess, rowLock, spanOf>>
reqVars == <<ipc, planSeen, ts, tm, target, txAborted>>
vars == <<dbVars, reqVars>>

Terminal == {"completed", "completed_with_errors", "failed", "abandoned"}
IngestPCs == {"new", "begin", "gate", "find", "insert", "update",
              "stored", "refused", "failed"}

NoSession == [status |-> "none", ext |-> FALSE, count |-> 0, last |-> 0]

Init ==
  /\ now = 0 /\ month = 0
  /\ plan \in Plans
  /\ counter = 0 /\ period = 0
  /\ orgLock = None
  /\ sess = [i \in SessIds |-> NoSession]
  /\ rowLock = [i \in SessIds |-> None]
  /\ spanOf = [r \in Reqs |-> None]
  /\ ipc = [r \in Reqs |-> "new"]
  /\ planSeen = [r \in Reqs |-> "free"]
  /\ ts = [r \in Reqs |-> 0] /\ tm = [r \in Reqs |-> 0]
  /\ target = [r \in Reqs |-> None]
  /\ txAborted = [r \in Reqs |-> FALSE]

Goto(r, l) == ipc' = [ipc EXCEPT ![r] = l]

Gated(r) == planSeen[r] = "free"

\* Sessions some open transaction is about to insert.
Creating == {i \in SessIds : sess[i].status = "none" /\ \E r \in Reqs : target[r] = i}
InProgress == {i \in SessIds : sess[i].status = "in_progress"}

\* The end of a transaction gives its row locks back.
Unlock(r) ==
  /\ orgLock' = IF orgLock = r THEN None ELSE orgLock
  /\ rowLock' = [i \in SessIds |-> IF rowLock[i] = r THEN None ELSE rowLock[i]]
-----------------------------------------------------------------------------
\* GetOrganizationByID, outside the transaction.  The validation and the price
\* lookup before it either return an error, with no effect, or change nothing.
IngestReadPlan(r) ==
  /\ ipc[r] = "new"
  /\ planSeen' = [planSeen EXCEPT ![r] = plan]
  /\ Goto(r, "begin")
  /\ UNCHANGED <<dbVars, ts, tm, target, txAborted>>

\* BEGIN: NOW() is fixed from here to the commit.
IngestBegin(r) ==
  /\ ipc[r] = "begin"
  /\ now <= LastArrival
  /\ ts' = [ts EXCEPT ![r] = now]
  /\ tm' = [tm EXCEPT ![r] = month]
  /\ Goto(r, IF Gated(r) THEN "gate" ELSE "find")
  /\ UNCHANGED <<dbVars, planSeen, target, txAborted>>

\* The WHERE clause of TryIncrementOrgSpanCounter.
QuotaOpen(r) == plan = "free" /\ (period < tm[r] \/ counter < FreeSpanLimit)

\* Faulty variant: the counter is read without taking the row.
IngestGateNoLock(r) ==
  /\ ipc[r] = "gate"
  /\ \/ QuotaOpen(r) /\ Goto(r, "find")
     \/ ~QuotaOpen(r) /\ Goto(r, "refused")
  /\ UNCHANGED <<dbVars, planSeen, ts, tm, target, txAborted>>

\* TryIncrementOrgSpanCounter takes the organization's row; no row returned
\* means quota exceeded, and the transaction is rolled back.
IngestGate(r) ==
  /\ ipc[r] = "gate"
  /\ orgLock = None
  /\ \/ QuotaOpen(r) /\ orgLock' = r /\ Goto(r, "find")
     \/ ~QuotaOpen(r) /\ Goto(r, "refused") /\ UNCHANGED orgLock
  /\ UNCHANGED <<now, month, plan, counter, period, sess, rowLock, spanOf>>
  /\ UNCHANGED <<planSeen, ts, tm, target, txAborted>>

\* The rows FindActiveSessionForAPIKey may return: LIMIT 1 by last_span_at.
ActiveFor(r) ==
  LET fresh == {i \in InProgress : sess[i].last >= ts[r] - Timeout}
  IN  {i \in fresh : \A j \in fresh : sess[j].last <= sess[i].last}

\* CreateSession, or the insert of FindOrCreateExplicitSession: a new row, not
\* visible to others before the commit.
CreateSession(r) ==
  \E i \in SessIds :
    /\ sess[i].status = "none" /\ i \notin Creating
    /\ target' = [target EXCEPT ![r] = i]
    /\ UNCHANGED rowLock

\* Auto-grouping: find an active session of the key without locking it, or
\* create one.
IngestFindAuto(r) ==
  /\ ipc[r] = "find" /\ r \notin Explicit
  /\ \/ /\ ActiveFor(r) # {}
        /\ \E i \in ActiveFor(r) : target' = [target EXCEPT ![r] = i]
        /\ UNCHANGED rowLock
     \/ ActiveFor(r) = {} /\ CreateSession(r)
  /\ Goto(r, "insert")
  /\ UNCHANGED <<now, month, plan, counter, period, orgLock, sess, spanOf>>
  /\ UNCHANGED <<planSeen, ts, tm, txAborted>>

\* Faulty variant: look the session up first and insert it if there is none,
\* without the unique index and its row lock.
IngestFindExplicitNoUpsert(r) ==
  /\ ipc[r] = "find" /\ r \in Explicit
  /\ \/ \E i \in InProgress : sess[i].ext /\ target' = [target EXCEPT ![r] = i]
                              /\ UNCHANGED rowLock
     \/ (\A i \in InProgress : ~sess[i].ext) /\ CreateSession(r)
  /\ Goto(r, "insert")
  /\ UNCHANGED <<now, month, plan, counter, period, orgLock, sess, spanOf>>
  /\ UNCHANGED <<planSeen, ts, tm, txAborted>>

\* FindOrCreateExplicitSession: the partial unique index makes the statement
\* wait for another insert of the same external id, and DO UPDATE takes the row
\* of the session that is in progress, whether or not it is idle.
IngestFindExplicit(r) ==
  /\ ipc[r] = "find" /\ r \in Explicit
  /\ \A q \in Explicit \ {r} : target[q] \notin Creating
  /\ \/ \E i \in InProgress :
          /\ sess[i].ext /\ rowLock[i] = None
          /\ rowLock' = [rowLock EXCEPT ![i] = r]
          /\ target' = [target EXCEPT ![r] = i]
     \/ (\A i \in InProgress : ~sess[i].ext) /\ CreateSession(r)
  /\ Goto(r, "insert")
  /\ UNCHANGED <<now, month, plan, counter, period, orgLock, sess, spanOf>>
  /\ UNCHANGED <<planSeen, ts, tm, txAborted>>

\* InsertSpan and the loop of InsertSpanMaskingMap, whose errors are logged
\* and otherwise ignored: but the transaction is aborted from then on.
IngestInsert(r) ==
  /\ ipc[r] = "insert"
  /\ \/ UNCHANGED txAborted
     \/ r \in Masked /\ txAborted' = [txAborted EXCEPT ![r] = TRUE]
  /\ Goto(r, "update")
  /\ UNCHANGED <<dbVars, planSeen, ts, tm, target>>

\* Faulty variant: span_count is not incremented for a session that exists.
AfterSpanNoCount(r) ==
  LET i == target[r] IN
  IF i \in Creating
  THEN [status |-> "in_progress", ext |-> r \in Explicit, count |-> 1, last |-> ts[r]]
  ELSE [sess[i] EXCEPT !.last = ts[r]]

\* The row UpdateSessionAfterSpan writes, or the new row with its first span;
\* last_span_at is NOW(), the start of the transaction.
AfterSpan(r) ==
  LET i == target[r] IN
  IF i \in Creating
  THEN [status |-> "in_progress", ext |-> r \in Explicit, count |-> 1, last |-> ts[r]]
  ELSE [sess[i] EXCEPT !.count = @ + 1, !.last = ts[r]]

\* UpdateSessionAfterSpan and the commit, which makes span, session and counter
\* visible together.  The events published afterwards change no state here.
IngestCommit(r) ==
  /\ ipc[r] = "update" /\ ~txAborted[r]
  /\ rowLock[target[r]] \in {None, r}
  /\ sess' = [sess EXCEPT ![target[r]] = AfterSpan(r)]
  /\ spanOf' = [spanOf EXCEPT ![r] = target[r]]
  /\ IF Gated(r)
     THEN /\ counter' = IF period < tm[r] THEN 1 ELSE counter + 1
          /\ period' = IF period < tm[r] THEN tm[r] ELSE period
     ELSE UNCHANGED <<counter, period>>
  /\ Unlock(r)
  /\ Goto(r, "stored")
  /\ UNCHANGED <<now, month, plan, planSeen, ts, tm, target, txAborted>>

\* A statement fails, or the context ends: WithTx rolls everything back.
IngestRollback(r) ==
  /\ ipc[r] \in {"begin", "gate", "find", "insert", "update"}
  /\ Unlock(r)
  /\ target' = [target EXCEPT ![r] = None]
  /\ Goto(r, "failed")
  /\ UNCHANGED <<now, month, plan, counter, period, sess, spanOf>>
  /\ UNCHANGED <<planSeen, ts, tm, txAborted>>

Ingest(r) ==
  \/ IngestReadPlan(r) \/ IngestBegin(r) \/ IngestGate(r)
  \/ IngestFindAuto(r) \/ IngestFindExplicit(r)
  \/ IngestInsert(r) \/ IngestCommit(r) \/ IngestRollback(r)

\* Billing, outside this repository, changes the plan of the organization.
ChangePlan ==
  /\ orgLock = None
  /\ \E p \in Plans \ {plan} : plan' = p
  /\ UNCHANGED <<now, month, counter, period, orgLock, sess, rowLock, spanOf, reqVars>>

\* The clock; its last value leaves every session time to become idle.
Tick ==
  /\ now < LastArrival + Timeout + 1
  /\ now' = now + 1
  /\ UNCHANGED <<month, plan, counter, period, orgLock, sess, rowLock, spanOf, reqVars>>

NewMonth ==
  /\ month < LastMonth
  /\ month' = month + 1
  /\ UNCHANGED <<now, plan, counter, period, orgLock, sess, rowLock, spanOf, reqVars>>

Next ==
  \/ \E r \in Reqs : Ingest(r)
  \/ ChangePlan \/ Tick \/ NewMonth

Spec == Init /\ [][Next]_vars
-----------------------------------------------------------------------------
SpansIn(i) == {r \in Reqs : spanOf[r] = i}

SessionRow == [status : {"none", "in_progress"} \union Terminal, ext : BOOLEAN,
               count : Nat, last : Nat]

\* The types of the tables and of the requests' local state.
TypeOK ==
  /\ now \in Nat /\ month \in Nat /\ plan \in {"free", "pro"}
  /\ counter \in Nat /\ period \in Nat
  /\ orgLock \in Reqs \union {None}
  /\ sess \in [SessIds -> SessionRow]
  /\ rowLock \in [SessIds -> Reqs \union {None}]
  /\ spanOf \in [Reqs -> SessIds \union {None}]
  /\ ipc \in [Reqs -> IngestPCs]
  /\ planSeen \in [Reqs -> {"free", "pro"}]
  /\ ts \in [Reqs -> Nat] /\ tm \in [Reqs -> Nat]
  /\ target \in [Reqs -> SessIds \union {None}]
  /\ txAborted \in [Reqs -> BOOLEAN]

\* sessions.span_count is the number of spans stored in the session, however
\* transactions interleave and abort; no session is stored without a span.
CountsMatch ==
  \A i \in SessIds :
    /\ sess[i].count = Cardinality(SpansIn(i))
    /\ sess[i].status # "none" <=> SpansIn(i) # {}

\* The partial unique index: an external id has one session in progress, so
\* that all concurrent spans that name it are bundled together.
OneExplicitSession ==
  Cardinality({i \in InProgress : sess[i].ext}) <= 1

\* The quota under concurrency: the counter never passes the limit, counts
\* every stored span of its period that went through the gate, and counts no
\* span that was not stored: a rolled back ingestion gives its increment back.
QuotaHolds ==
  LET counted == {r \in Reqs : ipc[r] = "stored" /\ Gated(r)} IN
  /\ counter <= FreeSpanLimit
  /\ Cardinality({r \in counted : tm[r] = period}) <= counter
  /\ counter <= Cardinality(counted)

\* The comment on the masking map loop: "Non-fatal: masking map is audit data,
\* don't fail span ingestion".
MaskingMapNonFatal == \A r \in Reqs : ipc[r] = "failed" => ~txAborted[r]

\* The books are kept: the variables have their types, and the counters of the sessions
\* count the spans that are stored.
Bookkeeping == TypeOK /\ CountsMatch
=============================================================================

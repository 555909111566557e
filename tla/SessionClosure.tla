--------------------------- MODULE SessionClosure ---------------------------
(***************************************************************************)
(* RunSessionClosureCron of Processing's internal/service/internal.go,     *)
(* together with the ingestion it runs against.  The cron lists the idle   *)
(* sessions, counts their failed and their disconnected spans, and closes  *)
(* them group by group, in separate statements without a transaction;      *)
(* then it runs the intelligence pipeline and publishes.  The singleflight *)
(* guard and the advisory lock let one run at a time.                      *)
(***************************************************************************)
EXTENDS IngestSpan

VARIABLES
  cpc,        \* where the cron is
  listed,     \* listed[i]: span_count of session i when it was listed, or -1
  errs,       \* errs[i]: failed spans counted for session i
  verdict,    \* verdict[i]: the status the heuristic gave session i, or "none"
  todo,       \* keys of statusGroups that are not closed yet
  published   \* published[i]: the closing status published for i, or "none"

cronVars == <<cpc, listed, errs, verdict, todo, published>>
allVars == <<vars, cronVars>>

CronPCs == {"idle", "errors", "disconnected", "close", "pipeline"}
Unlisted == [i \in SessIds |-> -1]
NoVerdict == [i \in SessIds |-> "none"]

CronInit ==
  /\ Init
  /\ cpc = "idle"
  /\ listed = Unlisted
  /\ errs = [i \in SessIds |-> 0]
  /\ verdict = NoVerdict
  /\ todo = {}
  /\ published = NoVerdict

Idle(i) == i \in InProgress /\ sess[i].last < now - Timeout
Listed == {i \in SessIds : listed[i] >= 0}

\* GetIdleSessionsForClosure, when it returns a row.
CronList ==
  /\ cpc = "idle"
  /\ \E i \in SessIds : Idle(i)
  /\ listed' = [i \in SessIds |-> IF Idle(i) THEN sess[i].count ELSE -1]
  /\ cpc' = "errors"
  /\ UNCHANGED <<vars, errs, verdict, todo, published>>

\* CountErrorSpansForSessions
CronCountErrors ==
  /\ cpc = "errors"
  /\ errs' = [i \in SessIds |-> Cardinality(SpansIn(i) \intersect Failing)]
  /\ cpc' = "disconnected"
  /\ UNCHANGED <<vars, listed, verdict, todo, published>>

\* Faulty variant: off by one in the comparison.
StatusForOffByOne(count, errorCount, disconnectedCount) ==
  IF disconnectedCount > 0 THEN "abandoned"
  ELSE IF errorCount >= count - 1 THEN "failed"
  ELSE IF errorCount > 0 THEN "completed_with_errors"
  ELSE "completed"

\* The status heuristic, from the three reads.
StatusFor(count, errorCount, disconnectedCount) ==
  IF disconnectedCount > 0 THEN "abandoned"
  ELSE IF errorCount = count THEN "failed"
  ELSE IF errorCount > 0 THEN "completed_with_errors"
  ELSE "completed"

\* CountDisconnectedSpansForSessions, and the grouping by status.
CronCountDisconnected ==
  /\ cpc = "disconnected"
  /\ verdict' = [i \in SessIds |->
       IF i \in Listed
       THEN StatusFor(listed[i], errs[i], Cardinality(SpansIn(i) \intersect Disconnected))
       ELSE "none"]
  /\ todo' = {verdict'[i] : i \in Listed}
  /\ cpc' = "close"
  /\ UNCHANGED <<vars, listed, errs, published>>

\* Faulty variant: the UPDATE lacks AND status = 'in_progress', and does not
\* look at which sessions it was given.
CronCloseUnguarded(st) ==
  LET group == {i \in Listed : verdict[i] = st} IN
  /\ cpc = "close" /\ st \in todo
  /\ sess' = [i \in SessIds |-> IF sess[i].status # "none"
                                THEN [sess[i] EXCEPT !.status = st] ELSE sess[i]]
  /\ todo' = todo \ {st}
  /\ UNCHANGED <<now, month, plan, counter, period, orgLock, rowLock, spanOf>>
  /\ UNCHANGED <<reqVars, cpc, listed, errs, verdict, published>>

\* CloseSessionsWithStatus for one group, in map order: waits for the rows
\* ingestion holds, and leaves alone what is no longer in progress.
CronClose(st) ==
  LET group == {i \in Listed : verdict[i] = st} IN
  /\ cpc = "close" /\ st \in todo
  /\ \A i \in group : rowLock[i] = None
  /\ sess' = [i \in SessIds |-> IF i \in group \intersect InProgress
                                THEN [sess[i] EXCEPT !.status = st] ELSE sess[i]]
  /\ todo' = todo \ {st}
  /\ UNCHANGED <<now, month, plan, counter, period, orgLock, rowLock, spanOf>>
  /\ UNCHANGED <<reqVars, cpc, listed, errs, verdict, published>>

\* Faulty variant: a group that could not be closed does not end the run.
CronClosedSkips ==
  /\ cpc = "close"
  /\ cpc' = "pipeline" /\ todo' = {}
  /\ UNCHANGED <<vars, listed, errs, verdict, published>>

\* The loop over statusGroups ends.
CronClosed ==
  /\ cpc = "close" /\ todo = {}
  /\ cpc' = "pipeline"
  /\ UNCHANGED <<vars, listed, errs, verdict, todo, published>>

\* RunPipeline for every listed session, in which UpgradeSessionToErrors may
\* raise completed to completed_with_errors, then the events.
CronPipeline ==
  /\ cpc = "pipeline"
  /\ \E up \in SUBSET {i \in Listed : sess[i].status = "completed"} :
       sess' = [i \in SessIds |-> IF i \in up
                  THEN [sess[i] EXCEPT !.status = "completed_with_errors"] ELSE sess[i]]
  /\ published' = [i \in SessIds |-> IF i \in Listed THEN verdict[i] ELSE published[i]]
  /\ listed' = Unlisted /\ verdict' = NoVerdict
  /\ cpc' = "idle"
  /\ UNCHANGED <<now, month, plan, counter, period, orgLock, rowLock, spanOf>>
  /\ UNCHANGED <<reqVars, errs, todo>>

\* Faulty variant: the error return leaves the cron marked as running.
CronFailStuck ==
  /\ cpc # "idle"
  /\ cpc' = "stuck"
  /\ listed' = Unlisted /\ verdict' = NoVerdict /\ todo' = {}
  /\ UNCHANGED <<vars, errs, published>>

\* A query fails, the run is cancelled or the process restarts: what was closed
\* stays closed, the rest is left to the next run.
CronFail ==
  /\ cpc # "idle"
  /\ cpc' = "idle"
  /\ listed' = Unlisted /\ verdict' = NoVerdict /\ todo' = {}
  /\ UNCHANGED <<vars, errs, published>>

Statuses == Terminal

CronNext ==
  \/ Next /\ UNCHANGED cronVars
  \/ CronList \/ CronCountErrors \/ CronCountDisconnected
  \/ \E st \in Statuses : CronClose(st)
  \/ CronClosed \/ CronPipeline \/ CronFail

CronSpec == CronInit /\ [][CronNext]_allVars

(***************************************************************************)
(* The ticker keeps starting the cron, the clock runs, and a request that  *)
(* began ends (its context has a deadline).  Runs may fail, but not for    *)
(* ever: the step that closes a group is strongly fair.                    *)
(***************************************************************************)
CronFairSpec ==
  /\ CronSpec
  /\ WF_allVars(Tick /\ UNCHANGED cronVars)
  /\ WF_allVars(CronList)
  /\ WF_allVars(CronClosed) /\ WF_allVars(CronPipeline)
  /\ SF_allVars(CronCountErrors) /\ SF_allVars(CronCountDisconnected)
  /\ \A st \in Statuses : SF_allVars(CronClose(st))
  /\ \A r \in Reqs : WF_allVars(ipc[r] # "new" /\ Ingest(r) /\ UNCHANGED cronVars)
-----------------------------------------------------------------------------
\* The types of the cron's local state.
CronTypeOK ==
  /\ TypeOK
  /\ cpc \in CronPCs
  /\ listed \in [SessIds -> Int]
  /\ errs \in [SessIds -> Nat]
  /\ verdict \in [SessIds -> Terminal \union {"none"}]
  /\ todo \in SUBSET Terminal
  /\ published \in [SessIds -> Terminal \union {"none"}]

\* The status heuristic as its doc states it, over the spans stored now.
DocStatus(i) ==
  IF SpansIn(i) \intersect Disconnected # {} THEN "abandoned"
  ELSE IF SpansIn(i) \subseteq Failing THEN "failed"
  ELSE IF SpansIn(i) \intersect Failing # {} THEN "completed_with_errors"
  ELSE "completed"

\* A status that blames is earned, whatever arrived while the cron was
\* counting: an abandoned session has a disconnected span, a failed one and one
\* that completed with errors at closing have a failed span.
BlameIsEarned ==
  [][\A i \in SessIds :
       sess[i].status = "in_progress" =>
         /\ sess'[i].status = "abandoned" => SpansIn(i) \intersect Disconnected # {}
         /\ sess'[i].status \in {"failed", "completed_with_errors"}
              => SpansIn(i) \intersect Failing # {}]_allVars

\* A session that received no span since it was listed is closed with exactly
\* the status the documented heuristic gives its spans.
UndisturbedIsExact ==
  [][\A i \in SessIds :
       sess[i].status = "in_progress" /\ sess'[i].status \in Terminal
         => \/ sess'[i].status = DocStatus(i)
            \/ sess[i].count # listed[i]]_allVars

\* "Terminal statuses are never reversed": a closed session stays closed, and
\* only the pipeline may still raise completed to completed_with_errors.
TerminalIsFinal ==
  [][\A i \in SessIds :
       sess[i].status \in Terminal =>
         \/ sess'[i].status = sess[i].status
         \/ sess[i].status = "completed" /\ sess'[i].status = "completed_with_errors"]_allVars

\* What session.updated announced as closed is closed in the database, with the
\* announced status or with the one the pipeline raised it to: a run that fails
\* to close one group announces none of them.
AnnouncedIsClosed ==
  \A i \in SessIds :
    \/ published[i] \in {"none", sess[i].status}
    \/ published[i] = "completed" /\ sess[i].status = "completed_with_errors"

\* A span that names its session is never added to a closed one: the row lock
\* of the upsert keeps the cron out until the commit.
ExplicitSpanFindsOpenSession ==
  [][\A r \in Explicit, i \in SessIds :
       spanOf[r] = None /\ spanOf'[r] = i => sess'[i].status = "in_progress"]_allVars

\* Every session is closed in the end, although runs of the cron fail.
SessionsClose ==
  \A i \in SessIds : sess[i].status = "in_progress" ~> sess[i].status \in Terminal

\* The status a session is closed with is earned by the spans it has, and exact when
\* nothing arrived meanwhile.
StatusIsEarned == BlameIsEarned /\ UndisturbedIsExact

\* A closed session stays closed, for the cron, the pipeline and the ingestions.
ClosedStaysClosed == TerminalIsFinal /\ ExplicitSpanFindsOpenSession

\* The cron's variables have their types, and what it announced is what is stored.
CronInv == CronTypeOK /\ AnnouncedIsClosed
=============================================================================

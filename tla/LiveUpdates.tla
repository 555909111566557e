---------------------------- MODULE LiveUpdates ----------------------------
(***************************************************************************)
(* How the web client keeps what is on the screen up to date: the two      *)
(* WebSocket hooks (web/src/hooks/use-websocket.ts), the queries of the    *)
(* dashboard, of the session list and of the session page, and the side of *)
(* processing that feeds them (hub.go and websocket.go).                   *)
(*                                                                         *)
(* A mount of a page runs the hook's effect once; the effect owns its      *)
(* timers and whatever sockets it opened, but its variable ws names only   *)
(* the last of them.  The cache and the WebSocket object are libraries and *)
(* are modelled from how the hooks use them.  An organization switch       *)
(* re-runs the effect exactly as a change of page does, so one             *)
(* organization is enough; the session page shows one session.  A filter,  *)
(* a sort order and a date range are parts of a query key and only matter  *)
(* when they change.                                                       *)
(***************************************************************************)
EXTENDS Naturals, FiniteSets

CONSTANTS
  Mounts,         \* how many times a live page is opened (bound)
  Sockets,        \* WebSocket objects that are not closed at one time (bound)
  Live,           \* the pages visited, a subset of {"dash", "sessions", "detail"}
  Links,          \* the pages the user goes to from each page, or from "other" (bound)
  MaxAttempts,    \* MAX_RECONNECT_ATTEMPTS
  MaxKeys,        \* how often a range, a filter or an order is changed (bound)
  MaxFaults,      \* network and request failures (bound)
  MaxStored,      \* sessions (spans, on the session page) that arrive (bound)
  PageSize,       \* the limit of a page of the session list
  Buffer,         \* events processing holds for one connection
  None            \* no socket, no data

ASSUME LiveAssumption ==
  /\ Mounts \in Nat \ {0}
  /\ Live \subseteq {"dash", "sessions", "detail"}
  /\ Links \in [Live \cup {"other"} -> SUBSET (Live \cup {"other"})]
  /\ MaxAttempts \in Nat \ {0} /\ MaxKeys \in Nat
  /\ MaxFaults \in Nat /\ MaxStored \in Nat
  /\ PageSize \in Nat \ {0} /\ Buffer \in Nat \ {0}
  /\ None \notin Sockets /\ None \notin Nat

VARIABLES
  view,       \* the page on the screen; "other" is a page without a hook
  cur,        \* the latest mount
  eff,        \* the closure of each mount's effect
  sock,       \* the WebSocket objects
  conn,       \* processing's side of each socket
  status,     \* useWSStore's status, the dot in the sidebar
  stored,     \* how much processing has stored
  horizon,    \* `to` of the dashboard: what had been stored by then
  cache,      \* the query of each page
  keys,       \* the changes of a query key so far
  heard,      \* history: what was stored at the last event about each page, of
              \* what its query asks for
  lost,       \* history: whether no refetch came of that event
  faults

history   == <<heard, lost>>
netVars   == <<eff, sock, conn, status>>
dataVars  == <<stored, horizon, cache, keys, history>>
vars      == <<view, cur, netVars, dataVars, faults>>

Effects == 1 .. Mounts
Count   == 0 .. MaxStored
Lesser(a, b) == IF a <= b THEN a ELSE b

\* The closure variables of the hook; `armed` is whether reconnectTimer was ever
\* assigned, which it stays: it is never reset to null.
Closure == [on : BOOLEAN, page : Live, debounce : BOOLEAN, timers : Nat,
            armed : BOOLEAN, attempt : 0 .. MaxAttempts, ws : Sockets \cup {None}]
Socket  == [state : {"connecting", "open", "closing", "closed"}, owner : Effects, err : BOOLEAN]
Conn    == [topic : {"none", "asked", "held"}, queue : 0 .. Buffer]
Query   == [data : Count \cup {None}, invalid : BOOLEAN, failed : BOOLEAN,
            fetch : {"none", "sent", "answered"}, more : BOOLEAN, upto : Count, got : Count]

TypeOK ==
  /\ view \in Live \cup {"other"} /\ cur \in Effects
  /\ eff \in [Effects -> Closure] /\ sock \in [Sockets -> Socket] /\ conn \in [Sockets -> Conn]
  /\ status \in {"connecting", "connected", "disconnected"}
  /\ stored \in Count /\ horizon \in Count
  /\ cache \in [Live -> Query] /\ heard \in [Live -> Count] /\ lost \in [Live -> BOOLEAN]
  /\ keys \in 0 .. MaxKeys
  /\ faults \in 0 .. MaxFaults

NewConn    == [topic |-> "none", queue |-> 0]
Ended      == [state |-> "closed", owner |-> 1, err |-> FALSE]
NewQuery   == [data |-> None, invalid |-> FALSE, failed |-> FALSE,
               fetch |-> "none", more |-> FALSE, upto |-> 0, got |-> 0]
Mounted(p) == [on |-> TRUE, page |-> p, debounce |-> TRUE, timers |-> 0,
               armed |-> FALSE, attempt |-> 0, ws |-> None]

\* What a request sent now asks for: the dashboard's ends at `to`.
Upto(p, to)    == IF p = "dash" THEN to ELSE MaxStored
Settled(q)     == [q EXCEPT !.fetch = "none", !.more = FALSE, !.upto = 0, !.got = 0]
\* A request; one that has no data to keep starts as a first load again.
Sent(q, p, to) == [q EXCEPT !.fetch = "sent", !.more = FALSE, !.upto = Upto(p, to),
                            !.failed = @ /\ q.data # None]
\* A query that becomes active fetches when it has no data or stale data; data are
\* stale 30 s after they arrived, or once they are invalidated.
Activated(q, p, to, stale) ==
  IF q.fetch = "none" /\ (q.data = None \/ stale \/ q.invalid) THEN Sent(q, p, to) ELSE q

Init ==
  /\ view \in Live /\ cur = 1 /\ stored = 0 /\ horizon = 0 /\ keys = 0 /\ faults = 0
  /\ eff = [e \in Effects |-> [Mounted(view) EXCEPT !.on = (e = 1), !.debounce = (e = 1)]]
  /\ sock = [s \in Sockets |-> Ended]
  /\ conn = [s \in Sockets |-> NewConn]
  /\ status = "disconnected"
  /\ cache = [p \in Live |-> IF p = view THEN Sent(NewQuery, p, 0) ELSE NewQuery]
  /\ heard = [p \in Live |-> 0] /\ lost = [p \in Live |-> FALSE]

------------------------------------------------------------
(* The hook *)

\* Only useSessionsSocket drives the status store.
SetStatus(e, st) == status' = IF eff[e].page = "detail" THEN status ELSE st

\* Faulty variant: a timer that is pending counts as enough.
RescheduledOnce(c) ==
  IF ~c.on \/ c.attempt >= MaxAttempts \/ c.armed THEN c
  ELSE [c EXCEPT !.attempt = @ + 1, !.timers = @ + 1, !.armed = TRUE]

\* scheduleReconnect: one more timer, unless the effect is gone or gave up.
Rescheduled(c) ==
  IF ~c.on \/ c.attempt >= MaxAttempts THEN c
  ELSE [c EXCEPT !.attempt = @ + 1, !.timers = @ + 1, !.armed = TRUE]

\* Faulty variant: onclose leaves it to onerror.
OnCloseNothing(c) == c

\* onerror's fallback schedules only if reconnectTimer is still null.
OnError(c)  == IF c.armed THEN c ELSE Rescheduled(c)
OnClose(c)  == Rescheduled(c)
Forget(c, s) == IF c.ws = s THEN [c EXCEPT !.ws = None] ELSE c

\* WebSocket.close(): a socket that was still connecting reports an error too.
Closing(k) == CASE k.state = "open"       -> [k EXCEPT !.state = "closing"]
                [] k.state = "connecting" -> [k EXCEPT !.state = "closing", !.err = TRUE]
                [] OTHER                  -> k

\* connect(): the new socket takes over ws, whatever ws was.  Closed WebSocket
\* objects are all the same.
Free(s) == sock[s].state = "closed"

Connect(e, c) ==
  LET s == CHOOSE x \in Sockets : Free(x)
  IN /\ \E x \in Sockets : Free(x)
     /\ sock' = [sock EXCEPT ![s] = [state |-> "connecting", owner |-> e, err |-> FALSE]]
     /\ eff' = [eff EXCEPT ![e] = [c EXCEPT !.ws = s]]
     /\ SetStatus(e, "connecting")
     /\ UNCHANGED <<view, cur, conn, dataVars, faults>>

DebounceFires(e) ==
  /\ eff[e].on /\ eff[e].debounce
  /\ Connect(e, [eff[e] EXCEPT !.debounce = FALSE])

TimerFires(e) ==
  /\ eff[e].on /\ eff[e].timers > 0
  /\ Connect(e, [eff[e] EXCEPT !.timers = @ - 1])

\* The subscription goes out on ws, which may be a later socket than the one that opened.
\* What is sent before a socket is open, or after that, reaches nobody.
Subscribe(s) ==
  LET w == eff[sock[s].owner].ws
  IN IF w # None /\ (w = s \/ sock[w].state = "open") /\ conn[w].topic = "none"
     THEN [conn EXCEPT ![w].topic = "asked"] ELSE conn

\* onopen does not look at `destroyed`.
Opens(s) ==
  /\ sock[s].state = "connecting"
  /\ sock' = [sock EXCEPT ![s].state = "open"]
  /\ eff' = [eff EXCEPT ![sock[s].owner].attempt = 0]
  /\ conn' = Subscribe(s)
  /\ SetStatus(sock[s].owner, "connected")
  /\ UNCHANGED <<view, cur, dataVars, faults>>

\* onclose sets the status whether or not its mount is still there.
Disconnected(e) == SetStatus(e, "disconnected")

\* The close event of s, after the error event if there is one.  onerror calls
\* close() on ws, which may be a later socket than s.
Dies(s, err) ==
  LET e == sock[s].owner
      c == eff[e]
      after == [sock EXCEPT ![s] = Ended]
  IN /\ sock' = IF err /\ c.ws \notin {s, None} THEN [after EXCEPT ![c.ws] = Closing(@)] ELSE after
     /\ eff' = [eff EXCEPT ![e] = Forget(OnClose(IF err THEN OnError(c) ELSE c), s)]
     /\ conn' = [conn EXCEPT ![s] = NewConn]
     /\ Disconnected(e)
     /\ UNCHANGED <<view, cur, dataVars>>

CloseEvent(s) == sock[s].state = "closing" /\ Dies(s, sock[s].err) /\ UNCHANGED faults

\* The handshake is refused or the network drops the connection.
Breaks(s, err) ==
  /\ faults < MaxFaults
  /\ \/ sock[s].state = "connecting" /\ err
     \/ sock[s].state = "open"
  /\ faults' = faults + 1
  /\ Dies(s, err)

\* The 10 s timer of a socket that is still connecting closes ws.
ConnectTimeout(s) ==
  LET w == eff[sock[s].owner].ws
  IN /\ faults < MaxFaults /\ sock[s].state = "connecting"
     /\ w # None /\ sock[w].state = "connecting"
     /\ sock' = [sock EXCEPT ![w] = Closing(@)]
     /\ faults' = faults + 1
     /\ UNCHANGED <<view, cur, eff, conn, status, dataVars>>

----------------------------------------------------------------------------
(* Pages *)

\* The effect's cleanup closes ws only if it is OPEN.  (What else a destroyed
\* closure remembers, nothing looks at.)
Unmounted(c) == [Mounted(c.page) EXCEPT !.on = FALSE, !.debounce = FALSE, !.ws = c.ws]
Closed(c) == IF c.on /\ c.ws # None /\ sock[c.ws].state = "open"
             THEN [sock EXCEPT ![c.ws] = Closing(@)] ELSE sock

\* Another page: the cleanup of the old effect, then the mount of the new one
\* and the activation of its query.  The dashboard fixes `to` when it mounts.
Navigate(p, stale) ==
  LET to == IF p = "dash" THEN stored ELSE horizon
      left == [eff EXCEPT ![cur] = Unmounted(@)]
  IN /\ p # view /\ p \in Links[view]
     /\ p \in Live => cur < Mounts
     /\ view' = p
     /\ sock' = Closed(eff[cur])
     /\ IF eff[cur].on THEN SetStatus(cur, "disconnected") ELSE UNCHANGED status
     /\ cur' = IF p \in Live THEN cur + 1 ELSE cur
     /\ eff' = IF p \in Live THEN [left EXCEPT ![cur + 1] = Mounted(p)] ELSE left
     /\ horizon' = to
     /\ cache' = IF p \in Live THEN [cache EXCEPT ![p] = Activated(@, p, to, stale)] ELSE cache
     /\ UNCHANGED <<conn, keys, stored, history, faults>>

\* Another date range, another filter or another sort order is another query key
\* (one not visited yet); a range also fixes `to` anew.
ChangeKey(p) ==
  LET to == IF p = "dash" THEN stored ELSE horizon
  IN /\ view = p /\ p # "detail" /\ keys < MaxKeys
     /\ keys' = keys + 1
     /\ horizon' = to
     /\ cache' = [cache EXCEPT ![p] = Sent(NewQuery, p, to)]
     /\ heard' = [heard EXCEPT ![p] = 0] /\ lost' = [lost EXCEPT ![p] = FALSE]
     /\ UNCHANGED <<view, cur, netVars, stored, faults>>

\* Faulty variant: a request under way is good enough.
InvalidatedJoins(q, p) ==
  IF p # view THEN [q EXCEPT !.invalid = TRUE]
  ELSE IF q.fetch # "none" THEN q
  ELSE [Sent(q, p, horizon) EXCEPT !.invalid = TRUE]

\* invalidateQueries and refetch(): an active query with data starts over, one that
\* is loading for the first time keeps its request, an inactive one is marked.
Invalidated(q, p) ==
  IF p # view THEN [q EXCEPT !.invalid = TRUE]
  ELSE IF q.data = None /\ q.fetch # "none" THEN q
  ELSE [Sent(q, p, horizon) EXCEPT !.invalid = TRUE]

\* The request under way goes on: its answer, which may be older, then counts as fresh.
GoesOn(q, p) == q.fetch # "none" /\ (p # view \/ q.data = None)

\* onmessage of the two hooks: which queries an event invalidates.
Affects(page) == IF page = "detail" THEN {"detail"} ELSE {"dash", "sessions"}

OnMessage(s) ==
  LET ps == Affects(eff[sock[s].owner].page) \cap Live
  IN /\ cache' = [p \in Live |-> IF p \in ps THEN Invalidated(cache[p], p) ELSE cache[p]]
     /\ heard' = [p \in Live |-> IF p \in ps THEN Lesser(stored, Upto(p, horizon)) ELSE heard[p]]
     /\ lost' = [p \in Live |-> IF p \in ps THEN GoesOn(cache[p], p) ELSE lost[p]]

ServerAnswers(p) ==
  /\ cache[p].fetch = "sent"
  /\ cache' = [cache EXCEPT ![p].fetch = "answered", ![p].got = Lesser(stored, cache[p].upto)]
  /\ UNCHANGED <<view, cur, netVars, keys, stored, horizon, history, faults>>

\* An answer replaces the data, or, for "load more", adds older rows to them; either
\* way the query counts as fresh.
AnswerArrives(p) ==
  /\ cache[p].fetch = "answered"
  /\ cache' = [cache EXCEPT ![p] = [Settled(@) EXCEPT !.invalid = FALSE, !.failed = FALSE,
                                             !.data = IF cache[p].more THEN cache[p].data
                                                     ELSE cache[p].got]]
  /\ UNCHANGED <<view, cur, netVars, keys, stored, horizon, history, faults>>

\* Faulty variant: a failure takes the data away.
RequestFailsEmpty(p) ==
  /\ cache[p].fetch # "none" /\ faults < MaxFaults
  /\ cache' = [cache EXCEPT ![p] = [Settled(@) EXCEPT !.failed = TRUE, !.data = None]]
  /\ faults' = faults + 1
  /\ UNCHANGED <<view, cur, netVars, keys, stored, horizon, history>>

\* The request and its one retry fail: the old data stay, and so does the mark.
RequestFails(p) ==
  /\ cache[p].fetch # "none" /\ faults < MaxFaults
  /\ cache' = [cache EXCEPT ![p] = [Settled(@) EXCEPT !.failed = TRUE]]
  /\ faults' = faults + 1
  /\ UNCHANGED <<view, cur, netVars, keys, stored, horizon, history>>

\* The Retry link of the dashboard.
Retry ==
  /\ view = "dash" /\ cache["dash"].failed
  /\ cache' = [cache EXCEPT !["dash"] = Sent(@, "dash", horizon)]
  /\ UNCHANGED <<view, cur, netVars, keys, stored, horizon, history, faults>>

\* "Load more" takes the place of a request under way, even of the refetch an event
\* has asked for: what that event said is then forgotten.
LoadMore ==
  LET q == cache["sessions"]
  IN /\ view = "sessions" /\ q.data # None /\ ~q.more
     /\ q.data > PageSize
     /\ cache' = [cache EXCEPT !["sessions"] = [Sent(@, "sessions", horizon) EXCEPT !.more = TRUE]]
     /\ lost' = [lost EXCEPT !["sessions"] = @ \/ q.data < heard["sessions"]]
     /\ UNCHANGED <<view, cur, netVars, keys, stored, horizon, heard, faults>>

\* refetchInterval of the stats query while the dashboard shows no activity.
Poll ==
  /\ view = "dash" /\ cache["dash"].data \in {None, 0} /\ cache["dash"].fetch = "none"
  /\ cache' = [cache EXCEPT !["dash"] = Sent(@, "dash", horizon)]
  /\ UNCHANGED <<view, cur, netVars, keys, stored, horizon, history, faults>>

\* The body of a list page: it takes a failed first load for an empty answer.
ListScreen(q) ==
  CASE q.data = None /\ q.fetch # "none" -> "loading"
    [] q.data \in {None, 0}              -> "empty"
    [] OTHER                             -> "rows"

\* The session page shows a failure in place of the data it has.
DetailScreen(q) == IF q.failed /\ (q.data # None \/ q.fetch = "none") THEN "error" ELSE ListScreen(q)

DashScreen == ListScreen(cache["dash"])

Screen(p) == CASE p = "dash"     -> DashScreen
               [] p = "sessions" -> ListScreen(cache[p])
               [] p = "detail"   -> DetailScreen(cache[p])

----------------------------------------------------------------------------
(* Processing *)

\* handleSubscribe: the membership was checked, the topic is in the hub.
Subscribed(s) ==
  /\ sock[s].state = "open" /\ conn[s].topic = "asked"
  /\ conn' = [conn EXCEPT ![s].topic = "held"]
  /\ UNCHANGED <<view, cur, eff, sock, status, dataVars, faults>>

\* Something is stored and then published: a full connection drops the event.  (The
\* notice processing then tries to send is not a type that onmessage handles.)
Arrives ==
  /\ stored < MaxStored
  /\ stored' = stored + 1
  /\ conn' = [s \in Sockets |-> IF conn[s].topic = "held"
                                THEN [conn[s] EXCEPT !.queue = Lesser(@ + 1, Buffer)]
                                ELSE conn[s]]
  /\ UNCHANGED <<view, cur, eff, sock, status, horizon, cache, keys, history, faults>>

\* writeLoop, and the handler that runs in the browser when the frame arrives.
Write(s) ==
  /\ sock[s].state = "open" /\ conn[s].queue > 0
  /\ conn' = [conn EXCEPT ![s].queue = @ - 1]
  /\ OnMessage(s)
  /\ UNCHANGED <<view, cur, eff, sock, status, keys, stored, horizon, faults>>

----------------------------------------------------------------------------
Next ==
  \/ \E e \in Effects : DebounceFires(e) \/ TimerFires(e)
  \/ \E s \in Sockets : \/ Opens(s) \/ CloseEvent(s) \/ ConnectTimeout(s)
                        \/ \E err \in BOOLEAN : Breaks(s, err)
                        \/ Subscribed(s) \/ Write(s)
  \/ \E p \in Live \cup {"other"} , stale \in BOOLEAN : Navigate(p, stale)
  \/ Arrives
  \/ "dash" \in Live /\ (Poll \/ Retry)
  \/ "sessions" \in Live /\ LoadMore
  \/ \E p \in Live : \/ ChangeKey(p) \/ ServerAnswers(p) \/ AnswerArrives(p)
                     \/ RequestFails(p)

\* Timers fire, handshakes and requests that do not fail are answered, and
\* processing's goroutines run.  The user, the faults and what arrives are free.
Fairness ==
  /\ \A e \in Effects : WF_vars(DebounceFires(e)) /\ WF_vars(TimerFires(e))
  /\ \A s \in Sockets : /\ WF_vars(Opens(s)) /\ WF_vars(CloseEvent(s))
                        /\ WF_vars(Subscribed(s)) /\ WF_vars(Write(s))
  /\ \A p \in Live : WF_vars(ServerAnswers(p)) /\ WF_vars(AnswerArrives(p))
  /\ WF_vars("dash" \in Live /\ Poll)

Spec == Init /\ [][Next]_vars /\ Fairness

----------------------------------------------------------------------------
(* Properties *)

Unclosed(e) == {s \in Sockets : sock[s].owner = e /\ sock[s].state # "closed"}
OpenOf(e)   == \E s \in Sockets : sock[s].owner = e /\ sock[s].state = "open"
One(b)      == IF b THEN 1 ELSE 0

\* A mount never runs more than two reconnection chains: onerror and onclose both
\* schedule a timer, but only on the first failure.
ChainsBounded ==
  \A e \in Effects :
    eff[e].on => eff[e].timers + One(eff[e].debounce) + Cardinality(Unclosed(e)) <= 2

\* A page that is mounted and has not used up its attempts has a socket, or a timer
\* that will make one: no sequence of errors leaves it waiting for nothing.
NeverSilentlyDead ==
  \A e \in Effects :
    eff[e].on => \/ eff[e].debounce \/ eff[e].timers > 0
                 \/ Unclosed(e) # {}
                 \/ eff[e].attempt >= MaxAttempts

\* The dot is green only while a socket of a list page has not ended, whichever
\* mount opened it.
ConnectedIsTrue ==
  status = "connected" =>
    \E s \in Sockets : /\ sock[s].state \in {"open", "closing"}
                       /\ eff[sock[s].owner].page # "detail"

\* Once the requests have settled, the page in view shows at least what was stored when
\* the last event about it was handled (up to what its query asks for), because the refetch
\* replaces an answer that was already on its way.  Not so for the events that the code
\* loses: one that met a request which goes on, a first load or that of a page not in view,
\* and one whose refetch, under way or failed, was replaced by "load more".
SettledMeansSeen ==
  \A p \in Live :
    p = view /\ cache[p].data # None /\ cache[p].fetch = "none" /\ ~cache[p].invalid
      => cache[p].data >= heard[p] \/ lost[p]

\* Rows stay on the list pages through failures, refetches, polls and older answers.
RowsStay ==
  [][\A p \in Live \ {"detail"} :
       p = view /\ Screen(p) = "rows" /\ ~ChangeKey(p)
         => Screen(p)' = "rows" /\ cache'[p].data >= cache[p].data]_vars

\* Once the faults are over, a page that stays gets a socket again or has given up.
Reconnects ==
  \A e \in Effects :
    eff[e].on ~> \/ ~eff[e].on \/ OpenOf(e)
                 \/ eff[e].attempt >= MaxAttempts

\* The dashboard's empty state goes away once a session has been stored.
EmptyStateLeaves ==
  view = "dash" /\ stored > 0 ~> view # "dash" \/ Screen("dash") = "rows"


\* The sockets of a page: the types, at most two chains, never none while attempts are
\* left, and a dot that tells the truth.
SocketsSound == TypeOK /\ ChainsBounded /\ NeverSilentlyDead /\ ConnectedIsTrue
=============================================================================

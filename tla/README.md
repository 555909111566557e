# TLA+ verification of AgentOrbit

AgentOrbit records what LLM agents do. An agent sends its requests to a proxy,
which forwards them to the LLM provider and reports every one as a *span*; a
second service stores the spans, groups them into *sessions*, judges the
sessions and shows them, in a web client, to the members of an *organization*.

This directory holds TLA+ modules for the parts of that system whose
correctness depends on the order of events, configurations with which TLC checks
them on small instances, and theorems that TLAPS proves for all sizes. The
modules are written from the Go code and its SQL, and from the TypeScript of the
web client; `PROJECT.json` maps every definition to the lines it stands for.

    tlc -workers 2 -config SpanDispatcher.cfg SpanDispatcher.tla
    tlapm OrganizationProofs.tla

Contents: [1 the system](#1-the-system) - [2 the modules](#2-the-modules) -
[3 the runs](#3-the-runs) - [4 the proofs](#4-the-proofs) -
[5 where code and words differ](#5-where-code-and-words-differ) -
[6 what is not covered](#6-what-is-not-covered) - [7 the plan](#7-the-plan)

## 1 The system

Two Go services and a React client; one PostgreSQL database, reached by
Processing only. A billing service, another program, may stand beside them.

    agent --HTTP--> proxy --HTTP--> LLM provider
                     |  \
      verify key, 30s|   \ spans, asynchronously
         cache       v    v
                   Processing <--HTTP, WebSocket--> web client
                      |  crons, pipeline, hub
                      v
                   PostgreSQL

### Components, their state and what makes them correct

**Span dispatcher** (`proxy/internal/span/dispatch.go`). State: the flag
`acceptingNew`, a WaitGroup of the callers inside `Dispatch`, a bounded channel,
worker goroutines, a counter of dropped spans. Operations: `Dispatch` by every
request handler, `Start`, the workers' loop, `Drain` at shutdown. Hard: a
handler that is past the checks while `Drain` closes the channel. Correct when
nobody sends on a closed channel, every span is accounted for once, `Drain`
returns, and a completed drain leaves nothing behind.

**Proxy process** (`proxy/cmd/proxy/main.go`). Starts the workers, serves, and on
a signal stops the HTTP server, drains, cancels, exits. Hard: the HTTP shutdown
gives up after a timeout and the drain runs under live handlers. Correct when
the order of the phases loses no span that a finished request dispatched, and a
signal always ends the process.

**Proxy request handler** (`proxy/internal/handler`, `masking`). Key lookup, a
rate limit per key, masking of the body, forwarding, streaming the answer back
while placeholders are unmasked across reads, and `Dispatch` last. State: a
cache of transports, the limiter's windows.

**Auth cache** (`proxy/internal/auth/cache.go`). State: a bounded map of verified
keys with expiry and last use, a circuit breaker. `Lookup` reads the map under a
lock, fetches without it, and writes back; stale entries are served when
Processing fails; `evictLoop` sweeps. Hard: everything read before the fetch is
used after it. Correct when a revoked key works for a bounded time only, the
map keeps its limit and evicts the right entry, and an outage costs Processing a
bounded number of calls.

**Span ingestion** (`IngestSpan` in `processing/internal/service/internal.go`).
One transaction per span: quota gate on the organization's counter, session
found or created, span and masking map inserted, session's totals updated. Hard:
concurrent transactions at READ COMMITTED, the last unit of the quota, a new
month, a failed statement inside the transaction. Correct when counters match
the rows, the quota holds, an external session id has one session in progress.

**Session closure** (`RunSessionClosureCron`, same file). Lists idle sessions,
counts failed and disconnected spans, closes by status, runs the intelligence
pipeline, publishes. Separate statements, no transaction, against ingestion.
Correct when a status is earned by the spans, a closed session stays closed, what
is announced is stored, and every session is closed in the end.

**Organizations** (`processing/internal/service/org.go`, `middleware/org.go`).
State: status and deletion date, memberships with roles, API keys with `active`
and `deactivated_by_deletion`. Deletion, restoration, transfer of ownership,
leaving, removal, change of role, the hourly hard-delete cron. Requests are
admitted on what the middleware read and run several statements, mostly without
a transaction. Correct when there is exactly one owner, keys follow the status,
and nothing is deleted before its date.

**Invites** (`service/invite.go`). State: the rows of `invites`. Creation looks at
the memberships, counts the pending invites and replaces one for the same
address; acceptance checks the invite and the membership and writes both;
revocation, expiry, and the removal of members. Two transactions that lock
nothing of what they only read, and a member check before the first of them that
takes an error for "not a member" and knows addresses in lower case only. Correct
when the limit of pending invites holds, an address has one of them, and an
account that was removed comes back by a later invite only.

**API keys** (`service/apikey.go`, `VerifyAPIKey`): creation, irreversible
deactivation, verification in two reads.

**Processing process and crons** (`processing/cmd/processing/main.go`,
`internal/cron`). Four crons behind an in-process flag and an advisory lock; a
batcher of `last_used_at`; a shutdown in four phases that runs in a goroutine
while `main` returns as soon as the listener closes.

**Hub and WebSocket** (`internal/hub`, `handler/websocket.go`). In-process
pub/sub with bounded channels and non-blocking sends; a connection merges its
subscriptions into one bounded channel; unsubscribe races with publish, and the
end of a connection with a subscribe in flight.

**Accounts** (`service/auth.go`, `middleware/auth.go`): a login limiter that is
checked before and charged after the comparison, a semaphore around bcrypt, the
first user of a self-hosted installation, password reset, tokens issued before a
password change.

**Alerts** (`service/alert.go`): rules evaluated by a cron and by hub events, a
cooldown taken by an atomic update before the event is stored.

**Intelligence** (`service/intelligence.go`): system prompts, anomalies, failure
clusters and narratives of a closed session, several statements each.

**Limits and filters** (`internal/middleware`): sliding windows per address,
email and key, with bounded maps; a breaker on the connection pool.

**Web client** (`web/src`). A query cache, a few stores, and pages whose effects,
timers and mutations run beside each other. Its parts:

- *Live updates* (`hooks/use-websocket.ts`, dashboard, session list, session
  page): a socket per mounted page, reconnection with a limit, events that
  invalidate queries, "load more", a poll while the dashboard is empty. Hard:
  sockets outlive the page that opened them, error and close are two events,
  and answers may be older than the event that asked for them. Correct when a
  page with attempts left always has a socket or a timer, the status dot is
  true, and a settled page shows what the last event announced, unless the
  library's rules about requests under way have lost it.
- *Session of the browser* (`lib/api.ts`, `stores`, `AuthGuard`, sign-in,
  registration, invite, organization switcher): a cookie, two storages and a
  cache of different lifetimes. Correct when an invite survives the detours of
  signing in, the shell works in the user's own organization, and no page stays
  blank.
- *Settings forms*: copies of an organization's settings that go on when the
  organization is switched. Correct when what is saved into an organization is
  its own, and a save is seen.
- *Lists* (members, invites, alert rules, keys), *API keys page* (countdown of a
  secret, tests), *Pro request* (two dialogs, one cache entry, a delayed reset),
  *support pages* (a poll beside what is sent), *timeline* (lanes and bars),
  *failure clusters* (a selection that outlives its organization), *usage bar*
  (one warning from two bars).

**Dashboard, export, email, crypto, configuration, migrations**: read-only
queries, conversions, I/O.

### How the parts meet

| from | to | by |
|---|---|---|
| request handler | dispatcher | `Dispatch`, a channel; `main` calls `Drain` |
| dispatcher | ingestion | POST, once, no retry |
| auth cache | `VerifyAPIKey` | POST within `fetchCtx`; failures open the breaker |
| ingestion | closure | rows of `sessions` and `spans`; row locks |
| organizations | API keys | deletion turns keys off, restoration on again |
| organizations | invites | a removal deletes the membership an invite brought |
| API keys | auth cache | only through the cache's expiry |
| closure | pipeline, hub, alerts | calls after the sessions are closed |
| hub | WebSocket, alerts | bounded channels, events dropped when full |
| WebSocket | web client | frames; `onmessage` invalidates queries |
| web client | Processing | queries and mutations, each served at one moment and answered at a later one |
| web client | billing service | through Processing: Pro requests, tickets, messages |

`PROJECT.json` lists the hazards, each at the line where it bites, with the
properties that would notice.

## 2 The modules

| module | models | extends or instantiates |
|---|---|---|
| `SpanDelivery` | what the dispatcher promises, abstractly | |
| `SpanDispatcher` | `Dispatch`, `Start`, workers, `Drain` | instance of `SpanDelivery` |
| `ProxyMain` | handlers and the shutdown of the proxy | extends `SpanDispatcher` |
| `IngestSpan` | ingestion and its SQL | |
| `SessionClosure` | the closure cron against ingestion | extends `IngestSpan` |
| `AuthCache` | cache, breaker, key verification, revocation | |
| `Organization` | members, deletion, keys of one organization | |
| `Invites` | invites of one organization and who came by them | |
| `LiveUpdates` | sockets and queries of three pages, hub and writer | |
| `WebSession` | sign-in, invite and organization of one browser tab | |
| `WebQuery` | one entry of the web client's query cache (external) | |
| `SettingsForm` | the two settings forms | extends `WebQuery` |
| `OrgLists` | members, invites, alert rules, keys: rows and dialogs | extends `WebQuery` |
| `KeysPage` | a new key's secret and countdown, tests of keys | |
| `ProRequest` | asking for the Pro plan | extends `WebQuery` |
| `Support` | tickets and messages | extends `WebQuery` |
| `Waterfall` | lanes and bars of a session's timeline | |
| `FailureClusters` | the clusters and the sessions of one | extends `WebQuery` |
| `UsageBar` | the two usage bars and their warning | |
| `AuthCacheProofs`, `InvitesProofs`, `LiveUpdatesProofs`, `WebSessionProofs` | theorems about the module of that name | extend it |
| `ProxyMainProofs` | theorems about the dispatcher and, on them, about the process | extends `ProxyMain` |
| `IngestionProofs` | theorems about ingestion and closure | extends `SessionClosure` |
| `OrganizationProofs` | theorems about the organization and, in the same instance, its invites | extends `MCOrganization`, instance of `InvitesProofs` |
| `WebPagesProofs` | theorems about the pages of the web client | extends `MCWebPages` |
| `MC*` | instances for TLC | see below |

Some definitions are called *faulty variants*. Each is a plausible mistake in the
code next to the definition it would replace (a dropped guard, an off-by-one, a
missing lock). No specification uses them; they are there to confirm that the
property each of them breaks is one the code could really lose.

Four MC modules hold more than symmetry. `MCAuthCache`, `MCOrganization`,
`MCLiveUpdates` and `MCWebPages` each run several instances in one: a variable
that never changes (`only`, `page`, `about`) says which instance a behaviour is
of, and the variables of the others keep a constant value. In `MCOrganization`
and `MCWebPages` the instances are different modules, brought in by `INSTANCE`,
and a property holds "on its page". Nothing interacts between the instances; the
state spaces add up and are not multiplied.

### SpanDispatcher and SpanDelivery

One action per access to shared memory. `pc[s]` is the place of the one call
`Dispatch(s)`: first load of the flag, `Add(1)`, second load, send, deferred
`Done`. `drainPc[d]` is the place of a caller of `Drain`: compare-and-swap,
`Wait` (which returns, or parks and is woken later), `close`, the final `select`.
The WaitGroup is external and modelled by what its implementation does,
including its panic when it is reused before `Wait` has returned; a Go panic ends
the process (`panicked`). A worker whose context is cancelled may still receive,
because Go's `select` picks at random. A POST succeeds or fails, and the code
only logs a failure. `received` and `lost` are history.

`SpanDelivery` knows for each span only new, pending, dropped, delivered or lost.
The refinement mapping reads the status off the channel, the workers' hands and
the histories; the pending spans are at most the buffer and one per worker.
`DrainOne`, a helper for tests, is left out.

### ProxyMain

`mainPc` follows `main`, `hpc[s]` the request whose span is `s`. A handler is the
only caller of `Dispatch`, `main` the only caller of `Drain` and the owner of
the context given to `Start`. `srv.Shutdown` either waits for the handlers or
gives up (`httpTimedOut`); handlers may then call `Dispatch` during and after the
drain.

### IngestSpan and SessionClosure

One organization, one API key. An action is one statement, or one statement with
the local code around it; a request is also the span it inserts. Postgres is
external, at READ COMMITTED: a statement sees what was committed, an update and
an upsert lock their row to the end of the transaction, `NOW()` is the
transaction's start, the partial unique index makes a second insert of the same
external id wait, a failed statement dooms its transaction. Costs, tokens and
texts are left out; what remains of a span is whether it failed, whether the
client disconnected, and whether it names its session. The closing action of a
request makes all its writes visible at once.

`SessionClosure` adds the cron: its three reads, the grouping by status, one
update per group in any order, the pipeline's upgrade of a status, the published
statuses. A run may fail at every statement. One run at a time is what the
in-process flag and the advisory lock promise.

### AuthCache

`Lookup` is split where it gives the lock back: read, breaker, the two reads of
`VerifyAPIKey` on the other side, answer, insertion. Only valid results are ever
stored, as in the code. Time is a clock in ticks: a lookup takes none of it
except while it waits for Processing, which answers within `FetchTimeout` or not
at all. The database side has keys that are deactivated, and an organization
that is scheduled for deletion and restored in the two statements the code has.
`offSince` and `pendingSince` are history.

### Organization and Invites

`call[r]` and `pc[r]` are the operation of request `r` and its next statement.
`Arrive` and `Admit` are the two reads of `RequireOrg`, each followed by what the
handler or `RequireRole` / `RequireActiveOrg` decides on it. Only
`TransferOwnership` has a transaction: its two updates lock their rows (`Locked`)
and are visible at the commit. `Fail` stops any request at any statement. A user
who left does not come back, so that a user stands for a membership row; every
statement on keys treats each key alike, so that few are enough; `viewer` acts
like `member` here, except that it may not touch keys. `raced`, `torn`,
`contested` and `late` are history: they say when the code does *not* protect
what a property states, and each is raised by nothing but the overlap or the
failure named in its comment.

`Invites` has the other way into an organization, and memberships that come back.
`request[r].at` is the next statement of a creation (count, find, insert) or of an
acceptance (check, write); each writes once, at its end, which is also its commit.
`Revoke`, `Expire` and `Remove` are single steps; a removal also deletes what the
database deletes with the membership. A member is an account, an address and the
way it was typed: registration stores the address as typed, so that one address
may have several. `Create` is refused for whom `Seen` finds, which is the account
in lower case and nobody if one of the two lookups fails; `Accept` takes any
account of the address, as `strings.ToLower` on both sides does.

The two promises of the module have exceptions, which histories record.
`overlapped` and `crowded` say which requests ran beside each other: the
transactions take no lock that would order them. `overlooked` has the addresses
that were invited while one of their accounts was a member and `Create` did not see
it (`Unseen`); such a member holds a pending invite and can come back by it after
having been removed, with no other request near. `RemovedStaysOut` says that beyond
these two ways there is none.

### LiveUpdates

A mount of a page is a closure of the hook's effect, `eff[e]`: whether it is still
mounted, its debounce, its reconnection timers, `armed` (the code's
`reconnectTimer`, which is never reset), the attempts, and `ws`. A socket has an
owner and a state of its own: `onopen` does not look at `destroyed`, `onerror`
closes `ws` and not itself, and the close event comes when its page may be gone.
`cache[p]` is the query of a page: `sent` and `answered` are apart, and `got` is
what the answer holds, fixed when it was served and not when it arrives. Stored
sessions are a count, so that "older than" is a comparison. Processing's side is
a subscription and a bounded queue per socket. `horizon` is the dashboard's `to`.
`onopen` subscribes over `ws`, the latest socket of the hook and not the one that
opened (`Subscribe`). `heard` and `lost` are history: every event about a page
raises `heard`, whatever the page is doing; `lost` is set when the event meets a
request that goes on, and when "load more" puts its own request in the place of the
refetch an event has asked for, under way or failed.

### WebSession

The cookie belongs to the browser, `auth` to the loaded page, `active` and
`pending` to the two storages, `orgs` and `checked` to the query cache: a full
load keeps the first and the storages and clears the rest (`Load`), a
client-side navigation (`Go`) clears nothing. `ui` is the mounted page and the
refs and states its effects look at. A request of each kind is sent with the
cookie of that moment, served, and answered later; its handler runs whatever the
page is by then, as in the code. `Unauthorized` is the shared client's 401.
`followed`, `unchosen`, `unlisted`, `lister` and `lost` are history, as in
`Organization`.

### The pages of the web client

`WebQuery` is the query cache as the hooks use it: one record per entry, with the
operations activate, invalidate, answer, fail and put. It is external; the other
modules apply it to the keys of `web/src/hooks`.

- `SettingsForm`: the form's value, where it was filled from, and whether it is
  dirty; a save in the steps click, serve, `onSuccess` (which invalidates with the
  options of the *last render*), refetch, and the rest of `handleSave`. Switching
  the organization keeps the form mounted; another tab unmounts it.
- `OrgLists`: one of the four lists with its confirmation and its dialog. A row
  has a version, so that a change is visible or not. Removals may be sent twice,
  and a mutation that ends late closes whatever dialog is open.
- `KeysPage`: the countdown is an effect with an interval and a cleanup
  (`Cleaned`); a test is a record that remembers which dialog and which visit
  sent it, and `Answered` is what its handlers do to the state of the page.
- `ProRequest`: two dialogs, each with its own mutation and its own timer that
  resets it 200 ms after it was closed, and one cache entry that the status query
  and the answers write.
- `Support`: a list of tickets or one ticket, the poll with its pause on errors,
  and sends that are acknowledged after the page was left.
- `Waterfall`: `assignLanes` as steps, one span each; `Start` and `Stop` are those
  of the code, which draws from the first start to the last end. Spans come in any
  order and may last 0 ms. `Left` and `Width` are the bars with their least width of
  half a percent and the shift that keeps them within the chart; `BarsApart` says
  what these two leave of the lanes on the screen. Bars of the least width may
  coincide.
- `FailureClusters`: the selection is a state of the page and not part of the
  organization; every pair of organization and cluster has its own query.
- `UsageBar`: two bars with a ref each and one flag in the tab's storage; plan and
  usage of several organizations arrive in any order, and a load clears the refs.

## 3 The runs

`pass` runs are exhaustive on their instance. Numbers are distinct states.

| run | instance | shows |
|---|---|---|
| `SpanDispatcher` | 2 spans, 2 workers, 2 callers of `Drain`, buffer 1; 24 thousand | `ChannelInv`: no panic on the channel; `Accounting`; `DrainIsFinal`: nothing accepted or left behind; `ImplementsDelivery`: refinement; `Progress`: `Drain` returns, workers end, queued spans move |
| `ProxyMain` | 3 requests, 1 worker, buffer 1; 108 thousand | `MainInv`: panics need a handler that outlived the HTTP timeout, a completed drain leaves nothing; `OnlyFullBufferDrops`; `SignalExits` |
| `IngestSpan_quota` | 3 requests (2 with an external id, 1 with a masking map), limit 1, both plans, 2 months; 118 thousand | `Bookkeeping`, `OneExplicitSession`, `QuotaHolds` |
| `IngestSpan_masking` | 1 request; violation | a masking map error fails the ingestion |
| `SessionClosure` | 3 spans (2 explicit, 1 failed, 1 disconnected), 2 sessions; 64 thousand | `StatusIsEarned`, and exact when undisturbed; `ClosedStaysClosed`; `CronInv`: announced truthfully; `SessionsClose` |
| `AuthCache` | 2 lookups, 2 entries, TTL 1, stale window 2, fetch 1; one of 3 keys, revoked and restored, to clock 4, or all of them to clock 2; 637 thousand | `RevocationBound`: how long a revoked key works; `BreakerShieldsProcessing`: what an outage costs; `CacheKeepsLimit`: the limit, and which entry goes |
| `Organization` | 2 users, 1 key, 2 requests of 8 kinds, grace period 1, clock to 1; or 2 addresses of 2 spellings each, 2 rows, limit 1, 1 removal, 2 requests; 1.75 million | `OneOwner`, `KeysFollowStatus`, `DeletedWhenDue`; `PendingWithinLimit`, `RemovedStaysOut` |
| `Organization_remove` | transfer and removal; violation | the new owner is removed |
| `LiveUpdates` | 2 mounts of 3 pages, 3 sockets, 2 attempts; 2 failures with nothing stored, or 1 failure, 2 arrivals and a tour of the pages; 401 thousand | `SocketsSound`: at most two chains of reconnection, never a page that waits for nothing, a true status dot; `SettledMeansSeen`: the last event's rows are shown, or the event was lost in one of two stated ways; `RowsStay`; `Reconnects` |
| `LiveUpdates_window` | the dashboard, 1 arrival; violation | the empty state stays |
| `WebSession` | 2 users, 3 organizations, 1 invite, 5 acts, 1 failure or change elsewhere; 69 thousand | `InviteKept`; `ActiveOrg`: one's own, and listed; `NoBlankPage` |
| `WebPages` | the eight page modules, each with its instance in `MCWebPages`; 635 thousand | `FormIsOwn`; `OwnWritesSeen`: saved settings, removed and changed rows, sent messages; `SecretIsTimed`; `DialogIsTrue`; `TimelineReads`; `RowsAreItsOwn`; `WarnedJustOnce`; `RepliesAppear` |

Several properties are conjunctions of named parts, each stated and commented in
its module; the type invariant of a module is one of the parts.

### Why the bounds are enough

- *Dispatcher*: every race is between one `Dispatch` and one `Drain`; the second
  span fills the buffer of one, the second worker reorders, the second caller of
  `Drain` is the repeat call. The proof in section 4 has no bound.
- *Ingestion*: a limit of one is already at the boundary; two requests compete,
  the third comes in the other month or under the other plan. Two explicit
  requests share the external id, the third is auto-grouped. Arrivals are at one
  time in the quota run, because the quota depends on the month, not the time;
  the closure run lets transactions begin at two times around the timeout.
- *Closure*: a session with a good, a failed and a disconnected span, in every
  order around the three reads; a second session for the spans that come after
  the first was closed, and for closing by groups.
- *Auth cache*: the longest bound is fetch + TTL + stale window = 4 ticks, and
  the clock reaches 4, so that an answer one tick too late is within the run.
  Keys meet only in the map, which the other instance fills with 3 keys in 2
  entries. The proof has no bound.
- *Organization*: an overlap needs two requests and two members; the clock passes
  the deletion date once. The invariant of the proof was also checked with three
  users and three requests. *Invites*: with a limit of one, two creations are
  already at it; two rows hold an invite and its replacement, or one for each
  address; a removal and what is left from before it need one removal. Each address
  has an account that `Create` finds and one that it does not. The proofs have no
  bound.
- *Live updates*: two mounts are the page left and the page entered, the third
  socket is the one a second chain opens; two attempts separate "used up" from
  "used"; the first failure arms the timer and the second comes after it. Two
  arrivals make one event that is answered too early and one that is not; a page
  of one row makes "load more" possible after one.
- *Web session*: the invited user, another one who may be signed in, an
  organization of the other's, and the invite's. Five acts take an anonymous
  visitor through the invite, a sign-in with the wrong account, back and into the
  shell; one failure, expiry or removal may fall anywhere.
- *Pages*: two organizations for what a switch mixes up, two settings, three rows
  of which one is new, three keys of which one has a custom provider, two requests
  for Pro, two messages; three spans are the fewest that can need two lanes and
  leave one of them free. They start at and last 0, 1 or 400 units: 1 in 400 is less
  than the half percent of the least width, so that bars are widened, shifted and
  drawn over each other. The proofs have no bound.

`CHECK_DEADLOCK FALSE` is in every configuration: each instance has a finite
number of calls and a bounded clock, so that it really stops.

### Fairness

Liveness is checked in six runs.

- `SpanDispatcher`: goroutines that are runnable are scheduled, a POST ends within
  its timeout, `time.After` fires, `Start` is called. Nobody has to call
  `Dispatch` or `Drain`: a call that began is fair, beginning one is not.
- `ProxyMain`: the same for `main`, whose phases all have timeouts. A handler is
  only fair inside `Dispatch`, which never blocks; a provider may hang for ever.
- `SessionClosure`: the ticker keeps starting the cron, the clock runs, a request
  that began ends because its context has a deadline. The cron's database
  statements are strongly fair, the two steps without a statement weakly: a run
  may fail any number of times, but the database does not fail at the same
  statement for ever. `CronFail` itself is never forced.
- `LiveUpdates`: the debounce, the timers and the events of a socket happen,
  handshakes and requests that do not fail are answered, processing subscribes and
  writes, the poll runs. What the user does, what arrives and what fails is free;
  failures are bounded, so that a network which recovers is what is shown.
- `WebSession`: a request that was sent is served and its answer handled (weakly
  fair for each kind; the browser and the client both have timeouts, which end
  as an answer `down`). The user may stop at any time.
- `WebPages`: the poll of the support pages runs and its requests are served and
  answered. Nothing else there is fair.

## 4 The proofs

| theorem | states |
|---|---|
| `ProxyMainProofs!TypeCorrect` | the types of the dispatcher |
| `ProxyMainProofs!ChannelSafe` | `ChannelInv`: no send on the closed channel, no second close |
| `ProxyMainProofs!DrainFinal` | `DrainIsFinal`: what holds once `Drain` has returned |
| `ProxyMainProofs!Accounted` | `Accounting`: where every finished `Dispatch` has left its span |
| `ProxyMainProofs!DeliveryImplemented` | `ImplementsDelivery`: the refinement of `SpanDelivery` |
| `ProxyMainProofs!ProcessKept` | `MainInv`: types, who can panic, what a clean exit leaves |
| `ProxyMainProofs!DropsOnlyWhenFull` | `OnlyFullBufferDrops`: no span is refused for the shutdown |
| `IngestionProofs!BooksKept` | `Bookkeeping`: the types, and counters that count the stored spans |
| `IngestionProofs!OneForEachId` | `OneExplicitSession`: one session in progress for an external id |
| `IngestionProofs!QuotaKept` | `QuotaHolds`: the quota under concurrency |
| `IngestionProofs!ClosureKept` | `CronInv`: types, and what is announced is stored |
| `IngestionProofs!StatusEarned` | `StatusIsEarned`: a status is that of the spans |
| `IngestionProofs!ClosedForGood` | `ClosedStaysClosed`: closed sessions are left alone |
| `AuthCacheProofs!TypeCorrect` | the types of cache, lookups and database |
| `AuthCacheProofs!RevocationBounded` | `RevocationBound`: how long a revoked key works |
| `AuthCacheProofs!LimitKept` | `CacheKeepsLimit`: the limit, and which entry goes |
| `AuthCacheProofs!BreakerShields` | `BreakerShieldsProcessing`: what an outage costs |
| `OrganizationProofs!TypeCorrect` | the types of rows, requests and histories |
| `OrganizationProofs!OneOwnerKept` | `OneOwner`: exactly one owner |
| `OrganizationProofs!KeysKept` | `KeysFollowStatus`: keys follow the organization |
| `OrganizationProofs!DeletionIsDue` | `DeletedWhenDue`: nothing is deleted before its date |
| `OrganizationProofs!InviteLimitKept` | `PendingWithinLimit`: the limit, in the instance the run checks |
| `OrganizationProofs!InviteesStayOut` | `RemovedStaysOut`: likewise, the only ways back for who was removed |
| `InvitesProofs!RemovalLasts` | who was removed comes back by a later invite, an overlap, or an invite to a member who was overlooked |
| `InvitesProofs!LimitKept` | the limit of pending invites, one for each address |
| `LiveUpdatesProofs!SocketsAreSound` | `SocketsSound`: chains of reconnection, pages that wait, the status dot |
| `LiveUpdatesProofs!ShownIsSeen` | `SettledMeansSeen`: a page that has settled shows what was announced, unless the event was lost in a stated way |
| `LiveUpdatesProofs!RowsAreKept` | `RowsStay`: rows stay, and get no older |
| `WebSessionProofs!InvitesAreKept` | `InviteKept`: an invite is not forgotten on the way |
| `WebSessionProofs!ActiveIsTheirs` | `ActiveOrg`: the active organization is the user's own, and listed |
| `WebPagesProofs!OwnForm` | `FormIsOwn`: what is saved into an organization is its own |
| `WebPagesProofs!OwnWritesAreSeen` | `OwnWritesSeen`: saved settings, removed and changed rows, sent messages |
| `WebPagesProofs!SecretsAreTimed` | `SecretIsTimed`: the countdown of a secret, the answers of tests |
| `WebPagesProofs!DialogsAreTrue` | `DialogIsTrue`: what the Pro dialogs say |
| `WebPagesProofs!TimelineIsRead` | `TimelineReads`: lanes and bars |
| `WebPagesProofs!SessionsAreTheClusters` | `RowsAreItsOwn`: the sessions of a cluster |
| `WebPagesProofs!WarnedOnceEver` | `WarnedJustOnce`: one warning for both bars |

They hold for every number of spans, sessions, workers, callers, keys, lookups, users,
invites, organizations, rows, tickets, requests, mounts, sockets, attempts, acts and
failures, and for all durations and limits, under the named assumptions of each
module: sets that are counted are finite, the null values (`NoSpan`, `NoKey`,
`Nobody`, `None`) are outside the sets they stand beside, durations are natural
numbers, limits are positive, the first owner is a user, a span ends no earlier than
it starts, a ticket is not a message, and the process has one caller of `Drain` (the
theorems about the dispatcher alone, in the same module, do not use that). TLC
evaluates the assumptions on the instances of the runs, and every property that it
checks there as an invariant or as an action property is one of these theorems.

**ChannelSafe.** That no send hits a closed channel is not inductive. What makes
it so: the WaitGroup counts exactly the calls between `Add` and `Done`; at most
one caller of `Drain` is past the compare-and-swap, and none while the flag is
set; once `Wait` is released no call is left at the send, because a call that
registers later sees the flag down at its second load; the channel is closed
exactly when that caller is past its close. The counting step uses the library's
theorems on finite sets.

**DrainFinal.** A drain completes only after the workers are done, a worker that
was not cancelled exits only on a channel that is closed and empty, and nothing
is sent once it is closed (`ChannelInv`). The invariant ties the two ends
together: `ExitsFor` says why a worker is gone (its context is done, or the channel
is closed and empty), `DoneMeans` that all of them are, `CancelledBy` that a drain
cancels only when it has timed out, and `DrainedBy` that one completes only when the
workers are done; since one caller at most is past the flag, the drain that completed
is not one that timed out.

**Accounted** and **DeliveryImplemented.** Both rest on `PlacesInv`, which says
that a span is in one place at most (the channel, a worker's hands, received, lost)
and in none before its call has decided about it. `PlacesStep` keeps it; every step
of the dispatcher accepts, refuses, takes, delivers or loses one span, or leaves all
of them where they are (`Kinds`). Each kind changes two sides of the balance by the
same amount, and is one action of `SpanDelivery` or a stutter.

**ProcessKept** and **DropsOnlyWhenFull.** A step of the process is one of the
dispatcher or none of it (`StepsOfDispatcher`), so that the dispatcher's invariants are
those of the process. Added to them is where `main` is: it lowers the flag in its drain
only (`ServesFirst`), by then no handler is left but for those the HTTP timeout gave up
(`NobodyLeft`), and it cancels the workers after the drain (`CancelsLast`). Without such
a handler no call is registered, the counter is zero and `Wait` does not park: nothing
can panic. A drain that completed has seen the channel empty, and nobody sends into it
again (`Emptied`).

**IngestSpan.** `BooksInv` ties the session a request has found to where the request
is (`Targets`) and a row that is not committed to one creator (`Creators`); a
commit then adds one span to one row. `ExtInv` adds that while a session for the
external id is being created there is none in progress and nobody else creates one,
which is what waiting on the unique index buys. `QuotaInv` says that a request past
the gate holds the organization's row until it ends (`HoldsOrg`), so that what the
gate has found is still true at the commit (`StillOpen`), and that no counted span is
of a month after the counter's (`NoneAhead`).

**SessionClosure.** The three theorems rest on `ClosureInv`, which follows a run of the
cron from statement to statement. `ClosedByGroup`: a listed session is in progress
until its group is closed and has the status it was given afterwards, because nobody
else closes one. `Evidence`: what the counts say of a session is still so when it is
closed, because spans are not removed, and exact if none has come since. `HoldsRow`: a
span that names its session holds the row of one in progress, which the closing update
has to wait for; that is why a closed session gets no more of them.

**RevocationBounded.** The bound speaks of the moment of an answer. The invariant
`RevocationInv` speaks of what is held before: every expiry in the map, or read
by a lookup, lies within a TTL of now and within a fetch and a TTL of the
revocation; a fetch in progress began at most `FetchTimeout` ago; and one that
is past a check which a revocation has since made wrong began before that
revocation. Each kind of answer then follows by arithmetic.

**LimitKept** (cache). The limit is inductive once `RoomHasPlace` is there: the
room that an insertion makes has a place left whether expired entries went, one
used least recently went, or neither was needed. `EvictionStep` is the same case
distinction for who goes.

**BreakerShields.** A count of failures is bounded by time only if the failures can be
told apart. The invariant says that a finite set of pairs exists (`Explained`), each a
lookup and a cooldown, as many as there were failures beyond the threshold; the
cooldowns of a lookup's pairs are over before it asks again (`Apart`). Whoever asks
while the circuit is open has found a cooldown over, so that its failure is a new pair;
and all pairs fit into the product of the lookups and the cooldowns that have passed.
Only this theorem about the cache needs the lookups to be finite in number.

**OneOwnerKept.** `OwnerInv` adds to `OneOwner`: a request executes statements of
its own operation; a transfer that no other change overlaps with is the only one
under way, holds the current owner, and is about a user with a row; whoever is
about to be removed or given another role is not the owner. The last fact is what
a transfer in between destroys, which is what `raced` records and the run
`Organization_remove` shows.

**KeysKept** and **DeletionIsDue.** Between the two statements of a deletion or a
restoration the keys do not fit the status. `KeysInv` says that until one of them fails
half way or meets another, one request at most is there, the status is the one it
wrote, and otherwise the keys fit. `DueInv` says that what the cron has listed stays
overdue, unless it was restored: a deletion that was admitted earlier is answered
within the same tick, and does not find an overdue organization to put off.

**Invites.** For the removal, `Single` says what holds of an address whose requests
never overlapped and of which no member was overlooked: there is one request and one
pending invite at most, a request holds that invite, with an account that is a member
there is neither, and with one that is out there is no invite and none is being
accepted. (The reverse is why both exceptions are needed: an overlooked member has a
pending invite.) `OrganizationProofs` carries both over to the instance that the run
checks. For the limit, `LimitInv` counts: as long as creations did not crowd
each other, one that has counted still has the room it counted (`Counted`, `Room`).

**OwnForm.** The form is not simply the active organization's: for a moment after
a switch it is not, and that moment is what has to be shown short. The invariant
says who wrote a form's value (`Written`), that an answer with data or a failure
is there or on its way for the query that is looked at (`AnswersHaveData`,
`FailedOrOnItsWay`), and that a form is filled when its query has data
(`FilledWhenLoaded`).

**OwnWritesAreSeen.** A cached answer may be older than a write, and so may one that is
on its way; what must not happen is that it counts as current. An entry is `Fresh` for
a set of answers, those that are not older than what was acknowledged, if its data are
in that set unless they are marked invalid, and what has come back is in it. Every
operation of the query cache keeps an entry fresh (`FreshFacts`), a bigger set of
answers does too (`FreshGrows`), and a write that makes it smaller invalidates the
entry at the same moment: what is held is then marked and what was on its way is
abandoned (`FreshWhenHeard`). The exceptions are those of the library: a first load goes
on, as does the request of a page that is not mounted. The rest of the invariant
(`SettingsFresh`, `ListsInv`, `SupportInv`) says that what was acknowledged is stored:
versions do not go down, a row that was removed does not come back under its
identifier, what was sent is kept.

**Secrets, dialogs, clusters.** `SecretsAreTimed` needs `RowIsAnswered`: what a row tells
was said of its key. `DialogsAreTrue` needs `QueryIsTrue` and `PostsAreTrue`, the cache
and the answers say that the user has asked only of one who has, and `DialogHolds` for
each of the dialogs. `SessionsAreTheClusters` needs `KeptIsOwn`: whatever is cached or has
come back under an organization and a cluster are sessions of that cluster, and none
if the cluster is another organization's.

**Lanes and bars.** That the times in a lane do not overlap rests on `EndsAreTrue`: a lane's end is the
latest end of its spans. That none is in vain: when a lane is opened every other
one holds a span that covers the start. The bars lie within the chart because there is
a first start and a last end (`Least`, `Greatest`), which follow from the well-founded
order of the numbers. That those of a lane stay apart on the screen (`BarsApart`) follows
from `NoOverlap` by arithmetic: the least width adds half a percent at most, and the
shift moves a bar only as far as its own width asks for. The warning's invariant relates the refs,
the flag and the toasts: the flag counts the toasts, a ref that is set means the
flag, and a drawn bar that is nearly full means the flag.

**SocketsAreSound** and **RowsAreKept.** `LiveUpdates` falls into two halves that share
no variable. For the sockets, `ClosureOK` counts the chains of a mount, its timers, its
debounce and its sockets that have not closed: there is one, there may be two only
once a reconnection timer has been armed, and there is none only when the attempts
are used up. `OwnersPast` says that a new mount starts without a socket. A mount owns
finitely many sockets at any time, so the set of sockets may be infinite.

**ShownIsSeen.** An event raises `heard` and asks for the query again. What keeps a page
from settling behind it is in `PageOK`, which speaks of what the page owes (`Owed`:
`heard`, or nothing if the event was lost): every request that can still be answered
was sent after that event, so that its horizon and its answer are bounded from below
by what is owed; data that are not marked invalid are not behind it either, and an
answer on its way is not behind what is shown. Two steps end a debt without paying it,
and set `lost`: an event that meets a request which goes on, whose answer may be older
than the event, and "load more", which takes the place of the refetch and asks only
for what follows the rows that are shown. That the shown data only grow gives
`RowsAreKept`.

**InvitesAreKept** and **ActiveIsTheirs.** `SessionInv` begins with where a request can
be under way (`Places`): with which page, and with which value of `isAuthenticated`, so
that no page changes under its request. `Kept` says that an invite which nothing has
settled is stored or being accepted on its page. `SameVisitor` says that nobody else
signs in while an answer on somebody's behalf is out; `AnswersAreTrue` and
`CacheIsTrue`, that a list of organizations holds the user's own, and all of them but
those noted as missing, those lost, and those `Granted` by an answer that the page has
not handled yet. On the shell nothing is granted and not noted, so that an active
organization that is the user's own (`Mine`) is in the list. The proof needs that no
second registration starts while the first one's list is fetched again, which the
disabled button of the form sees to.

**Only model-checked**: all liveness (`Progress`, `SignalExits`, `SessionsClose`,
`Reconnects`, `NoBlankPage`, `RepliesAppear`), which the prover does not handle
under fairness.

## 5 Where code and words differ

Three have a run whose trace shows it.

1. **Masking map** (`internal.go:421`, run `IngestSpan_masking`). Its errors are
   logged as non-fatal, inside a transaction that they abort.
2. **Removed owner** (`org.go:333`, run `Organization_remove`). "Cannot remove the
   owner", yet role and deletion are two statements and a transfer fits between.
3. **The dashboard's window** (`DashboardPage.tsx:20`, run `LiveUpdates_window`).
   The empty dashboard promises that data will appear; its range ends at the
   moment it was mounted, and every refetch and the poll ask for that range.

More were met; the modules have the behaviour or it is outside them.

- *Dispatcher*: a `Dispatch` that loaded the flag before the swap and registers
  while `Wait` returns makes the WaitGroup panic, where the doc of `Dispatch`
  (`dispatch.go:103`) promises a silent drop. It takes a handler that outlived the
  HTTP timeout, as `MainInv` shows.
- *Closure*: `span_count` is older than the count of failed spans
  (`internal.go:535`, `:585`), so that a session with a good span can be closed as
  failed. `StatusIsEarned` says what does hold.
- *Cache*: "never served from stale cache" (`cache.go:122`), yet an invalid answer
  leaves the old entry (`:168`). `RevocationBound` is what holds.
- *Keys*: a key that is deactivated while the organization's deletion turns keys
  off keeps `deactivated_by_deletion` and is active again after a restoration,
  although deactivation is called irreversible (`handler/apikey.go:142`).
- *Quota*: the comment at `internal.go:298` calls an upgrade between the plan's
  read and the gate harmless, while the gate's `plan = 'free'`
  (`organizations.sql:92`) then refuses the span.
- *Invites, members*: "Silently check if invitee is already a member"
  (`invite.go:80`) passes whenever one of its lookups fails, and for every member
  whose address is stored with a capital letter, whom acceptance then takes for the
  invitee (`:186`). The invite outlives the removal of that member.
- *Live updates*: "Refetch stats immediately" (`use-websocket.ts:80`) does not refetch
  while the first load is under way, whose answer may be older than the event; and
  "load more" cancels a refetch that an event has asked for and brings only the rows
  after those shown.
- *Invites*: "max 50 pending" (`invite.go:59`) is exceeded by concurrent creations;
  and an acceptance "uses a transaction to prevent race conditions"
  (`invite.go:162`) that locks nothing, so that an invite can serve twice around a
  removal.
- *Alerts*: the rules of a type are all evaluated over the longest window of any
  of them (`alert.go:369`-`436`), while the event reports the rule's own.
- *Timeline*: the list need not be in order of the starts, and then the lanes, and
  "N parallel lanes" (`en.ts:245`), can be more than ever ran at once.
- *Pro request*: a 409 with `{requested: false}` in the cache changes nothing and
  shows nothing (`use-billing.ts:53`).
- *Client, smaller*: a wrong password's 401 runs the hard logout of the shared
  client (`api.ts:49`); the sidebar's logout never calls the server
  (`Sidebar.tsx:109`); a created organization is not in the cached list until the
  next fetch; a socket that reopens invalidates nothing, and the notice of dropped
  events is ignored; the privacy form shows defaults after a failed load; a failed
  fetch of a cluster's sessions reads "No sessions found.".

## 6 What is not covered

Texts, formats, prices and statistics have no place in the models: nothing here
says that a cost is computed or a header parsed correctly. Read-only queries,
export, email, encryption, configuration and migrations keep no state that a later
step depends on. Pages of the client that only show a query, its components, its
translations and its styles are left out for the same reason. The code in
`processing/internal/db` is generated from the queries, which is what the modules
translate. PostgreSQL, `sync.WaitGroup`, `net/http`, TanStack Query, the browser's
WebSocket and the clock are external and modelled as the code relies on them. More
than one replica of Processing appears only through the database: the crons are
one actor because the advisory lock makes them one.

Some properties have exceptions, because the code does not keep them there; what the
exception lets through is not caught. Each is named with its property, and in
`PROJECT.json` with the hazard:

- *Organization*: transfers that overlap with each other or with another change of the
  members (`raced`) may leave two owners or none; a deletion that failed half way or
  met another one (`torn`), and keys created by requests admitted before it (`late`),
  do not follow the status; an organization restored after the cron listed it is
  deleted (`contested`).
- *Invites*: creations that overlap exceed the limit (`crowded`); a removed account
  comes back if requests about its address overlapped (`overlapped`) or its membership
  was not seen when it was invited (`overlooked`).
- *Live updates*: an event that meets a first load, or whose refetch gave way to "load
  more", may never be shown (`lost`).
- *Settings*: the general form can be saved into another organization while its
  settings load; a save overtaken by a switch refreshes the wrong query.
- *Lists*: that a removal is sent twice, or that a late mutation closes another dialog,
  is in the module and asserted nowhere.
- *Keys page*: the answer of an earlier secret's test may show in the next dialog, and
  of two tests of one key the later answer wins.
- *Timeline*: bars of the least width may coincide.

Hazards of the code that no property covers yet:

- `hub.go:114`: `Publish` sends without the lock while `Unsubscribe` closes the
  channel; `websocket.go:165`: a connection is cleaned up with a subscribe in
  flight; `websocket.go:356`: the notice of dropped events is itself dropped.
  (`LiveUpdates` has the hub and the writer as the client sees them.)
- `auth.go:651`: the login limiter is charged after the comparison;
  `middleware/auth.go:84`: times compared by the second.
- `alert.go:490`: the cooldown begins before the event is stored.
- `retention.go:20`: the purge against sessions that are being closed.
- `main.go:467` of Processing: a shutdown beside a `main` that returns.
- `sse_helpers.go:114`: placeholders split across reads.

## 7 The plan

In this order; each entry is a module with its instance and properties.

1. `Hub`: `Subscribe`, `Unsubscribe`, `Publish` and one connection with reader,
   writer and forwarders, under `LiveUpdates`' view of it.
2. `ProcessingMain`: shutdown, handlers, crons behind `Singleflight` and the
   advisory lock, `LastUsedBatcher`.
3. `Accounts`: login limiter and bcrypt semaphore, first user, reset tokens used
   once, tokens older than a password change.
4. `Alerts` and `Intelligence`: cooldown against lost events, one event for each
   trigger from cron and hub, counters of clusters against their links.
5. `ProxyHandler`: lookup, limit, mask, forward, stream, dispatch over an abstract
   provider; composed with `AuthCache` and `SpanDispatcher`.
6. `Unmask`: replacement in a stream as a recursive function against replacement
   in the whole text, over all short texts and splits.
7. `RateLimits`: sliding windows with bounded maps against the count in any window.
8. `Retention`: the purge against ingestion and closure.

Theorems worth proving next: the inductive invariants of these modules, as they are
written. Of the modules there are, only liveness has no theorem.

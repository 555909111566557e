----------------------------- MODULE AuthCache -----------------------------
(***************************************************************************)
(* The proxy's cache of API key verifications, proxy/internal/auth/        *)
(* cache.go, with Processing's VerifyAPIKey behind it.  Lookups run        *)
(* concurrently; each one reads the cache, asks the circuit breaker, and   *)
(* may fetch from Processing, which reads the key and then its             *)
(* organization while keys are deactivated and the organization is         *)
(* deleted or restored.  A fetch may fail in any way and ends within       *)
(* FetchTimeout.  What a lookup does inside the proxy takes no time.       *)
(***************************************************************************)
EXTENDS Integers, FiniteSets

CONSTANTS
  Keys,          \* API keys (their digests), all of one organization
  Lookups,       \* concurrent callers of Lookup
  Ttl,           \* ttl, in ticks
  MaxStale,      \* maxStaleDuration
  FetchTimeout,  \* bound on a fetch: the timeout of the client and of fetchCtx
  Cooldown,      \* cbCooldown
  FailThreshold, \* cbFailThreshold
  MaxEntries,    \* maxEntries
  MaxTime,       \* bound on the clock
  NoKey          \* not a key

ASSUME TimesAssumption ==
  /\ Ttl \in Nat /\ MaxStale \in Nat /\ FetchTimeout \in Nat /\ MaxTime \in Nat
  /\ Cooldown \in Nat \ {0}
ASSUME SizesAssumption ==
  /\ FailThreshold \in Nat \ {0} /\ MaxEntries \in Nat \ {0}
  /\ IsFiniteSet(Keys) /\ NoKey \notin Keys
ASSUME LookupsAssumption == IsFiniteSet(Lookups)

VARIABLES
  now,
  entries,         \* keys of the map; only valid results are ever stored
  expiresAt,       \* expiresAt[k], lastUsedAt[k]: the entry of k
  lastUsedAt,
  cbFail,          \* cbConsecutiveFail
  cbOpenUntil,
  lpc,             \* lpc[l]: where the lookup is
  lkey,            \* lkey[l]: the key it looks up
  found,           \* found[l], seenExpiry[l]: the entry it read
  seenExpiry,
  started,         \* started[l]: when its fetch began
  answer,          \* answer[l]: how its last call ended
  active,          \* api_keys.active, api_keys.deactivated_by_deletion
  byDeletion,
  pending,         \* the organization's status is pending_deletion
  offSince,        \* history: since when k is inactive, and since when the
  pendingSince     \*          organization is scheduled for deletion

cacheVars  == <<entries, expiresAt, lastUsedAt>>
cbVars     == <<cbFail, cbOpenUntil>>
lookupVars == <<lpc, lkey, found, seenExpiry, started, answer>>
dbVars     == <<active, byDeletion, pending, offSince, pendingSince>>
vars == <<now, cacheVars, cbVars, lookupVars, dbVars>>

LookupPCs == {"idle", "circuit", "key", "org", "valid", "invalid", "insert"}
Fetching  == {"key", "org", "valid", "invalid"}
Answers   == {"none", "fresh", "fetched", "stale", "refused", "error"}

CacheInit ==
  /\ now = 0
  /\ entries = {}
  /\ expiresAt = [k \in Keys |-> 0] /\ lastUsedAt = [k \in Keys |-> 0]
  /\ cbFail = 0 /\ cbOpenUntil = 0
  /\ lpc = [l \in Lookups |-> "idle"]
  /\ lkey = [l \in Lookups |-> NoKey]
  /\ found = [l \in Lookups |-> FALSE]
  /\ seenExpiry = [l \in Lookups |-> 0]
  /\ started = [l \in Lookups |-> 0]
  /\ answer = [l \in Lookups |-> "none"]

\* The keys in `on` are active.
KeysInit(on) ==
  /\ active = [k \in Keys |-> k \in on] /\ byDeletion = [k \in Keys |-> FALSE]
  /\ pending = FALSE
  /\ offSince = [k \in Keys |-> 0] /\ pendingSince = 0

Init == CacheInit /\ KeysInit(Keys)

Goto(l, p) == lpc' = [lpc EXCEPT ![l] = p]

\* Lookup returns a: its local variables are gone.
Return(l, a) ==
  /\ Goto(l, "idle")
  /\ answer' = [answer EXCEPT ![l] = a]
  /\ lkey' = [lkey EXCEPT ![l] = NoKey]
  /\ found' = [found EXCEPT ![l] = FALSE]
  /\ seenExpiry' = [seenExpiry EXCEPT ![l] = 0]
  /\ started' = [started EXCEPT ![l] = 0]
-----------------------------------------------------------------------------
(***************************************************************************)
(* Lookup                                                                  *)
(***************************************************************************)

Fresh(k) == k \in entries /\ now < expiresAt[k]

\* The check under mu: a fresh entry is returned and marked as used; otherwise
\* the lookup goes on with what it read.
LookupStart(l, k) ==
  /\ lpc[l] = "idle"
  /\ \/ /\ Fresh(k)
        /\ lastUsedAt' = [lastUsedAt EXCEPT ![k] = now]
        /\ Return(l, "fresh")
     \/ /\ ~Fresh(k)
        /\ Goto(l, "circuit")
        /\ lkey' = [lkey EXCEPT ![l] = k]
        /\ found' = [found EXCEPT ![l] = k \in entries]
        /\ seenExpiry' = [seenExpiry EXCEPT ![l] = expiresAt[k]]
        /\ answer' = [answer EXCEPT ![l] = "none"]
        /\ UNCHANGED <<lastUsedAt, started>>
  /\ UNCHANGED <<now, entries, expiresAt, cbVars, dbVars>>

\* Faulty variant: a breaker that opens one failure late.
CircuitOpenLate == cbFail > FailThreshold /\ now < cbOpenUntil

CircuitOpen == cbFail >= FailThreshold /\ now < cbOpenUntil

\* Opens the circuit, or keeps it open for another cooldown.
RecordFailure ==
  /\ cbFail' = cbFail + 1
  /\ cbOpenUntil' = IF cbFail + 1 >= FailThreshold THEN now + Cooldown ELSE cbOpenUntil

\* Faulty variant: a success takes one failure back.
RecordSuccessDecrements == cbFail' = cbFail - 1 /\ UNCHANGED cbOpenUntil

RecordSuccess ==
  /\ cbFail' = 0
  /\ cbOpenUntil' = IF cbFail > 0 THEN 0 ELSE cbOpenUntil

\* Faulty variant: the age limit is compared with <=.
MayServeStaleTooLong(l) == found[l] /\ now - seenExpiry[l] <= MaxStale

\* Fail-open: a valid entry seen at the start that is not too old.
MayServeStale(l) == found[l] /\ now - seenExpiry[l] < MaxStale

\* Serve the stale entry, or reject.
ServeStaleOrFail(l) ==
  \/ MayServeStale(l) /\ Return(l, "stale")
  \/ ~MayServeStale(l) /\ Return(l, "error")

\* circuitOpen: skip the call, or begin the fetch.
CheckCircuit(l) ==
  /\ lpc[l] = "circuit"
  /\ \/ CircuitOpen /\ ServeStaleOrFail(l)
     \/ /\ ~CircuitOpen
        /\ Goto(l, "key")
        /\ started' = [started EXCEPT ![l] = now]
        /\ UNCHANGED <<lkey, found, seenExpiry, answer>>
  /\ UNCHANGED <<now, cacheVars, cbVars, dbVars>>

\* VerifyAPIKey's first read: GetApiKeyByDigest, active keys only.
VerifyKey(l) ==
  /\ lpc[l] = "key"
  /\ Goto(l, IF active[lkey[l]] THEN "org" ELSE "invalid")
  /\ UNCHANGED <<now, cacheVars, cbVars, dbVars>>
  /\ UNCHANGED <<lkey, found, seenExpiry, started, answer>>

\* VerifyAPIKey's second read: GetOrganizationByID and its status.
VerifyOrg(l) ==
  /\ lpc[l] = "org"
  /\ Goto(l, IF pending THEN "invalid" ELSE "valid")
  /\ UNCHANGED <<now, cacheVars, cbVars, dbVars>>
  /\ UNCHANGED <<lkey, found, seenExpiry, started, answer>>

\* fetchFromProcessing fails: unreachable, not 200, undecodable, incomplete, out
\* of time, or the caller has gone (fetchCtx is a child of its context).
\* recordFailure, then fail-open.
FetchError(l) ==
  /\ lpc[l] \in Fetching
  /\ RecordFailure
  /\ ServeStaleOrFail(l)
  /\ UNCHANGED <<now, cacheVars, dbVars>>

\* The answer arrives: recordSuccess; an invalid result is returned uncached.
FetchAnswer(l) ==
  /\ lpc[l] \in {"valid", "invalid"}
  /\ RecordSuccess
  /\ \/ /\ lpc[l] = "valid" /\ Goto(l, "insert")
        /\ UNCHANGED <<lkey, found, seenExpiry, started, answer>>
     \/ /\ lpc[l] = "invalid" /\ Return(l, "refused")
  /\ UNCHANGED <<now, cacheVars, dbVars>>

Expired == {k \in entries : now > expiresAt[k]}

\* The entries that are left once a full map has lost its expired ones.
AfterExpiry == IF Cardinality(entries) >= MaxEntries THEN entries \ Expired ELSE entries
Oldest(S) == {k \in S : \A j \in S : lastUsedAt[k] <= lastUsedAt[j]}

\* Faulty variant: a full map evicts any entry.
MakeRoomAny ==
  IF Cardinality(AfterExpiry) >= MaxEntries
  THEN {AfterExpiry \ {k} : k \in AfterExpiry} ELSE {AfterExpiry}

\* The maps that room may be made in: still full, it loses an entry that was
\* least recently used.
MakeRoom ==
  IF Cardinality(AfterExpiry) >= MaxEntries
  THEN {AfterExpiry \ {k} : k \in Oldest(AfterExpiry)} ELSE {AfterExpiry}

\* The valid result is stored, under mu, and returned.
Insert(l) ==
  /\ lpc[l] = "insert"
  /\ \E room \in MakeRoom :
       /\ entries' = room \union {lkey[l]}
       /\ expiresAt' = [k \in Keys |-> CASE k = lkey[l] -> now + Ttl
                                         [] k \in room \ {lkey[l]} -> expiresAt[k]
                                         [] OTHER -> 0]
       /\ lastUsedAt' = [k \in Keys |-> CASE k = lkey[l] -> now
                                          [] k \in room \ {lkey[l]} -> lastUsedAt[k]
                                          [] OTHER -> 0]
  /\ Return(l, "fetched")
  /\ UNCHANGED <<now, cbVars, dbVars>>

\* One tick of evictLoop.
Evict ==
  /\ Expired # {}
  /\ entries' = entries \ Expired
  /\ expiresAt' = [k \in Keys |-> IF k \in Expired THEN 0 ELSE expiresAt[k]]
  /\ lastUsedAt' = [k \in Keys |-> IF k \in Expired THEN 0 ELSE lastUsedAt[k]]
  /\ UNCHANGED <<now, cbVars, lookupVars, dbVars>>
-----------------------------------------------------------------------------
(***************************************************************************)
(* What happens around it                                                  *)
(***************************************************************************)

\* Time passes while lookups are idle or wait for Processing, which answers
\* within FetchTimeout or not at all.
Tick ==
  /\ now < MaxTime
  /\ \A l \in Lookups :
       /\ lpc[l] \in {"idle"} \union Fetching
       /\ lpc[l] \in Fetching => now < started[l] + FetchTimeout
  /\ now' = now + 1
  /\ UNCHANGED <<cacheVars, cbVars, lookupVars, dbVars>>

\* The owner turns a key off.
DeactivateApiKey(k) ==
  /\ active[k]
  /\ active' = [active EXCEPT ![k] = FALSE]
  /\ offSince' = [offSince EXCEPT ![k] = now]
  /\ UNCHANGED <<now, cacheVars, cbVars, lookupVars, byDeletion, pending, pendingSince>>

\* The deletion of the organization turns off the keys that are on ...
DeactivateApiKeysByOrg ==
  /\ \E k \in Keys : active[k]
  /\ active' = [k \in Keys |-> FALSE]
  /\ byDeletion' = [k \in Keys |-> byDeletion[k] \/ active[k]]
  /\ offSince' = [k \in Keys |-> IF active[k] THEN now ELSE offSince[k]]
  /\ UNCHANGED <<now, cacheVars, cbVars, lookupVars, pending, pendingSince>>

\* ... and its end turns those on again.
ReactivateApiKeysByOrg ==
  /\ \E k \in Keys : byDeletion[k]
  /\ active' = [k \in Keys |-> active[k] \/ byDeletion[k]]
  /\ byDeletion' = [k \in Keys |-> FALSE]
  /\ offSince' = [k \in Keys |-> IF byDeletion[k] THEN 0 ELSE offSince[k]]
  /\ UNCHANGED <<now, cacheVars, cbVars, lookupVars, pending, pendingSince>>

\* SetOrganizationPendingDeletion
ScheduleDeletion ==
  /\ ~pending
  /\ pending' = TRUE /\ pendingSince' = now
  /\ UNCHANGED <<now, cacheVars, cbVars, lookupVars, active, byDeletion, offSince>>

\* RestoreOrganization
Restore ==
  /\ pending
  /\ pending' = FALSE /\ pendingSince' = 0
  /\ UNCHANGED <<now, cacheVars, cbVars, lookupVars, active, byDeletion, offSince>>

Lookup(l) ==
  \/ \E k \in Keys : LookupStart(l, k)
  \/ CheckCircuit(l) \/ VerifyKey(l) \/ VerifyOrg(l)
  \/ FetchError(l) \/ FetchAnswer(l) \/ Insert(l)

Next ==
  \/ \E l \in Lookups : Lookup(l)
  \/ Evict \/ Tick
  \/ \E k \in Keys : DeactivateApiKey(k)
  \/ DeactivateApiKeysByOrg \/ ReactivateApiKeysByOrg
  \/ ScheduleDeletion \/ Restore

Spec == Init /\ [][Next]_vars
-----------------------------------------------------------------------------
(***************************************************************************)
(* Properties                                                              *)
(***************************************************************************)

CacheTypeOK ==
  /\ now \in Nat
  /\ entries \in SUBSET Keys
  /\ expiresAt \in [Keys -> Nat] /\ lastUsedAt \in [Keys -> Nat]
  /\ cbFail \in Nat /\ cbOpenUntil \in Nat

LookupTypeOK ==
  /\ lpc \in [Lookups -> LookupPCs]
  /\ lkey \in [Lookups -> Keys \union {NoKey}]
  /\ found \in [Lookups -> BOOLEAN]
  /\ seenExpiry \in [Lookups -> Nat]
  /\ started \in [Lookups -> Nat]
  /\ answer \in [Lookups -> Answers]
  /\ \A l \in Lookups : lpc[l] # "idle" => lkey[l] \in Keys

DbTypeOK ==
  /\ active \in [Keys -> BOOLEAN] /\ byDeletion \in [Keys -> BOOLEAN]
  /\ pending \in BOOLEAN
  /\ offSince \in [Keys -> Nat] /\ pendingSince \in Nat

\* The types of the cache, the lookups and the database.
TypeOK == CacheTypeOK /\ LookupTypeOK /\ DbTypeOK

\* The map never holds more than maxEntries, however many lookups of new keys
\* insert at the same time.
CapacityHolds == Cardinality(entries) <= MaxEntries

\* An insertion into a full map removes what has expired and otherwise only an
\* entry no remaining one was used before: a busy key is not pushed out by a
\* quiet one.
EvictsLeastRecent ==
  [][\A l \in Lookups :
       lpc[l] = "insert" /\ lpc'[l] = "idle" =>
         \A k \in entries \ entries', j \in entries' \ {lkey[l]} :
           k \in Expired \/ lastUsedAt[k] <= lastUsedAt[j]]_vars

\* Lookup l returns with answer a in this step.
Answered(l, a) == lpc[l] # "idle" /\ lpc'[l] = "idle" /\ answer'[l] = a

\* How long key k has been unusable is less than limit.
OffFor(k, limit) ==
  /\ ~active[k] => now - offSince[k] < limit
  /\ pending => now - pendingSince < limit

\* A key that was deactivated, or whose organization was scheduled for deletion,
\* while it was being verified is answered as valid once more; after that it is
\* answered from the cache for less than a fetch and a TTL, and during an outage
\* for less than maxStaleDuration beyond that: no interleaving of slow fetches,
\* insertions, evictions and stale answers keeps a revoked key alive longer.
RevocationBound ==
  [][\A l \in Lookups :
       /\ Answered(l, "fetched") => OffFor(lkey[l], FetchTimeout + 1)
       /\ Answered(l, "stale") => OffFor(lkey[l], FetchTimeout + Ttl + MaxStale)
       /\ \A k \in Keys :
            LookupStart(l, k) /\ answer'[l] = "fresh" => OffFor(k, FetchTimeout + Ttl)]_vars

\* The breaker bounds what an outage costs Processing: beyond the failures that
\* open the circuit, each concurrent caller fails at most once per cooldown.
BreakerShieldsProcessing ==
  cbFail <= FailThreshold - 1 + Cardinality(Lookups) * (1 + now \div Cooldown)

\* The cache keeps its limit, and keeps it by giving up what was used least recently.
CacheKeepsLimit == []CapacityHolds /\ EvictsLeastRecent
=============================================================================

-------------------------- MODULE AuthCacheProofs --------------------------
(***************************************************************************)
(* AuthCache is type correct, keeps RevocationBound and its limit, and     *)
(* shields Processing in an outage, for every number of keys and lookups   *)
(* and every setting of the durations and the limits.                      *)
(***************************************************************************)
EXTENDS AuthCache, FiniteSetTheorems, TLAPS

(***************************************************************************)
(* The inductive invariant.  RevocationBound only speaks of the moment a   *)
(* lookup returns; what makes it true is that every expiry anybody still   *)
(* holds, in the map or in a lookup that read it, is close enough to the   *)
(* revocation, and that a fetch which has passed a check began before the  *)
(* revocation that the check missed.                                       *)
(***************************************************************************)

\* An expiry e of an entry of k lies within a TTL of now and, once k is revoked,
\* within a fetch and a TTL of the revocation.
Covered(k, e) ==
  /\ e <= now + Ttl
  /\ ~active[k] => e <= offSince[k] + FetchTimeout + Ttl
  /\ pending => e <= pendingSince + FetchTimeout + Ttl

EntriesCovered == \A k \in entries : Covered(k, expiresAt[k])

SeenCovered ==
  \A l \in Lookups : found[l] => lpc[l] # "idle" /\ Covered(lkey[l], seenExpiry[l])

\* A fetch in progress began at most FetchTimeout ago.
AskedInTime ==
  \A l \in Lookups :
    lpc[l] \in Fetching \union {"insert"} => started[l] <= now /\ now <= started[l] + FetchTimeout

\* A key that was active when it was read has been deactivated since.
KeyReadBefore ==
  \A l \in Lookups :
    lpc[l] \in {"org", "valid", "insert"} /\ ~active[lkey[l]] => started[l] <= offSince[lkey[l]]

\* The same of the organization.
OrgReadBefore ==
  \A l \in Lookups : lpc[l] \in {"valid", "insert"} /\ pending => started[l] <= pendingSince

RevocationInv ==
  /\ EntriesCovered /\ SeenCovered
  /\ AskedInTime /\ KeyReadBefore /\ OrgReadBefore
-----------------------------------------------------------------------------
(***************************************************************************)
(* Type correctness                                                        *)
(***************************************************************************)

LEMMA InitType == Init => TypeOK
<1> SUFFICES ASSUME Init PROVE TypeOK  OBVIOUS
<1>1. CacheTypeOK  BY DEF Init, CacheInit, CacheTypeOK
<1>2. LookupTypeOK  BY DEF Init, CacheInit, LookupTypeOK, LookupPCs, Answers
<1>3. DbTypeOK  BY DEF Init, CacheInit, KeysInit, DbTypeOK
<1>. QED  BY <1>1, <1>2, <1>3 DEF TypeOK

\* Going to p, and returning a, keep the lookups well typed.
LEMMA GotoType ==
  ASSUME LookupTypeOK, NEW l \in Lookups, lpc[l] # "idle",
         NEW p \in LookupPCs, Goto(l, p),
         UNCHANGED <<lkey, found, seenExpiry, answer>>, started' \in [Lookups -> Nat]
  PROVE LookupTypeOK'
BY DEF LookupTypeOK, Goto

LEMMA ReturnType ==
  ASSUME LookupTypeOK, NEW l \in Lookups, NEW a \in Answers, Return(l, a)
  PROVE LookupTypeOK'
BY DEF LookupTypeOK, Goto, Return, LookupPCs

LEMMA ServeStaleOrFailType ==
  ASSUME LookupTypeOK, NEW l \in Lookups, ServeStaleOrFail(l)
  PROVE LookupTypeOK'
BY ReturnType DEF ServeStaleOrFail, Answers

\* Whatever room is made for an entry, the map gains none by it.
LEMMA RoomIsSubset == ASSUME NEW room \in MakeRoom PROVE room \subseteq entries
<1>1. AfterExpiry \subseteq entries  BY DEF AfterExpiry
<1>. QED  BY <1>1 DEF MakeRoom

LEMMA LookupType ==
  ASSUME TypeOK, NEW l \in Lookups, Lookup(l)
  PROVE TypeOK'
<1> USE DEF TypeOK
<1>1. ASSUME NEW k \in Keys, LookupStart(l, k) PROVE TypeOK'
  <2>1. CASE Fresh(k)
    <3>1. LookupTypeOK'  BY <1>1, <2>1, ReturnType DEF LookupStart, Answers
    <3>2. CacheTypeOK'  BY <1>1, <2>1 DEF LookupStart, CacheTypeOK, cbVars
    <3>3. DbTypeOK'  BY <1>1 DEF LookupStart, DbTypeOK, dbVars
    <3>. QED  BY <3>1, <3>2, <3>3
  <2>2. CASE ~Fresh(k)
    <3>1. LookupTypeOK'
      <4>1. seenExpiry' \in [Lookups -> Nat] /\ started' \in [Lookups -> Nat]
        BY <1>1, <2>2 DEF LookupStart, LookupTypeOK, CacheTypeOK
      <4>2. found' \in [Lookups -> BOOLEAN]
        <5>1. found' = [found EXCEPT ![l] = k \in entries]  BY <1>1, <2>2 DEF LookupStart
        <5>2. CASE k \in entries
          <6>1. found' = [found EXCEPT ![l] = TRUE]  BY <5>1, <5>2, Zenon
          <6>. QED  BY <6>1 DEF LookupTypeOK
        <5>3. CASE k \notin entries
          <6>1. (k \in entries) = FALSE  BY <5>3
          <6>2. found' = [found EXCEPT ![l] = FALSE]  BY <5>1, <6>1, Zenon
          <6>. QED  BY <6>2 DEF LookupTypeOK
        <5>. QED  BY <5>2, <5>3
      <4>3. /\ lpc' \in [Lookups -> LookupPCs] /\ lkey' \in [Lookups -> Keys \union {NoKey}]
            /\ answer' \in [Lookups -> Answers]
        BY <1>1, <2>2 DEF LookupStart, LookupTypeOK, Goto, LookupPCs, Answers
      <4>4. \A j \in Lookups : lpc'[j] # "idle" => lkey'[j] \in Keys
        BY <1>1, <2>2 DEF LookupStart, LookupTypeOK, Goto
      <4>. QED  BY <4>1, <4>2, <4>3, <4>4 DEF LookupTypeOK
    <3>2. CacheTypeOK'  BY <1>1, <2>2 DEF LookupStart, CacheTypeOK, cbVars
    <3>3. DbTypeOK'  BY <1>1 DEF LookupStart, DbTypeOK, dbVars
    <3>. QED  BY <3>1, <3>2, <3>3
  <2>. QED  BY <2>1, <2>2
<1>2. CASE CheckCircuit(l)
  <2>1. LookupTypeOK'
    <3>1. CASE CircuitOpen /\ ServeStaleOrFail(l)  BY <3>1, ServeStaleOrFailType
    <3>2. CASE ~CircuitOpen
      <4>1. started' \in [Lookups -> Nat]
        BY <1>2, <3>2 DEF CheckCircuit, LookupTypeOK, CacheTypeOK
      <4>. QED  BY <1>2, <3>2, <4>1, GotoType DEF CheckCircuit, LookupPCs
    <3>. QED  BY <1>2, <3>1, <3>2 DEF CheckCircuit
  <2>2. CacheTypeOK'  BY <1>2 DEF CheckCircuit, CacheTypeOK, cbVars, cacheVars
  <2>3. DbTypeOK'  BY <1>2 DEF CheckCircuit, DbTypeOK, dbVars
  <2>. QED  BY <2>1, <2>2, <2>3
<1>3. CASE VerifyKey(l) \/ VerifyOrg(l)
  <2>1. LookupTypeOK'
    <3>1. started' \in [Lookups -> Nat]  BY <1>3 DEF VerifyKey, VerifyOrg, LookupTypeOK
    <3>2. PICK p \in LookupPCs : Goto(l, p)  BY <1>3 DEF VerifyKey, VerifyOrg, LookupPCs
    <3>. QED  BY <1>3, <3>1, <3>2, GotoType DEF VerifyKey, VerifyOrg
  <2>2. CacheTypeOK'  BY <1>3 DEF VerifyKey, VerifyOrg, CacheTypeOK, cbVars, cacheVars
  <2>3. DbTypeOK'  BY <1>3 DEF VerifyKey, VerifyOrg, DbTypeOK, dbVars
  <2>. QED  BY <2>1, <2>2, <2>3
<1>4. CASE FetchError(l)
  <2>1. LookupTypeOK'  BY <1>4, ServeStaleOrFailType DEF FetchError
  <2>2. CacheTypeOK'
    BY <1>4, TimesAssumption DEF FetchError, RecordFailure, CacheTypeOK, cacheVars
  <2>3. DbTypeOK'  BY <1>4 DEF FetchError, DbTypeOK, dbVars
  <2>. QED  BY <2>1, <2>2, <2>3
<1>5. CASE FetchAnswer(l)
  <2>1. LookupTypeOK'
    <3>1. CASE lpc[l] = "valid"
      <4>1. started' \in [Lookups -> Nat]  BY <1>5, <3>1 DEF FetchAnswer, LookupTypeOK
      <4>. QED  BY <1>5, <3>1, <4>1, GotoType DEF FetchAnswer, LookupPCs
    <3>2. CASE lpc[l] = "invalid"  BY <1>5, <3>2, ReturnType DEF FetchAnswer, Answers
    <3>. QED  BY <1>5, <3>1, <3>2 DEF FetchAnswer
  <2>2. CacheTypeOK'  BY <1>5 DEF FetchAnswer, RecordSuccess, CacheTypeOK, cacheVars
  <2>3. DbTypeOK'  BY <1>5 DEF FetchAnswer, DbTypeOK, dbVars
  <2>. QED  BY <2>1, <2>2, <2>3
<1>6. CASE Insert(l)
  <2>1. LookupTypeOK'  BY <1>6, ReturnType DEF Insert, Answers
  <2>2. CacheTypeOK'
    <3>1. lkey[l] \in Keys  BY <1>6 DEF Insert, LookupTypeOK
    <3>2. PICK room \in MakeRoom :
            /\ entries' = room \union {lkey[l]}
            /\ expiresAt' = [k \in Keys |-> CASE k = lkey[l] -> now + Ttl
                                              [] k \in room \ {lkey[l]} -> expiresAt[k]
                                              [] OTHER -> 0]
            /\ lastUsedAt' = [k \in Keys |-> CASE k = lkey[l] -> now
                                               [] k \in room \ {lkey[l]} -> lastUsedAt[k]
                                               [] OTHER -> 0]
      BY <1>6 DEF Insert
    <3>3. entries' \in SUBSET Keys  BY <3>1, <3>2, RoomIsSubset DEF CacheTypeOK
    <3>4. expiresAt' \in [Keys -> Nat]  BY <3>2, TimesAssumption DEF CacheTypeOK
    <3>5. lastUsedAt' \in [Keys -> Nat]  BY <3>2 DEF CacheTypeOK
    <3>. QED  BY <1>6, <3>3, <3>4, <3>5 DEF Insert, CacheTypeOK, cbVars
  <2>3. DbTypeOK'  BY <1>6 DEF Insert, DbTypeOK, dbVars
  <2>. QED  BY <2>1, <2>2, <2>3
<1>. QED  BY <1>1, <1>2, <1>3, <1>4, <1>5, <1>6 DEF Lookup

LEMMA NextType == TypeOK /\ [Next]_vars => TypeOK'
<1> SUFFICES ASSUME TypeOK, [Next]_vars PROVE TypeOK'  OBVIOUS
<1> USE DEF TypeOK
<1>1. ASSUME NEW l \in Lookups, Lookup(l) PROVE TypeOK'  BY <1>1, LookupType
<1>2. CASE Evict
  <2>1. CacheTypeOK'  BY <1>2 DEF Evict, CacheTypeOK, cbVars
  <2>. QED  BY <1>2, <2>1 DEF Evict, LookupTypeOK, DbTypeOK, lookupVars, dbVars
<1>3. CASE Tick
  <2>1. CacheTypeOK'  BY <1>3 DEF Tick, CacheTypeOK, cacheVars, cbVars
  <2>. QED  BY <1>3, <2>1 DEF Tick, LookupTypeOK, DbTypeOK, lookupVars, dbVars
<1>4. ASSUME NEW k \in Keys, DeactivateApiKey(k) PROVE TypeOK'
  <2>1. DbTypeOK'
    <3>1. offSince' \in [Keys -> Nat]  BY <1>4 DEF DeactivateApiKey, DbTypeOK, CacheTypeOK
    <3>. QED  BY <1>4, <3>1 DEF DeactivateApiKey, DbTypeOK
  <2>. QED  BY <1>4, <2>1 DEF DeactivateApiKey, LookupTypeOK, CacheTypeOK, lookupVars,
                              cacheVars, cbVars
<1>7. CASE DeactivateApiKeysByOrg \/ ReactivateApiKeysByOrg
  <2>1. active' \in [Keys -> BOOLEAN]
    BY <1>7 DEF DeactivateApiKeysByOrg, ReactivateApiKeysByOrg
  <2>2. byDeletion' \in [Keys -> BOOLEAN]
    BY <1>7 DEF DeactivateApiKeysByOrg, ReactivateApiKeysByOrg
  <2>3. offSince' \in [Keys -> Nat]
    BY <1>7 DEF DeactivateApiKeysByOrg, ReactivateApiKeysByOrg, DbTypeOK, CacheTypeOK
  <2>4. UNCHANGED <<now, cacheVars, cbVars, lookupVars, pending, pendingSince>>
    BY <1>7 DEF DeactivateApiKeysByOrg, ReactivateApiKeysByOrg
  <2>5. DbTypeOK'  BY <2>1, <2>2, <2>3, <2>4 DEF DbTypeOK
  <2>. QED  BY <2>4, <2>5 DEF LookupTypeOK, CacheTypeOK, lookupVars, cacheVars, cbVars
<1>5. CASE ScheduleDeletion \/ Restore
  <2>1. pending' \in BOOLEAN  BY <1>5 DEF ScheduleDeletion, Restore
  <2>2. pendingSince' \in Nat  BY <1>5 DEF ScheduleDeletion, Restore, CacheTypeOK
  <2>3. DbTypeOK'  BY <1>5, <2>1, <2>2 DEF ScheduleDeletion, Restore, DbTypeOK
  <2>. QED  BY <1>5, <2>3 DEF ScheduleDeletion, Restore, LookupTypeOK, CacheTypeOK, lookupVars,
                              cacheVars, cbVars
<1>6. CASE UNCHANGED vars
  BY <1>6 DEF vars, CacheTypeOK, LookupTypeOK, DbTypeOK, cacheVars, cbVars, lookupVars, dbVars
<1>. QED  BY <1>1, <1>2, <1>3, <1>4, <1>5, <1>6, <1>7 DEF Next

\* TypeOK: the cache, the lookups and the database keep their types, whatever
\* the sizes and durations.
THEOREM TypeCorrect == Spec => []TypeOK
BY InitType, NextType, PTL DEF Spec
-----------------------------------------------------------------------------
(***************************************************************************)
(* The steps of a lookup                                                   *)
(***************************************************************************)

\* A step of one lookup leaves the clock, the database and the other lookups
\* alone.
LEMMA LookupFrame ==
  ASSUME TypeOK, NEW l \in Lookups, Lookup(l)
  PROVE /\ UNCHANGED <<now, dbVars>>
        /\ \A j \in Lookups \ {l} :
             /\ lpc'[j] = lpc[j] /\ lkey'[j] = lkey[j] /\ found'[j] = found[j]
             /\ seenExpiry'[j] = seenExpiry[j] /\ started'[j] = started[j]
<1> USE DEF TypeOK, LookupTypeOK
<1>1. ASSUME Return(l, "stale") \/ Return(l, "error")
      PROVE \A j \in Lookups \ {l} :
              /\ lpc'[j] = lpc[j] /\ lkey'[j] = lkey[j] /\ found'[j] = found[j]
              /\ seenExpiry'[j] = seenExpiry[j] /\ started'[j] = started[j]
  BY <1>1 DEF Return, Goto
<1>2. ASSUME NEW k \in Keys, LookupStart(l, k)
      PROVE /\ UNCHANGED <<now, dbVars>>
            /\ \A j \in Lookups \ {l} :
                 /\ lpc'[j] = lpc[j] /\ lkey'[j] = lkey[j] /\ found'[j] = found[j]
                 /\ seenExpiry'[j] = seenExpiry[j] /\ started'[j] = started[j]
  BY <1>2 DEF LookupStart, Return, Goto
<1>3. CASE CheckCircuit(l)  BY <1>1, <1>3 DEF CheckCircuit, ServeStaleOrFail, Goto
<1>4. CASE VerifyKey(l)  BY <1>4 DEF VerifyKey, Goto
<1>5. CASE VerifyOrg(l)  BY <1>5 DEF VerifyOrg, Goto
<1>6. CASE FetchError(l)  BY <1>1, <1>6 DEF FetchError, ServeStaleOrFail
<1>7. CASE FetchAnswer(l)  BY <1>7 DEF FetchAnswer, Return, Goto
<1>8. CASE Insert(l)  BY <1>8 DEF Insert, Return, Goto
<1>. QED  BY <1>2, <1>3, <1>4, <1>5, <1>6, <1>7, <1>8 DEF Lookup

\* After a return, a lookup has seen nothing and fetches nothing.
LEMMA AfterReturn ==
  ASSUME TypeOK, NEW l \in Lookups, NEW a \in Answers, Return(l, a)
  PROVE lpc'[l] = "idle" /\ found'[l] = FALSE
BY DEF TypeOK, LookupTypeOK, Return, Goto

\* What a lookup has done by the end of a step of its own.
LEMMA LookupStep ==
  ASSUME TypeOK, NEW l \in Lookups, Lookup(l)
  PROVE \/ lpc'[l] = "idle" /\ found'[l] = FALSE
        \/ \E k \in Keys : /\ lpc'[l] = "circuit" /\ lkey'[l] = k
                           /\ found'[l] => k \in entries
                           /\ seenExpiry'[l] = expiresAt[k]
        \/ /\ lpc[l] # "idle" /\ lkey'[l] = lkey[l] /\ found'[l] = found[l]
           /\ seenExpiry'[l] = seenExpiry[l]
           /\ \/ lpc'[l] = "key" /\ started'[l] = now
              \/ /\ lpc[l] = "key" /\ lpc'[l] = "org" /\ active[lkey[l]]
                 /\ started'[l] = started[l]
              \/ /\ lpc[l] = "org" /\ lpc'[l] = "valid" /\ ~pending
                 /\ started'[l] = started[l]
              \/ /\ lpc[l] = "valid" /\ lpc'[l] = "insert" /\ started'[l] = started[l]
              \/ /\ lpc[l] \in Fetching /\ lpc'[l] = "invalid" /\ started'[l] = started[l]
<1> USE DEF TypeOK, LookupTypeOK
<1>1. ASSUME NEW k \in Keys, LookupStart(l, k), Fresh(k)
      PROVE lpc'[l] = "idle" /\ found'[l] = FALSE
  BY <1>1, AfterReturn DEF LookupStart, Answers
<1>2. ASSUME NEW k \in Keys, LookupStart(l, k), ~Fresh(k)
      PROVE /\ lpc'[l] = "circuit" /\ lkey'[l] = k
            /\ found'[l] => k \in entries
            /\ seenExpiry'[l] = expiresAt[k]
  BY <1>2 DEF LookupStart, Goto
<1>3. CASE CheckCircuit(l)
  <2>1. CASE CircuitOpen /\ ServeStaleOrFail(l)
    BY <2>1, AfterReturn DEF ServeStaleOrFail, Answers
  <2>2. CASE ~CircuitOpen  BY <1>3, <2>2 DEF CheckCircuit, Goto
  <2>. QED  BY <1>3, <2>1, <2>2 DEF CheckCircuit
<1>4. CASE VerifyKey(l)  BY <1>4 DEF VerifyKey, Goto, Fetching
<1>5. CASE VerifyOrg(l)  BY <1>5 DEF VerifyOrg, Goto, Fetching
<1>6. CASE FetchError(l)  BY <1>6, AfterReturn DEF FetchError, ServeStaleOrFail, Answers
<1>7. CASE FetchAnswer(l)
  <2>1. CASE lpc[l] = "valid"  BY <1>7, <2>1 DEF FetchAnswer, Goto
  <2>2. CASE lpc[l] = "invalid"  BY <1>7, <2>2, AfterReturn DEF FetchAnswer, Answers
  <2>. QED  BY <1>7, <2>1, <2>2 DEF FetchAnswer
<1>8. CASE Insert(l)  BY <1>8, AfterReturn DEF Insert, Answers
<1>. QED  BY <1>1, <1>2, <1>3, <1>4, <1>5, <1>6, <1>7, <1>8 DEF Lookup
-----------------------------------------------------------------------------
(***************************************************************************)
(* The revocation bound                                                    *)
(***************************************************************************)

LEMMA InitRevocation == Init => RevocationInv
BY DEF Init, CacheInit, KeysInit, RevocationInv, EntriesCovered, SeenCovered, AskedInTime, KeyReadBefore,
       OrgReadBefore, Fetching

\* Every step of a lookup but the last keeps the map, or only marks a use.
LEMMA MapKept ==
  ASSUME NEW l \in Lookups, Lookup(l), ~Insert(l)
  PROVE entries' = entries /\ expiresAt' = expiresAt
BY DEF Lookup, LookupStart, CheckCircuit, VerifyKey, VerifyOrg, FetchError, FetchAnswer, cacheVars

LEMMA LookupRevocation ==
  ASSUME TypeOK, RevocationInv, NEW l \in Lookups, Lookup(l)
  PROVE RevocationInv'
<1>1. /\ now' = now /\ active' = active /\ pending' = pending
      /\ offSince' = offSince /\ pendingSince' = pendingSince
  BY LookupFrame DEF dbVars
<1>2. \A j \in Lookups \ {l} :
        /\ lpc'[j] = lpc[j] /\ lkey'[j] = lkey[j] /\ found'[j] = found[j]
        /\ seenExpiry'[j] = seenExpiry[j] /\ started'[j] = started[j]
  BY LookupFrame
<1>3. EntriesCovered'
  <2>1. CASE Insert(l)
    <3>1. PICK room \in MakeRoom :
            /\ entries' = room \union {lkey[l]}
            /\ expiresAt' = [k \in Keys |-> CASE k = lkey[l] -> now + Ttl
                                              [] k \in room \ {lkey[l]} -> expiresAt[k]
                                              [] OTHER -> 0]
      BY <2>1 DEF Insert
    <3>2. room \subseteq entries  BY RoomIsSubset
    <3>3. lpc[l] = "insert" /\ lkey[l] \in Keys
      BY <2>1 DEF Insert, TypeOK, LookupTypeOK
    <3>4. Covered(lkey[l], now + Ttl)
      BY <3>3, TimesAssumption DEF RevocationInv, AskedInTime, KeyReadBefore, OrgReadBefore, Covered,
         TypeOK, CacheTypeOK, LookupTypeOK, DbTypeOK
    <3>5. \A k \in entries : k \in Keys /\ Covered(k, expiresAt[k])
      BY DEF RevocationInv, EntriesCovered, TypeOK, CacheTypeOK
    <3>6. ASSUME NEW k \in entries' PROVE Covered(k, expiresAt'[k])
      <4>1. CASE k = lkey[l]  BY <3>1, <3>3, <3>4, <4>1
      <4>2. CASE k # lkey[l]  BY <3>1, <3>2, <3>5, <3>6, <4>2
      <4>. QED  BY <4>1, <4>2
    <3>. QED  BY <1>1, <3>6 DEF EntriesCovered, Covered
  <2>2. CASE ~Insert(l)
    BY <1>1, <2>2, MapKept DEF RevocationInv, EntriesCovered, Covered
  <2>. QED  BY <2>1, <2>2
<1>4. SeenCovered'
  <2>1. ASSUME NEW j \in Lookups, found'[j]
        PROVE lpc'[j] # "idle" /\ Covered(lkey'[j], seenExpiry'[j])
    <3>1. CASE j # l  BY <1>2, <2>1, <3>1 DEF RevocationInv, SeenCovered
    <3>2. CASE j = l  BY <2>1, <3>2, LookupStep DEF RevocationInv, SeenCovered, EntriesCovered
    <3>. QED  BY <3>1, <3>2
  <2>. QED  BY <1>1, <2>1 DEF SeenCovered, Covered
<1>5. AskedInTime'
  <2>1. ASSUME NEW j \in Lookups, lpc'[j] \in Fetching \union {"insert"}
        PROVE started'[j] <= now /\ now <= started'[j] + FetchTimeout
    <3>1. CASE j # l  BY <1>2, <2>1, <3>1 DEF RevocationInv, AskedInTime
    <3>2. CASE j = l
      <4>1. CASE lpc'[l] = "key"
        <5>1. started'[l] = now  BY <4>1, LookupStep
        <5>2. now \in Nat  BY DEF TypeOK, CacheTypeOK
        <5>. QED  BY <3>2, <5>1, <5>2, TimesAssumption
      <4>2. CASE lpc'[l] # "key"
        <5>1. started'[l] = started[l] /\ lpc[l] \in Fetching
          BY <2>1, <3>2, <4>2, LookupStep DEF Fetching
        <5>. QED  BY <3>2, <5>1 DEF RevocationInv, AskedInTime
      <4>. QED  BY <4>1, <4>2
    <3>. QED  BY <3>1, <3>2
  <2>. QED  BY <1>1, <2>1 DEF AskedInTime
<1>6. KeyReadBefore'
  <2>1. ASSUME NEW j \in Lookups, lpc'[j] \in {"org", "valid", "insert"}, ~active[lkey'[j]]
        PROVE started'[j] <= offSince[lkey'[j]]
    <3>1. CASE j # l  BY <1>2, <2>1, <3>1 DEF RevocationInv, KeyReadBefore
    <3>2. CASE j = l
      <4>1. /\ lkey'[l] = lkey[l] /\ started'[l] = started[l]
            /\ lpc[l] \in {"org", "valid", "insert"}
        BY <2>1, <3>2, LookupStep
      <4>. QED  BY <2>1, <3>2, <4>1 DEF RevocationInv, KeyReadBefore
    <3>. QED  BY <3>1, <3>2
  <2>. QED  BY <1>1, <2>1 DEF KeyReadBefore
<1>7. OrgReadBefore'
  <2>1. ASSUME NEW j \in Lookups, lpc'[j] \in {"valid", "insert"}, pending
        PROVE started'[j] <= pendingSince
    <3>1. CASE j # l  BY <1>2, <2>1, <3>1 DEF RevocationInv, OrgReadBefore
    <3>2. CASE j = l  BY <2>1, <3>2, LookupStep DEF RevocationInv, OrgReadBefore
    <3>. QED  BY <3>1, <3>2
  <2>. QED  BY <1>1, <2>1 DEF OrgReadBefore
<1>. QED  BY <1>3, <1>4, <1>5, <1>6, <1>7 DEF RevocationInv

\* Where time and the database stand still, so does the invariant.
LEMMA RevocationFrame ==
  ASSUME RevocationInv, UNCHANGED <<now, dbVars, lookupVars>>, entries' \subseteq entries,
         \A k \in entries' : expiresAt'[k] = expiresAt[k]
  PROVE RevocationInv'
BY DEF RevocationInv, EntriesCovered, SeenCovered, AskedInTime, KeyReadBefore, OrgReadBefore,
       Covered, dbVars, lookupVars

LEMMA TickRevocation ==
  ASSUME TypeOK, RevocationInv, Tick
  PROVE RevocationInv'
<1>1. UNCHANGED <<cacheVars, dbVars, lookupVars>> /\ now' = now + 1  BY DEF Tick
<1>2. EntriesCovered'
  <2>1. ASSUME NEW k \in entries PROVE Covered(k, expiresAt[k])'
    <3>1. expiresAt[k] \in Nat /\ now \in Nat  BY DEF TypeOK, CacheTypeOK
    <3>. QED  BY <1>1, <3>1, TimesAssumption
         DEF RevocationInv, EntriesCovered, Covered, cacheVars, dbVars
  <2>. QED  BY <1>1, <2>1 DEF EntriesCovered, cacheVars
<1>3. SeenCovered'
  <2>1. ASSUME NEW l \in Lookups, found[l] PROVE Covered(lkey[l], seenExpiry[l])'
    <3>1. seenExpiry[l] \in Nat /\ now \in Nat  BY DEF TypeOK, CacheTypeOK, LookupTypeOK
    <3>. QED  BY <1>1, <2>1, <3>1, TimesAssumption
         DEF RevocationInv, SeenCovered, Covered, lookupVars, dbVars
  <2>. QED  BY <1>1, <2>1 DEF RevocationInv, SeenCovered, lookupVars
<1>4. AskedInTime'
  <2>1. ASSUME NEW l \in Lookups, lpc[l] \in Fetching \union {"insert"}
        PROVE started[l] <= now + 1 /\ now + 1 <= started[l] + FetchTimeout
    <3>1. started[l] \in Nat /\ now \in Nat  BY DEF TypeOK, CacheTypeOK, LookupTypeOK
    <3>2. started[l] <= now  BY <2>1 DEF RevocationInv, AskedInTime
    <3>3. now < started[l] + FetchTimeout  BY <2>1 DEF Tick, Fetching
    <3>. QED  BY <3>1, <3>2, <3>3, TimesAssumption
  <2>. QED  BY <1>1, <2>1 DEF AskedInTime, lookupVars
<1>5. KeyReadBefore' /\ OrgReadBefore'
  BY <1>1 DEF RevocationInv, KeyReadBefore, OrgReadBefore, lookupVars, dbVars
<1>. QED  BY <1>2, <1>3, <1>4, <1>5 DEF RevocationInv

\* A revocation comes after every fetch in progress began, and no expiry is
\* further away than a TTL.
LEMMA AdminRevocation ==
  ASSUME TypeOK, RevocationInv,
         \/ \E k \in Keys : DeactivateApiKey(k)
         \/ DeactivateApiKeysByOrg \/ ReactivateApiKeysByOrg
         \/ ScheduleDeletion \/ Restore
  PROVE RevocationInv'
<1>1. UNCHANGED <<now, cacheVars, lookupVars>>
  BY DEF DeactivateApiKey, DeactivateApiKeysByOrg, ReactivateApiKeysByOrg, ScheduleDeletion,
         Restore
<1>2. /\ pending' => pendingSince' = now \/ (pending /\ pendingSince' = pendingSince)
      /\ \A k \in Keys :
           ~active'[k] => offSince'[k] = now \/ (~active[k] /\ offSince'[k] = offSince[k])
  BY DEF DeactivateApiKey, DeactivateApiKeysByOrg, ReactivateApiKeysByOrg, ScheduleDeletion,
         Restore, TypeOK, DbTypeOK
<1>3. ASSUME NEW k \in Keys, NEW e \in Nat, Covered(k, e)
      PROVE /\ e <= now + Ttl
            /\ ~active'[k] => e <= offSince'[k] + FetchTimeout + Ttl
            /\ pending' => e <= pendingSince' + FetchTimeout + Ttl
  <2>1. now \in Nat  BY DEF TypeOK, CacheTypeOK
  <2>. QED  BY <1>2, <1>3, <2>1, TimesAssumption DEF Covered
<1>4. EntriesCovered'
  <2>1. \A k \in entries : k \in Keys /\ expiresAt[k] \in Nat /\ Covered(k, expiresAt[k])
    BY DEF RevocationInv, EntriesCovered, TypeOK, CacheTypeOK
  <2>. QED  BY <1>1, <1>3, <2>1 DEF EntriesCovered, Covered, cacheVars
<1>5. SeenCovered'
  <2>1. \A l \in Lookups :
          found[l] => /\ lpc[l] # "idle" /\ lkey[l] \in Keys /\ seenExpiry[l] \in Nat
                      /\ Covered(lkey[l], seenExpiry[l])
    BY DEF RevocationInv, SeenCovered, TypeOK, LookupTypeOK
  <2>. QED  BY <1>1, <1>3, <2>1 DEF SeenCovered, Covered, lookupVars
<1>6. AskedInTime'
  BY <1>1 DEF RevocationInv, AskedInTime, lookupVars
<1>7. KeyReadBefore'
  <2>1. ASSUME NEW l \in Lookups, lpc[l] \in {"org", "valid", "insert"}, ~active'[lkey[l]]
        PROVE started[l] <= offSince'[lkey[l]]
    <3>1. lkey[l] \in Keys  BY <2>1 DEF TypeOK, LookupTypeOK
    <3>2. started[l] <= now  BY <2>1 DEF RevocationInv, AskedInTime, Fetching
    <3>. QED  BY <1>2, <2>1, <3>1, <3>2 DEF RevocationInv, KeyReadBefore
  <2>. QED  BY <1>1, <2>1 DEF KeyReadBefore, lookupVars
<1>8. OrgReadBefore'
  <2>1. ASSUME NEW l \in Lookups, lpc[l] \in {"valid", "insert"}, pending'
        PROVE started[l] <= pendingSince'
    <3>1. started[l] <= now  BY <2>1 DEF RevocationInv, AskedInTime, Fetching
    <3>. QED  BY <1>2, <2>1, <3>1 DEF RevocationInv, OrgReadBefore
  <2>. QED  BY <1>1, <2>1 DEF OrgReadBefore, lookupVars
<1>. QED  BY <1>4, <1>5, <1>6, <1>7, <1>8 DEF RevocationInv

LEMMA NextRevocation == TypeOK /\ RevocationInv /\ [Next]_vars => RevocationInv'
<1> SUFFICES ASSUME TypeOK, RevocationInv, [Next]_vars PROVE RevocationInv'  OBVIOUS
<1>1. ASSUME NEW l \in Lookups, Lookup(l) PROVE RevocationInv'  BY <1>1, LookupRevocation
<1>2. CASE Evict
  <2>1. \A k \in entries' : expiresAt'[k] = expiresAt[k]
    BY <1>2 DEF Evict, TypeOK, CacheTypeOK
  <2>. QED  BY <1>2, <2>1, RevocationFrame DEF Evict
<1>3. CASE Tick  BY <1>3, TickRevocation
<1>4. CASE \/ \E k \in Keys : DeactivateApiKey(k)
           \/ DeactivateApiKeysByOrg \/ ReactivateApiKeysByOrg
           \/ ScheduleDeletion \/ Restore
  BY <1>4, AdminRevocation
<1>5. CASE UNCHANGED vars  BY <1>5, RevocationFrame DEF vars, cacheVars
<1>. QED  BY <1>1, <1>2, <1>3, <1>4, <1>5 DEF Next

\* Only one's own step answers.
LEMMA AnswerIsOwnStep ==
  ASSUME TypeOK, Next, NEW l \in Lookups, lpc'[l] # lpc[l]
  PROVE Lookup(l)
<1>1. ASSUME NEW j \in Lookups, Lookup(j) PROVE Lookup(l)  BY <1>1, LookupFrame
<1>2. CASE ~\E j \in Lookups : Lookup(j)
  BY <1>2 DEF Next, Evict, Tick, DeactivateApiKey, DeactivateApiKeysByOrg,
              ReactivateApiKeysByOrg, ScheduleDeletion, Restore, lookupVars
<1>. QED  BY <1>1, <1>2

\* RevocationBound: a revoked key is answered from the cache for less than a
\* fetch and a TTL, and in an outage for less than maxStaleDuration beyond that.
THEOREM RevocationBounded == Spec => RevocationBound
<1>1. TypeOK /\ RevocationInv /\ [Next]_vars =>
        [\A l \in Lookups :
           /\ Answered(l, "fetched") => OffFor(lkey[l], FetchTimeout + 1)
           /\ Answered(l, "stale") => OffFor(lkey[l], FetchTimeout + Ttl + MaxStale)
           /\ \A k \in Keys :
                LookupStart(l, k) /\ answer'[l] = "fresh" => OffFor(k, FetchTimeout + Ttl)]_vars
  <2> SUFFICES ASSUME TypeOK, RevocationInv, Next, NEW l \in Lookups
               PROVE /\ Answered(l, "fetched") => OffFor(lkey[l], FetchTimeout + 1)
                     /\ Answered(l, "stale") => OffFor(lkey[l], FetchTimeout + Ttl + MaxStale)
                     /\ \A k \in Keys : LookupStart(l, k) /\ answer'[l] = "fresh"
                                          => OffFor(k, FetchTimeout + Ttl)
    OBVIOUS
  <2>1. /\ now \in Nat /\ pendingSince \in Nat /\ \A k \in Keys : offSince[k] \in Nat
        /\ seenExpiry[l] \in Nat /\ started[l] \in Nat /\ \A k \in Keys : expiresAt[k] \in Nat
    BY DEF TypeOK, CacheTypeOK, LookupTypeOK, DbTypeOK
  <2>2. ASSUME Answered(l, "fetched") PROVE OffFor(lkey[l], FetchTimeout + 1)
    <3>1. Insert(l)
      <4>1. Lookup(l)  BY <2>2, AnswerIsOwnStep DEF Answered
      <4>2. answer'[l] = "fetched" /\ lpc[l] # "idle" /\ lpc'[l] = "idle"  BY <2>2 DEF Answered
      <4>3. ASSUME ServeStaleOrFail(l) PROVE FALSE
        BY <4>2, <4>3 DEF ServeStaleOrFail, Return, TypeOK, LookupTypeOK
      <4>4. ~VerifyKey(l) /\ ~VerifyOrg(l) /\ ~FetchAnswer(l)
        BY <4>2 DEF VerifyKey, VerifyOrg, FetchAnswer, Goto, Return, TypeOK, LookupTypeOK
      <4>5. ~CheckCircuit(l)
        BY <4>2, <4>3 DEF CheckCircuit, Goto, TypeOK, LookupTypeOK
      <4>. QED  BY <4>1, <4>2, <4>3, <4>4, <4>5 DEF Lookup, LookupStart, FetchError
    <3>2. lpc[l] = "insert" /\ lkey[l] \in Keys
      BY <3>1 DEF Insert, TypeOK, LookupTypeOK
    <3>. QED  BY <2>1, <3>2, TimesAssumption
         DEF RevocationInv, AskedInTime, KeyReadBefore, OrgReadBefore, OffFor
  <2>3. ASSUME Answered(l, "stale") PROVE OffFor(lkey[l], FetchTimeout + Ttl + MaxStale)
    <3>1. MayServeStale(l)
      <4>1. Lookup(l)  BY <2>3, AnswerIsOwnStep DEF Answered
      <4>2. answer'[l] = "stale" /\ lpc[l] # "idle" /\ lpc'[l] = "idle"  BY <2>3 DEF Answered
      <4>3. ServeStaleOrFail(l)
        <5>1. ~VerifyKey(l) /\ ~VerifyOrg(l) /\ ~FetchAnswer(l) /\ ~Insert(l)
          BY <4>2 DEF VerifyKey, VerifyOrg, FetchAnswer, Insert, Goto, Return, TypeOK, LookupTypeOK
        <5>2. CheckCircuit(l) => ServeStaleOrFail(l)
          BY <4>2 DEF CheckCircuit, Goto, TypeOK, LookupTypeOK
        <5>. QED  BY <4>1, <4>2, <5>1, <5>2 DEF Lookup, LookupStart, FetchError
      <4>. QED  BY <4>2, <4>3 DEF ServeStaleOrFail, Return, TypeOK, LookupTypeOK
    <3>2. lkey[l] \in Keys  BY <2>3 DEF Answered, TypeOK, LookupTypeOK
    <3>3. now - seenExpiry[l] < MaxStale /\ Covered(lkey[l], seenExpiry[l])
      BY <3>1 DEF MayServeStale, RevocationInv, SeenCovered
    <3>. QED  BY <2>1, <3>2, <3>3, TimesAssumption DEF Covered, OffFor
  <2>4. ASSUME NEW k \in Keys, LookupStart(l, k), answer'[l] = "fresh"
        PROVE OffFor(k, FetchTimeout + Ttl)
    <3>1. Fresh(k)  BY <2>4 DEF LookupStart, TypeOK, LookupTypeOK
    <3>2. now < expiresAt[k] /\ Covered(k, expiresAt[k])
      BY <3>1 DEF Fresh, RevocationInv, EntriesCovered
    <3>. QED  BY <2>1, <3>2, TimesAssumption DEF Covered, OffFor
  <2>. QED  BY <2>2, <2>3, <2>4
<1>. QED  BY <1>1, TypeCorrect, InitRevocation, NextRevocation, PTL DEF Spec, RevocationBound
-----------------------------------------------------------------------------
(***************************************************************************)
(* The limit of the cache                                                  *)
(***************************************************************************)

\* The room that is made has a place left, if the map kept its limit so far.
LEMMA RoomHasPlace ==
  ASSUME TypeOK, CapacityHolds, NEW room \in MakeRoom
  PROVE  IsFiniteSet(room) /\ Cardinality(room) < MaxEntries
<1>1. AfterExpiry \subseteq entries /\ IsFiniteSet(entries)
  BY SizesAssumption, FS_Subset DEF AfterExpiry, TypeOK, CacheTypeOK
<1>2. /\ IsFiniteSet(AfterExpiry) /\ Cardinality(AfterExpiry) \in Nat
      /\ Cardinality(AfterExpiry) <= MaxEntries
  BY <1>1, FS_Subset, FS_CardinalityType, SizesAssumption DEF CapacityHolds
<1>3. CASE Cardinality(AfterExpiry) >= MaxEntries
  <2>1. PICK k \in AfterExpiry : room = AfterExpiry \ {k}
    BY <1>3 DEF MakeRoom, Oldest
  <2>2. /\ IsFiniteSet(AfterExpiry \ {k})
        /\ Cardinality(AfterExpiry \ {k}) =
             IF k \in AfterExpiry THEN Cardinality(AfterExpiry) - 1
             ELSE Cardinality(AfterExpiry)
    BY <1>2, FS_RemoveElement, Zenon
  <2>. QED  BY <1>2, <2>1, <2>2, SizesAssumption
<1>4. CASE ~(Cardinality(AfterExpiry) >= MaxEntries)
  BY <1>2, <1>4, SizesAssumption DEF MakeRoom
<1>. QED  BY <1>3, <1>4

\* Only an insertion adds to the map.
LEMMA CapacityStep == TypeOK /\ CapacityHolds /\ [Next]_vars => CapacityHolds'
<1> SUFFICES ASSUME TypeOK, CapacityHolds, [Next]_vars PROVE CapacityHolds'
  OBVIOUS
<1>1. ASSUME NEW l \in Lookups, Insert(l) PROVE CapacityHolds'
  <2>1. PICK room \in MakeRoom : entries' = room \union {lkey[l]}
    BY <1>1 DEF Insert
  <2>2. /\ IsFiniteSet(room) /\ Cardinality(room) \in Nat
        /\ Cardinality(room) < MaxEntries
    BY RoomHasPlace, FS_CardinalityType
  <2>3. Cardinality(room \union {lkey[l]}) =
          IF lkey[l] \in room THEN Cardinality(room) ELSE Cardinality(room) + 1
    BY <2>2, FS_AddElement, Zenon
  <2>. QED  BY <2>1, <2>2, <2>3, SizesAssumption DEF CapacityHolds
<1>2. ASSUME entries' \subseteq entries PROVE CapacityHolds'
  <2>1. IsFiniteSet(entries)
    BY SizesAssumption, FS_Subset DEF TypeOK, CacheTypeOK
  <2>2. /\ Cardinality(entries') <= Cardinality(entries)
        /\ Cardinality(entries') \in Nat /\ Cardinality(entries) \in Nat
    BY <1>2, <2>1, FS_Subset, FS_CardinalityType
  <2>. QED  BY <2>2, SizesAssumption DEF CapacityHolds
<1>3. ASSUME NEW l \in Lookups, Lookup(l), ~Insert(l) PROVE UNCHANGED entries
  BY <1>3
  DEF Lookup, LookupStart, CheckCircuit, VerifyKey, VerifyOrg, FetchError, FetchAnswer, cacheVars
<1>4. CASE ~\E l \in Lookups : Lookup(l)
  BY <1>2, <1>4
  DEF Next, Evict, Tick, DeactivateApiKey, DeactivateApiKeysByOrg, ReactivateApiKeysByOrg,
      ScheduleDeletion, Restore, cacheVars, vars
<1>. QED  BY <1>1, <1>2, <1>3, <1>4

\* What an insertion takes out had expired, or no entry that stays was used before it.
LEMMA EvictionStep ==
  ASSUME TypeOK, Next, NEW l \in Lookups, lpc[l] = "insert", lpc'[l] = "idle",
         NEW k \in entries \ entries', NEW j \in entries' \ {lkey[l]}
  PROVE  k \in Expired \/ lastUsedAt[k] <= lastUsedAt[j]
<1>1. Insert(l)
  <2>1. Lookup(l)  BY AnswerIsOwnStep
  <2>. QED
    BY <2>1
    DEF Lookup, LookupStart, CheckCircuit, VerifyKey, VerifyOrg, FetchError, FetchAnswer, Fetching
<1>2. PICK room \in MakeRoom : entries' = room \union {lkey[l]}
  BY <1>1 DEF Insert
<1>3. j \in room /\ k \notin room
  BY <1>2
<1>4. ASSUME k \in AfterExpiry PROVE lastUsedAt[k] <= lastUsedAt[j]
  BY <1>3, <1>4 DEF MakeRoom, Oldest
<1>5. ASSUME k \notin AfterExpiry PROVE k \in Expired
  BY <1>5 DEF AfterExpiry
<1>. QED  BY <1>4, <1>5

\* The cache keeps its limit, and gives up what was used least recently, for any number of
\* keys, concurrent lookups and entries.
THEOREM LimitKept == Spec => CacheKeepsLimit
<1>1. Init => CapacityHolds
  BY FS_EmptySet, SizesAssumption DEF Init, CacheInit, CapacityHolds
<1>2. TypeOK /\ [Next]_vars =>
        [\A l \in Lookups :
           lpc[l] = "insert" /\ lpc'[l] = "idle" =>
             \A k \in entries \ entries', j \in entries' \ {lkey[l]} :
               k \in Expired \/ lastUsedAt[k] <= lastUsedAt[j]]_vars
  BY EvictionStep
<1>. QED  BY <1>1, <1>2, InitType, NextType, CapacityStep, PTL
     DEF Spec, CacheKeepsLimit, EvictsLeastRecent
-----------------------------------------------------------------------------
(***************************************************************************)
(* What an outage costs                                                    *)
(*                                                                         *)
(* Every failure that found the circuit ready to open, or open, stands for *)
(* a pair of the lookup that failed and the number of the cooldown in      *)
(* which it did.  A lookup does not fail twice in one: it asks again only  *)
(* when a cooldown has passed since the last failure of anybody.           *)
(***************************************************************************)

\* From this moment on lookup l may fail again.
AsksFrom(l) == IF lpc[l] \in Fetching THEN started[l] ELSE cbOpenUntil

\* The cooldowns of F are over when their lookups ask again.
Apart(F) == \A f \in F : (f[2] + 1) * Cooldown <= AsksFrom(f[1])

Failures(F) ==
  /\ F \in SUBSET (Lookups \X Nat) /\ IsFiniteSet(F)
  /\ cbFail <= FailThreshold - 1 + Cardinality(F)
  /\ cbFail < FailThreshold => F = {}
  /\ Apart(F)

Explained == \E F : Failures(F)
BreakerInv ==
  /\ Explained
  /\ cbFail >= FailThreshold => cbOpenUntil <= now + Cooldown

\* Before the circuit can open there is nothing to explain.
LEMMA NoFailures == cbFail \in Nat /\ cbFail < FailThreshold => BreakerInv
<1> SUFFICES ASSUME cbFail \in Nat, cbFail < FailThreshold PROVE BreakerInv
  OBVIOUS
<1>1. Failures({})
  BY FS_EmptySet, SizesAssumption DEF Failures, Apart
<1>2. Explained
  BY <1>1 DEF Explained
<1>. QED  BY <1>2, SizesAssumption DEF BreakerInv

\* A step that records no failure and moves no question to an earlier time.
LEMMA BreakerFrame ==
  ASSUME TypeOK, BreakerInv, UNCHANGED cbVars, now' \in Nat, now <= now',
         \A l \in Lookups : cbFail >= FailThreshold => AsksFrom(l) <= AsksFrom(l)',
         \A l \in Lookups : AsksFrom(l)' \in Nat
  PROVE  BreakerInv'
<1>1. PICK F : Failures(F)
  BY DEF BreakerInv, Explained
<1>2. cbFail \in Nat /\ now \in Nat /\ \A l \in Lookups : AsksFrom(l) \in Nat
  BY DEF TypeOK, CacheTypeOK, LookupTypeOK, AsksFrom
<1>3. ASSUME NEW f \in F PROVE (f[2] + 1) * Cooldown <= AsksFrom(f[1])'
  <2>1. PICK l \in Lookups, n \in Nat : l = f[1] /\ n = f[2]
    BY <1>1 DEF Failures
  <2>2. (n + 1) * Cooldown <= AsksFrom(l) /\ cbFail >= FailThreshold
    BY <1>1, <1>2, <2>1, SizesAssumption DEF Failures, Apart
  <2>3. AsksFrom(l) <= AsksFrom(l)' /\ AsksFrom(l) \in Nat /\ AsksFrom(l)' \in Nat
    BY <1>2, <2>2
  <2>4. (n + 1) * Cooldown \in Nat
    BY TimesAssumption
  <2>. QED  BY <2>1, <2>2, <2>3, <2>4
<1>4. Failures(F)'
  BY <1>1, <1>3 DEF Failures, Apart, cbVars
<1>5. cbOpenUntil \in Nat
  BY DEF TypeOK, CacheTypeOK
<1>6. Explained'
  BY <1>4, Zenon DEF Explained
<1>7. cbFail' >= FailThreshold => cbOpenUntil' <= now' + Cooldown
  <2>1. cbFail' = cbFail /\ cbOpenUntil' = cbOpenUntil
    BY DEF cbVars
  <2>2. now \in Nat /\ cbOpenUntil \in Nat /\ Cooldown \in Nat
    BY <1>2, <1>5, TimesAssumption
  <2>3. \A m, n, t \in Nat : m <= n /\ t <= m + Cooldown => t <= n + Cooldown
    BY <2>2
  <2>4. cbFail >= FailThreshold => cbOpenUntil <= now + Cooldown
    BY DEF BreakerInv
  <2>5. cbFail >= FailThreshold => cbOpenUntil <= now' + Cooldown
    BY <2>2, <2>3, <2>4
  <2>. QED  BY <2>1, <2>5
<1>. QED  BY <1>6, <1>7 DEF BreakerInv

\* The cooldown that now falls into.
LEMMA Cooldowns ==
  /\ \A t \in Nat : t \div Cooldown \in Nat
  /\ \A t \in Nat : (t \div Cooldown + 1) * Cooldown <= t + Cooldown
  /\ \A t, n \in Nat : (n + 1) * Cooldown <= t => n < t \div Cooldown
  BY TimesAssumption

\* A failed fetch.
LEMMA BreakerFails ==
  ASSUME TypeOK, AskedInTime, BreakerInv, NEW l \in Lookups, FetchError(l)
  PROVE  BreakerInv'
<1>1. PICK F : Failures(F)
  BY DEF BreakerInv, Explained
<1>2. /\ cbFail \in Nat /\ now \in Nat /\ cbOpenUntil \in Nat
      /\ \A j \in Lookups : started[j] \in Nat
      /\ IsFiniteSet(F) /\ Cardinality(F) \in Nat
      /\ FailThreshold \in Nat \ {0} /\ Cooldown \in Nat \ {0}
  BY <1>1, FS_CardinalityType, TimesAssumption, SizesAssumption
  DEF Failures, TypeOK, CacheTypeOK, LookupTypeOK
<1>3. /\ cbFail' = cbFail + 1 /\ now' = now
      /\ cbOpenUntil' = IF cbFail + 1 >= FailThreshold THEN now + Cooldown ELSE cbOpenUntil
  BY DEF FetchError, RecordFailure
<1>4. lpc[l] \in Fetching /\ started[l] <= now /\ lpc'[l] = "idle"
  BY DEF FetchError, ServeStaleOrFail, Return, Goto, AskedInTime, TypeOK, LookupTypeOK
<1>5. \A j \in Lookups \ {l} : lpc'[j] = lpc[j] /\ started'[j] = started[j]
  BY DEF FetchError, ServeStaleOrFail, Return, Goto, TypeOK, LookupTypeOK
<1>6. CASE cbFail + 1 < FailThreshold
  <2>1. (cbFail \in Nat /\ cbFail < FailThreshold)'
    BY <1>2, <1>3, <1>6
  <2>. QED  BY <2>1, NoFailures, PTL
<1>7. CASE cbFail + 1 >= FailThreshold
  <2>0. PICK q \in Nat : q = now \div Cooldown
    BY <1>2, Cooldowns
  <2> DEFINE G == F \union {<<l, q>>}
  <2>1. q \in Nat /\ (q + 1) * Cooldown <= now + Cooldown
    BY <1>2, <2>0, Cooldowns
  <2>2. \A n \in Nat : (n + 1) * Cooldown <= started[l] => n < q
    <3>1. ASSUME NEW n \in Nat, (n + 1) * Cooldown <= started[l] PROVE n < q
      <4>1. (n + 1) * Cooldown \in Nat
        BY <1>2
      <4>2. (n + 1) * Cooldown <= now
        BY <1>2, <1>4, <3>1, <4>1
      <4>. QED  BY <1>2, <2>0, <4>2, Cooldowns
    <3>. QED  BY <3>1
  <2>3. <<l, q>> \notin F
    <3>1. SUFFICES ASSUME <<l, q>> \in F PROVE FALSE
      OBVIOUS
    <3>2. (q + 1) * Cooldown <= AsksFrom(l)
      BY <1>1, <3>1 DEF Failures, Apart
    <3>3. q < q
      BY <1>4, <2>1, <2>2, <3>2 DEF AsksFrom
    <3>. QED  BY <2>1, <3>3
  <2>4. IsFiniteSet(G) /\ Cardinality(G) = Cardinality(F) + 1
    <3>1. /\ IsFiniteSet(F \union {<<l, q>>})
          /\ Cardinality(F \union {<<l, q>>}) =
               IF <<l, q>> \in F THEN Cardinality(F) ELSE Cardinality(F) + 1
      BY <1>2, FS_AddElement, Zenon
    <3>. QED  BY <2>3, <3>1, Zenon
  <2>5. cbFail' <= FailThreshold - 1 + Cardinality(G)
    BY <1>1, <1>2, <1>3, <2>4 DEF Failures
  <2>6. ASSUME NEW f \in G PROVE (f[2] + 1) * Cooldown <= AsksFrom(f[1])'
    <3>1. PICK j \in Lookups, n \in Nat : f = <<j, n>>
      BY <1>1, <2>1 DEF Failures
    <3>2. (n + 1) * Cooldown \in Nat
      BY <1>2
    <3>3. CASE f = <<l, q>>
      BY <1>3, <1>4, <1>7, <2>1, <3>1, <3>3 DEF AsksFrom, Fetching
    <3>4. CASE f \in F
      <4>1. (n + 1) * Cooldown <= AsksFrom(j) /\ cbFail >= FailThreshold
        BY <1>1, <1>2, <3>1, <3>4 DEF Failures, Apart
      <4>2. cbOpenUntil <= now + Cooldown
        BY <4>1 DEF BreakerInv
      <4>3. CASE j = l
        BY <1>2, <1>3, <1>4, <1>7, <3>1, <3>2, <4>1, <4>3 DEF AsksFrom, Fetching
      <4>4. CASE j # l
        BY <1>2, <1>3, <1>5, <1>7, <3>1, <3>2, <4>1, <4>2, <4>4 DEF AsksFrom
      <4>. QED  BY <4>3, <4>4
    <3>. QED  BY <3>3, <3>4
  <2>7. Failures(G)'
    <3>1. G \in SUBSET (Lookups \X Nat) /\ ~(cbFail' < FailThreshold)
      BY <1>1, <1>2, <1>3, <1>7, <2>1 DEF Failures
    <3> HIDE DEF G
    <3>2. Apart(G)'
      BY <2>6, Zenon DEF Apart
    <3>. QED  BY <2>4, <2>5, <3>1, <3>2 DEF Failures
  <2>8. cbOpenUntil' <= now' + Cooldown
    BY <1>2, <1>3, <1>7
  <2> HIDE DEF G
  <2>9. Explained'
    BY <2>7, Zenon DEF Explained
  <2>. QED  BY <2>8, <2>9 DEF BreakerInv
<1>. QED  BY <1>2, <1>6, <1>7

LEMMA BreakerLookup ==
  ASSUME TypeOK, TypeOK', AskedInTime, BreakerInv, NEW l \in Lookups, Lookup(l)
  PROVE  BreakerInv'
<1> USE DEF TypeOK, CacheTypeOK, LookupTypeOK
<1>0. /\ now \in Nat /\ cbFail \in Nat /\ cbOpenUntil \in Nat /\ cbOpenUntil' \in Nat
      /\ \A j \in Lookups : started[j] \in Nat /\ started'[j] \in Nat
  OBVIOUS
<1>1. ASSUME UNCHANGED <<now, cbVars>>,
             \A j \in Lookups : cbFail >= FailThreshold => AsksFrom(j) <= AsksFrom(j)'
      PROVE  BreakerInv'
  <2>1. \A j \in Lookups : AsksFrom(j)' \in Nat
    BY <1>0 DEF AsksFrom
  <2>. QED  BY <1>0, <1>1, <2>1, BreakerFrame
<1>2. ASSUME UNCHANGED <<now, cbVars>>, lpc[l] \notin Fetching, lpc'[l] \notin Fetching,
             \A j \in Lookups \ {l} : lpc'[j] = lpc[j] /\ started'[j] = started[j]
      PROVE  BreakerInv'
  BY <1>0, <1>1, <1>2 DEF AsksFrom, cbVars
<1>3. ASSUME NEW k \in Keys, LookupStart(l, k) PROVE BreakerInv'
  BY <1>2, <1>3 DEF LookupStart, Return, Goto, Fetching
<1>4. CASE CheckCircuit(l) /\ ServeStaleOrFail(l)
  BY <1>2, <1>4 DEF CheckCircuit, ServeStaleOrFail, Return, Goto, Fetching
<1>5. CASE CheckCircuit(l) /\ ~ServeStaleOrFail(l)
  <2>1. /\ ~CircuitOpen /\ UNCHANGED <<now, cbVars>> /\ lpc[l] = "circuit"
        /\ lpc' = [lpc EXCEPT ![l] = "key"] /\ started' = [started EXCEPT ![l] = now]
    BY <1>5 DEF CheckCircuit, Goto
  <2>2. cbFail >= FailThreshold => cbOpenUntil <= now
    BY <1>0, <2>1 DEF CircuitOpen
  <2>3. \A j \in Lookups : cbFail >= FailThreshold => AsksFrom(j) <= AsksFrom(j)'
    BY <1>0, <2>1, <2>2 DEF AsksFrom, Fetching, cbVars
  <2>. QED  BY <1>1, <2>1, <2>3
<1>6. CASE VerifyKey(l) \/ VerifyOrg(l)
  <2>1. /\ UNCHANGED <<now, cbVars, started>> /\ lpc[l] \in Fetching /\ lpc'[l] \in Fetching
        /\ \A j \in Lookups \ {l} : lpc'[j] = lpc[j]
    BY <1>6 DEF VerifyKey, VerifyOrg, Goto, Fetching
  <2>2. \A j \in Lookups : AsksFrom(j)' = AsksFrom(j) /\ AsksFrom(j) \in Nat
    BY <1>0, <2>1 DEF AsksFrom, cbVars
  <2>. QED  BY <1>1, <2>1, <2>2
<1>7. CASE FetchError(l)
  BY <1>7, BreakerFails
<1>8. CASE FetchAnswer(l)
  <2>1. (cbFail \in Nat /\ cbFail < FailThreshold)'
    BY <1>8, SizesAssumption DEF FetchAnswer, RecordSuccess
  <2>. QED  BY <2>1, NoFailures, PTL
<1>9. CASE Insert(l)
  BY <1>2, <1>9 DEF Insert, Return, Goto, Fetching
<1>. QED  BY <1>3, <1>4, <1>5, <1>6, <1>7, <1>8, <1>9 DEF Lookup

LEMMA BreakerStep == TypeOK /\ TypeOK' /\ AskedInTime /\ BreakerInv /\ [Next]_vars => BreakerInv'
<1> SUFFICES ASSUME TypeOK, TypeOK', AskedInTime, BreakerInv, [Next]_vars PROVE BreakerInv'
  OBVIOUS
<1>1. ASSUME NEW l \in Lookups, Lookup(l) PROVE BreakerInv'
  BY <1>1, BreakerLookup
<1>2. ASSUME UNCHANGED <<cbVars, lookupVars>>, now <= now' PROVE BreakerInv'
  <2>1. \A l \in Lookups : AsksFrom(l)' = AsksFrom(l) /\ AsksFrom(l) \in Nat
    BY <1>2 DEF AsksFrom, cbVars, lookupVars, TypeOK, CacheTypeOK, LookupTypeOK
  <2>2. now' \in Nat
    BY DEF TypeOK, CacheTypeOK
  <2>. QED  BY <1>2, <2>1, <2>2, BreakerFrame
<1>3. now \in Nat
  BY DEF TypeOK, CacheTypeOK
<1>. QED
  BY <1>1, <1>2, <1>3
  DEF Next, Evict, Tick, DeactivateApiKey, DeactivateApiKeysByOrg, ReactivateApiKeysByOrg,
      ScheduleDeletion, Restore, vars

\* What the pairs add up to.
LEMMA BreakerBound == TypeOK /\ AskedInTime /\ BreakerInv => BreakerShieldsProcessing
<1> SUFFICES ASSUME TypeOK, AskedInTime, BreakerInv PROVE BreakerShieldsProcessing
  OBVIOUS
<1>1. PICK F : Failures(F)
  BY DEF BreakerInv, Explained
<1> DEFINE q == now \div Cooldown
<1>2. /\ cbFail \in Nat /\ now \in Nat /\ cbOpenUntil \in Nat
      /\ \A l \in Lookups : started[l] \in Nat
      /\ FailThreshold \in Nat \ {0} /\ Cooldown \in Nat \ {0} /\ q \in Nat
  BY TimesAssumption, SizesAssumption, Cooldowns DEF TypeOK, CacheTypeOK, LookupTypeOK
<1>3. ASSUME NEW f \in F PROVE f \in Lookups \X (0 .. q)
  <2>1. PICK l \in Lookups, n \in Nat : f = <<l, n>>
    BY <1>1 DEF Failures
  <2>2. (n + 1) * Cooldown <= AsksFrom(l) /\ cbFail >= FailThreshold
    BY <1>1, <1>2, <1>3, <2>1 DEF Failures, Apart
  <2>3. AsksFrom(l) <= now + Cooldown
    BY <1>2, <2>2 DEF AsksFrom, BreakerInv, AskedInTime
  <2>4. n * Cooldown <= now
    <3>1. (n + 1) * Cooldown = n * Cooldown + Cooldown /\ n * Cooldown \in Nat
      BY <1>2
    <3>. QED  BY <1>2, <2>2, <2>3, <3>1 DEF AsksFrom
  <2>5. n < q + 1
    BY <1>2, <2>4
  <2>. QED  BY <1>2, <2>1, <2>5
<1>4. /\ IsFiniteSet(0 .. q) /\ Cardinality(0 .. q) = q + 1
  <2> HIDE DEF q
  <2>1. /\ IsFiniteSet(0 .. q)
        /\ Cardinality(0 .. q) = IF 0 > q THEN 0 ELSE q - 0 + 1
    <3>1. 0 \in Int /\ q \in Int
      BY <1>2
    <3>. QED  BY <3>1, FS_Interval, Zenon
  <2>. QED  BY <1>2, <2>1
<1>5. /\ IsFiniteSet(Lookups \X (0 .. q))
      /\ Cardinality(Lookups \X (0 .. q)) = Cardinality(Lookups) * (q + 1)
  BY <1>4, LookupsAssumption, FS_Product
<1>6. Cardinality(F) <= Cardinality(Lookups) * (1 + q)
  <2>1. Cardinality(F) <= Cardinality(Lookups \X (0 .. q))
    BY <1>3, <1>5, FS_Subset
  <2>. QED  BY <1>2, <1>5, <2>1
<1>7. Cardinality(F) \in Nat /\ Cardinality(Lookups) * (1 + q) \in Nat
  BY <1>1, <1>2, LookupsAssumption, FS_CardinalityType DEF Failures
<1>. QED  BY <1>1, <1>2, <1>6, <1>7 DEF Failures, BreakerShieldsProcessing

\* The breaker bounds the failures that an outage makes Processing see, for any number of
\* concurrent lookups, any threshold and any cooldown.
THEOREM BreakerShields == Spec => []BreakerShieldsProcessing
<1>1. Init => BreakerInv
  BY NoFailures, SizesAssumption DEF Init, CacheInit
<1>2. RevocationInv => AskedInTime
  BY DEF RevocationInv
<1>. QED
  BY <1>1, <1>2, InitType, NextType, InitRevocation, NextRevocation, BreakerStep, BreakerBound, PTL
  DEF Spec
=============================================================================

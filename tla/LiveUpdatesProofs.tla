------------------------- MODULE LiveUpdatesProofs -------------------------
(***************************************************************************)
(* Proofs about LiveUpdates, for any number of mounts, sockets, attempts,  *)
(* failures and arrivals, in two halves that share no variable.            *)
(*                                                                         *)
(* The queries: PageOK says of one query how far it has come.  What was    *)
(* stored at the last event about a page, unless the event was lost, is    *)
(* owed to it; what keeps the page from settling behind it is that every   *)
(* request which can still be answered was sent afterwards, so that its    *)
(* answer, not yet given, is bounded from below by what is owed.           *)
(*                                                                         *)
(* The sockets: ClosureOK counts the chains of one mount (its timers, its  *)
(* debounce and its sockets) and says when there may be two.  No finite    *)
(* set of sockets is assumed: a mount owns finitely many at any time.      *)
(***************************************************************************)
EXTENDS LiveUpdates, FiniteSetTheorems, TLAPS

(***************************************************************************)
(* The query of a page                                                     *)
(***************************************************************************)

\* A page's query q, when s is owed, st is stored and h is the horizon: nothing shown is
\* ahead of what is stored, what is owed is asked for again or shown, and no answer that
\* is on its way is behind what is shown or owed.
PageOK(p, q, s, st, h) ==
  /\ s <= st /\ s <= Upto(p, h)
  /\ q.data # None => /\ q.data <= st /\ q.data <= Upto(p, h)
                      /\ q.invalid \/ s <= q.data
  /\ q.fetch # "none" /\ q.more => q.data # None /\ s <= q.data
  /\ q.fetch # "none" /\ ~q.more => /\ s <= q.upto /\ q.upto <= Upto(p, h)
                                    /\ q.data # None => q.data <= q.upto
  /\ q.fetch = "answered" /\ ~q.more => /\ q.got <= st /\ q.got <= q.upto /\ s <= q.got
                                        /\ q.data # None => q.data <= q.got

LEMMA Counts ==
  /\ Count \subseteq Nat /\ 0 \in Count /\ MaxStored \in Count /\ None \notin Count
  /\ \A a, b \in Count : /\ Lesser(a, b) \in Count
                         /\ Lesser(a, b) <= a /\ Lesser(a, b) <= b
                         /\ \A c \in Count : c <= a /\ c <= b => c <= Lesser(a, b)
  /\ \A a \in Count : a <= MaxStored /\ a <= a
BY LiveAssumption DEF Count, Lesser

LEMMA UptoCounts ==
  ASSUME NEW p, NEW h \in Count
  PROVE  Upto(p, h) \in Count /\ Upto(p, h) \in Nat /\ Upto(p, h) <= Upto(p, h)
BY Counts DEF Upto

\* An entry whose request was answered, whose answer has arrived, and that asks for more.
Served(q, st)  == [q EXCEPT !.fetch = "answered", !.got = Lesser(st, q.upto)]
Arrived(q)     == [Settled(q) EXCEPT !.invalid = FALSE, !.failed = FALSE,
                                     !.data = IF q.more THEN q.data ELSE q.got]
More(q, p, h)  == [Sent(q, p, h) EXCEPT !.more = TRUE]

\* What each operation of the cache leaves in an entry.
LEMMA SentFields ==
  ASSUME NEW q \in Query, NEW p \in Live, NEW h \in Count
  PROVE  /\ Sent(q, p, h) \in Query
         /\ Sent(q, p, h).data = q.data /\ Sent(q, p, h).invalid = q.invalid
         /\ Sent(q, p, h).fetch = "sent" /\ Sent(q, p, h).more = FALSE
         /\ Sent(q, p, h).upto = Upto(p, h)
<1>1. (q.failed /\ q.data # None) \in BOOLEAN
  BY Zenon
<1>2. Upto(p, h) \in Count
  BY UptoCounts
<1>3. QED
  BY <1>1, <1>2 DEF Sent, Query

LEMMA MarkedFields ==
  ASSUME NEW q \in Query, NEW m, m = [q EXCEPT !.invalid = TRUE]
  PROVE  /\ m \in Query /\ m.data = q.data /\ m.invalid
         /\ m.fetch = q.fetch /\ m.more = q.more /\ m.upto = q.upto /\ m.got = q.got
BY DEF Query

LEMMA NewFields ==
  NewQuery \in Query /\ NewQuery.data = None /\ NewQuery.fetch = "none"
BY Counts DEF NewQuery, Query

\* A request asks for all that is owed, and for no less than what is shown.
LEMMA SentKeeps ==
  ASSUME NEW q \in Query, NEW p \in Live, NEW s \in Count, NEW st \in Count, NEW h \in Count,
         PageOK(p, q, s, st, h)
  PROVE  PageOK(p, Sent(q, p, h), s, st, h)
<1>1. PICK r : r = Sent(q, p, h)
  OBVIOUS
<1>2. /\ r.data = q.data /\ r.invalid = q.invalid /\ r.fetch = "sent" /\ r.more = FALSE
      /\ r.upto = Upto(p, h)
  BY <1>1, SentFields
<1>3. Upto(p, h) <= Upto(p, h)
  BY UptoCounts
<1>4. PageOK(p, r, s, st, h)
  BY <1>2, <1>3 DEF PageOK
<1>5. QED
  BY <1>1, <1>4

\* Mounting starts a request or does nothing.
LEMMA ActivatedKeeps ==
  ASSUME NEW q \in Query, NEW p \in Live, NEW s \in Count, NEW st \in Count, NEW h \in Count,
         NEW stale \in BOOLEAN, PageOK(p, q, s, st, h)
  PROVE  /\ Activated(q, p, h, stale) \in Query /\ Activated(q, p, h, stale).data = q.data
         /\ PageOK(p, Activated(q, p, h, stale), s, st, h)
<1>1. Activated(q, p, h, stale) \in {q, Sent(q, p, h)}
  BY DEF Activated
<1>2. /\ Sent(q, p, h) \in Query /\ Sent(q, p, h).data = q.data
      /\ PageOK(p, Sent(q, p, h), s, st, h)
  BY SentFields, SentKeeps
<1>3. PICK a : a = Activated(q, p, h, stale)
  OBVIOUS
<1>4. CASE a = q
  BY <1>3, <1>4
<1>5. CASE a = Sent(q, p, h)
  BY <1>2, <1>3, <1>5, Zenon
<1>6. QED
  BY <1>1, <1>3, <1>4, <1>5

\* More may be stored, and a later horizon asked for.
LEMMA LaterKeeps ==
  ASSUME NEW q \in Query, NEW p \in Live, NEW s \in Count, NEW st \in Count, NEW h \in Count,
         NEW st2 \in Count, NEW h2 \in Count, st <= st2, h <= h2, PageOK(p, q, s, st, h)
  PROVE  PageOK(p, q, s, st2, h2)
<1>1. Upto(p, h) <= Upto(p, h2) /\ Upto(p, h) \in Nat /\ Upto(p, h2) \in Nat
  BY Counts, UptoCounts DEF Upto
<1>2. /\ s \in Nat /\ st \in Nat /\ st2 \in Nat /\ q.upto \in Nat /\ q.got \in Nat
      /\ q.data # None => q.data \in Nat
  BY Counts DEF Query
<1>3. QED
  BY <1>1, <1>2 DEF PageOK

\* A new key: nothing is owed under it, and nothing is shown.
LEMMA NewKeeps ==
  ASSUME NEW p \in Live, NEW st \in Count, NEW h \in Count
  PROVE  /\ PageOK(p, NewQuery, 0, st, h) /\ PageOK(p, Sent(NewQuery, p, h), 0, st, h)
<1>1. 0 <= st /\ 0 <= Upto(p, h)
  BY Counts, UptoCounts
<1>2. PageOK(p, NewQuery, 0, st, h)
  BY <1>1, NewFields DEF PageOK
<1>3. QED
  BY <1>2, NewFields, Counts, SentKeeps

\* An event that is not lost: what is shown is marked, and asked for again.
LEMMA HeardKeeps ==
  ASSUME NEW q \in Query, NEW p \in Live, NEW s \in Count, NEW st \in Count, NEW h \in Count,
         PageOK(p, q, s, st, h),
         NEW m, m = [Sent(q, p, h) EXCEPT !.invalid = TRUE]
  PROVE  PageOK(p, m, Lesser(st, Upto(p, h)), st, h)
<1>1. /\ m.data = q.data /\ m.invalid /\ m.fetch = "sent" /\ m.more = FALSE
      /\ m.upto = Upto(p, h)
  <2>1. PICK r : r = Sent(q, p, h)
    OBVIOUS
  <2>2. /\ r \in Query /\ r.data = q.data /\ r.fetch = "sent" /\ r.more = FALSE
        /\ r.upto = Upto(p, h) /\ m = [r EXCEPT !.invalid = TRUE]
    BY <2>1, SentFields
  <2>3. QED
    BY <2>2 DEF Query
<1>2. Lesser(st, Upto(p, h)) <= st /\ Lesser(st, Upto(p, h)) <= Upto(p, h) /\ Upto(p, h) <= Upto(p, h)
  BY Counts, UptoCounts
<1>3. QED
  BY <1>1, <1>2 DEF PageOK

\* An event that shows nothing new.
LEMMA MarkedKeeps ==
  ASSUME NEW q \in Query, NEW p, NEW s, NEW st, NEW h, PageOK(p, q, s, st, h),
         NEW m, m = [q EXCEPT !.invalid = TRUE]
  PROVE  PageOK(p, m, s, st, h)
BY MarkedFields DEF PageOK

\* Nothing is owed for an event that is lost.
LEMMA NothingOwed ==
  ASSUME NEW q \in Query, NEW p \in Live, NEW s \in Count, NEW st \in Count, NEW h \in Count,
         PageOK(p, q, s, st, h)
  PROVE  PageOK(p, q, 0, st, h)
<1>1. /\ \A a \in Count : 0 <= a
      /\ Upto(p, h) \in Count /\ q.upto \in Count /\ q.got \in Count
      /\ q.data # None => q.data \in Count
  BY Counts, UptoCounts DEF Query
<1>2. QED
  BY <1>1 DEF PageOK

LEMMA ServedKeeps ==
  ASSUME NEW q \in Query, NEW p \in Live, NEW s \in Count, NEW st \in Count, NEW h \in Count,
         PageOK(p, q, s, st, h), q.fetch = "sent",
         NEW r, r = Served(q, st)
  PROVE  r \in Query /\ r.data = q.data /\ PageOK(p, r, s, st, h)
<1>1. q.upto \in Count /\ (q.data # None => q.data \in Count)
  BY DEF Query
<1>2. Lesser(st, q.upto) \in Count
  BY <1>1, Counts
<1>3. /\ r \in Query /\ r.data = q.data /\ r.invalid = q.invalid /\ r.fetch = "answered"
      /\ r.more = q.more /\ r.upto = q.upto /\ r.got = Lesser(st, q.upto)
  BY <1>2 DEF Served, Query
<1>4. ~q.more => /\ r.got <= st /\ r.got <= r.upto /\ s <= r.got
                 /\ r.data # None => r.data <= r.got
  <2> SUFFICES ASSUME ~q.more
               PROVE  /\ r.got <= st /\ r.got <= r.upto /\ s <= r.got
                      /\ r.data # None => r.data <= r.got
    OBVIOUS
  <2>1. PICK u, d : u = q.upto /\ d = q.data
    OBVIOUS
  <2>2. /\ s <= st /\ s <= u
        /\ d # None => d <= st /\ d <= u
    BY <2>1 DEF PageOK
  <2>3. u \in Count /\ (d # None => d \in Count)
    BY <1>1, <2>1
  <2>4. /\ Lesser(st, u) <= st /\ Lesser(st, u) <= u /\ s <= Lesser(st, u)
        /\ d # None => d <= Lesser(st, u)
    BY <2>2, <2>3, Counts
  <2>5. QED
    BY <1>3, <2>1, <2>4
<1>5. QED
  BY <1>3, <1>4 DEF PageOK

LEMMA ArrivedKeeps ==
  ASSUME NEW q \in Query, NEW p \in Live, NEW s \in Count, NEW st \in Count, NEW h \in Count,
         PageOK(p, q, s, st, h), q.fetch = "answered",
         NEW r, r = Arrived(q)
  PROVE  /\ r \in Query /\ r.data # None /\ PageOK(p, r, s, st, h)
         /\ q.data # None => r.data >= q.data
<1>1. q.got \in Count /\ q.upto \in Count /\ (q.data # None => q.data \in Count) /\ 0 \in Count
  BY Counts DEF Query
<1>2. PICK d : d = IF q.more THEN q.data ELSE q.got
  OBVIOUS
<1>3. d \in Count
  BY <1>1, <1>2 DEF PageOK
<1>4. /\ r \in Query /\ r.data = d /\ r.invalid = FALSE /\ r.fetch = "none" /\ r.more = FALSE
  BY <1>1, <1>2, <1>3 DEF Arrived, Settled, Query
<1>5. Upto(p, h) \in Nat /\ s \in Nat /\ st \in Nat /\ Count \subseteq Nat /\ None \notin Count
  BY Counts, UptoCounts
<1>6. d <= st /\ d <= Upto(p, h) /\ s <= d /\ (q.data # None => q.data <= d)
  <2>1. PICK g, u, v : g = q.got /\ u = q.upto /\ v = q.data
    OBVIOUS
  <2>2. g \in Count /\ u \in Count /\ (v # None => v \in Count)
    BY <1>1, <2>1
  <2>3. /\ v # None => v <= st /\ v <= Upto(p, h) /\ v <= v
        /\ q.more => v # None /\ s <= v
        /\ ~q.more => /\ g <= st /\ g <= u /\ u <= Upto(p, h) /\ s <= g
                      /\ v # None => v <= g
    <3>1. v # None => v <= v
      BY <2>2, Counts
    <3>2. QED
      BY <2>1, <3>1 DEF PageOK
  <2>4. g <= u /\ u <= Upto(p, h) => g <= Upto(p, h)
    BY <1>5, <2>2
  <2>5. q.more \in BOOLEAN /\ d = IF q.more THEN v ELSE g
    BY <1>2, <2>1 DEF Query
  <2>6. QED
    BY <2>1, <2>3, <2>4, <2>5
<1>7. PageOK(p, r, s, st, h)
  BY <1>4, <1>6 DEF PageOK
<1>8. QED
  BY <1>1, <1>3, <1>4, <1>5, <1>6, <1>7

LEMMA FailedKeeps ==
  ASSUME NEW q \in Query, NEW p \in Live, NEW s \in Count, NEW st \in Count, NEW h \in Count,
         PageOK(p, q, s, st, h), NEW r, r = [Settled(q) EXCEPT !.failed = TRUE]
  PROVE  r \in Query /\ r.data = q.data /\ PageOK(p, r, s, st, h)
<1>1. /\ r \in Query /\ r.data = q.data /\ r.invalid = q.invalid /\ r.fetch = "none"
      /\ r.more = FALSE
  BY Counts DEF Settled, Query
<1>2. QED
  BY <1>1 DEF PageOK

\* "Load more": what is owed and not shown is lost.
LEMMA MoreKeeps ==
  ASSUME NEW q \in Query, NEW p \in Live, NEW s \in Count, NEW st \in Count, NEW h \in Count,
         PageOK(p, q, s, st, h), q.data # None,
         NEW x \in Count, x = 0 \/ (x = s /\ s <= q.data),
         NEW r, r = More(q, p, h)
  PROVE  /\ r \in Query /\ r.data = q.data
         /\ PageOK(p, r, x, st, h)
<1>1. q.data \in Count
  BY DEF Query
<1>2. /\ r \in Query /\ r.data = q.data /\ r.invalid = q.invalid /\ r.fetch = "sent" /\ r.more
  <2>1. PICK t : t = Sent(q, p, h)
    OBVIOUS
  <2>2. /\ t \in Query /\ t.data = q.data /\ t.invalid = q.invalid /\ t.fetch = "sent"
        /\ r = [t EXCEPT !.more = TRUE]
    BY <2>1, SentFields DEF More
  <2>3. QED
    BY <2>2 DEF Query
<1>3. x <= q.data
  <2>1. PICK d : d = q.data
    OBVIOUS
  <2>2. d \in Nat
    BY <1>1, <2>1, Counts
  <2>3. QED
    BY <2>1, <2>2
<1>4. x <= st /\ x <= Upto(p, h)
  <2>1. 0 <= st /\ 0 <= Upto(p, h)
    BY Counts, UptoCounts
  <2>2. QED
    BY <2>1 DEF PageOK
<1>5. PageOK(p, r, x, st, h)
  BY <1>2, <1>3, <1>4 DEF PageOK
<1>6. QED
  BY <1>2, <1>5

(***************************************************************************)
(* The queries of all pages                                                *)
(***************************************************************************)

\* What the query of page p has to show: all that was stored at the last event about it,
\* unless the event was lost.
Owed(p) == IF lost[p] THEN 0 ELSE heard[p]

\* The strengthening: every page's query is in order.
DataInv ==
  /\ stored \in Count /\ horizon \in Count /\ horizon <= stored
  /\ cache \in [Live -> Query] /\ heard \in [Live -> Count] /\ lost \in [Live -> BOOLEAN]
  /\ \A p \in Live : PageOK(p, cache[p], Owed(p), stored, horizon)

\* What a page shows, it goes on showing, or something later.
Kept(p) == cache[p].data # None => cache'[p].data # None /\ cache'[p].data >= cache[p].data

DataSafe == DataInv' /\ \A p \in Live : Kept(p) \/ ChangeKey(p)

LEMMA SameData ==
  ASSUME DataInv, NEW p \in Live, NEW r, r.data = cache[p].data
  PROVE  cache[p].data # None => r.data # None /\ r.data >= cache[p].data
<1>1. PICK d : d = cache[p].data
  OBVIOUS
<1>2. d \in Count \cup {None}
  BY <1>1 DEF DataInv, Query
<1>3. d # None => d >= d
  BY <1>2, Counts
<1>4. QED
  BY <1>1, <1>3

LEMMA SameKept ==
  ASSUME DataInv, NEW p \in Live, cache'[p].data = cache[p].data
  PROVE  Kept(p)
BY SameData DEF Kept

LEMMA IdleKeeps ==
  ASSUME DataInv, UNCHANGED <<stored, horizon, cache, history>>
  PROVE  DataSafe
<1>1. \A p \in Live : cache'[p].data = cache[p].data
  OBVIOUS
<1>2. DataInv'
  BY DEF DataInv, Owed, history
<1>3. QED
  BY <1>1, <1>2, SameKept DEF DataSafe

\* A step of one page.
LEMMA OnePageKeeps ==
  ASSUME DataInv, NEW p \in Live, NEW r \in Query, NEW h \in Count,
         NEW x \in Count, NEW l \in BOOLEAN,
         cache' = [cache EXCEPT ![p] = r],
         heard' = [heard EXCEPT ![p] = x], lost' = [lost EXCEPT ![p] = l],
         stored' = stored, horizon' = h, horizon <= h, h <= stored,
         PageOK(p, r, IF l THEN 0 ELSE x, stored, h),
         Kept(p) \/ ChangeKey(p)
  PROVE  DataSafe
<1>1. /\ cache' \in [Live -> Query] /\ heard' \in [Live -> Count] /\ lost' \in [Live -> BOOLEAN]
      /\ cache'[p] = r /\ heard'[p] = x /\ lost'[p] = l
      /\ \A q \in Live \ {p} : /\ cache'[q] = cache[q] 
                               /\ heard'[q] = heard[q] /\ lost'[q] = lost[q]
  BY DEF DataInv
<1>2. \A q \in Live \ {p} : PageOK(q, cache'[q], Owed(q)', stored', horizon') /\ Kept(q)
  <2> SUFFICES ASSUME NEW q \in Live \ {p}
               PROVE  PageOK(q, cache'[q], Owed(q)', stored', horizon') /\ Kept(q)
    OBVIOUS
  <2>1. cache'[q] = cache[q] /\ Owed(q)' = Owed(q)
    BY <1>1 DEF Owed
  <2>2. /\ cache[q] \in Query /\ Owed(q) \in Count /\ stored \in Count /\ horizon \in Count
        /\ PageOK(q, cache[q], Owed(q), stored, horizon) /\ stored <= stored
    BY Counts DEF DataInv, Owed
  <2>3. PageOK(q, cache[q], Owed(q), stored, h)
    BY <2>2, LaterKeeps
  <2>4. QED
    BY <2>1, <2>3, SameKept
<1>3. PageOK(p, cache'[p], Owed(p)', stored', horizon')
  BY <1>1 DEF Owed
<1>4. DataInv'
  <2>1. \A q \in Live : PageOK(q, cache'[q], Owed(q)', stored', horizon')
    BY <1>2, <1>3
  <2>2. stored' \in Count /\ horizon' \in Count /\ horizon' <= stored'
    BY DEF DataInv
  <2>3. QED
    BY <1>1, <2>1, <2>2 DEF DataInv
<1>5. QED
  BY <1>2, <1>4 DEF DataSafe

\* The facts about a page that the lemmas above ask for.
LEMMA PageFacts ==
  ASSUME DataInv, NEW p \in Live
  PROVE  /\ cache[p] \in Query /\ Owed(p) \in Count /\ stored \in Count /\ horizon \in Count
         /\ horizon <= horizon /\ horizon <= stored /\ stored <= stored
         /\ PageOK(p, cache[p], Owed(p), stored, horizon)
         /\ heard[p] \in Count /\ lost[p] \in BOOLEAN
         /\ heard = [heard EXCEPT ![p] = heard[p]] /\ lost = [lost EXCEPT ![p] = lost[p]]
BY Counts DEF DataInv, Owed

\* One page's query alone changes, to something in order that still shows what it showed.
LEMMA QueryKeeps ==
  ASSUME DataInv, NEW p \in Live, NEW r \in Query, cache' = [cache EXCEPT ![p] = r],
         UNCHANGED <<stored, horizon, history>>,
         PageOK(p, r, Owed(p), stored, horizon),
         cache[p].data # None => r.data # None /\ r.data >= cache[p].data
  PROVE  DataSafe
<1>1. cache'[p] = r
  BY DEF DataInv
<1>2. Kept(p)
  BY <1>1 DEF Kept
<1>3. /\ heard' = [heard EXCEPT ![p] = heard[p]] /\ lost' = [lost EXCEPT ![p] = lost[p]]
      /\ PageOK(p, r, IF lost[p] THEN 0 ELSE heard[p], stored, horizon)
  BY PageFacts DEF Owed, history
<1>4. QED
  BY <1>2, <1>3, PageFacts, OnePageKeeps

LEMMA NavigateKeeps ==
  ASSUME DataInv, NEW p \in Live \cup {"other"}, NEW stale \in BOOLEAN, Navigate(p, stale)
  PROVE  DataSafe
<1>1. PICK to : to = IF p = "dash" THEN stored ELSE horizon
  OBVIOUS
<1>2. /\ to \in Count /\ horizon <= to /\ to <= stored /\ horizon' = to
      /\ stored' = stored /\ history' = history /\ stored \in Count /\ horizon \in Count
  <2>1. stored \in Count /\ horizon \in Count /\ horizon <= stored
    BY DEF DataInv
  <2>2. horizon <= horizon /\ stored <= stored
    BY <2>1, Counts
  <2>3. QED
    BY <1>1, <2>1, <2>2 DEF Navigate
<1>3. CASE p \in Live
  <2>1. PICK r : r = Activated(cache[p], p, to, stale)
    OBVIOUS
  <2>2. cache' = [cache EXCEPT ![p] = r]
    BY <1>1, <1>3, <2>1 DEF Navigate
  <2>3. PageOK(p, cache[p], Owed(p), stored, to)
    BY <1>2, <1>3, PageFacts, LaterKeeps
  <2>4. r \in Query /\ r.data = cache[p].data /\ PageOK(p, r, Owed(p), stored, to)
    BY <1>2, <1>3, <2>1, <2>3, PageFacts, ActivatedKeeps
  <2>5. cache'[p] = r
    BY <1>3, <2>2 DEF DataInv
  <2>6. Kept(p)
    BY <1>3, <2>4, <2>5, SameKept
  <2>7. /\ heard[p] \in Count /\ heard' = [heard EXCEPT ![p] = heard[p]]
        /\ lost[p] \in BOOLEAN /\ lost' = [lost EXCEPT ![p] = lost[p]]
        /\ PageOK(p, r, IF lost[p] THEN 0 ELSE heard[p], stored, to)
    BY <1>2, <1>3, <2>4, PageFacts DEF history, Owed
  <2>8. QED
    BY <1>2, <1>3, <2>2, <2>4, <2>6, <2>7, OnePageKeeps
<1>4. CASE p \notin Live
  <2>1. cache' = cache /\ (\A q \in Live : cache'[q].data = cache[q].data)
    BY <1>4 DEF Navigate
  <2>2. \A q \in Live : PageOK(q, cache[q], Owed(q), stored, to)
    BY <1>2, PageFacts, LaterKeeps
  <2>3. DataInv'
    BY <1>2, <2>1, <2>2 DEF DataInv, Owed, history
  <2>4. QED
    BY <2>1, <2>3, SameKept DEF DataSafe
<1>5. QED
  BY <1>3, <1>4

LEMMA ChangeKeyKeeps ==
  ASSUME DataInv, NEW p \in Live, ChangeKey(p)
  PROVE  DataSafe
<1>1. PICK to : to = IF p = "dash" THEN stored ELSE horizon
  OBVIOUS
<1>2. /\ to \in Count /\ horizon <= to /\ to <= stored
  <2>1. stored \in Count /\ horizon \in Count /\ horizon <= stored
    BY DEF DataInv
  <2>2. horizon <= horizon /\ stored <= stored
    BY <2>1, Counts
  <2>3. QED
    BY <1>1, <2>1, <2>2
<1>3. PICK r : r = Sent(NewQuery, p, to)
  OBVIOUS
<1>4. /\ cache' = [cache EXCEPT ![p] = r]
      /\ heard' = [heard EXCEPT ![p] = 0] /\ lost' = [lost EXCEPT ![p] = FALSE]
      /\ stored' = stored /\ horizon' = to
  BY <1>1, <1>3 DEF ChangeKey
<1>5. r \in Query /\ 0 \in Count
  BY <1>2, <1>3, NewFields, SentFields, Counts
<1>6. PageOK(p, r, IF FALSE THEN 0 ELSE 0, stored, to)
  BY <1>2, <1>3, NewKeeps, PageFacts
<1>7. QED
  BY <1>2, <1>4, <1>5, <1>6, OnePageKeeps

\* An event that reaches a page: the page in view asks again, or the event is lost.
LEMMA InvalidatedKeeps ==
  ASSUME DataInv, NEW p \in Live, NEW r, r = Invalidated(cache[p], p),
         NEW x, x = Lesser(stored, Upto(p, horizon)), NEW l, l = GoesOn(cache[p], p)
  PROVE  /\ r \in Query /\ x \in Count /\ l \in BOOLEAN /\ r.data = cache[p].data
         /\ PageOK(p, r, IF l THEN 0 ELSE x, stored, horizon)
<1>0. PICK q : q = cache[p]
  OBVIOUS
<1>1. /\ q \in Query /\ Owed(p) \in Count /\ stored \in Count /\ horizon \in Count
      /\ PageOK(p, q, Owed(p), stored, horizon) /\ PageOK(p, q, 0, stored, horizon)
  BY <1>0, PageFacts, NothingOwed
<1>2. /\ x \in Count /\ Upto(p, horizon) \in Count /\ x <= stored /\ x <= Upto(p, horizon)
      /\ l \in BOOLEAN
  BY <1>1, Counts, UptoCounts DEF GoesOn
<1>3. CASE p # view
  <2>1. r = [q EXCEPT !.invalid = TRUE]
    BY <1>0, <1>3 DEF Invalidated
  <2>2. /\ r \in Query /\ r.data = q.data /\ r.invalid /\ r.fetch = q.fetch
        /\ PageOK(p, r, 0, stored, horizon)
    BY <1>1, <2>1, MarkedFields, MarkedKeeps
  <2>3. CASE l
    BY <1>0, <1>2, <2>2, <2>3
  <2>4. CASE ~l
    <3>1. r.fetch = "none"
      BY <1>0, <1>3, <2>2, <2>4 DEF GoesOn
    <3>2. PageOK(p, r, x, stored, horizon)
      BY <1>2, <2>2, <3>1 DEF PageOK
    <3>3. QED
      BY <1>0, <1>2, <2>2, <2>4, <3>2
  <2>5. QED
    BY <2>3, <2>4
<1>4. CASE p = view /\ q.data = None /\ q.fetch # "none"
  <2>1. r = q /\ l
    BY <1>0, <1>4 DEF Invalidated, GoesOn
  <2>2. QED
    BY <1>0, <1>1, <1>2, <2>1
<1>5. CASE p = view /\ ~(q.data = None /\ q.fetch # "none")
  <2>1. PICK t : t = Sent(q, p, horizon)
    OBVIOUS
  <2>2. /\ r = [t EXCEPT !.invalid = TRUE] /\ ~l
        /\ r = [Sent(q, p, horizon) EXCEPT !.invalid = TRUE]
    BY <1>0, <1>5, <2>1 DEF Invalidated, GoesOn
  <2>3. t \in Query /\ t.data = q.data
    BY <1>1, <2>1, SentFields
  <2>4. r \in Query /\ r.data = q.data
    BY <2>2, <2>3, MarkedFields
  <2>5. PageOK(p, r, x, stored, horizon)
    BY <1>1, <2>2, HeardKeeps
  <2>6. QED
    BY <1>0, <1>2, <2>2, <2>4, <2>5
<1>6. QED
  BY <1>3, <1>4, <1>5

LEMMA WriteKeeps ==
  ASSUME DataInv, NEW s \in Sockets, Write(s)
  PROVE  DataSafe
<1>1. PICK ps : ps = Affects(eff[sock[s].owner].page) \cap Live
  OBVIOUS
<1>2. /\ cache' = [p \in Live |-> IF p \in ps THEN Invalidated(cache[p], p) ELSE cache[p]]
      /\ heard' = [p \in Live |-> IF p \in ps THEN Lesser(stored, Upto(p, horizon)) ELSE heard[p]]
      /\ lost' = [p \in Live |-> IF p \in ps THEN GoesOn(cache[p], p) ELSE lost[p]]
      /\ stored' = stored /\ horizon' = horizon
  BY <1>1 DEF Write, OnMessage
<1>3. \A p \in Live : /\ cache'[p] \in Query /\ heard'[p] \in Count /\ lost'[p] \in BOOLEAN
                      /\ cache'[p].data = cache[p].data
                      /\ PageOK(p, cache'[p], Owed(p)', stored, horizon)
  <2> SUFFICES ASSUME NEW p \in Live
               PROVE  /\ cache'[p] \in Query /\ heard'[p] \in Count /\ lost'[p] \in BOOLEAN
                      /\ cache'[p].data = cache[p].data
                      /\ PageOK(p, cache'[p], Owed(p)', stored, horizon)
    OBVIOUS
  <2>1. CASE p \in ps
    <3>1. PICK r : r = Invalidated(cache[p], p)
      OBVIOUS
    <3>2. PICK x : x = Lesser(stored, Upto(p, horizon))
      OBVIOUS
    <3>3. PICK l : l = GoesOn(cache[p], p)
      OBVIOUS
    <3>4. cache'[p] = r /\ heard'[p] = x /\ lost'[p] = l
      BY <1>2, <2>1, <3>1, <3>2, <3>3
    <3>5. /\ r \in Query /\ x \in Count /\ l \in BOOLEAN /\ r.data = cache[p].data
          /\ PageOK(p, r, IF l THEN 0 ELSE x, stored, horizon)
      BY <3>1, <3>2, <3>3, InvalidatedKeeps
    <3>6. QED
      BY <3>4, <3>5 DEF Owed
  <2>2. CASE p \notin ps
    <3>1. cache'[p] = cache[p] /\ heard'[p] = heard[p] /\ lost'[p] = lost[p]
      BY <1>2, <2>2
    <3>2. Owed(p)' = Owed(p)
      BY <3>1 DEF Owed
    <3>3. QED
      BY <3>1, <3>2, PageFacts
  <2>3. QED
    BY <2>1, <2>2
<1>4. cache' \in [Live -> Query] /\ heard' \in [Live -> Count] /\ lost' \in [Live -> BOOLEAN]
  BY <1>2, <1>3
<1>5. DataInv'
  <2>1. stored' \in Count /\ horizon' \in Count /\ horizon' <= stored'
    BY <1>2 DEF DataInv
  <2>2. QED
    BY <1>2, <1>3, <1>4, <2>1 DEF DataInv
<1>6. QED
  BY <1>3, <1>5, SameKept DEF DataSafe

LEMMA ArrivesKeeps ==
  ASSUME DataInv, Arrives
  PROVE  DataSafe
<1>1. stored' = stored + 1 /\ stored < MaxStored /\ UNCHANGED <<horizon, cache, history>>
  BY DEF Arrives
<1>2. /\ stored \in Count /\ horizon \in Count /\ horizon <= stored
      /\ cache \in [Live -> Query] /\ heard \in [Live -> Count] /\ lost \in [Live -> BOOLEAN]
  BY DEF DataInv
<1>3. /\ stored' \in Count /\ stored <= stored' /\ horizon <= stored' /\ horizon <= horizon
  BY <1>1, <1>2, LiveAssumption DEF Count
<1>4. \A p \in Live : PageOK(p, cache[p], Owed(p), stored', horizon)
  BY <1>2, <1>3, PageFacts, LaterKeeps
<1>5. DataInv'
  BY <1>1, <1>2, <1>3, <1>4 DEF DataInv, Owed, history
<1>6. \A p \in Live : cache'[p].data = cache[p].data
  BY <1>1
<1>7. QED
  BY <1>5, <1>6, SameKept DEF DataSafe

\* The operations of one page.
LEMMA AnswerKeeps ==
  ASSUME DataInv, NEW p \in Live, ServerAnswers(p) \/ AnswerArrives(p) \/ RequestFails(p)
  PROVE  DataSafe
<1>0. PICK q : q = cache[p]
  OBVIOUS
<1>1. /\ q \in Query /\ Owed(p) \in Count /\ stored \in Count /\ horizon \in Count
      /\ PageOK(p, q, Owed(p), stored, horizon)
  BY <1>0, PageFacts
<1>2. UNCHANGED <<stored, horizon, history>> /\ cache \in [Live -> Query]
  BY DEF DataInv, ServerAnswers, AnswerArrives, RequestFails
<1>3. CASE ServerAnswers(p)
  <2>1. PICK r : r = Served(q, stored)
    OBVIOUS
  <2>2. cache' = [cache EXCEPT ![p] = r] /\ q.fetch = "sent"
    BY <1>0, <1>2, <1>3, <2>1 DEF ServerAnswers, Served
  <2>3. r \in Query /\ r.data = q.data /\ PageOK(p, r, Owed(p), stored, horizon)
    BY <1>1, <2>1, <2>2, ServedKeeps
  <2>4. QED
    BY <1>0, <1>1, <1>2, <2>2, <2>3, SameData, QueryKeeps
<1>4. CASE AnswerArrives(p)
  <2>1. PICK r : r = Arrived(q)
    OBVIOUS
  <2>2. cache' = [cache EXCEPT ![p] = r] /\ q.fetch = "answered"
    BY <1>0, <1>4, <2>1 DEF AnswerArrives, Arrived
  <2>3. /\ r \in Query /\ r.data # None /\ PageOK(p, r, Owed(p), stored, horizon)
        /\ q.data # None => r.data >= q.data
    BY <1>1, <2>1, <2>2, ArrivedKeeps
  <2>4. QED
    BY <1>0, <1>1, <1>2, <2>2, <2>3, QueryKeeps
<1>5. CASE RequestFails(p)
  <2>1. PICK r : r = [Settled(q) EXCEPT !.failed = TRUE]
    OBVIOUS
  <2>2. cache' = [cache EXCEPT ![p] = r]
    BY <1>0, <1>5, <2>1 DEF RequestFails
  <2>3. r \in Query /\ r.data = q.data /\ PageOK(p, r, Owed(p), stored, horizon)
    BY <1>1, <2>1, FailedKeeps
  <2>4. QED
    BY <1>0, <1>1, <1>2, <2>2, <2>3, SameData, QueryKeeps
<1>6. QED
  BY <1>3, <1>4, <1>5

LEMMA DashKeeps ==
  ASSUME DataInv, "dash" \in Live, Poll \/ Retry
  PROVE  DataSafe
<1> DEFINE q == cache["dash"]
<1>1. /\ q \in Query /\ Owed("dash") \in Count /\ stored \in Count /\ horizon \in Count
      /\ PageOK("dash", q, Owed("dash"), stored, horizon)
  BY PageFacts
<1>2. PICK r : r = Sent(q, "dash", horizon)
  OBVIOUS
<1>3. cache' = [cache EXCEPT !["dash"] = r] /\ UNCHANGED <<stored, horizon, history>>
  BY <1>2 DEF Poll, Retry
<1>4. r \in Query /\ r.data = q.data /\ PageOK("dash", r, Owed("dash"), stored, horizon)
  BY <1>1, <1>2, SentFields, SentKeeps
<1>5. QED
  BY <1>3, <1>4, SameData, QueryKeeps

LEMMA LoadMoreKeeps ==
  ASSUME DataInv, "sessions" \in Live, LoadMore
  PROVE  DataSafe
<1>0. PICK q, x, l : /\ q = cache["sessions"] /\ x = heard["sessions"]
                     /\ l = (lost["sessions"] \/ q.data < x)
  OBVIOUS
<1>1. /\ q \in Query /\ Owed("sessions") \in Count /\ stored \in Count /\ horizon \in Count
      /\ PageOK("sessions", q, Owed("sessions"), stored, horizon) /\ q.data # None
      /\ x \in Count /\ heard = [heard EXCEPT !["sessions"] = x]
      /\ lost["sessions"] \in BOOLEAN
  BY <1>0, PageFacts DEF LoadMore
<1>2. PICK r : r = More(q, "sessions", horizon)
  OBVIOUS
<1>3. PICK y : y = IF l THEN 0 ELSE x
  OBVIOUS
<1>4. /\ cache' = [cache EXCEPT !["sessions"] = r] /\ heard' = [heard EXCEPT !["sessions"] = x]
      /\ lost' = [lost EXCEPT !["sessions"] = l]
      /\ stored' = stored /\ horizon' = horizon
  BY <1>0, <1>1, <1>2 DEF LoadMore, DataInv, More
<1>5. y \in Count /\ (y = 0 \/ (y = Owed("sessions") /\ Owed("sessions") <= q.data))
  <2>1. q.data \in Nat /\ x \in Nat /\ 0 \in Count
    BY <1>1, Counts DEF Query
  <2>2. CASE l
    BY <1>3, <2>1, <2>2
  <2>3. CASE ~l
    <3>1. y = x /\ ~lost["sessions"] /\ ~(q.data < x)
      BY <1>0, <1>3, <2>3
    <3>2. x <= q.data
      BY <2>1, <3>1
    <3>3. QED
      BY <1>0, <1>1, <3>1, <3>2 DEF Owed
  <2>4. QED
    BY <2>2, <2>3
<1>6. r \in Query /\ r.data = q.data /\ PageOK("sessions", r, y, stored, horizon)
  BY <1>1, <1>2, <1>5, MoreKeeps
<1>7. cache'["sessions"] = r
  BY <1>4 DEF DataInv
<1>8. Kept("sessions")
  BY <1>0, <1>6, <1>7, SameKept
<1>9. horizon <= horizon /\ horizon <= stored /\ l \in BOOLEAN
  BY <1>0, PageFacts
<1>10. QED
  BY <1>1, <1>3, <1>4, <1>6, <1>8, <1>9, OnePageKeeps

LEMMA SocketsOnly ==
  ASSUME DataInv, \/ \E e \in Effects : DebounceFires(e) \/ TimerFires(e)
                  \/ \E s \in Sockets : \/ Opens(s) \/ CloseEvent(s) \/ ConnectTimeout(s)
                                        \/ \E err \in BOOLEAN : Breaks(s, err)
                                        \/ Subscribed(s)
  PROVE  DataSafe
<1>1. UNCHANGED dataVars
  BY DEF DebounceFires, TimerFires, Connect, Opens, CloseEvent, Breaks, Dies, ConnectTimeout,
         Subscribed
<1>2. QED
  BY <1>1, IdleKeeps DEF dataVars

LEMMA DataStep == DataInv /\ [Next]_vars => DataSafe
<1> SUFFICES ASSUME DataInv, [Next]_vars PROVE DataSafe
  OBVIOUS
<1>1. CASE UNCHANGED vars
  BY <1>1, IdleKeeps DEF vars, dataVars
<1>2. ASSUME NEW s \in Sockets, Write(s) PROVE DataSafe
  BY <1>2, WriteKeeps
<1>3. ASSUME NEW p \in Live \cup {"other"}, NEW stale \in BOOLEAN, Navigate(p, stale)
      PROVE  DataSafe
  BY <1>3, NavigateKeeps
<1>4. CASE Arrives
  BY <1>4, ArrivesKeeps
<1>5. CASE "dash" \in Live /\ (Poll \/ Retry)
  BY <1>5, DashKeeps
<1>6. CASE "sessions" \in Live /\ LoadMore
  BY <1>6, LoadMoreKeeps
<1>7. ASSUME NEW p \in Live, ChangeKey(p) PROVE DataSafe
  BY <1>7, ChangeKeyKeeps
<1>8. ASSUME NEW p \in Live, ServerAnswers(p) \/ AnswerArrives(p) \/ RequestFails(p)
      PROVE  DataSafe
  BY <1>8, AnswerKeeps
<1>9. QED
  BY <1>1, <1>2, <1>3, <1>4, <1>5, <1>6, <1>7, <1>8, SocketsOnly DEF Next

LEMMA DataInit == Init => DataInv
<1> SUFFICES ASSUME Init PROVE DataInv
  OBVIOUS
<1>1. /\ stored = 0 /\ horizon = 0 /\ 0 \in Count /\ 0 <= 0
      /\ heard = [p \in Live |-> 0] /\ lost = [p \in Live |-> FALSE]
  BY Counts DEF Init
<1>2. \A p \in Live : /\ cache[p] \in Query /\ PageOK(p, cache[p], 0, 0, 0)
  <2> SUFFICES ASSUME NEW p \in Live
               PROVE  cache[p] \in Query /\ PageOK(p, cache[p], 0, 0, 0)
    OBVIOUS
  <2>1. cache[p] = Sent(NewQuery, p, 0) \/ cache[p] = NewQuery
    BY DEF Init
  <2>2. /\ PageOK(p, NewQuery, 0, 0, 0) /\ PageOK(p, Sent(NewQuery, p, 0), 0, 0, 0)
        /\ NewQuery \in Query /\ Sent(NewQuery, p, 0) \in Query
    BY <1>1, NewKeeps, NewFields, SentFields
  <2>3. QED
    BY <2>1, <2>2
<1>3. cache \in [Live -> Query]
  BY <1>2 DEF Init
<1>4. QED
  BY <1>1, <1>2, <1>3 DEF DataInv, Owed

\* Once its requests have settled, the page in view shows all that was stored when the last
\* event about it was handled, of what its query asks for (use-websocket.ts:79), unless that
\* event was lost: it met a first load or a page not in view with a request under way, or
\* "load more" took the place of its refetch.
THEOREM ShownIsSeen == Spec => []SettledMeansSeen
<1>1. DataInv => SettledMeansSeen
  <2> SUFFICES ASSUME DataInv, NEW p \in Live, cache[p].data # None, cache[p].fetch = "none",
                      ~cache[p].invalid
               PROVE  cache[p].data >= heard[p] \/ lost[p]
    BY DEF SettledMeansSeen
  <2>1. PageOK(p, cache[p], Owed(p), stored, horizon) /\ cache[p] \in Query /\ Owed(p) \in Count
    BY PageFacts
  <2>2. Owed(p) <= cache[p].data
    BY <2>1 DEF PageOK
  <2>3. cache[p].data \in Count
    BY <2>1 DEF Query
  <2>4. cache[p].data >= Owed(p)
    BY <2>1, <2>2, <2>3, Counts
  <2>5. QED
    BY <2>4 DEF Owed
<1>2. DataInv /\ [Next]_vars => DataInv'
  BY DataStep DEF DataSafe
<1>3. QED
  BY <1>1, <1>2, DataInit, PTL DEF Spec

\* A list page that shows rows goes on showing them, and no older ones, through failures,
\* refetches, polls and late answers, until the user asks for another list
\* (SessionsPage.tsx:177, DashboardPage.tsx:55).
THEOREM RowsAreKept == Spec => RowsStay
<1>1. ASSUME DataInv, [Next]_vars
      PROVE  [\A p \in Live \ {"detail"} :
                p = view /\ Screen(p) = "rows" /\ ~ChangeKey(p)
                  => Screen(p)' = "rows" /\ cache'[p].data >= cache[p].data]_vars
  <2> SUFFICES ASSUME NEW p \in Live \ {"detail"}, Screen(p) = "rows", ~ChangeKey(p)
               PROVE  Screen(p)' = "rows" /\ cache'[p].data >= cache[p].data
    BY Zenon
  <2>1. p = "dash" \/ p = "sessions"
    BY LiveAssumption
  <2>2. Screen(p) = ListScreen(cache[p]) /\ Screen(p)' = ListScreen(cache'[p])
    BY <2>1 DEF Screen, DashScreen
  <2>3. PICK d, e : d = cache[p].data /\ e = cache'[p].data
    OBVIOUS
  <2>4. d # None /\ d # 0
    BY <2>2, <2>3 DEF ListScreen
  <2>5. Kept(p) /\ DataInv'
    BY <1>1, DataStep DEF DataSafe
  <2>6. e # None /\ e >= d
    BY <2>3, <2>4, <2>5 DEF Kept
  <2>7. d \in Count /\ e \in Count
    BY <1>1, <2>3, <2>4, <2>5, <2>6 DEF DataInv, Query
  <2>8. e # 0
    BY <2>4, <2>6, <2>7, Counts
  <2>9. ListScreen(cache'[p]) = "rows"
    BY <2>3, <2>6, <2>8 DEF ListScreen
  <2>10. QED
    BY <2>2, <2>3, <2>6, <2>9
<1>2. DataInv /\ [Next]_vars => DataInv'
  BY DataStep DEF DataSafe
<1>3. QED
  BY <1>1, <1>2, DataInit, PTL DEF Spec, RowsStay

(***************************************************************************)
(* The sockets of a mount                                                  *)
(***************************************************************************)

\* The sockets so of mount e that have not ended.
Owned(so, e) == {s \in Sockets : so[s].owner = e /\ so[s].state # "closed"}

Chains(c, k) == c.timers + One(c.debounce) + k

\* A mounted closure c with k sockets: one chain, or two once a timer was ever set, and
\* none only when the attempts are used up.
ClosureOK(c, k) ==
  c.on => /\ Chains(c, k) <= 2
          /\ ~c.armed => Chains(c, k) <= 1
          /\ c.debounce \/ c.timers > 0 \/ k > 0 \/ c.attempt >= MaxAttempts

\* Mount e opens the closed socket s.
Opened(so, so2, s, e) ==
  /\ so[s].state = "closed" /\ so2[s].state = "connecting" /\ so2[s].owner = e
  /\ \A t \in Sockets \ {s} : so2[t] = so[t]

LEMMA OwnedAdd ==
  ASSUME NEW so, NEW so2, NEW s \in Sockets, NEW e \in Effects, Opened(so, so2, s, e)
  PROVE  /\ Owned(so2, e) = Owned(so, e) \cup {s} /\ s \notin Owned(so, e)
         /\ \A f \in Effects \ {e} : Owned(so2, f) = Owned(so, f)
<1>1. \A f \in Effects : s \notin Owned(so, f)
  BY DEF Opened, Owned
<1>2. \A f \in Effects, t \in Sockets \ {s} : t \in Owned(so2, f) <=> t \in Owned(so, f)
  BY DEF Opened, Owned
<1>3. s \in Owned(so2, e) /\ \A f \in Effects \ {e} : s \notin Owned(so2, f)
  BY DEF Opened, Owned
<1>4. \A f : Owned(so2, f) \subseteq Sockets /\ Owned(so, f) \subseteq Sockets
  BY DEF Opened, Owned
<1>5. Owned(so2, e) = Owned(so, e) \cup {s}
  BY <1>2, <1>3, <1>4
<1>6. ASSUME NEW f \in Effects \ {e} PROVE Owned(so2, f) = Owned(so, f)
  <2>1. s \notin Owned(so2, f) /\ s \notin Owned(so, f)
    BY <1>1, <1>3
  <2>2. \A t : t \in Owned(so2, f) <=> t \in Owned(so, f)
    BY <2>1, <1>2, <1>4
  <2>3. QED
    BY <2>2, Zenon
<1>7. QED
  BY <1>1, <1>5, <1>6

\* Nothing but how far a socket has come changes.
Onward(so, so2) ==
  \A s \in Sockets : /\ so2[s].owner = so[s].owner
                     /\ so2[s].state = "closed" <=> so[s].state = "closed"
                     /\ so[s].state \in {"open", "closing"} => so2[s].state \in {"open", "closing"}

LEMMA OwnedSame ==
  ASSUME NEW so, NEW so2, Onward(so, so2), NEW e
  PROVE  Owned(so2, e) = Owned(so, e)
BY DEF Onward, Owned

\* close() on a socket.
LEMMA ClosingFields ==
  ASSUME NEW k \in Socket, NEW k2, k2 = k \/ k2 = Closing(k)
  PROVE  /\ k2 \in Socket /\ k2.owner = k.owner
         /\ k2.state = "closed" <=> k.state = "closed"
         /\ k.state \in {"open", "closing"} => k2.state \in {"open", "closing"}
<1>1. k.state \in {"connecting", "open", "closing", "closed"}
  BY DEF Socket
<1>2. CASE k2 = k
  BY <1>2
<1>3. CASE k2 = Closing(k) /\ k.state = "open"
  BY <1>3 DEF Closing, Socket
<1>4. CASE k2 = Closing(k) /\ k.state = "connecting"
  BY <1>4 DEF Closing, Socket
<1>5. CASE k2 = Closing(k) /\ k.state \notin {"open", "connecting"}
  BY <1>5 DEF Closing
<1>6. QED
  BY <1>1, <1>2, <1>3, <1>4, <1>5

LEMMA ClosingOnward ==
  ASSUME NEW so \in [Sockets -> Socket], NEW so2 \in [Sockets -> Socket],
         \A t \in Sockets : so2[t] = so[t] \/ so2[t] = Closing(so[t])
  PROVE  Onward(so, so2)
BY ClosingFields DEF Onward

\* Socket s of mount e ends; the others are at most closing.
Dropped(so, so2, s, e) ==
  /\ so[s].state # "closed" /\ so[s].owner = e /\ so2[s].state = "closed"
  /\ \A t \in Sockets \ {s} : /\ so2[t].owner = so[t].owner
                              /\ so2[t].state = "closed" <=> so[t].state = "closed"

LEMMA OwnedDrop ==
  ASSUME NEW so, NEW so2, NEW s \in Sockets, NEW e \in Effects, Dropped(so, so2, s, e)
  PROVE  /\ Owned(so2, e) = Owned(so, e) \ {s} /\ s \in Owned(so, e)
         /\ \A f \in Effects \ {e} : Owned(so2, f) = Owned(so, f)
<1>1. s \in Owned(so, e) /\ \A f \in Effects \ {e} : s \notin Owned(so, f)
  BY DEF Dropped, Owned
<1>2. \A f : s \notin Owned(so2, f)
  BY DEF Dropped, Owned
<1>3. ASSUME NEW f, NEW t \in Sockets \ {s} PROVE t \in Owned(so2, f) <=> t \in Owned(so, f)
  <2>1. so2[t].owner = so[t].owner /\ (so2[t].state = "closed" <=> so[t].state = "closed")
    BY DEF Dropped
  <2>2. QED
    BY <2>1 DEF Owned
<1>4. \A f : Owned(so2, f) \subseteq Sockets /\ Owned(so, f) \subseteq Sockets
  BY DEF Dropped, Owned
<1>5. Owned(so2, e) = Owned(so, e) \ {s}
  BY <1>2, <1>3, <1>4
<1>6. ASSUME NEW f \in Effects \ {e} PROVE Owned(so2, f) = Owned(so, f)
  <2>1. s \notin Owned(so2, f) /\ s \notin Owned(so, f)
    BY <1>1, <1>2
  <2>2. \A t : t \in Owned(so2, f) <=> t \in Owned(so, f)
    BY <2>1, <1>3, <1>4
  <2>3. QED
    BY <2>2, Zenon
<1>7. QED
  BY <1>1, <1>5, <1>6

\* A socket that ends, with an error event before or without, leaves a timer behind, and
\* two only the first time.
LEMMA RescheduledFields ==
  ASSUME NEW c \in Closure
  PROVE  /\ Rescheduled(c) \in Closure /\ Rescheduled(c).on = c.on
         /\ Rescheduled(c).page = c.page /\ Rescheduled(c).debounce = c.debounce
         /\ c.on /\ c.attempt < MaxAttempts =>
              /\ Rescheduled(c).timers = c.timers + 1 /\ Rescheduled(c).armed
         /\ c.on /\ c.attempt >= MaxAttempts => Rescheduled(c) = c
         /\ ~c.on => Rescheduled(c) = c
<1>1. /\ c.attempt \in 0 .. MaxAttempts /\ c.timers \in Nat /\ MaxAttempts \in Nat
      /\ c.attempt < MaxAttempts => c.attempt + 1 \in 0 .. MaxAttempts
  BY LiveAssumption DEF Closure
<1>2. CASE c.on /\ c.attempt < MaxAttempts
  <2>1. PICK a, n : a = c.attempt + 1 /\ n = c.timers + 1
    OBVIOUS
  <2>2. Rescheduled(c) = [c EXCEPT !.attempt = a, !.timers = n, !.armed = TRUE]
    BY <1>1, <1>2, <2>1 DEF Rescheduled
  <2>3. a \in 0 .. MaxAttempts /\ n \in Nat
    BY <1>1, <1>2, <2>1
  <2>4. [c EXCEPT !.attempt = a, !.timers = n, !.armed = TRUE] \in Closure
    BY <2>3 DEF Closure
  <2>5. ~(c.attempt >= MaxAttempts)
    BY <1>1, <1>2
  <2>6. QED
    BY <1>2, <2>1, <2>2, <2>4, <2>5 DEF Closure
<1>3. CASE ~c.on \/ ~(c.attempt < MaxAttempts)
  <2>1. Rescheduled(c) = c
    BY <1>1, <1>3 DEF Rescheduled
  <2>2. QED
    BY <1>3, <2>1
<1>4. QED
  BY <1>2, <1>3

LEMMA ChainCounts ==
  ASSUME NEW c \in Closure, NEW k \in Nat
  PROVE  /\ One(c.debounce) \in {0, 1} /\ c.timers \in Nat /\ Chains(c, k) \in Nat
         /\ Chains(c, k + 1) = Chains(c, k) + 1
<1>1. One(c.debounce) \in {0, 1} /\ c.timers \in Nat
  BY DEF One, Closure
<1>2. QED
  BY <1>1 DEF Chains

LEMMA RescheduledChains ==
  ASSUME NEW c \in Closure, NEW k \in Nat, c.on, NEW r, r = Rescheduled(c)
  PROVE  /\ Chains(r, k) <= Chains(c, k) + 1
         /\ ~r.armed => ~c.armed /\ Chains(r, k) = Chains(c, k)
         /\ r.timers > 0 \/ r.attempt >= MaxAttempts
<1>1. /\ c.attempt \in 0 .. MaxAttempts /\ MaxAttempts \in Nat /\ c.timers \in Nat
      /\ Chains(c, k) \in Nat
  BY ChainCounts, LiveAssumption DEF Closure
<1>2. CASE c.attempt < MaxAttempts
  <2>1. r.timers = c.timers + 1 /\ r.armed /\ r.debounce = c.debounce
    BY <1>2, RescheduledFields
  <2>2. One(c.debounce) \in {0, 1}
    BY ChainCounts
  <2>3. Chains(r, k) = Chains(c, k) + 1
    BY <1>1, <2>1, <2>2 DEF Chains
  <2>4. QED
    BY <1>1, <2>1, <2>3
<1>3. CASE c.attempt >= MaxAttempts
  <2>1. r = c
    BY <1>3, RescheduledFields
  <2>2. QED
    BY <1>1, <1>3, <2>1
<1>4. QED
  BY <1>1, <1>2, <1>3

\* The closure after its socket s has ended.
Bereft(c, err, s) == Forget(OnClose(IF err THEN OnError(c) ELSE c), s)

LEMMA BereftKeeps ==
  ASSUME NEW c \in Closure, NEW k \in Nat, NEW err \in BOOLEAN, NEW s, ClosureOK(c, k + 1),
         NEW d, d = Bereft(c, err, s)
  PROVE  d \in Closure /\ d.on = c.on /\ d.page = c.page /\ ClosureOK(d, k)
<1>1. PICK x : x = IF err /\ ~c.armed THEN Rescheduled(c) ELSE c
  OBVIOUS
<1>2. PICK y : y = Rescheduled(x)
  OBVIOUS
<1>3. d = Forget(y, s)
  BY <1>1, <1>2 DEF Bereft, OnClose, OnError
<1>4. x \in Closure /\ x.on = c.on /\ x.page = c.page
  BY <1>1, RescheduledFields
<1>5. y \in Closure /\ y.on = c.on /\ y.page = c.page
  BY <1>2, <1>4, RescheduledFields
<1>6. /\ d \in Closure /\ d.on = y.on /\ d.page = y.page /\ d.timers = y.timers
      /\ d.debounce = y.debounce /\ d.armed = y.armed /\ d.attempt = y.attempt
  BY <1>3, <1>5 DEF Forget, Closure
<1>7. ASSUME c.on PROVE ClosureOK(y, k)
  <2>1. Chains(c, k) \in Nat /\ Chains(x, k) \in Nat /\ Chains(y, k) \in Nat
    BY <1>4, <1>5, ChainCounts
  <2>2. Chains(c, k) + 1 <= 2 /\ (~c.armed => Chains(c, k) + 1 <= 1)
    BY <1>7, ChainCounts DEF ClosureOK
  <2>3. Chains(x, k) <= 1
    <3>1. CASE err /\ ~c.armed
      <4>1. Chains(x, k) <= Chains(c, k) + 1
        BY <1>1, <1>7, <3>1, RescheduledChains
      <4>2. QED
        BY <2>1, <2>2, <3>1, <4>1
    <3>2. CASE ~(err /\ ~c.armed)
      BY <1>1, <2>1, <2>2, <3>2
    <3>3. QED
      BY <3>1, <3>2
  <2>4. /\ Chains(y, k) <= Chains(x, k) + 1
        /\ ~y.armed => Chains(y, k) = Chains(x, k)
        /\ y.timers > 0 \/ y.attempt >= MaxAttempts
    BY <1>2, <1>4, <1>7, RescheduledChains
  <2>5. QED
    BY <2>1, <2>3, <2>4 DEF ClosureOK
<1>8. ASSUME c.on PROVE Chains(d, k) = Chains(y, k)
  BY <1>6 DEF Chains
<1>9. c.on => ClosureOK(d, k)
  BY <1>6, <1>7, <1>8 DEF ClosureOK
<1>10. ~c.on => ClosureOK(d, k)
  BY <1>5, <1>6 DEF ClosureOK
<1>11. QED
  BY <1>5, <1>6, <1>9, <1>10

\* Closure c after one of its timers has fired, and after socket s was opened.
Fired(c, c2) == \/ c.debounce /\ c2 = [c EXCEPT !.debounce = FALSE]
                \/ c.timers > 0 /\ c2 = [c EXCEPT !.timers = @ - 1]
Holding(c, s) == [c EXCEPT !.ws = s]

LEMMA ConnectedKeeps ==
  ASSUME NEW c \in Closure, NEW k \in Nat, NEW s \in Sockets, ClosureOK(c, k), c.on,
         NEW c2, Fired(c, c2), NEW d, d = Holding(c2, s)
  PROVE  d \in Closure /\ d.on /\ d.page = c.page /\ ClosureOK(d, k + 1)
<1>1. c.timers \in Nat /\ c.debounce \in BOOLEAN
  BY DEF Closure
<1>2. PICK t, b : /\ t = IF c.debounce /\ c2 = [c EXCEPT !.debounce = FALSE]
                         THEN c.timers ELSE c.timers - 1
                  /\ b = IF c.debounce /\ c2 = [c EXCEPT !.debounce = FALSE]
                         THEN FALSE ELSE c.debounce
  OBVIOUS
<1>3. /\ t \in Nat /\ b \in BOOLEAN
      /\ t + One(b) + 1 = c.timers + One(c.debounce)
  <2>1. CASE c.debounce /\ c2 = [c EXCEPT !.debounce = FALSE]
    <3>1. t = c.timers /\ b = FALSE
      BY <1>2, <2>1
    <3>2. One(b) = 0 /\ One(c.debounce) = 1
      BY <2>1, <3>1 DEF One
    <3>3. b \in BOOLEAN
      BY <1>1, <3>1
    <3>4. t \in Nat /\ t + One(b) + 1 = c.timers + One(c.debounce)
      <4>1. c.timers \in Nat
        BY <1>1
      <4>2. PICK m, n, o : m = c.timers /\ n = One(b) /\ o = One(c.debounce)
        OBVIOUS
      <4>3. QED
        BY <3>1, <3>2, <4>1, <4>2
    <3>5. QED
      BY <3>3, <3>4
  <2>2. CASE ~(c.debounce /\ c2 = [c EXCEPT !.debounce = FALSE])
    <3>1. t = c.timers - 1 /\ b = c.debounce /\ c.timers > 0
      BY <1>2, <2>2 DEF Fired
    <3>2. One(b) = One(c.debounce) /\ One(c.debounce) \in {0, 1}
      BY <3>1 DEF One
    <3>3. b \in BOOLEAN
      BY <1>1, <3>1
    <3>4. t \in Nat /\ t + One(b) + 1 = c.timers + One(c.debounce)
      <4>1. c.timers \in Nat
        BY <1>1
      <4>2. PICK m, n, o : m = c.timers /\ n = One(b) /\ o = One(c.debounce)
        OBVIOUS
      <4>3. QED
        BY <3>1, <3>2, <4>1, <4>2
    <3>5. QED
      BY <3>3, <3>4
  <2>3. QED
    BY <2>1, <2>2
<1>4. /\ c2 \in Closure /\ c2.timers = t /\ c2.debounce = b /\ c2.on = c.on
      /\ c2.page = c.page /\ c2.armed = c.armed
  <2>1. CASE c.debounce /\ c2 = [c EXCEPT !.debounce = FALSE]
    BY <1>2, <2>1 DEF Closure
  <2>2. CASE ~(c.debounce /\ c2 = [c EXCEPT !.debounce = FALSE])
    <3>1. c2 = [c EXCEPT !.timers = t] /\ b = c.debounce
      BY <1>2, <2>2 DEF Fired
    <3>2. QED
      BY <1>3, <3>1 DEF Closure
  <2>3. QED
    BY <2>1, <2>2
<1>5. /\ d \in Closure /\ d.timers = t /\ d.debounce = b /\ d.on = c.on
      /\ d.page = c.page /\ d.armed = c.armed
  BY <1>4 DEF Holding, Closure
<1>6. One(b) \in {0, 1} /\ One(c.debounce) \in {0, 1}
  BY DEF One
<1>7. Chains(d, k + 1) = Chains(c, k) /\ k + 1 > 0
  BY <1>1, <1>3, <1>5, <1>6 DEF Chains
<1>8. QED
  BY <1>5, <1>7 DEF ClosureOK

LEMMA ResetKeeps ==
  ASSUME NEW c \in Closure, NEW k \in Nat, k > 0, ClosureOK(c, k),
         NEW d, d = [c EXCEPT !.attempt = 0]
  PROVE  d \in Closure /\ d.on = c.on /\ d.page = c.page /\ ClosureOK(d, k)
<1>1. 0 \in 0 .. MaxAttempts
  BY LiveAssumption
<1>2. /\ d \in Closure /\ d.on = c.on /\ d.page = c.page /\ d.timers = c.timers
      /\ d.debounce = c.debounce /\ d.armed = c.armed
  BY <1>1 DEF Closure
<1>3. Chains(d, k) = Chains(c, k)
  BY <1>2 DEF Chains
<1>4. QED
  BY <1>2, <1>3 DEF ClosureOK

NetTypes ==
  /\ view \in Live \cup {"other"} /\ cur \in Effects
  /\ eff \in [Effects -> Closure] /\ sock \in [Sockets -> Socket] /\ conn \in [Sockets -> Conn]
  /\ status \in {"connecting", "connected", "disconnected"}
  /\ keys \in 0 .. MaxKeys /\ faults \in 0 .. MaxFaults

\* Mount e with closure c and sockets S, when n is the latest mount.
MountOK(e, c, S, n) ==
  /\ IsFiniteSet(S)
  /\ c.on => e <= n
  /\ ClosureOK(c, Cardinality(S))

MountsOK == \A e \in Effects : MountOK(e, eff[e], Owned(sock, e), cur)

\* No socket belongs to a mount still to come.
OwnersPast == \A s \in Sockets : sock[s].state # "closed" => sock[s].owner <= cur

\* The strengthening for the sockets.
NetInv == NetTypes /\ MountsOK /\ OwnersPast /\ ConnectedIsTrue

\* A step of mount e.
LEMMA OneMountKeeps ==
  ASSUME MountsOK, NEW e \in Effects, NEW d, eff \in [Effects -> Closure],
         eff' = [eff EXCEPT ![e] = d], cur' = cur,
         \A f \in Effects \ {e} : Owned(sock', f) = Owned(sock, f),
         MountOK(e, d, Owned(sock', e), cur)
  PROVE  MountsOK'
<1>1. eff'[e] = d /\ \A f \in Effects \ {e} : eff'[f] = eff[f]
  OBVIOUS
<1>2. \A f \in Effects \ {e} : MountOK(f, eff'[f], Owned(sock', f), cur')
  BY <1>1 DEF MountsOK
<1>3. MountOK(e, eff'[e], Owned(sock', e), cur')
  BY <1>1
<1>4. QED
  BY <1>2, <1>3 DEF MountsOK

\* The dot stays true if the sockets of list pages that have not ended stay so.
LEMMA DotKeeps ==
  ASSUME ConnectedIsTrue,
         \A s \in Sockets :
           sock[s].state \in {"open", "closing"} /\ eff[sock[s].owner].page # "detail"
             => /\ sock'[s].state \in {"open", "closing"}
                /\ eff'[sock'[s].owner].page # "detail",
         status' = status \/ status' # "connected"
  PROVE  ConnectedIsTrue'
BY DEF ConnectedIsTrue

LEMMA ConnectStep ==
  ASSUME NetInv, NEW e \in Effects, NEW c2, eff[e].on,
         Fired(eff[e], c2), Connect(e, c2)
  PROVE  NetInv'
<1>1. PICK s : s = CHOOSE x \in Sockets : Free(x)
  OBVIOUS
<1>2. s \in Sockets /\ sock[s].state = "closed"
  BY <1>1 DEF Connect, Free
<1>3. PICK k : k = [state |-> "connecting", owner |-> e, err |-> FALSE]
  OBVIOUS
<1>4. k \in Socket /\ k.state = "connecting" /\ k.owner = e
  BY <1>3 DEF Socket
<1>5. PICK d : d = Holding(c2, s)
  OBVIOUS
<1>6. /\ sock' = [sock EXCEPT ![s] = k] /\ eff' = [eff EXCEPT ![e] = d]
      /\ UNCHANGED <<view, cur, conn, keys, faults>> /\ SetStatus(e, "connecting")
  BY <1>1, <1>3, <1>5 DEF Connect, Holding, dataVars
<1>7. /\ NetTypes /\ eff \in [Effects -> Closure] /\ sock \in [Sockets -> Socket]
      /\ eff[e] \in Closure
  BY DEF NetInv, NetTypes
<1>8. MountOK(e, eff[e], Owned(sock, e), cur) /\ MountsOK
  BY DEF NetInv, MountsOK
<1>9. PICK n : n = Cardinality(Owned(sock, e))
  OBVIOUS
<1>10. n \in Nat /\ ClosureOK(eff[e], n) /\ IsFiniteSet(Owned(sock, e)) /\ e <= cur
  BY <1>8, <1>9, FS_CardinalityType DEF MountOK
<1>11. Opened(sock, sock', s, e)
  BY <1>2, <1>4, <1>6, <1>7 DEF Opened
<1>12. /\ Owned(sock', e) = Owned(sock, e) \cup {s} /\ s \notin Owned(sock, e)
       /\ \A f \in Effects \ {e} : Owned(sock', f) = Owned(sock, f)
  <2>1. Owned(sock', e) = Owned(sock, e) \cup {s} /\ s \notin Owned(sock, e)
    BY <1>2, <1>11, OwnedAdd
  <2>2. ASSUME NEW f \in Effects \ {e} PROVE Owned(sock', f) = Owned(sock, f)
    BY <1>2, <1>11, OwnedAdd
  <2>3. QED
    BY <2>1, <2>2
<1>13. IsFiniteSet(Owned(sock', e)) /\ Cardinality(Owned(sock', e)) = n + 1
  BY <1>9, <1>10, <1>12, FS_AddElement
<1>14. PICK c : c = eff[e]
  OBVIOUS
<1>15. d \in Closure /\ d.on /\ d.page = eff[e].page /\ ClosureOK(d, n + 1)
  <2>1. /\ c \in Closure /\ ClosureOK(c, n) /\ c.on /\ Fired(c, c2)
    BY <1>7, <1>10, <1>14
  <2>2. d \in Closure /\ d.on /\ d.page = c.page /\ ClosureOK(d, n + 1)
    BY <1>2, <1>5, <1>10, <2>1, ConnectedKeeps
  <2>3. QED
    BY <1>14, <2>2
<1>16. MountOK(e, d, Owned(sock', e), cur)
  BY <1>10, <1>13, <1>15 DEF MountOK
<1>17. MountsOK'
  BY <1>6, <1>7, <1>8, <1>12, <1>16, OneMountKeeps
<1>18. status' = status \/ status' = "connecting"
  BY <1>6 DEF SetStatus
<1>19. NetTypes'
  BY <1>4, <1>6, <1>7, <1>15, <1>18 DEF NetTypes
<1>20. OwnersPast'
  BY <1>4, <1>6, <1>7, <1>10 DEF NetInv, OwnersPast
<1>21. \A f \in Effects : eff'[f].page = eff[f].page
  BY <1>6, <1>7, <1>15
<1>22. \A t \in Sockets : t # s => sock'[t] = sock[t] /\ sock[t].owner \in Effects
  BY <1>6, <1>7 DEF Socket
<1>23. \A t \in Sockets :
         sock[t].state \in {"open", "closing"} /\ eff[sock[t].owner].page # "detail"
           => /\ sock'[t].state \in {"open", "closing"}
              /\ eff'[sock'[t].owner].page # "detail"
  BY <1>2, <1>21, <1>22
<1>24. ConnectedIsTrue'
  BY <1>18, <1>23, DotKeeps DEF NetInv
<1>25. QED
  BY <1>17, <1>19, <1>20, <1>24 DEF NetInv

\* A step that only moves sockets on keeps the closures in order.
LEMMA OnwardKeeps ==
  ASSUME MountsOK, OwnersPast, Onward(sock, sock'), UNCHANGED <<eff, cur>>
  PROVE  MountsOK' /\ OwnersPast'
<1>1. \A f \in Effects : Owned(sock', f) = Owned(sock, f)
  BY OwnedSame
<1>2. MountsOK'
  BY <1>1 DEF MountsOK
<1>3. OwnersPast'
  BY DEF OwnersPast, Onward
<1>4. QED
  BY <1>2, <1>3

LEMMA OpensStep ==
  ASSUME NetInv, NEW s \in Sockets, Opens(s)
  PROVE  NetInv'
<1>1. PICK e : e = sock[s].owner
  OBVIOUS
<1>2. PICK c : c = eff[e]
  OBVIOUS
<1>3. PICK d : d = [c EXCEPT !.attempt = 0]
  OBVIOUS
<1>4. /\ NetTypes /\ MountsOK /\ OwnersPast /\ ConnectedIsTrue
      /\ eff \in [Effects -> Closure] /\ sock \in [Sockets -> Socket]
  BY DEF NetInv, NetTypes
<1>5. /\ sock[s].state = "connecting" /\ sock' = [sock EXCEPT ![s].state = "open"]
      /\ eff' = [eff EXCEPT ![e] = d] /\ SetStatus(e, "connected")
      /\ UNCHANGED <<view, cur, keys, faults>> /\ conn' = Subscribe(s)
  BY <1>1, <1>2, <1>3 DEF Opens, dataVars
<1>6. e \in Effects /\ sock[s] \in Socket
  BY <1>1, <1>4 DEF Socket
<1>7. c \in Closure
  BY <1>2, <1>4, <1>6
<1>8. /\ sock' \in [Sockets -> Socket] /\ sock'[s].owner = e /\ sock'[s].state = "open"
      /\ \A t \in Sockets \ {s} : sock'[t] = sock[t]
  BY <1>1, <1>4, <1>5, <1>6 DEF Socket
<1>9. Onward(sock, sock')
  <2> SUFFICES ASSUME NEW t \in Sockets
               PROVE  /\ sock'[t].owner = sock[t].owner
                      /\ sock'[t].state = "closed" <=> sock[t].state = "closed"
                      /\ sock[t].state \in {"open", "closing"}
                           => sock'[t].state \in {"open", "closing"}
    BY DEF Onward
  <2>1. CASE t = s
    BY <1>1, <1>5, <1>8, <2>1
  <2>2. CASE t # s
    BY <1>8, <2>2
  <2>3. QED
    BY <2>1, <2>2
<1>10. \A f \in Effects : Owned(sock', f) = Owned(sock, f)
  BY <1>9, OwnedSame
<1>11. PICK n : n = Cardinality(Owned(sock, e))
  OBVIOUS
<1>12. IsFiniteSet(Owned(sock, e)) /\ (c.on => e <= cur) /\ ClosureOK(c, n)
  BY <1>2, <1>4, <1>6, <1>11 DEF MountsOK, MountOK
<1>13. n \in Nat /\ n > 0
  <2>1. s \in Owned(sock, e)
    BY <1>1, <1>5 DEF Owned
  <2>2. n \in Nat /\ n # 0
    BY <1>11, <1>12, <2>1, FS_CardinalityType, FS_EmptySet
  <2>3. QED
    BY <2>2
<1>14. d \in Closure /\ d.on = c.on /\ d.page = c.page /\ ClosureOK(d, n)
  BY <1>3, <1>7, <1>12, <1>13, ResetKeeps
<1>15. MountOK(e, d, Owned(sock', e), cur)
  BY <1>6, <1>10, <1>11, <1>12, <1>14 DEF MountOK
<1>16. MountsOK'
  BY <1>4, <1>5, <1>6, <1>10, <1>15, OneMountKeeps
<1>17. OwnersPast'
  BY <1>4, <1>5, <1>9 DEF OwnersPast, Onward
<1>18. \A f \in Effects : eff'[f].page = eff[f].page
  BY <1>2, <1>4, <1>5, <1>14
<1>19. NetTypes'
  <2>1. conn' \in [Sockets -> Conn]
    BY <1>4, <1>5 DEF NetTypes, Subscribe, Conn
  <2>2. QED
    BY <1>4, <1>5, <1>8, <1>14, <2>1 DEF NetTypes, SetStatus
<1>20. ConnectedIsTrue'
  <2>1. CASE c.page = "detail"
    <3>1. status' = status
      BY <1>2, <1>5, <2>1 DEF SetStatus
    <3>2. \A t \in Sockets : sock[t].owner \in Effects
      BY <1>4 DEF Socket
    <3>3. \A t \in Sockets :
            sock[t].state \in {"open", "closing"} /\ eff[sock[t].owner].page # "detail"
              => /\ sock'[t].state \in {"open", "closing"}
                 /\ eff'[sock'[t].owner].page # "detail"
      BY <1>9, <1>18, <3>2 DEF Onward
    <3>4. QED
      BY <1>4, <3>1, <3>3, DotKeeps
  <2>2. CASE c.page # "detail"
    <3>1. eff'[sock'[s].owner].page # "detail"
      BY <1>2, <1>6, <1>8, <1>18, <2>2
    <3>2. QED
      BY <1>8, <3>1 DEF ConnectedIsTrue
  <2>3. QED
    BY <2>1, <2>2
<1>21. QED
  BY <1>16, <1>17, <1>19, <1>20 DEF NetInv

LEMMA DiesStep ==
  ASSUME NetInv, NEW s \in Sockets, NEW err \in BOOLEAN, Dies(s, err),
         sock[s].state # "closed", faults' \in 0 .. MaxFaults
  PROVE  NetInv'
<1>1. PICK e : e = sock[s].owner
  OBVIOUS
<1>2. PICK c : c = eff[e]
  OBVIOUS
<1>3. PICK d : d = Bereft(c, err, s)
  OBVIOUS
<1>4. /\ NetTypes /\ MountsOK /\ OwnersPast /\ ConnectedIsTrue
      /\ eff \in [Effects -> Closure] /\ sock \in [Sockets -> Socket]
      /\ conn \in [Sockets -> Conn]
  BY DEF NetInv, NetTypes
<1>5. /\ eff' = [eff EXCEPT ![e] = d] /\ conn' = [conn EXCEPT ![s] = NewConn]
      /\ SetStatus(e, "disconnected") /\ UNCHANGED <<view, cur, keys>>
  BY <1>1, <1>2, <1>3 DEF Dies, Bereft, Disconnected, dataVars
<1>6. e \in Effects /\ sock[s] \in Socket
  BY <1>1, <1>4 DEF Socket
<1>7. c \in Closure
  BY <1>2, <1>4, <1>6
<1>8. /\ sock' \in [Sockets -> Socket] /\ sock'[s] = Ended
      /\ \A t \in Sockets \ {s} : sock'[t] = sock[t] \/ sock'[t] = Closing(sock[t])
  <2>1. PICK after : after = [sock EXCEPT ![s] = Ended]
    OBVIOUS
  <2>2. Ended \in Socket
    BY LiveAssumption DEF Ended, Socket, Effects
  <2>3. /\ after \in [Sockets -> Socket] /\ after[s] = Ended
        /\ \A t \in Sockets \ {s} : after[t] = sock[t]
    BY <1>4, <2>1, <2>2
  <2>4. CASE err /\ c.ws \notin {s, None}
    <3>1. PICK w : w = c.ws
      OBVIOUS
    <3>2. w \in Sockets \ {s}
      BY <1>7, <2>4, <3>1 DEF Closure
    <3>3. sock' = [after EXCEPT ![w] = Closing(@)]
      BY <1>1, <1>2, <2>1, <2>4, <3>1 DEF Dies
    <3>4. Closing(after[w]) \in Socket
      BY <2>3, <3>2, ClosingFields
    <3>5. QED
      BY <2>3, <3>2, <3>3, <3>4
  <2>5. CASE ~(err /\ c.ws \notin {s, None})
    <3>1. sock' = after
      BY <1>1, <1>2, <2>1, <2>5 DEF Dies
    <3>2. QED
      BY <2>3, <3>1
  <2>6. QED
    BY <2>4, <2>5
<1>9. \A t \in Sockets \ {s} :
         /\ sock'[t].owner = sock[t].owner
         /\ sock'[t].state = "closed" <=> sock[t].state = "closed"
         /\ sock[t].state \in {"open", "closing"} => sock'[t].state \in {"open", "closing"}
  BY <1>4, <1>8, ClosingFields
<1>10. sock'[s].state = "closed"
  BY <1>8 DEF Ended
<1>11. Dropped(sock, sock', s, e)
  BY <1>1, <1>9, <1>10 DEF Dropped
<1>12. /\ Owned(sock', e) = Owned(sock, e) \ {s} /\ s \in Owned(sock, e)
       /\ \A f \in Effects \ {e} : Owned(sock', f) = Owned(sock, f)
  <2>1. Owned(sock', e) = Owned(sock, e) \ {s} /\ s \in Owned(sock, e)
    BY <1>6, <1>11, OwnedDrop
  <2>2. ASSUME NEW f \in Effects \ {e} PROVE Owned(sock', f) = Owned(sock, f)
    BY <1>6, <1>11, OwnedDrop
  <2>3. QED
    BY <2>1, <2>2
<1>13. /\ IsFiniteSet(Owned(sock, e)) /\ (c.on => e <= cur)
       /\ ClosureOK(c, Cardinality(Owned(sock, e)))
  BY <1>2, <1>4, <1>6 DEF MountsOK, MountOK
<1>14. PICK k : k = Cardinality(Owned(sock', e))
  OBVIOUS
<1>15. k \in Nat /\ IsFiniteSet(Owned(sock', e)) /\ ClosureOK(c, k + 1)
  <2>1. /\ IsFiniteSet(Owned(sock', e)) /\ k = Cardinality(Owned(sock, e)) - 1
        /\ Cardinality(Owned(sock, e)) \in Nat
    BY <1>12, <1>13, <1>14, FS_RemoveElement, FS_CardinalityType
  <2>2. k \in Nat
    BY <1>14, <2>1, FS_CardinalityType
  <2>3. k + 1 = Cardinality(Owned(sock, e))
    BY <2>1
  <2>4. QED
    BY <1>13, <2>1, <2>2, <2>3
<1>16. d \in Closure /\ d.on = c.on /\ d.page = c.page /\ ClosureOK(d, k)
  BY <1>3, <1>7, <1>15, BereftKeeps
<1>17. MountOK(e, d, Owned(sock', e), cur)
  BY <1>13, <1>14, <1>15, <1>16 DEF MountOK
<1>18. MountsOK'
  BY <1>4, <1>5, <1>6, <1>12, <1>17, OneMountKeeps
<1>19. OwnersPast'
  BY <1>4, <1>5, <1>9, <1>10 DEF OwnersPast
<1>20. NetTypes'
  <2>1. conn' \in [Sockets -> Conn]
    BY <1>4, <1>5, LiveAssumption DEF NewConn, Conn
  <2>2. eff' \in [Effects -> Closure]
    BY <1>4, <1>5, <1>16
  <2>3. status' \in {"connecting", "connected", "disconnected"}
    BY <1>4, <1>5 DEF SetStatus, NetTypes
  <2>4. QED
    BY <1>4, <1>5, <1>8, <2>1, <2>2, <2>3 DEF NetTypes
<1>21. ConnectedIsTrue'
  <2>1. CASE c.page = "detail"
    <3>1. status' = status
      BY <1>2, <1>5, <2>1 DEF SetStatus
    <3>2. \A t \in Sockets : sock[t].owner \in Effects
      BY <1>4 DEF Socket
    <3>3. \A f \in Effects : eff'[f].page = eff[f].page
      BY <1>2, <1>4, <1>5, <1>16
    <3>4. \A t \in Sockets :
            sock[t].state \in {"open", "closing"} /\ eff[sock[t].owner].page # "detail"
              => /\ sock'[t].state \in {"open", "closing"}
                 /\ eff'[sock'[t].owner].page # "detail"
      BY <1>1, <1>2, <1>9, <2>1, <3>2, <3>3
    <3>5. QED
      BY <1>4, <3>1, <3>4, DotKeeps
  <2>2. CASE c.page # "detail"
    <3>1. status' = "disconnected"
      BY <1>2, <1>5, <2>2 DEF SetStatus
    <3>2. QED
      BY <3>1 DEF ConnectedIsTrue
  <2>3. QED
    BY <2>1, <2>2
<1>22. QED
  BY <1>18, <1>19, <1>20, <1>21 DEF NetInv

\* A step that leaves the mounts alone, and the dot, and at most moves sockets on.
LEMMA QuietKeeps ==
  ASSUME NetInv, Onward(sock, sock'), UNCHANGED <<eff, cur, status>>, NetTypes'
  PROVE  NetInv'
<1>1. MountsOK /\ OwnersPast /\ ConnectedIsTrue
  BY DEF NetInv
<1>2. MountsOK' /\ OwnersPast'
  BY <1>1, OnwardKeeps
<1>3. ConnectedIsTrue'
  BY <1>1, DotKeeps DEF Onward
<1>4. QED
  BY <1>2, <1>3 DEF NetInv

LEMMA TimeoutStep ==
  ASSUME NetInv, NEW s \in Sockets, ConnectTimeout(s)
  PROVE  NetInv'
<1>1. PICK w : w = eff[sock[s].owner].ws
  OBVIOUS
<1>2. /\ faults < MaxFaults /\ faults' = faults + 1 /\ w # None
      /\ sock' = [sock EXCEPT ![w] = Closing(@)] /\ UNCHANGED <<view, cur, eff, conn, status, keys>>
  BY <1>1 DEF ConnectTimeout, dataVars
<1>3. NetTypes
  BY DEF NetInv
<1>4. w \in Sockets
  <2>1. sock[s].owner \in Effects
    BY <1>3 DEF NetTypes, Socket
  <2>2. eff[sock[s].owner].ws \in Sockets \cup {None}
    BY <1>3, <2>1 DEF NetTypes, Closure
  <2>3. QED
    BY <1>1, <1>2, <2>2
<1>5. sock \in [Sockets -> Socket] /\ Closing(sock[w]) \in Socket
  <2>1. sock \in [Sockets -> Socket]
    BY <1>3 DEF NetTypes
  <2>2. sock[w] \in Socket
    BY <1>4, <2>1
  <2>3. QED
    BY <2>1, <2>2, ClosingFields
<1>6. /\ sock' \in [Sockets -> Socket]
      /\ \A t \in Sockets : sock'[t] = sock[t] \/ sock'[t] = Closing(sock[t])
  BY <1>2, <1>4, <1>5
<1>7. Onward(sock, sock')
  BY <1>5, <1>6, ClosingOnward
<1>8. NetTypes'
  <2>1. faults' \in 0 .. MaxFaults
    BY <1>2, <1>3, LiveAssumption DEF NetTypes
  <2>2. QED
    BY <1>2, <1>3, <1>6, <2>1 DEF NetTypes
<1>9. QED
  BY <1>2, <1>7, <1>8, QuietKeeps

LEMMA ConnStep ==
  ASSUME NetInv, (\E s \in Sockets : Subscribed(s) \/ Write(s)) \/ Arrives
  PROVE  NetInv'
<1>1. UNCHANGED <<view, cur, eff, sock, status, keys, faults>>
  BY DEF Subscribed, Write, Arrives, dataVars
<1>2. NetTypes /\ conn \in [Sockets -> Conn]
  BY DEF NetInv, NetTypes
<1>3. conn' \in [Sockets -> Conn]
  <2>1. ASSUME NEW s \in Sockets, Subscribed(s) PROVE conn' \in [Sockets -> Conn]
    BY <1>2, <2>1 DEF Subscribed, Conn
  <2>2. ASSUME NEW s \in Sockets, Write(s) PROVE conn' \in [Sockets -> Conn]
    <3>1. PICK n : n = conn[s].queue - 1
      OBVIOUS
    <3>2. conn[s].queue \in 0 .. Buffer /\ conn[s].queue > 0 /\ Buffer \in Nat
      BY <1>2, <2>2, LiveAssumption DEF Write, Conn
    <3>3. n \in 0 .. Buffer
      BY <3>1, <3>2
    <3>4. conn' = [conn EXCEPT ![s] = [conn[s] EXCEPT !.queue = n]]
      BY <2>2, <3>1 DEF Write
    <3>5. [conn[s] EXCEPT !.queue = n] \in Conn
      BY <1>2, <3>3 DEF Conn
    <3>6. QED
      BY <1>2, <3>4, <3>5
  <2>3. CASE Arrives
    <3>1. ASSUME NEW s \in Sockets PROVE conn'[s] \in Conn
      <4>1. PICK n : n = Lesser(conn[s].queue + 1, Buffer)
        OBVIOUS
      <4>2. conn[s].queue \in 0 .. Buffer /\ Buffer \in Nat /\ conn[s] \in Conn
        BY <1>2, LiveAssumption DEF Conn
      <4>3. n \in 0 .. Buffer
        BY <4>1, <4>2 DEF Lesser
      <4>4. conn'[s] = conn[s] \/ conn'[s] = [conn[s] EXCEPT !.queue = n]
        BY <2>3, <4>1 DEF Arrives
      <4>5. [conn[s] EXCEPT !.queue = n] \in Conn
        BY <4>2, <4>3 DEF Conn
      <4>6. QED
        BY <4>2, <4>4, <4>5
    <3>2. PICK g : conn' = [s \in Sockets |-> g[s]]
      <4>1. conn' = [s \in Sockets |-> IF conn[s].topic = "held"
                                       THEN [conn[s] EXCEPT !.queue = Lesser(@ + 1, Buffer)]
                                       ELSE conn[s]]
        BY <2>3 DEF Arrives
      <4>2. conn' = [s \in Sockets |-> conn'[s]]
        BY <4>1
      <4>3. QED
        BY <4>2
    <3>3. QED
      BY <3>1, <3>2
  <2>4. QED
    BY <2>1, <2>2, <2>3
<1>4. NetTypes'
  BY <1>1, <1>2, <1>3 DEF NetTypes
<1>5. Onward(sock, sock')
  BY <1>1 DEF Onward
<1>6. QED
  BY <1>1, <1>4, <1>5, QuietKeeps

LEMMA PagesStep ==
  ASSUME NetInv, \/ \E p \in Live : ChangeKey(p) \/ ServerAnswers(p) \/ AnswerArrives(p) \/ RequestFails(p)
                 \/ Poll \/ Retry \/ LoadMore \/ UNCHANGED vars
  PROVE  NetInv'
<1>1. UNCHANGED <<view, cur, eff, sock, conn, status>>
  BY DEF ChangeKey, ServerAnswers, AnswerArrives, RequestFails, Poll, Retry, LoadMore, vars, netVars
<1>2. NetTypes
  BY DEF NetInv
<1>3. /\ keys' \in 0 .. MaxKeys
      /\ faults' \in 0 .. MaxFaults
  <2>1. keys \in 0 .. MaxKeys /\ faults \in 0 .. MaxFaults /\ MaxKeys \in Nat /\ MaxFaults \in Nat
    BY <1>2, LiveAssumption DEF NetTypes
  <2>2. keys' = keys \/ (keys < MaxKeys /\ keys' = keys + 1)
    BY DEF ChangeKey, ServerAnswers, AnswerArrives, RequestFails, Poll, Retry, LoadMore, vars, dataVars
  <2>3. faults' = faults \/ (faults < MaxFaults /\ faults' = faults + 1)
    BY DEF ChangeKey, ServerAnswers, AnswerArrives, RequestFails, Poll, Retry, LoadMore, vars
  <2>4. QED
    BY <2>1, <2>2, <2>3
<1>4. NetTypes'
  BY <1>1, <1>2, <1>3 DEF NetTypes
<1>5. Onward(sock, sock')
  BY <1>1 DEF Onward
<1>6. QED
  BY <1>1, <1>4, <1>5, QuietKeeps

\* Leaving a page closes its socket, if that is open; the next mount has none yet.
LEMMA NavigateStep ==
  ASSUME NetInv, NEW p \in Live \cup {"other"}, NEW stale \in BOOLEAN, Navigate(p, stale)
  PROVE  NetInv'
<1>1. PICK c : c = eff[cur]
  OBVIOUS
<1>2. PICK d : d = Unmounted(c)
  OBVIOUS
<1>3. PICK left : left = [eff EXCEPT ![cur] = d]
  OBVIOUS
<1>4. /\ p \in Live => cur < Mounts
      /\ view' = p /\ sock' = Closed(c) /\ UNCHANGED <<conn, keys, faults>>
      /\ cur' = IF p \in Live THEN cur + 1 ELSE cur
      /\ eff' = IF p \in Live THEN [left EXCEPT ![cur + 1] = Mounted(p)] ELSE left
      /\ IF c.on THEN SetStatus(cur, "disconnected") ELSE status' = status
  BY <1>1, <1>2, <1>3 DEF Navigate
<1>5. /\ NetTypes /\ MountsOK /\ OwnersPast /\ ConnectedIsTrue
      /\ eff \in [Effects -> Closure] /\ sock \in [Sockets -> Socket] /\ cur \in Effects
  BY DEF NetInv, NetTypes
<1>6. c \in Closure
  BY <1>1, <1>5
<1>7. d \in Closure /\ d.on = FALSE /\ d.page = c.page
  <2>1. c.page \in Live /\ c.ws \in Sockets \cup {None} /\ 0 \in 0 .. MaxAttempts /\ 0 \in Nat
    BY <1>6, LiveAssumption DEF Closure
  <2>2. QED
    BY <1>2, <2>1 DEF Unmounted, Mounted, Closure
<1>8. /\ left \in [Effects -> Closure] /\ left[cur] = d
      /\ \A f \in Effects \ {cur} : left[f] = eff[f]
  BY <1>3, <1>5, <1>7
<1>9. /\ sock' \in [Sockets -> Socket]
      /\ \A t \in Sockets : sock'[t] = sock[t] \/ sock'[t] = Closing(sock[t])
  <2>1. CASE c.on /\ c.ws # None /\ sock[c.ws].state = "open"
    <3>1. PICK w : w = c.ws
      OBVIOUS
    <3>2. w \in Sockets
      BY <1>6, <2>1, <3>1 DEF Closure
    <3>3. sock' = [sock EXCEPT ![w] = Closing(@)]
      BY <1>4, <2>1, <3>1 DEF Closed
    <3>4. Closing(sock[w]) \in Socket
      BY <1>5, <3>2, ClosingFields
    <3>5. QED
      BY <1>5, <3>2, <3>3, <3>4
  <2>2. CASE ~(c.on /\ c.ws # None /\ sock[c.ws].state = "open")
    <3>1. sock' = sock
      BY <1>4, <2>2 DEF Closed
    <3>2. QED
      BY <1>5, <3>1
  <2>3. QED
    BY <2>1, <2>2
<1>10. Onward(sock, sock')
  BY <1>5, <1>9, ClosingOnward
<1>11. \A f \in Effects : Owned(sock', f) = Owned(sock, f)
  BY <1>10, OwnedSame
<1>12. cur \in Nat /\ Effects \subseteq Nat
  BY <1>5 DEF Effects
<1>13. cur <= cur' /\ cur' \in Effects
  BY <1>4, <1>5, <1>12, LiveAssumption DEF Effects
<1>14. \A f \in Effects : MountOK(f, left[f], Owned(sock', f), cur')
  <2> SUFFICES ASSUME NEW f \in Effects PROVE MountOK(f, left[f], Owned(sock', f), cur')
    OBVIOUS
  <2>1. MountOK(f, eff[f], Owned(sock', f), cur)
    BY <1>5, <1>11 DEF MountsOK
  <2>2. CASE f = cur
    <3>1. left[f] = d /\ IsFiniteSet(Owned(sock', f))
      BY <1>8, <2>1, <2>2 DEF MountOK
    <3>2. QED
      BY <1>7, <3>1 DEF MountOK, ClosureOK
  <2>3. CASE f # cur
    <3>1. left[f] = eff[f]
      BY <1>8, <2>3
    <3>2. f \in Nat /\ cur' \in Nat
      BY <1>12, <1>13
    <3>3. f <= cur => f <= cur'
      BY <1>12, <1>13, <3>2
    <3>4. QED
      BY <2>1, <3>1, <3>3 DEF MountOK
  <2>4. QED
    BY <2>2, <2>3
<1>15. /\ eff' \in [Effects -> Closure] /\ MountsOK'
       /\ \A f \in Effects : f <= cur => eff'[f].page = eff[f].page
  <2>1. CASE p \in Live
    <3>1. PICK m : m = Mounted(p)
      OBVIOUS
    <3>2. PICK e : e = cur + 1
      OBVIOUS
    <3>3. e = cur' /\ e \in Effects /\ eff' = [left EXCEPT ![e] = m]
      BY <1>4, <1>13, <2>1, <3>1, <3>2
    <3>4. /\ m \in Closure /\ m.on /\ m.page = p /\ m.timers = 0 /\ m.debounce = TRUE
          /\ m.armed = FALSE
      <4>1. 0 \in 0 .. MaxAttempts /\ 0 \in Nat
        BY LiveAssumption
      <4>2. QED
        BY <2>1, <3>1, <4>1 DEF Mounted, Closure
    <3>5. Owned(sock', e) = {}
      <4>1. \A t \in Sockets : sock[t].owner \in Nat
        BY <1>5, <1>12 DEF Socket
      <4>2. \A t \in Sockets : sock[t].state # "closed" => sock[t].owner # e
        BY <1>5, <1>12, <3>2, <4>1 DEF OwnersPast
      <4>3. Owned(sock, e) = {}
        BY <4>2 DEF Owned
      <4>4. QED
        BY <1>11, <3>3, <4>3
    <3>6. MountOK(e, m, Owned(sock', e), cur')
      <4>1. IsFiniteSet(Owned(sock', e)) /\ Cardinality(Owned(sock', e)) = 0
        BY <3>5, FS_EmptySet
      <4>2. One(m.debounce) = 1
        BY <3>4 DEF One
      <4>3. Chains(m, 0) = 1
        BY <3>4, <4>2 DEF Chains
      <4>4. ClosureOK(m, 0)
        BY <3>4, <4>3 DEF ClosureOK
      <4>5. e <= cur'
        BY <1>12, <1>13, <3>3
      <4>6. QED
        BY <4>1, <4>4, <4>5 DEF MountOK
    <3>7. /\ eff' \in [Effects -> Closure] /\ eff'[e] = m
          /\ \A f \in Effects \ {e} : eff'[f] = left[f]
      BY <1>8, <3>3, <3>4
    <3>8. MountsOK'
      BY <1>14, <3>6, <3>7 DEF MountsOK
    <3>9. \A f \in Effects : f <= cur => eff'[f].page = eff[f].page
      <4> SUFFICES ASSUME NEW f \in Effects, f <= cur PROVE eff'[f].page = eff[f].page
        OBVIOUS
      <4>1. f # e
        BY <1>12, <3>2
      <4>2. eff'[f] = left[f]
        BY <3>7, <4>1
      <4>3. QED
        BY <1>1, <1>7, <1>8, <4>2
    <3>10. QED
      BY <3>7, <3>8, <3>9
  <2>2. CASE p \notin Live
    <3>1. eff' = left
      BY <1>4, <2>2
    <3>2. MountsOK'
      BY <1>14, <3>1 DEF MountsOK
    <3>3. \A f \in Effects : eff'[f].page = eff[f].page
      BY <1>1, <1>7, <1>8, <3>1
    <3>4. QED
      BY <1>8, <3>1, <3>2, <3>3
  <2>3. QED
    BY <2>1, <2>2
<1>16. OwnersPast'
  <2> SUFFICES ASSUME NEW t \in Sockets, sock'[t].state # "closed" PROVE sock'[t].owner <= cur'
    BY DEF OwnersPast
  <2>1. sock'[t].owner = sock[t].owner /\ sock[t].state # "closed"
    BY <1>10 DEF Onward
  <2>2. sock[t].owner <= cur /\ sock[t].owner \in Effects
    BY <1>5, <2>1 DEF OwnersPast, Socket
  <2>3. cur' \in Nat /\ sock[t].owner \in Nat
    BY <1>12, <1>13, <2>2
  <2>4. QED
    BY <1>12, <1>13, <2>1, <2>2, <2>3
<1>17. status' = status \/ status' = "disconnected"
  BY <1>4 DEF SetStatus
<1>18. NetTypes'
  BY <1>4, <1>5, <1>9, <1>13, <1>15, <1>17 DEF NetTypes
<1>19. ConnectedIsTrue'
  <2> SUFFICES ASSUME NEW t \in Sockets, sock[t].state \in {"open", "closing"},
                      eff[sock[t].owner].page # "detail"
               PROVE  /\ sock'[t].state \in {"open", "closing"}
                      /\ eff'[sock'[t].owner].page # "detail"
    BY <1>5, <1>17, DotKeeps
  <2>1. sock[t].owner <= cur /\ sock[t].owner \in Effects
    BY <1>5 DEF OwnersPast, Socket
  <2>2. eff'[sock[t].owner].page = eff[sock[t].owner].page
    BY <1>15, <2>1
  <2>3. QED
    BY <1>10, <2>2 DEF Onward
<1>20. QED
  BY <1>15, <1>16, <1>18, <1>19 DEF NetInv

LEMMA NetStep == NetInv /\ [Next]_vars => NetInv'
<1> SUFFICES ASSUME NetInv, [Next]_vars PROVE NetInv'
  OBVIOUS
<1>1. ASSUME NEW e \in Effects, DebounceFires(e) \/ TimerFires(e) PROVE NetInv'
  <2>1. CASE DebounceFires(e)
    <3>1. PICK c2 : c2 = [eff[e] EXCEPT !.debounce = FALSE]
      OBVIOUS
    <3>2. eff[e].on /\ Fired(eff[e], c2) /\ Connect(e, c2)
      BY <2>1, <3>1 DEF DebounceFires, Fired
    <3>3. QED
      BY <3>2, ConnectStep
  <2>2. CASE TimerFires(e)
    <3>1. PICK c2 : c2 = [eff[e] EXCEPT !.timers = @ - 1]
      OBVIOUS
    <3>2. eff[e].on /\ Fired(eff[e], c2) /\ Connect(e, c2)
      BY <2>2, <3>1 DEF TimerFires, Fired
    <3>3. QED
      BY <3>2, ConnectStep
  <2>3. QED
    BY <1>1, <2>1, <2>2
<1>2. ASSUME NEW s \in Sockets, Opens(s) PROVE NetInv'
  BY <1>2, OpensStep
<1>3. ASSUME NEW s \in Sockets, CloseEvent(s) PROVE NetInv'
  <2>1. sock[s].state # "closed" /\ Dies(s, sock[s].err) /\ faults' \in 0 .. MaxFaults
    BY <1>3 DEF CloseEvent, NetInv, NetTypes
  <2>2. sock[s].err \in BOOLEAN
    BY DEF NetInv, NetTypes, Socket
  <2>3. QED
    BY <2>1, <2>2, DiesStep
<1>4. ASSUME NEW s \in Sockets, NEW err \in BOOLEAN, Breaks(s, err) PROVE NetInv'
  <2>1. sock[s].state # "closed" /\ Dies(s, err) /\ faults < MaxFaults /\ faults' = faults + 1
    BY <1>4 DEF Breaks
  <2>2. faults \in 0 .. MaxFaults
    BY DEF NetInv, NetTypes
  <2>3. faults' \in 0 .. MaxFaults
    BY <2>1, <2>2, LiveAssumption
  <2>4. QED
    BY <2>1, <2>3, DiesStep
<1>5. ASSUME NEW s \in Sockets, ConnectTimeout(s) PROVE NetInv'
  BY <1>5, TimeoutStep
<1>6. CASE (\E s \in Sockets : Subscribed(s) \/ Write(s)) \/ Arrives
  BY <1>6, ConnStep
<1>7. ASSUME NEW p \in Live \cup {"other"}, NEW stale \in BOOLEAN, Navigate(p, stale)
      PROVE  NetInv'
  BY <1>7, NavigateStep
<1>8. CASE \/ \E p \in Live : ChangeKey(p) \/ ServerAnswers(p) \/ AnswerArrives(p) \/ RequestFails(p)
           \/ Poll \/ Retry \/ LoadMore \/ UNCHANGED vars
  BY <1>8, PagesStep
<1>9. QED
  BY <1>1, <1>2, <1>3, <1>4, <1>5, <1>6, <1>7, <1>8 DEF Next

LEMMA NetInit == Init => NetInv
<1> SUFFICES ASSUME Init PROVE NetInv
  OBVIOUS
<1>1. /\ view \in Live /\ cur = 1 /\ keys = 0 /\ faults = 0 /\ status = "disconnected"
      /\ eff = [e \in Effects |-> [Mounted(view) EXCEPT !.on = (e = 1), !.debounce = (e = 1)]]
      /\ sock = [s \in Sockets |-> Ended] /\ conn = [s \in Sockets |-> NewConn]
  BY DEF Init
<1>2. 1 \in Effects /\ 1 <= 1 /\ 0 \in Nat /\ 0 \in 0 .. MaxAttempts
      /\ 0 \in 0 .. MaxKeys /\ 0 \in 0 .. MaxFaults /\ 0 \in 0 .. Buffer
  BY LiveAssumption DEF Effects
<1>3. \A e \in Effects : /\ eff[e] \in Closure /\ eff[e].timers = 0
                         /\ eff[e].on => e = 1 /\ eff[e].debounce = TRUE
  BY <1>1, <1>2 DEF Mounted, Closure
<1>4. eff \in [Effects -> Closure]
  BY <1>1, <1>3
<1>5. NewConn \in Conn /\ Ended \in Socket /\ Ended.state = "closed"
  BY <1>2 DEF NewConn, Conn, Ended, Socket
<1>6. NetTypes
  BY <1>1, <1>2, <1>4, <1>5 DEF NetTypes
<1>7. \A s \in Sockets : sock[s].state = "closed"
  BY <1>1, <1>5
<1>8. MountsOK
  <2> SUFFICES ASSUME NEW e \in Effects PROVE MountOK(e, eff[e], Owned(sock, e), cur)
    BY DEF MountsOK
  <2>1. Owned(sock, e) = {}
    BY <1>7 DEF Owned
  <2>2. IsFiniteSet(Owned(sock, e)) /\ Cardinality(Owned(sock, e)) = 0
    BY <2>1, FS_EmptySet
  <2>3. eff[e].on => e <= cur
    BY <1>1, <1>2, <1>3
  <2>4. ClosureOK(eff[e], 0)
    <3> SUFFICES ASSUME eff[e].on
                 PROVE  /\ Chains(eff[e], 0) <= 1 /\ Chains(eff[e], 0) \in Nat
                        /\ eff[e].debounce
      BY DEF ClosureOK
    <3>1. eff[e].timers = 0 /\ eff[e].debounce = TRUE
      BY <1>3
    <3>2. One(eff[e].debounce) = 1
      BY <3>1 DEF One
    <3>3. Chains(eff[e], 0) = 1
      BY <3>1, <3>2 DEF Chains
    <3>4. QED
      BY <3>1, <3>3
  <2>5. QED
    BY <2>2, <2>3, <2>4 DEF MountOK
<1>9. OwnersPast /\ ConnectedIsTrue
  BY <1>1, <1>7 DEF OwnersPast, ConnectedIsTrue
<1>10. QED
  BY <1>6, <1>8, <1>9 DEF NetInv

\* A mount never runs more than two reconnection chains, and never none while it has
\* attempts left, whatever order its sockets' events, its timers and the changes of page
\* come in; and the dot is green only over a socket that has not ended
\* (use-websocket.ts:40, :95, :101).
THEOREM SocketsAreSound == Spec => []SocketsSound
<1>1. NetInv /\ DataInv => SocketsSound
  <2> SUFFICES ASSUME NetInv, DataInv PROVE SocketsSound
    OBVIOUS
  <2>1. TypeOK
    BY DEF NetInv, NetTypes, DataInv, TypeOK
  <2>2. ASSUME NEW e \in Effects, eff[e].on
        PROVE  /\ eff[e].timers + One(eff[e].debounce) + Cardinality(Unclosed(e)) <= 2
               /\ \/ eff[e].debounce \/ eff[e].timers > 0
                  \/ Unclosed(e) # {}
                  \/ eff[e].attempt >= MaxAttempts
    <3>1. Unclosed(e) = Owned(sock, e)
      BY DEF Unclosed, Owned
    <3>2. MountOK(e, eff[e], Unclosed(e), cur)
      BY <3>1 DEF NetInv, MountsOK
    <3>3. /\ IsFiniteSet(Unclosed(e)) /\ ClosureOK(eff[e], Cardinality(Unclosed(e)))
          /\ Unclosed(e) = {} => Cardinality(Unclosed(e)) = 0
      BY <3>2, FS_EmptySet DEF MountOK
    <3>4. QED
      BY <2>2, <3>3 DEF ClosureOK, Chains
  <2>3. ChainsBounded /\ NeverSilentlyDead
    BY <2>2 DEF ChainsBounded, NeverSilentlyDead
  <2>4. QED
    BY <2>1, <2>3 DEF SocketsSound, NetInv
<1>2. NetInv /\ DataInv /\ [Next]_vars => NetInv' /\ DataInv'
  BY NetStep, DataStep DEF DataSafe
<1>3. QED
  BY <1>1, <1>2, NetInit, DataInit, PTL DEF Spec
=============================================================================

--------------------------- MODULE WebPagesProofs ---------------------------
(***************************************************************************)
(* Proofs about the pages of the web client, as MCWebPages puts them       *)
(* together: whichever page is looked at, its invariant holds, for every   *)
(* value of its constants.                                                 *)
(***************************************************************************)
EXTENDS MCWebPages, WellFoundedInduction, TLAPS

(***************************************************************************)
(* An entry of the cache: what each operation of WebQuery leaves in it     *)
(***************************************************************************)

\* A request keeps the data and their mark, and is on its way.
LEMMA SentFacts ==
  ASSUME NEW D, NEW q \in QueryOf(D)
  PROVE  /\ Sent(q) \in QueryOf(D)
         /\ Sent(q).data = q.data /\ Sent(q).fetch = "sent"
         /\ Sent(q).invalid = q.invalid /\ Sent(q).got = None
<1>1. (q.failed /\ q.data # None) \in BOOLEAN  BY Zenon
<1>. QED  BY <1>1 DEF Sent, QueryOf

LEMMA NewQueryType ==
  ASSUME NEW D PROVE NewQuery \in QueryOf(D)
BY DEF NewQuery, QueryOf

\* Mounting starts a request or does nothing, and leaves nothing at rest that has no data.
LEMMA ActivatedFacts ==
  ASSUME NEW D, NEW q \in QueryOf(D), NEW stale \in BOOLEAN
  PROVE  /\ Activated(q, stale) \in QueryOf(D)
         /\ Activated(q, stale).data = q.data
         /\ Activated(q, stale).invalid = q.invalid
         /\ Activated(q, stale).got \in {q.got, None}
         /\ Resting(Activated(q, stale)) => q.data # None
         /\ Activated(q, stale).fetch = "back" => Activated(q, stale) = q
BY SentFacts DEF Activated, Resting, QueryOf

\* The mark changes nothing else.
LEMMA MarkedFacts ==
  ASSUME NEW D, NEW q \in QueryOf(D)
  PROVE  LET m == [q EXCEPT !.invalid = TRUE]
         IN m \in QueryOf(D) /\ m.data = q.data /\ m.fetch = q.fetch /\ m.got = q.got /\ m.invalid
BY DEF QueryOf

\* Invalidating keeps the data, and what is at rest afterwards was so before.  What is not
\* a first load that goes on is marked, and asked for again if it is used.
LEMMA InvalidatedFacts ==
  ASSUME NEW D, NEW q \in QueryOf(D), NEW x \in BOOLEAN
  PROVE  /\ Invalidated(q, x) \in QueryOf(D)
         /\ Invalidated(q, x).data = q.data
         /\ Resting(Invalidated(q, x)) => Resting(q)
         /\ Resting(Invalidated(q, x)) => Invalidated(q, x).failed = q.failed
         /\ Invalidated(q, x).fetch = "back" =>
              q.fetch = "back" /\ Invalidated(q, x).got = q.got
         /\ Invalidated(q, x).got \in {q.got, None}
         /\ x /\ IsLoading(q) => Invalidated(q, x) = q
         /\ ~(x /\ IsLoading(q)) => Invalidated(q, x).invalid
         /\ x /\ ~IsLoading(q) => Invalidated(q, x).fetch = "sent"
<1>1. CASE ~x
  <2>1. Invalidated(q, x) = [q EXCEPT !.invalid = TRUE]  BY <1>1 DEF Invalidated
  <2>2. Invalidated(q, x).failed = q.failed  BY <2>1 DEF QueryOf
  <2>. QED  BY <1>1, <2>1, <2>2, MarkedFacts DEF Resting
<1>2. CASE x /\ IsLoading(q)
  <2>1. Invalidated(q, x) = q  BY <1>2 DEF Invalidated
  <2>. QED  BY <1>2, <2>1 DEF Resting
<1>3. CASE x /\ ~IsLoading(q)
  <2>1. Invalidated(q, x) = [Sent(q) EXCEPT !.invalid = TRUE]  BY <1>3 DEF Invalidated
  <2>2. /\ Sent(q) \in QueryOf(D) /\ Sent(q).data = q.data /\ Sent(q).fetch = "sent"
        /\ Sent(q).got = None
    BY SentFacts
  <2>3. /\ Invalidated(q, x) \in QueryOf(D)
        /\ Invalidated(q, x).data = q.data /\ Invalidated(q, x).fetch = "sent"
        /\ Invalidated(q, x).got = None /\ Invalidated(q, x).invalid
    BY <2>1, <2>2, MarkedFacts
  <2>. QED  BY <1>3, <2>3 DEF Resting
<1>. QED  BY <1>1, <1>2, <1>3

LEMMA AnswerFacts ==
  ASSUME NEW D, NEW q \in QueryOf(D), NEW d \in D
  PROVE  /\ Answered(q, d) \in QueryOf(D)
         /\ Answered(q, d).data = q.data /\ Answered(q, d).got = d
         /\ Answered(q, d).fetch = "back" /\ Answered(q, d).invalid = q.invalid
BY DEF Answered, QueryOf

LEMMA LoadedFacts ==
  ASSUME NEW D, NEW q \in QueryOf(D)
  PROVE  /\ Loaded(q) \in QueryOf(D) /\ Loaded(q).data = q.got /\ Loaded(q).fetch = "none"
BY DEF Loaded, QueryOf

LEMMA FailedFacts ==
  ASSUME NEW D, NEW q \in QueryOf(D)
  PROVE  /\ Failed(q) \in QueryOf(D) /\ Failed(q).data = q.data /\ Failed(q).fetch = "none"
         /\ Failed(q).failed /\ Failed(q).invalid = q.invalid
BY DEF Failed, QueryOf

LEMMA PutFacts ==
  ASSUME NEW D, NEW q \in QueryOf(D), NEW d \in D
  PROVE  /\ Put(q, d) \in QueryOf(D)
         /\ Put(q, d).data = d /\ Put(q, d).fetch = q.fetch /\ Put(q, d).got = q.got
BY DEF Put, QueryOf

\* The cache of the lists is this one.
LEMMA LCache ==
  /\ \A D : L!QueryOf(D) = QueryOf(D)
  /\ L!NewQuery = NewQuery
  /\ \A q : /\ L!Sent(q) = Sent(q) /\ L!Loaded(q) = Loaded(q) /\ L!Failed(q) = Failed(q)
            /\ L!Resting(q) = Resting(q) /\ L!IsLoading(q) = IsLoading(q)
            /\ L!IsError(q) = IsError(q)
  /\ \A q, x : /\ L!Activated(q, x) = Activated(q, x) /\ L!Invalidated(q, x) = Invalidated(q, x)
               /\ L!Answered(q, x) = Answered(q, x) /\ L!Put(q, x) = Put(q, x)
BY Zenon DEF L!QueryOf, QueryOf, L!NewQuery, NewQuery, L!Sent, Sent, L!Loaded, Loaded,
             L!Failed, Failed, L!Resting, Resting, L!IsLoading, IsLoading, L!IsError, IsError,
             L!Activated, Activated, L!Invalidated, Invalidated, L!Answered, Answered,
             L!Put, Put

\* The cache of the dialog is this one.
LEMMA PCache ==
  /\ \A D : P!QueryOf(D) = QueryOf(D)
  /\ P!NewQuery = NewQuery
  /\ \A q : /\ P!Sent(q) = Sent(q) /\ P!Loaded(q) = Loaded(q) /\ P!Failed(q) = Failed(q)
            /\ P!Resting(q) = Resting(q) /\ P!IsLoading(q) = IsLoading(q)
            /\ P!IsError(q) = IsError(q)
  /\ \A q, x : /\ P!Activated(q, x) = Activated(q, x) /\ P!Invalidated(q, x) = Invalidated(q, x)
               /\ P!Answered(q, x) = Answered(q, x) /\ P!Put(q, x) = Put(q, x)
BY Zenon DEF P!QueryOf, QueryOf, P!NewQuery, NewQuery, P!Sent, Sent, P!Loaded, Loaded,
             P!Failed, Failed, P!Resting, Resting, P!IsLoading, IsLoading, P!IsError, IsError,
             P!Activated, Activated, P!Invalidated, Invalidated, P!Answered, Answered,
             P!Put, Put

\* The cache of the support pages is this one.
LEMMA UCache ==
  /\ \A D : U!QueryOf(D) = QueryOf(D)
  /\ U!NewQuery = NewQuery
  /\ \A q : /\ U!Sent(q) = Sent(q) /\ U!Loaded(q) = Loaded(q) /\ U!Failed(q) = Failed(q)
            /\ U!Resting(q) = Resting(q) /\ U!IsLoading(q) = IsLoading(q)
            /\ U!IsError(q) = IsError(q)
  /\ \A q, x : /\ U!Activated(q, x) = Activated(q, x) /\ U!Invalidated(q, x) = Invalidated(q, x)
               /\ U!Answered(q, x) = Answered(q, x) /\ U!Put(q, x) = Put(q, x)
BY Zenon DEF U!QueryOf, QueryOf, U!NewQuery, NewQuery, U!Sent, Sent, U!Loaded, Loaded,
             U!Failed, Failed, U!Resting, Resting, U!IsLoading, IsLoading, U!IsError, IsError,
             U!Activated, Activated, U!Invalidated, Invalidated, U!Answered, Answered,
             U!Put, Put

\* The cache of the clusters is this one.
LEMMA FCache ==
  /\ \A D : F!QueryOf(D) = QueryOf(D)
  /\ F!NewQuery = NewQuery
  /\ \A q : /\ F!Sent(q) = Sent(q) /\ F!Loaded(q) = Loaded(q) /\ F!Failed(q) = Failed(q)
            /\ F!Resting(q) = Resting(q) /\ F!IsLoading(q) = IsLoading(q)
            /\ F!IsError(q) = IsError(q)
  /\ \A q, x : /\ F!Activated(q, x) = Activated(q, x) /\ F!Invalidated(q, x) = Invalidated(q, x)
               /\ F!Answered(q, x) = Answered(q, x) /\ F!Put(q, x) = Put(q, x)
BY Zenon DEF F!QueryOf, QueryOf, F!NewQuery, NewQuery, F!Sent, Sent, F!Loaded, Loaded,
             F!Failed, Failed, F!Resting, Resting, F!IsLoading, IsLoading, F!IsError, IsError,
             F!Activated, Activated, F!Invalidated, Invalidated, F!Answered, Answered,
             F!Put, Put


\* What an answer or a failure leaves was cached or had come back before.
LEMMA LoadedType ==
  ASSUME NEW D, NEW r \in QueryOf(D), NEW q \in {Loaded(r), Failed(r)}
  PROVE  q \in QueryOf(D) /\ q.data \in {r.data, r.got} /\ q.got = None /\ q.fetch = "none"
BY DEF Loaded, Failed, QueryOf

(***************************************************************************)
(* What an entry may hold                                                  *)
(***************************************************************************)

\* G is what the data may be that are not older than some write.  An entry is fresh if its
\* data are in G unless they are marked, and an answer that has come back is in G.
Fresh(q, G) ==
  /\ ~q.invalid /\ q.data # None => q.data \in G
  /\ q.fetch = "back" => q.got \in G

\* Every operation keeps an entry fresh, if what is served is in G.
LEMMA FreshFacts ==
  ASSUME NEW D, NEW q \in QueryOf(D), NEW G, Fresh(q, G)
  PROVE  /\ Fresh(Sent(q), G) /\ Fresh(Failed(q), G)
         /\ \A x \in BOOLEAN : Fresh(Invalidated(q, x), G) /\ Fresh(Activated(q, x), G)
         /\ q.fetch = "back" => Fresh(Loaded(q), G)
         /\ \A d \in D : d \in G => Fresh(Answered(q, d), G)
<1>1. Fresh(Sent(q), G)
  BY SentFacts DEF Fresh
<1>2. Fresh(Failed(q), G)
  <2>1. /\ Failed(q).data = q.data /\ Failed(q).fetch = "none" /\ Failed(q).invalid = q.invalid
    BY FailedFacts
  <2>2. QED
    BY <2>1 DEF Fresh
<1>3. ASSUME NEW x \in BOOLEAN PROVE Fresh(Invalidated(q, x), G)
  <2>1. CASE x /\ IsLoading(q)
    <3>1. Invalidated(q, x) = q
      BY <2>1 DEF Invalidated
    <3>2. QED
      BY <3>1 DEF Fresh
  <2>2. CASE ~(x /\ IsLoading(q))
    <3>1. /\ Invalidated(q, x).invalid
          /\ Invalidated(q, x).fetch = "back" => q.fetch = "back" /\ Invalidated(q, x).got = q.got
      BY <2>2, InvalidatedFacts
    <3>2. QED
      BY <3>1 DEF Fresh
  <2>3. QED
    BY <2>1, <2>2
<1>4. ASSUME NEW x \in BOOLEAN PROVE Fresh(Activated(q, x), G)
  <2>1. Activated(q, x) \in {q, Sent(q)}
    BY DEF Activated
  <2>2. QED
    BY <1>1, <2>1
<1>5. ASSUME q.fetch = "back" PROVE Fresh(Loaded(q), G)
  <2>1. Loaded(q).data = q.got /\ Loaded(q).fetch = "none"
    BY LoadedFacts
  <2>2. QED
    BY <1>5, <2>1 DEF Fresh
<1>6. ASSUME NEW d \in D, d \in G PROVE Fresh(Answered(q, d), G)
  <2>1. /\ Answered(q, d).data = q.data /\ Answered(q, d).got = d
        /\ Answered(q, d).invalid = q.invalid
    BY AnswerFacts
  <2>2. QED
    BY <1>6, <2>1 DEF Fresh
<1>7. QED
  BY <1>1, <1>2, <1>3, <1>4, <1>5, <1>6

\* An invalidation that reaches an entry leaves it fresh whatever was written: what it
\* holds is marked, and no answer is on its way.
LEMMA FreshWhenHeard ==
  ASSUME NEW D, NEW q \in QueryOf(D), NEW x \in BOOLEAN, NEW G,
         Resting(q) \/ (x /\ ~IsLoading(q))
  PROVE  Fresh(Invalidated(q, x), G)
<1>1. ~(x /\ IsLoading(q))
  BY DEF Resting, IsLoading
<1>2. Invalidated(q, x).invalid
  BY <1>1, InvalidatedFacts
<1>3. Invalidated(q, x).fetch # "back"
  <2>1. CASE x
    BY <1>1, <2>1, InvalidatedFacts
  <2>2. CASE ~x
    BY <2>2, InvalidatedFacts DEF Resting
  <2>3. QED
    BY <2>1, <2>2
<1>4. QED
  BY <1>2, <1>3 DEF Fresh

\* An entry that is new is fresh.
LEMMA FreshWhenNew ==
  ASSUME NEW G PROVE Fresh(NewQuery, G) /\ Fresh(Sent(NewQuery), G)
<1>1. NewQuery \in QueryOf({}) /\ NewQuery.data = None /\ NewQuery.fetch = "none"
  BY NewQueryType DEF NewQuery
<1>2. Fresh(NewQuery, G)
  BY <1>1 DEF Fresh
<1>3. QED
  BY <1>1, <1>2, FreshFacts

\* What is fresh stays so when more would be.
LEMMA FreshGrows ==
  ASSUME NEW q, NEW G, NEW H, G \subseteq H, Fresh(q, G) PROVE Fresh(q, H)
BY DEF Fresh

----------------------------------------------------------------------------
(***************************************************************************)
(* The settings forms: types                                               *)
(***************************************************************************)

LEMMA InitType == Init => TypeOK
<1> SUFFICES ASSUME Init PROVE TypeOK  OBVIOUS
<1>1. NewQuery \in QueryOf(Data) /\ Sent(NewQuery) \in QueryOf(Data)  BY NewQueryType, SentFacts
<1>2. query \in [Orgs -> QueryOf(Data)]  BY <1>1 DEF Init
<1>3. 0 \in Version  BY SettingsAssumption DEF Version
<1>4. settings \in [Orgs -> Data]  BY <1>3 DEF Init, Data
<1>5. form \in Form /\ save \in Save /\ acked \in [Orgs -> Version]
  BY <1>3 DEF Init, EmptyForm, Form, Save
<1>. QED  BY <1>2, <1>4, <1>5, SettingsAssumption DEF Init, TypeOK

\* Filling the form keeps its type.
LEMMA FilledType ==
  ASSUME NEW f \in Form, NEW o \in Orgs, NEW d \in Data \cup {None}
  PROVE  /\ Filled(f, o, d) \in Form
         /\ d # None => Filled(f, o, d).from = o
         /\ d = None => Filled(f, o, d) = f
BY DEF Filled, Form, Data

\* Storing settings, in an organization whose version has not reached its bound.
LEMMA StoredType ==
  ASSUME TypeOK, NEW o \in Orgs, NEW v \in Vals,
         settings[o].ver < MaxEvents + MaxEdits, Stored(o, v)
  PROVE  /\ settings' \in [Orgs -> Data]
         /\ settings[o].ver + 1 \in Version
<1>1. settings[o] \in Data /\ settings[o].ver \in Version  BY DEF TypeOK, Data
<1>2. settings[o].ver + 1 \in Version  BY <1>1, SettingsAssumption DEF Version
<1>3. [ver |-> settings[o].ver + 1, val |-> v] \in Data  BY <1>2 DEF Data
<1>4. settings' = [settings EXCEPT ![o] = [ver |-> settings[o].ver + 1, val |-> v]]  BY DEF Stored
<1>. QED  BY <1>2, <1>3, <1>4 DEF TypeOK

(***************************************************************************)
(* The settings forms: the invariant                                       *)
(***************************************************************************)

\* What is saved was typed or loaded, never the form's empty state.
Written == (form.dirty => form.val # None) /\ (save.st = "sent" => save.val # None)

AnswersHaveData == \A o \in Orgs : query[o].fetch = "back" => query[o].got # None

\* Settings that a visible form lacks are on their way, or could not be loaded.
FailedOrOnItsWay ==
  visible /\ query[org].data = None /\ Resting(query[org]) => query[org].failed

QueryInv == AnswersHaveData /\ FailedOrOnItsWay /\ FilledWhenLoaded
IInv == TypeOK /\ Written /\ QueryInv

LEMMA InitInv == Init => IInv
<1> SUFFICES ASSUME Init PROVE IInv  OBVIOUS
<1>1. TypeOK  BY InitType
<1>2. Written  BY DEF Init, EmptyForm, Written
<1>3. \A o \in Orgs : query[o].data = None /\ query[o].fetch # "back"
  BY DEF Init, NewQuery, Sent
<1>4. query[org].fetch = "sent"  BY DEF Init, NewQuery, Sent
<1>5. QueryInv
  BY <1>3, <1>4, <1>1 DEF TypeOK, QueryInv, AnswersHaveData, FailedOrOnItsWay, FilledWhenLoaded,
                          Resting
<1>. QED  BY <1>1, <1>2, <1>5 DEF IInv

\* A step that changes one entry of the cache, and not its data, keeps the invariant if
\* what it leaves at rest was so before, has failed, or has data.
LEMMA EntryStep ==
  ASSUME TypeOK, QueryInv, NEW o \in Orgs, NEW q \in QueryOf(Data),
         query' = [query EXCEPT ![o] = q], UNCHANGED <<visible, org, form>>,
         q.data = query[o].data, q.fetch = "back" => q.got # None,
         Resting(q) => \/ q.failed \/ q.data # None
                       \/ Resting(query[o]) /\ q.failed = query[o].failed
  PROVE  query' \in [Orgs -> QueryOf(Data)] /\ QueryInv'
<1>1. query' \in [Orgs -> QueryOf(Data)]  BY DEF TypeOK
<1>2. query'[o] = q /\ \A p \in Orgs \ {o} : query'[p] = query[p]  BY DEF TypeOK
<1>3. AnswersHaveData'  BY <1>2 DEF QueryInv, AnswersHaveData
<1>4. org \in Orgs /\ org' = org  BY DEF TypeOK
<1>5. FailedOrOnItsWay'
  BY <1>2, <1>4 DEF QueryInv, FailedOrOnItsWay, Resting
<1>6. FilledWhenLoaded'  BY <1>2, <1>4 DEF QueryInv, FilledWhenLoaded
<1>. QED  BY <1>1, <1>3, <1>5, <1>6 DEF QueryInv

\* Steps that leave the cache, the organization and the form's filling alone.
LEMMA QuietStep ==
  ASSUME QueryInv, UNCHANGED <<visible, org, query>>, form'.from = form.from
  PROVE  QueryInv'
BY DEF QueryInv, AnswersHaveData, FailedOrOnItsWay, FilledWhenLoaded, Resting

(***************************************************************************)
(* The form and the save                                                   *)
(***************************************************************************)

LEMMA FormSteps ==
  ASSUME IInv, Click \/ SaveSettles \/ \E v \in Vals : Edit(v)
  PROVE  IInv'
<1>. USE DEF IInv
<1>1. form \in Form /\ save \in Save /\ org \in Orgs  BY DEF TypeOK
<1>2. CASE Click
  <2>1. form' \in Form /\ form'.from = form.from /\ form'.dirty = form.dirty /\ form'.val = form.val
    BY <1>1, <1>2 DEF Click, Form
  <2>2. save' \in Save /\ save'.val = form.val /\ form.dirty
    BY <1>1, <1>2, SettingsAssumption DEF Click, CanSave, Save, Form, Version
  <2>3. TypeOK'  BY <1>2, <2>1, <2>2 DEF Click, TypeOK, bounds
  <2>4. Written'  BY <2>1, <2>2 DEF Written
  <2>5. QueryInv'  BY <1>2, <2>1, QuietStep DEF Click
  <2>. QED  BY <2>3, <2>4, <2>5
<1>3. CASE SaveSettles
  <2>1. (form.dirty /\ ~save.mine) \in BOOLEAN  BY Zenon
  <2>2. form' \in Form /\ form'.from = form.from /\ form'.val = form.val
    BY <1>1, <1>3, <2>1 DEF SaveSettles, Form
  <2>3. form'.dirty => form.dirty  BY <1>1, <1>3, <2>1 DEF SaveSettles, Form, Save
  <2>4. save' \in Save /\ save'.st = "idle"  BY <1>1, <1>3 DEF SaveSettles, Save
  <2>5. TypeOK'  BY <1>3, <2>2, <2>4 DEF SaveSettles, TypeOK, bounds
  <2>6. Written'  BY <2>2, <2>3, <2>4 DEF Written
  <2>7. QueryInv'  BY <1>3, <2>2, QuietStep DEF SaveSettles
  <2>. QED  BY <2>5, <2>6, <2>7
<1>4. CASE \E v \in Vals : Edit(v)
  <2>1. PICK v \in Vals : Edit(v)  BY <1>4
  <2>2. form' \in Form /\ form'.from = form.from /\ form'.val = v
    BY <1>1, <2>1 DEF Edit, Form
  <2>3. v # None  BY SettingsAssumption
  <2>4. edits' \in 0 .. MaxEdits
    <3>1. edits \in 0 .. MaxEdits  BY DEF TypeOK
    <3>2. edits < MaxEdits /\ edits' = edits + 1  BY <2>1 DEF Edit
    <3>. QED  BY <3>1, <3>2, SettingsAssumption
  <2>5. TypeOK'  BY <2>1, <2>2, <2>4 DEF Edit, TypeOK
  <2>6. Written'  BY <2>1, <2>2, <2>3 DEF Edit, Written
  <2>7. QueryInv'  BY <2>1, <2>2, QuietStep DEF Edit
  <2>. QED  BY <2>5, <2>6, <2>7
<1>. QED  BY <1>2, <1>3, <1>4

\* Processing stores settings, or refuses them.
LEMMA ServerSteps ==
  ASSUME IInv, ServeSave \/ SaveFails \/ \E o \in Orgs, v \in Vals : Elsewhere(o, v)
  PROVE  IInv'
<1>. USE DEF IInv
<1>1. form \in Form /\ save \in Save  BY DEF TypeOK
<1>2. CASE ServeSave
  <2>1. save.org \in Orgs /\ save.val \in Vals  BY <1>1, <1>2 DEF ServeSave, Written, Save
  <2>2. settings' \in [Orgs -> Data] /\ settings[save.org].ver + 1 \in Version
    BY <1>2, <2>1, StoredType DEF ServeSave
  <2>3. save' \in Save /\ save'.st = "ok"  BY <1>1, <1>2, <2>2 DEF ServeSave, Save
  <2>4. TypeOK'  BY <1>2, <2>2, <2>3 DEF ServeSave, TypeOK, bounds
  <2>5. Written'  BY <1>2, <2>3 DEF ServeSave, Written
  <2>6. QueryInv'  BY <1>2, QuietStep DEF ServeSave
  <2>. QED  BY <2>4, <2>5, <2>6
<1>3. CASE SaveFails
  <2>1. save' \in Save /\ save'.st = "refused"  BY <1>1, <1>3 DEF SaveFails, Save
  <2>2. events' \in 0 .. MaxEvents  BY <1>3, SettingsAssumption DEF SaveFails, TypeOK
  <2>3. TypeOK'  BY <1>3, <2>1, <2>2 DEF SaveFails, TypeOK
  <2>4. Written'  BY <1>3, <2>1 DEF SaveFails, Written
  <2>5. QueryInv'  BY <1>3, QuietStep DEF SaveFails
  <2>. QED  BY <2>3, <2>4, <2>5
<1>4. CASE \E o \in Orgs, v \in Vals : Elsewhere(o, v)
  <2>1. PICK o \in Orgs, v \in Vals : Elsewhere(o, v)  BY <1>4
  <2>2. settings' \in [Orgs -> Data]  BY <2>1, StoredType DEF Elsewhere
  <2>3. events' \in 0 .. MaxEvents  BY <2>1, SettingsAssumption DEF Elsewhere, TypeOK
  <2>4. TypeOK'  BY <2>1, <2>2, <2>3 DEF Elsewhere, TypeOK
  <2>5. Written'  BY <2>1 DEF Elsewhere, Written
  <2>6. QueryInv'  BY <2>1, QuietStep DEF Elsewhere
  <2>. QED  BY <2>4, <2>5, <2>6
<1>. QED  BY <1>2, <1>3, <1>4

(***************************************************************************)
(* The query                                                               *)
(***************************************************************************)

\* Requests, answers and failures, which leave the form alone.
LEMMA QuerySteps ==
  ASSUME IInv, NEW o \in Orgs, ServeQuery(o) \/ QueryFails(o) \/ Refetch(o)
  PROVE  IInv'
<1>. USE DEF IInv
<1>1. query[o] \in QueryOf(Data) /\ settings[o] \in Data /\ query \in [Orgs -> QueryOf(Data)]
  BY DEF TypeOK
<1>2. CASE ServeQuery(o)
  <2>1. query' = [query EXCEPT ![o] = Answered(query[o], settings[o])]  BY <1>2 DEF ServeQuery
  <2>2. query' \in [Orgs -> QueryOf(Data)] /\ QueryInv'
    <3>1. /\ Answered(query[o], settings[o]) \in QueryOf(Data)
          /\ Answered(query[o], settings[o]).data = query[o].data
          /\ Answered(query[o], settings[o]).got = settings[o]
          /\ Answered(query[o], settings[o]).fetch = "back"
      BY <1>1, AnswerFacts
    <3>. QED  BY <1>1, <1>2, <2>1, <3>1, EntryStep, NoneAssumption DEF ServeQuery, Resting
  <2>3. TypeOK'  BY <1>2, <2>2 DEF ServeQuery, TypeOK, bounds
  <2>4. Written'  BY <1>2 DEF ServeQuery, Written
  <2>. QED  BY <2>2, <2>3, <2>4
<1>3. CASE QueryFails(o)
  <2>1. query' = [query EXCEPT ![o] = Failed(query[o])]  BY <1>3 DEF QueryFails
  <2>2. /\ Failed(query[o]) \in QueryOf(Data) /\ Failed(query[o]).data = query[o].data
        /\ Failed(query[o]).fetch = "none" /\ Failed(query[o]).failed
    BY <1>1, FailedFacts
  <2>3. query' \in [Orgs -> QueryOf(Data)] /\ QueryInv'
    BY <1>1, <1>3, <2>1, <2>2, EntryStep DEF QueryFails
  <2>4. events' \in 0 .. MaxEvents
    <3>1. events \in 0 .. MaxEvents  BY DEF TypeOK
    <3>2. events < MaxEvents /\ events' = events + 1  BY <1>3 DEF QueryFails
    <3>. QED  BY <3>1, <3>2, SettingsAssumption
  <2>5. TypeOK'  BY <1>3, <2>3, <2>4 DEF QueryFails, TypeOK
  <2>6. Written'  BY <1>3 DEF QueryFails, Written
  <2>. QED  BY <2>3, <2>5, <2>6
<1>4. CASE Refetch(o)
  <2>1. query' = [query EXCEPT ![o] = Sent(query[o])]  BY <1>4 DEF Refetch
  <2>2. query' \in [Orgs -> QueryOf(Data)] /\ QueryInv'
    BY <1>1, <1>4, <2>1, SentFacts, EntryStep DEF Refetch, Resting
  <2>3. TypeOK'  BY <1>4, <2>2 DEF Refetch, TypeOK, bounds
  <2>4. Written'  BY <1>4 DEF Refetch, Written
  <2>. QED  BY <2>2, <2>3, <2>4
<1>. QED  BY <1>2, <1>3, <1>4

\* The settings arrive: the form is filled, or has been with equal ones.
LEMMA ArriveStep ==
  ASSUME IInv, NEW o \in Orgs, QueryArrives(o)
  PROVE  IInv'
<1>. DEFINE new == query[o].got
            q   == Loaded(query[o])
<1>. USE DEF IInv
<1>1. query \in [Orgs -> QueryOf(Data)] /\ query[o] \in QueryOf(Data) /\ settings[o] \in Data
      /\ form \in Form /\ org \in Orgs
  BY DEF TypeOK
<1>2. query[o].fetch = "back" /\ query' = [query EXCEPT ![o] = q]
      /\ UNCHANGED <<visible, org, save>>
  BY DEF QueryArrives
<1>3. new # None /\ new \in Data  BY <1>1, <1>2 DEF QueryInv, AnswersHaveData, QueryOf
<1>4. q \in QueryOf(Data) /\ q.data = new /\ q.fetch = "none"  BY <1>1, LoadedFacts
<1>. HIDE DEF q
<1>5. query'[o] = q /\ \A p \in Orgs \ {o} : query'[p] = query[p]  BY <1>1, <1>2
<1>6. \/ form' = Filled(form, o, new) /\ o = org
      \/ form' = form /\ (visible /\ o = org => query[o].data # None)
  BY DEF QueryArrives
<1>7. form' \in Form /\ (form'.dirty => form'.val # None)
  <2>1. CASE form' = form  BY <1>1, <2>1 DEF Written
  <2>2. CASE form' = Filled(form, o, new)
    <3>1. new.val \in Vals  BY <1>3 DEF Data
    <3>2. form'.val = new.val  BY <1>1, <1>3, <2>2 DEF Filled, Form
    <3>3. form' \in Form  BY <1>1, <1>3, <2>2, FilledType
    <3>. QED  BY <3>1, <3>2, <3>3, SettingsAssumption
  <2>. QED  BY <1>6, <2>1, <2>2
<1>8. query' \in [Orgs -> QueryOf(Data)]  BY <1>1, <1>2, <1>4
<1>9. TypeOK'  BY <1>7, <1>8 DEF QueryArrives, TypeOK, bounds
<1>10. Written'  BY <1>2, <1>7 DEF Written
<1>11. AnswersHaveData'  BY <1>4, <1>5 DEF QueryInv, AnswersHaveData
<1>12. FailedOrOnItsWay'
  BY <1>1, <1>2, <1>3, <1>4, <1>5 DEF QueryInv, FailedOrOnItsWay, Resting
<1>13. FilledWhenLoaded'
  <2>1. CASE o = org
    <3>1. CASE form' = form
      BY <1>1, <1>2, <1>3, <1>4, <1>5, <1>6, <2>1, <3>1, FilledType DEF QueryInv, FilledWhenLoaded
    <3>2. CASE form' = Filled(form, o, new)
      BY <1>1, <1>2, <1>3, <2>1, <3>2, FilledType DEF FilledWhenLoaded
    <3>. QED  BY <1>6, <3>1, <3>2
  <2>2. CASE o # org
    BY <1>1, <1>2, <1>5, <1>6, <2>2 DEF QueryInv, FilledWhenLoaded
  <2>. QED  BY <2>1, <2>2
<1>. QED  BY <1>9, <1>10, <1>11, <1>12, <1>13 DEF QueryInv

\* The save is acknowledged, and a query is invalidated; or it is refused.
LEMMA SaveArrivesStep ==
  ASSUME IInv, SaveArrives
  PROVE  IInv'
<1>. USE DEF IInv
<1>1. save \in Save /\ form \in Form /\ query \in [Orgs -> QueryOf(Data)]
  BY DEF TypeOK
<1>2. CASE save.st = "ok"
  <2>. DEFINE h == save.hook
              q == Invalidated(query[h], InUse(h))
  <2>1. h \in Orgs /\ query[h] \in QueryOf(Data)  BY <1>1 DEF Save
  <2>2. InUse(h) \in BOOLEAN  BY Zenon DEF InUse, TypeOK
  <2>3. /\ q \in QueryOf(Data) /\ q.data = query[h].data
        /\ Resting(q) => Resting(query[h]) /\ q.failed = query[h].failed
        /\ q.fetch = "back" => query[h].fetch = "back" /\ q.got = query[h].got
    BY <2>1, <2>2, InvalidatedFacts
  <2>4. query' = [query EXCEPT ![h] = q]  BY <1>2 DEF SaveArrives, OnSuccess
  <2>5. UNCHANGED <<visible, org, form>>  BY <1>2 DEF SaveArrives
  <2>6. q.fetch = "back" => q.got # None  BY <2>1, <2>3 DEF QueryInv, AnswersHaveData
  <2>. HIDE DEF q
  <2>7. query' \in [Orgs -> QueryOf(Data)] /\ QueryInv'
    BY <2>1, <2>3, <2>4, <2>5, <2>6, EntryStep
  <2>8. save' \in Save /\ save'.st = "settling"  BY <1>1, <1>2 DEF SaveArrives, Save
  <2>9. acked' \in [Orgs -> Version]
    <3>1. acked \in [Orgs -> Version] /\ save.ver \in Version /\ save.org \in Orgs
      BY <1>1 DEF TypeOK, Save
    <3>2. acked' = acked \/ acked' = [acked EXCEPT ![save.org] = save.ver]
      BY <1>2 DEF SaveArrives
    <3>. QED  BY <3>1, <3>2
  <2>10. TypeOK'  BY <1>2, <2>5, <2>7, <2>8, <2>9 DEF SaveArrives, TypeOK, bounds
  <2>11. Written'  BY <2>5, <2>8 DEF Written
  <2>. QED  BY <2>7, <2>10, <2>11
<1>3. CASE save.st # "ok"
  <2>1. (form.err \/ save.mine) \in BOOLEAN  BY Zenon
  <2>2. form' \in Form /\ form'.from = form.from /\ form'.val = form.val /\ form'.dirty = form.dirty
    BY <1>1, <1>3, <2>1 DEF SaveArrives, Form
  <2>3. save' \in Save /\ save'.st = "idle"  BY <1>1, <1>3 DEF SaveArrives, Save
  <2>4. UNCHANGED <<query, acked>>  BY <1>3 DEF SaveArrives
  <2>5. TypeOK'  BY <2>2, <2>3, <2>4 DEF SaveArrives, TypeOK, bounds
  <2>6. Written'  BY <2>2, <2>3 DEF Written
  <2>7. QueryInv'  BY <2>2, <2>4, QuietStep DEF SaveArrives
  <2>. QED  BY <2>5, <2>6, <2>7
<1>. QED  BY <1>2, <1>3

(***************************************************************************)
(* Around the form                                                         *)
(***************************************************************************)

\* A form that is on the screen with the query of o, activated, keeps the invariant when
\* it is filled with what the query has.
LEMMA ShownStep ==
  ASSUME TypeOK, QueryInv, NEW o \in Orgs, NEW stale \in BOOLEAN, NEW f \in Form,
         f.dirty => f.val # None,
         query' = [query EXCEPT ![o] = Activated(query[o], stale)],
         form' = Filled(f, o, query[o].data), org' = o
  PROVE  /\ query' \in [Orgs -> QueryOf(Data)] /\ form' \in Form
         /\ form'.dirty => form'.val # None
         /\ QueryInv'
<1>. DEFINE q == Activated(query[o], stale)
<1>1. query \in [Orgs -> QueryOf(Data)] /\ query[o] \in QueryOf(Data)  BY DEF TypeOK
<1>2. /\ q \in QueryOf(Data) /\ q.data = query[o].data
      /\ Resting(q) => q.data # None
      /\ q.fetch = "back" => q = query[o]
  BY <1>1, ActivatedFacts
<1>. HIDE DEF q
<1>3. query' = [query EXCEPT ![o] = q]  BY DEF q
<1>4. query'[o] = q /\ \A p \in Orgs \ {o} : query'[p] = query[p]  BY <1>1, <1>3
<1>5. query[o].data \in Data \cup {None}  BY <1>1 DEF QueryOf
<1>6. form' \in Form /\ (query[o].data # None => form'.from = o)  BY <1>5, FilledType
<1>7. form'.dirty => form'.val # None
  <2>1. CASE query[o].data = None  BY <2>1, <1>5, FilledType
  <2>2. CASE query[o].data # None
    <3>1. query[o].data \in Data  BY <1>5, <2>2
    <3>2. query[o].data.val \in Vals  BY <3>1 DEF Data
    <3>3. form'.val = query[o].data.val  BY <2>2 DEF Filled, Form
    <3>. QED  BY <3>2, <3>3, SettingsAssumption
  <2>. QED  BY <2>1, <2>2
<1>8. AnswersHaveData'  BY <1>2, <1>4 DEF QueryInv, AnswersHaveData
<1>9. FailedOrOnItsWay'  BY <1>2, <1>4 DEF FailedOrOnItsWay, Resting
<1>10. FilledWhenLoaded'  BY <1>2, <1>4, <1>6 DEF FilledWhenLoaded
<1>11. query' \in [Orgs -> QueryOf(Data)]  BY <1>1, <1>2, <1>3
<1>. QED  BY <1>6, <1>7, <1>8, <1>9, <1>10, <1>11 DEF QueryInv

\* With no form on the screen only the answers matter.
LEMMA HiddenStep ==
  ASSUME QueryInv, TypeOK, visible' = FALSE, NEW o \in Orgs, NEW stale \in BOOLEAN,
         query' = query \/ query' = [query EXCEPT ![o] = Activated(query[o], stale)]
  PROVE  query' \in [Orgs -> QueryOf(Data)] /\ QueryInv'
<1>. DEFINE q == Activated(query[o], stale)
<1>1. query \in [Orgs -> QueryOf(Data)] /\ query[o] \in QueryOf(Data)  BY DEF TypeOK
<1>2. q \in QueryOf(Data) /\ (q.fetch = "back" => q = query[o])  BY <1>1, ActivatedFacts
<1>. HIDE DEF q
<1>3. query' = query \/ query' = [query EXCEPT ![o] = q]  BY DEF q
<1>4. \A p \in Orgs : query'[p] = query[p] \/ (p = o /\ query'[p] = q)  BY <1>1, <1>3
<1>5. AnswersHaveData'  BY <1>2, <1>4 DEF QueryInv, AnswersHaveData
<1>6. query' \in [Orgs -> QueryOf(Data)]  BY <1>1, <1>2, <1>3
<1>. QED  BY <1>5, <1>6 DEF QueryInv, FailedOrOnItsWay, FilledWhenLoaded

\* Another organization.
LEMMA SwitchStep ==
  ASSUME IInv, NEW o \in Orgs, NEW stale \in BOOLEAN, Switch(o, stale)
  PROVE  IInv'
<1>. USE DEF IInv
<1>1. form \in Form /\ save \in Save /\ (form.dirty => form.val # None) /\ visible \in BOOLEAN
  BY DEF TypeOK, Written
<1>2. save' \in Save /\ save'.st = save.st /\ save'.val = save.val
  <2>1. (IF save.mine /\ save.st # "settling" THEN o ELSE save.hook) \in Orgs  BY <1>1 DEF Save
  <2>2. save' = [save EXCEPT !.hook = IF save.mine /\ save.st # "settling" THEN o ELSE save.hook]  BY DEF Switch
  <2>. QED  BY <1>1, <2>1, <2>2 DEF Save
<1>3. events' \in 0 .. MaxEvents
  <2>1. events \in 0 .. MaxEvents  BY DEF TypeOK
  <2>2. events < MaxEvents /\ events' = events + 1  BY DEF Switch
  <2>. QED  BY <2>1, <2>2, SettingsAssumption
<1>4. /\ query' \in [Orgs -> QueryOf(Data)] /\ form' \in Form
      /\ form'.dirty => form'.val # None
      /\ QueryInv'
  <2>1. CASE visible
    <3>1. query' = [query EXCEPT ![o] = Activated(query[o], stale)]  BY <2>1 DEF Switch
    <3>2. form' = Filled(form, o, query[o].data) /\ org' = o  BY <2>1 DEF Switch
    <3>. QED  BY <1>1, <3>1, <3>2, ShownStep
  <2>2. CASE ~visible
    <3>1. form' = form /\ visible' = FALSE  BY <1>1, <2>2 DEF Switch
    <3>2. query' = query \/ query' = [query EXCEPT ![o] = Activated(query[o], stale)]
      <4>1. CASE tab = "general"  BY <2>2, <4>1 DEF Switch
      <4>2. CASE tab # "general"
        <5>1. query' = [query EXCEPT ![o] = query[o]]  BY <2>2, <4>2 DEF Switch
        <5>. QED  BY <5>1 DEF TypeOK
      <4>. QED  BY <4>1, <4>2
    <3>. QED  BY <1>1, <3>1, <3>2, HiddenStep
  <2>. QED  BY <2>1, <2>2
<1>5. TypeOK'  BY <1>2, <1>3, <1>4 DEF Switch, TypeOK
<1>6. Written'  BY <1>2, <1>4 DEF Written
<1>. QED  BY <1>4, <1>5, <1>6

\* Another tab, or back.
LEMMA VisitStep ==
  ASSUME IInv, NEW stale \in BOOLEAN, Visit(stale)
  PROVE  IInv'
<1>. USE DEF IInv
<1>1. save \in Save /\ org \in Orgs /\ visible \in BOOLEAN  BY DEF TypeOK
<1>2. EmptyForm \in Form /\ ~EmptyForm.dirty  BY DEF EmptyForm, Form
<1>3. save' \in Save /\ save'.st = save.st /\ save'.val = save.val
  <2>1. CASE visible  BY <1>1, <2>1 DEF Visit, Save
  <2>2. CASE ~visible  BY <1>1, <2>2 DEF Visit
  <2>. QED  BY <2>1, <2>2
<1>4. events' \in 0 .. MaxEvents
  <2>1. events \in 0 .. MaxEvents  BY DEF TypeOK
  <2>2. events < MaxEvents /\ events' = events + 1  BY DEF Visit
  <2>. QED  BY <2>1, <2>2, SettingsAssumption
<1>5. /\ query' \in [Orgs -> QueryOf(Data)] /\ form' \in Form
      /\ form'.dirty => form'.val # None
      /\ QueryInv'
  <2>1. CASE visible
    <3>1. form' = EmptyForm /\ query' = query /\ visible' = FALSE  BY <2>1 DEF Visit
    <3>. QED  BY <1>1, <1>2, <3>1, HiddenStep
  <2>2. CASE ~visible
    <3>1. /\ query' = [query EXCEPT ![org] = Activated(query[org], stale)]
          /\ form' = Filled(EmptyForm, org, query[org].data) /\ org' = org
      BY <2>2 DEF Visit
    <3>. QED  BY <1>1, <1>2, <3>1, ShownStep
  <2>. QED  BY <2>1, <2>2
<1>6. visible' \in BOOLEAN  BY <1>1 DEF Visit
<1>7. TypeOK'  BY <1>3, <1>4, <1>5, <1>6 DEF Visit, TypeOK
<1>8. Written'  BY <1>3, <1>5 DEF Written
<1>. QED  BY <1>5, <1>7, <1>8

LEMMA RoleStep ==
  ASSUME IInv, NEW o \in Orgs, RoleArrives(o)
  PROVE  IInv'
<1>. USE DEF IInv
<1>1. TypeOK'  BY DEF RoleArrives, TypeOK, bounds
<1>2. Written'  BY DEF RoleArrives, Written
<1>3. QueryInv'  BY QuietStep DEF RoleArrives
<1>. QED  BY <1>1, <1>2, <1>3

(***************************************************************************)
(* The theorems                                                            *)
(***************************************************************************)

LEMMA NextInv == IInv /\ [Next]_vars => IInv'
<1> SUFFICES ASSUME IInv, [Next]_vars PROVE IInv'  OBVIOUS
<1>1. CASE Click \/ SaveSettles \/ \E v \in Vals : Edit(v)  BY <1>1, FormSteps
<1>2. CASE ServeSave \/ SaveFails \/ \E o \in Orgs, v \in Vals : Elsewhere(o, v)
  BY <1>2, ServerSteps
<1>3. CASE SaveArrives  BY <1>3, SaveArrivesStep
<1>4. CASE \E o \in Orgs : ServeQuery(o) \/ QueryFails(o) \/ Refetch(o)  BY <1>4, QuerySteps
<1>5. CASE \E o \in Orgs : QueryArrives(o)  BY <1>5, ArriveStep
<1>6. CASE \E o \in Orgs : RoleArrives(o)  BY <1>6, RoleStep
<1>7. CASE \E o \in Orgs, stale \in BOOLEAN : Switch(o, stale)  BY <1>7, SwitchStep
<1>8. CASE \E stale \in BOOLEAN : Visit(stale)  BY <1>8, VisitStep
<1>9. CASE UNCHANGED vars
  BY <1>9 DEF vars, bounds, IInv, TypeOK, Written, QueryInv, AnswersHaveData, FailedOrOnItsWay,
              FilledWhenLoaded, Resting
<1>. QED  BY <1>1, <1>2, <1>3, <1>4, <1>5, <1>6, <1>7, <1>8, <1>9 DEF Next

\* A form on the screen is filled from the organization whose settings are there.
LEMMA FilledAlways == IInv => FilledWhenLoaded
BY DEF IInv, QueryInv

\* What can be saved into an organization are its own settings, edited, except where they
\* could not be loaded or, in the general form, are still on their way.
LEMMA SavedAreOwn == IInv => OwnSettings
<1>1. SUFFICES ASSUME IInv, CanSave
               PROVE  \/ form.from = org
                      \/ query[org].data = None /\ (tab = "privacy" => query[org].failed)
  BY DEF OwnSettings
<1>2. visible /\ ~(tab = "privacy" /\ IsLoading(query[org]))
  BY <1>1 DEF CanSave, Editable
<1>3. CASE query[org].data # None
  BY <1>1, <1>2, <1>3 DEF IInv, QueryInv, FilledWhenLoaded
<1>4. CASE query[org].data = None
  <2>1. tab = "privacy" => Resting(query[org])
    BY <1>2, <1>4 DEF IsLoading, Resting
  <2>2. Resting(query[org]) => query[org].failed
    BY <1>1, <1>2, <1>4 DEF IInv, QueryInv, FailedOrOnItsWay
  <2>3. QED
    BY <1>4, <2>1, <2>2
<1>5. QED
  BY <1>3, <1>4

LEMMA SettingsSteps ==
  ASSUME [MCNext]_allVars, page = "settings"
  PROVE  page' = page /\ [Next]_vars
BY DEF MCNext, allVars, SOwn, vars, bounds

\* On another page there is no form.
FormPageInv == IF page = "settings" THEN IInv ELSE visible = FALSE

\* SettingsForm: the form belongs to the organization it is saved into, for any number of
\* organizations, edits and failures: what is on the screen was filled from it (the effect
\* of GeneralTab and PrivacyTab), and what can be saved are its own settings, edited.
THEOREM OwnForm == MCSpec => []FormIsOwn
<1>1. MCInit => FormPageInv
  BY InitInv DEF MCInit, FormPageInv, SIdle
<1>2. FormPageInv /\ [MCNext]_allVars => FormPageInv'
  <2>1. CASE page = "settings"
    BY <2>1, SettingsSteps, NextInv DEF FormPageInv
  <2>2. CASE page # "settings"
    BY <2>2 DEF MCNext, allVars, SOwn, FormPageInv
  <2>3. QED
    BY <2>1, <2>2
<1>3. FormPageInv => FormIsOwn
  <2>1. visible = FALSE => OwnSettings /\ FilledWhenLoaded
    BY DEF OwnSettings, CanSave, Editable, FilledWhenLoaded
  <2>2. QED
    BY <2>1, FilledAlways, SavedAreOwn DEF FormPageInv, FormIsOwn
<1>4. QED
  BY <1>1, <1>2, <1>3, PTL DEF MCSpec

----------------------------------------------------------------------------
(***************************************************************************)
(* Own writes on the settings page                                         *)
(***************************************************************************)

\* The settings that are not older than what was saved into an organization.
NotOlder(o) == {d \in Data : acked[o] <= d.ver}

\* What was saved is stored, in this version or a later one, and the cache is fresh.
SettingsFresh ==
  /\ \A o \in Orgs : acked[o] <= settings[o].ver /\ Fresh(query[o], NotOlder(o))
  /\ save.st = "ok" => save.ver <= settings[save.org].ver

\* A step that changes one entry of the cache and leaves it fresh.
LEMMA SettingsEntry ==
  ASSUME TypeOK, SettingsFresh, NEW o \in Orgs, NEW q, query' = [query EXCEPT ![o] = q],
         Fresh(q, NotOlder(o)), UNCHANGED <<settings, acked>>,
         save'.st = "ok" => save' = save
  PROVE  SettingsFresh'
<1>1. query \in [Orgs -> QueryOf(Data)]
  BY DEF TypeOK
<1>2. query'[o] = q /\ \A p \in Orgs : p # o => query'[p] = query[p]
  BY <1>1
<1>3. ASSUME NEW p \in Orgs
      PROVE  acked'[p] <= settings'[p].ver /\ Fresh(query'[p], NotOlder(p)')
  <2>1. NotOlder(p)' = NotOlder(p) /\ acked[p] <= settings[p].ver
    BY DEF NotOlder, SettingsFresh
  <2>2. Fresh(query'[p], NotOlder(p))
    <3>1. CASE p = o
      BY <1>2, <3>1
    <3>2. CASE p # o
      BY <1>2, <3>2 DEF SettingsFresh
    <3>3. QED
      BY <3>1, <3>2
  <2>3. QED
    BY <2>1, <2>2
<1>4. save'.st = "ok" => save'.ver <= settings'[save'.org].ver
  BY DEF SettingsFresh
<1>5. QED
  BY <1>3, <1>4 DEF SettingsFresh, Fresh

\* A step that leaves the settings, the cache and what was acknowledged alone.
LEMMA SettingsQuiet ==
  ASSUME SettingsFresh, UNCHANGED <<settings, query, acked>>,
         save'.st = "ok" => save.st = "ok" /\ save'.ver = save.ver /\ save'.org = save.org
  PROVE  SettingsFresh'
BY DEF SettingsFresh, NotOlder, Fresh

\* Settings that are stored are newer than those before.
LEMMA SettingsStored ==
  ASSUME TypeOK, SettingsFresh, NEW o \in Orgs, NEW v \in Vals, Stored(o, v),
         UNCHANGED <<query, acked>>,
         \/ save' = save
         \/ save'.st = "ok" /\ save'.ver = settings[o].ver + 1 /\ save'.org = o
  PROVE  SettingsFresh'
<1>1. settings \in [Orgs -> Data] /\ acked \in [Orgs -> Version] /\ Version \subseteq Nat
  BY SettingsAssumption DEF TypeOK, Version
<1>2. settings' = [settings EXCEPT ![o] = [ver |-> settings[o].ver + 1, val |-> v]]
  BY DEF Stored
<1>3. /\ settings'[o].ver = settings[o].ver + 1
      /\ \A p \in Orgs : p # o => settings'[p] = settings[p]
  BY <1>1, <1>2
<1>4. \A p \in Orgs : settings[p].ver \in Nat /\ acked[p] \in Nat
  BY <1>1 DEF Data
<1>5. ASSUME NEW p \in Orgs PROVE settings[p].ver <= settings'[p].ver /\ settings'[p].ver \in Nat
  <2>1. CASE p = o
    BY <1>3, <1>4, <2>1
  <2>2. CASE p # o
    BY <1>3, <1>4, <2>2
  <2>3. QED
    BY <2>1, <2>2
<1>6. ASSUME NEW p \in Orgs
      PROVE  acked'[p] <= settings'[p].ver /\ Fresh(query'[p], NotOlder(p)')
  <2>1. acked[p] <= settings[p].ver /\ Fresh(query[p], NotOlder(p))
    BY DEF SettingsFresh
  <2>2. acked[p] <= settings'[p].ver
    BY <1>4, <1>5, <2>1
  <2>3. NotOlder(p)' = NotOlder(p)
    BY DEF NotOlder
  <2>4. QED
    BY <2>1, <2>2, <2>3
<1>7. save'.st = "ok" => save'.ver <= settings'[save'.org].ver
  <2>1. CASE save' = save
    <3>1. SUFFICES ASSUME save.st = "ok" PROVE save.ver <= settings'[save.org].ver
      BY <2>1
    <3>2. save.ver <= settings[save.org].ver /\ save.org \in Orgs /\ save.ver \in Nat
      BY <1>1, <3>1 DEF SettingsFresh, TypeOK, Save
    <3>3. QED
      BY <1>4, <1>5, <3>2
  <2>2. CASE save'.st = "ok" /\ save'.ver = settings[o].ver + 1 /\ save'.org = o
    BY <1>3, <1>4, <2>2
  <2>3. QED
    BY <2>1, <2>2
<1>8. QED
  BY <1>6, <1>7 DEF SettingsFresh, Fresh

\* A save is acknowledged: where its query is fetched again, nothing that may be older is
\* left unmarked or on its way.
LEMMA SettingsAcked ==
  ASSUME TypeOK, SettingsFresh, SaveArrives PROVE SettingsFresh'
<1>1. /\ save \in Save /\ query \in [Orgs -> QueryOf(Data)] /\ acked \in [Orgs -> Version]
      /\ settings' = settings
  BY DEF TypeOK, SaveArrives
<1>2. CASE save.st # "ok"
  <2>1. save'.st # "ok" /\ UNCHANGED <<query, acked>>
    BY <1>1, <1>2 DEF SaveArrives, Save
  <2>2. QED
    BY <1>1, <2>1, SettingsQuiet
<1>3. CASE save.st = "ok"
  <2> DEFINE h == save.hook
             q == Invalidated(query[h], InUse(h))
  <2>1. h \in Orgs /\ query[h] \in QueryOf(Data) /\ save.org \in Orgs
    BY <1>1 DEF Save
  <2>2. InUse(h) \in BOOLEAN
    BY Zenon DEF InUse, TypeOK
  <2>3. query' = [query EXCEPT ![h] = q] /\ save'.st # "ok"
    BY <1>1, <1>3 DEF SaveArrives, OnSuccess, Save
  <2>4. Fresh(query[h], NotOlder(h))
    BY <2>1 DEF SettingsFresh
  <2>5. Fresh(q, NotOlder(h))
    BY <2>1, <2>2, <2>4, FreshFacts
  <2>6. CASE acked' = acked
    <3> HIDE DEF q
    <3>1. QED
      BY <1>1, <2>1, <2>3, <2>5, <2>6, SettingsEntry
  <2>7. CASE Heard /\ acked' = [acked EXCEPT ![save.org] = save.ver]
    <3>1. save.org = h /\ (Resting(query[h]) \/ (InUse(h) /\ ~IsLoading(query[h])))
      BY <2>7 DEF Heard
    <3>2. \A G : Fresh(q, G)
      BY <2>1, <2>2, <3>1, FreshWhenHeard
    <3> HIDE DEF q
    <3>3. query'[h] = q /\ \A p \in Orgs : p # h => query'[p] = query[p]
      BY <1>1, <2>1, <2>3
    <3>4. acked'[h] = save.ver /\ \A p \in Orgs : p # h => acked'[p] = acked[p]
      BY <1>1, <2>1, <2>7, <3>1
    <3>5. ASSUME NEW p \in Orgs
          PROVE  acked'[p] <= settings'[p].ver /\ Fresh(query'[p], NotOlder(p)')
      <4>1. CASE p = h
        <5>1. save.ver <= settings[h].ver
          BY <1>3, <3>1 DEF SettingsFresh
        <5>2. QED
          BY <1>1, <3>2, <3>3, <3>4, <4>1, <5>1
      <4>2. CASE p # h
        <5>1. acked[p] <= settings[p].ver /\ Fresh(query[p], NotOlder(p))
          BY DEF SettingsFresh
        <5>2. NotOlder(p)' = NotOlder(p)
          BY <3>4, <4>2 DEF NotOlder
        <5>3. QED
          BY <1>1, <3>3, <3>4, <4>2, <5>1, <5>2
      <4>3. QED
        BY <4>1, <4>2
    <3>6. QED
      BY <2>3, <3>5 DEF SettingsFresh, Fresh
  <2>8. QED
    BY <1>3, <2>6, <2>7 DEF SaveArrives
<1>4. QED
  BY <1>2, <1>3

LEMMA SettingsFreshInit == Init => SettingsFresh
<1>1. SUFFICES ASSUME Init PROVE SettingsFresh
  OBVIOUS
<1>2. PICK v \in Vals : settings = [o \in Orgs |-> [ver |-> 0, val |-> v]]
  BY <1>1 DEF Init
<1>3. \A o \in Orgs : acked[o] = 0 /\ settings[o].ver = 0
  BY <1>1, <1>2 DEF Init
<1>4. \A o \in Orgs : Fresh(query[o], NotOlder(o))
  BY <1>1, FreshWhenNew DEF Init
<1>5. save.st = "idle"
  BY <1>1 DEF Init
<1>6. QED
  BY <1>3, <1>4, <1>5 DEF SettingsFresh

LEMMA SettingsFreshNext ==
  ASSUME IInv, SettingsFresh, [Next]_vars PROVE SettingsFresh'
<1>1. /\ TypeOK /\ query \in [Orgs -> QueryOf(Data)] /\ org \in Orgs
      /\ \A o \in Orgs : settings[o] \in Data
  BY DEF IInv, TypeOK
<1>2. \A o \in Orgs : /\ query[o] \in QueryOf(Data) /\ Fresh(query[o], NotOlder(o))
                      /\ settings[o] \in NotOlder(o)
  BY <1>1 DEF SettingsFresh, NotOlder
<1>3. CASE Click \/ SaveFails \/ SaveSettles \/ \E v \in Vals : Edit(v)
  <2>1. /\ UNCHANGED <<settings, query, acked>>
        /\ save'.st = "ok" => save' = save
    <3>1. save \in Save
      BY <1>1 DEF TypeOK
    <3>2. CASE Click \/ SaveFails \/ SaveSettles
      BY <3>1, <3>2 DEF Click, SaveFails, SaveSettles, Save
    <3>3. CASE \E v \in Vals : Edit(v)
      BY <3>3 DEF Edit
    <3>4. QED
      BY <1>3, <3>2, <3>3
  <2>2. QED
    BY <2>1, SettingsQuiet
<1>4. CASE ServeSave
  <2>1. save \in Save /\ save.org \in Orgs /\ save.val \in Vals
    BY <1>1, <1>4 DEF IInv, ServeSave, Written, TypeOK, Save
  <2>2. /\ Stored(save.org, save.val) /\ UNCHANGED <<query, acked>>
        /\ save' = [save EXCEPT !.st = "ok", !.ver = settings[save.org].ver + 1]
    BY <1>4 DEF ServeSave
  <2>3. save'.st = "ok" /\ save'.ver = settings[save.org].ver + 1 /\ save'.org = save.org
    BY <2>1, <2>2 DEF Save
  <2>4. QED
    BY <1>1, <2>1, <2>2, <2>3, SettingsStored
<1>5. ASSUME NEW o \in Orgs, NEW v \in Vals, Elsewhere(o, v) PROVE SettingsFresh'
  BY <1>1, <1>5, SettingsStored DEF Elsewhere
<1>6. CASE SaveArrives
  BY <1>1, <1>6, SettingsAcked
<1>7. ASSUME NEW o \in Orgs, NEW q, query' = [query EXCEPT ![o] = q], Fresh(q, NotOlder(o)),
             UNCHANGED <<settings, acked, save>>
      PROVE  SettingsFresh'
  BY <1>1, <1>7, SettingsEntry
<1>8. ASSUME NEW o \in Orgs, ServeQuery(o) \/ QueryArrives(o) \/ QueryFails(o) \/ Refetch(o)
      PROVE  SettingsFresh'
  <2>1. PICK q : /\ query' = [query EXCEPT ![o] = q] /\ UNCHANGED <<settings, acked, save>>
                 /\ \/ q \in {Sent(query[o]), Failed(query[o]), Answered(query[o], settings[o])}
                    \/ q = Loaded(query[o]) /\ query[o].fetch = "back"
    BY <1>8 DEF ServeQuery, QueryArrives, QueryFails, Refetch
  <2>2. /\ Fresh(Sent(query[o]), NotOlder(o)) /\ Fresh(Failed(query[o]), NotOlder(o))
        /\ Fresh(Answered(query[o], settings[o]), NotOlder(o))
        /\ query[o].fetch = "back" => Fresh(Loaded(query[o]), NotOlder(o))
    BY <1>1, <1>2, FreshFacts
  <2>3. QED
    BY <1>7, <2>1, <2>2
<1>9. ASSUME NEW o \in Orgs, NEW stale \in BOOLEAN,
             query' = query \/ query' = [query EXCEPT ![o] = Activated(query[o], stale)],
             UNCHANGED <<settings, acked>>,
             save'.st = "ok" => save.st = "ok" /\ save'.ver = save.ver /\ save'.org = save.org
      PROVE  SettingsFresh'
  <2>1. CASE query' = query
    BY <1>9, <2>1, SettingsQuiet
  <2>2. CASE query' = [query EXCEPT ![o] = Activated(query[o], stale)]
    <3>1. Fresh(Activated(query[o], stale), NotOlder(o))
      BY <1>2, FreshFacts
    <3>2. \A p \in Orgs : query'[p] = query[p] \/ (p = o /\ query'[p] = Activated(query[o], stale))
      BY <1>1, <2>2
    <3>3. ASSUME NEW p \in Orgs PROVE Fresh(query'[p], NotOlder(p)')
      <4>1. NotOlder(p)' = NotOlder(p)
        BY <1>9 DEF NotOlder
      <4>2. QED
        BY <1>2, <3>1, <3>2, <4>1
    <3>4. /\ \A p \in Orgs : acked'[p] <= settings'[p].ver
          /\ save'.st = "ok" => save'.ver <= settings'[save'.org].ver
      BY <1>9 DEF SettingsFresh
    <3>5. QED
      BY <3>3, <3>4 DEF SettingsFresh, Fresh
  <2>3. QED
    BY <1>9, <2>1, <2>2
<1>10. ASSUME NEW o \in Orgs, NEW stale \in BOOLEAN, Switch(o, stale) PROVE SettingsFresh'
  <2>1. query' = query \/ query' = [query EXCEPT ![o] = Activated(query[o], stale)]
    <3>1. CASE visible \/ tab = "general"
      BY <1>10, <3>1 DEF Switch
    <3>2. CASE ~(visible \/ tab = "general")
      <4>1. query' = [query EXCEPT ![o] = query[o]]
        BY <1>10, <3>2 DEF Switch
      <4>2. QED
        BY <1>1, <4>1
    <3>3. QED
      BY <3>1, <3>2
  <2>2. save \in Save
    BY <1>1 DEF TypeOK
  <2>3. /\ UNCHANGED <<settings, acked>>
        /\ save'.st = save.st /\ save'.ver = save.ver /\ save'.org = save.org
    BY <1>10, <2>2 DEF Switch, Save
  <2>4. QED
    BY <1>9, <2>1, <2>3
<1>11. ASSUME NEW stale \in BOOLEAN, Visit(stale) PROVE SettingsFresh'
  <2>1. query' = query \/ query' = [query EXCEPT ![org] = Activated(query[org], stale)]
    BY <1>11 DEF Visit
  <2>2. save \in Save
    BY <1>1 DEF TypeOK
  <2>3. /\ UNCHANGED <<settings, acked>>
        /\ save'.st = save.st /\ save'.ver = save.ver /\ save'.org = save.org
    BY <1>11, <2>2 DEF Visit, Save
  <2>4. QED
    BY <1>1, <1>9, <2>1, <2>3
<1>12. ASSUME NEW o \in Orgs, RoleArrives(o) PROVE SettingsFresh'
  BY <1>12, SettingsQuiet DEF RoleArrives
<1>13. CASE UNCHANGED vars
  BY <1>13, SettingsQuiet DEF vars
<1>14. QED
  BY <1>3, <1>4, <1>5, <1>6, <1>8, <1>10, <1>11, <1>12, <1>13 DEF Next

LEMMA SettingsMean == IInv /\ SettingsFresh => TypeOK /\ OwnSaveSeen
<1>1. SUFFICES ASSUME IInv, SettingsFresh, NEW o \in Orgs, query[o].data # None,
                      Resting(query[o]), ~query[o].invalid
               PROVE  query[o].data.ver >= acked[o]
  BY DEF IInv, OwnSaveSeen
<1>2. query[o].data \in NotOlder(o)
  BY <1>1 DEF SettingsFresh, Fresh
<1>3. query[o].data.ver \in Nat /\ acked[o] \in Nat
  BY <1>1, <1>2, SettingsAssumption DEF NotOlder, Data, Version, IInv, TypeOK
<1>4. QED
  BY <1>2, <1>3 DEF NotOlder

----------------------------------------------------------------------------
(***************************************************************************)
(* Own writes on the lists                                                 *)
(***************************************************************************)

\* The tables that are not older than what this page was told of: what was removed is not
\* in them, and what was made or changed is, unless it was removed since.
Current == {t \in L!Table : /\ \A r \in gone : t[r] = 0
                            /\ \A r \in Rows : rows[r] # 0 => made[r] <= t[r]}

\* An identifier is not used again, and what this page was told of was stored.
RowsHold ==
  \A r \in Rows : /\ rows[r] # 0 => r \in used /\ made[r] <= rows[r]
                  /\ r \in gone => r \in used /\ rows[r] = 0
                  /\ made[r] # 0 => r \in used

\* A removal that has succeeded is one; rows are removed from a list that was loaded.
RemovalsHold ==
  /\ \A x \in removals : x.st = "ok" => x.row \in used /\ rows[x.row] = 0
  /\ confirm # None \/ removals # {} => query.data # None

\* A change is of a row, and one that has succeeded is stored.
ChangeHolds ==
  /\ change.st # "idle" => change.row # None
  /\ change.st = "ok" =>
       change.row \in used /\ (rows[change.row] # 0 => change.ver <= rows[change.row])

ListsInv ==
  L!TypeOK /\ RowsHold /\ RemovalsHold /\ ChangeHolds /\ Fresh(query, Current)

LEMMA ListsTypes ==
  ASSUME L!TypeOK
  PROVE  /\ query \in QueryOf(L!Table) /\ rows \in [Rows -> Nat] /\ made \in [Rows -> Nat]
         /\ L!Ver \subseteq Nat /\ 0 \in L!Ver /\ None \notin L!Table
         /\ clicks \in 0 .. MaxClicks /\ events \in 0 .. MaxListEvents
         /\ change \in L!Change /\ dialog \in L!Dialog
<1>1. L!Ver \subseteq Nat /\ 0 \in L!Ver
  BY ListsAssumption DEF L!Ver
<1>2. rows \in [Rows -> L!Ver] /\ made \in [Rows -> L!Ver]
  BY DEF L!TypeOK, L!Table
<1>3. QED
  BY <1>1, <1>2, LCache, ListsAssumption DEF L!TypeOK

\* A step that changes neither the rows nor the cache.
LEMMA ListsRest ==
  ASSUME ListsInv, UNCHANGED <<list, free, rows, used, query, gone, made>>,
         known' \in BOOLEAN, confirm' \in Rows \cup {None}, dialog' \in L!Dialog,
         removals' \in SUBSET L!Removal, change' \in L!Change,
         clicks' \in 0 .. MaxClicks, events' \in 0 .. MaxListEvents,
         RemovalsHold', ChangeHolds'
  PROVE  ListsInv'
<1>1. L!TypeOK'
  BY DEF ListsInv, L!TypeOK
<1>2. RowsHold'
  BY DEF ListsInv, RowsHold
<1>3. Fresh(query, Current)'
  <2>1. Current' = Current
    BY DEF Current
  <2>2. QED
    BY <2>1 DEF ListsInv, Fresh
<1>4. QED
  BY <1>1, <1>2, <1>3 DEF ListsInv

\* A removal that goes on, but does not succeed.
LEMMA MovedRemoval ==
  ASSUME ListsInv, NEW x \in removals, NEW st \in {"refused", "settling"}
  PROVE  /\ L!Moved(x, st) \in SUBSET L!Removal
         /\ \A y \in L!Moved(x, st) : y.st = "ok" => y \in removals
<1>1. x \in L!Removal /\ removals \subseteq L!Removal
  BY DEF ListsInv, L!TypeOK
<1>2. [x EXCEPT !.st = st] \in L!Removal /\ [x EXCEPT !.st = st].st = st
  BY <1>1 DEF L!Removal
<1>3. L!Moved(x, st) = (removals \ {x}) \cup {[x EXCEPT !.st = st]}
  BY DEF L!Moved
<1>4. QED
  BY <1>1, <1>2, <1>3

\* The clicks on rows and in the dialog.
LEMMA ListClicks ==
  ASSUME ListsInv,
         \/ \E r \in Rows : L!AskRemove(r)
         \/ \E r \in Rows \cup {None} : L!OpenDialog(r)
         \/ L!CancelRemove \/ L!Confirm \/ L!CloseDialog \/ L!Submit \/ L!KnownArrives
  PROVE  ListsInv'
<1>1. /\ L!TypeOK /\ RemovalsHold /\ ChangeHolds
      /\ change \in L!Change /\ dialog \in L!Dialog
      /\ clicks \in 0 .. MaxClicks /\ events \in 0 .. MaxListEvents
      /\ known \in BOOLEAN /\ confirm \in Rows \cup {None} /\ removals \in SUBSET L!Removal
  BY ListsTypes DEF ListsInv, L!TypeOK
<1>2. ASSUME NEW r \in Rows, L!AskRemove(r) PROVE ListsInv'
  <2>1. /\ confirm' = r /\ r \in L!Shown
        /\ UNCHANGED <<list, free, known, rows, used, query, dialog, removals, change, gone,
                       made, clicks, events>>
    BY <1>2 DEF L!AskRemove
  <2>2. query.data # None
    BY <2>1 DEF L!Shown
  <2>3. RemovalsHold' /\ ChangeHolds'
    BY <1>1, <2>1, <2>2 DEF RemovalsHold, ChangeHolds
  <2>4. QED
    BY <1>1, <2>1, <2>3, ListsRest
<1>3. CASE L!CancelRemove
  <2>1. /\ confirm' = None
        /\ UNCHANGED <<list, free, known, rows, used, query, dialog, removals, change, gone,
                       made, clicks, events>>
    BY <1>3 DEF L!CancelRemove
  <2>2. RemovalsHold' /\ ChangeHolds'
    BY <1>1, <2>1 DEF RemovalsHold, ChangeHolds
  <2>3. QED
    BY <1>1, <2>1, <2>2, ListsRest
<1>4. CASE L!Confirm
  <2> DEFINE x == [row |-> confirm, st |-> "sent"]
  <2>1. /\ confirm # None /\ clicks < MaxClicks /\ clicks' = clicks + 1
        /\ removals' = removals \cup {x}
        /\ UNCHANGED <<list, free, known, rows, used, query, confirm, dialog, change, gone,
                       made, events>>
    BY <1>4 DEF L!Confirm
  <2>2. x \in L!Removal /\ x.st = "sent"
    BY <1>1, <2>1 DEF L!Removal
  <2>3. clicks' \in 0 .. MaxClicks
    BY <1>1, <2>1, ListsAssumption
  <2> HIDE DEF x
  <2>4. RemovalsHold' /\ ChangeHolds'
    BY <1>1, <2>1, <2>2 DEF RemovalsHold, ChangeHolds
  <2>5. removals' \in SUBSET L!Removal
    BY <1>1, <2>1, <2>2
  <2>6. QED
    BY <1>1, <2>1, <2>3, <2>4, <2>5, ListsRest
<1>5. ASSUME NEW r \in Rows \cup {None}, L!OpenDialog(r) \/ L!CloseDialog PROVE ListsInv'
  <2>1. /\ dialog' \in {[open |-> TRUE, row |-> r, err |-> FALSE], L!NoDialog}
        /\ UNCHANGED <<list, free, known, rows, used, query, confirm, removals, change, gone,
                       made, clicks, events>>
    BY <1>5 DEF L!OpenDialog, L!CloseDialog
  <2>2. dialog' \in L!Dialog
    <3>1. [open |-> TRUE, row |-> r, err |-> FALSE] \in L!Dialog
      BY DEF L!Dialog
    <3>2. L!NoDialog \in L!Dialog
      BY DEF L!Dialog, L!NoDialog
    <3>3. QED
      BY <2>1, <3>1, <3>2
  <2>3. RemovalsHold' /\ ChangeHolds'
    BY <1>1, <2>1 DEF RemovalsHold, ChangeHolds
  <2>4. QED
    BY <1>1, <2>1, <2>2, <2>3, ListsRest
<1>6. CASE L!Submit
  <2>1. PICK r \in L!Target : change' = [row |-> r, ver |-> 0, st |-> "sent"]
    BY <1>6 DEF L!Submit
  <2>2. /\ clicks < MaxClicks /\ clicks' = clicks + 1 /\ dialog' = [dialog EXCEPT !.err = FALSE]
        /\ UNCHANGED <<list, free, known, rows, used, query, confirm, removals, gone, made, events>>
    BY <1>6 DEF L!Submit
  <2>3. r \in Rows
    BY <1>1 DEF L!Target, L!Dialog
  <2>4. /\ change' \in L!Change /\ change'.st = "sent" /\ change'.row # None
        /\ dialog' \in L!Dialog
    <3>1. 0 \in L!Ver /\ r # None
      BY <1>1, <2>3, ListsTypes, ListsAssumption
    <3>2. change' \in L!Change /\ change'.st = "sent" /\ change'.row = r
      BY <2>1, <2>3, <3>1 DEF L!Change
    <3>3. dialog' \in L!Dialog
      BY <1>1, <2>2 DEF L!Dialog
    <3>4. QED
      BY <3>1, <3>2, <3>3
  <2>5. clicks' \in 0 .. MaxClicks
    BY <1>1, <2>2, ListsAssumption
  <2>6. RemovalsHold' /\ ChangeHolds'
    BY <1>1, <2>2, <2>4 DEF RemovalsHold, ChangeHolds
  <2>7. QED
    BY <1>1, <2>2, <2>4, <2>5, <2>6, ListsRest
<1>7. CASE L!KnownArrives
  <2>1. /\ known' = TRUE
        /\ UNCHANGED <<list, free, rows, used, query, confirm, dialog, removals, change, gone,
                       made, clicks, events>>
    BY <1>7 DEF L!KnownArrives
  <2>2. RemovalsHold' /\ ChangeHolds'
    BY <1>1, <2>1 DEF RemovalsHold, ChangeHolds
  <2>3. QED
    BY <1>1, <2>1, <2>2, ListsRest
<1>8. QED
  BY <1>2, <1>3, <1>4, <1>5, <1>6, <1>7

\* Removals and changes that fail, are refused, or are over.
LEMMA ListEnds ==
  ASSUME ListsInv,
         \/ \E x \in removals : L!RemovalFails(x) \/ L!RemovalSettles(x)
         \/ \E x \in removals : L!RemovalArrives(x) /\ x.st # "ok"
         \/ L!ChangeSettles \/ (L!ChangeArrives /\ change.st # "ok")
  PROVE  ListsInv'
<1>1. /\ L!TypeOK /\ RemovalsHold /\ ChangeHolds
      /\ change \in L!Change /\ dialog \in L!Dialog
      /\ clicks \in 0 .. MaxClicks /\ events \in 0 .. MaxListEvents
      /\ known \in BOOLEAN /\ confirm \in Rows \cup {None} /\ removals \in SUBSET L!Removal
  BY ListsTypes DEF ListsInv, L!TypeOK
<1>2. ASSUME NEW x \in removals, L!RemovalFails(x) PROVE ListsInv'
  <2>1. /\ events < MaxListEvents /\ events' = events + 1 /\ removals' = L!Moved(x, "refused")
        /\ UNCHANGED <<list, free, known, rows, used, query, confirm, dialog, change, gone,
                       made, clicks>>
    BY <1>2 DEF L!RemovalFails
  <2>2. /\ removals' \in SUBSET L!Removal
        /\ \A y \in removals' : y.st = "ok" => y \in removals
    BY <2>1, MovedRemoval
  <2>3. events' \in 0 .. MaxListEvents
    BY <1>1, <2>1, ListsAssumption
  <2>4. RemovalsHold' /\ ChangeHolds'
    BY <1>1, <2>1, <2>2 DEF RemovalsHold, ChangeHolds
  <2>5. QED
    BY <1>1, <2>1, <2>2, <2>3, <2>4, ListsRest
<1>3. ASSUME NEW x \in removals, L!RemovalSettles(x) \/ (L!RemovalArrives(x) /\ x.st # "ok")
      PROVE  ListsInv'
  <2>1. /\ removals' = removals \ {x} /\ confirm' \in {None, confirm}
        /\ UNCHANGED <<list, free, known, rows, used, query, dialog, change, gone, made, clicks,
                       events>>
    BY <1>3 DEF L!RemovalSettles, L!RemovalArrives
  <2>2. RemovalsHold' /\ ChangeHolds'
    BY <1>1, <2>1 DEF RemovalsHold, ChangeHolds
  <2>3. confirm' \in Rows \cup {None} /\ removals' \in SUBSET L!Removal
    BY <1>1, <2>1
  <2>4. QED
    BY <1>1, <2>1, <2>2, <2>3, ListsRest
<1>4. CASE L!ChangeSettles \/ (L!ChangeArrives /\ change.st # "ok")
  <2>1. /\ change' = L!NoChange /\ dialog' \in {L!NoDialog, [dialog EXCEPT !.err = TRUE]}
        /\ UNCHANGED <<list, free, known, rows, used, query, confirm, removals, gone, made,
                       clicks, events>>
    BY <1>4 DEF L!ChangeSettles, L!ChangeArrives
  <2>2. L!NoChange \in L!Change /\ L!NoChange.st = "idle"
    BY <1>1, ListsTypes DEF L!NoChange, L!Change
  <2>3. dialog' \in L!Dialog
    <3>1. CASE dialog' = L!NoDialog
      BY <3>1 DEF L!NoDialog, L!Dialog
    <3>2. CASE dialog' = [dialog EXCEPT !.err = TRUE]
      BY <1>1, <3>2 DEF L!Dialog
    <3>3. QED
      BY <2>1, <3>1, <3>2
  <2>4. RemovalsHold' /\ ChangeHolds'
    BY <1>1, <2>1, <2>2 DEF RemovalsHold, ChangeHolds
  <2>5. QED
    BY <1>1, <2>1, <2>2, <2>3, <2>4, ListsRest
<1>5. QED
  BY <1>2, <1>3, <1>4

\* The steps of the list's query.
LEMMA ListQuery ==
  ASSUME ListsInv, L!ServeQuery \/ L!QueryArrives \/ L!QueryFails \/ L!Refetch
  PROVE  ListsInv'
<1>1. /\ L!TypeOK /\ RowsHold /\ RemovalsHold /\ ChangeHolds /\ Fresh(query, Current)
      /\ query \in QueryOf(L!Table) /\ rows \in L!Table /\ events \in 0 .. MaxListEvents
  BY ListsTypes DEF ListsInv, L!TypeOK
<1>2. rows \in Current
  BY <1>1 DEF Current, RowsHold, L!TypeOK
<1>3. /\ UNCHANGED <<list, free, known, rows, used, confirm, dialog, removals, change, gone,
                     made, clicks>>
      /\ events' \in 0 .. MaxListEvents
  BY <1>1, ListsAssumption DEF L!ServeQuery, L!QueryArrives, L!QueryFails, L!Refetch
<1>4. query' \in QueryOf(L!Table) /\ Fresh(query', Current) /\ (query.data # None => query'.data # None)
  <2>1. CASE query' \in {Sent(query), Failed(query), Answered(query, rows)}
    <3>1. /\ Sent(query) \in QueryOf(L!Table) /\ Sent(query).data = query.data
          /\ Failed(query) \in QueryOf(L!Table) /\ Failed(query).data = query.data
      BY <1>1, SentFacts, FailedFacts
    <3>2. Answered(query, rows) \in QueryOf(L!Table) /\ Answered(query, rows).data = query.data
      BY <1>1, AnswerFacts
    <3>3. /\ Fresh(Sent(query), Current) /\ Fresh(Failed(query), Current)
          /\ Fresh(Answered(query, rows), Current)
      BY <1>1, <1>2, FreshFacts
    <3>4. QED
      BY <2>1, <3>1, <3>2, <3>3
  <2>2. CASE query' = Loaded(query) /\ query.fetch = "back"
    <3>1. Loaded(query) \in QueryOf(L!Table) /\ Loaded(query).data = query.got
      BY <1>1, LoadedFacts
    <3>2. query.got \in Current
      BY <1>1, <2>2 DEF Fresh
    <3>3. query.got # None
      BY <3>2, ListsAssumption DEF Current
    <3>4. Fresh(Loaded(query), Current)
      BY <1>1, <2>2, FreshFacts
    <3>5. QED
      BY <2>2, <3>1, <3>3, <3>4
  <2>3. QED
    BY <2>1, <2>2, LCache DEF L!ServeQuery, L!QueryArrives, L!QueryFails, L!Refetch
<1>5. L!TypeOK'
  BY <1>1, <1>3, <1>4, LCache DEF L!TypeOK
<1>6. RowsHold' /\ RemovalsHold' /\ ChangeHolds'
  BY <1>1, <1>3, <1>4 DEF RowsHold, RemovalsHold, ChangeHolds
<1>7. Fresh(query, Current)'
  <2>1. Current' = Current
    BY <1>3 DEF Current
  <2>2. QED
    BY <1>4, <2>1 DEF Fresh
<1>8. QED
  BY <1>5, <1>6, <1>7 DEF ListsInv

\* A row disappears: removed from here or elsewhere.
LEMMA RowGone ==
  ASSUME ListsInv, NEW r \in Rows, rows' = [rows EXCEPT ![r] = 0],
         UNCHANGED <<used, query, change, gone, made>>
  PROVE  /\ rows' \in L!Table /\ RowsHold' /\ ChangeHolds' /\ Fresh(query, Current)'
         /\ \A s \in Rows : rows[s] = 0 => rows'[s] = 0
<1>1. /\ L!TypeOK /\ RowsHold /\ ChangeHolds /\ Fresh(query, Current)
      /\ rows \in [Rows -> L!Ver] /\ 0 \in L!Ver /\ change \in L!Change
  BY ListsTypes DEF ListsInv, L!TypeOK, L!Table
<1>2. rows'[r] = 0 /\ \A s \in Rows : s # r => rows'[s] = rows[s]
  BY <1>1
<1>3. rows' \in L!Table
  BY <1>1 DEF L!Table
<1>4. \A s \in Rows : rows'[s] = rows[s] \/ rows'[s] = 0
  BY <1>2
<1>5. RowsHold'
  BY <1>1, <1>4 DEF RowsHold
<1>6. ChangeHolds'
  <2>1. change.st = "ok" => change.row \in Rows
    BY <1>1 DEF ChangeHolds, L!Change
  <2>2. QED
    BY <1>1, <1>4, <2>1 DEF ChangeHolds
<1>7. Current \subseteq Current'
  BY <1>4 DEF Current
<1>8. QED
  BY <1>1, <1>3, <1>4, <1>5, <1>6, <1>7, FreshGrows DEF Fresh

LEMMA ListServer ==
  ASSUME ListsInv,
         (\E x \in removals : L!ServeRemoval(x)) \/ L!ServeChange \/ (\E r \in Rows : L!Elsewhere(r))
  PROVE  ListsInv'
<1>1. /\ L!TypeOK /\ RowsHold /\ RemovalsHold /\ ChangeHolds /\ Fresh(query, Current)
      /\ events \in 0 .. MaxListEvents /\ removals \in SUBSET L!Removal
      /\ change \in L!Change /\ rows \in [Rows -> L!Ver] /\ used \subseteq Rows
  BY ListsTypes DEF ListsInv, L!TypeOK, L!Table
<1>2. ASSUME NEW x \in removals, L!ServeRemoval(x) PROVE ListsInv'
  <2>1. PICK st \in {"ok", "refused"} :
          removals' = L!Moved(x, st) /\ (st = "ok" => rows[x.row] # 0)
    BY <1>2 DEF L!ServeRemoval
  <2>2. /\ rows' = [rows EXCEPT ![x.row] = 0]
        /\ UNCHANGED <<list, free, known, used, query, confirm, dialog, change, gone, made,
                       clicks, events>>
    BY <1>2 DEF L!ServeRemoval
  <2>3. x \in L!Removal /\ x.row \in Rows
    BY <1>1 DEF L!Removal
  <2> DEFINE y == [x EXCEPT !.st = st]
  <2>4. y \in L!Removal /\ y.st = st /\ y.row = x.row
    BY <2>3 DEF L!Removal
  <2>5. removals' = (removals \ {x}) \cup {y}
    BY <2>1 DEF L!Moved
  <2> HIDE DEF y
  <2>6. rows' \in L!Table /\ RowsHold' /\ ChangeHolds' /\ Fresh(query, Current)'
        /\ \A s \in Rows : rows[s] = 0 => rows'[s] = 0
    BY <2>2, <2>3, RowGone
  <2>7. RemovalsHold'
    <3>1. rows'[x.row] = 0
      BY <1>1, <2>2, <2>3
    <3>2. st = "ok" => x.row \in used
      BY <1>1, <2>1, <2>3 DEF RowsHold
    <3>3. ASSUME NEW z \in removals', z.st = "ok" PROVE z.row \in used' /\ rows'[z.row] = 0
      <4>1. CASE z = y
        BY <2>2, <2>4, <3>1, <3>2, <3>3, <4>1
      <4>2. CASE z # y
        <5>1. z \in removals /\ z.row \in Rows
          BY <1>1, <2>5, <4>2 DEF L!Removal
        <5>2. QED
          BY <1>1, <2>2, <2>6, <3>3, <5>1 DEF RemovalsHold
      <4>3. QED
        BY <4>1, <4>2
    <3>4. query'.data # None
      BY <1>1, <1>2, <2>2 DEF RemovalsHold
    <3>5. QED
      BY <3>3, <3>4 DEF RemovalsHold
  <2>8. removals' \in SUBSET L!Removal
    BY <1>1, <2>4, <2>5
  <2>9. L!TypeOK'
    BY <1>1, <2>2, <2>6, <2>8 DEF L!TypeOK
  <2>10. QED
    BY <2>6, <2>7, <2>9 DEF ListsInv
<1>3. ASSUME NEW r \in Rows, L!Elsewhere(r) PROVE ListsInv'
  <2>1. /\ rows' = [rows EXCEPT ![r] = 0] /\ events < MaxListEvents /\ events' = events + 1
        /\ UNCHANGED <<list, free, known, used, query, confirm, dialog, removals, change, gone,
                       made, clicks>>
    BY <1>3 DEF L!Elsewhere
  <2>2. rows' \in L!Table /\ RowsHold' /\ ChangeHolds' /\ Fresh(query, Current)'
        /\ \A s \in Rows : rows[s] = 0 => rows'[s] = 0
    BY <2>1, RowGone
  <2>3. RemovalsHold'
    <3>1. \A x \in removals : x.row \in Rows
      BY <1>1 DEF L!Removal
    <3>2. QED
      BY <1>1, <2>1, <2>2, <3>1 DEF RemovalsHold
  <2>4. events' \in 0 .. MaxListEvents
    BY <1>1, <2>1, ListsAssumption
  <2>5. L!TypeOK'
    BY <1>1, <2>1, <2>2, <2>4 DEF L!TypeOK
  <2>6. QED
    BY <2>2, <2>3, <2>5 DEF ListsInv
<1>4. CASE L!ServeChange
  <2> DEFINE r == change.row
  <2>1. /\ change.st = "sent" /\ r \in Rows
        /\ UNCHANGED <<list, free, known, query, confirm, dialog, removals, gone, made, clicks>>
    BY <1>1, <1>4 DEF L!ServeChange, ChangeHolds, L!Change
  <2>2. CASE /\ (r \in used => rows[r] > 0) /\ rows[r] + 1 \in L!Ver
             /\ rows' = [rows EXCEPT ![r] = @ + 1] /\ used' = used \cup {r}
             /\ change' = [change EXCEPT !.st = "ok", !.ver = rows[r] + 1]
             /\ UNCHANGED events
    <3>1. /\ rows' \in [Rows -> L!Ver] /\ rows'[r] = rows[r] + 1
          /\ \A s \in Rows : s # r => rows'[s] = rows[s]
      BY <1>1, <2>1, <2>2
    <3>2. /\ change' \in L!Change /\ change'.st = "ok" /\ change'.row = r
          /\ change'.ver = rows[r] + 1
      BY <1>1, <2>2 DEF L!Change
    <3>3. rows \in [Rows -> Nat] /\ made \in [Rows -> Nat]
      BY <1>1, ListsTypes
    <3> HIDE DEF r
    <3>4. r \notin gone
      BY <1>1, <2>1, <2>2, <3>3 DEF RowsHold
    <3>5. made[r] <= rows[r]
      <4>1. CASE r \in used
        BY <1>1, <2>1, <2>2, <3>3, <4>1 DEF RowsHold
      <4>2. CASE r \notin used
        <5>1. made[r] = 0 /\ rows[r] = 0
          BY <1>1, <2>1, <4>2 DEF RowsHold
        <5>2. QED
          BY <5>1
      <4>3. QED
        BY <4>1, <4>2
    <3>6. RowsHold'
      <4>1. ASSUME NEW s \in Rows
            PROVE  /\ rows'[s] # 0 => s \in used' /\ made'[s] <= rows'[s]
                   /\ s \in gone' => s \in used' /\ rows'[s] = 0
                   /\ made'[s] # 0 => s \in used'
        <5>1. CASE s = r
          <6>1. made[r] <= rows[r] + 1
            BY <2>1, <3>3, <3>5
          <6>2. QED
            BY <2>1, <2>2, <3>1, <3>4, <5>1, <6>1
        <5>2. CASE s # r
          BY <1>1, <2>1, <2>2, <3>1, <5>2 DEF RowsHold
        <5>3. QED
          BY <5>1, <5>2
      <4>2. QED
        BY <4>1 DEF RowsHold
    <3>7. Fresh(query, Current)'
      <4>1. ASSUME NEW t \in Current PROVE t \in Current'
        <5>1. t \in [Rows -> Nat]
          BY <1>1, ListsTypes DEF Current, L!Table
        <5>2. ASSUME NEW s \in Rows, rows'[s] # 0 PROVE made'[s] <= t[s]
          <6>1. CASE rows[s] # 0
            BY <2>1, <6>1 DEF Current
          <6>2. CASE rows[s] = 0
            <7>1. s = r
              BY <3>1, <5>2, <6>2
            <7>2. made[s] = 0
              BY <3>3, <3>5, <6>2, <7>1
            <7>3. QED
              BY <2>1, <5>1, <7>2
          <6>3. QED
            BY <6>1, <6>2
        <5>3. QED
          BY <2>1, <5>2 DEF Current
      <4>2. Current \subseteq Current'
        BY <4>1
      <4>3. QED
        BY <1>1, <2>1, <4>2, FreshGrows DEF Fresh
    <3>8. RemovalsHold'
      <4>1. ASSUME NEW x \in removals, x.st = "ok" PROVE x.row \in used' /\ rows'[x.row] = 0
        <5>1. x.row \in used /\ rows[x.row] = 0 /\ x.row \in Rows
          BY <1>1, <4>1 DEF RemovalsHold, L!Removal
        <5>2. x.row # r
          BY <2>2, <5>1
        <5>3. QED
          BY <2>2, <3>1, <5>1, <5>2
      <4>2. QED
        BY <1>1, <2>1, <4>1 DEF RemovalsHold
    <3>9. ChangeHolds'
      <4>1. r # None /\ rows[r] + 1 <= rows[r] + 1
        BY <2>1, <3>3, ListsAssumption
      <4>2. QED
        BY <2>1, <2>2, <3>1, <3>2, <4>1 DEF ChangeHolds
    <3>10. L!TypeOK'
      BY <1>1, <2>1, <2>2, <3>1, <3>2 DEF L!TypeOK, L!Table
    <3>11. QED
      BY <3>6, <3>7, <3>8, <3>9, <3>10 DEF ListsInv
  <2>3. CASE /\ change' = [change EXCEPT !.st = "refused"] /\ UNCHANGED <<rows, used>>
             /\ events' = events \/ (events < MaxListEvents /\ events' = events + 1)
    <3>1. change' \in L!Change /\ change'.st = "refused" /\ change'.row = r
      BY <1>1, <2>3 DEF L!Change
    <3>2. events' \in 0 .. MaxListEvents
      BY <1>1, <2>3, ListsAssumption
    <3>3. RemovalsHold' /\ ChangeHolds'
      BY <1>1, <2>1, <2>3, <3>1, ListsAssumption DEF RemovalsHold, ChangeHolds
    <3>4. /\ known' \in BOOLEAN /\ confirm' \in Rows \cup {None} /\ dialog' \in L!Dialog
          /\ removals' \in SUBSET L!Removal /\ clicks' \in 0 .. MaxClicks
      BY <1>1, <2>1 DEF L!TypeOK
    <3>5. QED
      BY <2>1, <2>3, <3>1, <3>2, <3>3, <3>4, ListsRest
  <2>4. QED
    BY <1>4, <2>2, <2>3 DEF L!ServeChange
<1>5. QED
  BY <1>2, <1>3, <1>4

\* A removal or a change is acknowledged.  The list is loaded, or nothing is noted: its
\* query is asked again, and what it holds is marked.
LEMMA ListAcked ==
  ASSUME ListsInv,
         \/ \E x \in removals : L!RemovalArrives(x) /\ x.st = "ok"
         \/ L!ChangeArrives /\ change.st = "ok"
  PROVE  ListsInv'
<1>1. /\ L!TypeOK /\ RowsHold /\ RemovalsHold /\ ChangeHolds /\ Fresh(query, Current)
      /\ removals \in SUBSET L!Removal /\ change \in L!Change
      /\ rows \in [Rows -> L!Ver] /\ made \in [Rows -> L!Ver]
      /\ used \subseteq Rows /\ gone \subseteq Rows /\ query \in QueryOf(L!Table)
  BY ListsTypes DEF ListsInv, L!TypeOK, L!Table
<1> DEFINE q == Invalidated(query, TRUE)
<1>2. q \in QueryOf(L!Table) /\ q.data = query.data
  BY <1>1, InvalidatedFacts
<1>3. IsLoading(query) \/ \A G : Fresh(q, G)
  <2>1. ~IsLoading(query) => \A G : Fresh(q, G)
    BY <1>1, FreshWhenHeard
  <2>2. QED
    BY <2>1
<1>4. IsLoading(query) => query.data = None
  BY DEF IsLoading
<1>5. Fresh(q, Current)
  BY <1>1, FreshFacts
<1> HIDE DEF q
<1>6. ASSUME NEW x \in removals, L!RemovalArrives(x), x.st = "ok" PROVE ListsInv'
  <2>1. /\ query' = q /\ removals' = L!Moved(x, "settling") /\ gone' = gone \cup {x.row}
        /\ UNCHANGED <<list, free, known, rows, used, confirm, dialog, change, made, clicks, events>>
    BY <1>6, LCache DEF L!RemovalArrives, L!OnSuccess, q
  <2>2. query.data # None
    BY <1>1, <1>6 DEF RemovalsHold
  <2>3. \A G : Fresh(q, G)
    BY <1>3, <1>4, <2>2
  <2>4. /\ removals' \in SUBSET L!Removal
        /\ \A y \in removals' : y.st = "ok" => y \in removals
    BY <2>1, MovedRemoval
  <2>5. x.row \in used /\ rows[x.row] = 0 /\ x.row \in Rows
    BY <1>1, <1>6 DEF RemovalsHold, L!Removal
  <2>6. RowsHold'
    BY <1>1, <2>1, <2>5 DEF RowsHold
  <2>7. RemovalsHold' /\ ChangeHolds'
    BY <1>1, <1>2, <2>1, <2>2, <2>4 DEF RemovalsHold, ChangeHolds
  <2>8. Fresh(query, Current)'
    <3>1. Fresh(query', Current')
      BY <2>1, <2>3
    <3>2. QED
      BY <3>1 DEF Fresh
  <2>9. L!TypeOK'
    BY <1>1, <1>2, <2>1, <2>4, <2>5, LCache DEF L!TypeOK
  <2>10. QED
    BY <2>6, <2>7, <2>8, <2>9 DEF ListsInv
<1>7. CASE L!ChangeArrives /\ change.st = "ok"
  <2>1. /\ query' = q /\ change' = [change EXCEPT !.st = "settling"]
        /\ made' = IF IsLoading(query) THEN made ELSE [made EXCEPT ![change.row] = change.ver]
        /\ UNCHANGED <<list, free, known, rows, used, confirm, dialog, removals, gone, clicks, events>>
    BY <1>7, LCache DEF L!ChangeArrives, L!OnSuccess, q
  <2>2. /\ change.row \in used /\ change.row \in Rows /\ change.ver \in L!Ver
        /\ rows[change.row] # 0 => change.ver <= rows[change.row]
    BY <1>1, <1>7 DEF ChangeHolds, L!Change
  <2>3. change' \in L!Change /\ change'.st = "settling" /\ change'.row = change.row
    BY <1>1, <2>1 DEF L!Change
  <2>4. RemovalsHold' /\ ChangeHolds'
    BY <1>1, <1>2, <2>1, <2>2, <2>3, ListsAssumption DEF RemovalsHold, ChangeHolds
  <2>5. made' \in L!Table /\ RowsHold' /\ Fresh(query, Current)'
    <3>1. CASE IsLoading(query)
      <4>1. made' = made
        BY <2>1, <3>1
      <4>2. Current' = Current
        BY <2>1, <4>1 DEF Current
      <4>3. QED
        BY <1>1, <1>5, <2>1, <4>1, <4>2 DEF RowsHold, Fresh, L!Table
    <3>2. CASE ~IsLoading(query)
      <4>1. made' = [made EXCEPT ![change.row] = change.ver]
        BY <2>1, <3>2
      <4>2. /\ made' \in [Rows -> L!Ver] /\ made'[change.row] = change.ver
            /\ \A r \in Rows : r # change.row => made'[r] = made[r]
        BY <1>1, <2>2, <4>1
      <4>3. RowsHold'
        BY <1>1, <2>1, <2>2, <4>2 DEF RowsHold
      <4>4. Fresh(query', Current')
        BY <1>3, <2>1, <3>2
      <4>5. QED
        BY <4>2, <4>3, <4>4 DEF Fresh, L!Table
    <3>3. QED
      BY <3>1, <3>2
  <2>6. L!TypeOK'
    BY <1>1, <1>2, <2>1, <2>3, <2>5, LCache DEF L!TypeOK
  <2>7. QED
    BY <2>4, <2>5, <2>6 DEF ListsInv
<1>8. QED
  BY <1>6, <1>7

LEMMA ListsInitHolds == L!Init => ListsInv
<1>1. SUFFICES ASSUME L!Init PROVE ListsInv
  OBVIOUS
<1>2. query = Sent(NewQuery) /\ Sent(NewQuery) \in QueryOf(L!Table) /\ Sent(NewQuery).data = None
  <2>1. NewQuery \in QueryOf(L!Table) /\ NewQuery.data = None
    BY NewQueryType DEF NewQuery
  <2>2. QED
    BY <1>1, <2>1, SentFacts, LCache DEF L!Init
<1>3. /\ 0 \in L!Ver /\ 1 \in L!Ver /\ FirstRows \subseteq Rows /\ used = FirstRows
      /\ rows = [r \in Rows |-> IF r \in FirstRows THEN 1 ELSE 0]
      /\ made = [r \in Rows |-> 0] /\ gone = {} /\ removals = {} /\ confirm = None
      /\ change = L!NoChange /\ dialog = L!NoDialog
  BY <1>1, ListsAssumption DEF L!Init, L!Ver, L!NoRows
<1>4. rows \in L!Table /\ made \in L!Table
  BY <1>3 DEF L!Table
<1>5. L!NoChange \in L!Change /\ L!NoChange.st = "idle" /\ L!NoDialog \in L!Dialog
  BY <1>3 DEF L!NoChange, L!Change, L!NoDialog, L!Dialog
<1>6. L!TypeOK
  <2>1. list \in Lists /\ free \in BOOLEAN /\ known \in BOOLEAN /\ clicks = 0 /\ events = 0
    BY <1>1 DEF L!Init
  <2>2. 0 \in 0 .. MaxClicks /\ 0 \in 0 .. MaxListEvents
    BY ListsAssumption
  <2>3. QED
    BY <1>2, <1>3, <1>4, <1>5, <2>1, <2>2, LCache DEF L!TypeOK
<1>7. RowsHold
  <2>1. \A r \in Rows : /\ rows[r] # 0 => r \in FirstRows /\ rows[r] = 1
                        /\ made[r] = 0
    BY <1>3
  <2>2. QED
    BY <1>3, <2>1 DEF RowsHold
<1>8. RemovalsHold /\ ChangeHolds
  BY <1>3, <1>5 DEF RemovalsHold, ChangeHolds
<1>9. Fresh(query, Current)
  BY <1>2, FreshWhenNew
<1>10. QED
  BY <1>6, <1>7, <1>8, <1>9 DEF ListsInv

LEMMA ListsNextHolds == ListsInv /\ [L!Next]_(L!vars) => ListsInv'
<1>1. SUFFICES ASSUME ListsInv, [L!Next]_(L!vars) PROVE ListsInv'
  OBVIOUS
<1>2. CASE \/ \E r \in Rows : L!AskRemove(r)
           \/ \E r \in Rows \cup {None} : L!OpenDialog(r)
           \/ L!CancelRemove \/ L!Confirm \/ L!CloseDialog \/ L!Submit \/ L!KnownArrives
  BY <1>1, <1>2, ListClicks
<1>3. ASSUME NEW x \in removals,
             L!ServeRemoval(x) \/ L!RemovalFails(x) \/ L!RemovalArrives(x) \/ L!RemovalSettles(x)
      PROVE  ListsInv'
  BY <1>1, <1>3, ListServer, ListEnds, ListAcked
<1>4. CASE L!ServeChange \/ L!ChangeArrives \/ L!ChangeSettles
  BY <1>1, <1>4, ListServer, ListEnds, ListAcked
<1>5. CASE L!ServeQuery \/ L!QueryArrives \/ L!QueryFails \/ L!Refetch
  BY <1>1, <1>5, ListQuery
<1>6. ASSUME NEW r \in Rows, L!Elsewhere(r) PROVE ListsInv'
  BY <1>1, <1>6, ListServer
<1>7. CASE UNCHANGED L!vars
  <2>1. RemovalsHold' /\ ChangeHolds'
    BY <1>1, <1>7 DEF L!vars, ListsInv, RemovalsHold, ChangeHolds
  <2>2. QED
    BY <1>1, <1>7, <2>1, ListsRest DEF L!vars, ListsInv, L!TypeOK
<1>8. QED
  BY <1>1, <1>2, <1>3, <1>4, <1>5, <1>6, <1>7 DEF L!Next

LEMMA ListsMean == ListsInv => L!TypeOK /\ L!GoneStaysGone /\ L!MadeIsShown
<1>1. SUFFICES ASSUME ListsInv, L!Settled
               PROVE  gone \cap L!Shown = {} /\ \A r \in Rows : rows[r] > 0 => query.data[r] >= made[r]
  BY DEF ListsInv, L!GoneStaysGone, L!MadeIsShown
<1>2. query.data \in Current
  BY <1>1 DEF ListsInv, L!Settled, Fresh
<1>3. query.data \in [Rows -> Nat] /\ rows \in [Rows -> Nat] /\ made \in [Rows -> Nat]
  BY <1>1, <1>2, ListsTypes DEF ListsInv, Current, L!Table
<1>4. gone \cap L!Shown = {}
  BY <1>2 DEF Current, L!Shown
<1>5. ASSUME NEW r \in Rows, rows[r] > 0 PROVE query.data[r] >= made[r]
  <2>1. made[r] <= query.data[r]
    BY <1>2, <1>5 DEF Current
  <2>2. QED
    BY <1>3, <2>1
<1>6. QED
  BY <1>4, <1>5

LEMMA ListsSteps ==
  ASSUME [MCNext]_allVars, page = "lists"
  PROVE  page' = page /\ [L!Next]_(L!vars)
BY DEF MCNext, allVars, LOwn, L!vars

----------------------------------------------------------------------------
(***************************************************************************)
(* Own writes on the support pages                                         *)
(***************************************************************************)

\* The contents of a page that are not older than what was sent from it and acknowledged.
Recent(p) == {S \in SUBSET U!Of(p) : acked \cap U!Of(p) \subseteq S}

\* What was acknowledged is kept, and the queries of both pages are fresh.
SupportFresh ==
  /\ acked \subseteq stored
  /\ \A x \in sends : x.item \in U!Of(x.page) /\ (x.st = "ok" => x.item \in stored)
  /\ \A p \in U!Pages : Fresh(query[p], Recent(p))

SupportInv == U!TypeOK /\ query = [p \in U!Pages |-> query[p]] /\ visits <= events /\ SupportFresh

LEMMA SupportTypes ==
  ASSUME SupportInv
  PROVE  /\ \A p \in U!Pages : query[p] \in QueryOf(SUBSET U!Of(p))
         /\ query = [p \in U!Pages |-> query[p]]
         /\ view \in U!Pages \cup {"other"} /\ open \in BOOLEAN
         /\ text \in 0 .. MaxTexts /\ texts \in 0 .. MaxTexts
         /\ visits \in 0 .. MaxSupportEvents /\ events \in 0 .. MaxSupportEvents
         /\ sends \subseteq U!Send /\ stored \subseteq U!Items /\ acked \subseteq U!Items
BY UCache DEF SupportInv, U!TypeOK

LEMMA SupportPages ==
  /\ U!Of("list") = Tickets /\ U!Of("ticket") = Messages
  /\ \A p \in U!Pages : U!Of(p) \subseteq U!Items
  /\ \A p, q \in U!Pages : p # q => U!Of(p) \cap U!Of(q) = {}
  /\ \A p \in U!Pages : None \notin SUBSET U!Of(p)
<1>1. U!Of("list") = Tickets /\ U!Of("ticket") = Messages
  BY DEF U!Of
<1>2. \A p \in U!Pages : U!Of(p) \in {Tickets, Messages}
  BY <1>1 DEF U!Pages
<1>3. Tickets \cup Messages = U!Items
  BY DEF U!Items
<1>4. \A p, q \in U!Pages : p # q => U!Of(p) \cap U!Of(q) = {}
  BY <1>1, SupportAssumption DEF U!Pages
<1>5. \A p \in U!Pages : U!Of(p) \subseteq U!Items
  BY <1>2, <1>3
<1>6. ASSUME NEW p \in U!Pages PROVE None \notin SUBSET U!Of(p)
  <2>1. \A S \in SUBSET U!Of(p) : S \in SUBSET (Tickets \cup Messages)
    BY <1>3, <1>5
  <2>2. QED
    BY <2>1, SupportAssumption
<1>7. QED
  BY <1>1, <1>4, <1>5, <1>6

\* A step of the pages, the text and the requests that leaves the query of each page fresh.
LEMMA SupportStep ==
  ASSUME SupportInv, acked' = acked, stored \subseteq stored', stored' \subseteq U!Items,
         view' \in U!Pages \cup {"other"}, open' \in BOOLEAN,
         text' \in 0 .. MaxTexts, texts' \in 0 .. MaxTexts,
         events' \in 0 .. MaxSupportEvents, visits' \in Nat, visits' <= events',
         sends' \subseteq U!Send,
         \A x \in sends' : x.item \in U!Of(x.page) /\ (x.st = "ok" => x.item \in stored'),
         NEW q, query' = [p \in U!Pages |-> q[p]],
         \A p \in U!Pages : q[p] \in QueryOf(SUBSET U!Of(p)) /\ Fresh(q[p], Recent(p))
  PROVE  SupportInv'
<1>1. \A p \in U!Pages : query'[p] = q[p]
  OBVIOUS
<1>2. query' = [p \in U!Pages |-> query'[p]]
  BY <1>1
<1>3. visits' \in 0 .. MaxSupportEvents
  BY SupportAssumption
<1>4. acked \subseteq U!Items /\ acked \subseteq stored
  BY SupportTypes DEF SupportInv, SupportFresh
<1>5. U!TypeOK'
  BY <1>1, <1>3, <1>4, UCache DEF U!TypeOK
<1>6. ASSUME NEW p \in U!Pages PROVE Fresh(query'[p], Recent(p)')
  <2>1. Recent(p)' = Recent(p)
    BY DEF Recent
  <2>2. QED
    BY <1>1, <2>1
<1>7. SupportFresh'
  BY <1>4, <1>6 DEF SupportFresh, Fresh
<1>8. QED
  BY <1>2, <1>5, <1>7 DEF SupportInv

\* The queries stay as they are.
LEMMA SupportQuiet ==
  ASSUME SupportInv
  PROVE  /\ query = [p \in U!Pages |-> query[p]]
         /\ \A p \in U!Pages : query[p] \in QueryOf(SUBSET U!Of(p)) /\ Fresh(query[p], Recent(p))
         /\ visits \in Nat /\ visits <= events
         /\ \A x \in sends : x.item \in U!Of(x.page) /\ (x.st = "ok" => x.item \in stored)
BY SupportTypes DEF SupportInv, SupportFresh

\* One query changes, into one that is fresh.
LEMMA SupportEntry ==
  ASSUME SupportInv, NEW p \in U!Pages, NEW e \in QueryOf(SUBSET U!Of(p)), Fresh(e, Recent(p)),
         NEW q, q = [query EXCEPT ![p] = e]
  PROVE  /\ q = [r \in U!Pages |-> q[r]]
         /\ \A r \in U!Pages : q[r] \in QueryOf(SUBSET U!Of(r)) /\ Fresh(q[r], Recent(r))
<1>1. /\ query = [r \in U!Pages |-> query[r]]
      /\ \A r \in U!Pages : query[r] \in QueryOf(SUBSET U!Of(r)) /\ Fresh(query[r], Recent(r))
  BY SupportQuiet
<1>2. q = [r \in U!Pages |-> IF r = p THEN e ELSE query[r]]
  BY <1>1
<1>3. \A r \in U!Pages : q[r] = IF r = p THEN e ELSE query[r]
  BY <1>2
<1>4. QED
  BY <1>1, <1>2, <1>3

\* What the operations leave of a query that is fresh.
LEMMA SupportKept ==
  ASSUME SupportInv, NEW p \in U!Pages, NEW e,
         \/ e \in {Sent(query[p]), Failed(query[p]), query[p], Answered(query[p], stored \cap U!Of(p))}
         \/ \E x \in BOOLEAN : e \in {Activated(query[p], x), Invalidated(query[p], x)}
         \/ query[p].fetch = "back" /\ e = Loaded(query[p])
  PROVE  e \in QueryOf(SUBSET U!Of(p)) /\ Fresh(e, Recent(p))
<1> DEFINE D == SUBSET U!Of(p)
           G == Recent(p)
           d == stored \cap U!Of(p)
<1>1. query[p] \in QueryOf(D) /\ Fresh(query[p], G)
  BY SupportQuiet
<1>2. d \in D /\ d \in G
  <2>1. acked \subseteq stored
    BY DEF SupportInv, SupportFresh
  <2>2. QED
    BY <2>1 DEF Recent
<1> HIDE DEF D, G, d
<1>3. PICK r \in QueryOf(D) : r = query[p] /\ Fresh(r, G)
  BY <1>1
<1>4. /\ Sent(r) \in QueryOf(D) /\ Fresh(Sent(r), G)
      /\ Failed(r) \in QueryOf(D) /\ Fresh(Failed(r), G)
  BY <1>3, SentFacts, FailedFacts, FreshFacts
<1>5. Answered(r, d) \in QueryOf(D) /\ Fresh(Answered(r, d), G)
  BY <1>2, <1>3, AnswerFacts, FreshFacts
<1>6. ASSUME NEW x \in BOOLEAN
      PROVE  /\ Activated(r, x) \in QueryOf(D) /\ Fresh(Activated(r, x), G)
             /\ Invalidated(r, x) \in QueryOf(D) /\ Fresh(Invalidated(r, x), G)
  <2>1. Activated(r, x) \in QueryOf(D)
    BY ActivatedFacts
  <2>2. Invalidated(r, x) \in QueryOf(D)
    BY InvalidatedFacts
  <2>3. QED
    BY <1>3, <2>1, <2>2, FreshFacts
<1>7. r.fetch = "back" => Loaded(r) \in QueryOf(D) /\ Fresh(Loaded(r), G)
  BY <1>3, LoadedFacts, FreshFacts
<1>8. QED
  BY <1>3, <1>4, <1>5, <1>6, <1>7 DEF D, G, d

\* The query of page p becomes e, which is served, answered, failed or sent again.
Becomes(p, e) ==
  /\ query' = [query EXCEPT ![p] = e]
  /\ \/ e \in {Sent(query[p]), Failed(query[p]), Answered(query[p], stored \cap U!Of(p))}
     \/ query[p].fetch = "back" /\ e = Loaded(query[p])
  /\ UNCHANGED <<view, visits, open, text, texts, sends, stored, acked>>
  /\ events' = events \/ (events < MaxSupportEvents /\ events' = events + 1)

\* The steps of the queries, and their retries.
LEMMA SupportQueries ==
  ASSUME SupportInv,
         \/ \E p \in U!Pages : U!ServeQuery(p) \/ U!QueryArrives(p) \/ U!QueryFails(p)
         \/ U!Retry \/ U!Poll
  PROVE  SupportInv'
<1>1. PICK p \in U!Pages : \E e : Becomes(p, e)
  <2>1. "ticket" \in U!Pages
    BY DEF U!Pages
  <2>2. CASE U!Poll
    BY <2>1, <2>2, UCache DEF U!Poll, Becomes
  <2>3. CASE U!Retry
    BY <2>3, UCache DEF U!Retry, Becomes
  <2>4. ASSUME NEW p \in U!Pages, U!ServeQuery(p) \/ U!QueryArrives(p) \/ U!QueryFails(p)
        PROVE  \E e : Becomes(p, e)
    BY <2>4, UCache DEF U!ServeQuery, U!QueryArrives, U!QueryFails, Becomes
  <2>5. QED
    BY <2>2, <2>3, <2>4
<1>2. PICK e : Becomes(p, e)
  BY <1>1
<1>3. e \in QueryOf(SUBSET U!Of(p)) /\ Fresh(e, Recent(p))
  BY <1>1, <1>2, SupportKept DEF Becomes
<1>4. \A q : q = [query EXCEPT ![p] = e] =>
              /\ q = [r \in U!Pages |-> q[r]]
              /\ \A r \in U!Pages : q[r] \in QueryOf(SUBSET U!Of(r)) /\ Fresh(q[r], Recent(r))
  BY <1>1, <1>3, SupportEntry, Zenon
<1>5. PICK q : /\ q = query' /\ q = [r \in U!Pages |-> q[r]]
               /\ \A r \in U!Pages : q[r] \in QueryOf(SUBSET U!Of(r)) /\ Fresh(q[r], Recent(r))
  BY <1>2, <1>4 DEF Becomes
<1>6. events' \in 0 .. MaxSupportEvents /\ visits' \in Nat /\ visits' <= events'
  BY <1>2, SupportTypes, SupportQuiet, SupportAssumption DEF Becomes
<1>7. QED
  BY <1>2, <1>5, <1>6, SupportTypes, SupportQuiet, SupportStep DEF Becomes

\* A page is opened.
LEMMA SupportGo ==
  ASSUME SupportInv, NEW p \in U!Pages \cup {"other"}, NEW stale \in BOOLEAN, U!Go(p, stale)
  PROVE  SupportInv'
<1>1. PICK q : /\ q = query' /\ q = [r \in U!Pages |-> q[r]]
               /\ \A r \in U!Pages : q[r] \in QueryOf(SUBSET U!Of(r)) /\ Fresh(q[r], Recent(r))
  <2>1. CASE p \in U!Pages
    <3>1. query' = [query EXCEPT ![p] = Activated(query[p], stale)]
      BY <2>1, UCache DEF U!Go
    <3>2. /\ Activated(query[p], stale) \in QueryOf(SUBSET U!Of(p))
          /\ Fresh(Activated(query[p], stale), Recent(p))
      BY <2>1, SupportKept
    <3>3. QED
      BY <2>1, <3>1, <3>2, SupportEntry
  <2>2. CASE p \notin U!Pages
    BY <2>2, SupportQuiet DEF U!Go
  <2>3. QED
    BY <2>1, <2>2
<1>2. /\ view' = p /\ open' = FALSE /\ text' = 0 /\ events < MaxSupportEvents
      /\ events' = events + 1 /\ visits' = visits + 1
      /\ UNCHANGED <<texts, sends, stored, acked>>
  BY DEF U!Go
<1>3. events' \in 0 .. MaxSupportEvents /\ visits' \in Nat /\ visits' <= events'
  BY <1>2, SupportTypes, SupportQuiet, SupportAssumption
<1>4. text' \in 0 .. MaxTexts
  BY <1>2, SupportAssumption
<1>5. QED
  BY <1>1, <1>2, <1>3, <1>4, SupportTypes, SupportQuiet, SupportStep

\* The form and its text.
LEMMA SupportForm ==
  ASSUME SupportInv, U!Toggle \/ U!Type \/ U!Submit PROVE SupportInv'
<1>1. /\ UNCHANGED <<view, visits, stored, query, acked, events>>
      /\ view' \in U!Pages \cup {"other"} /\ events' \in 0 .. MaxSupportEvents
      /\ visits' \in Nat /\ visits' <= events' /\ stored' \subseteq U!Items
  BY SupportTypes, SupportQuiet DEF U!Toggle, U!Type, U!Submit
<1>2. CASE U!Toggle
  <2>1. open' = ~open /\ UNCHANGED <<text, texts, sends>>
    BY <1>2 DEF U!Toggle
  <2>2. open' \in BOOLEAN
    BY <2>1
  <2>3. QED
    BY <1>1, <2>1, <2>2, SupportTypes, SupportQuiet, SupportStep
<1>3. CASE U!Type
  <2>1. texts < MaxTexts /\ texts' = texts + 1 /\ text' = texts + 1 /\ UNCHANGED <<open, sends>>
    BY <1>3 DEF U!Type
  <2>2. texts' \in 0 .. MaxTexts /\ text' \in 0 .. MaxTexts
    BY <2>1, SupportTypes, SupportAssumption
  <2>3. QED
    BY <1>1, <2>1, <2>2, SupportTypes, SupportQuiet, SupportStep
<1>4. CASE U!Submit
  <2>1. PICK i \in U!Of(view) : sends' = sends \cup
          {[page |-> view, visit |-> visits, text |-> text, item |-> i, st |-> "sent"]}
    BY <1>4 DEF U!Submit
  <2>2. view \in U!Pages /\ text # 0 /\ UNCHANGED <<open, text, texts>>
    BY <1>4 DEF U!Submit, U!Field, U!Pages
  <2> DEFINE y == [page |-> view, visit |-> visits, text |-> text, item |-> i, st |-> "sent"]
  <2>3. y \in U!Send /\ y.item \in U!Of(y.page) /\ y.st = "sent"
    <3>1. text \in 1 .. MaxTexts /\ i \in U!Items
      BY <2>2, SupportTypes, SupportPages, SupportAssumption
    <3>2. visits \in 0 .. MaxSupportEvents
      BY SupportTypes
    <3>3. QED
      BY <2>1, <2>2, <3>1, <3>2 DEF U!Send
  <2>4. sends' = sends \cup {y}
    BY <2>1
  <2> HIDE DEF y
  <2>5. /\ sends' \subseteq U!Send
        /\ \A x \in sends' : x.item \in U!Of(x.page) /\ (x.st = "ok" => x.item \in stored')
    BY <1>1, <2>3, <2>4, SupportTypes, SupportQuiet
  <2>6. QED
    BY <1>1, <2>2, <2>5, SupportTypes, SupportQuiet, SupportStep
<1>5. QED
  BY <1>2, <1>3, <1>4

\* What is sent is stored or fails, and the staff replies.
LEMMA SupportService ==
  ASSUME SupportInv,
         \/ \E x \in sends : U!ServeSend(x) \/ U!SendFails(x)
         \/ \E m \in Messages : U!Reply(m)
  PROVE  SupportInv'
<1>1. ASSUME NEW x \in sends, NEW st \in {"ok", "failed"}, sends' = U!Moved(x, st),
             st = "ok" => x.item \in stored', stored \subseteq stored'
      PROVE  /\ sends' \subseteq U!Send
             /\ \A y \in sends' : y.item \in U!Of(y.page) /\ (y.st = "ok" => y.item \in stored')
  <2> DEFINE y == [x EXCEPT !.st = st]
  <2>1. y \in U!Send /\ y.st = st /\ y.item = x.item /\ y.page = x.page
    <3>1. x \in U!Send
      BY SupportTypes
    <3>2. QED
      BY <3>1 DEF U!Send
  <2>2. sends' = (sends \ {x}) \cup {y}
    BY <1>1 DEF U!Moved
  <2> HIDE DEF y
  <2>3. QED
    BY <1>1, <2>1, <2>2, SupportTypes, SupportQuiet
<1>2. ASSUME NEW x \in sends, U!ServeSend(x) PROVE SupportInv'
  <2>1. /\ stored' = stored \cup {x.item} /\ sends' = U!Moved(x, "ok")
        /\ UNCHANGED <<view, visits, open, text, texts, query, acked, events>>
    BY <1>2 DEF U!ServeSend
  <2>2. stored' \subseteq U!Items
    <3>1. x \in U!Send
      BY SupportTypes
    <3>2. QED
      BY <2>1, <3>1, SupportTypes DEF U!Send
  <2>3. QED
    BY <1>1, <2>1, <2>2, SupportTypes, SupportQuiet, SupportStep
<1>3. ASSUME NEW x \in sends, U!SendFails(x) PROVE SupportInv'
  <2>1. /\ events < MaxSupportEvents /\ events' = events + 1 /\ sends' = U!Moved(x, "failed")
        /\ UNCHANGED <<view, visits, open, text, texts, stored, query, acked>>
    BY <1>3 DEF U!SendFails
  <2>2. events' \in 0 .. MaxSupportEvents /\ visits' \in Nat /\ visits' <= events'
    BY <2>1, SupportTypes, SupportQuiet, SupportAssumption
  <2>3. QED
    BY <1>1, <2>1, <2>2, SupportTypes, SupportQuiet, SupportStep
<1>4. ASSUME NEW m \in Messages, U!Reply(m) PROVE SupportInv'
  <2>1. /\ stored' = stored \cup {m}
        /\ UNCHANGED <<view, visits, open, text, texts, sends, query, acked, events>>
    BY <1>4 DEF U!Reply
  <2>2. stored' \subseteq U!Items
    BY <2>1, SupportTypes DEF U!Items
  <2>3. QED
    BY <2>1, <2>2, SupportTypes, SupportQuiet, SupportStep
<1>5. QED
  BY <1>2, <1>3, <1>4

\* A request is acknowledged: the queries of both pages are invalidated, and where the
\* page's own could not miss what was sent, nothing older is left unmarked.
LEMMA SupportAcked ==
  ASSUME SupportInv, NEW x \in sends, U!SendArrives(x) PROVE SupportInv'
<1>1. /\ sends' = sends \ {x} /\ UNCHANGED <<view, visits, texts, stored, events>>
      /\ x \in U!Send /\ x.page \in U!Pages
  BY SupportTypes DEF U!SendArrives, U!Send
<1>2. CASE x.st # "ok"
  <2>1. UNCHANGED <<query, acked, text, open>>
    BY <1>2 DEF U!SendArrives
  <2>2. /\ sends' \subseteq U!Send
        /\ \A y \in sends' : y.item \in U!Of(y.page) /\ (y.st = "ok" => y.item \in stored')
    BY <1>1, SupportTypes, SupportQuiet
  <2>3. QED
    BY <1>1, <2>1, <2>2, SupportTypes, SupportQuiet, SupportStep
<1>3. CASE x.st = "ok"
  <2>1. /\ query' = [p \in U!Pages |-> Invalidated(query[p], p = view)]
        /\ acked' = IF U!Heard(x.page) THEN acked \cup {x.item} ELSE acked
        /\ text' \in {0, text} /\ open' = (open /\ ~U!Mine(x))
    BY <1>3, UCache DEF U!SendArrives, U!OnSuccess
  <2>2. x.item \in stored /\ x.item \in U!Of(x.page) /\ x.item \in U!Items
    BY <1>1, <1>3, SupportQuiet, SupportPages
  <2>3. \A p \in U!Pages : (p = view) \in BOOLEAN
    BY Zenon
  <2>4. \A p \in U!Pages : /\ query'[p] \in QueryOf(SUBSET U!Of(p))
                           /\ Fresh(query'[p], Recent(p))
    BY <2>1, <2>3, SupportKept
  <2>5. query' = [p \in U!Pages |-> query'[p]]
    BY <2>1
  <2>6. ASSUME NEW p \in U!Pages PROVE Fresh(query'[p], Recent(p)')
    <3>1. CASE U!Heard(x.page) /\ p = x.page
      <4>1. Resting(query[p]) \/ ((p = view) /\ ~IsLoading(query[p]))
        BY <3>1, UCache DEF U!Heard
      <4>2. query[p] \in QueryOf(SUBSET U!Of(p))
        BY SupportTypes
      <4>3. \A G : Fresh(Invalidated(query[p], p = view), G)
        BY <2>3, <4>1, <4>2, FreshWhenHeard
      <4>4. QED
        BY <2>1, <4>3
    <3>2. CASE ~(U!Heard(x.page) /\ p = x.page)
      <4>1. acked' \cap U!Of(p) = acked \cap U!Of(p)
        BY <1>1, <2>1, <2>2, <3>2, SupportPages
      <4>2. Recent(p)' = Recent(p)
        BY <4>1 DEF Recent
      <4>3. QED
        BY <2>4, <4>2
    <3>3. QED
      BY <3>1, <3>2
  <2>7. acked' \subseteq stored' /\ acked' \subseteq U!Items
    BY <1>1, <2>1, <2>2, SupportTypes DEF SupportInv, SupportFresh
  <2>8. /\ sends' \subseteq U!Send
        /\ \A y \in sends' : y.item \in U!Of(y.page) /\ (y.st = "ok" => y.item \in stored')
    BY <1>1, SupportTypes, SupportQuiet
  <2>9. open' \in BOOLEAN
    BY <2>1, Zenon
  <2>10. text' \in 0 .. MaxTexts
    BY <2>1, SupportTypes, SupportAssumption
  <2>11. U!TypeOK'
    BY <1>1, <2>4, <2>7, <2>8, <2>9, <2>10, SupportTypes, UCache DEF U!TypeOK
  <2>12. SupportFresh'
    BY <2>6, <2>7, <2>8 DEF SupportFresh, Fresh
  <2>13. visits' <= events'
    BY <1>1, SupportQuiet
  <2>14. QED
    BY <2>5, <2>11, <2>12, <2>13 DEF SupportInv
<1>4. QED
  BY <1>2, <1>3

LEMMA SupportInitHolds == U!Init => SupportInv
<1>1. SUFFICES ASSUME U!Init PROVE SupportInv
  OBVIOUS
<1>2. /\ view = "list" /\ visits = 0 /\ open = FALSE /\ text = 0 /\ texts = 0 /\ sends = {}
      /\ stored = FirstTickets /\ acked = {} /\ events = 0
      /\ query = [p \in U!Pages |-> IF p = "list" THEN Sent(NewQuery) ELSE NewQuery]
  BY <1>1, UCache DEF U!Init
<1>3. \A p \in U!Pages : query[p] \in {Sent(NewQuery), NewQuery}
  BY <1>2
<1>4. \A D : Sent(NewQuery) \in QueryOf(D) /\ NewQuery \in QueryOf(D)
  BY NewQueryType, SentFacts
<1>5. \A p \in U!Pages : Fresh(query[p], Recent(p))
  BY <1>3, FreshWhenNew
<1>6. query = [p \in U!Pages |-> query[p]]
  BY <1>2
<1>7. U!TypeOK
  <2>1. /\ "list" \in U!Pages /\ stored \subseteq U!Items
        /\ 0 \in 0 .. MaxTexts /\ 0 \in 0 .. MaxSupportEvents
    BY <1>2, SupportAssumption DEF U!Pages, U!Items
  <2>2. QED
    BY <1>2, <1>3, <1>4, <2>1, UCache DEF U!TypeOK
<1>8. QED
  BY <1>2, <1>5, <1>6, <1>7 DEF SupportInv, SupportFresh

LEMMA SupportNextHolds == SupportInv /\ [U!Next]_(U!vars) => SupportInv'
<1>1. SUFFICES ASSUME SupportInv, [U!Next]_(U!vars) PROVE SupportInv'
  OBVIOUS
<1>2. CASE \E p \in U!Pages \cup {"other"}, stale \in BOOLEAN : U!Go(p, stale)
  BY <1>1, <1>2, SupportGo
<1>3. CASE U!Toggle \/ U!Type \/ U!Submit
  BY <1>1, <1>3, SupportForm
<1>4. CASE \/ \E p \in U!Pages : U!ServeQuery(p) \/ U!QueryArrives(p) \/ U!QueryFails(p)
           \/ U!Retry \/ U!Poll
  BY <1>1, <1>4, SupportQueries
<1>5. CASE \/ \E x \in sends : U!ServeSend(x) \/ U!SendFails(x)
           \/ \E m \in Messages : U!Reply(m)
  BY <1>1, <1>5, SupportService
<1>6. CASE \E x \in sends : U!SendArrives(x)
  BY <1>1, <1>6, SupportAcked
<1>7. CASE UNCHANGED U!vars
  <2>1. UNCHANGED <<view, visits, open, text, texts, sends, stored, query, acked, events>>
    BY <1>7 DEF U!vars
  <2>2. QED
    BY <1>1, <2>1, SupportTypes, SupportQuiet, SupportStep
<1>8. QED
  BY <1>1, <1>2, <1>3, <1>4, <1>5, <1>6, <1>7 DEF U!Next

LEMMA SupportMean == SupportInv => U!TypeOK /\ U!MineIsShown
<1>1. SUFFICES ASSUME SupportInv, NEW p \in U!Pages, query[p].data # None, ~query[p].invalid
               PROVE  acked \cap U!Of(p) \subseteq U!Shown(p)
  BY DEF SupportInv, U!MineIsShown
<1>2. query[p].data \in Recent(p)
  BY <1>1 DEF SupportInv, SupportFresh, Fresh
<1>3. QED
  BY <1>1, <1>2 DEF Recent, U!Shown

LEMMA SupportSteps ==
  ASSUME [MCNext]_allVars, page = "support"
  PROVE  page' = page /\ [U!Next]_(U!vars)
BY DEF MCNext, allVars, UOwn, U!vars

----------------------------------------------------------------------------
\* The invariant of the page that is looked at.
OwnWritesInv ==
  /\ page = "settings" => IInv /\ SettingsFresh
  /\ page = "lists" => ListsInv
  /\ page = "support" => SupportInv

\* What was done from here is seen here: once its requests have settled, no page shows less
\* than what this browser was told is stored, for any settings, rows, tickets and messages,
\* and whatever answers were under way or lost (the onSuccess of the mutations).
THEOREM OwnWritesAreSeen == MCSpec => []OwnWritesSeen
<1>1. MCInit => OwnWritesInv
  BY InitInv, SettingsFreshInit, ListsInitHolds, SupportInitHolds DEF MCInit, OwnWritesInv
<1>2. OwnWritesInv /\ [MCNext]_allVars => OwnWritesInv'
  <2>1. CASE page = "settings"
    BY <2>1, SettingsSteps, NextInv, SettingsFreshNext DEF OwnWritesInv
  <2>2. CASE page = "lists"
    BY <2>2, ListsSteps, ListsNextHolds DEF OwnWritesInv
  <2>3. CASE page = "support"
    BY <2>3, SupportSteps, SupportNextHolds DEF OwnWritesInv
  <2>4. CASE page \notin {"settings", "lists", "support"}
    BY <2>4 DEF MCNext, allVars, OwnWritesInv
  <2>5. QED
    BY <2>1, <2>2, <2>3, <2>4
<1>3. OwnWritesInv => OwnWritesSeen
  BY SettingsMean, ListsMean, SupportMean DEF OwnWritesInv, OwnWritesSeen, On
<1>4. QED
  BY <1>1, <1>2, <1>3, PTL DEF MCSpec

----------------------------------------------------------------------------
(***************************************************************************)
(* The usage bar: the flag of a browser session tells whether the warning  *)
(* was shown, whatever the refs of the bars say.                           *)
(***************************************************************************)

FlagCounts == toasts = IF flag THEN 1 ELSE 0
RefMeansFlag == \A b \in B!Bars : warned[b] => flag
\* A bar that is drawn near the limit: the flag is set.
NearMeansFlag ==
  shell /\ B!Drawn(plan[activeOrgID], usage[activeOrgID]) /\ B!Near(usage[activeOrgID]) => flag

BarInv == B!TypeOK /\ FlagCounts /\ RefMeansFlag /\ NearMeansFlag

----------------------------------------------------------------------------
\* The effects of a commit: whatever they are given, the flag and the count agree after
\* them, and they leave the flag set if the bar is near the limit.
LEMMA BarEffectsHold ==
  ASSUME NEW p, NEW u, NEW w \in [B!Bars -> BOOLEAN],
         flag \in BOOLEAN, FlagCounts, \A b \in B!Bars : w[b] => flag, B!Effects(p, u, w)
  PROVE  /\ warned' \in [B!Bars -> BOOLEAN] /\ flag' \in BOOLEAN /\ toasts' \in Nat
         /\ FlagCounts' /\ RefMeansFlag'
         /\ B!Drawn(p, u) /\ B!Near(u) => flag'
<1> DEFINE first  == B!Warns(p, u, w["desktop"], flag)
           second == B!Warns(p, u, w["mobile"], flag \/ first)
<1>1. /\ warned' = [b \in B!Bars |-> w[b] \/ (IF b = "desktop" THEN first ELSE second)]
      /\ flag' = (flag \/ first \/ second)
      /\ toasts' = toasts + (IF first THEN 1 ELSE 0) + (IF second THEN 1 ELSE 0)
  BY DEF B!Effects
<1>2. first \in BOOLEAN /\ second \in BOOLEAN
  BY DEF B!Warns
<1>3. first => ~flag
  BY DEF B!Warns
<1>4. second => ~flag /\ ~first
  BY DEF B!Warns
<1>5. B!Drawn(p, u) /\ B!Near(u) /\ ~flag => first
  BY DEF B!Warns, B!Bars
<1> HIDE DEF first, second
<1>6. warned' \in [B!Bars -> BOOLEAN] /\ flag' \in BOOLEAN
  BY <1>1, <1>2
<1>7. toasts' \in Nat /\ FlagCounts'
  <2>1. CASE flag
    <3>1. first = FALSE /\ second = FALSE /\ toasts = 1
      BY <1>2, <1>3, <1>4, <2>1 DEF FlagCounts
    <3>2. flag'
      BY <1>1, <2>1
    <3>3. toasts' = 1
      BY <1>1, <3>1
    <3>4. QED
      BY <3>2, <3>3 DEF FlagCounts
  <2>2. CASE ~flag
    BY <1>1, <1>2, <1>4, <2>2 DEF FlagCounts
  <2>3. QED
    BY <2>1, <2>2
<1>8. RefMeansFlag'
  BY <1>1, <1>2 DEF RefMeansFlag
<1>9. B!Drawn(p, u) /\ B!Near(u) => flag'
  BY <1>1, <1>5
<1>10. QED
  BY <1>6, <1>7, <1>8, <1>9

\* At the start nothing is known and nobody was warned.
LEMMA BarInitHolds == B!Init => BarInv
<1>1. SUFFICES ASSUME B!Init PROVE BarInv
  OBVIOUS
<1>2. B!TypeOK
  BY <1>1 DEF B!Init, B!TypeOK
<1>3. FlagCounts /\ RefMeansFlag /\ NearMeansFlag
  BY <1>1 DEF B!Init, FlagCounts, RefMeansFlag, NearMeansFlag
<1>4. QED
  BY <1>2, <1>3 DEF BarInv

\* A step without effects keeps the invariant if no bar comes near the limit by it.
LEMMA BarRestHolds ==
  ASSUME BarInv, B!TypeOK', flag' = flag, toasts' = toasts,
         \A b \in B!Bars : warned'[b] => warned[b], NearMeansFlag'
  PROVE  BarInv'
<1>1. FlagCounts'
  BY DEF BarInv, FlagCounts
<1>2. RefMeansFlag'
  BY DEF BarInv, RefMeansFlag
<1>3. QED
  BY <1>1, <1>2 DEF BarInv

\* The invariant is inductive.
LEMMA BarNextHolds == BarInv /\ [B!Next]_(B!vars) => BarInv'
<1>1. SUFFICES ASSUME BarInv, [B!Next]_(B!vars) PROVE BarInv'
  OBVIOUS
<1>2. B!TypeOK /\ FlagCounts /\ RefMeansFlag /\ NearMeansFlag
  BY <1>1 DEF BarInv
<1>3. flag \in BOOLEAN /\ warned \in [B!Bars -> BOOLEAN] /\ \A b \in B!Bars : warned[b] => flag
  BY <1>2 DEF B!TypeOK, RefMeansFlag
<1>4. CASE B!Enter
  <2> DEFINE w == [b \in B!Bars |-> FALSE]
  <2>1. w \in [B!Bars -> BOOLEAN] /\ (\A b \in B!Bars : w[b] => flag)
        /\ B!Effects(plan[activeOrgID], usage[activeOrgID], w)
    BY <1>4 DEF B!Enter
  <2> HIDE DEF w
  <2>2. /\ warned' \in [B!Bars -> BOOLEAN] /\ flag' \in BOOLEAN /\ toasts' \in Nat
        /\ FlagCounts' /\ RefMeansFlag'
        /\ B!Drawn(plan[activeOrgID], usage[activeOrgID]) /\ B!Near(usage[activeOrgID]) => flag'
    BY <1>2, <1>3, <2>1, BarEffectsHold
  <2>3. UNCHANGED <<activeOrgID, plan, usage>> /\ shell' = TRUE
    BY <1>4 DEF B!Enter
  <2>4. B!TypeOK'
    BY <1>2, <2>2, <2>3 DEF B!TypeOK
  <2>5. NearMeansFlag'
    BY <2>2, <2>3 DEF NearMeansFlag
  <2>6. QED
    BY <2>2, <2>4, <2>5 DEF BarInv
<1>5. CASE B!Leave
  <2>1. B!TypeOK' /\ NearMeansFlag'
    BY <1>2, <1>5 DEF B!Leave, B!TypeOK, NearMeansFlag
  <2>2. flag' = flag /\ toasts' = toasts /\ (\A b \in B!Bars : warned'[b] => warned[b])
    BY <1>5 DEF B!Leave
  <2>3. QED
    BY <1>1, <2>1, <2>2, BarRestHolds
<1>6. CASE B!Reload
  <2>1. B!TypeOK' /\ NearMeansFlag'
    BY <1>2, <1>6 DEF B!Reload, B!TypeOK, NearMeansFlag
  <2>2. flag' = flag /\ toasts' = toasts /\ (\A b \in B!Bars : warned'[b] => warned[b])
    BY <1>6 DEF B!Reload
  <2>3. QED
    BY <1>1, <2>1, <2>2, BarRestHolds
<1>7. ASSUME NEW o \in Orgs, B!Switch(o) PROVE BarInv'
  <2>1. /\ warned' \in [B!Bars -> BOOLEAN] /\ flag' \in BOOLEAN /\ toasts' \in Nat
        /\ FlagCounts' /\ RefMeansFlag'
        /\ B!Drawn(plan[o], usage[o]) /\ B!Near(usage[o]) => flag'
    BY <1>2, <1>3, <1>7, BarEffectsHold DEF B!Switch
  <2>2. UNCHANGED <<shell, plan, usage>> /\ activeOrgID' = o
    BY <1>7 DEF B!Switch
  <2>3. B!TypeOK'
    BY <1>2, <2>1, <2>2 DEF B!TypeOK
  <2>4. NearMeansFlag'
    BY <2>1, <2>2 DEF NearMeansFlag
  <2>5. QED
    BY <2>1, <2>3, <2>4 DEF BarInv
<1>8. ASSUME NEW o \in Orgs, NEW p \in B!Plans, B!PlanArrives(o, p) PROVE BarInv'
  <2>1. UNCHANGED <<shell, activeOrgID, usage>> /\ plan' = [plan EXCEPT ![o] = p]
    BY <1>8 DEF B!PlanArrives
  <2>2. plan' \in [Orgs -> B!Plans \cup {None}] /\ activeOrgID \in Orgs
    BY <1>2, <2>1 DEF B!TypeOK
  <2>3. CASE shell /\ o = activeOrgID
    <3>1. B!Effects(p, usage[o], warned)
      BY <1>8, <2>3 DEF B!PlanArrives
    <3>2. /\ warned' \in [B!Bars -> BOOLEAN] /\ flag' \in BOOLEAN /\ toasts' \in Nat
          /\ FlagCounts' /\ RefMeansFlag'
          /\ B!Drawn(p, usage[o]) /\ B!Near(usage[o]) => flag'
      BY <1>2, <1>3, <3>1, BarEffectsHold
    <3>3. B!TypeOK'
      BY <1>2, <2>1, <2>2, <3>2 DEF B!TypeOK
    <3>4. plan'[activeOrgID'] = p /\ usage'[activeOrgID'] = usage[o]
      BY <1>2, <2>1, <2>3 DEF B!TypeOK
    <3>5. NearMeansFlag'
      BY <3>2, <3>4 DEF NearMeansFlag
    <3>6. QED
      BY <3>2, <3>3, <3>5 DEF BarInv
  <2>4. CASE ~(shell /\ o = activeOrgID)
    <3>1. UNCHANGED <<warned, flag, toasts>>
      BY <1>8, <2>4 DEF B!PlanArrives, B!Rest
    <3>2. B!TypeOK'
      BY <1>2, <2>1, <2>2, <3>1 DEF B!TypeOK
    <3>3. shell => plan'[activeOrgID'] = plan[activeOrgID]
      BY <1>2, <2>1, <2>2, <2>4 DEF B!TypeOK
    <3>4. NearMeansFlag'
      BY <1>2, <2>1, <3>1, <3>3 DEF NearMeansFlag
    <3>5. QED
      BY <1>1, <3>1, <3>2, <3>4, BarRestHolds
  <2>5. QED
    BY <2>3, <2>4
<1>9. ASSUME NEW o \in Orgs, NEW u \in B!Usage, B!UsageArrives(o, u) PROVE BarInv'
  <2>1. UNCHANGED <<shell, activeOrgID, plan>> /\ usage' = [usage EXCEPT ![o] = u]
    BY <1>9 DEF B!UsageArrives
  <2>2. usage' \in [Orgs -> B!Usage \cup {None}] /\ activeOrgID \in Orgs
    BY <1>2, <2>1 DEF B!TypeOK
  <2>3. CASE shell /\ o = activeOrgID
    <3>1. B!Effects(plan[o], u, warned)
      BY <1>9, <2>3 DEF B!UsageArrives
    <3>2. /\ warned' \in [B!Bars -> BOOLEAN] /\ flag' \in BOOLEAN /\ toasts' \in Nat
          /\ FlagCounts' /\ RefMeansFlag'
          /\ B!Drawn(plan[o], u) /\ B!Near(u) => flag'
      BY <1>2, <1>3, <3>1, BarEffectsHold
    <3>3. B!TypeOK'
      BY <1>2, <2>1, <2>2, <3>2 DEF B!TypeOK
    <3>4. usage'[activeOrgID'] = u /\ plan'[activeOrgID'] = plan[o]
      BY <1>2, <2>1, <2>3 DEF B!TypeOK
    <3>5. NearMeansFlag'
      BY <3>2, <3>4 DEF NearMeansFlag
    <3>6. QED
      BY <3>2, <3>3, <3>5 DEF BarInv
  <2>4. CASE ~(shell /\ o = activeOrgID)
    <3>1. UNCHANGED <<warned, flag, toasts>>
      BY <1>9, <2>4 DEF B!UsageArrives, B!Rest
    <3>2. B!TypeOK'
      BY <1>2, <2>1, <2>2, <3>1 DEF B!TypeOK
    <3>3. shell => usage'[activeOrgID'] = usage[activeOrgID]
      BY <1>2, <2>1, <2>2, <2>4 DEF B!TypeOK
    <3>4. NearMeansFlag'
      BY <1>2, <2>1, <3>1, <3>3 DEF NearMeansFlag
    <3>5. QED
      BY <1>1, <3>1, <3>2, <3>4, BarRestHolds
  <2>5. QED
    BY <2>3, <2>4
<1>10. CASE UNCHANGED B!vars
  <2>1. B!TypeOK'
    BY <1>2, <1>10 DEF B!vars, B!TypeOK
  <2>2. NearMeansFlag'
    BY <1>2, <1>10 DEF B!vars, NearMeansFlag
  <2>3. flag' = flag /\ toasts' = toasts /\ warned' = warned
    BY <1>10 DEF B!vars
  <2>4. QED
    BY <1>1, <2>1, <2>2, <2>3, BarRestHolds
<1>11. QED
  BY <1>1, <1>4, <1>5, <1>6, <1>7, <1>8, <1>9, <1>10 DEF B!Next

\* The bar warns once, and whoever sees it near its limit has been warned.
LEMMA BarMeans ==
  ASSUME BarInv PROVE B!WarnedOnce /\ B!WarnedWhenNear
<1>0. B!WarnedOnce
  BY DEF BarInv, FlagCounts, B!WarnedOnce
<1>1. SUFFICES ASSUME NEW o \in Orgs, shell, o = activeOrgID, plan[o] = "free",
                      usage[o] # None, usage[o].limit # 0,
                      usage[o].used * 5 >= usage[o].limit * 4
               PROVE  toasts > 0
  BY <1>0 DEF B!WarnedWhenNear
<1>2. usage[o] \in B!Usage
  BY <1>1 DEF BarInv, B!TypeOK
<1>3. usage[o].used \in Nat /\ usage[o].limit \in Nat
  <2>1. \A u \in B!Usage : u.used \in Counts /\ u.limit \in {0, Limit}
    BY DEF B!Usage
  <2>2. Counts \subseteq Nat /\ Limit \in Nat
    BY BarAssumption DEF B!UsageAssumption
  <2>3. usage[o].used \in Counts /\ usage[o].limit \in {0, Limit}
    BY <1>2, <2>1, Zenon
  <2>4. usage[o].used \in Nat
    BY <2>2, <2>3, Zenon
  <2>5. usage[o].limit = 0 \/ usage[o].limit = Limit
    BY <2>3, Zenon
  <2>6. QED
    BY <2>2, <2>4, <2>5
<1>4. B!Drawn(plan[activeOrgID], usage[activeOrgID]) /\ B!Near(usage[activeOrgID])
  BY <1>1, <1>3 DEF B!Drawn, B!Near
<1>5. flag
  BY <1>1, <1>4 DEF BarInv, NearMeansFlag
<1>6. QED
  BY <1>1, <1>5 DEF BarInv, FlagCounts

LEMMA UsageSteps ==
  ASSUME [MCNext]_allVars, page = "usage"
  PROVE  page' = page /\ [B!Next]_(B!vars)
BY DEF MCNext, allVars, BOwn, B!vars

UsageInv == page = "usage" => BarInv

\* UsageBar: the user is warned at most once in a browser session, and whoever sees a bar
\* that is near its limit has been warned, for all organizations, counts and limits.
THEOREM WarnedOnceEver == MCSpec => []WarnedJustOnce
<1>1. MCInit => UsageInv
  BY BarInitHolds DEF MCInit, UsageInv
<1>2. UsageInv /\ [MCNext]_allVars => UsageInv'
  <2>1. CASE page = "usage"
    BY <2>1, UsageSteps, BarNextHolds DEF UsageInv
  <2>2. CASE page # "usage"
    BY <2>2 DEF MCNext, allVars, UsageInv
  <2>3. QED
    BY <2>1, <2>2
<1>3. UsageInv => WarnedJustOnce
  BY BarMeans DEF UsageInv, WarnedJustOnce, On, BarInv
<1>4. QED
  BY <1>1, <1>2, <1>3, PTL DEF MCSpec

----------------------------------------------------------------------------
(***************************************************************************)
(* The lanes of the timeline                                               *)
(***************************************************************************)

\* A lane that is in use becomes free with the end of one of its spans, and all its spans
\* have ended by then.
EndsAreTrue ==
  /\ \A i \in 1 .. done : lane[i] < laneCount /\ W!End(i) <= laneEnds[lane[i]]
  /\ \A l \in 0 .. laneCount - 1 : \E i \in 1 .. done : lane[i] = l /\ W!End(i) = laneEnds[l]

LanesInv == W!TypeOK /\ EndsAreTrue /\ W!NoOverlap /\ W!LanesNeeded

\* Before the first span there is no lane.
LEMMA LanesInitHolds == W!Init => LanesInv
<1>1. SUFFICES ASSUME W!Init PROVE LanesInv
  OBVIOUS
<1>2. W!TypeOK
  <2>1. lane \in [W!Index -> W!Lanes]
    <3>1. \A i \in W!Index : 0 \in W!Lanes
      BY <1>1, TimelineAssumption DEF W!Index, W!Lanes, W!WaterfallAssumption
    <3>2. QED
      BY <1>1, <3>1 DEF W!Init
  <2>2. QED
    BY <1>1, <2>1, TimelineAssumption DEF W!Init, W!TypeOK, W!WaterfallAssumption
<1>3. QED
  BY <1>1, <1>2, TimelineAssumption DEF W!Init, LanesInv, EndsAreTrue, W!NoOverlap, W!LanesNeeded, W!WaterfallAssumption

\* The times of a span are natural numbers, and it does not end before it starts.
LEMMA LanesSpanTimes ==
  ASSUME W!TypeOK, NEW i \in W!Index
  PROVE  W!Start(i) \in Nat /\ W!End(i) \in Nat /\ W!Start(i) <= W!End(i)
<1>1. spans[i] \in W!Span
  BY DEF W!TypeOK
<1>2. spans[i].start \in Nat /\ spans[i].length \in Nat
  BY <1>1, TimelineAssumption DEF W!Span, W!WaterfallAssumption
<1>3. QED
  BY <1>2 DEF W!Start, W!End

\* A round keeps the types.
LEMMA LanesTypeStep ==
  ASSUME W!TypeOK, NEW n \in W!Index, NEW l \in W!Lanes, W!Assign(n, l)
  PROVE  W!TypeOK'
<1>1. done' \in 0 .. Size /\ spans' \in [W!Index -> W!Span] /\ lane' \in [W!Index -> W!Lanes]
  BY TimelineAssumption DEF W!TypeOK, W!Assign, W!Index, W!Lanes, W!WaterfallAssumption
<1>2. laneCount' \in 0 .. done'
  BY TimelineAssumption DEF W!TypeOK, W!Assign, W!Reuse, W!Grow, W!Index, W!WaterfallAssumption
<1>3. laneEnds' \in [W!Lanes -> Nat]
  BY LanesSpanTimes DEF W!TypeOK, W!Assign, W!Taken
<1>4. QED
  BY <1>1, <1>2, <1>3 DEF W!TypeOK

\* What a round does, in terms of the lane it picks: the lane is free when the span starts
\* or it is the next one.
Effect(n, l) ==
  /\ n = done + 1 /\ done' = n /\ spans' = spans
  /\ \A i \in W!Index : W!Start(i)' = W!Start(i) /\ W!End(i)' = W!End(i)
  /\ lane'[n] = l /\ \A i \in 1 .. done : i \in W!Index /\ i # n /\ lane'[i] = lane[i]
  /\ laneEnds'[l] = W!End(n) /\ \A m \in W!Lanes : m # l => laneEnds'[m] = laneEnds[m]
  /\ \/ l < laneCount /\ laneEnds[l] <= W!Start(n) /\ laneCount' = laneCount
     \/ /\ l = laneCount /\ laneCount' = laneCount + 1
        /\ \A m \in 0 .. laneCount - 1 : W!Start(n) < laneEnds[m]

\* A round has that effect.
LEMMA LanesPicked ==
  ASSUME W!TypeOK, NEW n \in W!Index, NEW l \in W!Lanes, W!Assign(n, l)
  PROVE  Effect(n, l)
<1>1. n = done + 1 /\ done' = n /\ spans' = spans
  BY DEF W!Assign
<1>2. \A i \in W!Index : W!Start(i)' = W!Start(i) /\ W!End(i)' = W!End(i)
  BY <1>1 DEF W!Start, W!End
<1>3. lane'[n] = l /\ \A i \in 1 .. done : i \in W!Index /\ i # n /\ lane'[i] = lane[i]
  BY <1>1, TimelineAssumption DEF W!Assign, W!TypeOK, W!Index, W!WaterfallAssumption
<1>4. laneEnds'[l] = W!End(n) /\ \A m \in W!Lanes : m # l => laneEnds'[m] = laneEnds[m]
  BY DEF W!Assign, W!TypeOK, W!Taken
<1>5. W!Start(n) \in Nat /\ \A m \in W!Lanes : laneEnds[m] \in Nat
  BY LanesSpanTimes DEF W!TypeOK
<1>6. laneCount \in Nat /\ laneCount <= Size - 1 /\ \A m \in 0 .. laneCount - 1 : m \in W!Lanes
  BY <1>1, TimelineAssumption DEF W!TypeOK, W!Index, W!Lanes, W!WaterfallAssumption
<1>7. CASE W!Reuse(l, n)
  BY <1>1, <1>2, <1>3, <1>4, <1>5, <1>6, <1>7 DEF W!Reuse, W!FreeLanes, Effect
<1>8. CASE W!Grow(l, n)
  <2>1. \A m \in 0 .. laneCount - 1 : ~(laneEnds[m] <= W!Start(n))
    BY <1>8 DEF W!Grow, W!FreeLanes
  <2>2. \A m \in 0 .. laneCount - 1 : W!Start(n) < laneEnds[m]
    BY <1>5, <1>6, <2>1
  <2>3. QED
    BY <1>1, <1>2, <1>3, <1>4, <1>8, <2>2 DEF W!Grow, Effect
<1>9. QED
  BY <1>7, <1>8 DEF W!Assign

\* The lane that is taken becomes free with the new span, which ends last in it.
LEMMA LanesEndsStep ==
  ASSUME W!TypeOK, EndsAreTrue, NEW n \in W!Index, NEW l \in W!Lanes, W!Assign(n, l)
  PROVE  EndsAreTrue'
<1>0. Effect(n, l)
  BY LanesPicked
<1>1. laneCount \in Nat /\ done \in Nat /\ laneCount <= done /\ \A m \in W!Lanes : laneEnds[m] \in Nat
  BY <1>0, TimelineAssumption DEF W!TypeOK, Effect, W!WaterfallAssumption
<1>2. W!Start(n) <= W!End(n) /\ W!Start(n) \in Nat /\ W!End(n) \in Nat
  BY <1>0, LanesSpanTimes DEF Effect
<1>3. ASSUME NEW i \in 1 .. done' PROVE (lane[i] < laneCount /\ W!End(i) <= laneEnds[lane[i]])'
  <2>1. CASE i = n
    BY <1>0, <1>1, <1>2, <2>1 DEF Effect
  <2>2. CASE i # n
    <3>1. i \in 1 .. done /\ lane'[i] = lane[i] /\ W!End(i)' = W!End(i) /\ lane[i] \in W!Lanes
      BY <1>0, <1>1, <2>2 DEF W!TypeOK, Effect
    <3>2. lane[i] < laneCount /\ W!End(i) <= laneEnds[lane[i]] /\ W!End(i) \in Nat /\ lane[i] \in Nat
      BY <1>0, <3>1, LanesSpanTimes DEF EndsAreTrue, W!Lanes, Effect
    <3>3. laneEnds[lane[i]] <= laneEnds'[lane[i]]
      <4>1. CASE lane[i] = l
        BY <1>0, <1>1, <1>2, <3>2, <4>1 DEF Effect
      <4>2. CASE lane[i] # l
        BY <1>0, <1>1, <3>1, <4>2 DEF Effect
      <4>3. QED
        BY <4>1, <4>2
    <3>4. laneEnds'[lane[i]] \in Nat
      BY <1>0, LanesTypeStep, <3>1 DEF W!TypeOK, Effect
    <3>5. QED
      BY <1>0, <1>1, <3>1, <3>2, <3>3, <3>4 DEF Effect
  <2>3. QED
    BY <2>1, <2>2
<1>4. ASSUME NEW m \in 0 .. laneCount' - 1
      PROVE  \E i \in 1 .. done' : lane'[i] = m /\ W!End(i)' = laneEnds'[m]
  <2>1. CASE m = l
    <3>1. n \in 1 .. done' /\ lane'[n] = m /\ W!End(n)' = laneEnds'[m]
      BY <1>0, <1>1, <2>1 DEF Effect
    <3>2. QED
      BY <3>1
  <2>2. CASE m # l
    <3>1. m \in 0 .. laneCount - 1 /\ m \in W!Lanes
      BY <1>0, <1>1, <2>2, TimelineAssumption DEF W!TypeOK, W!Lanes, Effect, W!WaterfallAssumption
    <3>2. PICK i \in 1 .. done : lane[i] = m /\ W!End(i) = laneEnds[m]
      BY <1>0, <3>1 DEF EndsAreTrue, Effect
    <3>3. i \in 1 .. done' /\ lane'[i] = m /\ W!End(i)' = laneEnds'[m]
      BY <1>0, <1>1, <2>2, <3>1, <3>2 DEF Effect
    <3>4. QED
      BY <3>3
  <2>3. QED
    BY <2>1, <2>2
<1>5. QED
  BY <1>3, <1>4 DEF EndsAreTrue

\* The spans that are in the lane already have ended when the new one starts.
LEMMA LanesOverlapStep ==
  ASSUME W!TypeOK, EndsAreTrue, W!NoOverlap, NEW n \in W!Index, NEW l \in W!Lanes, W!Assign(n, l)
  PROVE  W!NoOverlap'
<1>0. Effect(n, l)
  BY LanesPicked
<1>1. laneCount \in Nat /\ done \in Nat /\ \A m \in W!Lanes : laneEnds[m] \in Nat
  BY <1>0, TimelineAssumption DEF W!TypeOK, Effect, W!WaterfallAssumption
<1>2. SUFFICES ASSUME NEW i \in 1 .. done', NEW j \in 1 .. done', i < j, lane'[i] = lane'[j]
              PROVE  (W!End(i) <= W!Start(j))'
  BY DEF W!NoOverlap
<1>3. i \in 1 .. done /\ i \in W!Index /\ j \in W!Index /\ lane'[i] = lane[i]
  BY <1>0, <1>1, <1>2 DEF Effect
<1>4. CASE j # n
  <2>1. j \in 1 .. done
    BY <1>0, <1>1, <1>4 DEF Effect
  <2>2. lane'[j] = lane[j] /\ W!Start(j)' = W!Start(j) /\ W!End(i)' = W!End(i)
    BY <1>0, <1>3, <2>1 DEF Effect
  <2>3. W!End(i) <= W!Start(j)
    BY <1>2, <1>3, <2>1, <2>2 DEF W!NoOverlap
  <2>4. QED
    BY <2>2, <2>3
<1>5. CASE j = n
  <2>1. lane[i] = l /\ lane[i] < laneCount /\ W!End(i) <= laneEnds[l]
    <3>1. lane'[n] = l
      BY <1>0 DEF Effect
    <3>2. lane[i] = l
      BY <1>2, <1>3, <1>5, <3>1
    <3>3. QED
      BY <1>3, <3>2 DEF EndsAreTrue
  <2>2. laneEnds[l] <= W!Start(n)
    BY <1>0, <1>1, <2>1 DEF Effect
  <2>3. W!End(i) \in Nat /\ W!Start(n) \in Nat
    BY <1>0, <1>3, LanesSpanTimes DEF Effect
  <2>4. QED
    BY <1>0, <1>1, <1>3, <1>5, <2>1, <2>2, <2>3 DEF Effect
<1>6. QED
  BY <1>4, <1>5

\* A new lane is needed: the latest span of each other lane started before the new span and
\* ends after its start.
LEMMA LanesNeededStep ==
  ASSUME W!TypeOK, EndsAreTrue, W!LanesNeeded, NEW n \in W!Index, NEW l \in W!Lanes, W!Assign(n, l)
  PROVE  W!LanesNeeded'
<1>0. Effect(n, l)
  BY LanesPicked
<1>1. laneCount \in Nat /\ done \in Nat
  BY <1>0, TimelineAssumption DEF W!TypeOK, Effect, W!WaterfallAssumption
<1>2. SUFFICES ASSUME W!InOrder', laneCount' > 0
              PROVE  \E k \in 1 .. done' : \A m \in 0 .. laneCount' - 1 : \E i \in 1 .. k :
                       lane'[i] = m /\ W!Start(i)' <= W!Start(k)'
                         /\ (W!Start(k)' < W!End(i)' \/ i = k)
  BY DEF W!LanesNeeded
<1>3. W!InOrder
  BY <1>0, <1>2 DEF W!InOrder, Effect
<1>4. CASE laneCount' = laneCount
  <2>1. PICK k \in 1 .. done : \A m \in 0 .. laneCount - 1 : \E i \in 1 .. k :
               lane[i] = m /\ W!Start(i) <= W!Start(k) /\ (W!Start(k) < W!End(i) \/ i = k)
    BY <1>0, <1>2, <1>3, <1>4 DEF W!LanesNeeded, Effect
  <2>2. k \in 1 .. done' /\ k \in W!Index
    BY <1>0, <1>1 DEF Effect
  <2>3. ASSUME NEW m \in 0 .. laneCount' - 1
        PROVE  \E i \in 1 .. k : lane'[i] = m /\ W!Start(i)' <= W!Start(k)'
                                   /\ (W!Start(k)' < W!End(i)' \/ i = k)
    <3>1. PICK i \in 1 .. k : lane[i] = m /\ W!Start(i) <= W!Start(k) /\ (W!Start(k) < W!End(i) \/ i = k)
      BY <1>4, <2>1, <2>3
    <3>2. i \in 1 .. done
      BY <1>0, <1>1, <2>1 DEF Effect
    <3>3. lane'[i] = m /\ W!Start(i)' <= W!Start(k)' /\ (W!Start(k)' < W!End(i)' \/ i = k)
      <4>1. W!Start(i)' = W!Start(i) /\ W!Start(k)' = W!Start(k) /\ W!End(i)' = W!End(i)
        BY <1>0, <1>1, <2>2, <3>2 DEF Effect
      <4>2. QED
        BY <1>0, <3>1, <3>2, <4>1 DEF Effect
    <3>4. QED
      BY <3>3
  <2>4. QED
    BY <2>2, <2>3
<1>5. CASE l = laneCount /\ laneCount' = laneCount + 1
           /\ \A m \in 0 .. laneCount - 1 : W!Start(n) < laneEnds[m]
  <2>1. n \in 1 .. done'
    BY <1>0, <1>1 DEF Effect
  <2>2. ASSUME NEW m \in 0 .. laneCount' - 1
        PROVE  \E i \in 1 .. n : lane'[i] = m /\ W!Start(i)' <= W!Start(n)'
                                   /\ (W!Start(n)' < W!End(i)' \/ i = n)
    <3>1. CASE m = l
      <4>1. n \in 1 .. n /\ lane'[n] = m /\ W!Start(n)' <= W!Start(n)'
        BY <1>0, <1>1, <2>1, <3>1, LanesSpanTimes DEF Effect
      <4>2. QED
        BY <4>1
    <3>2. CASE m # l
      <4>1. m \in 0 .. laneCount - 1
        BY <1>0, <1>1, <1>5, <3>2 DEF Effect
      <4>2. PICK i \in 1 .. done : lane[i] = m /\ W!End(i) = laneEnds[m]
        BY <1>0, <4>1 DEF EndsAreTrue, Effect
      <4>3. i \in 1 .. n /\ i \in W!Index /\ lane'[i] = m /\ W!Start(i) <= W!Start(n)
        BY <1>0, <1>1, <1>3, <4>2 DEF W!InOrder, Effect
      <4>4. W!Start(n) < W!End(i)
        BY <1>5, <4>1, <4>2
      <4>5. W!Start(i)' <= W!Start(n)' /\ W!Start(n)' < W!End(i)'
        BY <1>0, <4>3, <4>4 DEF Effect
      <4>6. QED
        BY <4>3, <4>5
    <3>3. QED
      BY <3>1, <3>2
  <2>3. QED
    BY <2>1, <2>2
<1>6. QED
  BY <1>0, <1>4, <1>5 DEF Effect

\* The invariant is inductive.
LEMMA LanesNextHolds == LanesInv /\ [W!Next]_(W!vars) => LanesInv'
<1>1. SUFFICES ASSUME LanesInv, [W!Next]_(W!vars) PROVE LanesInv'
  OBVIOUS
<1>2. CASE W!Next
  <2>1. PICK n \in W!Index, l \in W!Lanes : W!Assign(n, l)
    BY <1>2 DEF W!Next
  <2>2. QED
    BY <1>1, <2>1, LanesTypeStep, LanesEndsStep, LanesOverlapStep, LanesNeededStep DEF LanesInv
<1>3. CASE UNCHANGED W!vars
  BY <1>1, <1>3 DEF LanesInv, W!vars, W!TypeOK, EndsAreTrue, W!NoOverlap, W!LanesNeeded, W!InOrder, W!Start, W!End
<1>4. QED
  BY <1>1, <1>2, <1>3

(***************************************************************************)
(* The bars.  The earliest start and the latest end exist, because a       *)
(* session has finitely many spans; the rest is arithmetic.                *)
(***************************************************************************)

\* A nonempty set of natural numbers has a least one.
LEMMA Least ==
  ASSUME NEW T \in SUBSET Nat, T # {}
  PROVE  \E m \in T : \A n \in T : m <= n
<1>. DEFINE R == {p \in Nat \X Nat : p[1] < p[2]}
<1>1. IsWellFoundedOn(R, Nat)
  BY NatLessThanWellFounded DEF OpToRel
<1>2. \A n, m \in Nat : n < m => <<n, m>> \in R
  OBVIOUS
<1>. HIDE DEF R
<1>3. PICK m \in T : \A n \in T : ~(<<n, m>> \in R)
  BY <1>1, WFMin
<1>4. ASSUME NEW n \in T PROVE m <= n
  <2>1. m \in Nat /\ n \in Nat
    OBVIOUS
  <2>2. ~(n < m)
    BY <1>2, <1>3, <2>1, Zenon
  <2>3. QED
    BY <2>1, <2>2
<1>5. QED
  BY <1>4

\* Among finitely many natural numbers there is a greatest one: there would otherwise be a
\* least number of them that have none.
LEMMA Greatest ==
  ASSUME NEW size \in Nat \ {0}, NEW f, \A i \in 1 .. size : f[i] \in Nat
  PROVE  \E i \in 1 .. size : \A j \in 1 .. size : f[j] <= f[i]
<1>. DEFINE Has(n) == \E i \in 1 .. n : \A j \in 1 .. n : f[j] <= f[i]
            Bad == {n \in 1 .. size : ~Has(n)}
<1>1. CASE Bad = {}
  BY <1>1
<1>2. CASE Bad # {}
  <2>1. PICK m \in Bad : \A n \in Bad : m <= n
    <3>1. Bad \in SUBSET Nat
      OBVIOUS
    <3>. HIDE DEF Bad
    <3>2. QED
      BY <1>2, <3>1, Least
  <2>2. m \in 1 .. size /\ ~Has(m)
    BY <2>1
  <2>3. m # 1
    <3>1. SUFFICES ASSUME m = 1 PROVE FALSE
      OBVIOUS
    <3>2. \A j \in 1 .. 1 : f[j] <= f[1]
      OBVIOUS
    <3>3. QED
      BY <2>2, <3>1, <3>2
  <2>4. m - 1 \in 1 .. size /\ ~(m <= m - 1)
    BY <2>2, <2>3
  <2>5. Has(m - 1)
    BY <2>1, <2>4
  <2>6. PICK i \in 1 .. m - 1 : \A j \in 1 .. m - 1 : f[j] <= f[i]
    BY <2>5
  <2>7. i \in 1 .. m /\ m \in 1 .. m /\ \A j \in 1 .. m : j = m \/ j \in 1 .. m - 1
    BY <2>2, <2>6
  <2>8. \A j \in 1 .. m : f[j] \in Nat
    BY <2>2
  <2>9. CASE f[m] <= f[i]
    BY <2>2, <2>6, <2>7, <2>9
  <2>10. CASE ~(f[m] <= f[i])
    <3>1. f[m] \in Nat /\ f[i] \in Nat
      BY <2>7, <2>8
    <3>2. ASSUME NEW j \in 1 .. m PROVE f[j] <= f[m]
      <4>1. f[j] \in Nat
        BY <2>8
      <4>2. j = m \/ f[j] <= f[i]
        BY <2>6, <2>7
      <4>3. QED
        BY <2>10, <3>1, <4>1, <4>2
    <3>3. QED
      BY <2>2, <2>7, <3>2
  <2>11. QED
    BY <2>9, <2>10
<1>3. QED
  BY <1>1, <1>2

\* The chart reaches from the beginning of every bar to its end.
LEMMA Spread ==
  ASSUME W!TypeOK, NEW i \in W!Index
  PROVE  /\ W!From \in Nat /\ W!Until \in Nat
         /\ W!From <= W!Start(i) /\ W!Stop(i) <= W!Until
<1>1. Size \in Nat \ {0}
  BY TimelineAssumption DEF W!WaterfallAssumption, W!Index
<1>2. \A j \in W!Index : W!Start(j) \in Nat /\ W!Stop(j) \in Nat
  BY LanesSpanTimes DEF W!Stop
<1>3. /\ W!From \in {W!Start(j) : j \in W!Index}
      /\ \A j \in W!Index : W!From <= W!Start(j)
  <2>. DEFINE T == {W!Start(j) : j \in W!Index}
  <2>1. T \in SUBSET Nat /\ T # {}
    BY <1>2
  <2>2. \E t \in T : \A n \in T : t <= n
    <3>. HIDE DEF T
    <3>1. QED
      BY <2>1, Least
  <2>3. \E t \in {W!Start(j) : j \in W!Index} : \A j \in W!Index : t <= W!Start(j)
    BY <2>2
  <2>4. QED
    BY <2>3 DEF W!From
<1>4. /\ W!Until \in {W!Stop(j) : j \in W!Index}
      /\ \A j \in W!Index : W!Stop(j) <= W!Until
  <2>. DEFINE f == [j \in W!Index |-> W!Stop(j)]
  <2>1. \A j \in 1 .. Size : f[j] \in Nat
    BY <1>2 DEF W!Index
  <2>2. \A j \in 1 .. Size : f[j] = W!Stop(j)
    BY DEF W!Index
  <2>. HIDE DEF f
  <2>3. PICK k \in 1 .. Size : \A j \in 1 .. Size : f[j] <= f[k]
    BY <1>1, <2>1, Greatest
  <2>4. \E t \in {W!Stop(j) : j \in W!Index} : \A j \in W!Index : W!Stop(j) <= t
    BY <2>2, <2>3 DEF W!Index
  <2>5. QED
    BY <2>4 DEF W!Until
<1>5. QED
  BY <1>2, <1>3, <1>4

\* Where a bar begins and how wide it is, in numbers.
LEMMA BarNumbers ==
  ASSUME W!TypeOK, NEW i \in W!Index
  PROVE  \E f, u, s, n \in Nat :
           /\ W!From = f /\ W!Until = u /\ W!Start(i) = s /\ spans[i].length = n
           /\ W!End(i) = s + n
           /\ f <= s /\ s + n <= u /\ s + 1 <= u
           /\ W!Total = u - f /\ W!Whole = 200 * (u - f)
           /\ W!Width(i) = IF 200 * n < u - f THEN u - f ELSE 200 * n
           /\ W!Left(i) = IF 200 * (s - f) <= 200 * (u - f) - W!Width(i)
                          THEN 200 * (s - f) ELSE 200 * (u - f) - W!Width(i)
<1>1. spans[i] \in W!Span
  BY DEF W!TypeOK
<1>2. spans[i].length \in Nat /\ W!Start(i) \in Nat
  BY <1>1, TimelineAssumption DEF W!Span, W!Start, W!WaterfallAssumption
<1>3. W!End(i) = W!Start(i) + spans[i].length
  BY DEF W!End, W!Start
<1>4. /\ W!From \in Nat /\ W!Until \in Nat /\ W!From <= W!Start(i)
      /\ W!Start(i) + spans[i].length <= W!Until /\ W!Start(i) + 1 <= W!Until
  BY <1>2, <1>3, Spread DEF W!Stop
<1>5. /\ W!Total = W!Until - W!From /\ W!Whole = 200 * (W!Until - W!From)
      /\ W!Width(i) = IF 200 * spans[i].length < W!Until - W!From THEN W!Until - W!From
                      ELSE 200 * spans[i].length
      /\ W!Left(i) = IF 200 * (W!Start(i) - W!From) <= 200 * (W!Until - W!From) - W!Width(i)
                     THEN 200 * (W!Start(i) - W!From) ELSE 200 * (W!Until - W!From) - W!Width(i)
  BY DEF W!Total, W!Whole, W!Width, W!Left
<1>6. QED
  BY <1>2, <1>3, <1>4, <1>5

\* The bars lie within the chart, and those of a lane apart but for the least width.
LEMMA LanesBarsFit == LanesInv => W!BarsFit /\ W!BarsApart
<1>0. SUFFICES ASSUME LanesInv PROVE W!BarsFit /\ W!BarsApart
  OBVIOUS
<1>1. W!TypeOK /\ EndsAreTrue /\ W!NoOverlap
  BY <1>0 DEF LanesInv
<1>2. ASSUME NEW i \in W!Index PROVE W!Left(i) >= 0 /\ W!Left(i) + W!Width(i) <= W!Whole
  BY <1>1, BarNumbers
<1>3. ASSUME NEW i \in 1 .. done PROVE W!Top(i) + 20 <= W!Height
  <2>1. i \in W!Index /\ lane[i] \in Nat /\ laneCount \in Nat /\ lane[i] < laneCount
    BY <1>1, TimelineAssumption
    DEF EndsAreTrue, W!TypeOK, W!Index, W!Lanes, W!WaterfallAssumption
  <2>2. QED
    BY <2>1 DEF W!Top, W!Height
<1>4. ASSUME NEW i \in 1 .. done, NEW j \in 1 .. done, i < j, lane[i] = lane[j]
      PROVE  /\ W!Left(i) <= W!Left(j) /\ W!Left(i) + W!Width(i) <= W!Left(j) + W!Total
             /\ W!ToScale(i) /\ W!ToScale(j) => W!Left(i) + W!Width(i) <= W!Left(j)
  <2>1. i \in W!Index /\ j \in W!Index
    BY <1>1, TimelineAssumption DEF W!TypeOK, W!Index, W!WaterfallAssumption
  <2>2. W!End(i) <= W!Start(j)
    BY <1>1, <1>4 DEF W!NoOverlap
  <2>3. PICK f, u, s, n \in Nat :
           /\ W!From = f /\ W!Until = u /\ W!Start(i) = s /\ spans[i].length = n
           /\ W!End(i) = s + n
           /\ f <= s /\ s + n <= u /\ s + 1 <= u
           /\ W!Total = u - f /\ W!Whole = 200 * (u - f)
           /\ W!Width(i) = IF 200 * n < u - f THEN u - f ELSE 200 * n
           /\ W!Left(i) = IF 200 * (s - f) <= 200 * (u - f) - W!Width(i)
                          THEN 200 * (s - f) ELSE 200 * (u - f) - W!Width(i)
    BY <1>1, <2>1, BarNumbers
  <2>4. PICK g, v, t, m \in Nat :
           /\ W!From = g /\ W!Until = v /\ W!Start(j) = t /\ spans[j].length = m
           /\ W!End(j) = t + m
           /\ g <= t /\ t + m <= v /\ t + 1 <= v
           /\ W!Total = v - g /\ W!Whole = 200 * (v - g)
           /\ W!Width(j) = IF 200 * m < v - g THEN v - g ELSE 200 * m
           /\ W!Left(j) = IF 200 * (t - g) <= 200 * (v - g) - W!Width(j)
                          THEN 200 * (t - g) ELSE 200 * (v - g) - W!Width(j)
    BY <1>1, <2>1, BarNumbers
  <2>5. s + n <= t /\ g = f /\ v = u
    BY <2>2, <2>3, <2>4
  <2>. DEFINE d == u - f
              x == 200 * (s - f)
              y == 200 * (t - f)
  <2>6. d \in Nat /\ x \in Nat /\ y \in Nat /\ x <= y /\ x + 200 * n <= y /\ y + 200 * m <= 200 * d
    BY <2>3, <2>4, <2>5
  <2>7. /\ W!Total = d /\ spans[i].length = n /\ spans[j].length = m
        /\ W!Width(i) = IF 200 * n < d THEN d ELSE 200 * n
        /\ W!Left(i) = IF x <= 200 * d - W!Width(i) THEN x ELSE 200 * d - W!Width(i)
        /\ W!Width(j) = IF 200 * m < d THEN d ELSE 200 * m
        /\ W!Left(j) = IF y <= 200 * d - W!Width(j) THEN y ELSE 200 * d - W!Width(j)
    BY <2>3, <2>4, <2>5
  <2>. HIDE DEF d, x, y
  <2>8. PICK a, w, b, z :
           a = W!Left(i) /\ w = W!Width(i) /\ b = W!Left(j) /\ z = W!Width(j)
    OBVIOUS
  <2>9. /\ w = (IF 200 * n < d THEN d ELSE 200 * n) /\ z = (IF 200 * m < d THEN d ELSE 200 * m)
        /\ a = (IF x <= 200 * d - w THEN x ELSE 200 * d - w)
        /\ b = (IF y <= 200 * d - z THEN y ELSE 200 * d - z)
        /\ n \in Nat /\ m \in Nat
    BY <2>3, <2>4, <2>7, <2>8
  <2>10. /\ w \in Int /\ d <= w /\ 200 * n <= w /\ w <= 200 * n + d
         /\ a \in Int /\ a <= x /\ a + w <= 200 * d /\ a <= 199 * d
    BY <2>6, <2>9
  <2>11. a + w <= y + d
    BY <2>6, <2>9, <2>10
  <2>12. CASE 200 * m < d
    <3>1. b = (IF y <= 199 * d THEN y ELSE 199 * d)
      BY <2>6, <2>9, <2>12
    <3>2. a <= b /\ a + w <= b + d
      BY <2>6, <2>10, <2>11, <3>1
    <3>3. ~W!ToScale(j)
      BY <2>6, <2>7, <2>9, <2>12 DEF W!ToScale
    <3>4. QED
      BY <2>7, <2>8, <3>2, <3>3
  <2>13. CASE ~(200 * m < d)
    <3>1. b = y
      BY <2>6, <2>9, <2>13
    <3>2. a <= b /\ a + w <= b + d
      BY <2>6, <2>10, <2>11, <3>1
    <3>3. ASSUME W!ToScale(i) PROVE a + w <= b
      <4>1. w = 200 * n
        BY <2>6, <2>7, <2>9, <3>3 DEF W!ToScale
      <4>2. QED
        BY <2>6, <2>9, <2>10, <3>1, <4>1
    <3>4. QED
      BY <2>7, <2>8, <3>2, <3>3
  <2>14. QED
    BY <2>12, <2>13
<1>5. QED
  BY <1>2, <1>3, <1>4 DEF W!BarsFit, W!BarsApart

LEMMA TimelineSteps ==
  ASSUME [MCNext]_allVars, page = "timeline"
  PROVE  page' = page /\ [W!Next]_(W!vars)
BY DEF MCNext, allVars, WOwn, W!vars

TimelineInv == page = "timeline" => LanesInv

\* Waterfall: in whatever order the spans of a session are listed, those of one lane do not
\* overlap in time (assignLanes), and their bars lie within the chart, in that order, and
\* overlap by no more than the least width adds; if the list is in the order of the starts,
\* every lane was needed at one time.
THEOREM TimelineIsRead == MCSpec => []TimelineReads
<1>1. MCInit => TimelineInv
  BY LanesInitHolds DEF MCInit, TimelineInv
<1>2. TimelineInv /\ [MCNext]_allVars => TimelineInv'
  <2>1. CASE page = "timeline"
    BY <2>1, TimelineSteps, LanesNextHolds DEF TimelineInv
  <2>2. CASE page # "timeline"
    BY <2>2 DEF MCNext, allVars, TimelineInv
  <2>3. QED
    BY <2>1, <2>2
<1>3. TimelineInv => TimelineReads
  BY LanesBarsFit DEF TimelineInv, TimelineReads, On, LanesInv
<1>4. QED
  BY <1>1, <1>2, <1>3, PTL DEF MCSpec

----------------------------------------------------------------------------
(***************************************************************************)
(* The failure clusters                                                    *)
(***************************************************************************)

ClusterOrg(c) == IF c \in ClustersOfB THEN ob ELSE oa

\* What is cached or has come back under an organization and a cluster.
Kept(o, c) == {sessions[<<o, c>>].data, sessions[<<o, c>>].got}

\* They are sessions of that cluster, and there are some only if the cluster is the
\* organization's.
OwnOf(o, c, S) == S # None => S \subseteq assigned[c] /\ (S # {} => ClusterOrg(c) = o)
KeptIsOwn == \A o \in Orgs, c \in Clusters : \A S \in Kept(o, c) : OwnOf(o, c, S)

ClustersInv == F!TypeOK /\ KeptIsOwn

\* The key of a query tells the organization and the cluster.
LEMMA KeyFacts ==
  /\ \A o \in Orgs, c \in Clusters : F!Key(o, c) = <<o, c>> /\ <<o, c>> \in F!QueryKeys
  /\ \A k \in F!QueryKeys : \E o \in Orgs, c \in Clusters : k = <<o, c>>
BY DEF F!QueryKeys, F!Key

\* A step that changes one entry keeps them, if what it leaves there was there before or is
\* the cluster's own.
LEMMA SessionsEntry ==
  ASSUME F!TypeOK, KeptIsOwn, NEW o \in Orgs, NEW c \in Clusters,
         NEW q \in QueryOf(SUBSET Sessions),
         sessions' = [sessions EXCEPT ![<<o, c>>] = q], assigned' = assigned,
         OwnOf(o, c, q.data), OwnOf(o, c, q.got)
  PROVE  /\ DOMAIN sessions' = F!QueryKeys
         /\ \A k \in F!QueryKeys : sessions'[k] \in QueryOf(SUBSET Sessions)
         /\ KeptIsOwn'
<1>1. DOMAIN sessions = F!QueryKeys /\ <<o, c>> \in F!QueryKeys
  BY KeyFacts DEF F!TypeOK
<1>2. sessions'[<<o, c>>] = q
  BY <1>1
<1>3. \A k \in F!QueryKeys : k # <<o, c>> => sessions'[k] = sessions[k]
  BY <1>1
<1>4. \A k \in F!QueryKeys : sessions'[k] \in QueryOf(SUBSET Sessions)
  BY <1>2, <1>3, FCache, Zenon DEF F!TypeOK
<1>5. ASSUME NEW p \in Orgs, NEW d \in Clusters, NEW S \in Kept(p, d)' PROVE OwnOf(p, d, S)'
  <2>1. <<p, d>> \in F!QueryKeys
    BY KeyFacts
  <2>2. CASE <<p, d>> = <<o, c>>
    <3>1. p = o /\ d = c /\ S \in {q.data, q.got}
      BY <1>2, <1>5, <2>2 DEF Kept
    <3>2. QED
      BY <3>1 DEF OwnOf
  <2>3. CASE <<p, d>> # <<o, c>>
    <3>1. S \in Kept(p, d)
      BY <1>3, <1>5, <2>1, <2>3 DEF Kept
    <3>2. QED
      BY <3>1 DEF KeptIsOwn, OwnOf
  <2>4. QED
    BY <2>2, <2>3
<1>6. KeptIsOwn'
  BY <1>5 DEF KeptIsOwn
<1>7. QED
  BY <1>1, <1>4, <1>6

\* An entry that a component of the page starts to use.
LEMMA SessionsUsed ==
  ASSUME F!TypeOK, KeptIsOwn, NEW o \in Orgs, NEW c \in Clusters, NEW stale \in BOOLEAN,
         sessions' = [sessions EXCEPT ![F!Key(o, c)] = F!Activated(@, stale)],
         assigned' = assigned
  PROVE  /\ DOMAIN sessions' = F!QueryKeys
         /\ \A k \in F!QueryKeys : sessions'[k] \in QueryOf(SUBSET Sessions)
         /\ KeptIsOwn'
<1> DEFINE q == sessions[<<o, c>>]
<1>1. <<o, c>> \in F!QueryKeys /\ F!Key(o, c) = <<o, c>>
  BY KeyFacts
<1>2. q \in QueryOf(SUBSET Sessions)
  BY <1>1, FCache DEF F!TypeOK
<1>3. sessions' = [sessions EXCEPT ![<<o, c>>] = Activated(q, stale)]
  BY <1>1, FCache
<1>4. /\ Activated(q, stale) \in QueryOf(SUBSET Sessions)
      /\ Activated(q, stale).data = q.data /\ Activated(q, stale).got \in {q.got, None}
  BY <1>2, ActivatedFacts
<1>5. OwnOf(o, c, q.data) /\ OwnOf(o, c, q.got) /\ OwnOf(o, c, None)
  BY DEF KeptIsOwn, Kept, OwnOf
<1>6. OwnOf(o, c, Activated(q, stale).data) /\ OwnOf(o, c, Activated(q, stale).got)
  BY <1>4, <1>5, Zenon
<1> HIDE DEF q
<1>7. QED
  BY <1>3, <1>4, <1>6, SessionsEntry

\* The list of an organization's clusters keeps its type.
LEMMA ClustersEntry ==
  ASSUME F!TypeOK, NEW o \in Orgs, NEW q \in QueryOf(SUBSET Clusters),
         clusters' = [clusters EXCEPT ![o] = q]
  PROVE  DOMAIN clusters' = Orgs /\ \A p \in Orgs : clusters'[p] \in QueryOf(SUBSET Clusters)
BY FCache DEF F!TypeOK

\* A step that leaves the sessions alone keeps what is cached of them, also when a session
\* is assigned.
LEMMA SessionsKept ==
  ASSUME F!TypeOK, KeptIsOwn, sessions' = sessions,
         \A c \in Clusters : assigned[c] \subseteq assigned'[c]
  PROVE  /\ DOMAIN sessions' = F!QueryKeys
         /\ \A k \in F!QueryKeys : sessions'[k] \in QueryOf(SUBSET Sessions)
         /\ KeptIsOwn'
<1>1. DOMAIN sessions = F!QueryKeys /\ \A k \in F!QueryKeys : sessions[k] \in QueryOf(SUBSET Sessions)
  BY FCache DEF F!TypeOK
<1>2. ASSUME NEW o \in Orgs, NEW c \in Clusters, NEW S \in Kept(o, c)' PROVE OwnOf(o, c, S)'
  <2>1. S \in Kept(o, c)
    BY <1>2 DEF Kept
  <2>2. OwnOf(o, c, S)
    BY <2>1 DEF KeptIsOwn
  <2>3. QED
    BY <2>2 DEF OwnOf
<1>3. KeptIsOwn'
  BY <1>2 DEF KeptIsOwn
<1>4. QED
  BY <1>1, <1>3

LEMMA ClustersInitHolds == F!Init => ClustersInv
<1>1. SUFFICES ASSUME F!Init PROVE ClustersInv
  OBVIOUS
<1>2. NewQuery \in QueryOf(SUBSET Sessions) /\ NewQuery \in QueryOf(SUBSET Clusters)
  BY NewQueryType
<1>3. Sent(NewQuery) \in QueryOf(SUBSET Clusters)
  BY <1>2, SentFacts
<1>4. /\ DOMAIN clusters = Orgs /\ DOMAIN sessions = F!QueryKeys
      /\ \A o \in Orgs : clusters[o] \in QueryOf(SUBSET Clusters)
      /\ \A k \in F!QueryKeys : sessions[k] = NewQuery
  BY <1>1, <1>2, <1>3, FCache DEF F!Init
<1>5. assigned \in [Clusters -> SUBSET Sessions] /\ switches \in 0 .. MaxSwitches
  BY <1>1, ClustersAssumption DEF F!Init
<1>6. F!TypeOK
  BY <1>1, <1>2, <1>4, <1>5, FCache DEF F!Init, F!TypeOK
<1>7. ASSUME NEW o \in Orgs, NEW c \in Clusters, NEW S \in Kept(o, c) PROVE OwnOf(o, c, S)
  <2>1. sessions[<<o, c>>] = NewQuery
    BY <1>4, KeyFacts
  <2>2. S = None
    BY <1>7, <2>1 DEF Kept, NewQuery
  <2>3. QED
    BY <2>2 DEF OwnOf
<1>8. QED
  BY <1>6, <1>7 DEF ClustersInv, KeptIsOwn

LEMMA ClustersNextHolds == ClustersInv /\ [F!Next]_(F!vars) => ClustersInv'
<1>1. SUFFICES ASSUME ClustersInv, [F!Next]_(F!vars) PROVE ClustersInv'
  OBVIOUS
<1> USE DEF ClustersInv
<1>2. F!TypeOK /\ KeptIsOwn
  BY <1>1
<1>3. /\ \A c \in Clusters : c # None
      /\ MaxSwitches \in Nat
  BY ClustersAssumption
<1>4. /\ onScreen \in BOOLEAN /\ activeOrgID \in Orgs /\ switches \in 0 .. MaxSwitches
      /\ selectedClusterID \in Clusters \cup {None}
      /\ assigned \in [Clusters -> SUBSET Sessions]
      /\ \A o \in Orgs : clusters[o] \in QueryOf(SUBSET Clusters)
      /\ \A o \in Orgs, c \in Clusters : sessions[<<o, c>>] \in QueryOf(SUBSET Sessions)
  BY <1>2, FCache, KeyFacts DEF F!TypeOK
\* The parts of the invariant from those that a step is about.
<1>5. ASSUME onScreen' \in BOOLEAN, activeOrgID' \in Orgs, switches' \in 0 .. MaxSwitches,
             selectedClusterID' \in Clusters \cup {None},
             assigned' \in [Clusters -> SUBSET Sessions],
             DOMAIN clusters' = Orgs,
             \A o \in Orgs : clusters'[o] \in QueryOf(SUBSET Clusters),
             DOMAIN sessions' = F!QueryKeys,
             \A k \in F!QueryKeys : sessions'[k] \in QueryOf(SUBSET Sessions),
             KeptIsOwn'
      PROVE  ClustersInv'
  BY <1>5, FCache DEF F!TypeOK
<1>6. DOMAIN clusters = Orgs
  BY <1>2 DEF F!TypeOK
<1>7. ASSUME NEW c \in Clusters, NEW stale \in BOOLEAN, F!Select(c, stale) PROVE ClustersInv'
  BY <1>2, <1>4, <1>5, <1>6, <1>7, SessionsUsed DEF F!Select
<1>8. ASSUME NEW o \in Orgs, NEW c \in Clusters \cup {None}, NEW stale \in BOOLEAN,
             F!Use(o, c, stale), assigned' = assigned
      PROVE  /\ DOMAIN clusters' = Orgs
             /\ \A p \in Orgs : clusters'[p] \in QueryOf(SUBSET Clusters)
             /\ DOMAIN sessions' = F!QueryKeys
             /\ \A k \in F!QueryKeys : sessions'[k] \in QueryOf(SUBSET Sessions)
             /\ KeptIsOwn'
  <2>1. clusters' = [clusters EXCEPT ![o] = Activated(clusters[o], stale)]
    BY <1>8, FCache DEF F!Use
  <2>2. Activated(clusters[o], stale) \in QueryOf(SUBSET Clusters)
    BY <1>4, ActivatedFacts
  <2>3. CASE c = None
    <3>1. sessions' = sessions
      BY <1>8, <2>3 DEF F!Use
    <3>2. QED
      BY <1>2, <1>8, <2>1, <2>2, <3>1, ClustersEntry, SessionsKept
  <2>4. CASE c # None
    <3>1. c \in Clusters
      BY <2>4
    <3>2. sessions' = [sessions EXCEPT ![F!Key(o, c)] = F!Activated(@, stale)]
      BY <1>8, <2>4 DEF F!Use
    <3>3. QED
      BY <1>2, <1>8, <2>1, <2>2, <3>1, <3>2, ClustersEntry, SessionsUsed
  <2>5. QED
    BY <2>3, <2>4
<1>9. ASSUME NEW o \in Orgs, NEW stale \in BOOLEAN, F!Switch(o, stale) PROVE ClustersInv'
  <2>1. F!Use(o, selectedClusterID, stale) /\ assigned' = assigned
    BY <1>9 DEF F!Switch
  <2>2. /\ onScreen' \in BOOLEAN /\ activeOrgID' \in Orgs /\ switches' \in 0 .. MaxSwitches
        /\ selectedClusterID' \in Clusters \cup {None}
        /\ assigned' \in [Clusters -> SUBSET Sessions]
    BY <1>3, <1>4, <1>9 DEF F!Switch
  <2>3. QED
    BY <1>4, <1>5, <1>8, <2>1, <2>2
<1>10. ASSUME NEW stale \in BOOLEAN, F!Visit(stale) PROVE ClustersInv'
  <2>1. /\ onScreen' \in BOOLEAN /\ activeOrgID' \in Orgs /\ switches' \in 0 .. MaxSwitches
        /\ selectedClusterID' \in Clusters \cup {None}
        /\ assigned' \in [Clusters -> SUBSET Sessions] /\ assigned' = assigned
    BY <1>3, <1>4, <1>10 DEF F!Visit
  <2>2. CASE onScreen
    <3>1. UNCHANGED <<clusters, sessions>>
      BY <1>10, <2>2 DEF F!Visit
    <3>2. QED
      BY <1>2, <1>4, <1>5, <1>6, <2>1, <3>1, SessionsKept
  <2>3. CASE ~onScreen
    <3>1. F!Use(activeOrgID, None, stale)
      BY <1>10, <2>3 DEF F!Visit
    <3>2. QED
      BY <1>4, <1>5, <1>8, <2>1, <3>1
  <2>4. QED
    BY <2>2, <2>3
<1>11. CASE F!Back
  BY <1>2, <1>4, <1>5, <1>6, <1>11, SessionsKept DEF F!Back
\* The list's own steps.
<1>12. ASSUME NEW o \in Orgs, NEW q \in QueryOf(SUBSET Clusters),
              clusters' = [clusters EXCEPT ![o] = q], switches' \in 0 .. MaxSwitches,
              UNCHANGED <<onScreen, activeOrgID, selectedClusterID, assigned, sessions>>
       PROVE  ClustersInv'
  BY <1>2, <1>4, <1>5, <1>12, ClustersEntry, SessionsKept
<1>13. CASE F!Retry
  <2>1. /\ clusters' = [clusters EXCEPT ![activeOrgID] = Sent(clusters[activeOrgID])]
        /\ UNCHANGED <<onScreen, activeOrgID, selectedClusterID, assigned, sessions, switches>>
    BY <1>13, FCache DEF F!Retry
  <2>2. Sent(clusters[activeOrgID]) \in QueryOf(SUBSET Clusters)
    BY <1>4, SentFacts
  <2>3. QED
    BY <1>4, <1>12, <2>1, <2>2
<1>14. ASSUME NEW o \in Orgs, NEW inserted \in Clusters \cup {None},
              F!ServeClusters(o, inserted)
       PROVE  ClustersInv'
  <2>1. PICK S \in SUBSET Clusters : clusters' = [clusters EXCEPT ![o] = Answered(clusters[o], S)]
    BY <1>14, FCache DEF F!ServeClusters
  <2>2. Answered(clusters[o], S) \in QueryOf(SUBSET Clusters)
    BY <1>4, AnswerFacts
  <2>3. /\ switches' \in 0 .. MaxSwitches
        /\ UNCHANGED <<onScreen, activeOrgID, selectedClusterID, assigned, sessions>>
    BY <1>3, <1>4, <1>14 DEF F!ServeClusters
  <2>4. QED
    BY <1>12, <2>1, <2>2, <2>3
<1>15. ASSUME NEW o \in Orgs, F!ClustersArrive(o) \/ F!ClustersFail(o) PROVE ClustersInv'
  <2>1. PICK q \in {Loaded(clusters[o]), Failed(clusters[o])} :
          clusters' = [clusters EXCEPT ![o] = q]
    BY <1>15, FCache DEF F!ClustersArrive, F!ClustersFail
  <2>2. q \in QueryOf(SUBSET Clusters)
    <3>1. clusters[o] \in QueryOf(SUBSET Clusters)
      BY <1>4
    <3>2. /\ Loaded(clusters[o]) \in QueryOf(SUBSET Clusters)
          /\ Failed(clusters[o]) \in QueryOf(SUBSET Clusters)
      BY <3>1, LoadedFacts, FailedFacts
    <3>3. QED
      BY <2>1, <3>2
  <2>3. /\ switches' \in 0 .. MaxSwitches
        /\ UNCHANGED <<onScreen, activeOrgID, selectedClusterID, assigned, sessions>>
    BY <1>3, <1>4, <1>15 DEF F!ClustersArrive, F!ClustersFail
  <2>4. QED
    BY <1>12, <2>1, <2>2, <2>3
\* The steps of one query of sessions.
<1>16. ASSUME NEW o \in Orgs, NEW c \in Clusters, NEW q \in QueryOf(SUBSET Sessions),
              sessions' = [sessions EXCEPT ![<<o, c>>] = q], switches' \in 0 .. MaxSwitches,
              OwnOf(o, c, q.data), OwnOf(o, c, q.got),
              UNCHANGED <<onScreen, activeOrgID, selectedClusterID, assigned, clusters>>
       PROVE  ClustersInv'
  BY <1>2, <1>4, <1>5, <1>6, <1>16, SessionsEntry
<1>17. ASSUME NEW o \in Orgs, NEW c \in Clusters
       PROVE  /\ OwnOf(o, c, sessions[<<o, c>>].data) /\ OwnOf(o, c, sessions[<<o, c>>].got)
              /\ OwnOf(o, c, None)
  BY <1>2, <1>17 DEF KeptIsOwn, Kept, OwnOf
<1>18. ASSUME NEW o \in Orgs, NEW c \in Clusters, F!ServeSessions(o, c) PROVE ClustersInv'
  <2> DEFINE S == IF ClusterOrg(c) = o THEN assigned[c] ELSE {}
             q == sessions[<<o, c>>]
  <2>1. /\ sessions' = [sessions EXCEPT ![<<o, c>>] = Answered(q, S)]
        /\ UNCHANGED <<onScreen, activeOrgID, selectedClusterID, assigned, clusters, switches>>
    BY <1>18, FCache, KeyFacts DEF F!ServeSessions, ClusterOrg
  <2>2. S \in SUBSET Sessions /\ OwnOf(o, c, S)
    BY <1>4 DEF OwnOf
  <2>3. q \in QueryOf(SUBSET Sessions)
    BY <1>4
  <2> HIDE DEF S
  <2>4. /\ Answered(q, S) \in QueryOf(SUBSET Sessions)
        /\ Answered(q, S).data = q.data /\ Answered(q, S).got = S
    BY <2>2, <2>3, AnswerFacts
  <2>5. OwnOf(o, c, Answered(q, S).data) /\ OwnOf(o, c, Answered(q, S).got)
    BY <1>17, <2>2, <2>4
  <2> HIDE DEF q
  <2>6. QED
    BY <1>4, <1>16, <2>1, <2>4, <2>5
<1>19. ASSUME NEW k \in F!QueryKeys, F!SessionsArrive(k) \/ F!SessionsFail(k) PROVE ClustersInv'
  <2>1. PICK o \in Orgs, c \in Clusters : k = <<o, c>>
    BY KeyFacts
  <2> DEFINE r == sessions[<<o, c>>]
  <2>2. PICK q \in {Loaded(r), Failed(r)} : sessions' = [sessions EXCEPT ![<<o, c>>] = q]
    BY <1>19, <2>1, FCache DEF F!SessionsArrive, F!SessionsFail
  <2>3. r \in QueryOf(SUBSET Sessions)
    BY <1>4
  <2>4. /\ q \in QueryOf(SUBSET Sessions)
        /\ q.data \in {r.data, r.got} /\ q.got = None
    BY <2>2, <2>3, LoadedType
  <2>5. OwnOf(o, c, q.data) /\ OwnOf(o, c, q.got)
    BY <1>17, <2>4
  <2>6. /\ switches' \in 0 .. MaxSwitches
        /\ UNCHANGED <<onScreen, activeOrgID, selectedClusterID, assigned, clusters>>
    BY <1>3, <1>4, <1>19 DEF F!SessionsArrive, F!SessionsFail
  <2>7. QED
    BY <1>16, <2>2, <2>4, <2>5, <2>6
<1>20. ASSUME NEW s \in Sessions, NEW c \in Clusters, F!Assign(s, c) PROVE ClustersInv'
  <2>1. /\ assigned' = [assigned EXCEPT ![c] = @ \cup {s}]
        /\ UNCHANGED <<onScreen, activeOrgID, selectedClusterID, clusters, sessions, switches>>
    BY <1>20 DEF F!Assign
  <2>2. /\ assigned' \in [Clusters -> SUBSET Sessions]
        /\ \A d \in Clusters : assigned[d] \subseteq assigned'[d]
    BY <1>4, <2>1
  <2>3. QED
    BY <1>2, <1>4, <1>5, <1>6, <2>1, <2>2, SessionsKept
<1>21. CASE UNCHANGED F!vars
  BY <1>2, <1>4, <1>5, <1>6, <1>21, SessionsKept DEF F!vars
<1>22. QED
  BY <1>1, <1>7, <1>9, <1>10, <1>11, <1>13, <1>14, <1>15, <1>18, <1>19, <1>20, <1>21 DEF F!Next

\* What the page lists under a cluster is what its query holds.
LEMMA ClustersMean == ClustersInv => F!RowsAreItsOwn
<1>1. SUFFICES ASSUME ClustersInv, F!Screen = "sessions"
      PROVE  /\ [c \in Clusters |-> IF c \in ClustersOfB THEN ob ELSE oa][selectedClusterID] = activeOrgID
             /\ F!SessionRows \subseteq assigned[selectedClusterID]
  BY DEF F!RowsAreItsOwn
<1>2. F!Selected /\ F!SessionRows # {}
  BY <1>1 DEF F!Screen
<1>3. activeOrgID \in Orgs /\ selectedClusterID \in Clusters
  <2>1. activeOrgID \in Orgs /\ clusters[activeOrgID] \in QueryOf(SUBSET Clusters)
    BY <1>1, FCache DEF ClustersInv, F!TypeOK
  <2>2. clusters[activeOrgID].data \in (SUBSET Clusters) \cup {None}
    BY <2>1 DEF QueryOf
  <2>3. QED
    BY <1>2, <2>1, <2>2 DEF F!Selected, F!Listed
<1>4. F!Query = sessions[<<activeOrgID, selectedClusterID>>]
  BY DEF F!Query, F!Key
<1>5. F!Query.data # None /\ F!SessionRows = F!Query.data
  BY <1>2 DEF F!SessionRows
<1>6. F!Query.data \in Kept(activeOrgID, selectedClusterID)
  BY <1>4 DEF Kept
<1>7. OwnOf(activeOrgID, selectedClusterID, F!Query.data)
  BY <1>1, <1>3, <1>6 DEF ClustersInv, KeptIsOwn
<1>8. QED
  BY <1>2, <1>3, <1>5, <1>7 DEF OwnOf, ClusterOrg

LEMMA ClustersSteps ==
  ASSUME [MCNext]_allVars, page = "clusters"
  PROVE  page' = page /\ [F!Next]_(F!vars)
BY DEF MCNext, allVars, FOwn, F!vars

ClustersPageInv == page = "clusters" => ClustersInv

\* FailureClusters: what is listed under a cluster's name are sessions of that cluster and
\* of the organization that is active, for all organizations, clusters and sessions.
THEOREM SessionsAreTheClusters == MCSpec => []RowsAreItsOwn
<1>1. MCInit => ClustersPageInv
  BY ClustersInitHolds DEF MCInit, ClustersPageInv
<1>2. ClustersPageInv /\ [MCNext]_allVars => ClustersPageInv'
  <2>1. CASE page = "clusters"
    BY <2>1, ClustersSteps, ClustersNextHolds DEF ClustersPageInv
  <2>2. CASE page # "clusters"
    BY <2>2 DEF MCNext, allVars, ClustersPageInv
  <2>3. QED
    BY <2>1, <2>2
<1>3. ClustersPageInv => RowsAreItsOwn
  BY ClustersMean DEF ClustersPageInv, RowsAreItsOwn, On, ClustersInv
<1>4. QED
  BY <1>1, <1>2, <1>3, PTL DEF MCSpec

----------------------------------------------------------------------------
(***************************************************************************)
(* The API keys page                                                       *)
(***************************************************************************)

\* What a row tells was said of its key.
RowIsAnswered == row.of # None => verdict[row.of] = row.says
\* A key that was created is one.
CreatedIsKey == create.st = "ok" => create.key # None

SecretInv == K!CountdownIsWhole /\ K!TimedWhileShown
KeysInv == K!TypeOK /\ SecretInv /\ RowIsAnswered /\ CreatedIsKey

\* The types of the creation dialog.
LEMMA CreateTypes ==
  ASSUME NEW c \in K!Create
  PROVE  /\ \A x \in BOOLEAN : /\ [c EXCEPT !.open = x, !.err = FALSE] \in K!Create
                              /\ [c EXCEPT !.open = x, !.err = FALSE].st = c.st
                              /\ [c EXCEPT !.open = x, !.err = FALSE].key = c.key
         /\ \A s \in {"idle", "sent"}, x \in BOOLEAN :
              /\ [c EXCEPT !.st = s, !.err = x] \in K!Create
              /\ [c EXCEPT !.st = s, !.err = x].st = s
         /\ \A k \in Keys : /\ [c EXCEPT !.st = "ok", !.key = k] \in K!Create
                           /\ [c EXCEPT !.st = "ok", !.key = k].key = k
         /\ [c EXCEPT !.st = "failed"] \in K!Create /\ [c EXCEPT !.st = "failed"].st = "failed"
<1>1. ASSUME NEW x \in BOOLEAN
      PROVE  /\ [c EXCEPT !.open = x, !.err = FALSE] \in K!Create
             /\ [c EXCEPT !.open = x, !.err = FALSE].st = c.st
             /\ [c EXCEPT !.open = x, !.err = FALSE].key = c.key
  BY DEF K!Create
<1>2. ASSUME NEW s \in {"idle", "sent"}, NEW x \in BOOLEAN
      PROVE  /\ [c EXCEPT !.st = s, !.err = x] \in K!Create
             /\ [c EXCEPT !.st = s, !.err = x].st = s
  BY DEF K!Create
<1>3. ASSUME NEW k \in Keys
      PROVE  /\ [c EXCEPT !.st = "ok", !.key = k] \in K!Create
             /\ [c EXCEPT !.st = "ok", !.key = k].key = k
  BY DEF K!Create
<1>4. [c EXCEPT !.st = "failed"] \in K!Create /\ [c EXCEPT !.st = "failed"].st = "failed"
  BY DEF K!Create
<1>5. QED
  BY <1>1, <1>2, <1>3, <1>4, Zenon

\* The page's state when it is new.
LEMMA KeysTypes ==
  /\ K!NoCreate \in K!Create /\ K!NoCreate.st = "idle"
  /\ K!NoRow \in K!Row /\ K!NoRow.of = None
  /\ 0 \in 0 .. MaxTests /\ 0 \in 0 .. MaxLeft /\ Countdown \in 0 .. Countdown
<1>1. K!NoCreate \in K!Create /\ K!NoCreate.st = "idle"
  BY DEF K!NoCreate, K!Create
<1>2. K!NoRow \in K!Row /\ K!NoRow.of = None
  BY DEF K!NoRow, K!Row, K!Says
<1>3. QED
  BY <1>1, <1>2, KeysAssumption

LEMMA KeysInitHolds == K!Init => KeysInv
<1>1. SUFFICES ASSUME K!Init PROVE KeysInv
  OBVIOUS
<1>2. create \in K!Create /\ row \in K!Row /\ verdict \in [Keys -> K!Says]
  BY <1>1, KeysTypes DEF K!Init, K!Says
<1>3. K!TypeOK
  BY <1>1, <1>2, KeysTypes, KeysAssumption DEF K!Init, K!TypeOK, K!Says
<1>4. SecretInv /\ RowIsAnswered /\ CreatedIsKey
  BY <1>1, KeysTypes DEF K!Init, SecretInv, K!CountdownIsWhole, K!TimedWhileShown,
                         RowIsAnswered, CreatedIsKey
<1>5. QED
  BY <1>3, <1>4 DEF KeysInv

\* The creation dialog.
LEMMA CreateSteps ==
  ASSUME KeysInv, K!OpenCreate \/ K!CloseCreate \/ K!SubmitCreate \/ K!ServeCreate
  PROVE  KeysInv'
<1>1. K!TypeOK /\ create \in K!Create
  BY DEF KeysInv, K!TypeOK
<1>2. UNCHANGED <<mounted, raw, copied, countdown, intervals, elapsed, shown, row, rawTest,
                  tests, pending, verdict, count, left>>
  BY DEF K!OpenCreate, K!CloseCreate, K!SubmitCreate, K!ServeCreate
<1>3. keys' \subseteq Keys /\ create' \in K!Create /\ CreatedIsKey'
  <2>1. CASE K!OpenCreate \/ K!CloseCreate
    <3>1. PICK x \in BOOLEAN : create' = [create EXCEPT !.open = x, !.err = FALSE]
      BY <2>1 DEF K!OpenCreate, K!CloseCreate
    <3>2. create' \in K!Create /\ create'.st = create.st /\ create'.key = create.key
      BY <1>1, <3>1, CreateTypes, Zenon
    <3>3. keys' = keys
      BY <2>1 DEF K!OpenCreate, K!CloseCreate
    <3>4. QED
      BY <1>1, <3>2, <3>3 DEF KeysInv, CreatedIsKey, K!TypeOK
  <2>2. CASE K!SubmitCreate
    <3>1. create' = [create EXCEPT !.st = "sent", !.err = FALSE] /\ keys' = keys
      BY <2>2 DEF K!SubmitCreate
    <3>2. create' \in K!Create /\ create'.st = "sent"
      BY <1>1, <3>1, CreateTypes
    <3>3. QED
      BY <1>1, <3>1, <3>2 DEF CreatedIsKey, K!TypeOK
  <2>3. CASE K!ServeCreate
    <3>1. ASSUME NEW k \in Keys, keys' = keys \cup {k},
                 create' = [create EXCEPT !.st = "ok", !.key = k]
          PROVE  keys' \subseteq Keys /\ create' \in K!Create /\ create'.key # None
      <4>1. create' \in K!Create /\ create'.key = k
        BY <1>1, <3>1, CreateTypes, Zenon
      <4>2. QED
        BY <1>1, <3>1, <4>1, KeysAssumption DEF K!TypeOK
    <3>2. ASSUME create' = [create EXCEPT !.st = "failed"], UNCHANGED keys
          PROVE  keys' \subseteq Keys /\ create' \in K!Create /\ create'.st = "failed"
      BY <1>1, <3>2, CreateTypes DEF K!TypeOK
    <3>3. QED
      BY <2>3, <3>1, <3>2 DEF K!ServeCreate, CreatedIsKey
  <2>4. QED
    BY <2>1, <2>2, <2>3
<1>4. K!TypeOK'
  BY <1>1, <1>2, <1>3 DEF K!TypeOK
<1>5. SecretInv' /\ RowIsAnswered'
  BY <1>2 DEF KeysInv, SecretInv, K!CountdownIsWhole, K!TimedWhileShown, RowIsAnswered
<1>6. QED
  BY <1>3, <1>4, <1>5 DEF KeysInv

\* The answer to a creation: its secret is shown from now on, by an interval of its own.
LEMMA CreateArrivesHolds ==
  ASSUME KeysInv, K!CreateArrives PROVE KeysInv'
<1>1. K!TypeOK /\ create \in K!Create
  BY DEF KeysInv, K!TypeOK
<1>2. UNCHANGED <<keys, mounted, copied, row, rawTest, tests, pending, verdict, count, left>>
  BY DEF K!CreateArrives
<1>3. CASE create.st = "failed"
  <2>1. /\ create' = [create EXCEPT !.st = "idle", !.err = TRUE]
        /\ UNCHANGED <<raw, countdown, intervals, elapsed, shown>>
    BY <1>3 DEF K!CreateArrives
  <2>2. create' \in K!Create /\ create'.st = "idle"
    BY <1>1, <2>1, CreateTypes
  <2>3. QED
    BY <1>1, <1>2, <2>1, <2>2 DEF KeysInv, K!TypeOK, SecretInv, K!CountdownIsWhole,
                                  K!TimedWhileShown, RowIsAnswered, CreatedIsKey
<1>4. CASE create.st # "failed"
  <2>1. /\ create' = K!NoCreate /\ raw' = create.key /\ shown' = shown \cup {create.key}
        /\ countdown' = Countdown /\ intervals' = K!Cleaned(intervals) + 1 /\ elapsed' = 0
        /\ create.st = "ok"
    BY <1>4 DEF K!CreateArrives
  <2>2. create.key \in Keys
    BY <1>1, <2>1 DEF KeysInv, CreatedIsKey, K!Create
  <2>3. intervals' = 1 /\ raw' # None
    BY <2>1, <2>2, KeysAssumption DEF K!Cleaned
  <2>4. K!TypeOK'
    <3>1. /\ create' \in K!Create /\ raw' \in Keys \cup {None} /\ shown' \subseteq Keys
          /\ countdown' \in 0 .. Countdown /\ intervals' \in {0, 1} /\ elapsed' \in Nat
      BY <1>1, <2>1, <2>2, <2>3, KeysTypes DEF K!TypeOK
    <3>2. QED
      BY <1>1, <1>2, <3>1 DEF K!TypeOK
  <2>5. SecretInv' /\ RowIsAnswered' /\ CreatedIsKey'
    <3>1. countdown' + elapsed' = Countdown
      BY <2>1, KeysAssumption
    <3>2. SecretInv'
      BY <2>3, <3>1 DEF SecretInv, K!CountdownIsWhole, K!TimedWhileShown
    <3>3. RowIsAnswered'
      BY <1>2 DEF KeysInv, RowIsAnswered
    <3>4. CreatedIsKey'
      BY <2>1, KeysTypes DEF CreatedIsKey
    <3>5. QED
      BY <3>2, <3>3, <3>4
  <2>6. QED
    BY <2>4, <2>5 DEF KeysInv
<1>5. QED
  BY <1>3, <1>4

\* A second passes, the user copies the secret or closes its dialog.
LEMMA SecretSteps ==
  ASSUME KeysInv, K!Tick \/ K!Done \/ K!CopyRawKey PROVE KeysInv'
<1>1. K!TypeOK /\ SecretInv
  BY DEF KeysInv
<1>2. UNCHANGED <<keys, mounted, create, shown, row, tests, pending, verdict, count, left>>
  BY DEF K!Tick, K!Done, K!CopyRawKey
<1>3. ASSUME raw' \in Keys \cup {None}, copied' \in BOOLEAN, countdown' \in 0 .. Countdown,
             intervals' \in {0, 1}, elapsed' \in Nat, rawTest' \in K!Says \cup {"loading"},
             SecretInv'
      PROVE  KeysInv'
  BY <1>1, <1>2, <1>3 DEF KeysInv, K!TypeOK, RowIsAnswered, CreatedIsKey
<1>4. ASSUME K!DismissRawKey PROVE KeysInv'
  <2>1. /\ raw' = None /\ copied' = FALSE /\ countdown' = Countdown /\ rawTest' = "nothing"
        /\ elapsed' = 0 /\ intervals' = 0
    BY <1>4 DEF K!DismissRawKey, K!Cleaned
  <2>2. SecretInv'
    BY <2>1 DEF SecretInv, K!CountdownIsWhole, K!TimedWhileShown
  <2>3. QED
    BY <1>3, <2>1, <2>2, KeysTypes DEF K!Says
<1>5. CASE K!Tick
  <2>1. raw # None /\ intervals = 1 /\ raw \in Keys
    BY <1>1, <1>5 DEF K!Tick, SecretInv, K!TimedWhileShown, K!TypeOK
  <2>2. CASE countdown <= intervals
    BY <1>4, <1>5, <2>2 DEF K!Tick
  <2>3. CASE ~(countdown <= intervals)
    <3>1. /\ countdown' = countdown - 1 /\ elapsed' = elapsed + 1
          /\ UNCHANGED <<raw, copied, rawTest, intervals>>
      BY <1>5, <2>1, <2>3 DEF K!Tick
    <3>2. countdown \in 0 .. Countdown /\ elapsed \in Nat /\ countdown + elapsed = Countdown
      BY <1>1, <2>1 DEF K!TypeOK, SecretInv, K!CountdownIsWhole
    <3>3. countdown' \in 0 .. Countdown /\ elapsed' \in Nat
          /\ countdown' + elapsed' = Countdown
      BY <2>1, <2>3, <3>1, <3>2, KeysAssumption
    <3>4. SecretInv'
      BY <1>1, <3>1, <3>3 DEF SecretInv, K!CountdownIsWhole, K!TimedWhileShown
    <3>5. QED
      BY <1>1, <1>3, <3>1, <3>3, <3>4 DEF K!TypeOK
  <2>4. QED
    BY <2>2, <2>3
<1>6. CASE K!Done
  BY <1>4, <1>6 DEF K!Done
<1>7. CASE K!CopyRawKey
  BY <1>1, <1>3, <1>7 DEF K!CopyRawKey, K!TypeOK, SecretInv, K!CountdownIsWhole, K!TimedWhileShown
<1>8. QED
  BY <1>5, <1>6, <1>7

\* The page is left, and its state is gone, or comes back.
LEMMA LeaveSteps ==
  ASSUME KeysInv, K!Leave \/ K!Return PROVE KeysInv'
<1>1. K!TypeOK
  BY DEF KeysInv
<1>2. CASE K!Leave
  <2>1. /\ create' = K!NoCreate /\ raw' = None /\ copied' = FALSE /\ countdown' = Countdown
        /\ intervals' = 0 /\ elapsed' = 0 /\ row' = K!NoRow /\ rawTest' = "nothing"
        /\ pending' = 0 /\ mounted' = FALSE /\ left' = left + 1 /\ left < MaxLeft
        /\ verdict' = [k \in Keys |-> "nothing"] /\ UNCHANGED <<shown, tests, count>>
    BY <1>2 DEF K!Leave
  <2>2. keys' \subseteq Keys
    BY <1>1, <1>2 DEF K!Leave, K!TypeOK
  <2>3. left' \in 0 .. MaxLeft
    BY <1>1, <2>1, KeysAssumption DEF K!TypeOK
  <2>4. K!TypeOK'
    BY <1>1, <2>1, <2>2, <2>3, KeysTypes DEF K!TypeOK, K!Says
  <2>5. QED
    BY <2>1, <2>4, KeysTypes DEF KeysInv, SecretInv, K!CountdownIsWhole, K!TimedWhileShown,
                                 RowIsAnswered, CreatedIsKey
<1>3. CASE K!Return
  BY <1>3 DEF K!Return, K!pageVars, KeysInv, K!TypeOK, SecretInv, K!CountdownIsWhole,
              K!TimedWhileShown, RowIsAnswered, CreatedIsKey
<1>4. QED
  BY <1>2, <1>3

\* A test that is sent, by a row or by the secret's dialog.
LEMMA StartType ==
  ASSUME K!TypeOK, count < MaxTests, NEW k \in Keys, NEW x \in BOOLEAN, K!Start(k, x)
  PROVE  /\ count' \in 0 .. MaxTests /\ pending' \in 0 .. MaxTests
         /\ tests' \subseteq K!Test
<1>1. /\ count' = count + 1 /\ pending' = count + 1
      /\ tests' = tests \cup {[key |-> k, raw |-> x, page |-> left, n |-> count + 1, st |-> "sent"]}
  BY DEF K!Start
<1>2. count \in 0 .. MaxTests /\ left \in 0 .. MaxLeft /\ tests \subseteq K!Test
  BY DEF K!TypeOK
<1>3. count + 1 \in 1 .. MaxTests
  BY <1>2, KeysAssumption
<1>4. [key |-> k, raw |-> x, page |-> left, n |-> count + 1, st |-> "sent"] \in K!Test
  BY <1>2, <1>3 DEF K!Test
<1>5. QED
  BY <1>1, <1>2, <1>3, <1>4

LEMMA RowTypes ==
  ASSUME NEW r \in K!Row
  PROVE  /\ \A k \in Keys : /\ [r EXCEPT !.testing = k] \in K!Row
                            /\ [r EXCEPT !.testing = k].of = r.of
                            /\ [r EXCEPT !.testing = k].says = r.says
                            /\ [r EXCEPT !.testing = k, !.of = None, !.says = "nothing"] \in K!Row
                            /\ [r EXCEPT !.testing = k, !.of = None, !.says = "nothing"].of = None
         /\ [r EXCEPT !.model = TRUE] \in K!Row
         /\ [r EXCEPT !.model = TRUE].of = r.of /\ [r EXCEPT !.model = TRUE].says = r.says
         /\ [r EXCEPT !.testing = None, !.model = FALSE] \in K!Row
         /\ [r EXCEPT !.testing = None, !.model = FALSE].of = r.of
         /\ [r EXCEPT !.testing = None, !.model = FALSE].says = r.says
BY DEF K!Row, K!Says

LEMMA TestSteps ==
  ASSUME KeysInv, NEW k \in Keys, K!RowTest(k) \/ K!RawKeyTest \/ K!TypeModel \/ K!DropModel
  PROVE  KeysInv'
<1>1. K!TypeOK /\ row \in K!Row /\ verdict \in [Keys -> K!Says]
  BY DEF KeysInv, K!TypeOK
<1>2. UNCHANGED <<keys, mounted, create, raw, copied, countdown, intervals, elapsed, shown, left>>
  BY DEF K!RowTest, K!RawKeyTest, K!TypeModel, K!DropModel
<1>3. SecretInv' /\ CreatedIsKey'
  BY <1>2 DEF KeysInv, SecretInv, K!CountdownIsWhole, K!TimedWhileShown, CreatedIsKey
<1>4. ASSUME row' \in K!Row, rawTest' \in K!Says \cup {"loading"}, tests' \subseteq K!Test,
             pending' \in 0 .. MaxTests, verdict' \in [Keys -> K!Says], count' \in 0 .. MaxTests,
             RowIsAnswered'
      PROVE  KeysInv'
  <2>1. K!TypeOK'
    BY <1>1, <1>2, <1>4 DEF K!TypeOK
  <2>2. QED
    BY <1>3, <1>4, <2>1 DEF KeysInv
<1>5. CASE K!RowTest(k)
  <2>1. CASE k \in Custom /\ ~row.model
    <3>1. /\ row' = [row EXCEPT !.testing = k]
          /\ UNCHANGED <<count, pending, tests, verdict, rawTest>>
      BY <1>5, <2>1 DEF K!RowTest
    <3>2. row' \in K!Row /\ row'.of = row.of /\ row'.says = row.says
      BY <1>1, <3>1, RowTypes
    <3>3. RowIsAnswered'
      BY <3>1, <3>2 DEF KeysInv, RowIsAnswered
    <3>4. QED
      BY <1>1, <1>4, <3>1, <3>2, <3>3 DEF K!TypeOK
  <2>2. CASE ~(k \in Custom /\ ~row.model)
    <3>1. /\ row' = [row EXCEPT !.testing = k, !.of = None, !.says = "nothing"]
          /\ K!Start(k, FALSE) /\ verdict' = [verdict EXCEPT ![k] = "nothing"]
          /\ rawTest' = rawTest /\ count < MaxTests
      BY <1>5, <2>2 DEF K!RowTest
    <3>2. row' \in K!Row /\ row'.of = None
      BY <1>1, <3>1, RowTypes
    <3>3. RowIsAnswered' /\ verdict' \in [Keys -> K!Says] /\ rawTest' \in K!Says \cup {"loading"}
      BY <1>1, <3>1, <3>2 DEF RowIsAnswered, K!Says, K!TypeOK
    <3>4. QED
      BY <1>1, <1>4, <3>1, <3>2, <3>3, StartType
  <2>3. QED
    BY <2>1, <2>2
<1>6. CASE K!RawKeyTest
  <2>1. /\ rawTest' = "loading" /\ K!Start(raw, TRUE) /\ raw # None /\ count < MaxTests
        /\ UNCHANGED <<row, verdict>>
    BY <1>6 DEF K!RawKeyTest
  <2>2. raw \in Keys
    BY <1>1, <2>1 DEF K!TypeOK
  <2>3. RowIsAnswered'
    BY <2>1 DEF KeysInv, RowIsAnswered
  <2>4. QED
    BY <1>1, <1>4, <2>1, <2>2, <2>3, StartType
<1>7. CASE K!TypeModel \/ K!DropModel
  <2>1. /\ row' \in {[row EXCEPT !.model = TRUE], [row EXCEPT !.testing = None, !.model = FALSE]}
        /\ UNCHANGED <<rawTest, tests, pending, verdict, count>>
    BY <1>7 DEF K!TypeModel, K!DropModel
  <2>2. row' \in K!Row /\ row'.of = row.of /\ row'.says = row.says
    BY <1>1, <2>1, RowTypes
  <2>3. RowIsAnswered'
    BY <2>1, <2>2 DEF KeysInv, RowIsAnswered
  <2>4. QED
    BY <1>1, <1>4, <2>1, <2>2, <2>3 DEF K!TypeOK
<1>8. QED
  BY <1>5, <1>6, <1>7

\* A test is answered: to its row, together with what it said, or to the secret's dialog.
LEMMA AnswerSteps ==
  ASSUME KeysInv, NEW t \in tests, K!ServeTest(t) \/ K!TestArrives(t) PROVE KeysInv'
<1>1. /\ K!TypeOK /\ row \in K!Row /\ verdict \in [Keys -> K!Says] /\ tests \subseteq K!Test
      /\ t \in K!Test
  BY DEF KeysInv, K!TypeOK
<1>2. t.key \in Keys /\ t.raw \in BOOLEAN /\ t.st \in {"sent", "ok", "error"}
  BY <1>1 DEF K!Test
<1>3. CASE K!ServeTest(t)
  <2>1. PICK st \in {"ok", "error"} : tests' = (tests \ {t}) \cup {[t EXCEPT !.st = st]}
    BY <1>3 DEF K!ServeTest
  <2>2. [t EXCEPT !.st = st] \in K!Test
    BY <1>1 DEF K!Test
  <2>3. tests' \subseteq K!Test
    BY <1>1, <2>1, <2>2
  <2>4. UNCHANGED <<keys, mounted, K!pageVars, shown, verdict, count, left>>
    BY <1>3 DEF K!ServeTest
  <2>5. QED
    BY <2>3, <2>4 DEF K!pageVars, KeysInv, K!TypeOK, SecretInv, K!CountdownIsWhole,
                      K!TimedWhileShown, RowIsAnswered, CreatedIsKey
<1>4. CASE K!TestArrives(t)
  <2>1. /\ tests' \subseteq K!Test /\ pending' \in 0 .. MaxTests
        /\ UNCHANGED <<keys, mounted, create, raw, copied, countdown, intervals, elapsed, shown,
                       count, left>>
        /\ t.st \in K!Says
    BY <1>1, <1>2, <1>4, KeysTypes DEF K!TestArrives, K!TypeOK, K!Says
  <2>2. rawTest' \in K!Says \cup {"loading"}
    BY <1>1, <1>4, <2>1 DEF K!TestArrives, K!TypeOK
  <2>3. row' \in K!Row /\ verdict' \in [Keys -> K!Says] /\ RowIsAnswered'
    <3>1. CASE mounted /\ t.page = left /\ ~t.raw
      <4>1. row' = [row EXCEPT !.of = t.key, !.says = t.st] /\ verdict' = [verdict EXCEPT ![t.key] = t.st]
        BY <1>4, <3>1 DEF K!TestArrives, K!Answered
      <4>2. row' \in K!Row /\ row'.of = t.key /\ row'.says = t.st
        BY <1>1, <1>2, <2>1, <4>1 DEF K!Row
      <4>3. verdict' \in [Keys -> K!Says] /\ verdict'[t.key] = t.st
        BY <1>1, <1>2, <2>1, <4>1
      <4>4. QED
        BY <4>2, <4>3 DEF RowIsAnswered
    <3>2. CASE ~(mounted /\ t.page = left /\ ~t.raw)
      <4>1. row' = row /\ verdict' = verdict
        BY <1>4, <3>2 DEF K!TestArrives
      <4>2. QED
        BY <1>1, <4>1 DEF KeysInv, RowIsAnswered
    <3>3. QED
      BY <3>1, <3>2
  <2>4. SecretInv' /\ CreatedIsKey'
    BY <2>1 DEF KeysInv, SecretInv, K!CountdownIsWhole, K!TimedWhileShown, CreatedIsKey
  <2>5. K!TypeOK'
    BY <1>1, <2>1, <2>2, <2>3 DEF K!TypeOK
  <2>6. QED
    BY <2>3, <2>4, <2>5 DEF KeysInv
<1>5. QED
  BY <1>3, <1>4

LEMMA KeysNextHolds == KeysInv /\ [K!Next]_(K!vars) => KeysInv'
<1>1. SUFFICES ASSUME KeysInv, [K!Next]_(K!vars) PROVE KeysInv'
  OBVIOUS
<1>2. CASE K!OpenCreate \/ K!CloseCreate \/ K!SubmitCreate \/ K!ServeCreate
  BY <1>1, <1>2, CreateSteps
<1>3. CASE K!CreateArrives
  BY <1>1, <1>3, CreateArrivesHolds
<1>4. CASE K!Tick \/ K!Done \/ K!CopyRawKey
  BY <1>1, <1>4, SecretSteps
<1>5. CASE K!Leave \/ K!Return
  BY <1>1, <1>5, LeaveSteps
<1>6. CASE \E k \in Keys : K!RowTest(k)
  BY <1>1, <1>6, TestSteps
<1>7. CASE K!RawKeyTest \/ K!TypeModel \/ K!DropModel
  <2>1. \E k \in Keys : TRUE
    BY <1>1, <1>7, KeysAssumption
       DEF KeysInv, K!TypeOK, K!RawKeyTest, K!TypeModel, K!DropModel
  <2>2. QED
    BY <1>1, <1>7, <2>1, TestSteps
<1>8. CASE \E t \in tests : K!ServeTest(t) \/ K!TestArrives(t)
  BY <1>1, <1>8, AnswerSteps
<1>9. CASE UNCHANGED K!vars
  BY <1>1, <1>9 DEF K!vars, KeysInv, K!TypeOK, SecretInv, K!CountdownIsWhole,
                    K!TimedWhileShown, RowIsAnswered, CreatedIsKey
<1>10. QED
  BY <1>1, <1>2, <1>3, <1>4, <1>5, <1>6, <1>7, <1>8, <1>9 DEF K!Next

LEMMA KeysMean == KeysInv => K!TypeOK /\ K!CountdownIsWhole /\ K!TimedWhileShown /\ K!RowTellsItsOwn
BY KeysAssumption DEF KeysInv, SecretInv, RowIsAnswered, K!RowTellsItsOwn, K!RowSays

LEMMA KeysSteps ==
  ASSUME [MCNext]_allVars, page = "keys"
  PROVE  page' = page /\ [K!Next]_(K!vars)
BY DEF MCNext, allVars, KOwn, K!vars

KeysPageInv == page = "keys" => KeysInv

\* KeysPage: a secret is shown for its whole countdown, timed by one interval of its own,
\* and a row tells what its own test said, for all keys and however long the countdown.
THEOREM SecretsAreTimed == MCSpec => []SecretIsTimed
<1>1. MCInit => KeysPageInv
  BY KeysInitHolds DEF MCInit, KeysPageInv
<1>2. KeysPageInv /\ [MCNext]_allVars => KeysPageInv'
  <2>1. CASE page = "keys"
    BY <2>1, KeysSteps, KeysNextHolds DEF KeysPageInv
  <2>2. CASE page # "keys"
    BY <2>2 DEF MCNext, allVars, KeysPageInv
  <2>3. QED
    BY <2>1, <2>2
<1>3. KeysPageInv => SecretIsTimed
  BY KeysMean DEF KeysPageInv, SecretIsTimed, On
<1>4. QED
  BY <1>1, <1>2, <1>3, PTL DEF MCSpec

----------------------------------------------------------------------------
(***************************************************************************)
(* Asking for Pro                                                          *)
(***************************************************************************)

\* The cache says that the user has asked only of one who has.
QueryIsTrue == query.data = "yes" \/ query.got = "yes" => requested

\* Requests are numbered apart, and an answer that says so is of a user who has asked.
PostsAreTrue ==
  \A r \in posts : /\ r.n <= count
                   /\ r.st \in {"ok", "conflict"} => requested
                   /\ \A s \in posts : r.n = s.n => r = s

\* A dialog: it thanks who has asked; what was typed is there as long as it is open, when
\* no timer runs; its error is that of its request, and a request under way is pending.
DialogHolds(d) ==
  LET g == dialogs[d]
  IN /\ g.mut = "ok" => requested
     /\ d \in wrote => P!On /\ g.mounted /\ g.open /\ g.text
     /\ g.open => ~g.reset
     /\ g.err => g.mut = "failed" /\ g.post # 0
     /\ g.post <= count
     /\ \A r \in posts : g.post = r.n => g.mut = "pending"
DialogsHold == \A d \in P!Places : DialogHolds(d)

ProInv == P!TypeOK /\ QueryIsTrue /\ PostsAreTrue /\ DialogsHold

\* What the dialog's operations leave in it.
LEMMA DialogTypes ==
  /\ P!Gone \in P!Dialog /\ P!Gone.post = 0 /\ P!Gone.mut = "idle" /\ ~P!Gone.err /\ ~P!Gone.open
  /\ \A x \in BOOLEAN : /\ P!Fresh(x) \in P!Dialog /\ P!Fresh(x).post = 0
                        /\ P!Fresh(x).mut = "idle" /\ ~P!Fresh(x).err
                        /\ P!Fresh(x).open = x /\ P!Fresh(x).reset = ~x
<1>1. 0 \in 0 .. MaxPosts
  BY ProAssumption
<1>2. P!Gone \in P!Dialog /\ P!Gone.post = 0 /\ P!Gone.mut = "idle" /\ ~P!Gone.err /\ ~P!Gone.open
  BY <1>1 DEF P!Gone, P!Dialog
<1>3. ASSUME NEW x \in BOOLEAN
      PROVE  /\ P!Fresh(x) \in P!Dialog /\ P!Fresh(x).post = 0
             /\ P!Fresh(x).mut = "idle" /\ ~P!Fresh(x).err
             /\ P!Fresh(x).open = x /\ P!Fresh(x).reset = ~x
  BY <1>1 DEF P!Fresh, P!Gone, P!Dialog
<1>4. QED
  BY <1>2, <1>3

\* A dialog that a step does not touch.
LEMMA DialogKept ==
  ASSUME ProInv, NEW d \in P!Places, dialogs'[d] = dialogs[d], billing' = billing,
         d \in wrote' => d \in wrote, count' = count, requested => requested',
         \A r \in posts' : \E s \in posts : r.n = s.n
  PROVE  DialogHolds(d)'
BY DEF ProInv, DialogsHold, DialogHolds, P!On

LEMMA ProInitHolds == P!Init => ProInv
<1>1. SUFFICES ASSUME P!Init PROVE ProInv
  OBVIOUS
<1>2. dialogs \in [P!Places -> P!Dialog]
  BY <1>1, DialogTypes DEF P!Init
<1>3. query = NewQuery /\ NewQuery \in P!QueryOf({"yes", "no"})
  BY <1>1, NewQueryType, PCache DEF P!Init
<1>4. P!TypeOK
  <2>1. count \in 0 .. MaxPosts /\ events \in 0 .. MaxProEvents
    BY <1>1, ProAssumption DEF P!Init
  <2>2. QED
    BY <1>1, <1>2, <1>3, <2>1 DEF P!Init, P!TypeOK
<1>5. QueryIsTrue /\ PostsAreTrue
  BY <1>1, <1>3, ProAssumption DEF P!Init, QueryIsTrue, PostsAreTrue, NewQuery
<1>6. ASSUME NEW d \in P!Places PROVE DialogHolds(d)
  <2>1. dialogs[d] \in {P!Gone, P!Fresh(FALSE)}
    BY <1>1, <1>6 DEF P!Init
  <2>2. dialogs[d].post = 0 /\ dialogs[d].mut = "idle" /\ ~dialogs[d].err /\ ~dialogs[d].open
    BY <2>1, DialogTypes
  <2>3. wrote = {} /\ posts = {} /\ count = 0 /\ 0 <= count
    BY <1>1 DEF P!Init
  <2>4. QED
    BY <2>2, <2>3 DEF DialogHolds
<1>7. QED
  BY <1>4, <1>5, <1>6 DEF ProInv, DialogsHold

\* The steps of the cache's entry.
LEMMA StatusSteps ==
  ASSUME ProInv, NEW q \in QueryOf({"yes", "no"}), query' = q,
         q.data = "yes" \/ q.got = "yes" => requested,
         events' \in 0 .. MaxProEvents, UNCHANGED <<P!others, dialogs, wrote, posts, requested, count>>
  PROVE  ProInv'
<1>1. P!TypeOK'
  BY PCache DEF ProInv, P!TypeOK, P!others
<1>2. QueryIsTrue' /\ PostsAreTrue'
  BY DEF ProInv, QueryIsTrue, PostsAreTrue
<1>3. DialogsHold'
  BY DEF ProInv, DialogsHold, DialogHolds, P!On, P!others
<1>4. QED
  BY <1>1, <1>2, <1>3 DEF ProInv

\* The steps of one dialog that send nothing.
LEMMA DialogSteps ==
  ASSUME ProInv, NEW d \in P!Places, NEW g \in P!Dialog,
         dialogs' = [dialogs EXCEPT ![d] = g], wrote' \subseteq P!Places,
         wrote' \subseteq wrote \cup {d}, DialogHolds(d)',
         events' \in 0 .. MaxProEvents, UNCHANGED <<P!others, posts, query, requested, count>>
  PROVE  ProInv'
<1>1. dialogs \in [P!Places -> P!Dialog]
  BY DEF ProInv, P!TypeOK
<1>2. P!TypeOK'
  BY <1>1 DEF ProInv, P!TypeOK, P!others
<1>3. QueryIsTrue' /\ PostsAreTrue'
  BY DEF ProInv, QueryIsTrue, PostsAreTrue
<1>4. ASSUME NEW e \in P!Places PROVE DialogHolds(e)'
  <2>1. CASE e = d
    BY <2>1
  <2>2. CASE e # d
    <3>1. dialogs'[e] = dialogs[e] /\ (e \in wrote' => e \in wrote) /\ billing' = billing
      BY <1>1, <2>2 DEF P!others
    <3>2. QED
      BY <3>1, DialogKept
  <2>3. QED
    BY <2>1, <2>2
<1>5. QED
  BY <1>2, <1>3, <1>4 DEF ProInv, DialogsHold

\* Whose screen is not empty has a dialog that is open.
LEMMA ScreenFacts ==
  ASSUME NEW d \in P!Places
  PROVE  /\ P!Screen(d) # "none" => P!On /\ dialogs[d].mounted /\ dialogs[d].open
         /\ P!On /\ dialogs[d].mounted /\ dialogs[d].open => P!Screen(d) # "none"
BY DEF P!Screen

LEMMA DialogStepsHold ==
  ASSUME ProInv, NEW d \in P!Places,
         P!Open \/ P!Close(d) \/ P!ResetFires(d) \/ P!Type(d)
  PROVE  ProInv'
<1>1. /\ dialogs \in [P!Places -> P!Dialog] /\ dialogs[d] \in P!Dialog
      /\ dialogs["page"] \in P!Dialog /\ "page" \in P!Places
      /\ wrote \subseteq P!Places /\ events \in 0 .. MaxProEvents
      /\ DialogHolds(d) /\ DialogHolds("page")
  BY DEF ProInv, P!TypeOK, P!Places, DialogsHold
<1>2. CASE P!Open
  <2> DEFINE g == P!Opened(dialogs["page"])
  <2>1. /\ dialogs' = [dialogs EXCEPT !["page"] = g]
        /\ UNCHANGED <<P!others, wrote, posts, query, requested, count, events>>
    BY <1>2 DEF P!Open
  <2>2. /\ g \in P!Dialog /\ g.open /\ ~g.reset /\ g.mounted = dialogs["page"].mounted
        /\ g.text = dialogs["page"].text /\ g.err = dialogs["page"].err
        /\ g.mut = dialogs["page"].mut /\ g.post = dialogs["page"].post
    BY <1>1 DEF P!Opened, P!Dialog
  <2> HIDE DEF g
  <2>3. dialogs'["page"] = g
    BY <1>1, <2>1
  <2>4. DialogHolds("page")'
    BY <1>1, <2>1, <2>2, <2>3 DEF DialogHolds, P!On, P!others
  <2>5. QED
    BY <1>1, <2>1, <2>2, <2>4, DialogSteps
<1>3. CASE P!Close(d)
  <2> DEFINE g == [dialogs[d] EXCEPT !.open = FALSE, !.reset = TRUE]
  <2>1. /\ dialogs' = [dialogs EXCEPT ![d].open = FALSE, ![d].reset = TRUE]
        /\ wrote' = wrote \ {d} /\ events' = events + 1 /\ events < MaxProEvents
        /\ UNCHANGED <<P!others, posts, query, requested, count>>
    BY <1>3 DEF P!Close
  <2>2. dialogs' = [dialogs EXCEPT ![d] = g]
    BY <1>1, <2>1
  <2>3. /\ g \in P!Dialog /\ ~g.open /\ g.err = dialogs[d].err
        /\ g.mut = dialogs[d].mut /\ g.post = dialogs[d].post
    BY <1>1 DEF P!Dialog
  <2> HIDE DEF g
  <2>4. dialogs'[d] = g
    BY <1>1, <2>2
  <2>5. DialogHolds(d)'
    BY <1>1, <2>1, <2>3, <2>4 DEF DialogHolds
  <2>6. events' \in 0 .. MaxProEvents
    BY <1>1, <2>1, ProAssumption
  <2>7. QED
    BY <1>1, <2>1, <2>2, <2>3, <2>5, <2>6, DialogSteps
<1>4. CASE P!ResetFires(d)
  <2> DEFINE g == [dialogs[d] EXCEPT !.reset = FALSE, !.text = FALSE, !.err = FALSE,
                                     !.post = 0, !.mut = "idle"]
  <2>1. /\ dialogs' = [dialogs EXCEPT ![d] = g] /\ dialogs[d].reset
        /\ UNCHANGED <<P!others, wrote, posts, query, requested, count, events>>
    BY <1>4 DEF P!ResetFires
  <2>2. g \in P!Dialog /\ ~g.reset /\ ~g.err /\ g.mut = "idle" /\ g.post = 0
    <3>1. 0 \in 0 .. MaxPosts
      BY ProAssumption
    <3>2. QED
      BY <1>1, <3>1 DEF P!Dialog
  <2> HIDE DEF g
  <2>3. dialogs'[d] = g
    BY <1>1, <2>1
  <2>4. d \notin wrote
    BY <1>1, <2>1 DEF DialogHolds
  <2>5. 0 <= count /\ \A r \in posts : r.n # 0
    BY ProAssumption DEF ProInv, P!TypeOK, P!Post
  <2>6. DialogHolds(d)'
    BY <2>1, <2>2, <2>3, <2>4, <2>5 DEF DialogHolds
  <2>7. QED
    BY <1>1, <2>1, <2>2, <2>6, DialogSteps
<1>5. CASE P!Type(d)
  <2> DEFINE g == [dialogs[d] EXCEPT !.text = TRUE]
  <2>1. /\ dialogs' = [dialogs EXCEPT ![d].text = TRUE] /\ P!Screen(d) # "none"
        /\ wrote' = wrote \cup {d} /\ UNCHANGED <<P!others, posts, query, requested, count, events>>
    BY <1>5 DEF P!Type
  <2>2. dialogs' = [dialogs EXCEPT ![d] = g]
    BY <1>1, <2>1
  <2>3. /\ g \in P!Dialog /\ g.text /\ g.open = dialogs[d].open /\ g.mounted = dialogs[d].mounted
        /\ g.reset = dialogs[d].reset /\ g.err = dialogs[d].err
        /\ g.mut = dialogs[d].mut /\ g.post = dialogs[d].post
    BY <1>1 DEF P!Dialog
  <2> HIDE DEF g
  <2>4. dialogs'[d] = g
    BY <1>1, <2>2
  <2>5. P!On /\ dialogs[d].mounted /\ dialogs[d].open
    BY <2>1, ScreenFacts
  <2>6. DialogHolds(d)'
    BY <1>1, <2>1, <2>3, <2>4, <2>5 DEF DialogHolds, P!On, P!others
  <2>7. QED
    BY <1>1, <2>1, <2>2, <2>3, <2>6, DialogSteps
<1>6. QED
  BY <1>2, <1>3, <1>4, <1>5

\* A dialog that is new has sent nothing and was not typed into.
LEMMA NewDialogHolds ==
  ASSUME ProInv, NEW d \in P!Places, NEW x \in BOOLEAN,
         dialogs'[d] = P!Gone \/ dialogs'[d] = P!Fresh(x), d \notin wrote',
         UNCHANGED <<posts, count, requested>>
  PROVE  DialogHolds(d)'
<1>1. /\ dialogs'[d].post = 0 /\ dialogs'[d].mut = "idle" /\ ~dialogs'[d].err
      /\ dialogs'[d].open => ~dialogs'[d].reset
  BY DialogTypes
<1>2. 0 <= count /\ \A r \in posts : r.n # 0
  BY ProAssumption DEF ProInv, P!TypeOK, P!Post
<1>3. QED
  BY <1>1, <1>2 DEF DialogHolds

LEMMA MetaArrivesHolds ==
  ASSUME ProInv, NEW on \in BOOLEAN, P!MetaArrives(on) PROVE ProInv'
<1>1. P!TypeOK /\ dialogs \in [P!Places -> P!Dialog] /\ "shell" \in P!Places
  BY DEF ProInv, P!TypeOK, P!Places
<1>2. /\ billing = "unknown" /\ billing' \in {"on", "off"} /\ intent' \in BOOLEAN
      /\ UNCHANGED <<me, free, wrote, posts, requested, count, events>>
      /\ dialogs' = dialogs \/ dialogs' = [dialogs EXCEPT !["shell"] = P!Fresh(TRUE)]
      /\ query' \in {query, Sent(query)}
  BY <1>1, PCache DEF P!MetaArrives, P!TypeOK
<1>3. wrote = {}
  BY <1>1, <1>2 DEF ProInv, DialogsHold, DialogHolds, P!On, P!TypeOK
<1>4. /\ query' \in QueryOf({"yes", "no"}) /\ QueryIsTrue'
  <2>1. query \in QueryOf({"yes", "no"})
    BY <1>1, PCache DEF P!TypeOK
  <2>2. Sent(query) \in QueryOf({"yes", "no"}) /\ Sent(query).data = query.data /\ Sent(query).got = None
    BY <2>1, SentFacts
  <2>3. QED
    BY <1>2, <2>1, <2>2, ProAssumption DEF ProInv, QueryIsTrue
<1>5. dialogs' \in [P!Places -> P!Dialog]
  BY <1>1, <1>2, DialogTypes
<1>6. P!TypeOK'
  BY <1>1, <1>2, <1>4, <1>5, PCache DEF P!TypeOK
<1>7. ASSUME NEW d \in P!Places PROVE DialogHolds(d)'
  <2>1. dialogs'[d] = dialogs[d] \/ dialogs'[d] = P!Fresh(TRUE)
    BY <1>1, <1>2
  <2>2. CASE dialogs'[d] = dialogs[d]
    <3>1. DialogHolds(d)
      BY DEF ProInv, DialogsHold
    <3>2. QED
      BY <1>2, <1>3, <2>2, <3>1 DEF DialogHolds
  <2>3. CASE dialogs'[d] = P!Fresh(TRUE)
    BY <1>2, <1>3, <2>3, NewDialogHolds
  <2>4. QED
    BY <2>1, <2>2, <2>3
<1>8. PostsAreTrue'
  BY <1>2 DEF ProInv, PostsAreTrue
<1>9. QED
  BY <1>4, <1>6, <1>7, <1>8 DEF ProInv, DialogsHold

\* The page's dialog is closed, or nobody sees it, when the page is left.
LEMMA VisitHolds ==
  ASSUME ProInv, NEW stale \in BOOLEAN, P!Visit(stale) PROVE ProInv'
<1>1. /\ P!TypeOK /\ dialogs \in [P!Places -> P!Dialog] /\ "page" \in P!Places
      /\ query \in QueryOf({"yes", "no"}) /\ events \in 0 .. MaxProEvents
  BY PCache DEF ProInv, P!TypeOK, P!Places
<1>2. /\ events' = events + 1 /\ events < MaxProEvents /\ P!Screen("page") = "none"
      /\ UNCHANGED <<P!others, wrote, posts, requested, count>>
      /\ dialogs' = [dialogs EXCEPT !["page"] = P!Gone] \/
         dialogs' = [dialogs EXCEPT !["page"] = P!Fresh(FALSE)]
      /\ query' \in {query, Activated(query, stale)}
  BY PCache DEF P!Visit
<1>3. "page" \notin wrote
  BY <1>1, <1>2, ScreenFacts DEF ProInv, DialogsHold, DialogHolds
<1>4. query' \in QueryOf({"yes", "no"}) /\ QueryIsTrue'
  <2>1. /\ Activated(query, stale) \in QueryOf({"yes", "no"})
        /\ Activated(query, stale).data = query.data
        /\ Activated(query, stale).got \in {query.got, None}
    BY <1>1, ActivatedFacts
  <2>2. QED
    BY <1>1, <1>2, <2>1, ProAssumption DEF ProInv, QueryIsTrue
<1>5. dialogs' \in [P!Places -> P!Dialog] /\ events' \in 0 .. MaxProEvents
  <2>1. P!Gone \in P!Dialog /\ P!Fresh(FALSE) \in P!Dialog
    BY DialogTypes
  <2>2. dialogs' \in [P!Places -> P!Dialog]
    BY <1>1, <1>2, <2>1
  <2>3. QED
    BY <1>1, <1>2, <2>2, ProAssumption
<1>6. P!TypeOK'
  BY <1>1, <1>2, <1>4, <1>5, PCache DEF P!TypeOK, P!others
<1>7. ASSUME NEW d \in P!Places PROVE DialogHolds(d)'
  <2>1. CASE d = "page"
    <3>1. dialogs'[d] = P!Gone \/ dialogs'[d] = P!Fresh(FALSE)
      BY <1>1, <1>2, <2>1
    <3>2. QED
      BY <1>2, <1>3, <2>1, <3>1, NewDialogHolds
  <2>2. CASE d # "page"
    <3>1. dialogs'[d] = dialogs[d] /\ billing' = billing
      BY <1>1, <1>2, <2>2 DEF P!others
    <3>2. QED
      BY <1>2, <3>1, DialogKept
  <2>3. QED
    BY <2>1, <2>2
<1>8. PostsAreTrue'
  BY <1>2 DEF ProInv, PostsAreTrue
<1>9. QED
  BY <1>4, <1>6, <1>7, <1>8 DEF ProInv, DialogsHold

\* A request has a number of its own.
LEMMA SubmitHolds ==
  ASSUME ProInv, NEW d \in P!Places, P!Submit(d) PROVE ProInv'
<1> DEFINE g == [dialogs[d] EXCEPT !.err = FALSE, !.mut = "pending", !.post = count + 1]
           r == [n |-> count + 1, by |-> d, st |-> "sent"]
<1>1. /\ P!TypeOK /\ dialogs \in [P!Places -> P!Dialog] /\ dialogs[d] \in P!Dialog
      /\ count \in 0 .. MaxPosts /\ posts \subseteq P!Post
  BY DEF ProInv, P!TypeOK
<1>2. /\ count < MaxPosts /\ count' = count + 1 /\ posts' = posts \cup {r}
      /\ dialogs' = [dialogs EXCEPT ![d] = g]
      /\ UNCHANGED <<P!others, wrote, query, requested, events>>
  BY DEF P!Submit
<1>3. count + 1 \in 1 .. MaxPosts /\ count + 1 \in 0 .. MaxPosts /\ count + 1 # 0
  BY <1>1, <1>2, ProAssumption
<1>4. /\ g \in P!Dialog /\ ~g.err /\ g.mut = "pending" /\ g.post = count + 1
      /\ g.open = dialogs[d].open /\ g.reset = dialogs[d].reset
      /\ g.mounted = dialogs[d].mounted /\ g.text = dialogs[d].text
  BY <1>1, <1>3 DEF P!Dialog
<1>5. r \in P!Post /\ r.n = count + 1 /\ r.st = "sent"
  BY <1>3 DEF P!Post
<1> HIDE DEF g, r
<1>6. P!TypeOK'
  BY <1>1, <1>2, <1>3, <1>4, <1>5 DEF P!TypeOK, P!others
<1>7. \A s \in posts : s.n \in Nat /\ s.n <= count /\ s.n # count + 1
  BY <1>1 DEF ProInv, PostsAreTrue, P!Post
<1>8. PostsAreTrue'
  BY <1>1, <1>2, <1>5, <1>7 DEF ProInv, PostsAreTrue
<1>9. ASSUME NEW e \in P!Places PROVE DialogHolds(e)'
  <2>1. DialogHolds(e) /\ dialogs[e].post \in 0 .. MaxPosts
    BY <1>1 DEF ProInv, DialogsHold, P!Dialog
  <2>2. dialogs[e].post <= count + 1 /\ dialogs[e].post # count + 1
    BY <1>1, <2>1 DEF DialogHolds
  <2>3. CASE e = d
    <3>1. dialogs'[e] = g
      BY <1>1, <1>2, <2>3
    <3>2. DialogHolds(d)
      BY <2>1, <2>3
    <3>3. count + 1 <= count + 1
      BY <1>3
    <3>4. QED
      BY <1>2, <1>4, <2>3, <3>1, <3>2, <3>3 DEF DialogHolds, P!On, P!others
  <2>4. CASE e # d
    <3>1. dialogs'[e] = dialogs[e]
      BY <1>1, <1>2, <2>4
    <3>2. QED
      BY <1>2, <1>5, <2>1, <2>2, <3>1 DEF DialogHolds, P!On, P!others
  <2>5. QED
    BY <2>3, <2>4
<1>10. QueryIsTrue'
  BY <1>2 DEF ProInv, QueryIsTrue
<1>11. QED
  BY <1>6, <1>8, <1>9, <1>10 DEF ProInv, DialogsHold

\* A request goes on: the service answers it, or it fails.
LEMMA MovedHolds ==
  ASSUME ProInv, NEW r \in posts, NEW st \in {"ok", "conflict", "failed"},
         posts' = P!Moved(r, st), requested' \in BOOLEAN, requested => requested',
         st # "failed" => requested', events' \in 0 .. MaxProEvents,
         UNCHANGED <<P!others, dialogs, wrote, query, count>>
  PROVE  ProInv'
<1> DEFINE m == [r EXCEPT !.st = st]
<1>1. P!TypeOK /\ posts \subseteq P!Post /\ r \in P!Post
  BY DEF ProInv, P!TypeOK
<1>2. posts' = (posts \ {r}) \cup {m}
  BY DEF P!Moved
<1>3. m \in P!Post /\ m.n = r.n /\ m.st = st
  BY <1>1 DEF P!Post
<1> HIDE DEF m
<1>4. P!TypeOK'
  BY <1>1, <1>2, <1>3 DEF P!TypeOK, P!others
<1>5. PostsAreTrue'
  <2>1. \A s \in posts : /\ s.n <= count /\ (s.st \in {"ok", "conflict"} => requested)
                         /\ \A t \in posts : s.n = t.n => s = t
    BY DEF ProInv, PostsAreTrue
  <2>2. ASSUME NEW s \in posts', NEW t \in posts', s.n = t.n PROVE s = t
    BY <1>2, <1>3, <2>1, <2>2
  <2>3. ASSUME NEW s \in posts'
        PROVE  s.n <= count /\ (s.st \in {"ok", "conflict"} => requested')
    BY <1>2, <1>3, <2>1, <2>3
  <2>4. QED
    BY <2>2, <2>3 DEF PostsAreTrue
<1>6. QueryIsTrue'
  BY DEF ProInv, QueryIsTrue
<1>7. ASSUME NEW d \in P!Places PROVE DialogHolds(d)'
  <2>1. billing' = billing /\ \A s \in posts' : \E t \in posts : s.n = t.n
    BY <1>2, <1>3 DEF P!others
  <2>2. QED
    BY <2>1, DialogKept
<1>8. QED
  BY <1>4, <1>5, <1>6, <1>7 DEF ProInv, DialogsHold

\* An answer arrives: in the dialogs that follow the request, which were pending.
LEMMA PostArrivesHolds ==
  ASSUME ProInv, NEW r \in posts, P!PostArrives(r) PROVE ProInv'
<1>1. /\ P!TypeOK /\ posts \subseteq P!Post /\ r \in P!Post /\ query \in QueryOf({"yes", "no"})
      /\ dialogs \in [P!Places -> P!Dialog]
  BY PCache DEF ProInv, P!TypeOK
<1>2. /\ r.st \in {"ok", "conflict", "failed"} /\ posts' = posts \ {r}
      /\ query' \in {query, Put(query, "yes")}
      /\ query' # query => r.st \in {"ok", "conflict"}
      /\ dialogs' = [d \in P!Places |-> IF P!Follows(d, r) THEN P!After(dialogs[d], r.st) ELSE dialogs[d]]
      /\ UNCHANGED <<P!others, wrote, requested, count, events>>
  BY <1>1, PCache DEF P!PostArrives, P!OnError, P!Post
<1>3. r.st \in {"ok", "conflict"} => requested
  BY DEF ProInv, PostsAreTrue
<1>4. query' \in QueryOf({"yes", "no"}) /\ QueryIsTrue'
  <2>1. Put(query, "yes") \in QueryOf({"yes", "no"}) /\ Put(query, "yes").data = "yes"
        /\ Put(query, "yes").got = query.got
    BY <1>1, PutFacts
  <2>2. QED
    BY <1>1, <1>2, <1>3, <2>1 DEF ProInv, QueryIsTrue
<1>5. ASSUME NEW g \in P!Dialog
      PROVE  LET a == P!After(g, r.st)
             IN /\ a \in P!Dialog /\ a.mut = (IF r.st = "ok" THEN "ok" ELSE "failed")
                /\ a.err = (g.err \/ r.st = "failed") /\ a.post = g.post
                /\ a.open = g.open /\ a.reset = g.reset /\ a.text = g.text
                /\ a.mounted = g.mounted
  <2>1. CASE r.st = "ok"
    BY <1>5, <2>1 DEF P!After, P!Dialog
  <2>2. CASE r.st = "conflict"
    BY <1>5, <2>2 DEF P!After, P!Dialog
  <2>3. CASE r.st = "failed"
    BY <1>5, <2>3 DEF P!After, P!Dialog
  <2>4. QED
    BY <1>2, <2>1, <2>2, <2>3
<1>6. dialogs' \in [P!Places -> P!Dialog]
  BY <1>1, <1>2, <1>5
<1>7. P!TypeOK'
  BY <1>1, <1>2, <1>4, <1>6, PCache DEF P!TypeOK, P!others
<1>8. PostsAreTrue'
  BY <1>2 DEF ProInv, PostsAreTrue
<1>9. ASSUME NEW d \in P!Places PROVE DialogHolds(d)'
  <2>1. CASE ~P!Follows(d, r)
    <3>1. dialogs'[d] = dialogs[d] /\ billing' = billing
      BY <1>2, <2>1 DEF P!others
    <3>2. \A s \in posts' : \E t \in posts : s.n = t.n
      BY <1>2
    <3>3. QED
      BY <1>2, <3>1, <3>2, DialogKept
  <2>2. CASE P!Follows(d, r)
    <3> DEFINE g == dialogs[d]
               a == P!After(g, r.st)
    <3>1. dialogs'[d] = a /\ g \in P!Dialog
      BY <1>1, <1>2, <2>2
    <3>2. /\ a.mut = (IF r.st = "ok" THEN "ok" ELSE "failed")
          /\ a.err = (g.err \/ r.st = "failed") /\ a.post = g.post
          /\ a.open = g.open /\ a.reset = g.reset /\ a.text = g.text /\ a.mounted = g.mounted
      BY <1>5, <3>1
    <3>3. DialogHolds(d) /\ g.post = r.n
      BY <2>2 DEF ProInv, DialogsHold, P!Follows
    <3>4. g.mut = "pending" /\ r.n # 0
      BY <1>1, <3>3 DEF DialogHolds, P!Post
    <3>5. ~g.err
      BY <3>3, <3>4 DEF DialogHolds
    <3>6. \A s \in posts' : s.n # r.n
      BY <1>2 DEF ProInv, PostsAreTrue
    <3> HIDE DEF a
    <3>7. /\ dialogs'[d].mut = "ok" => requested'
          /\ dialogs'[d].err => dialogs'[d].mut = "failed" /\ dialogs'[d].post # 0
      BY <1>2, <1>3, <3>1, <3>2, <3>3, <3>4, <3>5
    <3>8. /\ d \in wrote' => P!On' /\ dialogs'[d].mounted /\ dialogs'[d].open /\ dialogs'[d].text
          /\ dialogs'[d].open => ~dialogs'[d].reset
          /\ dialogs'[d].post <= count'
          /\ \A s \in posts' : dialogs'[d].post # s.n
      BY <1>2, <3>1, <3>2, <3>3, <3>6 DEF DialogHolds, P!On, P!others
    <3>9. QED
      BY <3>7, <3>8 DEF DialogHolds
  <2>3. QED
    BY <2>1, <2>2
<1>10. QED
  BY <1>4, <1>7, <1>8, <1>9 DEF ProInv, DialogsHold

LEMMA ProNextHolds == ProInv /\ [P!Next]_(P!vars) => ProInv'
<1>1. SUFFICES ASSUME ProInv, [P!Next]_(P!vars) PROVE ProInv'
  OBVIOUS
<1>2. /\ P!TypeOK /\ query \in QueryOf({"yes", "no"}) /\ requested \in BOOLEAN
      /\ events \in 0 .. MaxProEvents
      /\ QueryIsTrue
  BY <1>1, PCache DEF ProInv, P!TypeOK
<1>3. ASSUME NEW b \in BOOLEAN, P!MetaArrives(b) \/ P!Visit(b) PROVE ProInv'
  BY <1>1, <1>3, MetaArrivesHolds, VisitHolds
<1>4. CASE P!MeArrives
  <2>1. /\ me' = TRUE
        /\ UNCHANGED <<billing, intent, free, dialogs, wrote, posts, query, requested, count, events>>
    BY <1>4 DEF P!MeArrives
  <2>2. P!TypeOK'
    BY <1>2, <2>1 DEF P!TypeOK
  <2>3. QED
    BY <1>1, <2>1, <2>2 DEF ProInv, QueryIsTrue, PostsAreTrue, DialogsHold, DialogHolds, P!On
<1>5. CASE P!ServeStatus
  <2>1. PICK a \in {"yes", "no"} : query' = Answered(query, a) /\ (a = "yes" => requested)
    BY <1>5, PCache DEF P!ServeStatus
  <2>2. UNCHANGED <<P!others, dialogs, wrote, posts, requested, count, events>>
    BY <1>5 DEF P!ServeStatus
  <2>3. /\ Answered(query, a) \in QueryOf({"yes", "no"})
        /\ Answered(query, a).data = query.data /\ Answered(query, a).got = a
    BY <1>2 DEF Answered, QueryOf
  <2>4. QED
    BY <1>1, <1>2, <2>1, <2>2, <2>3, StatusSteps DEF QueryIsTrue
<1>6. CASE P!StatusArrives \/ P!StatusFails
  <2>1. PICK q \in {Loaded(query), Failed(query)} : query' = q
    BY <1>6, PCache DEF P!StatusArrives, P!StatusFails
  <2>2. /\ UNCHANGED <<P!others, dialogs, wrote, posts, requested, count>>
        /\ events' \in 0 .. MaxProEvents
    BY <1>2, <1>6, ProAssumption DEF P!StatusArrives, P!StatusFails
  <2>3. q \in QueryOf({"yes", "no"}) /\ q.data \in {query.data, query.got} /\ q.got = None
    BY <1>2, LoadedType
  <2>4. q.data = "yes" \/ q.got = "yes" => requested
    BY <1>2, <2>3, ProAssumption DEF QueryIsTrue
  <2>5. QED
    BY <1>1, <2>1, <2>2, <2>3, <2>4, StatusSteps
<1>7. CASE P!Elsewhere
  <2>1. /\ requested' = TRUE /\ events' \in 0 .. MaxProEvents
        /\ UNCHANGED <<P!others, dialogs, wrote, posts, query, count>>
    BY <1>2, <1>7, ProAssumption DEF P!Elsewhere
  <2>2. P!TypeOK'
    BY <1>2, <2>1 DEF P!TypeOK, P!others
  <2>3. QED
    BY <1>1, <2>1, <2>2
       DEF ProInv, QueryIsTrue, PostsAreTrue, DialogsHold, DialogHolds, P!On, P!others
<1>8. CASE P!Open
  <2>1. "page" \in P!Places
    BY DEF P!Places
  <2>2. QED
    BY <1>1, <1>8, <2>1, DialogStepsHold
<1>9. ASSUME NEW d \in P!Places, P!Close(d) \/ P!ResetFires(d) \/ P!Type(d) \/ P!Submit(d)
      PROVE  ProInv'
  BY <1>1, <1>9, DialogStepsHold, SubmitHolds
<1>10. ASSUME NEW r \in posts, P!ServePost(r) PROVE ProInv'
  <2>1. PICK st \in {"ok", "conflict"} : posts' = P!Moved(r, st)
    BY <1>10 DEF P!ServePost
  <2>2. requested' = TRUE /\ UNCHANGED <<P!others, dialogs, wrote, query, count, events>>
    BY <1>10 DEF P!ServePost
  <2>3. QED
    BY <1>1, <1>2, <2>1, <2>2, MovedHolds
<1>11. ASSUME NEW r \in posts, P!PostFails(r) PROVE ProInv'
  <2>1. /\ posts' = P!Moved(r, "failed") /\ events' \in 0 .. MaxProEvents
        /\ UNCHANGED <<P!others, dialogs, wrote, query, requested, count>>
    BY <1>2, <1>11, ProAssumption DEF P!PostFails
  <2>2. QED
    BY <1>1, <1>2, <2>1, MovedHolds
<1>12. ASSUME NEW r \in posts, P!PostArrives(r) PROVE ProInv'
  BY <1>1, <1>12, PostArrivesHolds
<1>13. CASE UNCHANGED P!vars
  <2>1. P!TypeOK'
    BY <1>2, <1>13 DEF P!TypeOK, P!vars, P!others
  <2>2. QED
    BY <1>1, <1>13, <2>1
       DEF ProInv, QueryIsTrue, PostsAreTrue, DialogsHold, DialogHolds, P!On, P!vars, P!others
<1>14. QED
  BY <1>1, <1>3, <1>4, <1>5, <1>6, <1>7, <1>8, <1>9, <1>10, <1>11, <1>12, <1>13 DEF P!Next

LEMMA ProMeans == ProInv => P!TypeOK /\ P!ThanksIsTrue /\ P!TextStays /\ P!ErrorIsCurrent
<1>1. SUFFICES ASSUME ProInv PROVE P!ThanksIsTrue /\ P!TextStays /\ P!ErrorIsCurrent
  BY DEF ProInv
<1>2. P!ThanksIsTrue
  BY <1>1 DEF ProInv, QueryIsTrue, DialogsHold, DialogHolds, P!ThanksIsTrue, P!Upgrade,
              P!Screen, P!Says
<1>3. P!TextStays
  BY <1>1 DEF ProInv, P!TypeOK, DialogsHold, DialogHolds, P!TextStays
<1>4. P!ErrorIsCurrent
  BY <1>1 DEF ProInv, DialogsHold, DialogHolds, P!ErrorIsCurrent
<1>5. QED
  BY <1>2, <1>3, <1>4

LEMMA ProSteps ==
  ASSUME [MCNext]_allVars, page = "pro"
  PROVE  page' = page /\ [P!Next]_(P!vars)
BY DEF MCNext, allVars, POwn, P!vars, P!others

ProPageInv == page = "pro" => ProInv

\* ProRequest: whoever is thanked has asked, what is typed stays until its dialog is
\* closed, and an error is that of the latest request, for any number of requests.
THEOREM DialogsAreTrue == MCSpec => []DialogIsTrue
<1>1. MCInit => ProPageInv
  BY ProInitHolds DEF MCInit, ProPageInv
<1>2. ProPageInv /\ [MCNext]_allVars => ProPageInv'
  <2>1. CASE page = "pro"
    BY <2>1, ProSteps, ProNextHolds DEF ProPageInv
  <2>2. CASE page # "pro"
    BY <2>2 DEF MCNext, allVars, ProPageInv
  <2>3. QED
    BY <2>1, <2>2
<1>3. ProPageInv => DialogIsTrue
  BY ProMeans DEF ProPageInv, DialogIsTrue, On
<1>4. QED
  BY <1>1, <1>2, <1>3, PTL DEF MCSpec
=============================================================================

-------------------------- MODULE WebSessionProofs --------------------------
(***************************************************************************)
(* The two promises of WebSession for any number of users, organizations,  *)
(* acts and failures.  The inductive invariant says which requests a page  *)
(* can have under way (Places), who asked (HaveAccounts, SameVisitor) and  *)
(* what an answer or the cached list tells (Truthful, CacheIsTrue): a list *)
(* of organizations holds a user's own, and all of them but for those that *)
(* are noted as missing and those that were granted and are not noted yet. *)
(***************************************************************************)
EXTENDS WebSession, TLAPS

Ok(k) == Back(k) /\ req[k].ans = "ok"

\* Organizations that user u has, or that were taken away; ...
Own(l, u)  == l \subseteq member[u] \cup lost
\* ... and a list that misses none of u's, but for what is known to be missing.
Full(l, u) == member[u] \subseteq l \cup unlisted \cup lost

\* What was granted and has not been noted yet: the invite, from the answer on until the
\* list is there again, and the organization just created.
Joining == /\ At("invite") /\ auth /\ ui.err = "none"
           /\ Idle("accept") \/ Ok("accept")
Granted == {o \in Orgs : (o = InviteOrg /\ Joining) \/ (Ok("create") /\ o \in req["create"].list)}

\* The page, and isAuthenticated, that a request under way goes with.
Places ==
  /\ ~Idle("login") => At("login")
  /\ ~Idle("enter") => At("login") /\ Idle("login") /\ auth
  /\ ~Idle("join") => At("register") /\ Idle("register")
  /\ ~Idle("register") => At("register")
  /\ ~Idle("create") => At("create") /\ auth
  /\ ~Idle("check") => Guarded(ui.page) /\ ~auth
  /\ ~Idle("probe") => At("invite") /\ ~auth
  /\ ~Idle("accept") => At("invite") /\ auth /\ ui.err = "none"
  /\ ~Idle("leave") => At("invite") /\ auth /\ ui.err # "none"
  /\ ~Idle("refetch") => /\ (At("invite") /\ auth /\ ui.err = "none") \/ At("register")
                         /\ \A k \in {"accept", "orgs", "join", "register"} : Idle(k)
  /\ At("invite") => ui.fired = auth /\ (auth => ui.sure) /\ (ui.err # "none" => auth)

\* An invite that nothing has settled is stored, or being accepted on its page.
Kept ==
  /\ followed => pending \/ (At("invite") /\ auth)
  /\ ~Idle("refetch") => (followed => pending)

\* Who has a session has an account; what is asked on somebody's behalf is asked before
\* somebody else signs in.
HaveAccounts ==
  /\ cookie \in accounts \cup {None}
  /\ \A k \in Kinds \ {"login", "register", "join"} : req[k].who \in accounts \cup {None}
  /\ ~Idle("register") => req["register"].who \in Users
SameVisitor ==
  \A k \in {"enter", "accept", "create"} : ~Idle(k) => cookie \in {req[k].who, None}

Lists == {"enter", "orgs", "refetch", "create"}

\* What an answer that has come back tells is so.
Truthful(k) ==
  Ok(k) =>
    /\ k \in Lists => req[k].who \in accounts /\ Own(req[k].list, req[k].who)
    /\ k = "accept" => req[k].who = Invitee /\ InviteOrg \in member[Invitee] \cup lost
    /\ k = "join" => /\ cookie \in {Invitee, None} /\ Invitee \in accounts
                     /\ InviteOrg \in member[Invitee] \cup lost
    /\ k = "refetch" => Full(req[k].list, req[k].who)
    /\ k = "orgs" => Full(req[k].list \cup Granted, req[k].who)
AnswersAreTrue == \A k \in Kinds : Truthful(k)

CacheIsTrue ==
  orgs # None => lister \in accounts /\ Own(orgs, lister) /\ Full(orgs \cup Granted, lister)

\* ActiveIsMine on every page.
Mine == cookie # None /\ ~unchosen /\ active # None => active \in member[cookie] \cup lost

Asking    == HaveAccounts /\ SameVisitor
SessionInv ==
  TypeOK /\ Places /\ Kept /\ Asking /\ AnswersAreTrue /\ CacheIsTrue /\ Mine

----------------------------------------------------------------------------
(* Requests *)

LEMMA RequestTypes ==
  /\ NoReq \in Request
  /\ \A k \in Kinds, u \in Users \cup {None} : Asked(k, u) \in Request
  /\ NoReqs \in [Kinds -> Request]
BY DEF NoReq, Request, Asked, NoReqs

LEMMA RequestFields ==
  /\ NoReq.st = "none" /\ NoReq.who = None /\ NoReq.ans = "none" /\ NoReq.list = {}
  /\ \A k, u : /\ Asked(k, u).st = "sent" /\ Asked(k, u).who = u
               /\ Asked(k, u).ans = "none" /\ Asked(k, u).list = {}
BY DEF NoReq, Asked

LEMMA DropFacts ==
  ASSUME TypeOK, NEW k \in Kinds
  PROVE  /\ Drop(k) \in [Kinds -> Request]
         /\ Drop(k)[k] = NoReq
         /\ \A j \in Kinds \ {k} : Drop(k)[j] = req[j]
BY RequestTypes DEF Drop, TypeOK

LEMMA ReplyFacts ==
  ASSUME TypeOK, NEW k \in Kinds, NEW a \in {"ok", "401", "mismatch", "refused", "down"},
         NEW l \in SUBSET Orgs, Reply(k, a, l)
  PROVE  /\ req' \in [Kinds -> Request]
         /\ req'[k].st = "back" /\ req'[k].ans = a /\ req'[k].list = l
         /\ req'[k].who = req[k].who
         /\ \A j \in Kinds \ {k} : req'[j] = req[j]
<1> DEFINE r == [[[req[k] EXCEPT !.st = "back"] EXCEPT !.ans = a] EXCEPT !.list = l]
<1>1. req[k] \in Request
  BY DEF TypeOK
<1>2. /\ r \in Request /\ r.st = "back" /\ r.ans = a /\ r.list = l /\ r.who = req[k].who
  BY <1>1 DEF Request
<1>3. req' = [req EXCEPT ![k] = r]
  BY DEF Reply, TypeOK
<1> HIDE DEF r
<1> QED
  BY <1>2, <1>3 DEF TypeOK

\* What a page shows that is mounted by a navigation to p.
Shown(u, p, a) ==
  /\ u \in Ui /\ u.err = "none"
  /\ u.page = p \/ (Guarded(p) /\ ~a /\ u.page = "login")
  /\ u.page = "invite" => (u.sure <=> a) /\ (u.fired <=> a)

\* What mounting page p sends and shows.
Moved(p, a, rest) ==
  /\ req' \in [Kinds -> Request] /\ Shown(ui', p, a)
  /\ \A k \in Kinds \ {"check", "orgs", "probe", "accept", "preview"} : req'[k] = rest[k]
  /\ \A k \in {"check", "orgs", "accept", "preview"} : req'[k] \in {rest[k], Asked(k, cookie)}
  /\ req'["probe"] \in {NoReq, Asked("probe", cookie)}
  /\ req'["check"] # rest["check"] => Guarded(ui'.page) /\ ~a
  /\ req'["probe"] # NoReq => ui'.page = "invite" /\ ~a
  /\ req'["accept"] # rest["accept"] => ui'.page = "invite" /\ a
  /\ ui'.page = "invite" /\ a => req'["accept"] = Asked("accept", cookie)

LEMMA MountUiFacts ==
  ASSUME NEW p \in Pages, NEW a \in BOOLEAN, pending \in BOOLEAN
  PROVE  Shown(MountUi(p, a), p, a)
<1>1. CASE p = "invite"
  <2>1. MountUi(p, a) = [Fresh(p) EXCEPT !.sure = a, !.fired = a]
    BY <1>1 DEF MountUi, Guarded
  <2>2. Fresh(p) \in Ui /\ Fresh(p).page = p /\ Fresh(p).err = "none"
    BY DEF Fresh, Ui
  <2>3. MountUi(p, a) \in Ui
    BY <2>1, <2>2 DEF Ui
  <2>4. MountUi(p, a).page = p /\ MountUi(p, a).err = "none"
    BY <2>1, <2>2 DEF Ui
  <2>5. (MountUi(p, a).sure <=> a) /\ (MountUi(p, a).fired <=> a)
    BY <2>1, <2>2 DEF Ui
  <2> QED
    BY <1>1, <2>3, <2>4, <2>5 DEF Shown
<1>2. CASE p = "register"
  BY <1>2 DEF MountUi, Fresh, Ui, Pages, Guarded, Shown
<1>3. CASE p \in {"login", "create", "app"}
  <2>2. MountUi(p, a) = Fresh(p) \/ (Guarded(p) /\ ~a /\ MountUi(p, a) = Fresh("login"))
    BY <1>3 DEF MountUi, Guarded
  <2>3. /\ Fresh(p) \in Ui /\ Fresh(p).err = "none" /\ Fresh(p).page = p
        /\ Fresh("login") \in Ui /\ Fresh("login").err = "none" /\ Fresh("login").page = "login"
    BY DEF Fresh, Ui, Pages
  <2>4. CASE MountUi(p, a) = Fresh(p)
    BY <1>3, <2>3, <2>4 DEF Shown
  <2>5. CASE Guarded(p) /\ ~a /\ MountUi(p, a) = Fresh("login")
    BY <2>3, <2>5 DEF Shown
  <2> QED
    BY <2>2, <2>4, <2>5
<1>4. p = "invite" \/ p = "register" \/ p \in {"login", "create", "app"}
  BY DEF Pages
<1> QED
  BY <1>1, <1>2, <1>3, <1>4

LEMMA GoFacts ==
  ASSUME TypeOK, NEW p \in Pages, NEW a \in BOOLEAN, NEW rest \in [Kinds -> Request],
         Go(p, a, rest)
  PROVE  Moved(p, a, rest)
<1> DEFINE r == [rest EXCEPT !["probe"] = NoReq]
<1>1. PICK stale \in BOOLEAN : /\ ui' = MountUi(p, a)
                               /\ req' = MountReqs(MountUi(p, a).page, a, r, stale)
  BY DEF Go
<1>2. /\ r \in [Kinds -> Request] /\ r["probe"] = NoReq
      /\ \A k \in Kinds \ {"probe"} : r[k] = rest[k]
  BY RequestTypes DEF Kinds
<1> HIDE DEF r
<1>3. Shown(ui', p, a)
  <2>1. pending \in BOOLEAN
    BY DEF TypeOK
  <2> QED
    BY <1>1, <2>1, MountUiFacts
<1>4. req' = MountReqs(ui'.page, a, r, stale)
  BY <1>1
<1> DEFINE q == ui'.page
<1> HIDE DEF q
<1>5. req' = MountReqs(q, a, r, stale)
  BY <1>4 DEF q
<1>6. \A k \in Kinds : req'[k] \in {r[k], Asked(k, cookie)}
  BY <1>5 DEF MountReqs
<1>7. \A k \in Kinds \ {"check", "orgs", "probe", "accept", "preview"} : req'[k] = r[k]
  BY <1>5 DEF MountReqs
<1>8. req' \in [Kinds -> Request]
  <2>1. \A k \in Kinds : req'[k] \in Request
    BY <1>2, <1>6, RequestTypes DEF TypeOK
  <2>2. req' = [k \in Kinds |-> req'[k]]
    BY <1>5 DEF MountReqs
  <2> QED
    BY <2>1, <2>2
<1>9. /\ req'["check"] # r["check"] => Guarded(q) /\ ~a
      /\ req'["probe"] # r["probe"] => q = "invite" /\ ~a
      /\ req'["accept"] # r["accept"] => q = "invite" /\ a
      /\ q = "invite" /\ a => req'["accept"] = Asked("accept", cookie)
  BY <1>5 DEF MountReqs, Kinds, Guarded
<1>10. \A k \in {"check", "orgs", "accept", "preview"} : req'[k] \in {rest[k], Asked(k, cookie)}
  BY <1>2, <1>6 DEF Kinds
<1>11. \A k \in Kinds \ {"check", "orgs", "probe", "accept", "preview"} : req'[k] = rest[k]
  BY <1>2, <1>7
<1>12. req'["probe"] \in {NoReq, Asked("probe", cookie)}
  BY <1>2, <1>6 DEF Kinds
<1>13. r["check"] = rest["check"] /\ r["accept"] = rest["accept"]
  BY <1>2 DEF Kinds
<1> QED
  BY <1>2, <1>3, <1>8, <1>9, <1>10, <1>11, <1>12, <1>13 DEF Moved, q

\* A page load leaves a check or a probe under way, and nothing else.
LEMMA LoadFacts ==
  ASSUME TypeOK, NEW p \in Pages, Load(p)
  PROVE  /\ req' \in [Kinds -> Request] /\ ui' \in Ui
         /\ ui'.page = p /\ ~ui'.fired /\ ui'.err = "none"
         /\ ~auth' /\ orgs' = None /\ ~checked'
         /\ auth' \in BOOLEAN /\ checked' \in BOOLEAN
         /\ \A k \in Kinds : req'[k] \in {NoReq, Asked(k, cookie)}
         /\ \A k \in Kinds \ {"check", "probe"} : req'[k] = NoReq
         /\ req'["check"] # NoReq => Guarded(p)
         /\ req'["probe"] # NoReq => p = "invite"
<1>1. /\ \A k \in Kinds : req'[k] \in {NoReq, Asked(k, cookie)}
      /\ \A k \in Kinds \ {"check", "probe"} : req'[k] = NoReq
      /\ req'["check"] # NoReq => Guarded(p)
      /\ req'["probe"] # NoReq => p = "invite"
  BY DEF Load, Kinds
<1>2. req' = [k \in Kinds |-> req'[k]]
  BY DEF Load
<1>3. req' \in [Kinds -> Request]
  BY <1>1, <1>2, RequestTypes DEF TypeOK
<1>4. /\ ui' \in Ui /\ ui'.page = p /\ ~ui'.fired /\ ui'.err = "none"
      /\ ~auth' /\ orgs' = None /\ ~checked' /\ auth' \in BOOLEAN /\ checked' \in BOOLEAN
  BY DEF Load, Fresh, Ui
<1> QED
  BY <1>1, <1>3, <1>4

----------------------------------------------------------------------------
(* What the client does to requests and to what it remembers *)

LEMMA GrantedSame ==
  ASSUME UNCHANGED <<ui, auth>>, req'["accept"] = req["accept"], req'["create"] = req["create"]
  PROVE  Granted' = Granted
BY DEF Granted, Joining, At, Idle, Back, Ok

LEMMA GrantedNone ==
  ASSUME ~Joining, ~Ok("create")
  PROVE  Granted = {}
BY DEF Granted

\* A request is left alone, ended, or sent: a form's with what is in it, any other one
\* with the cookie.
ClientReq(k) ==
  \/ req'[k] = req[k] \/ req'[k] = NoReq
  \/ k # "register" /\ req'[k] = Asked(k, cookie)
  \/ k \in {"login", "join", "register"} /\ req'[k].st = "sent" /\ req'[k].who \in Users

LEMMA RequestStep ==
  ASSUME SessionInv, UNCHANGED <<serverVars, lost>>, unlisted \subseteq unlisted',
         \A k \in Kinds : ClientReq(k),
         Ok("orgs")' => Granted \subseteq Granted' \cup unlisted'
  PROVE  Asking' /\ AnswersAreTrue'
<1>1. \A k \in Kinds : Ok(k)' => Ok(k) /\ req'[k] = req[k]
  BY RequestFields DEF ClientReq, Ok, Back
<1>2. HaveAccounts'
  <2>1. \A k \in Kinds \ {"login", "register", "join"} : req'[k].who \in accounts \cup {None}
    BY RequestFields DEF ClientReq, SessionInv, Asking, HaveAccounts
  <2>2. ~Idle("register")' => req'["register"].who \in Users
    <3>1. ClientReq("register")
      BY DEF Kinds
    <3>2. ~Idle("register") => req["register"].who \in Users
      BY DEF SessionInv, Asking, HaveAccounts
    <3> QED
      BY <3>1, <3>2, RequestFields DEF ClientReq, Idle
  <2> QED
    BY <2>1, <2>2 DEF SessionInv, Asking, HaveAccounts, serverVars
<1>3. SameVisitor'
  <2> SUFFICES ASSUME NEW k \in {"enter", "accept", "create"}, ~Idle(k)'
               PROVE  cookie \in {req'[k].who, None}
    BY DEF SameVisitor, serverVars
  <2>1. k \in Kinds /\ k \notin {"login", "join", "register"}
    BY DEF Kinds
  <2>2. req'[k] = req[k] \/ req'[k] = Asked(k, cookie)
    BY <2>1, RequestFields DEF ClientReq, Idle
  <2> QED
    BY <2>2, RequestFields DEF SessionInv, Asking, SameVisitor, Idle
<1>4. AnswersAreTrue'
  <2> SUFFICES ASSUME NEW k \in Kinds, Ok(k)'
               PROVE  Truthful(k)'
    BY DEF AnswersAreTrue, Truthful
  <2>1. Ok(k) /\ req'[k] = req[k] /\ Truthful(k)
    BY <1>1 DEF SessionInv, AnswersAreTrue
  <2>2. k \in Lists => req[k].who \in accounts /\ Own(req[k].list, req[k].who)
    BY <2>1 DEF Truthful
  <2>3. k = "accept" => req[k].who = Invitee /\ InviteOrg \in member[Invitee] \cup lost
    BY <2>1 DEF Truthful
  <2>4. k = "join" => /\ cookie \in {Invitee, None} /\ Invitee \in accounts
                      /\ InviteOrg \in member[Invitee] \cup lost
    BY <2>1 DEF Truthful
  <2>5. k = "refetch" => Full(req[k].list, req[k].who)'
    BY <2>1 DEF Truthful, Full, serverVars
  <2>6. k = "orgs" => Full(req[k].list \cup Granted, req[k].who)'
    BY <2>1 DEF Truthful, Full, serverVars
  <2> QED
    BY <2>1, <2>2, <2>3, <2>4, <2>5, <2>6 DEF Truthful, Own, serverVars
<1> QED
  BY <1>2, <1>3, <1>4 DEF Asking

\* The lists that are still there miss no more than before.
Noted == (orgs' # None \/ Ok("orgs")') => Granted \subseteq Granted' \cup unlisted'

LEMMA ClientStep ==
  ASSUME SessionInv, UNCHANGED <<serverVars, lost>>, unlisted \subseteq unlisted',
         \A k \in Kinds : ClientReq(k), Noted,
         orgs' = None \/ (orgs' = orgs /\ lister' = lister)
  PROVE  Asking' /\ AnswersAreTrue' /\ CacheIsTrue'
<1>1. Asking' /\ AnswersAreTrue'
  BY RequestStep DEF Noted
<1>2. CacheIsTrue'
  <2> SUFFICES ASSUME orgs' # None
               PROVE  CacheIsTrue'
    BY DEF CacheIsTrue
  <2>1. orgs' = orgs /\ lister' = lister /\ orgs # None
    OBVIOUS
  <2>2. lister \in accounts /\ Own(orgs, lister) /\ Full(orgs \cup Granted, lister)
    BY <2>1 DEF SessionInv, CacheIsTrue
  <2> QED
    BY <2>1, <2>2 DEF CacheIsTrue, Own, Full, serverVars, Noted
<1> QED
  BY <1>1, <1>2

\* Mine as far as the client alone can change it.
LEMMA MineKept ==
  ASSUME Mine, UNCHANGED serverVars, lost' = lost, active' \in {active, None},
         unchosen' = unchosen
  PROVE  Mine'
BY DEF Mine, serverVars

\* No request is under way that goes with a page.
Quiet(r) ==
  \A k \in {"login", "enter", "join", "register", "create", "check", "accept", "leave", "refetch"} :
    r[k].st = "none"

LEMMA GoPlaces ==
  ASSUME NEW p \in Pages, NEW a \in BOOLEAN, NEW rest \in [Kinds -> Request],
         Moved(p, a, rest), Quiet(rest), auth' = a
  PROVE  Places'
<1>1. \A k \in {"login", "enter", "join", "register", "create", "leave", "refetch"} : Idle(k)'
  BY DEF Quiet, Moved, Idle, Kinds
<1>2. ~Idle("check")' => Guarded(ui'.page) /\ ~a
  BY DEF Quiet, Moved, Idle
<1>3. ~Idle("probe")' => ui'.page = "invite" /\ ~a
  BY RequestFields DEF Moved, Idle
<1>4. ~Idle("accept")' => ui'.page = "invite" /\ a
  BY DEF Quiet, Moved, Idle
<1>5. ui'.err = "none" /\ (ui'.page = "invite" => (ui'.sure <=> a) /\ (ui'.fired <=> a))
  BY DEF Moved, Shown
<1>6. ui'.fired \in BOOLEAN /\ auth' \in BOOLEAN
  BY DEF Moved, Shown, Ui
<1>7. At("invite")' => ui'.fired = auth' /\ (auth' => ui'.sure) /\ (ui'.err # "none" => auth')
  BY <1>5, <1>6 DEF At
<1> QED
  BY <1>1, <1>2, <1>3, <1>4, <1>5, <1>7 DEF Places, At

LEMMA GoRequests ==
  ASSUME NEW p, NEW a, NEW rest, Moved(p, a, rest), \A k \in Kinds : rest[k] \in {req[k], NoReq}
  PROVE  \A k \in Kinds : ClientReq(k)
BY DEF Moved, ClientReq, Kinds

LEMMA DropQuiet ==
  ASSUME TypeOK, NEW j \in Kinds,
         \A k \in {"login", "enter", "join", "register", "create", "check", "accept", "leave", "refetch"} :
           k = j \/ Idle(k)
  PROVE  Quiet(Drop(j)) /\ \A k \in Kinds : Drop(j)[k] \in {req[k], NoReq}
BY DropFacts, RequestFields DEF Quiet, Idle, Kinds

LEMMA LoadRequests ==
  ASSUME TypeOK, NEW p \in Pages, Load(p)
  PROVE  Places' /\ \A k \in Kinds : ClientReq(k)
<1>1. /\ \A k \in Kinds \ {"check", "probe"} : Idle(k)'
      /\ ~Idle("check")' => Guarded(p)
      /\ ~Idle("probe")' => p = "invite"
  BY LoadFacts, RequestFields DEF Idle, Kinds
<1>2. ui'.page = p /\ ~ui'.fired /\ ui'.fired \in BOOLEAN /\ ui'.err = "none" /\ ~auth' /\ auth' \in BOOLEAN
  BY LoadFacts DEF Ui
<1>3. At("invite")' => ui'.fired = auth' /\ (auth' => ui'.sure) /\ (ui'.err # "none" => auth')
  BY <1>2
<1>4. Places'
  BY <1>1, <1>2, <1>3 DEF Places, At, Kinds
<1> QED
  BY <1>4, LoadFacts DEF ClientReq

----------------------------------------------------------------------------
(* Steps of the user *)

LEMMA SessionInit == Init => SessionInv
<1> SUFFICES ASSUME Init
             PROVE  SessionInv
  OBVIOUS
<1>1. \A k \in Kinds : req[k] = NoReq
  BY DEF Init, NoReqs
<1>2. \A k \in Kinds : Idle(k) /\ ~Ok(k)
  BY <1>1, RequestFields DEF Idle, Ok, Back
<1>3. TypeOK
  <2>1. /\ cookie \in Users \cup {None} /\ accounts \subseteq Users
        /\ member \in [Users -> SUBSET Orgs] /\ invite \in {"open", "used", "dead"}
    BY SessionAssumption DEF Init
  <2>2. ui \in Ui
    BY DEF Init, Ui, Pages, Fresh
  <2>3. events \in 0 .. MaxEvents /\ acts \in 0 .. MaxActs
    BY SessionAssumption DEF Init
  <2>4. req \in [Kinds -> Request]
    BY RequestTypes DEF Init
  <2> QED
    BY <2>1, <2>2, <2>3, <2>4 DEF Init, TypeOK
<1>4. Places
  BY <1>2 DEF Init, Places, At, Fresh, Kinds
<1>5. Kept
  BY <1>2 DEF Init, Kept, Kinds
<1>6. Asking
  BY <1>1, <1>2, RequestFields DEF Init, Asking, HaveAccounts, SameVisitor, Kinds
<1>7. AnswersAreTrue /\ CacheIsTrue /\ Mine
  BY <1>2 DEF Init, AnswersAreTrue, Truthful, CacheIsTrue, Mine
<1> QED
  BY <1>3, <1>4, <1>5, <1>6, <1>7 DEF SessionInv

LEMMA LinkStep ==
  ASSUME SessionInv, NEW p \in Pages, Link(p), acts' \in 0 .. MaxActs
  PROVE  SessionInv'
<1>1. TypeOK /\ auth \in BOOLEAN /\ req \in [Kinds -> Request]
  BY DEF SessionInv, TypeOK
<1>2. Moved(p, auth, req)
  BY <1>1, GoFacts DEF Link
<1>3. Quiet(req)
  BY DEF Link, Sending, Quiet, SessionInv, Places, Idle, At, Guarded
<1>4. Places'
  BY <1>1, <1>2, <1>3, GoPlaces DEF Link, storeVars
<1>5. Granted = {}
  <2>1. Idle("create")
    BY DEF Link, Sending
  <2>2. ~Joining
    BY DEF Link, Joining, At
  <2> QED
    BY <2>1, <2>2, GrantedNone DEF Ok, Back, Idle
<1>6. Asking' /\ AnswersAreTrue' /\ CacheIsTrue'
  BY <1>2, <1>5, GoRequests, ClientStep DEF Link, Noted
<1>7. TypeOK'
  BY <1>1, <1>2 DEF Link, Moved, Shown, TypeOK, serverVars, storeVars
<1>8. Kept'
  <2>1. Idle("refetch")'
    BY <1>2, <1>3 DEF Moved, Quiet, Idle, Kinds
  <2>2. followed' => pending
    BY DEF Link, SessionInv, Kept, At
  <2> QED
    BY <2>1, <2>2 DEF Kept, Link, storeVars
<1>9. Mine'
  BY MineKept DEF Link, SessionInv, storeVars
<1> QED
  BY <1>4, <1>6, <1>7, <1>8, <1>9 DEF SessionInv

LEMMA OpenStep ==
  ASSUME SessionInv, NEW p \in Pages, Open(p), acts' \in 0 .. MaxActs
  PROVE  SessionInv'
<1>1. TypeOK /\ Load(p)
  BY DEF SessionInv, Open
<1>2. Places' /\ (\A k \in Kinds : ClientReq(k)) /\ orgs' = None /\ req'["orgs"] = NoReq /\ req'["refetch"] = NoReq
  BY <1>1, LoadRequests, LoadFacts DEF Kinds
<1>3. Asking' /\ AnswersAreTrue' /\ CacheIsTrue'
  BY <1>2, ClientStep, RequestFields DEF Open, Noted, Ok, Back
<1>4. TypeOK'
  BY <1>1, LoadFacts DEF Open, TypeOK, serverVars
<1>5. Kept'
  BY <1>2, RequestFields DEF Open, Kept, SessionInv, Idle
<1>6. Mine'
  BY MineKept DEF Open, SessionInv
<1> QED
  BY <1>2, <1>3, <1>4, <1>5, <1>6 DEF SessionInv

LEMMA SidebarLogoutStep ==
  ASSUME SessionInv, SidebarLogout, acts' \in 0 .. MaxActs
  PROVE  SessionInv'
<1>1. TypeOK /\ Load("login") /\ "login" \in Pages
  BY DEF SessionInv, SidebarLogout, Pages
<1>2. Places' /\ (\A k \in Kinds : ClientReq(k)) /\ orgs' = None /\ req'["orgs"] = NoReq /\ req'["refetch"] = NoReq
  BY <1>1, LoadRequests, LoadFacts DEF Kinds
<1>3. Asking' /\ AnswersAreTrue' /\ CacheIsTrue'
  BY <1>2, ClientStep, RequestFields DEF SidebarLogout, Noted, Ok, Back, history
<1>4. TypeOK'
  BY <1>1, LoadFacts DEF SidebarLogout, TypeOK, serverVars, history
<1>5. Kept'
  BY <1>2, RequestFields DEF SidebarLogout, Kept, SessionInv, Idle, history, At
<1>6. Mine'
  BY MineKept DEF SidebarLogout, SessionInv, history
<1> QED
  BY <1>2, <1>3, <1>4, <1>5, <1>6 DEF SessionInv

\* A form is sent, or a query of a page: nothing else changes.
LEMMA SendStep ==
  ASSUME SessionInv, acts' \in 0 .. MaxActs, NEW k \in Kinds, NEW u \in Users \cup {None},
         req' = [req EXCEPT ![k] = Asked(k, u)],
         (u = cookie /\ k # "register") \/ (u \in Users /\ k \in {"login", "join", "register"}),
         k \notin {"orgs", "refetch", "check", "probe", "accept", "enter"},
         (k = "login" => At("login") /\ Idle("enter")),
         (k \in {"join", "register"} => At("register") /\ \A j \in {"join", "register", "refetch"} : Idle(j)),
         (k = "create" => At("create") /\ auth /\ Idle("create")),
         (k = "leave" => At("invite") /\ auth /\ ui.err # "none"),
         UNCHANGED <<serverVars, storeVars, ui, orgs, checked, history, events>>
  PROVE  SessionInv'
<1>1. TypeOK
  BY DEF SessionInv
<1>2. /\ req' \in [Kinds -> Request] /\ req'[k] = Asked(k, u)
      /\ \A j \in Kinds \ {k} : req'[j] = req[j]
  BY <1>1, RequestTypes DEF TypeOK
<1>3. \A j \in Kinds : ClientReq(j)
  BY <1>2, RequestFields DEF ClientReq
<1>4. \A j \in Kinds \ {k} : Idle(j)' = Idle(j)
  BY <1>2 DEF Idle
<1>5. Places'
  <2>1. /\ ~Idle("login")' => At("login")
        /\ ~Idle("enter")' => At("login") /\ Idle("login")' /\ auth
        /\ ~Idle("join")' => At("register") /\ Idle("register")'
        /\ ~Idle("register")' => At("register")
        /\ ~Idle("create")' => At("create") /\ auth
        /\ ~Idle("leave")' => At("invite") /\ auth /\ ui.err # "none"
    BY <1>4 DEF SessionInv, Places, Kinds
  <2>2. /\ ~Idle("check")' => Guarded(ui.page) /\ ~auth
        /\ ~Idle("probe")' => At("invite") /\ ~auth
        /\ ~Idle("accept")' => At("invite") /\ auth /\ ui.err = "none"
        /\ At("invite") => ui.fired = auth /\ (auth => ui.sure) /\ (ui.err # "none" => auth)
    BY <1>4 DEF SessionInv, Places, Kinds
  <2>3. ~Idle("refetch")' => /\ (At("invite") /\ auth /\ ui.err = "none") \/ At("register")
                             /\ \A j \in {"accept", "orgs", "join", "register"} : Idle(j)'
    BY <1>4 DEF SessionInv, Places, Kinds
  <2> QED
    BY <2>1, <2>2, <2>3 DEF Places, At, storeVars
<1>6. Kept'
  BY <1>4 DEF SessionInv, Kept, storeVars, history, At, Kinds
<1>7. Granted \subseteq Granted'
  <2>1. CASE k = "create"
    <3>1. ~Joining
      BY <2>1 DEF Joining, At
    <3>2. ~Ok("create")
      BY <2>1 DEF Ok, Back, Idle
    <3> QED
      BY <3>1, <3>2, GrantedNone
  <2>2. CASE k # "create"
    <3>1. req'["accept"] = req["accept"] /\ req'["create"] = req["create"]
      BY <1>2, <2>2 DEF Kinds
    <3> QED
      BY <3>1, GrantedSame DEF storeVars
  <2> QED
    BY <2>1, <2>2
<1>8. Asking' /\ AnswersAreTrue' /\ CacheIsTrue'
  BY <1>3, <1>7, ClientStep DEF Noted, history
<1>9. TypeOK'
  BY <1>1, <1>2 DEF TypeOK, serverVars, storeVars, history
<1>10. Mine'
  BY MineKept DEF SessionInv, storeVars, history
<1> QED
  BY <1>5, <1>6, <1>8, <1>9, <1>10 DEF SessionInv

LEMMA SubmitStep ==
  ASSUME SessionInv, acts' \in 0 .. MaxActs,
         \/ \E u \in Users : SubmitLogin(u) \/ SubmitRegister(u)
         \/ SubmitCreate \/ LeaveClicked \/ Use
  PROVE  SessionInv'
<1>1. cookie \in Users \cup {None}
  BY DEF SessionInv, TypeOK
<1>2. ASSUME NEW u \in Users, SubmitLogin(u)
      PROVE  SessionInv'
  <2>1. req' = [req EXCEPT !["login"] = Asked("login", u)]
    BY <1>2 DEF SubmitLogin
  <2> QED
    BY <1>2, <2>1, SendStep DEF SubmitLogin, Kinds
<1>3. ASSUME NEW u \in Users, SubmitRegister(u)
      PROVE  SessionInv'
  <2>1. PICK k \in {"join", "register"}, v \in Users : req' = [req EXCEPT ![k] = Asked(k, v)]
    <3>1. CASE ui.token /\ ui.sure
      BY <1>3, <3>1, SessionAssumption DEF SubmitRegister
    <3>2. CASE ~(ui.token /\ ui.sure)
      BY <1>3, <3>2 DEF SubmitRegister
    <3> QED
      BY <3>1, <3>2
  <2>2. /\ At("register") /\ \A j \in {"join", "register", "refetch"} : Idle(j)
        /\ UNCHANGED <<serverVars, storeVars, ui, orgs, checked, history, events>>
    BY <1>3 DEF SubmitRegister
  <2>3. k \in Kinds /\ k \notin {"orgs", "refetch", "check", "probe", "accept", "enter", "login", "create", "leave"}
    BY DEF Kinds
  <2> QED
    BY <2>1, <2>2, <2>3, SendStep
<1>4. CASE SubmitCreate
  <2>1. req' = [req EXCEPT !["create"] = Asked("create", cookie)]
    BY <1>4 DEF SubmitCreate
  <2> QED
    BY <1>1, <1>4, <2>1, SendStep DEF SubmitCreate, Kinds
<1>5. CASE LeaveClicked
  <2>1. req' = [req EXCEPT !["leave"] = Asked("leave", cookie)]
    BY <1>5 DEF LeaveClicked
  <2> QED
    BY <1>1, <1>5, <2>1, SendStep DEF LeaveClicked, Kinds
<1>6. CASE Use
  <2>1. req' = [req EXCEPT !["use"] = Asked("use", cookie)]
    BY <1>6 DEF Use
  <2> QED
    BY <1>1, <1>6, <2>1, SendStep DEF Use, Kinds
<1> QED
  BY <1>2, <1>3, <1>4, <1>5, <1>6

LEMMA SwitchStep ==
  ASSUME SessionInv, NEW o \in Orgs, Switch(o), acts' \in 0 .. MaxActs
  PROVE  SessionInv'
<1>1. \A k \in Kinds : ClientReq(k)
  BY DEF Switch, ClientReq
<1>2. Granted' = Granted
  BY GrantedSame DEF Switch
<1>3. Asking' /\ AnswersAreTrue' /\ CacheIsTrue'
  BY <1>1, <1>2, ClientStep DEF Switch, Noted
<1>4. TypeOK'
  BY DEF Switch, SessionInv, TypeOK, serverVars
<1>5. Places' /\ Kept'
  BY DEF Switch, SessionInv, Places, Kept, Idle, At
<1>6. Mine'
  <2> SUFFICES ASSUME cookie # None, lister = cookie
               PROVE  o \in member[cookie] \cup lost
    BY DEF Switch, Mine, serverVars
  <2> QED
    BY DEF Switch, SessionInv, CacheIsTrue, Own
<1> QED
  BY <1>3, <1>4, <1>5, <1>6 DEF SessionInv

LEMMA ActStep ==
  ASSUME SessionInv, Act
  PROVE  SessionInv'
<1>1. acts' \in 0 .. MaxActs
  BY SessionAssumption DEF Act, SessionInv, TypeOK
<1> QED
  BY <1>1, LinkStep, OpenStep, SubmitStep, SidebarLogoutStep, SwitchStep DEF Act

----------------------------------------------------------------------------
(* Answers that are handled *)

\* An answer that changes neither the page nor what the tab remembers.
LEMMA DropStep ==
  ASSUME SessionInv, NEW k \in Kinds \ {"accept"}, req' = Drop(k), ~Ok("create") \/ k # "create",
         UNCHANGED <<serverVars, storeVars, ui, orgs, checked, history, events, acts>>
  PROVE  SessionInv'
<1>1. TypeOK
  BY DEF SessionInv
<1>2. /\ req' \in [Kinds -> Request] /\ req'[k] = NoReq
      /\ \A j \in Kinds \ {k} : req'[j] = req[j]
  BY <1>1, DropFacts
<1>3. \A j \in Kinds : ClientReq(j)
  BY <1>2 DEF ClientReq
<1>4. \A j \in Kinds : ~Idle(j)' => ~Idle(j)
  BY <1>2, RequestFields DEF Idle
<1>5. Places' /\ Kept'
  <2>1. Places'
    BY <1>4 DEF SessionInv, Places, At, storeVars, Kinds
  <2>2. Kept'
    BY <1>4 DEF SessionInv, Kept, At, storeVars, history, Kinds
  <2> QED
    BY <2>1, <2>2
<1>6. Granted \subseteq Granted'
  BY <1>2, RequestFields DEF Granted, Joining, At, Idle, Ok, Back, storeVars, Kinds
<1>7. Asking' /\ AnswersAreTrue' /\ CacheIsTrue'
  BY <1>3, <1>6, ClientStep DEF Noted, history
<1>8. TypeOK'
  BY <1>1, <1>2 DEF TypeOK, serverVars, storeVars, history
<1>9. Mine'
  BY MineKept DEF SessionInv, storeVars, history
<1> QED
  BY <1>5, <1>7, <1>8, <1>9 DEF SessionInv

LEMMA SettlesStep ==
  ASSUME SessionInv, NEW k \in Kinds, Settles(k), UNCHANGED acts
  PROVE  SessionInv'
BY DropStep DEF Settles

LEMMA UnauthorizedStep ==
  ASSUME SessionInv, NEW k \in Kinds, Unauthorized(k), UNCHANGED acts
  PROVE  SessionInv'
<1>1. TypeOK /\ cookie \in Users \cup {None} /\ k # "logout" /\ ~Ok(k) /\ ~Idle(k)
  BY DEF SessionInv, TypeOK, Unauthorized, Api, Ok, Back, Idle
<1>2. /\ req' \in [Kinds -> Request] /\ req'[k] = NoReq
      /\ req'["logout"] \in {req["logout"], Asked("logout", cookie)}
      /\ \A j \in Kinds \ {k, "logout"} : req'[j] = req[j]
  <2>1. /\ Drop(k) \in [Kinds -> Request] /\ Drop(k)[k] = NoReq
        /\ \A j \in Kinds \ {k} : Drop(k)[j] = req[j]
    BY <1>1, DropFacts
  <2>2. req' = Drop(k) \/ req' = [Drop(k) EXCEPT !["logout"] = Asked("logout", cookie)]
    BY DEF Unauthorized
  <2>3. "logout" \in Kinds /\ Asked("logout", cookie) \in Request
    BY <1>1, RequestTypes DEF Kinds
  <2> HIDE DEF Drop
  <2> QED
    BY <1>1, <2>1, <2>2, <2>3
<1>3. \A j \in Kinds : ClientReq(j)
  BY <1>2 DEF ClientReq
<1>4. \A j \in Kinds \ {"logout"} : ~Idle(j)' => ~Idle(j)
  BY <1>2, RequestFields DEF Idle
<1>5. Places' /\ Kept'
  <2>1. Places'
    BY <1>4 DEF SessionInv, Places, At, Unauthorized, storeVars, Kinds
  <2>2. Kept'
    BY <1>4 DEF SessionInv, Kept, At, Unauthorized, storeVars, history, Kinds
  <2> QED
    BY <2>1, <2>2
<1>6. Granted \subseteq Granted'
  <2>1. UNCHANGED <<ui, auth>>
    BY DEF Unauthorized, storeVars
  <2>2. Joining => Joining'
    BY <1>1, <1>2, <2>1, RequestFields DEF Joining, At, Idle, Ok, Back, Kinds
  <2>3. Ok("create") => req'["create"] = req["create"]
    BY <1>1, <1>2 DEF Kinds
  <2> QED
    BY <2>2, <2>3 DEF Granted, Ok, Back
<1>7. Asking' /\ AnswersAreTrue' /\ CacheIsTrue'
  BY <1>3, <1>6, ClientStep DEF Noted, history, Unauthorized
<1>8. TypeOK'
  BY <1>1, <1>2 DEF TypeOK, serverVars, storeVars, history, Unauthorized
<1>9. Mine'
  BY MineKept DEF SessionInv, storeVars, history, Unauthorized
<1> QED
  BY <1>5, <1>7, <1>8, <1>9 DEF SessionInv

LEMMA HardLogoutStep ==
  ASSUME SessionInv, HardLogout, UNCHANGED acts
  PROVE  SessionInv'
<1>1. TypeOK /\ Load("login") /\ "login" \in Pages
  BY DEF SessionInv, HardLogout, Pages
<1>2. Places' /\ (\A k \in Kinds : ClientReq(k)) /\ orgs' = None /\ req'["orgs"] = NoReq /\ req'["refetch"] = NoReq
  BY <1>1, LoadRequests, LoadFacts DEF Kinds
<1>3. Asking' /\ AnswersAreTrue' /\ CacheIsTrue'
  BY <1>2, ClientStep, RequestFields DEF HardLogout, Noted, Ok, Back
<1>4. TypeOK'
  <2>1. pending' \in BOOLEAN /\ followed' \in BOOLEAN
    BY DEF HardLogout, RenderInvite
  <2> QED
    BY <1>1, <2>1, LoadFacts DEF HardLogout, TypeOK, serverVars
<1>5. followed' => pending'
  <2>1. followed' => followed \/ (At("invite") /\ ui.sure)
    BY DEF HardLogout, RenderInvite
  <2>2. followed => pending \/ (At("invite") /\ ui.sure)
    BY DEF SessionInv, Kept, Places
  <2>3. pending \/ (At("invite") /\ ui.sure) => pending'
    BY DEF HardLogout, RenderInvite
  <2> QED
    BY <2>1, <2>2, <2>3
<1>6. Kept'
  BY <1>5 DEF Kept
<1>7. Mine'
  BY MineKept DEF HardLogout, SessionInv
<1> QED
  BY <1>2, <1>3, <1>4, <1>6, <1>7 DEF SessionInv

\* An answer after which the tab is on another page.
LEMMA GoStep ==
  ASSUME SessionInv, NEW p \in Pages, NEW a \in BOOLEAN, NEW j \in Kinds,
         Go(p, a, Drop(j)), auth' = a,
         \A k \in {"login", "enter", "join", "register", "create", "check", "accept", "leave", "refetch"} :
           k = j \/ Idle(k),
         UNCHANGED <<serverVars, orgs, lister, lost>>, unlisted \subseteq unlisted',
         Granted \subseteq unlisted' \/ (orgs = None /\ Idle("orgs"))
  PROVE  /\ Places' /\ Asking' /\ AnswersAreTrue' /\ CacheIsTrue'
         /\ req' \in [Kinds -> Request] /\ ui' \in Ui /\ Idle("refetch")'
         /\ ui'.page = p \/ (Guarded(p) /\ ~a /\ ui'.page = "login")
<1>1. TypeOK
  BY DEF SessionInv
<1>2. Drop(j) \in [Kinds -> Request]
  BY <1>1, DropFacts
<1>3. Quiet(Drop(j)) /\ \A k \in Kinds : Drop(j)[k] \in {req[k], NoReq}
  BY <1>1, DropQuiet
<1> HIDE DEF Drop
<1>4. Moved(p, a, Drop(j))
  BY <1>1, <1>2, GoFacts
<1>5. Places'
  BY <1>2, <1>3, <1>4, GoPlaces
<1>6. \A k \in Kinds : ClientReq(k)
  BY <1>3, <1>4, GoRequests
<1>7. Noted
  <2>1. CASE Granted \subseteq unlisted'
    BY <2>1 DEF Noted
  <2>2. CASE orgs = None /\ Idle("orgs")
    <3>1. req'["orgs"] = NoReq \/ req'["orgs"] = Asked("orgs", cookie) \/ req'["orgs"] = req["orgs"]
      BY <1>6 DEF ClientReq, Kinds
    <3>2. ~Ok("orgs")'
      BY <2>2, <3>1, RequestFields DEF Ok, Back, Idle
    <3> QED
      BY <2>2, <3>2 DEF Noted
  <2> QED
    BY <2>1, <2>2
<1>8. Asking' /\ AnswersAreTrue' /\ CacheIsTrue'
  BY <1>6, <1>7, ClientStep
<1>9. Idle("refetch")'
  BY <1>3, <1>4 DEF Moved, Quiet, Idle, Kinds
<1> QED
  BY <1>4, <1>5, <1>8, <1>9 DEF Moved, Shown

LEMMA LoginArrivesStep ==
  ASSUME SessionInv, LoginArrives, UNCHANGED acts
  PROVE  SessionInv'
<1>1. /\ TypeOK /\ At("login") /\ cookie \in Users \cup {None} /\ auth' = TRUE /\ pending' = FALSE
      /\ \A k \in Kinds \ {"login", "use", "orgs", "preview", "logout", "probe"} : Idle(k)
      /\ Idle("probe") /\ Granted = {}
  <2>1. At("login") /\ ~Idle("login")
    BY DEF SessionInv, Places, LoginArrives, Back, Idle
  <2>2. \A k \in Kinds \ {"login", "use", "orgs", "preview", "logout", "probe"} : Idle(k)
    BY <2>1 DEF SessionInv, Places, At, Guarded, Kinds
  <2>3. Idle("probe") /\ ~Joining /\ ~Ok("create")
    BY <2>1, <2>2 DEF SessionInv, Places, At, Joining, Ok, Back, Idle, Kinds
  <2> QED
    BY <2>1, <2>2, <2>3, GrantedNone DEF SessionInv, TypeOK, LoginArrives
<1>2. Mine'
  BY MineKept DEF LoginArrives, SessionInv, history
<1>3. CASE pending
  <2>1. Go("invite", TRUE, Drop("login"))
    BY <1>3 DEF LoginArrives
  <2>2. /\ Places' /\ Asking' /\ AnswersAreTrue' /\ CacheIsTrue'
        /\ req' \in [Kinds -> Request] /\ ui' \in Ui /\ Idle("refetch")'
        /\ ui'.page = "invite"
    BY <1>1, <2>1, GoStep DEF LoginArrives, history, Pages, Kinds
  <2>3. TypeOK'
    BY <1>1, <2>2 DEF TypeOK, LoginArrives, serverVars, history
  <2>4. Kept'
    BY <1>1, <2>2 DEF Kept, At
  <2> QED
    BY <1>2, <2>2, <2>3, <2>4 DEF SessionInv
<1>4. CASE ~pending
  <2>1. req' = [Drop("login") EXCEPT !["enter"] = Asked("enter", cookie)] /\ ui' = ui
    BY <1>4 DEF LoginArrives
  <2>2. /\ req' \in [Kinds -> Request] /\ req'["login"] = NoReq
        /\ req'["enter"] = Asked("enter", cookie)
        /\ \A k \in Kinds \ {"login", "enter"} : req'[k] = req[k]
    <3>1. /\ Drop("login") \in [Kinds -> Request] /\ Drop("login")["login"] = NoReq
          /\ \A k \in Kinds \ {"login"} : Drop("login")[k] = req[k]
      BY <1>1, DropFacts DEF Kinds
    <3>2. "enter" \in Kinds /\ "login" \in Kinds /\ Asked("enter", cookie) \in Request
      BY <1>1, RequestTypes DEF Kinds
    <3> HIDE DEF Drop
    <3> QED
      BY <2>1, <3>1, <3>2
  <2>3. \A k \in Kinds : ClientReq(k)
    BY <2>2 DEF ClientReq
  <2>4. Asking' /\ AnswersAreTrue' /\ CacheIsTrue'
    BY <1>1, <2>3, ClientStep DEF LoginArrives, history, Noted
  <2>5. /\ \A k \in Kinds \ {"login", "enter", "use", "orgs", "preview", "logout"} : Idle(k)'
        /\ Idle("login")'
    BY <1>1, <2>2, RequestFields DEF Idle, Kinds
  <2>6. Places'
    BY <1>1, <2>1, <2>5 DEF Places, At, Kinds
  <2>7. Kept'
    BY <1>1, <1>4, <2>1, <2>5 DEF SessionInv, Kept, At, LoginArrives, history, Kinds
  <2>8. TypeOK'
    BY <1>1, <2>1, <2>2 DEF TypeOK, LoginArrives, serverVars, history
  <2> QED
    BY <1>2, <2>4, <2>6, <2>7, <2>8 DEF SessionInv
<1> QED
  BY <1>3, <1>4

LEMMA EnterArrivesStep ==
  ASSUME SessionInv, EnterArrives, UNCHANGED acts
  PROVE  SessionInv'
<1> DEFINE l == req["enter"].list
<1>1. /\ TypeOK /\ At("login") /\ auth = TRUE /\ Ok("enter") /\ Granted = {}
      /\ \A k \in {"login", "join", "register", "create", "check", "accept", "leave", "refetch"} : Idle(k)
  <2>1. At("login") /\ ~Idle("enter") /\ auth /\ Idle("login") /\ Ok("enter")
    BY DEF SessionInv, Places, EnterArrives, Back, Idle, Ok
  <2>2. \A k \in {"login", "join", "register", "create", "check", "accept", "leave", "refetch"} : Idle(k)
    BY <2>1 DEF SessionInv, Places, At, Guarded
  <2>3. ~Joining /\ ~Ok("create")
    BY <2>1, <2>2 DEF At, Joining, Ok, Back, Idle
  <2> QED
    BY <2>1, <2>2, <2>3, GrantedNone DEF SessionInv, TypeOK
<1>2. PICK p \in {"create", "app"} : Go(p, TRUE, Drop("enter"))
  BY <1>1 DEF EnterArrives
<1>3. /\ Places' /\ Asking' /\ AnswersAreTrue' /\ CacheIsTrue'
      /\ req' \in [Kinds -> Request] /\ ui' \in Ui /\ Idle("refetch")'
      /\ ui'.page = p \/ (Guarded(p) /\ ~TRUE /\ ui'.page = "login")
  <2>1. p \in Pages /\ "enter" \in Kinds /\ auth' = TRUE
    BY <1>1 DEF Pages, Kinds, EnterArrives
  <2>2. UNCHANGED <<serverVars, orgs, lister, lost>> /\ unlisted' = unlisted
    BY DEF EnterArrives
  <2> QED
    BY <1>1, <1>2, <2>1, <2>2, GoStep
<1>4. l \subseteq Orgs /\ req["enter"].who \in accounts /\ Own(l, req["enter"].who)
      /\ cookie \in {req["enter"].who, None}
  <2>1. req["enter"] \in Request
    BY <1>1 DEF TypeOK, Kinds
  <2>2. Truthful("enter")
    BY DEF SessionInv, AnswersAreTrue, Kinds
  <2>3. req["enter"].who \in accounts /\ Own(l, req["enter"].who)
    BY <1>1, <2>2 DEF Truthful, Lists
  <2>4. cookie \in {req["enter"].who, None}
    BY <1>1 DEF SessionInv, Asking, SameVisitor, Ok, Back, Idle
  <2> QED
    BY <2>1, <2>3, <2>4 DEF Request
<1>5. active' \in l \/ (l = {} /\ active' = active)
  BY DEF EnterArrives, Chosen
<1>6. TypeOK'
  <2>1. active' \in Orgs \cup {None} /\ unchosen' \in BOOLEAN
    BY <1>1, <1>4, <1>5 DEF TypeOK, EnterArrives
  <2> QED
    BY <1>1, <1>3, <2>1 DEF TypeOK, EnterArrives, serverVars
<1>7. Kept'
  BY <1>1, <1>3 DEF SessionInv, Kept, At, EnterArrives
<1>8. Mine'
  <2>1. CASE l = {}
    BY <2>1, <1>5 DEF SessionInv, Mine, EnterArrives, serverVars
  <2>2. CASE active' \in l
    BY <2>2, <1>4 DEF Mine, Own, EnterArrives, serverVars
  <2> QED
    BY <1>5, <2>1, <2>2
<1> QED
  BY <1>3, <1>6, <1>7, <1>8 DEF SessionInv

LEMMA CheckStep ==
  ASSUME SessionInv, CheckArrives \/ CheckFails, UNCHANGED acts
  PROVE  SessionInv'
<1>1. /\ TypeOK /\ Guarded(ui.page) /\ ~auth /\ Granted = {} /\ ui.page \in Pages
      /\ \A k \in {"login", "enter", "join", "register", "create", "accept", "leave", "refetch"} : Idle(k)
  <2>1. Guarded(ui.page) /\ ~auth
    BY DEF SessionInv, Places, CheckArrives, CheckFails, Back, Idle
  <2>2. \A k \in {"login", "enter", "join", "register", "create", "accept", "leave", "refetch"} : Idle(k)
    BY <2>1 DEF SessionInv, Places, At, Guarded
  <2>3. ~Joining /\ ~Ok("create")
    BY <2>1, <2>2 DEF Joining, Ok, Back, Idle
  <2> QED
    BY <2>1, <2>2, <2>3, GrantedNone DEF SessionInv, TypeOK, Ui
<1>2. PICK p \in Pages, a \in BOOLEAN :
        /\ Go(p, a, Drop("check")) /\ auth' = a
        /\ p \in {ui.page, "login"}
  <2>1. CASE CheckArrives
    <3>1. Go(ui.page, TRUE, Drop("check")) /\ auth' = TRUE
      BY <1>1, <2>1 DEF CheckArrives
    <3> QED
      BY <1>1, <3>1
  <2>2. CASE CheckFails
    <3>1. Go("login", FALSE, Drop("check")) /\ auth' = auth
      BY <1>1, <2>2 DEF CheckFails, storeVars
    <3>2. auth' = FALSE /\ "login" \in Pages
      BY <1>1, <3>1 DEF TypeOK, Pages
    <3> QED
      BY <3>1, <3>2
  <2> QED
    BY <2>1, <2>2
<1>3. UNCHANGED <<serverVars, orgs, history, events, active, pending>> /\ checked' \in BOOLEAN
  BY <1>1 DEF CheckArrives, CheckFails, storeVars, TypeOK
<1>4. /\ Places' /\ Asking' /\ AnswersAreTrue' /\ CacheIsTrue'
      /\ req' \in [Kinds -> Request] /\ ui' \in Ui /\ Idle("refetch")'
  BY <1>1, <1>2, <1>3, GoStep DEF history, Kinds
<1>5. TypeOK'
  BY <1>1, <1>2, <1>3, <1>4 DEF TypeOK, serverVars, history
<1>6. Kept'
  BY <1>1, <1>3, <1>4 DEF SessionInv, Kept, At, Guarded, history
<1>7. Mine'
  BY <1>3, MineKept DEF SessionInv, history
<1> QED
  BY <1>4, <1>5, <1>6, <1>7 DEF SessionInv

LEMMA LeaveArrivesStep ==
  ASSUME SessionInv, LeaveArrives, UNCHANGED acts
  PROVE  SessionInv'
<1>1. /\ TypeOK /\ At("invite") /\ ui.sure /\ Granted = {}
      /\ \A k \in {"login", "enter", "join", "register", "create", "check", "accept", "refetch"} : Idle(k)
  <2>1. At("invite") /\ ui.sure /\ auth /\ ui.err # "none"
    BY DEF SessionInv, Places, LeaveArrives, Back, Idle
  <2>2. \A k \in {"login", "enter", "join", "register", "create", "check", "accept", "refetch"} : Idle(k)
    BY <2>1 DEF SessionInv, Places, At, Guarded
  <2>3. ~Joining /\ ~Ok("create")
    BY <2>1, <2>2 DEF Joining, Ok, Back, Idle
  <2> QED
    BY <2>1, <2>2, <2>3, GrantedNone DEF SessionInv
<1>2. /\ Places' /\ Asking' /\ AnswersAreTrue' /\ CacheIsTrue'
      /\ req' \in [Kinds -> Request] /\ ui' \in Ui /\ Idle("refetch")'
  <2>1. "login" \in Pages /\ "leave" \in Kinds /\ FALSE \in BOOLEAN
    BY DEF Pages, Kinds
  <2>2. /\ Go("login", FALSE, Drop("leave")) /\ auth' = FALSE
        /\ UNCHANGED <<serverVars, orgs, lister, lost>> /\ unlisted' = unlisted
    BY DEF LeaveArrives
  <2> QED
    BY <1>1, <2>1, <2>2, GoStep
<1>3. pending'
  BY <1>1 DEF LeaveArrives, RenderInvite
<1>4. TypeOK'
  <2>1. pending' \in BOOLEAN /\ followed' \in BOOLEAN
    BY DEF LeaveArrives, RenderInvite
  <2> QED
    BY <1>1, <1>2, <2>1 DEF TypeOK, LeaveArrives, serverVars
<1>5. Kept'
  BY <1>3 DEF Kept
<1>6. Mine'
  BY MineKept DEF SessionInv, LeaveArrives
<1> QED
  BY <1>2, <1>4, <1>5, <1>6 DEF SessionInv

LEMMA RegisterArrivesStep ==
  ASSUME SessionInv, RegisterArrives, UNCHANGED acts
  PROVE  SessionInv'
<1>1. CASE req' = Drop("register") /\ ui' = ui
  BY <1>1, DropStep DEF RegisterArrives, Kinds
<1>2. CASE Go("login", auth, Drop("register"))
  <2>1. /\ TypeOK /\ At("register") /\ auth \in BOOLEAN /\ Granted = {}
        /\ \A k \in {"login", "enter", "join", "create", "check", "accept", "leave", "refetch"} : Idle(k)
    <3>1. At("register") /\ ~Idle("register")
      BY DEF SessionInv, Places, RegisterArrives, Back, Idle
    <3>2. \A k \in {"login", "enter", "join", "create", "check", "accept", "leave", "refetch"} : Idle(k)
      BY <3>1 DEF SessionInv, Places, At, Guarded
    <3>3. ~Joining /\ ~Ok("create")
      BY <3>1, <3>2 DEF Joining, At, Ok, Back, Idle
    <3> QED
      BY <3>1, <3>2, <3>3, GrantedNone DEF SessionInv, TypeOK
  <2>2. UNCHANGED <<serverVars, storeVars, orgs, checked, history, events>>
    BY DEF RegisterArrives
  <2>3. /\ Places' /\ Asking' /\ AnswersAreTrue' /\ CacheIsTrue'
        /\ req' \in [Kinds -> Request] /\ ui' \in Ui /\ Idle("refetch")'
    <3>1. "login" \in Pages /\ "register" \in Kinds
      BY DEF Pages, Kinds
    <3> QED
      BY <1>2, <2>1, <2>2, <3>1, GoStep DEF history, storeVars
  <2>4. TypeOK'
    BY <2>1, <2>2, <2>3 DEF TypeOK, serverVars, storeVars, history
  <2>5. Kept'
    BY <2>1, <2>2, <2>3 DEF SessionInv, Kept, At, storeVars, history
  <2>6. Mine'
    BY <2>2, MineKept DEF SessionInv, storeVars, history
  <2> QED
    BY <2>3, <2>4, <2>5, <2>6 DEF SessionInv
<1> QED
  BY <1>1, <1>2 DEF RegisterArrives

LEMMA PreviewStep ==
  ASSUME SessionInv, PreviewArrives, UNCHANGED acts
  PROVE  SessionInv'
<1>1. TypeOK /\ "preview" \in Kinds
  BY DEF SessionInv, Kinds
<1>2. /\ req' \in [Kinds -> Request] /\ req'["preview"] = NoReq
      /\ \A j \in Kinds \ {"preview"} : req'[j] = req[j]
  BY <1>1, DropFacts DEF PreviewArrives
<1>3. /\ ui' \in Ui /\ ui'.page = ui.page /\ auth' = auth
      /\ ui' = ui \/ At("register")
  <2>1. CASE ~At("register")
    BY <1>1, <2>1 DEF PreviewArrives, TypeOK
  <2>2. CASE At("register")
    BY <1>1, <2>2 DEF PreviewArrives, TypeOK, Ui
  <2> QED
    BY <2>1, <2>2
<1>4. \A j \in Kinds : ClientReq(j)
  BY <1>2 DEF ClientReq
<1>5. \A j \in Kinds : ~Idle(j)' => ~Idle(j)
  BY <1>2, RequestFields DEF Idle
<1>6. Places'
  <2>1. CASE ui' = ui
    BY <1>3, <1>5, <2>1 DEF SessionInv, Places, At, Kinds
  <2>2. CASE At("register")
    BY <1>3, <1>5, <2>2 DEF SessionInv, Places, At, Kinds, Guarded
  <2> QED
    BY <1>3, <2>1, <2>2
<1>7. Granted \subseteq Granted'
  <2>1. req'["accept"] = req["accept"] /\ req'["create"] = req["create"]
    BY <1>2 DEF Kinds
  <2>2. Joining => Joining'
    BY <1>3, <2>1 DEF Joining, At, Idle, Ok, Back
  <2> QED
    BY <2>1, <2>2 DEF Granted, Ok, Back
<1>8. Asking' /\ AnswersAreTrue' /\ CacheIsTrue'
  BY <1>4, <1>7, ClientStep DEF Noted, PreviewArrives
<1>9. (followed' => followed) /\ (followed' => (pending => pending'))
  BY DEF PreviewArrives
<1>10. Kept'
  BY <1>3, <1>5, <1>9 DEF SessionInv, Kept, At, Kinds
<1>11. TypeOK'
  <2>1. pending' \in BOOLEAN /\ followed' \in BOOLEAN
    BY <1>1 DEF PreviewArrives, TypeOK
  <2> QED
    BY <1>1, <1>2, <1>3, <2>1 DEF TypeOK, serverVars, PreviewArrives
<1>12. Mine'
  BY MineKept DEF SessionInv, PreviewArrives
<1> QED
  BY <1>6, <1>8, <1>10, <1>11, <1>12 DEF SessionInv

LEMMA ProbeStep ==
  ASSUME SessionInv, ProbeArrives, UNCHANGED acts
  PROVE  SessionInv'
<1> DEFINE ok == req["probe"].ans = "ok"
<1>1. /\ TypeOK /\ cookie \in Users \cup {None} /\ At("invite") /\ ~auth /\ ~ui.fired /\ ui.err = "none"
      /\ \A k \in Kinds \ {"use", "orgs", "preview", "logout", "probe"} : Idle(k)
  <2>1. At("invite") /\ ~auth /\ TypeOK /\ cookie \in Users \cup {None}
    BY DEF SessionInv, TypeOK, Places, ProbeArrives, Back, Idle
  <2>2. ui.fired = auth /\ ui.err = "none"
    BY <2>1 DEF SessionInv, Places
  <2>3. \A k \in Kinds \ {"use", "orgs", "preview", "logout", "probe"} : Idle(k)
    BY <2>1 DEF SessionInv, Places, At, Guarded, Kinds
  <2> QED
    BY <2>1, <2>2, <2>3
<1>2. /\ req' \in [Kinds -> Request] /\ req'["probe"] = NoReq
      /\ req'["accept"] = (IF ok THEN Asked("accept", cookie) ELSE req["accept"])
      /\ \A j \in Kinds \ {"probe", "accept"} : req'[j] = req[j]
  <2>1. /\ Drop("probe") \in [Kinds -> Request] /\ Drop("probe")["probe"] = NoReq
        /\ \A j \in Kinds \ {"probe"} : Drop("probe")[j] = req[j]
    BY <1>1, DropFacts DEF Kinds
  <2>2. req' = IF ok THEN [Drop("probe") EXCEPT !["accept"] = Asked("accept", cookie)] ELSE Drop("probe")
    BY <1>1 DEF ProbeArrives, FireAccept
  <2>3. "accept" \in Kinds /\ "probe" \in Kinds /\ Asked("accept", cookie) \in Request
    BY <1>1, RequestTypes DEF Kinds
  <2> HIDE DEF Drop, ok
  <2>4. CASE ok
    BY <2>1, <2>2, <2>3, <2>4
  <2>5. CASE ~ok
    BY <2>1, <2>2, <2>3, <2>5
  <2> QED
    BY <2>4, <2>5
<1>3. /\ ui' \in Ui /\ ui'.page = "invite" /\ ui'.err = "none" /\ ui'.sure = TRUE
      /\ (ui'.fired <=> ok) /\ (auth' <=> ok) /\ auth' \in BOOLEAN
  <2>1. ui \in Ui /\ ui.page = "invite"
    BY <1>1 DEF TypeOK, At
  <2>2. PICK f \in BOOLEAN : (f <=> ui.fired \/ ok) /\ ui' = [ui EXCEPT !.sure = TRUE, !.fired = f]
    BY <1>1 DEF ProbeArrives, TypeOK, Ui
  <2>3. /\ ui' \in Ui /\ ui'.page = "invite" /\ ui'.err = "none" /\ ui'.sure = TRUE
        /\ (ui'.fired <=> ok)
    BY <1>1, <2>1, <2>2 DEF Ui
  <2> QED
    BY <1>1, <2>3 DEF ProbeArrives
<1>4. \A j \in Kinds : ClientReq(j)
  BY <1>2 DEF ClientReq
<1>5. /\ \A k \in Kinds \ {"use", "orgs", "preview", "logout", "accept"} : Idle(k)'
      /\ ~Idle("accept")' => ok
  BY <1>1, <1>2, RequestFields DEF Idle, Kinds
<1>6. Places'
  <2>1. ui'.fired \in BOOLEAN
    BY <1>3 DEF Ui
  <2>2. ui'.fired = auth'
    BY <1>3, <2>1
  <2> HIDE DEF ok
  <2> QED
    BY <1>3, <1>5, <2>2 DEF Places, At, Kinds
<1>7. Granted = {}
  BY <1>1, GrantedNone DEF Joining, Ok, Back, Idle, Kinds
<1>8. Asking' /\ AnswersAreTrue' /\ CacheIsTrue'
  BY <1>4, <1>7, ClientStep DEF Noted, ProbeArrives
<1>9. TypeOK'
  <2>1. pending' \in BOOLEAN /\ followed' \in BOOLEAN
    BY DEF ProbeArrives, RenderInvite
  <2> QED
    BY <1>1, <1>2, <1>3, <2>1 DEF TypeOK, ProbeArrives, serverVars
<1>10. Kept'
  <2>1. followed' => pending' \/ auth'
    BY DEF ProbeArrives, RenderInvite, SessionInv, Kept
  <2> QED
    BY <1>3, <1>5, <2>1 DEF Kept, At, Kinds
<1>11. Mine'
  BY MineKept DEF SessionInv, ProbeArrives
<1> QED
  BY <1>6, <1>8, <1>9, <1>10, <1>11 DEF SessionInv

LEMMA CreateArrivesStep ==
  ASSUME SessionInv, CreateArrives, UNCHANGED acts
  PROVE  SessionInv'
<1>1. CASE req["create"].ans # "ok"
  BY <1>1, DropStep DEF CreateArrives, Kinds, Ok, storeVars, history
<1>2. CASE req["create"].ans = "ok"
  <2> DEFINE l == req["create"].list
  <2>1. /\ TypeOK /\ At("create") /\ auth = TRUE /\ Ok("create") /\ ~Joining
        /\ \A k \in {"login", "enter", "join", "register", "check", "accept", "leave", "refetch"} : Idle(k)
    <3>1. At("create") /\ auth /\ Ok("create") /\ ~Idle("create") /\ auth \in BOOLEAN /\ TypeOK
      BY <1>2 DEF SessionInv, Places, CreateArrives, Back, Idle, Ok, TypeOK
    <3>2. \A k \in {"login", "enter", "join", "register", "check", "accept", "leave", "refetch"} : Idle(k)
      BY <3>1 DEF SessionInv, Places, At, Guarded
    <3> QED
      BY <3>1, <3>2 DEF Joining, At
  <2>2. /\ active' \in l /\ unlisted' = unlisted \cup l /\ unchosen' = FALSE
        /\ Go("app", TRUE, Drop("create")) /\ auth' = TRUE
        /\ UNCHANGED <<serverVars, pending, orgs, checked, followed, lister, lost, events>>
    BY <1>2, <2>1 DEF CreateArrives
  <2>3. Granted \subseteq unlisted'
    BY <2>1, <2>2 DEF Granted
  <2>4. /\ Places' /\ Asking' /\ AnswersAreTrue' /\ CacheIsTrue'
        /\ req' \in [Kinds -> Request] /\ ui' \in Ui /\ Idle("refetch")'
    <3>1. "app" \in Pages /\ "create" \in Kinds /\ TRUE \in BOOLEAN
      BY DEF Pages, Kinds
    <3>2. unlisted \subseteq unlisted'
      BY <2>2
    <3> HIDE DEF l
    <3> QED
      BY <2>1, <2>2, <2>3, <3>1, <3>2, GoStep
  <2>5. l \subseteq Orgs /\ Own(l, req["create"].who) /\ cookie \in {req["create"].who, None}
    <3>1. req["create"] \in Request
      BY <2>1 DEF TypeOK, Kinds
    <3>2. Truthful("create")
      BY DEF SessionInv, AnswersAreTrue, Kinds
    <3>3. Own(l, req["create"].who)
      BY <2>1, <3>2 DEF Truthful, Lists
    <3>4. cookie \in {req["create"].who, None}
      BY <2>1 DEF SessionInv, Asking, SameVisitor, Ok, Back, Idle
    <3> QED
      BY <3>1, <3>3, <3>4 DEF Request
  <2>6. TypeOK'
    <3>1. active' \in Orgs /\ unlisted' \subseteq Orgs
      BY <2>1, <2>2, <2>5 DEF TypeOK
    <3> QED
      BY <2>1, <2>2, <2>4, <3>1 DEF TypeOK, serverVars
  <2>7. Kept'
    BY <2>1, <2>2, <2>4 DEF SessionInv, Kept, At
  <2>8. Mine'
    BY <2>2, <2>5 DEF Mine, Own, serverVars
  <2> QED
    BY <2>4, <2>6, <2>7, <2>8 DEF SessionInv
<1> QED
  BY <1>1, <1>2

\* The accepted invite, or the account made with it: the dashboard, or the list first.
LEMMA JoinedFacts ==
  ASSUME TypeOK, NEW j \in {"accept", "join"}, orgs # None, Joined(Drop(j))
  PROVE  /\ ui' = ui /\ req' \in [Kinds -> Request]
         /\ req'[j] = NoReq /\ req'["orgs"] = NoReq /\ req'["refetch"] = Asked("refetch", cookie)
         /\ \A k \in Kinds \ {j, "orgs", "refetch"} : req'[k] = req[k]
<1>1. /\ Drop(j) \in [Kinds -> Request] /\ Drop(j)[j] = NoReq
      /\ \A k \in Kinds \ {j} : Drop(j)[k] = req[k]
  BY DropFacts DEF Kinds
<1>2. ui' = ui /\ req' = [Drop(j) EXCEPT !["refetch"] = Asked("refetch", cookie), !["orgs"] = NoReq]
  BY DEF Joined
<1>3. /\ {"refetch", "orgs", "accept", "join"} \subseteq Kinds /\ NoReq \in Request
      /\ Asked("refetch", cookie) \in Request
  BY RequestTypes DEF Kinds, TypeOK
<1> HIDE DEF Drop
<1> QED
  BY <1>1, <1>2, <1>3

LEMMA AcceptArrivesStep ==
  ASSUME SessionInv, AcceptArrives, UNCHANGED acts
  PROVE  SessionInv'
<1>1. /\ TypeOK /\ At("invite") /\ auth = TRUE /\ ui.sure /\ ui.fired = auth /\ ui.err = "none"
      /\ ~Idle("accept") /\ ui \in Ui
      /\ \A k \in Kinds \ {"use", "orgs", "preview", "logout", "accept"} : Idle(k)
  <2>1. At("invite") /\ auth /\ ui.err = "none" /\ ~Idle("accept") /\ TypeOK /\ auth \in BOOLEAN /\ ui \in Ui
    BY DEF SessionInv, TypeOK, Places, AcceptArrives, Back, Idle
  <2>2. ui.fired = auth /\ ui.sure
    BY <2>1 DEF SessionInv, Places
  <2>3. \A k \in Kinds \ {"use", "orgs", "preview", "logout", "accept"} : Idle(k)
    BY <2>1 DEF SessionInv, Places, At, Guarded, Kinds
  <2> QED
    BY <2>1, <2>2, <2>3
<1>2. ~Ok("create")
  BY <1>1 DEF Ok, Back, Idle, Kinds
<1>3. UNCHANGED <<serverVars, auth, pending, orgs, checked, lister, lost, events>>
  BY DEF AcceptArrives
<1>4. CASE req["accept"].ans # "ok"
  <2>1. /\ active' = active /\ req' = Drop("accept") /\ unlisted' = unlisted
        /\ ui' = [ui EXCEPT !.err = IF req["accept"].ans = "mismatch" THEN req["accept"].ans ELSE "other"]
        /\ unchosen' = unchosen
    BY <1>1, <1>4 DEF AcceptArrives, SessionInv, TypeOK
  <2>2. /\ ui' \in Ui /\ ui'.page = "invite" /\ ui'.sure = ui.sure /\ ui'.fired = ui.fired
        /\ ui'.err # "none"
    <3>1. PICK e \in {"mismatch", "other"} : ui' = [ui EXCEPT !.err = e]
      BY <2>1
    <3> QED
      BY <1>1, <3>1 DEF Ui, At
  <2>3. /\ req' \in [Kinds -> Request] /\ req'["accept"] = NoReq
        /\ \A k \in Kinds \ {"accept"} : req'[k] = req[k]
    BY <1>1, <2>1, DropFacts DEF Kinds
  <2>4. \A k \in Kinds : ClientReq(k)
    BY <2>3 DEF ClientReq
  <2>5. Granted = {}
    <3>1. ~Joining
      BY <1>1, <1>4 DEF Joining, Ok
    <3> QED
      BY <1>2, <3>1, GrantedNone
  <2>6. Asking' /\ AnswersAreTrue' /\ CacheIsTrue'
    BY <1>3, <2>1, <2>4, <2>5, ClientStep DEF Noted
  <2>7. \A k \in Kinds \ {"use", "orgs", "preview", "logout"} : Idle(k)'
    BY <1>1, <2>3, RequestFields DEF Idle
  <2>8. Places'
    BY <1>1, <1>3, <2>2, <2>7 DEF Places, At, Kinds
  <2>9. TypeOK'
    <3>1. followed' \in BOOLEAN
      BY DEF AcceptArrives
    <3> QED
      BY <1>1, <1>3, <2>1, <2>2, <2>3, <3>1 DEF TypeOK, serverVars
  <2>10. Kept'
    BY <1>1, <1>3, <2>2, <2>7 DEF Kept, At, Kinds
  <2>11. Mine'
    BY <1>3, <2>1, MineKept DEF SessionInv
  <2> QED
    BY <2>6, <2>8, <2>9, <2>10, <2>11 DEF SessionInv
<1>5. CASE req["accept"].ans = "ok"
  <2>1. /\ active' = InviteOrg /\ Joined(Drop("accept")) /\ followed' = FALSE /\ unchosen' = FALSE
        /\ unlisted' = Missed
    BY <1>5 DEF AcceptArrives
  <2>2. Mine'
    <3>1. Ok("accept") /\ Truthful("accept")
      BY <1>5 DEF SessionInv, AnswersAreTrue, Kinds, AcceptArrives, Ok
    <3>2. req["accept"].who = Invitee /\ InviteOrg \in member[Invitee] \cup lost
      BY <3>1 DEF Truthful
    <3>3. cookie \in {req["accept"].who, None}
      BY <1>1 DEF SessionInv, Asking, SameVisitor
    <3> QED
      BY <1>3, <2>1, <3>2, <3>3 DEF Mine, serverVars
  <2>3. unlisted \subseteq unlisted' /\ unlisted' \subseteq Orgs /\ active' \in Orgs /\ Granted \subseteq {InviteOrg}
    BY <1>1, <1>2, <2>1, SessionAssumption DEF TypeOK, Missed, Granted
  <2>4. CASE orgs = None
    <3>1. Go("app", TRUE, Drop("accept"))
      BY <2>1, <2>4 DEF Joined
    <3>2. Granted \subseteq unlisted' \/ (orgs = None /\ Idle("orgs"))
      BY <2>1, <2>3, <2>4 DEF Missed
    <3>3. /\ Places' /\ Asking' /\ AnswersAreTrue' /\ CacheIsTrue'
          /\ req' \in [Kinds -> Request] /\ ui' \in Ui /\ Idle("refetch")'
      <4>1. "app" \in Pages /\ "accept" \in Kinds /\ TRUE \in BOOLEAN /\ auth' = TRUE
        BY <1>1, <1>3 DEF Pages, Kinds
      <4>2. \A k \in {"login", "enter", "join", "register", "create", "check", "accept", "leave", "refetch"} :
              k = "accept" \/ Idle(k)
        BY <1>1 DEF Kinds
      <4> QED
        BY <1>3, <2>3, <3>1, <3>2, <4>1, <4>2, GoStep
    <3>4. TypeOK'
      BY <1>1, <1>3, <2>1, <2>3, <3>3 DEF TypeOK, serverVars
    <3>5. Kept'
      BY <2>1 DEF Kept
    <3> QED
      BY <2>2, <3>3, <3>4, <3>5 DEF SessionInv
  <2>5. CASE orgs # None
    <3>1. /\ ui' = ui /\ req' \in [Kinds -> Request]
          /\ req'["accept"] = NoReq /\ req'["orgs"] = NoReq /\ req'["refetch"] = Asked("refetch", cookie)
          /\ \A k \in Kinds \ {"accept", "orgs", "refetch"} : req'[k] = req[k]
      BY <1>1, <2>1, <2>5, JoinedFacts
    <3>2. \A k \in Kinds : ClientReq(k)
      BY <3>1 DEF ClientReq
    <3>3. /\ \A k \in Kinds \ {"use", "preview", "logout", "refetch"} : Idle(k)'
      BY <1>1, <3>1, RequestFields DEF Idle
    <3>4. Granted \subseteq Granted'
      <4>1. Joining'
        BY <1>1, <1>3, <3>1, <3>3 DEF Joining, At, Kinds
      <4> QED
        BY <2>3, <4>1, SessionAssumption DEF Granted
    <3>5. Asking' /\ AnswersAreTrue' /\ CacheIsTrue'
      BY <1>3, <2>3, <3>2, <3>4, ClientStep DEF Noted
    <3>6. Places'
      BY <1>1, <1>3, <3>1, <3>3 DEF Places, At, Kinds
    <3>7. TypeOK'
      BY <1>1, <1>3, <2>1, <2>3, <3>1 DEF TypeOK, serverVars
    <3>8. Kept'
      BY <2>1 DEF Kept
    <3> QED
      BY <2>2, <3>5, <3>6, <3>7, <3>8 DEF SessionInv
  <2> QED
    BY <2>4, <2>5
<1> QED
  BY <1>4, <1>5

LEMMA JoinArrivesStep ==
  ASSUME SessionInv, JoinArrives, UNCHANGED acts
  PROVE  SessionInv'
<1>1. /\ TypeOK /\ At("register") /\ Granted = {}
      /\ \A k \in Kinds \ {"use", "orgs", "preview", "logout", "join"} : Idle(k)
  <2>1. At("register") /\ ~Idle("join") /\ TypeOK
    BY DEF SessionInv, Places, JoinArrives, Back, Idle
  <2>2. \A k \in Kinds \ {"use", "orgs", "preview", "logout", "join"} : Idle(k)
    BY <2>1 DEF SessionInv, Places, At, Guarded, Kinds
  <2>3. ~Joining /\ ~Ok("create")
    BY <2>1, <2>2 DEF Joining, At, Ok, Back, Idle, Kinds
  <2> QED
    BY <2>1, <2>2, <2>3, GrantedNone
<1>2. CASE req["join"].ans # "ok"
  BY <1>2, DropStep DEF JoinArrives, Kinds, storeVars, history
<1>3. CASE req["join"].ans = "ok"
  <2>1. /\ pending' = FALSE /\ auth' = TRUE /\ active' = InviteOrg /\ followed' = FALSE
        /\ unchosen' = FALSE /\ unlisted' = Missed /\ Joined(Drop("join"))
        /\ UNCHANGED <<serverVars, orgs, checked, lister, lost, events>>
    BY <1>3 DEF JoinArrives
  <2>2. Mine'
    <3>1. Ok("join") /\ Truthful("join")
      BY <1>3 DEF SessionInv, AnswersAreTrue, Kinds, JoinArrives, Ok
    <3>2. cookie \in {Invitee, None} /\ InviteOrg \in member[Invitee] \cup lost
      BY <3>1 DEF Truthful
    <3> QED
      BY <2>1, <3>2 DEF Mine, serverVars
  <2>3. unlisted \subseteq unlisted' /\ unlisted' \subseteq Orgs /\ active' \in Orgs
    BY <1>1, <2>1, SessionAssumption DEF TypeOK, Missed
  <2>4. CASE orgs = None
    <3>1. Go("app", TRUE, Drop("join"))
      BY <2>1, <2>4 DEF Joined
    <3>2. /\ Places' /\ Asking' /\ AnswersAreTrue' /\ CacheIsTrue'
          /\ req' \in [Kinds -> Request] /\ ui' \in Ui /\ Idle("refetch")'
      <4>1. "app" \in Pages /\ "join" \in Kinds /\ TRUE \in BOOLEAN
        BY DEF Pages, Kinds
      <4>2. \A k \in {"login", "enter", "join", "register", "create", "check", "accept", "leave", "refetch"} :
              k = "join" \/ Idle(k)
        BY <1>1 DEF Kinds
      <4> QED
        BY <1>1, <2>1, <2>3, <3>1, <4>1, <4>2, GoStep
    <3>3. TypeOK'
      BY <1>1, <2>1, <2>3, <3>2 DEF TypeOK, serverVars
    <3>4. Kept'
      BY <2>1 DEF Kept
    <3> QED
      BY <2>2, <3>2, <3>3, <3>4 DEF SessionInv
  <2>5. CASE orgs # None
    <3>1. /\ ui' = ui /\ req' \in [Kinds -> Request]
          /\ req'["join"] = NoReq /\ req'["orgs"] = NoReq /\ req'["refetch"] = Asked("refetch", cookie)
          /\ \A k \in Kinds \ {"join", "orgs", "refetch"} : req'[k] = req[k]
      BY <1>1, <2>1, <2>5, JoinedFacts
    <3>2. \A k \in Kinds : ClientReq(k)
      BY <3>1 DEF ClientReq
    <3>3. /\ \A k \in Kinds \ {"use", "preview", "logout", "refetch"} : Idle(k)'
      BY <1>1, <3>1, RequestFields DEF Idle
    <3>4. Asking' /\ AnswersAreTrue' /\ CacheIsTrue'
      BY <1>1, <2>1, <2>3, <3>2, ClientStep DEF Noted
    <3>5. Places'
      BY <1>1, <2>1, <3>1, <3>3 DEF Places, At, Kinds
    <3>6. TypeOK'
      BY <1>1, <2>1, <2>3, <3>1 DEF TypeOK, serverVars
    <3>7. Kept'
      BY <2>1 DEF Kept
    <3> QED
      BY <2>2, <3>4, <3>5, <3>6, <3>7 DEF SessionInv
  <2> QED
    BY <2>4, <2>5
<1> QED
  BY <1>2, <1>3

\* A list that has arrived holds what its user has, as it was answered.
LEMMA ListIsTrue ==
  ASSUME SessionInv, NEW k \in {"orgs", "refetch"}, Ok(k)
  PROVE  /\ req[k].who \in accounts /\ req[k].who \in Users /\ req[k].list \subseteq Orgs
         /\ Own(req[k].list, req[k].who)
         /\ k = "orgs" => Full(req[k].list \cup Granted, req[k].who)
         /\ k = "refetch" => Full(req[k].list, req[k].who)
<1>1. k \in Kinds /\ k \in Lists
  BY DEF Kinds, Lists
<1>2. req[k] \in Request /\ accounts \subseteq Users
  BY <1>1 DEF SessionInv, TypeOK
<1>3. Truthful(k)
  BY <1>1 DEF SessionInv, AnswersAreTrue
<1> QED
  BY <1>1, <1>2, <1>3 DEF Truthful, Request

LEMMA OrgsArrivesStep ==
  ASSUME SessionInv, OrgsArrives, UNCHANGED acts
  PROVE  SessionInv'
<1>1. CASE req["orgs"].ans # "ok"
  BY <1>1, DropStep DEF OrgsArrives, Cached, Kinds, history
<1>2. CASE req["orgs"].ans = "ok"
  <2>1. /\ TypeOK /\ Ok("orgs")
        /\ req' = Drop("orgs") /\ orgs' = req["orgs"].list /\ lister' = req["orgs"].who
        /\ UNCHANGED <<serverVars, storeVars, ui, checked, followed, unchosen, unlisted, lost, events>>
    BY <1>2 DEF OrgsArrives, Cached, Ok, SessionInv
  <2>2. /\ req' \in [Kinds -> Request] /\ req'["orgs"] = NoReq
        /\ \A k \in Kinds \ {"orgs"} : req'[k] = req[k]
    BY <2>1, DropFacts DEF Kinds
  <2>3. \A k \in Kinds : ClientReq(k)
    BY <2>2 DEF ClientReq
  <2>4. Granted' = Granted
    BY <2>1, <2>2, GrantedSame DEF Kinds, storeVars
  <2>5. Asking' /\ AnswersAreTrue'
    BY <2>1, <2>3, <2>4, RequestStep
  <2>6. CacheIsTrue'
    <3>1. lister' \in accounts /\ Own(orgs', lister') /\ Full(orgs' \cup Granted, lister')
      BY <2>1, ListIsTrue
    <3> QED
      BY <2>1, <2>4, <3>1 DEF CacheIsTrue, Own, Full, serverVars
  <2>7. \A k \in Kinds : ~Idle(k)' => ~Idle(k)
    BY <2>2, RequestFields DEF Idle
  <2>8. Places'
    BY <2>1, <2>7 DEF SessionInv, Places, At, storeVars, Kinds
  <2>9. Kept'
    BY <2>1, <2>7 DEF SessionInv, Kept, At, storeVars, Kinds
  <2>10. TypeOK'
    BY <2>1, <2>2, ListIsTrue DEF TypeOK, serverVars, storeVars
  <2>11. Mine'
    BY <2>1, MineKept DEF SessionInv, storeVars
  <2> QED
    BY <2>5, <2>6, <2>8, <2>9, <2>10, <2>11 DEF SessionInv
<1> QED
  BY <1>1, <1>2

LEMMA RefetchArrivesStep ==
  ASSUME SessionInv, RefetchArrives, UNCHANGED acts
  PROVE  SessionInv'
<1>1. /\ TypeOK /\ req' = Drop("refetch") /\ ui' = Fresh("app")
      /\ UNCHANGED <<serverVars, storeVars, checked, followed, unchosen, lost, events>>
  BY DEF RefetchArrives, Cached, SessionInv
<1>2. /\ req' \in [Kinds -> Request] /\ req'["refetch"] = NoReq
      /\ \A k \in Kinds \ {"refetch"} : req'[k] = req[k]
  BY <1>1, DropFacts DEF Kinds
<1>3. /\ (At("invite") /\ auth) \/ At("register")
      /\ \A k \in Kinds \ {"use", "preview", "logout", "refetch"} : Idle(k)
      /\ followed => pending
  <2>1. /\ (At("invite") /\ auth /\ ui.err = "none") \/ At("register")
        /\ \A k \in {"accept", "orgs", "join", "register"} : Idle(k)
        /\ followed => pending
    BY DEF SessionInv, Places, Kept, RefetchArrives, Back, Idle
  <2>2. \A k \in Kinds \ {"use", "preview", "logout", "refetch"} : Idle(k)
    BY <2>1 DEF SessionInv, Places, At, Guarded, Kinds
  <2> QED
    BY <2>1, <2>2
<1>4. \A k \in Kinds : ClientReq(k)
  BY <1>2 DEF ClientReq
<1>5. \A k \in Kinds \ {"use", "preview", "logout"} : Idle(k)'
  BY <1>2, <1>3, RequestFields DEF Idle
<1>6. unlisted \subseteq unlisted' /\ unlisted' \subseteq Orgs
  BY <1>1, SessionAssumption DEF RefetchArrives, TypeOK
<1>7. Asking' /\ AnswersAreTrue'
  <2>1. ~Ok("orgs")'
    BY <1>5 DEF Ok, Back, Idle, Kinds
  <2> QED
    BY <1>1, <1>4, <1>6, <2>1, RequestStep
<1>8. CacheIsTrue' /\ orgs' \in (SUBSET Orgs) \cup {None} /\ lister' \in Users \cup {None}
  <2>1. CASE req["refetch"].ans = "ok"
    <3>1. Ok("refetch") /\ orgs' = req["refetch"].list /\ lister' = req["refetch"].who
      BY <2>1 DEF RefetchArrives, Cached, Ok
    <3>2. /\ lister' \in accounts /\ lister' \in Users /\ orgs' \subseteq Orgs
          /\ Own(orgs', lister') /\ Full(orgs', lister')
      BY <3>1, ListIsTrue
    <3> QED
      BY <1>1, <1>6, <3>2 DEF CacheIsTrue, Own, Full, serverVars
  <2>2. CASE req["refetch"].ans # "ok"
    <3>1. orgs' = orgs /\ lister' = lister /\ unlisted' = unlisted \cup {InviteOrg}
      BY <2>2 DEF RefetchArrives, Cached
    <3>2. Granted \subseteq {InviteOrg}
      BY <1>3 DEF Granted, Ok, Back, Idle, Kinds
    <3>3. Noted
      BY <3>1, <3>2 DEF Noted
    <3>4. CacheIsTrue'
      BY <1>1, <1>4, <1>6, <3>1, <3>3, ClientStep
    <3> QED
      BY <1>1, <3>1, <3>4 DEF TypeOK
  <2> QED
    BY <2>1, <2>2
<1>9. Places'
  BY <1>1, <1>5 DEF Places, At, Fresh, Kinds
<1>10. Kept'
  BY <1>1, <1>3 DEF Kept, storeVars
<1>11. TypeOK'
  <2>1. Fresh("app") \in Ui
    BY DEF Fresh, Ui, Pages
  <2> QED
    BY <1>1, <1>2, <1>6, <1>8, <2>1 DEF TypeOK, serverVars, storeVars
<1>12. Mine'
  BY <1>1, MineKept DEF SessionInv, storeVars
<1> QED
  BY <1>7, <1>8, <1>9, <1>10, <1>11, <1>12 DEF SessionInv

LEMMA ArriveStep ==
  ASSUME SessionInv, NEW k \in Kinds, Arrive(k), UNCHANGED acts
  PROVE  SessionInv'
BY SettlesStep, UnauthorizedStep, HardLogoutStep, LoginArrivesStep, EnterArrivesStep, CheckStep,
   ProbeStep, AcceptArrivesStep, RefetchArrivesStep, LeaveArrivesStep, PreviewStep,
   JoinArrivesStep, RegisterArrivesStep, CreateArrivesStep, OrgsArrivesStep DEF Arrive

----------------------------------------------------------------------------
(* What processing does *)

\* Request k was answered with a.
Replied(k, a) ==
  /\ req[k].st = "sent" /\ req' \in [Kinds -> Request]
  /\ req'[k].st = "back" /\ req'[k].ans = a /\ req'[k].who = req[k].who
  /\ \A j \in Kinds \ {k} : req'[j] = req[j]

LEMMA ServedPlaces ==
  ASSUME SessionInv, NEW k \in Kinds, NEW a, Replied(k, a), UNCHANGED <<ui, auth, pending, followed>>
  PROVE  Places' /\ Kept' /\ Granted \subseteq Granted'
<1>1. \A j \in Kinds : Idle(j)' <=> Idle(j)
  BY DEF Replied, Idle
<1>2. Places'
  BY <1>1 DEF SessionInv, Places, At, Kinds
<1>3. Kept'
  BY <1>1 DEF SessionInv, Kept, At, Kinds
<1>4. Joining => Joining'
  BY DEF Joining, At, Replied, Idle, Ok, Back, Kinds
<1>5. Ok("create") => req'["create"] = req["create"]
  BY DEF Ok, Back, Replied, Kinds
<1> QED
  BY <1>2, <1>3, <1>4, <1>5 DEF Granted, Ok, Back

\* Members of accounts keep what they have or it is lost; what they are given is granted.
LEMMA ServerStep ==
  ASSUME SessionInv, NEW K \in SUBSET Kinds,
         \A j \in Kinds \ K : req'[j] = req[j],
         \A j \in K : req'[j].who = req[j].who /\ ~Idle(j) /\ Truthful(j)',
         UNCHANGED <<orgs, lister, unlisted>>, lost \subseteq lost', accounts \subseteq accounts',
         cookie' \in accounts' \cup {None},
         \A u \in accounts : member[u] \subseteq member'[u] \cup lost',
         \A u \in accounts : member'[u] \subseteq member[u] \cup Granted',
         Granted \subseteq Granted',
         ~Idle("refetch") => \A u \in accounts : member'[u] \subseteq member[u],
         \/ cookie' \in {cookie, None}
         \/ /\ \A j \in {"enter", "accept", "create"} : Idle(j)
            /\ Idle("join") \/ "join" \in K
  PROVE  Asking' /\ AnswersAreTrue' /\ CacheIsTrue'
<1>1. \A k \in Kinds \ {"login", "register", "join"} : req[k].who \in accounts \cup {None}
  BY DEF SessionInv, Asking, HaveAccounts
<1>2. HaveAccounts'
  <2>1. \A k \in Kinds : req'[k].who = req[k].who
    OBVIOUS
  <2>2. ~Idle("register")' => ~Idle("register") /\ "register" \in Kinds
    BY DEF Idle, Kinds
  <2>3. ~Idle("register")' => req'["register"].who \in Users
    BY <2>1, <2>2 DEF SessionInv, Asking, HaveAccounts
  <2> QED
    BY <1>1, <2>1, <2>3 DEF HaveAccounts
<1>3. SameVisitor'
  <2> SUFFICES ASSUME NEW k \in {"enter", "accept", "create"}, ~Idle(k)'
               PROVE  cookie' \in {req'[k].who, None}
    BY DEF SameVisitor
  <2>1. k \in Kinds
    BY DEF Kinds
  <2>2. req'[k].who = req[k].who
    BY <2>1
  <2>3. ~Idle(k)
    BY <2>1 DEF Idle
  <2>4. cookie \in {req[k].who, None}
    BY <2>3 DEF SessionInv, Asking, SameVisitor
  <2> QED
    BY <2>2, <2>3, <2>4
<1>4. ASSUME NEW l, NEW u \in accounts
      PROVE  /\ Own(l, u) => Own(l, u)'
             /\ Full(l \cup Granted, u) => Full(l \cup Granted, u)'
  BY DEF Own, Full
<1>5. AnswersAreTrue'
  <2> SUFFICES ASSUME NEW k \in Kinds \ K, Ok(k)'
               PROVE  Truthful(k)'
    BY DEF AnswersAreTrue, Truthful
  <2>1. req'[k] = req[k] /\ Ok(k) /\ Truthful(k) /\ ~Idle(k)
    BY DEF SessionInv, AnswersAreTrue, Ok, Back, Idle
  <2> DEFINE l == req[k].list
             u == req[k].who
  <2>2. k \in Lists => u \in accounts /\ Own(l, u)
    BY <2>1 DEF Truthful
  <2>3. k \in Lists => u \in accounts' /\ (l \subseteq member'[u] \cup lost')
    BY <2>2 DEF Own
  <2>4. k = "accept" => u = Invitee /\ InviteOrg \in member'[Invitee] \cup lost'
    <3> SUFFICES ASSUME k = "accept"
                 PROVE  u = Invitee /\ InviteOrg \in member'[Invitee] \cup lost'
      OBVIOUS
    <3>1. u = Invitee /\ InviteOrg \in member[Invitee] \cup lost
      BY <2>1 DEF Truthful
    <3>2. Invitee \in accounts
      BY <1>1, <3>1, SessionAssumption
    <3> QED
      BY <3>1, <3>2
  <2>5. k = "join" => /\ cookie' \in {Invitee, None} /\ Invitee \in accounts'
                      /\ InviteOrg \in member'[Invitee] \cup lost'
    <3> SUFFICES ASSUME k = "join"
                 PROVE  /\ cookie' \in {Invitee, None} /\ Invitee \in accounts'
                        /\ InviteOrg \in member'[Invitee] \cup lost'
      OBVIOUS
    <3>1. /\ cookie \in {Invitee, None} /\ Invitee \in accounts
          /\ InviteOrg \in member[Invitee] \cup lost
      BY <2>1 DEF Truthful
    <3>2. cookie' \in {cookie, None}
      BY <2>1
    <3> QED
      BY <3>1, <3>2
  <2>6. k = "refetch" => member'[u] \subseteq l \cup unlisted' \cup lost'
    <3> SUFFICES ASSUME k = "refetch"
                 PROVE  member'[u] \subseteq l \cup unlisted' \cup lost'
      OBVIOUS
    <3>1. Full(l, u) /\ u \in accounts
      BY <2>1, <2>2 DEF Truthful, Lists
    <3>2. member'[u] \subseteq member[u]
      BY <2>1, <3>1
    <3> QED
      BY <3>1, <3>2 DEF Full
  <2>7. k = "orgs" => member'[u] \subseteq (l \cup Granted') \cup unlisted' \cup lost'
    <3> SUFFICES ASSUME k = "orgs"
                 PROVE  member'[u] \subseteq (l \cup Granted') \cup unlisted' \cup lost'
      OBVIOUS
    <3>1. Full(l \cup Granted, u) /\ u \in accounts
      BY <2>1, <2>2 DEF Truthful, Lists
    <3>2. member'[u] \subseteq member[u] \cup Granted'
      BY <3>1
    <3> QED
      BY <3>1, <3>2 DEF Full
  <2> QED
    BY <2>1, <2>3, <2>4, <2>5, <2>6, <2>7 DEF Truthful, Own, Full
<1>6. CacheIsTrue'
  <2> SUFFICES ASSUME orgs # None
               PROVE  lister \in accounts' /\ Own(orgs, lister)' /\ Full(orgs \cup Granted, lister)'
    BY DEF CacheIsTrue
  <2>1. lister \in accounts /\ Own(orgs, lister) /\ Full(orgs \cup Granted, lister)
    BY DEF SessionInv, CacheIsTrue
  <2>2. member'[lister] \subseteq member[lister] \cup Granted' /\ member[lister] \subseteq member'[lister] \cup lost'
    BY <2>1
  <2> QED
    BY <2>1, <2>2 DEF Own, Full
<1> QED
  BY <1>2, <1>3, <1>5, <1>6 DEF Asking

LEMMA MineServed ==
  ASSUME SessionInv, UNCHANGED active, unchosen' = (unchosen \/ cookie' \notin {cookie, None}),
         lost \subseteq lost', \A u \in accounts : member[u] \subseteq member'[u] \cup lost'
  PROVE  Mine'
<1> SUFFICES ASSUME cookie' # None, ~unchosen', active' # None
             PROVE  active' \in member'[cookie'] \cup lost'
  BY DEF Mine
<1>1. cookie' = cookie /\ ~unchosen /\ active' = active
  OBVIOUS
<1>2. active \in member[cookie] \cup lost /\ cookie \in accounts
  BY <1>1 DEF SessionInv, Mine, Asking, HaveAccounts
<1> QED
  BY <1>1, <1>2

LEMMA AnsweredStep ==
  ASSUME SessionInv, NEW k \in Kinds, NEW a, Replied(k, a), Truthful(k)', events' \in 0 .. MaxEvents,
         unchosen' = (unchosen \/ cookie' \notin {cookie, None}),
         UNCHANGED <<storeVars, ui, orgs, checked, followed, lister, unlisted, lost, acts>>,
         accounts \subseteq accounts', accounts' \subseteq Users, cookie' \in accounts' \cup {None},
         member' \in [Users -> SUBSET Orgs], invite' \in {"open", "used", "dead"},
         \A u \in accounts : member[u] \subseteq member'[u],
         \A u \in accounts : member'[u] \subseteq member[u] \cup Granted',
         ~Idle("refetch") => \A u \in accounts : member'[u] \subseteq member[u],
         \/ cookie' \in {cookie, None}
         \/ /\ \A j \in {"enter", "accept", "create"} : Idle(j)
            /\ Idle("join") \/ k = "join"
  PROVE  SessionInv'
<1>1. Places' /\ Kept' /\ Granted \subseteq Granted'
  BY ServedPlaces DEF storeVars
<1>2. Asking' /\ AnswersAreTrue' /\ CacheIsTrue'
  <2>1. {k} \in SUBSET Kinds /\ \A j \in Kinds \ {k} : req'[j] = req[j]
    BY DEF Replied
  <2>2. \A j \in {k} : req'[j].who = req[j].who /\ ~Idle(j) /\ Truthful(j)'
    BY DEF Replied, Idle
  <2>3. \A u \in accounts : member[u] \subseteq member'[u] \cup lost'
    OBVIOUS
  <2>4. lost \subseteq lost' /\ UNCHANGED <<orgs, lister, unlisted>>
    OBVIOUS
  <2>5. \/ cookie' \in {cookie, None}
        \/ /\ \A j \in {"enter", "accept", "create"} : Idle(j)
           /\ Idle("join") \/ "join" \in {k}
    OBVIOUS
  <2> QED
    BY <1>1, <2>1, <2>2, <2>3, <2>4, <2>5, ServerStep
<1>3. TypeOK'
  <2>1. /\ cookie' \in Users \cup {None} /\ req' \in [Kinds -> Request] /\ unchosen' \in BOOLEAN
    BY DEF SessionInv, TypeOK, Replied
  <2> QED
    BY <2>1 DEF SessionInv, TypeOK, storeVars
<1>4. Mine'
  BY MineServed DEF storeVars
<1> QED
  BY <1>1, <1>2, <1>3, <1>4 DEF SessionInv

\* An answer that leaves accounts, memberships, the invite and the cookie alone, or
\* takes the cookie away.
LEMMA PlainAnswer ==
  ASSUME SessionInv, NEW k \in Kinds, NEW a, Replied(k, a), Truthful(k)', events' \in 0 .. MaxEvents,
         unchosen' = (unchosen \/ cookie' \notin {cookie, None}),
         UNCHANGED <<storeVars, ui, orgs, checked, followed, lister, unlisted, lost, acts>>,
         UNCHANGED <<accounts, member, invite>>, cookie' \in {cookie, None}
  PROVE  SessionInv'
<1>1. /\ accounts' \subseteq Users /\ cookie' \in accounts' \cup {None}
      /\ member' \in [Users -> SUBSET Orgs] /\ invite' \in {"open", "used", "dead"}
  BY DEF SessionInv, TypeOK, Asking, HaveAccounts
<1> QED
  BY <1>1, AnsweredStep

LEMMA FailsStep ==
  ASSUME SessionInv, NEW k \in Kinds, Fails(k), UNCHANGED acts
  PROVE  SessionInv'
<1>1. TypeOK /\ events' \in 0 .. MaxEvents
  BY SessionAssumption DEF SessionInv, TypeOK, Fails
<1>2. Replied(k, "down")
  BY <1>1, ReplyFacts DEF Fails, Replied
<1>3. Truthful(k)'
  BY <1>2 DEF Truthful, Ok, Replied
<1>4. unchosen' = (unchosen \/ cookie' \notin {cookie, None})
  BY <1>1 DEF Fails, history, serverVars, TypeOK
<1> QED
  BY <1>1, <1>2, <1>3, <1>4, PlainAnswer DEF Fails, serverVars, history

\* What every step of processing leaves alone.
LEMMA ServeFrame ==
  ASSUME SessionInv, NEW k \in Kinds, Serve(k)
  PROVE  /\ TypeOK /\ events' \in 0 .. MaxEvents
         /\ unchosen' = (unchosen \/ cookie' \notin {cookie, None})
         /\ UNCHANGED <<storeVars, ui, orgs, checked, followed, lister, unlisted, lost>>
BY DEF SessionInv, TypeOK, Serve

LEMMA ReadStep ==
  ASSUME SessionInv, NEW k \in Kinds, Serve(k), ServeRead(k), UNCHANGED acts
  PROVE  SessionInv'
<1> DEFINE u == req[k].who
<1>1. TypeOK /\ u \in accounts \cup {None} /\ k \notin {"accept", "join", "create"}
  BY DEF SessionInv, Asking, HaveAccounts, ServeRead
<1>2. UNCHANGED serverVars
  BY DEF ServeRead
<1>3. CASE u = None
  <2>1. Replied(k, "401")
    BY <1>1, <1>3, ReplyFacts DEF ServeRead, Replied
  <2>2. Truthful(k)'
    BY <2>1 DEF Truthful, Ok, Replied
  <2> QED
    BY <1>2, <2>1, <2>2, ServeFrame, PlainAnswer DEF serverVars
<1>4. CASE u # None
  <2> DEFINE l == IF k \in {"enter", "orgs", "refetch"} THEN member[u] ELSE {}
  <2>1. l \in SUBSET Orgs /\ u \in accounts
    BY <1>1, <1>4 DEF TypeOK
  <2>2. Reply(k, "ok", l) /\ req[k].st = "sent"
    BY <1>4 DEF ServeRead
  <2> HIDE DEF l
  <2>3. Replied(k, "ok") /\ req'[k].list = l
    BY <1>1, <2>1, <2>2, ReplyFacts DEF Replied
  <2>4. Truthful(k)'
    <3>1. k \in Lists => l = member[u] /\ k \in {"enter", "orgs", "refetch"}
      BY <1>1 DEF Lists, l
    <3>2. k \in {"orgs", "refetch"} => k \in Lists
      BY DEF Lists
    <3>3. req'[k].who = u /\ u \in accounts'
      BY <1>2, <2>1, <2>3 DEF Replied, serverVars
    <3>4. k \in Lists => l \subseteq member'[u] \cup lost'
      BY <1>2, <3>1 DEF serverVars
    <3>5. k \in {"orgs", "refetch"} => l = member'[u]
      BY <1>2, <3>1, <3>2 DEF serverVars
    <3>6. k \in {"orgs", "refetch"} => member'[u] \subseteq l
      BY <3>5
    <3> HIDE DEF u
    <3>7. k \in Lists => req'[k].who \in accounts' /\ req'[k].list \subseteq member'[req'[k].who] \cup lost'
      BY <2>3, <3>3, <3>4
    <3>8. k \in {"orgs", "refetch"} => member'[req'[k].who] \subseteq req'[k].list
      BY <2>3, <3>3, <3>6
    <3> QED
      BY <1>1, <3>7, <3>8 DEF Truthful, Own, Full
  <2> QED
    BY <1>2, <2>3, <2>4, ServeFrame, PlainAnswer DEF serverVars
<1> QED
  BY <1>3, <1>4

LEMMA PreviewServedStep ==
  ASSUME SessionInv, Serve("preview"), ServePreview, UNCHANGED acts
  PROVE  SessionInv'
<1>1. TypeOK /\ "preview" \in Kinds
  BY DEF SessionInv, Kinds
<1>2. PICK a \in {"ok", "refused"} : Reply("preview", a, {})
  BY DEF ServePreview
<1>3. Replied("preview", a)
  BY <1>1, <1>2, ReplyFacts DEF ServePreview, Replied
<1>4. Truthful("preview")'
  BY DEF Truthful, Lists
<1> QED
  BY <1>1, <1>3, <1>4, ServeFrame, PlainAnswer DEF ServePreview, serverVars

LEMMA LogoutServedStep ==
  ASSUME SessionInv, NEW k \in Kinds, Serve(k), ServeLogout(k), UNCHANGED acts
  PROVE  SessionInv'
<1>1. Replied(k, "ok") /\ k \in {"logout", "leave"}
  BY ReplyFacts, ServeFrame DEF ServeLogout, Replied
<1>2. Truthful(k)'
  BY <1>1 DEF Truthful, Lists
<1> QED
  BY <1>1, <1>2, ServeFrame, PlainAnswer DEF ServeLogout

LEMMA LoginServedStep ==
  ASSUME SessionInv, Serve("login"), ServeLogin, UNCHANGED acts
  PROVE  SessionInv'
<1> DEFINE u == req["login"].who
<1>1. TypeOK /\ "login" \in Kinds /\ req["login"].st = "sent" /\ UNCHANGED <<accounts, member, invite>>
  BY DEF SessionInv, Kinds, ServeLogin
<1>2. Truthful("login")'
  BY DEF Truthful, Lists
<1>3. CASE u \in accounts /\ cookie' = u /\ Reply("login", "ok", {})
  <2>1. Replied("login", "ok")
    BY <1>1, <1>3, ReplyFacts DEF Replied
  <2>2. /\ \A j \in {"enter", "accept", "create"} : Idle(j)
        /\ Idle("join")
    BY <1>1 DEF SessionInv, Places, At, Idle
  <2>3. /\ accounts' \subseteq Users /\ cookie' \in accounts' \cup {None}
        /\ member' \in [Users -> SUBSET Orgs] /\ invite' \in {"open", "used", "dead"}
    BY <1>1, <1>3 DEF TypeOK
  <2> QED
    BY <1>1, <1>2, <2>1, <2>2, <2>3, ServeFrame, AnsweredStep
<1>4. CASE Reply("login", "401", {}) /\ UNCHANGED cookie
  <2>1. Replied("login", "401")
    BY <1>1, <1>4, ReplyFacts DEF Replied
  <2> QED
    BY <1>1, <1>2, <1>4, <2>1, ServeFrame, PlainAnswer
<1> QED
  BY <1>3, <1>4 DEF ServeLogin

LEMMA AcceptServedStep ==
  ASSUME SessionInv, Serve("accept"), ServeAccept, UNCHANGED acts
  PROVE  SessionInv'
<1> DEFINE u == req["accept"].who
           joins == u = Invitee /\ invite = "open" /\ InviteOrg \notin member[u]
<1>1. /\ TypeOK /\ "accept" \in Kinds /\ req["accept"].st = "sent" /\ UNCHANGED <<cookie, accounts>>
      /\ u \in accounts \cup {None} /\ None \notin Users
  BY SessionAssumption DEF SessionInv, Kinds, ServeAccept, Asking, HaveAccounts
<1>2. /\ At("invite") /\ auth /\ ui.err = "none" /\ Idle("refetch")
  <2>1. ~Idle("accept")
    BY <1>1 DEF Idle
  <2> QED
    BY <2>1 DEF SessionInv, Places
<1>3. CASE joins
  <2>1. /\ Reply("accept", "ok", {}) /\ member' = [member EXCEPT ![u] = @ \cup {InviteOrg}]
        /\ invite' = "used"
    BY <1>1, <1>3, SessionAssumption DEF ServeAccept
  <2>2. Replied("accept", "ok")
    BY <1>1, <2>1, ReplyFacts DEF Replied
  <2>3. u \in Users /\ u = Invitee
    BY <1>3, SessionAssumption
  <2>4. /\ member' \in [Users -> SUBSET Orgs] /\ member'[Invitee] = member[Invitee] \cup {InviteOrg}
        /\ \A v \in Users : v # Invitee => member'[v] = member[v]
    BY <1>1, <2>1, <2>3, SessionAssumption DEF TypeOK
  <2>5. InviteOrg \in Granted'
    <3>1. Joining'
      BY <1>2, <2>2, ServeFrame, <1>1 DEF Joining, At, Ok, Back, Replied, storeVars
    <3> QED
      BY <3>1, SessionAssumption DEF Granted
  <2>6. /\ \A v \in accounts : member[v] \subseteq member'[v]
        /\ \A v \in accounts : member'[v] \subseteq member[v] \cup Granted'
    BY <1>1, <2>4, <2>5 DEF TypeOK
  <2>7. Truthful("accept")'
    BY <2>2, <2>3, <2>4 DEF Truthful, Lists, Replied
  <2>8. /\ accounts' \subseteq Users /\ cookie' \in accounts' \cup {None} /\ accounts \subseteq accounts'
        /\ invite' \in {"open", "used", "dead"} /\ cookie' \in {cookie, None}
    BY <1>1, <2>1 DEF SessionInv, TypeOK, Asking, HaveAccounts
  <2> QED
    BY <1>1, <1>2, <2>2, <2>4, <2>6, <2>7, <2>8, ServeFrame, AnsweredStep
<1>4. CASE ~joins
  <2>1. UNCHANGED <<member, invite>>
    BY <1>4 DEF ServeAccept
  <2>2. PICK a \in {"401", "refused", "mismatch"} : Reply("accept", a, {})
    BY <1>4 DEF ServeAccept
  <2>3. Replied("accept", a)
    BY <1>1, <2>2, ReplyFacts DEF Replied
  <2>4. Truthful("accept")'
    BY <2>3 DEF Truthful, Ok, Replied
  <2> QED
    BY <1>1, <2>1, <2>3, <2>4, ServeFrame, PlainAnswer
<1> QED
  BY <1>3, <1>4

LEMMA JoinServedStep ==
  ASSUME SessionInv, Serve("join"), ServeJoin, UNCHANGED acts
  PROVE  SessionInv'
<1> DEFINE joins == invite = "open" /\ Invitee \notin accounts
<1>1. TypeOK /\ "join" \in Kinds /\ req["join"].st = "sent"
  BY DEF SessionInv, Kinds, ServeJoin
<1>2. CASE joins
  <2>1. /\ Reply("join", "ok", {}) /\ accounts' = accounts \cup {Invitee} /\ invite' = "used"
        /\ member' = [member EXCEPT ![Invitee] = {InviteOrg}] /\ cookie' = Invitee
    BY <1>2 DEF ServeJoin
  <2>2. Replied("join", "ok")
    BY <1>1, <2>1, ReplyFacts DEF Replied
  <2>3. /\ member' \in [Users -> SUBSET Orgs] /\ member'[Invitee] = {InviteOrg}
        /\ \A v \in accounts : member'[v] = member[v]
    BY <1>1, <1>2, <2>1, SessionAssumption DEF TypeOK
  <2>4. \A j \in {"enter", "accept", "create"} : Idle(j)
    BY <1>1 DEF SessionInv, Places, At, Idle
  <2>5. Truthful("join")'
    BY <2>1, <2>3 DEF Truthful, Lists
  <2>6. /\ accounts' \subseteq Users /\ cookie' \in accounts' \cup {None} /\ accounts \subseteq accounts'
        /\ invite' \in {"open", "used", "dead"}
    BY <1>1, <2>1, SessionAssumption DEF TypeOK
  <2> QED
    BY <1>1, <2>2, <2>3, <2>4, <2>5, <2>6, ServeFrame, AnsweredStep
<1>3. CASE ~joins
  <2>1. Reply("join", "refused", {}) /\ UNCHANGED <<accounts, member, invite, cookie>>
    BY <1>3 DEF ServeJoin
  <2>2. Replied("join", "refused")
    BY <1>1, <2>1, ReplyFacts DEF Replied
  <2>3. Truthful("join")'
    BY <2>2 DEF Truthful, Ok, Replied
  <2> QED
    BY <1>1, <2>1, <2>2, <2>3, ServeFrame, PlainAnswer
<1> QED
  BY <1>2, <1>3

LEMMA RegisterServedStep ==
  ASSUME SessionInv, Serve("register"), ServeRegister, UNCHANGED acts
  PROVE  SessionInv'
<1> DEFINE u == req["register"].who
<1>1. TypeOK /\ "register" \in Kinds /\ req["register"].st = "sent" /\ UNCHANGED <<cookie, invite>>
  BY DEF SessionInv, Kinds, ServeRegister
<1>2. Truthful("register")'
  BY DEF Truthful, Lists
<1>3. CASE Reply("register", "refused", {}) /\ UNCHANGED <<accounts, member>>
  <2>1. Replied("register", "refused")
    BY <1>1, <1>3, ReplyFacts DEF Replied
  <2> QED
    BY <1>1, <1>2, <1>3, <2>1, ServeFrame, PlainAnswer
<1>4. ASSUME NEW o \in Unused, u \notin accounts, member' = [member EXCEPT ![u] = {o}],
             accounts' = accounts \cup {u}, Reply("register", "ok", {})
      PROVE  SessionInv'
  <2>1. Replied("register", "ok")
    BY <1>1, <1>4, ReplyFacts DEF Replied
  <2>2. u \in Users
    BY <1>1 DEF SessionInv, Asking, HaveAccounts, Idle
  <2>3. o \in Orgs
    BY <1>4 DEF Unused
  <2>4. /\ member' \in [Users -> SUBSET Orgs]
        /\ \A v \in accounts : member'[v] = member[v]
    BY <1>1, <1>4, <2>3 DEF TypeOK
  <2>5. /\ accounts' \subseteq Users /\ cookie' \in accounts' \cup {None} /\ accounts \subseteq accounts'
        /\ invite' \in {"open", "used", "dead"} /\ cookie' \in {cookie, None}
    BY <1>1, <1>4, <2>2 DEF SessionInv, TypeOK, Asking, HaveAccounts
  <2> QED
    BY <1>1, <1>2, <2>1, <2>4, <2>5, ServeFrame, AnsweredStep
<1> QED
  BY <1>3, <1>4 DEF ServeRegister

LEMMA CreateServedStep ==
  ASSUME SessionInv, Serve("create"), ServeCreate, UNCHANGED acts
  PROVE  SessionInv'
<1> DEFINE u == req["create"].who
<1>1. /\ TypeOK /\ "create" \in Kinds /\ req["create"].st = "sent" /\ UNCHANGED <<cookie, accounts, invite>>
      /\ u \in accounts \cup {None} /\ Idle("refetch")
  <2>1. "create" \in Kinds /\ req["create"].st = "sent"
    BY DEF Kinds, ServeCreate
  <2>2. At("create")
    BY <2>1 DEF SessionInv, Places, Idle
  <2>3. Idle("refetch")
    BY <2>2 DEF SessionInv, Places, At
  <2> QED
    BY <2>1, <2>3 DEF SessionInv, ServeCreate, Asking, HaveAccounts
<1>2. ASSUME NEW a \in {"401", "refused"}, Reply("create", a, {}), UNCHANGED member
      PROVE  SessionInv'
  <2>1. Replied("create", a)
    BY <1>1, <1>2, ReplyFacts DEF Replied
  <2>2. Truthful("create")'
    BY <2>1 DEF Truthful, Ok, Replied
  <2> QED
    BY <1>1, <1>2, <2>1, <2>2, ServeFrame, PlainAnswer
<1>3. ASSUME NEW o \in Unused, u # None, member' = [member EXCEPT ![u] = @ \cup {o}],
             Reply("create", "ok", {o})
      PROVE  SessionInv'
  <2>1. o \in Orgs /\ u \in accounts /\ u \in Users
    BY <1>1, <1>3 DEF Unused, TypeOK
  <2>2. Replied("create", "ok") /\ req'["create"].list = {o}
    BY <1>1, <1>3, <2>1, ReplyFacts DEF Replied
  <2>3. /\ member' \in [Users -> SUBSET Orgs] /\ member'[u] = member[u] \cup {o}
        /\ \A v \in Users : v # u => member'[v] = member[v]
    BY <1>1, <1>3, <2>1 DEF TypeOK
  <2>4. o \in Granted'
    BY <2>1, <2>2 DEF Granted, Ok, Back, Replied
  <2>5. /\ \A v \in accounts : member[v] \subseteq member'[v]
        /\ \A v \in accounts : member'[v] \subseteq member[v] \cup Granted'
    BY <1>1, <2>3, <2>4 DEF TypeOK
  <2>6. Truthful("create")'
    BY <1>1, <2>1, <2>2, <2>3 DEF Truthful, Replied, Own
  <2>7. /\ accounts' \subseteq Users /\ cookie' \in accounts' \cup {None} /\ accounts \subseteq accounts'
        /\ invite' \in {"open", "used", "dead"} /\ cookie' \in {cookie, None}
    BY <1>1 DEF SessionInv, TypeOK, Asking, HaveAccounts
  <2> QED
    BY <1>1, <2>2, <2>3, <2>5, <2>6, <2>7, ServeFrame, AnsweredStep
<1> QED
  BY <1>2, <1>3 DEF ServeCreate

LEMMA ServeStep ==
  ASSUME SessionInv, NEW k \in Kinds, Serve(k), UNCHANGED acts
  PROVE  SessionInv'
<1>1. CASE ServeRead(k)
  BY <1>1, ReadStep
<1>2. CASE ServeLogout(k)
  BY <1>2, LogoutServedStep
<1>3. CASE k = "login" /\ ServeLogin
  BY <1>3, LoginServedStep
<1>4. CASE k = "accept" /\ ServeAccept
  BY <1>4, AcceptServedStep
<1>5. CASE k = "preview" /\ ServePreview
  BY <1>5, PreviewServedStep
<1>6. CASE k = "join" /\ ServeJoin
  BY <1>6, JoinServedStep
<1>7. CASE k = "register" /\ ServeRegister
  BY <1>7, RegisterServedStep
<1>8. CASE k = "create" /\ ServeCreate
  BY <1>8, CreateServedStep
<1> QED
  BY <1>1, <1>2, <1>3, <1>4, <1>5, <1>6, <1>7, <1>8 DEF Serve

LEMMA ElsewhereStep ==
  ASSUME SessionInv, Elsewhere, UNCHANGED acts
  PROVE  SessionInv'
<1>1. /\ TypeOK /\ events' \in 0 .. MaxEvents
      /\ UNCHANGED <<accounts, storeVars, ui, orgs, checked, req, followed, unchosen, lister, unlisted>>
  BY SessionAssumption DEF SessionInv, TypeOK, Elsewhere
<1>2. /\ cookie' \in {cookie, None} /\ member' \in [Users -> SUBSET Orgs]
      /\ invite' \in {"open", "used", "dead"} /\ lost \subseteq lost' /\ lost' \subseteq Orgs
      /\ \A u \in Users : member[u] \subseteq member'[u] \cup lost' /\ member'[u] \subseteq member[u]
  <2>1. CASE UNCHANGED <<member, lost>>
    BY <1>1, <2>1 DEF Elsewhere, TypeOK
  <2>2. ASSUME NEW u \in Users, NEW o \in Orgs, member' = [member EXCEPT ![u] = @ \ {o}],
               lost' = lost \cup {o}, UNCHANGED <<cookie, invite>>
        PROVE  /\ cookie' \in {cookie, None} /\ member' \in [Users -> SUBSET Orgs]
               /\ invite' \in {"open", "used", "dead"} /\ lost \subseteq lost' /\ lost' \subseteq Orgs
               /\ \A v \in Users : member[v] \subseteq member'[v] \cup lost' /\ member'[v] \subseteq member[v]
    <3>1. /\ member' \in [Users -> SUBSET Orgs] /\ member'[u] = member[u] \ {o}
          /\ \A v \in Users : v # u => member'[v] = member[v]
      BY <1>1, <2>2 DEF TypeOK
    <3>2. \A v \in Users : member[v] \subseteq member'[v] \cup lost' /\ member'[v] \subseteq member[v]
      BY <2>2, <3>1
    <3> QED
      BY <1>1, <2>2, <3>1, <3>2 DEF TypeOK
  <2> QED
    BY <2>1, <2>2 DEF Elsewhere
<1>3. Granted' = Granted
  BY <1>1, GrantedSame DEF storeVars
<1>4. Asking' /\ AnswersAreTrue' /\ CacheIsTrue'
  <2>1. accounts \subseteq Users /\ cookie' \in accounts' \cup {None}
    BY <1>1, <1>2 DEF SessionInv, TypeOK, Asking, HaveAccounts
  <2>2. /\ \A u \in accounts : member[u] \subseteq member'[u] \cup lost'
        /\ \A u \in accounts : member'[u] \subseteq member[u] \cup Granted'
        /\ \A u \in accounts : member'[u] \subseteq member[u]
    BY <1>2, <2>1
  <2>3. {} \in SUBSET Kinds /\ (\A j \in Kinds \ {} : req'[j] = req[j])
        /\ \A j \in {} : req'[j].who = req[j].who /\ ~Idle(j) /\ Truthful(j)'
    BY <1>1
  <2> QED
    BY <1>1, <1>2, <1>3, <2>1, <2>2, <2>3, ServerStep
<1>5. Places' /\ Kept'
  BY <1>1 DEF SessionInv, Places, Kept, At, Idle, storeVars
<1>6. TypeOK'
  BY <1>1, <1>2 DEF TypeOK, storeVars
<1>7. Mine'
  <2>1. unchosen' = (unchosen \/ cookie' \notin {cookie, None})
    BY <1>1, <1>2 DEF TypeOK
  <2>2. \A u \in accounts : member[u] \subseteq member'[u] \cup lost'
    BY <1>1, <1>2 DEF TypeOK
  <2> QED
    BY <1>1, <1>2, <2>1, <2>2, MineServed DEF storeVars
<1> QED
  BY <1>4, <1>5, <1>6, <1>7 DEF SessionInv

----------------------------------------------------------------------------
LEMMA SessionStep == SessionInv /\ [Next]_vars => SessionInv'
<1> SUFFICES ASSUME SessionInv, [Next]_vars
             PROVE  SessionInv'
  OBVIOUS
<1>1. CASE Act
  BY <1>1, ActStep
<1>2. CASE Elsewhere /\ UNCHANGED acts
  BY <1>2, ElsewhereStep
<1>3. ASSUME NEW k \in Kinds, Serve(k) \/ Fails(k) \/ Arrive(k), UNCHANGED acts
      PROVE  SessionInv'
  BY <1>3, ServeStep, FailsStep, ArriveStep
<1>4. CASE UNCHANGED vars
  <2>1. UNCHANGED <<cookie, accounts, member, invite, auth, active, pending, ui, orgs, checked, req,
                    followed, unchosen, lister, unlisted, lost, acts, events>>
    BY <1>4 DEF vars, serverVars, storeVars, history
  <2>2. Granted' = Granted
    BY <2>1, GrantedSame
  <2>3. TypeOK' /\ Places' /\ Kept' /\ Mine'
    BY <2>1 DEF SessionInv, TypeOK, Places, Kept, Mine, At, Idle
  <2>4. Asking' /\ CacheIsTrue'
    BY <2>1, <2>2 DEF SessionInv, Asking, HaveAccounts, SameVisitor, Idle, CacheIsTrue, Own, Full
  <2>5. AnswersAreTrue'
    BY <2>1, <2>2 DEF SessionInv, AnswersAreTrue, Truthful, Ok, Back, Own, Full
  <2> QED
    BY <2>3, <2>4, <2>5 DEF SessionInv
<1> QED
  BY <1>1, <1>2, <1>3, <1>4 DEF Next

\* The inductive invariant: where requests are under way, who asked, and what their
\* answers and the cached list tell (the store, the API client and the pages).
THEOREM SessionKept == Spec => []SessionInv
<1>1. SessionInv /\ [Next]_vars => SessionInv'
  BY SessionStep
<1> QED
  BY <1>1, SessionInit, PTL DEF Spec

\* An invite that an anonymous visitor was shown is stored, on the page or being used to
\* register until something settles it (AcceptInvitePage, LoginPage, RegisterPage, and
\* the hard logout of the API client).
THEOREM InvitesAreKept == Spec => []InviteKept
<1>1. SessionInv => InviteKept
  BY DEF SessionInv, Kept, InviteKept
<1> QED
  BY <1>1, SessionKept, PTL

\* Once chosen after a sign-in, the active organization is one of the user's own, and the
\* switcher lists it (LoginPage, CreateOrgPage, AcceptInvitePage, OrgSwitcher).
THEOREM ActiveIsTheirs == Spec => []ActiveOrg
<1>1. SessionInv => ActiveIsMine
  BY DEF SessionInv, Mine, ActiveIsMine
<1>2. SessionInv => ActiveIsListed
  <2> SUFFICES ASSUME SessionInv, At("app"), auth, ~unchosen, active # None, orgs # None,
                      lister = cookie
               PROVE  active \in orgs \cup unlisted \cup lost
    BY DEF ActiveIsListed
  <2>1. lister \in accounts /\ Full(orgs \cup Granted, lister) /\ lister # None
    BY SessionAssumption DEF SessionInv, TypeOK, CacheIsTrue
  <2>2. Granted = {}
    <3>1. ~Joining /\ ~Ok("create")
      BY DEF SessionInv, Places, Joining, At, Ok, Back, Idle
    <3> QED
      BY <3>1, GrantedNone
  <2>3. active \in member[cookie] \cup lost
    BY <2>1 DEF SessionInv, Mine
  <2> QED
    BY <2>1, <2>2, <2>3 DEF Full
<1>3. SessionInv => ActiveOrg
  BY <1>1, <1>2 DEF SessionInv, ActiveOrg
<1> QED
  BY <1>3, SessionKept, PTL

=============================================================================

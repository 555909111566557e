----------------------------- MODULE WebSession -----------------------------
(***************************************************************************)
(* Who is signed in, in one tab of the web client: the store, the shared   *)
(* API client and its hard logout, AuthGuard, the login, registration,     *)
(* invite and create-organization pages, and the organization switcher.    *)
(*                                                                         *)
(* The cookie lives in the browser and is set by processing's answers; the *)
(* store's isAuthenticated and the query cache die with a full page load,  *)
(* activeOrgID (localStorage) and the pending invite (sessionStorage) do   *)
(* not.  "app" is every page inside AppShell.  A request is sent with the  *)
(* cookie of that moment, served later, and its answer arrives later       *)
(* still; there is at most one of each kind, as in the code, where a       *)
(* mutation disables its button and a query is shared.                     *)
(***************************************************************************)
EXTENDS Naturals, FiniteSets

CONSTANTS
  Users,
  Orgs,
  Invitee,        \* the user the invite is addressed to
  InviteOrg,      \* the organization it is an invite to
  FirstMember,    \* the organizations of each account at the start
  FirstAccounts,  \* the accounts at the start
  MaxEvents,      \* failures and changes made elsewhere (bound)
  MaxActs,        \* what the user does (bound)
  None            \* no user, no organization, no list

ASSUME SessionAssumption ==
  /\ Invitee \in Users /\ InviteOrg \in Orgs
  /\ FirstAccounts \subseteq Users
  /\ FirstMember \in [Users -> SUBSET (Orgs \ {InviteOrg})]
  /\ MaxEvents \in Nat /\ MaxActs \in Nat
  /\ None \notin Users \cup Orgs

VARIABLES
  cookie,     \* whose session the browser's cookie is
  accounts,   \* the users with an account
  member,     \* the organizations of each user
  invite,     \* "open", "used" or "dead" (revoked or expired)
  auth,       \* isAuthenticated
  active,     \* activeOrgID
  pending,    \* is there a pending invite in sessionStorage?
  ui,         \* the mounted page and its own state
  orgs,       \* the cached list of the query ['orgs']
  checked,    \* is there a cached success of the query ['session-check']?
  req,        \* the requests under way
  followed,   \* history: an invite this visitor was shown and nothing has settled
  unchosen,   \* history: since the cookie is new, nothing was chosen from this user's organizations
  lister,     \* history: whose organizations the cached list holds
  unlisted,       \* history: organizations the cached list may miss
  lost,       \* history: organizations the user was removed from
  acts, events

serverVars == <<cookie, accounts, member, invite>>
storeVars  == <<auth, active, pending>>
history    == <<followed, unchosen, lister, unlisted, lost>>
vars       == <<serverVars, storeVars, ui, orgs, checked, req, history, acts, events>>

Kinds == {"login", "enter", "probe", "check", "orgs", "refetch", "accept", "preview",
          "join", "register", "create", "use", "logout", "leave"}
Pages == {"login", "register", "invite", "create", "app"}

\* `sure` is sessionChecked of the invite page, or that the preview on the
\* registration page came back good; `fired` is triggeredRef; `err` the error shown;
\* `token` the invite that the registration page read when it was mounted.
Ui      == [page : Pages, sure : BOOLEAN, fired : BOOLEAN, err : {"none", "mismatch", "other"},
            token : BOOLEAN]
Request == [st : {"none", "sent", "back"}, who : Users \cup {None},
            ans : {"none", "ok", "401", "mismatch", "refused", "down"},
            list : SUBSET Orgs]

TypeOK ==
  /\ cookie \in Users \cup {None} /\ accounts \subseteq Users
  /\ member \in [Users -> SUBSET Orgs] /\ invite \in {"open", "used", "dead"}
  /\ auth \in BOOLEAN /\ active \in Orgs \cup {None} /\ pending \in BOOLEAN
  /\ ui \in Ui /\ orgs \in (SUBSET Orgs) \cup {None} /\ checked \in BOOLEAN
  /\ req \in [Kinds -> Request]
  /\ followed \in BOOLEAN /\ unchosen \in BOOLEAN /\ lister \in Users \cup {None}
  /\ unlisted \subseteq Orgs /\ lost \subseteq Orgs /\ events \in 0 .. MaxEvents
  /\ acts \in 0 .. MaxActs

NoReq   == [st |-> "none", who |-> None, ans |-> "none", list |-> {}]
NoReqs  == [k \in Kinds |-> NoReq]
Idle(k) == req[k].st = "none"
Back(k) == req[k].st = "back"
Asked(k, u) == [NoReq EXCEPT !.st = "sent", !.who = u]
At(p)   == ui.page = p
Fresh(p) == [page |-> p, sure |-> FALSE, fired |-> FALSE, err |-> "none", token |-> FALSE]

Init ==
  /\ cookie \in FirstAccounts \cup {None} /\ accounts = FirstAccounts /\ member = FirstMember
  /\ invite = "open" /\ auth = FALSE /\ active = None /\ pending = FALSE
  /\ ui = Fresh("login") /\ orgs = None /\ checked = FALSE /\ req = NoReqs
  /\ followed = FALSE /\ unchosen = FALSE /\ lister = None /\ unlisted = {} /\ lost = {} /\ events = 0 /\ acts = 0

----------------------------------------------------------------------------
(* Mounting a page *)

Guarded(p) == p \in {"create", "app"}

\* The requests a page sends when it is mounted with isAuthenticated = a, given the
\* requests that stay under way.  ['orgs'] is fetched when it is missing or stale.
MountReqs(p, a, rest, stale) ==
  [k \in Kinds |->
     CASE k \in {"check", "orgs"} /\ rest[k].st # "none"          -> rest[k]
       [] k = "check" /\ Guarded(p) /\ ~a /\ ~checked            -> Asked(k, cookie)
       [] k = "orgs" /\ p = "app" /\ a /\ (orgs = None \/ stale) -> Asked(k, cookie)
       [] k = "probe" /\ p = "invite" /\ ~a                      -> Asked(k, cookie)
       [] k = "accept" /\ p = "invite" /\ a                      -> Asked(k, cookie)
       [] k = "preview" /\ p = "register" /\ pending             -> Asked(k, cookie)
       [] OTHER                                                  -> rest[k]]

MountUi(p, a) ==
  CASE p = "invite"   -> [Fresh(p) EXCEPT !.sure = a, !.fired = a]
    [] p = "register" -> [Fresh(p) EXCEPT !.token = pending]
    \* AuthGuard: a check that has succeeded before is not made again.
    [] Guarded(p) /\ ~a /\ checked -> Fresh("login")
    [] OTHER -> Fresh(p)

\* A soft navigation, with isAuthenticated = a from here on.  The probe of an invite
\* page that is left is ignored (`cancelled`).
Go(p, a, rest) ==
  \E stale \in BOOLEAN :
    /\ ui' = MountUi(p, a)
    /\ req' = MountReqs(MountUi(p, a).page, a, [rest EXCEPT !["probe"] = NoReq], stale)

\* A page load: what the tab kept in memory is gone, and so are its requests.
Load(p) ==
  /\ ui' = Fresh(p) /\ auth' = FALSE /\ orgs' = None /\ checked' = FALSE
  /\ req' = [k \in Kinds |-> IF (k = "check" /\ Guarded(p)) \/ (k = "probe" /\ p = "invite")
                             THEN Asked(k, cookie) ELSE NoReq]

Drop(k) == [req EXCEPT ![k] = NoReq]

\* Faulty variant: the token is kept only by the page that was opened anonymously.
RenderInviteAtProbe(a, probed) ==
  LET shown == At("invite") /\ probed /\ ~a
  IN /\ pending' = (pending \/ shown)
     /\ followed' = (followed \/ shown)

\* AcceptInvitePage renders with isAuthenticated = a: an anonymous visitor's token is
\* saved, also when the session ends while the page is on the screen.
RenderInvite(a, probed) ==
  LET shown == At("invite") /\ (ui.sure \/ probed) /\ ~a
  IN /\ pending' = (pending \/ shown)
     /\ followed' = (followed \/ shown)

----------------------------------------------------------------------------
(* What processing answers *)

Reply(k, a, l) == req' = [req EXCEPT ![k].st = "back", ![k].ans = a, ![k].list = l]

\* Requests that need a session: 401 without one, and the list of the caller's
\* organizations where there is one in the answer.
ServeRead(k) ==
  /\ k \in {"enter", "probe", "check", "orgs", "refetch", "use"} /\ req[k].st = "sent"
  /\ IF req[k].who = None THEN Reply(k, "401", {})
     ELSE Reply(k, "ok", IF k \in {"enter", "orgs", "refetch"} THEN member[req[k].who] ELSE {})
  /\ UNCHANGED serverVars

\* A login that succeeds sets the cookie; a wrong password is a 401 as well.
ServeLogin ==
  LET u == req["login"].who
  IN /\ req["login"].st = "sent"
     /\ \/ u \in accounts /\ cookie' = u /\ Reply("login", "ok", {})
        \/ Reply("login", "401", {}) /\ UNCHANGED cookie
     /\ UNCHANGED <<accounts, member, invite>>

ServeAccept ==
  LET u == req["accept"].who
      joins == u = Invitee /\ invite = "open" /\ InviteOrg \notin member[u]
  IN /\ req["accept"].st = "sent"
     /\ Reply("accept", CASE u = None -> "401"
                          [] u # None /\ invite # "open" -> "refused"
                          [] u # None /\ invite = "open" /\ u # Invitee -> "mismatch"
                          [] joins -> "ok"
                          [] OTHER -> "refused", {})
     /\ member' = IF joins THEN [member EXCEPT ![u] = @ \cup {InviteOrg}] ELSE member
     /\ invite' = IF joins THEN "used" ELSE invite
     /\ UNCHANGED <<cookie, accounts>>

ServePreview ==
  /\ req["preview"].st = "sent"
  /\ Reply("preview", IF invite = "open" THEN "ok" ELSE "refused", {})
  /\ UNCHANGED serverVars

ServeJoin ==
  LET joins == invite = "open" /\ Invitee \notin accounts
  IN /\ req["join"].st = "sent"
     /\ Reply("join", IF joins THEN "ok" ELSE "refused", {})
     /\ accounts' = IF joins THEN accounts \cup {Invitee} ELSE accounts
     /\ member' = IF joins THEN [member EXCEPT ![Invitee] = {InviteOrg}] ELSE member
     /\ invite' = IF joins THEN "used" ELSE invite
     /\ cookie' = IF joins THEN Invitee ELSE cookie

\* An organization that nobody has been given yet.
Unused == (Orgs \ {InviteOrg}) \ UNION {member[u] : u \in Users}

\* Registration creates the account with an organization of its own.
ServeRegister ==
  LET u == req["register"].who
  IN /\ req["register"].st = "sent"
     /\ \/ /\ u \notin accounts
           /\ \E o \in Unused : member' = [member EXCEPT ![u] = {o}]
           /\ accounts' = accounts \cup {u}
           /\ Reply("register", "ok", {})
        \/ Reply("register", "refused", {}) /\ UNCHANGED <<accounts, member>>
     /\ UNCHANGED <<cookie, invite>>

ServeCreate ==
  LET u == req["create"].who
  IN /\ req["create"].st = "sent"
     /\ \/ u = None /\ Reply("create", "401", {}) /\ UNCHANGED member
        \/ /\ u # None
           /\ \E o \in Unused : /\ member' = [member EXCEPT ![u] = @ \cup {o}]
                                /\ Reply("create", "ok", {o})
        \/ u # None /\ Unused = {} /\ Reply("create", "refused", {}) /\ UNCHANGED member
     /\ UNCHANGED <<cookie, accounts, invite>>

ServeLogout(k) ==
  /\ k \in {"logout", "leave"} /\ req[k].st = "sent"
  /\ cookie' = None /\ Reply(k, "ok", {})
  /\ UNCHANGED <<accounts, member, invite>>

Serve(k) ==
  /\ \/ ServeRead(k) \/ ServeLogout(k)
     \/ k = "login" /\ ServeLogin
     \/ k = "accept" /\ ServeAccept
     \/ k = "preview" /\ ServePreview
     \/ k = "join" /\ ServeJoin
     \/ k = "register" /\ ServeRegister
     \/ k = "create" /\ ServeCreate
  /\ unchosen' = (unchosen \/ cookie' \notin {cookie, None})
  /\ UNCHANGED <<storeVars, ui, orgs, checked, followed, lister, unlisted, lost, events>>

\* The request or its answer is lost.
Fails(k) ==
  /\ events < MaxEvents /\ req[k].st = "sent"
  /\ events' = events + 1
  /\ Reply(k, "down", {})
  /\ UNCHANGED <<serverVars, storeVars, ui, orgs, checked, history>>

----------------------------------------------------------------------------
(* The API client *)

\* A 401 of any request of the shared client: one logout at a time.
Api == Kinds \ {"probe", "logout", "leave"}

Unauthorized(k) ==
  /\ k \in Api /\ Back(k) /\ req[k].ans = "401"
  /\ req' = IF req["logout"].st = "none" THEN [Drop(k) EXCEPT !["logout"] = Asked("logout", cookie)]
            ELSE Drop(k)
  /\ UNCHANGED <<serverVars, storeVars, ui, orgs, checked, history, events>>

\* The logout was answered, or failed: the store forgets, and the tab loads /login.
\* The invite page renders once more before it goes.
HardLogout ==
  /\ Back("logout")
  /\ RenderInvite(FALSE, FALSE)
  /\ active' = None
  /\ Load("login")
  /\ UNCHANGED <<serverVars, unchosen, lister, unlisted, lost, events>>

----------------------------------------------------------------------------
(* Pages *)

\* A form is being sent, or what follows it, or the logout of the invite page.
Sending == \E k \in {"login", "enter", "join", "register", "create", "refetch", "leave"} : ~Idle(k)

\* The user follows a link inside the tab, or goes back from the dashboard to the
\* invite.  Who leaves an invite for the dashboard gives it up.  (Nobody leaves what is
\* being sent other than by loading another page.)
Link(p) ==
  /\ ~Sending
  /\ \/ ui.page \in {"login", "register"} /\ p \in {"login", "register"} \ {ui.page}
     \/ At("invite") /\ ui.sure /\ ~auth /\ p \in {"login", "register"}
     \/ At("invite") /\ ui.err # "none" /\ p = "app"
     \/ At("app") /\ auth /\ p \in {"create", "invite"}
  /\ Go(p, auth, req)
  /\ followed' = (followed /\ p # "app")
  /\ UNCHANGED <<serverVars, storeVars, orgs, checked, unchosen, lister, unlisted, lost, events>>

\* The invite's link in the mail, or a bookmark: a token that only the page held is
\* given up.
Open(p) ==
  /\ p \in {"invite", "app", "login"}
  /\ Load(p)
  /\ followed' = (followed /\ pending)
  /\ UNCHANGED <<serverVars, active, pending, unchosen, lister, unlisted, lost, events>>

\* LoginPage, handleSubmit.
SubmitLogin(u) ==
  /\ At("login") /\ Idle("login") /\ Idle("enter")
  /\ req' = [req EXCEPT !["login"] = Asked("login", u)]
  /\ UNCHANGED <<serverVars, storeVars, ui, orgs, checked, history, events>>

\* Its onSuccess: the pending invite first, otherwise the list of organizations.
LoginArrives ==
  /\ Back("login") /\ req["login"].ans = "ok"
  /\ auth' = TRUE /\ pending' = FALSE
  /\ IF pending THEN Go("invite", TRUE, Drop("login"))
     ELSE req' = [Drop("login") EXCEPT !["enter"] = Asked("enter", cookie)] /\ UNCHANGED ui
  /\ UNCHANGED <<serverVars, active, orgs, checked, history, events>>

\* Faulty variant: the organization used last is taken without a look at the list.
ChosenLast(l) == IF active # None THEN {active} ELSE l
\* The organization used last if it is in the list, otherwise the first.
Chosen(l) == IF active \in l THEN {active} ELSE l

EnterArrives ==
  LET l == req["enter"].list
  IN /\ Back("enter") /\ req["enter"].ans = "ok"
     /\ IF l = {} THEN active' = active /\ Go("create", auth, Drop("enter"))
        ELSE active' \in Chosen(l) /\ Go("app", auth, Drop("enter"))
     /\ unchosen' = (unchosen /\ l = {})
     /\ UNCHANGED <<serverVars, auth, pending, orgs, checked, followed, lister, unlisted, lost, events>>

\* AuthGuard's check, made while a guarded page waits.
CheckArrives ==
  /\ Back("check") /\ req["check"].ans = "ok"
  /\ auth' = TRUE /\ checked' = TRUE
  /\ IF Guarded(ui.page) THEN Go(ui.page, TRUE, Drop("check"))
     ELSE req' = Drop("check") /\ UNCHANGED ui
  /\ UNCHANGED <<serverVars, active, pending, orgs, history, events>>

CheckFails ==
  /\ Back("check") /\ req["check"].ans = "down"
  /\ IF Guarded(ui.page) /\ ~auth THEN Go("login", FALSE, Drop("check"))
     ELSE req' = Drop("check") /\ UNCHANGED ui
  /\ UNCHANGED <<serverVars, storeVars, orgs, checked, history, events>>

\* Faulty variant: accepting is an effect of the mount alone.
FireAcceptNever(r) == r
\* The effect on isAuthenticated: accept, once.
FireAccept(r) == IF ui.fired THEN r ELSE [r EXCEPT !["accept"] = Asked("accept", cookie)]

\* The invite page's own probe, which a 401 does not log out.
ProbeArrives ==
  LET ok == req["probe"].ans = "ok"
  IN /\ Back("probe")
     /\ auth' = (auth \/ ok)
     /\ ui' = [ui EXCEPT !.sure = TRUE, !.fired = @ \/ ok]
     /\ req' = IF ok THEN FireAccept(Drop("probe")) ELSE Drop("probe")
     /\ RenderInvite(auth \/ ok, TRUE)
     /\ UNCHANGED <<serverVars, active, orgs, checked, unchosen, lister, unlisted, lost, events>>

\* After joining: the cached list is fetched again before the dashboard opens.
Joined(r) ==
  IF orgs = None THEN Go("app", TRUE, r)
  ELSE req' = [r EXCEPT !["refetch"] = Asked("refetch", cookie), !["orgs"] = NoReq] /\ UNCHANGED ui
\* A first list under way is not asked for again, and may be older than the membership.
Missed == IF orgs = None /\ ~Idle("orgs") THEN unlisted \cup {InviteOrg} ELSE unlisted

AcceptArrives ==
  LET ans == req["accept"].ans
  IN /\ Back("accept") /\ ans # "401"
     /\ IF ans = "ok" THEN active' = InviteOrg /\ Joined(Drop("accept"))
        ELSE /\ active' = active /\ req' = Drop("accept")
             /\ ui' = IF At("invite") THEN [ui EXCEPT !.err = IF ans = "mismatch" THEN ans ELSE "other"]
                      ELSE ui
     /\ followed' = (followed /\ ans = "mismatch")
     /\ unchosen' = (unchosen /\ ans # "ok")
     /\ unlisted' = IF ans = "ok" THEN Missed ELSE unlisted
     /\ UNCHANGED <<serverVars, auth, pending, orgs, checked, lister, lost, events>>

\* An answer to ['orgs']; without one the old list stays.
Cached(k) ==
  /\ req' = Drop(k)
  /\ IF req[k].ans = "ok" THEN orgs' = req[k].list /\ lister' = req[k].who
     ELSE UNCHANGED <<orgs, lister>>

RefetchArrives ==
  /\ Back("refetch") /\ req["refetch"].ans \in {"ok", "down"}
  /\ Cached("refetch")
  /\ ui' = Fresh("app")
  /\ unlisted' = IF req["refetch"].ans = "ok" THEN unlisted ELSE unlisted \cup {InviteOrg}
  /\ UNCHANGED <<serverVars, storeVars, checked, followed, unchosen, lost, events>>

\* LogoutButton on the invite page, shown when the invite is someone else's.
LeaveClicked ==
  /\ At("invite") /\ auth /\ ui.err = "mismatch" /\ Idle("leave")
  /\ req' = [req EXCEPT !["leave"] = Asked("leave", cookie)]
  /\ UNCHANGED <<serverVars, storeVars, ui, orgs, checked, history, events>>

LeaveArrives ==
  /\ Back("leave")
  /\ auth' = FALSE /\ active' = None
  /\ RenderInvite(FALSE, FALSE)
  /\ Go("login", FALSE, Drop("leave"))
  /\ UNCHANGED <<serverVars, orgs, checked, unchosen, lister, unlisted, lost, events>>

\* RegisterPage: the preview decides between the two forms.  Any failure purges the
\* pending invite.
PreviewArrives ==
  LET ok == req["preview"].ans = "ok"
  IN /\ Back("preview")
     /\ req' = Drop("preview")
     /\ ui' = IF At("register") THEN [ui EXCEPT !.sure = ok, !.err = IF ok THEN "none" ELSE "other"]
              ELSE ui
     /\ pending' = IF At("register") /\ ~ok THEN FALSE ELSE pending
     /\ followed' = (followed /\ ~(At("register") /\ ~ok))
     /\ UNCHANGED <<serverVars, auth, active, orgs, checked, unchosen, lister, unlisted, lost, events>>

SubmitRegister(u) ==
  /\ At("register") /\ \A k \in {"preview", "join", "register", "refetch"} : Idle(k)
  /\ LET k == IF ui.token /\ ui.sure THEN "join" ELSE "register"
     IN req' = [req EXCEPT ![k] = Asked(k, IF k = "join" THEN Invitee ELSE u)]
  /\ UNCHANGED <<serverVars, storeVars, ui, orgs, checked, history, events>>

JoinArrives ==
  LET ok == req["join"].ans = "ok"
  IN /\ Back("join")
     /\ IF ok
        THEN /\ pending' = FALSE /\ auth' = TRUE /\ active' = InviteOrg /\ followed' = FALSE
             /\ unchosen' = FALSE /\ unlisted' = Missed
             /\ Joined(Drop("join"))
        ELSE req' = Drop("join") /\ UNCHANGED <<ui, storeVars, followed, unchosen, unlisted>>
     /\ UNCHANGED <<serverVars, orgs, checked, lister, lost, events>>

\* A new account signs in on the login page, at once or after it was verified.
RegisterArrives ==
  /\ Back("register")
  /\ \/ req["register"].ans = "ok" /\ Go("login", auth, Drop("register"))
     \/ req' = Drop("register") /\ UNCHANGED ui
  /\ UNCHANGED <<serverVars, storeVars, orgs, checked, history, events>>

SubmitCreate ==
  /\ At("create") /\ auth /\ Idle("create")
  /\ req' = [req EXCEPT !["create"] = Asked("create", cookie)]
  /\ UNCHANGED <<serverVars, storeVars, ui, orgs, checked, history, events>>

CreateArrives ==
  /\ Back("create") /\ req["create"].ans # "401"
  /\ IF req["create"].ans = "ok"
     THEN /\ active' \in req["create"].list
          /\ unlisted' = unlisted \cup req["create"].list /\ unchosen' = FALSE
          /\ Go("app", auth, Drop("create"))
     ELSE req' = Drop("create") /\ UNCHANGED <<ui, active, unlisted, unchosen>>
  /\ UNCHANGED <<serverVars, auth, pending, orgs, checked, followed, lister, lost, events>>

----------------------------------------------------------------------------
(* Inside the shell *)

OrgsArrives ==
  /\ Back("orgs") /\ req["orgs"].ans \in {"ok", "down"}
  /\ Cached("orgs")
  /\ UNCHANGED <<serverVars, storeVars, ui, checked, followed, unchosen, unlisted, lost, events>>

\* The switcher shows the active organization, or failing that the first.  The list
\* may still be that of the user who was signed in before.
Switch(o) ==
  /\ At("app") /\ auth /\ orgs # None /\ o \in orgs /\ o # active
  /\ active' = o /\ unchosen' = (lister # cookie)
  /\ UNCHANGED <<serverVars, auth, pending, ui, orgs, checked, req, followed, lister, unlisted, lost, events>>

\* Any query of a page; only a 401 matters here.  (It is sent when nothing else is
\* under way: a bound.)
Use ==
  /\ At("app") /\ auth /\ active # None /\ \A k \in Kinds : Idle(k)
  /\ req' = [req EXCEPT !["use"] = Asked("use", cookie)]
  /\ UNCHANGED <<serverVars, storeVars, ui, orgs, checked, history, events>>

\* An answer with nothing to do but end the request.
Settles(k) ==
  /\ Back(k)
  /\ \/ k = "use" /\ req[k].ans \in {"ok", "down"}
     \/ k \in {"enter", "login"} /\ req[k].ans = "down"
  /\ req' = Drop(k)
  /\ UNCHANGED <<serverVars, storeVars, ui, orgs, checked, history, events>>

\* The sidebar's logout: the store forgets and the tab loads /login; the cookie stays.
SidebarLogout ==
  /\ At("app") /\ auth
  /\ active' = None
  /\ Load("login")
  /\ UNCHANGED <<serverVars, pending, history, events>>

\* Elsewhere: the session expires, an admin removes the user, the invite ends.
Elsewhere ==
  /\ events < MaxEvents /\ events' = events + 1
  /\ \/ cookie # None /\ cookie' = None /\ UNCHANGED <<member, invite, lost>>
     \/ \E u \in Users, o \in Orgs :
          /\ o \in member[u] /\ member' = [member EXCEPT ![u] = @ \ {o}]
          /\ lost' = lost \cup {o} /\ UNCHANGED <<cookie, invite>>
     \/ invite = "open" /\ invite' = "dead" /\ UNCHANGED <<cookie, member, lost>>
  /\ UNCHANGED <<accounts, storeVars, ui, orgs, checked, req, followed, unchosen, lister, unlisted>>

----------------------------------------------------------------------------
\* The answer to k is handled.
Arrive(k) ==
  \/ Unauthorized(k) \/ Settles(k)
  \/ k = "logout"   /\ HardLogout
  \/ k = "login"    /\ LoginArrives
  \/ k = "enter"    /\ EnterArrives
  \/ k = "check"    /\ (CheckArrives \/ CheckFails)
  \/ k = "probe"    /\ ProbeArrives
  \/ k = "accept"   /\ AcceptArrives
  \/ k = "refetch"  /\ RefetchArrives
  \/ k = "leave"    /\ LeaveArrives
  \/ k = "preview"  /\ PreviewArrives
  \/ k = "join"     /\ JoinArrives
  \/ k = "register" /\ RegisterArrives
  \/ k = "create"   /\ CreateArrives
  \/ k = "orgs"     /\ OrgsArrives

\* What the user does.
Act ==
  /\ acts < MaxActs /\ acts' = acts + 1
  /\ \/ \E p \in Pages : Link(p) \/ Open(p)
     \/ \E u \in Users : SubmitLogin(u) \/ SubmitRegister(u)
     \/ SubmitCreate \/ LeaveClicked \/ SidebarLogout \/ Use
     \/ \E o \in Orgs : Switch(o)

Next ==
  \/ (\E k \in Kinds : Serve(k) \/ Fails(k) \/ Arrive(k)) /\ UNCHANGED acts
  \/ Act
  \/ Elsewhere /\ UNCHANGED acts

\* Requests are served, and the answers are handled; the user is free to stop.
Fairness == \A k \in Kinds : WF_vars((Serve(k) \/ Arrive(k)) /\ UNCHANGED acts)

Spec == Init /\ [][Next]_vars /\ Fairness

----------------------------------------------------------------------------
(* Properties *)

\* An invite that was shown to an anonymous visitor is not forgotten on the way
\* through sign-in, registration, a wrong account or an expired session: until it is
\* settled, purged or given up, it is in sessionStorage, on the page, or in a request.
InviteKept ==
  followed => pending \/ At("invite") \/ ~Idle("join")

\* Once an organization was chosen after a sign-in, the shell works in one of the
\* user's own organizations (or in one the user has just been removed from), whatever
\* organization the tab's storage remembers from another user.
ActiveIsMine ==
  At("app") /\ auth /\ cookie # None /\ ~unchosen /\ active # None
    => active \in member[cookie] \cup lost

\* The switcher lists the organization the shell works in, unless this tab created
\* it after the list was fetched, the list was under way or could not be fetched again
\* when an invite was accepted, or the list is another user's.
ActiveIsListed ==
  At("app") /\ auth /\ ~unchosen /\ active # None /\ orgs # None /\ lister = cookie /\ Idle("orgs")
    => active \in orgs \cup unlisted \cup lost

\* The guard's empty screen gives way to the page or to the login page.
GuardDecides == Guarded(ui.page) /\ ~auth ~> ~Guarded(ui.page) \/ auth

\* A signed-in visitor's invite is accepted or answered by an error, or the visitor is
\* sent to sign in again: the spinner does not stay.
InviteDecides == At("invite") /\ auth ~> ~At("invite") \/ ~auth \/ ui.err # "none"

\* The active organization, whatever the storage and the cache remember: it is the
\* user's own and the switcher lists it.
ActiveOrg == TypeOK /\ ActiveIsMine /\ ActiveIsListed

\* No page stays blank.
NoBlankPage == GuardDecides /\ InviteDecides
=============================================================================

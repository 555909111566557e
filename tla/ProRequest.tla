----------------------------- MODULE ProRequest -----------------------------
(***************************************************************************)
(* Asking for the Pro plan: the dialog (ProRequestDialog.tsx), which opens *)
(* by itself after a registration that began with "Pro"                    *)
(* (ProIntentBootstrap.tsx) or from a page, the hooks use-billing.ts and   *)
(* use-meta.ts, and what the settings page says of the plan.  The billing  *)
(* service is another program: it knows whether the user has asked, and    *)
(* answers 409 to one who asks again.                                      *)
(***************************************************************************)
EXTENDS Naturals, WebQuery

CONSTANTS
  MaxPosts,    \* requests (bound)
  MaxEvents    \* dialogs closed, visits, failures, requests from elsewhere (bound)

VARIABLES
  billing,     \* what /api/meta said of a billing service
  me,          \* is the user's address loaded?
  intent,      \* the flag in the session storage
  free,        \* is the organization on the free plan?
  dialogs,     \* the dialog of the app shell, and the one of the page
  wrote,       \* history: the dialogs in which something was typed since they were opened
  posts,       \* the requests under way
  query,       \* ['pro-request', 'me']: "yes" or "no"
  requested,   \* what the billing service knows
  count, events

others == <<billing, me, intent, free>>
vars == <<others, dialogs, wrote, posts, query, requested, count, events>>

Places  == {"shell", "page"}
\* `post` is the request that the dialog's mutation follows, 0 for none; `reset` is
\* the timer that a closed dialog runs.
Dialog  == [mounted : BOOLEAN, open : BOOLEAN, reset : BOOLEAN, text : BOOLEAN, err : BOOLEAN,
            post : 0 .. MaxPosts, mut : {"idle", "pending", "ok", "failed"}]
Post    == [n : 1 .. MaxPosts, by : Places, st : {"sent", "ok", "conflict", "failed"}]

TypeOK ==
  /\ billing \in {"unknown", "on", "off"}
  /\ me \in BOOLEAN /\ intent \in BOOLEAN /\ free \in BOOLEAN
  /\ dialogs \in [Places -> Dialog] /\ wrote \subseteq Places
  /\ posts \subseteq Post /\ query \in QueryOf({"yes", "no"}) /\ requested \in BOOLEAN
  /\ count \in 0 .. MaxPosts /\ events \in 0 .. MaxEvents

Gone  == [mounted |-> FALSE, open |-> FALSE, reset |-> FALSE, text |-> FALSE, err |-> FALSE,
          post |-> 0, mut |-> "idle"]
\* The effect of a dialog that is mounted closed starts the timer as well.
Fresh(open) == [Gone EXCEPT !.mounted = TRUE, !.open = open, !.reset = ~open]

Init ==
  /\ billing = "unknown" /\ me = FALSE /\ intent \in BOOLEAN /\ free \in BOOLEAN
  /\ dialogs = [d \in Places |-> IF d = "page" THEN Fresh(FALSE) ELSE Gone]
  /\ wrote = {} /\ posts = {} /\ query = NewQuery /\ requested \in BOOLEAN
  /\ count = 0 /\ events = 0

On == billing = "on"
Says(answer) == query.data = answer

\* What a dialog is: nothing without a billing service.
Screen(d) ==
  LET g == dialogs[d]
  IN IF ~On \/ ~g.mounted \/ ~g.open THEN "none"
     ELSE IF g.mut = "ok" \/ Says("yes") THEN "thanks" ELSE "form"

\* ProUpgradeBlock.
Upgrade == IF ~On \/ ~free THEN "none" ELSE IF Says("yes") THEN "requested" ELSE "button"

----------------------------------------------------------------------------
(* The billing service is announced; the status of the user is loaded *)

\* The status is asked for once there is a service and a component that uses it.  The
\* flag is taken out of the storage and its dialog opens.
MetaArrives(on) ==
  /\ billing = "unknown"
  /\ billing' = IF on THEN "on" ELSE "off"
  /\ intent' = (intent /\ ~on)
  /\ dialogs' = IF on /\ intent THEN [dialogs EXCEPT !["shell"] = Fresh(TRUE)] ELSE dialogs
  /\ query' = IF on /\ (intent \/ dialogs["page"].mounted) THEN Sent(query) ELSE query
  /\ UNCHANGED <<me, free, wrote, posts, requested, count, events>>

MeArrives ==
  /\ ~me /\ me' = TRUE
  /\ UNCHANGED <<billing, intent, free, dialogs, wrote, posts, query, requested, count, events>>

ServeStatus ==
  /\ query.fetch = "sent"
  /\ query' = Answered(query, IF requested THEN "yes" ELSE "no")
  /\ UNCHANGED <<others, dialogs, wrote, posts, requested, count, events>>

StatusArrives ==
  /\ query.fetch = "back" /\ query' = Loaded(query)
  /\ UNCHANGED <<others, dialogs, wrote, posts, requested, count, events>>

\* 401, or the request and its retry fail: nothing is known, and the form is shown.
StatusFails ==
  /\ query.fetch # "none" /\ events < MaxEvents
  /\ events' = events + 1 /\ query' = Failed(query)
  /\ UNCHANGED <<others, dialogs, wrote, posts, requested, count>>

----------------------------------------------------------------------------
(* The dialog *)

\* Faulty variant: the timer of the last close goes on.
OpenedKeepsTimer(g) == [g EXCEPT !.open = TRUE]
\* The effect's cleanup clears the timer.
Opened(g) == [g EXCEPT !.open = TRUE, !.reset = FALSE]

\* From the settings page or an offer; the dialogs are modal.
Open ==
  /\ On /\ dialogs["page"].mounted /\ \A d \in Places : ~dialogs[d].open
  /\ dialogs' = [dialogs EXCEPT !["page"] = Opened(@)]
  /\ UNCHANGED <<others, wrote, posts, query, requested, count, events>>

Close(d) ==
  /\ Screen(d) # "none" /\ events < MaxEvents
  /\ events' = events + 1
  /\ dialogs' = [dialogs EXCEPT ![d].open = FALSE, ![d].reset = TRUE]
  /\ wrote' = wrote \ {d}
  /\ UNCHANGED <<others, posts, query, requested, count>>

\* 200 ms later: createPR.reset() also lets go of a request under way.
ResetFires(d) ==
  /\ dialogs[d].reset
  /\ dialogs' = [dialogs EXCEPT ![d] = [@ EXCEPT !.reset = FALSE, !.text = FALSE, !.err = FALSE,
                                                 !.post = 0, !.mut = "idle"]]
  /\ UNCHANGED <<others, wrote, posts, query, requested, count, events>>

Type(d) ==
  /\ Screen(d) = "form" /\ d \notin wrote
  /\ dialogs' = [dialogs EXCEPT ![d].text = TRUE] /\ wrote' = wrote \cup {d}
  /\ UNCHANGED <<others, posts, query, requested, count, events>>

\* handleSubmit.
Submit(d) ==
  /\ Screen(d) = "form" /\ me /\ dialogs[d].mut # "pending" /\ count < MaxPosts
  /\ count' = count + 1
  /\ posts' = posts \cup {[n |-> count + 1, by |-> d, st |-> "sent"]}
  /\ dialogs' = [dialogs EXCEPT ![d] = [@ EXCEPT !.err = FALSE, !.mut = "pending", !.post = count + 1]]
  /\ UNCHANGED <<others, wrote, query, requested, events>>

\* The page with its dialog is left, or visited.  A request under way goes on.
Visit(stale) ==
  /\ events < MaxEvents /\ events' = events + 1
  /\ Screen("page") = "none" /\ Screen("shell") = "none"
  /\ IF dialogs["page"].mounted
     THEN dialogs' = [dialogs EXCEPT !["page"] = Gone] /\ UNCHANGED query
     ELSE /\ dialogs' = [dialogs EXCEPT !["page"] = Fresh(FALSE)]
          /\ query' = IF On THEN Activated(query, stale) ELSE query
  /\ UNCHANGED <<others, wrote, posts, requested, count>>

----------------------------------------------------------------------------
(* The request *)

Moved(r, st) == (posts \ {r}) \cup {[r EXCEPT !.st = st]}

\* 201, or 409 for a user who has asked before.
ServePost(r) ==
  /\ r \in posts /\ r.st = "sent"
  /\ posts' = Moved(r, IF requested THEN "conflict" ELSE "ok") /\ requested' = TRUE
  /\ UNCHANGED <<others, dialogs, wrote, query, count, events>>

PostFails(r) ==
  /\ r \in posts /\ r.st \in {"sent", "ok"} /\ events < MaxEvents
  /\ events' = events + 1 /\ posts' = Moved(r, "failed")
  /\ UNCHANGED <<others, dialogs, wrote, query, requested, count>>

\* onError: 409 fills an empty cache, and leaves a "no" that is there.
OnError(r) == IF r.st = "conflict" /\ query.data = None THEN Put(query, "yes") ELSE query

\* The dialog's mutation is still that of the request.
Follows(d, r) == dialogs[d].mounted /\ dialogs[d].post = r.n

\* What follows an answer in a dialog.  A conflict sets no error, whatever the cache says.
After(g, st) ==
  CASE st = "ok"       -> [g EXCEPT !.mut = "ok"]
    [] st = "conflict" -> [g EXCEPT !.mut = "failed"]
    [] st = "failed"   -> [g EXCEPT !.mut = "failed", !.err = TRUE]

PostArrives(r) ==
  /\ r \in posts /\ r.st # "sent"
  /\ posts' = posts \ {r}
  /\ query' = IF r.st = "ok" THEN Put(query, "yes") ELSE OnError(r)
  /\ dialogs' = [d \in Places |-> IF Follows(d, r) THEN After(dialogs[d], r.st) ELSE dialogs[d]]
  /\ UNCHANGED <<others, wrote, requested, count, events>>

\* In another tab of the browser.
Elsewhere ==
  /\ ~requested /\ events < MaxEvents
  /\ events' = events + 1 /\ requested' = TRUE
  /\ UNCHANGED <<others, dialogs, wrote, posts, query, count>>

Next ==
  \/ \E b \in BOOLEAN : MetaArrives(b) \/ Visit(b)
  \/ MeArrives \/ ServeStatus \/ StatusArrives \/ StatusFails \/ Open \/ Elsewhere
  \/ \E d \in Places : Close(d) \/ ResetFires(d) \/ Type(d) \/ Submit(d)
  \/ \E r \in posts : ServePost(r) \/ PostFails(r) \/ PostArrives(r)

Spec == Init /\ [][Next]_vars

----------------------------------------------------------------------------
(* Properties *)

\* Whoever is thanked has asked: neither a failure nor a conflict, nor an answer that
\* comes late, lets a dialog or the settings page say so of another.
ThanksIsTrue ==
  Upgrade = "requested" \/ (\E d \in Places : Screen(d) = "thanks") => requested

\* What is typed into a dialog stays until it is closed: the timer that its last close
\* started does not clear it.
TextStays == \A d \in wrote : dialogs[d].text

\* The error in a dialog is that of its latest request, and of one sent since the fields
\* were last cleared.
ErrorIsCurrent ==
  \A d \in Places : dialogs[d].err => dialogs[d].mut = "failed" /\ dialogs[d].post # 0
=============================================================================

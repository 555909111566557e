------------------------------ MODULE OrgLists ------------------------------
(***************************************************************************)
(* The lists of an organization and what is done to their rows: members,   *)
(* invites and alert rules on the settings page, API keys on their own     *)
(* page (web/src/pages/app/SettingsPage.tsx, APIKeysPage.tsx), with the    *)
(* hooks of use-org.ts and use-keys.ts.                                    *)
(*                                                                         *)
(* A row is removed after a confirmation, and made or changed in a dialog. *)
(* The page is given one of the four lists.  On the organization's side a  *)
(* row exists or it does not, and has a version.                           *)
(***************************************************************************)
EXTENDS Naturals, FiniteSets, WebQuery

CONSTANTS
  Lists,       \* a subset of {"members", "invites", "alerts", "keys"}
  Rows,        \* rows that exist or may be made
  First,       \* those that exist at the start, a subset of Rows
  MaxClicks,   \* removals and dialogs sent (bound)
  MaxEvents    \* failures and changes made elsewhere (bound)

VARIABLES
  list,        \* the list of this behaviour
  free,        \* is the organization on the free plan?
  known,       \* do the role, the plan and the user's rights stand?
  rows,        \* processing's rows: the version of each, 0 for none
  used,        \* the rows there have been: an identifier is not used again
  query,       \* ['members', o], ['invites', o], ['alerts', o] or ['keys', o]
  confirm,     \* confirmRemove, confirmRevoke, confirmDelete, deactivateTarget
  dialog,      \* the dialog that makes or edits a row
  removals,    \* the removals under way
  change,      \* the creation or the change under way
  gone,        \* history: rows whose removal this page was told of, and that were fetched again
  made,        \* history: likewise, the versions of rows made or changed
  clicks, events

vars == <<list, free, known, rows, used, query, confirm, dialog, removals, change, gone, made,
          clicks, events>>

Ver     == 0 .. MaxClicks + MaxEvents
Table   == [Rows -> Ver]
Dialog  == [open : BOOLEAN, row : Rows \cup {None}, err : BOOLEAN]
Removal == [row : Rows, st : {"sent", "ok", "refused", "settling"}]
Change  == [row : Rows \cup {None}, ver : Ver, st : {"idle", "sent", "ok", "refused", "settling"}]

TypeOK ==
  /\ list \in Lists /\ free \in BOOLEAN /\ known \in BOOLEAN
  /\ rows \in Table /\ used \subseteq Rows /\ query \in QueryOf(Table)
  /\ confirm \in Rows \cup {None} /\ dialog \in Dialog
  /\ removals \in SUBSET Removal /\ change \in Change
  /\ gone \subseteq Rows /\ made \in Table
  /\ clicks \in 0 .. MaxClicks /\ events \in 0 .. MaxEvents

NoRows   == [r \in Rows |-> 0]
NoDialog == [open |-> FALSE, row |-> None, err |-> FALSE]
NoChange == [row |-> None, ver |-> 0, st |-> "idle"]

Init ==
  /\ list \in Lists /\ free \in BOOLEAN /\ known = FALSE
  /\ rows = [r \in Rows |-> IF r \in First THEN 1 ELSE 0] /\ used = First
  /\ query = Sent(NewQuery) /\ confirm = None /\ dialog = NoDialog
  /\ removals = {} /\ change = NoChange /\ gone = {} /\ made = NoRows
  /\ clicks = 0 /\ events = 0

----------------------------------------------------------------------------
(* What is on the screen *)

\* The members of a free organization give way to an offer once the plan is known; its
\* alert rules are refused by processing, which is the query's failure.
Gated ==
  \/ list = "members" /\ known /\ free
  \/ list = "alerts" /\ free /\ IsError(query)

Shown == IF query.data = None THEN {} ELSE {r \in Rows : query.data[r] > 0}

\* The list's part of the page.  Only the keys say that they could not be loaded.
Screen ==
  IF Gated THEN "offer"
  ELSE IF IsLoading(query) THEN "loading"
  ELSE IF list = "keys" /\ IsError(query) THEN "error"
  ELSE IF Shown = {} THEN "empty" ELSE "rows"

----------------------------------------------------------------------------
(* Removing *)

\* The role must be known and allow it.  A dialog over the page keeps the rows from
\* being clicked.
AskRemove(r) ==
  /\ Screen = "rows" /\ known /\ ~dialog.open /\ r \in Shown /\ confirm # r
  /\ list = "keys" => confirm = None
  /\ confirm' = r
  /\ UNCHANGED <<list, free, known, rows, used, query, dialog, removals, change, gone, made, clicks, events>>

CancelRemove ==
  /\ confirm # None /\ confirm' = None
  /\ UNCHANGED <<list, free, known, rows, used, query, dialog, removals, change, gone, made, clicks, events>>

\* Only the key's button is disabled while a removal is under way; the other lists'
\* Confirm sends a second request for the same row.
Confirm ==
  /\ confirm # None /\ clicks < MaxClicks
  /\ list = "keys" \/ (Screen = "rows" /\ confirm \in Shown /\ ~dialog.open)
  /\ list = "keys" => removals = {}
  /\ clicks' = clicks + 1
  /\ removals' = removals \cup {[row |-> confirm, st |-> "sent"]}
  /\ UNCHANGED <<list, free, known, rows, used, query, confirm, dialog, change, gone, made, events>>

Moved(x, st) == (removals \ {x}) \cup {[x EXCEPT !.st = st]}

\* A row that is gone is not removed again.
ServeRemoval(x) ==
  /\ x \in removals /\ x.st = "sent"
  /\ rows' = [rows EXCEPT ![x.row] = 0]
  /\ removals' = Moved(x, IF rows[x.row] = 0 THEN "refused" ELSE "ok")
  /\ UNCHANGED <<list, free, known, used, query, confirm, dialog, change, gone, made, clicks, events>>

RemovalFails(x) ==
  /\ x \in removals /\ x.st = "sent" /\ events < MaxEvents
  /\ events' = events + 1
  /\ removals' = Moved(x, "refused")
  /\ UNCHANGED <<list, free, known, rows, used, query, confirm, dialog, change, gone, made, clicks>>

\* Faulty variant: the list is only fetched again if no request is under way.
OnSuccessIdle(q) == IF Resting(q) THEN Invalidated(q, TRUE) ELSE q
\* onSuccess of every mutation of the four lists.
OnSuccess(q) == Invalidated(q, TRUE)

\* A removal that fails leaves its confirmation open (the rejection is not caught).
RemovalArrives(x) ==
  /\ x \in removals /\ x.st \in {"ok", "refused"}
  /\ IF x.st = "ok"
     THEN /\ query' = OnSuccess(query) /\ removals' = Moved(x, "settling")
          /\ gone' = gone \cup {x.row}
     ELSE UNCHANGED <<query, gone>> /\ removals' = removals \ {x}
  /\ UNCHANGED <<list, free, known, rows, used, confirm, dialog, change, made, clicks, events>>

\* The mutation waits for the refetch; then whatever confirmation is open closes.
RemovalSettles(x) ==
  /\ x \in removals /\ x.st = "settling" /\ Resting(query)
  /\ removals' = removals \ {x} /\ confirm' = None
  /\ UNCHANGED <<list, free, known, rows, used, query, dialog, change, gone, made, clicks, events>>

----------------------------------------------------------------------------
(* The dialog *)

\* "Invite", "Add alert", "Create key", or Edit on an alert rule.
OpenDialog(r) ==
  /\ list # "members" /\ known /\ Screen # "offer" /\ ~dialog.open
  /\ list = "keys" => confirm = None
  /\ r # None => list = "alerts" /\ Screen = "rows" /\ r \in Shown /\ confirm # r
  /\ dialog' = [open |-> TRUE, row |-> r, err |-> FALSE]
  /\ UNCHANGED <<list, free, known, rows, used, query, confirm, removals, change, gone, made, clicks, events>>

CloseDialog ==
  /\ dialog.open /\ dialog' = NoDialog
  /\ UNCHANGED <<list, free, known, rows, used, query, confirm, removals, change, gone, made, clicks, events>>

\* The row that is made or changed: that of the dialog, or a new one.
Target == IF dialog.row # None THEN {dialog.row} ELSE Rows \ used

Submit ==
  /\ dialog.open /\ Screen # "offer" /\ change.st = "idle" /\ clicks < MaxClicks
  /\ clicks' = clicks + 1
  /\ \E r \in Target : change' = [row |-> r, ver |-> 0, st |-> "sent"]
  /\ dialog' = [dialog EXCEPT !.err = FALSE]
  /\ UNCHANGED <<list, free, known, rows, used, query, confirm, removals, gone, made, events>>

\* The row is made or, if it is still there, changed; otherwise, or for a limit or the
\* network, there is an error.
ServeChange ==
  LET r  == change.row
      ok == (r \in used => rows[r] > 0) /\ rows[r] + 1 \in Ver
  IN /\ change.st = "sent"
     /\ \/ /\ ok
           /\ rows' = [rows EXCEPT ![r] = @ + 1] /\ used' = used \cup {r}
           /\ change' = [change EXCEPT !.st = "ok", !.ver = rows[r] + 1]
           /\ UNCHANGED events
        \/ /\ IF ok THEN events < MaxEvents /\ events' = events + 1 ELSE UNCHANGED events
           /\ change' = [change EXCEPT !.st = "refused"] /\ UNCHANGED <<rows, used>>
     /\ UNCHANGED <<list, free, known, query, confirm, dialog, removals, gone, made, clicks>>

ChangeArrives ==
  /\ change.st \in {"ok", "refused"}
  /\ IF change.st = "ok"
     THEN /\ query' = OnSuccess(query) /\ change' = [change EXCEPT !.st = "settling"]
          /\ made' = IF IsLoading(query) THEN made ELSE [made EXCEPT ![change.row] = change.ver]
          /\ UNCHANGED dialog
     ELSE /\ change' = NoChange /\ dialog' = [dialog EXCEPT !.err = TRUE]
          /\ UNCHANGED <<query, made>>
  /\ UNCHANGED <<list, free, known, rows, used, confirm, removals, gone, clicks, events>>

\* After the refetch the dialog closes, also one that was opened since.
ChangeSettles ==
  /\ change.st = "settling" /\ Resting(query)
  /\ change' = NoChange /\ dialog' = NoDialog
  /\ UNCHANGED <<list, free, known, rows, used, query, confirm, removals, gone, made, clicks, events>>

----------------------------------------------------------------------------
(* The query, and other administrators *)

ServeQuery ==
  /\ query.fetch = "sent" /\ ~(list = "alerts" /\ free)
  /\ query' = Answered(query, rows)
  /\ UNCHANGED <<list, free, known, rows, used, confirm, dialog, removals, change, gone, made, clicks, events>>

QueryArrives ==
  /\ query.fetch = "back"
  /\ query' = Loaded(query)
  /\ UNCHANGED <<list, free, known, rows, used, confirm, dialog, removals, change, gone, made, clicks, events>>

\* 403 for the alert rules of a free organization, which is not retried.
QueryFails ==
  /\ query.fetch # "none"
  /\ \/ list = "alerts" /\ free /\ UNCHANGED events
     \/ events < MaxEvents /\ events' = events + 1
  /\ query' = Failed(query)
  /\ UNCHANGED <<list, free, known, rows, used, confirm, dialog, removals, change, gone, made, clicks>>

\* The network is back, or the tab is visited again after 30 s.
Refetch ==
  /\ Resting(query)
  /\ query' = Sent(query)
  /\ UNCHANGED <<list, free, known, rows, used, confirm, dialog, removals, change, gone, made, clicks, events>>

KnownArrives ==
  /\ ~known /\ known' = TRUE
  /\ UNCHANGED <<list, free, rows, used, query, confirm, dialog, removals, change, gone, made, clicks, events>>

Elsewhere(r) ==
  /\ events < MaxEvents /\ events' = events + 1
  /\ rows[r] > 0 /\ rows' = [rows EXCEPT ![r] = 0]
  /\ UNCHANGED <<list, free, known, used, query, confirm, dialog, removals, change, gone, made, clicks>>

Next ==
  \/ \E r \in Rows : AskRemove(r) \/ OpenDialog(r) \/ Elsewhere(r)
  \/ OpenDialog(None) \/ CancelRemove \/ Confirm \/ CloseDialog
  \/ \E x \in removals : ServeRemoval(x) \/ RemovalFails(x) \/ RemovalArrives(x) \/ RemovalSettles(x)
  \/ Submit \/ ServeChange \/ ChangeArrives \/ ChangeSettles
  \/ ServeQuery \/ QueryArrives \/ QueryFails \/ Refetch \/ KnownArrives

Spec == Init /\ [][Next]_vars

----------------------------------------------------------------------------
(* Properties *)

Settled == query.data # None /\ Resting(query) /\ ~query.invalid

\* A row whose removal was confirmed by processing is not on a settled list again: no
\* older answer, of a refetch that was under way, brings it back.
GoneStaysGone == Settled => gone \cap Shown = {}

\* What was made or changed here is on the settled list, at that version or a later
\* one, unless it was removed since.
MadeIsShown == Settled => \A r \in Rows : rows[r] > 0 => query.data[r] >= made[r]
=============================================================================

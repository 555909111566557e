---------------------------- MODULE SettingsForm ----------------------------
(***************************************************************************)
(* The two forms of the settings page (web/src/pages/app/SettingsPage.tsx, *)
(* GeneralTab and PrivacyTab) and the hooks they save with (use-org.ts).   *)
(*                                                                         *)
(* A form is a copy of the settings of an organization, made by an effect  *)
(* whenever the query's data change, and edited by the user; it is not     *)
(* keyed by the organization.  The settings are one value; `from` names    *)
(* the organization whose settings the form was last filled with, and so   *)
(* where the fields come from that the user did not touch.  A save that is *)
(* under way when the page is left goes on; until it is over the next      *)
(* visit does not save (a bound: its button is enabled).                   *)
(***************************************************************************)
EXTENDS Naturals, WebQuery

CONSTANTS
  Tabs,        \* which of the two forms, a subset of {"general", "privacy"}
  Orgs,
  Vals,        \* settings
  MaxEdits,    \* edits of the form (bound)
  MaxEvents    \* switches, visits of another tab, failed requests and changes that
               \* another administrator makes (bound)

ASSUME SettingsAssumption ==
  /\ Tabs \subseteq {"general", "privacy"} /\ None \notin Orgs \cup Vals
  /\ MaxEdits \in Nat /\ MaxEvents \in Nat

VARIABLES
  tab,         \* the form of this behaviour
  visible,     \* is its tab on the screen?
  org,         \* activeOrgID
  settings,    \* processing's settings of each organization
  query,       \* ['org', o] or ['privacy-settings', o]
  mayEdit,     \* the organizations in which the role is known, and is owner or admin
  form,        \* the form's fields, and isDirty
  save,        \* the mutation
  acked,       \* history: the last save whose onSuccess had its own organization fetched again
  edits, events

bounds == <<edits, events>>
vars   == <<tab, visible, org, settings, query, mayEdit, form, save, acked, bounds>>

Version == 0 .. MaxEvents + MaxEdits
Data    == [ver : Version, val : Vals]
ASSUME NoneAssumption == None \notin Data

Form    == [val : Vals \cup {None}, from : Orgs \cup {None}, dirty : BOOLEAN, err : BOOLEAN]

\* `hook` is the organization whose query onSuccess will invalidate, `mine` whether the
\* visible form still awaits the mutation.
Save == [st : {"idle", "sent", "ok", "refused", "settling"}, org : Orgs, hook : Orgs,
         val : Vals \cup {None}, ver : Version, mine : BOOLEAN]

TypeOK ==
  /\ tab \in Tabs /\ visible \in BOOLEAN /\ org \in Orgs
  /\ settings \in [Orgs -> Data] /\ query \in [Orgs -> QueryOf(Data)]
  /\ mayEdit \subseteq Orgs /\ form \in Form /\ save \in Save
  /\ acked \in [Orgs -> Version]
  /\ edits \in 0 .. MaxEdits /\ events \in 0 .. MaxEvents

\* The initial useState: an empty name, or storing on and masking off.
EmptyForm == [val |-> None, from |-> None, dirty |-> FALSE, err |-> FALSE]

Init ==
  /\ tab \in Tabs /\ visible = TRUE /\ org \in Orgs /\ mayEdit = {}
  /\ \E v \in Vals : settings = [o \in Orgs |-> [ver |-> 0, val |-> v]]
  /\ query = [o \in Orgs |-> IF o = org THEN Sent(NewQuery) ELSE NewQuery]
  /\ form = EmptyForm
  /\ save = [st |-> "idle", org |-> org, hook |-> org, val |-> None, ver |-> 0, mine |-> FALSE]
  /\ acked = [o \in Orgs |-> 0]
  /\ edits = 0 /\ events = 0

\* The sidebar's UsageBar uses ['org', o] of the active organization as well.
InUse(o) == o = org /\ (visible \/ tab = "general")

----------------------------------------------------------------------------
(* The form *)

\* Faulty variant: edits are kept when other data arrive.
FilledUnlessDirty(f, o, d) ==
  IF d = None \/ f.dirty THEN f ELSE [f EXCEPT !.val = d.val, !.from = o, !.dirty = FALSE]

\* The effect on the query's data.
Filled(f, o, d) ==
  IF d = None THEN f ELSE [f EXCEPT !.val = d.val, !.from = o, !.dirty = FALSE]

\* PrivacyTab shows no form while it is loading; GeneralTab does.
Editable == visible /\ ~(tab = "privacy" /\ IsLoading(query[org]))

Edit(v) ==
  /\ Editable /\ edits < MaxEdits /\ v # form.val
  /\ edits' = edits + 1
  /\ form' = [form EXCEPT !.val = v, !.dirty = TRUE]
  /\ UNCHANGED <<tab, visible, org, settings, query, mayEdit, save, acked, events>>

CanSave == Editable /\ form.dirty /\ save.st = "idle" /\ org \in mayEdit

\* handleSave, up to its await.
Click ==
  /\ CanSave
  /\ save' = [st |-> "sent", org |-> org, hook |-> org, val |-> form.val, ver |-> 0, mine |-> TRUE]
  /\ form' = [form EXCEPT !.err = FALSE]
  /\ UNCHANGED <<tab, visible, org, settings, query, mayEdit, acked, bounds>>

Stored(o, v) == settings' = [settings EXCEPT ![o] = [ver |-> @.ver + 1, val |-> v]]

\* Processing stores the settings, all of them.
ServeSave ==
  /\ save.st = "sent" /\ settings[save.org].ver < MaxEvents + MaxEdits
  /\ Stored(save.org, save.val)
  /\ save' = [save EXCEPT !.st = "ok", !.ver = settings[save.org].ver + 1]
  /\ UNCHANGED <<tab, visible, org, query, mayEdit, form, acked, bounds>>

\* It refuses them, or the answer is lost.
SaveFails ==
  /\ save.st \in {"sent", "ok"} /\ events < MaxEvents
  /\ events' = events + 1
  /\ save' = [save EXCEPT !.st = "refused"]
  /\ UNCHANGED <<tab, visible, org, settings, query, mayEdit, form, acked, edits>>

\* onSuccess, with the options of the hook's last render: the query of `hook`.
OnSuccess(q, used) == Invalidated(q, used)

\* The invalidation reaches the query it is about: no request that may have been
\* answered before the save goes on.
Heard ==
  LET o == save.org
  IN save.hook = o /\ (Resting(query[o]) \/ (InUse(o) /\ ~IsLoading(query[o])))

SaveArrives ==
  /\ save.st \in {"ok", "refused"}
  /\ IF save.st = "ok"
     THEN /\ query' = [query EXCEPT ![save.hook] = OnSuccess(@, InUse(save.hook))]
          /\ save' = [save EXCEPT !.st = "settling"]
          /\ acked' = IF Heard THEN [acked EXCEPT ![save.org] = save.ver] ELSE acked
          /\ UNCHANGED form
     ELSE /\ save' = [save EXCEPT !.st = "idle"]
          /\ form' = [form EXCEPT !.err = @ \/ save.mine]
          /\ UNCHANGED <<query, acked>>
  /\ UNCHANGED <<tab, visible, org, settings, mayEdit, bounds>>

\* The mutation waits for the refetch; then handleSave goes on, whatever the form is now.
SaveSettles ==
  /\ save.st = "settling" /\ Resting(query[save.hook])
  /\ save' = [save EXCEPT !.st = "idle"]
  /\ form' = [form EXCEPT !.dirty = @ /\ ~save.mine]
  /\ UNCHANGED <<tab, visible, org, settings, query, mayEdit, acked, bounds>>

----------------------------------------------------------------------------
(* The query *)

ServeQuery(o) ==
  /\ query[o].fetch = "sent"
  /\ query' = [query EXCEPT ![o] = Answered(@, settings[o])]
  /\ UNCHANGED <<tab, visible, org, settings, mayEdit, form, save, acked, bounds>>

\* Equal data are the same object to React, and the effect does not run.
QueryArrives(o) ==
  LET old == query[o].data
      new == query[o].got
  IN /\ query[o].fetch = "back"
     /\ query' = [query EXCEPT ![o] = Loaded(@)]
     /\ form' = IF visible /\ o = org /\ (old = None \/ old.val # new.val)
                THEN Filled(form, o, new) ELSE form
     /\ UNCHANGED <<tab, visible, org, settings, mayEdit, save, acked, bounds>>

QueryFails(o) ==
  /\ query[o].fetch # "none" /\ events < MaxEvents
  /\ events' = events + 1
  /\ query' = [query EXCEPT ![o] = Failed(@)]
  /\ UNCHANGED <<tab, visible, org, settings, mayEdit, form, save, acked, edits>>

\* The network is back, and data older than 30 s are fetched again.
Refetch(o) ==
  /\ InUse(o) /\ Resting(query[o])
  /\ query' = [query EXCEPT ![o] = Sent(@)]
  /\ UNCHANGED <<tab, visible, org, settings, mayEdit, form, save, acked, bounds>>

\* useCurrentRole: the user and the members of o are there.
RoleArrives(o) ==
  /\ o \notin mayEdit /\ mayEdit' = mayEdit \cup {o}
  /\ UNCHANGED <<tab, visible, org, settings, query, form, save, acked, bounds>>

----------------------------------------------------------------------------
(* Around the form *)

\* The switcher: the same form goes on with another organization.  A save that waits for its
\* refetch goes on waiting for that one.
Switch(o, stale) ==
  /\ o # org /\ events < MaxEvents
  /\ events' = events + 1
  /\ org' = o
  /\ query' = [query EXCEPT ![o] = IF visible \/ tab = "general" THEN Activated(@, stale) ELSE @]
  /\ form' = IF visible THEN Filled(form, o, query[o].data) ELSE form
  /\ save' = [save EXCEPT !.hook = IF save.mine /\ save.st # "settling" THEN o ELSE @]
  /\ UNCHANGED <<tab, visible, settings, mayEdit, acked, edits>>

\* Another tab and back: the form starts anew.
Visit(stale) ==
  /\ events < MaxEvents /\ events' = events + 1
  /\ visible' = ~visible
  /\ IF visible THEN form' = EmptyForm /\ save' = [save EXCEPT !.mine = FALSE] /\ UNCHANGED query
     ELSE /\ query' = [query EXCEPT ![org] = Activated(@, stale)]
          /\ form' = Filled(EmptyForm, org, query[org].data)
          /\ UNCHANGED save
  /\ UNCHANGED <<tab, org, settings, mayEdit, acked, edits>>

Elsewhere(o, v) ==
  /\ events < MaxEvents /\ events' = events + 1
  /\ settings[o].ver < MaxEvents + MaxEdits
  /\ Stored(o, v)
  /\ UNCHANGED <<tab, visible, org, query, mayEdit, form, save, acked, edits>>

Next ==
  \/ \E v \in Vals : Edit(v) \/ \E o \in Orgs : Elsewhere(o, v)
  \/ Click \/ ServeSave \/ SaveFails \/ SaveArrives \/ SaveSettles
  \/ \E o \in Orgs : ServeQuery(o) \/ QueryArrives(o) \/ QueryFails(o) \/ Refetch(o) \/ RoleArrives(o)
  \/ \E stale \in BOOLEAN : Visit(stale) \/ \E o \in Orgs : Switch(o, stale)

Spec == Init /\ [][Next]_vars

----------------------------------------------------------------------------
(* Properties *)

\* What can be saved into an organization is its own settings, edited: the form was
\* filled from them.  Only two forms are not: the privacy form of an organization
\* whose settings could not be loaded, and a general form whose settings are not there
\* (it is on the screen while they load).
OwnSettings ==
  CanSave =>
    \/ form.from = org
    \/ query[org].data = None /\ (tab = "privacy" => query[org].failed)

\* The form forgets the previous organization as soon as the settings of this one are there.
FilledWhenLoaded ==
  visible /\ query[org].data # None => form.from = org

\* Once the request that follows a save has settled, the cached settings are not older
\* than what was saved, even if a request was under way when it was.  (After a switch
\* during the save it is the other organization's query that is fetched again; a first
\* load goes on, and so does a request of a tab that was left.)
OwnSaveSeen ==
  \A o \in Orgs : query[o].data # None /\ Resting(query[o]) /\ ~query[o].invalid
                    => query[o].data.ver >= acked[o]

\* The form belongs to the organization it is saved into.
FormIsOwn == OwnSettings /\ FilledWhenLoaded
=============================================================================

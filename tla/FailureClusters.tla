-------------------------- MODULE FailureClusters --------------------------
(***************************************************************************)
(* The page of the failure clusters (FailureClustersPage.tsx and           *)
(* use-failure-clusters.ts): a list of the organization's clusters, and in *)
(* its place, once a row was clicked, the sessions of one.                 *)
(*                                                                         *)
(* The page remembers the id of the cluster, also when the organization    *)
(* changes, and each cluster's sessions have a query of their own.         *)
(* Nothing has these queries fetched again but their age.                  *)
(***************************************************************************)
EXTENDS Naturals, WebQuery

CONSTANTS
  Orgs, Clusters,
  OrgOf,         \* the organization of each cluster
  Sessions,      \* failed sessions
  FirstAssigned, \* the sessions of each cluster at the start
  MaxSwitches    \* visits, switches of the organization, failed requests and empty clusters (bound)

VARIABLES
  onScreen,          \* is it the page on the screen?
  activeOrgID,
  selectedClusterID,
  assigned,          \* the sessions that processing has put into each cluster
  clusters,          \* the query of each organization's list
  sessions,          \* the query of each organization and cluster
  switches

vars == <<onScreen, activeOrgID, selectedClusterID, assigned, clusters, sessions, switches>>

\* Faulty variant: the key leaves the cluster out.
KeyOfOrg(o, c) == <<o, CHOOSE x \in Clusters : TRUE>>
\* queryKey of useClusterSessions.
Key(o, c) == <<o, c>>
QueryKeys == {Key(o, c) : o \in Orgs, c \in Clusters}

TypeOK ==
  /\ onScreen \in BOOLEAN /\ activeOrgID \in Orgs
  /\ selectedClusterID \in Clusters \cup {None}
  /\ assigned \in [Clusters -> SUBSET Sessions]
  /\ DOMAIN clusters = Orgs /\ DOMAIN sessions = QueryKeys
  /\ \A o \in Orgs : clusters[o] \in QueryOf(SUBSET Clusters)
  /\ \A k \in QueryKeys : sessions[k] \in QueryOf(SUBSET Sessions)
  /\ switches \in 0 .. MaxSwitches

Init ==
  /\ onScreen = TRUE /\ activeOrgID \in Orgs /\ selectedClusterID = None
  /\ assigned = FirstAssigned
  /\ clusters = [o \in Orgs |-> IF o = activeOrgID THEN Sent(NewQuery) ELSE NewQuery]
  /\ sessions = [k \in QueryKeys |-> NewQuery]
  /\ switches = 0

----------------------------------------------------------------------------
(* The page *)

Listed == IF clusters[activeOrgID].data = None THEN {} ELSE clusters[activeOrgID].data

\* selectedCluster: a cluster that is not on the list leaves the list on the screen.
Selected == selectedClusterID \in Listed
Query    == sessions[Key(activeOrgID, selectedClusterID)]
SessionRows == IF Query.data = None THEN {} ELSE Query.data

\* In place of sessions that could not be fetched it says that there are none.
Screen ==
  IF ~onScreen THEN "none"
  ELSE IF Selected
  THEN IF IsLoading(Query) THEN "loading sessions" ELSE IF SessionRows = {} THEN "no sessions" ELSE "sessions"
  ELSE IF IsLoading(clusters[activeOrgID]) THEN "loading" ELSE IF Listed = {} THEN "empty" ELSE "list"

\* The queries of the page, with organization o and cluster c: one is asked about a
\* cluster of another organization as well.
Use(o, c, stale) ==
  /\ clusters' = [clusters EXCEPT ![o] = Activated(@, stale)]
  /\ sessions' = IF c = None THEN sessions ELSE [sessions EXCEPT ![Key(o, c)] = Activated(@, stale)]

\* A click on a row.
Select(c, stale) ==
  /\ Screen = "list" /\ c \in Listed
  /\ selectedClusterID' = c
  /\ sessions' = [sessions EXCEPT ![Key(activeOrgID, c)] = Activated(@, stale)]
  /\ UNCHANGED <<onScreen, activeOrgID, assigned, clusters, switches>>

Back ==
  /\ onScreen /\ Selected /\ selectedClusterID' = None
  /\ UNCHANGED <<onScreen, activeOrgID, assigned, clusters, sessions, switches>>

\* (Clicked again before the answer it would start over; once is enough here.)
Retry ==
  /\ onScreen /\ ~Selected /\ IsError(clusters[activeOrgID]) /\ Resting(clusters[activeOrgID])
  /\ clusters' = [clusters EXCEPT ![activeOrgID] = Sent(@)]
  /\ UNCHANGED <<onScreen, activeOrgID, selectedClusterID, assigned, sessions, switches>>

\* The organization switcher; the page stays, and with it what was selected.
Switch(o, stale) ==
  /\ onScreen /\ o # activeOrgID /\ switches < MaxSwitches
  /\ switches' = switches + 1 /\ activeOrgID' = o
  /\ Use(o, selectedClusterID, stale)
  /\ UNCHANGED <<onScreen, selectedClusterID, assigned>>

\* Another page, or this one again, where nothing is selected.
Visit(stale) ==
  /\ switches < MaxSwitches /\ switches' = switches + 1
  /\ onScreen' = ~onScreen /\ selectedClusterID' = None
  /\ IF onScreen THEN UNCHANGED <<clusters, sessions>> ELSE Use(activeOrgID, None, stale)
  /\ UNCHANGED <<activeOrgID, assigned>>

----------------------------------------------------------------------------
(* The queries, and processing *)

\* ListFailureClusters: a cluster is inserted before its first session is linked to it, and
\* listed without one in between.
ServeClusters(o, inserted) ==
  /\ clusters[o].fetch = "sent"
  /\ switches' = switches + (IF inserted = None THEN 0 ELSE 1) /\ switches' <= MaxSwitches
  /\ clusters' = [clusters EXCEPT ![o] =
                    Answered(@, {c \in Clusters : OrgOf[c] = o /\ (assigned[c] # {} \/ c = inserted)})]
  /\ UNCHANGED <<onScreen, activeOrgID, selectedClusterID, assigned, sessions>>

ClustersArrive(o) ==
  /\ clusters[o].fetch = "back" /\ clusters' = [clusters EXCEPT ![o] = Loaded(@)]
  /\ UNCHANGED <<onScreen, activeOrgID, selectedClusterID, assigned, sessions, switches>>

ClustersFail(o) ==
  /\ clusters[o].fetch # "none" /\ switches < MaxSwitches
  /\ switches' = switches + 1 /\ clusters' = [clusters EXCEPT ![o] = Failed(@)]
  /\ UNCHANGED <<onScreen, activeOrgID, selectedClusterID, assigned, sessions>>

\* ListSessionsByCluster: of another organization's cluster there are none.
ServeSessions(o, c) ==
  /\ sessions[Key(o, c)].fetch = "sent"
  /\ sessions' = [sessions EXCEPT ![Key(o, c)] =
                    Answered(@, IF OrgOf[c] = o THEN assigned[c] ELSE {})]
  /\ UNCHANGED <<onScreen, activeOrgID, selectedClusterID, assigned, clusters, switches>>

SessionsArrive(k) ==
  /\ sessions[k].fetch = "back" /\ sessions' = [sessions EXCEPT ![k] = Loaded(@)]
  /\ UNCHANGED <<onScreen, activeOrgID, selectedClusterID, assigned, clusters, switches>>

SessionsFail(k) ==
  /\ sessions[k].fetch # "none" /\ switches < MaxSwitches
  /\ switches' = switches + 1 /\ sessions' = [sessions EXCEPT ![k] = Failed(@)]
  /\ UNCHANGED <<onScreen, activeOrgID, selectedClusterID, assigned, clusters>>

\* The intelligence pipeline puts a session into one cluster, in one transaction.
Assign(s, c) ==
  /\ \A x \in Clusters : s \notin assigned[x]
  /\ assigned' = [assigned EXCEPT ![c] = @ \cup {s}]
  /\ UNCHANGED <<onScreen, activeOrgID, selectedClusterID, clusters, sessions, switches>>

Next ==
  \/ \E c \in Clusters, stale \in BOOLEAN : Select(c, stale)
  \/ \E o \in Orgs, stale \in BOOLEAN : Switch(o, stale)
  \/ \E stale \in BOOLEAN : Visit(stale)
  \/ Back \/ Retry
  \/ \E o \in Orgs, c \in Clusters \cup {None} : ServeClusters(o, c)
  \/ \E o \in Orgs : ClustersArrive(o) \/ ClustersFail(o)
  \/ \E o \in Orgs, c \in Clusters : ServeSessions(o, c)
  \/ \E k \in QueryKeys : SessionsArrive(k) \/ SessionsFail(k)
  \/ \E s \in Sessions, c \in Clusters : Assign(s, c)

Spec == Init /\ [][Next]_vars

----------------------------------------------------------------------------
(* Properties *)

\* What is listed under a cluster's name are sessions of that cluster and of the
\* organization that is active, however the organization and the cluster changed while
\* requests were under way.
RowsAreItsOwn ==
  Screen = "sessions" => OrgOf[selectedClusterID] = activeOrgID /\ SessionRows \subseteq assigned[selectedClusterID]
=============================================================================

---------------------------- MODULE MCWebPages ----------------------------
(***************************************************************************)
(* Instances for TLC of the pages of the web client, all in one run: a     *)
(* behaviour is that of one page, with its own query and its own dialogs,  *)
(* and the variables of the others stay None.  A variable that two modules *)
(* declare is here the same one.                                           *)
(***************************************************************************)
EXTENDS SettingsForm

CONSTANTS
  oa, ob, v1,                                     \* organizations, settings
  Lists, Rows, FirstRows, MaxClicks, MaxListEvents,
  Keys, FirstKeys, Custom, Countdown, MaxTests, MaxLeft,
  MaxPosts, MaxProEvents,
  Tickets, Messages, FirstTickets, MaxTexts, MaxSupportEvents,
  Size, Times, Lengths,
  Clusters,
  ClustersOfB,                                    \* those of ob; the others are oa's
  FirstClusters, Sessions, FirstSessions,         \* the clusters that have sessions, and which
  MaxSwitches,
  Counts, Limit

VARIABLES
  page, mounted,
  list, free, known, rows, used, confirm, dialog, removals, change, gone, made, clicks,
  keys, create, raw, copied, countdown, intervals, elapsed, shown, row, rawTest, tests,
  pending, verdict, count, left,
  billing, me, intent, dialogs, wrote, posts, requested,
  view, visits, open, text, texts, sends, stored,
  spans, done, lane, laneCount, laneEnds,
  activeOrgID,
  onScreen, selectedClusterID, assigned, clusters, sessions, switches,
  shell, plan, usage, warned, flag, toasts

L == INSTANCE OrgLists WITH First <- FirstRows, MaxEvents <- MaxListEvents
K == INSTANCE KeysPage WITH First <- FirstKeys
P == INSTANCE ProRequest WITH MaxEvents <- MaxProEvents
U == INSTANCE Support WITH MaxEvents <- MaxSupportEvents
W == INSTANCE Waterfall
F == INSTANCE FailureClusters WITH
       OrgOf <- [c \in Clusters |-> IF c \in ClustersOfB THEN ob ELSE oa],
       FirstAssigned <- [c \in Clusters |-> IF c \in FirstClusters THEN FirstSessions ELSE {}]
B == INSTANCE UsageBar WITH Unknown <- None

\* What the theorems assume of each page's constants.
ASSUME ListsAssumption ==
  /\ FirstRows \subseteq Rows /\ MaxClicks \in Nat \ {0} /\ MaxListEvents \in Nat
  /\ None \notin Rows /\ None \notin L!Table
ASSUME KeysAssumption ==
  /\ FirstKeys \subseteq Keys /\ None \notin Keys
  /\ Countdown \in Nat \ {0} /\ MaxTests \in Nat /\ MaxLeft \in Nat
ASSUME ProAssumption ==
  MaxPosts \in Nat /\ MaxProEvents \in Nat /\ None \notin {"yes", "no"}
ASSUME SupportAssumption ==
  /\ FirstTickets \subseteq Tickets /\ MaxTexts \in Nat /\ MaxSupportEvents \in Nat
  /\ Tickets \cap Messages = {}
  /\ \A S \in SUBSET (Tickets \cup Messages) : S # None
ASSUME TimelineAssumption == W!WaterfallAssumption
ASSUME ClustersAssumption ==
  /\ {oa, ob} \subseteq Orgs /\ FirstSessions \subseteq Sessions /\ MaxSwitches \in Nat
  /\ None \notin Clusters
ASSUME BarAssumption == B!UsageAssumption

----------------------------------------------------------------------------
(* The variables that only one module declares, and their rest *)

SOwn == <<tab, visible, org, settings, mayEdit, form, save, edits>>
LOwn == <<list, known, rows, used, confirm, dialog, removals, change, gone, made, clicks>>
KOwn == <<mounted, keys, create, raw, copied, countdown, intervals, elapsed, shown, row,
          rawTest, tests, pending, verdict, left>>
POwn == <<billing, me, intent, dialogs, wrote, posts, requested>>
UOwn == <<view, visits, open, text, texts, sends, stored>>
WOwn == <<spans, done, lane, laneCount, laneEnds>>
FOwn == <<onScreen, selectedClusterID, assigned, clusters, sessions, switches>>
BOwn == <<shell, plan, usage, warned, flag, toasts>>

SIdle ==
  /\ tab = None /\ visible = FALSE /\ org = None /\ settings = None /\ mayEdit = None
  /\ form = None /\ save = None /\ edits = None
LIdle ==
  /\ list = None /\ known = None /\ rows = None /\ used = None /\ confirm = None
  /\ dialog = None /\ removals = None /\ change = None /\ gone = None /\ made = None
  /\ clicks = None
KIdle ==
  /\ mounted = None /\ keys = None /\ create = None /\ raw = None /\ copied = None
  /\ countdown = None
  /\ intervals = None /\ elapsed = None /\ shown = None /\ row = None /\ rawTest = None
  /\ tests = None /\ pending = None /\ verdict = None /\ left = None
PIdle ==
  /\ billing = None /\ me = None /\ intent = None /\ dialogs = None /\ wrote = None
  /\ posts = None /\ requested = None
UIdle ==
  /\ view = None /\ visits = None /\ open = None /\ text = None /\ texts = None
  /\ sends = None /\ stored = None
WIdle ==
  /\ spans = None /\ done = None /\ lane = None /\ laneCount = None /\ laneEnds = None
FIdle ==
  /\ onScreen = None /\ selectedClusterID = None /\ assigned = None /\ clusters = None
  /\ sessions = None /\ switches = None
BIdle ==
  /\ shell = None /\ plan = None /\ usage = None /\ warned = None /\ flag = None /\ toasts = None

\* (The organizations and the settings are interchangeable, and free only matters to two
\* of the lists.)
MCInit ==
  \/ /\ page = "settings" /\ Init /\ org = oa /\ settings[oa].val = v1
     /\ LIdle /\ KIdle /\ PIdle /\ UIdle /\ WIdle /\ FIdle /\ BIdle
     /\ free = None /\ count = None /\ activeOrgID = None
  \/ /\ page = "lists" /\ L!Init /\ (free => list \in {"members", "alerts"})
     /\ SIdle /\ KIdle /\ PIdle /\ UIdle /\ WIdle /\ FIdle /\ BIdle
     /\ acked = None /\ count = None /\ activeOrgID = None
  \/ /\ page = "keys" /\ K!Init
     /\ SIdle /\ LIdle /\ PIdle /\ UIdle /\ WIdle /\ FIdle /\ BIdle
     /\ query = None /\ events = None /\ free = None /\ acked = None /\ activeOrgID = None
  \/ /\ page = "pro" /\ P!Init
     /\ SIdle /\ LIdle /\ KIdle /\ UIdle /\ WIdle /\ FIdle /\ BIdle
     /\ acked = None /\ activeOrgID = None
  \/ /\ page = "support" /\ U!Init
     /\ SIdle /\ LIdle /\ KIdle /\ PIdle /\ WIdle /\ FIdle /\ BIdle
     /\ free = None /\ count = None /\ activeOrgID = None
  \/ /\ page \in {"timeline", "clusters", "usage"}
     /\ SIdle /\ LIdle /\ KIdle /\ PIdle /\ UIdle
     /\ query = None /\ events = None /\ free = None /\ acked = None /\ count = None
     /\ \/ page = "timeline" /\ W!Init /\ FIdle /\ BIdle /\ activeOrgID = None
        \/ page = "clusters" /\ F!Init /\ WIdle /\ BIdle
        \/ page = "usage" /\ B!Init /\ WIdle /\ FIdle

MCNext ==
  /\ UNCHANGED page
  /\ \/ /\ page = "settings" /\ Next
        /\ UNCHANGED <<LOwn, KOwn, POwn, UOwn, WOwn, FOwn, BOwn, free, count, activeOrgID>>
     \/ /\ page = "lists" /\ L!Next
        /\ UNCHANGED <<SOwn, KOwn, POwn, UOwn, WOwn, FOwn, BOwn, acked, count, activeOrgID>>
     \/ /\ page = "keys" /\ K!Next
        /\ UNCHANGED <<SOwn, LOwn, POwn, UOwn, WOwn, FOwn, BOwn, query, events, free, acked, activeOrgID>>
     \/ /\ page = "pro" /\ P!Next
        /\ UNCHANGED <<SOwn, LOwn, KOwn, UOwn, WOwn, FOwn, BOwn, acked, activeOrgID>>
     \/ /\ page = "support" /\ U!Next
        /\ UNCHANGED <<SOwn, LOwn, KOwn, POwn, WOwn, FOwn, BOwn, free, count, activeOrgID>>
     \/ /\ page \in {"timeline", "clusters", "usage"}
        /\ UNCHANGED <<SOwn, LOwn, KOwn, POwn, UOwn, query, events, free, acked, count>>
        /\ \/ page = "timeline" /\ W!Next /\ UNCHANGED <<FOwn, BOwn, activeOrgID>>
           \/ page = "clusters" /\ F!Next /\ UNCHANGED <<WOwn, BOwn>>
           \/ page = "usage" /\ B!Next /\ UNCHANGED <<WOwn, FOwn>>

allVars == <<page, query, events, acked, free, count, activeOrgID,
             SOwn, LOwn, KOwn, POwn, UOwn, WOwn, FOwn, BOwn>>

\* The fairness of Support.
UVars == U!vars

MCFairness ==
  /\ WF_UVars(page = "support" /\ U!Poll)
  /\ \A p \in {"list", "ticket"} : /\ WF_UVars(page = "support" /\ U!ServeQuery(p))
                                   /\ WF_UVars(page = "support" /\ U!QueryArrives(p))

MCSpec == MCInit /\ [][MCNext]_allVars /\ MCFairness

----------------------------------------------------------------------------
(* The properties of the modules, each on its page *)

On(p, property) == page = p => property

\* SettingsForm's FormIsOwn speaks of a form that is visible: elsewhere none is.

\* What was done from here is seen here: a page that holds a cached answer does not show,
\* once its requests have settled, less than what this browser was told is stored: saved
\* settings, rows that were removed, added or changed, messages that were sent.
OwnWritesSeen ==
  /\ On("settings", TypeOK /\ OwnSaveSeen)
  /\ On("lists", L!TypeOK /\ L!GoneStaysGone /\ L!MadeIsShown)
  /\ On("support", U!TypeOK /\ U!MineIsShown)

\* Support: a reply appears on a ticket that stays open.
RepliesAppear ==
  \A m \in Messages :
    page = "support" /\ m \in stored ~> view # "ticket" \/ m \in U!Shown("ticket")

\* KeysPage: the secret is shown for its whole countdown, timed by one interval, and a
\* row tells the result of its own test.
SecretIsTimed ==
  On("keys", K!TypeOK /\ K!CountdownIsWhole /\ K!TimedWhileShown /\ K!RowTellsItsOwn)

\* ProRequest: what the dialog says is true of the latest request, and what is typed into
\* it stays until it is closed.
DialogIsTrue == On("pro", P!TypeOK /\ P!ThanksIsTrue /\ P!TextStays /\ P!ErrorIsCurrent)

\* Waterfall: the spans of a lane do not overlap in time, no lane is in vain, the bars lie
\* within the chart, and those of a lane overlap only by what the least width adds.
TimelineReads ==
  On("timeline", W!TypeOK /\ W!NoOverlap /\ W!LanesNeeded /\ W!BarsFit /\ W!BarsApart)

\* FailureClusters: the sessions under a cluster's name are its own.
RowsAreItsOwn == On("clusters", F!TypeOK /\ F!RowsAreItsOwn)

\* UsageBar: whoever sees a bar that is nearly full has been warned, once in a browser
\* session.
WarnedJustOnce == On("usage", B!TypeOK /\ B!WarnedOnce /\ B!WarnedWhenNear)
=============================================================================

------------------------------ MODULE UsageBar ------------------------------
(***************************************************************************)
(* The usage bar of a free plan (web/src/components/app/UsageBar.tsx) and  *)
(* its warning.  The shell renders the sidebar twice, for wide and for     *)
(* narrow screens, and so there are two bars, both mounted; a style sheet  *)
(* hides one.  Each keeps a ref; what both know of each other is a flag in *)
(* the tab's sessionStorage, which a page load does not clear.             *)
(*                                                                         *)
(* An answer may be of any time: the counts and plans a response can carry *)
(* are the environment's choice.                                           *)
(***************************************************************************)
EXTENDS Naturals

CONSTANTS
  Orgs,
  Counts,     \* spans_used
  Limit,      \* FreeSpanLimit
  Unknown     \* no data

\* What the theorems assume.
UsageAssumption ==
  /\ Counts \subseteq Nat /\ Limit \in Nat \ {0} /\ Unknown \notin {"free", "pro"}

VARIABLES
  shell,        \* is the shell on the screen?
  activeOrgID,
  plan,         \* the cached plan of each organization
  usage,        \* its cached usage
  warned,       \* warningShownRef of each bar
  flag,         \* usageWarningShown in sessionStorage
  toasts        \* history: the warnings of this tab

vars == <<shell, activeOrgID, plan, usage, warned, flag, toasts>>

Bars  == {"desktop", "mobile"}
Plans == {"free", "pro"}
Usage == [used : Counts, limit : {0, Limit}]

TypeOK ==
  /\ shell \in BOOLEAN /\ activeOrgID \in Orgs
  /\ plan \in [Orgs -> Plans \cup {Unknown}] /\ usage \in [Orgs -> Usage \cup {Unknown}]
  /\ warned \in [Bars -> BOOLEAN] /\ flag \in BOOLEAN /\ toasts \in Nat

Init ==
  /\ shell = FALSE /\ activeOrgID \in Orgs
  /\ plan = [o \in Orgs |-> Unknown] /\ usage = [o \in Orgs |-> Unknown]
  /\ warned = [b \in Bars |-> FALSE] /\ flag = FALSE /\ toasts = 0

----------------------------------------------------------------------------
\* isFree, and the usage is known: the bar is drawn.
Drawn(p, u) == p = "free" /\ u # Unknown

\* pct >= 80, where a limit of 0 counts as 0 percent.
Near(u) == u.limit > 0 /\ u.used * 100 >= 80 * u.limit

\* Faulty variant: a bar only looks at its own ref.
WarnsByRef(p, u, w, f) == Drawn(p, u) /\ ~w /\ Near(u)
\* The condition of the effect of a bar with ref w when the flag is f.
Warns(p, u, w, f) == Drawn(p, u) /\ ~w /\ Near(u) /\ ~f

\* The effects of the two bars, one after the other, as the shell is committed with plan p
\* and usage u.  (They run when one of these changes; otherwise they would do nothing.)
Effects(p, u, w) ==
  LET first  == Warns(p, u, w["desktop"], flag)
      second == Warns(p, u, w["mobile"], flag \/ first)
  IN /\ warned' = [b \in Bars |-> w[b] \/ (IF b = "desktop" THEN first ELSE second)]
     /\ flag' = (flag \/ first \/ second)
     /\ toasts' = toasts + (IF first THEN 1 ELSE 0) + (IF second THEN 1 ELSE 0)

Rest == UNCHANGED <<warned, flag, toasts>>

\* Into the shell: the bars are mounted.
Enter ==
  /\ ~shell /\ shell' = TRUE
  /\ Effects(plan[activeOrgID], usage[activeOrgID], [b \in Bars |-> FALSE])
  /\ UNCHANGED <<activeOrgID, plan, usage>>

\* To a page without the sidebar: the bars and their refs are gone.
Leave ==
  /\ shell /\ shell' = FALSE /\ warned' = [b \in Bars |-> FALSE]
  /\ UNCHANGED <<activeOrgID, plan, usage, flag, toasts>>

\* Another page load (or a logout, which is one): only sessionStorage stays.
Reload ==
  /\ shell' = FALSE /\ warned' = [b \in Bars |-> FALSE]
  /\ plan' = [o \in Orgs |-> Unknown] /\ usage' = [o \in Orgs |-> Unknown]
  /\ UNCHANGED <<activeOrgID, flag, toasts>>

\* The bars are not keyed by the organization: their refs stay.
Switch(o) ==
  /\ shell /\ activeOrgID' = o
  /\ Effects(plan[o], usage[o], warned)
  /\ UNCHANGED <<shell, plan, usage>>

\* An answer to useOrg.
PlanArrives(o, p) ==
  /\ plan' = [plan EXCEPT ![o] = p]
  /\ IF shell /\ o = activeOrgID THEN Effects(p, usage[o], warned) ELSE Rest
  /\ UNCHANGED <<shell, activeOrgID, usage>>

\* An answer to useUsage; its limit is that of the plan as it was answered.
UsageArrives(o, u) ==
  /\ usage' = [usage EXCEPT ![o] = u]
  /\ IF shell /\ o = activeOrgID THEN Effects(plan[o], u, warned) ELSE Rest
  /\ UNCHANGED <<shell, activeOrgID, plan>>

Next ==
  \/ Enter \/ Leave \/ Reload
  \/ \E o \in Orgs : Switch(o)
  \/ \E o \in Orgs, p \in Plans : PlanArrives(o, p)
  \/ \E o \in Orgs, u \in Usage : UsageArrives(o, u)

Spec == Init /\ [][Next]_vars

----------------------------------------------------------------------------
(* Properties *)

\* The user is warned once per browser session, though there are two bars, and whatever
\* page loads, organizations and counts there were.
WarnedOnce == toasts <= 1

\* Whoever sees a bar at four fifths of the limit has been warned, in whatever order the
\* plan and the usage arrived.
WarnedWhenNear ==
  \A o \in Orgs :
    /\ shell /\ o = activeOrgID /\ plan[o] = "free" /\ usage[o] # Unknown
    /\ usage[o].limit # 0 /\ usage[o].used * 5 >= usage[o].limit * 4
    => toasts > 0
=============================================================================

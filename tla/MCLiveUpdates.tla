--------------------------- MODULE MCLiveUpdates ---------------------------
(***************************************************************************)
(* Instances of LiveUpdates for TLC, two in one run: one about the         *)
(* sockets, with nothing stored, any page after any page and two failures; *)
(* and one about the queries, with one failure and a tour of the pages.    *)
(***************************************************************************)
EXTENDS LiveUpdates

CONSTANTS s1, s2, s3

ThreeSockets == {s1, s2, s3}

OnlyDash     == {"dash"}
AllPages     == {"dash", "sessions", "detail"}

\* Any page after any page.
Anywhere(live) == [p \in live \cup {"other"} |-> live \cup {"other"}]
OnDash         == Anywhere(OnlyDash)
Everywhere     == Anywhere(AllPages)

\* The dashboard and then the session page; the list, left and visited again.
Tour == [p \in AllPages \cup {"other"} |->
           CASE p = "dash"     -> {"detail"}
             [] p = "sessions" -> {"other"}
             [] p = "detail"   -> {}
             [] OTHER          -> {"sessions"}]

VARIABLE about   \* which of the two

MCInit ==
  /\ Init
  /\ about \in {"sockets", "queries"}
  /\ about = "sockets" => view # "sessions"

MCNext ==
  /\ Next
  /\ about = "sockets" => stored' = 0 /\ keys' = 0 /\ view' # "sessions"
  /\ about = "queries" => /\ faults' < 2 /\ view' \in Tour[view] \cup {view}
                          /\ \A e \in Effects : eff'[e].attempt < 2
                          /\ Free(s3)'
  /\ UNCHANGED about

MCSpec == MCInit /\ [][MCNext]_<<vars, about>> /\ Fairness
=============================================================================

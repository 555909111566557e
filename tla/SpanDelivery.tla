---------------------------- MODULE SpanDelivery ----------------------------
(***************************************************************************)
(* What the span dispatcher promises to the request handlers, without its  *)
(* channel, goroutines and counters: every span is either accepted or      *)
(* dropped, once; an accepted span is later delivered or lost, once, or is *)
(* still pending; at most Capacity spans are pending at a time; and after  *)
(* the dispatcher stopped no span is accepted any more.                    *)
(***************************************************************************)
EXTENDS Naturals, FiniteSets

CONSTANTS Spans, Capacity

VARIABLES
  status,   \* status[s]
  stopped   \* no more spans are accepted

Statuses == {"new", "pending", "dropped", "delivered", "lost"}
Pending  == {s \in Spans : status[s] = "pending"}

Init ==
  /\ status = [s \in Spans |-> "new"]
  /\ stopped = FALSE

Become(s, from, to) ==
  /\ status[s] = from
  /\ status' = [status EXCEPT ![s] = to]
  /\ UNCHANGED stopped

Accept(s)  == ~stopped /\ Cardinality(Pending) < Capacity /\ Become(s, "new", "pending")
Drop(s)    == Become(s, "new", "dropped")
Deliver(s) == Become(s, "pending", "delivered")
Lose(s)    == Become(s, "pending", "lost")
Stop       == stopped' = TRUE /\ UNCHANGED status

Next ==
  \/ \E s \in Spans : Accept(s) \/ Drop(s) \/ Deliver(s) \/ Lose(s)
  \/ Stop

Spec == Init /\ [][Next]_<<status, stopped>>
=============================================================================

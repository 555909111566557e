------------------------------ MODULE Support ------------------------------
(***************************************************************************)
(* The support pages of the web client (SupportPage.tsx, the tickets, and  *)
(* SupportTicketPage.tsx, the messages of one) and the hooks of            *)
(* use-support.ts.  The billing service, another program, keeps the        *)
(* tickets and the messages, and its staff replies.                        *)
(*                                                                         *)
(* Each page has one field of text (that of a new ticket is a subject and  *)
(* a body) and sends it with one mutation.                                 *)
(***************************************************************************)
EXTENDS Naturals, FiniteSets, WebQuery

CONSTANTS
  Tickets, Messages,   \* those there are or may be
  FirstTickets,        \* the tickets there are at the start; one of them is looked at
  MaxTexts,            \* texts that are typed (bound)
  MaxEvents            \* changes of the page and failures (bound)

VARIABLES
  view,        \* the page, or "other"
  visits,      \* how often a page was opened: what a page sent before is not its own
  open,        \* is the form of a new ticket open?
  text,        \* what is in the field: the latest text typed, 0 for none
  texts,       \* the texts typed so far
  sends,       \* the requests under way
  stored,      \* what the billing service keeps
  query,       \* the query of each page
  acked,       \* history: what was sent, and fetched again once that was acknowledged
  events

vars == <<view, visits, open, text, texts, sends, stored, query, acked, events>>

Pages   == {"list", "ticket"}
Items   == Tickets \cup Messages
Of(p)   == IF p = "list" THEN Tickets ELSE Messages
Send    == [page : Pages, visit : 0 .. MaxEvents, text : 1 .. MaxTexts, item : Items,
            st : {"sent", "ok", "failed"}]

TypeOK ==
  /\ view \in Pages \cup {"other"} /\ visits \in 0 .. MaxEvents /\ open \in BOOLEAN
  /\ text \in 0 .. MaxTexts /\ texts \in 0 .. MaxTexts
  /\ sends \subseteq Send /\ stored \subseteq Items
  /\ \A p \in Pages : query[p] \in QueryOf(SUBSET Of(p))
  /\ acked \subseteq Items /\ events \in 0 .. MaxEvents

Init ==
  /\ view = "list" /\ visits = 0 /\ open = FALSE /\ text = 0 /\ texts = 0 /\ sends = {}
  /\ stored = FirstTickets
  /\ query = [p \in Pages |-> IF p = "list" THEN Sent(NewQuery) ELSE NewQuery]
  /\ acked = {} /\ events = 0

Shown(p) == IF query[p].data = None THEN {} ELSE query[p].data

\* The list, or the messages.  The list hides its rows behind an error; the messages
\* stay, and have neither a skeleton nor an empty state.
Screen ==
  IF view = "ticket" THEN (IF IsError(query["ticket"]) THEN "rows and error" ELSE "rows")
  ELSE IF IsLoading(query["list"]) THEN "loading"
  ELSE IF IsError(query["list"]) THEN "error"
  ELSE IF Shown("list") = {} THEN "empty" ELSE "rows"

----------------------------------------------------------------------------
(* The pages *)

\* A ticket is opened from its row.  The other page's form and its text are gone.
Go(p, stale) ==
  /\ p # view /\ events < MaxEvents
  /\ p = "ticket" => view = "list" /\ Screen = "rows"
  /\ events' = events + 1 /\ visits' = visits + 1
  /\ view' = p /\ open' = FALSE /\ text' = 0
  /\ query' = IF p \in Pages THEN [query EXCEPT ![p] = Activated(@, stale)] ELSE query
  /\ UNCHANGED <<texts, sends, stored, acked>>

\* "New ticket", also on the empty list.
Toggle ==
  /\ view = "list" /\ open' = ~open
  /\ UNCHANGED <<view, visits, text, texts, sends, stored, query, acked, events>>

Field == view = "ticket" \/ (view = "list" /\ open)

\* The field is not disabled while its text is being sent.
Type ==
  /\ Field /\ texts < MaxTexts
  /\ texts' = texts + 1 /\ text' = texts + 1
  /\ UNCHANGED <<view, visits, open, sends, stored, query, acked, events>>

Mine(x) == x.page = view /\ x.visit = visits
Given   == stored \cup {x.item : x \in sends}

\* submit, send: the button waits for the page's own request.
Submit ==
  /\ Field /\ text # 0 /\ ~\E x \in sends : Mine(x)
  /\ \E i \in Of(view) \ Given :
       sends' = sends \cup {[page |-> view, visit |-> visits, text |-> text, item |-> i, st |-> "sent"]}
  /\ UNCHANGED <<view, visits, open, text, texts, stored, query, acked, events>>

Moved(x, st) == (sends \ {x}) \cup {[x EXCEPT !.st = st]}

ServeSend(x) ==
  /\ x \in sends /\ x.st = "sent"
  /\ stored' = stored \cup {x.item} /\ sends' = Moved(x, "ok")
  /\ UNCHANGED <<view, visits, open, text, texts, query, acked, events>>

\* It is refused or its answer is lost.
SendFails(x) ==
  /\ x \in sends /\ x.st # "failed" /\ events < MaxEvents
  /\ events' = events + 1 /\ sends' = Moved(x, "failed")
  /\ UNCHANGED <<view, visits, open, text, texts, stored, query, acked>>

\* onSuccess: the key of the tickets is a prefix of that of the messages, and so a new
\* ticket has the messages fetched again as well.
OnSuccess(p) == [q \in Pages |-> Invalidated(query[q], q = view)]

\* The refetch cannot miss the item: a first load goes on, and so does a request of a page
\* that was left, whose answer then counts as fresh.
Heard(p) == Resting(query[p]) \/ (p = view /\ ~IsLoading(query[p]))

\* Then the page goes on without waiting for the refetch: it empties the field, also of
\* what was typed meanwhile.  A failure leaves the text, and says nothing.
SendArrives(x) ==
  /\ x \in sends /\ x.st # "sent"
  /\ sends' = sends \ {x}
  /\ IF x.st = "ok"
     THEN /\ query' = OnSuccess(x.page)
          /\ acked' = IF Heard(x.page) THEN acked \cup {x.item} ELSE acked
          /\ text' = (IF Mine(x) THEN 0 ELSE text) /\ open' = (open /\ ~Mine(x))
     ELSE UNCHANGED <<query, acked, text, open>>
  /\ UNCHANGED <<view, visits, texts, stored, events>>

----------------------------------------------------------------------------
(* The queries, and the staff *)

ServeQuery(p) ==
  /\ query[p].fetch = "sent"
  /\ query' = [query EXCEPT ![p] = Answered(@, stored \cap Of(p))]
  /\ UNCHANGED <<view, visits, open, text, texts, sends, stored, acked, events>>

QueryArrives(p) ==
  /\ query[p].fetch = "back" /\ query' = [query EXCEPT ![p] = Loaded(@)]
  /\ UNCHANGED <<view, visits, open, text, texts, sends, stored, acked, events>>

\* The request and its retry (none for 401) fail.
QueryFails(p) ==
  /\ query[p].fetch # "none" /\ events < MaxEvents
  /\ events' = events + 1 /\ query' = [query EXCEPT ![p] = Failed(@)]
  /\ UNCHANGED <<view, visits, open, text, texts, sends, stored, acked>>

\* The Retry link.  (Clicked again before the answer it would start over; once is enough
\* here.)
Retry ==
  /\ view \in Pages /\ IsError(query[view]) /\ Resting(query[view])
  /\ query' = [query EXCEPT ![view] = Sent(@)]
  /\ UNCHANGED <<view, visits, open, text, texts, sends, stored, acked, events>>

\* Faulty variant: an error ends the polling.
PollDueUnlessError == view = "ticket" /\ Resting(query["ticket"]) /\ ~IsError(query["ticket"])
\* refetchInterval: every 5 s, while the messages are on the screen.
PollDue == view = "ticket" /\ Resting(query["ticket"])

Poll ==
  /\ PollDue
  /\ query' = [query EXCEPT !["ticket"] = Sent(@)]
  /\ UNCHANGED <<view, visits, open, text, texts, sends, stored, acked, events>>

Reply(m) ==
  /\ m \in Messages \ Given /\ stored' = stored \cup {m}
  /\ UNCHANGED <<view, visits, open, text, texts, sends, query, acked, events>>

Next ==
  \/ \E p \in Pages \cup {"other"}, stale \in BOOLEAN : Go(p, stale)
  \/ Toggle \/ Type \/ Submit \/ Retry \/ Poll
  \/ \E x \in sends : ServeSend(x) \/ SendFails(x) \/ SendArrives(x)
  \/ \E p \in Pages : ServeQuery(p) \/ QueryArrives(p) \/ QueryFails(p)
  \/ \E m \in Messages : Reply(m)

\* The timer runs, and requests that do not fail are answered.
Fairness ==
  /\ WF_vars(Poll)
  /\ \A p \in Pages : WF_vars(ServeQuery(p)) /\ WF_vars(QueryArrives(p))

Spec == Init /\ [][Next]_vars /\ Fairness

----------------------------------------------------------------------------
(* Properties *)

\* What was sent from here is on the page once its requests have settled: the answer of
\* a poll that was under way does not take it away again.
MineIsShown ==
  \A p \in Pages :
    p = view /\ query[p].data # None /\ Resting(query[p]) /\ ~query[p].invalid
      => acked \cap Of(p) \subseteq Shown(p)

\* A reply appears on a ticket that stays open, whatever failed before.
RepliesAppear ==
  \A m \in Messages : m \in stored ~> view # "ticket" \/ m \in Shown("ticket")
=============================================================================

------------------------------ MODULE WebQuery ------------------------------
(***************************************************************************)
(* One entry of the web client's query cache (TanStack Query v5), as far   *)
(* as the pages' hooks use it: useQuery, invalidateQueries, setQueryData   *)
(* and the flags isLoading and isError.  No code of the repository; the    *)
(* options are those of web/src/lib/queryClient.ts.                        *)
(***************************************************************************)
CONSTANT None   \* no data

QueryOf(D) == [data : D \cup {None}, invalid : BOOLEAN, failed : BOOLEAN,
               fetch : {"none", "sent", "back"}, got : D \cup {None}]

NewQuery == [data |-> None, invalid |-> FALSE, failed |-> FALSE, fetch |-> "none", got |-> None]

IsLoading(q) == q.data = None /\ q.fetch # "none"
IsError(q)   == q.failed
Resting(q)   == q.fetch = "none"

\* A request; one that has no data to keep starts as a first load again.
Sent(q) == [q EXCEPT !.fetch = "sent", !.got = None, !.failed = @ /\ q.data # None]

\* A component that uses the query is mounted, or its key changes to this one.
Activated(q, stale) ==
  IF Resting(q) /\ (q.data = None \/ stale \/ q.invalid) THEN Sent(q) ELSE q

\* invalidateQueries: a mounted query with data starts over, a first load goes on, and
\* one that no mounted component uses is marked.
Invalidated(q, mounted) ==
  IF ~mounted THEN [q EXCEPT !.invalid = TRUE]
  ELSE IF IsLoading(q) THEN q ELSE [Sent(q) EXCEPT !.invalid = TRUE]

Answered(q, d) == [q EXCEPT !.fetch = "back", !.got = d]
Loaded(q) == [q EXCEPT !.fetch = "none", !.data = q.got, !.got = None,
                       !.invalid = FALSE, !.failed = FALSE]
Failed(q) == [q EXCEPT !.fetch = "none", !.got = None, !.failed = TRUE]

\* setQueryData: a request under way is left alone.
Put(q, d) == [q EXCEPT !.data = d, !.invalid = FALSE, !.failed = FALSE]
=============================================================================

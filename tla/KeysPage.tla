------------------------------ MODULE KeysPage ------------------------------
(***************************************************************************)
(* The API keys page (web/src/pages/app/APIKeysPage.tsx): the dialog that  *)
(* creates a key, the one that shows its secret for a countdown of         *)
(* seconds, and the tests of keys, which share one mutation.  The rows and *)
(* the deactivation are those of OrgLists.                                 *)
(***************************************************************************)
EXTENDS Naturals, FiniteSets

CONSTANTS
  Keys,        \* the keys there are and those that may be created
  First,       \* those there are at the start, a subset of Keys
  Custom,      \* those whose provider is not a known one: a test needs a model
  Countdown,   \* the seconds a secret is shown
  MaxTests,    \* tests (bound)
  MaxLeft,     \* how often the page is left (bound)
  None         \* no key

VARIABLES
  keys,        \* the active keys
  mounted,     \* is the page on the screen?
  create,      \* the creation dialog and its mutation
  raw,         \* rawKeyResult, the key whose secret is shown
  copied,      \* everCopied
  countdown,   \* keyCountdown
  intervals,   \* the effect's intervals that run
  elapsed,     \* history: the seconds for which the secret was shown so far
  shown,       \* history: the keys whose secret was shown
  row,         \* testingKeyID, testModel and testResult
  rawTest,     \* rawKeyTest: what the secret's dialog says of a test
  tests,       \* the tests under way
  pending,     \* testKey.isPending: the latest test is under way
  verdict,     \* history: what the last test of each key that was answered to its row said
  count, left

pageVars == <<create, raw, copied, countdown, intervals, elapsed, row, rawTest, pending>>
vars == <<keys, mounted, create, raw, copied, countdown, intervals, elapsed, shown, row,
          rawTest, tests, pending, verdict, count, left>>

Says   == {"nothing", "ok", "error"}
Create == [open : BOOLEAN, st : {"idle", "sent", "ok", "failed"}, key : Keys \cup {None}, err : BOOLEAN]
Row    == [testing : Keys \cup {None}, model : BOOLEAN, of : Keys \cup {None}, says : Says]
\* `page` is the visit of the page that sent it, `raw` whether the secret's dialog did.
Test   == [key : Keys, raw : BOOLEAN, page : 0 .. MaxLeft, n : 1 .. MaxTests,
           st : {"sent", "ok", "error"}]

TypeOK ==
  /\ keys \subseteq Keys /\ mounted \in BOOLEAN /\ create \in Create
  /\ raw \in Keys \cup {None} /\ copied \in BOOLEAN
  /\ countdown \in 0 .. Countdown /\ intervals \in {0, 1} /\ elapsed \in Nat
  /\ shown \subseteq Keys /\ row \in Row
  /\ rawTest \in Says \cup {"loading"} /\ tests \subseteq Test /\ pending \in 0 .. MaxTests
  /\ verdict \in [Keys -> Says] /\ count \in 0 .. MaxTests /\ left \in 0 .. MaxLeft

NoCreate == [open |-> FALSE, st |-> "idle", key |-> None, err |-> FALSE]
NoRow    == [testing |-> None, model |-> FALSE, of |-> None, says |-> "nothing"]

Init ==
  /\ keys = First /\ mounted = TRUE /\ create = NoCreate
  /\ raw = None /\ copied = FALSE /\ countdown = Countdown /\ intervals = 0 /\ elapsed = 0
  /\ shown = {} /\ row = NoRow /\ rawTest = "nothing" /\ tests = {} /\ pending = 0
  /\ verdict = [k \in Keys |-> "nothing"] /\ count = 0 /\ left = 0

----------------------------------------------------------------------------
(* Creating a key *)

\* The dialogs are modal: nothing behind the secret can be clicked.
OpenCreate ==
  /\ mounted /\ raw = None /\ ~create.open
  /\ create' = [create EXCEPT !.open = TRUE, !.err = FALSE]
  /\ UNCHANGED <<keys, mounted, raw, copied, countdown, intervals, elapsed, shown, row, rawTest,
                 tests, pending, verdict, count, left>>

\* Cancel does not cancel the request.
CloseCreate ==
  /\ mounted /\ create.open
  /\ create' = [create EXCEPT !.open = FALSE, !.err = FALSE]
  /\ UNCHANGED <<keys, mounted, raw, copied, countdown, intervals, elapsed, shown, row, rawTest,
                 tests, pending, verdict, count, left>>

SubmitCreate ==
  /\ mounted /\ raw = None /\ create.open /\ create.st = "idle"
  /\ create' = [create EXCEPT !.st = "sent", !.err = FALSE]
  /\ UNCHANGED <<keys, mounted, raw, copied, countdown, intervals, elapsed, shown, row, rawTest,
                 tests, pending, verdict, count, left>>

\* A creation goes on when the page is left, and nobody sees its answer.
ServeCreate ==
  /\ create.st = "sent"
  /\ \/ \E k \in (Keys \ keys) \ shown :
          keys' = keys \cup {k} /\ create' = [create EXCEPT !.st = "ok", !.key = k]
     \/ create' = [create EXCEPT !.st = "failed"] /\ UNCHANGED keys
  /\ UNCHANGED <<mounted, raw, copied, countdown, intervals, elapsed, shown, row, rawTest,
                 tests, pending, verdict, count, left>>

\* Faulty variant: the effect on rawKeyResult has no cleanup.
CleanedNot(n) == n
\* Its cleanup clears its interval, when there is another result or none.
Cleaned(n) == 0

CreateArrives ==
  /\ create.st \in {"ok", "failed"}
  /\ IF create.st = "failed"
     THEN /\ create' = [create EXCEPT !.st = "idle", !.err = TRUE]
          /\ UNCHANGED <<raw, countdown, intervals, elapsed, shown>>
     ELSE /\ create' = NoCreate /\ raw' = create.key /\ shown' = shown \cup {create.key}
          /\ countdown' = Countdown /\ intervals' = Cleaned(intervals) + 1 /\ elapsed' = 0
  /\ UNCHANGED <<keys, mounted, copied, row, rawTest, tests, pending, verdict, count, left>>

----------------------------------------------------------------------------
(* The secret *)

\* dismissRawKey.  A test that is under way is not forgotten.
DismissRawKey ==
  /\ raw' = None /\ copied' = FALSE /\ countdown' = Countdown /\ rawTest' = "nothing"
  /\ elapsed' = 0 /\ intervals' = Cleaned(intervals)

\* Every second, each interval: at the last one the dialog closes.
Tick ==
  /\ mounted /\ intervals > 0
  /\ IF countdown <= intervals THEN DismissRawKey
     ELSE /\ countdown' = countdown - intervals /\ elapsed' = elapsed + (IF raw = None THEN 0 ELSE 1)
          /\ UNCHANGED <<raw, copied, rawTest, intervals>>
  /\ UNCHANGED <<keys, mounted, create, shown, row, tests, pending, verdict, count, left>>

Done ==
  /\ mounted /\ raw # None
  /\ DismissRawKey
  /\ UNCHANGED <<keys, mounted, create, shown, row, tests, pending, verdict, count, left>>

CopyRawKey ==
  /\ mounted /\ raw # None /\ ~copied /\ copied' = TRUE
  /\ UNCHANGED <<keys, mounted, create, raw, countdown, intervals, elapsed, shown, row, rawTest,
                 tests, pending, verdict, count, left>>

\* Another page, also by "Open dashboard", which waits until the secret was copied, whereas
\* the browser's Back does not; and back: the state is new.  The creation under way and the
\* tests find nobody.
Leave ==
  /\ mounted /\ left < MaxLeft
  /\ left' = left + 1 /\ mounted' = FALSE
  /\ create' = NoCreate /\ raw' = None /\ copied' = FALSE /\ countdown' = Countdown
  /\ intervals' = 0 /\ elapsed' = 0 /\ row' = NoRow /\ rawTest' = "nothing" /\ pending' = 0
  /\ \/ keys' = keys
     \/ create.st = "sent" /\ \E k \in (Keys \ keys) \ shown : keys' = keys \cup {k}
  /\ verdict' = [k \in Keys |-> "nothing"]
  /\ UNCHANGED <<shown, tests, count>>

Return ==
  /\ ~mounted /\ mounted' = TRUE
  /\ UNCHANGED <<keys, pageVars, shown, tests, verdict, count, left>>

----------------------------------------------------------------------------
(* Tests *)

Start(k, inRaw) ==
  /\ count' = count + 1 /\ pending' = count + 1
  /\ tests' = tests \cup {[key |-> k, raw |-> inRaw, page |-> left, n |-> count + 1, st |-> "sent"]}

\* handleTest: a custom provider needs the model first, which all the rows share.
RowTest(k) ==
  /\ mounted /\ raw = None /\ ~create.open /\ k \in keys /\ count < MaxTests
  /\ IF k \in Custom /\ ~row.model
     THEN row' = [row EXCEPT !.testing = k] /\ UNCHANGED <<count, pending, tests, verdict>>
     ELSE /\ row' = [row EXCEPT !.testing = k, !.of = None, !.says = "nothing"]
          /\ Start(k, FALSE)
          /\ verdict' = [verdict EXCEPT ![k] = "nothing"]
  /\ UNCHANGED <<keys, mounted, create, raw, copied, countdown, intervals, elapsed, shown, rawTest, left>>

\* The input for the model: in its row, unless some row shows a result.
Input(k) == row.testing = k /\ k \in Custom /\ row.says = "nothing"

TypeModel ==
  /\ mounted /\ (\E k \in keys : Input(k)) /\ ~row.model
  /\ row' = [row EXCEPT !.model = TRUE]
  /\ UNCHANGED <<keys, mounted, create, raw, copied, countdown, intervals, elapsed, shown, rawTest,
                 tests, pending, verdict, count, left>>

\* Its cross.
DropModel ==
  /\ mounted /\ \E k \in keys : Input(k)
  /\ row' = [row EXCEPT !.testing = None, !.model = FALSE]
  /\ UNCHANGED <<keys, mounted, create, raw, copied, countdown, intervals, elapsed, shown, rawTest,
                 tests, pending, verdict, count, left>>

\* What a row says, in the order in which the page looks.
RowSays(k) ==
  IF Input(k) THEN "input"
  ELSE IF pending > 0 /\ row.testing = k THEN "testing"
  ELSE IF row.of = k THEN row.says ELSE "button"

\* handleRawKeyTest (the model it asks for is typed into the dialog).
RawKeyTest ==
  /\ mounted /\ raw # None /\ rawTest \in {"nothing", "error"} /\ count < MaxTests
  /\ rawTest' = "loading"
  /\ Start(raw, TRUE)
  /\ UNCHANGED <<keys, mounted, create, raw, copied, countdown, intervals, elapsed, shown, row, verdict, left>>

ServeTest(t) ==
  /\ t \in tests /\ t.st = "sent"
  /\ \E st \in {"ok", "error"} : tests' = (tests \ {t}) \cup {[t EXCEPT !.st = st]}
  /\ UNCHANGED <<keys, mounted, pageVars, shown, verdict, count, left>>

\* A row's answer carries its key.
Answered(t) == [row EXCEPT !.of = t.key, !.says = t.st]

\* The answer to a test of the secret's dialog is shown there, whatever it shows now.
TestArrives(t) ==
  LET here == mounted /\ t.page = left
  IN /\ t \in tests /\ t.st # "sent"
     /\ tests' = tests \ {t}
     /\ pending' = IF pending = t.n THEN 0 ELSE pending
     /\ row' = IF here /\ ~t.raw THEN Answered(t) ELSE row
     /\ verdict' = IF here /\ ~t.raw THEN [verdict EXCEPT ![t.key] = t.st] ELSE verdict
     /\ rawTest' = IF here /\ t.raw THEN t.st ELSE rawTest
     /\ UNCHANGED <<keys, mounted, create, raw, copied, countdown, intervals, elapsed, shown, count, left>>

Next ==
  \/ OpenCreate \/ CloseCreate \/ SubmitCreate \/ ServeCreate \/ CreateArrives
  \/ Tick \/ Done \/ CopyRawKey \/ Leave \/ Return
  \/ RawKeyTest \/ TypeModel \/ DropModel
  \/ \E k \in Keys : RowTest(k)
  \/ \E t \in tests : ServeTest(t) \/ TestArrives(t)

Spec == Init /\ [][Next]_vars

----------------------------------------------------------------------------
(* Properties *)

\* A secret is shown for its whole countdown: no interval of an earlier key takes
\* seconds away from a later one.
CountdownIsWhole ==
  raw # None => countdown + elapsed = Countdown

\* What a row says of its last test is what that test said, however the tests of
\* several rows overlap.
RowTellsItsOwn ==
  \A k \in Keys : RowSays(k) \in {"ok", "error"} => verdict[k] = RowSays(k)

\* A secret that is shown is timed, by one interval, and nothing else is: it does not stay
\* on the screen, and no interval is left to run when it goes.
TimedWhileShown == intervals = IF raw = None THEN 0 ELSE 1
=============================================================================

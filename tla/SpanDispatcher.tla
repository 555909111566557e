--------------------------- MODULE SpanDispatcher ---------------------------
(***************************************************************************)
(* The proxy's asynchronous span dispatcher: proxy/internal/span/          *)
(* dispatch.go.  Request handlers call Dispatch once each, with one span;  *)
(* worker goroutines take spans from a bounded channel and POST them to    *)
(* Processing; Drain closes the channel on shutdown.  Every shared memory  *)
(* access of Dispatch, Drain and the workers is an action of its own.      *)
(*                                                                         *)
(* sync.WaitGroup is external.  It is modelled by what its implementation  *)
(* does with the single waiter this code has: Wait returns at once on a    *)
(* zero counter and parks otherwise; the Done that brings the counter to   *)
(* zero wakes the waiter; the woken waiter panics if the counter is no     *)
(* longer zero ("WaitGroup is reused before previous Wait has returned").  *)
(***************************************************************************)
EXTENDS Integers, Sequences, FiniteSets

CONSTANTS
  Spans,       \* payloads; each one is the argument of one call of Dispatch
  Workers,     \* the numWorkers goroutines Start launches
  Drainers,    \* goroutines that call Drain
  BufferSize,  \* capacity of ch
  NoSpan       \* what a worker that is not sending holds

ASSUME SpansAssumption == IsFiniteSet(Spans) /\ NoSpan \notin Spans
ASSUME WorkersAssumption == IsFiniteSet(Workers) /\ Workers # {}
ASSUME BufferAssumption == BufferSize \in Nat \ {0}

VARIABLES
  acceptingNew,    \* the atomic flag
  dispatchWG,      \* counter of the WaitGroup
  ch,              \* contents of the buffered channel
  chClosed,        \* close(ch) has happened
  dropped,         \* the atomic counter
  pc,              \* pc[s]: where the call Dispatch(s) is
  wpc,             \* wpc[w]: where worker w is in its loop
  wspan,           \* wspan[w]: the span worker w is sending
  parentCancelled, \* the context handed to Start is cancelled
  drainCancelled,  \* Drain called workerCancel
  workersDone,     \* the channel workersDone is closed
  drainPc,         \* drainPc[d]: where the call of Drain by d is
  panicked,        \* the panic that ended the process, or "none"
  received,        \* history: spans Processing accepted
  lost             \* history: spans whose POST failed

vars == <<acceptingNew, dispatchWG, ch, chClosed, dropped, pc, wpc, wspan,
          parentCancelled, drainCancelled, workersDone, drainPc, panicked,
          received, lost>>

dispatchVars == <<acceptingNew, dispatchWG, ch, chClosed, dropped, pc>>
workerVars   == <<wpc, wspan, parentCancelled, workersDone, received, lost>>
drainVars    == <<drainCancelled, drainPc>>

DispatchPCs == {"idle", "add", "recheck", "send", "done", "returned"}
WorkerPCs   == {"unstarted", "select", "send", "exited"}
DrainPCs    == {"idle", "wait", "blocked", "woken", "close", "select",
                "drained", "timedout", "noop"}
Panics      == {"none", "WaitGroup reused", "send on closed channel",
                "close of closed channel"}

(***************************************************************************)
(* NewSpanDispatcher: an open, empty channel and no worker yet.            *)
(***************************************************************************)
Init ==
  /\ acceptingNew = TRUE
  /\ dispatchWG = 0
  /\ ch = <<>>
  /\ chClosed = FALSE
  /\ dropped = 0
  /\ pc = [s \in Spans |-> "idle"]
  /\ wpc = [w \in Workers |-> "unstarted"]
  /\ wspan = [w \in Workers |-> NoSpan]
  /\ parentCancelled = FALSE
  /\ drainCancelled = FALSE
  /\ workersDone = FALSE
  /\ drainPc = [d \in Drainers |-> "idle"]
  /\ panicked = "none"
  /\ received = {}
  /\ lost = {}

Goto(s, l)      == pc' = [pc EXCEPT ![s] = l]
DrainGoto(d, l) == drainPc' = [drainPc EXCEPT ![d] = l]

\* workerCtx is done when its parent or its own cancel function was called.
WorkerCtxDone == parentCancelled \/ drainCancelled

-----------------------------------------------------------------------------
(***************************************************************************)
(* Dispatch                                                                *)
(***************************************************************************)

\* The first load of acceptingNew.
DispatchLoad(s) ==
  /\ pc[s] = "idle"
  /\ \/ acceptingNew /\ Goto(s, "add") /\ UNCHANGED dropped
     \/ ~acceptingNew /\ Goto(s, "returned") /\ dropped' = dropped + 1
  /\ UNCHANGED <<acceptingNew, dispatchWG, ch, chClosed>>
  /\ UNCHANGED <<workerVars, drainVars, panicked>>

\* dispatchWG.Add(1)
DispatchRegister(s) ==
  /\ pc[s] = "add"
  /\ Goto(s, "recheck")
  /\ dispatchWG' = dispatchWG + 1
  /\ UNCHANGED <<acceptingNew, ch, chClosed, dropped>>
  /\ UNCHANGED <<workerVars, drainVars, panicked>>

\* Faulty variant: the early return after the second load misses the Done.
DispatchRecheckLeak(s) ==
  /\ pc[s] = "recheck"
  /\ \/ acceptingNew /\ Goto(s, "send") /\ UNCHANGED dropped
     \/ ~acceptingNew /\ Goto(s, "returned") /\ dropped' = dropped + 1
  /\ UNCHANGED <<acceptingNew, dispatchWG, ch, chClosed>>
  /\ UNCHANGED <<workerVars, drainVars, panicked>>

\* The second load, after registering.
DispatchRecheck(s) ==
  /\ pc[s] = "recheck"
  /\ \/ acceptingNew /\ Goto(s, "send") /\ UNCHANGED dropped
     \/ ~acceptingNew /\ Goto(s, "done") /\ dropped' = dropped + 1
  /\ UNCHANGED <<acceptingNew, dispatchWG, ch, chClosed>>
  /\ UNCHANGED <<workerVars, drainVars, panicked>>

\* Faulty variant: the default branch does not count the span it drops.
DispatchSendUncounted(s) ==
  /\ pc[s] = "send"
  /\ Goto(s, "done")
  /\ ch' = IF Len(ch) < BufferSize THEN Append(ch, s) ELSE ch
  /\ UNCHANGED <<acceptingNew, dispatchWG, chClosed, dropped, panicked>>
  /\ UNCHANGED <<workerVars, drainVars>>

\* The non-blocking send on ch, which panics when ch is closed.
DispatchSend(s) ==
  /\ pc[s] = "send"
  /\ Goto(s, "done")
  /\ \/ /\ chClosed
        /\ panicked' = "send on closed channel"
        /\ UNCHANGED <<ch, dropped>>
     \/ /\ ~chClosed /\ Len(ch) < BufferSize
        /\ ch' = Append(ch, s)
        /\ UNCHANGED <<dropped, panicked>>
     \/ /\ ~chClosed /\ Len(ch) >= BufferSize
        /\ dropped' = dropped + 1
        /\ UNCHANGED <<ch, panicked>>
  /\ UNCHANGED <<acceptingNew, dispatchWG, chClosed>>
  /\ UNCHANGED <<workerVars, drainVars>>

\* The deferred dispatchWG.Done(); at zero it wakes a parked Wait.
DispatchDone(s) ==
  /\ pc[s] = "done"
  /\ Goto(s, "returned")
  /\ dispatchWG' = dispatchWG - 1
  /\ drainPc' = [d \in Drainers |->
                   IF drainPc[d] = "blocked" /\ dispatchWG = 1 THEN "woken"
                                                               ELSE drainPc[d]]
  /\ UNCHANGED <<acceptingNew, ch, chClosed, dropped>>
  /\ UNCHANGED <<workerVars, drainCancelled, panicked>>

Dispatch(s) ==
  \/ DispatchLoad(s) \/ DispatchRegister(s) \/ DispatchRecheck(s)
  \/ DispatchSend(s) \/ DispatchDone(s)
-----------------------------------------------------------------------------
(***************************************************************************)
(* Workers                                                                 *)
(***************************************************************************)

\* Start derives a fresh workerCtx from its argument and launches the loops.
Start ==
  /\ \A w \in Workers : wpc[w] = "unstarted"
  /\ wpc' = [w \in Workers |-> "select"]
  /\ drainCancelled' = FALSE
  /\ UNCHANGED <<wspan, parentCancelled, workersDone, received, lost>>
  /\ UNCHANGED <<dispatchVars, drainPc, panicked>>

\* Faulty variant: the span stays in the channel while it is being sent.
WorkerReceivePeek(w) ==
  /\ wpc[w] = "select"
  /\ ch # <<>>
  /\ wspan' = [wspan EXCEPT ![w] = Head(ch)]
  /\ wpc' = [wpc EXCEPT ![w] = "send"]
  /\ UNCHANGED <<dispatchVars, parentCancelled, workersDone, received, lost>>
  /\ UNCHANGED <<drainVars, panicked>>

\* case payload, ok := <-d.ch with a payload; select may take it even when
\* workerCtx is done.
WorkerReceive(w) ==
  /\ wpc[w] = "select"
  /\ ch # <<>>
  /\ wspan' = [wspan EXCEPT ![w] = Head(ch)]
  /\ ch' = Tail(ch)
  /\ wpc' = [wpc EXCEPT ![w] = "send"]
  /\ UNCHANGED <<acceptingNew, dispatchWG, chClosed, dropped, pc>>
  /\ UNCHANGED <<parentCancelled, workersDone, received, lost>>
  /\ UNCHANGED <<drainVars, panicked>>

\* !ok: ch is closed and empty.
WorkerExitClosed(w) ==
  /\ wpc[w] = "select"
  /\ chClosed /\ ch = <<>>
  /\ wpc' = [wpc EXCEPT ![w] = "exited"]
  /\ UNCHANGED <<wspan, parentCancelled, workersDone, received, lost>>
  /\ UNCHANGED <<dispatchVars, drainVars, panicked>>

\* case <-d.workerCtx.Done()
WorkerExitCancelled(w) ==
  /\ wpc[w] = "select"
  /\ WorkerCtxDone
  /\ wpc' = [wpc EXCEPT ![w] = "exited"]
  /\ UNCHANGED <<wspan, parentCancelled, workersDone, received, lost>>
  /\ UNCHANGED <<dispatchVars, drainVars, panicked>>

\* send: the POST is answered below 400, or it fails in one of the ways send
\* only logs (marshal, request, transport, timeout, cancellation, status).
WorkerSend(w) ==
  /\ wpc[w] = "send"
  /\ \/ received' = received \union {wspan[w]} /\ UNCHANGED lost
     \/ lost' = lost \union {wspan[w]} /\ UNCHANGED received
  /\ wpc' = [wpc EXCEPT ![w] = "select"]
  /\ wspan' = [wspan EXCEPT ![w] = NoSpan]
  /\ UNCHANGED <<parentCancelled, workersDone>>
  /\ UNCHANGED <<dispatchVars, drainVars, panicked>>

\* workersWG.Wait() followed by close(d.workersDone).
CloseWorkersDone ==
  /\ \A w \in Workers : wpc[w] = "exited"
  /\ ~workersDone
  /\ workersDone' = TRUE
  /\ UNCHANGED <<wpc, wspan, parentCancelled, received, lost>>
  /\ UNCHANGED <<dispatchVars, drainVars, panicked>>

\* The owner of the context given to Start cancels it.
CancelParent ==
  /\ ~parentCancelled
  /\ parentCancelled' = TRUE
  /\ UNCHANGED <<wpc, wspan, workersDone, received, lost>>
  /\ UNCHANGED <<dispatchVars, drainVars, panicked>>

Worker(w) ==
  \/ WorkerReceive(w) \/ WorkerExitClosed(w) \/ WorkerExitCancelled(w)
  \/ WorkerSend(w)
-----------------------------------------------------------------------------
(***************************************************************************)
(* Drain                                                                   *)
(***************************************************************************)

\* acceptingNew.CompareAndSwap(true, false); a repeat call returns.
DrainBegin(d) ==
  /\ drainPc[d] = "idle"
  /\ \/ acceptingNew /\ DrainGoto(d, "wait")
     \/ ~acceptingNew /\ DrainGoto(d, "noop")
  /\ acceptingNew' = FALSE
  /\ UNCHANGED <<dispatchWG, ch, chClosed, dropped, pc>>
  /\ UNCHANGED <<workerVars, drainCancelled, panicked>>

\* Faulty variant: wait is left out.
DrainNoWait(d) ==
  /\ drainPc[d] = "wait"
  /\ DrainGoto(d, "close")
  /\ UNCHANGED <<dispatchVars, workerVars, drainCancelled, panicked>>

\* Faulty variant: the wait is bounded by the deadline too, and returns.
DrainWaitBounded(d) ==
  /\ drainPc[d] = "wait"
  /\ DrainGoto(d, IF dispatchWG = 0 THEN "close" ELSE "timedout")
  /\ UNCHANGED <<dispatchVars, workerVars, drainCancelled, panicked>>

\* dispatchWG.Wait(), up to the point where it returns or parks.
DrainWait(d) ==
  /\ drainPc[d] = "wait"
  /\ DrainGoto(d, IF dispatchWG = 0 THEN "close" ELSE "blocked")
  /\ UNCHANGED <<dispatchVars, workerVars, drainCancelled, panicked>>

\* The woken Wait checks that the WaitGroup was not reused meanwhile.
DrainWaitReturns(d) ==
  /\ drainPc[d] = "woken"
  /\ DrainGoto(d, "close")
  /\ panicked' = IF dispatchWG = 0 THEN panicked ELSE "WaitGroup reused"
  /\ UNCHANGED <<dispatchVars, workerVars, drainCancelled>>

\* close(d.ch)
DrainClose(d) ==
  /\ drainPc[d] = "close"
  /\ DrainGoto(d, "select")
  /\ panicked' = IF chClosed THEN "close of closed channel" ELSE panicked
  /\ chClosed' = TRUE
  /\ UNCHANGED <<acceptingNew, dispatchWG, ch, dropped, pc>>
  /\ UNCHANGED <<workerVars, drainCancelled>>

\* case <-d.workersDone
DrainComplete(d) ==
  /\ drainPc[d] = "select"
  /\ workersDone
  /\ DrainGoto(d, "drained")
  /\ UNCHANGED <<dispatchVars, workerVars, drainCancelled, panicked>>

\* case <-time.After(deadline), and workerCancel().
DrainDeadline(d) ==
  /\ drainPc[d] = "select"
  /\ DrainGoto(d, "timedout")
  /\ drainCancelled' = TRUE
  /\ UNCHANGED <<dispatchVars, workerVars, panicked>>

Drain(d) ==
  \/ DrainBegin(d) \/ DrainWait(d) \/ DrainWaitReturns(d) \/ DrainClose(d)
  \/ DrainComplete(d) \/ DrainDeadline(d)
-----------------------------------------------------------------------------
Next ==
  /\ panicked = "none"
  /\ \/ \E s \in Spans : Dispatch(s)
     \/ \E w \in Workers : Worker(w)
     \/ \E d \in Drainers : Drain(d)
     \/ Start
     \/ CloseWorkersDone
     \/ CancelParent

Spec == Init /\ [][Next]_vars

(***************************************************************************)
(* Goroutines that are running are scheduled, a POST ends within           *)
(* sendTimeout, time.After fires, and Start follows construction.  Nobody  *)
(* has to call Dispatch or Drain, or to cancel the parent context.         *)
(***************************************************************************)
Running == panicked = "none"
Fairness ==
  /\ WF_vars(Running /\ Start)
  /\ WF_vars(Running /\ CloseWorkersDone)
  /\ \A s \in Spans : WF_vars(Running /\ pc[s] # "idle" /\ Dispatch(s))
  /\ \A w \in Workers : WF_vars(Running /\ Worker(w))
  /\ \A d \in Drainers : WF_vars(Running /\ drainPc[d] # "idle" /\ Drain(d))

FairSpec == Spec /\ Fairness
-----------------------------------------------------------------------------
(***************************************************************************)
(* Properties                                                              *)
(***************************************************************************)

DispatchTypeOK ==
  /\ acceptingNew \in BOOLEAN
  /\ dispatchWG \in Nat
  /\ chClosed \in BOOLEAN
  /\ dropped \in Nat
  /\ pc \in [Spans -> DispatchPCs]

WorkerTypeOK ==
  /\ ch \in Seq(Spans)
  /\ wpc \in [Workers -> WorkerPCs]
  /\ wspan \in [Workers -> Spans \union {NoSpan}]
  /\ \A w \in Workers : wpc[w] = "send" => wspan[w] \in Spans
  /\ received \in SUBSET Spans
  /\ lost \in SUBSET Spans

DrainTypeOK ==
  /\ parentCancelled \in BOOLEAN
  /\ drainCancelled \in BOOLEAN
  /\ workersDone \in BOOLEAN
  /\ drainPc \in [Drainers -> DrainPCs]
  /\ panicked \in Panics

\* The type of every variable; the atomic counters stay natural numbers, and a
\* worker in send holds a span.
TypeOK == DispatchTypeOK /\ WorkerTypeOK /\ DrainTypeOK

Registered  == {s \in Spans : pc[s] \in {"recheck", "send", "done"}}
Draining    == {d \in Drainers : drainPc[d] \notin {"idle", "noop"}}
BeforeClose == {"wait", "blocked", "woken", "close"}
AfterClose  == {"select", "drained", "timedout"}
AwaitClosed == {"woken", "close"} \union AfterClose
InFlight    == {w \in Workers : wpc[w] = "send"}

\* No interleaving of Dispatch and Drain sends on ch after close(ch), and no
\* repeated Drain closes it twice: the flag, its second load and the
\* WaitGroup together keep every writer out before the close.
NoChannelPanic ==
  panicked \notin {"send on closed channel", "close of closed channel"}

\* The WaitGroup counts the calls between Add and Done.
WGCounts == dispatchWG = Cardinality(Registered)

\* At most one caller of Drain gets past the CompareAndSwap.
OneDrainer ==
  /\ acceptingNew => Draining = {}
  /\ \A d, e \in Draining : d = e

\* Once Drain's Wait is released no call is left that may still write to ch,
\* although calls may still register and unregister.
NoWriterLeft ==
  \A d \in Drainers :
    drainPc[d] \in AwaitClosed => \A s \in Spans : pc[s] # "send"

\* ch is closed exactly when the draining call is past its close.
ClosedOnce ==
  /\ chClosed => \E d \in Drainers : drainPc[d] \in AfterClose
  /\ \A d \in Drainers : drainPc[d] \in BeforeClose => ~chClosed

\* The inductive strengthening of NoChannelPanic: what the types say, the count of the
\* WaitGroup, a single drainer, no writer once it goes on, and one close.
ChannelInv ==
  TypeOK /\ WGCounts /\ OneDrainer /\ NoWriterLeft /\ ClosedOnce /\ NoChannelPanic

\* Dropped() counts exactly the spans that were refused: every finished call
\* of Dispatch is accounted for once, as dropped, queued, being sent, received
\* or lost, so that no span disappears silently and none is counted twice.
Accounting ==
  panicked = "none" =>
    Cardinality({s \in Spans : pc[s] \in {"done", "returned"}})
      = dropped + Len(ch) + Cardinality(InFlight)
          + Cardinality(received) + Cardinality(lost)

\* A Drain that returns because the workers are done, with the context of the
\* workers not cancelled from outside, leaves nothing behind: "lets workers
\* consume remaining items until the channel is empty".
DrainedMeansEmpty ==
  (\E d \in Drainers : drainPc[d] = "drained") /\ ~parentCancelled
    => ch = <<>> /\ InFlight = {} /\ chClosed

\* Once the first Drain has returned, no step adds a span to the channel:
\* "After Drain returns, Dispatch() calls drop silently".
NothingAcceptedAfterDrain ==
  [][(\E d \in Drainers : drainPc[d] \in {"drained", "timedout"})
       => Len(ch') <= Len(ch)]_vars

\* When Drain returns it is over: a drain that completed has left nothing behind, and
\* after any Drain no span is accepted that nobody would deliver.
DrainIsFinal == []DrainedMeansEmpty /\ NothingAcceptedAfterDrain

\* The promise of SpanDelivery, with the channel and the workers' hands as the
\* pending spans.
StatusOf(s) ==
  IF s \in received THEN "delivered"
  ELSE IF s \in lost THEN "lost"
  ELSE IF \/ \E i \in 1..Len(ch) : ch[i] = s
          \/ \E w \in InFlight : wspan[w] = s THEN "pending"
  ELSE IF pc[s] \in {"done", "returned"} THEN "dropped"
  ELSE "new"

Delivery == INSTANCE SpanDelivery
  WITH status   <- [s \in Spans |-> StatusOf(s)],
       stopped  <- chClosed,
       Capacity <- BufferSize + Cardinality(Workers)

\* Every behaviour of the dispatcher is one of SpanDelivery: no span is
\* delivered twice, revived after a drop, or accepted after the close.
ImplementsDelivery == Delivery!Spec

\* A call of Drain returns, however the calls of Dispatch and the workers are
\* scheduled, unless the process panics.
DrainReturns ==
  \A d \in Drainers :
    drainPc[d] # "idle"
      ~> (drainPc[d] \in {"drained", "timedout", "noop"} \/ ~Running)

\* After a Drain every worker ends: it sees the closed channel or the
\* cancelled context, so that no goroutine outlives the shutdown.
WorkersStop ==
  ~acceptingNew ~> ((\A w \in Workers : wpc[w] = "exited") \/ ~Running)

\* A queued span does not starve: a worker takes it unless the context of the
\* workers is cancelled.
QueueMoves ==
  \A s \in Spans :
    (\E i \in 1..Len(ch) : ch[i] = s)
      ~> (~(\E i \in 1..Len(ch) : ch[i] = s) \/ WorkerCtxDone \/ ~Running)

\* Under fair scheduling nothing waits for ever: neither the caller of Drain, nor a
\* worker after it, nor a queued span before it.
Progress == DrainReturns /\ WorkersStop /\ QueueMoves
=============================================================================

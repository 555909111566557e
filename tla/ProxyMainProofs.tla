-------------------------- MODULE ProxyMainProofs ---------------------------
(***************************************************************************)
(* Proofs about SpanDispatcher and about the process around it.            *)
(*                                                                         *)
(* First the dispatcher, for every finite set of spans, every finite set   *)
(* of workers, every set of callers of Drain (MainAssumption is used by    *)
(* none of these proofs) and every buffer size: the types hold, no         *)
(* Dispatch ever sends on a closed channel nor does any Drain close it     *)
(* twice, a Drain is final, every span is accounted for, and every step is *)
(* a step or a stutter of SpanDelivery.                                    *)
(*                                                                         *)
(* Then the process, for any number of requests and workers.  Main, the    *)
(* handlers and the workers only take steps of SpanDispatcher, so that its *)
(* invariants hold here too; what is added is that a handler is the only   *)
(* caller of Dispatch, and that none is left when main drains, unless the  *)
(* HTTP timeout let it outlive the server.                                 *)
(***************************************************************************)
EXTENDS ProxyMain, FiniteSetTheorems, TLAPS

----------------------------------------------------------------------------
(* The dispatcher *)

\* Registered is finite, so that adding or removing one call changes the
\* count of the WaitGroup by one.
LEMMA RegisteredFinite == IsFiniteSet(Registered) /\ Cardinality(Registered) \in Nat
  BY SpansAssumption, FS_Subset, FS_CardinalityType DEF Registered

LEMMA InitInv == Init => ChannelInv
  <1> SUFFICES ASSUME Init PROVE ChannelInv
    OBVIOUS
  <1>1. Registered = {}
    BY DEF Init, Registered
  <1>2. Cardinality(Registered) = 0
    BY <1>1, FS_EmptySet
  <1>3. TypeOK
    <2>1. DispatchTypeOK
      BY DEF Init, DispatchTypeOK, DispatchPCs
    <2>2. WorkerTypeOK
      BY DEF Init, WorkerTypeOK, WorkerPCs
    <2>3. DrainTypeOK
      BY DEF Init, DrainTypeOK, DrainPCs, Panics
    <2> QED
      BY <2>1, <2>2, <2>3 DEF TypeOK
  <1> QED
    BY <1>2, <1>3 DEF Init, ChannelInv, WGCounts, OneDrainer, NoWriterLeft, ClosedOnce,
       NoChannelPanic, Draining, BeforeClose, AfterClose, AwaitClosed

\* Dispatch(s) moving in the set of registered calls.
LEMMA RegisterCounts ==
  ASSUME ChannelInv, NEW s \in Spans, DispatchRegister(s)
  PROVE  Cardinality(Registered') = Cardinality(Registered) + 1
  <1>1. s \notin Registered /\ Registered' = Registered \union {s}
    BY DEF ChannelInv, TypeOK, DispatchTypeOK, DispatchRegister, Goto, Registered
  <1> QED
    BY <1>1, RegisteredFinite, FS_AddElement

LEMMA DoneCounts ==
  ASSUME ChannelInv, NEW s \in Spans, DispatchDone(s)
  PROVE  /\ Cardinality(Registered') = Cardinality(Registered) - 1
         /\ Cardinality(Registered) >= 1
  <1>1. s \in Registered /\ Registered' = Registered \ {s}
    BY DEF ChannelInv, TypeOK, DispatchTypeOK, DispatchDone, Goto, Registered
  <1>2. Cardinality(Registered') = Cardinality(Registered) - 1
    BY <1>1, RegisteredFinite, FS_RemoveElement
  <1>3. IsFiniteSet(Registered') /\ Cardinality(Registered') \in Nat
    BY <1>1, RegisteredFinite, FS_Subset, FS_CardinalityType
  <1> QED
    BY <1>2, <1>3, RegisteredFinite

\* The types of the variables of Dispatch; only the decrement of the WaitGroup
\* needs more than the types.
LEMMA DispatchTypeStep == ChannelInv /\ [Next]_vars => DispatchTypeOK'
  <1> SUFFICES ASSUME ChannelInv, [Next]_vars PROVE DispatchTypeOK'
    OBVIOUS
  <1> USE DEF DispatchTypeOK, DispatchPCs, Goto, DrainGoto
  <1>0. DispatchTypeOK /\ dispatchWG = Cardinality(Registered)
    BY DEF TypeOK, ChannelInv, WGCounts
  <1>1. ASSUME NEW s \in Spans, DispatchLoad(s) PROVE DispatchTypeOK'
    BY <1>0, <1>1 DEF DispatchLoad
  <1>2. ASSUME NEW s \in Spans, DispatchRegister(s) PROVE DispatchTypeOK'
    BY <1>0, <1>2 DEF DispatchRegister
  <1>3. ASSUME NEW s \in Spans, DispatchRecheck(s) PROVE DispatchTypeOK'
    BY <1>0, <1>3 DEF DispatchRecheck
  <1>4. ASSUME NEW s \in Spans, DispatchSend(s) PROVE DispatchTypeOK'
    <2>1. dropped' = dropped \/ dropped' = dropped + 1
      BY <1>4 DEF DispatchSend
    <2>2. UNCHANGED <<acceptingNew, dispatchWG, chClosed>> /\ Goto(s, "done")
      BY <1>4 DEF DispatchSend
    <2> QED
      BY <1>0, <2>1, <2>2
  <1>5. ASSUME NEW s \in Spans, DispatchDone(s) PROVE DispatchTypeOK'
    <2>1. dispatchWG \in Nat /\ dispatchWG >= 1
      BY <1>0, <1>5, DoneCounts
    <2>2. dispatchWG' = dispatchWG - 1 /\ UNCHANGED <<acceptingNew, chClosed, dropped>>
          /\ Goto(s, "returned")
      BY <1>5 DEF DispatchDone
    <2> QED
      BY <1>0, <2>1, <2>2
  <1>6. ASSUME NEW w \in Workers, Worker(w) PROVE DispatchTypeOK'
    BY <1>0, <1>6 DEF Worker, WorkerReceive, WorkerExitClosed, WorkerExitCancelled,
       WorkerSend, dispatchVars
  <1>7. CASE Start \/ CloseWorkersDone \/ CancelParent
    BY <1>0, <1>7 DEF Start, CloseWorkersDone, CancelParent, dispatchVars
  <1>8. ASSUME NEW d \in Drainers, Drain(d) PROVE DispatchTypeOK'
    BY <1>0, <1>8 DEF Drain, DrainBegin, DrainWait, DrainWaitReturns, DrainClose,
       DrainComplete, DrainDeadline, dispatchVars
  <1>9. CASE UNCHANGED vars
    BY <1>0, <1>9 DEF vars
  <1> QED
    BY <1>1, <1>2, <1>3, <1>4, <1>5, <1>6, <1>7, <1>8, <1>9 DEF Next, Dispatch

LEMMA WorkerTypeStep == WorkerTypeOK /\ [Next]_vars => WorkerTypeOK'
  <1> SUFFICES ASSUME WorkerTypeOK, [Next]_vars PROVE WorkerTypeOK'
    OBVIOUS
  <1> USE DEF WorkerTypeOK, WorkerPCs
  <1>1. ASSUME NEW s \in Spans, DispatchSend(s) PROVE WorkerTypeOK'
    <2>1. ch' = ch \/ ch' = Append(ch, s)
      BY <1>1 DEF DispatchSend
    <2>2. UNCHANGED workerVars
      BY <1>1 DEF DispatchSend
    <2> QED
      BY <2>1, <2>2 DEF workerVars
  <1>2. ASSUME NEW s \in Spans,
               \/ DispatchLoad(s) \/ DispatchRegister(s) \/ DispatchRecheck(s)
               \/ DispatchDone(s)
        PROVE  WorkerTypeOK'
    BY <1>2 DEF DispatchLoad, DispatchRegister, DispatchRecheck, DispatchDone,
       workerVars
  <1>3. ASSUME NEW w \in Workers, WorkerReceive(w) PROVE WorkerTypeOK'
    BY <1>3 DEF WorkerReceive
  <1>4. ASSUME NEW w \in Workers, WorkerExitClosed(w) \/ WorkerExitCancelled(w)
        PROVE  WorkerTypeOK'
    BY <1>4 DEF WorkerExitClosed, WorkerExitCancelled, dispatchVars
  <1>5. ASSUME NEW w \in Workers, WorkerSend(w) PROVE WorkerTypeOK'
    BY <1>5 DEF WorkerSend, dispatchVars
  <1>6. CASE Start \/ CloseWorkersDone \/ CancelParent
    BY <1>6 DEF Start, CloseWorkersDone, CancelParent, dispatchVars
  <1>7. ASSUME NEW d \in Drainers, Drain(d) PROVE WorkerTypeOK'
    BY <1>7 DEF Drain, DrainBegin, DrainWait, DrainWaitReturns, DrainClose,
       DrainComplete, DrainDeadline, dispatchVars, workerVars
  <1>8. CASE UNCHANGED vars
    BY <1>8 DEF vars
  <1> QED
    BY <1>1, <1>2, <1>3, <1>4, <1>5, <1>6, <1>7, <1>8 DEF Next, Dispatch, Worker

LEMMA DrainTypeStep == DrainTypeOK /\ [Next]_vars => DrainTypeOK'
  <1> SUFFICES ASSUME DrainTypeOK, [Next]_vars PROVE DrainTypeOK'
    OBVIOUS
  <1> USE DEF DrainTypeOK, DrainPCs, Panics, DrainGoto
  <1>1. ASSUME NEW s \in Spans, Dispatch(s) PROVE DrainTypeOK'
    BY <1>1 DEF Dispatch, DispatchLoad, DispatchRegister, DispatchRecheck,
       DispatchSend, DispatchDone, workerVars, drainVars
  <1>2. ASSUME NEW w \in Workers, Worker(w) PROVE DrainTypeOK'
    BY <1>2 DEF Worker, WorkerReceive, WorkerExitClosed, WorkerExitCancelled,
       WorkerSend, drainVars
  <1>3. CASE Start \/ CloseWorkersDone \/ CancelParent
    BY <1>3 DEF Start, CloseWorkersDone, CancelParent, drainVars
  <1>4. ASSUME NEW d \in Drainers, Drain(d) PROVE DrainTypeOK'
    BY <1>4 DEF Drain, DrainBegin, DrainWait, DrainWaitReturns, DrainClose,
       DrainComplete, DrainDeadline, workerVars
  <1>5. CASE UNCHANGED vars
    BY <1>5 DEF vars
  <1> QED
    BY <1>1, <1>2, <1>3, <1>4, <1>5 DEF Next

\* A WaitGroup at zero means that no call is registered.
LEMMA ZeroMeansNone ==
  ASSUME WGCounts, dispatchWG = 0
  PROVE  Registered = {}
  BY RegisteredFinite, FS_EmptySet DEF WGCounts

\* The Done that brings the WaitGroup to zero is the last registered call's.
LEMMA LastDone ==
  ASSUME ChannelInv, NEW s \in Spans, DispatchDone(s), dispatchWG = 1
  PROVE  Registered' = {}
  <1>1. Cardinality(Registered') = 0
    BY DoneCounts, RegisteredFinite DEF ChannelInv, WGCounts
  <1>2. IsFiniteSet(Registered')
    BY SpansAssumption, FS_Subset DEF Registered
  <1> QED
    BY <1>1, <1>2, FS_EmptySet

LEMMA WGStep == ChannelInv /\ [Next]_vars => WGCounts'
  <1> SUFFICES ASSUME ChannelInv, [Next]_vars PROVE WGCounts'
    OBVIOUS
  <1>0. WGCounts /\ DispatchTypeOK
    BY DEF TypeOK, ChannelInv
  <1>1. ASSUME NEW s \in Spans, DispatchRegister(s) PROVE WGCounts'
    BY <1>0, <1>1, RegisterCounts DEF WGCounts, DispatchRegister
  <1>2. ASSUME NEW s \in Spans, DispatchDone(s) PROVE WGCounts'
    BY <1>0, <1>2, DoneCounts DEF WGCounts, DispatchDone
  <1>3. ASSUME NEW s \in Spans, DispatchLoad(s) \/ DispatchRecheck(s) \/ DispatchSend(s)
        PROVE  WGCounts'
    <2>1. Registered' = Registered
      BY <1>0, <1>3 DEF DispatchLoad, DispatchRecheck, DispatchSend, Goto, Registered,
         DispatchTypeOK
    <2>2. dispatchWG' = dispatchWG
      BY <1>3 DEF DispatchLoad, DispatchRecheck, DispatchSend
    <2> QED
      BY <1>0, <2>1, <2>2 DEF WGCounts
  <1>4. ASSUME UNCHANGED <<pc, dispatchWG>> PROVE WGCounts'
    BY <1>0, <1>4 DEF WGCounts, Registered
  <1>5. ASSUME NEW w \in Workers, Worker(w) PROVE UNCHANGED <<pc, dispatchWG>>
    BY <1>5 DEF Worker, WorkerReceive, WorkerExitClosed, WorkerExitCancelled,
       WorkerSend, dispatchVars
  <1>6. ASSUME NEW d \in Drainers, Drain(d) PROVE UNCHANGED <<pc, dispatchWG>>
    BY <1>6 DEF Drain, DrainBegin, DrainWait, DrainWaitReturns, DrainClose,
       DrainComplete, DrainDeadline, dispatchVars
  <1>7. Start \/ CloseWorkersDone \/ CancelParent \/ UNCHANGED vars
          => UNCHANGED <<pc, dispatchWG>>
    BY DEF Start, CloseWorkersDone, CancelParent, dispatchVars, vars
  <1> QED
    BY <1>1, <1>2, <1>3, <1>4, <1>5, <1>6, <1>7 DEF Next, Dispatch

\* The actions that touch neither drainPc nor any variable the invariant about
\* the closing of ch reads.
Quiet == UNCHANGED <<acceptingNew, chClosed, pc, drainPc, panicked>>

LEMMA QuietSteps ==
  /\ \A w \in Workers : Worker(w) => Quiet
  /\ Start \/ CloseWorkersDone \/ CancelParent \/ UNCHANGED vars => Quiet
  BY DEF Quiet, Worker, WorkerReceive, WorkerExitClosed, WorkerExitCancelled,
     WorkerSend, Start, CloseWorkersDone, CancelParent, dispatchVars, drainVars, vars

\* What the parts of the invariant read.
LEMMA Frame ==
  /\ OneDrainer /\ UNCHANGED <<acceptingNew, drainPc>> => OneDrainer'
  /\ NoWriterLeft /\ UNCHANGED <<pc, drainPc>> => NoWriterLeft'
  /\ ClosedOnce /\ UNCHANGED <<chClosed, drainPc>> => ClosedOnce'
  /\ NoChannelPanic /\ UNCHANGED panicked => NoChannelPanic'
  <1>1. OneDrainer /\ UNCHANGED <<acceptingNew, drainPc>> => OneDrainer'
    BY DEF OneDrainer, Draining
  <1>2. NoWriterLeft /\ UNCHANGED <<pc, drainPc>> => NoWriterLeft'
    BY DEF NoWriterLeft
  <1>3. ClosedOnce /\ UNCHANGED <<chClosed, drainPc>> => ClosedOnce'
    BY DEF ClosedOnce
  <1>4. NoChannelPanic /\ UNCHANGED panicked => NoChannelPanic'
    BY DEF NoChannelPanic
  <1> QED
    BY <1>1, <1>2, <1>3, <1>4

\* One more step of the call of Drain that holds the channel keeps it the only
\* one.
LEMMA SameDrainer ==
  ASSUME OneDrainer, DrainTypeOK, NEW d \in Drainers, d \in Draining,
         UNCHANGED acceptingNew, NEW l \in DrainPCs, DrainGoto(d, l)
  PROVE  OneDrainer'
  <1>1. Draining' \subseteq Draining
    BY DEF Draining, DrainTypeOK, DrainGoto
  <1> QED
    BY <1>1 DEF OneDrainer

LEMMA CloseStep ==
  ChannelInv /\ [Next]_vars => (OneDrainer /\ NoWriterLeft /\ ClosedOnce /\ NoChannelPanic)'
  <1> SUFFICES ASSUME ChannelInv, [Next]_vars
               PROVE  (OneDrainer /\ NoWriterLeft /\ ClosedOnce /\ NoChannelPanic)'
    OBVIOUS
  <1>0. /\ DispatchTypeOK /\ DrainTypeOK
        /\ WGCounts /\ OneDrainer /\ NoWriterLeft /\ ClosedOnce /\ NoChannelPanic
    BY DEF TypeOK, ChannelInv
  <1> USE DEF OneDrainer, NoWriterLeft, ClosedOnce, NoChannelPanic, Draining,
              BeforeClose, AfterClose, AwaitClosed
  <1>1. ASSUME NEW s \in Spans, DispatchLoad(s) \/ DispatchRegister(s)
        PROVE  (OneDrainer /\ NoWriterLeft /\ ClosedOnce /\ NoChannelPanic)'
    <2>1. UNCHANGED <<acceptingNew, chClosed, drainPc, panicked>>
      BY <1>1 DEF DispatchLoad, DispatchRegister, drainVars
    <2>2. NoWriterLeft'
      BY <1>0, <1>1 DEF DispatchLoad, DispatchRegister, Goto, drainVars, DispatchTypeOK
    <2> QED
      BY <1>0, <2>1, <2>2, Frame
  <1>2. ASSUME NEW s \in Spans, DispatchRecheck(s)
        PROVE  (OneDrainer /\ NoWriterLeft /\ ClosedOnce /\ NoChannelPanic)'
    <2>1. UNCHANGED <<acceptingNew, chClosed, drainPc, panicked>>
      BY <1>2 DEF DispatchRecheck, drainVars
    <2>2. NoWriterLeft'
      BY <1>0, <1>2 DEF DispatchRecheck, Goto, drainVars, DispatchTypeOK
    <2> QED
      BY <1>0, <2>1, <2>2, Frame
  <1>3. ASSUME NEW s \in Spans, DispatchSend(s)
        PROVE  (OneDrainer /\ NoWriterLeft /\ ClosedOnce /\ NoChannelPanic)'
    <2>1. ~chClosed
      BY <1>0, <1>3 DEF DispatchSend
    <2>2. UNCHANGED <<acceptingNew, chClosed, drainPc, panicked>> /\ Goto(s, "done")
      BY <1>3, <2>1 DEF DispatchSend, drainVars
    <2> QED
      BY <1>0, <2>2 DEF Goto, DispatchTypeOK
  <1>4. ASSUME NEW s \in Spans, DispatchDone(s)
        PROVE  (OneDrainer /\ NoWriterLeft /\ ClosedOnce /\ NoChannelPanic)'
    <2>1. UNCHANGED <<acceptingNew, chClosed, panicked>> /\ Goto(s, "returned")
      BY <1>4 DEF DispatchDone
    <2>2. CASE dispatchWG = 1
      <3>1. \A r \in Spans : pc'[r] # "send"
        BY <1>4, <2>2, LastDone DEF Registered
      <3>2. \A d \in Drainers : \/ drainPc'[d] = drainPc[d]
                                \/ drainPc[d] = "blocked" /\ drainPc'[d] = "woken"
        BY <1>4 DEF DispatchDone
      <3> QED
        BY <1>0, <2>1, <3>1, <3>2
    <2>3. CASE dispatchWG # 1
      <3>1. drainPc' = drainPc
        BY <1>0, <1>4, <2>3 DEF DispatchDone, DrainTypeOK
      <3> QED
        BY <1>0, <2>1, <3>1 DEF Goto, DispatchTypeOK
    <2> QED
      BY <2>2, <2>3
  <1>5. ASSUME NEW d \in Drainers, DrainBegin(d)
        PROVE  (OneDrainer /\ NoWriterLeft /\ ClosedOnce /\ NoChannelPanic)'
    <2>1. OneDrainer'
      BY <1>0, <1>5 DEF DrainBegin, DrainGoto, DrainTypeOK
    <2>2. NoWriterLeft'
      BY <1>0, <1>5 DEF DrainBegin, DrainGoto, DrainTypeOK
    <2>3. ClosedOnce'
      BY <1>0, <1>5 DEF DrainBegin, DrainGoto, DrainTypeOK
    <2>4. NoChannelPanic'
      BY <1>0, <1>5 DEF DrainBegin, DrainGoto, DrainTypeOK
    <2> QED
      BY <2>1, <2>2, <2>3, <2>4
  <1>6. ASSUME NEW d \in Drainers, DrainWait(d)
        PROVE  (OneDrainer /\ NoWriterLeft /\ ClosedOnce /\ NoChannelPanic)'
    <2>1. dispatchWG = 0 => \A s \in Spans : pc[s] # "send"
      BY <1>0, ZeroMeansNone DEF Registered
    <2> QED
      BY <1>0, <1>6, <2>1 DEF DrainWait, DrainGoto, DrainTypeOK, dispatchVars
  <1>7. ASSUME NEW d \in Drainers, DrainWaitReturns(d)
        PROVE  (OneDrainer /\ NoWriterLeft /\ ClosedOnce /\ NoChannelPanic)'
    <2>1. OneDrainer'
      <3>1. d \in Draining /\ UNCHANGED acceptingNew /\ DrainGoto(d, "close")
        BY <1>7 DEF DrainWaitReturns, dispatchVars
      <3> QED
        BY <1>0, <3>1, SameDrainer DEF DrainPCs
    <2>2. NoWriterLeft'
      BY <1>0, <1>7 DEF DrainWaitReturns, DrainGoto, DrainTypeOK, dispatchVars
    <2>3. ClosedOnce'
      BY <1>0, <1>7 DEF DrainWaitReturns, DrainGoto, DrainTypeOK, dispatchVars
    <2>4. NoChannelPanic'
      BY <1>0, <1>7 DEF DrainWaitReturns
    <2> QED
      BY <2>1, <2>2, <2>3, <2>4
  <1>8. ASSUME NEW d \in Drainers, DrainClose(d)
        PROVE  (OneDrainer /\ NoWriterLeft /\ ClosedOnce /\ NoChannelPanic)'
    <2>1. OneDrainer'
      <3>1. d \in Draining /\ UNCHANGED acceptingNew /\ DrainGoto(d, "select")
        BY <1>8 DEF DrainClose, dispatchVars
      <3> QED
        BY <1>0, <3>1, SameDrainer DEF DrainPCs
    <2>2. NoWriterLeft'
      BY <1>0, <1>8 DEF DrainClose, DrainGoto, DrainTypeOK, dispatchVars
    <2>3. ClosedOnce'
      <3>1. drainPc'[d] = "select" /\ \A e \in Drainers : e # d => drainPc'[e] = drainPc[e]
        BY <1>0, <1>8 DEF DrainClose, DrainGoto, DrainTypeOK
      <3>2. \A e \in Drainers : drainPc[e] \in BeforeClose => e = d
        BY <1>0, <1>8 DEF DrainClose
      <3> QED
        BY <3>1, <3>2
    <2>4. NoChannelPanic'
      BY <1>0, <1>8 DEF DrainClose
    <2> QED
      BY <2>1, <2>2, <2>3, <2>4
  <1>9. ASSUME NEW d \in Drainers, DrainComplete(d) \/ DrainDeadline(d)
        PROVE  (OneDrainer /\ NoWriterLeft /\ ClosedOnce /\ NoChannelPanic)'
    <2>0. PICK l \in {"drained", "timedout"} : DrainGoto(d, l)
      BY <1>9 DEF DrainComplete, DrainDeadline
    <2>1. /\ drainPc[d] = "select"
          /\ UNCHANGED <<acceptingNew, chClosed, pc, panicked>>
      BY <1>9 DEF DrainComplete, DrainDeadline, dispatchVars
    <2>2. OneDrainer'
      BY <1>0, <2>0, <2>1, SameDrainer DEF DrainPCs
    <2>3. NoWriterLeft'
      BY <1>0, <2>0, <2>1 DEF DrainGoto, DrainTypeOK
    <2>4. ClosedOnce'
      BY <1>0, <2>0, <2>1 DEF DrainGoto, DrainTypeOK
    <2> QED
      BY <1>0, <2>1, <2>2, <2>3, <2>4, Frame
  <1>10. Quiet => (OneDrainer /\ NoWriterLeft /\ ClosedOnce /\ NoChannelPanic)'
    BY <1>0, Frame DEF Quiet
  <1> QED
    BY <1>1, <1>2, <1>3, <1>4, <1>5, <1>6, <1>7, <1>8, <1>9, <1>10, QuietSteps
    DEF Next, Dispatch, Drain

LEMMA InductiveStep == ChannelInv /\ [Next]_vars => ChannelInv'
  BY DispatchTypeStep, WorkerTypeStep, DrainTypeStep, WGStep, CloseStep
  DEF TypeOK, ChannelInv

\* The variables of dispatch.go keep their types in every behaviour.
THEOREM TypeCorrect == Spec => []TypeOK
  <1>1. ChannelInv => TypeOK
    BY DEF ChannelInv
  <1> QED
    BY <1>1, InitInv, InductiveStep, PTL DEF Spec

\* Dispatch never sends on the closed channel, and Drain never closes it a
\* second time, for any number of concurrent calls of either.
THEOREM ChannelSafe == Spec => []ChannelInv
  BY InitInv, InductiveStep, PTL DEF Spec
-----------------------------------------------------------------------------
(***************************************************************************)
(* The end of a drain.  A worker exits for a reason that lasts: the closed *)
(* channel is empty, or its context is done.                               *)
(***************************************************************************)

ExitsFor    == (\E w \in Workers : wpc[w] = "exited")
                 => WorkerCtxDone \/ (chClosed /\ ch = <<>>)
DoneMeans   == workersDone => \A w \in Workers : wpc[w] = "exited"
CancelledBy == drainCancelled => \E d \in Drainers : drainPc[d] = "timedout"
DrainedBy   == (\E d \in Drainers : drainPc[d] = "drained") => workersDone

DrainInv == ChannelInv /\ ExitsFor /\ DoneMeans /\ CancelledBy /\ DrainedBy

LEMMA DrainInit == Init => DrainInv
  BY InitInv DEF Init, DrainInv, ExitsFor, DoneMeans, CancelledBy, DrainedBy

\* Nothing writes to the channel once the wait is over.
LEMMA ClosedForSending ==
  ASSUME ChannelInv, NEW s \in Spans, chClosed
  PROVE  ~DispatchSend(s)
  BY DEF ChannelInv, NoWriterLeft, ClosedOnce, AwaitClosed, AfterClose, DispatchSend

LEMMA ExitsForStep == DrainInv /\ [Next]_vars => ExitsFor'
  <1> SUFFICES ASSUME DrainInv, [Next]_vars PROVE ExitsFor'
    OBVIOUS
  <1> USE DEF ExitsFor, WorkerCtxDone
  <1>0. /\ ChannelInv /\ ExitsFor
        /\ ch \in Seq(Spans) /\ wpc \in [Workers -> WorkerPCs]
    BY DEF DrainInv, ChannelInv, TypeOK, WorkerTypeOK
  <1>1. ASSUME NEW s \in Spans, Dispatch(s) PROVE ExitsFor'
    <2>1. CASE DispatchSend(s)
      BY <1>0, <2>1, ClosedForSending DEF DispatchSend, workerVars, drainVars
    <2>2. CASE ~DispatchSend(s)
      BY <1>0, <1>1, <2>2
      DEF Dispatch, DispatchLoad, DispatchRegister, DispatchRecheck, DispatchDone,
          workerVars, drainVars
    <2> QED
      BY <2>1, <2>2
  <1>2. ASSUME NEW w \in Workers, WorkerReceive(w) PROVE ExitsFor'
    BY <1>0, <1>2 DEF WorkerReceive, drainVars
  <1>3. ASSUME NEW w \in Workers, WorkerExitClosed(w) \/ WorkerExitCancelled(w)
        PROVE  ExitsFor'
    BY <1>0, <1>3 DEF WorkerExitClosed, WorkerExitCancelled, dispatchVars, drainVars
  <1>4. ASSUME NEW w \in Workers, WorkerSend(w) PROVE ExitsFor'
    BY <1>0, <1>4 DEF WorkerSend, dispatchVars, drainVars
  <1>5. CASE Start
    BY <1>0, <1>5 DEF Start, dispatchVars
  <1>6. CASE CloseWorkersDone \/ CancelParent
    BY <1>0, <1>6 DEF CloseWorkersDone, CancelParent, dispatchVars, drainVars
  <1>7. ASSUME NEW d \in Drainers, Drain(d) PROVE ExitsFor'
    BY <1>0, <1>7
    DEF Drain, DrainBegin, DrainWait, DrainWaitReturns, DrainClose, DrainComplete,
        DrainDeadline, dispatchVars, workerVars
  <1>8. CASE UNCHANGED vars
    BY <1>0, <1>8 DEF vars
  <1> QED
    BY <1>1, <1>2, <1>3, <1>4, <1>5, <1>6, <1>7, <1>8 DEF Next, Worker

LEMMA DoneMeansStep == DrainInv /\ [Next]_vars => DoneMeans'
  <1> SUFFICES ASSUME DrainInv, [Next]_vars PROVE DoneMeans'
    OBVIOUS
  <1> USE DEF DoneMeans
  <1>0. DoneMeans /\ wpc \in [Workers -> WorkerPCs] /\ \E w \in Workers : TRUE
    BY WorkersAssumption DEF DrainInv, ChannelInv, TypeOK, WorkerTypeOK
  <1>1. ASSUME NEW s \in Spans, Dispatch(s) PROVE DoneMeans'
    BY <1>0, <1>1
    DEF Dispatch, DispatchLoad, DispatchRegister, DispatchRecheck, DispatchSend,
        DispatchDone, workerVars
  <1>2. ASSUME NEW w \in Workers, Worker(w) PROVE DoneMeans'
    BY <1>0, <1>2 DEF Worker, WorkerReceive, WorkerExitClosed, WorkerExitCancelled, WorkerSend
  <1>3. CASE Start
    BY <1>0, <1>3 DEF Start
  <1>4. CASE CloseWorkersDone \/ CancelParent
    BY <1>0, <1>4 DEF CloseWorkersDone, CancelParent
  <1>5. ASSUME NEW d \in Drainers, Drain(d) PROVE DoneMeans'
    BY <1>0, <1>5
    DEF Drain, DrainBegin, DrainWait, DrainWaitReturns, DrainClose, DrainComplete,
        DrainDeadline, workerVars
  <1>6. CASE UNCHANGED vars
    BY <1>0, <1>6 DEF vars
  <1> QED
    BY <1>1, <1>2, <1>3, <1>4, <1>5, <1>6 DEF Next

LEMMA DrainEndStep == DrainInv /\ [Next]_vars => (CancelledBy /\ DrainedBy)'
  <1> SUFFICES ASSUME DrainInv, [Next]_vars PROVE (CancelledBy /\ DrainedBy)'
    OBVIOUS
  <1> USE DEF CancelledBy, DrainedBy
  <1>0. CancelledBy /\ DrainedBy /\ drainPc \in [Drainers -> DrainPCs]
    BY DEF DrainInv, ChannelInv, TypeOK, DrainTypeOK
  <1>1. ASSUME NEW s \in Spans, Dispatch(s) PROVE (CancelledBy /\ DrainedBy)'
    <2>1. CASE DispatchDone(s)
      BY <1>0, <2>1 DEF DispatchDone, workerVars
    <2>2. CASE ~DispatchDone(s)
      <3>1. UNCHANGED <<drainPc, drainCancelled, workersDone>>
        BY <1>1, <2>2
        DEF Dispatch, DispatchLoad, DispatchRegister, DispatchRecheck, DispatchSend,
            workerVars, drainVars
      <3> QED
        BY <1>0, <3>1
    <2> QED
      BY <2>1, <2>2
  <1>2. ASSUME NEW w \in Workers, Worker(w) PROVE (CancelledBy /\ DrainedBy)'
    BY <1>0, <1>2
    DEF Worker, WorkerReceive, WorkerExitClosed, WorkerExitCancelled, WorkerSend, drainVars
  <1>3. CASE Start \/ CloseWorkersDone \/ CancelParent
    BY <1>0, <1>3 DEF Start, CloseWorkersDone, CancelParent, drainVars
  <1>4. ASSUME NEW d \in Drainers, Drain(d) PROVE (CancelledBy /\ DrainedBy)'
    <2>1. CASE DrainComplete(d)
      BY <1>0, <2>1 DEF DrainComplete, DrainGoto, dispatchVars, workerVars
    <2>2. CASE DrainDeadline(d)
      BY <1>0, <2>2 DEF DrainDeadline, DrainGoto, dispatchVars, workerVars
    <2>3. CASE ~DrainComplete(d) /\ ~DrainDeadline(d)
      <3>1. /\ UNCHANGED <<drainCancelled, workersDone>>
            /\ drainPc[d] \notin {"drained", "timedout"}
            /\ \E l \in {"wait", "noop", "close", "blocked", "select"} : DrainGoto(d, l)
        BY <1>4, <2>3
        DEF Drain, DrainBegin, DrainWait, DrainWaitReturns, DrainClose, workerVars
      <3> QED
        BY <1>0, <3>1 DEF DrainGoto
    <2> QED
      BY <2>1, <2>2, <2>3
  <1>5. CASE UNCHANGED vars
    BY <1>0, <1>5 DEF vars
  <1> QED
    BY <1>1, <1>2, <1>3, <1>4, <1>5 DEF Next

LEMMA DrainStep == DrainInv /\ [Next]_vars => DrainInv'
  BY InductiveStep, ExitsForStep, DoneMeansStep, DrainEndStep DEF DrainInv

\* The Drain that saw the workers end is the only one past the flag, so nobody has
\* cancelled their context in its place.
LEMMA EmptyAtTheEnd == DrainInv => DrainedMeansEmpty
  <1> SUFFICES ASSUME DrainInv, NEW d \in Drainers, drainPc[d] = "drained", ~parentCancelled
               PROVE  ch = <<>> /\ InFlight = {} /\ chClosed
    BY DEF DrainedMeansEmpty
  <1>1. \A w \in Workers : wpc[w] = "exited"
    BY DEF DrainInv, DrainedBy, DoneMeans
  <1>2. ~drainCancelled
    BY DEF DrainInv, CancelledBy, ChannelInv, OneDrainer, Draining
  <1>3. ch = <<>> /\ chClosed
    BY <1>1, <1>2, WorkersAssumption DEF DrainInv, ExitsFor, WorkerCtxDone
  <1> QED
    BY <1>1, <1>3 DEF InFlight

LEMMA NothingAccepted ==
  ASSUME ChannelInv, [Next]_vars,
         NEW d \in Drainers, drainPc[d] \in {"drained", "timedout"}
  PROVE  Len(ch') <= Len(ch)
  <1>0. ch \in Seq(Spans) /\ Len(ch) \in Nat
    BY DEF ChannelInv, TypeOK, WorkerTypeOK
  <1>1. ASSUME NEW s \in Spans, Dispatch(s) PROVE ch' = ch
    <2>1. ~DispatchSend(s)
      BY DEF ChannelInv, NoWriterLeft, AwaitClosed, AfterClose, DispatchSend
    <2> QED
      BY <1>1, <2>1 DEF Dispatch, DispatchLoad, DispatchRegister, DispatchRecheck, DispatchDone
  <1>2. ASSUME NEW w \in Workers, WorkerReceive(w) PROVE Len(ch') <= Len(ch)
    BY <1>0, <1>2 DEF WorkerReceive
  <1>3. ASSUME NEW w \in Workers, Worker(w), ~WorkerReceive(w) PROVE ch' = ch
    BY <1>3 DEF Worker, WorkerExitClosed, WorkerExitCancelled, WorkerSend, dispatchVars
  <1>4. CASE Start \/ CloseWorkersDone \/ CancelParent
    BY <1>0, <1>4 DEF Start, CloseWorkersDone, CancelParent, dispatchVars
  <1>5. ASSUME NEW e \in Drainers, Drain(e) PROVE ch' = ch
    BY <1>5
    DEF Drain, DrainBegin, DrainWait, DrainWaitReturns, DrainClose, DrainComplete,
        DrainDeadline, dispatchVars
  <1>6. CASE UNCHANGED vars
    BY <1>0, <1>6 DEF vars
  <1> QED
    BY <1>0, <1>1, <1>2, <1>3, <1>4, <1>5, <1>6 DEF Next

\* Drain is final, for any number of spans, workers and callers: one that completed has
\* left nothing behind, and after any of them nothing is accepted.
THEOREM DrainFinal == Spec => DrainIsFinal
  <1>1. DrainInv /\ [Next]_vars
          => [(\E d \in Drainers : drainPc[d] \in {"drained", "timedout"})
                => Len(ch') <= Len(ch)]_vars
    BY NothingAccepted DEF DrainInv
  <1> QED
    BY <1>1, DrainInit, DrainStep, EmptyAtTheEnd, PTL
    DEF Spec, DrainIsFinal, NothingAcceptedAfterDrain
-----------------------------------------------------------------------------
(***************************************************************************)
(* Where the spans are.  A span whose call has decided about it is in one  *)
(* place at most: the channel, a worker's hands, received, lost, or        *)
(* nowhere because it was refused.                                         *)
(***************************************************************************)

Finished == {s \in Spans : pc[s] \in {"done", "returned"}}

Once    == \A i, j \in 1..Len(ch) : ch[i] = ch[j] => i = j
OneHand == \A v, w \in InFlight : wspan[v] = wspan[w] => v = w
OnePlace ==
  /\ \A i \in 1..Len(ch) : ch[i] \notin received \union lost
  /\ \A w \in InFlight : wspan[w] \notin received \union lost
  /\ \A i \in 1..Len(ch), w \in InFlight : ch[i] # wspan[w]
  /\ received \cap lost = {}
NotYet ==
  \A s \in Spans \ Finished :
    /\ s \notin received \union lost
    /\ \A i \in 1..Len(ch) : ch[i] # s
    /\ \A w \in InFlight : wspan[w] # s
Fits == Len(ch) <= BufferSize

Places    == Once /\ OneHand /\ OnePlace /\ NotYet /\ Fits
PlacesInv == ChannelInv /\ Places

\* What a step can do to the spans: nothing, refuse one, or accept one; or else a worker
\* takes or sends one.
Stays ==
  /\ UNCHANGED <<ch, wspan, received, lost, dropped>>
  /\ InFlight' = InFlight /\ Finished' = Finished
  /\ chClosed' \/ ~chClosed
Refuses(s) ==
  /\ s \notin Finished /\ Finished' = Finished \union {s}
  /\ dropped' = dropped + 1
  /\ UNCHANGED <<ch, chClosed, wspan, InFlight, received, lost>>
Accepts(s) ==
  /\ s \notin Finished /\ Finished' = Finished \union {s}
  /\ ~chClosed /\ Len(ch) < BufferSize /\ ch' = Append(ch, s)
  /\ UNCHANGED <<dropped, chClosed, wspan, InFlight, received, lost>>
Takes(w) ==
  /\ w \in Workers \ InFlight /\ InFlight' = InFlight \union {w}
  /\ ch # <<>> /\ ch' = Tail(ch) /\ wspan' = [wspan EXCEPT ![w] = Head(ch)]
  /\ UNCHANGED <<chClosed, dropped, received, lost>> /\ Finished' = Finished
Sends(w) ==
  /\ w \in InFlight /\ InFlight' = InFlight \ {w}
  /\ wspan' = [wspan EXCEPT ![w] = NoSpan]
  /\ \/ received' = received \union {wspan[w]} /\ UNCHANGED lost
     \/ lost' = lost \union {wspan[w]} /\ UNCHANGED received
  /\ UNCHANGED <<ch, chClosed, dropped>> /\ Finished' = Finished

LEMMA Kinds ==
  ASSUME ChannelInv, [Next]_vars
  PROVE  \/ Stays
         \/ \E s \in Spans : Refuses(s) \/ Accepts(s)
         \/ \E w \in Workers : Takes(w) \/ Sends(w)
<1>0. /\ pc \in [Spans -> DispatchPCs] /\ wpc \in [Workers -> WorkerPCs]
      /\ chClosed \in BOOLEAN
  BY DEF ChannelInv, TypeOK, DispatchTypeOK, WorkerTypeOK
<1>1. ASSUME NEW s \in Spans, DispatchLoad(s) \/ DispatchRecheck(s)
      PROVE  Stays \/ Refuses(s)
  BY <1>0, <1>1
  DEF DispatchLoad, DispatchRecheck, Goto, Finished, InFlight, Stays, Refuses, workerVars
<1>2. ASSUME NEW s \in Spans, DispatchRegister(s) \/ DispatchDone(s) PROVE Stays
  BY <1>0, <1>2
  DEF DispatchRegister, DispatchDone, Goto, Finished, InFlight, Stays, workerVars
<1>3. ASSUME NEW s \in Spans, DispatchSend(s) PROVE Accepts(s) \/ Refuses(s)
  <2>1. ~chClosed
    BY <1>3, ClosedForSending
  <2> QED
    BY <1>0, <1>3, <2>1
    DEF DispatchSend, Goto, Finished, InFlight, Accepts, Refuses, workerVars
<1>4. ASSUME NEW w \in Workers, WorkerReceive(w) PROVE Takes(w)
  BY <1>0, <1>4 DEF WorkerReceive, Finished, InFlight, Takes
<1>5. ASSUME NEW w \in Workers, WorkerSend(w) PROVE Sends(w)
  BY <1>0, <1>5 DEF WorkerSend, dispatchVars, Finished, InFlight, Sends
<1>6. ASSUME NEW w \in Workers, WorkerExitClosed(w) \/ WorkerExitCancelled(w) PROVE Stays
  BY <1>0, <1>6
  DEF WorkerExitClosed, WorkerExitCancelled, dispatchVars, Finished, InFlight, Stays
<1>7. CASE Start \/ CloseWorkersDone \/ CancelParent
  BY <1>0, <1>7
  DEF Start, CloseWorkersDone, CancelParent, dispatchVars, Finished, InFlight, Stays
<1>8. ASSUME NEW d \in Drainers, Drain(d) PROVE Stays
  BY <1>0, <1>8
  DEF Drain, DrainBegin, DrainWait, DrainWaitReturns, DrainClose, DrainComplete,
      DrainDeadline, dispatchVars, workerVars, Finished, InFlight, Stays
<1>9. CASE UNCHANGED vars
  BY <1>0, <1>9 DEF vars, Finished, InFlight, Stays
<1> QED
  BY <1>1, <1>2, <1>3, <1>4, <1>5, <1>6, <1>7, <1>8, <1>9 DEF Next, Dispatch, Worker

LEMMA PlacesInit == Init => PlacesInv
  BY InitInv, BufferAssumption
  DEF Init, PlacesInv, Places, Once, OneHand, OnePlace, NotYet, Fits, InFlight

LEMMA PlacesStep == PlacesInv /\ [Next]_vars => PlacesInv'
<1> SUFFICES ASSUME PlacesInv, [Next]_vars PROVE Places'
  BY InductiveStep DEF PlacesInv
<1> USE DEF Places, Once, OneHand, OnePlace, NotYet, Fits
<1>0. /\ Places /\ BufferSize \in Nat
      /\ ch \in Seq(Spans) /\ Len(ch) \in Nat
      /\ wspan \in [Workers -> Spans \union {NoSpan}]
      /\ \A w \in InFlight : w \in Workers /\ wspan[w] \in Spans
  BY BufferAssumption DEF PlacesInv, ChannelInv, TypeOK, WorkerTypeOK, InFlight
<1>1. CASE Stays
  BY <1>0, <1>1 DEF Stays
<1>2. ASSUME NEW s \in Spans, Refuses(s) PROVE Places'
  BY <1>0, <1>2 DEF Refuses
<1>3. ASSUME NEW s \in Spans, Accepts(s) PROVE Places'
  <2>1. /\ Len(ch') = Len(ch) + 1 /\ ch'[Len(ch) + 1] = s
        /\ \A i \in 1..Len(ch) : ch'[i] = ch[i]
    BY <1>0, <1>3 DEF Accepts
  <2>2. /\ s \notin received \union lost
        /\ \A i \in 1..Len(ch) : ch[i] # s
        /\ \A w \in InFlight : wspan[w] # s
    BY <1>0, <1>3 DEF Accepts
  <2>3. \A i \in 1..Len(ch') : i \in 1..Len(ch) \/ i = Len(ch) + 1
    BY <1>0, <2>1
  <2>4. Once'
    BY <1>0, <2>1, <2>2, <2>3
  <2>5. OneHand' /\ OnePlace'
    BY <1>0, <1>3, <2>1, <2>2, <2>3 DEF Accepts
  <2>6. NotYet'
    BY <1>0, <1>3, <2>1, <2>2, <2>3 DEF Accepts
  <2>7. Fits'
    BY <1>0, <1>3, <2>1 DEF Accepts
  <2> QED
    BY <2>4, <2>5, <2>6, <2>7
<1>4. ASSUME NEW w \in Workers, Takes(w) PROVE Places'
  <2>1. /\ Len(ch) >= 1 /\ Len(ch') = Len(ch) - 1
        /\ \A i \in 1..Len(ch') : i + 1 \in 1..Len(ch) /\ ch'[i] = ch[i + 1]
        /\ 1 \in 1..Len(ch) /\ Head(ch) = ch[1] /\ ch[1] \in Spans
    BY <1>0, <1>4 DEF Takes
  <2>2. /\ wspan'[w] = ch[1] /\ w \notin InFlight
        /\ \A v \in InFlight : wspan'[v] = wspan[v]
        /\ \A v \in InFlight' : v = w \/ v \in InFlight
    BY <1>0, <1>4, <2>1 DEF Takes
  <2>3. UNCHANGED <<received, lost>> /\ Finished' = Finished
    BY <1>4 DEF Takes
  <2>4. Once'
    BY <1>0, <2>1
  <2>5. OneHand'
    BY <1>0, <2>1, <2>2
  <2>6. OnePlace'
    BY <1>0, <2>1, <2>2, <2>3
  <2>7. NotYet'
    BY <1>0, <2>1, <2>2, <2>3
  <2>8. Fits'
    BY <1>0, <2>1
  <2> QED
    BY <2>4, <2>5, <2>6, <2>7, <2>8
<1>5. ASSUME NEW w \in Workers, Sends(w) PROVE Places'
  <2>1. /\ w \in InFlight /\ UNCHANGED ch /\ Finished' = Finished
        /\ \A v \in InFlight' : v \in InFlight /\ v # w /\ wspan'[v] = wspan[v]
    BY <1>0, <1>5 DEF Sends
  <2>2. (received' \union lost') = (received \union lost) \union {wspan[w]}
    BY <1>5 DEF Sends
  <2>3. received' \cap lost' = {}
    BY <1>0, <1>5 DEF Sends
  <2>4. wspan[w] \in Finished
    BY <1>0, <2>1
  <2>5. OneHand' /\ Once' /\ Fits'
    BY <1>0, <2>1
  <2>6. OnePlace'
    BY <1>0, <2>1, <2>2, <2>3
  <2>7. NotYet'
    BY <1>0, <2>1, <2>2, <2>4
  <2> QED
    BY <2>5, <2>6, <2>7
<1> QED
  BY <1>1, <1>2, <1>3, <1>4, <1>5, Kinds DEF PlacesInv
-----------------------------------------------------------------------------
\* The sets that are counted are finite.
LEMMA CountsFinite ==
  ASSUME ChannelInv
  PROVE  /\ IsFiniteSet(Finished) /\ Cardinality(Finished) \in Nat
         /\ IsFiniteSet(InFlight) /\ Cardinality(InFlight) \in Nat
         /\ IsFiniteSet(received) /\ Cardinality(received) \in Nat
         /\ IsFiniteSet(lost) /\ Cardinality(lost) \in Nat
<1>1. /\ Finished \subseteq Spans /\ InFlight \subseteq Workers
      /\ received \subseteq Spans /\ lost \subseteq Spans
  BY DEF Finished, InFlight, ChannelInv, TypeOK, WorkerTypeOK
<1>2. \A S \in SUBSET Spans : IsFiniteSet(S)
  BY SpansAssumption, FS_Subset
<1>3. \A S \in SUBSET Workers : IsFiniteSet(S)
  BY WorkersAssumption, FS_Subset
<1> QED
  BY <1>1, <1>2, <1>3, FS_CardinalityType

\* Accounting without its premise: the panics that are left do not touch the counts.
Balance ==
  Cardinality(Finished)
    = dropped + Len(ch) + Cardinality(InFlight) + Cardinality(received) + Cardinality(lost)

LEMMA BalanceStep == PlacesInv /\ Balance /\ [Next]_vars => Balance'
<1> SUFFICES ASSUME PlacesInv, Balance, [Next]_vars PROVE Balance'
  OBVIOUS
<1>0. /\ ChannelInv /\ dropped \in Nat /\ ch \in Seq(Spans) /\ Len(ch) \in Nat
  BY DEF PlacesInv, ChannelInv, TypeOK, DispatchTypeOK, WorkerTypeOK
<1>1. CASE Stays
  BY <1>1 DEF Stays, Balance
<1>2. ASSUME NEW s \in Spans, Refuses(s) \/ Accepts(s) PROVE Balance'
  <2>1. Cardinality(Finished \union {s}) =
          IF s \in Finished THEN Cardinality(Finished) ELSE Cardinality(Finished) + 1
    BY <1>0, CountsFinite, FS_AddElement, Zenon
  <2>2. Cardinality(Finished') = Cardinality(Finished) + 1
    BY <1>2, <2>1 DEF Refuses, Accepts
  <2>3. dropped' + Len(ch') = dropped + Len(ch) + 1
    BY <1>0, <1>2 DEF Refuses, Accepts
  <2>4. UNCHANGED <<InFlight, received, lost>>
    BY <1>2 DEF Refuses, Accepts
  <2>5. dropped' \in Nat /\ Len(ch') \in Nat
    BY <1>0, <1>2 DEF Refuses, Accepts
  <2>6. PICK i \in Nat, r \in Nat, l \in Nat :
          i = Cardinality(InFlight) /\ r = Cardinality(received) /\ l = Cardinality(lost)
    BY <1>0, CountsFinite
  <2>7. PICK d \in Nat, n \in Nat, e \in Nat, o \in Nat :
          d = dropped /\ n = Len(ch) /\ e = dropped' /\ o = Len(ch')
    BY <1>0, <2>5
  <2>8. d + n + i + r + l + 1 = e + o + i + r + l
    BY <2>3, <2>7
  <2>9. Cardinality(Finished) = d + n + i + r + l
    BY <2>6, <2>7, Zenon DEF Balance
  <2>10. Cardinality(Finished') = e + o + i + r + l
    BY <2>2, <2>8, <2>9, Zenon
  <2> QED
    BY <2>4, <2>6, <2>7, <2>10, Zenon DEF Balance
<1>3. ASSUME NEW w \in Workers, Takes(w) PROVE Balance'
  <2>1. Cardinality(InFlight \union {w}) =
          IF w \in InFlight THEN Cardinality(InFlight) ELSE Cardinality(InFlight) + 1
    BY <1>0, CountsFinite, FS_AddElement, Zenon
  <2>2. Cardinality(InFlight') = Cardinality(InFlight) + 1
    BY <1>3, <2>1 DEF Takes
  <2>3. Len(ch') = Len(ch) - 1
    BY <1>0, <1>3 DEF Takes
  <2>4. UNCHANGED <<dropped, received, lost>> /\ Finished' = Finished
    BY <1>3 DEF Takes
  <2> QED
    BY <1>0, <2>2, <2>3, <2>4, CountsFinite DEF Balance
<1>4. ASSUME NEW w \in Workers, Sends(w) PROVE Balance'
  <2>1. w \in InFlight /\ wspan[w] \notin received /\ wspan[w] \notin lost
    BY <1>4 DEF Sends, PlacesInv, Places, OnePlace
  <2>2. Cardinality(InFlight \ {w}) =
          IF w \in InFlight THEN Cardinality(InFlight) - 1 ELSE Cardinality(InFlight)
    BY <1>0, CountsFinite, FS_RemoveElement, Zenon
  <2>3. /\ Cardinality(received \union {wspan[w]}) =
             IF wspan[w] \in received THEN Cardinality(received) ELSE Cardinality(received) + 1
        /\ Cardinality(lost \union {wspan[w]}) =
             IF wspan[w] \in lost THEN Cardinality(lost) ELSE Cardinality(lost) + 1
    BY <1>0, CountsFinite, FS_AddElement, Zenon
  <2>4. Cardinality(InFlight') = Cardinality(InFlight) - 1
    BY <1>4, <2>1, <2>2 DEF Sends
  <2>5. \/ /\ Cardinality(received') = Cardinality(received) + 1
           /\ Cardinality(lost') = Cardinality(lost)
        \/ /\ Cardinality(lost') = Cardinality(lost) + 1
           /\ Cardinality(received') = Cardinality(received)
    BY <1>4, <2>1, <2>3 DEF Sends
  <2>6. UNCHANGED <<ch, dropped>> /\ Finished' = Finished
    BY <1>4 DEF Sends
  <2> QED
    BY <1>0, <2>4, <2>5, <2>6, CountsFinite DEF Balance
<1> QED
  BY <1>0, <1>1, <1>2, <1>3, <1>4, Kinds

LEMMA BalanceInit == Init => Balance
<1> SUFFICES ASSUME Init PROVE Balance
  OBVIOUS
<1>1. Finished = {} /\ InFlight = {} /\ received = {} /\ lost = {} /\ ch = <<>> /\ dropped = 0
  BY DEF Init, Finished, InFlight
<1>2. Len(ch) = 0 /\ Cardinality({}) = 0
  BY <1>1, FS_EmptySet
<1> QED
  BY <1>1, <1>2 DEF Balance

\* Dropped() counts exactly the spans that were refused, and every other span whose call
\* has decided is in one place, for any number of spans, workers and callers.
THEOREM Accounted == Spec => []Accounting
<1>1. Balance => Accounting
  BY DEF Balance, Accounting, Finished
<1> QED
  BY <1>1, PlacesInit, PlacesStep, BalanceInit, BalanceStep, PTL DEF Spec
-----------------------------------------------------------------------------
(***************************************************************************)
(* The dispatcher implements SpanDelivery.                                 *)
(***************************************************************************)

InQueue(s) == \E i \in 1..Len(ch) : ch[i] = s
InHand(s)  == \E w \in InFlight : wspan[w] = s

\* One span changes its status, in a way SpanDelivery allows.
Turns(s, from, to) ==
  /\ StatusOf(s) = from /\ StatusOf(s)' = to
  /\ \A r \in Spans \ {s} : StatusOf(r)' = StatusOf(r)

LEMMA StatusIs ==
  ASSUME PlacesInv, NEW s \in Spans
  PROVE  /\ s \notin Finished => StatusOf(s) = "new"
         /\ InQueue(s) \/ InHand(s) => StatusOf(s) = "pending"
         /\ StatusOf(s) = "pending" => InQueue(s) \/ InHand(s)
BY DEF PlacesInv, Places, NotYet, OnePlace, StatusOf, Finished, InQueue, InHand

LEMMA StaysStatus ==
  ASSUME Stays
  PROVE  \A s \in Spans : StatusOf(s)' = StatusOf(s)
<1>1. \A s \in Spans : pc'[s] \in {"done", "returned"} <=> pc[s] \in {"done", "returned"}
  BY DEF Stays, Finished
<1> QED
  BY <1>1 DEF Stays, StatusOf

LEMMA RefusesStatus ==
  ASSUME PlacesInv, NEW s \in Spans, Refuses(s)
  PROVE  Turns(s, "new", "dropped")
<1>1. \A r \in Spans : pc'[r] \in {"done", "returned"}
                          <=> pc[r] \in {"done", "returned"} \/ r = s
  BY DEF Refuses, Finished
<1>2. s \notin Finished
  BY DEF Refuses
<1>3. StatusOf(s) = "new"
  BY <1>2, StatusIs
<1>4. StatusOf(s)' = "dropped"
  BY <1>1, <1>2 DEF Refuses, StatusOf, PlacesInv, Places, NotYet
<1>5. ASSUME NEW r \in Spans \ {s} PROVE StatusOf(r)' = StatusOf(r)
  BY <1>1 DEF Refuses, StatusOf
<1> QED
  BY <1>3, <1>4, <1>5 DEF Turns

LEMMA AcceptsStatus ==
  ASSUME PlacesInv, NEW s \in Spans, Accepts(s)
  PROVE  Turns(s, "new", "pending")
<1>0. ch \in Seq(Spans) /\ Len(ch) \in Nat
  BY DEF PlacesInv, ChannelInv, TypeOK, WorkerTypeOK
<1>1. \A r \in Spans : pc'[r] \in {"done", "returned"}
                          <=> pc[r] \in {"done", "returned"} \/ r = s
  BY DEF Accepts, Finished
<1>2. /\ s \notin Finished /\ UNCHANGED <<received, lost, wspan>> /\ InFlight' = InFlight
      /\ s \notin received /\ s \notin lost
  BY DEF Accepts, PlacesInv, Places, NotYet
<1>3. StatusOf(s) = "new"
  BY <1>2, StatusIs
<1>4. /\ Len(ch') = Len(ch) + 1 /\ ch'[Len(ch) + 1] = s
      /\ \A i \in 1..Len(ch) : ch'[i] = ch[i]
  BY <1>0 DEF Accepts
<1>5. InQueue(s)'
  BY <1>0, <1>4 DEF InQueue
<1>6. ASSUME NEW r \in Spans \ {s} PROVE InQueue(r)' <=> InQueue(r)
  BY <1>0, <1>4 DEF InQueue
<1>7. StatusOf(s)' = "pending"
  BY <1>2, <1>5 DEF StatusOf, InQueue
<1>8. ASSUME NEW r \in Spans \ {s} PROVE StatusOf(r)' = StatusOf(r)
  BY <1>1, <1>2, <1>6 DEF StatusOf, InQueue
<1> QED
  BY <1>3, <1>7, <1>8 DEF Turns

LEMMA TakesStatus ==
  ASSUME PlacesInv, NEW w \in Workers, Takes(w)
  PROVE  \A s \in Spans : StatusOf(s)' = StatusOf(s)
<1>0. /\ ch \in Seq(Spans) /\ Len(ch) \in Nat
      /\ wspan \in [Workers -> Spans \union {NoSpan}] /\ InFlight \subseteq Workers
  BY DEF PlacesInv, ChannelInv, TypeOK, WorkerTypeOK, InFlight
<1>1. \A s \in Spans : pc'[s] \in {"done", "returned"} <=> pc[s] \in {"done", "returned"}
  BY DEF Takes, Finished
<1>2. /\ Len(ch) >= 1 /\ Len(ch') = Len(ch) - 1 /\ Head(ch) = ch[1]
      /\ \A i \in 1..Len(ch') : ch'[i] = ch[i + 1]
  BY <1>0 DEF Takes
<1>3. /\ wspan'[w] = ch[1] /\ w \notin InFlight /\ InFlight' = InFlight \union {w}
      /\ \A v \in InFlight : wspan'[v] = wspan[v]
  BY <1>0, <1>2 DEF Takes
<1>4. ASSUME NEW s \in Spans
      PROVE  (InQueue(s) \/ InHand(s))' <=> InQueue(s) \/ InHand(s)
  <2>1. InHand(s)' <=> InHand(s) \/ s = ch[1]
    BY <1>3 DEF InHand
  <2>2. InQueue(s) <=> InQueue(s)' \/ s = ch[1]
    <3>1. ASSUME InQueue(s) PROVE InQueue(s)' \/ s = ch[1]
      <4>1. PICK i \in 1..Len(ch) : ch[i] = s
        BY <3>1 DEF InQueue
      <4>2. CASE i # 1
        <5>1. i - 1 \in 1..Len(ch') /\ ch'[i - 1] = ch[(i - 1) + 1]
          BY <1>0, <1>2, <4>1, <4>2
        <5> QED
          BY <1>0, <4>1, <5>1 DEF InQueue
      <4> QED
        BY <4>1, <4>2
    <3>2. ASSUME InQueue(s)' PROVE InQueue(s)
      <4>1. PICK i \in 1..Len(ch') : ch'[i] = s
        BY <3>2 DEF InQueue
      <4>2. i + 1 \in 1..Len(ch) /\ ch[i + 1] = s
        BY <1>0, <1>2, <4>1
      <4> QED
        BY <4>2 DEF InQueue
    <3>3. s = ch[1] => InQueue(s)
      BY <1>0, <1>2 DEF InQueue
    <3> QED
      BY <3>1, <3>2, <3>3
  <2> QED
    BY <2>1, <2>2
<1>5. UNCHANGED <<received, lost>>
  BY DEF Takes
<1> QED
  BY <1>1, <1>4, <1>5 DEF StatusOf, InQueue, InHand

LEMMA SendsStatus ==
  ASSUME PlacesInv, NEW w \in Workers, Sends(w)
  PROVE  \E s \in Spans : Turns(s, "pending", "delivered") \/ Turns(s, "pending", "lost")
<1>0. /\ wspan \in [Workers -> Spans \union {NoSpan}] /\ InFlight \subseteq Workers
      /\ w \in InFlight /\ wspan[w] \in Spans
  BY DEF Sends, PlacesInv, ChannelInv, TypeOK, WorkerTypeOK, InFlight
<1>1. PICK s \in Spans : wspan[w] = s
  BY <1>0
<1>2. s \notin received /\ s \notin lost
  BY <1>0, <1>1 DEF PlacesInv, Places, OnePlace
<1>3. \A r \in Spans : pc'[r] \in {"done", "returned"} <=> pc[r] \in {"done", "returned"}
  BY DEF Sends, Finished
<1>4. StatusOf(s) = "pending"
  BY <1>0, <1>1, StatusIs DEF InHand
<1>5. /\ InFlight' = InFlight \ {w} /\ UNCHANGED ch
      /\ \A v \in InFlight \ {w} : wspan'[v] = wspan[v]
  BY <1>0 DEF Sends
<1>6. ASSUME NEW r \in Spans \ {s} PROVE StatusOf(r)' = StatusOf(r)
  <2>1. InHand(r)' <=> InHand(r)
    BY <1>0, <1>1, <1>5 DEF InHand
  <2>2. (r \in received' <=> r \in received) /\ (r \in lost' <=> r \in lost)
    BY <1>1 DEF Sends
  <2> QED
    BY <1>3, <1>5, <2>1, <2>2 DEF StatusOf, InHand
<1>7. StatusOf(s)' = "delivered" \/ StatusOf(s)' = "lost"
  BY <1>1, <1>2 DEF Sends, StatusOf
<1> QED
  BY <1>4, <1>6, <1>7 DEF Turns

\* What waits is in the channel or in a worker's hands, one span in each place.
PendingSpans == {s \in Spans : StatusOf(s) = "pending"}

LEMMA FewArePending ==
  ASSUME PlacesInv
  PROVE  /\ IsFiniteSet(PendingSpans) /\ Cardinality(PendingSpans) \in Nat
         /\ Cardinality(PendingSpans) <= Len(ch) + Cardinality(Workers)
<1> DEFINE Queued == {ch[i] : i \in 1..Len(ch)}
           Held   == {wspan[w] : w \in InFlight}
<1>0. ch \in Seq(Spans) /\ Len(ch) \in Nat /\ InFlight \subseteq Workers
  BY DEF PlacesInv, ChannelInv, TypeOK, WorkerTypeOK, InFlight
<1>1. PendingSpans \subseteq Queued \union Held
  BY StatusIs DEF PendingSpans, InQueue, InHand
<1>2. IsFiniteSet(1..Len(ch)) /\ Cardinality(1..Len(ch)) = Len(ch)
  BY <1>0, FS_Interval
<1>3. /\ IsFiniteSet(InFlight) /\ Cardinality(InFlight) \in Nat
      /\ Cardinality(Workers) \in Nat /\ Cardinality(InFlight) <= Cardinality(Workers)
  BY <1>0, WorkersAssumption, FS_Subset, FS_CardinalityType
<1>4. IsFiniteSet(Queued) /\ Cardinality(Queued) <= Len(ch)
  <2> DEFINE f == [i \in 1..Len(ch) |-> ch[i]]
  <2>1. f \in Surjection(1..Len(ch), Queued)
    BY DEF Surjection
  <2>. HIDE DEF f, Queued
  <2> QED
    BY <1>2, <2>1, FS_Surjection
<1>5. IsFiniteSet(Held) /\ Cardinality(Held) <= Cardinality(InFlight)
  <2> DEFINE f == [w \in InFlight |-> wspan[w]]
  <2>1. f \in Surjection(InFlight, Held)
    BY DEF Surjection
  <2>. HIDE DEF f, Held
  <2> QED
    BY <1>3, <2>1, FS_Surjection
<1>. HIDE DEF Queued, Held
<1>6. /\ IsFiniteSet(Queued \union Held)
      /\ Cardinality(Queued \union Held) <= Cardinality(Queued) + Cardinality(Held)
  <2>1. /\ IsFiniteSet(Queued \union Held)
        /\ Cardinality(Queued \union Held)
             = Cardinality(Queued) + Cardinality(Held) - Cardinality(Queued \cap Held)
    BY <1>4, <1>5, FS_Union
  <2>2. IsFiniteSet(Queued \cap Held) /\ Cardinality(Queued \cap Held) \in Nat
    BY <1>4, FS_Subset, FS_CardinalityType
  <2>3. Cardinality(Queued) \in Nat /\ Cardinality(Held) \in Nat
    BY <1>4, <1>5, FS_CardinalityType
  <2> QED
    BY <2>1, <2>2, <2>3
<1>7. /\ IsFiniteSet(PendingSpans)
      /\ Cardinality(PendingSpans) <= Cardinality(Queued \union Held)
  BY <1>1, <1>6, FS_Subset
<1>8. /\ Cardinality(PendingSpans) \in Nat /\ Cardinality(Queued \union Held) \in Nat
      /\ Cardinality(Queued) \in Nat /\ Cardinality(Held) \in Nat
  BY <1>4, <1>5, <1>6, <1>7, FS_CardinalityType
<1> QED
  BY <1>0, <1>3, <1>4, <1>5, <1>6, <1>7, <1>8

\* A step of the dispatcher is a step of SpanDelivery or changes nothing there.
LEMMA DeliveryStep ==
  ASSUME PlacesInv, [Next]_vars
  PROVE  [Delivery!Next]_<<[s \in Spans |-> StatusOf(s)], chClosed>>
<1> DEFINE status == [s \in Spans |-> StatusOf(s)]
<1>0. ChannelInv
  BY DEF PlacesInv
<1>1. ASSUME NEW s \in Spans, NEW from, NEW to, Turns(s, from, to), UNCHANGED chClosed
      PROVE  Delivery!Become(s, from, to)
  <2>1. status' = [status EXCEPT ![s] = to]
    BY <1>1 DEF Turns
  <2> QED
    BY <1>1, <2>1 DEF Turns, Delivery!Become
<1>2. CASE Stays
  <2>1. status' = status
    BY <1>2, StaysStatus
  <2>2. chClosed' = chClosed \/ chClosed' = TRUE
    <3>1. chClosed \in BOOLEAN /\ chClosed' \in BOOLEAN
      BY <1>0, InductiveStep DEF ChannelInv, TypeOK, DispatchTypeOK
    <3> QED
      BY <1>2, <3>1 DEF Stays
  <2> QED
    BY <2>1, <2>2 DEF Delivery!Next, Delivery!Stop
<1>3. ASSUME NEW s \in Spans, Refuses(s) PROVE Delivery!Drop(s)
  BY <1>1, <1>3, RefusesStatus DEF Refuses, Delivery!Drop
<1>4. ASSUME NEW s \in Spans, Accepts(s) PROVE Delivery!Accept(s)
  <2>1. Delivery!Become(s, "new", "pending")
    BY <1>1, <1>4, AcceptsStatus DEF Accepts
  <2>2. Delivery!Pending = PendingSpans
    BY DEF Delivery!Pending, PendingSpans
  <2>3. Cardinality(PendingSpans) < BufferSize + Cardinality(Workers)
    <3>1. ch \in Seq(Spans) /\ Len(ch) \in Nat /\ Cardinality(Workers) \in Nat
      BY <1>0, WorkersAssumption, FS_CardinalityType DEF ChannelInv, TypeOK, WorkerTypeOK
    <3> QED
      BY <1>4, <3>1, FewArePending, BufferAssumption DEF Accepts
  <2> QED
    BY <1>4, <2>1, <2>2, <2>3 DEF Accepts, Delivery!Accept, Cardinality, Delivery!Cardinality
<1>5. ASSUME NEW w \in Workers, Takes(w) PROVE UNCHANGED <<status, chClosed>>
  BY <1>5, TakesStatus DEF Takes
<1>6. ASSUME NEW w \in Workers, Sends(w)
      PROVE  \E s \in Spans : Delivery!Deliver(s) \/ Delivery!Lose(s)
  BY <1>1, <1>6, SendsStatus DEF Sends, Delivery!Deliver, Delivery!Lose
<1> QED
  BY <1>0, <1>2, <1>3, <1>4, <1>5, <1>6, Kinds DEF Delivery!Next

LEMMA DeliveryInit == Init => Delivery!Init
<1> SUFFICES ASSUME Init PROVE Delivery!Init
  OBVIOUS
<1>1. ASSUME NEW s \in Spans PROVE StatusOf(s) = "new"
  BY DEF Init, StatusOf, InFlight
<1> QED
  BY <1>1 DEF Init, Delivery!Init

\* Every behaviour of the dispatcher is one of SpanDelivery, for any number of spans,
\* workers and callers and any buffer: no span is delivered twice, revived after a drop,
\* accepted after the close, or one too many.
THEOREM DeliveryImplemented == Spec => ImplementsDelivery
<1>1. PlacesInv /\ [Next]_vars
        => [Delivery!Next]_<<[s \in Spans |-> StatusOf(s)], chClosed>>
  BY DeliveryStep
<1> QED
  BY <1>1, DeliveryInit, PlacesInit, PlacesStep, PTL
  DEF Spec, ImplementsDelivery, Delivery!Spec

----------------------------------------------------------------------------
(* The process *)

\* The span of a handler that has not begun or has ended is not being dispatched.
HandlersOnly ==
  \A s \in Spans : hpc[s] # "handling" => pc[s] \in {"idle", "returned"}

\* Before main drains, nobody does; from then on no handler is left, but for those that
\* the HTTP timeout gave up.
ServesFirst == mainPc \in {"starting", "serving", "http_shutdown"} => acceptingNew
NobodyLeft ==
  mainPc \in {"drain", "cancel", "flush"} /\ ~httpTimedOut
    => \A s \in Spans : hpc[s] # "handling"

MainTypes ==
  /\ mainPc \in MainPCs
  /\ hpc \in [Spans -> {"none", "handling", "ended"}]
  /\ httpTimedOut \in BOOLEAN

\* The workers' context outlives the drain, ...
CancelsLast ==
  mainPc \in {"starting", "serving", "http_shutdown", "drain", "cancel"} => ~parentCancelled

\* ... so that a drain which completed did empty the channel, which stays empty after it.
Emptied ==
  (\E d \in Drainers : drainPc[d] = "drained") => chClosed /\ ch = <<>>

ProcessInv ==
  DrainInv /\ MainTypes /\ HandlersOnly /\ ServesFirst /\ NobodyLeft /\ CancelsLast
    /\ Emptied /\ PanicNeedsLateHandler

LEMMA ProcessInit == MainInit => ProcessInv
  BY DrainInit DEF MainInit, Init, ProcessInv, MainTypes, MainPCs, HandlersOnly, ServesFirst,
                   NobodyLeft, CancelsLast, Emptied, PanicNeedsLateHandler

\* Every step of the process is one of the dispatcher, or none of it.
LEMMA StepsOfDispatcher == [MainNext]_allVars => [Next]_vars
  BY DEF MainNext, Alive, Main, MainStart, ServerFailed, Signal, HttpShutdownDone,
         HttpShutdownTimeout, MainDrain, MainDrainReturned, MainCancel, MainExit, Accept,
         HandlerDispatch, HandlerReturn, WorkerStep, CollectWorkers, allVars, Next

\* What each kind of step leaves alone.
LEMMA DispatchKeeps ==
  ASSUME NEW s \in Spans, Dispatch(s)
  PROVE  /\ UNCHANGED <<acceptingNew, parentCancelled, chClosed>>
         /\ \E l \in DispatchPCs : Goto(s, l)
  BY DEF Dispatch, DispatchLoad, DispatchRegister, DispatchRecheck, DispatchSend, DispatchDone,
         DispatchPCs, workerVars

LEMMA WorkerKeeps ==
  ASSUME NEW w \in Workers, Worker(w)
  PROVE  UNCHANGED <<acceptingNew, parentCancelled, chClosed, dropped, pc, drainPc, panicked>>
  BY DEF Worker, WorkerReceive, WorkerExitClosed, WorkerExitCancelled, WorkerSend,
         dispatchVars, drainVars

LEMMA DrainKeeps ==
  ASSUME NEW d \in Drainers, Drain(d)
  PROVE  UNCHANGED <<parentCancelled, ch, dropped, pc>>
  BY DEF Drain, DrainBegin, DrainWait, DrainWaitReturns, DrainClose, DrainComplete,
         DrainDeadline, dispatchVars, workerVars

\* The steps of the process that are none of a request, a worker or the drain.
OwnSteps ==
  \/ MainStart \/ HttpShutdownDone \/ HttpShutdownTimeout \/ MainDrainReturned \/ MainCancel
  \/ MainExit \/ ServerFailed \/ Signal \/ CollectWorkers
  \/ \E s \in Spans : Accept(s) \/ HandlerReturn(s)
  \/ UNCHANGED allVars

LEMMA OwnKeeps ==
  OwnSteps => UNCHANGED <<acceptingNew, ch, chClosed, dropped, pc, drainPc, panicked>>
  BY DEF OwnSteps, MainStart, HttpShutdownDone, HttpShutdownTimeout, MainDrainReturned,
         MainCancel, MainExit, ServerFailed, Signal, CollectWorkers, Accept, HandlerReturn,
         Start, CancelParent, CloseWorkersDone, vars, allVars, dispatchVars, drainVars

LEMMA ByKind ==
  ASSUME [MainNext]_allVars
  PROVE  \/ OwnSteps
         \/ \E s \in Spans : HandlerDispatch(s)
         \/ \E w \in Workers : WorkerStep(w)
         \/ MainDrain
  BY DEF MainNext, Main, OwnSteps

LEMMA MainTypesStep == MainTypes /\ [MainNext]_allVars => MainTypes'
  BY DEF MainTypes, MainPCs, MainNext, Main, MainGoto, MainStart, ServerFailed, Signal,
         HttpShutdownDone, HttpShutdownTimeout, MainDrain, MainDrainReturned, MainCancel,
         MainExit, Accept, HandlerDispatch, HandlerReturn, WorkerStep, CollectWorkers,
         mainVars, allVars

LEMMA HandlersStep == ProcessInv /\ [MainNext]_allVars => HandlersOnly'
  <1> SUFFICES ASSUME ProcessInv, [MainNext]_allVars PROVE HandlersOnly'
    OBVIOUS
  <1>0. HandlersOnly /\ hpc \in [Spans -> {"none", "handling", "ended"}]
        /\ pc \in [Spans -> DispatchPCs]
    BY DEF ProcessInv, MainTypes, DrainInv, ChannelInv, TypeOK, DispatchTypeOK
  <1>1. ASSUME NEW s \in Spans, HandlerDispatch(s) PROVE HandlersOnly'
    <2>1. PICK l \in DispatchPCs : Goto(s, l)
      BY <1>1, DispatchKeeps DEF HandlerDispatch
    <2> QED
      BY <1>0, <1>1, <2>1 DEF HandlerDispatch, HandlersOnly, Goto, mainVars
  <1>2. CASE (\E w \in Workers : WorkerStep(w)) \/ MainDrain
    BY <1>0, <1>2, WorkerKeeps, DrainKeeps DEF WorkerStep, MainDrain, HandlersOnly, mainVars
  <1>3. CASE OwnSteps
    <2>1. pc' = pc
      BY <1>3, OwnKeeps
    <2>2. ASSUME NEW s \in Spans, Accept(s) \/ HandlerReturn(s) PROVE HandlersOnly'
      BY <1>0, <2>1, <2>2 DEF Accept, HandlerReturn, HandlersOnly
    <2> QED
      BY <1>0, <1>3, <2>1, <2>2
      DEF OwnSteps, MainStart, HttpShutdownDone, HttpShutdownTimeout, MainDrainReturned,
          MainCancel, MainExit, ServerFailed, Signal, CollectWorkers, mainVars, allVars,
          HandlersOnly
  <1> QED
    BY <1>1, <1>2, <1>3, ByKind

LEMMA PhasesStep ==
  ProcessInv /\ [MainNext]_allVars => (ServesFirst /\ NobodyLeft /\ CancelsLast)'
  <1> SUFFICES ASSUME ProcessInv, [MainNext]_allVars
               PROVE  (ServesFirst /\ NobodyLeft /\ CancelsLast)'
    OBVIOUS
  <1>0. ServesFirst /\ NobodyLeft /\ CancelsLast
        /\ hpc \in [Spans -> {"none", "handling", "ended"}]
    BY DEF ProcessInv, MainTypes
  <1> USE DEF ServesFirst, NobodyLeft, CancelsLast
  <1>1. ASSUME NEW s \in Spans, HandlerDispatch(s)
        PROVE  (ServesFirst /\ NobodyLeft /\ CancelsLast)'
    BY <1>0, <1>1, DispatchKeeps DEF HandlerDispatch, mainVars
  <1>2. CASE \E w \in Workers : WorkerStep(w)
    BY <1>0, <1>2, WorkerKeeps DEF WorkerStep, mainVars
  <1>3. CASE MainDrain
    BY <1>0, <1>3, DrainKeeps DEF MainDrain, mainVars
  <1>4. CASE OwnSteps
    <2>1. acceptingNew' = acceptingNew
      BY <1>4, OwnKeeps
    <2>2. ASSUME NEW s \in Spans, Accept(s) \/ HandlerReturn(s)
          PROVE  (ServesFirst /\ NobodyLeft /\ CancelsLast)'
      BY <1>0, <2>1, <2>2 DEF Accept, HandlerReturn, vars
    <2>3. CASE MainStart \/ CollectWorkers \/ MainCancel
      BY <1>0, <2>1, <2>3
      DEF MainStart, CollectWorkers, MainCancel, MainGoto, mainVars, Start, CloseWorkersDone,
          CancelParent
    <2> QED
      BY <1>0, <1>4, <2>1, <2>2, <2>3
      DEF OwnSteps, HttpShutdownDone, HttpShutdownTimeout, MainDrainReturned, MainExit,
          ServerFailed, Signal, MainGoto, vars, mainVars, allVars
  <1> QED
    BY <1>1, <1>2, <1>3, <1>4, ByKind

LEMMA EmptiedStep == ProcessInv /\ [MainNext]_allVars => Emptied'
  <1> SUFFICES ASSUME ProcessInv, [MainNext]_allVars PROVE Emptied'
    OBVIOUS
  <1>0. DrainInv /\ ChannelInv /\ Emptied /\ CancelsLast
        /\ drainPc \in [Drainers -> DrainPCs]
    BY DEF ProcessInv, DrainInv, ChannelInv, TypeOK, DrainTypeOK
  <1>1. CASE ~parentCancelled'
    <2>1. DrainInv'
      BY <1>0, DrainStep, StepsOfDispatcher
    <2>2. DrainedMeansEmpty'
      BY <2>1, EmptyAtTheEnd, PTL
    <2> QED
      BY <1>1, <2>2 DEF DrainedMeansEmpty, Emptied
  <1>2. CASE parentCancelled'
    <2>1. CASE OwnSteps
      BY <1>0, <2>1, OwnKeeps DEF Emptied
    <2>2. CASE MainDrain
      BY <1>0, <1>2, <2>2, DrainKeeps DEF MainDrain, CancelsLast
    <2>3. ASSUME NEW w \in Workers, WorkerStep(w) PROVE Emptied'
      <3>1. CASE ch = <<>>
        BY <1>0, <2>3, <3>1, WorkerKeeps
        DEF Emptied, WorkerStep, Worker, WorkerReceive, WorkerExitClosed, WorkerExitCancelled,
            WorkerSend, dispatchVars
      <3>2. CASE ch # <<>>
        BY <1>0, <2>3, <3>2, WorkerKeeps DEF Emptied, WorkerStep
      <3> QED
        BY <3>1, <3>2
    <2>4. ASSUME NEW s \in Spans, HandlerDispatch(s) PROVE Emptied'
      <3>1. ASSUME NEW d \in Drainers, drainPc'[d] = "drained" PROVE drainPc[d] = "drained"
        BY <1>0, <2>4, <3>1
        DEF HandlerDispatch, Dispatch, DispatchLoad, DispatchRegister, DispatchRecheck,
            DispatchSend, DispatchDone, drainVars
      <3>2. CASE ~chClosed
        BY <1>0, <3>1, <3>2 DEF Emptied
      <3>3. CASE chClosed
        <4>1. UNCHANGED <<ch, chClosed>>
          BY <1>0, <2>4, <3>3, ClosedForSending
          DEF HandlerDispatch, Dispatch, DispatchLoad, DispatchRegister, DispatchRecheck,
              DispatchDone
        <4> QED
          BY <1>0, <3>1, <4>1 DEF Emptied
      <3> QED
        BY <3>2, <3>3
    <2> QED
      BY <2>1, <2>2, <2>3, <2>4, ByKind
  <1> QED
    BY <1>1, <1>2

\* Without handlers that outlived the server, no call of Dispatch is registered.
LEMMA NobodyRegistered ==
  ASSUME ProcessInv, mainPc = "drain", ~httpTimedOut
  PROVE  dispatchWG = 0
  <1>1. Registered = {}
    BY DEF ProcessInv, NobodyLeft, HandlersOnly, Registered
  <1> QED
    BY <1>1, FS_EmptySet DEF ProcessInv, DrainInv, ChannelInv, WGCounts

LEMMA PanicStep == ProcessInv /\ [MainNext]_allVars => PanicNeedsLateHandler'
  <1> SUFFICES ASSUME ProcessInv, [MainNext]_allVars PROVE PanicNeedsLateHandler'
    OBVIOUS
  <1>0. PanicNeedsLateHandler
    BY DEF ProcessInv
  <1>1. ChannelInv'
    BY DrainStep, StepsOfDispatcher DEF ProcessInv, DrainInv
  <1> USE DEF PanicNeedsLateHandler
  <1>2. CASE OwnSteps
    <2>1. httpTimedOut => httpTimedOut'
      BY <1>2
      DEF OwnSteps, MainStart, HttpShutdownDone, HttpShutdownTimeout, MainDrainReturned,
          MainCancel, MainExit, ServerFailed, Signal, CollectWorkers, Accept, HandlerReturn,
          mainVars, allVars
    <2> QED
      BY <1>0, <1>2, <2>1, OwnKeeps
  <1>3. CASE \E w \in Workers : WorkerStep(w)
    BY <1>0, <1>3, WorkerKeeps DEF WorkerStep, mainVars
  <1>4. ASSUME NEW s \in Spans, HandlerDispatch(s) PROVE PanicNeedsLateHandler'
    <2>1. panicked' = panicked \/ panicked' = "send on closed channel"
      BY <1>4 DEF HandlerDispatch, Dispatch, DispatchLoad, DispatchRegister, DispatchRecheck,
                  DispatchSend, DispatchDone
    <2> QED
      BY <1>0, <1>1, <1>4, <2>1 DEF HandlerDispatch, mainVars, ChannelInv, NoChannelPanic
  <1>5. CASE MainDrain
    <2>1. PICK d \in Drainers : Drain(d)
      BY <1>5 DEF MainDrain
    <2>2. \/ panicked' = panicked
          \/ panicked' = "close of closed channel"
          \/ dispatchWG # 0
      BY <2>1 DEF Drain, DrainBegin, DrainWait, DrainWaitReturns, DrainClose, DrainComplete,
                  DrainDeadline
    <2> QED
      BY <1>0, <1>1, <1>5, <2>2, NobodyRegistered
      DEF MainDrain, mainVars, ChannelInv, NoChannelPanic
  <1> QED
    BY <1>2, <1>3, <1>4, <1>5, ByKind

LEMMA ProcessStep == ProcessInv /\ [MainNext]_allVars => ProcessInv'
  BY DrainStep, StepsOfDispatcher, MainTypesStep, HandlersStep, PhasesStep, EmptiedStep,
     PanicStep
  DEF ProcessInv

\* A drain that completed saw every worker end, and the channel empty.
LEMMA ProcessMeans == ProcessInv => MainInv
  <1> SUFFICES ASSUME ProcessInv PROVE MainTypeOK /\ PanicNeedsLateHandler /\ CleanExit
    BY DEF MainInv
  <1>1. MainTypeOK /\ PanicNeedsLateHandler
    BY DEF ProcessInv, MainTypes, MainTypeOK, DrainInv, ChannelInv
  <1>2. CleanExit
    BY DEF ProcessInv, Emptied, CleanExit, DrainInv, DrainedBy, DoneMeans, InFlight
  <1> QED
    BY <1>1, <1>2

LEMMA ProcessAlways == MainInit /\ [][MainNext]_allVars => []ProcessInv
  BY ProcessInit, ProcessStep, PTL

\* Nothing panics unless a handler outlived the HTTP timeout, and a shutdown whose drain
\* completed leaves no span in memory, for any number of requests and workers.
THEOREM ProcessKept == MainFairSpec => []MainInv
  BY ProcessAlways, ProcessMeans, PTL DEF MainFairSpec

\* A handler finds the flag lowered only if it outlived the HTTP timeout.
LEMMA RefusedWhenFull ==
  ASSUME ProcessInv, [MainNext]_allVars, dropped' > dropped, ~httpTimedOut
  PROVE  Len(ch) >= BufferSize
  <1>0. dropped \in Nat /\ ServesFirst /\ NobodyLeft
    BY DEF ProcessInv, DrainInv, ChannelInv, TypeOK, DispatchTypeOK
  <1>1. dropped' # dropped
    BY <1>0
  <1>2. PICK s \in Spans : HandlerDispatch(s)
    BY <1>1, ByKind, OwnKeeps, WorkerKeeps, DrainKeeps DEF WorkerStep, MainDrain
  <1>3. mainPc # "exited"
    BY <1>1, <1>2 DEF MainNext, Alive, allVars, vars
  <1>4. acceptingNew
    BY <1>0, <1>2, <1>3 DEF ProcessInv, MainTypes, MainPCs, ServesFirst, NobodyLeft, HandlerDispatch
  <1> QED
    BY <1>1, <1>2, <1>4
    DEF HandlerDispatch, Dispatch, DispatchLoad, DispatchRegister, DispatchRecheck,
        DispatchSend, DispatchDone

\* As long as srv.Shutdown waited for every handler, a span is refused only because the
\* buffer is full, never because of the shutdown.
THEOREM DropsOnlyWhenFull == MainFairSpec => OnlyFullBufferDrops
  <1>1. ProcessInv /\ [MainNext]_allVars
          => [dropped' > dropped /\ ~httpTimedOut => Len(ch) >= BufferSize]_allVars
    BY RefusedWhenFull
  <1> QED
    BY <1>1, ProcessAlways, PTL DEF MainFairSpec, OnlyFullBufferDrops
=============================================================================

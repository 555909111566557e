------------------------------ MODULE ProxyMain ------------------------------
(***************************************************************************)
(* The life of the proxy process, proxy/cmd/proxy/main.go: main starts the *)
(* dispatcher's workers, serves requests, and on a signal stops the HTTP   *)
(* server, drains the dispatcher, cancels the workers' context and exits.  *)
(* Composes the HTTP handlers and main with SpanDispatcher: a handler is   *)
(* the only caller of Dispatch, main the only caller of Drain and the      *)
(* owner of the context given to Start.                                    *)
(***************************************************************************)
EXTENDS SpanDispatcher

ASSUME MainAssumption == Cardinality(Drainers) = 1

VARIABLES
  mainPc,        \* where main is
  hpc,           \* hpc[s]: the request whose span is s
  httpTimedOut   \* srv.Shutdown gave up waiting for handlers

allVars == <<vars, mainPc, hpc, httpTimedOut>>
mainVars == <<mainPc, hpc, httpTimedOut>>

MainPCs == {"starting", "serving", "http_shutdown", "drain", "cancel", "flush",
            "exited"}

MainInit ==
  /\ Init
  /\ mainPc = "starting"
  /\ hpc = [s \in Spans |-> "none"]
  /\ httpTimedOut = FALSE

MainGoto(from, to) == mainPc = from /\ mainPc' = to

\* dispatcher.Start(workerCtx), then ListenAndServe.
MainStart ==
  /\ MainGoto("starting", "serving")
  /\ Start
  /\ UNCHANGED <<hpc, httpTimedOut>>

\* ListenAndServe fails: os.Exit(1), or return, with no drain.
ServerFailed ==
  /\ MainGoto("serving", "exited")
  /\ UNCHANGED <<vars, hpc, httpTimedOut>>

\* Faulty variant: the dispatcher is drained before the HTTP server.
SignalDrainsFirst ==
  /\ MainGoto("serving", "drain")
  /\ UNCHANGED <<vars, hpc, httpTimedOut>>

\* SIGINT or SIGTERM: the listener closes, and Shutdown begins to wait.
Signal ==
  /\ MainGoto("serving", "http_shutdown")
  /\ UNCHANGED <<vars, hpc, httpTimedOut>>

\* Faulty variant: shutdown that does not wait for the handlers.
HttpShutdownNoWait ==
  /\ MainGoto("http_shutdown", "drain")
  /\ UNCHANGED <<vars, hpc, httpTimedOut>>

\* srv.Shutdown returns once no handler is left ...
HttpShutdownDone ==
  /\ MainGoto("http_shutdown", "drain")
  /\ \A s \in Spans : hpc[s] # "handling"
  /\ UNCHANGED <<vars, hpc, httpTimedOut>>

\* Faulty variant: Shutdown is given a context without a timeout.
HttpShutdownForever ==
  /\ MainGoto("http_shutdown", "drain")
  /\ \A s \in Spans : hpc[s] # "handling"
  /\ httpTimedOut' = TRUE
  /\ UNCHANGED <<vars, hpc>>

\* ... or when ShutdownHTTPTimeout expires, with handlers still running.
HttpShutdownTimeout ==
  /\ MainGoto("http_shutdown", "drain")
  /\ \E s \in Spans : hpc[s] = "handling"
  /\ httpTimedOut' = TRUE
  /\ UNCHANGED <<vars, hpc>>

\* dispatcher.Drain(ShutdownDrainTimeout), called by main.
MainDrain ==
  /\ mainPc = "drain"
  /\ \E d \in Drainers : Drain(d)
  /\ UNCHANGED mainVars

MainDrainReturned ==
  /\ MainGoto("drain", "cancel")
  /\ \E d \in Drainers : drainPc[d] \in {"drained", "timedout"}
  /\ UNCHANGED <<vars, hpc, httpTimedOut>>

\* workerCancel()
MainCancel ==
  /\ MainGoto("cancel", "flush")
  /\ CancelParent
  /\ UNCHANGED <<hpc, httpTimedOut>>

\* errtrack.Flush, and main returns.
MainExit ==
  /\ MainGoto("flush", "exited")
  /\ UNCHANGED <<vars, hpc, httpTimedOut>>

Main ==
  \/ MainStart \/ HttpShutdownDone \/ HttpShutdownTimeout
  \/ MainDrain \/ MainDrainReturned \/ MainCancel \/ MainExit

\* The server accepts a request while it listens.
Accept(s) ==
  /\ mainPc = "serving"
  /\ hpc[s] = "none"
  /\ hpc' = [hpc EXCEPT ![s] = "handling"]
  /\ UNCHANGED <<vars, mainPc, httpTimedOut>>

\* The handler calls Dispatch as its last statement ...
HandlerDispatch(s) ==
  /\ hpc[s] = "handling"
  /\ Dispatch(s)
  /\ UNCHANGED mainVars

\* ... or returns early, without a span.
HandlerReturn(s) ==
  /\ hpc[s] = "handling"
  /\ pc[s] \in {"idle", "returned"}
  /\ hpc' = [hpc EXCEPT ![s] = "ended"]
  /\ UNCHANGED <<vars, mainPc, httpTimedOut>>

WorkerStep(w) == Worker(w) /\ UNCHANGED mainVars
CollectWorkers == CloseWorkersDone /\ UNCHANGED mainVars

Alive == mainPc # "exited" /\ panicked = "none"

MainNext ==
  /\ Alive
  /\ \/ Main \/ ServerFailed \/ Signal \/ CollectWorkers
     \/ \E s \in Spans : Accept(s) \/ HandlerDispatch(s) \/ HandlerReturn(s)
     \/ \E w \in Workers : WorkerStep(w)

(***************************************************************************)
(* Main's own steps and the goroutines' run; a provider call may hang, so  *)
(* nothing makes a handler reach its Dispatch, but within Dispatch it does *)
(* not block.                                                              *)
(***************************************************************************)
MainFairSpec ==
  /\ MainInit /\ [][MainNext]_allVars
  /\ WF_allVars(Alive /\ Main)
  /\ WF_allVars(Alive /\ CollectWorkers)
  /\ \A s \in Spans : WF_allVars(Alive /\ pc[s] # "idle" /\ HandlerDispatch(s))
  /\ \A w \in Workers : WF_allVars(Alive /\ WorkerStep(w))
-----------------------------------------------------------------------------
\* The variables of main and of the handlers keep their types.
MainTypeOK ==
  /\ TypeOK
  /\ mainPc \in MainPCs
  /\ hpc \in [Spans -> {"none", "handling", "ended"}]
  /\ httpTimedOut \in BOOLEAN

\* As long as srv.Shutdown waited for every handler, nothing panics: the
\* WaitGroup of the dispatcher can only be misused by handlers that outlive
\* the HTTP server.
PanicNeedsLateHandler == panicked # "none" => httpTimedOut

\* A shutdown whose Drain completed leaves no span in memory at exit: every
\* span that was accepted has been POSTed (or its POST failed).
CleanExit ==
  mainPc = "exited" /\ (\E d \in Drainers : drainPc[d] = "drained")
    => ch = <<>> /\ InFlight = {}

\* Handlers that finish within the HTTP timeout never have a span refused
\* because of the shutdown: before a timeout only a full buffer drops spans.
OnlyFullBufferDrops ==
  [][dropped' > dropped /\ ~httpTimedOut => Len(ch) >= BufferSize]_allVars

\* A signal always leads to the end of the process, whatever the handlers and
\* Processing do.
SignalExits == mainPc = "http_shutdown" ~> ~Alive

\* What holds between main, its handlers and the dispatcher all along: the types, no
\* panic unless the HTTP timeout let a handler outlive the server, and a clean exit.
MainInv == MainTypeOK /\ PanicNeedsLateHandler /\ CleanExit
=============================================================================

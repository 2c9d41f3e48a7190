--------------------------- MODULE WorkerHandler ----------------------------
(* LongRunningWorkerHandler (worker/worker.go) in one process: the goroutine *)
(* of Run, one goroutine per worker, and the hooks of the fx application.    *)
(* The workers, the application and the distributed lock are external here;  *)
(* module LockedWorker has the lock.  An error is one of "nil", "stopped"    *)
(* (wraps errWorkerHandlerStopped), "lost" (LOCK_NOT_AUTO_EXTENDED), "panic" *)
(* and "error" (anything else, a plain context.Canceled included).           *)
EXTENDS Integers, FiniteSets

CONSTANTS Workers   \* the workers the application may provide

ASSUME WorkerAssumption == IsFiniteSet(Workers)

VARIABLES ws,    \* ws[w]: mode, where its goroutine is, its context, the error it returns
          h,     \* the handler: its context, closedChn, where Run and Stop are
          app    \* the fx application: is it stopping, with exit code 1, has it crashed

vars == <<ws, h, app>>

Modes  == {"absent", "multi", "single", "invalid"}
Errors == {"nil", "stopped", "lost", "panic", "error"}

Present == {w \in Workers : ws[w].mode # "absent"}

Init ==
  /\ \E mode \in [Workers -> Modes] :
       ws = [w \in Workers |-> [mode |-> mode[w], at |-> "new", ctx |-> "live", err |-> "nil"]]
  /\ h = [ctx |-> "live", closed |-> FALSE, run |-> "new", stop |-> "none"]
  /\ app = [stopping |-> FALSE, exit1 |-> FALSE, crashed |-> FALSE]

Goto(w, to, err) == ws' = [ws EXCEPT ![w].at = to, ![w].err = err]

-----------------------------------------------------------------------------
\* Start and the first half of Run: a goroutine per worker.
Start ==
  /\ h.run = "new"
  /\ h' = [h EXCEPT !.run = "receive"]
  /\ ws' = [w \in Workers |->
       [ws[w] EXCEPT !.at = CASE ws[w].mode = "multi"   -> "work"
                              [] ws[w].mode = "single"  -> "lock"
                              [] ws[w].mode = "invalid" -> "send"
                              [] OTHER -> "new",
                     !.err = IF ws[w].mode = "invalid" THEN "error" ELSE @]]
  /\ UNCHANGED app

\* dl.Lock(h.ctx): the lock, an error or a panic, or the cause of the handler's context.
LockReturns(w) ==
  /\ ws[w].at = "lock"
  /\ \/ ws' = [ws EXCEPT ![w].at = "held"]
     \/ \E e \in {"error", "panic"} \cup (IF h.ctx = "live" THEN {} ELSE {"stopped"}) :
          Goto(w, "decide", e)
  /\ UNCHANGED <<h, app>>

\* dl.AutoExtend(ctx), and the worker runs with the context it returns.
AutoExtend(w) ==
  /\ ws[w].at = "held"
  /\ \/ h.ctx = "live" /\ ws' = [ws EXCEPT ![w].at = "work", ![w].ctx = "live"]
     \/ h.ctx = "live" /\ Goto(w, "unlock", "error")
     \/ h.ctx # "live" /\ Goto(w, "unlock", "stopped")
  /\ UNCHANGED <<h, app>>

\* The extender cancels the worker's context.
LeaseFails(w) ==
  /\ ws[w].mode = "single" /\ ws[w].at = "work" /\ ws[w].ctx = "live" /\ h.ctx = "live"
  /\ \E cause \in {"lost", "error"} : ws' = [ws EXCEPT ![w].ctx = cause]
  /\ UNCHANGED <<h, app>>

\* The cause of the worker's context, "live" if it is not done.
Cause(w) == IF ws[w].ctx # "live" THEN ws[w].ctx ELSE h.ctx

\* worker.Run returns or panics; well behaved, it returns the cause of its context.
WorkerReturns(w) ==
  /\ ws[w].at = "work"
  /\ \E e \in {"nil", "error", "panic", Cause(w)} \ {"live"} :
       Goto(w, IF ws[w].mode = "single" THEN "unlock" ELSE "send", e)
  /\ UNCHANGED <<h, app>>

\* The deferred Unlock, whose error is only logged.
Unlock(w) ==
  /\ ws[w].at = "unlock"
  /\ Goto(w, "decide", ws[w].err)
  /\ UNCHANGED <<h, app>>

\* Mutant: every error is tried again.
Decide_Always(w) ==
  /\ ws[w].at = "decide"
  /\ IF ws[w].err # "nil" THEN Goto(w, "lock", "nil") ELSE Goto(w, "send", ws[w].err)
  /\ UNCHANGED <<h, app>>

\* The loop of singleWorkerRunner.
Decide(w) ==
  /\ ws[w].at = "decide"
  /\ IF ws[w].err = "lost" THEN Goto(w, "lock", "nil") ELSE Goto(w, "send", ws[w].err)
  /\ UNCHANGED <<h, app>>

\* handlerErrChn has room for every worker; a worker that ends without an error fails.
Send(w) ==
  /\ ws[w].at = "send"
  /\ Goto(w, "sent", IF ws[w].err = "nil" THEN "error" ELSE ws[w].err)
  /\ UNCHANGED <<h, app>>

\* Mutant: the handler's own stop is not recognised.
shutdownFxApp_Always ==
  \/ app' = [app EXCEPT !.stopping = TRUE, !.exit1 = TRUE]
  \/ app.stopping /\ app' = [app EXCEPT !.crashed = TRUE]

\* shutdownFxApp: nothing once the handler's context is done; fx may refuse a shutdown
\* when an earlier one is not consumed yet, and the handler panics.
shutdownFxApp ==
  IF h.ctx # "live" THEN app' = app
  ELSE \/ app' = [app EXCEPT !.stopping = TRUE, !.exit1 = TRUE]
       \/ app.stopping /\ app' = [app EXCEPT !.crashed = TRUE]

\* Mutant: only a panic stops the application.
Receive_PanicOnly(w) ==
  /\ h.run = "receive" /\ ws[w].at = "sent"
  /\ ws' = [ws EXCEPT ![w].at = "ended"]
  /\ IF ws[w].err = "panic" THEN shutdownFxApp ELSE app' = app
  /\ UNCHANGED h

\* Run receives one error per worker.
Receive(w) ==
  /\ h.run = "receive" /\ ws[w].at = "sent"
  /\ ws' = [ws EXCEPT ![w].at = "ended"]
  /\ shutdownFxApp
  /\ UNCHANGED h

\* Mutant: Run returns with the first error.
RunReturns_First ==
  /\ h.run = "receive"
  /\ Present = {} \/ \E w \in Present : ws[w].at = "ended"
  /\ h' = [h EXCEPT !.run = "returned", !.closed = TRUE]
  /\ IF Present = {} THEN shutdownFxApp ELSE app' = app
  /\ UNCHANGED ws

\* Run returns after as many errors as there are workers; without workers the goroutine
\* of Start shuts the application down.
RunReturns ==
  /\ h.run = "receive"
  /\ \A w \in Present : ws[w].at = "ended"
  /\ h' = [h EXCEPT !.run = "returned", !.closed = TRUE]
  /\ IF Present = {} THEN shutdownFxApp ELSE app' = app
  /\ UNCHANGED ws

\* The application is asked to stop, and runs the stop hook of what has started.
Signal ==
  /\ ~app.stopping
  /\ app' = [app EXCEPT !.stopping = TRUE]
  /\ UNCHANGED <<ws, h>>

\* Stop cancels the handler's context and waits.
Stop ==
  /\ app.stopping /\ h.run # "new" /\ h.stop = "none"
  /\ h' = [h EXCEPT !.ctx = "stopped", !.stop = "waiting"]
  /\ UNCHANGED <<ws, app>>

StopReturns ==
  /\ h.stop = "waiting" /\ h.closed
  /\ h' = [h EXCEPT !.stop = "closed"]
  /\ UNCHANGED <<ws, app>>

\* The deadline of Stop's context, if it has one.
StopTimeout ==
  /\ h.stop = "waiting"
  /\ h' = [h EXCEPT !.stop = "timeout"]
  /\ UNCHANGED <<ws, app>>

WorkerStep(w) ==
  \/ LockReturns(w) \/ AutoExtend(w) \/ Unlock(w) \/ Decide(w) \/ Send(w)
  \/ (Cause(w) # "live" /\ WorkerReturns(w))

Next ==
  /\ ~app.crashed
  /\ \/ Start \/ RunReturns \/ Signal \/ Stop \/ StopReturns \/ StopTimeout
     \/ \E w \in Workers : WorkerStep(w) \/ WorkerReturns(w) \/ LeaseFails(w) \/ Receive(w)

Spec == Init /\ [][Next]_vars

\* Goroutines run, locks are granted or refused, and workers return once their context
\* is done.  Nothing is said of a deadline, of a signal or of a worker with a live context.
FairSpec ==
  /\ Spec
  /\ WF_vars(~app.crashed /\ Start)
  /\ WF_vars(~app.crashed /\ (RunReturns \/ Stop \/ StopReturns \/ \E w \in Workers : Receive(w)))
  /\ \A w \in Workers : WF_vars(~app.crashed /\ WorkerStep(w))

-----------------------------------------------------------------------------
Places == {"new", "lock", "held", "work", "unlock", "decide", "send", "sent", "ended"}

WorkerState  == [mode : Modes, ctx : {"live", "lost", "error"}, err : Errors, at : Places]
HandlerState == [ctx : {"live", "stopped"}, closed : BOOLEAN, run : {"new", "receive", "returned"},
                 stop : {"none", "waiting", "closed", "timeout"}]
AppState     == [stopping : BOOLEAN, exit1 : BOOLEAN, crashed : BOOLEAN]

\* The values of the workers, of the handler and of the application.
TypeOK == ws \in [Workers -> WorkerState] /\ h \in HandlerState /\ app \in AppState

\* When Stop returns because closedChn is closed, no worker runs and no goroutine of the
\* handler still wants a lock or holds one.
StopWaitsForWorkers == h.stop = "closed" => \A w \in Present : ws[w].at = "ended"

\* The application exits with code 1 only for a reason: there are no workers, or one of
\* them has ended with something else than the handler's own stop.
ErrorExitHasCause ==
  app.exit1 => Present = {} \/ \E w \in Present : ws[w].at = "ended" /\ ws[w].err # "stopped"

\* A worker that has ended stops the application, whatever it returned.
EndStopsApp == \A w \in Workers : (ws[w].at = "ended") ~> (app.stopping \/ app.crashed)

\* Once the handler is started and the application stops, Stop returns.
StopEnds == (h.stop = "waiting") ~> (h.stop \in {"closed", "timeout"} \/ app.crashed)
=============================================================================

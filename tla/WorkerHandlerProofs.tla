------------------------- MODULE WorkerHandlerProofs ------------------------
(* What Stop and the exit code promise, for any number of workers.           *)
EXTENDS WorkerHandler, TLAPS

\* closedChn is closed when Run has returned, after every worker has ended;
ClosedAtEnd ==
  /\ h.closed => h.run = "returned" /\ \A w \in Present : ws[w].at = "ended"
  /\ h.stop = "closed" => h.closed
  /\ h.run = "new" => \A w \in Workers : ws[w].at = "new"

\* a goroutine is started only for a worker there is;
OnlyPresentRun == \A w \in Workers : ws[w].mode = "absent" => ws[w].at = "new"

\* and before the handler is stopped nobody has the error of its stop.
StoppedAfterStop == h.ctx = "live" => \A w \in Workers : ws[w].err # "stopped"

HInv == TypeOK /\ ClosedAtEnd /\ OnlyPresentRun /\ StoppedAfterStop /\ ErrorExitHasCause

\* No worker has started and nothing is closed.
LEMMA InitHInv == Init => HInv
  BY DEF Init, HInv, TypeOK, WorkerState, HandlerState, AppState, Places, Modes, Errors,
         Present, ClosedAtEnd, OnlyPresentRun, StoppedAfterStop, ErrorExitHasCause

\* Goto keeps the type of the workers.
LEMMA GotoType ==
  ASSUME NEW w \in Workers, NEW to \in Places, NEW err \in Errors, TypeOK, Goto(w, to, err)
  PROVE  ws' \in [Workers -> WorkerState]
<1>1. ws' = [ws EXCEPT ![w] = [ws[w] EXCEPT !.at = to, !.err = err]]
  BY DEF TypeOK, Goto
<1>2. [ws[w] EXCEPT !.at = to, !.err = err] \in WorkerState
  BY DEF TypeOK, WorkerState
<1>. QED BY <1>1, <1>2 DEF TypeOK

\* Every worker leaves its place for the first time.
LEMMA StartHInv == ASSUME HInv, Start PROVE HInv'
<1> USE DEF HInv, Start
<1> DEFINE at(u) == CASE ws[u].mode = "multi"   -> "work"
                      [] ws[u].mode = "single"  -> "lock"
                      [] ws[u].mode = "invalid" -> "send"
                      [] OTHER -> "new"
           new(u) == [ws[u] EXCEPT !.at = at(u), !.err = IF ws[u].mode = "invalid" THEN "error" ELSE @]
<1>0. ws' = [u \in Workers |-> new(u)] /\ \A u \in Workers : new(u).mode = ws[u].mode
  BY DEF TypeOK, WorkerState
<1>1. TypeOK'
  <2>1. ASSUME NEW u \in Workers PROVE new(u) \in WorkerState
    <3>1. at(u) \in Places
      BY DEF Places
    <3>2. (IF ws[u].mode = "invalid" THEN "error" ELSE ws[u].err) \in Errors
      BY DEF TypeOK, WorkerState, Errors
    <3>3. ws[u] \in WorkerState
      BY DEF TypeOK
    <3>. QED BY <3>1, <3>2, <3>3 DEF WorkerState
  <2>2. h' \in HandlerState
    BY DEF TypeOK, HandlerState
  <2>3. ws' \in [Workers -> WorkerState]
    <3> HIDE DEF new
    <3>. QED BY <1>0, <2>1
  <2>4. app' \in AppState
    BY DEF TypeOK
  <2>. QED BY <2>2, <2>3, <2>4 DEF TypeOK
<1>2. ClosedAtEnd'
  BY DEF TypeOK, WorkerState, HandlerState, AppState, Present, ClosedAtEnd
<1>3. StoppedAfterStop'
  BY DEF TypeOK, WorkerState, HandlerState, AppState, StoppedAfterStop
<1>4. ErrorExitHasCause'
  <2>1. Present' = Present
    BY <1>0 DEF Present
  <2>2. app.exit1 => Present = {}
    BY DEF TypeOK, WorkerState, HandlerState, AppState, ErrorExitHasCause, Present, ClosedAtEnd
  <2>. QED BY <2>1, <2>2 DEF ErrorExitHasCause
<1>5. OnlyPresentRun'
  BY DEF TypeOK, WorkerState, HandlerState, AppState, OnlyPresentRun
<1>. QED BY <1>1, <1>2, <1>3, <1>4, <1>5

\* Only the context of a stopped handler makes Lock return its cause.
LEMMA LockReturnsHInv == ASSUME HInv, NEW w \in Workers, LockReturns(w) PROVE HInv'
<1> USE DEF HInv, LockReturns, Goto
<1>1. TypeOK'
  BY DEF TypeOK, WorkerState, HandlerState, AppState, Modes, Errors, Places
<1>2. ClosedAtEnd'
  BY DEF TypeOK, WorkerState, HandlerState, AppState, Present, ClosedAtEnd
<1>3. StoppedAfterStop'
  BY DEF TypeOK, WorkerState, HandlerState, AppState, StoppedAfterStop
<1>4. ErrorExitHasCause'
  BY DEF TypeOK, WorkerState, HandlerState, AppState, Present, ErrorExitHasCause
<1>5. OnlyPresentRun'
  BY DEF TypeOK, WorkerState, HandlerState, AppState, OnlyPresentRun
<1>. QED BY <1>1, <1>2, <1>3, <1>4, <1>5

\* The same for AutoExtend.
LEMMA AutoExtendHInv == ASSUME HInv, NEW w \in Workers, AutoExtend(w) PROVE HInv'
<1> USE DEF HInv, AutoExtend, Goto
<1>1. TypeOK'
  BY DEF TypeOK, WorkerState, HandlerState, AppState, Modes, Errors, Places
<1>2. ClosedAtEnd'
  BY DEF TypeOK, WorkerState, HandlerState, AppState, Present, ClosedAtEnd
<1>3. StoppedAfterStop'
  BY DEF TypeOK, WorkerState, HandlerState, AppState, StoppedAfterStop
<1>4. ErrorExitHasCause'
  BY DEF TypeOK, WorkerState, HandlerState, AppState, Present, ErrorExitHasCause
<1>5. OnlyPresentRun'
  BY DEF TypeOK, WorkerState, HandlerState, AppState, OnlyPresentRun
<1>. QED BY <1>1, <1>2, <1>3, <1>4, <1>5

\* The extender gives other causes.
LEMMA LeaseFailsHInv == ASSUME HInv, NEW w \in Workers, LeaseFails(w) PROVE HInv'
<1> USE DEF HInv, LeaseFails
<1>1. TypeOK'
  BY DEF TypeOK, WorkerState, HandlerState, AppState, Modes, Errors, Places
<1>2. ClosedAtEnd'
  BY DEF TypeOK, WorkerState, HandlerState, AppState, Present, ClosedAtEnd
<1>3. StoppedAfterStop'
  BY DEF TypeOK, WorkerState, HandlerState, AppState, StoppedAfterStop
<1>4. ErrorExitHasCause'
  BY DEF TypeOK, WorkerState, HandlerState, AppState, Present, ErrorExitHasCause
<1>5. OnlyPresentRun'
  BY DEF TypeOK, WorkerState, HandlerState, AppState, OnlyPresentRun
<1>. QED BY <1>1, <1>2, <1>3, <1>4, <1>5

\* A worker returns the cause of a stop only after it.
LEMMA WorkerReturnsHInv == ASSUME HInv, NEW w \in Workers, WorkerReturns(w) PROVE HInv'
<1> USE DEF HInv, WorkerReturns, Goto, Cause
<1>1. TypeOK'
  <2>1. PICK e \in {"nil", "error", "panic", Cause(w)} \ {"live"} :
          Goto(w, IF ws[w].mode = "single" THEN "unlock" ELSE "send", e)
    OBVIOUS
  <2>2. e \in Errors
    BY DEF TypeOK, WorkerState, HandlerState, AppState, Errors
  <2>3. (IF ws[w].mode = "single" THEN "unlock" ELSE "send") \in Places
    BY DEF Places
  <2>4. ws' \in [Workers -> WorkerState]
    BY <2>1, <2>2, <2>3, GotoType
  <2>. QED BY <2>4 DEF TypeOK
<1>2. ClosedAtEnd'
  BY DEF TypeOK, WorkerState, HandlerState, AppState, Present, ClosedAtEnd
<1>3. StoppedAfterStop'
  BY DEF TypeOK, WorkerState, HandlerState, AppState, StoppedAfterStop
<1>4. ErrorExitHasCause'
  BY DEF TypeOK, WorkerState, HandlerState, AppState, Present, ErrorExitHasCause
<1>5. OnlyPresentRun'
  BY DEF TypeOK, WorkerState, HandlerState, AppState, OnlyPresentRun
<1>. QED BY <1>1, <1>2, <1>3, <1>4, <1>5

\* The deferred Unlock keeps the error.
LEMMA UnlockHInv == ASSUME HInv, NEW w \in Workers, Unlock(w) PROVE HInv'
<1> USE DEF HInv, Unlock, Goto
<1>1. TypeOK'
  <2>1. ws[w].err \in Errors /\ "decide" \in Places
    BY DEF TypeOK, WorkerState, HandlerState, AppState, Places
  <2>2. ws' \in [Workers -> WorkerState]
    BY <2>1, GotoType
  <2>. QED BY <2>2 DEF TypeOK
<1>2. ClosedAtEnd'
  BY DEF TypeOK, WorkerState, HandlerState, AppState, Present, ClosedAtEnd
<1>3. StoppedAfterStop'
  BY DEF TypeOK, WorkerState, HandlerState, AppState, StoppedAfterStop
<1>4. ErrorExitHasCause'
  BY DEF TypeOK, WorkerState, HandlerState, AppState, Present, ErrorExitHasCause
<1>5. OnlyPresentRun'
  BY DEF TypeOK, WorkerState, HandlerState, AppState, OnlyPresentRun
<1>. QED BY <1>1, <1>2, <1>3, <1>4, <1>5

\* A lost lock is tried again.
LEMMA DecideHInv == ASSUME HInv, NEW w \in Workers, Decide(w) PROVE HInv'
<1> USE DEF HInv, Decide, Goto
<1>1. TypeOK'
  BY DEF TypeOK, WorkerState, HandlerState, AppState, Modes, Errors, Places
<1>2. ClosedAtEnd'
  BY DEF TypeOK, WorkerState, HandlerState, AppState, Present, ClosedAtEnd
<1>3. StoppedAfterStop'
  BY DEF TypeOK, WorkerState, HandlerState, AppState, StoppedAfterStop
<1>4. ErrorExitHasCause'
  BY DEF TypeOK, WorkerState, HandlerState, AppState, Present, ErrorExitHasCause
<1>5. OnlyPresentRun'
  BY DEF TypeOK, WorkerState, HandlerState, AppState, OnlyPresentRun
<1>. QED BY <1>1, <1>2, <1>3, <1>4, <1>5

\* The error that is sent is the worker's or one of its own.
LEMMA SendHInv == ASSUME HInv, NEW w \in Workers, Send(w) PROVE HInv'
<1> USE DEF HInv, Send, Goto
<1>1. TypeOK'
  <2>1. (IF ws[w].err = "nil" THEN "error" ELSE ws[w].err) \in Errors /\ "sent" \in Places
    BY DEF TypeOK, WorkerState, HandlerState, AppState, Errors, Places
  <2>2. ws' \in [Workers -> WorkerState]
    BY <2>1, GotoType
  <2>. QED BY <2>2 DEF TypeOK
<1>2. ClosedAtEnd'
  BY DEF TypeOK, WorkerState, HandlerState, AppState, Present, ClosedAtEnd
<1>3. StoppedAfterStop'
  BY DEF TypeOK, WorkerState, HandlerState, AppState, StoppedAfterStop
<1>4. ErrorExitHasCause'
  BY DEF TypeOK, WorkerState, HandlerState, AppState, Present, ErrorExitHasCause
<1>5. OnlyPresentRun'
  BY DEF TypeOK, WorkerState, HandlerState, AppState, OnlyPresentRun
<1>. QED BY <1>1, <1>2, <1>3, <1>4, <1>5

\* The worker whose error is received is the cause of the exit code.
LEMMA ReceiveHInv == ASSUME HInv, NEW w \in Workers, Receive(w) PROVE HInv'
<1> USE DEF HInv, Receive, shutdownFxApp
<1>1. TypeOK'
  <2>1. [ws[w] EXCEPT !.at = "ended"] \in WorkerState
    BY DEF TypeOK, WorkerState, HandlerState, AppState, Places
  <2>2. ws' \in [Workers -> WorkerState]
    BY <2>1 DEF TypeOK
  <2>3. app' \in AppState
    BY DEF TypeOK, AppState
  <2>. QED BY <2>2, <2>3 DEF TypeOK
<1>2. ClosedAtEnd'
  BY DEF TypeOK, WorkerState, HandlerState, AppState, Present, ClosedAtEnd
<1>3. StoppedAfterStop'
  BY DEF TypeOK, WorkerState, HandlerState, AppState, StoppedAfterStop
<1>4. ErrorExitHasCause'
  <2>1. Present' = Present
    BY DEF TypeOK, WorkerState, HandlerState, AppState, Present
  <2>2. CASE h.ctx = "live"
    <3>1. ws'[w].at = "ended" /\ ws'[w].err # "stopped"
      BY <2>2 DEF TypeOK, WorkerState, HandlerState, AppState, StoppedAfterStop
    <3>2. w \in Present
      BY DEF TypeOK, WorkerState, HandlerState, AppState, Present, OnlyPresentRun
    <3>. QED BY <2>1, <3>1, <3>2 DEF ErrorExitHasCause
  <2>3. CASE h.ctx # "live"
    <3>1. app' = app
      BY <2>3
    <3>2. \A u \in Workers : ws[u].at = "ended" => ws'[u] = ws[u]
      BY DEF TypeOK, WorkerState, HandlerState, AppState
    <3>. QED BY <2>1, <3>1, <3>2 DEF ErrorExitHasCause, Present
  <2>. QED BY <2>2, <2>3
<1>5. OnlyPresentRun'
  BY DEF TypeOK, WorkerState, HandlerState, AppState, OnlyPresentRun
<1>. QED BY <1>1, <1>2, <1>3, <1>4, <1>5

\* Run returns after all workers, and without workers that is the cause.
LEMMA RunReturnsHInv == ASSUME HInv, RunReturns PROVE HInv'
<1> USE DEF HInv, RunReturns, shutdownFxApp
<1>1. TypeOK'
  BY DEF TypeOK, WorkerState, HandlerState, AppState, Modes, Errors, Places
<1>2. ClosedAtEnd'
  BY DEF TypeOK, WorkerState, HandlerState, AppState, Present, ClosedAtEnd
<1>3. StoppedAfterStop'
  BY DEF TypeOK, WorkerState, HandlerState, AppState, StoppedAfterStop
<1>4. ErrorExitHasCause'
  BY DEF TypeOK, WorkerState, HandlerState, AppState, Present, ErrorExitHasCause
<1>5. OnlyPresentRun'
  BY DEF TypeOK, WorkerState, HandlerState, AppState, OnlyPresentRun
<1>. QED BY <1>1, <1>2, <1>3, <1>4, <1>5

\* A signal changes no exit code.
LEMMA SignalHInv == ASSUME HInv, Signal PROVE HInv'
<1> USE DEF HInv, Signal
<1>1. TypeOK'
  BY DEF TypeOK, WorkerState, HandlerState, AppState, Modes, Errors, Places
<1>2. ClosedAtEnd'
  BY DEF TypeOK, WorkerState, HandlerState, AppState, Present, ClosedAtEnd
<1>3. StoppedAfterStop'
  BY DEF TypeOK, WorkerState, HandlerState, AppState, StoppedAfterStop
<1>4. ErrorExitHasCause'
  BY DEF TypeOK, WorkerState, HandlerState, AppState, Present, ErrorExitHasCause
<1>5. OnlyPresentRun'
  BY DEF TypeOK, WorkerState, HandlerState, AppState, OnlyPresentRun
<1>. QED BY <1>1, <1>2, <1>3, <1>4, <1>5

\* From here on the error of the stop may be met.
LEMMA StopHInv == ASSUME HInv, Stop PROVE HInv'
<1> USE DEF HInv, Stop
<1>1. TypeOK'
  BY DEF TypeOK, WorkerState, HandlerState, AppState, Modes, Errors, Places
<1>2. ClosedAtEnd'
  BY DEF TypeOK, WorkerState, HandlerState, AppState, Present, ClosedAtEnd
<1>3. StoppedAfterStop'
  BY DEF TypeOK, WorkerState, HandlerState, AppState, StoppedAfterStop
<1>4. ErrorExitHasCause'
  BY DEF TypeOK, WorkerState, HandlerState, AppState, Present, ErrorExitHasCause
<1>5. OnlyPresentRun'
  BY DEF TypeOK, WorkerState, HandlerState, AppState, OnlyPresentRun
<1>. QED BY <1>1, <1>2, <1>3, <1>4, <1>5

\* closedChn is closed.
LEMMA StopReturnsHInv == ASSUME HInv, StopReturns PROVE HInv'
<1> USE DEF HInv, StopReturns
<1>1. TypeOK'
  BY DEF TypeOK, WorkerState, HandlerState, AppState, Modes, Errors, Places
<1>2. ClosedAtEnd'
  BY DEF TypeOK, WorkerState, HandlerState, AppState, Present, ClosedAtEnd
<1>3. StoppedAfterStop'
  BY DEF TypeOK, WorkerState, HandlerState, AppState, StoppedAfterStop
<1>4. ErrorExitHasCause'
  BY DEF TypeOK, WorkerState, HandlerState, AppState, Present, ErrorExitHasCause
<1>5. OnlyPresentRun'
  BY DEF TypeOK, WorkerState, HandlerState, AppState, OnlyPresentRun
<1>. QED BY <1>1, <1>2, <1>3, <1>4, <1>5

\* Stop gives up.
LEMMA StopTimeoutHInv == ASSUME HInv, StopTimeout PROVE HInv'
<1> USE DEF HInv, StopTimeout
<1>1. TypeOK'
  BY DEF TypeOK, WorkerState, HandlerState, AppState, Modes, Errors, Places
<1>2. ClosedAtEnd'
  BY DEF TypeOK, WorkerState, HandlerState, AppState, Present, ClosedAtEnd
<1>3. StoppedAfterStop'
  BY DEF TypeOK, WorkerState, HandlerState, AppState, StoppedAfterStop
<1>4. ErrorExitHasCause'
  BY DEF TypeOK, WorkerState, HandlerState, AppState, Present, ErrorExitHasCause
<1>5. OnlyPresentRun'
  BY DEF TypeOK, WorkerState, HandlerState, AppState, OnlyPresentRun
<1>. QED BY <1>1, <1>2, <1>3, <1>4, <1>5

\* Every step keeps the invariant.
LEMMA StepHInv == HInv /\ [Next]_vars => HInv'
<1> SUFFICES ASSUME HInv, [Next]_vars PROVE HInv'
  OBVIOUS
<1>1. CASE UNCHANGED vars
  BY <1>1 DEF vars, HInv, TypeOK, Present, ClosedAtEnd, OnlyPresentRun, StoppedAfterStop, ErrorExitHasCause
<1>2. CASE Start \/ RunReturns \/ Signal \/ Stop \/ StopReturns \/ StopTimeout
  BY <1>2, StartHInv, RunReturnsHInv, SignalHInv, StopHInv, StopReturnsHInv, StopTimeoutHInv
<1>3. ASSUME NEW w \in Workers, WorkerStep(w) \/ WorkerReturns(w) \/ LeaseFails(w) \/ Receive(w) PROVE HInv'
  BY <1>3, LockReturnsHInv, AutoExtendHInv, UnlockHInv, DecideHInv, SendHInv, WorkerReturnsHInv, LeaseFailsHInv,
     ReceiveHInv DEF WorkerStep
<1>. QED BY <1>1, <1>2, <1>3 DEF Next

\* The invariant holds throughout.
LEMMA AlwaysHInv == Spec => []HInv
  BY InitHInv, StepHInv, PTL DEF Spec

\* When Stop (worker/worker.go:271-289) returns because closedChn is closed, every worker
\* has ended, however many there are.
THEOREM StopIsComplete == Spec => []StopWaitsForWorkers
<1>1. HInv => StopWaitsForWorkers
  BY DEF HInv, ClosedAtEnd, StopWaitsForWorkers
<1>. QED BY AlwaysHInv, <1>1, PTL

\* The handler (shutdownFxApp, worker/worker.go:253-269) gives the application the exit
\* code 1 only if there are no workers or one of them ended with an error of its own.
THEOREM ExitCodeIsDeserved == Spec => []ErrorExitHasCause
<1>1. HInv => ErrorExitHasCause
  BY DEF HInv
<1>. QED BY AlwaysHInv, <1>1, PTL
=============================================================================

-------------------------------- MODULE Task --------------------------------
(* One task (executors/task.go) at the grain of its atomic operations: the   *)
(* loads, stores and compare-and-swaps of status and done, the mutex, and    *)
(* the plain fields canceled and err.  The goroutines that touch a task are  *)
(* the clients that hold its future, the goroutine that runs its command     *)
(* and the executor's event loop, which is reduced here to what it does with *)
(* this task (module Executor has the rest).                                 *)
EXTENDS Integers, FiniteSets

CONSTANTS Callers,        \* goroutines that call Cancel() and Await()
          Loop, Runner,   \* the event loop, the goroutine that runs the command
          MaxCalls        \* bound: calls of each caller

ASSUME TaskAssumption ==
  /\ IsFiniteSet(Callers) /\ Loop \notin Callers /\ Runner \notin Callers /\ Loop # Runner
  /\ MaxCalls \in Nat

Procs == Callers \cup {Loop, Runner}

TNew        == 0
TRunning    == 1
TCancelling == 2
TDone       == 3

VARIABLES task,     \* the fields: periodic (by _type, never changed), status, done,
                    \* mu, canceled, err; closes counts the
                    \* closings of the channel Await made, queued says that the
                    \* event loop will try to run the task
          outcome,  \* what the command returned
          pc,       \* where each goroutine is
          seen,     \* the status each goroutine has loaded
          calls,    \* calls each caller has made
          won,      \* the callers whose Cancel() returned true
          got,      \* the channel the last Await() of each caller returned
          early     \* the callers it returned to before the task was Done

local == <<outcome, seen, calls, won, got, early>>
vars  == <<task, pc, local>>

Init ==
  /\ \E periodic \in BOOLEAN :
       task = [periodic |-> periodic, status |-> TNew, done |-> "nil", closes |-> 0,
               mu |-> FALSE, canceled |-> FALSE, err |-> "nil", queued |-> TRUE]
  /\ outcome = "nil"
  /\ pc = [p \in Procs |-> IF p = Loop THEN "select" ELSE "idle"]
  /\ seen = [p \in Procs |-> TNew]
  /\ calls = [c \in Callers |-> 0]
  /\ got = [c \in Callers |-> "nil"]
  /\ won = {} /\ early = {}

\* Goroutine p moves on; a panic in the event loop ends the process.
Step(p, from, to) ==
  /\ pc[Loop] # "panic"
  /\ pc[p] = from
  /\ pc' = [pc EXCEPT ![p] = to]

\* t.status.CompareAndSwap(old, new), and closing the channel that was loaded.
Swap(old, new) == IF task.status = old THEN [task EXCEPT !.status = new] ELSE task
CloseIfMade    == [task EXCEPT !.closes = IF task.done = "made" THEN @ + 1 ELSE @]

-----------------------------------------------------------------------------
(* setDone(), called by the goroutine of the command and by the event loop.  *)

\* Where its caller goes on, and the error it was given.
Return(p)  == IF p = Runner THEN "completed" ELSE "select"
DoneErr(p) == IF p = Runner THEN outcome ELSE "Canceled"

SetDoneLoad(p) ==
  /\ Step(p, "setDone", IF task.status = TDone THEN Return(p) ELSE "swapStatus")
  /\ seen' = [seen EXCEPT ![p] = task.status]
  /\ UNCHANGED <<task, outcome, calls, won, got, early>>

SetDoneSwap(p) ==
  /\ Step(p, "swapStatus", IF task.status = seen[p] THEN "setErr" ELSE Return(p))
  /\ task' = Swap(seen[p], TDone)
  /\ UNCHANGED local

SetDoneErr(p) ==
  /\ Step(p, "setErr", "loadDone")
  /\ task' = [task EXCEPT !.err = DoneErr(p)]
  /\ UNCHANGED local

\* Mutant: the quick path does not close the channel.
SetDoneChannel_Open(p) ==
  /\ Step(p, "loadDone", IF task.done = "nil" THEN "swapDone" ELSE Return(p))
  /\ UNCHANGED <<task, local>>

\* The quick path.
SetDoneChannel(p) ==
  /\ Step(p, "loadDone", IF task.done = "nil" THEN "swapDone" ELSE Return(p))
  /\ task' = CloseIfMade
  /\ UNCHANGED local

SetDoneClosedChn(p) ==
  /\ Step(p, "swapDone", IF task.done = "nil" THEN Return(p) ELSE "lockDone")
  /\ task' = [task EXCEPT !.done = IF @ = "nil" THEN "closedChn" ELSE @]
  /\ UNCHANGED local

\* The slow path; under the mutex nobody stores done.
SetDoneSlow(p) ==
  /\ Step(p, "lockDone", Return(p))
  /\ ~task.mu
  /\ task' = CloseIfMade
  /\ UNCHANGED local

SetDone(p) ==
  \/ SetDoneLoad(p) \/ SetDoneSwap(p) \/ SetDoneErr(p)
  \/ SetDoneChannel(p) \/ SetDoneClosedChn(p) \/ SetDoneSlow(p)

-----------------------------------------------------------------------------
(* The callers: Cancel().                                                    *)

Call(c, next) ==
  /\ Step(c, "idle", next)
  /\ calls[c] < MaxCalls
  /\ calls' = [calls EXCEPT ![c] = @ + 1]

CancelLoad(c) ==
  /\ Call(c, IF task.status >= TCancelling THEN "idle" ELSE "swapNew")
  /\ UNCHANGED <<task, outcome, seen, won, got, early>>

\* Mutant: check-then-act instead of the compare-and-swap of New.
CancelNew_Store(c) ==
  /\ Step(c, "swapNew", IF task.status # TRunning THEN "cancelNew" ELSE "swapRunning")
  /\ task' = IF task.status # TRunning THEN [task EXCEPT !.status = TDone] ELSE task
  /\ UNCHANGED local

CancelNew(c) ==
  /\ Step(c, "swapNew", IF task.status = TNew THEN "cancelNew" ELSE "swapRunning")
  /\ task' = Swap(TNew, TDone)
  /\ UNCHANGED local

CancelNewErr(c) ==
  /\ Step(c, "cancelNew", "cancelClose")
  /\ task' = [task EXCEPT !.err = "Canceled", !.canceled = TRUE]
  /\ UNCHANGED local

CancelNewClose(c) ==
  /\ Step(c, "cancelClose", "send")
  /\ task' = CloseIfMade
  /\ UNCHANGED local

CancelRunning(c) ==
  /\ Step(c, "swapRunning", IF task.status = TRunning THEN "cancelRunning" ELSE "idle")
  /\ task' = Swap(TRunning, TCancelling)
  /\ UNCHANGED local

\* Mutant: the channel is closed before the command has returned.
CancelRunningFlag_Closes(c) ==
  /\ Step(c, "cancelRunning", "send")
  /\ task' = [CloseIfMade EXCEPT !.canceled = TRUE]
  /\ UNCHANGED local

CancelRunningFlag(c) ==
  /\ Step(c, "cancelRunning", "send")
  /\ task' = [task EXCEPT !.canceled = TRUE]
  /\ UNCHANGED local

-----------------------------------------------------------------------------
(* The callers: Await().                                                     *)

Returns(c, chan) ==
  /\ got' = [got EXCEPT ![c] = chan]
  /\ early' = IF task.status = TDone THEN early \ {c} ELSE early \cup {c}

ReturnsDone(c) == IF task.done = "nil" THEN UNCHANGED <<got, early>> ELSE Returns(c, task.done)

AwaitLoad(c) ==
  /\ Call(c, IF task.done = "nil" THEN "await" ELSE "idle")
  /\ ReturnsDone(c)
  /\ UNCHANGED <<task, outcome, seen, won>>

AwaitLock(c) ==
  /\ Step(c, "await", IF task.done = "nil" THEN "loadStatus" ELSE "idle")
  /\ ~task.mu
  /\ task' = [task EXCEPT !.mu = task.done = "nil"]
  /\ ReturnsDone(c)
  /\ UNCHANGED <<outcome, seen, calls, won>>

AwaitStatus(c) ==
  /\ Step(c, "loadStatus", "store")
  /\ seen' = [seen EXCEPT ![c] = task.status]
  /\ UNCHANGED <<task, outcome, calls, won, got, early>>

\* A Store, not a compare-and-swap.
AwaitStore(c) ==
  /\ Step(c, "store", "idle")
  /\ task' = [task EXCEPT !.done = IF seen[c] = TDone THEN "closedChn" ELSE "made",
                          !.mu = FALSE]
  /\ Returns(c, task'.done)
  /\ UNCHANGED <<outcome, seen, calls, won>>

-----------------------------------------------------------------------------
(* The command and the event loop.                                           *)

\* The event loop in its select takes something from goroutine p.
Handle(next, p, pnext) ==
  /\ pc[Loop] = "select"
  /\ pc' = [pc EXCEPT ![p] = pnext, ![Loop] = next]

\* setRunning() and the spawn.
Run ==
  /\ task.queued
  /\ Handle("select", Runner, IF task.status = TNew THEN "running" ELSE pc[Runner])
  /\ task' = [Swap(TNew, TRunning) EXCEPT !.queued = FALSE]
  /\ UNCHANGED local

Finish ==
  /\ outcome' \in {"nil", "Failed"}
  /\ Step(Runner, "running",
          IF outcome' # "nil" \/ ~task.periodic THEN "setDone" ELSE "completed")
  /\ UNCHANGED <<task, seen, calls, won, got, early>>

\* case _TaskCompletedEvent: Done(), then Canceled(), then configureNextRun().
TaskCompleted ==
  /\ pc[Runner] = "completed"
  /\ Handle("checkDone", Runner, "idle")
  /\ UNCHANGED <<task, local>>

CheckDone ==
  /\ Step(Loop, "checkDone", IF task.status = TDone THEN "select" ELSE "checkCanceled")
  /\ UNCHANGED <<task, local>>

CheckCanceled ==
  /\ Step(Loop, "checkCanceled",
          IF task.canceled THEN "setDone" ELSE IF task.periodic THEN "nextRun" ELSE "select")
  /\ UNCHANGED <<task, local>>

\* Mutant: a store instead of the load and the compare-and-swap.
configureNextRun_Store ==
  /\ Step(Loop, "nextRun", "select")
  /\ task' = [task EXCEPT !.status = TNew, !.queued = TRUE]
  /\ UNCHANGED local

\* Its load and its compare-and-swap both panic unless the status is Running.
configureNextRun ==
  /\ Step(Loop, "nextRun", IF task.status = TRunning THEN "select" ELSE "panic")
  /\ task' = [Swap(TRunning, TNew) EXCEPT !.queued = task.status = TRunning]
  /\ UNCHANGED local

\* case _TaskCanceledEvent: the caller's Cancel() returns true.
TaskCanceled(c) ==
  /\ pc[c] = "send"
  /\ Handle("checkErr", c, "idle")
  /\ won' = won \cup {c}
  /\ UNCHANGED <<task, outcome, seen, calls, got, early>>

CheckErr ==
  /\ Step(Loop, "checkErr", IF task.err = "nil" THEN "fillErr" ELSE "select")
  /\ UNCHANGED <<task, local>>

FillErr ==
  /\ Step(Loop, "fillErr", "select")
  /\ task' = [task EXCEPT !.err = "Canceled"]
  /\ UNCHANGED local

-----------------------------------------------------------------------------
Continue(c) ==
  \/ CancelNew(c) \/ CancelNewErr(c) \/ CancelNewClose(c)
  \/ CancelRunning(c) \/ CancelRunningFlag(c)
  \/ AwaitLock(c) \/ AwaitStatus(c) \/ AwaitStore(c)

LoopStep ==
  \/ Run \/ TaskCompleted \/ CheckDone \/ CheckCanceled \/ configureNextRun
  \/ (\E c \in Callers : TaskCanceled(c)) \/ CheckErr \/ FillErr \/ SetDone(Loop)

RunnerStep == Finish \/ SetDone(Runner)

Next ==
  \/ \E c \in Callers : CancelLoad(c) \/ AwaitLoad(c) \/ Continue(c)
  \/ LoopStep \/ RunnerStep

Spec == Init /\ [][Next]_vars

(* A goroutine that can move does; the mutex is held for a few steps only    *)
(* and nobody has to call.                                                   *)
Fairness ==
  /\ \A c \in Callers : WF_vars(Continue(c))
  /\ WF_vars(LoopStep) /\ WF_vars(RunnerStep)

FairSpec == Spec /\ Fairness

-----------------------------------------------------------------------------
(* Properties.                                                               *)

\* A caller whose channel is closed.
Woken(c) == got[c] = "closedChn" \/ (got[c] = "made" /\ task.closes > 0)

\* Of setDone's paths and Cancel at most one closes the channel that Await made
\* (closing it twice would panic), and nobody who waits on Await() goes on before
\* the task is Done.
ClosedOnceWhenDone ==
  task.closes <= 1 /\ \A c \in Callers : Woken(c) => task.status = TDone

\* Of all the calls of Cancel() on one future, racing with each other and with
\* the command's end, at most one returns true.
Winners == won \cup {c \in Callers : pc[c] \in {"cancelNew", "cancelClose", "cancelRunning", "send"}}
OneCancelWins == Cardinality(Winners) <= 1

\* The compare-and-swaps of Cancel, setDone, setRunning and configureNextRun
\* compose to the transitions of module TaskLifecycle; a Cancel() takes effect
\* with its swap, before it sets the canceled flag.
Lifecycle == INSTANCE TaskLifecycle
               WITH status <- task.status,
                    canceled <- task.canceled \/ Winners # {}
FollowsLifecycle == Lifecycle!Spec

\* A caller that got its channel from Await() before the task was Done is woken
\* once it is.
EarlyAwaitWakes == \A c \in Callers : (c \in early /\ task.status = TDone) ~> Woken(c)

-----------------------------------------------------------------------------
(* What the documentation says of a future and the code does not keep.       *)

\* Await "returns a channel that should be used to block until the computation
\* is Done" (executors.go): whoever waits for a Done task is woken.
AwaitWakes == \A c \in Callers : (got[c] # "nil" /\ task.status = TDone) ~> Woken(c)

\* "Cannot configure next run for a task that is done or cancelling" (task.go):
\* the event loop never asks for it.
NextRunNeverPanics == pc[Loop] # "panic"
=============================================================================

------------------------------ MODULE Executor ------------------------------
(* DefaultExecutor (executors/executors_default.go) with the tasks it runs:  *)
(* the event loop, the goroutines of the clients that call the executor and  *)
(* its futures, the goroutines that run the tasks, and the clock.            *)
(*                                                                           *)
(* The event channel is unbuffered.  A goroutine that has an event to send   *)
(* is blocked until the loop, which must be in its select, takes it; the     *)
(* loop then handles the event completely.  What a goroutine does before its *)
(* send and what the loop does on receipt are therefore two steps, and every *)
(* other goroutine may move between them.                                    *)
(*                                                                           *)
(* Task.Cancel and setDone are atomic up to their send here; module Task     *)
(* takes them apart.                                                         *)
EXTENDS Integers, Sequences, FiniteSets, GoList

CONSTANTS Clients,        \* goroutines that call the executor
          Calls,          \* the methods they call
          Kinds,          \* [type, initialDelay, delay] of the commands they schedule
          Outcomes,       \* what a command may return: "nil", "Failed" (an error or a panic)
          Concurrency,    \* NewDefaultExecutor's concurrency, negative for no limit
          QueueCapacity,  \* NewDefaultExecutor's queueCapacity, negative for no limit
          Limits,         \* values given to SetConcurrency and SetQueueCapacity
          MaxTasks,       \* bound: commands ever accepted for sending
          MaxTime,        \* bound: the clock stops here
          MaxCtxGo        \* bound: live goroutines spawned on ctx.Done()

Methods == {"Submit", "TaskCancel", "Cancel", "CancelNow", "SetConcurrency",
            "SetQueueCapacity", "CtxDone"}
Types   == {"Once", "FixedDelay", "FixedRate"}
Errs    == {"nil", "Canceled", "Failed"}

ASSUME ExecutorAssumption ==
  /\ IsFiniteSet(Clients)
  /\ Calls \subseteq Methods
  /\ Kinds \subseteq [type : Types, initialDelay : Nat, delay : Nat]
  /\ Outcomes \subseteq {"nil", "Failed"}
  /\ Concurrency \in Int /\ QueueCapacity \in Int /\ Limits \subseteq Int
  /\ MaxTasks \in Nat /\ MaxTime \in Nat /\ MaxCtxGo \in Nat

Tasks == 1 .. MaxTasks

\* The executor's status, compared with >= in the code.
Running            == 0
ShuttingDown       == 1
WaitingTermination == 2
Terminated         == 3

\* A task's status.
TNew        == 0
TRunning    == 1
TCancelling == 2
TDone       == 3

Off == -1    \* the scheduler timer is not armed

VARIABLES ex,         \* the fields of DefaultExecutor and of its tasks
          taskCount,  \* ids handed out
          client,     \* what each client is blocked on, [op, arg]
          returned,   \* the tasks CancelNow gave back
          ctxDone,    \* the executor's context is cancelled
          ctxGo,      \* goroutines spawned for it: [spawned, sending]
          now

vars == <<ex, taskCount, client, returned, ctxDone, ctxGo, now>>

Idle == [op |-> "idle", arg |-> 0]

NoTask == [type |-> "Once", delay |-> 0, nextRun |-> 0, status |-> TNew,
           canceled |-> FALSE, err |-> "nil", queueElement |-> FALSE,
           sQueueElement |-> FALSE, goroutine |-> "none"]

\* NewTimer(0) has fired at once; its target is the time of construction.
Init ==
  /\ ex = [status |-> Running, concurrency |-> Concurrency,
           queueCapacity |-> QueueCapacity, running |-> 0,
           queue |-> ListNew(Tasks), scheduledQueue |-> <<>>,
           timer |-> 0, timerTarget |-> 0,
           task |-> [t \in Tasks |-> NoTask], loop |-> "select"]
  /\ taskCount = 0
  /\ client = [c \in Clients |-> Idle]
  /\ returned = {}
  /\ ctxDone = FALSE
  /\ ctxGo = [spawned |-> 0, sending |-> 0]
  /\ now = 0

-----------------------------------------------------------------------------
(* The methods the event loop calls, on a value e of ex.                     *)

Canceled(e)    == e.status >= ShuttingDown
QueueLength(e) == e.queue.len + Len(e.scheduledQueue)
Periodic(e, t) == e.task[t].type \in {"FixedRate", "FixedDelay"}
\* Mutant: a task counts as due one unit early.
Delay_Early(e, t) == e.task[t].nextRun - now - 1

Delay(e, t)    == e.task[t].nextRun - now

\* Mutant: the limit is compared with <=.
canStartNewTask_Inclusive(e) == e.concurrency < 0 \/ e.running <= e.concurrency

canStartNewTask(e) == e.concurrency < 0 \/ e.running < e.concurrency

\* Mutant: a remaining capacity of zero is accepted.
HasRemainingCapacity_Zero(e) ==
  \/ e.concurrency < 0 \/ e.queueCapacity < 0
  \/ e.concurrency - e.running + e.queueCapacity - QueueLength(e) >= 0

HasRemainingCapacity(e) ==
  \/ e.concurrency < 0 \/ e.queueCapacity < 0
  \/ e.concurrency - e.running + e.queueCapacity - QueueLength(e) >= 1

\* A stable insertion by nextRun: what PriorityQueue promises.
SchedulePush(e, t) ==
  LET s == e.scheduledQueue
      i == Cardinality({j \in DOMAIN s : e.task[s[j]].nextRun <= e.task[t].nextRun})
  IN  [e EXCEPT !.scheduledQueue = SubSeq(s, 1, i) \o <<t>> \o SubSeq(s, i + 1, Len(s))]

\* PriorityQueue.Remove: by the element's index, and nothing if it was popped.
ScheduleRemove(e, t) ==
  LET s  == e.scheduledQueue
      at == {i \in DOMAIN s : s[i] = t}
      i  == CHOOSE j \in at : TRUE
  IN  IF at = {} THEN e
      ELSE [e EXCEPT !.scheduledQueue = SubSeq(s, 1, i - 1) \o SubSeq(s, i + 1, Len(s))]

configureSchedulerTimer(e) ==
  IF e.scheduledQueue = <<>> THEN e
  ELSE LET next == e.task[Head(e.scheduledQueue)].nextRun
       IN  IF next = e.timerTarget THEN e
           ELSE [e EXCEPT !.timerTarget = next, !.timer = next]

\* setRunning() and the spawn of the goroutine that runs the command.
executeTask(e, t) ==
  IF e.task[t].status # TNew \/ Delay(e, t) > 0 THEN e
  ELSE [e EXCEPT !.running = @ + 1,
                 !.task[t] = [@ EXCEPT !.status = TRunning, !.goroutine = "executing"]]

tryExecuteTask(e, t) ==
  IF e.task[t].status # TNew THEN e
  ELSE IF Delay(e, t) > 0
  THEN configureSchedulerTimer([SchedulePush(e, t) EXCEPT !.task[t].sQueueElement = TRUE])
  ELSE IF ~canStartNewTask(e)
  THEN [e EXCEPT !.queue = ListPushBack(@, t), !.task[t].queueElement = TRUE]
  ELSE executeTask(e, t)

\* The second half of tryRunNextTask.  A list whose front is the sentinel fails
\* the type assertion on a nil Value, which kills the process.
RunFront(e) ==
  LET front == ListFront(e.queue)
  IN  IF e.queue.len = 0 \/ ~canStartNewTask(e) THEN e
      ELSE IF front \notin Tasks THEN [e EXCEPT !.loop = "crashed"]
      ELSE tryExecuteTask([e EXCEPT !.queue = ListRemove(@, front),
                                    !.task[front].queueElement = FALSE], front)

Terminate(e) == [e EXCEPT !.status = Terminated, !.loop = "exited"]

\* Mutant: the end does not wait for the running commands.
tryRunNextTask_Running(e) ==
  IF e.status = Terminated THEN e
  ELSE IF QueueLength(e) # 0 THEN RunFront(e)
  ELSE IF ~Canceled(e) THEN e ELSE Terminate(e)

\* The loop returns when this leaves loop = "exited".
tryRunNextTask(e) ==
  IF e.status = Terminated THEN e
  ELSE IF QueueLength(e) # 0 THEN RunFront(e)
  ELSE IF ~Canceled(e) THEN e
  ELSE IF e.running > 0 THEN [e EXCEPT !.status = WaitingTermination]
  ELSE Terminate(e)

setDone(e, t, err) ==
  IF e.task[t].status = TDone THEN e
  ELSE [e EXCEPT !.task[t].status = TDone, !.task[t].err = err]

\* configureNextRun: back to New, with the time of the next run.
configureNextRun(e, t) ==
  [e EXCEPT !.task[t].status = TNew,
            !.task[t].nextRun = (IF e.task[t].type = "FixedDelay" THEN now ELSE @)
                                + e.task[t].delay]

-----------------------------------------------------------------------------
(* The event loop: what one iteration does with what select has taken.       *)

InSelect == ex.loop = "select"

\* case <-e.schedulerTimer.C
TimerFired(e) ==
  IF e.scheduledQueue = <<>> THEN [e EXCEPT !.timer = Off]
  ELSE LET t   == Head(e.scheduledQueue)
           off == [e EXCEPT !.timer = Off]
       IN  configureSchedulerTimer(
             IF e.task[t].nextRun <= now
             THEN tryExecuteTask([off EXCEPT !.scheduledQueue = Tail(@),
                                             !.task[t].sQueueElement = FALSE], t)
             ELSE off)

SchedulerTimer ==
  /\ InSelect
  /\ ex.timer # Off /\ ex.timer <= now
  /\ ex' = TimerFired(ex)
  /\ UNCHANGED <<taskCount, client, returned, ctxDone, ctxGo, now>>

\* The loop takes the event client c is blocked on, and c goes on.
Take(c, op, next) ==
  /\ InSelect
  /\ client[c].op = op
  /\ client' = [client EXCEPT ![c] = next]

TaskSubmitted(c) ==
  /\ Take(c, "TaskSubmitted", Idle)
  /\ ex' = tryExecuteTask(ex, client[c].arg)
  /\ UNCHANGED <<taskCount, returned, ctxDone, ctxGo, now>>

\* Mutant: a periodic task that is already late is not queued.
Reschedule_DropsLate(e, t) ==
  LET n == configureNextRun(e, t)
  IN  IF Delay(n, t) > 0 THEN configureSchedulerTimer(SchedulePush(n, t)) ELSE n

\* A periodic task goes back to a queue; its element is not kept.
Reschedule(e, t) ==
  LET n == configureNextRun(e, t)
  IN  IF Delay(n, t) > 0 THEN configureSchedulerTimer(SchedulePush(n, t))
      ELSE [n EXCEPT !.queue = ListPushBack(@, t)]

\* What becomes of the task, once its slot is free.
Settled(e, t) ==
  IF e.task[t].status = TDone THEN e
  ELSE IF e.task[t].canceled THEN setDone(e, t, "Canceled")
  ELSE IF Periodic(e, t) THEN Reschedule(e, t)
  ELSE e

\* Mutants: the slot is not given back; a cancelled periodic task is scheduled
\* again; the next task is not looked for.
Completed_KeepsSlot(e, t) ==
  tryRunNextTask(Settled([e EXCEPT !.task[t].goroutine = "none"], t))

Completed_Revives(e, t) ==
  LET d == [e EXCEPT !.running = @ - 1, !.task[t].goroutine = "none"]
  IN  tryRunNextTask(IF d.task[t].status = TDone \/ ~Periodic(d, t) THEN d
                     ELSE Reschedule(d, t))

Completed_NoNext(e, t) ==
  Settled([e EXCEPT !.running = @ - 1, !.task[t].goroutine = "none"], t)

Completed(e, t) ==
  tryRunNextTask(Settled([e EXCEPT !.running = @ - 1, !.task[t].goroutine = "none"], t))

TaskCompleted(t) ==
  /\ InSelect
  /\ ex.task[t].goroutine = "completing"
  /\ ex' = Completed(ex, t)
  /\ UNCHANGED <<taskCount, client, returned, ctxDone, ctxGo, now>>

CanceledRemoved(e, t) ==
  LET f == [e EXCEPT !.task[t].err = IF @ = "nil" THEN "Canceled" ELSE @]
      g == IF f.task[t].queueElement
           THEN [f EXCEPT !.queue = ListRemove(@, t)] ELSE f
  IN  IF f.queue.len = 0 THEN f
      ELSE IF g.task[t].sQueueElement THEN ScheduleRemove(g, t) ELSE g

TaskCanceled(c) ==
  /\ Take(c, "TaskCanceled", Idle)
  /\ ex' = CanceledRemoved(ex, client[c].arg)
  /\ UNCHANGED <<taskCount, returned, ctxDone, ctxGo, now>>

\* The caller is released before the loop starts what the new limit allows.
UpdateConcurrency(c) ==
  /\ Take(c, "UpdateConcurrency", Idle)
  /\ ex' = [ex EXCEPT !.concurrency = client[c].arg, !.loop = "resizing"]
  /\ UNCHANGED <<taskCount, returned, ctxDone, ctxGo, now>>

\* One iteration of the handler's own loop, or its end.
Resize ==
  /\ ex.loop = "resizing"
  /\ ex' = IF canStartNewTask(ex) /\ ex.queue.len > 0 THEN tryRunNextTask(ex)
           ELSE [ex EXCEPT !.loop = "select"]
  /\ UNCHANGED <<taskCount, client, returned, ctxDone, ctxGo, now>>

UpdateQueueCapacity(c) ==
  /\ Take(c, "UpdateQueueCapacity", Idle)
  /\ ex' = [ex EXCEPT !.queueCapacity = client[c].arg]
  /\ UNCHANGED <<taskCount, returned, ctxDone, ctxGo, now>>

\* Mutant: the shutdown of an idle executor is not noticed.
CancelEvent_NoNext(e) ==
  IF e.status >= ShuttingDown THEN e ELSE [e EXCEPT !.status = ShuttingDown]

CancelEvent(e) ==
  IF e.status >= ShuttingDown THEN e
  ELSE tryRunNextTask([e EXCEPT !.status = ShuttingDown])

\* CancelNow first calls Cancel; it goes on to its own event.
ExecutorCancel(c) ==
  /\ \/ Take(c, "Cancel", Idle)
     \/ Take(c, "CancelFirst", [op |-> "CancelNow", arg |-> 0])
  /\ ex' = CancelEvent(ex)
  /\ UNCHANGED <<taskCount, returned, ctxDone, ctxGo, now>>

\* CompareAndSwap(ShuttingDown, WaitingTermination).
CancelNowEvent(e) ==
  tryRunNextTask([e EXCEPT !.queue = ListInit(@), !.scheduledQueue = <<>>,
                           !.status = IF @ = ShuttingDown THEN WaitingTermination ELSE @])

ExecutorCancelNow(c) ==
  /\ Take(c, "CancelNow", Idle)
  /\ IF ex.status >= WaitingTermination THEN UNCHANGED <<ex, returned>>
     ELSE /\ returned' = returned \cup ListElements(ex.queue)
                           \cup {ex.scheduledQueue[i] : i \in DOMAIN ex.scheduledQueue}
          /\ ex' = CancelNowEvent(ex)
  /\ UNCHANGED <<taskCount, ctxDone, ctxGo, now>>

\* case <-e.ctx.Done(): a goroutine that calls Cancel; the case stays ready.
ContextDone ==
  /\ InSelect /\ ctxDone
  /\ ctxGo.spawned + ctxGo.sending < MaxCtxGo
  /\ ctxGo' = [ctxGo EXCEPT !.spawned = @ + 1]
  /\ UNCHANGED <<ex, taskCount, client, returned, ctxDone, now>>

\* The status check of the Cancel such a goroutine calls.
ContextCancelCall ==
  /\ ex.loop # "crashed"
  /\ ctxGo.spawned > 0
  /\ ctxGo' = [spawned |-> ctxGo.spawned - 1,
               sending |-> ctxGo.sending + IF Canceled(ex) THEN 0 ELSE 1]
  /\ UNCHANGED <<ex, taskCount, client, returned, ctxDone, now>>

ContextCancel ==
  /\ InSelect
  /\ ctxGo.sending > 0
  /\ ctxGo' = [ctxGo EXCEPT !.sending = @ - 1]
  /\ ex' = CancelEvent(ex)
  /\ UNCHANGED <<taskCount, client, returned, ctxDone, now>>

-----------------------------------------------------------------------------
(* The clients: what each method does before it blocks on the event channel. *)

Call(c, method) ==
  /\ method \in Calls
  /\ ex.loop # "crashed"
  /\ client[c] = Idle

Block(c, op, arg) == client' = [client EXCEPT ![c] = [op |-> op, arg |-> arg]]

\* schedule(): ErrExecutorCanceled, ErrExecutorQueueFull, or a new task to send.
Schedule(c, k) ==
  /\ Call(c, "Submit")
  /\ ~Canceled(ex) /\ HasRemainingCapacity(ex)
  /\ taskCount < MaxTasks /\ now + k.initialDelay <= MaxTime
  /\ taskCount' = taskCount + 1
  /\ ex' = [ex EXCEPT !.task[taskCount + 1] =
                [@ EXCEPT !.type = k.type, !.delay = k.delay, !.nextRun = now + k.initialDelay]]
  /\ Block(c, "TaskSubmitted", taskCount + 1)
  /\ UNCHANGED <<returned, ctxDone, ctxGo, now>>

\* The call that created t has returned its future.
Handed(t) == t <= taskCount /\ \A c \in Clients : client[c] # [op |-> "TaskSubmitted", arg |-> t]

\* Task.Cancel() up to its send: New -> Done, or Running -> Cancelling.
CancelTask(c, t) ==
  /\ Call(c, "TaskCancel")
  /\ Handed(t)
  /\ ex.task[t].status < TCancelling
  /\ ex' = IF ex.task[t].status = TNew
           THEN [ex EXCEPT !.task[t].status = TDone, !.task[t].err = "Canceled",
                           !.task[t].canceled = TRUE]
           ELSE [ex EXCEPT !.task[t].status = TCancelling, !.task[t].canceled = TRUE]
  /\ Block(c, "TaskCanceled", t)
  /\ UNCHANGED <<taskCount, returned, ctxDone, ctxGo, now>>

SetConcurrency(c, n) ==
  /\ Call(c, "SetConcurrency")
  /\ Block(c, "UpdateConcurrency", n)
  /\ UNCHANGED <<ex, taskCount, returned, ctxDone, ctxGo, now>>

SetQueueCapacity(c, n) ==
  /\ Call(c, "SetQueueCapacity")
  /\ Block(c, "UpdateQueueCapacity", n)
  /\ UNCHANGED <<ex, taskCount, returned, ctxDone, ctxGo, now>>

Cancel(c) ==
  /\ Call(c, "Cancel")
  /\ ~Canceled(ex)
  /\ Block(c, "Cancel", 0)
  /\ UNCHANGED <<ex, taskCount, returned, ctxDone, ctxGo, now>>

CancelNow(c) ==
  /\ Call(c, "CancelNow")
  /\ ex.status < WaitingTermination
  /\ Block(c, IF Canceled(ex) THEN "CancelNow" ELSE "CancelFirst", 0)
  /\ UNCHANGED <<ex, taskCount, returned, ctxDone, ctxGo, now>>

CancelContext ==
  /\ "CtxDone" \in Calls /\ ex.loop # "crashed"
  /\ ~ctxDone /\ ctxDone' = TRUE
  /\ UNCHANGED <<ex, taskCount, client, returned, ctxGo, now>>

-----------------------------------------------------------------------------
(* The goroutines that run the tasks, and the clock.                         *)

\* The command returns (or panics): setDone unless it is periodic and fine.
Finished(e, t, outcome) ==
  LET d == IF outcome # "nil" \/ ~Periodic(e, t) THEN setDone(e, t, outcome) ELSE e
  IN  [d EXCEPT !.task[t].goroutine = "completing"]

Finish(t) ==
  /\ ex.loop # "crashed"
  /\ ex.task[t].goroutine = "executing"
  /\ \E outcome \in Outcomes : ex' = Finished(ex, t, outcome)
  /\ UNCHANGED <<taskCount, client, returned, ctxDone, ctxGo, now>>

Tick ==
  /\ now < MaxTime /\ ex.loop # "crashed"
  /\ now' = now + 1
  /\ UNCHANGED <<ex, taskCount, client, returned, ctxDone, ctxGo>>

-----------------------------------------------------------------------------
Receive(c) ==
  \/ TaskSubmitted(c) \/ TaskCanceled(c)
  \/ UpdateConcurrency(c) \/ UpdateQueueCapacity(c)
  \/ ExecutorCancel(c) \/ ExecutorCancelNow(c)

ClientCall(c) ==
  \/ \E k \in Kinds : Schedule(c, k)
  \/ \E t \in Tasks : CancelTask(c, t)
  \/ \E n \in Limits : SetConcurrency(c, n) \/ SetQueueCapacity(c, n)
  \/ Cancel(c) \/ CancelNow(c)

Next ==
  \/ \E c \in Clients : ClientCall(c) \/ Receive(c)
  \/ \E t \in Tasks : TaskCompleted(t) \/ Finish(t)
  \/ SchedulerTimer \/ Resize
  \/ CancelContext \/ ContextDone \/ ContextCancelCall \/ ContextCancel
  \/ Tick

Spec == Init /\ [][Next]_vars

(* The loop goes on as long as it has not returned.  Senders blocked on the  *)
(* event channel are served in FIFO order and select chooses at random among *)
(* its ready cases, so none is passed over for ever, although the loop is    *)
(* not in its select while it resizes: strong fairness.  Spawned goroutines  *)
(* run, commands return and time passes.  Clients need not call.             *)
Fairness ==
  /\ \A c \in Clients : SF_vars(Receive(c))
  /\ \A t \in Tasks : SF_vars(TaskCompleted(t)) /\ WF_vars(Finish(t))
  /\ SF_vars(SchedulerTimer) /\ SF_vars(ContextDone) /\ SF_vars(ContextCancel)
  /\ WF_vars(Resize) /\ WF_vars(ContextCancelCall) /\ WF_vars(Tick)

FairSpec == Spec /\ Fairness
-----------------------------------------------------------------------------
(* Properties.                                                               *)

Events == {"idle", "TaskSubmitted", "TaskCanceled", "UpdateConcurrency",
           "UpdateQueueCapacity", "Cancel", "CancelFirst", "CancelNow"}

TaskType ==
  [type : Types, delay : Nat, nextRun : Nat, status : TNew .. TDone,
   canceled : BOOLEAN, err : Errs, queueElement : BOOLEAN, sQueueElement : BOOLEAN,
   goroutine : {"none", "executing", "completing"}]

Pointers == {p \in [Tasks \cup {Root} -> Tasks \cup {Root, Nil}] : p[Root] # Nil}
ListType == [next : Pointers, prev : Pointers, len : Nat]

ExType ==
  [status : Running .. Terminated, concurrency : Int, queueCapacity : Int,
   running : Nat, queue : ListType, scheduledQueue : Seq(Tasks),
   timer : Nat \cup {Off}, timerTarget : Nat, task : [Tasks -> TaskType],
   loop : {"select", "resizing", "exited", "crashed"}]

\* Every variable has its type; the events that carry a task carry one that
\* was created.
TypeOK ==
  /\ ex \in ExType
  /\ taskCount \in 0 .. MaxTasks
  /\ client \in [Clients -> [op : Events, arg : Int]]
  /\ \A c \in Clients : client[c].op \in {"TaskSubmitted", "TaskCanceled"}
                          => client[c].arg \in 1 .. taskCount
  /\ returned \subseteq Tasks
  /\ ctxDone \in BOOLEAN
  /\ ctxGo \in [spawned : Nat, sending : Nat]
  /\ now \in Nat

Busy(e) == {t \in Tasks : e.task[t].goroutine # "none"}

\* The running counter, which executeTask and the completion event maintain in
\* different iterations of the loop, counts exactly the goroutines that run a
\* command or have yet to report it.  A task started while it still runs would
\* be counted twice: the executions of one task are sequential.
RunningCount == ex.running = Cardinality(Busy(ex))

Starts(t) == ex.task[t].goroutine # "executing" /\ ex'.task[t].goroutine = "executing"

\* A command starts only within the concurrency limit in force, whichever
\* handler starts it and however the limit was lowered before.
ConcurrencyRespected ==
  [][\A t \in Tasks : Starts(t) => ex'.concurrency < 0 \/ ex'.running <= ex'.concurrency]_vars

\* After Future.Cancel() has returned true no execution of the command starts,
\* not even the next one of a periodic command that was cancelled while it ran
\* or while it waited in a queue the cancellation did not reach.
CanceledNeverStarts ==
  [][\A t \in Tasks : ex.task[t].canceled => ~Starts(t)]_vars

\* No execution starts before the time its task was scheduled for.
NotBeforeDue ==
  [][\A t \in Tasks : Starts(t) => ex'.task[t].nextRun <= now]_vars

\* When Terminated() reports true, nothing runs, nothing is queued and the
\* loop has returned.
TerminatedIsIdle ==
  ex.status = Terminated =>
    /\ ex.running = 0 /\ Busy(ex) = {}
    /\ QueueLength(ex) = 0
    /\ ex.loop = "exited"

(* The inductive strengthening: a task with a goroutine is not New, so it is *)
(* never started twice; a cancelled one is past Running, so it never becomes *)
(* New again; and nothing but a returned loop is Terminated.                 *)
EInv(e) ==
  /\ e \in ExType
  /\ e.running = Cardinality(Busy(e))
  /\ \A t \in Tasks : /\ e.task[t].goroutine # "none" => e.task[t].status # TNew
                      /\ e.task[t].canceled => e.task[t].status >= TCancelling
  /\ e.status = Terminated => e.running = 0 /\ QueueLength(e) = 0 /\ e.loop = "exited"
  /\ e.loop = "exited" => e.status = Terminated

IInv == TypeOK /\ EInv(ex)

InFlight == {c \in Clients : client[c].op = "TaskSubmitted"}

Highest(limit) == CHOOSE n \in {limit} \cup Limits : \A m \in {limit} \cup Limits : m <= n

\* The capacity check of schedule() is "best effort": the executor holds at most
\* one command for each other submitter more than the highest limits ever set
\* allow, even if they change between the check and the arrival of the event.
BoundedOvershoot ==
  {Concurrency, QueueCapacity} \cup Limits \subseteq Nat =>
    ex.running + QueueLength(ex) + Cardinality(InFlight)
      <= Highest(Concurrency) + Highest(QueueCapacity) - 1 + Cardinality(Clients)

Queued(t) ==
  \/ t \in ListElements(ex.queue)
  \/ \E i \in DOMAIN ex.scheduledQueue : ex.scheduledQueue[i] = t

\* As long as CancelNow has given nothing back, a command whose future was handed
\* out and that neither ran nor was cancelled waits in one of the two queues.
NoLostTask ==
  returned = {} =>
    \A t \in Tasks : (Handed(t) /\ ex.task[t].status = TNew) => Queued(t)

NoTies ==
  \A i, j \in DOMAIN ex.scheduledQueue :
    i # j => ex.task[ex.scheduledQueue[i]].nextRun # ex.task[ex.scheduledQueue[j]].nextRun

\* A one-shot command that was accepted is eventually done, shutdown or not, as
\* long as no two scheduled tasks share their time.
AcceptedRuns ==
  []NoTies => \A t \in Tasks :
    (Handed(t) /\ ex.task[t].type = "Once") ~> ex.task[t].status = TDone

\* A shutdown ends: after Cancel the executor eventually reports termination.
ShutdownTerminates ==
  []NoTies => (Canceled(ex) ~> ex.status = Terminated)

-----------------------------------------------------------------------------
(* What the documentation says of the executor and the code does not keep.   *)

\* CancelNow "does not wait for running commands to complete" (executors.go):
\* a call of CancelNow returns.
CancelNowReturns ==
  \A c \in Clients : client[c].op \in {"CancelFirst", "CancelNow"} ~> client[c] = Idle

\* Submit "runs the command as soon as possible" (executors.go): a command does
\* not wait for ever in the queue while there is room to run it.
ReadyRuns ==
  \A t \in Tasks :
    (t \in ListElements(ex.queue) /\ ex.task[t].status = TNew /\ canStartNewTask(ex))
      ~> ex.task[t].status # TNew

\* Schedule "runs the command after the given delay" (executors.go).
ScheduledRuns ==
  \A t \in Tasks :
    (Handed(t) /\ ex.task[t].type = "Once") ~> ex.task[t].status = TDone

\* After Cancel "previously submitted commands are executed" and CancelNow returns
\* "all the enqueued commands" (executors.go): an accepted command that did not
\* run and was not cancelled waits in a queue, or was returned.
AcceptedKept ==
  \A t \in Tasks :
    (Handed(t) /\ ex.task[t].status = TNew) => Queued(t) \/ t \in returned
=============================================================================

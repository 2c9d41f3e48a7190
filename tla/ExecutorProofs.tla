--------------------------- MODULE ExecutorProofs ---------------------------
(* Proofs about module Executor, for every set of clients, mix of commands,  *)
(* concurrency, capacity and bound.                                          *)
EXTENDS Executor, FiniteSetTheorems, SequenceTheorems, TLAPS

-----------------------------------------------------------------------------
(* The containers keep their type.                                           *)

\* An insertion into a well typed list leaves it well typed and one longer.
LEMMA ListPushBackType ==
  ASSUME NEW l \in ListType, NEW t \in Tasks
  PROVE  /\ ListPushBack(l, t) \in ListType
         /\ ListPushBack(l, t).len = l.len + 1
<1>1. t # Root /\ t # Nil
  BY ExecutorAssumption DEF Tasks, Root, Nil
<1> DEFINE at == l.prev[Root]
           nx == l.next[at]
<1>2. /\ l.next \in [Tasks \cup {Root} -> Tasks \cup {Root, Nil}] /\ l.next[Root] # Nil
      /\ l.prev \in [Tasks \cup {Root} -> Tasks \cup {Root, Nil}] /\ l.prev[Root] # Nil
      /\ l.len \in Nat
  BY DEF ListType, Pointers
<1>3. at \in Tasks \cup {Root} /\ nx \in Tasks \cup {Root, Nil}
  BY <1>2
<1>4. [l.next EXCEPT ![t] = nx, ![at] = t] \in Pointers
  BY <1>1, <1>2, <1>3 DEF Pointers
<1>5. [l.prev EXCEPT ![t] = at, ![nx] = t] \in Pointers
  BY <1>1, <1>2, <1>3 DEF Pointers
<1> QED
  BY <1>2, <1>4, <1>5 DEF ListType, ListPushBack

\* A removal from a non-empty well typed list leaves it well typed, and it
\* shortens the list by one or not at all.
LEMMA ListRemoveType ==
  ASSUME NEW l \in ListType, NEW t \in Tasks, l.len # 0
  PROVE  /\ ListRemove(l, t) \in ListType
         /\ ListRemove(l, t).len \in {l.len, l.len - 1}
<1>1. t # Root /\ t # Nil
  BY ExecutorAssumption DEF Tasks, Root, Nil
<1> QED
  BY <1>1 DEF ListType, Pointers, ListRemove, ListOwns

\* Init empties a well typed list.
LEMMA ListInitType ==
  ASSUME NEW l \in ListType
  PROVE  ListInit(l) \in ListType /\ ListInit(l).len = 0
<1>1. Root # Nil
  BY DEF Root, Nil
<1> QED
  BY <1>1 DEF ListType, Pointers, ListInit

\* A part of a sequence is a sequence over the same set, of the length asked for.
LEMMA SubSeqType ==
  ASSUME NEW S, NEW s \in Seq(S), NEW m \in Nat \ {0}, NEW n \in 0 .. Len(s)
  PROVE  /\ SubSeq(s, m, n) \in Seq(S)
         /\ Len(SubSeq(s, m, n)) = IF m <= n THEN n - m + 1 ELSE 0
<1>1. m \in Int /\ n \in Int
  OBVIOUS
<1>2. \A i \in m .. n : s[i] \in S
  BY ElementOfSeq
<1> QED
  BY <1>1, <1>2, SubSeqProperties

\* A concatenation is a sequence over the same set, as long as its parts.
LEMMA ConcatType ==
  ASSUME NEW S, NEW a \in Seq(S), NEW b \in Seq(S)
  PROVE  a \o b \in Seq(S) /\ Len(a \o b) = Len(a) + Len(b)
<1>1. a \o b \in Seq(S)
  OBVIOUS
<1>2. Len(a \o b) = Len(a) + Len(b)
  OBVIOUS
<1> QED
  BY <1>1, <1>2

\* Inserting behind position i keeps the type and adds one to the length.
LEMMA InsertType ==
  ASSUME NEW S, NEW s \in Seq(S), NEW i \in 0 .. Len(s), NEW x \in S
  PROVE  /\ SubSeq(s, 1, i) \o <<x>> \o SubSeq(s, i + 1, Len(s)) \in Seq(S)
         /\ Len(SubSeq(s, 1, i) \o <<x>> \o SubSeq(s, i + 1, Len(s))) = Len(s) + 1
<1> DEFINE a == SubSeq(s, 1, i)
           b == SubSeq(s, i + 1, Len(s))
<1>1. Len(s) \in Nat /\ i \in Nat /\ i + 1 \in Nat \ {0} /\ Len(s) \in 0 .. Len(s)
  OBVIOUS
<1>2. a \in Seq(S) /\ Len(a) = i
  BY <1>1, SubSeqType
<1>3. b \in Seq(S) /\ Len(b) = Len(s) - i
  BY <1>1, SubSeqType
<1> HIDE DEF a, b
<1>4. a \o <<x>> \in Seq(S) /\ Len(a \o <<x>>) = i + 1
  BY <1>1, <1>2
<1> DEFINE c == a \o <<x>>
<1> HIDE DEF c
<1>5. c \o b \in Seq(S) /\ Len(c \o b) = Len(c) + Len(b)
  BY <1>3, <1>4, ConcatType DEF c
<1>6. Len(c) + Len(b) = Len(s) + 1
  BY <1>1, <1>3, <1>4 DEF c
<1>7. c \o b \in Seq(S) /\ Len(c \o b) = Len(s) + 1
  BY <1>5, <1>6
<1> QED
  BY ONLY <1>7 DEF a, b, c

\* Taking out position i keeps the type and shortens the sequence by one.
LEMMA RemoveType ==
  ASSUME NEW S, NEW s \in Seq(S), NEW i \in 1 .. Len(s)
  PROVE  /\ SubSeq(s, 1, i - 1) \o SubSeq(s, i + 1, Len(s)) \in Seq(S)
         /\ Len(SubSeq(s, 1, i - 1) \o SubSeq(s, i + 1, Len(s))) = Len(s) - 1
<1> DEFINE a == SubSeq(s, 1, i - 1)
           b == SubSeq(s, i + 1, Len(s))
<1>1. Len(s) \in Nat /\ i - 1 \in 0 .. Len(s) /\ i + 1 \in Nat \ {0} /\ Len(s) \in 0 .. Len(s)
  OBVIOUS
<1>2. a \in Seq(S) /\ Len(a) = i - 1
  BY <1>1, SubSeqType
<1>3. b \in Seq(S) /\ Len(b) = Len(s) - i
  BY <1>1, SubSeqType
<1> HIDE DEF a, b
<1>4. a \o b \in Seq(S) /\ Len(a \o b) = Len(a) + Len(b)
  BY <1>2, <1>3, ConcatType
<1>5. Len(a) + Len(b) = Len(s) - 1
  BY <1>1, <1>2, <1>3
<1>6. a \o b \in Seq(S) /\ Len(a \o b) = Len(s) - 1
  BY <1>4, <1>5
<1> QED
  BY ONLY <1>6 DEF a, b

\* Pushing on the scheduled queue makes it one longer and changes nothing else.
LEMMA SchedulePushType ==
  ASSUME NEW e \in ExType, NEW t \in Tasks
  PROVE  \E s \in Seq(Tasks) : /\ SchedulePush(e, t) = [e EXCEPT !.scheduledQueue = s]
                               /\ Len(s) = Len(e.scheduledQueue) + 1
<1> DEFINE s == e.scheduledQueue
           D == {j \in DOMAIN s : e.task[s[j]].nextRun <= e.task[t].nextRun}
           i == Cardinality(D)
           r == SubSeq(s, 1, i) \o <<t>> \o SubSeq(s, i + 1, Len(s))
<1>1. s \in Seq(Tasks) /\ Len(s) \in Nat /\ DOMAIN s = 1 .. Len(s)
  BY DEF ExType
<1>2. IsFiniteSet(1 .. Len(s)) /\ Cardinality(1 .. Len(s)) = Len(s)
  BY <1>1, FS_Interval
<1>3. IsFiniteSet(D) /\ i <= Len(s)
  BY <1>1, <1>2, FS_Subset
<1>4. i \in Nat
  BY <1>3, FS_CardinalityType
<1> HIDE DEF i, D, s
<1>5. i \in 0 .. Len(s)
  BY <1>1, <1>3, <1>4
<1>7. r \in Seq(Tasks) /\ Len(r) = Len(s) + 1
  BY <1>1, <1>5, InsertType, Zenon
<1>8. SchedulePush(e, t) = [e EXCEPT !.scheduledQueue = r]
  BY DEF SchedulePush, s, i, D
<1> QED
  BY <1>7, <1>8 DEF s

\* Removing from the scheduled queue changes nothing else and never lengthens it.
LEMMA ScheduleRemoveType ==
  ASSUME NEW e \in ExType, NEW t \in Tasks
  PROVE  \E s \in Seq(Tasks) : /\ ScheduleRemove(e, t) = [e EXCEPT !.scheduledQueue = s]
                               /\ Len(s) <= Len(e.scheduledQueue)
<1> DEFINE s  == e.scheduledQueue
           at == {i \in DOMAIN s : s[i] = t}
           i  == CHOOSE j \in at : TRUE
           r  == SubSeq(s, 1, i - 1) \o SubSeq(s, i + 1, Len(s))
<1>1. s \in Seq(Tasks) /\ Len(s) \in Nat /\ DOMAIN s = 1 .. Len(s)
  BY DEF ExType
<1>2. CASE at = {}
  <2>1. ScheduleRemove(e, t) = e /\ e = [e EXCEPT !.scheduledQueue = s]
    BY <1>2 DEF ScheduleRemove, ExType
  <2> QED
    BY <1>1, <2>1
<1>3. CASE at # {}
  <2>1. i \in 1 .. Len(s)
    BY <1>1, <1>3
  <2> HIDE DEF i
  <2>4. r \in Seq(Tasks) /\ Len(r) = Len(s) - 1
    BY <1>1, <2>1, RemoveType
  <2>5. ScheduleRemove(e, t) = [e EXCEPT !.scheduledQueue = r]
    BY <1>3 DEF ScheduleRemove, i
  <2>6. Len(r) <= Len(s)
    BY <1>1, <2>4
  <2> HIDE DEF r
  <2> QED
    BY <2>4, <2>5, <2>6, Zenon
<1> QED
  BY <1>2, <1>3

-----------------------------------------------------------------------------
(* What a handler may do to the tasks: nothing that the invariants read, or  *)
(* start exactly one of them.                                                *)

SameTask(a, b) ==
  /\ b.goroutine = a.goroutine /\ b.status = a.status
  /\ b.canceled = a.canceled /\ b.nextRun = a.nextRun

SameLoop(e, f) == f.status = e.status /\ f.loop = e.loop /\ f.concurrency = e.concurrency

NoStart(e, f) ==
  /\ SameLoop(e, f) /\ f.running = e.running
  /\ \A t \in Tasks : SameTask(e.task[t], f.task[t])

OneStart(e, f) ==
  /\ SameLoop(e, f) /\ f.running = e.running + 1
  /\ canStartNewTask(e)
  /\ \E u \in Tasks :
       /\ e.task[u].status = TNew /\ f.task[u].status = TRunning
       /\ f.task[u].goroutine = "executing"
       /\ f.task[u].canceled = e.task[u].canceled
       /\ f.task[u].nextRun <= now
       /\ \A t \in Tasks \ {u} : SameTask(e.task[t], f.task[t])

Launch(e, f) == f \in ExType /\ (NoStart(e, f) \/ OneStart(e, f))

\* What the action properties ask of the tasks a step starts.
StartsOK(e, f) ==
  \A u \in Tasks :
    (e.task[u].goroutine # "executing" /\ f.task[u].goroutine = "executing")
    => /\ f.concurrency < 0 \/ f.running <= f.concurrency
       /\ ~e.task[u].canceled
       /\ f.task[u].nextRun <= now

\* Two steps that start nothing start nothing together.
LEMMA NoStartTransitive ==
  ASSUME NEW e, NEW f, NEW g, NoStart(e, f), NoStart(f, g)
  PROVE  NoStart(e, g)
BY DEF NoStart, SameLoop, SameTask

\* A launch may follow a step that starts nothing.
LEMMA LaunchAfterNoStart ==
  ASSUME NEW e, NEW f, NEW g, NoStart(e, f), Launch(f, g)
  PROVE  Launch(e, g)
BY DEF Launch, NoStart, OneStart, SameLoop, SameTask, canStartNewTask

\* A launch may be followed by a step that starts nothing.
LEMMA NoStartAfterLaunch ==
  ASSUME NEW e, NEW f, NEW g \in ExType, Launch(e, f), NoStart(f, g)
  PROVE  Launch(e, g)
BY DEF Launch, NoStart, OneStart, SameLoop, SameTask, canStartNewTask

\* Re-arming the timer touches the timer only.
LEMMA TimerNoStart ==
  ASSUME NEW e \in ExType
  PROVE  /\ configureSchedulerTimer(e) \in ExType
         /\ NoStart(e, configureSchedulerTimer(e))
<1>1. CASE e.scheduledQueue = <<>>
  BY <1>1 DEF configureSchedulerTimer, NoStart, SameLoop, SameTask
<1>2. CASE e.scheduledQueue # <<>>
  <2>1. Head(e.scheduledQueue) \in Tasks
    BY <1>2 DEF ExType
  <2>2. e.task[Head(e.scheduledQueue)].nextRun \in Nat
    BY <2>1 DEF ExType, TaskType
  <2> QED
    BY <1>2, <2>2 DEF configureSchedulerTimer, NoStart, SameLoop, SameTask, ExType
<1> QED
  BY <1>1, <1>2

\* Replacing one task's record by another keeps the executor well typed.
LEMMA TaskUpdateType ==
  ASSUME NEW e \in ExType, NEW t \in Tasks, NEW r \in TaskType
  PROVE  [e EXCEPT !.task[t] = r] \in ExType
BY DEF ExType

\* Neither do the operations on the two queues start anything.
LEMMA SchedulePushNoStart ==
  ASSUME NEW e \in ExType, NEW t \in Tasks
  PROVE  SchedulePush(e, t) \in ExType /\ NoStart(e, SchedulePush(e, t))
<1>1. PICK s \in Seq(Tasks) : SchedulePush(e, t) = [e EXCEPT !.scheduledQueue = s]
  BY SchedulePushType
<1> QED
  BY <1>1 DEF NoStart, SameLoop, SameTask, ExType

\* Replacing the list of ready tasks starts nothing.
LEMMA QueueNoStart ==
  ASSUME NEW e \in ExType, NEW q \in ListType
  PROVE  [e EXCEPT !.queue = q] \in ExType /\ NoStart(e, [e EXCEPT !.queue = q])
BY DEF NoStart, SameLoop, SameTask, ExType

\* Nor does recording or clearing the queue elements a task remembers.
LEMMA ElementsNoStart ==
  ASSUME NEW e \in ExType, NEW t \in Tasks, NEW b \in BOOLEAN
  PROVE  /\ [e EXCEPT !.task[t].sQueueElement = b] \in ExType
         /\ NoStart(e, [e EXCEPT !.task[t].sQueueElement = b])
         /\ [e EXCEPT !.task[t].queueElement = b] \in ExType
         /\ NoStart(e, [e EXCEPT !.task[t].queueElement = b])
<1>1. e.task[t] \in TaskType
  BY DEF ExType
<1>2. [e.task[t] EXCEPT !.sQueueElement = b] \in TaskType
  BY <1>1 DEF TaskType
<1>3. [e.task[t] EXCEPT !.queueElement = b] \in TaskType
  BY <1>1 DEF TaskType
<1>4. [e EXCEPT !.task[t].sQueueElement = b] \in ExType
  BY <1>2, TaskUpdateType
<1>5. [e EXCEPT !.task[t].queueElement = b] \in ExType
  BY <1>3, TaskUpdateType
<1>6. NoStart(e, [e EXCEPT !.task[t].sQueueElement = b])
  BY <1>1 DEF NoStart, SameLoop, SameTask, ExType, TaskType
<1>7. NoStart(e, [e EXCEPT !.task[t].queueElement = b])
  BY <1>1 DEF NoStart, SameLoop, SameTask, ExType, TaskType
<1> QED
  BY <1>4, <1>5, <1>6, <1>7

\* executeTask starts the task only if it is New and due.
LEMMA ExecuteLaunch ==
  ASSUME NEW e \in ExType, NEW t \in Tasks, now \in Nat, canStartNewTask(e)
  PROVE  Launch(e, executeTask(e, t))
<1>1. CASE e.task[t].status # TNew \/ Delay(e, t) > 0
  BY <1>1 DEF executeTask, Launch, NoStart, SameLoop, SameTask
<1>2. CASE ~(e.task[t].status # TNew \/ Delay(e, t) > 0)
  <2> DEFINE f == executeTask(e, t)
  <2>1. f = [e EXCEPT !.running = @ + 1,
                      !.task[t] = [@ EXCEPT !.status = TRunning, !.goroutine = "executing"]]
    BY <1>2 DEF executeTask
  <2>2. e.task[t] \in TaskType /\ e.task[t].nextRun <= now
    BY <1>2 DEF Delay, ExType, TaskType
  <2>3. f \in ExType
    <3> DEFINE r == [e.task[t] EXCEPT !.status = TRunning, !.goroutine = "executing"]
    <3>1. TRunning \in TNew .. TDone
      BY DEF TRunning, TNew, TDone
    <3>2. r \in TaskType
      BY <2>2, <3>1 DEF TaskType
    <3>3. e.running + 1 \in Nat
      BY DEF ExType
    <3>4. f = [e EXCEPT !.running = e.running + 1, !.task[t] = r]
      BY <2>1 DEF ExType
    <3> HIDE DEF r
    <3>5. [e.task EXCEPT ![t] = r] \in [Tasks -> TaskType]
      BY <3>2 DEF ExType
    <3> HIDE DEF f
    <3> QED
      BY <3>3, <3>4, <3>5 DEF ExType
  <2>4. SameLoop(e, f) /\ f.running = e.running + 1
    BY <2>1 DEF SameLoop, ExType
  <2>5. /\ f.task[t].status = TRunning /\ f.task[t].goroutine = "executing"
        /\ f.task[t].canceled = e.task[t].canceled
        /\ f.task[t].nextRun <= now
        /\ \A u \in Tasks \ {t} : SameTask(e.task[u], f.task[u])
    BY <2>1, <2>2 DEF ExType, TaskType, SameTask
  <2> QED
    BY <1>2, <2>3, <2>4, <2>5 DEF Launch, OneStart
<1> QED
  BY <1>1, <1>2

\* tryExecuteTask starts its task, within the limit and when due, or nothing.
LEMMA TryExecuteLaunch ==
  ASSUME NEW e \in ExType, NEW t \in Tasks, now \in Nat
  PROVE  Launch(e, tryExecuteTask(e, t))
<1>1. CASE e.task[t].status # TNew
  BY <1>1 DEF tryExecuteTask, Launch, NoStart, SameLoop, SameTask
<1>2. CASE e.task[t].status = TNew /\ Delay(e, t) > 0
  <2> DEFINE f == SchedulePush(e, t)
             g == [f EXCEPT !.task[t].sQueueElement = TRUE]
             h == configureSchedulerTimer(g)
  <2>1. tryExecuteTask(e, t) = h
    BY <1>2 DEF tryExecuteTask
  <2>2. f \in ExType /\ NoStart(e, f)
    BY SchedulePushNoStart
  <2> HIDE DEF f
  <2>3. g \in ExType /\ NoStart(f, g)
    BY <2>2, ElementsNoStart
  <2> HIDE DEF g
  <2>4. h \in ExType /\ NoStart(g, h)
    BY <2>3, TimerNoStart
  <2> HIDE DEF h
  <2>5. NoStart(e, g)
    BY <2>2, <2>3, NoStartTransitive
  <2>6. NoStart(e, h)
    BY <2>4, <2>5, NoStartTransitive
  <2> QED
    BY <2>1, <2>4, <2>6 DEF Launch
<1>3. CASE e.task[t].status = TNew /\ Delay(e, t) <= 0 /\ ~canStartNewTask(e)
  <2> DEFINE q == ListPushBack(e.queue, t)
             f == [e EXCEPT !.queue = q]
             g == [f EXCEPT !.task[t].queueElement = TRUE]
  <2>1. tryExecuteTask(e, t) = g
    BY <1>3 DEF tryExecuteTask, Delay, ExType, TaskType
  <2>2. q \in ListType
    BY ListPushBackType DEF ExType
  <2> HIDE DEF q
  <2>3. f \in ExType /\ NoStart(e, f)
    BY <2>2, QueueNoStart
  <2> HIDE DEF f
  <2>4. g \in ExType /\ NoStart(f, g)
    BY <2>3, ElementsNoStart
  <2> HIDE DEF g
  <2> QED
    BY <2>1, <2>3, <2>4, NoStartTransitive DEF Launch
<1>4. CASE e.task[t].status = TNew /\ ~(Delay(e, t) > 0) /\ canStartNewTask(e)
  <2>1. tryExecuteTask(e, t) = executeTask(e, t)
    BY <1>4 DEF tryExecuteTask
  <2> QED
    BY <1>4, <2>1, ExecuteLaunch
<1>5. Delay(e, t) \in Int
  BY DEF Delay, ExType, TaskType
<1> QED
  BY <1>1, <1>2, <1>3, <1>4, <1>5

-----------------------------------------------------------------------------
(* The invariant through the helpers of the loop.                            *)

\* Finitely many tasks have a goroutine.
LEMMA BusyFinite ==
  ASSUME NEW e
  PROVE  IsFiniteSet(Busy(e)) /\ Cardinality(Busy(e)) \in Nat
<1>1. IsFiniteSet(Tasks)
  BY ExecutorAssumption, FS_Interval DEF Tasks
<1>2. Busy(e) \subseteq Tasks
  BY DEF Busy
<1> QED
  BY <1>1, <1>2, FS_Subset, FS_CardinalityType

\* A start adds the task to those that have a goroutine: it had none, since it
\* was New.  This is where counting and status meet.
LEMMA LaunchInv ==
  ASSUME NEW e, NEW f, EInv(e), e.status # Terminated, Launch(e, f)
  PROVE  EInv(f) /\ StartsOK(e, f)
<1>1. f \in ExType /\ e \in ExType
  BY DEF Launch, EInv
<1>2. CASE NoStart(e, f)
  <2>1. Busy(f) = Busy(e)
    BY <1>2 DEF Busy, NoStart, SameTask
  <2>2. StartsOK(e, f)
    BY <1>2 DEF StartsOK, NoStart, SameTask
  <2> QED
    BY <1>1, <1>2, <2>1, <2>2 DEF EInv, NoStart, SameLoop, SameTask
<1>3. CASE OneStart(e, f)
  <2>1. PICK u \in Tasks :
           /\ e.task[u].status = TNew /\ f.task[u].status = TRunning
           /\ f.task[u].goroutine = "executing"
           /\ f.task[u].canceled = e.task[u].canceled
           /\ f.task[u].nextRun <= now
           /\ \A t \in Tasks \ {u} : SameTask(e.task[t], f.task[t])
    BY <1>3 DEF OneStart
  <2>2. u \notin Busy(e) /\ Busy(f) = Busy(e) \cup {u}
    BY <2>1 DEF EInv, Busy, SameTask
  <2>3. Cardinality(Busy(f)) = Cardinality(Busy(e)) + 1
    BY <2>2, BusyFinite, FS_AddElement
  <2>4. f.running = Cardinality(Busy(f))
    BY <1>3, <2>3 DEF EInv, OneStart
  <2>5. ~e.task[u].canceled
    BY <2>1 DEF EInv, TNew, TCancelling
  <2>6. \A t \in Tasks : /\ f.task[t].goroutine # "none" => f.task[t].status # TNew
                         /\ f.task[t].canceled => f.task[t].status >= TCancelling
    BY <2>1, <2>5 DEF EInv, SameTask, TNew, TRunning
  <2>7. f.status = e.status /\ f.loop = e.loop
    BY <1>3 DEF OneStart, SameLoop
  <2>8. EInv(f)
    BY <1>1, <2>4, <2>6, <2>7 DEF EInv
  <2>9. f.concurrency < 0 \/ f.running <= f.concurrency
    BY <1>1, <1>3 DEF OneStart, SameLoop, canStartNewTask, ExType
  <2> QED
    BY <2>1, <2>5, <2>8, <2>9 DEF StartsOK, SameTask
<1> QED
  BY <1>2, <1>3 DEF Launch

\* tryRunNextTask: it ends the executor only when nothing runs or waits.
LEMMA TryRunNextInv ==
  ASSUME NEW e, EInv(e), e.status # Terminated, now \in Nat
  PROVE  EInv(tryRunNextTask(e)) /\ StartsOK(e, tryRunNextTask(e))
<1> DEFINE f == tryRunNextTask(e)
           front == ListFront(e.queue)
<1> SUFFICES EInv(f) /\ StartsOK(e, f)
  OBVIOUS
<1>1. e \in ExType
  BY DEF EInv
<1>2. CASE f = e
  BY <1>2 DEF StartsOK
<1>3. CASE QueueLength(e) = 0 /\ Canceled(e) /\ e.running > 0
  <2>1. f = [e EXCEPT !.status = WaitingTermination]
    BY <1>3 DEF tryRunNextTask, RunFront, Terminate
  <2>2. f \in ExType /\ f.status # Terminated
    BY <1>1, <2>1 DEF ExType, WaitingTermination, Running, Terminated
  <2>3. Busy(f) = Busy(e) /\ f.loop = e.loop /\ f.running = e.running /\ f.task = e.task
    BY <1>1, <2>1 DEF Busy, ExType
  <2> HIDE DEF f
  <2> QED
    BY <2>2, <2>3 DEF EInv, StartsOK
<1>4. CASE QueueLength(e) = 0 /\ Canceled(e) /\ ~(e.running > 0)
  <2>1. f = [e EXCEPT !.status = Terminated, !.loop = "exited"]
    BY <1>4 DEF tryRunNextTask, RunFront, Terminate
  <2> HIDE DEF f
  <2>2. f \in ExType /\ f.status = Terminated /\ f.loop = "exited"
    <3>1. Terminated \in Running .. Terminated
      BY DEF Running, Terminated
    <3> QED
      BY <1>1, <2>1, <3>1 DEF ExType
  <2>3. /\ Busy(f) = Busy(e) /\ f.running = e.running /\ f.task = e.task
        /\ QueueLength(f) = QueueLength(e)
    BY <1>1, <2>1 DEF Busy, ExType, QueueLength
  <2>4. e.running = 0
    BY <1>1, <1>4 DEF ExType
  <2> QED
    BY <1>4, <2>2, <2>3, <2>4 DEF EInv, StartsOK
<1>5. CASE e.queue.len # 0 /\ front \notin Tasks /\ f # e
  <2>1. CASE f = [e EXCEPT !.loop = "crashed"]
    <3>1. f \in ExType /\ f.status # Terminated /\ f.loop # "exited"
      BY <1>1, <2>1 DEF ExType
    <3>2. Busy(f) = Busy(e) /\ f.running = e.running /\ f.task = e.task
      BY <1>1, <2>1 DEF Busy, ExType
    <3> HIDE DEF f
    <3> QED
      BY <3>1, <3>2 DEF EInv, StartsOK
  <2>2. QueueLength(e) # 0
    BY <1>1, <1>5 DEF QueueLength, ExType, ListType
  <2> QED
    BY <1>5, <2>1, <2>2 DEF tryRunNextTask, RunFront, Terminate
<1>6. CASE e.queue.len # 0 /\ front \in Tasks /\ f # e
  <2> DEFINE q == ListRemove(e.queue, front)
             g == [e EXCEPT !.queue = q]
             h == [g EXCEPT !.task[front].queueElement = FALSE]
  <2>1. QueueLength(e) # 0
    BY <1>1, <1>6 DEF QueueLength, ExType, ListType
  <2>2. f = tryExecuteTask(h, front)
    BY <1>6, <2>1 DEF tryRunNextTask, RunFront, Terminate
  <2>3. q \in ListType
    BY <1>1, <1>6, ListRemoveType DEF ExType
  <2> HIDE DEF q
  <2>4. g \in ExType /\ NoStart(e, g)
    BY <1>1, <2>3, QueueNoStart
  <2> HIDE DEF g
  <2>5. h \in ExType /\ NoStart(g, h)
    BY <1>6, <2>4, ElementsNoStart
  <2> HIDE DEF h
  <2>6. NoStart(e, h)
    BY <2>4, <2>5, NoStartTransitive
  <2>7. Launch(h, f)
    BY <1>6, <2>2, <2>5, TryExecuteLaunch
  <2>8. Launch(e, f)
    BY <2>6, <2>7, LaunchAfterNoStart
  <2> QED
    BY <2>8, LaunchInv
<1>7. e.queue.len \in Nat /\ Len(e.scheduledQueue) \in Nat
  BY <1>1 DEF ExType, ListType
<1>8. CASE e.queue.len = 0 /\ ~(QueueLength(e) = 0 /\ Canceled(e))
  BY <1>2, <1>8 DEF tryRunNextTask, RunFront, Terminate
<1> QED
  BY <1>2, <1>3, <1>4, <1>5, <1>6, <1>7, <1>8 DEF QueueLength

-----------------------------------------------------------------------------
(* The invariant through the event handlers.                                 *)

\* A change of one task's record that leaves its goroutine alone keeps the
\* invariant if the new status fits.
LEMMA TaskUpdateInv ==
  ASSUME NEW e, EInv(e), NEW t \in Tasks, NEW r \in TaskType,
         (r.goroutine = "none") <=> (e.task[t].goroutine = "none"),
         r.goroutine # "none" => r.status # TNew,
         r.canceled => r.status >= TCancelling
  PROVE  EInv([e EXCEPT !.task[t] = r])
<1> DEFINE f == [e EXCEPT !.task[t] = r]
<1>1. e \in ExType
  BY DEF EInv
<1>2. f \in ExType
  BY <1>1, TaskUpdateType
<1>3. /\ f.running = e.running /\ f.status = e.status /\ f.loop = e.loop
      /\ QueueLength(f) = QueueLength(e)
      /\ \A u \in Tasks : f.task[u] = IF u = t THEN r ELSE e.task[u]
  BY <1>1 DEF ExType, QueueLength
<1> HIDE DEF f
<1>4. Busy(f) = Busy(e)
  BY <1>3 DEF Busy
<1>5. EInv(f)
  BY <1>2, <1>3, <1>4 DEF EInv
<1> QED
  BY <1>5 DEF f

\* A completion gives the running slot back and takes the goroutine away.
LEMMA ReleaseInv ==
  ASSUME NEW e, EInv(e), e.status # Terminated, NEW t \in Tasks,
         e.task[t].goroutine = "completing"
  PROVE  EInv([e EXCEPT !.running = @ - 1, !.task[t].goroutine = "none"])
<1> DEFINE f == [e EXCEPT !.running = @ - 1, !.task[t].goroutine = "none"]
           r == [e.task[t] EXCEPT !.goroutine = "none"]
<1>1. e \in ExType /\ e.task[t] \in TaskType
  BY DEF EInv, ExType
<1>2. t \in Busy(e)
  BY DEF Busy
<1>3. Cardinality(Busy(e) \ {t}) = Cardinality(Busy(e)) - 1
  BY <1>2, BusyFinite, FS_RemoveElement
<1>4. IsFiniteSet(Busy(e) \ {t}) /\ Cardinality(Busy(e) \ {t}) \in Nat
  BY BusyFinite, FS_RemoveElement, FS_CardinalityType
<1>5. e.running - 1 \in Nat
  BY <1>3, <1>4 DEF EInv
<1>6. r \in TaskType /\ r.goroutine = "none" /\ r.status = e.task[t].status
      /\ r.canceled = e.task[t].canceled
  BY <1>1 DEF TaskType
<1>7. f = [e EXCEPT !.running = e.running - 1, !.task[t] = r]
  BY <1>1 DEF ExType
<1> HIDE DEF r, f
<1>8. f \in ExType
  <2>1. [e.task EXCEPT ![t] = r] \in [Tasks -> TaskType]
    BY <1>1, <1>6 DEF ExType
  <2> QED
    BY <1>1, <1>5, <1>7, <2>1 DEF ExType
<1>9. /\ f.running = e.running - 1 /\ f.status = e.status /\ f.loop = e.loop
      /\ \A u \in Tasks : f.task[u] = IF u = t THEN r ELSE e.task[u]
  BY <1>1, <1>7 DEF ExType
<1>10. Busy(f) = Busy(e) \ {t}
  BY <1>6, <1>9 DEF Busy
<1>11. EInv(f)
  BY <1>3, <1>6, <1>8, <1>9, <1>10 DEF EInv
<1> QED
  BY <1>11 DEF f

\* setDone with one of the errors it is called with.
LEMMA SetDoneInv ==
  ASSUME NEW e, EInv(e), NEW t \in Tasks, NEW err \in Errs
  PROVE  /\ EInv(setDone(e, t, err))
         /\ setDone(e, t, err).status = e.status /\ setDone(e, t, err).loop = e.loop
         /\ \A u \in Tasks : /\ setDone(e, t, err).task[u].goroutine = e.task[u].goroutine
                             /\ setDone(e, t, err).task[u].canceled = e.task[u].canceled
<1>1. CASE e.task[t].status = TDone
  BY <1>1 DEF setDone
<1>2. CASE e.task[t].status # TDone
  <2> DEFINE r == [e.task[t] EXCEPT !.status = TDone, !.err = err]
  <2>1. e \in ExType /\ e.task[t] \in TaskType
    BY DEF EInv, ExType
  <2>2. setDone(e, t, err) = [e EXCEPT !.task[t] = r]
    BY <1>2, <2>1 DEF setDone, ExType
  <2>3. TDone \in TNew .. TDone /\ TDone >= TCancelling /\ TDone # TNew
    BY DEF TDone, TNew, TCancelling
  <2>4. r \in TaskType /\ r.goroutine = e.task[t].goroutine /\ r.status = TDone
        /\ r.canceled = e.task[t].canceled
    BY <2>1, <2>3 DEF TaskType
  <2> HIDE DEF r
  <2>5. EInv(setDone(e, t, err))
    BY <2>2, <2>3, <2>4, TaskUpdateInv
  <2> QED
    BY <2>1, <2>2, <2>4, <2>5 DEF ExType
<1> QED
  BY <1>1, <1>2

\* Operations that start nothing keep the invariant.
LEMMA NoStartInv ==
  ASSUME NEW e, EInv(e), e.status # Terminated, NEW f \in ExType, NoStart(e, f)
  PROVE  EInv(f)
BY LaunchInv DEF Launch

\* A periodic task that was not cancelled goes back to New: it has no goroutine.
LEMMA RescheduleInv ==
  ASSUME NEW e, EInv(e), e.status # Terminated, NEW t \in Tasks, now \in Nat,
         e.task[t].goroutine = "none", ~e.task[t].canceled
  PROVE  /\ EInv(Reschedule(e, t))
         /\ Reschedule(e, t).status # Terminated
         /\ \A u \in Tasks : /\ Reschedule(e, t).task[u].goroutine = e.task[u].goroutine
                             /\ Reschedule(e, t).task[u].canceled = e.task[u].canceled
<1> DEFINE next == (IF e.task[t].type = "FixedDelay" THEN now ELSE e.task[t].nextRun)
                   + e.task[t].delay
           r == [e.task[t] EXCEPT !.status = TNew, !.nextRun = next]
           n == configureNextRun(e, t)
           f == Reschedule(e, t)
<1>1. e \in ExType /\ e.task[t] \in TaskType
  BY DEF EInv, ExType
<1>2. n = [e EXCEPT !.task[t] = r]
  BY <1>1 DEF configureNextRun, ExType, TaskType
<1>3. next \in Nat /\ TNew \in TNew .. TDone
  BY <1>1 DEF TaskType, TNew, TDone
<1> HIDE DEF next
<1>4. /\ r \in TaskType /\ r.goroutine = "none" /\ ~r.canceled
      /\ r.canceled = e.task[t].canceled
  BY <1>1, <1>3 DEF TaskType
<1> HIDE DEF r
<1>5. EInv(n)
  BY <1>2, <1>4, TaskUpdateInv
<1>6. /\ n \in ExType /\ n.status = e.status
      /\ \A u \in Tasks : /\ n.task[u].goroutine = e.task[u].goroutine
                          /\ n.task[u].canceled = e.task[u].canceled
  BY <1>1, <1>2, <1>4, <1>5 DEF EInv, ExType
<1>7. f \in ExType /\ NoStart(n, f)
  <2> HIDE DEF n
  <2>1. CASE Delay(n, t) > 0
    <3> DEFINE s == SchedulePush(n, t)
    <3>1. f = configureSchedulerTimer(s)
      BY <2>1 DEF Reschedule, n
    <3>2. s \in ExType /\ NoStart(n, s)
      BY <1>6, SchedulePushNoStart
    <3> HIDE DEF s
    <3>3. f \in ExType /\ NoStart(s, f)
      BY <3>1, <3>2, TimerNoStart
    <3> QED
      BY <3>2, <3>3, NoStartTransitive
  <2>2. CASE ~(Delay(n, t) > 0)
    <3> DEFINE q == ListPushBack(n.queue, t)
    <3>1. f = [n EXCEPT !.queue = q]
      BY <2>2 DEF Reschedule, n
    <3>2. q \in ListType
      BY <1>6, ListPushBackType DEF ExType
    <3> HIDE DEF q, f
    <3> QED
      BY <1>6, <3>1, <3>2, QueueNoStart
  <2> QED
    BY <2>1, <2>2
<1> HIDE DEF n, f
<1>8. EInv(f)
  BY <1>5, <1>6, <1>7, NoStartInv
<1>9. f.status # Terminated
  BY <1>6, <1>7 DEF NoStart, SameLoop
<1>10. \A u \in Tasks : /\ f.task[u].goroutine = e.task[u].goroutine
                        /\ f.task[u].canceled = e.task[u].canceled
  BY <1>6, <1>7 DEF NoStart, SameTask
<1> QED
  BY <1>8, <1>9, <1>10 DEF f

\* The handler of a completion event keeps the invariant.
LEMMA CompletedInv ==
  ASSUME NEW e, EInv(e), e.status # Terminated, NEW t \in Tasks, now \in Nat,
         e.task[t].goroutine = "completing"
  PROVE  EInv(Completed(e, t)) /\ StartsOK(e, Completed(e, t))
<1> DEFINE d == [e EXCEPT !.running = @ - 1, !.task[t].goroutine = "none"]
           g == Settled(d, t)
           f == tryRunNextTask(g)
<1>1. Completed(e, t) = f
  BY DEF Completed
<1>2. EInv(d)
  BY ReleaseInv
<1>3. e \in ExType /\ e.task[t] \in TaskType
  BY DEF EInv, ExType
<1>4. /\ d.status = e.status /\ d.task[t].goroutine = "none"
      /\ \A u \in Tasks : /\ d.task[u].goroutine = "executing" => e.task[u].goroutine = "executing"
                          /\ d.task[u].canceled = e.task[u].canceled
  BY <1>3 DEF ExType, TaskType
<1> HIDE DEF d
<1>5. /\ EInv(g) /\ g.status # Terminated
      /\ \A u \in Tasks : /\ g.task[u].goroutine = d.task[u].goroutine
                          /\ g.task[u].canceled = d.task[u].canceled
  <2>1. CASE g = d
    BY <1>2, <1>4, <2>1
  <2>2. CASE d.task[t].canceled /\ g = setDone(d, t, "Canceled")
    <3>1. "Canceled" \in Errs
      BY DEF Errs
    <3> QED
      BY <1>2, <1>4, <2>2, <3>1, SetDoneInv
  <2>3. CASE ~d.task[t].canceled /\ g = Reschedule(d, t)
    BY <1>2, <1>4, <2>3, RescheduleInv
  <2> QED
    BY <2>1, <2>2, <2>3 DEF Settled
<1> HIDE DEF g
<1>6. EInv(f) /\ StartsOK(g, f)
  BY <1>5, TryRunNextInv
<1> HIDE DEF f
<1>7. StartsOK(e, f)
  BY <1>4, <1>5, <1>6 DEF StartsOK
<1> QED
  BY <1>1, <1>6, <1>7

\* A cancellation changes the error and the queues.
LEMMA CanceledRemovedInv ==
  ASSUME NEW e, EInv(e), e.status # Terminated, NEW t \in Tasks
  PROVE  EInv(CanceledRemoved(e, t)) /\ StartsOK(e, CanceledRemoved(e, t))
<1> DEFINE r == [e.task[t] EXCEPT !.err = IF @ = "nil" THEN "Canceled" ELSE @]
           f == [e EXCEPT !.task[t] = r]
           g == IF f.task[t].queueElement
                THEN [f EXCEPT !.queue = ListRemove(@, t)] ELSE f
           h == CanceledRemoved(e, t)
<1>1. e \in ExType /\ e.task[t] \in TaskType
  BY DEF EInv, ExType
<1>2. r \in TaskType /\ SameTask(e.task[t], r)
  BY <1>1 DEF TaskType, Errs, SameTask
<1>3. h = IF f.queue.len = 0 THEN f
          ELSE IF g.task[t].sQueueElement THEN ScheduleRemove(g, t) ELSE g
  BY <1>1 DEF CanceledRemoved, ExType
<1> HIDE DEF r
<1>4. f \in ExType /\ NoStart(e, f)
  BY <1>1, <1>2, TaskUpdateType DEF NoStart, SameLoop, SameTask, ExType
<1> HIDE DEF f, h
<1>5. CASE f.queue.len = 0
  <2>1. Launch(e, h)
    BY <1>3, <1>4, <1>5 DEF Launch
  <2> QED
    BY <2>1, LaunchInv DEF h
<1>6. CASE f.queue.len # 0
  <2>1. g \in ExType /\ NoStart(f, g)
    <3>1. CASE f.task[t].queueElement
      <4>1. ListRemove(f.queue, t) \in ListType
        BY <1>4, <1>6, ListRemoveType DEF ExType
      <4> QED
        BY <1>4, <3>1, <4>1, QueueNoStart
    <3>2. CASE ~f.task[t].queueElement
      BY <1>4, <3>2 DEF NoStart, SameLoop, SameTask
    <3> QED
      BY <3>1, <3>2
  <2> HIDE DEF g
  <2>2. h \in ExType /\ NoStart(g, h)
    <3>1. CASE g.task[t].sQueueElement
      <4>1. PICK s \in Seq(Tasks) : h = [g EXCEPT !.scheduledQueue = s]
        BY <1>3, <1>6, <2>1, <3>1, ScheduleRemoveType
      <4> QED
        BY <2>1, <4>1 DEF NoStart, SameLoop, SameTask, ExType
    <3>2. CASE ~g.task[t].sQueueElement
      BY <1>3, <1>6, <2>1, <3>2 DEF NoStart, SameLoop, SameTask
    <3> QED
      BY <3>1, <3>2
  <2>3. NoStart(e, h)
    BY <1>4, <2>1, <2>2, NoStartTransitive
  <2>4. Launch(e, h)
    BY <2>2, <2>3 DEF Launch
  <2> QED
    BY <2>4, LaunchInv DEF h
<1> QED
  BY <1>5, <1>6

\* The handler of the scheduler timer keeps the invariant.
LEMMA TimerFiredInv ==
  ASSUME NEW e, EInv(e), e.status # Terminated, now \in Nat
  PROVE  EInv(TimerFired(e)) /\ StartsOK(e, TimerFired(e))
<1> DEFINE off == [e EXCEPT !.timer = Off]
           f == TimerFired(e)
<1>1. e \in ExType
  BY DEF EInv
<1>2. off \in ExType /\ NoStart(e, off)
  BY <1>1 DEF ExType, NoStart, SameLoop, SameTask
<1>3. Launch(e, f)
  <2>1. CASE e.scheduledQueue = <<>>
    BY <1>2, <2>1 DEF TimerFired, Launch
  <2>2. CASE e.scheduledQueue # <<>>
    <3> DEFINE t == Head(e.scheduledQueue)
               p == [off EXCEPT !.scheduledQueue = Tail(@)]
               w == [p EXCEPT !.task[t].sQueueElement = FALSE]
               x == IF e.task[t].nextRun <= now THEN tryExecuteTask(w, t) ELSE off
    <3>1. f = configureSchedulerTimer(x)
      BY <2>2 DEF TimerFired
    <3>2. t \in Tasks /\ Tail(e.scheduledQueue) \in Seq(Tasks)
      BY <1>1, <2>2 DEF ExType
    <3> HIDE DEF t
    <3>3. off.scheduledQueue = e.scheduledQueue
      BY <1>1 DEF ExType
    <3>4. p \in ExType /\ NoStart(off, p)
      BY <1>2, <3>2, <3>3 DEF ExType, NoStart, SameLoop, SameTask
    <3> HIDE DEF p
    <3>5. w \in ExType /\ NoStart(p, w)
      BY <3>2, <3>4, ElementsNoStart
    <3> HIDE DEF w, off
    <3>6. NoStart(e, w)
      BY <1>2, <3>4, <3>5, NoStartTransitive
    <3>7. Launch(w, tryExecuteTask(w, t))
      BY <3>2, <3>5, TryExecuteLaunch
    <3>8. Launch(e, tryExecuteTask(w, t))
      BY <3>6, <3>7, LaunchAfterNoStart
    <3>9. Launch(e, x)
      BY <1>2, <3>8 DEF Launch
    <3> HIDE DEF x, f
    <3>10. f \in ExType /\ NoStart(x, f)
      BY <3>1, <3>9, TimerNoStart DEF Launch
    <3> QED
      BY <3>9, <3>10, NoStartAfterLaunch
  <2> QED
    BY <2>1, <2>2
<1> QED
  BY <1>3, LaunchInv

\* The handler of Cancel keeps the invariant.
LEMMA CancelEventInv ==
  ASSUME NEW e, EInv(e), e.status # Terminated, now \in Nat
  PROVE  EInv(CancelEvent(e)) /\ StartsOK(e, CancelEvent(e))
<1>1. CASE e.status >= ShuttingDown
  BY <1>1 DEF CancelEvent, StartsOK
<1>2. CASE ~(e.status >= ShuttingDown)
  <2> DEFINE d == [e EXCEPT !.status = ShuttingDown]
  <2>1. CancelEvent(e) = tryRunNextTask(d)
    BY <1>2 DEF CancelEvent
  <2>2. e \in ExType /\ ShuttingDown \in Running .. Terminated /\ ShuttingDown # Terminated
    BY DEF EInv, ShuttingDown, Running, Terminated
  <2>3. /\ d \in ExType /\ d.status # Terminated
        /\ d.task = e.task /\ d.loop = e.loop /\ d.running = e.running
    BY <2>2 DEF ExType
  <2> HIDE DEF d
  <2>4. Busy(d) = Busy(e)
    BY <2>3 DEF Busy
  <2>5. EInv(d)
    BY <2>3, <2>4 DEF EInv
  <2> QED
    BY <2>1, <2>3, <2>5, TryRunNextInv DEF StartsOK
<1> QED
  BY <1>1, <1>2

\* The handler of CancelNow, which empties both queues, keeps the invariant.
LEMMA CancelNowEventInv ==
  ASSUME NEW e, EInv(e), e.status # Terminated, now \in Nat
  PROVE  EInv(CancelNowEvent(e)) /\ StartsOK(e, CancelNowEvent(e))
<1> DEFINE q == ListInit(e.queue)
           s == IF e.status = ShuttingDown THEN WaitingTermination ELSE e.status
           d == [e EXCEPT !.queue = q, !.scheduledQueue = <<>>, !.status = s]
<1>1. e \in ExType
  BY DEF EInv
<1>2. CancelNowEvent(e) = tryRunNextTask(d)
  BY <1>1 DEF CancelNowEvent, ExType
<1>3. q \in ListType
  BY <1>1, ListInitType DEF ExType
<1>4. s \in Running .. Terminated /\ s # Terminated
  BY <1>1 DEF ExType, WaitingTermination, Running, Terminated
<1> HIDE DEF q, s
<1>5. <<>> \in Seq(Tasks)
  OBVIOUS
<1>6. /\ d \in ExType /\ d.status # Terminated
      /\ d.task = e.task /\ d.loop = e.loop /\ d.running = e.running
  BY <1>1, <1>3, <1>4, <1>5 DEF ExType
<1> HIDE DEF d
<1>7. Busy(d) = Busy(e)
  BY <1>6 DEF Busy
<1>8. EInv(d)
  BY <1>6, <1>7 DEF EInv
<1> QED
  BY <1>2, <1>6, <1>8, TryRunNextInv DEF StartsOK

\* A command that returns keeps its goroutine until the loop hears of it.
LEMMA FinishedInv ==
  ASSUME NEW e, EInv(e), NEW t \in Tasks, NEW outcome \in Errs,
         e.task[t].goroutine = "executing"
  PROVE  EInv(Finished(e, t, outcome)) /\ StartsOK(e, Finished(e, t, outcome))
<1> DEFINE d == IF outcome # "nil" \/ ~Periodic(e, t) THEN setDone(e, t, outcome) ELSE e
           r == [d.task[t] EXCEPT !.goroutine = "completing"]
           f == [d EXCEPT !.task[t] = r]
<1>1. /\ EInv(d)
      /\ \A u \in Tasks : /\ d.task[u].goroutine = e.task[u].goroutine
                          /\ d.task[u].canceled = e.task[u].canceled
  BY SetDoneInv
<1>2. d \in ExType /\ d.task[t] \in TaskType
  BY <1>1 DEF EInv, ExType
<1>3. Finished(e, t, outcome) = f
  BY <1>2 DEF Finished, ExType
<1> HIDE DEF d
<1>4. /\ r \in TaskType /\ r.goroutine = "completing"
      /\ r.status = d.task[t].status /\ r.canceled = d.task[t].canceled
  BY <1>2 DEF TaskType
<1> HIDE DEF r
<1>5. EInv(f)
  BY <1>1, <1>4, TaskUpdateInv DEF EInv
<1>6. \A u \in Tasks : f.task[u].goroutine = "executing" => e.task[u].goroutine = "executing"
  BY <1>1, <1>2, <1>4 DEF ExType
<1> QED
  BY <1>3, <1>5, <1>6 DEF StartsOK

-----------------------------------------------------------------------------
(* The specification.                                                        *)

\* A new executor satisfies the inductive invariant.
LEMMA InitInv == Init => IInv
<1> SUFFICES ASSUME Init PROVE IInv
  OBVIOUS
<1>1. NoTask \in TaskType
  BY DEF NoTask, TaskType, Types, Errs, TNew, TDone
<1>2. ListNew(Tasks) \in ListType /\ ListNew(Tasks).len = 0
  BY DEF ListNew, ListType, Pointers, Root, Nil
<1>3. /\ ex.status = Running /\ ex.running = 0 /\ ex.loop = "select"
      /\ \A t \in Tasks : ex.task[t] = NoTask
  BY DEF Init
<1>4. ex \in ExType
  <2>1. Running \in Running .. Terminated /\ <<>> \in Seq(Tasks)
    BY DEF Running, Terminated
  <2> QED
    BY <1>1, <1>2, <2>1, ExecutorAssumption DEF Init, ExType
<1>5. Busy(ex) = {}
  BY <1>3 DEF Busy, NoTask
<1>6. ex.running = Cardinality(Busy(ex))
  BY <1>3, <1>5, FS_EmptySet
<1>7. EInv(ex)
  BY <1>3, <1>4, <1>6 DEF EInv, NoTask, Running, Terminated
<1>8. TypeOK
  <2>1. Idle \in [op : Events, arg : Int] /\ Idle.op \notin {"TaskSubmitted", "TaskCanceled"}
    BY DEF Idle, Events
  <2>2. [c \in Clients |-> Idle] \in [Clients -> [op : Events, arg : Int]]
    BY <2>1
  <2>3. 0 \in 0 .. MaxTasks /\ [spawned |-> 0, sending |-> 0] \in [spawned : Nat, sending : Nat]
    BY ExecutorAssumption
  <2> QED
    BY <1>4, <2>1, <2>2, <2>3 DEF Init, TypeOK
<1> QED
  BY <1>7, <1>8 DEF IInv

\* What changes when the loop takes an event off the channel.
LEMMA TakeType ==
  ASSUME TypeOK, NEW c \in Clients, NEW op \in Events, NEW next,
         next \in {Idle, [op |-> "CancelNow", arg |-> 0]}, Take(c, op, next),
         taskCount' = taskCount
  PROVE  /\ client' \in [Clients -> [op : Events, arg : Int]]
         /\ \A d \in Clients : client'[d].op \in {"TaskSubmitted", "TaskCanceled"}
                                 => client'[d].arg \in 1 .. taskCount'
<1>1. next \in [op : Events, arg : Int] /\ next.op \notin {"TaskSubmitted", "TaskCanceled"}
  BY DEF Idle, Events
<1> QED
  BY <1>1 DEF TypeOK, Take

\* A loop that is at work is not Terminated.
LEMMA AtWork ==
  ASSUME EInv(ex), ex.loop # "exited"
  PROVE  ex.status # Terminated
BY DEF EInv

\* Every step keeps the inductive invariant and starts only what it may.
LEMMA StepInv ==
  ASSUME IInv, [Next]_vars
  PROVE  IInv' /\ StartsOK(ex, ex')
<1> USE DEF IInv
<1>t. /\ ex \in ExType /\ EInv(ex) /\ TypeOK /\ now \in Nat /\ taskCount \in 0 .. MaxTasks
      /\ client \in [Clients -> [op : Events, arg : Int]]
      /\ MaxTasks \in Nat
  BY ExecutorAssumption DEF TypeOK
<1>same. ASSUME ex' = ex PROVE EInv(ex)' /\ StartsOK(ex, ex')
  <2>1. EInv(ex) => EInv(ex')
    BY <1>same
  <2> QED
    BY <1>t, <1>same, <2>1 DEF StartsOK
(* The clients. *)
<1>1. ASSUME NEW c \in Clients, NEW k \in Kinds, Schedule(c, k)
      PROVE  IInv' /\ StartsOK(ex, ex')
  <2> DEFINE t == taskCount + 1
             r == [ex.task[t] EXCEPT !.type = k.type, !.delay = k.delay,
                                     !.nextRun = now + k.initialDelay]
  <2>1. t \in Tasks /\ t \in 1 .. taskCount' /\ taskCount' \in 0 .. MaxTasks
        /\ taskCount' = taskCount + 1
    BY <1>t, <1>1 DEF Schedule, Tasks
  <2>2. ex.task[t] \in TaskType
    BY <1>t, <2>1 DEF ExType
  <2>3. k.type \in Types /\ k.delay \in Nat /\ now + k.initialDelay \in Nat
    BY <1>t, ExecutorAssumption
  <2>4. ex' = [ex EXCEPT !.task[t] = r]
    BY <1>t, <1>1 DEF Schedule, ExType
  <2>5. /\ r \in TaskType /\ r.goroutine = ex.task[t].goroutine
        /\ r.status = ex.task[t].status /\ r.canceled = ex.task[t].canceled
    BY <2>2, <2>3 DEF TaskType
  <2> HIDE DEF r
  <2>6. EInv(ex')
    <3>1. /\ r.goroutine # "none" => r.status # TNew
          /\ r.canceled => r.status >= TCancelling
      BY <1>t, <2>1, <2>5 DEF EInv
    <3> QED
      BY <1>t, <2>1, <2>4, <2>5, <3>1, TaskUpdateInv
  <2>7. StartsOK(ex, ex')
    BY <1>t, <2>1, <2>4, <2>5 DEF StartsOK, ExType
  <2>8. client' = [client EXCEPT ![c] = [op |-> "TaskSubmitted", arg |-> t]]
    BY <1>1 DEF Schedule, Block
  <2>9. [op |-> "TaskSubmitted", arg |-> t] \in [op : Events, arg : Int]
    BY <1>t DEF Events
  <2>10. client' \in [Clients -> [op : Events, arg : Int]]
    BY <1>t, <2>8, <2>9
  <2>11. \A d \in Clients : client'[d].op \in {"TaskSubmitted", "TaskCanceled"}
                              => client'[d].arg \in 1 .. taskCount'
    BY <1>t, <2>1, <2>8 DEF TypeOK
  <2>12. UNCHANGED <<returned, ctxDone, ctxGo, now>>
    BY <1>1 DEF Schedule
  <2>13. TypeOK'
    BY <1>t, <2>1, <2>6, <2>10, <2>11, <2>12 DEF TypeOK, EInv
  <2> QED
    BY <2>6, <2>7, <2>13
<1>2. ASSUME NEW c \in Clients, NEW t \in Tasks, CancelTask(c, t)
      PROVE  IInv' /\ StartsOK(ex, ex')
  <2> DEFINE r == IF ex.task[t].status = TNew
                  THEN [ex.task[t] EXCEPT !.status = TDone, !.err = "Canceled", !.canceled = TRUE]
                  ELSE [ex.task[t] EXCEPT !.status = TCancelling, !.canceled = TRUE]
  <2>1. t \in 1 .. taskCount /\ taskCount' = taskCount
    BY <1>t, <1>2 DEF CancelTask, Handed, Tasks
  <2>2. ex.task[t] \in TaskType
    BY <1>t DEF ExType
  <2>3. ex' = [ex EXCEPT !.task[t] = r]
    BY <1>t, <1>2, <2>2 DEF CancelTask, ExType, TaskType
  <2>4. /\ TDone \in TNew .. TDone /\ TCancelling \in TNew .. TDone
        /\ TDone >= TCancelling /\ TCancelling >= TCancelling
        /\ TDone # TNew /\ TCancelling # TNew /\ "Canceled" \in Errs
    BY DEF TNew, TDone, TCancelling, Errs
  <2>5. /\ r \in TaskType /\ r.goroutine = ex.task[t].goroutine
        /\ r.status \in {TDone, TCancelling}
    BY <2>2, <2>4 DEF TaskType
  <2> HIDE DEF r
  <2>6. EInv(ex')
    BY <1>t, <2>3, <2>4, <2>5, TaskUpdateInv
  <2>7. StartsOK(ex, ex')
    BY <1>t, <2>3, <2>5 DEF StartsOK, ExType
  <2>8. client' = [client EXCEPT ![c] = [op |-> "TaskCanceled", arg |-> t]]
    BY <1>2 DEF CancelTask, Block
  <2>9. [op |-> "TaskCanceled", arg |-> t] \in [op : Events, arg : Int]
    BY DEF Events, Tasks
  <2>10. client' \in [Clients -> [op : Events, arg : Int]]
    BY <1>t, <2>8, <2>9
  <2>11. \A d \in Clients : client'[d].op \in {"TaskSubmitted", "TaskCanceled"}
                              => client'[d].arg \in 1 .. taskCount'
    BY <1>t, <2>1, <2>8 DEF TypeOK
  <2>12. UNCHANGED <<returned, ctxDone, ctxGo, now>>
    BY <1>2 DEF CancelTask
  <2>13. TypeOK'
    BY <1>t, <2>1, <2>6, <2>10, <2>11, <2>12 DEF TypeOK, EInv
  <2> QED
    BY <2>6, <2>7, <2>13
<1>3. ASSUME NEW c \in Clients,
             \/ \E n \in Limits : SetConcurrency(c, n) \/ SetQueueCapacity(c, n)
             \/ Cancel(c) \/ CancelNow(c)
      PROVE  IInv' /\ StartsOK(ex, ex')
  <2>1. PICK n \in Int, op \in {"UpdateConcurrency", "UpdateQueueCapacity", "Cancel",
                                "CancelFirst", "CancelNow"} :
          client' = [client EXCEPT ![c] = [op |-> op, arg |-> n]]
    BY <1>3, ExecutorAssumption DEF SetConcurrency, SetQueueCapacity, Cancel, CancelNow, Block
  <2>2. UNCHANGED <<ex, taskCount, returned, ctxDone, ctxGo, now>>
    BY <1>3 DEF SetConcurrency, SetQueueCapacity, Cancel, CancelNow
  <2>3. EInv(ex)' /\ StartsOK(ex, ex')
    BY <1>same, <2>2
  <2>4. op \in Events /\ op \notin {"TaskSubmitted", "TaskCanceled"}
    BY DEF Events
  <2>5. client' \in [Clients -> [op : Events, arg : Int]]
    BY <1>t, <2>1, <2>4
  <2>6. \A d \in Clients : client'[d].op \in {"TaskSubmitted", "TaskCanceled"}
                             => client'[d].arg \in 1 .. taskCount'
    BY <1>t, <2>1, <2>2, <2>4 DEF TypeOK
  <2>7. TypeOK'
    BY <1>t, <2>2, <2>5, <2>6 DEF TypeOK
  <2> QED
    BY <2>3, <2>7
(* The event loop. *)
<1>4. ASSUME NEW c \in Clients, Receive(c)
      PROVE  IInv' /\ StartsOK(ex, ex')
  <2>1. InSelect /\ UNCHANGED <<taskCount, ctxDone, ctxGo, now>>
    BY <1>4 DEF Receive, TaskSubmitted, TaskCanceled, UpdateConcurrency,
                UpdateQueueCapacity, ExecutorCancel, ExecutorCancelNow, Take
  <2>2. ex.status # Terminated
    BY <1>t, <2>1, AtWork DEF InSelect
  <2>3. /\ client' \in [Clients -> [op : Events, arg : Int]]
        /\ \A d \in Clients : client'[d].op \in {"TaskSubmitted", "TaskCanceled"}
                                => client'[d].arg \in 1 .. taskCount'
    <3>1. PICK op \in Events, next \in {Idle, [op |-> "CancelNow", arg |-> 0]} :
             Take(c, op, next)
      BY <1>4 DEF Receive, TaskSubmitted, TaskCanceled, UpdateConcurrency,
                  UpdateQueueCapacity, ExecutorCancel, ExecutorCancelNow, Events
    <3> QED
      BY <1>t, <2>1, <3>1, TakeType
  <2>4. returned' \subseteq Tasks
    <3>1. ListElements(ex.queue) \subseteq Tasks
      BY <1>t DEF ExType, ListType, Pointers, ListElements
    <3>2. {ex.scheduledQueue[i] : i \in DOMAIN ex.scheduledQueue} \subseteq Tasks
      BY <1>t DEF ExType
    <3> QED
      BY <1>t, <1>4, <3>1, <3>2
         DEF TypeOK, Receive, TaskSubmitted, TaskCanceled, UpdateConcurrency,
             UpdateQueueCapacity, ExecutorCancel, ExecutorCancelNow
  <2>5. EInv(ex') /\ StartsOK(ex, ex')
    <3>1. CASE TaskSubmitted(c)
      <4>1. client[c].arg \in Tasks
        BY <1>t, <3>1 DEF TypeOK, TaskSubmitted, Take, Tasks
      <4>2. Launch(ex, ex')
        BY <1>t, <3>1, <4>1, TryExecuteLaunch DEF TaskSubmitted
      <4> QED
        BY <1>t, <2>2, <4>2, LaunchInv
    <3>2. CASE TaskCanceled(c)
      <4>1. client[c].arg \in Tasks
        BY <1>t, <3>2 DEF TypeOK, TaskCanceled, Take, Tasks
      <4> QED
        BY <1>t, <2>2, <3>2, <4>1, CanceledRemovedInv DEF TaskCanceled
    <3>3. CASE UpdateConcurrency(c) \/ UpdateQueueCapacity(c)
      <4>1. client[c].arg \in Int
        BY <1>t
      <4>2. /\ ex' \in ExType /\ ex'.status = ex.status /\ ex'.loop # "exited"
            /\ ex'.running = ex.running /\ ex'.task = ex.task
        BY <1>t, <2>1, <3>3, <4>1 DEF UpdateConcurrency, UpdateQueueCapacity, ExType, InSelect
      <4>3. Busy(ex') = Busy(ex)
        BY <4>2 DEF Busy
      <4> QED
        BY <1>t, <2>2, <4>2, <4>3 DEF EInv, StartsOK
    <3>4. CASE ExecutorCancel(c)
      BY <1>t, <2>2, <3>4, CancelEventInv DEF ExecutorCancel
    <3>5. CASE ExecutorCancelNow(c)
      <4>1. CASE ex' = ex
        BY <1>same, <4>1
      <4>2. CASE ex' = CancelNowEvent(ex)
        BY <1>t, <2>2, <4>2, CancelNowEventInv
      <4> QED
        BY <3>5, <4>1, <4>2 DEF ExecutorCancelNow
    <3> QED
      BY <1>4, <3>1, <3>2, <3>3, <3>4, <3>5 DEF Receive
  <2>6. TypeOK'
    BY <1>t, <2>1, <2>3, <2>4, <2>5 DEF TypeOK, EInv
  <2> QED
    BY <2>5, <2>6
<1>5. ASSUME \/ \E t \in Tasks : TaskCompleted(t) \/ Finish(t)
             \/ SchedulerTimer \/ Resize
      PROVE  IInv' /\ StartsOK(ex, ex')
  <2>1. UNCHANGED <<taskCount, client, returned, ctxDone, ctxGo, now>>
    BY <1>5 DEF TaskCompleted, Finish, SchedulerTimer, Resize
  <2>2. EInv(ex') /\ StartsOK(ex, ex')
    <3>1. ASSUME NEW t \in Tasks, TaskCompleted(t) PROVE EInv(ex') /\ StartsOK(ex, ex')
      <4>1. ex.status # Terminated
        BY <1>t, <3>1, AtWork DEF TaskCompleted, InSelect
      <4> QED
        BY <1>t, <3>1, <4>1, CompletedInv DEF TaskCompleted
    <3>2. ASSUME NEW t \in Tasks, Finish(t) PROVE EInv(ex') /\ StartsOK(ex, ex')
      <4>1. PICK outcome \in Outcomes : ex' = Finished(ex, t, outcome)
        BY <3>2 DEF Finish
      <4>2. outcome \in Errs
        BY ExecutorAssumption DEF Errs
      <4> QED
        BY <1>t, <3>2, <4>1, <4>2, FinishedInv DEF Finish
    <3>3. CASE SchedulerTimer
      <4>1. ex.status # Terminated
        BY <1>t, <3>3, AtWork DEF SchedulerTimer, InSelect
      <4> QED
        BY <1>t, <3>3, <4>1, TimerFiredInv DEF SchedulerTimer
    <3>4. CASE Resize
      <4>1. ex.status # Terminated
        BY <1>t, <3>4, AtWork DEF Resize
      <4>2. CASE ex' = tryRunNextTask(ex)
        BY <1>t, <4>1, <4>2, TryRunNextInv
      <4>3. CASE ex' = [ex EXCEPT !.loop = "select"]
        <5>1. /\ ex' \in ExType /\ ex'.status = ex.status /\ ex'.loop # "exited"
              /\ ex'.running = ex.running /\ ex'.task = ex.task
          BY <1>t, <4>3 DEF ExType
        <5>2. Busy(ex') = Busy(ex)
          BY <5>1 DEF Busy
        <5> QED
          BY <1>t, <4>1, <5>1, <5>2 DEF EInv, StartsOK
      <4> QED
        BY <3>4, <4>2, <4>3 DEF Resize
    <3> QED
      BY <1>5, <3>1, <3>2, <3>3, <3>4
  <2>3. TypeOK'
    BY <1>t, <2>1, <2>2 DEF TypeOK, EInv
  <2> QED
    BY <2>2, <2>3
<1>6. ASSUME CancelContext \/ ContextDone \/ ContextCancelCall \/ ContextCancel \/ Tick
      PROVE  IInv' /\ StartsOK(ex, ex')
  <2>1. UNCHANGED <<taskCount, client, returned>>
    BY <1>6 DEF CancelContext, ContextDone, ContextCancelCall, ContextCancel, Tick
  <2>2. EInv(ex') /\ StartsOK(ex, ex')
    <3>1. CASE ex' = ex
      BY <1>same, <3>1
    <3>2. CASE ContextCancel
      <4>1. ex.status # Terminated
        BY <1>t, <3>2, AtWork DEF ContextCancel, InSelect
      <4> QED
        BY <1>t, <3>2, <4>1, CancelEventInv DEF ContextCancel
    <3> QED
      BY <1>6, <3>1, <3>2 DEF CancelContext, ContextDone, ContextCancelCall, Tick
  <2>3. ctxDone' \in BOOLEAN /\ now' \in Nat /\ ctxGo' \in [spawned : Nat, sending : Nat]
    <3>1. ctxGo.spawned \in Nat /\ ctxGo.sending \in Nat /\ ctxDone \in BOOLEAN
      BY <1>t DEF TypeOK
    <3>2. ctxDone' \in BOOLEAN /\ now' \in Nat
      <4>1. now' = now \/ now' = now + 1
        BY <1>6 DEF CancelContext, ContextDone, ContextCancelCall, ContextCancel, Tick
      <4>2. ctxDone' = ctxDone \/ ctxDone' = TRUE
        BY <1>6, Zenon DEF CancelContext, ContextDone, ContextCancelCall, ContextCancel, Tick
      <4>3. now' \in Nat
        BY <1>t, <4>1
      <4> QED
        BY <3>1, <4>2, <4>3
    <3>3. CASE ctxGo' = ctxGo
      BY <1>t, <3>2, <3>3 DEF TypeOK
    <3>4. CASE ContextDone
      BY <1>t, <3>1, <3>2, <3>4 DEF TypeOK, ContextDone
    <3>5. CASE ContextCancelCall
      <4>1. ctxGo.spawned - 1 \in Nat /\ ctxGo.sending + (IF Canceled(ex) THEN 0 ELSE 1) \in Nat
        BY <3>1, <3>5 DEF ContextCancelCall
      <4> QED
        BY <3>2, <3>5, <4>1 DEF ContextCancelCall
    <3>6. CASE ContextCancel
      <4>1. ctxGo.sending - 1 \in Nat
        BY <3>1, <3>6 DEF ContextCancel
      <4> QED
        BY <1>t, <3>2, <3>6, <4>1 DEF TypeOK, ContextCancel
    <3> QED
      BY <1>6, <3>3, <3>4, <3>5, <3>6 DEF CancelContext, Tick
  <2>4. TypeOK'
    BY <1>t, <2>1, <2>2, <2>3 DEF TypeOK, EInv
  <2> QED
    BY <2>2, <2>4
<1>7. CASE UNCHANGED vars
  <2>1. EInv(ex') /\ StartsOK(ex, ex')
    BY <1>same, <1>7 DEF vars
  <2>2. TypeOK'
    BY <1>t, <1>7 DEF vars, TypeOK
  <2> QED
    BY <2>1, <2>2
<1> QED
  BY <1>1, <1>2, <1>3, <1>4, <1>5, <1>6, <1>7 DEF Next, ClientCall

-----------------------------------------------------------------------------
(* The theorems.                                                             *)

\* The inductive invariant holds in every state of the executor.
LEMMA InvariantHolds == Spec => []IInv
<1>1. Init => IInv
  BY InitInv
<1>2. IInv /\ [Next]_vars => IInv'
  BY StepInv
<1> QED
  BY <1>1, <1>2, PTL DEF Spec

\* Every variable keeps its type; no handler writes a dangling list element or
\* takes the running counter below zero.
THEOREM TypeCorrect == Spec => []TypeOK
<1>1. IInv => TypeOK
  BY DEF IInv
<1> QED
  BY <1>1, InvariantHolds, PTL

\* The running counter always equals the number of goroutines that run a
\* command or have not reported its end: no slot is lost or given twice.
THEOREM RunningCounts == Spec => []RunningCount
<1>1. IInv => RunningCount
  BY DEF IInv, EInv, RunningCount
<1> QED
  BY <1>1, InvariantHolds, PTL

\* When the executor reports Terminated, nothing runs or waits and the loop
\* has returned.
THEOREM TerminationIsFinal == Spec => []TerminatedIsIdle
<1>1. IInv => TerminatedIsIdle
  <2> SUFFICES ASSUME IInv, ex.status = Terminated
               PROVE  ex.running = 0 /\ Busy(ex) = {} /\ QueueLength(ex) = 0 /\ ex.loop = "exited"
    BY DEF TerminatedIsIdle
  <2>1. ex.running = 0 /\ QueueLength(ex) = 0 /\ ex.loop = "exited"
    BY DEF IInv, EInv
  <2>2. Busy(ex) = {}
    BY <2>1, BusyFinite, FS_EmptySet DEF IInv, EInv
  <2> QED
    BY <2>1, <2>2
<1> QED
  BY <1>1, InvariantHolds, PTL

\* Whichever handler starts a command, the concurrency limit then in force
\* is respected.
THEOREM StartsWithinConcurrency == Spec => ConcurrencyRespected
<1>1. IInv /\ [Next]_vars =>
        [\A t \in Tasks : Starts(t) => ex'.concurrency < 0 \/ ex'.running <= ex'.concurrency]_vars
  BY StepInv DEF StartsOK, Starts
<1> QED
  BY <1>1, InvariantHolds, PTL DEF Spec, ConcurrencyRespected

\* A command whose future was cancelled is never started again.
THEOREM CanceledStaysStopped == Spec => CanceledNeverStarts
<1>1. IInv /\ [Next]_vars => [\A t \in Tasks : ex.task[t].canceled => ~Starts(t)]_vars
  BY StepInv DEF StartsOK, Starts
<1> QED
  BY <1>1, InvariantHolds, PTL DEF Spec, CanceledNeverStarts

\* No execution starts before its time.
THEOREM StartsWhenDue == Spec => NotBeforeDue
<1>1. IInv /\ [Next]_vars => [\A t \in Tasks : Starts(t) => ex'.task[t].nextRun <= now]_vars
  BY StepInv DEF StartsOK, Starts
<1> QED
  BY <1>1, InvariantHolds, PTL DEF Spec, NotBeforeDue
=============================================================================

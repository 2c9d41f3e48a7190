----------------------------- MODULE TaskProofs -----------------------------
(* Proofs about Task: whoever makes the task Done is the only one to close   *)
(* the channel of Await, one Cancel wins, and the status follows the         *)
(* transitions of TaskLifecycle, for any number of callers and calls.        *)
EXTENDS Task, FiniteSetTheorems, TLAPS

SetDoneLabels == {"setDone", "swapStatus", "setErr", "loadDone", "swapDone", "lockDone"}

CallerLabels == {"idle", "swapNew", "cancelNew", "cancelClose", "swapRunning", "cancelRunning",
                 "send", "await", "loadStatus", "store"}
RunnerLabels == {"idle", "running", "completed"} \cup SetDoneLabels
LoopLabels   == {"select", "checkDone", "checkCanceled", "nextRun", "panic", "checkErr", "fillErr"}
                  \cup SetDoneLabels

TaskType ==
  [periodic : BOOLEAN, status : TNew .. TDone, done : {"nil", "closedChn", "made"}, closes : Nat,
   mu : BOOLEAN, canceled : BOOLEAN, err : {"nil", "Canceled", "Failed"}, queued : BOOLEAN]

\* Every field has its type and every goroutine is in the functions it calls.
TypeOK ==
  /\ task \in TaskType
  /\ outcome \in {"nil", "Failed"}
  /\ pc \in [Procs -> CallerLabels \cup RunnerLabels \cup LoopLabels]
  /\ \A c \in Callers : pc[c] \in CallerLabels
  /\ pc[Runner] \in RunnerLabels /\ pc[Loop] \in LoopLabels
  /\ seen \in [Procs -> TNew .. TDone]
  /\ won \subseteq Callers
  /\ got \in [Callers -> {"nil", "closedChn", "made"}]

\* The goroutine has made the task Done and has yet to close the channel.
Closing(p) == pc[p] \in {"setErr", "loadDone", "swapDone", "lockDone", "cancelNew", "cancelClose"}

\* It is the only one, and nobody has closed the channel before;
OneCloses ==
  /\ \A p \in Procs : Closing(p) => task.status = TDone /\ task.closes = 0
  /\ \A p, q \in Procs : Closing(p) /\ Closing(q) => p = q
  /\ task.closes <= 1 /\ (task.closes > 0 => task.status = TDone)

\* a closed channel, or the intention to return one, is only met when the task is Done;
ClosedWhenDone ==
  /\ task.done = "closedChn" => task.status = TDone
  /\ \A c \in Callers : /\ got[c] = "closedChn" => task.status = TDone
                        /\ pc[c] = "store" /\ seen[c] = TDone => task.status = TDone

\* a task that is New has no goroutine and nobody looks back at its run, so that setDone
\* swaps Running or Cancelling;
NewIsIdle ==
  /\ pc[Runner] # "idle" => task.status # TNew
  /\ pc[Loop] \in {"checkDone", "checkCanceled", "nextRun"} \cup SetDoneLabels
       => task.status # TNew /\ pc[Runner] = "idle"
  /\ \A p \in {Loop, Runner} : pc[p] = "swapStatus" => seen[p] \in {TRunning, TCancelling}

\* and a Cancel that has won leaves the others nothing to swap.
Wins(c) == c \in won \/ pc[c] \in {"cancelNew", "cancelClose", "cancelRunning", "send"}
OneWinner ==
  /\ \A c \in Callers : Wins(c) => task.status \in {TCancelling, TDone}
  /\ \A c, e \in Callers : Wins(c) /\ Wins(e) => c = e
  /\ task.canceled => \E c \in Callers : Wins(c)

TInv == TypeOK /\ OneCloses /\ ClosedWhenDone /\ NewIsIdle /\ OneWinner

\* What a step does to the status and to whether a Cancel has won: the actions of
\* module TaskLifecycle, or nothing.
Won == \E c \in Callers : Wins(c)
Follows ==
  \/ /\ Won' <=> Won
     /\ \/ task'.status = task.status
        \/ task.status = TNew /\ task'.status = TRunning
        \/ task.status = TRunning /\ task'.status = TNew
        \/ task.status \in {TRunning, TCancelling} /\ task'.status = TDone
  \/ /\ ~Won /\ Won'
     /\ \/ task.status = TNew /\ task'.status = TDone
        \/ task.status = TRunning /\ task'.status = TCancelling

-----------------------------------------------------------------------------
USE DEF TNew, TRunning, TCancelling, TDone, Procs, TaskType,
        CallerLabels, RunnerLabels, LoopLabels, SetDoneLabels

\* Nobody has called and the task is in the queue.
LEMMA InitTInv == Init => TInv
  BY TaskAssumption DEF Init, TInv, OneCloses, Closing, ClosedWhenDone, NewIsIdle,
                        OneWinner, Wins, TypeOK

\* The load tells the swap what to expect.
LEMMA SetDoneLoadTInv == ASSUME TInv, NEW p \in {Loop, Runner}, SetDoneLoad(p) PROVE TInv' /\ Follows
<1> USE TaskAssumption DEF TInv, SetDoneLoad, Step, Return, local, TypeOK
<1>1. TypeOK'
  OBVIOUS
<1>2. OneCloses'
  BY DEF OneCloses, Closing
<1>3. ClosedWhenDone'
  BY DEF ClosedWhenDone
<1>4. NewIsIdle'
  BY DEF NewIsIdle
<1>5. OneWinner'
  BY DEF OneWinner, Wins
<1>6. Follows
  BY DEF Follows, Won, Wins, OneWinner
<1>. QED BY <1>1, <1>2, <1>3, <1>4, <1>5, <1>6

\* Whoever swaps Done in is the one that closes the channel.
LEMMA SetDoneSwapTInv == ASSUME TInv, NEW p \in {Loop, Runner}, SetDoneSwap(p) PROVE TInv' /\ Follows
<1> USE TaskAssumption DEF TInv, SetDoneSwap, Step, Return, Swap, local, TypeOK
<1>1. TypeOK'
  OBVIOUS
<1>2. OneCloses'
  BY DEF OneCloses, Closing, NewIsIdle
<1>3. ClosedWhenDone'
  BY DEF ClosedWhenDone
<1>4. NewIsIdle'
  BY DEF NewIsIdle
<1>5. OneWinner'
  BY DEF OneWinner, Wins
<1>6. Follows
  BY DEF Follows, Won, Wins, NewIsIdle, OneWinner
<1>. QED BY <1>1, <1>2, <1>3, <1>4, <1>5, <1>6

\* It still is when it has set the error;
LEMMA SetDoneErrTInv == ASSUME TInv, NEW p \in {Loop, Runner}, SetDoneErr(p) PROVE TInv' /\ Follows
<1> USE TaskAssumption DEF TInv, SetDoneErr, Step, DoneErr, local, TypeOK
<1>1. TypeOK'
  OBVIOUS
<1>2. OneCloses'
  BY DEF OneCloses, Closing
<1>3. ClosedWhenDone'
  BY DEF ClosedWhenDone
<1>4. NewIsIdle'
  BY DEF NewIsIdle
<1>5. OneWinner'
  BY DEF OneWinner, Wins
<1>6. Follows
  BY DEF Follows, Won, Wins, OneWinner
<1>. QED BY <1>1, <1>2, <1>3, <1>4, <1>5, <1>6

\* when it closes the channel on the quick path it is through,
LEMMA SetDoneChannelTInv == ASSUME TInv, NEW p \in {Loop, Runner}, SetDoneChannel(p) PROVE TInv' /\ Follows
<1> USE TaskAssumption DEF TInv, SetDoneChannel, Step, Return, CloseIfMade, local, TypeOK
<1>1. TypeOK'
  OBVIOUS
<1>2. OneCloses'
  BY DEF OneCloses, Closing
<1>3. ClosedWhenDone'
  BY DEF ClosedWhenDone
<1>4. NewIsIdle'
  BY DEF NewIsIdle
<1>5. OneWinner'
  BY DEF OneWinner, Wins
<1>6. Follows
  BY DEF Follows, Won, Wins, OneWinner
<1>. QED BY <1>1, <1>2, <1>3, <1>4, <1>5, <1>6

\* or leaves a closed one for Await,
LEMMA SetDoneClosedChnTInv == ASSUME TInv, NEW p \in {Loop, Runner}, SetDoneClosedChn(p) PROVE TInv' /\ Follows
<1> USE TaskAssumption DEF TInv, SetDoneClosedChn, Step, Return, local, TypeOK
<1>1. TypeOK'
  OBVIOUS
<1>2. OneCloses'
  BY DEF OneCloses, Closing
<1>3. ClosedWhenDone'
  BY DEF ClosedWhenDone, OneCloses, Closing
<1>4. NewIsIdle'
  BY DEF NewIsIdle
<1>5. OneWinner'
  BY DEF OneWinner, Wins
<1>6. Follows
  BY DEF Follows, Won, Wins, OneWinner
<1>. QED BY <1>1, <1>2, <1>3, <1>4, <1>5, <1>6

\* or closes what Await stored meanwhile.
LEMMA SetDoneSlowTInv == ASSUME TInv, NEW p \in {Loop, Runner}, SetDoneSlow(p) PROVE TInv' /\ Follows
<1> USE TaskAssumption DEF TInv, SetDoneSlow, Step, Return, CloseIfMade, local, TypeOK
<1>1. TypeOK'
  OBVIOUS
<1>2. OneCloses'
  BY DEF OneCloses, Closing
<1>3. ClosedWhenDone'
  BY DEF ClosedWhenDone
<1>4. NewIsIdle'
  BY DEF NewIsIdle
<1>5. OneWinner'
  BY DEF OneWinner, Wins
<1>6. Follows
  BY DEF Follows, Won, Wins, OneWinner
<1>. QED BY <1>1, <1>2, <1>3, <1>4, <1>5, <1>6

\* A Cancel that finds the task over returns false.
LEMMA CancelLoadTInv == ASSUME TInv, NEW c \in Callers, CancelLoad(c) PROVE TInv' /\ Follows
<1> USE TaskAssumption DEF TInv, CancelLoad, Call, Step, local, TypeOK
<1>1. TypeOK'
  OBVIOUS
<1>2. OneCloses'
  BY DEF OneCloses, Closing
<1>3. ClosedWhenDone'
  BY DEF ClosedWhenDone
<1>4. NewIsIdle'
  BY DEF NewIsIdle
<1>5. OneWinner'
  BY DEF OneWinner, Wins
<1>6. Follows
  BY DEF Follows, Won, Wins, OneWinner
<1>. QED BY <1>1, <1>2, <1>3, <1>4, <1>5, <1>6

\* The swap of New makes the caller the winner and the one that closes.
LEMMA CancelNewTInv == ASSUME TInv, NEW c \in Callers, CancelNew(c) PROVE TInv' /\ Follows
<1> USE TaskAssumption DEF TInv, CancelNew, Step, Swap, local, TypeOK
<1>1. TypeOK'
  OBVIOUS
<1>2. OneCloses'
  BY DEF OneCloses, Closing
<1>3. ClosedWhenDone'
  BY DEF ClosedWhenDone
<1>4. NewIsIdle'
  BY DEF NewIsIdle
<1>5. OneWinner'
  BY DEF OneWinner, Wins
<1>6. Follows
  BY DEF Follows, Won, Wins, OneWinner
<1>. QED BY <1>1, <1>2, <1>3, <1>4, <1>5, <1>6

\* The winner says so in the plain fields.
LEMMA CancelNewErrTInv == ASSUME TInv, NEW c \in Callers, CancelNewErr(c) PROVE TInv' /\ Follows
<1> USE TaskAssumption DEF TInv, CancelNewErr, Step, local, TypeOK
<1>1. TypeOK'
  OBVIOUS
<1>2. OneCloses'
  BY DEF OneCloses, Closing
<1>3. ClosedWhenDone'
  BY DEF ClosedWhenDone
<1>4. NewIsIdle'
  BY DEF NewIsIdle
<1>5. OneWinner'
  BY DEF OneWinner, Wins
<1>6. Follows
  BY DEF Follows, Won, Wins, OneWinner
<1>. QED BY <1>1, <1>2, <1>3, <1>4, <1>5, <1>6

\* It closes the channel once.
LEMMA CancelNewCloseTInv == ASSUME TInv, NEW c \in Callers, CancelNewClose(c) PROVE TInv' /\ Follows
<1> USE TaskAssumption DEF TInv, CancelNewClose, Step, CloseIfMade, local, TypeOK
<1>1. TypeOK'
  OBVIOUS
<1>2. OneCloses'
  BY DEF OneCloses, Closing
<1>3. ClosedWhenDone'
  BY DEF ClosedWhenDone
<1>4. NewIsIdle'
  BY DEF NewIsIdle
<1>5. OneWinner'
  BY DEF OneWinner, Wins
<1>6. Follows
  BY DEF Follows, Won, Wins, OneWinner
<1>. QED BY <1>1, <1>2, <1>3, <1>4, <1>5, <1>6

\* The swap of Running makes the caller the winner and leaves the channel to setDone.
LEMMA CancelRunningTInv == ASSUME TInv, NEW c \in Callers, CancelRunning(c) PROVE TInv' /\ Follows
<1> USE TaskAssumption DEF TInv, CancelRunning, Step, Swap, local, TypeOK
<1>1. TypeOK'
  OBVIOUS
<1>2. OneCloses'
  BY DEF OneCloses, Closing
<1>3. ClosedWhenDone'
  BY DEF ClosedWhenDone
<1>4. NewIsIdle'
  BY DEF NewIsIdle
<1>5. OneWinner'
  BY DEF OneWinner, Wins
<1>6. Follows
  BY DEF Follows, Won, Wins, OneWinner
<1>. QED BY <1>1, <1>2, <1>3, <1>4, <1>5, <1>6

\* The flag comes after the swap.
LEMMA CancelRunningFlagTInv == ASSUME TInv, NEW c \in Callers, CancelRunningFlag(c) PROVE TInv' /\ Follows
<1> USE TaskAssumption DEF TInv, CancelRunningFlag, Step, local, TypeOK
<1>1. TypeOK'
  OBVIOUS
<1>2. OneCloses'
  BY DEF OneCloses, Closing
<1>3. ClosedWhenDone'
  BY DEF ClosedWhenDone
<1>4. NewIsIdle'
  BY DEF NewIsIdle
<1>5. OneWinner'
  BY DEF OneWinner, Wins
<1>6. Follows
  BY DEF Follows, Won, Wins, OneWinner
<1>. QED BY <1>1, <1>2, <1>3, <1>4, <1>5, <1>6

\* Await returns the channel there is,
LEMMA AwaitLoadTInv == ASSUME TInv, NEW c \in Callers, AwaitLoad(c) PROVE TInv' /\ Follows
<1> USE TaskAssumption DEF TInv, AwaitLoad, Call, Step, ReturnsDone, Returns, local, TypeOK
<1>1. TypeOK'
  OBVIOUS
<1>2. OneCloses'
  BY DEF OneCloses, Closing
<1>3. ClosedWhenDone'
  BY DEF ClosedWhenDone
<1>4. NewIsIdle'
  BY DEF NewIsIdle
<1>5. OneWinner'
  BY DEF OneWinner, Wins
<1>6. Follows
  BY DEF Follows, Won, Wins, OneWinner
<1>. QED BY <1>1, <1>2, <1>3, <1>4, <1>5, <1>6

\* looks again under the mutex,
LEMMA AwaitLockTInv == ASSUME TInv, NEW c \in Callers, AwaitLock(c) PROVE TInv' /\ Follows
<1> USE TaskAssumption DEF TInv, AwaitLock, Step, ReturnsDone, Returns, local, TypeOK
<1>1. TypeOK'
  <2>1. PICK b \in BOOLEAN : b = (task.done = "nil")
    OBVIOUS
  <2>2. task' = [task EXCEPT !.mu = b]
    BY <2>1
  <2>. QED BY <2>2
<1>2. OneCloses'
  BY DEF OneCloses, Closing
<1>3. ClosedWhenDone'
  BY DEF ClosedWhenDone
<1>4. NewIsIdle'
  BY DEF NewIsIdle
<1>5. OneWinner'
  BY DEF OneWinner, Wins
<1>6. Follows
  BY DEF Follows, Won, Wins, OneWinner
<1>. QED BY <1>1, <1>2, <1>3, <1>4, <1>5, <1>6

\* loads the status
LEMMA AwaitStatusTInv == ASSUME TInv, NEW c \in Callers, AwaitStatus(c) PROVE TInv' /\ Follows
<1> USE TaskAssumption DEF TInv, AwaitStatus, Step, local, TypeOK
<1>1. TypeOK'
  OBVIOUS
<1>2. OneCloses'
  BY DEF OneCloses, Closing
<1>3. ClosedWhenDone'
  BY DEF ClosedWhenDone
<1>4. NewIsIdle'
  BY DEF NewIsIdle
<1>5. OneWinner'
  BY DEF OneWinner, Wins
<1>6. Follows
  BY DEF Follows, Won, Wins, OneWinner
<1>. QED BY <1>1, <1>2, <1>3, <1>4, <1>5, <1>6

\* and stores a closed channel only when it was Done.
LEMMA AwaitStoreTInv == ASSUME TInv, NEW c \in Callers, AwaitStore(c) PROVE TInv' /\ Follows
<1> USE TaskAssumption DEF TInv, AwaitStore, Step, Returns, local, TypeOK
<1>1. TypeOK'
  OBVIOUS
<1>2. OneCloses'
  BY DEF OneCloses, Closing
<1>3. ClosedWhenDone'
  BY DEF ClosedWhenDone
<1>4. NewIsIdle'
  BY DEF NewIsIdle
<1>5. OneWinner'
  BY DEF OneWinner, Wins
<1>6. Follows
  BY DEF Follows, Won, Wins, OneWinner
<1>. QED BY <1>1, <1>2, <1>3, <1>4, <1>5, <1>6

\* The event loop starts a task that is New, which has no goroutine.
LEMMA RunTInv == ASSUME TInv, Run PROVE TInv' /\ Follows
<1> USE TaskAssumption DEF TInv, Run, Handle, Swap, local, TypeOK
<1>1. TypeOK'
  <2>1. task' \in TaskType
    <3>1. PICK t : t = Swap(TNew, TRunning)
      OBVIOUS
    <3>2. t \in TaskType
      BY <3>1
    <3>3. task' = [t EXCEPT !.queued = FALSE]
      BY <3>1
    <3>. QED BY <3>2, <3>3
  <2>2. pc' = [pc EXCEPT ![Runner] = IF task.status = TNew THEN "running" ELSE @]
    OBVIOUS
  <2>. QED BY <2>1, <2>2
<1>2. OneCloses'
  BY DEF OneCloses, Closing
<1>3. ClosedWhenDone'
  BY DEF ClosedWhenDone
<1>4. NewIsIdle'
  BY DEF NewIsIdle
<1>5. OneWinner'
  BY DEF OneWinner, Wins
<1>6. Follows
  BY DEF Follows, Won, Wins, OneWinner
<1>. QED BY <1>1, <1>2, <1>3, <1>4, <1>5, <1>6

\* The command returns.
LEMMA FinishTInv == ASSUME TInv, Finish PROVE TInv' /\ Follows
<1> USE TaskAssumption DEF TInv, Finish, Step, local, TypeOK
<1>1. TypeOK'
  OBVIOUS
<1>2. OneCloses'
  BY DEF OneCloses, Closing
<1>3. ClosedWhenDone'
  BY DEF ClosedWhenDone
<1>4. NewIsIdle'
  BY DEF NewIsIdle
<1>5. OneWinner'
  BY DEF OneWinner, Wins
<1>6. Follows
  BY DEF Follows, Won, Wins, OneWinner
<1>. QED BY <1>1, <1>2, <1>3, <1>4, <1>5, <1>6

\* Its goroutine ends when the event loop has the event.
LEMMA TaskCompletedTInv == ASSUME TInv, TaskCompleted PROVE TInv' /\ Follows
<1> USE TaskAssumption DEF TInv, TaskCompleted, Handle, local, TypeOK
<1>1. TypeOK'
  OBVIOUS
<1>2. OneCloses'
  BY DEF OneCloses, Closing
<1>3. ClosedWhenDone'
  BY DEF ClosedWhenDone
<1>4. NewIsIdle'
  BY DEF NewIsIdle
<1>5. OneWinner'
  BY DEF OneWinner, Wins
<1>6. Follows
  BY DEF Follows, Won, Wins, OneWinner
<1>. QED BY <1>1, <1>2, <1>3, <1>4, <1>5, <1>6

\* The event loop looks at the status
LEMMA CheckDoneTInv == ASSUME TInv, CheckDone PROVE TInv' /\ Follows
<1> USE TaskAssumption DEF TInv, CheckDone, Step, local, TypeOK
<1>1. TypeOK'
  OBVIOUS
<1>2. OneCloses'
  BY DEF OneCloses, Closing
<1>3. ClosedWhenDone'
  BY DEF ClosedWhenDone
<1>4. NewIsIdle'
  BY DEF NewIsIdle
<1>5. OneWinner'
  BY DEF OneWinner, Wins
<1>6. Follows
  BY DEF Follows, Won, Wins, OneWinner
<1>. QED BY <1>1, <1>2, <1>3, <1>4, <1>5, <1>6

\* and at the flag.
LEMMA CheckCanceledTInv == ASSUME TInv, CheckCanceled PROVE TInv' /\ Follows
<1> USE TaskAssumption DEF TInv, CheckCanceled, Step, local, TypeOK
<1>1. TypeOK'
  OBVIOUS
<1>2. OneCloses'
  BY DEF OneCloses, Closing
<1>3. ClosedWhenDone'
  BY DEF ClosedWhenDone
<1>4. NewIsIdle'
  BY DEF NewIsIdle
<1>5. OneWinner'
  BY DEF OneWinner, Wins
<1>6. Follows
  BY DEF Follows, Won, Wins, OneWinner
<1>. QED BY <1>1, <1>2, <1>3, <1>4, <1>5, <1>6

\* Only a Running task is New again; its goroutine has ended.
LEMMA configureNextRunTInv == ASSUME TInv, configureNextRun PROVE TInv' /\ Follows
<1> USE TaskAssumption DEF TInv, configureNextRun, Step, Swap, local, TypeOK
<1>1. TypeOK'
  <2>1. PICK b \in BOOLEAN : b = (task.status = TRunning)
    OBVIOUS
  <2>2. task' = [Swap(TRunning, TNew) EXCEPT !.queued = b]
    BY <2>1
  <2>. QED BY <2>2
<1>2. OneCloses'
  BY DEF OneCloses, Closing
<1>3. ClosedWhenDone'
  BY DEF ClosedWhenDone
<1>4. NewIsIdle'
  BY DEF NewIsIdle
<1>5. OneWinner'
  BY DEF OneWinner, Wins
<1>6. Follows
  BY DEF Follows, Won, Wins, NewIsIdle, OneWinner
<1>. QED BY <1>1, <1>2, <1>3, <1>4, <1>5, <1>6

\* The winner's Cancel returns true.
LEMMA TaskCanceledTInv == ASSUME TInv, NEW c \in Callers, TaskCanceled(c) PROVE TInv' /\ Follows
<1> USE TaskAssumption DEF TInv, TaskCanceled, Handle, local, TypeOK
<1>1. TypeOK'
  OBVIOUS
<1>2. OneCloses'
  BY DEF OneCloses, Closing
<1>3. ClosedWhenDone'
  BY DEF ClosedWhenDone
<1>4. NewIsIdle'
  BY DEF NewIsIdle
<1>5. OneWinner'
  BY DEF OneWinner, Wins
<1>6. Follows
  BY DEF Follows, Won, Wins, OneWinner
<1>. QED BY <1>1, <1>2, <1>3, <1>4, <1>5, <1>6

\* The event loop looks at the error
LEMMA CheckErrTInv == ASSUME TInv, CheckErr PROVE TInv' /\ Follows
<1> USE TaskAssumption DEF TInv, CheckErr, Step, local, TypeOK
<1>1. TypeOK'
  OBVIOUS
<1>2. OneCloses'
  BY DEF OneCloses, Closing
<1>3. ClosedWhenDone'
  BY DEF ClosedWhenDone
<1>4. NewIsIdle'
  BY DEF NewIsIdle
<1>5. OneWinner'
  BY DEF OneWinner, Wins
<1>6. Follows
  BY DEF Follows, Won, Wins, OneWinner
<1>. QED BY <1>1, <1>2, <1>3, <1>4, <1>5, <1>6

\* and fills it in.
LEMMA FillErrTInv == ASSUME TInv, FillErr PROVE TInv' /\ Follows
<1> USE TaskAssumption DEF TInv, FillErr, Step, local, TypeOK
<1>1. TypeOK'
  OBVIOUS
<1>2. OneCloses'
  BY DEF OneCloses, Closing
<1>3. ClosedWhenDone'
  BY DEF ClosedWhenDone
<1>4. NewIsIdle'
  BY DEF NewIsIdle
<1>5. OneWinner'
  BY DEF OneWinner, Wins
<1>6. Follows
  BY DEF Follows, Won, Wins, OneWinner
<1>. QED BY <1>1, <1>2, <1>3, <1>4, <1>5, <1>6

\* A step of setDone, by whichever of its callers.
LEMMA SetDoneTInv == ASSUME TInv, NEW p \in {Loop, Runner}, SetDone(p) PROVE TInv' /\ Follows
  BY SetDoneLoadTInv, SetDoneSwapTInv, SetDoneErrTInv, SetDoneChannelTInv,
     SetDoneClosedChnTInv, SetDoneSlowTInv DEF SetDone

\* A step of a caller.
LEMMA CallerTInv ==
  ASSUME TInv, NEW c \in Callers, CancelLoad(c) \/ AwaitLoad(c) \/ Continue(c)
  PROVE  TInv' /\ Follows
  BY CancelLoadTInv, CancelNewTInv, CancelNewErrTInv, CancelNewCloseTInv, CancelRunningTInv,
     CancelRunningFlagTInv, AwaitLoadTInv, AwaitLockTInv, AwaitStatusTInv, AwaitStoreTInv
     DEF Continue

\* A step of the event loop.
LEMMA LoopStepTInv == ASSUME TInv, LoopStep PROVE TInv' /\ Follows
  BY RunTInv, TaskCompletedTInv, CheckDoneTInv, CheckCanceledTInv, configureNextRunTInv,
     TaskCanceledTInv, CheckErrTInv, FillErrTInv, SetDoneTInv DEF LoopStep

\* Whatever interleaving of the swaps, TInv holds on and the status follows.
LEMMA StepTInv == TInv /\ [Next]_vars => TInv' /\ Follows
<1> SUFFICES ASSUME TInv, [Next]_vars PROVE TInv' /\ Follows
  OBVIOUS
<1>1. CASE \E c \in Callers : CancelLoad(c) \/ AwaitLoad(c) \/ Continue(c)
  BY <1>1, CallerTInv
<1>2. CASE LoopStep
  BY <1>2, LoopStepTInv
<1>3. CASE RunnerStep
  BY <1>3, FinishTInv, SetDoneTInv DEF RunnerStep
<1>4. CASE UNCHANGED vars
  BY <1>4 DEF TInv, TypeOK, OneCloses, Closing, ClosedWhenDone, NewIsIdle, OneWinner, Wins,
              Follows, Won, vars, local
<1>. QED BY <1>1, <1>2, <1>3, <1>4 DEF Next

\* TInv is an invariant.
LEMMA AlwaysTInv == Spec => []TInv
  BY InitTInv, StepTInv, PTL DEF Spec

-----------------------------------------------------------------------------
\* The winners are the callers that Wins names.
LEMMA WinnersAre == TypeOK => /\ Winners \subseteq Callers
                              /\ \A c \in Callers : c \in Winners <=> Wins(c)
  BY DEF TypeOK, Winners, Wins

\* However the calls of Cancel and Await race with setDone, the channel of Await is closed
\* at most once, and whoever is woken finds the task Done.
THEOREM ClosesOnceWhenDone == Spec => []ClosedOnceWhenDone
<1>1. TInv => ClosedOnceWhenDone
  BY DEF TInv, TypeOK, OneCloses, ClosedWhenDone, ClosedOnceWhenDone, Woken
<1>. QED BY <1>1, AlwaysTInv, PTL

\* Of any number of calls of Cancel at most one returns true.
THEOREM OneCancelAlwaysWins == Spec => []OneCancelWins
<1>1. TInv => OneCancelWins
  <2> SUFFICES ASSUME TInv PROVE OneCancelWins
    OBVIOUS
  <2>1. CASE Winners = {}
    BY <2>1, FS_EmptySet DEF OneCancelWins
  <2>2. CASE Winners # {}
    <3>1. PICK c : c \in Winners
      BY <2>2
    <3>2. Winners = {c}
      BY <3>1, WinnersAre DEF TInv, OneWinner
    <3>. QED BY <3>2, FS_Singleton DEF OneCancelWins
  <2>. QED BY <2>1, <2>2
<1>. QED BY <1>1, AlwaysTInv, PTL

\* The compare-and-swaps of task.go implement the transitions of TaskLifecycle: the state
\* machine of the status is never left, whoever gets in between.
THEOREM TaskFollowsLifecycle == Spec => FollowsLifecycle
<1> DEFINE canceled == task.canceled \/ Winners # {}
<1>1. TInv => (canceled <=> Won)
  BY WinnersAre DEF TInv, OneWinner, Won
<1>2. Init => Lifecycle!Init
  <2> SUFFICES ASSUME Init PROVE Lifecycle!Init
    OBVIOUS
  <2>1. ~Won
    BY TaskAssumption DEF Init, Won, Wins
  <2>2. task.status = TNew
    BY DEF Init
  <2>3. ~canceled
    BY <1>1, <2>1, InitTInv
  <2>. QED BY <2>2, <2>3 DEF Lifecycle!Init, Lifecycle!TNew
<1>3. TInv /\ TInv' /\ Follows => [Lifecycle!Next]_<<task.status, canceled>>
  <2> SUFFICES ASSUME TInv, TInv', Follows
               PROVE  [Lifecycle!Next]_<<task.status, canceled>>
    OBVIOUS
  <2>1. (canceled <=> Won) /\ (canceled <=> Won)'
    BY <1>1, PTL
  <2>2. canceled \in BOOLEAN /\ canceled' \in BOOLEAN
    OBVIOUS
  <2>3. (Won' <=> Won) => canceled' = canceled
    BY <2>1, <2>2
  <2>4. ~Won /\ Won' => ~canceled /\ canceled' = TRUE
    BY <2>1, <2>2
  <2>. QED BY <2>3, <2>4 DEF Follows, Lifecycle!Next, Lifecycle!Start, Lifecycle!Again, Lifecycle!Cancel,
                       Lifecycle!Complete, Lifecycle!TNew, Lifecycle!TRunning,
                       Lifecycle!TCancelling, Lifecycle!TDone
<1>. QED BY <1>2, <1>3, StepTInv, AlwaysTInv, PTL DEF Spec, FollowsLifecycle, Lifecycle!Spec
=============================================================================

---------------------------- MODULE TaskLifecycle ----------------------------
(* What a task of the executor promises about its status, whoever cancels,   *)
(* runs or completes it: the transitions of the comment above the constants  *)
(* of executors/task.go, with the Cancelling state and the return to New of  *)
(* periodic tasks that the code adds.  Modules Executor and Task implement   *)
(* it.                                                                       *)
EXTENDS Integers

TNew        == 0
TRunning    == 1
TCancelling == 2
TDone       == 3

VARIABLES status,
          canceled    \* some Cancel() has won

Init == status = TNew /\ canceled = FALSE

\* setRunning()
Start == status = TNew /\ status' = TRunning /\ UNCHANGED canceled

\* configureNextRun()
Again == status = TRunning /\ status' = TNew /\ UNCHANGED canceled

\* Cancel()
Cancel ==
  /\ ~canceled /\ canceled' = TRUE
  /\ \/ status = TNew     /\ status' = TDone
     \/ status = TRunning /\ status' = TCancelling

\* setDone()
Complete == status \in {TRunning, TCancelling} /\ status' = TDone /\ UNCHANGED canceled

Next == Start \/ Again \/ Cancel \/ Complete

Spec == Init /\ [][Next]_<<status, canceled>>
=============================================================================

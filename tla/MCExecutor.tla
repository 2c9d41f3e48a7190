----------------------------- MODULE MCExecutor -----------------------------
(* Instances of Executor for TLC.                                            *)
EXTENDS Executor, TLC

Once(initial)       == [type |-> "Once", initialDelay |-> initial, delay |-> 0]
FixedRate(i, d)     == [type |-> "FixedRate", initialDelay |-> i, delay |-> d]
FixedDelay(i, d)    == [type |-> "FixedDelay", initialDelay |-> i, delay |-> d]

LifecycleKinds == {Once(0), Once(1), FixedRate(0, 1), FixedDelay(1, 1)}
OneShotKinds   == {Once(0), Once(1)}
ReadyKind      == {Once(0)}
DelayedKind    == {Once(1)}

ClientSymmetry == Permutations(Clients)
=============================================================================

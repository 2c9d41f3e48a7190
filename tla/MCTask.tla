------------------------------- MODULE MCTask -------------------------------
(* Instances of Task for TLC.                                                *)
EXTENDS Task, TLC

CallerSymmetry == Permutations(Callers)
=============================================================================

--------------------------- MODULE MCLockedWorker ---------------------------
(* Instances of LockedWorker for TLC.                                        *)
EXTENDS LockedWorker, TLC

ProcSymmetry == Permutations(Procs)
=============================================================================

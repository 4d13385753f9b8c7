----------------------------- MODULE MCLifecycle -----------------------------
(* Instances of Lifecycle for TLC.                                         *)
EXTENDS Lifecycle, TLC

(* Processes are interchangeable where no liveness property is checked.    *)
ProcSymmetry == Permutations(Procs)
=============================================================================

----------------------------- MODULE MCScheduler ----------------------------
(* Instances of Scheduler for TLC.                                         *)
EXTENDS Scheduler, TLC

Symmetry == Permutations(Machines)
=============================================================================

---------------------------- MODULE MCAtomicLock ----------------------------
(* Instances of AtomicLock for TLC.                                        *)
EXTENDS AtomicLock, TLC

Symmetry == Permutations(Procs)
=============================================================================

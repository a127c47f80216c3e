-------------------------- MODULE MCDatabaseQueue --------------------------
(* Instances of DatabaseQueue for TLC.                                     *)
EXTENDS DatabaseQueue, TLC

(* No process and no operator is told from another.                        *)
Symmetry == Permutations(Workers) \cup Permutations(Operators)
=============================================================================

----------------------------- MODULE MCMigrator -----------------------------
(* Instances of Migrator for TLC.                                          *)
EXTENDS Migrator, TLC

Symmetry == Permutations(Machines)
=============================================================================

-------------------------- MODULE MCUniqueDispatch --------------------------
(* Instances of UniqueDispatch for TLC.                                    *)
EXTENDS UniqueDispatch, TLC

Symmetry == Permutations(Jobs) \cup Permutations(Workers)
=============================================================================

---------------------------- MODULE MCRedisQueue ----------------------------
(* Instances of RedisQueue for TLC.                                        *)
EXTENDS RedisQueue, TLC

Symmetry == Permutations(Jobs) \cup Permutations(Workers) \cup Permutations(Handles)
=============================================================================

--------------------------- MODULE MCRedisWindow ---------------------------
(* Instances of RedisWindow for TLC. *)
EXTENDS RedisWindow, TLC

CONSTANTS t1, t2

Symmetry == Permutations(Calls)
=============================================================================

-------------------------- MODULE MCMemoryLimiter --------------------------
(* Instances of MemoryLimiter for TLC. *)
EXTENDS MemoryLimiter

CONSTANTS k1, k2, t1, t2
=============================================================================

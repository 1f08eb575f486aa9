---------------------------- MODULE MCAuthSession ----------------------------
(* Instances of AuthSession for TLC. *)
EXTENDS AuthSession, TLC

CONSTANTS t1, t2

\* The tabs are alike; no property names one.
TabSymmetry == Permutations(Tabs)
=============================================================================

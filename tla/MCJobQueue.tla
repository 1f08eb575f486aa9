----------------------------- MODULE MCJobQueue -----------------------------
(* Instances of JobQueue for TLC. *)
EXTENDS JobRefinement, TLC

CONSTANTS c1, c2, w1, w2, p1, p2, s1, s2

\* Two replicas: the handlers that matter run in one, the workers that serve
\* them in the other, so that each side can die under the other.
OnePool     == w1 :> s1 @@ w2 :> s1
TwoReplicas == c1 :> p1 @@ c2 :> p1 @@ w1 :> p2 @@ w2 :> p2
Depth1      == s1 :> 1

\* The handlers are alike, and so are the workers.
JobSymmetry ==
    {f \in Permutations(Clients \cup Workers) : \A c \in Clients : f[c] \in Clients}

\* One replica with two streams, one worker for each.
TwoPools    == w1 :> s1 @@ w2 :> s2
OneClient   == c1 :> p1 @@ w1 :> p1 @@ w2 :> p1
Depths1     == s1 :> 1 @@ s2 :> 1

\* One handler and one worker.
SoloPool    == w1 :> s1
SoloReplica == c1 :> p1 @@ w1 :> p1
=============================================================================

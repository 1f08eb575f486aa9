-------------------------- MODULE MCCircuitBreaker --------------------------
(* Instances of CircuitBreaker for TLC. *)
EXTENDS CircuitBreaker, TLC

CONSTANTS w1, a1, e1, searchservice, addon

\* A search worker and an Autocomplete handler share a breaker; an extension
\* route has its own.
OwnNames == w1 :> searchservice @@ a1 :> searchservice @@ e1 :> addon
=============================================================================

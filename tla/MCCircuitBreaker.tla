--------------------------- MODULE MCCircuitBreaker ---------------------------
(* Small instance of CircuitBreaker: providers and callers are model values. *)
EXTENDS CircuitBreaker, TLC

Symmetry == Permutations(Callers) \cup Permutations(Providers)
=============================================================================

------------------------------ MODULE MCTtlCache ------------------------------
(* Small instance of TtlCache: readers and writers are model values. *)
EXTENDS TtlCache, TLC

Symmetry == Permutations(Readers) \cup Permutations(Writers)
=============================================================================

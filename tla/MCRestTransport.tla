--------------------------- MODULE MCRestTransport ---------------------------
(* Small instance of RestTransport: calls are model values. *)
EXTENDS RestTransport, TLC

Symmetry == Permutations(Callers)
=============================================================================

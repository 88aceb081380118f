---------------------------- MODULE MCCaptureFlow ----------------------------
(* Model checking CaptureFlow: two handlers of one user, an inbox and two     *)
(* folders, names that collide.  Handlers, folders and titles have no order.  *)
EXTENDS CaptureFlow, TLC

Perms == Permutations(Handlers) \cup Permutations(Folders) \cup Permutations(Titles)
=============================================================================

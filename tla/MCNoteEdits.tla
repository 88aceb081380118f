----------------------------- MODULE MCNoteEdits -----------------------------
(* Model checking NoteEdits: two handlers at once on two notes, the  *)
(* inbox and another, one tag, and requests that may be served twice.         *)
EXTENDS NoteEdits, TLC

Perms == Permutations(Callers)
=============================================================================

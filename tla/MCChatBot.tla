------------------------------ MODULE MCChatBot ------------------------------
(* Model checking ChatBot: an open note, a stranger and an album, two or      *)
(* three handlers at once, both session backends.                             *)
EXTENDS ChatBot

=============================================================================

----------------------------- MODULE MCBotProcess -----------------------------
(* The callers of the instance checked: the probe, a handler, readiness requests. *)
EXTENDS BotProcess
CONSTANTS p, h, e1

=============================================================================

---------------------------- MODULE RequestService ----------------------------
(* What the LLM layer promises its callers, without ladders, retries or       *)
(* breakers: a request that was accepted ends, in an answer or in one error,  *)
(* and is counted exactly once, when it ends and with the way it ended.       *)
EXTENDS Naturals

CONSTANT Requests

VARIABLES phase,     \* request -> idle, pending, served or failed
          requests,  \* how many requests have ended
          succeeded  \* how many of them in an answer

svars == <<phase, requests, succeeded>>

Init == /\ phase = [r \in Requests |-> "idle"]
        /\ requests = 0
        /\ succeeded = 0

Accept(r) ==
    /\ phase[r] # "pending"
    /\ phase' = [phase EXCEPT ![r] = "pending"]
    /\ UNCHANGED <<requests, succeeded>>

Serve(r) ==
    /\ phase[r] = "pending"
    /\ phase' = [phase EXCEPT ![r] = "served"]
    /\ requests' = requests + 1
    /\ succeeded' = succeeded + 1

Refuse(r) ==
    /\ phase[r] = "pending"
    /\ phase' = [phase EXCEPT ![r] = "failed"]
    /\ requests' = requests + 1
    /\ UNCHANGED succeeded

Next == \E r \in Requests : Accept(r) \/ Serve(r) \/ Refuse(r)

Spec == /\ Init /\ [][Next]_svars
        /\ \A r \in Requests : WF_svars(Serve(r) \/ Refuse(r))
=============================================================================

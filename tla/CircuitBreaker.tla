---------------------------- MODULE CircuitBreaker ----------------------------
(* llm/breaker.py shared by concurrent callers.  A caller asks the gate, is   *)
(* away in a provider call for as long as that takes, and comes back with a   *)
(* success, a failure, a conclusive failure, or with an outcome the router    *)
(* reports to nobody (a model-level error: router.py:294-309 records only     *)
(* provider-level and retryable ones).                                        *)
EXTENDS Circuit

CONSTANTS Providers, Callers, NoCall

ASSUME NoCallAssumption == NoCall \notin Providers

VARIABLES
    circuits,  \* _circuits: provider -> its circuit
    calls,     \* caller -> the provider it is away calling, or NoCall
    fresh      \* history: the callers let through since their provider's
               \* circuit was last opened or re-opened

breakerVars == <<circuits, calls, fresh>>

BreakerInit ==
    /\ circuits = [p \in Providers |-> Closed]
    /\ calls = [c \in Callers |-> NoCall]
    /\ fresh = {}

Calling(p) == {c \in Callers : calls[c] = p}

\* allows() answered True and the caller left for the provider.
Admit(c, p) ==
    /\ calls[c] = NoCall
    /\ Allows(circuits[p])
    /\ circuits' = [circuits EXCEPT ![p] = Admitted(@)]
    /\ calls' = [calls EXCEPT ![c] = p]
    /\ fresh' = fresh \cup {c}

Succeed(c) ==
    /\ calls[c] # NoCall
    /\ circuits' = [circuits EXCEPT ![calls[c]] = Succeeded(@)]
    /\ calls' = [calls EXCEPT ![c] = NoCall]
    /\ fresh' = fresh \ {c}

Fail(c, immediate) ==
    /\ calls[c] # NoCall
    /\ circuits' = [circuits EXCEPT ![calls[c]] = Failed(@, immediate)]
    /\ calls' = [calls EXCEPT ![c] = NoCall]
    /\ fresh' = IF Trips(circuits[calls[c]], immediate)
                THEN fresh \ Calling(calls[c])
                ELSE fresh \ {c}

\* The call ended in an error the router does not report to the breaker.
EndUnreported(c) ==
    /\ calls[c] # NoCall
    /\ calls' = [calls EXCEPT ![c] = NoCall]
    /\ fresh' = fresh \ {c}
    /\ UNCHANGED circuits

\* reset(): every circuit forgotten; the calls under way are not.
Forget ==
    /\ circuits # [p \in Providers |-> Closed]
    /\ circuits' = [p \in Providers |-> Closed]
    /\ UNCHANGED <<calls, fresh>>

Tick ==
    /\ \E p \in Providers : Elapsed(circuits[p]) # circuits[p]
    /\ circuits' = [p \in Providers |-> Elapsed(circuits[p])]
    /\ UNCHANGED <<calls, fresh>>

BreakerNext ==
    \/ \E c \in Callers, p \in Providers : Admit(c, p)
    \/ \E c \in Callers : Succeed(c)
    \/ \E c \in Callers, immediate \in BOOLEAN : Fail(c, immediate)
    \/ \E c \in Callers : EndUnreported(c)
    \/ Forget
    \/ Tick

BreakerSpec == BreakerInit /\ [][BreakerNext]_breakerVars

-----------------------------------------------------------------------------
BreakerTypeOK ==
    /\ circuits \in [Providers -> Circuits]
    /\ calls \in [Callers -> Providers \cup {NoCall}]
    /\ fresh \subseteq Callers

\* No interleaving of outcomes leaves a circuit its operations do not know: a
\* closed one at or over the threshold, or a probe marked before the cool-down
\* is over (a straggler's failure must take the mark with the restarted clock).
WellFormedCircuits == \A p \in Providers : WellFormed(circuits[p])

\* breaker.py:17-19, the single-probe rule under concurrency: of the calls
\* let through since a circuit was last opened, at most one is under way, it
\* carries the probe mark, and none was let through before the cool-down ended.
SingleProbe ==
    \A c, d \in fresh :
        (calls[c] = calls[d] /\ calls[c] # NoCall /\ circuits[calls[c]].open) =>
            c = d /\ circuits[calls[c]].probe

\* breaker.py:61-62, "repeated failure lengthens nothing": while a circuit
\* stays open its cool-down restarts only if a probe was marked in flight, so
\* the stragglers of the outage that opened it never postpone the next probe.
CoolDownIsFixed ==
    [][\A p \in Providers :
         circuits[p].open /\ circuits'[p].open /\ circuits'[p].age < circuits[p].age
           => circuits[p].probe]_breakerVars
=============================================================================

----------------------------- MODULE SessionStore -----------------------------
(* adapters/session.py: keys with a lifetime, in the process's memory or in   *)
(* Redis.  Only the expiry of an entry is kept here, its value never changes. *)
(* In memory a call never suspends, so that a get and the set after it are    *)
(* one step; with Redis every call is a step of its own.  A restart empties   *)
(* the memory and leaves Redis alone.                                         *)
EXTENDS Naturals

CONSTANTS Keys,
          TTL,     \* SESSION_TTL_S, in ticks
          MaxTime  \* bound on the clock

ASSUME SessionAssumption == TTL \in Nat \ {0} /\ MaxTime \in Nat \ {0}

VARIABLES
    backend,  \* SESSION_BACKEND
    now,      \* the clock
    expires   \* key -> when its entry expires, 0 if it has none

sessionVars == <<backend, now, expires>>

\* The keys of `present` were just set.
SessionInit(present) ==
    /\ backend \in {"memory", "redis"}
    /\ now = 1
    /\ expires = [k \in Keys |-> IF k \in present THEN now + TTL ELSE 0]

AliveTooShort(k) == now + 1 < expires[k]
\* get(): an entry is gone at its very end, `clock() >= expires_at`.
Alive(k) == now < expires[k]

\* set(): the lifetime starts anew.
With(k) == [expires EXCEPT ![k] = now + TTL]
Without(k) == [expires EXCEPT ![k] = 0]

Suspends == backend = "redis"

\* Expired entries are swept away, which nobody can see.
SessionTick ==
    /\ now < MaxTime
    /\ now' = now + 1
    /\ UNCHANGED <<backend, expires>>

SessionRestart ==
    /\ expires' = IF backend = "memory" THEN [k \in Keys |-> 0] ELSE expires
    /\ UNCHANGED <<backend, now>>

SessionTypeOK ==
    /\ backend \in {"memory", "redis"}
    /\ now \in 1..MaxTime
    /\ expires \in [Keys -> 0..MaxTime + TTL]
=============================================================================

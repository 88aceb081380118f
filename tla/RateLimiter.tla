----------------------------- MODULE RateLimiter -----------------------------
(* adapters/throttle.py, one bucket of it: a sliding window whose lock is     *)
(* kept while its holder sleeps until the oldest call leaves the window.      *)
EXTENDS Naturals, Sequences

CONSTANTS Callers,
          Limit,    \* calls per window, the safety margin taken off
          Window,   \* the window, in ticks
          MaxTime,  \* bound on the clock
          Nobody

\* throttle.py:57 makes every limit at least 1; the window is 60 s.
ASSUME LimiterAssumption ==
    /\ Limit \in Nat \ {0} /\ Window \in Nat \ {0} /\ MaxTime \in Nat
    /\ Nobody \notin Callers

VARIABLES
    now,     \* the monotonic clock
    calls,   \* _calls[bucket]: when the latest calls were allowed
    holder,  \* who holds the bucket's lock, or Nobody
    until,   \* the holder looks again at this time, having slept if it is not 0
    queue,   \* the lock's waiters, first come first served
    granted  \* history: when every call so far was allowed

limiterVars == <<now, calls, holder, until, queue, granted>>

LimiterInit ==
    /\ now = 0 /\ calls = <<>>
    /\ holder = Nobody /\ until = 0 /\ queue = <<>>
    /\ granted = <<>>

ExpiredEarly == {i \in DOMAIN calls : calls[i] + Window <= now + 1}
\* The calls that left the window, oldest first: `now - calls[0] >= window_s`.
Expired == {i \in DOMAIN calls : calls[i] + Window <= now}

FirstLive == CHOOSE k \in 1..Len(calls) + 1 :
                /\ 1..k - 1 \subseteq Expired
                /\ k \in DOMAIN calls => k \notin Expired
Live == SubSeq(calls, FirstLive, Len(calls))

AllowedOverfull == Len(Live) <= Limit
Allowed == Len(Live) < Limit

\* Leaving `async with` hands the lock to the first waiter, which looks next.
Release(q) ==
    /\ holder' = IF q = <<>> THEN Nobody ELSE Head(q)
    /\ queue' = IF q = <<>> THEN <<>> ELSE Tail(q)
    /\ until' = 0

SleepTooShort(c, q) ==
    /\ holder' = c
    /\ queue' = q
    /\ until' = Live[1] + Window - 1

\* The holder sleeps until the oldest call is a window old; it may wake late.
Sleep(c, q) ==
    /\ holder' = c
    /\ queue' = q
    /\ until' = Live[1] + Window

\* One pass of the loop by c, who holds the lock; q waits for it.
Look(c, q) ==
    /\ IF Allowed
       THEN calls' = Append(Live, now) /\ granted' = Append(granted, now) /\ Release(q)
       ELSE calls' = Live /\ Sleep(c, q) /\ UNCHANGED granted
    /\ UNCHANGED now

Outside(c) == c # holder /\ \A i \in DOMAIN queue : queue[i] # c

\* acquire(): a free lock is taken and looked behind at once.
Ask(c) ==
    /\ Outside(c)
    /\ IF holder = Nobody
       THEN Look(c, <<>>)
       ELSE queue' = Append(queue, c) /\ UNCHANGED <<now, calls, holder, until, granted>>

\* A woken holder, or the waiter that was handed the lock.
LookAgain ==
    /\ holder # Nobody
    /\ now >= until
    /\ Look(holder, queue)

Tick ==
    /\ now < MaxTime
    /\ now' = now + 1
    /\ UNCHANGED <<calls, holder, until, queue, granted>>

LimiterNext == (\E c \in Callers : Ask(c)) \/ LookAgain \/ Tick

LimiterSpec == LimiterInit /\ [][LimiterNext]_limiterVars

-----------------------------------------------------------------------------
LimiterTypeOK ==
    /\ now \in Nat
    /\ calls \in Seq(Nat)
    /\ granted \in Seq(Nat)
    /\ holder \in Callers \cup {Nobody}
    /\ until \in Nat
    /\ queue \in Seq(Callers)

\* throttle.py:88-90 and 5-6, "the adapter paces itself": however callers queue
\* and oversleep, no Limit + 1 calls are allowed within one window.
CallsAreSpaced ==
    \A i \in DOMAIN granted :
        i + Limit \in DOMAIN granted => granted[i + Limit] >= granted[i] + Window

\* throttle.py:92-97 keeps the lock while it sleeps, so that nobody takes the
\* place the sleeper waits for: a caller that slept is allowed when it looks
\* again, and nobody sleeps for more than one window.
OneSleepIsEnough == (until > 0 /\ now >= until) => Allowed
=============================================================================

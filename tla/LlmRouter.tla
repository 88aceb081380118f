------------------------------ MODULE LlmRouter ------------------------------
(* llm/router.py: concurrent requests walk their task's ladder of rungs, over *)
(* one breaker, one semaphore and the per-user budgets.  The code runs on one *)
(* event loop, so an action is everything a request does between two awaits:  *)
(* Submit runs from the limit checks to its first call, and the three actions *)
(* after a call run from its outcome to the next call, sleep or return.       *)
EXTENDS Circuit, UserLimits, ProviderReplies, FiniteSetsExt, SequencesExt

CONSTANTS
    Requests,    \* the handlers that may be inside complete() at once
    Providers, Users, NoUser,
    Tasks, Ladders,  \* task -> the providers of its rungs, in order
    Retries,     \* LLM_RETRIES_PER_MODEL
    Permits,     \* LLM_MAX_CONCURRENT_REQUESTS; 0 means no semaphore
    Dialect,     \* provider -> the adapter it is spoken to by
    Replies,     \* the ways an exchange with a provider may end in this instance
    MaxRequests  \* bound on the requests accepted

\* factory.py:107-118 builds every ladder from the clients that exist, so the
\* walk's "no client" branch (router.py:253-257) has nothing to skip.
ASSUME RouterAssumption ==
    /\ NoUser \notin Users /\ IsFiniteSet(Requests) /\ Tasks # {}
    /\ Ladders \in [Tasks -> Seq(Providers)]
    /\ Retries \in Nat /\ Permits \in Nat /\ MaxRequests \in Nat
    /\ Dialect \in [Providers -> Dialects]
    /\ Replies \subseteq AllReplies

VARIABLES
    circuits,  \* the breaker
    budget,    \* user -> daily cap and rolling window
    req,       \* request -> where it stands
    waiting,   \* the semaphore's waiters, first come first served
    ledger,    \* UsageLedger: ended requests, and those that succeeded
    orphans    \* history: providers whose probe ended in an error not reported

vars == <<circuits, budget, req, waiting, ledger, orphans>>

Starting(u, t) == [stage |-> "idle", user |-> u, task |-> t, rung |-> 0, try |-> 0,
                   skipped |-> {}, calls |-> 0, rejected |-> {}]

Idle == Starting(NoUser, CHOOSE t \in Tasks : TRUE)

Init == /\ circuits = [p \in Providers |-> Closed]
        /\ budget = [u \in Users |-> Unspent]
        /\ req = [r \in Requests |-> Idle]
        /\ waiting = <<>>
        /\ ledger = [requests |-> 0, succeeded |-> 0]
        /\ orphans = {}

Busy(r) == req[r].stage \in {"waiting", "calling", "sleeping"}
InCall == {r \in Requests : req[r].stage = "calling"}

\* The provider of the rung request record x stands on.
RungProvider(x) == Ladders[x.task][x.rung]

Heard(r, reply) == Classed(Dialect[RungProvider(req[r])], reply)

-----------------------------------------------------------------------------
(* The walk down the ladder. *)

\* The rungs below x's that the walk would call: neither skipped by this
\* request nor refused by the breaker.
OpenRungs(x, cs) ==
    {i \in DOMAIN Ladders[x.task] :
        /\ i > x.rung
        /\ Ladders[x.task][i] \notin x.skipped
        /\ Allows(cs[Ladders[x.task][i]])}

\* A request that returned keeps only how it ended and the calls it made.
Settled(x, how) == [Idle EXCEPT !.stage = how, !.calls = x.calls]

Passed(x, i) == {Ladders[x.task][j] : j \in x.rung + 1 .. i - 1}

\* The next rung is taken with its first try; every provider passed over on
\* the way is skipped for the rest of the request.  No rung left: it failed.
Descend(x, cs) ==
    IF OpenRungs(x, cs) = {}
    THEN Settled(x, "failed")
    ELSE LET i == Min(OpenRungs(x, cs))
         IN [x EXCEPT !.stage = "entering", !.rung = i, !.try = 1,
                      !.skipped = @ \cup Passed(x, i)]

\* allows() marks the probe of the provider the walk stops at, and only it.
AfterGate(x, cs) ==
    IF x.stage = "entering" THEN [cs EXCEPT ![RungProvider(x)] = Admitted(@)] ELSE cs

\* A request that reaches _call while the semaphore has `held` permits out and
\* `queue` waiting: it calls at once or goes to the back of the queue.
Entered(x, held, queue) ==
    IF x.stage # "entering" THEN x
    ELSE [x EXCEPT !.stage =
            IF Permits = 0 \/ (held < Permits /\ queue = <<>>) THEN "calling" ELSE "waiting"]

NotedIfServed(x) ==
    [requests  |-> ledger.requests + (IF x.stage = "served" THEN 1 ELSE 0),
     succeeded |-> ledger.succeeded + (IF x.stage = "served" THEN 1 ELSE 0)]

\* note_request(), once per request, when it returns or raises.
Noted(x) ==
    [requests  |-> ledger.requests + (IF x.stage \in {"served", "failed"} THEN 1 ELSE 0),
     succeeded |-> ledger.succeeded + (IF x.stage = "served" THEN 1 ELSE 0)]

-----------------------------------------------------------------------------
(* Entry. *)

\* _check_back_pressure(): every provider of the ladder would be refused.
BackPressureIgnored(t) == FALSE
BackPressure(t) == \A p \in Range(Ladders[t]) : Blocks(circuits[p])

InBudget(u) == u \in Users => UnderDailyCap(budget[u]) /\ UnderRate(budget[u])

Spend(u) == IF u = NoUser THEN budget ELSE [budget EXCEPT ![u] = Charged(@)]

Submit(r, u, t) ==
    LET x == Descend(Starting(u, t), circuits)
    IN /\ ~Busy(r)
       /\ ledger.requests + Cardinality({q \in Requests : Busy(q)}) < MaxRequests
       /\ Ladders[t] # <<>>
       /\ InBudget(u)
       /\ ~BackPressure(t)
       /\ budget' = Spend(u)
       /\ circuits' = AfterGate(x, circuits)
       /\ LET y == Entered(x, Cardinality(InCall), waiting)
          IN /\ req' = [req EXCEPT ![r] = y]
             /\ waiting' = IF y.stage = "waiting" THEN Append(waiting, r) ELSE waiting
       /\ ledger' = Noted(x)
       /\ UNCHANGED orphans

-----------------------------------------------------------------------------
(* The end of a provider call. *)

ResumeWakingNobody(r, x) ==
    /\ req' = [req EXCEPT ![r] = Entered(x, Cardinality(InCall) - 1, waiting)]
    /\ waiting' = IF req'[r].stage = "waiting" THEN Append(waiting, r) ELSE waiting

\* Leaving `async with` hands the permit to the head of the queue; then r goes
\* on as x, and if that is another call it queues behind those who wait.
Resume(r, x) ==
    IF waiting = <<>>
    THEN /\ req' = [req EXCEPT ![r] = Entered(x, Cardinality(InCall) - 1, <<>>)]
         /\ UNCHANGED waiting
    ELSE LET y == Entered(x, Cardinality(InCall), Tail(waiting))
         IN /\ req' = [req EXCEPT ![r] = y, ![Head(waiting)] = [@ EXCEPT !.stage = "calling"]]
            /\ waiting' = Tail(waiting) \o (IF y.stage = "waiting" THEN <<r>> ELSE <<>>)

\* The ledger records the attempt, whatever its outcome.
Counted(x) == [x EXCEPT !.calls = @ + 1]

Answer(r) ==
    LET x == Settled(Counted(req[r]), "served")
    IN /\ req[r].stage = "calling"
       /\ \E reply \in Replies : Heard(r, reply) = "ok"
       /\ circuits' = [circuits EXCEPT ![RungProvider(req[r])] = Succeeded(@)]
       /\ Resume(r, x)
       /\ ledger' = Noted(x)
       /\ UNCHANGED <<budget, orphans>>

Retryable(kind) == kind \in {"busy", "slow", "bad"}

RepeatsOnceTooOften(x, kind) == kind \in {"busy", "bad"} /\ x.try <= Retries + 1

\* _try_rung repeats the call only if a repeat could change something, and a
\* rate limit asking for more than MAX_SLEEP_S is not slept through.
Repeats(x, kind) == kind \in {"busy", "bad"} /\ x.try <= Retries

Backoff(r, reply) ==
    /\ req[r].stage = "calling"
    /\ Repeats(req[r], Heard(r, reply))
    /\ Resume(r, [Counted(req[r]) EXCEPT !.stage = "sleeping"])
    /\ UNCHANGED <<circuits, budget, ledger, orphans>>

\* What complete() tells the breaker about an abandoned rung.
Reported(c, kind) ==
    CASE kind = "auth"   -> Failed(c, TRUE)
      [] Retryable(kind) -> Failed(c, FALSE)
      [] OTHER           -> c

\* `rejected` is history: the providers that said the key is no good.
Rejecting(x, reply) ==
    IF RejectsKey(Dialect[RungProvider(x)], reply)
    THEN [x EXCEPT !.rejected = @ \cup {RungProvider(x)}] ELSE x

AbandonOnlyTheRung(x, kind) == Counted(x)

\* A provider-level error takes the provider's other rungs with it.
Abandon(x, kind) ==
    IF kind = "auth"
    THEN [Counted(x) EXCEPT !.skipped = @ \cup {RungProvider(x)}]
    ELSE Counted(x)

GiveUpRung(r, reply) ==
    LET p    == RungProvider(req[r])
        kind == Heard(r, reply)
        cs   == [circuits EXCEPT ![p] = Reported(@, kind)]
        x    == Descend(Abandon(Rejecting(req[r], reply), kind), cs)
    IN /\ req[r].stage = "calling"
       /\ kind # "ok" /\ ~Repeats(req[r], kind)
       /\ circuits' = AfterGate(x, cs)
       /\ Resume(r, x)
       /\ ledger' = Noted(x)
       /\ orphans' = IF kind = "model" /\ circuits[p].probe THEN orphans \cup {p} ELSE orphans
       /\ UNCHANGED budget

\* The backoff is over: the same rung, one try later, with no second look at
\* the breaker (router.py:387-396 calls straight into the semaphore).
Wake(r) ==
    LET x == [req[r] EXCEPT !.stage = "entering", !.try = @ + 1]
        y == Entered(x, Cardinality(InCall), waiting)
    IN /\ req[r].stage = "sleeping"
       /\ req' = [req EXCEPT ![r] = y]
       /\ waiting' = IF y.stage = "waiting" THEN Append(waiting, r) ELSE waiting
       /\ UNCHANGED <<circuits, budget, ledger, orphans>>

-----------------------------------------------------------------------------
(* Time.  The two monotonic clocks advance together; midnight comes when it   *)
(* comes, because the cap reads the wall clock.                               *)

Tick ==
    /\ circuits' = [p \in Providers |-> Elapsed(circuits[p])]
    /\ budget' = [u \in Users |-> Aged(budget[u])]
    /\ <<circuits', budget'>> # <<circuits, budget>>
    /\ UNCHANGED <<req, waiting, ledger, orphans>>

Midnight ==
    /\ \E u \in Users : budget[u].today > 0
    /\ budget' = [u \in Users |-> Renewed(budget[u])]
    /\ UNCHANGED <<circuits, req, waiting, ledger, orphans>>

Return(r) == \/ Answer(r)
             \/ \E reply \in Replies : Backoff(r, reply) \/ GiveUpRung(r, reply)

Next ==
    \/ \E r \in Requests, u \in Users \cup {NoUser}, t \in Tasks : Submit(r, u, t)
    \/ \E r \in Requests : Answer(r)
    \/ \E r \in Requests, reply \in Replies : Backoff(r, reply)
    \/ \E r \in Requests, reply \in Replies : GiveUpRung(r, reply)
    \/ \E r \in Requests : Wake(r)
    \/ Tick
    \/ Midnight

Spec == Init /\ [][Next]_vars

\* A client call ends because LLM_REQUEST_TIMEOUT_S bounds it, a backoff because
\* MAX_SLEEP_S does, and clocks advance.  Nobody is obliged to ask again.
Fairness ==
    /\ \A r \in Requests : WF_vars(Return(r)) /\ WF_vars(Wake(r))
    /\ WF_vars(Tick)

FairSpec == Spec /\ Fairness

-----------------------------------------------------------------------------
Records == [stage : {"idle", "waiting", "calling", "sleeping", "served", "failed"},
            user : Users \cup {NoUser}, task : Tasks, rung : Nat, try : 0..Retries + 1,
            skipped : SUBSET Providers, calls : Nat, rejected : SUBSET Providers]

TypeOK ==
    /\ circuits \in [Providers -> Circuits]
    /\ budget \in [Users -> Budgets]
    /\ req \in [Requests -> Records]
    /\ waiting \in Seq(Requests)
    /\ ledger \in [requests : Nat, succeeded : Nat]
    /\ orphans \subseteq Providers

\* router.py:473-477: at most Permits provider calls are under way however the
\* requests interleave, those queued are exactly those that wait for a permit,
\* once each, and nobody waits while a permit is free: none is ever lost.
PermitsConserved ==
    /\ TypeOK
    /\ Permits > 0 => Cardinality(InCall) <= Permits
    /\ waiting # <<>> => Cardinality(InCall) = Permits
    /\ Range(waiting) = {r \in Requests : req[r].stage = "waiting"}
    /\ IsInjective(waiting)

\* router.py:233-235, "a request that never reaches a provider must not cost
\* the user a call": a request that was charged for ends only after a call; and
\* usage.py:210-216 and 276-282: concurrent requests of one user never slip past
\* a limit, nothing that waits being between the check and the charge.
ChargesAreFair ==
    /\ \A r \in Requests : req[r].stage \in {"served", "failed"} => req[r].calls > 0
    /\ \A u \in Users :
        /\ DailyLimit > 0 => budget[u].today <= DailyLimit
        /\ RateLimit > 0 => Len(budget[u].recent) <= RateLimit

\* llm_errors.py:51-56: a rejected key is not tried again by the request that
\* learnt of it, in whichever way the provider's dialect says so, even when
\* another request has closed the circuit meanwhile.
RejectedKeyIsLeftAlone ==
    \A r \in Requests : Busy(r) => RungProvider(req[r]) \notin req[r].rejected

\* router.py:384-416: a request on its n-th rung has made at most Retries + 1
\* calls for each rung above, and no more on this one than it has tries.
CallsPerRungBounded ==
    \A r \in Requests : Busy(r) =>
        /\ req[r].try <= Retries + 1
        /\ req[r].calls <= (Retries + 1) * (req[r].rung - 1) + req[r].try
                           - (IF req[r].stage = "sleeping" THEN 0 ELSE 1)

\* router.py:207-316 against what the rest of the bot is promised.
Service == INSTANCE RequestService WITH
    phase <- [r \in Requests |-> IF Busy(r) THEN "pending" ELSE req[r].stage],
    requests <- ledger.requests,
    succeeded <- ledger.succeeded

ImplementsService == Service!Spec

\* breaker.py:61-62, "a provider that recovers is found again promptly": a
\* provider is never refused for ever.
ProviderIsFoundAgain == \A p \in Providers : []<>~Blocks(circuits[p])

\* The part of it that holds: a refusal ends, unless a probe of the provider
\* ended in an error the breaker is not told of (router.py:306).
RefusalsEnd == \A p \in Providers : []<>(~Blocks(circuits[p]) \/ p \in orphans)
=============================================================================

---------------------------- MODULE RestTransport ----------------------------
(* adapters/rest.py, _request(): one call is paced once, then sent until an   *)
(* answer settles it or its attempts run out.  A request that was given up on *)
(* is still on the wire: the server may get to it after its retry, or after   *)
(* the caller was told it failed.  All calls share one bucket but health().   *)
EXTENDS RateLimiter, FiniteSets

CONSTANTS MaxRetries  \* NOTEDISCOVERY_MAX_RETRIES

ASSUME RetriesAssumption == MaxRetries \in Nat

\* A create or an append, a delete (or a move), which finds nothing the second
\* time, and health(), which no bucket paces.
Kinds == {"write", "delete", "health"}

VARIABLES
    req,     \* call -> [kind, at, attempt, reply, outcome]
    wire,    \* the sends the server has not looked at, <<call, attempt>>
    applied  \* call -> how many of its sends took effect

vars == <<now, calls, holder, until, queue, granted, req, wire, applied>>

Fresh(kind, at) == [kind |-> kind, at |-> at, attempt |-> 0, reply |-> "none", outcome |-> "none"]

Init ==
    /\ LimiterInit
    /\ req = [r \in Callers |-> Fresh("write", "idle")]
    /\ wire = {}
    /\ applied = [r \in Callers |-> 0]

-----------------------------------------------------------------------------
(* The call. *)

Attempts(kind) == IF kind = "health" THEN 1 ELSE MaxRetries + 1

Sent(x) == [x EXCEPT !.at = "sending", !.attempt = @ + 1, !.reply = "none"]

\* r goes on as x, which is sent if it was allowed to.
GoesOn(r, x, allowed) ==
    /\ req' = [req EXCEPT ![r] = IF allowed THEN Sent(x) ELSE x]
    /\ wire' = IF allowed THEN wire \cup {<<r, x.attempt + 1>>} ELSE wire
    /\ UNCHANGED applied

Call(r, kind) ==
    LET x == Fresh(kind, "pacing")
    IN /\ req[r].at = "idle"
       /\ IF kind = "health"
          THEN GoesOn(r, x, TRUE) /\ UNCHANGED limiterVars
          ELSE Ask(r) /\ GoesOn(r, x, holder = Nobody /\ Allowed)

Paced ==
    /\ LookAgain
    /\ GoesOn(holder, req[holder], Allowed)

TakesATimeoutForARefusal(kind, status, attempt) ==
    CASE status = "ok" -> "ok"
      [] status = "gateway" /\ attempt < Attempts(kind) -> "retry"
      [] status \in {"refused", "none"} -> "refused"
      [] OTHER -> "unavailable"

RetriesOnceTooOften(kind, status, attempt) ==
    CASE status = "ok" -> "ok"
      [] status \in {"none", "gateway"} /\ attempt <= Attempts(kind) -> "retry"
      [] status = "refused" -> "refused"
      [] OTHER -> "unavailable"

\* What becomes of an attempt: no answer and 502, 503 and 504 ("gateway") are
\* tried again while attempts remain, any other 5xx ("error") and a 4xx are not.
Verdict(kind, status, attempt) ==
    CASE status = "ok" -> "ok"
      [] status \in {"none", "gateway"} /\ attempt < Attempts(kind) -> "retry"
      [] status = "refused" -> "refused"
      [] OTHER -> "unavailable"

Settle(r, status) ==
    LET verdict == Verdict(req[r].kind, status, req[r].attempt)
    IN /\ req' = [req EXCEPT ![r] =
                     IF verdict = "retry" THEN [@ EXCEPT !.at = "backoff", !.reply = "none"]
                     ELSE [@ EXCEPT !.at = "ended", !.reply = "none", !.outcome = verdict]]
       /\ UNCHANGED <<wire, applied>> /\ UNCHANGED limiterVars

Answered(r) == req[r].at = "sending" /\ req[r].reply # "none" /\ Settle(r, req[r].reply)

\* A timeout or a broken connection: at any time, the answer may be on its way.
Unanswered(r) == req[r].at = "sending" /\ Settle(r, "none")

\* The backoff is over.  The retry asks the limiter nothing.
Retry(r) ==
    /\ req[r].at = "backoff"
    /\ GoesOn(r, req[r], TRUE)
    /\ UNCHANGED limiterVars

-----------------------------------------------------------------------------
(* The server and what lies between.  It answers the attempt r still waits    *)
(* for; the answer to an older one reaches nobody.                            *)

Replied(m, status) ==
    [req EXCEPT ![m[1]].reply =
        IF req[m[1]].at = "sending" /\ req[m[1]].attempt = m[2] THEN status ELSE @]

ServerApplies(m) ==
    /\ req[m[1]].kind = "delete" => applied[m[1]] = 0
    /\ wire' = wire \ {m}
    /\ applied' = [applied EXCEPT ![m[1]] = @ + 1]
    /\ \E status \in {"ok", "error"} : req' = Replied(m, status)
    /\ UNCHANGED limiterVars

ServerRefuses(m) ==
    /\ wire' = wire \ {m}
    /\ \E status \in {"refused", "error"} : req' = Replied(m, status)
    /\ UNCHANGED applied /\ UNCHANGED limiterVars

\* A proxy gives up; the server may still have the request before it.
GatewayGivesUp(r) ==
    /\ req[r].at = "sending" /\ req[r].reply = "none"
    /\ req' = [req EXCEPT ![r].reply = "gateway"]
    /\ UNCHANGED <<wire, applied>> /\ UNCHANGED limiterVars

TimePasses == Tick /\ UNCHANGED <<req, wire, applied>>

Next ==
    \/ \E r \in Callers :
         \/ \E kind \in Kinds : Call(r, kind)
         \/ Answered(r) \/ Unanswered(r) \/ Retry(r) \/ GatewayGivesUp(r)
    \/ Paced
    \/ \E m \in wire : ServerApplies(m) \/ ServerRefuses(m)
    \/ TimePasses

Spec == Init /\ [][Next]_vars

-----------------------------------------------------------------------------
TypeOK ==
    /\ LimiterTypeOK
    /\ req \in [Callers -> [kind : Kinds, at : {"idle", "pacing", "sending", "backoff", "ended"},
                            attempt : 0..MaxRetries + 1,
                            reply : {"none", "ok", "refused", "error", "gateway"},
                            outcome : {"none", "ok", "refused", "unavailable"}]]
    /\ wire \subseteq Callers \X (1..MaxRetries + 1)
    /\ applied \in [Callers -> Nat]

\* rest.py:172-197: success is reported only for what the server did, and a
\* refusal of a call that was sent once for what it did not and will not do.
OutcomesAreTrue ==
    \A r \in Callers :
        /\ req[r].outcome = "ok" => applied[r] > 0
        /\ (req[r].outcome = "refused" /\ req[r].attempt = 1)
              => applied[r] = 0 /\ <<r, 1>> \notin wire

\* rest.py:149-166: what a call may still do and has done is bounded by the
\* times it was sent, however late the server gets to it, and health(), which
\* "never retries" (rest.py:285), is sent once.  Every call that has a bucket takes
\* exactly one place in its window however often it is sent (rest.py:140-145):
\* with CallsAreSpaced, calls are paced, not sends.
EffectsAreBounded ==
    /\ TypeOK
    /\ Cardinality({r \in Callers : req[r].kind # "health" /\ req[r].attempt > 0}) = Len(granted)
    /\ \A r \in Callers :
        /\ applied[r] + Cardinality({m \in wire : m[1] = r}) <= req[r].attempt
        /\ req[r].attempt <= Attempts(req[r].kind)
=============================================================================

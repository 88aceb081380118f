-------------------------- MODULE RestTransportProofs --------------------------
(* The transport for every set of callers, every limit and window and every   *)
(* number of retries: it drives the limiter as the limiter's own              *)
(* specification allows, what an outcome says of the vault is true, and what  *)
(* a call may still do is bounded by how often it was sent.                   *)
EXTENDS RestTransport, FiniteSetTheorems, SequenceTheorems, WellFoundedInduction, TLAPS

-----------------------------------------------------------------------------
(* The limiter by itself.  A search from the front that finds anything finds  *)
(* a first one.                                                               *)

\* A set of naturals has a least element.
LEMMA LeastElement ==
    ASSUME NEW T, T \subseteq Nat, T # {}
    PROVE  \E x \in T : \A y \in T : x <= y
<1>1. IsWellFoundedOn(OpToRel(<, Nat), Nat)
  BY NatLessThanWellFounded
<1>2. PICK x \in T : \A y \in T : ~(<<y, x>> \in OpToRel(<, Nat))
  BY <1>1, WFMin
<1>3. \A y \in T : ~(y < x)
  BY <1>2 DEF OpToRel
<1> QED BY <1>3

-----------------------------------------------------------------------------
(* What a look behind the lock drops. *)

\* FirstLive is the first call still in the window, or one past the last.
LEMMA FirstLiveProperties ==
    ASSUME calls \in Seq(Nat), now \in Nat
    PROVE  /\ FirstLive \in 1..Len(calls) + 1
           /\ \A i \in 1..FirstLive - 1 : i \in DOMAIN calls /\ calls[i] + Window <= now
           /\ FirstLive \in DOMAIN calls => ~(calls[FirstLive] + Window <= now)
<1> DEFINE T == {k \in 1..Len(calls) + 1 : k \in DOMAIN calls => k \notin Expired}
<1>1. T \subseteq Nat /\ T # {}
  <2>1. Len(calls) + 1 \in T
    BY DEF Expired
  <2> QED BY <2>1
<1> HIDE DEF T
<1>2. PICK k \in T : \A j \in T : k <= j
  BY <1>1, LeastElement
<1>3. 1..k - 1 \subseteq Expired
  BY <1>2 DEF T, Expired
<1>4. \E x \in 1..Len(calls) + 1 : 1..x - 1 \subseteq Expired /\ (x \in DOMAIN calls => x \notin Expired)
  BY <1>2, <1>3 DEF T
<1>5. /\ FirstLive \in 1..Len(calls) + 1
      /\ 1..FirstLive - 1 \subseteq Expired
      /\ FirstLive \in DOMAIN calls => FirstLive \notin Expired
  BY <1>4 DEF FirstLive
<1> QED BY <1>5 DEF Expired

\* Live is what is left of calls from FirstLive on.
LEMMA LiveProperties ==
    ASSUME calls \in Seq(Nat), now \in Nat
    PROVE  /\ Live \in Seq(Nat)
           /\ Len(Live) = Len(calls) - FirstLive + 1
           /\ \A i \in 1..Len(Live) : Live[i] = calls[FirstLive + i - 1]
<1>1. FirstLive \in 1..Len(calls) + 1
  BY FirstLiveProperties
<1>2. \A i \in FirstLive..Len(calls) : calls[i] \in Nat
  BY <1>1
<1>3. /\ SubSeq(calls, FirstLive, Len(calls)) \in Seq(Nat)
      /\ Len(SubSeq(calls, FirstLive, Len(calls)))
            = IF FirstLive <= Len(calls) THEN Len(calls) - FirstLive + 1 ELSE 0
      /\ \A i \in 1..Len(calls) - FirstLive + 1 :
            SubSeq(calls, FirstLive, Len(calls))[i] = calls[FirstLive + i - 1]
  BY <1>1, <1>2, SubSeqProperties
<1> QED BY <1>1, <1>3 DEF Live

-----------------------------------------------------------------------------
(* The inductive invariant. *)

\* The deque is the end of the history: what it forgot has left the window.
Remembers ==
    /\ Len(calls) <= Limit
    /\ Len(calls) <= Len(granted)
    /\ \A i \in 1..Len(calls) : calls[i] = granted[Len(granted) - Len(calls) + i]
    /\ \A i \in 1..Len(granted) - Len(calls) : granted[i] + Window <= now

\* Who sleeps keeps the lock, the deque is full, and it sleeps for its head.
Sleeps ==
    until > 0 => /\ holder # Nobody
                 /\ Len(calls) = Limit
                 /\ until = calls[1] + Window

IInv == LimiterTypeOK /\ Remembers /\ CallsAreSpaced /\ Sleeps

LEMMA InitInvariant == LimiterInit => IInv
BY LimiterAssumption DEF LimiterInit, IInv, LimiterTypeOK, Remembers, CallsAreSpaced, Sleeps

\* Dropping what left the window changes nothing the invariant says.
LEMMA LiveRemembers ==
    ASSUME LimiterTypeOK, Remembers
    PROVE  /\ Live \in Seq(Nat)
           /\ Len(Live) <= Limit /\ Len(Live) <= Len(granted)
           /\ \A i \in 1..Len(Live) : Live[i] = granted[Len(granted) - Len(Live) + i]
           /\ \A i \in 1..Len(granted) - Len(Live) : granted[i] + Window <= now
<1> USE LimiterAssumption DEF LimiterTypeOK, Remembers
<1>1. /\ FirstLive \in 1..Len(calls) + 1
      /\ \A i \in 1..FirstLive - 1 : i \in DOMAIN calls /\ calls[i] + Window <= now
  BY FirstLiveProperties
<1>2. /\ Live \in Seq(Nat)
      /\ Len(Live) = Len(calls) - FirstLive + 1
      /\ \A i \in 1..Len(Live) : Live[i] = calls[FirstLive + i - 1]
  BY LiveProperties
<1>3. ASSUME NEW i \in 1..Len(Live)
      PROVE  Live[i] = granted[Len(granted) - Len(Live) + i]
  <2> DEFINE j == FirstLive + i - 1
  <2>1. j \in 1..Len(calls) /\ Live[i] = calls[j]
    BY <1>1, <1>2
  <2>2. calls[j] = granted[Len(granted) - Len(calls) + j]
    BY <2>1
  <2>3. Len(granted) - Len(calls) + j = Len(granted) - Len(Live) + i
    BY <1>1, <1>2
  <2> QED BY <2>1, <2>2, <2>3
<1>4. ASSUME NEW i \in 1..Len(granted) - Len(Live) PROVE granted[i] + Window <= now
  <2>1. CASE i <= Len(granted) - Len(calls)
    BY <2>1, <1>4
  <2>2. CASE i > Len(granted) - Len(calls)
    <3> DEFINE j == i - (Len(granted) - Len(calls))
    <3>1. j \in 1..FirstLive - 1
      BY <2>2, <1>1, <1>2, <1>4
    <3>2. calls[j] = granted[i]
      BY <3>1, <1>1, <2>2, <1>4
    <3> QED BY <3>1, <3>2, <1>1
  <2> QED BY <2>1, <2>2
<1> QED BY <1>1, <1>2, <1>3, <1>4

\* A look behind the lock: a grant is a window later than the grant Limit
\* places before it, because the deque no longer remembers that one.
LEMMA LookInvariant ==
    ASSUME IInv, NEW c \in Callers, NEW q \in Seq(Callers), Look(c, q)
    PROVE  IInv'
<1> USE LimiterAssumption DEF IInv, LimiterTypeOK
<1>1. /\ Live \in Seq(Nat)
      /\ Len(Live) <= Limit /\ Len(Live) <= Len(granted)
      /\ \A i \in 1..Len(Live) : Live[i] = granted[Len(granted) - Len(Live) + i]
      /\ \A i \in 1..Len(granted) - Len(Live) : granted[i] + Window <= now
  BY LiveRemembers
<1>2. CASE Allowed
  <2>1. /\ calls' = Append(Live, now) /\ granted' = Append(granted, now)
        /\ until' = 0 /\ now' = now
        /\ holder' \in Callers \cup {Nobody} /\ queue' \in Seq(Callers)
    <3>1. CASE q = <<>>
      BY <1>2, <3>1 DEF Look, Release
    <3>2. CASE q # <<>>
      <4>1. Head(q) \in Callers /\ Tail(q) \in Seq(Callers)
        BY <3>2, HeadTailProperties
      <4> QED BY <1>2, <3>2, <4>1 DEF Look, Release
    <3> QED BY <3>1, <3>2
  <2>2. /\ calls' \in Seq(Nat) /\ granted' \in Seq(Nat)
        /\ Len(calls') = Len(Live) + 1 /\ Len(granted') = Len(granted) + 1
        /\ \A i \in 1..Len(Live) : calls'[i] = Live[i]
        /\ \A i \in 1..Len(granted) : granted'[i] = granted[i]
        /\ calls'[Len(Live) + 1] = now /\ granted'[Len(granted) + 1] = now
    BY <1>1, <2>1
  <2>3. Len(Live) < Limit
    BY <1>2 DEF Allowed
  <2>4. Remembers'
    <3> DEFINE m == Len(granted') - Len(calls')
    <3>1. m = Len(granted) - Len(Live) /\ m \in Nat
      BY <1>1, <2>2
    <3>2. \A i \in 1..m : granted'[i] + Window <= now'
      BY <1>1, <2>1, <2>2, <3>1
    <3>3. ASSUME NEW i \in 1..Len(calls') PROVE calls'[i] = granted'[m + i]
      <4>1. CASE i <= Len(Live)
        <5>1. i \in 1..Len(Live) /\ m + i \in 1..Len(granted)
          BY <1>1, <2>2, <3>1, <4>1
        <5>2. calls'[i] = Live[i] /\ granted'[m + i] = granted[m + i]
          BY <2>2, <5>1
        <5> QED BY <1>1, <3>1, <5>1, <5>2
      <4>2. CASE i = Len(Live) + 1
        BY <1>1, <2>2, <3>1, <4>2
      <4> QED BY <2>2, <4>1, <4>2, <1>1
    <3> QED BY <1>1, <2>2, <2>3, <3>1, <3>2, <3>3 DEF Remembers
  <2>5. ASSUME NEW i \in DOMAIN granted', i + Limit \in DOMAIN granted'
        PROVE  granted'[i + Limit] >= granted'[i] + Window
    <3>0. i \in Nat /\ i >= 1 /\ i + Limit <= Len(granted) + 1
      BY <2>2, <2>5
    <3>1. CASE i + Limit <= Len(granted)
      <4>1. i \in 1..Len(granted) /\ i + Limit \in 1..Len(granted)
        BY <3>0, <3>1
      <4>2. granted[i + Limit] >= granted[i] + Window
        BY <4>1 DEF CallsAreSpaced
      <4> QED BY <2>2, <4>1, <4>2
    <3>2. CASE i + Limit = Len(granted) + 1
      <4>1. i \in 1..Len(granted) - Len(Live) /\ i \in 1..Len(granted)
        BY <1>1, <2>3, <3>0, <3>2
      <4>2. granted[i] + Window <= now
        BY <1>1, <4>1
      <4>3. granted'[i] = granted[i] /\ granted'[i + Limit] = now
        BY <2>2, <4>1, <3>2
      <4>4. granted[i] \in Nat /\ now \in Nat
        BY <4>1
      <4> QED BY <4>2, <4>3, <4>4
    <3>3. i + Limit <= Len(granted) \/ i + Limit = Len(granted) + 1
      <4>1. Len(granted) \in Nat /\ Limit \in Nat /\ i \in Nat
        BY <3>0
      <4> HIDE DEF IInv, LimiterTypeOK
      <4> QED BY <3>0, <4>1
    <3> QED BY <3>1, <3>2, <3>3
  <2>6. CallsAreSpaced'
    BY <2>1, <2>5 DEF CallsAreSpaced
  <2> QED BY <2>1, <2>2, <2>4, <2>6 DEF Sleeps
<1>3. CASE ~Allowed
  <2>1. /\ calls' = Live /\ granted' = granted /\ now' = now
        /\ holder' = c /\ queue' = q /\ until' = Live[1] + Window
    BY <1>3 DEF Look, Sleep
  <2>2. Len(Live) = Limit
    BY <1>1, <1>3 DEF Allowed
  <2>3. Remembers'
    BY <1>1, <2>1 DEF Remembers
  <2>4. CallsAreSpaced'
    BY <2>1 DEF CallsAreSpaced
  <2> QED BY <1>1, <2>1, <2>2, <2>3, <2>4 DEF Sleeps
<1> QED BY <1>2, <1>3

LEMMA NextInvariant == IInv /\ [LimiterNext]_limiterVars => IInv'
<1> SUFFICES ASSUME IInv, [LimiterNext]_limiterVars PROVE IInv'
  OBVIOUS
<1>1. ASSUME NEW c \in Callers, Ask(c) PROVE IInv'
  <2>1. CASE holder = Nobody
    <3>1. Look(c, <<>>) /\ <<>> \in Seq(Callers)
      BY <1>1, <2>1 DEF Ask
    <3> QED BY <3>1, LookInvariant
  <2>2. CASE holder # Nobody
    <3>1. /\ queue' = Append(queue, c)
          /\ UNCHANGED <<now, calls, holder, until, granted>>
      BY <1>1, <2>2 DEF Ask
    <3>2. LimiterTypeOK'
      BY <3>1 DEF IInv, LimiterTypeOK
    <3>3. Remembers' /\ CallsAreSpaced' /\ Sleeps'
      BY <3>1 DEF IInv, Remembers, CallsAreSpaced, Sleeps
    <3> QED BY <3>2, <3>3 DEF IInv
  <2> QED BY <2>1, <2>2
<1>2. CASE LookAgain
  <2>1. holder \in Callers /\ queue \in Seq(Callers)
    BY <1>2 DEF LookAgain, IInv, LimiterTypeOK
  <2> QED BY <1>2, <2>1, LookInvariant DEF LookAgain
<1>3. CASE Tick
  <2>1. \A i \in 1..Len(granted) - Len(calls) : granted[i] + Window <= now'
    <3>1. now' = now + 1 /\ now \in Nat /\ Window \in Nat
      BY <1>3, LimiterAssumption DEF Tick, IInv, LimiterTypeOK
    <3>2. \A i \in 1..Len(granted) - Len(calls) :
             granted[i] \in Nat /\ granted[i] + Window <= now
      <4>1. Len(granted) \in Nat /\ Len(calls) \in Nat
        BY DEF IInv, LimiterTypeOK
      <4>2. \A i \in 1..Len(granted) : granted[i] \in Nat
        BY DEF IInv, LimiterTypeOK
      <4>3. \A i \in 1..Len(granted) - Len(calls) : i \in 1..Len(granted)
        BY <4>1
      <4> QED BY <4>2, <4>3 DEF IInv, Remembers
    <3> QED BY <3>1, <3>2
  <2> QED BY <1>3, <2>1, LimiterAssumption
       DEF Tick, IInv, LimiterTypeOK, Remembers, CallsAreSpaced, Sleeps
<1>4. CASE UNCHANGED limiterVars
  BY <1>4 DEF limiterVars, IInv, LimiterTypeOK, Remembers, CallsAreSpaced, Sleeps
<1> QED BY <1>1, <1>2, <1>3, <1>4 DEF LimiterNext

\* The limiter's variables keep their types.
THEOREM LimiterTypeCorrect == LimiterSpec => []LimiterTypeOK
<1>1. IInv => LimiterTypeOK
  BY DEF IInv
<1> QED BY <1>1, InitInvariant, NextInvariant, PTL DEF LimiterSpec

\* No Limit + 1 calls are ever allowed within one window (throttle.py:86-90).
THEOREM CallsArePaced == LimiterSpec => []CallsAreSpaced
<1>1. IInv => CallsAreSpaced
  BY DEF IInv
<1> QED BY <1>1, InitInvariant, NextInvariant, PTL DEF LimiterSpec

\* A caller that slept is allowed when it looks again (throttle.py:92-97).
THEOREM NobodySleepsTwice == LimiterSpec => []OneSleepIsEnough
<1>1. IInv => OneSleepIsEnough
  <2> SUFFICES ASSUME IInv, until > 0, now >= until PROVE Allowed
    BY DEF OneSleepIsEnough
  <2> USE LimiterAssumption DEF IInv, LimiterTypeOK, Sleeps
  <2>1. 1 \in DOMAIN calls /\ calls[1] + Window <= now
    OBVIOUS
  <2>2. FirstLive # 1
    BY <2>1, FirstLiveProperties
  <2>3. Len(Live) = Len(calls) - FirstLive + 1 /\ FirstLive \in 1..Len(calls) + 1
    BY LiveProperties, FirstLiveProperties
  <2> QED BY <2>2, <2>3 DEF Allowed
<1> QED BY <1>1, InitInvariant, NextInvariant, PTL DEF LimiterSpec

-----------------------------------------------------------------------------
(* The transport over the limiter. *)

Requests == [kind : Kinds, at : {"idle", "pacing", "sending", "backoff", "ended"},
             attempt : 0..MaxRetries + 1,
             reply : {"none", "ok", "refused", "error", "gateway"},
             outcome : {"none", "ok", "refused", "unavailable"}]

OnTheWire(r) == {m \in wire : m[1] = r}

-----------------------------------------------------------------------------
(* The limiter inside the transport. *)

LEMMA StepDrivesTheLimiter == [Next]_vars => [LimiterNext]_limiterVars
<1> SUFFICES ASSUME [Next]_vars PROVE [LimiterNext]_limiterVars
  OBVIOUS
<1>1. ASSUME NEW r \in Callers, NEW kind \in Kinds, Call(r, kind) PROVE [LimiterNext]_limiterVars
  BY <1>1 DEF Call, LimiterNext
<1>2. ASSUME NEW r \in Callers, Answered(r) \/ Unanswered(r) PROVE UNCHANGED limiterVars
  BY <1>2 DEF Answered, Unanswered, Settle
<1>3. ASSUME NEW r \in Callers, Retry(r) \/ GatewayGivesUp(r) PROVE UNCHANGED limiterVars
  BY <1>3 DEF Retry, GatewayGivesUp
<1>4. CASE Paced
  BY <1>4 DEF Paced, LimiterNext
<1>5. ASSUME NEW m \in wire, ServerApplies(m) \/ ServerRefuses(m) PROVE UNCHANGED limiterVars
  BY <1>5 DEF ServerApplies, ServerRefuses
<1>6. CASE TimePasses
  BY <1>6 DEF TimePasses, LimiterNext
<1>7. CASE UNCHANGED vars
  BY <1>7 DEF vars, limiterVars
<1> QED BY <1>1, <1>2, <1>3, <1>4, <1>5, <1>6, <1>7 DEF Next

\* Whatever is sent, retried, applied late or lost, the bucket sees nothing but
\* calls of acquire() and the clock: every property of the limiter is the
\* transport's.
THEOREM TransportDrivesTheLimiter == Spec => LimiterSpec
<1>1. Init => LimiterInit
  BY DEF Init
<1> QED BY <1>1, StepDrivesTheLimiter, PTL DEF Spec, LimiterSpec

\* The pacing of the limiter and its single sleep are kept by the transport.
THEOREM TransportIsPaced == Spec => [](CallsAreSpaced /\ OneSleepIsEnough)
BY TransportDrivesTheLimiter, CallsArePaced, NobodySleepsTwice, PTL

-----------------------------------------------------------------------------
(* The inductive invariant. *)

RequestsTyped ==
    /\ req \in [Callers -> Requests]
    /\ wire \subseteq Callers \X (1..MaxRetries + 1)
    /\ applied \in [Callers -> Nat]

\* Who holds the bucket's lock or waits for it is pacing, and is there once.
Waiting ==
    /\ holder # Nobody => req[holder].at = "pacing"
    /\ \A i \in 1..Len(queue) : req[queue[i]].at = "pacing" /\ queue[i] # holder
    /\ \A i, j \in 1..Len(queue) : queue[i] = queue[j] => i = j

\* Where a call is, and how often it was and may be sent.
InOrder(r) ==
    /\ req[r].at \in {"idle", "pacing"} <=> req[r].attempt = 0
    /\ req[r].at = "pacing" => req[r].kind # "health"
    /\ req[r].attempt <= Attempts(req[r].kind)
    /\ req[r].at \in {"pacing", "backoff"} => req[r].attempt < Attempts(req[r].kind)
    /\ req[r].at # "sending" => req[r].reply = "none"
    /\ req[r].at # "ended" => req[r].outcome = "none"

\* What was said of a call, and what the vault and the wire know of it.
Truthful(r) ==
    /\ req[r].reply = "ok" \/ req[r].outcome = "ok" => applied[r] > 0
    /\ req[r].attempt = 1 /\ (req[r].reply = "refused" \/ req[r].outcome = "refused")
          => applied[r] = 0 /\ <<r, 1>> \notin wire
    /\ req[r].attempt = 1 /\ <<r, 1>> \in wire => applied[r] = 0
    /\ \A n \in 1..MaxRetries + 1 : <<r, n>> \in wire => n <= req[r].attempt

\* Every send is on the wire, has had its effect, or neither; never both.
Counted(r) ==
    /\ IsFiniteSet(OnTheWire(r))
    /\ applied[r] + Cardinality(OnTheWire(r)) <= req[r].attempt

TInv == RequestsTyped /\ Waiting /\ \A r \in Callers : InOrder(r) /\ Truthful(r) /\ Counted(r)

LEMMA AttemptsBounded ==
    ASSUME NEW kind \in Kinds
    PROVE  Attempts(kind) \in 1..MaxRetries + 1
BY RetriesAssumption DEF Attempts

LEMMA SentFields ==
    ASSUME NEW x \in Requests, x.attempt + 1 \in 1..MaxRetries + 1
    PROVE  /\ Sent(x) \in Requests
           /\ Sent(x).at = "sending" /\ Sent(x).attempt = x.attempt + 1
           /\ Sent(x).reply = "none"
           /\ Sent(x).kind = x.kind /\ Sent(x).outcome = x.outcome
<1>1. x.attempt + 1 \in 0..MaxRetries + 1
  BY RetriesAssumption
<1> QED BY <1>1 DEF Sent, Requests

LEMMA InitTransport == Init => TInv
<1> SUFFICES ASSUME Init PROVE TInv
  OBVIOUS
<1>1. RequestsTyped
  BY RetriesAssumption DEF Init, RequestsTyped, Requests, Fresh, Kinds
<1>2. Waiting
  BY DEF Init, LimiterInit, Waiting
<1>3. ASSUME NEW r \in Callers PROVE InOrder(r) /\ Truthful(r)
  <2>1. req[r] = Fresh("write", "idle") /\ wire = {} /\ applied[r] = 0
    BY DEF Init
  <2> QED BY <2>1, RetriesAssumption DEF InOrder, Truthful, Fresh, Attempts
<1>4. ASSUME NEW r \in Callers PROVE Counted(r)
  <2>1. OnTheWire(r) = {} /\ applied[r] = 0 /\ req[r].attempt = 0
    BY DEF Init, OnTheWire, Fresh
  <2> QED BY <2>1, FS_EmptySet DEF Counted
<1> QED BY <1>1, <1>2, <1>3, <1>4 DEF TInv

-----------------------------------------------------------------------------
(* A call that goes on. *)

\* What holds of a request x that GoesOn may set r to.
MayGoOn(r, x) ==
    /\ x \in Requests
    /\ x.at \in {"pacing", "backoff"}
    /\ x.at = "pacing" <=> x.attempt = 0
    /\ x.attempt = req[r].attempt
    /\ x.attempt < Attempts(x.kind)
    /\ x.reply = "none" /\ x.outcome = "none"

LEMMA GoingOnKeeps ==
    ASSUME TInv, NEW r \in Callers, NEW x, MayGoOn(r, x), NEW allowed \in BOOLEAN,
           x.at = "pacing" => x.kind # "health" \/ allowed,
           GoesOn(r, x, allowed)
    PROVE  /\ RequestsTyped'
           /\ \A p \in Callers : (InOrder(p) /\ Truthful(p) /\ Counted(p))'
           /\ \A p \in Callers : p # r => req'[p] = req[p]
           /\ allowed => /\ req'[r].at = "sending" /\ req'[r].kind = x.kind
                         /\ req'[r].attempt = x.attempt + 1
           /\ ~allowed => req'[r] = x
<1>0. /\ req \in [Callers -> Requests] /\ wire \subseteq Callers \X (1..MaxRetries + 1)
      /\ applied \in [Callers -> Nat] /\ applied' = applied /\ MaxRetries \in Nat
      /\ x.attempt \in Nat /\ x.kind \in Kinds /\ x \in Requests
      /\ req[r].attempt = x.attempt
      /\ Attempts(x.kind) \in 1..MaxRetries + 1 /\ x.attempt + 1 \in 1..MaxRetries + 1
      /\ x.attempt + 1 <= Attempts(x.kind)
  BY RetriesAssumption, AttemptsBounded DEF TInv, RequestsTyped, MayGoOn, GoesOn, Requests
<1>1. CASE allowed
  <2> DEFINE n == x.attempt + 1
  <2>1. /\ Sent(x) \in Requests /\ Sent(x).at = "sending" /\ Sent(x).attempt = n
        /\ Sent(x).reply = "none" /\ Sent(x).outcome = "none" /\ Sent(x).kind = x.kind
    BY <1>0, SentFields DEF MayGoOn
  <2>2. req' = [req EXCEPT ![r] = Sent(x)] /\ wire' = wire \cup {<<r, n>>}
    BY <1>1 DEF GoesOn
  <2>3. /\ req'[r] = Sent(x) /\ \A p \in Callers : p # r => req'[p] = req[p]
        /\ RequestsTyped'
    BY <1>0, <2>1, <2>2 DEF RequestsTyped
  <2>4. <<r, n>> \notin wire
    <3>1. Truthful(r) /\ n \in 1..MaxRetries + 1 /\ ~(n <= req[r].attempt)
      BY <1>0 DEF TInv
    <3> QED BY <3>1 DEF Truthful
  <2>5. \A p \in Callers : InOrder(p)'
    <3>1. ASSUME NEW p \in Callers, p # r PROVE InOrder(p)'
      <4>1. InOrder(p) /\ req'[p] = req[p]
        BY <2>3, <3>1 DEF TInv
      <4> QED BY <4>1 DEF InOrder
    <3>2. InOrder(r)'
      <4> HIDE DEF Sent
      <4>1. /\ req'[r].at = "sending" /\ req'[r].attempt = n /\ req'[r].attempt # 0
            /\ req'[r].kind = x.kind /\ req'[r].outcome = "none"
            /\ n <= Attempts(x.kind)
        BY <1>0, <2>1, <2>3
      <4> QED BY <4>1 DEF InOrder, Attempts
    <3> QED BY <3>1, <3>2
  <2>6. \A p \in Callers : Truthful(p)'
    <3>1. ASSUME NEW p \in Callers, p # r PROVE Truthful(p)'
      BY <1>0, <2>2, <2>3, <3>1 DEF TInv, Truthful
    <3>2. Truthful(r)'
      <4>1. n = 1 => applied[r] = 0
        <5>1. applied[r] + Cardinality(OnTheWire(r)) <= x.attempt /\ Cardinality(OnTheWire(r)) \in Nat
          BY <1>0, FS_CardinalityType DEF TInv, Counted
        <5> QED BY <1>0, <5>1
      <4>2. req'[r].reply = "none" /\ req'[r].outcome = "none" /\ req'[r].attempt = n
        BY <2>1, <2>3
      <4>3. \A k \in 1..MaxRetries + 1 : <<r, k>> \in wire' => k <= n
        <5>1. \A k \in 1..MaxRetries + 1 : <<r, k>> \in wire => k <= x.attempt
          BY <1>0 DEF TInv, Truthful
        <5> QED BY <1>0, <2>2, <5>1
      <4> QED BY <1>0, <4>1, <4>2, <4>3 DEF Truthful
    <3> QED BY <3>1, <3>2
  <2>7. \A p \in Callers : Counted(p)'
    <3>1. ASSUME NEW p \in Callers, p # r PROVE Counted(p)'
      <4>1. OnTheWire(p)' = OnTheWire(p)
        BY <2>2, <3>1 DEF OnTheWire
      <4> QED BY <1>0, <2>3, <3>1, <4>1 DEF TInv, Counted
    <3>2. Counted(r)'
      <4>1. OnTheWire(r)' = OnTheWire(r) \cup {<<r, n>>} /\ <<r, n>> \notin OnTheWire(r)
        BY <2>2, <2>4 DEF OnTheWire
      <4>2. IsFiniteSet(OnTheWire(r)) /\ Cardinality(OnTheWire(r)) \in Nat
        BY FS_CardinalityType DEF TInv, Counted
      <4>3. /\ IsFiniteSet(OnTheWire(r)')
            /\ Cardinality(OnTheWire(r)') = Cardinality(OnTheWire(r)) + 1
        BY <4>1, <4>2, FS_AddElement
      <4>4. applied[r] + Cardinality(OnTheWire(r)) <= x.attempt
        BY <1>0 DEF TInv, Counted
      <4> QED BY <1>0, <2>1, <2>3, <4>2, <4>3, <4>4 DEF Counted
    <3> QED BY <3>1, <3>2
  <2> QED BY <1>1, <2>1, <2>3, <2>5, <2>6, <2>7
<1>2. CASE ~allowed
  <2>1. /\ wire' = wire /\ req'[r] = x /\ \A p \in Callers : p # r => req'[p] = req[p]
        /\ RequestsTyped'
    BY <1>0, <1>2 DEF GoesOn, RequestsTyped
  <2>2. \A p \in Callers : InOrder(p)'
    BY <1>0, <1>2, <2>1 DEF TInv, InOrder, MayGoOn
  <2>3. \A p \in Callers : Truthful(p)'
    BY <1>0, <2>1 DEF TInv, Truthful, MayGoOn
  <2>4. \A p \in Callers : Counted(p)'
    BY <1>0, <2>1 DEF TInv, Counted, OnTheWire
  <2> QED BY <1>2, <2>1, <2>2, <2>3, <2>4
<1> QED BY <1>1, <1>2

\* A step of a call that waits for nobody in the limiter leaves the queue as it was.
LEMMA OthersWait ==
    ASSUME LimiterTypeOK, TInv, NEW r \in Callers, req[r].at # "pacing",
           UNCHANGED <<holder, queue>>,
           \A p \in Callers : p # r => req'[p].at = req[p].at
    PROVE  Waiting'
<1>1. /\ holder # Nobody => holder \in Callers /\ holder # r
      /\ \A i \in 1..Len(queue) : queue[i] \in Callers /\ queue[i] # r
  BY DEF LimiterTypeOK, TInv, Waiting
<1> QED BY <1>1 DEF TInv, Waiting

\* Call: a caller that comes in from outside waits once, if it has to.
LEMMA CallKeeps ==
    ASSUME LimiterTypeOK, TInv, NEW r \in Callers, NEW kind \in Kinds, Call(r, kind)
    PROVE  TInv'
<1> DEFINE x == Fresh(kind, "pacing")
<1>0. req[r].at = "idle" /\ req[r].attempt = 0
  BY DEF Call, TInv, InOrder
<1>1. /\ x \in Requests /\ x.at = "pacing" /\ x.kind = kind /\ x.attempt = 0
      /\ x.reply = "none" /\ x.outcome = "none"
  <2>1. x = [kind |-> kind, at |-> "pacing", attempt |-> 0, reply |-> "none", outcome |-> "none"]
    BY DEF Fresh
  <2>2. 0 \in 0..MaxRetries + 1
    BY RetriesAssumption
  <2> HIDE DEF x
  <2> QED BY <2>1, <2>2 DEF Requests
<1>2. MayGoOn(r, x)
  <2>1. 0 < Attempts(kind)
    BY AttemptsBounded
  <2> HIDE DEF x
  <2> QED BY <1>0, <1>1, <2>1 DEF MayGoOn
<1>3. /\ holder # Nobody => holder \in Callers /\ holder # r
      /\ \A i \in 1..Len(queue) : queue[i] \in Callers /\ queue[i] # r
      /\ queue \in Seq(Callers)
  BY <1>0 DEF LimiterTypeOK, TInv, Waiting
<1>4. CASE kind = "health"
  <2>1. GoesOn(r, x, TRUE) /\ UNCHANGED <<holder, queue>>
    BY <1>4 DEF Call, limiterVars
  <2> HIDE DEF x
  <2>2. /\ RequestsTyped' /\ \A p \in Callers : (InOrder(p) /\ Truthful(p) /\ Counted(p))'
        /\ \A p \in Callers : p # r => req'[p] = req[p]
    BY <1>2, <2>1, GoingOnKeeps
  <2>3. Waiting'
    BY <1>0, <2>1, <2>2, OthersWait
  <2> QED BY <2>2, <2>3 DEF TInv
<1>5. CASE kind # "health"
  <2> DEFINE allowed == holder = Nobody /\ Allowed
  <2>1. Ask(r) /\ GoesOn(r, x, allowed)
    BY <1>5 DEF Call
  <2> HIDE DEF x
  <2>2. allowed \in BOOLEAN
    BY DEF Allowed
  <2>3. /\ RequestsTyped' /\ \A p \in Callers : (InOrder(p) /\ Truthful(p) /\ Counted(p))'
        /\ \A p \in Callers : p # r => req'[p] = req[p]
        /\ ~allowed => req'[r] = x
    BY <1>1, <1>2, <1>5, <2>1, <2>2, GoingOnKeeps
  <2>4. CASE holder = Nobody
    <3>1. /\ queue' = <<>> /\ (Allowed => holder' = Nobody)
          /\ ~Allowed => holder' = r
      BY <2>1, <2>4 DEF Ask, Look, Release, Sleep
    <3>2. Waiting'
      BY <1>1, <2>3, <2>4, <3>1 DEF Waiting
    <3> QED BY <2>3, <3>2 DEF TInv
  <2>5. CASE holder # Nobody
    <3>1. queue' = Append(queue, r) /\ holder' = holder
      BY <2>1, <2>5 DEF Ask
    <3>2. /\ Len(queue') = Len(queue) + 1 /\ Len(queue) \in Nat /\ queue'[Len(queue) + 1] = r
          /\ \A i \in 1..Len(queue) : queue'[i] = queue[i]
      BY <1>3, <3>1
    <3>3. \A i \in 1..Len(queue') : i \in 1..Len(queue) \/ i = Len(queue) + 1
      BY <3>2
    <3>4. req'[r].at = "pacing" /\ req'[holder].at = "pacing" /\ holder # r
      BY <1>1, <1>3, <2>3, <2>5 DEF TInv, Waiting
    <3>5. \A i \in 1..Len(queue') : req'[queue'[i]].at = "pacing" /\ queue'[i] # holder'
      BY <1>3, <2>3, <3>1, <3>2, <3>3, <3>4 DEF TInv, Waiting
    <3>6. \A i, j \in 1..Len(queue') : queue'[i] = queue'[j] => i = j
      BY <1>3, <3>2, <3>3 DEF TInv, Waiting
    <3>7. Waiting'
      BY <3>1, <3>4, <3>5, <3>6 DEF Waiting
    <3> QED BY <2>3, <3>7 DEF TInv
  <2> QED BY <2>4, <2>5
<1> QED BY <1>4, <1>5

\* Paced: the holder leaves, and the first waiter has the lock, or it sleeps on.
LEMMA PacedKeeps ==
    ASSUME LimiterTypeOK, TInv, Paced
    PROVE  TInv'
<1> DEFINE r == holder
<1>1. r \in Callers /\ r # Nobody /\ req[r].at = "pacing" /\ Look(r, queue) /\ queue \in Seq(Callers)
  BY LimiterAssumption DEF Paced, LookAgain, LimiterTypeOK, TInv, Waiting
<1>2. GoesOn(r, req[r], Allowed) /\ Allowed \in BOOLEAN
  BY DEF Paced, Allowed
<1>3. MayGoOn(r, req[r]) /\ req[r].kind # "health"
  BY <1>1 DEF TInv, RequestsTyped, InOrder, MayGoOn
<1> HIDE DEF r
<1>4. /\ RequestsTyped' /\ \A p \in Callers : (InOrder(p) /\ Truthful(p) /\ Counted(p))'
      /\ \A p \in Callers : p # r => req'[p] = req[p]
      /\ ~Allowed => req'[r] = req[r]
  BY <1>1, <1>2, <1>3, GoingOnKeeps
<1>5. \A i \in 1..Len(queue) : queue[i] \in Callers /\ queue[i] # r /\ req[queue[i]].at = "pacing"
  BY <1>1 DEF TInv, Waiting, r
<1>6. CASE Allowed
  <2>1. CASE queue = <<>>
    <3>1. holder' = Nobody /\ queue' = <<>>
      BY <1>1, <1>6, <2>1 DEF Look, Release
    <3> QED BY <1>4, <3>1 DEF TInv, Waiting
  <2>2. CASE queue # <<>>
    <3>1. holder' = Head(queue) /\ queue' = Tail(queue)
      BY <1>1, <1>6, <2>2 DEF Look, Release
    <3>2. /\ Head(queue) = queue[1] /\ 1 \in 1..Len(queue)
          /\ \A i \in 1..Len(queue') : /\ i + 1 \in 1..Len(queue) /\ i + 1 # 1
                                       /\ queue'[i] = queue[i + 1]
      BY <1>1, <2>2, <3>1
    <3>3. \A i, j \in 1..Len(queue) : queue[i] = queue[j] => i = j
      BY DEF TInv, Waiting
    <3>4. req'[holder'].at = "pacing"
      BY <1>4, <1>5, <3>1, <3>2
    <3>5. \A i \in 1..Len(queue') : req'[queue'[i]].at = "pacing" /\ queue'[i] # holder'
      BY <1>4, <1>5, <3>1, <3>2, <3>3
    <3>6. \A i, j \in 1..Len(queue') : queue'[i] = queue'[j] => i = j
      BY <3>2, <3>3
    <3> QED BY <1>4, <3>4, <3>5, <3>6 DEF TInv, Waiting
  <2> QED BY <2>1, <2>2
<1>7. CASE ~Allowed
  <2>1. holder' = r /\ queue' = queue
    BY <1>1, <1>7 DEF Look, Sleep
  <2>2. \A p \in Callers : req'[p] = req[p]
    BY <1>4, <1>7
  <2>3. Waiting'
    BY <1>1, <1>5, <2>1, <2>2 DEF TInv, Waiting, r
  <2> QED BY <1>4, <2>3 DEF TInv
<1> QED BY <1>6, <1>7

LEMMA RetryKeeps ==
    ASSUME LimiterTypeOK, TInv, NEW r \in Callers, Retry(r)
    PROVE  TInv'
<1>1. /\ req[r].at = "backoff" /\ GoesOn(r, req[r], TRUE) /\ UNCHANGED <<holder, queue>>
  BY DEF Retry, limiterVars
<1>2. MayGoOn(r, req[r])
  BY <1>1 DEF TInv, RequestsTyped, InOrder, MayGoOn
<1>3. /\ RequestsTyped' /\ \A p \in Callers : (InOrder(p) /\ Truthful(p) /\ Counted(p))'
      /\ \A p \in Callers : p # r => req'[p] = req[p]
  BY <1>1, <1>2, GoingOnKeeps
<1>4. Waiting'
  BY <1>1, <1>3, OthersWait
<1> QED BY <1>3, <1>4 DEF TInv

\* Settle: an attempt ends in the verdict its status gives, which is true when
\* the status is.
LEMMA SettleKeeps ==
    ASSUME LimiterTypeOK, TInv, NEW r \in Callers, req[r].at = "sending",
           NEW status \in {"none", "ok", "refused", "error", "gateway"},
           status \in {req[r].reply, "none"}, Settle(r, status)
    PROVE  TInv'
<1> DEFINE verdict == Verdict(req[r].kind, status, req[r].attempt)
<1> DEFINE x == IF verdict = "retry" THEN [req[r] EXCEPT !.at = "backoff", !.reply = "none"]
                ELSE [req[r] EXCEPT !.at = "ended", !.reply = "none", !.outcome = verdict]
<1>0. req[r] \in Requests /\ InOrder(r) /\ Truthful(r)
  BY DEF TInv, RequestsTyped
<1>1. /\ verdict \in {"ok", "retry", "refused", "unavailable"}
      /\ verdict = "retry" => req[r].attempt < Attempts(req[r].kind)
      /\ verdict = "ok" => status = "ok"
      /\ verdict = "refused" => status = "refused"
  BY DEF Verdict
<1>2. /\ req' = [req EXCEPT ![r] = x]
      /\ UNCHANGED <<wire, applied, holder, queue>>
  BY DEF Settle, limiterVars
<1> HIDE DEF verdict
<1>3. /\ x \in Requests /\ x.reply = "none" /\ x.attempt = req[r].attempt /\ x.kind = req[r].kind
      /\ x.at = IF verdict = "retry" THEN "backoff" ELSE "ended"
      /\ x.outcome = IF verdict = "retry" THEN req[r].outcome ELSE verdict
  BY <1>0, <1>1 DEF Requests
<1> HIDE DEF x
<1>4. /\ RequestsTyped' /\ req'[r] = x
      /\ \A p \in Callers : p # r => req'[p] = req[p]
  BY <1>2, <1>3 DEF TInv, RequestsTyped
<1>5. InOrder(r)'
  BY <1>0, <1>1, <1>3, <1>4 DEF InOrder
<1>6. Truthful(r)'
  BY <1>0, <1>1, <1>2, <1>3, <1>4 DEF Truthful, InOrder
<1>7. ASSUME NEW p \in Callers, p # r PROVE InOrder(p)' /\ Truthful(p)'
  <2>1. InOrder(p) /\ Truthful(p) /\ req'[p] = req[p]
    BY <1>4, <1>7 DEF TInv
  <2> QED BY <1>2, <2>1 DEF InOrder, Truthful
<1>8. \A p \in Callers : Counted(p)'
  BY <1>2, <1>3, <1>4 DEF TInv, Counted, OnTheWire
<1>9. Waiting'
  BY <1>2, <1>4, OthersWait
<1> QED BY <1>4, <1>5, <1>6, <1>7, <1>8, <1>9 DEF TInv

-----------------------------------------------------------------------------
(* The server. *)

\* What reaches r while it waits for this very attempt, and nobody else.
LEMMA RepliedTyped ==
    ASSUME TInv, NEW r \in Callers, NEW n \in 1..MaxRetries + 1,
           NEW status \in {"ok", "refused", "error"}, req' = Replied(<<r, n>>, status)
    PROVE  /\ req' \in [Callers -> Requests]
           /\ \A p \in Callers : p # r => req'[p] = req[p]
           /\ \A p \in Callers : req'[p].at = req[p].at
           /\ req'[r].attempt = req[r].attempt /\ req'[r].kind = req[r].kind
           /\ req'[r].outcome = req[r].outcome
           /\ req'[r].reply = IF req[r].at = "sending" /\ req[r].attempt = n
                              THEN status ELSE req[r].reply
<1> DEFINE reply == IF req[r].at = "sending" /\ req[r].attempt = n THEN status ELSE req[r].reply
<1>1. req \in [Callers -> Requests] /\ req[r] \in Requests
  BY DEF TInv, RequestsTyped
<1>2. reply \in {"none", "ok", "refused", "error", "gateway"}
  BY <1>1 DEF Requests
<1>3. req' = [req EXCEPT ![r] = [req[r] EXCEPT !.reply = reply]]
  BY DEF Replied
<1> HIDE DEF reply
<1>4. /\ [req[r] EXCEPT !.reply = reply] \in Requests
      /\ [req[r] EXCEPT !.reply = reply].at = req[r].at
      /\ [req[r] EXCEPT !.reply = reply].attempt = req[r].attempt
      /\ [req[r] EXCEPT !.reply = reply].kind = req[r].kind
      /\ [req[r] EXCEPT !.reply = reply].outcome = req[r].outcome
      /\ [req[r] EXCEPT !.reply = reply].reply = reply
  BY <1>1, <1>2 DEF Requests
<1> QED BY <1>1, <1>3, <1>4 DEF reply

\* The server takes a send off the wire; d is what it does to the vault.
LEMMA ServerKeeps ==
    ASSUME LimiterTypeOK, TInv, NEW m \in wire, NEW status \in {"ok", "refused", "error"},
           NEW d \in {0, 1}, status = "ok" => d = 1, status = "refused" => d = 0,
           wire' = wire \ {m}, req' = Replied(m, status),
           applied' = [applied EXCEPT ![m[1]] = @ + d],
           UNCHANGED <<holder, queue>>
    PROVE  TInv'
<1>1. PICK r \in Callers, n \in 1..MaxRetries + 1 : m = <<r, n>>
  BY DEF TInv, RequestsTyped
<1>2. /\ req' \in [Callers -> Requests]
      /\ \A p \in Callers : p # r => req'[p] = req[p]
      /\ \A p \in Callers : req'[p].at = req[p].at
      /\ req'[r].attempt = req[r].attempt /\ req'[r].kind = req[r].kind
      /\ req'[r].outcome = req[r].outcome
      /\ req'[r].reply = IF req[r].at = "sending" /\ req[r].attempt = n
                         THEN status ELSE req[r].reply
  BY <1>1, RepliedTyped
<1>3. /\ applied \in [Callers -> Nat] /\ applied' \in [Callers -> Nat]
      /\ \A p \in Callers : p # r => applied'[p] = applied[p]
      /\ applied'[r] = applied[r] + d
  BY <1>1 DEF TInv, RequestsTyped
<1>4. RequestsTyped'
  BY <1>2, <1>3 DEF TInv, RequestsTyped
<1>5. Waiting'
  <2>1. /\ holder # Nobody => holder \in Callers
        /\ \A i \in 1..Len(queue) : queue[i] \in Callers
    BY DEF LimiterTypeOK
  <2> QED BY <1>2, <2>1 DEF TInv, Waiting
<1>6. InOrder(r) /\ Truthful(r) /\ Counted(r) /\ <<r, n>> \in wire /\ n <= req[r].attempt
      /\ req[r].attempt \in Nat
  BY <1>1 DEF TInv, Truthful, RequestsTyped, Requests
<1>7. InOrder(r)'
  BY <1>2, <1>6 DEF InOrder
<1>8. Truthful(r)'
  <2>1. req[r].attempt = 1 => n = 1
    BY <1>6
  <2>2. req[r].attempt = 1 => applied[r] = 0 /\ <<r, 1>> \notin wire'
    BY <1>1, <1>6, <2>1 DEF Truthful
  <2>3. req[r].attempt = 1 => req[r].reply # "refused" /\ req[r].outcome # "refused"
    BY <1>6, <2>1 DEF Truthful
  <2>4. req[r].attempt = 1 /\ req'[r].reply = "refused" => d = 0
    BY <1>2, <2>3
  <2>5. req'[r].reply = "ok" \/ req'[r].outcome = "ok" => applied'[r] > 0
    BY <1>2, <1>3, <1>6 DEF Truthful
  <2>6. \A k \in 1..MaxRetries + 1 : <<r, k>> \in wire' => k <= req'[r].attempt
    BY <1>2, <1>6 DEF Truthful
  <2> QED BY <1>2, <1>3, <2>2, <2>3, <2>4, <2>5, <2>6 DEF Truthful
<1>9. Counted(r)'
  <2>1. OnTheWire(r)' = OnTheWire(r) \ {m} /\ m \in OnTheWire(r)
    BY <1>1 DEF OnTheWire
  <2>2. IsFiniteSet(OnTheWire(r)) /\ Cardinality(OnTheWire(r)) \in Nat
    BY <1>6, FS_CardinalityType DEF Counted
  <2>3. IsFiniteSet(OnTheWire(r)') /\ Cardinality(OnTheWire(r)') = Cardinality(OnTheWire(r)) - 1
    BY <2>1, <2>2, FS_RemoveElement
  <2> QED BY <1>2, <1>3, <1>6, <2>2, <2>3 DEF Counted
<1>10. ASSUME NEW p \in Callers, p # r PROVE (InOrder(p) /\ Truthful(p) /\ Counted(p))'
  <2>1. InOrder(p) /\ Truthful(p) /\ Counted(p) /\ req'[p] = req[p] /\ applied'[p] = applied[p]
    BY <1>2, <1>3, <1>10 DEF TInv
  <2>2. OnTheWire(p)' = OnTheWire(p) /\ \A k \in 1..MaxRetries + 1 : <<p, k>> \in wire' <=> <<p, k>> \in wire
    BY <1>1, <1>10 DEF OnTheWire
  <2>3. 1 \in 1..MaxRetries + 1
    BY RetriesAssumption
  <2> QED BY <2>1, <2>2, <2>3 DEF InOrder, Truthful, Counted
<1> QED BY <1>4, <1>5, <1>7, <1>8, <1>9, <1>10 DEF TInv

LEMMA GatewayKeeps ==
    ASSUME LimiterTypeOK, TInv, NEW r \in Callers, GatewayGivesUp(r)
    PROVE  TInv'
<1>1. req[r] \in Requests /\ req \in [Callers -> Requests]
  BY DEF TInv, RequestsTyped
<1>2. /\ req[r].at = "sending"
      /\ req' = [req EXCEPT ![r] = [req[r] EXCEPT !.reply = "gateway"]]
      /\ UNCHANGED <<wire, applied, holder, queue>>
  BY DEF GatewayGivesUp, limiterVars
<1>3. /\ [req[r] EXCEPT !.reply = "gateway"] \in Requests
      /\ [req[r] EXCEPT !.reply = "gateway"].reply = "gateway"
      /\ [req[r] EXCEPT !.reply = "gateway"].at = req[r].at
      /\ [req[r] EXCEPT !.reply = "gateway"].kind = req[r].kind
      /\ [req[r] EXCEPT !.reply = "gateway"].attempt = req[r].attempt
      /\ [req[r] EXCEPT !.reply = "gateway"].outcome = req[r].outcome
  BY <1>1 DEF Requests
<1>4. /\ \A p \in Callers : p # r => req'[p] = req[p]
      /\ req'[r] = [req[r] EXCEPT !.reply = "gateway"] /\ RequestsTyped'
  BY <1>1, <1>2, <1>3 DEF TInv, RequestsTyped
<1>5. ASSUME NEW p \in Callers PROVE (InOrder(p) /\ Truthful(p) /\ Counted(p))'
  <2>1. InOrder(p) /\ Truthful(p) /\ Counted(p)
    BY DEF TInv
  <2>2. /\ req'[p].at = req[p].at /\ req'[p].kind = req[p].kind
        /\ req'[p].attempt = req[p].attempt /\ req'[p].outcome = req[p].outcome
        /\ req'[p].reply = req[p].reply \/ (p = r /\ req'[p].reply = "gateway")
    BY <1>3, <1>4
  <2> QED BY <1>2, <2>1, <2>2 DEF InOrder, Truthful, Counted, OnTheWire
<1>6. Waiting'
  BY <1>2, <1>4, OthersWait
<1> QED BY <1>4, <1>5, <1>6 DEF TInv

LEMMA NextTransport == LimiterTypeOK /\ TInv /\ [Next]_vars => TInv'
<1> SUFFICES ASSUME LimiterTypeOK, TInv, [Next]_vars PROVE TInv'
  OBVIOUS
<1>1. ASSUME NEW r \in Callers, NEW kind \in Kinds, Call(r, kind) PROVE TInv'
  BY <1>1, CallKeeps
<1>2. ASSUME NEW r \in Callers, Answered(r) PROVE TInv'
  <2>1. req[r].reply \in {"none", "ok", "refused", "error", "gateway"}
    BY DEF TInv, RequestsTyped, Requests
  <2> QED BY <1>2, <2>1, SettleKeeps DEF Answered
<1>3. ASSUME NEW r \in Callers, Unanswered(r) PROVE TInv'
  BY <1>3, SettleKeeps DEF Unanswered
<1>4. ASSUME NEW r \in Callers, Retry(r) PROVE TInv'
  BY <1>4, RetryKeeps
<1>5. ASSUME NEW r \in Callers, GatewayGivesUp(r) PROVE TInv'
  BY <1>5, GatewayKeeps
<1>6. CASE Paced
  BY <1>6, PacedKeeps
<1>7. ASSUME NEW m \in wire, ServerApplies(m) PROVE TInv'
  <2>1. PICK status \in {"ok", "error"} : req' = Replied(m, status)
    BY <1>7 DEF ServerApplies
  <2>2. /\ wire' = wire \ {m} /\ applied' = [applied EXCEPT ![m[1]] = @ + 1]
        /\ UNCHANGED <<holder, queue>>
    BY <1>7 DEF ServerApplies, limiterVars
  <2> QED BY <2>1, <2>2, ServerKeeps
<1>8. ASSUME NEW m \in wire, ServerRefuses(m) PROVE TInv'
  <2>1. PICK status \in {"refused", "error"} : req' = Replied(m, status)
    BY <1>8 DEF ServerRefuses
  <2>2. wire' = wire \ {m} /\ UNCHANGED <<applied, holder, queue>>
    BY <1>8 DEF ServerRefuses, limiterVars
  <2>3. m[1] \in Callers /\ applied \in [Callers -> Nat]
    BY DEF TInv, RequestsTyped
  <2>4. applied' = [applied EXCEPT ![m[1]] = @ + 0]
    BY <2>2, <2>3
  <2> QED BY <2>1, <2>2, <2>4, ServerKeeps
<1>9. ASSUME UNCHANGED <<req, wire, applied, holder, queue>> PROVE TInv'
  BY <1>9 DEF TInv, RequestsTyped, Waiting, InOrder, Truthful, Counted, OnTheWire
<1>10. CASE TimePasses
  BY <1>9, <1>10 DEF TimePasses, Tick
<1>11. CASE UNCHANGED vars
  BY <1>9, <1>11 DEF vars
<1> QED BY <1>1, <1>2, <1>3, <1>4, <1>5, <1>6, <1>7, <1>8, <1>10, <1>11 DEF Next

LEMMA TransportInvariant == Spec => [](LimiterTypeOK /\ TInv)
<1>1. IInv => LimiterTypeOK
  BY DEF IInv
<1>2. Init => IInv
  BY InitInvariant DEF Init
<1>3. IInv /\ [Next]_vars => IInv'
  BY NextInvariant, StepDrivesTheLimiter
<1> QED BY <1>1, <1>2, <1>3, InitTransport, NextTransport, PTL DEF Spec

\* OutcomesAreTrue: a call reported as done was done, and a call refused at its
\* first and only attempt was not and will not be, however late the server is.
THEOREM OutcomesAreTruthful == Spec => []OutcomesAreTrue
<1>1. TInv => OutcomesAreTrue
  BY DEF TInv, Truthful, OutcomesAreTrue
<1> QED BY <1>1, TransportInvariant, PTL

-----------------------------------------------------------------------------
(* The places taken in the window. *)

\* The calls that have been sent and have a bucket.
Paid == {r \in Callers : req[r].kind # "health" /\ req[r].attempt > 0}

OnePlaceEach == IsFiniteSet(Paid) /\ Cardinality(Paid) = Len(granted)

\* A call that is sent for the first time and had to ask enters Paid as the
\* limiter writes down its time; every other step leaves both alone.
LEMMA PaidOrNot ==
    ASSUME granted \in Seq(Nat), now \in Nat, OnePlaceEach,
           \/ UNCHANGED granted /\ Paid' = Paid
           \/ /\ granted' = Append(granted, now)
              /\ \E r : r \notin Paid /\ Paid' = Paid \cup {r}
    PROVE  OnePlaceEach'
<1>1. CASE UNCHANGED granted /\ Paid' = Paid
  BY <1>1 DEF OnePlaceEach
<1>2. CASE /\ granted' = Append(granted, now)
           /\ \E r : r \notin Paid /\ Paid' = Paid \cup {r}
  <2>1. PICK r : r \notin Paid /\ Paid' = Paid \cup {r}
    BY <1>2
  <2>2. IsFiniteSet(Paid') /\ Cardinality(Paid') = Cardinality(Paid) + 1
    BY <2>1, FS_AddElement DEF OnePlaceEach
  <2>3. Len(granted') = Len(granted) + 1
    BY <1>2
  <2> QED BY <2>2, <2>3 DEF OnePlaceEach
<1> QED BY <1>1, <1>2

LEMMA NextPaid == LimiterTypeOK /\ TInv /\ OnePlaceEach /\ [Next]_vars => OnePlaceEach'
<1> SUFFICES ASSUME LimiterTypeOK, TInv, OnePlaceEach, [Next]_vars PROVE OnePlaceEach'
  OBVIOUS
<1>0. granted \in Seq(Nat) /\ now \in Nat /\ req \in [Callers -> Requests]
  BY DEF LimiterTypeOK, TInv, RequestsTyped
\* A step that neither pays nor sends what is to be paid for.
<1>1. ASSUME UNCHANGED granted,
             \A r \in Callers : req'[r].kind # "health" /\ req'[r].attempt > 0
                                <=> req[r].kind # "health" /\ req[r].attempt > 0
      PROVE  OnePlaceEach'
  BY <1>0, <1>1, PaidOrNot DEF Paid
\* A first send of r, paid for if it has a bucket.
<1>2. ASSUME NEW r \in Callers, req[r].attempt = 0, NEW x \in Requests, x.attempt = 0,
             x.kind # "health",
             NEW allowed \in BOOLEAN, GoesOn(r, x, allowed),
             allowed => granted' = Append(granted, now),
             ~allowed => UNCHANGED granted
      PROVE  OnePlaceEach'
  <2>1. CASE allowed
    <3>1. Sent(x).attempt = 1 /\ Sent(x).kind = x.kind
      <4>1. x.attempt + 1 \in 1..MaxRetries + 1
        BY <1>2, RetriesAssumption
      <4> QED BY <1>2, <4>1, SentFields
    <3>2. \A p \in Callers : req'[p] = IF p = r THEN Sent(x) ELSE req[p]
      BY <1>0, <1>2, <2>1 DEF GoesOn
    <3>3. r \notin Paid /\ Paid' = Paid \cup {r}
      BY <1>2, <3>1, <3>2 DEF Paid
    <3> QED BY <1>0, <1>2, <2>1, <3>3, PaidOrNot
  <2>2. CASE ~allowed
    <3>1. \A p \in Callers : req'[p] = IF p = r THEN x ELSE req[p]
      BY <1>0, <1>2, <2>2 DEF GoesOn
    <3>2. Paid' = Paid
      BY <1>2, <3>1 DEF Paid
    <3> QED BY <1>0, <1>2, <2>2, <3>2, PaidOrNot
  <2> QED BY <2>1, <2>2
<1>3. ASSUME NEW r \in Callers, NEW kind \in Kinds, Call(r, kind) PROVE OnePlaceEach'
  <2> DEFINE x == Fresh(kind, "pacing")
  <2>1. x = [kind |-> kind, at |-> "pacing", attempt |-> 0, reply |-> "none", outcome |-> "none"]
    BY DEF Fresh
  <2>2. req[r].attempt = 0
    BY <1>3 DEF Call, TInv, InOrder
  <2>3. CASE kind = "health"
    <3>1. GoesOn(r, x, TRUE) /\ UNCHANGED granted
      BY <1>3, <2>3 DEF Call, limiterVars
    <3> HIDE DEF x
    <3>2. \A p \in Callers : req'[p] = IF p = r THEN Sent(x) ELSE req[p]
      BY <1>0, <3>1 DEF GoesOn
    <3>3. Sent(x).kind = "health"
      BY <2>1, <2>3 DEF Sent
    <3> QED BY <1>1, <2>2, <3>1, <3>2, <3>3
  <2>4. CASE kind # "health"
    <3>1. Ask(r) /\ GoesOn(r, x, holder = Nobody /\ Allowed)
      BY <1>3, <2>4 DEF Call
    <3> HIDE DEF x
    <3>2. x \in Requests /\ x.attempt = 0 /\ x.kind # "health"
      BY <2>1, <2>4, RetriesAssumption DEF Requests
    <3>3. /\ (holder = Nobody /\ Allowed) => granted' = Append(granted, now)
          /\ ~(holder = Nobody /\ Allowed) => UNCHANGED granted
      BY <3>1 DEF Ask, Look
    <3>4. (holder = Nobody /\ Allowed) \in BOOLEAN
      OBVIOUS
    <3> QED BY <1>2, <2>2, <3>1, <3>2, <3>3, <3>4
  <2> QED BY <2>3, <2>4
<1>4. CASE Paced
  <2>1. holder \in Callers /\ req[holder].at = "pacing"
    BY <1>4 DEF Paced, LookAgain, LimiterTypeOK, TInv, Waiting
  <2>2. /\ req[holder] \in Requests /\ req[holder].attempt = 0 /\ req[holder].kind # "health"
    BY <1>0, <2>1 DEF TInv, InOrder
  <2>3. /\ GoesOn(holder, req[holder], Allowed)
        /\ Allowed => granted' = Append(granted, now)
        /\ ~Allowed => UNCHANGED granted
    BY <1>4 DEF Paced, LookAgain, Look
  <2>4. Allowed \in BOOLEAN
    BY DEF Allowed
  <2> QED BY <1>2, <2>1, <2>2, <2>3, <2>4
<1>5. ASSUME NEW r \in Callers, Retry(r) PROVE OnePlaceEach'
  <2>1. /\ req[r].at = "backoff" /\ req[r] \in Requests /\ InOrder(r)
        /\ GoesOn(r, req[r], TRUE) /\ UNCHANGED granted
    BY <1>0, <1>5 DEF Retry, limiterVars, TInv
  <2>2. req[r].attempt > 0 /\ req[r].attempt + 1 \in 1..MaxRetries + 1
    BY <2>1, AttemptsBounded, RetriesAssumption DEF InOrder, Requests
  <2>3. Sent(req[r]).kind = req[r].kind /\ Sent(req[r]).attempt = req[r].attempt + 1
    BY <2>1, <2>2, SentFields
  <2>4. \A p \in Callers : req'[p] = IF p = r THEN Sent(req[r]) ELSE req[p]
    BY <1>0, <2>1 DEF GoesOn
  <2> QED BY <1>1, <2>1, <2>2, <2>3, <2>4
<1>6. ASSUME NEW r \in Callers, NEW status, Settle(r, status) PROVE OnePlaceEach'
  <2>1. UNCHANGED granted
    BY <1>6 DEF Settle, limiterVars
  <2>2. /\ req[r] \in Requests
        /\ \A p \in Callers : p # r => req'[p] = req[p]
        /\ \/ req'[r] = [req[r] EXCEPT !.at = "backoff", !.reply = "none"]
           \/ \E o : req'[r] = [req[r] EXCEPT !.at = "ended", !.reply = "none", !.outcome = o]
    BY <1>0, <1>6 DEF Settle
  <2>3. req'[r].kind = req[r].kind /\ req'[r].attempt = req[r].attempt
    BY <2>2 DEF Requests
  <2> QED BY <1>1, <2>1, <2>2, <2>3
<1>7. ASSUME NEW r \in Callers, GatewayGivesUp(r) PROVE OnePlaceEach'
  <2>1. /\ req[r] \in Requests /\ UNCHANGED granted
        /\ \A p \in Callers : p # r => req'[p] = req[p]
        /\ req'[r] = [req[r] EXCEPT !.reply = "gateway"]
    BY <1>0, <1>7 DEF GatewayGivesUp, limiterVars
  <2>2. req'[r].kind = req[r].kind /\ req'[r].attempt = req[r].attempt
    BY <2>1 DEF Requests
  <2> QED BY <1>1, <2>1, <2>2
<1>8. ASSUME NEW m \in wire, NEW status \in {"ok", "refused", "error"}, req' = Replied(m, status),
             UNCHANGED granted
      PROVE  OnePlaceEach'
  <2>1. PICK r \in Callers, n \in 1..MaxRetries + 1 : m = <<r, n>>
    BY DEF TInv, RequestsTyped
  <2>2. \A p \in Callers : req'[p].kind = req[p].kind /\ req'[p].attempt = req[p].attempt
    BY <1>8, <2>1, RepliedTyped
  <2> QED BY <1>1, <1>8, <2>2
<1>9. ASSUME NEW m \in wire, ServerApplies(m) \/ ServerRefuses(m) PROVE OnePlaceEach'
  BY <1>8, <1>9 DEF ServerApplies, ServerRefuses, limiterVars
<1>10. CASE TimePasses \/ UNCHANGED vars
  BY <1>1, <1>10 DEF TimePasses, Tick, vars
<1> QED BY <1>3, <1>4, <1>5, <1>6, <1>7, <1>9, <1>10 DEF Next, Answered, Unanswered

\* EffectsAreBounded: however late the server gets to a send, a call does no
\* more than the times it was sent, health() is sent once, and every call that
\* has a bucket took one place in its window.
THEOREM EffectsStayBounded == Spec => []EffectsAreBounded
<1>1. Init => OnePlaceEach
  <2> SUFFICES ASSUME Init PROVE OnePlaceEach
    OBVIOUS
  <2>1. Paid = {} /\ granted = <<>>
    BY DEF Init, LimiterInit, Paid, Fresh
  <2> QED BY <2>1, FS_EmptySet DEF OnePlaceEach
<1>2. LimiterTypeOK /\ TInv /\ OnePlaceEach => EffectsAreBounded
  <2> SUFFICES ASSUME LimiterTypeOK, TInv, OnePlaceEach PROVE EffectsAreBounded
    OBVIOUS
  <2>1. TypeOK
    BY DEF TypeOK, TInv, RequestsTyped, Requests
  <2>2. Cardinality({r \in Callers : req[r].kind # "health" /\ req[r].attempt > 0}) = Len(granted)
    BY DEF OnePlaceEach, Paid
  <2>3. ASSUME NEW r \in Callers
        PROVE  /\ applied[r] + Cardinality({m \in wire : m[1] = r}) <= req[r].attempt
               /\ req[r].attempt <= Attempts(req[r].kind)
    BY DEF TInv, Counted, InOrder, OnTheWire
  <2> QED BY <2>1, <2>2, <2>3 DEF EffectsAreBounded
<1> QED BY <1>1, <1>2, TransportInvariant, NextPaid, PTL DEF Spec
=============================================================================

---------------------------- MODULE LlmRouterProofs ----------------------------
(* The router for every number of requests, users, providers and permits,     *)
(* every ladder and every limit: permits are conserved, charges are fair,     *)
(* calls are bounded, a rejected key is left alone, a provider is refused     *)
(* only for a cause, and every step is a step of the abstract request service. *)
EXTENDS LlmRouter, FiniteSetTheorems, SequenceTheorems, WellFoundedInduction, TLAPS

-----------------------------------------------------------------------------
(* A search from the front that finds anything finds a first one. *)

\* A set of naturals has a least element.
LEMMA LeastElement ==
    ASSUME NEW T, T \subseteq Nat, T # {}
    PROVE  \E x \in T : \A y \in T : x <= y
<1>1. IsWellFoundedOn(OpToRel(<, Nat), Nat)
  BY NatLessThanWellFounded
<1>2. PICK x \in T : \A y \in T : ~(<<y, x>> \in OpToRel(<, Nat))
  BY <1>1, WFMin
<1>3. \A y \in T : ~(y < x)
  BY <1>2 DEF OpToRel
<1> QED BY <1>3

-----------------------------------------------------------------------------
(* The operators the router is built from. *)

\* Every operation of breaker.py maps circuits to circuits.
LEMMA CircuitsTyped ==
    ASSUME NEW c \in Circuits
    PROVE  /\ Closed \in Circuits
           /\ Admitted(c) \in Circuits
           /\ Succeeded(c) \in Circuits
           /\ Elapsed(c) \in Circuits
           /\ \A kind : Reported(c, kind) \in Circuits
<1>1. \A immediate \in BOOLEAN : Failed(c, immediate) \in Circuits
  BY ThresholdAssumption, ResetAssumption DEF Circuits, Failed, Trips
<1>2. \A kind : Reported(c, kind) \in Circuits
  BY <1>1 DEF Reported
<1> QED BY <1>2, ThresholdAssumption, ResetAssumption
        DEF Circuits, Closed, Admitted, Succeeded, Elapsed

\* What a tick leaves of the rolling window is no longer than it was.
LEMMA AgedTyped ==
    ASSUME NEW b \in Budgets
    PROVE  /\ Aged(b) \in Budgets
           /\ Aged(b).today = b.today
           /\ Len(Aged(b).recent) <= Len(b.recent)
<1> DEFINE ages == b.recent
           T == {i \in 1..Len(ages) + 1 : i \in DOMAIN ages => ages[i] + 1 < Window}
<1>1. ages \in Seq(Nat) /\ b.today \in Nat
  BY DEF Budgets
<1>2. T \subseteq Nat /\ Len(ages) + 1 \in T
  BY <1>1
<1>3. PICK k \in T : \A i \in T : k <= i
  <2> HIDE DEF T
  <2> QED BY <1>2, LeastElement
<1>4. \A j \in 1..k - 1 : ages[j] + 1 >= Window
  <2> SUFFICES ASSUME NEW j \in 1..k - 1 PROVE ages[j] + 1 >= Window
    OBVIOUS
  <2>1. j \in DOMAIN ages /\ j \notin T /\ ages[j] \in Nat
    BY <1>1, <1>3
  <2> QED BY <1>1, <2>1, LimitsAssumption
<1>5. FirstKept(ages) \in 1..Len(ages) + 1
  BY <1>3, <1>4 DEF FirstKept
<1> DEFINE kept == SubSeq(ages, FirstKept(ages), Len(ages))
           aged == [i \in DOMAIN kept |-> kept[i] + 1]
<1>6. kept \in Seq(Nat) /\ Len(kept) <= Len(ages)
  BY <1>1, <1>5, SubSeqProperties
<1>7. aged \in Seq(Nat) /\ Len(aged) = Len(kept)
  <2> HIDE DEF kept
  <2>1. DOMAIN kept = 1..Len(kept) /\ Len(kept) \in Nat /\ \A i \in 1..Len(kept) : kept[i] + 1 \in Nat
    BY <1>6
  <2> QED BY <2>1, IsASeq
<1>8. Aged(b) = [b EXCEPT !.recent = aged]
  BY DEF Aged
<1> HIDE DEF aged, kept
<1> QED BY <1>1, <1>6, <1>7, <1>8 DEF Budgets

\* A charge of a user within both limits stays within them.
LEMMA ChargedTyped ==
    ASSUME NEW b \in Budgets
    PROVE  /\ Charged(b) \in Budgets /\ Renewed(b) \in Budgets /\ Unspent \in Budgets
           /\ (UnderDailyCap(b) /\ DailyLimit > 0) => Charged(b).today <= DailyLimit
           /\ (UnderRate(b) /\ RateLimit > 0) => Len(Charged(b).recent) <= RateLimit
           /\ Renewed(b).today = 0 /\ Renewed(b).recent = b.recent
<1>1. b.recent \in Seq(Nat) /\ b.today \in Nat
  BY DEF Budgets
<1>2. /\ Append(b.recent, 0) \in Seq(Nat)
      /\ Len(Append(b.recent, 0)) = Len(b.recent) + 1
  BY <1>1
<1> QED BY <1>1, <1>2, LimitsAssumption
        DEF Budgets, Charged, Renewed, Unspent, UnderDailyCap, UnderRate

-----------------------------------------------------------------------------
(* The walk down the ladder. *)

Stages == {"idle", "waiting", "calling", "sleeping", "served", "failed"}

\* Records, and the records on their way into _call.
Walks == [stage : Stages \cup {"entering"},
          user : Users \cup {NoUser}, task : Tasks, rung : Nat, try : 0..Retries + 1,
          skipped : SUBSET Providers, calls : Nat, rejected : SUBSET Providers]

\* The calls a request may have made when its rung has made at most n of its own.
Allowance(rung, n) == (Retries + 1) * (rung - 1) + n

OnARung(x) == x.stage \in {"entering", "waiting", "calling", "sleeping"}

\* Where a request may stand on its ladder.
Standing(x) ==
    /\ OnARung(x) =>
          /\ x.rung \in DOMAIN Ladders[x.task]
          /\ RungProvider(x) \notin x.skipped
          /\ x.rejected \subseteq x.skipped
          /\ x.try + (IF x.stage = "sleeping" THEN 1 ELSE 0) <= Retries + 1
          /\ x.calls <= Allowance(x.rung, x.try) - (IF x.stage = "sleeping" THEN 0 ELSE 1)
    /\ x.stage \in {"served", "failed"} => x.calls > 0

LEMMA WalksSplit ==
    ASSUME NEW x
    PROVE  /\ x \in Records => x \in Walks
           /\ (x \in Walks /\ x.stage # "entering") => x \in Records
BY DEF Records, Walks, Stages

LEMMA IdleTyped == Idle \in Records
BY RouterAssumption DEF Records, Idle, Starting

LEMMA SettledTyped ==
    ASSUME NEW x \in Walks, NEW how \in {"served", "failed"}
    PROVE  /\ Settled(x, how) \in Walks /\ Settled(x, how).stage = how
           /\ Settled(x, how).calls = x.calls
<1>1. Idle \in Walks
  BY IdleTyped, WalksSplit
<1> QED BY <1>1 DEF Settled, Walks, Stages

LEMMA LadderTyped ==
    ASSUME NEW t \in Tasks
    PROVE  /\ Ladders[t] \in Seq(Providers) /\ Len(Ladders[t]) \in Nat
           /\ DOMAIN Ladders[t] = 1..Len(Ladders[t])
           /\ \A i \in DOMAIN Ladders[t] : Ladders[t][i] \in Providers
BY RouterAssumption

\* The rung taken is open, and no rung passed over on the way shares its provider.
LEMMA FirstOpenRung ==
    ASSUME NEW x \in Walks, NEW cs, OpenRungs(x, cs) # {}
    PROVE  /\ Min(OpenRungs(x, cs)) \in OpenRungs(x, cs)
           /\ Ladders[x.task][Min(OpenRungs(x, cs))] \notin Passed(x, Min(OpenRungs(x, cs)))
<1> DEFINE open == OpenRungs(x, cs)
<1>1. x.task \in Tasks /\ x.rung \in Nat
  BY DEF Walks
<1>2. open \subseteq Nat /\ open # {}
  BY <1>1, LadderTyped DEF OpenRungs
<1>3. PICK i \in open : \A j \in open : i <= j
  <2> HIDE DEF open
  <2> QED BY <1>2, LeastElement
<1>4. Min(open) \in open /\ \A j \in open : Min(open) <= j
  <2> HIDE DEF open
  <2> QED BY <1>3 DEF Min
<1>5. Ladders[x.task][Min(open)] \notin Passed(x, Min(open))
  <2> SUFFICES ASSUME NEW j \in x.rung + 1 .. Min(open) - 1,
                      Ladders[x.task][j] = Ladders[x.task][Min(open)]
               PROVE  FALSE
    BY DEF Passed
  <2>1. Min(open) \in DOMAIN Ladders[x.task] /\ Min(open) \in Nat
    BY <1>2, <1>4 DEF OpenRungs
  <2>2. j \in DOMAIN Ladders[x.task] /\ j > x.rung /\ j < Min(open)
    BY <1>1, <2>1, LadderTyped
  <2>3. j \in open
    BY <1>4, <2>2 DEF OpenRungs
  <2> HIDE DEF open
  <2>4. Min(open) <= j /\ j \in Nat
    BY <1>2, <1>4, <2>3
  <2> QED BY <2>1, <2>2, <2>4
<1> QED BY <1>4, <1>5

\* A rung further down leaves room for its own calls.
LEMMA LowerRungsAllowMore ==
    ASSUME NEW m \in Nat, NEW n \in Nat, m < n
    PROVE  (Retries + 1) * m <= (Retries + 1) * (n - 1)
<1>1. Retries \in Nat
  BY RouterAssumption
<1> DEFINE k == Retries + 1
<1>2. k \in Nat
  BY <1>1
<1>3. \A d \in Nat : k * m <= k * (m + d)
  <2> SUFFICES ASSUME NEW d \in Nat PROVE k * m <= k * (m + d)
    OBVIOUS
  <2>1. k * d \in Nat /\ k * (m + d) = k * m + k * d /\ k * m \in Nat
    <3> HIDE DEF k
    <3> QED BY <1>2
  <2> HIDE DEF k
  <2> QED BY <1>2, <2>1
<1>4. n - 1 - m \in Nat /\ m + (n - 1 - m) = n - 1
  OBVIOUS
<1> HIDE DEF k
<1>5. k * m <= k * (n - 1)
  BY <1>3, <1>4
<1> QED BY <1>5 DEF k

LEMMA CallsTyped ==
    ASSUME NEW m \in Nat
    PROVE  (Retries + 1) * m \in Nat
<1>1. \A k \in Nat : k * m \in Nat
  OBVIOUS
<1>2. Retries + 1 \in Nat
  BY RouterAssumption
<1> QED BY <1>1, <1>2

\* x as it takes rung i and skips the providers S on the way.
Taking(x, i, S) ==
    [x EXCEPT !.stage = "entering", !.rung = i, !.try = 1, !.skipped = @ \cup S]

LEMMA EnteringTyped ==
    ASSUME NEW x \in Walks, NEW i \in Nat, NEW S \in SUBSET Providers
    PROVE  /\ Taking(x, i, S) \in Walks
           /\ Taking(x, i, S).stage = "entering" /\ Taking(x, i, S).rung = i
           /\ Taking(x, i, S).try = 1 /\ Taking(x, i, S).skipped = x.skipped \cup S
           /\ Taking(x, i, S).task = x.task /\ Taking(x, i, S).calls = x.calls
           /\ Taking(x, i, S).rejected = x.rejected
<1> DEFINE a == [x EXCEPT !.stage = "entering"]
           b == [a EXCEPT !.rung = i]
           c == [b EXCEPT !.try = 1]
           z == [c EXCEPT !.skipped = x.skipped \cup S]
<1>1. /\ a \in Walks /\ a.stage = "entering" /\ a.skipped = x.skipped
      /\ a.task = x.task /\ a.calls = x.calls /\ a.rejected = x.rejected
  BY DEF Walks
<1> HIDE DEF a
<1>2. /\ b \in Walks /\ b.stage = "entering" /\ b.rung = i /\ b.skipped = x.skipped
      /\ b.task = x.task /\ b.calls = x.calls /\ b.rejected = x.rejected
  BY <1>1 DEF Walks
<1> HIDE DEF b
<1>3. 1 \in 0..Retries + 1
  BY RouterAssumption
<1>4. /\ c \in Walks /\ c.stage = "entering" /\ c.rung = i /\ c.try = 1
      /\ c.skipped = x.skipped
      /\ c.task = x.task /\ c.calls = x.calls /\ c.rejected = x.rejected
  BY <1>2, <1>3 DEF Walks
<1> HIDE DEF c
<1>5. x.skipped \cup S \in SUBSET Providers
  BY DEF Walks
<1>6. /\ z \in Walks /\ z.stage = "entering" /\ z.rung = i /\ z.try = 1
      /\ z.skipped = x.skipped \cup S
      /\ z.task = x.task /\ z.calls = x.calls /\ z.rejected = x.rejected
  BY <1>4, <1>5 DEF Walks
<1> QED BY <1>6 DEF a, b, c, Taking

\* Where Descend leaves a request that made all the calls its rungs so far allow.
LEMMA DescendStands ==
    ASSUME NEW x \in Walks, NEW cs,
           x.rejected \subseteq x.skipped,
           x.calls <= (Retries + 1) * x.rung
    PROVE  /\ Descend(x, cs) \in Walks
           /\ Descend(x, cs).stage \in {"entering", "failed"}
           /\ (Descend(x, cs).stage = "failed") <=> (OpenRungs(x, cs) = {})
           /\ OpenRungs(x, cs) # {} => Standing(Descend(x, cs))
           /\ x.calls > 0 => Standing(Descend(x, cs))
<1>1. x.task \in Tasks /\ x.rung \in Nat /\ x.calls \in Nat
  BY DEF Walks
<1>2. CASE OpenRungs(x, cs) = {}
  <2>1. Descend(x, cs) = Settled(x, "failed")
    BY <1>2 DEF Descend
  <2>2. x.calls > 0 => Standing(Settled(x, "failed"))
    BY SettledTyped DEF Standing, OnARung
  <2>3. Settled(x, "failed") \in Walks /\ Settled(x, "failed").stage = "failed"
    BY SettledTyped
  <2> QED BY <1>2, <2>1, <2>2, <2>3
<1>3. CASE OpenRungs(x, cs) # {}
  <2> DEFINE i == Min(OpenRungs(x, cs))
             z == Taking(x, i, Passed(x, i))
  <2>1. Descend(x, cs) = z
    BY <1>3 DEF Descend, Taking
  <2>2. i \in OpenRungs(x, cs) /\ Ladders[x.task][i] \notin Passed(x, i)
    BY <1>3, FirstOpenRung
  <2> HIDE DEF i
  <2>3. /\ i \in DOMAIN Ladders[x.task] /\ i \in Nat /\ i > x.rung
        /\ Ladders[x.task][i] \notin x.skipped
    BY <1>1, <2>2, LadderTyped DEF OpenRungs
  <2>4. Passed(x, i) \in SUBSET Providers
    <3>1. \A j \in x.rung + 1 .. i - 1 : j \in DOMAIN Ladders[x.task]
      BY <1>1, <2>3, LadderTyped
    <3> QED BY <1>1, <3>1, LadderTyped DEF Passed
  <2>5. /\ z \in Walks /\ z.stage = "entering" /\ z.rung = i /\ z.try = 1
        /\ z.skipped = x.skipped \cup Passed(x, i)
        /\ z.task = x.task /\ z.calls = x.calls /\ z.rejected = x.rejected
    BY <2>3, <2>4, EnteringTyped
  <2> HIDE DEF z
  <2>6. x.calls <= (Retries + 1) * (i - 1) /\ (Retries + 1) * (i - 1) \in Nat
    <3>1. (Retries + 1) * x.rung <= (Retries + 1) * (i - 1)
      BY <1>1, <2>3, LowerRungsAllowMore
    <3>2. i - 1 \in Nat
      BY <1>1, <2>3
    <3>3. (Retries + 1) * x.rung \in Nat /\ (Retries + 1) * (i - 1) \in Nat
      BY <1>1, <3>2, CallsTyped
    <3> QED BY <1>1, <3>1, <3>3
  <2>7. z.calls <= Allowance(z.rung, z.try) - 1
    <3> DEFINE k == (Retries + 1) * (i - 1)
    <3>1. Allowance(z.rung, z.try) = k + 1
      BY <2>5 DEF Allowance
    <3> HIDE DEF k
    <3> QED BY <1>1, <2>5, <2>6, <3>1 DEF k
  <2>8. Standing(z)
    BY <2>2, <2>3, <2>5, <2>7, RouterAssumption DEF Standing, RungProvider
  <2> QED BY <1>3, <2>1, <2>5, <2>8
<1> QED BY <1>2, <1>3

-----------------------------------------------------------------------------
(* The queue of the semaphore. *)

LEMMA AppendQueue ==
    ASSUME NEW s \in Seq(Requests), NEW r \in Requests, IsInjective(s), r \notin Range(s)
    PROVE  /\ Append(s, r) \in Seq(Requests) /\ IsInjective(Append(s, r))
           /\ Range(Append(s, r)) = Range(s) \cup {r}
           /\ s \o <<r>> = Append(s, r)
<1>1. /\ Append(s, r) \in Seq(Requests)
      /\ Len(Append(s, r)) = Len(s) + 1
      /\ \A i \in 1..Len(s) : Append(s, r)[i] = s[i]
      /\ Append(s, r)[Len(s) + 1] = r
  BY AppendProperties
<1>2. DOMAIN s = 1..Len(s) /\ DOMAIN Append(s, r) = 1..Len(s) + 1 /\ Len(s) \in Nat
  BY <1>1
<1>3. IsInjective(Append(s, r))
  BY <1>1, <1>2 DEF IsInjective, Range
<1>4. Range(Append(s, r)) = Range(s) \cup {r}
  <2>1. Len(s) + 1 \in DOMAIN Append(s, r)
    BY <1>2
  <2>2. Range(Append(s, r)) \subseteq Range(s) \cup {r}
    BY <1>1, <1>2 DEF Range
  <2>3. Range(s) \subseteq Range(Append(s, r))
    BY <1>1, <1>2 DEF Range
  <2>4. r \in Range(Append(s, r))
    BY <1>1, <2>1 DEF Range
  <2> QED BY <2>2, <2>3, <2>4
<1>5. s \o <<r>> = Append(s, r)
  BY AppendIsConcat
<1> QED BY <1>1, <1>3, <1>4, <1>5

LEMMA TailQueue ==
    ASSUME NEW s \in Seq(Requests), s # <<>>, IsInjective(s)
    PROVE  /\ Head(s) \in Range(s) /\ Head(s) \in Requests
           /\ Tail(s) \in Seq(Requests) /\ IsInjective(Tail(s))
           /\ Range(Tail(s)) = Range(s) \ {Head(s)}
           /\ Tail(s) \o <<>> = Tail(s)
<1>1. /\ Len(s) \in Nat \ {0} /\ DOMAIN s = 1..Len(s)
      /\ Head(s) = s[1] /\ Head(s) \in Requests
      /\ Tail(s) \in Seq(Requests) /\ Len(Tail(s)) = Len(s) - 1
      /\ \A i \in 1..Len(Tail(s)) : Tail(s)[i] = s[i + 1]
  BY HeadTailProperties, EmptySeq
<1>2. DOMAIN Tail(s) = 1..Len(s) - 1
  BY <1>1
<1>3. IsInjective(Tail(s))
  <2> SUFFICES ASSUME NEW a \in 1..Len(s) - 1, NEW b \in 1..Len(s) - 1, Tail(s)[a] = Tail(s)[b]
               PROVE  a = b
    BY <1>2 DEF IsInjective
  <2>1. s[a + 1] = s[b + 1] /\ a + 1 \in DOMAIN s /\ b + 1 \in DOMAIN s
    BY <1>1
  <2>2. a + 1 = b + 1
    BY <2>1 DEF IsInjective
  <2> QED BY <1>1, <2>2
<1>4. Range(Tail(s)) = Range(s) \ {Head(s)}
  <2>1. ASSUME NEW i \in 1..Len(s) - 1 PROVE Tail(s)[i] \in Range(s) \ {Head(s)}
    <3>1. i + 1 \in DOMAIN s /\ 1 \in DOMAIN s /\ i + 1 # 1 /\ Tail(s)[i] = s[i + 1]
      BY <1>1
    <3> QED BY <1>1, <3>1 DEF Range, IsInjective
  <2>2. ASSUME NEW i \in DOMAIN s, i # 1 PROVE s[i] \in Range(Tail(s))
    <3> DEFINE j == i - 1
    <3>1. j \in 1..Len(Tail(s)) /\ j + 1 = i
      BY <1>1, <2>2
    <3> HIDE DEF j
    <3>2. j \in DOMAIN Tail(s) /\ Tail(s)[j] = s[i]
      BY <1>1, <1>2, <3>1
    <3> QED BY <3>2 DEF Range
  <2> QED BY <1>1, <1>2, <2>1, <2>2 DEF Range
<1>5. Head(s) \in Range(s)
  BY <1>1 DEF Range
<1> QED BY <1>1, <1>3, <1>4, <1>5

-----------------------------------------------------------------------------
(* The permits. *)

Queued ==
    /\ Permits > 0 => Cardinality(InCall) <= Permits
    /\ waiting # <<>> => Permits > 0 /\ Cardinality(InCall) = Permits
    /\ Range(waiting) = {r \in Requests : req[r].stage = "waiting"}
    /\ IsInjective(waiting)

\* What a request in the router and its semaphore keep to.
RInv ==
    /\ req \in [Requests -> Records] /\ waiting \in Seq(Requests)
    /\ Queued
    /\ \A r \in Requests : Standing(req[r])

LEMMA InCallFinite ==
    /\ IsFiniteSet(InCall) /\ Cardinality(InCall) \in Nat
    /\ IsFiniteSet(InCall)' /\ Cardinality(InCall)' \in Nat
<1>1. \A S \in SUBSET Requests : IsFiniteSet(S) /\ Cardinality(S) \in Nat
  BY RouterAssumption, FS_Subset, FS_CardinalityType
<1>2. InCall \in SUBSET Requests /\ InCall' \in SUBSET Requests
  BY DEF InCall
<1> QED BY <1>1, <1>2

\* Where a request lands that reaches the semaphore.
LEMMA EnteredStands ==
    ASSUME NEW x \in Walks, Standing(x), NEW held, NEW queue
    PROVE  /\ Entered(x, held, queue) \in Records /\ Standing(Entered(x, held, queue))
           /\ x.stage # "entering" => Entered(x, held, queue) = x
           /\ x.stage = "entering" =>
                /\ Entered(x, held, queue).stage \in {"calling", "waiting"}
                /\ Entered(x, held, queue).stage = "calling" <=>
                      (Permits = 0 \/ (held < Permits /\ queue = <<>>))
<1>1. CASE x.stage # "entering"
  BY <1>1, WalksSplit DEF Entered
<1>2. CASE x.stage = "entering"
  <2>1. PICK at \in {"calling", "waiting"} :
            /\ Entered(x, held, queue) = [x EXCEPT !.stage = at]
            /\ at = "calling" <=> (Permits = 0 \/ (held < Permits /\ queue = <<>>))
    BY <1>2 DEF Entered
  <2> DEFINE y == [x EXCEPT !.stage = at]
  <2>2. /\ y \in Records /\ y.stage = at /\ y.rung = x.rung /\ y.task = x.task
        /\ y.skipped = x.skipped /\ y.rejected = x.rejected
        /\ y.try = x.try /\ y.calls = x.calls
    BY DEF Walks, Records
  <2> HIDE DEF y
  <2>3. Standing(y)
    BY <1>2, <2>2 DEF Standing, OnARung, RungProvider
  <2> QED BY <1>2, <2>1, <2>2, <2>3 DEF y
<1> QED BY <1>1, <1>2

\* A request comes to the semaphore that neither held a permit nor waited.
LEMMA Joins ==
    ASSUME RInv, NEW r \in Requests, req[r].stage \notin {"calling", "waiting"},
           NEW x \in Walks, Standing(x), x.stage = "entering",
           NEW y, y = Entered(x, Cardinality(InCall), waiting),
           req' = [req EXCEPT ![r] = y],
           waiting' = IF y.stage = "waiting" THEN Append(waiting, r) ELSE waiting
    PROVE  RInv' /\ y.stage \in {"calling", "waiting"}
<1>1. /\ y \in Records /\ Standing(y) /\ y.stage \in {"calling", "waiting"}
      /\ y.stage = "calling" <=> (Permits = 0 \/ (Cardinality(InCall) < Permits /\ waiting = <<>>))
  BY EnteredStands
<1>2. /\ req' \in [Requests -> Records]
      /\ \A q \in Requests : req'[q] = IF q = r THEN y ELSE req[q]
      /\ \A q \in Requests : Standing(req[q])
      /\ waiting \in Seq(Requests) /\ Queued
  BY <1>1 DEF RInv
<1>3. \A q \in Requests : Standing(req'[q])
  BY <1>1, <1>2
<1>4. Permits \in Nat
  BY RouterAssumption
<1>5. r \notin Range(waiting)
  BY <1>2 DEF Queued
<1>6. CASE y.stage = "calling"
  <2>1. waiting' = waiting /\ InCall' = InCall \cup {r} /\ r \notin InCall
    BY <1>2, <1>6 DEF InCall
  <2>2. Cardinality(InCall)' = Cardinality(InCall) + 1
    BY <2>1, InCallFinite, FS_AddElement
  <2>3. waiting = <<>>
    BY <1>1, <1>2, <1>4, <1>6 DEF Queued
  <2>4. Permits > 0 => Cardinality(InCall)' <= Permits
    BY <1>1, <1>4, <1>6, <2>2, InCallFinite
  <2>5. {q \in Requests : req'[q].stage = "waiting"} = {q \in Requests : req[q].stage = "waiting"}
    BY <1>2, <1>6
  <2>6. Queued'
    BY <1>2, <2>1, <2>3, <2>4, <2>5 DEF Queued
  <2> QED BY <1>1, <1>2, <1>3, <2>1, <2>6 DEF RInv
<1>7. CASE y.stage = "waiting"
  <2>1. waiting' = Append(waiting, r) /\ InCall' = InCall
    BY <1>2, <1>7 DEF InCall
  <2>2. Permits > 0 /\ Cardinality(InCall) = Permits
    BY <1>1, <1>2, <1>4, <1>7, InCallFinite DEF Queued
  <2>3. /\ waiting' \in Seq(Requests) /\ IsInjective(waiting')
        /\ Range(waiting') = Range(waiting) \cup {r}
    BY <1>2, <1>5, <2>1, AppendQueue DEF Queued
  <2>4. {q \in Requests : req'[q].stage = "waiting"}
            = {q \in Requests : req[q].stage = "waiting"} \cup {r}
    BY <1>2, <1>7
  <2>5. Queued'
    BY <1>2, <1>4, <2>1, <2>2, <2>3, <2>4 DEF Queued
  <2> QED BY <1>1, <1>2, <1>3, <2>3, <2>5 DEF RInv
<1> QED BY <1>1, <1>6, <1>7

\* A request gives its permit back, to the head of the queue if there is one,
\* and goes on as x.
LEMMA Resumes ==
    ASSUME RInv, NEW r \in Requests, req[r].stage = "calling",
           NEW x \in Walks, Standing(x),
           x.stage \in {"entering", "sleeping", "served", "failed"},
           Resume(r, x)
    PROVE  /\ RInv'
           /\ \A q \in Requests \ {r} :
                 req'[q] = req[q] \/ (req[q].stage = "waiting" /\ req'[q] = [req[q] EXCEPT !.stage = "calling"])
           /\ x.stage = "entering" => req'[r].stage \in {"calling", "waiting"}
           /\ x.stage # "entering" => req'[r] = x
<1>1. /\ req \in [Requests -> Records] /\ waiting \in Seq(Requests) /\ Queued
      /\ \A q \in Requests : Standing(req[q])
  BY DEF RInv
<1>2. Permits \in Nat
  BY RouterAssumption
<1>3. r \in InCall /\ IsFiniteSet(InCall) /\ Cardinality(InCall) \in Nat
  BY InCallFinite DEF InCall
<1>4. CASE waiting = <<>>
  <2> DEFINE y == Entered(x, Cardinality(InCall) - 1, <<>>)
  <2>1. req' = [req EXCEPT ![r] = y] /\ waiting' = waiting
    BY <1>4 DEF Resume
  <2>2. /\ y \in Records /\ Standing(y) /\ y.stage # "waiting"
        /\ x.stage = "entering" => y.stage = "calling"
        /\ x.stage # "entering" => y = x
    <3>1. Permits > 0 => Cardinality(InCall) - 1 < Permits
      BY <1>1, <1>2, <1>3 DEF Queued
    <3> QED BY <1>2, <3>1, EnteredStands
  <2> HIDE DEF y
  <2>3. /\ req' \in [Requests -> Records]
        /\ \A q \in Requests : req'[q] = IF q = r THEN y ELSE req[q]
    BY <1>1, <2>1, <2>2
  <2>4. \A q \in Requests : Standing(req'[q])
    BY <1>1, <2>2, <2>3
  <2>5. {q \in Requests : req'[q].stage = "waiting"} = {q \in Requests : req[q].stage = "waiting"}
    BY <2>2, <2>3
  <2>6. InCall' \subseteq InCall
    BY <1>3, <2>3 DEF InCall
  <2>7. Permits > 0 => Cardinality(InCall)' <= Permits
    <3>1. Cardinality(InCall)' <= Cardinality(InCall) /\ Cardinality(InCall)' \in Nat
      BY <1>3, <2>6, FS_Subset, InCallFinite
    <3> QED BY <1>1, <1>2, <1>3, <3>1 DEF Queued
  <2>8. Queued'
    BY <1>1, <1>4, <2>1, <2>5, <2>7 DEF Queued
  <2> QED BY <1>1, <2>1, <2>2, <2>3, <2>4, <2>8 DEF RInv
<1>5. CASE waiting # <<>>
  <2> DEFINE y == Entered(x, Cardinality(InCall), Tail(waiting))
             h == Head(waiting)
             z == [req[h] EXCEPT !.stage = "calling"]
  <2>1. /\ req' = [req EXCEPT ![r] = y, ![h] = z]
        /\ waiting' = Tail(waiting) \o (IF y.stage = "waiting" THEN <<r>> ELSE <<>>)
    BY <1>5 DEF Resume
  <2>2. Permits > 0 /\ Cardinality(InCall) = Permits
    BY <1>1, <1>5 DEF Queued
  <2>3. /\ h \in Range(waiting) /\ h \in Requests
        /\ Tail(waiting) \in Seq(Requests) /\ IsInjective(Tail(waiting))
        /\ Range(Tail(waiting)) = Range(waiting) \ {h}
        /\ Tail(waiting) \o <<>> = Tail(waiting)
    BY <1>1, <1>5, TailQueue DEF Queued
  <2>4. /\ y \in Records /\ Standing(y)
        /\ x.stage = "entering" => y.stage = "waiting"
        /\ x.stage # "entering" => y = x /\ y.stage # "waiting" /\ y.stage # "calling"
    BY <1>2, <2>2, EnteredStands
  <2> HIDE DEF y, h
  <2>5. req[h].stage = "waiting" /\ h # r /\ h \notin InCall
    BY <1>1, <2>3 DEF Queued, InCall
  <2>6. z \in Records /\ z.stage = "calling" /\ Standing(z)
    <3>1. /\ z \in Records /\ z.stage = "calling" /\ z.rung = req[h].rung /\ z.task = req[h].task
          /\ z.skipped = req[h].skipped /\ z.rejected = req[h].rejected
          /\ z.try = req[h].try /\ z.calls = req[h].calls
      BY <1>1, <2>3 DEF Records
    <3>2. Standing(req[h])
      BY <1>1, <2>3
    <3> HIDE DEF z
    <3> QED BY <2>5, <3>1, <3>2 DEF Standing, OnARung, RungProvider
  <2> HIDE DEF z
  <2>7. /\ req' \in [Requests -> Records]
        /\ \A q \in Requests : req'[q] = IF q = h THEN z ELSE IF q = r THEN y ELSE req[q]
    BY <1>1, <2>1, <2>3, <2>4, <2>5, <2>6
  <2>8. \A q \in Requests : Standing(req'[q])
    BY <1>1, <2>4, <2>6, <2>7
  <2>9. Cardinality(InCall)' = Permits
    <3>1. InCall' = (InCall \ {r}) \cup {h}
      BY <1>3, <2>3, <2>4, <2>6, <2>7 DEF InCall
    <3>2. IsFiniteSet(InCall \ {r}) /\ Cardinality(InCall \ {r}) = Cardinality(InCall) - 1
      BY <1>3, FS_RemoveElement
    <3>3. Cardinality((InCall \ {r}) \cup {h}) = Cardinality(InCall \ {r}) + 1
      BY <2>5, <3>2, FS_AddElement
    <3> QED BY <1>3, <2>2, <3>1, <3>2, <3>3
  <2>10. CASE x.stage = "entering"
    <3>1. waiting' = Tail(waiting) \o <<r>>
      BY <2>1, <2>4, <2>10
    <3>2. r \notin Range(Tail(waiting))
      BY <1>1, <2>3 DEF Queued
    <3>3. /\ waiting' \in Seq(Requests) /\ IsInjective(waiting')
          /\ Range(waiting') = Range(Tail(waiting)) \cup {r}
      <4> DEFINE s == Tail(waiting)
      <4>1. s \in Seq(Requests) /\ IsInjective(s) /\ r \notin Range(s)
        BY <2>3, <3>2
      <4> HIDE DEF s
      <4>2. /\ Append(s, r) \in Seq(Requests) /\ IsInjective(Append(s, r))
            /\ Range(Append(s, r)) = Range(s) \cup {r} /\ s \o <<r>> = Append(s, r)
        BY <4>1, AppendQueue
      <4> QED BY <3>1, <4>2 DEF s
    <3>4. {q \in Requests : req'[q].stage = "waiting"}
             = ({q \in Requests : req[q].stage = "waiting"} \ {h}) \cup {r}
      BY <2>4, <2>5, <2>6, <2>7, <2>10
    <3>5. Queued'
      BY <1>1, <2>2, <2>3, <2>9, <3>3, <3>4, RouterAssumption DEF Queued
    <3> QED BY <2>4, <2>5, <2>7, <2>8, <2>10, <3>3, <3>5 DEF RInv, z
  <2>11. CASE x.stage # "entering"
    <3>1. waiting' = Tail(waiting)
      BY <2>1, <2>3, <2>4, <2>11
    <3>2. {q \in Requests : req'[q].stage = "waiting"}
             = {q \in Requests : req[q].stage = "waiting"} \ {h}
      BY <2>4, <2>5, <2>6, <2>7, <2>11
    <3>3. Queued'
      BY <1>1, <2>2, <2>3, <2>9, <3>1, <3>2, RouterAssumption DEF Queued
    <3> QED BY <2>3, <2>4, <2>5, <2>7, <2>8, <2>11, <3>1, <3>3 DEF RInv, z
  <2> QED BY <2>10, <2>11
<1> QED BY <1>4, <1>5

-----------------------------------------------------------------------------
(* What a request carries from one rung to the next. *)

LEMMA StartTyped ==
    ASSUME NEW u \in Users \cup {NoUser}, NEW t \in Tasks
    PROVE  /\ Starting(u, t) \in Records /\ Starting(u, t) \in Walks
           /\ Starting(u, t).task = t /\ Starting(u, t).rung = 0
           /\ Starting(u, t).calls = 0 /\ Starting(u, t).skipped = {}
           /\ Starting(u, t).rejected = {} /\ Starting(u, t).stage = "idle"
BY RouterAssumption DEF Starting, Records, Walks, Stages

LEMMA CountedTyped ==
    ASSUME NEW x \in Records
    PROVE  /\ Counted(x) \in Records /\ Counted(x).calls = x.calls + 1 /\ Counted(x).calls > 0
           /\ Counted(x).stage = x.stage /\ Counted(x).rung = x.rung /\ Counted(x).try = x.try
           /\ Counted(x).task = x.task /\ Counted(x).skipped = x.skipped
           /\ Counted(x).rejected = x.rejected
BY DEF Counted, Records

\* Whatever says that the key is no good is heard as that, in every dialect.
LEMMA RejectionsAreHeard ==
    ASSUME NEW r, NEW reply, RejectsKey(Dialect[RungProvider(req[r])], reply)
    PROVE  Heard(r, reply) = "auth"
<1> DEFINE d == Dialect[RungProvider(req[r])]
<1>1. Heard(r, reply) = Classed(d, reply)
  BY DEF Heard
<1> HIDE DEF d
<1>2. CASE reply = "unauthorised"
  <2>1. reply \notin Bodies /\ reply \notin Failures
    BY <1>2 DEF Bodies, Failures
  <2>2. ByStatus(reply) = "auth"
    BY <1>2, <2>1 DEF ByStatus
  <2>3. Classed(d, reply) = ByStatus(reply)
    BY <2>1 DEF Classed
  <2> QED BY <1>1, <2>2, <2>3
<1>3. CASE reply = "refused key" /\ d = "cloudflare"
  BY <1>1, <1>3 DEF Classed, Bodies, CloudflareParsed
<1>4. CASE reply = "refused key" /\ d = "puter"
  BY <1>1, <1>4 DEF Classed, Bodies, PuterParsed
<1> QED BY <1>2, <1>3, <1>4 DEF RejectsKey, d

\* A provider that rejected the key is among those skipped.
LEMMA AbandonTyped ==
    ASSUME NEW x \in Records, Standing(x), x.stage = "calling",
           NEW kind, NEW reply,
           RejectsKey(Dialect[RungProvider(x)], reply) => kind = "auth"
    PROVE  LET a == Abandon(Rejecting(x, reply), kind)
           IN /\ a \in Walks /\ a.rejected \subseteq a.skipped
              /\ a.calls > 0 /\ a.calls <= (Retries + 1) * a.rung
<1> DEFINE p == RungProvider(x)
           j == Rejecting(x, reply)
           c == Counted(j)
           a == Abandon(j, kind)
<1>1. p \in Providers /\ x.rung \in Nat /\ x.rung >= 1
  <2>1. x.task \in Tasks /\ x.rung \in DOMAIN Ladders[x.task]
    BY DEF Records, Standing, OnARung
  <2> QED BY <2>1, LadderTyped DEF RungProvider
<1>2. /\ j \in Records /\ j.calls = x.calls /\ j.rung = x.rung /\ j.task = x.task
      /\ j.skipped = x.skipped /\ j.rejected \subseteq x.rejected \cup {p}
      /\ kind # "auth" => j.rejected = x.rejected
  BY <1>1 DEF Rejecting, Records
<1> HIDE DEF j
<1>3. /\ c \in Records /\ c.calls = x.calls + 1 /\ c.calls > 0 /\ c.rung = x.rung
      /\ c.skipped = x.skipped /\ c.rejected = j.rejected
  BY <1>2, CountedTyped
<1>4. RungProvider(j) = p
  BY <1>2 DEF RungProvider
<1> HIDE DEF c, p
<1>5. /\ a \in Records /\ a.calls = c.calls /\ a.rung = c.rung /\ a.rejected = c.rejected
      /\ a.skipped = IF kind = "auth" THEN c.skipped \cup {p} ELSE c.skipped
  BY <1>1, <1>3, <1>4 DEF Abandon, Records, c
<1>6. x.rejected \subseteq x.skipped
  BY DEF Standing, OnARung
<1>7. a.rejected \subseteq a.skipped
  BY <1>2, <1>3, <1>5, <1>6
<1>8. a.calls <= (Retries + 1) * a.rung
  <2> DEFINE k == (Retries + 1) * (x.rung - 1)
  <2>1. x.calls <= Allowance(x.rung, x.try) - 1 /\ x.try <= Retries + 1
    BY RouterAssumption DEF Standing, OnARung, Records
  <2>2. (Retries + 1) * x.rung = k + (Retries + 1) /\ k \in Nat
    <3>1. x.rung - 1 \in Nat /\ x.rung = (x.rung - 1) + 1
      BY <1>1
    <3>2. \A n \in Nat : (Retries + 1) * (n + 1) = (Retries + 1) * n + (Retries + 1)
      BY RouterAssumption
    <3> QED BY <3>1, <3>2, CallsTyped
  <2>3. Allowance(x.rung, x.try) = k + x.try
    BY DEF Allowance
  <2> HIDE DEF k
  <2>4. x.calls \in Nat /\ x.try \in Nat /\ Retries \in Nat
    BY RouterAssumption DEF Records
  <2>5. x.calls + 1 <= k + (Retries + 1)
    BY <2>1, <2>2, <2>3, <2>4
  <2> QED BY <1>3, <1>5, <2>2, <2>5
<1>9. a \in Walks
  BY <1>5, WalksSplit
<1> HIDE DEF a
<1>10. a.calls > 0
  BY <1>3, <1>5
<1> QED BY <1>7, <1>8, <1>9, <1>10 DEF a, j

-----------------------------------------------------------------------------
(* The steps of one request.  Each keeps the invariant, and is a step of the  *)
(* abstract service or none.                                                  *)

Phase == [r \in Requests |-> IF Busy(r) THEN "pending" ELSE req[r].stage]

\* One request moves, another may be handed a permit.
LEMMA PhaseMoves ==
    ASSUME NEW r \in Requests, NEW how,
           \A q \in Requests \ {r} :
              \/ req'[q].stage = req[q].stage
              \/ req[q].stage = "waiting" /\ req'[q].stage = "calling",
           how = IF req'[r].stage \in {"waiting", "calling", "sleeping"}
                 THEN "pending" ELSE req'[r].stage
    PROVE  Phase' = [Phase EXCEPT ![r] = how]
<1>1. ASSUME NEW q \in Requests PROVE Phase'[q] = [Phase EXCEPT ![r] = how][q]
  <2>1. CASE q = r
    BY <2>1 DEF Phase, Busy
  <2>2. CASE q # r
    BY <2>2 DEF Phase, Busy
  <2> QED BY <2>1, <2>2
<1> QED BY <1>1 DEF Phase

\* Everything that is not a request or the queue.
Surroundings ==
    /\ circuits \in [Providers -> Circuits]
    /\ budget \in [Users -> Budgets]
    /\ \A u \in Users :
          /\ DailyLimit > 0 => budget[u].today <= DailyLimit
          /\ RateLimit > 0 => Len(budget[u].recent) <= RateLimit
    /\ ledger \in [requests : Nat, succeeded : Nat]
    /\ orphans \subseteq Providers

\* A request that is accepted finds a rung: the back-pressure check has looked
\* at the very circuits the walk looks at.
LEMMA AcceptedIsServed ==
    ASSUME NEW t \in Tasks, NEW u \in Users \cup {NoUser}, Surroundings, ~BackPressure(t)
    PROVE  OpenRungs(Starting(u, t), circuits) # {}
<1>1. PICK i \in DOMAIN Ladders[t] : ~Blocks(circuits[Ladders[t][i]])
  BY DEF BackPressure, Range
<1>2. circuits[Ladders[t][i]] \in Circuits
  BY <1>1, LadderTyped DEF Surroundings
<1>3. Allows(circuits[Ladders[t][i]])
  BY <1>1, <1>2, ResetAssumption DEF Circuits, Blocks, Allows
<1>4. i > 0
  BY <1>1, LadderTyped
<1>5. i \in OpenRungs(Starting(u, t), circuits)
  BY <1>1, <1>3, <1>4, StartTyped DEF OpenRungs
<1> QED BY <1>5

LEMMA SubmitKeeps ==
    ASSUME RInv, Surroundings, NEW r \in Requests, NEW u \in Users \cup {NoUser}, NEW t \in Tasks,
           Submit(r, u, t)
    PROVE  RInv' /\ Service!Accept(r)
<1> DEFINE x == Descend(Starting(u, t), circuits)
           y == Entered(x, Cardinality(InCall), waiting)
<1>1. /\ ~Busy(r) /\ ~BackPressure(t) /\ req' = [req EXCEPT ![r] = y]
      /\ waiting' = IF y.stage = "waiting" THEN Append(waiting, r) ELSE waiting
      /\ ledger' = Noted(x)
  BY DEF Submit
<1>2. x \in Walks /\ x.stage = "entering" /\ Standing(x)
  <2> DEFINE s == Starting(u, t)
  <2>1. s \in Walks /\ s.rejected \subseteq s.skipped /\ s.rung = 0 /\ s.calls = 0
    <3>1. s.rejected = {} /\ s.skipped = {} /\ s \in Walks /\ s.rung = 0 /\ s.calls = 0
      BY StartTyped
    <3> HIDE DEF s
    <3> QED BY <3>1
  <2>2. OpenRungs(s, circuits) # {}
    BY <1>1, AcceptedIsServed
  <2> HIDE DEF s
  <2>3. s.calls <= (Retries + 1) * s.rung
    BY <2>1, CallsTyped
  <2>4. /\ Descend(s, circuits) \in Walks
        /\ Descend(s, circuits).stage \in {"entering", "failed"}
        /\ Descend(s, circuits).stage # "failed"
        /\ Standing(Descend(s, circuits))
    BY <2>1, <2>2, <2>3, DescendStands
  <2> QED BY <2>4 DEF s
<1>3. req[r].stage \notin {"calling", "waiting", "sleeping"} /\ req \in [Requests -> Records]
  BY <1>1 DEF Busy, RInv
<1> HIDE DEF x
<1>4. RInv' /\ y.stage \in {"calling", "waiting"}
  BY <1>1, <1>2, <1>3, Joins
<1> HIDE DEF y
<1>5. Busy(r)' /\ \A q \in Requests : q # r => req'[q] = req[q]
  BY <1>1, <1>3, <1>4 DEF Busy
<1>6. Phase[r] # "pending" /\ Phase' = [Phase EXCEPT ![r] = "pending"]
  <2>1. Phase[r] # "pending"
    BY <1>1, <1>3 DEF Phase, Records
  <2>2. \A q \in Requests \ {r} : req'[q].stage = req[q].stage
    BY <1>5
  <2> QED BY <1>5, <2>1, <2>2, PhaseMoves DEF Busy
<1>7. ledger'.requests = ledger.requests /\ ledger'.succeeded = ledger.succeeded
  BY <1>1, <1>2 DEF Noted, Surroundings
<1> QED BY <1>4, <1>6, <1>7 DEF Service!Accept, Phase

LEMMA AnswerKeeps ==
    ASSUME RInv, Surroundings, NEW r \in Requests, Answer(r)
    PROVE  RInv' /\ Service!Serve(r)
<1> DEFINE x == Settled(Counted(req[r]), "served")
<1>1. req[r].stage = "calling" /\ Resume(r, x) /\ ledger' = Noted(x)
  BY DEF Answer
<1>2. req[r] \in Records
  BY DEF RInv
<1>3. x \in Walks /\ x.stage = "served" /\ x.calls > 0
  BY <1>2, CountedTyped, WalksSplit, SettledTyped
<1> HIDE DEF x
<1>4. Standing(x)
  BY <1>3 DEF Standing, OnARung
<1>5. /\ RInv' /\ req'[r] = x
      /\ \A q \in Requests \ {r} :
            req'[q] = req[q] \/ (req[q].stage = "waiting" /\ req'[q] = [req[q] EXCEPT !.stage = "calling"])
  BY <1>1, <1>3, <1>4, Resumes
<1>6. \A q \in Requests \ {r} :
         req'[q].stage = req[q].stage \/ (req[q].stage = "waiting" /\ req'[q].stage = "calling")
  BY <1>5 DEF RInv, Records
<1>7. Phase' = [Phase EXCEPT ![r] = "served"] /\ Phase[r] = "pending"
  <2>1. Phase[r] = "pending"
    BY <1>1 DEF Phase, Busy
  <2>2. "served" = IF req'[r].stage \in {"waiting", "calling", "sleeping"} THEN "pending"
                   ELSE req'[r].stage
    BY <1>3, <1>5
  <2> QED BY <1>6, <2>1, <2>2, PhaseMoves
<1>8. ledger'.requests = ledger.requests + 1 /\ ledger'.succeeded = ledger.succeeded + 1
  BY <1>1, <1>3 DEF Noted
<1> QED BY <1>5, <1>7, <1>8 DEF Service!Serve, Phase

LEMMA BackoffKeeps ==
    ASSUME RInv, NEW r \in Requests, NEW reply, Backoff(r, reply)
    PROVE  RInv' /\ UNCHANGED Service!svars
<1> DEFINE c == Counted(req[r])
           x == [c EXCEPT !.stage = "sleeping"]
<1>1. req[r].stage = "calling" /\ Resume(r, x) /\ ledger' = ledger
      /\ Repeats(req[r], Heard(r, reply))
  BY DEF Backoff
<1>2. req[r] \in Records /\ Standing(req[r]) /\ req[r].try <= Retries
  BY <1>1 DEF RInv, Repeats
<1>3. /\ c \in Records /\ c.calls = req[r].calls + 1 /\ c.rung = req[r].rung
      /\ c.try = req[r].try /\ c.task = req[r].task /\ c.skipped = req[r].skipped
      /\ c.rejected = req[r].rejected
  BY <1>2, CountedTyped
<1> HIDE DEF c
<1>4. /\ x \in Walks /\ x.stage = "sleeping" /\ x.calls = req[r].calls + 1 /\ x.rung = req[r].rung
      /\ x.try = req[r].try /\ x.task = req[r].task /\ x.skipped = req[r].skipped
      /\ x.rejected = req[r].rejected
  BY <1>3 DEF Records, Walks, Stages
<1> HIDE DEF x
<1>5. Standing(x)
  <2> DEFINE k == (Retries + 1) * (req[r].rung - 1)
  <2>1. /\ req[r].rung \in DOMAIN Ladders[req[r].task]
        /\ RungProvider(req[r]) \notin req[r].skipped
        /\ req[r].rejected \subseteq req[r].skipped
        /\ req[r].calls <= Allowance(req[r].rung, req[r].try) - 1
    BY <1>1, <1>2 DEF Standing, OnARung
  <2>2. req[r].rung - 1 \in Nat
    <3>1. req[r].task \in Tasks
      BY <1>2 DEF Records
    <3> QED BY <2>1, <3>1, LadderTyped
  <2>3. k \in Nat /\ req[r].try \in Nat /\ req[r].calls \in Nat /\ Retries \in Nat
    <3>1. k \in Nat
      BY <2>2, CallsTyped
    <3> HIDE DEF k
    <3> QED BY <1>2, <3>1, RouterAssumption DEF Records
  <2>4. Allowance(req[r].rung, req[r].try) = k + req[r].try
    BY DEF Allowance
  <2> HIDE DEF k
  <2>5. x.calls <= Allowance(x.rung, x.try) - 0
    BY <1>4, <2>1, <2>3, <2>4
  <2>6. x.try + 1 <= Retries + 1
    BY <1>2, <1>4, <2>3
  <2>7. RungProvider(x) = RungProvider(req[r])
    BY <1>4 DEF RungProvider
  <2> QED BY <1>4, <2>1, <2>5, <2>6, <2>7 DEF Standing
<1>6. /\ RInv' /\ req'[r] = x
      /\ \A q \in Requests \ {r} :
            req'[q] = req[q] \/ (req[q].stage = "waiting" /\ req'[q] = [req[q] EXCEPT !.stage = "calling"])
  BY <1>1, <1>4, <1>5, Resumes
<1>7. \A q \in Requests \ {r} :
         req'[q].stage = req[q].stage \/ (req[q].stage = "waiting" /\ req'[q].stage = "calling")
  BY <1>6 DEF RInv, Records
<1>8. Phase' = [Phase EXCEPT ![r] = "pending"]
  BY <1>4, <1>6, <1>7, PhaseMoves
<1>9. Phase' = Phase
  <2>1. Phase[r] = "pending"
    BY <1>1 DEF Phase, Busy
  <2> QED BY <1>8, <2>1 DEF Phase
<1> QED BY <1>1, <1>6, <1>9 DEF Service!svars, Phase

LEMMA GiveUpRungKeeps ==
    ASSUME RInv, Surroundings, NEW r \in Requests, NEW reply, GiveUpRung(r, reply)
    PROVE  RInv' /\ (Service!Refuse(r) \/ UNCHANGED Service!svars)
<1> DEFINE p == RungProvider(req[r])
           kind == Heard(r, reply)
           cs == [circuits EXCEPT ![p] = Reported(@, kind)]
           a == Abandon(Rejecting(req[r], reply), kind)
           x == Descend(a, cs)
<1>1. req[r].stage = "calling" /\ Resume(r, x) /\ ledger' = Noted(x)
  BY DEF GiveUpRung
<1>2. req[r] \in Records /\ Standing(req[r])
  BY DEF RInv
<1>3. RejectsKey(Dialect[p], reply) => kind = "auth"
  BY RejectionsAreHeard
<1> HIDE DEF kind, p
<1>4. /\ a \in Walks /\ a.rejected \subseteq a.skipped
      /\ a.calls > 0 /\ a.calls <= (Retries + 1) * a.rung
  BY <1>1, <1>2, <1>3, AbandonTyped DEF p
<1> HIDE DEF a, cs
<1>5. x \in Walks /\ x.stage \in {"entering", "failed"} /\ Standing(x)
  BY <1>4, DescendStands
<1> HIDE DEF x
<1>6. /\ RInv'
      /\ \A q \in Requests \ {r} :
            req'[q] = req[q] \/ (req[q].stage = "waiting" /\ req'[q] = [req[q] EXCEPT !.stage = "calling"])
      /\ x.stage = "entering" => req'[r].stage \in {"calling", "waiting"}
      /\ x.stage # "entering" => req'[r] = x
  BY <1>1, <1>5, Resumes
<1>7. \A q \in Requests \ {r} :
         req'[q].stage = req[q].stage \/ (req[q].stage = "waiting" /\ req'[q].stage = "calling")
  BY <1>6 DEF RInv, Records
<1>8. Phase[r] = "pending"
  BY <1>1 DEF Phase, Busy
<1>9. CASE x.stage = "entering"
  <2>1. Phase' = [Phase EXCEPT ![r] = "pending"]
    BY <1>6, <1>7, <1>9, PhaseMoves
  <2>2. Phase' = Phase
    BY <1>8, <2>1 DEF Phase
  <2>3. ledger'.requests = ledger.requests /\ ledger'.succeeded = ledger.succeeded
    BY <1>1, <1>9 DEF Noted, Surroundings
  <2> QED BY <1>6, <2>2, <2>3 DEF Service!svars, Phase
<1>10. CASE x.stage = "failed"
  <2>1. "failed" = IF req'[r].stage \in {"waiting", "calling", "sleeping"} THEN "pending"
                   ELSE req'[r].stage
    BY <1>6, <1>10
  <2>2. Phase' = [Phase EXCEPT ![r] = "failed"]
    BY <1>7, <2>1, PhaseMoves
  <2>3. ledger'.requests = ledger.requests + 1 /\ ledger'.succeeded = ledger.succeeded
    BY <1>1, <1>10 DEF Noted, Surroundings
  <2> QED BY <1>6, <1>8, <2>2, <2>3 DEF Service!Refuse, Phase
<1> QED BY <1>5, <1>9, <1>10

LEMMA WakeKeeps ==
    ASSUME RInv, NEW r \in Requests, Wake(r)
    PROVE  RInv' /\ UNCHANGED Service!svars
<1> DEFINE x == [req[r] EXCEPT !.stage = "entering", !.try = @ + 1]
           y == Entered(x, Cardinality(InCall), waiting)
<1>1. /\ req[r].stage = "sleeping" /\ req' = [req EXCEPT ![r] = y]
      /\ waiting' = IF y.stage = "waiting" THEN Append(waiting, r) ELSE waiting
      /\ ledger' = ledger
  BY DEF Wake
<1>2. req[r] \in Records /\ Standing(req[r]) /\ req \in [Requests -> Records]
  BY DEF RInv
<1>3. /\ req[r].rung \in DOMAIN Ladders[req[r].task]
      /\ RungProvider(req[r]) \notin req[r].skipped
      /\ req[r].rejected \subseteq req[r].skipped
      /\ req[r].try + 1 <= Retries + 1
      /\ req[r].calls <= Allowance(req[r].rung, req[r].try) - 0
  BY <1>1, <1>2 DEF Standing, OnARung
<1>4. req[r].try + 1 \in 0..Retries + 1 /\ req[r].try \in Nat /\ req[r].calls \in Nat
  BY <1>2, <1>3, RouterAssumption DEF Records
<1>5. /\ x \in Walks /\ x.stage = "entering" /\ x.try = req[r].try + 1
      /\ x.calls = req[r].calls /\ x.rung = req[r].rung /\ x.task = req[r].task
      /\ x.skipped = req[r].skipped /\ x.rejected = req[r].rejected
  BY <1>2, <1>4 DEF Records, Walks, Stages
<1> HIDE DEF x
<1>6. Standing(x)
  <2> DEFINE k == (Retries + 1) * (req[r].rung - 1)
  <2>1. req[r].rung - 1 \in Nat
    <3>1. req[r].task \in Tasks
      BY <1>2 DEF Records
    <3> QED BY <1>3, <3>1, LadderTyped
  <2>2. k \in Nat
    BY <2>1, CallsTyped
  <2>3. /\ Allowance(req[r].rung, req[r].try) = k + req[r].try
        /\ Allowance(x.rung, x.try) = k + (req[r].try + 1)
    BY <1>5 DEF Allowance
  <2> HIDE DEF k
  <2>4. x.calls <= Allowance(x.rung, x.try) - 1
    BY <1>3, <1>4, <1>5, <2>2, <2>3
  <2>5. RungProvider(x) = RungProvider(req[r])
    BY <1>5 DEF RungProvider
  <2>6. x.try + 0 <= Retries + 1
    BY <1>3, <1>4, <1>5
  <2> QED BY <1>3, <1>5, <2>4, <2>5, <2>6 DEF Standing
<1>7. RInv' /\ y.stage \in {"calling", "waiting"}
  BY <1>1, <1>5, <1>6, Joins
<1> HIDE DEF y
<1>8. req'[r] = y /\ \A q \in Requests \ {r} : req'[q].stage = req[q].stage
  BY <1>1, <1>2
<1>9. Phase' = [Phase EXCEPT ![r] = "pending"] /\ Phase[r] = "pending"
  <2>1. Phase[r] = "pending"
    BY <1>1 DEF Phase, Busy
  <2> QED BY <1>7, <1>8, <2>1, PhaseMoves
<1>10. Phase' = Phase
  BY <1>9 DEF Phase
<1> QED BY <1>1, <1>7, <1>10 DEF Service!svars, Phase

-----------------------------------------------------------------------------
(* The breaker, the budgets and the ledger around the requests. *)

LEMMA GateTyped ==
    ASSUME NEW x, NEW cs \in [Providers -> Circuits]
    PROVE  AfterGate(x, cs) \in [Providers -> Circuits]
<1>1. \A p \in Providers : Admitted(cs[p]) \in Circuits
  BY CircuitsTyped
<1> QED BY <1>1 DEF AfterGate

LEMMA NotedTyped ==
    ASSUME Surroundings, NEW x
    PROVE  Noted(x) \in [requests : Nat, succeeded : Nat]
BY DEF Noted, Surroundings

LEMMA SurroundingsStay ==
    ASSUME RInv, Surroundings, [Next]_vars
    PROVE  Surroundings'
<1> DEFINE Cs == circuits' \in [Providers -> Circuits]
           Bs == /\ budget' \in [Users -> Budgets]
                 /\ \A u \in Users :
                       /\ DailyLimit > 0 => budget'[u].today <= DailyLimit
                       /\ RateLimit > 0 => Len(budget'[u].recent) <= RateLimit
           Ls == ledger' \in [requests : Nat, succeeded : Nat]
           Os == orphans' \subseteq Providers
<1>1. UNCHANGED circuits => Cs
  BY DEF Surroundings
<1>2. UNCHANGED budget => Bs
  BY DEF Surroundings
<1>3. UNCHANGED ledger => Ls
  BY DEF Surroundings
<1>4. UNCHANGED orphans => Os
  BY DEF Surroundings
<1>5. ASSUME NEW x, ledger' = Noted(x) PROVE Ls
  BY <1>5, NotedTyped
<1> HIDE DEF Cs, Bs, Ls, Os
<1>6. ASSUME NEW r \in Requests, req[r].stage = "calling" PROVE RungProvider(req[r]) \in Providers
  <2>1. req[r] \in Records /\ Standing(req[r])
    BY DEF RInv
  <2>2. req[r].task \in Tasks /\ req[r].rung \in DOMAIN Ladders[req[r].task]
    BY <1>6, <2>1 DEF Records, Standing, OnARung
  <2> QED BY <2>2, LadderTyped DEF RungProvider
<1>7. ASSUME NEW r \in Requests, NEW u \in Users \cup {NoUser}, NEW t \in Tasks, Submit(r, u, t)
      PROVE  Cs /\ Bs /\ Ls /\ Os
  <2>1. Cs
    BY <1>7, GateTyped DEF Submit, Surroundings, Cs
  <2>2. Bs
    <3>1. InBudget(u) /\ budget' = Spend(u)
      BY <1>7 DEF Submit
    <3>2. CASE u = NoUser
      BY <1>2, <3>1, <3>2 DEF Spend
    <3>3. CASE u \in Users
      <4>1. budget' = [budget EXCEPT ![u] = Charged(@)]
        BY <3>1, <3>3, RouterAssumption DEF Spend
      <4>2. /\ Charged(budget[u]) \in Budgets
            /\ DailyLimit > 0 => Charged(budget[u]).today <= DailyLimit
            /\ RateLimit > 0 => Len(Charged(budget[u]).recent) <= RateLimit
        <5>1. UnderDailyCap(budget[u]) /\ UnderRate(budget[u]) /\ budget[u] \in Budgets
          BY <3>1, <3>3 DEF InBudget, Surroundings
        <5> QED BY <5>1, ChargedTyped
      <4> QED BY <4>1, <4>2 DEF Surroundings, Bs
    <3> QED BY <3>2, <3>3
  <2> QED BY <1>4, <1>5, <1>7, <2>1, <2>2 DEF Submit
<1>8. ASSUME NEW r \in Requests, Answer(r) PROVE Cs /\ Bs /\ Ls /\ Os
  <2>1. Cs
    <3>1. \A p \in Providers : Succeeded(circuits[p]) \in Circuits
      BY CircuitsTyped DEF Surroundings
    <3> QED BY <1>8, <3>1 DEF Answer, Surroundings, Cs
  <2> QED BY <1>2, <1>4, <1>5, <1>8, <2>1 DEF Answer
<1>9. ASSUME NEW r \in Requests, NEW reply, Backoff(r, reply) PROVE Cs /\ Bs /\ Ls /\ Os
  BY <1>1, <1>2, <1>3, <1>4, <1>9 DEF Backoff
<1>10. ASSUME NEW r \in Requests, NEW reply, GiveUpRung(r, reply) PROVE Cs /\ Bs /\ Ls /\ Os
  <2> DEFINE p == RungProvider(req[r])
             cs == [circuits EXCEPT ![p] = Reported(@, Heard(r, reply))]
  <2>1. PICK x : circuits' = AfterGate(x, cs) /\ ledger' = Noted(x)
    BY <1>10 DEF GiveUpRung
  <2>2. cs \in [Providers -> Circuits]
    <3>1. \A q \in Providers : Reported(circuits[q], Heard(r, reply)) \in Circuits
      BY CircuitsTyped DEF Surroundings
    <3> QED BY <3>1 DEF Surroundings
  <2>3. p \in Providers
    BY <1>6, <1>10 DEF GiveUpRung
  <2> HIDE DEF cs, p
  <2>4. Os
    BY <1>10, <2>3 DEF GiveUpRung, Surroundings, Os, p
  <2>5. Cs
    BY <2>1, <2>2, GateTyped DEF Cs
  <2>6. Bs
    BY <1>2, <1>10 DEF GiveUpRung
  <2> QED BY <1>5, <2>1, <2>4, <2>5, <2>6
<1>11. ASSUME NEW r \in Requests, Wake(r) PROVE Cs /\ Bs /\ Ls /\ Os
  BY <1>1, <1>2, <1>3, <1>4, <1>11 DEF Wake
<1>12. ASSUME Tick PROVE Cs /\ Bs /\ Ls /\ Os
  <2>1. Cs
    BY <1>12, CircuitsTyped DEF Tick, Surroundings, Cs
  <2>2. Bs
    <3>1. \A u \in Users : /\ Aged(budget[u]) \in Budgets /\ Aged(budget[u]).today = budget[u].today
                             /\ Len(Aged(budget[u]).recent) <= Len(budget[u].recent)
      BY AgedTyped DEF Surroundings
    <3>2. budget' = [u \in Users |-> Aged(budget[u])]
      BY <1>12 DEF Tick
    <3>3. ASSUME NEW u \in Users, RateLimit > 0 PROVE Len(Aged(budget[u]).recent) <= RateLimit
      <4>1. Len(budget[u].recent) \in Nat /\ Len(Aged(budget[u]).recent) \in Nat
        BY <3>1 DEF Budgets, Surroundings
      <4>2. Len(budget[u].recent) <= RateLimit
        BY <3>3 DEF Surroundings
      <4> QED BY <3>1, <4>1, <4>2, LimitsAssumption
    <3> QED BY <3>1, <3>2, <3>3 DEF Surroundings, Bs
  <2> QED BY <1>3, <1>4, <1>12, <2>1, <2>2 DEF Tick
<1>13. ASSUME Midnight PROVE Cs /\ Bs /\ Ls /\ Os
  <2>1. Bs
    <3>1. \A u \in Users : /\ Renewed(budget[u]) \in Budgets /\ Renewed(budget[u]).today = 0
                             /\ Renewed(budget[u]).recent = budget[u].recent
      BY ChargedTyped DEF Surroundings
    <3> QED BY <1>13, <3>1, LimitsAssumption DEF Midnight, Surroundings, Bs
  <2> QED BY <1>1, <1>3, <1>4, <1>13, <2>1 DEF Midnight
<1>14. ASSUME UNCHANGED vars PROVE Cs /\ Bs /\ Ls /\ Os
  BY <1>1, <1>2, <1>3, <1>4, <1>14 DEF vars
<1>15. Cs /\ Bs /\ Ls /\ Os
  <2> QED BY <1>7, <1>8, <1>9, <1>10, <1>11, <1>12, <1>13, <1>14 DEF Next
<1> QED BY <1>15 DEF Surroundings, Cs, Bs, Ls, Os

-----------------------------------------------------------------------------
(* The invariant, and what follows from it. *)

LEMMA Starts == Init => RInv /\ Surroundings /\ Service!Init
<1> SUFFICES ASSUME Init PROVE RInv /\ Surroundings /\ Service!Init
  OBVIOUS
<1>1. Idle \in Records /\ Idle.stage = "idle"
  BY IdleTyped DEF Idle, Starting
<1>2. req = [r \in Requests |-> Idle] /\ waiting = <<>>
  BY DEF Init
<1>3. \A r \in Requests : Standing(req[r])
  BY <1>1, <1>2 DEF Standing, OnARung
<1>4. Queued
  <2>1. InCall = {} /\ {r \in Requests : req[r].stage = "waiting"} = {}
    BY <1>1, <1>2 DEF InCall
  <2>2. Cardinality({}) = 0
    BY FS_EmptySet
  <2>3. Range(waiting) = {} /\ IsInjective(waiting)
    BY <1>2 DEF Range, IsInjective
  <2> QED BY <1>2, <2>1, <2>2, <2>3, RouterAssumption DEF Queued
<1>5. Surroundings
  <2>1. Closed \in Circuits
    BY ThresholdAssumption, ResetAssumption DEF Closed, Circuits
  <2>2. Unspent \in Budgets /\ Unspent.today = 0 /\ Len(Unspent.recent) = 0
    BY DEF Unspent, Budgets
  <2> QED BY <2>1, <2>2, LimitsAssumption DEF Init, Surroundings
<1>6. Service!Init
  <2>1. \A r \in Requests : ~Busy(r) /\ req[r].stage = "idle"
    BY <1>1, <1>2 DEF Busy
  <2> QED BY <2>1 DEF Init, Service!Init
<1> QED BY <1>1, <1>2, <1>3, <1>4, <1>5, <1>6 DEF RInv

LEMMA Goes ==
    RInv /\ Surroundings /\ [Next]_vars => RInv' /\ Surroundings' /\ [Service!Next]_Service!svars
<1> SUFFICES ASSUME RInv, Surroundings, [Next]_vars
             PROVE  RInv' /\ [Service!Next]_Service!svars
  BY SurroundingsStay
<1>1. ASSUME NEW r \in Requests, NEW u \in Users \cup {NoUser}, NEW t \in Tasks, Submit(r, u, t)
      PROVE  RInv' /\ [Service!Next]_Service!svars
  BY <1>1, SubmitKeeps DEF Service!Next
<1>2. ASSUME NEW r \in Requests, Answer(r) PROVE RInv' /\ [Service!Next]_Service!svars
  BY <1>2, AnswerKeeps DEF Service!Next
<1>3. ASSUME NEW r \in Requests, NEW reply, Backoff(r, reply)
      PROVE  RInv' /\ [Service!Next]_Service!svars
  BY <1>3, BackoffKeeps
<1>4. ASSUME NEW r \in Requests, NEW reply, GiveUpRung(r, reply)
      PROVE  RInv' /\ [Service!Next]_Service!svars
  BY <1>4, GiveUpRungKeeps DEF Service!Next
<1>5. ASSUME NEW r \in Requests, Wake(r) PROVE RInv' /\ [Service!Next]_Service!svars
  BY <1>5, WakeKeeps
<1>6. ASSUME UNCHANGED <<req, waiting, ledger>> PROVE RInv' /\ [Service!Next]_Service!svars
  BY <1>6 DEF RInv, Queued, InCall, Service!svars, Busy
<1> QED BY <1>1, <1>2, <1>3, <1>4, <1>5, <1>6 DEF Next, Tick, Midnight, vars

LEMMA RouterInvariant == Spec => [](RInv /\ Surroundings)
BY Starts, Goes, PTL DEF Spec

\* PermitsConserved: however many requests share the semaphore, no permit is
\* lost or given twice, and nobody waits while one is free.
THEOREM PermitsAreConserved == Spec => []PermitsConserved
<1>1. RInv /\ Surroundings => PermitsConserved
  BY DEF RInv, Surroundings, Queued, PermitsConserved, TypeOK
<1> QED BY <1>1, RouterInvariant, PTL

\* ChargesAreFair: no request ends without a call, and no order of requests
\* takes a user past a limit.
THEOREM ChargingIsFair == Spec => []ChargesAreFair
<1>1. RInv /\ Surroundings => ChargesAreFair
  BY DEF RInv, Surroundings, Standing, ChargesAreFair
<1> QED BY <1>1, RouterInvariant, PTL

\* RejectedKeyIsLeftAlone: on any ladder and in any dialect, a request never
\* comes back to a provider that told it its key is no good.
THEOREM RejectedKeysStayRejected == Spec => []RejectedKeyIsLeftAlone
<1>1. RInv => RejectedKeyIsLeftAlone
  BY DEF RInv, Standing, OnARung, Busy, RejectedKeyIsLeftAlone
<1> QED BY <1>1, RouterInvariant, PTL

\* CallsPerRungBounded: retries do not add up beyond Retries + 1 per rung,
\* however the walk goes.
THEOREM CallsAreBounded == Spec => []CallsPerRungBounded
<1>1. RInv => CallsPerRungBounded
  <2> SUFFICES ASSUME RInv, NEW r \in Requests, Busy(r)
               PROVE  /\ req[r].try <= Retries + 1
                      /\ req[r].calls <= (Retries + 1) * (req[r].rung - 1) + req[r].try
                                          - (IF req[r].stage = "sleeping" THEN 0 ELSE 1)
    BY Zenon DEF CallsPerRungBounded
  <2>1. Standing(req[r]) /\ req[r] \in Records
    BY DEF RInv
  <2>2. req[r].try \in Nat /\ Retries \in Nat
    BY <2>1, RouterAssumption DEF Records
  <2>3. /\ req[r].try + (IF req[r].stage = "sleeping" THEN 1 ELSE 0) <= Retries + 1
        /\ req[r].calls <= Allowance(req[r].rung, req[r].try)
                            - (IF req[r].stage = "sleeping" THEN 0 ELSE 1)
    BY <2>1 DEF Standing, OnARung, Busy
  <2>4. req[r].try <= Retries + 1
    BY <2>2, <2>3
  <2>5. Allowance(req[r].rung, req[r].try) = (Retries + 1) * (req[r].rung - 1) + req[r].try
    BY DEF Allowance
  <2> DEFINE k == (Retries + 1) * (req[r].rung - 1)
             spare == IF req[r].stage = "sleeping" THEN 0 ELSE 1
  <2>6. k \in Nat /\ spare \in Nat /\ req[r].calls \in Nat
    <3>1. req[r].task \in Tasks /\ req[r].rung \in DOMAIN Ladders[req[r].task]
      BY <2>1 DEF Records, Standing, OnARung, Busy
    <3>2. req[r].rung - 1 \in Nat
      BY <3>1, LadderTyped
    <3>3. k \in Nat
      BY <3>2, CallsTyped
    <3> HIDE DEF k
    <3> QED BY <2>1, <3>3 DEF Records
  <2>7. req[r].calls <= (k + req[r].try) - spare
    BY <2>3, <2>5
  <2> HIDE DEF k, spare
  <2>8. req[r].calls <= k + (req[r].try - spare)
    BY <2>2, <2>6, <2>7
  <2> QED BY <2>4, <2>8 DEF k, spare
<1> QED BY <1>1, RouterInvariant, PTL

\* The safety of ImplementsService: every step of the router is a step of the
\* abstract request service, or none: whatever a ladder, its retries and its
\* breaker do, a request accepted ends once, and is counted once as it ended.
THEOREM RouterServes == Spec => Service!Init /\ [][Service!Next]_Service!svars
BY Starts, Goes, RouterInvariant, PTL DEF Spec

-----------------------------------------------------------------------------
(* The breaker as the router drives it: who holds a probe, and how long a     *)
(* provider is refused.                                                       *)

\* No walk leaves a circuit that breaker.py could not have produced.
RouterCircuits == \A p \in Providers : WellFormed(circuits[p])

OnProvider(p) == \E r \in Requests : Busy(r) /\ RungProvider(req[r]) = p

\* A probe mark belongs to a request under way on that provider, or to one whose
\* outcome the breaker was not told of.
ProbesAreHeld == \A p \in Providers : circuits[p].probe => p \in orphans \/ OnProvider(p)

\* The three reasons complete() can have to pass a provider over.
RefusalHasACause ==
    \A p \in Providers :
        Blocks(circuits[p]) => circuits[p].age < Reset \/ p \in orphans \/ OnProvider(p)

\* The cool-down of an open circuit starts again.
StartsAgain(p) == circuits[p].open /\ circuits'[p].open /\ circuits'[p].age < circuits[p].age

\* The operations of breaker.py keep a circuit well formed, and only a failure
\* of a probe moves an opening forward.
LEMMA CircuitsStayWell ==
    ASSUME NEW c \in Circuits, WellFormed(c)
    PROVE  /\ WellFormed(Closed) /\ ~Closed.probe /\ ~Closed.open
           /\ Allows(c) => WellFormed(Admitted(c))
           /\ Admitted(c).open = c.open /\ Admitted(c).age = c.age
           /\ WellFormed(Elapsed(c)) /\ Elapsed(c).probe = c.probe /\ ~(Elapsed(c).age < c.age)
           /\ \A kind : /\ WellFormed(Reported(c, kind))
                        /\ c.open /\ Reported(c, kind).age < c.age => c.probe
                        /\ Reported(c, kind).probe => Reported(c, kind) = c
                        /\ kind \in Kinds \ {"ok", "model"} => ~Reported(c, kind).probe
<1>1. WellFormed(Closed) /\ ~Closed.probe /\ ~Closed.open
  BY ThresholdAssumption DEF WellFormed, Closed
<1>2. Allows(c) => WellFormed(Admitted(c))
  BY DEF Circuits, WellFormed, Allows, Admitted
<1>3. Admitted(c).open = c.open /\ Admitted(c).age = c.age
  BY DEF Circuits, Admitted
<1>4. WellFormed(Elapsed(c)) /\ Elapsed(c).probe = c.probe /\ ~(Elapsed(c).age < c.age)
  BY ResetAssumption DEF Circuits, WellFormed, Elapsed
<1>5. ASSUME NEW immediate \in BOOLEAN
      PROVE  /\ WellFormed(Failed(c, immediate)) /\ ~Failed(c, immediate).probe
             /\ c.open /\ Failed(c, immediate).age < c.age => c.probe
  <2>1. ~Failed(c, immediate).probe
    BY DEF Failed
  <2>2. CASE Trips(c, immediate)
    BY <2>1, <2>2, ThresholdAssumption, ResetAssumption DEF Circuits, WellFormed, Failed, Trips
  <2>3. CASE ~Trips(c, immediate)
    BY <2>1, <2>3, ThresholdAssumption, ResetAssumption DEF Circuits, WellFormed, Failed, Trips
  <2> QED BY <2>2, <2>3
<1>6. ASSUME NEW kind
      PROVE  /\ WellFormed(Reported(c, kind))
             /\ c.open /\ Reported(c, kind).age < c.age => c.probe
             /\ Reported(c, kind).probe => Reported(c, kind) = c
             /\ kind \in Kinds \ {"ok", "model"} => ~Reported(c, kind).probe
  <2>1. CASE kind = "auth"
    <3> DEFINE f == Failed(c, TRUE)
    <3>1. Reported(c, kind) = f
      BY <2>1 DEF Reported, Retryable
    <3>2. WellFormed(f) /\ ~f.probe /\ (c.open /\ f.age < c.age => c.probe)
      BY <1>5
    <3> HIDE DEF f
    <3> QED BY <3>1, <3>2
  <2>2. CASE Retryable(kind)
    <3> DEFINE f == Failed(c, FALSE)
    <3>1. Reported(c, kind) = f
      BY <2>2 DEF Reported, Retryable
    <3>2. WellFormed(f) /\ ~f.probe /\ (c.open /\ f.age < c.age => c.probe)
      BY <1>5
    <3> HIDE DEF f
    <3> QED BY <3>1, <3>2
  <2>3. CASE kind # "auth" /\ ~Retryable(kind)
    <3>1. Reported(c, kind) = c /\ ~(c.age < c.age)
      BY <2>3 DEF Reported, Circuits
    <3>2. kind \notin Kinds \ {"ok", "model"}
      BY <2>3 DEF Kinds, Retryable
    <3> QED BY <3>1, <3>2
  <2> QED BY <2>1, <2>2, <2>3
<1> QED BY <1>1, <1>2, <1>3, <1>4, <1>6

\* Every dialect makes one of the six kinds of every reply.
LEMMA RepliesAreClassed ==
    ASSUME NEW d, NEW reply
    PROVE  Classed(d, reply) \in Kinds
<1>1. ByStatus(reply) \in Kinds /\ OpenAiParsed(reply) \in Kinds
  BY DEF ByStatus, OpenAiParsed, Kinds
<1>2. GeminiParsed(reply) \in Kinds /\ CloudflareParsed(reply) \in Kinds /\ PuterParsed(reply) \in Kinds
  BY <1>1 DEF GeminiParsed, CloudflareParsed, PuterParsed, Kinds
<1> QED BY <1>1, <1>2 DEF Classed

\* The gate lets the walk's provider through, which it allows, and no other.
LEMMA GateMarksOne ==
    ASSUME NEW x \in Walks, NEW cs \in [Providers -> Circuits],
           \A p \in Providers : WellFormed(cs[p]),
           NEW y, y = Descend(x, cs), NEW p \in Providers
    PROVE  /\ WellFormed(AfterGate(y, cs)[p])
           /\ AfterGate(y, cs)[p].open = cs[p].open
           /\ AfterGate(y, cs)[p].age = cs[p].age
           /\ AfterGate(y, cs)[p].probe =>
                 cs[p].probe \/ (y.stage = "entering" /\ RungProvider(y) = p)
<1>1. cs[p] \in Circuits /\ WellFormed(cs[p])
  OBVIOUS
<1>2. CASE y.stage # "entering" \/ RungProvider(y) # p
  <2>1. AfterGate(y, cs)[p] = cs[p]
    BY <1>2 DEF AfterGate
  <2> QED BY <1>1, <2>1
<1>3. CASE y.stage = "entering" /\ RungProvider(y) = p
  <2>1. AfterGate(y, cs)[p] = Admitted(cs[p])
    BY <1>3 DEF AfterGate
  <2>2. OpenRungs(x, cs) # {}
    <3>1. Settled(x, "failed").stage = "failed"
      BY SettledTyped
    <3> QED BY <1>3, <3>1 DEF Descend
  <2> DEFINE i == Min(OpenRungs(x, cs))
  <2>3. i \in OpenRungs(x, cs)
    BY <2>2, FirstOpenRung
  <2>4. y = Taking(x, i, Passed(x, i))
    BY <2>2 DEF Descend, Taking
  <2> HIDE DEF i
  <2>5. Allows(cs[Ladders[x.task][i]])
    BY <2>3 DEF OpenRungs
  <2>6. RungProvider(y) = Ladders[x.task][i]
    BY <2>4 DEF RungProvider, Taking, Walks
  <2> QED BY <1>1, <1>3, <2>1, <2>5, <2>6, CircuitsStayWell
<1> QED BY <1>2, <1>3

\* At the semaphore a request stays on its rung.
LEMMA EnteredStaysOn ==
    ASSUME NEW x \in Walks, NEW held, NEW queue
    PROVE  /\ RungProvider(Entered(x, held, queue)) = RungProvider(x)
           /\ x.stage = "entering" => Entered(x, held, queue).stage \in {"calling", "waiting"}
           /\ x.stage # "entering" => Entered(x, held, queue) = x
BY DEF Entered, RungProvider, Walks

\* What giving a permit back does to the request that goes on as x, and to the rest.
LEMMA ResumeMoves ==
    ASSUME RInv, NEW r \in Requests, req[r].stage = "calling", NEW x \in Walks, Resume(r, x)
    PROVE  /\ RungProvider(req'[r]) = RungProvider(x)
           /\ x.stage = "entering" => req'[r].stage \in {"calling", "waiting"}
           /\ x.stage # "entering" => req'[r] = x
           /\ \A q \in Requests \ {r} :
                 req'[q] = req[q] \/ (req[q].stage = "waiting" /\ req'[q] = [req[q] EXCEPT !.stage = "calling"])
<1>1. req \in [Requests -> Records] /\ waiting \in Seq(Requests) /\ Queued
  BY DEF RInv
<1>2. CASE waiting = <<>>
  <2> DEFINE y == Entered(x, Cardinality(InCall) - 1, <<>>)
  <2>1. req' = [req EXCEPT ![r] = y]
    BY <1>2 DEF Resume
  <2>2. /\ RungProvider(y) = RungProvider(x)
        /\ x.stage = "entering" => y.stage \in {"calling", "waiting"}
        /\ x.stage # "entering" => y = x
    BY EnteredStaysOn
  <2> HIDE DEF y
  <2>3. req'[r] = y /\ \A q \in Requests \ {r} : req'[q] = req[q]
    BY <1>1, <2>1
  <2> QED BY <2>2, <2>3
<1>3. CASE waiting # <<>>
  <2> DEFINE y == Entered(x, Cardinality(InCall), Tail(waiting))
             h == Head(waiting)
             z == [req[h] EXCEPT !.stage = "calling"]
  <2>1. req' = [req EXCEPT ![r] = y, ![h] = z]
    BY <1>3 DEF Resume
  <2>2. /\ RungProvider(y) = RungProvider(x)
        /\ x.stage = "entering" => y.stage \in {"calling", "waiting"}
        /\ x.stage # "entering" => y = x
    BY EnteredStaysOn
  <2>3. h \in Range(waiting)
    BY <1>1, <1>3, TailQueue DEF Queued
  <2> HIDE DEF y, z, h
  <2>4. h \in Requests /\ req[h].stage = "waiting" /\ h # r
    BY <1>1, <2>3 DEF Queued
  <2>5. req'[r] = y /\ req'[h] = z /\ \A q \in Requests \ {r, h} : req'[q] = req[q]
    BY <1>1, <2>1, <2>4
  <2> QED BY <2>2, <2>4, <2>5 DEF z
<1> QED BY <1>2, <1>3

\* Whoever is on a provider and is not r is still on it after r has moved.
LEMMA OthersStayOn ==
    ASSUME RInv, NEW r \in Requests,
           \A q \in Requests \ {r} :
              req'[q] = req[q] \/ (req[q].stage = "waiting" /\ req'[q] = [req[q] EXCEPT !.stage = "calling"]),
           NEW q \in Requests \ {r}, Busy(q)
    PROVE  Busy(q)' /\ RungProvider(req'[q]) = RungProvider(req[q])
<1>1. req[q] \in Records
  BY DEF RInv
<1>2. CASE req'[q] = req[q]
  BY <1>2 DEF Busy
<1>3. CASE req[q].stage = "waiting" /\ req'[q] = [req[q] EXCEPT !.stage = "calling"]
  <2>1. req'[q].stage = "calling" /\ req'[q].task = req[q].task /\ req'[q].rung = req[q].rung
    BY <1>1, <1>3 DEF Records
  <2> QED BY <2>1 DEF Busy, RungProvider
<1> QED BY <1>2, <1>3

\* What the proofs below carry from state to state.
HInv == RouterCircuits /\ ProbesAreHeld

\* The calls a router makes of the breaker, as one request moves: a probe is
\* given only to a provider r is then on, and taken away or orphaned with r.
LEMMA HeldStays ==
    ASSUME RInv, HInv, NEW r \in Requests,
           \A q \in Requests \ {r} :
              req'[q] = req[q] \/ (req[q].stage = "waiting" /\ req'[q] = [req[q] EXCEPT !.stage = "calling"]),
           orphans \subseteq orphans',
           NEW p \in Providers,
           \/ circuits[p].probe /\ (Busy(r) /\ RungProvider(req[r]) = p => p \in orphans')
           \/ Busy(r)' /\ RungProvider(req'[r]) = p
    PROVE  (p \in orphans \/ OnProvider(p))'
<1>1. CASE Busy(r)' /\ RungProvider(req'[r]) = p
  BY <1>1 DEF OnProvider
<1>2. CASE circuits[p].probe /\ (Busy(r) /\ RungProvider(req[r]) = p => p \in orphans')
  <2>1. CASE p \in orphans
    BY <2>1
  <2>2. CASE p \notin orphans
    <3>1. PICK q \in Requests : Busy(q) /\ RungProvider(req[q]) = p
      BY <1>2, <2>2 DEF HInv, ProbesAreHeld, OnProvider
    <3>2. CASE q = r
      BY <1>2, <3>1, <3>2
    <3>3. CASE q # r
      <4>1. Busy(q)' /\ RungProvider(req'[q]) = p
        BY <3>1, <3>3, OthersStayOn
      <4> QED BY <4>1 DEF OnProvider
    <3> QED BY <3>2, <3>3
  <2> QED BY <2>1, <2>2
<1> QED BY <1>1, <1>2

\* A request whose call has ended is on a provider of its ladder.
LEMMA CalledProvider ==
    ASSUME RInv, NEW r \in Requests, req[r].stage = "calling"
    PROVE  /\ req[r] \in Records /\ Standing(req[r])
           /\ RungProvider(req[r]) \in Providers /\ Busy(r)
<1>1. req[r] \in Records /\ Standing(req[r])
  BY DEF RInv
<1>2. req[r].task \in Tasks /\ req[r].rung \in DOMAIN Ladders[req[r].task]
  BY <1>1 DEF Records, Standing, OnARung
<1> QED BY <1>1, <1>2, LadderTyped DEF RungProvider, Busy

LEMMA SubmitHolds ==
    ASSUME RInv, Surroundings, HInv,
           NEW r \in Requests, NEW u \in Users \cup {NoUser}, NEW t \in Tasks, Submit(r, u, t)
    PROVE  HInv' /\ \A p \in Providers : ~StartsAgain(p)
<1> DEFINE s == Starting(u, t)
           x == Descend(s, circuits)
           y == Entered(x, Cardinality(InCall), waiting)
<1>1. /\ ~Busy(r) /\ req' = [req EXCEPT ![r] = y]
      /\ circuits' = AfterGate(x, circuits) /\ orphans' = orphans
  BY DEF Submit
<1>2. s \in Walks
  BY StartTyped
<1>3. circuits \in [Providers -> Circuits] /\ \A p \in Providers : WellFormed(circuits[p])
  BY DEF Surroundings, HInv, RouterCircuits
<1>4. x \in Walks
  <2>1. s.rejected \subseteq s.skipped /\ s.calls <= (Retries + 1) * s.rung
    BY StartTyped, CallsTyped
  <2> HIDE DEF s
  <2> QED BY <1>2, <2>1, DescendStands
<1> HIDE DEF s
<1>5. \A p \in Providers :
         /\ WellFormed(circuits'[p])
         /\ circuits'[p].open = circuits[p].open /\ circuits'[p].age = circuits[p].age
         /\ circuits'[p].probe => circuits[p].probe \/ (x.stage = "entering" /\ RungProvider(x) = p)
  BY <1>1, <1>2, <1>3, GateMarksOne
<1> HIDE DEF x
<1>6. /\ RungProvider(y) = RungProvider(x)
      /\ x.stage = "entering" => y.stage \in {"calling", "waiting"}
  BY <1>4, EnteredStaysOn
<1> HIDE DEF y
<1>7. req'[r] = y /\ \A q \in Requests \ {r} : req'[q] = req[q]
  BY <1>1 DEF RInv
<1>8. ASSUME NEW p \in Providers, circuits'[p].probe PROVE (p \in orphans \/ OnProvider(p))'
  <2>1. circuits[p].probe \/ (Busy(r)' /\ RungProvider(req'[r]) = p)
    BY <1>5, <1>6, <1>7, <1>8 DEF Busy
  <2> QED BY <1>1, <1>7, <2>1, HeldStays
<1>9. \A p \in Providers : ~StartsAgain(p)
  BY <1>3, <1>5 DEF StartsAgain, Circuits
<1> QED BY <1>5, <1>8, <1>9 DEF HInv, RouterCircuits, ProbesAreHeld

LEMMA AnswerHolds ==
    ASSUME RInv, Surroundings, HInv, NEW r \in Requests, Answer(r)
    PROVE  HInv' /\ \A p \in Providers : ~StartsAgain(p)
<1> DEFINE x == Settled(Counted(req[r]), "served")
           o == RungProvider(req[r])
<1>1. /\ req[r].stage = "calling" /\ Resume(r, x) /\ orphans' = orphans
      /\ circuits' = [circuits EXCEPT ![o] = Closed]
  BY DEF Answer, Succeeded
<1>2. x \in Walks
  BY <1>1, CalledProvider, CountedTyped, WalksSplit, SettledTyped
<1> HIDE DEF x
<1>3. \A q \in Requests \ {r} :
         req'[q] = req[q] \/ (req[q].stage = "waiting" /\ req'[q] = [req[q] EXCEPT !.stage = "calling"])
  BY <1>1, <1>2, ResumeMoves
<1>4. /\ circuits \in [Providers -> Circuits] /\ \A p \in Providers : WellFormed(circuits[p])
      /\ WellFormed(Closed) /\ ~Closed.probe /\ ~Closed.open
  BY ThresholdAssumption DEF Surroundings, HInv, RouterCircuits, WellFormed, Closed
<1> HIDE DEF o
<1>5. \A p \in Providers : circuits'[p] = IF p = o THEN Closed ELSE circuits[p]
  BY <1>1, <1>4
<1>6. ASSUME NEW p \in Providers, circuits'[p].probe PROVE (p \in orphans \/ OnProvider(p))'
  <2>1. circuits[p].probe /\ p # o
    BY <1>4, <1>5, <1>6
  <2> QED BY <1>1, <1>3, <2>1, HeldStays DEF o
<1>7. \A p \in Providers : ~StartsAgain(p)
  BY <1>4, <1>5 DEF StartsAgain, Circuits
<1>8. \A p \in Providers : WellFormed(circuits'[p])
  BY <1>4, <1>5
<1> QED BY <1>6, <1>7, <1>8 DEF HInv, RouterCircuits, ProbesAreHeld

LEMMA BackoffHolds ==
    ASSUME RInv, Surroundings, HInv, NEW r \in Requests, NEW reply, Backoff(r, reply)
    PROVE  HInv' /\ \A p \in Providers : ~StartsAgain(p)
<1> DEFINE c == Counted(req[r])
           x == [c EXCEPT !.stage = "sleeping"]
<1>1. /\ req[r].stage = "calling" /\ Resume(r, x)
      /\ orphans' = orphans /\ circuits' = circuits
  BY DEF Backoff
<1>2. c \in Records /\ c.rung = req[r].rung /\ c.task = req[r].task
  BY <1>1, CalledProvider, CountedTyped
<1> HIDE DEF c
<1>3. x \in Walks /\ x.stage = "sleeping" /\ RungProvider(x) = RungProvider(req[r])
  BY <1>2 DEF Records, Walks, Stages, RungProvider
<1> HIDE DEF x
<1>4. /\ req'[r] = x
      /\ \A q \in Requests \ {r} :
            req'[q] = req[q] \/ (req[q].stage = "waiting" /\ req'[q] = [req[q] EXCEPT !.stage = "calling"])
  BY <1>1, <1>3, ResumeMoves
<1>5. ASSUME NEW p \in Providers, circuits'[p].probe PROVE (p \in orphans \/ OnProvider(p))'
  <2>1. CASE RungProvider(req[r]) = p
    <3>1. Busy(r)' /\ RungProvider(req'[r]) = p
      BY <1>3, <1>4, <2>1 DEF Busy
    <3> QED BY <3>1 DEF OnProvider
  <2>2. CASE RungProvider(req[r]) # p
    BY <1>1, <1>4, <1>5, <2>2, HeldStays
  <2> QED BY <2>1, <2>2
<1>6. \A p \in Providers : ~StartsAgain(p)
  BY <1>1 DEF StartsAgain, Surroundings, Circuits
<1> QED BY <1>1, <1>5, <1>6 DEF HInv, RouterCircuits, ProbesAreHeld

LEMMA GiveUpRungHolds ==
    ASSUME RInv, Surroundings, HInv, NEW r \in Requests, NEW reply, GiveUpRung(r, reply)
    PROVE  HInv' /\ \A p \in Providers : StartsAgain(p) => circuits[p].probe
<1> DEFINE o == RungProvider(req[r])
           kind == Heard(r, reply)
           cs == [circuits EXCEPT ![o] = Reported(@, kind)]
           a == Abandon(Rejecting(req[r], reply), kind)
           x == Descend(a, cs)
<1>1. /\ req[r].stage = "calling" /\ Resume(r, x) /\ circuits' = AfterGate(x, cs)
      /\ kind # "ok"
      /\ orphans' = IF kind = "model" /\ circuits[o].probe THEN orphans \cup {o} ELSE orphans
  BY DEF GiveUpRung
<1>2. o \in Providers /\ Busy(r) /\ req[r] \in Records /\ Standing(req[r])
  BY <1>1, CalledProvider
<1>3. kind \in Kinds
  BY RepliesAreClassed DEF Heard
<1>4. a \in Walks /\ x \in Walks
  <2>1. RejectsKey(Dialect[RungProvider(req[r])], reply) => kind = "auth"
    BY RejectionsAreHeard
  <2> HIDE DEF kind, o
  <2>2. /\ a \in Walks /\ a.rejected \subseteq a.skipped /\ a.calls <= (Retries + 1) * a.rung
    BY <1>1, <1>2, <2>1, AbandonTyped
  <2> HIDE DEF a, cs
  <2> QED BY <2>2, DescendStands
<1> HIDE DEF a, kind, o
<1>5. /\ circuits \in [Providers -> Circuits]
      /\ \A p \in Providers : circuits[p] \in Circuits /\ WellFormed(circuits[p])
  BY DEF Surroundings, HInv, RouterCircuits
<1>6. /\ cs \in [Providers -> Circuits]
      /\ \A p \in Providers : cs[p] = IF p = o THEN Reported(circuits[o], kind) ELSE circuits[p]
  <2>1. Reported(circuits[o], kind) \in Circuits
    BY <1>2, <1>5, CircuitsTyped
  <2> QED BY <1>2, <1>5, <2>1
<1> HIDE DEF cs
<1>7. /\ WellFormed(Reported(circuits[o], kind))
      /\ circuits[o].open /\ Reported(circuits[o], kind).age < circuits[o].age => circuits[o].probe
      /\ Reported(circuits[o], kind).probe => Reported(circuits[o], kind) = circuits[o] /\ kind = "model"
  <2>1. circuits[o] \in Circuits /\ WellFormed(circuits[o])
    BY <1>2, <1>5
  <2> QED BY <1>1, <1>3, <2>1, CircuitsStayWell
<1>8. \A p \in Providers : WellFormed(cs[p])
  BY <1>5, <1>6, <1>7
<1>9. \A p \in Providers :
         /\ WellFormed(circuits'[p])
         /\ circuits'[p].open = cs[p].open /\ circuits'[p].age = cs[p].age
         /\ circuits'[p].probe => cs[p].probe \/ (x.stage = "entering" /\ RungProvider(x) = p)
  BY <1>1, <1>4, <1>6, <1>8, GateMarksOne
<1> HIDE DEF x
<1>10. /\ RungProvider(req'[r]) = RungProvider(x)
       /\ x.stage = "entering" => req'[r].stage \in {"calling", "waiting"}
       /\ \A q \in Requests \ {r} :
             req'[q] = req[q] \/ (req[q].stage = "waiting" /\ req'[q] = [req[q] EXCEPT !.stage = "calling"])
  BY <1>1, <1>4, ResumeMoves
<1>11. ASSUME NEW p \in Providers, circuits'[p].probe PROVE (p \in orphans \/ OnProvider(p))'
  <2>1. orphans \subseteq orphans'
    BY <1>1
  <2>2. CASE x.stage = "entering" /\ RungProvider(x) = p
    <3>1. Busy(r)' /\ RungProvider(req'[r]) = p
      BY <1>10, <2>2 DEF Busy
    <3> QED BY <3>1 DEF OnProvider
  <2>3. CASE cs[p].probe /\ p = o
    BY <1>1, <1>6, <1>7, <2>3
  <2>4. CASE cs[p].probe /\ p # o
    <3>1. circuits[p].probe
      BY <1>6, <2>4
    <3> QED BY <1>10, <2>1, <2>4, <3>1, HeldStays DEF o
  <2> QED BY <1>9, <1>11, <2>2, <2>3, <2>4
<1>12. ASSUME NEW p \in Providers, StartsAgain(p) PROVE circuits[p].probe
  <2>1. circuits[p].open /\ cs[p].age < circuits[p].age
    BY <1>9, <1>12 DEF StartsAgain
  <2>2. CASE p = o
    BY <1>6, <1>7, <2>1, <2>2
  <2>3. CASE p # o
    BY <1>5, <1>6, <2>1, <2>3 DEF Circuits
  <2> QED BY <2>2, <2>3
<1> QED BY <1>9, <1>11, <1>12 DEF HInv, RouterCircuits, ProbesAreHeld

LEMMA WakeHolds ==
    ASSUME RInv, Surroundings, HInv, NEW r \in Requests, Wake(r)
    PROVE  HInv' /\ \A p \in Providers : ~StartsAgain(p)
<1> DEFINE x == [req[r] EXCEPT !.stage = "entering", !.try = @ + 1]
           y == Entered(x, Cardinality(InCall), waiting)
<1>1. /\ req[r].stage = "sleeping" /\ req' = [req EXCEPT ![r] = y]
      /\ orphans' = orphans /\ circuits' = circuits
  BY DEF Wake
<1>2. x.stage = "entering" /\ RungProvider(x) = RungProvider(req[r])
  <2>1. req[r] \in Records
    BY DEF RInv
  <2> QED BY <2>1 DEF Records, RungProvider
<1>3. RungProvider(y) = RungProvider(x) /\ y.stage \in {"calling", "waiting"}
  <2>1. /\ x.task = req[r].task /\ x.rung = req[r].rung
        /\ \A at : [x EXCEPT !.stage = at].stage = at
        /\ \A at : RungProvider([x EXCEPT !.stage = at]) = RungProvider(x)
    BY DEF RInv, Records, RungProvider
  <2> HIDE DEF x
  <2> QED BY <1>2, <2>1 DEF Entered
<1> HIDE DEF x, y
<1>4. req'[r] = y /\ \A q \in Requests \ {r} : req'[q] = req[q]
  BY <1>1 DEF RInv
<1>5. ASSUME NEW p \in Providers, circuits'[p].probe PROVE (p \in orphans \/ OnProvider(p))'
  <2>1. CASE RungProvider(req[r]) = p
    <3>1. Busy(r)' /\ RungProvider(req'[r]) = p
      BY <1>2, <1>3, <1>4, <2>1 DEF Busy
    <3> QED BY <3>1 DEF OnProvider
  <2>2. CASE RungProvider(req[r]) # p
    BY <1>1, <1>4, <1>5, <2>2, HeldStays
  <2> QED BY <2>1, <2>2
<1>6. \A p \in Providers : ~StartsAgain(p)
  BY <1>1 DEF StartsAgain, Surroundings, Circuits
<1> QED BY <1>1, <1>5, <1>6 DEF HInv, RouterCircuits, ProbesAreHeld

\* Every step keeps the marks held, and an opening moves forward only by a
\* failure recorded while a probe is marked.
LEMMA HoldingStays ==
    ASSUME RInv, Surroundings, HInv, [Next]_vars
    PROVE  HInv' /\ \A p \in Providers : StartsAgain(p) => circuits[p].probe
<1>1. CASE \E r \in Requests, u \in Users \cup {NoUser}, t \in Tasks : Submit(r, u, t)
  BY <1>1, SubmitHolds
<1>2. CASE \E r \in Requests : Answer(r)
  BY <1>2, AnswerHolds
<1>3. CASE \E r \in Requests, reply \in Replies : Backoff(r, reply)
  BY <1>3, BackoffHolds
<1>4. CASE \E r \in Requests, reply \in Replies : GiveUpRung(r, reply)
  BY <1>4, GiveUpRungHolds
<1>5. CASE \E r \in Requests : Wake(r)
  BY <1>5, WakeHolds
<1>6. CASE Tick
  <2>1. UNCHANGED <<req, orphans>> /\ circuits' = [p \in Providers |-> Elapsed(circuits[p])]
    BY <1>6 DEF Tick
  <2>2. \A p \in Providers :
           /\ WellFormed(circuits'[p]) /\ circuits'[p].probe = circuits[p].probe
           /\ ~(circuits'[p].age < circuits[p].age)
    BY <2>1, CircuitsStayWell DEF Surroundings, HInv, RouterCircuits
  <2> QED BY <2>1, <2>2 DEF HInv, RouterCircuits, ProbesAreHeld, OnProvider, Busy, StartsAgain
<1>7. CASE UNCHANGED <<circuits, req, orphans>>
  BY <1>7 DEF HInv, RouterCircuits, ProbesAreHeld, OnProvider, Busy, StartsAgain, Surroundings, Circuits
<1> QED BY <1>1, <1>2, <1>3, <1>4, <1>5, <1>6, <1>7 DEF Next, Midnight, vars

LEMMA HoldingInvariant == Spec => [](RInv /\ Surroundings /\ HInv)
<1>1. Init => HInv
  BY ThresholdAssumption DEF Init, HInv, RouterCircuits, ProbesAreHeld, WellFormed, Closed
<1>2. RInv /\ Surroundings /\ HInv /\ [Next]_vars => HInv'
  BY HoldingStays
<1> QED BY <1>1, <1>2, RouterInvariant, PTL DEF Spec

\* However many requests share the breaker, and in whatever order their
\* outcomes reach it, every circuit stays one that breaker.py could have made.
THEOREM RouterKeepsCircuits == Spec => []RouterCircuits
<1>1. HInv => RouterCircuits
  BY DEF HInv
<1> QED BY <1>1, HoldingInvariant, PTL

\* The safety of RefusalsEnd: a provider is refused because its cool-down runs,
\* because a request is on it, or because a probe of it ended in an error the
\* breaker is not told of, and for no other reason.  The first two end; the
\* third is the one run RefusalsEnd has to except.
THEOREM RefusalsHaveACause == Spec => []RefusalHasACause
<1>1. HInv => RefusalHasACause
  BY DEF HInv, ProbesAreHeld, RefusalHasACause, Blocks
<1> QED BY <1>1, HoldingInvariant, PTL

\* breaker.py:152-168, under any overlap of requests: while no probe is marked,
\* the late failures of the calls that were under way when a circuit opened do
\* not put off the moment it may be tried again.
THEOREM RouterCoolDownIsFixed ==
    Spec => [][\A p \in Providers : StartsAgain(p) => circuits[p].probe]_vars
<1>1. RInv /\ Surroundings /\ HInv /\ [Next]_vars
         => \A p \in Providers : StartsAgain(p) => circuits[p].probe
  BY HoldingStays
<1> QED BY <1>1, HoldingInvariant, PTL DEF Spec
=============================================================================

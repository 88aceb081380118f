---------------------------- MODULE TtlCacheProofs ----------------------------
(* The read caches for every set of readers and writers and every TTL: the    *)
(* lock is handed over without a gap, loads exclude each other, and a write   *)
(* is seen by whoever asks after its answer, unless a load overlapped it.     *)
EXTENDS TtlCache, TLAPS

\* asyncio's lock as get() uses it: whoever is past the queue holds it, nobody
\* queues for a free lock, and the queue names each queued reader once.
LockInv ==
    /\ \A r \in Readers : reader[r].at \in {"woken", "loading", "loaded"} <=> holder = r
    /\ holder = Nobody => queue = <<>>
    /\ \A i \in 1..Len(queue) : reader[queue[i]].at = "queued"
    /\ \A i, j \in 1..Len(queue) : queue[i] = queue[j] => i = j
    /\ \A r \in Readers : reader[r].at = "queued" => \E i \in 1..Len(queue) : queue[i] = r

\* No version is known before the vault had it, and nobody asks with more than
\* what was answered for.
OrderInv ==
    /\ acked <= vault
    /\ \A w \in Writers : writer[w].wrote <= vault
    /\ \A r \in Readers : reader[r].floor <= acked

\* Version x is no older than what was answered for when its floor was taken,
\* or that write met a load under way.
Good(x, floor) == x >= floor \/ floor \in overlaps

Recent(x) == Good(x, acked) /\ \A r \in Readers : Good(x, reader[r].floor)

\* What is cached or on its way into the cache will do for everybody: this is
\* what QuietWritesAreSeen needs of the value a late hit or a fill hands out.
SeenInv ==
    /\ value # NoValue => Recent(value)
    /\ \A r \in Readers :
          reader[r].at = "loaded" => reader[r].got \in Versions /\ Recent(reader[r].got)
    /\ \A r \in Readers : reader[r].at = "served" => Good(reader[r].got, reader[r].floor)

USE DEF Versions

-----------------------------------------------------------------------------
(* Types. *)

\* A reader's record stays one when its field at changes, and when it asks.
LEMMA RecordTyped ==
    ASSUME NEW x \in ReaderRecords
    PROVE  /\ [x EXCEPT !.at = "idle"] \in ReaderRecords
           /\ [x EXCEPT !.at = "queued"] \in ReaderRecords
           /\ [x EXCEPT !.at = "woken"] \in ReaderRecords
           /\ [x EXCEPT !.at = "loading"] \in ReaderRecords
           /\ [x EXCEPT !.at = "served"] \in ReaderRecords
           /\ \A v \in Versions \cup {NoValue} :
                 /\ [x EXCEPT !.at = "idle", !.got = v] \in ReaderRecords
                 /\ [x EXCEPT !.at = "loaded", !.got = v] \in ReaderRecords
                 /\ [x EXCEPT !.at = "served", !.got = v] \in ReaderRecords
BY DEF ReaderRecords

LEMMA AskTyped ==
    ASSUME TypeOK, NEW r \in Readers, NEW refresh \in BOOLEAN
    PROVE  Asks(r, refresh) \in ReaderRecords
<1>1. reader[r] \in ReaderRecords /\ acked \in Versions
  BY DEF TypeOK
<1> QED BY <1>1 DEF Asks, ReaderRecords

\* Leaving the lock keeps the readers' records, the holder and the queue typed.
LEMMA UnlockTyped ==
    ASSUME TypeOK, NEW readers \in [Readers -> ReaderRecords], Unlock(readers)
    PROVE  /\ reader' \in [Readers -> ReaderRecords]
           /\ holder' \in Readers \cup {Nobody}
           /\ queue' \in Seq(Readers)
<1>1. CASE queue = <<>>
  BY <1>1 DEF Unlock, TypeOK
<1>2. CASE queue # <<>>
  <2>1. Head(queue) \in Readers /\ Tail(queue) \in Seq(Readers)
    BY <1>2 DEF TypeOK
  <2>2. [readers[Head(queue)] EXCEPT !.at = "woken"] \in ReaderRecords
    BY <2>1 DEF ReaderRecords
  <2> QED BY <1>2, <2>1, <2>2 DEF Unlock
<1> QED BY <1>1, <1>2

\* It changes nothing of a reader but that it may wake it.
LEMMA UnlockOnlyWakes ==
    ASSUME TypeOK, NEW readers \in [Readers -> ReaderRecords], Unlock(readers), NEW p \in Readers
    PROVE  /\ reader'[p].floor = readers[p].floor
           /\ reader'[p].got = readers[p].got
           /\ reader'[p].at \in {readers[p].at, "woken"}
<1>1. CASE queue = <<>>
  BY <1>1 DEF Unlock
<1>2. CASE queue # <<>>
  <2>1. Head(queue) \in Readers
    BY <1>2 DEF TypeOK
  <2>2. reader' = [readers EXCEPT ![Head(queue)] = [readers[Head(queue)] EXCEPT !.at = "woken"]]
    BY <1>2, <2>1 DEF Unlock
  <2>3. readers[Head(queue)] \in ReaderRecords
    BY <2>1
  <2> QED BY <2>1, <2>2, <2>3 DEF ReaderRecords
<1> QED BY <1>1, <1>2

\* Every reader's record has its four fields, and what a caller asks with.
LEMMA AskFields ==
    ASSUME TypeOK, NEW r \in Readers, NEW refresh \in BOOLEAN
    PROVE  /\ Asks(r, refresh).floor = acked
           /\ Asks(r, refresh).refresh = refresh
           /\ Asks(r, refresh).got = NoValue
<1>1. reader[r] \in ReaderRecords
  BY DEF TypeOK
<1> QED BY <1>1 DEF Asks, ReaderRecords

LEMMA InitTyped == Init => TypeOK
BY CacheAssumption DEF Init, TypeOK, ReaderRecords

LEMMA NextTyped == TypeOK /\ [Next]_vars => TypeOK'
<1> SUFFICES ASSUME TypeOK, [Next]_vars PROVE TypeOK'
  OBVIOUS
<1> USE CacheAssumption
<1>1. ASSUME NEW r \in Readers, GetHit(r) PROVE TypeOK'
  <2>1. [Asks(r, FALSE) EXCEPT !.at = "served", !.got = value] \in ReaderRecords
    BY AskTyped, RecordTyped DEF TypeOK
  <2> QED BY <1>1, <2>1 DEF GetHit, TypeOK
<1>2. ASSUME NEW r \in Readers, NEW refresh \in BOOLEAN, GetMiss(r, refresh) PROVE TypeOK'
  <2>1. /\ [Asks(r, refresh) EXCEPT !.at = "loading"] \in ReaderRecords
        /\ [Asks(r, refresh) EXCEPT !.at = "queued"] \in ReaderRecords
    BY AskTyped, RecordTyped
  <2>2. CASE holder = Nobody
    BY <1>2, <2>1, <2>2 DEF GetMiss, TypeOK
  <2>3. CASE holder # Nobody
    <3>1. holder' \in Readers \cup {Nobody} /\ queue' \in Seq(Readers)
      BY <1>2, <2>3 DEF GetMiss, TypeOK
    <3>2. reader' \in [Readers -> ReaderRecords]
      BY <1>2, <2>1, <2>3 DEF GetMiss, TypeOK
    <3> QED BY <1>2, <3>1, <3>2 DEF GetMiss, TypeOK
  <2> QED BY <2>2, <2>3
<1>3. ASSUME NEW r \in Readers, Proceed(r) PROVE TypeOK'
  <2>1. CASE LateHit(r)
    <3>1. Served(r) \in [Readers -> ReaderRecords]
      BY RecordTyped DEF Served, TypeOK
    <3>2. Unlock(Served(r)) /\ UNCHANGED <<vault, value, age, writer, acked, overlaps>>
      BY <1>3, <2>1 DEF Proceed
    <3>3. /\ reader' \in [Readers -> ReaderRecords]
          /\ holder' \in Readers \cup {Nobody}
          /\ queue' \in Seq(Readers)
      BY <3>1, <3>2, UnlockTyped
    <3> QED BY <3>2, <3>3 DEF TypeOK
  <2>2. CASE ~LateHit(r)
    <3>1. [reader[r] EXCEPT !.at = "loading"] \in ReaderRecords
      BY RecordTyped DEF TypeOK
    <3>2. reader' \in [Readers -> ReaderRecords]
      BY <1>3, <2>2, <3>1 DEF Proceed, TypeOK
    <3> QED BY <1>3, <2>2, <3>2 DEF Proceed, TypeOK
  <2> QED BY <2>1, <2>2
<1>4. ASSUME NEW r \in Readers, ServerReads(r) PROVE TypeOK'
  <2>1. [reader[r] EXCEPT !.at = "loaded", !.got = vault] \in ReaderRecords
    BY RecordTyped DEF TypeOK
  <2>2. reader' \in [Readers -> ReaderRecords]
    BY <1>4, <2>1 DEF ServerReads, TypeOK
  <2> QED BY <1>4, <2>2 DEF ServerReads, TypeOK
<1>5. ASSUME NEW r \in Readers, LoadReturns(r) PROVE TypeOK'
  <2>1. [reader EXCEPT ![r].at = "served"] \in [Readers -> ReaderRecords]
    BY RecordTyped DEF TypeOK
  <2>2. value' \in Versions \cup {NoValue} /\ age' \in 0..TTL
    BY <1>5 DEF LoadReturns, Fill, TypeOK, ReaderRecords
  <2>3. /\ Unlock([reader EXCEPT ![r].at = "served"])
        /\ UNCHANGED <<vault, writer, acked, overlaps>>
    BY <1>5 DEF LoadReturns
  <2>4. /\ reader' \in [Readers -> ReaderRecords]
        /\ holder' \in Readers \cup {Nobody}
        /\ queue' \in Seq(Readers)
    BY <2>1, <2>3, UnlockTyped
  <2> QED BY <2>2, <2>3, <2>4 DEF TypeOK
<1>6. ASSUME NEW r \in Readers, LoadFails(r) PROVE TypeOK'
  <2>1. [reader EXCEPT ![r] = [@ EXCEPT !.at = "idle", !.got = NoValue]] \in [Readers -> ReaderRecords]
    BY RecordTyped DEF TypeOK
  <2>2. /\ Unlock([reader EXCEPT ![r] = [@ EXCEPT !.at = "idle", !.got = NoValue]])
        /\ UNCHANGED <<vault, value, age, writer, acked, overlaps>>
    BY <1>6 DEF LoadFails
  <2>3. /\ reader' \in [Readers -> ReaderRecords]
        /\ holder' \in Readers \cup {Nobody}
        /\ queue' \in Seq(Readers)
    BY <2>1, <2>2, UnlockTyped
  <2> QED BY <2>2, <2>3 DEF TypeOK
<1>7. ASSUME NEW w \in Writers, Send(w) \/ WriteFails(w) PROVE TypeOK'
  BY <1>7 DEF Send, WriteFails, TypeOK
<1>8. ASSUME NEW w \in Writers, ServerWrites(w) PROVE TypeOK'
  <2>1. vault' \in Versions /\ vault + 1 \in Versions
    BY <1>8 DEF ServerWrites, TypeOK
  <2>2. writer' \in [Writers -> [at : {"idle", "sent", "written"}, wrote : Versions]]
    BY <1>8, <2>1 DEF ServerWrites, TypeOK
  <2> QED BY <1>8, <2>1, <2>2 DEF ServerWrites, TypeOK
<1>9. ASSUME NEW w \in Writers, WriteReturns(w) PROVE TypeOK'
  <2>1. writer[w].wrote \in Versions
    BY DEF TypeOK
  <2>2. writer' \in [Writers -> [at : {"idle", "sent", "written"}, wrote : Versions]]
    BY <1>9 DEF WriteReturns, TypeOK
  <2> QED BY <1>9, <2>1, <2>2 DEF WriteReturns, Invalidate, TypeOK
<1>10. CASE EditElsewhere
  BY <1>10 DEF EditElsewhere, TypeOK
<1>11. CASE Tick
  BY <1>11 DEF Tick, TypeOK
<1>12. CASE UNCHANGED vars
  BY <1>12 DEF vars, TypeOK
<1> QED BY <1>1, <1>2, <1>3, <1>4, <1>5, <1>6, <1>7, <1>8, <1>9, <1>10, <1>11, <1>12 DEF Next

\* The caches keep their types, for any readers, writers and TTL.
THEOREM CacheTypeCorrect == Spec => []TypeOK
BY InitTyped, NextTyped, PTL DEF Spec

-----------------------------------------------------------------------------
(* The lock. *)

\* Whoever leaves the lock hands it to the first in the queue, who is woken, or
\* leaves it free when nobody waits.
LEMMA UnlockHandsOver ==
    ASSUME TypeOK, LockInv, NEW r \in Readers, holder = r,
           NEW x \in ReaderRecords, x.at \in {"idle", "served"},
           Unlock([reader EXCEPT ![r] = x])
    PROVE  LockInv'
<1> DEFINE readers == [reader EXCEPT ![r] = x]
<1>0. /\ holder \in Readers /\ holder # Nobody
      /\ queue \in Seq(Readers)
      /\ reader \in [Readers -> ReaderRecords]
      /\ \A p \in Readers : readers[p] = IF p = r THEN x ELSE reader[p]
  BY CacheAssumption DEF TypeOK
<1>1. CASE queue = <<>>
  <2>1. holder' = Nobody /\ reader' = readers /\ queue' = <<>>
    BY <1>1 DEF Unlock
  <2>2. \A p \in Readers : reader[p].at # "queued"
    BY <1>1 DEF LockInv
  <2>3. \A p \in Readers : reader[p].at \in {"woken", "loading", "loaded"} => p = r
    BY DEF LockInv
  <2> QED BY <1>0, <2>1, <2>2, <2>3, CacheAssumption DEF LockInv
<1>2. CASE queue # <<>>
  <2> DEFINE first == Head(queue)
  <2>1. /\ first \in Readers /\ first = queue[1] /\ Len(queue) \in Nat \ {0}
        /\ Len(Tail(queue)) = Len(queue) - 1
        /\ \A i \in 1..Len(Tail(queue)) : Tail(queue)[i] = queue[i + 1]
    BY <1>0, <1>2
  <2>2. reader[first].at = "queued" /\ first # r
    BY <1>0, <2>1 DEF LockInv
  <2>3. /\ holder' = first /\ queue' = Tail(queue)
        /\ reader' = [readers EXCEPT ![first].at = "woken"]
    BY <1>2 DEF Unlock
  <2>4. \A p \in Readers : reader'[p].at = IF p = first THEN "woken"
                                           ELSE IF p = r THEN x.at ELSE reader[p].at
    BY <1>0, <2>1, <2>2, <2>3 DEF ReaderRecords
  <2>5. \A p \in Readers : reader'[p].at \in {"woken", "loading", "loaded"} <=> holder' = p
    BY <1>0, <2>2, <2>3, <2>4 DEF LockInv
  <2>6. holder' # Nobody
    BY <2>1, <2>3, CacheAssumption
  <2>7. \A i \in 1..Len(queue') : /\ i + 1 \in 1..Len(queue) /\ i + 1 # 1
                                  /\ queue'[i] = queue[i + 1] /\ queue[i + 1] \in Readers
    BY <1>0, <2>1, <2>3
  <2>8. \A i, j \in 1..Len(queue') : queue'[i] = queue'[j] => i = j
    BY <2>7 DEF LockInv
  <2>9. \A i \in 1..Len(queue') : reader'[queue'[i]].at = "queued"
    <3> SUFFICES ASSUME NEW i \in 1..Len(queue') PROVE reader'[queue'[i]].at = "queued"
      OBVIOUS
    <3>1. reader[queue[i + 1]].at = "queued" /\ queue[i + 1] # first
      BY <2>1, <2>7 DEF LockInv
    <3>2. queue[i + 1] # r
      BY <1>0, <3>1 DEF LockInv
    <3> QED BY <2>4, <2>7, <3>1, <3>2
  <2>10. ASSUME NEW p \in Readers, reader'[p].at = "queued"
         PROVE  \E i \in 1..Len(queue') : queue'[i] = p
    <3>1. p # first /\ reader[p].at = "queued"
      BY <2>4, <2>10
    <3>2. PICK k \in 1..Len(queue) : queue[k] = p
      BY <3>1 DEF LockInv
    <3>3. k # 1 /\ k - 1 \in 1..Len(queue') /\ queue'[k - 1] = p
      BY <2>1, <2>3, <3>1, <3>2
    <3> QED BY <3>3
  <2> QED BY <2>5, <2>6, <2>8, <2>9, <2>10 DEF LockInv
<1> QED BY <1>1, <1>2

LEMMA InitLock == Init => LockInv
BY CacheAssumption DEF Init, LockInv

LEMMA NextLock == TypeOK /\ LockInv /\ [Next]_vars => LockInv'
<1> SUFFICES ASSUME TypeOK, LockInv, [Next]_vars PROVE LockInv'
  OBVIOUS
<1>0. /\ reader \in [Readers -> ReaderRecords] /\ queue \in Seq(Readers)
      /\ holder \in Readers \cup {Nobody} /\ Nobody \notin Readers
  BY CacheAssumption DEF TypeOK
<1>1. ASSUME NEW r \in Readers, GetHit(r) PROVE LockInv'
  <2>1. /\ UNCHANGED <<holder, queue>>
        /\ reader[r].at \in {"idle", "served"}
        /\ \A p \in Readers : reader'[p].at = IF p = r THEN "served" ELSE reader[p].at
    BY <1>0, <1>1 DEF GetHit, Asks, ReaderRecords
  <2>2. \A i \in 1..Len(queue) : queue[i] \in Readers /\ queue[i] # r
    BY <1>0, <2>1 DEF LockInv
  <2> QED BY <1>0, <2>1, <2>2 DEF LockInv
<1>2. ASSUME NEW r \in Readers, NEW refresh \in BOOLEAN, GetMiss(r, refresh) PROVE LockInv'
  <2>0. reader[r].at \in {"idle", "served"}
    BY <1>2 DEF GetMiss
  <2>1. \A i \in 1..Len(queue) : queue[i] \in Readers /\ queue[i] # r
    BY <1>0, <2>0 DEF LockInv
  <2>2. CASE holder = Nobody
    <3>1. /\ holder' = r /\ queue' = queue
          /\ \A p \in Readers : reader'[p].at = IF p = r THEN "loading" ELSE reader[p].at
      BY <1>0, <1>2, <2>2 DEF GetMiss, Asks, ReaderRecords
    <3>2. queue = <<>>
      BY <2>2 DEF LockInv
    <3> QED BY <1>0, <2>2, <3>1, <3>2 DEF LockInv
  <2>3. CASE holder # Nobody
    <3>1. /\ holder' = holder /\ queue' = Append(queue, r)
          /\ \A p \in Readers : reader'[p].at = IF p = r THEN "queued" ELSE reader[p].at
      BY <1>0, <1>2, <2>3 DEF GetMiss, Asks, ReaderRecords
    <3>2. /\ Len(queue') = Len(queue) + 1 /\ Len(queue) \in Nat
          /\ \A i \in 1..Len(queue) : queue'[i] = queue[i]
          /\ queue'[Len(queue) + 1] = r
      BY <1>0, <3>1
    <3>3. \A i \in 1..Len(queue') : i \in 1..Len(queue) \/ i = Len(queue) + 1
      BY <3>2
    <3>4. \A i, j \in 1..Len(queue') : queue'[i] = queue'[j] => i = j
      BY <2>1, <3>2, <3>3 DEF LockInv
    <3>5. \A i \in 1..Len(queue') : reader'[queue'[i]].at = "queued"
      BY <2>1, <3>1, <3>2, <3>3 DEF LockInv
    <3>6. \A p \in Readers : reader'[p].at = "queued" => \E i \in 1..Len(queue') : queue'[i] = p
      <4> SUFFICES ASSUME NEW p \in Readers, reader'[p].at = "queued"
                   PROVE  \E i \in 1..Len(queue') : queue'[i] = p
        OBVIOUS
      <4>1. CASE p = r
        BY <3>2, <4>1
      <4>2. CASE p # r
        <5>1. PICK k \in 1..Len(queue) : queue[k] = p
          BY <3>1, <4>2 DEF LockInv
        <5> QED BY <3>2, <5>1
      <4> QED BY <4>1, <4>2
    <3>7. \A p \in Readers : reader'[p].at \in {"woken", "loading", "loaded"} <=> holder' = p
      BY <2>0, <3>1 DEF LockInv
    <3> QED BY <2>3, <3>1, <3>4, <3>5, <3>6, <3>7 DEF LockInv
  <2> QED BY <2>2, <2>3
<1>3. ASSUME NEW r \in Readers, Proceed(r) PROVE LockInv'
  <2>1. CASE LateHit(r)
    <3>1. holder = r
      BY <1>3 DEF Proceed, LockInv
    <3>2. [reader[r] EXCEPT !.at = "served", !.got = value] \in ReaderRecords
      BY RecordTyped DEF TypeOK
    <3>3. [reader[r] EXCEPT !.at = "served", !.got = value].at = "served"
      BY <1>0 DEF ReaderRecords
    <3>4. Unlock([reader EXCEPT ![r] = [reader[r] EXCEPT !.at = "served", !.got = value]])
      BY <1>3, <2>1 DEF Proceed, Served
    <3> QED BY <3>1, <3>2, <3>3, <3>4, UnlockHandsOver
  <2>2. CASE ~LateHit(r)
    <3>1. /\ UNCHANGED <<holder, queue>> /\ reader[r].at = "woken"
          /\ \A p \in Readers : reader'[p].at = IF p = r THEN "loading" ELSE reader[p].at
      BY <1>0, <1>3, <2>2 DEF Proceed, ReaderRecords
    <3>2. \A i \in 1..Len(queue) : queue[i] \in Readers /\ queue[i] # r
      BY <1>0, <3>1 DEF LockInv
    <3> QED BY <1>0, <3>1, <3>2 DEF LockInv
  <2> QED BY <2>1, <2>2
<1>4. ASSUME NEW r \in Readers, ServerReads(r) PROVE LockInv'
  <2>1. /\ UNCHANGED <<holder, queue>> /\ reader[r].at = "loading"
        /\ \A p \in Readers : reader'[p].at = IF p = r THEN "loaded" ELSE reader[p].at
    BY <1>0, <1>4 DEF ServerReads, ReaderRecords
  <2>2. \A i \in 1..Len(queue) : queue[i] \in Readers /\ queue[i] # r
    BY <1>0, <2>1 DEF LockInv
  <2> QED BY <1>0, <2>1, <2>2 DEF LockInv
<1>5. ASSUME NEW r \in Readers, LoadReturns(r) PROVE LockInv'
  <2>1. holder = r
    BY <1>5 DEF LoadReturns, LockInv
  <2>2. [reader[r] EXCEPT !.at = "served"] \in ReaderRecords
    BY <1>0, RecordTyped
  <2>3. [reader[r] EXCEPT !.at = "served"].at = "served"
    BY <1>0 DEF ReaderRecords
  <2>4. Unlock([reader EXCEPT ![r] = [reader[r] EXCEPT !.at = "served"]])
    BY <1>5 DEF LoadReturns
  <2> QED BY <2>1, <2>2, <2>3, <2>4, UnlockHandsOver
<1>6. ASSUME NEW r \in Readers, LoadFails(r) PROVE LockInv'
  <2>1. holder = r
    BY <1>6 DEF LoadFails, LockInv
  <2>2. [reader[r] EXCEPT !.at = "idle", !.got = NoValue] \in ReaderRecords
    BY <1>0, RecordTyped
  <2>3. [reader[r] EXCEPT !.at = "idle", !.got = NoValue].at = "idle"
    BY <1>0 DEF ReaderRecords
  <2>4. Unlock([reader EXCEPT ![r] = [reader[r] EXCEPT !.at = "idle", !.got = NoValue]])
    BY <1>6 DEF LoadFails
  <2> QED BY <2>1, <2>2, <2>3, <2>4, UnlockHandsOver
<1>7. ASSUME UNCHANGED <<holder, queue, reader>> PROVE LockInv'
  BY <1>7 DEF LockInv
<1>8. ASSUME NEW w \in Writers, Send(w) \/ ServerWrites(w) \/ WriteReturns(w) \/ WriteFails(w)
      PROVE  LockInv'
  BY <1>7, <1>8 DEF Send, ServerWrites, WriteReturns, WriteFails
<1>9. CASE EditElsewhere \/ Tick \/ UNCHANGED vars
  BY <1>7, <1>9 DEF EditElsewhere, Tick, vars
<1> QED BY <1>1, <1>2, <1>3, <1>4, <1>5, <1>6, <1>8, <1>9 DEF Next

\* OneLoader: however many callers there are, however their loads end, at most
\* one load is under way, and the lock is free only when nobody waits for it.
THEOREM LoadsExclude == Spec => []OneLoader
<1>1. LockInv /\ TypeOK => OneLoader
  <2> SUFFICES ASSUME LockInv, TypeOK PROVE OneLoader
    OBVIOUS
  <2>1. holder = Nobody => \A r \in Readers : reader[r].at # "queued"
    BY DEF LockInv
  <2> QED BY <2>1 DEF LockInv, OneLoader
<1> QED BY <1>1, InitTyped, NextTyped, InitLock, NextLock, PTL DEF Spec

\* A step that starts a load finds its reader with a demand or nothing fresh.
LEMMA StepNeedsLoad ==
    ASSUME TypeOK, [Next]_vars, NEW r \in Readers,
           reader[r].at # "loading", reader'[r].at = "loading"
    PROVE  reader'[r].refresh \/ ~Fresh
<1>0. reader \in [Readers -> ReaderRecords] /\ queue \in Seq(Readers)
  BY DEF TypeOK
<1>1. ASSUME NEW p \in Readers, GetHit(p) PROVE FALSE
  BY <1>0, <1>1 DEF GetHit, Asks, ReaderRecords
<1>2. ASSUME NEW p \in Readers, NEW refresh \in BOOLEAN, GetMiss(p, refresh)
      PROVE  reader'[r].refresh \/ ~Fresh
  <2>1. CASE p = r
    <3>1. CASE holder = Nobody
      <4>1. reader'[r] = [Asks(r, refresh) EXCEPT !.at = "loading"]
        BY <1>0, <1>2, <2>1, <3>1 DEF GetMiss
      <4>2. reader'[r].refresh = refresh
        BY <1>0, <4>1 DEF Asks, ReaderRecords
      <4> QED BY <1>2, <4>2 DEF GetMiss
    <3>2. CASE holder # Nobody
      BY <1>0, <1>2, <2>1, <3>2 DEF GetMiss, Asks, ReaderRecords
    <3> QED BY <3>1, <3>2
  <2>2. CASE p # r
    BY <1>0, <1>2, <2>2 DEF GetMiss
  <2> QED BY <2>1, <2>2
<1>3. ASSUME NEW readers \in [Readers -> ReaderRecords], Unlock(readers)
      PROVE  readers[r].at = "loading"
  BY <1>3, UnlockOnlyWakes
<1>4. ASSUME NEW p \in Readers, Proceed(p) PROVE reader'[r].refresh \/ ~Fresh
  <2>1. CASE LateHit(p)
    <3>1. Served(p) \in [Readers -> ReaderRecords]
      BY <1>0, RecordTyped DEF Served, TypeOK
    <3>2. Served(p)[r].at = "loading"
      BY <1>3, <1>4, <2>1, <3>1 DEF Proceed
    <3> QED BY <1>0, <3>2 DEF Served, ReaderRecords
  <2>2. CASE ~LateHit(p)
    <3>1. p = r /\ reader'[r].refresh = reader[r].refresh
      BY <1>0, <1>4, <2>2 DEF Proceed, ReaderRecords
    <3> QED BY <2>2, <3>1 DEF LateHit
  <2> QED BY <2>1, <2>2
<1>5. ASSUME NEW p \in Readers, ServerReads(p) PROVE FALSE
  BY <1>0, <1>5 DEF ServerReads, ReaderRecords
<1>6. ASSUME NEW p \in Readers, LoadReturns(p) PROVE FALSE
  <2>1. [reader EXCEPT ![p].at = "served"] \in [Readers -> ReaderRecords]
    BY <1>0, RecordTyped
  <2>2. [reader EXCEPT ![p].at = "served"][r].at = "loading"
    BY <1>3, <1>6, <2>1 DEF LoadReturns
  <2> QED BY <1>0, <2>2 DEF ReaderRecords
<1>7. ASSUME NEW p \in Readers, LoadFails(p) PROVE FALSE
  <2> DEFINE readers == [reader EXCEPT ![p] = [@ EXCEPT !.at = "idle", !.got = NoValue]]
  <2>1. readers \in [Readers -> ReaderRecords]
    BY <1>0, RecordTyped
  <2>2. readers[r].at = "loading"
    BY <1>3, <1>7, <2>1 DEF LoadFails
  <2> QED BY <1>0, <2>2 DEF ReaderRecords
<1>8. ASSUME NEW w \in Writers, Send(w) \/ ServerWrites(w) \/ WriteReturns(w) \/ WriteFails(w)
      PROVE  FALSE
  BY <1>8 DEF Send, ServerWrites, WriteReturns, WriteFails
<1>9. CASE EditElsewhere \/ Tick \/ UNCHANGED vars
  BY <1>9 DEF EditElsewhere, Tick, vars
<1> QED BY <1>1, <1>2, <1>4, <1>5, <1>6, <1>7, <1>8, <1>9 DEF Next

\* LoadsOnlyWhenNeeded: also those who found the cache cold and queued look
\* again, so that a burst of any size costs one load per value that went stale.
THEOREM LoadsAreNeeded == Spec => LoadsOnlyWhenNeeded
<1>1. TypeOK /\ [Next]_vars => [\A r \in Readers :
         reader[r].at # "loading" /\ reader'[r].at = "loading"
           => reader'[r].refresh \/ ~Fresh]_vars
  BY StepNeedsLoad
<1> QED BY <1>1, InitTyped, NextTyped, PTL DEF Spec, LoadsOnlyWhenNeeded

-----------------------------------------------------------------------------
(* Writes. *)

LEMMA InitOrder == Init => OrderInv
BY DEF Init, OrderInv

LEMMA NextOrder == TypeOK /\ OrderInv /\ [Next]_vars => OrderInv'
<1> SUFFICES ASSUME TypeOK, OrderInv, [Next]_vars PROVE OrderInv'
  OBVIOUS
<1>0. /\ reader \in [Readers -> ReaderRecords] /\ queue \in Seq(Readers)
      /\ vault \in Nat /\ acked \in Nat
      /\ \A w \in Writers : writer[w].wrote \in Nat
      /\ writer \in [Writers -> [at : {"idle", "sent", "written"}, wrote : Versions]]
      /\ \A r \in Readers : reader[r].floor \in Nat
  BY CacheAssumption DEF TypeOK, ReaderRecords
<1>1. ASSUME UNCHANGED <<vault, writer, acked>>,
             \A r \in Readers : reader'[r].floor \in {reader[r].floor, acked}
      PROVE  OrderInv'
  BY <1>0, <1>1 DEF OrderInv
<1>2. ASSUME NEW readers \in [Readers -> ReaderRecords], Unlock(readers), NEW p \in Readers
      PROVE  reader'[p].floor = readers[p].floor
  BY <1>2, UnlockOnlyWakes
<1>3. ASSUME NEW r \in Readers, GetHit(r) PROVE OrderInv'
  <2>1. \A p \in Readers : reader'[p].floor \in {reader[p].floor, acked}
    BY <1>0, <1>3 DEF GetHit, Asks, ReaderRecords
  <2> QED BY <1>1, <1>3, <2>1 DEF GetHit
<1>4. ASSUME NEW r \in Readers, NEW refresh \in BOOLEAN, GetMiss(r, refresh) PROVE OrderInv'
  <2>1. PICK at \in {"loading", "queued"} :
           reader' = [reader EXCEPT ![r] = [Asks(r, refresh) EXCEPT !.at = at]]
    BY <1>4 DEF GetMiss
  <2>2. Asks(r, refresh) \in ReaderRecords /\ Asks(r, refresh).floor = acked
    BY AskTyped, AskFields
  <2>3. \A p \in Readers : reader'[p].floor \in {reader[p].floor, acked}
    BY <1>0, <2>1, <2>2 DEF ReaderRecords
  <2> QED BY <1>1, <1>4, <2>3 DEF GetMiss
<1>5. ASSUME NEW r \in Readers, Proceed(r) PROVE OrderInv'
  <2>1. CASE LateHit(r)
    <3>1. Served(r) \in [Readers -> ReaderRecords]
      BY <1>0, RecordTyped DEF Served, TypeOK
    <3>2. \A p \in Readers : reader'[p].floor = Served(r)[p].floor
      BY <1>2, <1>5, <2>1, <3>1 DEF Proceed
    <3>3. \A p \in Readers : reader'[p].floor = reader[p].floor
      BY <1>0, <3>2 DEF Served, ReaderRecords
    <3> QED BY <1>1, <1>5, <3>3 DEF Proceed
  <2>2. CASE ~LateHit(r)
    <3>1. reader' = [reader EXCEPT ![r] = [reader[r] EXCEPT !.at = "loading"]]
      BY <1>5, <2>2 DEF Proceed
    <3>2. \A p \in Readers : reader'[p].floor = reader[p].floor
      BY <1>0, <3>1 DEF ReaderRecords
    <3> QED BY <1>1, <1>5, <3>2 DEF Proceed
  <2> QED BY <2>1, <2>2
<1>6. ASSUME NEW r \in Readers, ServerReads(r) PROVE OrderInv'
  <2>1. \A p \in Readers : reader'[p].floor = reader[p].floor
    BY <1>0, <1>6 DEF ServerReads, ReaderRecords
  <2> QED BY <1>1, <1>6, <2>1 DEF ServerReads
<1>7. ASSUME NEW r \in Readers, LoadReturns(r) PROVE OrderInv'
  <2>1. [reader EXCEPT ![r].at = "served"] \in [Readers -> ReaderRecords]
    BY <1>0, RecordTyped
  <2>2. \A p \in Readers : reader'[p].floor = [reader EXCEPT ![r].at = "served"][p].floor
    BY <1>2, <1>7, <2>1 DEF LoadReturns
  <2>3. \A p \in Readers : reader'[p].floor = reader[p].floor
    BY <1>0, <2>2 DEF ReaderRecords
  <2> QED BY <1>1, <1>7, <2>3 DEF LoadReturns
<1>8. ASSUME NEW r \in Readers, LoadFails(r) PROVE OrderInv'
  <2> DEFINE readers == [reader EXCEPT ![r] = [@ EXCEPT !.at = "idle", !.got = NoValue]]
  <2>1. readers \in [Readers -> ReaderRecords]
    BY <1>0, RecordTyped
  <2>2. \A p \in Readers : reader'[p].floor = readers[p].floor
    BY <1>2, <1>8, <2>1 DEF LoadFails
  <2>3. \A p \in Readers : reader'[p].floor = reader[p].floor
    BY <1>0, <2>2 DEF ReaderRecords
  <2> QED BY <1>1, <1>8, <2>3 DEF LoadFails
<1>9. ASSUME NEW w \in Writers, Send(w) \/ WriteFails(w) PROVE OrderInv'
  <2>1. \A v \in Writers : writer'[v].wrote = writer[v].wrote
    BY <1>0, <1>9 DEF Send, WriteFails
  <2> QED BY <1>9, <2>1 DEF Send, WriteFails, OrderInv
<1>10. ASSUME NEW w \in Writers, ServerWrites(w) PROVE OrderInv'
  <2>1. \A v \in Writers : writer'[v].wrote \in {writer[v].wrote, vault + 1}
    BY <1>0, <1>10 DEF ServerWrites
  <2> QED BY <1>0, <1>10, <2>1 DEF ServerWrites, OrderInv
<1>11. ASSUME NEW w \in Writers, WriteReturns(w) PROVE OrderInv'
  <2>1. \A v \in Writers : writer'[v].wrote = writer[v].wrote
    BY <1>0, <1>11 DEF WriteReturns
  <2>2. acked' <= vault /\ acked' >= acked /\ acked' \in Nat
    BY <1>0, <1>11 DEF WriteReturns, OrderInv
  <2> QED BY <1>0, <1>11, <2>1, <2>2 DEF WriteReturns, OrderInv
<1>12. CASE EditElsewhere \/ Tick \/ UNCHANGED vars
  BY <1>0, <1>12 DEF EditElsewhere, Tick, vars, OrderInv
<1> QED BY <1>3, <1>4, <1>5, <1>6, <1>7, <1>8, <1>9, <1>10, <1>11, <1>12 DEF Next

LEMMA InitSeen == Init => SeenInv
BY DEF Init, SeenInv

LEMMA NextSeen == TypeOK /\ OrderInv /\ SeenInv /\ [Next]_vars => SeenInv'
<1> SUFFICES ASSUME TypeOK, OrderInv, SeenInv, [Next]_vars PROVE SeenInv'
  OBVIOUS
<1> DEFINE After(x) == /\ x >= acked' \/ acked' \in overlaps'
                       /\ \A p \in Readers : x >= reader'[p].floor \/ reader'[p].floor \in overlaps'
<1>0. /\ reader \in [Readers -> ReaderRecords] /\ queue \in Seq(Readers)
      /\ vault \in Nat /\ acked \in Nat /\ vault \in Versions /\ NoValue \notin Versions
      /\ value \in Versions \cup {NoValue} /\ Versions \subseteq Nat
      /\ \A w \in Writers : writer[w].wrote \in Nat
      /\ \A r \in Readers : reader[r].floor \in Nat
  BY CacheAssumption DEF TypeOK, ReaderRecords
\* It is enough to look at the cached value, at the loaders and at the served.
<1>1. ASSUME value' # NoValue => After(value'),
             \A p \in Readers : reader'[p].at = "loaded" =>
                 reader'[p].got \in Versions /\ After(reader'[p].got),
             \A p \in Readers : reader'[p].at = "served" =>
                 reader'[p].got >= reader'[p].floor \/ reader'[p].floor \in overlaps'
      PROVE  SeenInv'
  BY <1>1 DEF SeenInv, Recent, Good
\* What will do for everybody still does when a reader asks.
<1>2. ASSUME UNCHANGED <<acked, overlaps>>,
             \A p \in Readers : reader'[p].floor \in {reader[p].floor, acked},
             NEW x \in Versions, Recent(x)
      PROVE  After(x)
  BY <1>2 DEF Recent, Good
<1>3. ASSUME NEW r \in Readers, GetHit(r) PROVE SeenInv'
  <2> DEFINE new == [Asks(r, FALSE) EXCEPT !.at = "served", !.got = value]
  <2>1. /\ reader' = [reader EXCEPT ![r] = new] /\ value' = value
        /\ UNCHANGED <<acked, overlaps>> /\ value # NoValue
    BY <1>3 DEF GetHit, Fresh
  <2>2. new.floor = acked /\ new.at = "served" /\ new.got = value
    BY AskTyped, AskFields DEF ReaderRecords
  <2> HIDE DEF new
  <2>3. \A p \in Readers : reader'[p].floor \in {reader[p].floor, acked}
    BY <1>0, <2>1, <2>2
  <2>4. \A p \in Readers : reader'[p].at = "loaded" => reader'[p] = reader[p]
    BY <1>0, <2>1, <2>2
  <2>5. \A p \in Readers : reader'[p].at = "served" =>
            reader'[p].got >= reader'[p].floor \/ reader'[p].floor \in overlaps'
    BY <1>0, <2>1, <2>2 DEF SeenInv, Recent, Good
  <2>6. value' # NoValue => After(value')
    BY <1>0, <1>2, <2>1, <2>3 DEF SeenInv
  <2>7. \A p \in Readers : reader'[p].at = "loaded" =>
            reader'[p].got \in Versions /\ After(reader'[p].got)
    BY <1>2, <2>1, <2>3, <2>4 DEF SeenInv
  <2> QED BY <1>1, <2>5, <2>6, <2>7
<1>4. ASSUME NEW r \in Readers, NEW refresh \in BOOLEAN, GetMiss(r, refresh) PROVE SeenInv'
  <2>1. PICK at \in {"loading", "queued"} :
           reader' = [reader EXCEPT ![r] = [Asks(r, refresh) EXCEPT !.at = at]]
    BY <1>4 DEF GetMiss
  <2>2. /\ [Asks(r, refresh) EXCEPT !.at = at].floor = acked
        /\ [Asks(r, refresh) EXCEPT !.at = at].at \in {"loading", "queued"}
    BY AskTyped, AskFields DEF ReaderRecords
  <2>3. value' = value /\ UNCHANGED <<acked, overlaps>>
    BY <1>4 DEF GetMiss
  <2>4. \A p \in Readers : reader'[p].floor \in {reader[p].floor, acked}
    BY <1>0, <2>1, <2>2
  <2>5. \A p \in Readers : reader'[p].at \in {"loaded", "served"} => reader'[p] = reader[p]
    BY <1>0, <2>1, <2>2
  <2>6. value' # NoValue => After(value')
    BY <1>0, <1>2, <2>3, <2>4 DEF SeenInv
  <2>7. \A p \in Readers : reader'[p].at = "loaded" =>
            reader'[p].got \in Versions /\ After(reader'[p].got)
    BY <1>2, <2>3, <2>4, <2>5 DEF SeenInv
  <2>8. \A p \in Readers : reader'[p].at = "served" =>
            reader'[p].got >= reader'[p].floor \/ reader'[p].floor \in overlaps'
    BY <2>3, <2>5 DEF SeenInv, Good
  <2> QED BY <1>1, <2>6, <2>7, <2>8
<1>5. ASSUME NEW r \in Readers, Proceed(r) PROVE SeenInv'
  <2>0. UNCHANGED <<value, acked, overlaps>>
    BY <1>5 DEF Proceed
  <2>1. CASE LateHit(r)
    <3>1. /\ Served(r) \in [Readers -> ReaderRecords]
          /\ \A p \in Readers : Served(r)[p] = IF p = r
                THEN [reader[r] EXCEPT !.at = "served", !.got = value] ELSE reader[p]
      BY <1>0, RecordTyped DEF Served, TypeOK
    <3>2. Unlock(Served(r)) /\ value # NoValue
      BY <1>5, <2>1 DEF Proceed, LateHit, Fresh
    <3>3. \A p \in Readers : /\ reader'[p].floor = Served(r)[p].floor
                             /\ reader'[p].got = Served(r)[p].got
                             /\ reader'[p].at \in {Served(r)[p].at, "woken"}
      BY <3>1, <3>2, UnlockOnlyWakes
    <3>4. /\ [reader[r] EXCEPT !.at = "served", !.got = value].floor = reader[r].floor
          /\ [reader[r] EXCEPT !.at = "served", !.got = value].got = value
          /\ [reader[r] EXCEPT !.at = "served", !.got = value].at = "served"
      BY <1>0 DEF ReaderRecords
    <3>5. \A p \in Readers : /\ reader'[p].floor = reader[p].floor
                             /\ p # r => reader'[p].got = reader[p].got
                             /\ p # r => reader'[p].at \in {reader[p].at, "woken"}
      BY <3>1, <3>3, <3>4
    <3>6. reader'[r].at \in {"served", "woken"} /\ reader'[r].got = value
      BY <3>1, <3>3, <3>4
    <3>7. value' # NoValue => After(value')
      BY <1>0, <1>2, <2>0, <3>5 DEF SeenInv
    <3>8. \A p \in Readers : reader'[p].at = "loaded" =>
              reader'[p].got \in Versions /\ After(reader'[p].got)
      BY <1>2, <2>0, <3>5, <3>6 DEF SeenInv
    <3>9. \A p \in Readers : reader'[p].at = "served" =>
              reader'[p].got >= reader'[p].floor \/ reader'[p].floor \in overlaps'
      BY <2>0, <3>2, <3>5, <3>6 DEF SeenInv, Recent, Good
    <3> QED BY <1>1, <3>7, <3>8, <3>9
  <2>2. CASE ~LateHit(r)
    <3>1. reader' = [reader EXCEPT ![r] = [reader[r] EXCEPT !.at = "loading"]]
      BY <1>5, <2>2 DEF Proceed
    <3>2. /\ [reader[r] EXCEPT !.at = "loading"].floor = reader[r].floor
          /\ [reader[r] EXCEPT !.at = "loading"].at = "loading"
      BY <1>0 DEF ReaderRecords
    <3>3. \A p \in Readers : /\ reader'[p].floor = reader[p].floor
                             /\ reader'[p].at \in {"loaded", "served"} => reader'[p] = reader[p]
      BY <1>0, <3>1, <3>2
    <3>4. value' # NoValue => After(value')
      BY <1>0, <1>2, <2>0, <3>3 DEF SeenInv
    <3>5. \A p \in Readers : reader'[p].at = "loaded" =>
              reader'[p].got \in Versions /\ After(reader'[p].got)
      BY <1>2, <2>0, <3>3 DEF SeenInv
    <3>6. \A p \in Readers : reader'[p].at = "served" =>
              reader'[p].got >= reader'[p].floor \/ reader'[p].floor \in overlaps'
      BY <2>0, <3>3 DEF SeenInv, Good
    <3> QED BY <1>1, <3>4, <3>5, <3>6
  <2> QED BY <2>1, <2>2
\* The server answers with a vault that holds every write answered for so far.
<1>6. ASSUME NEW r \in Readers, ServerReads(r) PROVE SeenInv'
  <2>1. reader' = [reader EXCEPT ![r] = [reader[r] EXCEPT !.at = "loaded", !.got = vault]]
    BY <1>6 DEF ServerReads
  <2>2. UNCHANGED <<value, acked, overlaps>>
    BY <1>6 DEF ServerReads
  <2>3. /\ [reader[r] EXCEPT !.at = "loaded", !.got = vault].floor = reader[r].floor
        /\ [reader[r] EXCEPT !.at = "loaded", !.got = vault].got = vault
        /\ [reader[r] EXCEPT !.at = "loaded", !.got = vault].at = "loaded"
    BY <1>0 DEF ReaderRecords
  <2>4. \A p \in Readers : /\ reader'[p].floor = reader[p].floor
                           /\ p # r => reader'[p] = reader[p]
    BY <1>0, <2>1, <2>3
  <2>5. reader'[r].got = vault /\ reader'[r].at = "loaded"
    BY <1>0, <2>1, <2>3
  <2>6. Recent(vault)
    BY <1>0 DEF OrderInv, Recent, Good
  <2>7. value' # NoValue => After(value')
    BY <1>0, <1>2, <2>2, <2>4 DEF SeenInv
  <2>8. \A p \in Readers : reader'[p].at = "loaded" =>
            reader'[p].got \in Versions /\ After(reader'[p].got)
    BY <1>0, <1>2, <2>2, <2>4, <2>5, <2>6 DEF SeenInv
  <2>9. \A p \in Readers : reader'[p].at = "served" =>
            reader'[p].got >= reader'[p].floor \/ reader'[p].floor \in overlaps'
    BY <2>2, <2>4, <2>5 DEF SeenInv, Good
  <2> QED BY <1>1, <2>7, <2>8, <2>9
<1>7. ASSUME NEW r \in Readers, LoadReturns(r) PROVE SeenInv'
  <2> DEFINE readers == [reader EXCEPT ![r] = [reader[r] EXCEPT !.at = "served"]]
  <2>1. /\ readers \in [Readers -> ReaderRecords]
        /\ \A p \in Readers : readers[p] = IF p = r
              THEN [reader[r] EXCEPT !.at = "served"] ELSE reader[p]
    BY <1>0, RecordTyped
  <2>2. /\ [reader[r] EXCEPT !.at = "served"].floor = reader[r].floor
        /\ [reader[r] EXCEPT !.at = "served"].got = reader[r].got
        /\ [reader[r] EXCEPT !.at = "served"].at = "served"
    BY <1>0 DEF ReaderRecords
  <2>3. /\ Unlock(readers) /\ reader[r].at = "loaded" /\ value' = reader[r].got
        /\ UNCHANGED <<acked, overlaps>>
    BY <1>7 DEF LoadReturns, Fill
  <2>4. \A p \in Readers : /\ reader'[p].floor = readers[p].floor
                           /\ reader'[p].got = readers[p].got
                           /\ reader'[p].at \in {readers[p].at, "woken"}
    BY <2>1, <2>3, UnlockOnlyWakes
  <2> HIDE DEF readers
  <2>5. /\ \A p \in Readers : reader'[p].floor = reader[p].floor /\ reader'[p].got = reader[p].got
        /\ \A p \in Readers : p # r => reader'[p].at \in {reader[p].at, "woken"}
        /\ reader'[r].at \in {"served", "woken"}
    BY <2>1, <2>2, <2>4
  <2>6. reader[r].got \in Versions /\ Recent(reader[r].got)
    BY <2>3 DEF SeenInv
  <2>7. After(value')
    BY <1>2, <2>3, <2>5, <2>6
  <2>8. \A p \in Readers : reader'[p].at = "loaded" =>
            reader'[p].got \in Versions /\ After(reader'[p].got)
    BY <1>2, <2>3, <2>5 DEF SeenInv
  <2>9. \A p \in Readers : reader'[p].at = "served" =>
            reader'[p].got >= reader'[p].floor \/ reader'[p].floor \in overlaps'
    BY <2>3, <2>5, <2>6 DEF SeenInv, Recent, Good
  <2> QED BY <1>1, <2>7, <2>8, <2>9
<1>8. ASSUME NEW r \in Readers, LoadFails(r) PROVE SeenInv'
  <2> DEFINE readers == [reader EXCEPT ![r] = [reader[r] EXCEPT !.at = "idle", !.got = NoValue]]
  <2>1. /\ readers \in [Readers -> ReaderRecords]
        /\ \A p \in Readers : readers[p] = IF p = r
              THEN [reader[r] EXCEPT !.at = "idle", !.got = NoValue] ELSE reader[p]
    BY <1>0, RecordTyped
  <2>2. /\ [reader[r] EXCEPT !.at = "idle", !.got = NoValue].floor = reader[r].floor
        /\ [reader[r] EXCEPT !.at = "idle", !.got = NoValue].at = "idle"
    BY <1>0 DEF ReaderRecords
  <2>3. Unlock(readers) /\ UNCHANGED <<value, acked, overlaps>>
    BY <1>8 DEF LoadFails
  <2>4. \A p \in Readers : /\ reader'[p].floor = readers[p].floor
                           /\ reader'[p].got = readers[p].got
                           /\ reader'[p].at \in {readers[p].at, "woken"}
    BY <2>1, <2>3, UnlockOnlyWakes
  <2> HIDE DEF readers
  <2>5. /\ \A p \in Readers : reader'[p].floor = reader[p].floor
        /\ \A p \in Readers : p # r => /\ reader'[p].got = reader[p].got
                                       /\ reader'[p].at \in {reader[p].at, "woken"}
        /\ reader'[r].at \in {"idle", "woken"}
    BY <2>1, <2>2, <2>4
  <2>6. value' # NoValue => After(value')
    BY <1>0, <1>2, <2>3, <2>5 DEF SeenInv
  <2>7. \A p \in Readers : reader'[p].at = "loaded" =>
            reader'[p].got \in Versions /\ After(reader'[p].got)
    BY <1>2, <2>3, <2>5 DEF SeenInv
  <2>8. \A p \in Readers : reader'[p].at = "served" =>
            reader'[p].got >= reader'[p].floor \/ reader'[p].floor \in overlaps'
    BY <2>3, <2>5 DEF SeenInv, Good
  <2> QED BY <1>1, <2>6, <2>7, <2>8
\* A write that is answered empties the cache; what a load has read by then is
\* either recent enough or the write is one of the overlaps.
<1>9. ASSUME NEW w \in Writers, WriteReturns(w) PROVE SeenInv'
  <2>1. value' = NoValue /\ reader' = reader
    BY <1>9 DEF WriteReturns, Invalidate
  <2>2. overlaps \subseteq overlaps'
    BY <1>9 DEF WriteReturns
  <2>3. ASSUME NEW p \in Readers, reader[p].at = "loaded"
        PROVE  acked' \in overlaps' \/ acked' = acked
    BY <1>9, <2>3 DEF WriteReturns, Loading
  <2>4. \A p \in Readers : reader'[p].at = "loaded" =>
            reader'[p].got \in Versions /\ After(reader'[p].got)
    BY <2>1, <2>2, <2>3 DEF SeenInv, Recent, Good
  <2>5. \A p \in Readers : reader'[p].at = "served" =>
            reader'[p].got >= reader'[p].floor \/ reader'[p].floor \in overlaps'
    BY <2>1, <2>2 DEF SeenInv, Good
  <2> QED BY <1>1, <2>1, <2>4, <2>5
<1>10. ASSUME UNCHANGED <<value, reader, acked, overlaps>> PROVE SeenInv'
  BY <1>10 DEF SeenInv, Recent, Good
<1>11. ASSUME NEW w \in Writers, Send(w) \/ ServerWrites(w) \/ WriteFails(w) PROVE SeenInv'
  BY <1>10, <1>11 DEF Send, ServerWrites, WriteFails
<1>12. CASE EditElsewhere \/ Tick \/ UNCHANGED vars
  BY <1>10, <1>12 DEF EditElsewhere, Tick, vars
<1> QED BY <1>3, <1>4, <1>5, <1>6, <1>7, <1>8, <1>9, <1>11, <1>12 DEF Next

\* QuietWritesAreSeen: whoever asks after a write was answered sees it, however
\* long it queued and whoever loaded for it, unless a load was under way when
\* the write invalidated.
THEOREM WritesAreSeen == Spec => []QuietWritesAreSeen
<1>1. SeenInv => QuietWritesAreSeen
  BY DEF SeenInv, Good, QuietWritesAreSeen
<1> QED BY <1>1, InitTyped, NextTyped, InitOrder, NextOrder, InitSeen, NextSeen, PTL DEF Spec
=============================================================================

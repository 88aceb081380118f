------------------------------- MODULE TtlCache -------------------------------
(* adapters/cache.py in front of the vault: callers of get(), the writers of  *)
(* adapters/rest.py that invalidate after their response, and somebody who    *)
(* edits the vault elsewhere.  The vault is its version number; the age of    *)
(* the cached value is counted in ticks and saturates at the TTL.             *)
EXTENDS Naturals, FiniteSets, Sequences

CONSTANTS Readers, Writers,
          TTL,         \* TREE_CACHE_TTL_S in ticks; 0 keeps nothing fresh
          MaxVersion,  \* bound on the changes made to the vault
          NoValue, Nobody

ASSUME CacheAssumption ==
    /\ TTL \in Nat /\ MaxVersion \in Nat
    /\ NoValue \notin Nat /\ Nobody \notin Readers

VARIABLES
    vault,    \* the version the server would answer with
    value,    \* _value: a version, or NoValue
    age,      \* clock() - _loaded_at, at most TTL
    holder,   \* who holds _lock, or Nobody
    queue,    \* the lock's waiters, first come first served
    reader,   \* reader -> [at, refresh, got, floor]
    writer,   \* writer -> [at, wrote]
    acked,    \* history: newest version whose writer has had its answer
    overlaps  \* history: the versions answered for while a load was under way

vars == <<vault, value, age, holder, queue, reader, writer, acked, overlaps>>

Versions == 0..MaxVersion

Init == /\ vault = 0
        /\ value = NoValue
        /\ age = 0
        /\ holder = Nobody
        /\ queue = <<>>
        /\ reader = [r \in Readers |->
                        [at |-> "idle", refresh |-> FALSE, got |-> NoValue, floor |-> 0]]
        /\ writer = [w \in Writers |-> [at |-> "idle", wrote |-> 0]]
        /\ acked = 0
        /\ overlaps = {}

FreshByOne == value # NoValue /\ TTL > 0 /\ age <= TTL

\* is_fresh
Fresh == value # NoValue /\ TTL > 0 /\ age < TTL

Loading == \E r \in Readers : reader[r].at \in {"loading", "loaded"}

-----------------------------------------------------------------------------
(* get() *)

Served(r) == [reader EXCEPT ![r] = [@ EXCEPT !.at = "served", !.got = value]]

UnlockLettingAnybodyIn(readers) ==
    /\ holder' = Nobody
    /\ reader' = readers
    /\ UNCHANGED queue

\* Leaving `async with self._lock` wakes the first waiter.  Until it runs the
\* lock counts as taken: asyncio lets nobody barge past a queue.
Unlock(readers) ==
    IF queue = <<>>
    THEN /\ holder' = Nobody
         /\ reader' = readers
         /\ UNCHANGED queue
    ELSE /\ holder' = Head(queue)
         /\ reader' = [readers EXCEPT ![Head(queue)].at = "woken"]
         /\ queue' = Tail(queue)

Asks(r, refresh) == [reader[r] EXCEPT !.refresh = refresh, !.floor = acked, !.got = NoValue]

GetHit(r) ==
    /\ reader[r].at \in {"idle", "served"}
    /\ Fresh
    /\ reader' = [reader EXCEPT ![r] = [Asks(r, FALSE) EXCEPT !.at = "served", !.got = value]]
    /\ UNCHANGED <<vault, value, age, holder, queue, writer, acked, overlaps>>

\* A miss takes a free lock and starts the loader at once, or queues.
GetMiss(r, refresh) ==
    /\ reader[r].at \in {"idle", "served"}
    /\ refresh \/ ~Fresh
    /\ IF holder = Nobody
       THEN /\ holder' = r
            /\ reader' = [reader EXCEPT ![r] = [Asks(r, refresh) EXCEPT !.at = "loading"]]
            /\ UNCHANGED queue
       ELSE /\ queue' = Append(queue, r)
            /\ reader' = [reader EXCEPT ![r] = [Asks(r, refresh) EXCEPT !.at = "queued"]]
            /\ UNCHANGED holder
    /\ UNCHANGED <<vault, value, age, writer, acked, overlaps>>

NeverRechecks(r) == FALSE
LateHit(r) == Fresh /\ ~reader[r].refresh

\* The waiter re-checks: another caller may have loaded the value meanwhile.
Proceed(r) ==
    /\ reader[r].at = "woken"
    /\ IF LateHit(r)
       THEN Unlock(Served(r))
       ELSE /\ reader' = [reader EXCEPT ![r].at = "loading"]
            /\ UNCHANGED <<holder, queue>>
    /\ UNCHANGED <<vault, value, age, writer, acked, overlaps>>

\* The server reads the vault at some moment of the load; its answer is on its
\* way while the vault goes on changing.
ServerReads(r) ==
    /\ reader[r].at = "loading"
    /\ reader' = [reader EXCEPT ![r] = [@ EXCEPT !.at = "loaded", !.got = vault]]
    /\ UNCHANGED <<vault, value, age, holder, queue, writer, acked, overlaps>>

Fill(r) == value' = reader[r].got /\ age' = 0

LoadReturns(r) ==
    /\ reader[r].at = "loaded"
    /\ Fill(r)
    /\ Unlock([reader EXCEPT ![r].at = "served"])
    /\ UNCHANGED <<vault, writer, acked, overlaps>>

\* The loader raised: the previous value stays and the next caller tries again.
LoadFails(r) ==
    /\ reader[r].at \in {"loading", "loaded"}
    /\ Unlock([reader EXCEPT ![r] = [@ EXCEPT !.at = "idle", !.got = NoValue]])
    /\ UNCHANGED <<vault, value, age, writer, acked, overlaps>>

-----------------------------------------------------------------------------
(* Writers: every mutating method of the adapter. *)

Send(w) ==
    /\ writer[w].at = "idle"
    /\ writer' = [writer EXCEPT ![w].at = "sent"]
    /\ UNCHANGED <<vault, value, age, holder, queue, reader, acked, overlaps>>

ServerWrites(w) ==
    /\ writer[w].at = "sent"
    /\ vault < MaxVersion
    /\ vault' = vault + 1
    /\ writer' = [writer EXCEPT ![w].at = "written", ![w].wrote = vault + 1]
    /\ UNCHANGED <<value, age, holder, queue, reader, acked, overlaps>>

InvalidateOnlyTheAge == age' = 0 /\ UNCHANGED value

\* invalidate(): it takes no lock and leaves a load under way alone.
Invalidate == value' = NoValue /\ age' = 0

WriteReturns(w) ==
    /\ writer[w].at = "written"
    /\ Invalidate
    /\ acked' = IF writer[w].wrote > acked THEN writer[w].wrote ELSE acked
    /\ overlaps' = IF Loading THEN overlaps \cup {writer[w].wrote} ELSE overlaps
    /\ writer' = [writer EXCEPT ![w].at = "idle"]
    /\ UNCHANGED <<vault, holder, queue, reader>>

\* The response is lost after the write was done, or the write never arrives:
\* _request raises, and the line that invalidates is not reached.
WriteFails(w) ==
    /\ writer[w].at \in {"sent", "written"}
    /\ writer' = [writer EXCEPT ![w].at = "idle"]
    /\ UNCHANGED <<vault, value, age, holder, queue, reader, acked, overlaps>>

\* Somebody uses the NoteDiscovery web UI.
EditElsewhere ==
    /\ vault < MaxVersion
    /\ vault' = vault + 1
    /\ UNCHANGED <<value, age, holder, queue, reader, writer, acked, overlaps>>

Tick ==
    /\ value # NoValue /\ age < TTL
    /\ age' = age + 1
    /\ UNCHANGED <<vault, value, holder, queue, reader, writer, acked, overlaps>>

Next ==
    \/ \E r \in Readers : GetHit(r)
    \/ \E r \in Readers, refresh \in BOOLEAN : GetMiss(r, refresh)
    \/ \E r \in Readers : Proceed(r)
    \/ \E r \in Readers : ServerReads(r)
    \/ \E r \in Readers : LoadReturns(r)
    \/ \E r \in Readers : LoadFails(r)
    \/ \E w \in Writers : Send(w)
    \/ \E w \in Writers : ServerWrites(w)
    \/ \E w \in Writers : WriteReturns(w)
    \/ \E w \in Writers : WriteFails(w)
    \/ EditElsewhere
    \/ Tick

Spec == Init /\ [][Next]_vars

\* Loads and the waiters behind them come to an end (the HTTP client has a
\* timeout) and clocks advance; whether anybody reads or writes is open.
Fairness ==
    /\ \A r \in Readers : /\ WF_vars(ServerReads(r) \/ LoadReturns(r) \/ LoadFails(r))
                          /\ WF_vars(Proceed(r))
    /\ WF_vars(Tick)

FairSpec == Spec /\ Fairness

-----------------------------------------------------------------------------
ReaderRecords == [at : {"idle", "queued", "woken", "loading", "loaded", "served"},
                  refresh : BOOLEAN, got : Versions \cup {NoValue}, floor : Versions]

TypeOK ==
    /\ vault \in Versions
    /\ value \in Versions \cup {NoValue}
    /\ age \in 0..TTL
    /\ holder \in Readers \cup {Nobody}
    /\ queue \in Seq(Readers)
    /\ reader \in [Readers -> ReaderRecords]
    /\ writer \in [Writers -> [at : {"idle", "sent", "written"}, wrote : Versions]]
    /\ acked \in Versions
    /\ overlaps \subseteq Versions

\* cache.py:15-18, "one loader runs, however many callers are waiting": loads
\* exclude each other, whoever holds the lock is at work, and nobody is left
\* waiting for a lock that nobody holds, failed loads included.
OneLoader ==
    /\ TypeOK
    /\ \A r \in Readers : reader[r].at \in {"woken", "loading", "loaded"} <=> holder = r
    /\ holder = Nobody => \A r \in Readers : reader[r].at # "queued"

\* cache.py:73-76: a burst of callers costs one load.  A load starts only for
\* a caller who demanded one or while nothing fresh is cached, also for those
\* who found the cache cold and had to wait.
LoadsOnlyWhenNeeded ==
    [][\A r \in Readers :
         reader[r].at # "loading" /\ reader'[r].at = "loading"
           => reader'[r].refresh \/ ~Fresh]_vars

\* cache.py:10-14, "a note created from Telegram appears in /browse on the next
\* tap", as far as it holds: a caller who asks after a write was answered sees
\* that write, unless a load was under way at that moment.  Such a load stores
\* its older answer after the invalidation, and it is served until the TTL.
QuietWritesAreSeen ==
    \A r \in Readers :
        reader[r].at = "served" => reader[r].got >= reader[r].floor
                                   \/ reader[r].floor \in overlaps

\* cache.py:12-14, "the TTL only bounds staleness": once the vault stops
\* changing, what the cache would serve without loading is the vault as it is.
StalenessEnds == <>[](Fresh => value = vault)
=============================================================================

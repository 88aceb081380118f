----------------------------- MODULE ChatBotProofs -----------------------------
(* The bot's tokens, refusals and albums for every number of handlers, tokens,*)
(* strangers and photos, every lifetime and either session backend.           *)
EXTENDS ChatBot, FiniteSetTheorems, TLAPS

Stages == {"free", "resolved", "extending", "acting", "revoking",
           "refusing", "downloading", "waiting"}

Jobs == [at : Stages, for : Tokens \cup Strangers \cup Photos \cup {Nothing}, verb : Verbs]

\* What a handler at each place works for; in memory nothing suspends between
\* a get and the set after it.
Fits(s) ==
    /\ job[s].at \in {"resolved", "extending", "acting", "revoking"} => job[s].for \in Tokens
    /\ job[s].at = "revoking" => job[s].for \in spent
    /\ job[s].at = "refusing" => job[s].for \in Strangers
    /\ job[s].at = "downloading" => job[s].for \in Photos
    /\ backend = "memory" => job[s].at \notin {"resolved", "extending", "refusing"}

-----------------------------------------------------------------------------
(* How a step changes the handlers. *)

\* A handler that ended is a job like any other.
LEMMA FreeTyped == Free \in Jobs /\ Free.at = "free"
BY DEF Free, Jobs, Stages, Verbs

\* An update starts a handler in a free slot and touches no other.
LEMMA Entering ==
    ASSUME job \in [Slots -> Jobs], NEW s \in Slots, NEW x \in Jobs, Enters(s, x)
    PROVE  /\ job' \in [Slots -> Jobs] /\ job[s].at = "free"
           /\ \A r \in Slots : job'[r] = IF r = s THEN x ELSE job[r]
BY FreeTyped DEF Enters

\* A handler that goes on keeps what it works for.
LEMMA Going ==
    ASSUME job \in [Slots -> Jobs], NEW s \in Slots, NEW at \in Stages, Goes(s, at)
    PROVE  /\ job' \in [Slots -> Jobs]
           /\ \A r \in Slots : r # s => job'[r] = job[r]
           /\ job'[s].at = at /\ job'[s].for = job[s].for
BY DEF Goes, Jobs

\* A handler that ends frees its slot and touches no other.
LEMMA Leaving ==
    ASSUME job \in [Slots -> Jobs], NEW s \in Slots, Leaves(s)
    PROVE  /\ job' \in [Slots -> Jobs]
           /\ \A r \in Slots : job'[r] = IF r = s THEN Free ELSE job[r]
BY FreeTyped DEF Leaves

\* Every entry set expires TTL ticks from now.
LEMMA ExpiryTyped ==
    ASSUME SessionTypeOK, NEW k \in Keys
    PROVE  /\ With(k) \in [Keys -> 0..MaxTime + TTL] /\ Without(k) \in [Keys -> 0..MaxTime + TTL]
           /\ \A j \in Keys : With(k)[j] = IF j = k THEN now + TTL ELSE expires[j]
           /\ \A j \in Keys : Without(k)[j] = IF j = k THEN 0 ELSE expires[j]
<1>1. now + TTL \in 0..MaxTime + TTL /\ 0 \in 0..MaxTime + TTL
  BY SessionAssumption DEF SessionTypeOK
<1> QED BY <1>1 DEF SessionTypeOK, With, Without

-----------------------------------------------------------------------------
(* Types. *)

Typed == TypeOK /\ \A s \in Slots : Fits(s)

\* TypeOK with the handlers' type named.
LEMMA TypedParts ==
    TypeOK <=>
        /\ SessionTypeOK /\ AlbumTypeOK /\ job \in [Slots -> Jobs]
        /\ prompted \subseteq Tokens /\ spent \subseteq Tokens
        /\ unheard \subseteq spent /\ excused \subseteq spent
        /\ parked \in {"none", "draft", "edit"} /\ updates \in 0..MaxUpdates
        /\ refused \in [Strangers -> 0..MaxTime] /\ hasty \subseteq Strangers
BY DEF TypeOK, Jobs, Stages

\* The same after a step.
LEMMA TypedNext ==
    (/\ SessionTypeOK /\ AlbumTypeOK /\ job \in [Slots -> Jobs]
     /\ prompted \subseteq Tokens /\ spent \subseteq Tokens
     /\ unheard \subseteq spent /\ excused \subseteq spent
     /\ parked \in {"none", "draft", "edit"} /\ updates \in 0..MaxUpdates
     /\ refused \in [Strangers -> 0..MaxTime] /\ hasty \subseteq Strangers)' => TypeOK'
BY DEF TypeOK, Jobs, Stages

\* The bot starts well typed, with no handler.
LEMMA InitTyped == Init => Typed
<1> SUFFICES ASSUME Init PROVE Typed
  OBVIOUS
<1>1. SessionTypeOK
  <2>1. 1 \in 1..MaxTime /\ 1 + TTL \in 0..MaxTime + TTL /\ 0 \in 0..MaxTime + TTL
    BY SessionAssumption
  <2> QED BY <2>1 DEF Init, SessionInit, SessionTypeOK
<1>2. AlbumTypeOK
  BY DEF Init, AlbumInit, AlbumTypeOK
<1>3. job \in [Slots -> Jobs] /\ \A s \in Slots : job[s].at = "free"
  BY FreeTyped DEF Init
<1>4. \A s \in Slots : Fits(s)
  BY <1>3 DEF Fits
<1> QED BY <1>1, <1>2, <1>3, <1>4, TypedParts, SessionAssumption, ChatAssumption DEF Init, Typed

\* Taps, and the answers of the vault.
LEMMA TapTyped ==
    ASSUME Typed, NEW s \in Slots,
           \/ \E t \in Tokens, verb \in Verbs : Tap(s, t, verb)
           \/ ExtendReads(s) \/ ExtendWrites(s) \/ Acts(s)
           \/ Deleted(s) \/ NotDeleted(s) \/ NeverHeard(s) \/ Revokes(s)
    PROVE  Typed'
<1> USE TypedParts, TypedNext DEF Typed
<1>0. /\ SessionTypeOK /\ AlbumTypeOK /\ job \in [Slots -> Jobs] /\ Tokens \subseteq Keys
      /\ \A r \in Slots : Fits(r)
  BY ChatAssumption
<1>1. ASSUME NEW t \in Tokens, NEW verb \in Verbs, Tap(s, t, verb) PROVE Typed'
  <2> DEFINE x == [at |-> IF Suspends THEN "resolved" ELSE "acting", for |-> t, verb |-> verb]
  <2>1. x \in Jobs /\ x.for = t /\ x.at = IF Suspends THEN "resolved" ELSE "acting"
    BY DEF Jobs, Stages
  <2>2. Enters(s, x)
    BY <1>1 DEF Tap
  <2> HIDE DEF x
  <2>3. job' \in [Slots -> Jobs] /\ \A r \in Slots : job'[r] = IF r = s THEN x ELSE job[r]
    BY <1>0, <2>1, <2>2, Entering
  <2>4. SessionTypeOK' /\ AlbumTypeOK' /\ backend' = backend
    BY <1>0, <1>1, ExpiryTyped DEF Tap, Fixed, SessionTypeOK, AlbumTypeOK, albumVars
  <2>5. \A r \in Slots : Fits(r)'
    BY <1>0, <1>1, <2>1, <2>3, <2>4 DEF Fits, Tap, tokenVars, Suspends
  <2>6. updates' \in 0..MaxUpdates
    BY <1>1, ChatAssumption DEF Tap, Comes
  <2> QED BY <1>1, <2>3, <2>4, <2>5, <2>6 DEF Tap, tokenVars, guardVars, Fixed
<1>2. CASE ExtendReads(s)
  <2>1. PICK at \in {"extending", "acting"} : Goes(s, at)
    BY <1>2 DEF ExtendReads
  <2>2. /\ job' \in [Slots -> Jobs] /\ \A r \in Slots : r # s => job'[r] = job[r]
        /\ job'[s].at = at /\ job'[s].for = job[s].for
    BY <1>0, <2>1, Going DEF Stages
  <2>3. SessionTypeOK' /\ AlbumTypeOK' /\ backend' = backend
    BY <1>0, <1>2 DEF ExtendReads, Fixed, SessionTypeOK, AlbumTypeOK, albumVars
  <2>4. \A r \in Slots : Fits(r)'
    BY <1>0, <1>2, <2>2, <2>3 DEF Fits, ExtendReads, tokenVars
  <2> QED BY <1>2, <2>2, <2>3, <2>4 DEF ExtendReads, tokenVars, guardVars, Fixed
<1>3. CASE ExtendWrites(s)
  <2>1. job[s].at = "extending" /\ Goes(s, "acting") /\ job[s].for \in Keys
    BY <1>0, <1>3 DEF ExtendWrites, Fits
  <2>2. /\ job' \in [Slots -> Jobs] /\ \A r \in Slots : r # s => job'[r] = job[r]
        /\ job'[s].at = "acting" /\ job'[s].for = job[s].for
    BY <1>0, <2>1, Going DEF Stages
  <2>3. SessionTypeOK' /\ AlbumTypeOK' /\ backend' = backend
    BY <1>0, <1>3, <2>1, ExpiryTyped DEF ExtendWrites, Fixed, SessionTypeOK, AlbumTypeOK, albumVars
  <2>4. \A r \in Slots : Fits(r)'
    BY <1>0, <1>3, <2>1, <2>2, <2>3 DEF Fits, ExtendWrites, tokenVars
  <2> QED BY <1>3, <2>2, <2>3, <2>4 DEF ExtendWrites, tokenVars, guardVars, Fixed
<1>4. CASE Acts(s)
  <2>1. job[s].for \in Tokens /\ Leaves(s)
    BY <1>0, <1>4 DEF Acts, Fits
  <2>2. job' \in [Slots -> Jobs] /\ \A r \in Slots : job'[r] = IF r = s THEN Free ELSE job[r]
    BY <1>0, <2>1, Leaving
  <2>3. SessionTypeOK' /\ AlbumTypeOK' /\ backend' = backend
    BY <1>0, <1>4 DEF Acts, Fixed, SessionTypeOK, AlbumTypeOK, albumVars
  <2>4. \A r \in Slots : Fits(r)'
    BY <1>0, <1>4, <2>2, <2>3, FreeTyped DEF Fits, Acts
  <2> QED BY <1>4, <2>1, <2>2, <2>3, <2>4 DEF Acts, guardVars, Fixed
<1>5. CASE Deleted(s)
  <2>1. job[s].at = "acting" /\ job[s].for \in Tokens /\ job[s].for \in Keys
    BY <1>0, <1>5 DEF Deleted, Fits
  <2>2. /\ job' \in [Slots -> Jobs] /\ \A r \in Slots : r # s => job'[r] = job[r]
        /\ job'[s].at = "revoking" /\ job'[s].for = job[s].for
    BY <1>0, <1>5, Going DEF Deleted, Stages
  <2>3. SessionTypeOK' /\ AlbumTypeOK' /\ backend' = backend
    BY <1>0, <1>5 DEF Deleted, Fixed, SessionTypeOK, AlbumTypeOK, albumVars
  <2>4. spent' = spent \cup {job[s].for}
    BY <1>5 DEF Deleted
  <2>5. \A r \in Slots : Fits(r)'
    <3>1. ASSUME NEW r \in Slots, r # s PROVE Fits(r)'
      BY <1>0, <2>2, <2>3, <2>4, <3>1 DEF Fits
    <3>2. Fits(s)'
      BY <1>0, <2>1, <2>2, <2>3, <2>4 DEF Fits
    <3> QED BY <3>1, <3>2
  <2> QED BY <1>5, <2>1, <2>2, <2>3, <2>4, <2>5 DEF Deleted, guardVars, Fixed
<1>6. CASE NotDeleted(s)
  <2>1. job' \in [Slots -> Jobs] /\ \A r \in Slots : job'[r] = IF r = s THEN Free ELSE job[r]
    BY <1>0, <1>6, Leaving DEF NotDeleted
  <2>2. SessionTypeOK' /\ AlbumTypeOK' /\ backend' = backend
    BY <1>0, <1>6 DEF NotDeleted, Fixed, SessionTypeOK, AlbumTypeOK, albumVars
  <2>3. \A r \in Slots : Fits(r)'
    BY <1>0, <1>6, <2>1, <2>2, FreeTyped DEF Fits, NotDeleted, tokenVars
  <2> QED BY <1>6, <2>1, <2>2, <2>3 DEF NotDeleted, tokenVars, guardVars, Fixed
<1>7. CASE Revokes(s)
  <2>1. job[s].at = "revoking" /\ job[s].for \in spent /\ job[s].for \in Keys
    BY <1>0, <1>7 DEF Revokes, Fits
  <2>2. job' \in [Slots -> Jobs] /\ \A r \in Slots : job'[r] = IF r = s THEN Free ELSE job[r]
    BY <1>0, <1>7, Leaving DEF Revokes
  <2>3. SessionTypeOK' /\ AlbumTypeOK' /\ backend' = backend
    BY <1>0, <1>7, <2>1, ExpiryTyped DEF Revokes, Fixed, SessionTypeOK, AlbumTypeOK, albumVars
  <2>4. \A r \in Slots : Fits(r)'
    BY <1>0, <1>7, <2>2, <2>3, FreeTyped DEF Fits, Revokes
  <2>5. excused' \subseteq spent'
    BY <1>7, <2>1 DEF Revokes
  <2> QED BY <1>7, <2>2, <2>3, <2>4, <2>5 DEF Revokes, guardVars, Fixed
<1>8. CASE NeverHeard(s)
  <2>1. job[s].for \in spent
    BY <1>0, <1>8 DEF NeverHeard, Fits
  <2>2. job' \in [Slots -> Jobs] /\ \A r \in Slots : job'[r] = IF r = s THEN Free ELSE job[r]
    BY <1>0, <1>8, Leaving DEF NeverHeard
  <2>3. SessionTypeOK' /\ AlbumTypeOK' /\ backend' = backend
    BY <1>0, <1>8 DEF NeverHeard, Fixed, SessionTypeOK, AlbumTypeOK, albumVars
  <2>4. \A r \in Slots : Fits(r)'
    BY <1>0, <1>8, <2>2, <2>3, FreeTyped DEF Fits, NeverHeard
  <2>5. unheard' \subseteq spent'
    BY <1>8, <2>1 DEF NeverHeard
  <2> QED BY <1>8, <2>2, <2>3, <2>4, <2>5 DEF NeverHeard, guardVars, Fixed
<1> QED BY <1>1, <1>2, <1>3, <1>4, <1>5, <1>6, <1>7, <1>8

\* Refusals and photos.
LEMMA OtherTyped ==
    ASSUME Typed, NEW s \in Slots,
           \/ \E u \in Strangers : StrangerComes(s, u)
           \/ RefuseGoesOn(s)
           \/ \E x \in Photos : PhotoComes(s, x)
           \/ Collect(s) \/ WindowCloses(s)
    PROVE  Typed'
<1> USE TypedParts, TypedNext DEF Typed
<1>0. /\ SessionTypeOK /\ AlbumTypeOK /\ job \in [Slots -> Jobs] /\ Strangers \subseteq Keys
      /\ \A r \in Slots : Fits(r)
      /\ refused \in [Strangers -> 0..MaxTime] /\ now \in 0..MaxTime /\ updates \in 0..MaxUpdates
  BY ChatAssumption, SessionAssumption DEF SessionTypeOK
<1>1. ASSUME NEW u \in Strangers, StrangerComes(s, u) PROVE Typed'
  <2> DEFINE x == [Free EXCEPT !.at = "refusing", !.for = u]
  <2>1. x \in Jobs /\ x.for = u /\ x.at = "refusing"
    BY DEF Jobs, Stages, Free, Verbs
  <2>0. IF Suspends THEN Enters(s, x) ELSE job' = job
    BY <1>1 DEF StrangerComes
  <2> HIDE DEF x
  <2>2. /\ job' \in [Slots -> Jobs]
        /\ \A r \in Slots : job'[r] = job[r] \/ (Suspends /\ job'[r] = x)
    <3>1. CASE Suspends
      <4>1. Enters(s, x)
        BY <2>0, <3>1
      <4>2. /\ job' \in [Slots -> Jobs]
            /\ \A r \in Slots : job'[r] = IF r = s THEN x ELSE job[r]
        BY <1>0, <2>1, <4>1, Entering
      <4> QED BY <3>1, <4>2
    <3>2. CASE ~Suspends
      BY <1>0, <2>0, <3>2
    <3> QED BY <3>1, <3>2
  <2>3. SessionTypeOK' /\ AlbumTypeOK' /\ backend' = backend
    BY <1>0, <1>1, ExpiryTyped DEF StrangerComes, Refuse, SessionTypeOK, AlbumTypeOK, albumVars
  <2>4. \A r \in Slots : Fits(r)'
    BY <1>0, <1>1, <2>1, <2>2, <2>3 DEF Fits, StrangerComes, tokenVars, Suspends
  <2>5. refused' \in [Strangers -> 0..MaxTime] /\ hasty' \subseteq Strangers
    BY <1>0, <1>1 DEF StrangerComes, Refuse, guardVars
  <2>6. updates' \in 0..MaxUpdates
    <3>1. Comes
      BY <1>1 DEF StrangerComes
    <3> QED BY <1>0, <3>1, ChatAssumption DEF Comes
  <2> QED BY <1>1, <2>2, <2>3, <2>4, <2>5, <2>6 DEF StrangerComes, tokenVars
<1>2. CASE RefuseGoesOn(s)
  <2>1. job[s].for \in Strangers /\ job[s].for \in Keys
    BY <1>0, <1>2 DEF RefuseGoesOn, Fits
  <2>2. job' \in [Slots -> Jobs] /\ \A r \in Slots : job'[r] = IF r = s THEN Free ELSE job[r]
    BY <1>0, <1>2, Leaving DEF RefuseGoesOn
  <2>3. SessionTypeOK' /\ AlbumTypeOK' /\ backend' = backend
    BY <1>0, <1>2, <2>1, ExpiryTyped DEF RefuseGoesOn, Refuse, SessionTypeOK, AlbumTypeOK, albumVars
  <2>4. \A r \in Slots : Fits(r)'
    BY <1>0, <1>2, <2>2, <2>3, FreeTyped DEF Fits, RefuseGoesOn, tokenVars
  <2>5. refused' \in [Strangers -> 0..MaxTime] /\ hasty' \subseteq Strangers
    BY <1>0, <1>2, <2>1 DEF RefuseGoesOn, Refuse
  <2> QED BY <1>2, <2>2, <2>3, <2>4, <2>5 DEF RefuseGoesOn, tokenVars
<1>3. ASSUME NEW y \in Photos, PhotoComes(s, y) PROVE Typed'
  <2> DEFINE x == [Free EXCEPT !.at = "downloading", !.for = y]
  <2>1. x \in Jobs /\ x.for = y /\ x.at = "downloading"
    BY DEF Jobs, Stages, Free, Verbs
  <2>2. Enters(s, x)
    BY <1>3 DEF PhotoComes
  <2> HIDE DEF x
  <2>3. job' \in [Slots -> Jobs] /\ \A r \in Slots : job'[r] = IF r = s THEN x ELSE job[r]
    BY <1>0, <2>1, <2>2, Entering
  <2>4. SessionTypeOK' /\ AlbumTypeOK' /\ backend' = backend
    BY <1>0, <1>3 DEF PhotoComes, NoPhoto, SessionTypeOK, sessionVars, AlbumTypeOK, albumVars
  <2>5. \A r \in Slots : Fits(r)'
    BY <1>0, <1>3, <2>1, <2>3, <2>4 DEF Fits, PhotoComes, NoPhoto, tokenVars
  <2>6. updates' \in 0..MaxUpdates
    <3>1. Comes
      BY <1>3 DEF PhotoComes
    <3> QED BY <1>0, <3>1, ChatAssumption DEF Comes
  <2> QED BY <1>3, <2>3, <2>4, <2>5, <2>6 DEF PhotoComes, NoPhoto, tokenVars, guardVars
<1>4. CASE Collect(s)
  <2>1. job[s].for \in Photos
    BY <1>0, <1>4 DEF Collect, Fits
  <2>2. /\ job' \in [Slots -> Jobs] /\ \A r \in Slots : r # s => job'[r] = job[r]
        /\ job'[s].at \in {"free", "waiting"}
    BY <1>0, <1>4, Going, Leaving, FreeTyped DEF Collect, Stages
  <2>3. SessionTypeOK' /\ AlbumTypeOK' /\ backend' = backend
    BY <1>0, <1>4, <2>1
       DEF Collect, Joins, Opens, NoPhoto, SessionTypeOK, sessionVars, AlbumTypeOK
  <2>4. \A r \in Slots : Fits(r)'
    BY <1>0, <1>4, <2>2, <2>3 DEF Fits, Collect, NoPhoto, tokenVars
  <2> QED BY <1>4, <2>2, <2>3, <2>4 DEF Collect, NoPhoto, tokenVars, guardVars
<1>5. CASE WindowCloses(s)
  <2>1. job' \in [Slots -> Jobs] /\ \A r \in Slots : job'[r] = IF r = s THEN Free ELSE job[r]
    BY <1>0, <1>5, Leaving DEF WindowCloses
  <2>2. SessionTypeOK' /\ AlbumTypeOK' /\ backend' = backend
    BY <1>0, <1>5 DEF WindowCloses, Closes, NoPhoto, SessionTypeOK, sessionVars, AlbumTypeOK
  <2>3. \A r \in Slots : Fits(r)'
    BY <1>0, <1>5, <2>1, <2>2, FreeTyped DEF Fits, WindowCloses, NoPhoto, tokenVars
  <2> QED BY <1>5, <2>1, <2>2, <2>3 DEF WindowCloses, NoPhoto, tokenVars, guardVars
<1> QED BY <1>1, <1>2, <1>3, <1>4, <1>5

\* What a handler does to the chat, by what it is there for.
TapStep(s) ==
    \/ \E t \in Tokens, verb \in Verbs : Tap(s, t, verb)
    \/ ExtendReads(s) \/ ExtendWrites(s) \/ Acts(s)
    \/ Deleted(s) \/ NotDeleted(s) \/ NeverHeard(s) \/ Revokes(s)

GuardStep(s) == (\E u \in Strangers : StrangerComes(s, u)) \/ RefuseGoesOn(s)

PhotoStep(s) == (\E x \in Photos : PhotoComes(s, x)) \/ Collect(s) \/ WindowCloses(s)

Asking == DraftAsks \/ \E kind \in {"cancel", "unknown", "text", "forward"} : Message(kind)

\* Every step is a message, the clock, a restart, or of one of three kinds of handler.
LEMMA NextSteps ==
    Next => \/ Asking \/ TimePasses \/ Restart
            \/ \E s \in Slots : TapStep(s) \/ GuardStep(s) \/ PhotoStep(s)
BY DEF Next, Asking, TapStep, GuardStep, PhotoStep

\* Every step keeps the types and what each place works for.
LEMMA NextTyped == Typed /\ [Next]_vars => Typed'
<1> SUFFICES ASSUME Typed, [Next]_vars PROVE Typed'
  OBVIOUS
<1> USE TypedParts, TypedNext DEF Typed
<1>0. /\ SessionTypeOK /\ AlbumTypeOK /\ job \in [Slots -> Jobs] /\ \A r \in Slots : Fits(r)
      /\ updates \in 0..MaxUpdates
  OBVIOUS
<1>1. CASE Asking
  <2>1. SessionTypeOK' /\ AlbumTypeOK' /\ updates' \in 0..MaxUpdates
    BY <1>0, <1>1, ChatAssumption
       DEF Asking, Message, DraftAsks, Comes, SessionTypeOK, sessionVars, AlbumTypeOK, albumVars
  <2>2. \A r \in Slots : Fits(r)'
    BY <1>0, <1>1 DEF Asking, Message, DraftAsks, Fits, sessionVars, tokenVars
  <2>3. parked' \in {"none", "draft", "edit"}
    BY <1>1 DEF Asking, Message, DraftAsks
  <2> QED BY <1>1, <2>1, <2>2, <2>3 DEF Asking, Message, DraftAsks, tokenVars, guardVars
<1>2. CASE TimePasses
  <2>1. SessionTypeOK' /\ AlbumTypeOK'
    <3>1. now' \in 1..MaxTime
      BY <1>0, <1>2, SessionAssumption DEF TimePasses, SessionTick, SessionTypeOK
    <3> QED BY <1>0, <1>2, <3>1
            DEF TimePasses, SessionTick, SessionTypeOK, AlbumTypeOK, albumVars
  <2>2. \A r \in Slots : Fits(r)'
    BY <1>0, <1>2 DEF TimePasses, SessionTick, Fits, tokenVars
  <2> QED BY <1>2, <2>1, <2>2 DEF TimePasses, tokenVars, guardVars
<1>3. CASE Restart
  <2>1. SessionTypeOK' /\ AlbumTypeOK' /\ updates' \in 0..MaxUpdates
    <3>1. 0 \in 0..MaxTime + TTL
      BY SessionAssumption
    <3>2. updates' \in 0..MaxUpdates
      BY <1>0, <1>3, ChatAssumption DEF Restart, Comes
    <3>3. SessionTypeOK'
      BY <1>0, <1>3, <3>1 DEF Restart, SessionRestart, SessionTypeOK
    <3>4. AlbumTypeOK'
      BY <1>0, <1>3 DEF Restart, AlbumRestart, AlbumTypeOK
    <3> QED BY <3>2, <3>3, <3>4
  <2>2. job' \in [Slots -> Jobs] /\ \A r \in Slots : job'[r].at = "free"
    BY <1>3, FreeTyped DEF Restart
  <2>3. \A r \in Slots : Fits(r)'
    BY <2>2 DEF Fits
  <2>4. refused' \in [Strangers -> 0..MaxTime]
    BY <1>3, SessionAssumption DEF Restart
  <2>5. unheard' \subseteq spent' /\ excused' \subseteq spent'
    BY <1>0, <1>3 DEF Restart, Fits
  <2> QED BY <1>3, <2>1, <2>2, <2>3, <2>4, <2>5 DEF Restart
<1>4. ASSUME NEW s \in Slots, TapStep(s) PROVE Typed'
  BY <1>4, TapTyped DEF TapStep
<1>5. ASSUME NEW s \in Slots, GuardStep(s) \/ PhotoStep(s) PROVE Typed'
  BY <1>5, OtherTyped DEF GuardStep, PhotoStep
<1>6. CASE UNCHANGED vars
  BY <1>0, <1>6 DEF vars, SessionTypeOK, AlbumTypeOK, Fits
<1> QED BY <1>1, <1>2, <1>3, <1>4, <1>5, <1>6, NextSteps

\* Every reachable state has the types, and every handler works for what its
\* place is about: a refusal for a stranger, a revocation for a spent token.
THEOREM ChatTyped == Spec => []Typed
<1> QED BY InitTyped, NextTyped, PTL DEF Spec

-----------------------------------------------------------------------------
(* What the three kinds of handlers leave alone. *)

InTap == {"free", "resolved", "extending", "acting", "revoking"}

\* A tap's handler stays with taps, and touches no stranger's entry and no photo.
LEMMA TapEffects ==
    ASSUME Typed, NEW s \in Slots, TapStep(s)
    PROVE  /\ job' \in [Slots -> Jobs] /\ \A r \in Slots : r # s => job'[r] = job[r]
           /\ job[s].at \in InTap /\ job'[s].at \in InTap
           /\ \A u \in Strangers : expires'[u] = expires[u]
           /\ UNCHANGED albumVars /\ UNCHANGED guardVars /\ backend' = backend
<1>0. /\ SessionTypeOK /\ job \in [Slots -> Jobs] /\ \A r \in Slots : Fits(r)
      /\ \A u \in Strangers, t \in Tokens : u # t
      /\ Tokens \subseteq Keys /\ Strangers \subseteq Keys
  BY TypedParts, ChatAssumption DEF Typed
<1>1. Typed' /\ job' \in [Slots -> Jobs]
  BY TapTyped, TypedParts DEF TapStep, Typed, TypeOK, Jobs, Stages
<1>2. UNCHANGED albumVars /\ UNCHANGED guardVars /\ backend' = backend
  BY DEF TapStep, Tap, ExtendReads, ExtendWrites, Acts, Deleted, NotDeleted, NeverHeard, Revokes, Fixed
<1>3. \A r \in Slots : r # s => job'[r] = job[r]
  BY <1>0 DEF TapStep, Tap, ExtendReads, ExtendWrites, Acts, Deleted, NotDeleted, NeverHeard, Revokes,
              Enters, Goes, Leaves
<1>4. job[s].at \in InTap /\ job'[s].at \in InTap
  <2>1. ASSUME NEW t \in Tokens, NEW verb \in Verbs, Tap(s, t, verb)
        PROVE  job[s].at \in InTap /\ job'[s].at \in InTap
    <3> DEFINE x == [at |-> IF Suspends THEN "resolved" ELSE "acting", for |-> t, verb |-> verb]
    <3>1. x \in Jobs /\ x.at \in InTap /\ Enters(s, x)
      BY <2>1 DEF Jobs, Stages, InTap, Tap
    <3> HIDE DEF x
    <3>2. job'[s] = x /\ job[s].at = "free"
      BY <1>0, <3>1, Entering
    <3> QED BY <3>1, <3>2 DEF InTap
  <2>2. CASE ExtendReads(s) \/ ExtendWrites(s) \/ Deleted(s)
    BY <1>0, <2>2, Going, Leaving, FreeTyped
       DEF ExtendReads, ExtendWrites, Deleted, InTap, Stages
  <2>3. CASE Acts(s) \/ NotDeleted(s) \/ NeverHeard(s) \/ Revokes(s)
    BY <1>0, <2>3, Leaving, FreeTyped DEF Acts, NotDeleted, NeverHeard, Revokes, InTap
  <2> QED BY <2>1, <2>2, <2>3 DEF TapStep
<1>5. \A u \in Strangers : expires'[u] = expires[u]
  <2>1. CASE \E k \in Tokens : expires' \in {expires, With(k), Without(k)}
    BY <1>0, <2>1, ExpiryTyped
  <2>2. \E k \in Tokens : expires' \in {expires, With(k), Without(k)}
    <3>1. CASE \E t \in Tokens, verb \in Verbs : Tap(s, t, verb)
      BY <3>1 DEF Tap
    <3>2. job[s].for \in Tokens \/ \E t \in Tokens, verb \in Verbs : Tap(s, t, verb)
      BY <1>0 DEF TapStep, ExtendReads, ExtendWrites, Acts, Deleted, NotDeleted, NeverHeard, Revokes, Fits
    <3> QED BY <3>1, <3>2
            DEF TapStep, ExtendReads, ExtendWrites, Acts, Deleted, NotDeleted, NeverHeard, Revokes
  <2> QED BY <2>1, <2>2
<1> QED BY <1>1, <1>2, <1>3, <1>4, <1>5

-----------------------------------------------------------------------------
(* A stranger is told once per lifetime of an entry. *)

\* In memory, a stranger who was told has an entry that dates from then.
Told ==
    backend = "memory" =>
        hasty = {} /\ \A u \in Strangers : refused[u] > 0 => expires[u] = refused[u] + TTL

\* Every step keeps a told stranger's entry as old as the telling.
LEMMA NextTold == Typed /\ Told /\ [Next]_vars => Told'
<1> SUFFICES ASSUME Typed, Told, [Next]_vars PROVE Told'
  OBVIOUS
<1>0. /\ SessionTypeOK /\ job \in [Slots -> Jobs] /\ \A r \in Slots : Fits(r)
      /\ refused \in [Strangers -> 0..MaxTime] /\ Strangers \subseteq Keys
      /\ expires \in [Keys -> 0..MaxTime + TTL] /\ now \in Nat /\ MaxTime \in Nat /\ TTL \in Nat
  BY TypedParts, ChatAssumption, SessionAssumption DEF Typed, SessionTypeOK
<1>1. CASE Asking \/ TimePasses \/ UNCHANGED vars
  BY <1>1 DEF Asking, Message, DraftAsks, TimePasses, SessionTick, guardVars, sessionVars, vars, Told
<1>2. CASE Restart
  BY <1>0, <1>2 DEF Restart, SessionRestart, Told
<1>3. ASSUME NEW s \in Slots, TapStep(s) PROVE Told'
  BY <1>3, TapEffects DEF Told, guardVars
<1>4. ASSUME NEW s \in Slots, PhotoStep(s) PROVE Told'
  BY <1>4 DEF PhotoStep, PhotoComes, Collect, WindowCloses, NoPhoto, guardVars, sessionVars, Told
<1>5. ASSUME NEW s \in Slots, GuardStep(s) PROVE Told'
  <2> SUFFICES ASSUME backend' = "memory" PROVE Told'
    BY DEF Told
  <2>1. backend = "memory"
    BY <1>5 DEF GuardStep, StrangerComes, RefuseGoesOn
  <2>2. PICK u \in Strangers : StrangerComes(s, u)
    BY <1>0, <1>5, <2>1 DEF GuardStep, RefuseGoesOn, Fits
  <2>3. Refuse(u) /\ ~Alive(u) /\ now' = now
    BY <2>1, <2>2 DEF StrangerComes, Suspends
  <2>4. hasty' = {}
    BY <1>0, <2>1, <2>3 DEF Told, Refuse, Alive
  <2>5. ASSUME NEW v \in Strangers, refused'[v] > 0 PROVE expires'[v] = refused'[v] + TTL
    BY <1>0, <2>1, <2>3, <2>5, ExpiryTyped DEF Told, Refuse
  <2> QED BY <2>4, <2>5 DEF Told
<1> QED BY <1>1, <1>2, <1>3, <1>4, <1>5, NextSteps

\* In memory, a stranger who keeps writing is told once per lifetime, whatever
\* taps, photos, restarts and other strangers come between (guard.py:17-18).
THEOREM StrangersAreToldOnce == Spec => []RefusedOncePerTTL
<1>1. Init => Told
  BY DEF Init, Told
<1>2. Told => RefusedOncePerTTL
  BY DEF Told, RefusedOncePerTTL
<1> QED BY <1>1, <1>2, InitTyped, NextTyped, NextTold, PTL DEF Spec

-----------------------------------------------------------------------------
(* A token through which a note was deleted stays dead. *)

Revoking(t) == \E s \in Slots : job[s].at = "revoking" /\ job[s].for = t
Extending(t) == \E s \in Slots : job[s].at = "extending" /\ job[s].for = t

\* The revocation is on its way, or it is done and no extension is left that
\* would undo it.
Settled(t) == Revoking(t) \/ (~Alive(t) /\ ~Extending(t))

Dead ==
    /\ \A t \in spent \ (unheard \cup excused) : Settled(t)
    /\ excused # {} => backend = "redis"

\* Every step keeps the tokens of deleted notes settled.
LEMMA NextDead == Typed /\ Dead /\ [Next]_vars => Dead'
<1> SUFFICES ASSUME Typed, Dead, [Next]_vars PROVE Dead'
  OBVIOUS
<1>0. /\ SessionTypeOK /\ job \in [Slots -> Jobs] /\ \A r \in Slots : Fits(r)
      /\ spent \subseteq Tokens /\ unheard \subseteq spent /\ excused \subseteq spent
      /\ Tokens \subseteq Keys /\ \A u \in Strangers, t \in Tokens : u # t
      /\ expires \in [Keys -> 0..MaxTime + TTL] /\ now \in Nat /\ MaxTime \in Nat /\ TTL \in Nat
  BY TypedParts, ChatAssumption, SessionAssumption DEF Typed, SessionTypeOK
\* Steps that leave the handlers of tokens alone, and let no dead token live.
<1>1. ASSUME UNCHANGED <<spent, unheard, excused, backend>>,
             \A r \in Slots : \/ job'[r] = job[r]
                              \/ /\ job[r].at # "revoking"
                                 /\ job'[r].at = "extending" => Alive(job'[r].for),
             \A t \in Tokens : Alive(t)' => Alive(t) \/ Extending(t)
      PROVE  Dead'
  <2>1. ASSUME NEW t \in Tokens, Settled(t) PROVE Settled(t)'
    <3>1. CASE Revoking(t)
      BY <1>1, <3>1 DEF Revoking, Settled
    <3>2. CASE ~Alive(t) /\ ~Extending(t)
      BY <1>1, <2>1, <3>2 DEF Extending, Settled
    <3> QED BY <2>1, <3>1, <3>2 DEF Settled
  <2> QED BY <1>0, <1>1, <2>1 DEF Dead
<1>2. CASE Asking \/ UNCHANGED vars
  BY <1>1, <1>2 DEF Asking, Message, DraftAsks, tokenVars, sessionVars, vars, Alive
<1>3. CASE TimePasses
  <2>1. \A t \in Tokens : Alive(t)' => Alive(t)
    BY <1>0, <1>3 DEF TimePasses, SessionTick, Alive
  <2> QED BY <1>1, <1>3, <2>1 DEF TimePasses, SessionTick, tokenVars
<1>4. CASE Restart
  <2>1. ASSUME NEW t \in spent' \ (unheard' \cup excused') PROVE ~Alive(t)' /\ ~Extending(t)'
    <3>1. t \in spent /\ t \in Tokens /\ t \in Keys
      BY <1>0, <1>4, <2>1 DEF Restart
    <3>2. ~Alive(t)'
      <4>1. CASE backend = "memory"
        BY <1>0, <1>4, <3>1, <4>1 DEF Restart, SessionRestart, Alive
      <4>2. CASE backend # "memory"
        <5>1. ~Revoking(t) /\ t \in spent \ (unheard \cup excused)
          BY <1>4, <2>1, <3>1, <4>2 DEF Restart, Revoking
        <5>2. ~Alive(t)
          BY <5>1 DEF Dead, Settled
        <5> QED BY <1>4, <4>2, <5>2 DEF Restart, SessionRestart, Alive
      <4> QED BY <4>1, <4>2
    <3>3. ~Extending(t)'
      BY <1>4, FreeTyped DEF Restart, Extending
    <3> QED BY <3>2, <3>3
  <2>2. excused' # {} => backend' = "redis"
    BY <1>0, <1>4 DEF Restart, SessionRestart, SessionTypeOK
  <2> QED BY <2>1, <2>2 DEF Dead, Settled
<1>5. ASSUME NEW s \in Slots, PhotoStep(s) PROVE Dead'
  <2>1. UNCHANGED <<spent, unheard, excused, backend, expires, now>>
    BY <1>5 DEF PhotoStep, PhotoComes, Collect, WindowCloses, NoPhoto, tokenVars, sessionVars
  <2>2. \A r \in Slots : r # s => job'[r] = job[r]
    BY <1>0, <1>5 DEF PhotoStep, PhotoComes, Collect, WindowCloses, Enters, Goes, Leaves
  <2>3. job[s].at # "revoking" /\ job'[s].at # "extending"
    <3>1. CASE Collect(s) \/ WindowCloses(s)
      BY <1>0, <3>1, Going, Leaving, FreeTyped DEF Collect, WindowCloses, Stages
    <3>2. ASSUME NEW y \in Photos, PhotoComes(s, y)
          PROVE  job[s].at # "revoking" /\ job'[s].at # "extending"
      <4> DEFINE x == [Free EXCEPT !.at = "downloading", !.for = y]
      <4>1. x \in Jobs /\ x.at = "downloading"
        BY DEF Jobs, Stages, Free, Verbs
      <4>2. Enters(s, x)
        BY <3>2 DEF PhotoComes
      <4> HIDE DEF x
      <4> QED BY <1>0, <4>1, <4>2, Entering
    <3> QED BY <1>5, <3>1, <3>2 DEF PhotoStep
  <2>4. \A t \in Tokens : Alive(t)' => Alive(t)
    BY <2>1 DEF Alive
  <2> QED BY <1>1, <2>1, <2>2, <2>3, <2>4
<1>6. ASSUME NEW s \in Slots, GuardStep(s) PROVE Dead'
  <2>1. UNCHANGED <<spent, unheard, excused, backend, now>>
    BY <1>6 DEF GuardStep, StrangerComes, RefuseGoesOn, tokenVars
  <2>2. \A t \in Tokens : Alive(t)' => Alive(t)
    <3>1. PICK u \in Strangers : expires' \in {expires, With(u)}
      BY <1>0, <1>6 DEF GuardStep, StrangerComes, RefuseGoesOn, Refuse, Fits
    <3>2. u \in Keys
      BY ChatAssumption
    <3> QED BY <1>0, <2>1, <3>1, <3>2, ExpiryTyped DEF Alive
  <2>3. \A r \in Slots : job'[r] = job[r] \/ (job[r].at # "revoking" /\ job'[r].at # "extending")
    <3>1. CASE RefuseGoesOn(s)
      BY <1>0, <3>1, Leaving, FreeTyped DEF RefuseGoesOn
    <3>2. ASSUME NEW u \in Strangers, StrangerComes(s, u)
          PROVE  \A r \in Slots : job'[r] = job[r] \/ (job[r].at # "revoking" /\ job'[r].at # "extending")
      <4> DEFINE x == [Free EXCEPT !.at = "refusing", !.for = u]
      <4>1. x \in Jobs /\ x.at = "refusing"
        BY DEF Jobs, Stages, Free, Verbs
      <4>2. Enters(s, x) \/ job' = job
        BY <3>2 DEF StrangerComes
      <4> HIDE DEF x
      <4> QED BY <1>0, <4>1, <4>2, Entering
    <3> QED BY <1>6, <3>1, <3>2 DEF GuardStep
  <2> QED BY <1>1, <2>1, <2>2, <2>3
\* A tap starts to extend only a token that is alive.
<1>7. ASSUME NEW s \in Slots, TapStep(s) PROVE Dead'
  <2>0. /\ job' \in [Slots -> Jobs] /\ backend' = backend
        /\ \A r \in Slots : r # s => job'[r] = job[r]
    BY <1>7, TapEffects
  <2>1. ASSUME NEW t \in Tokens, NEW verb \in Verbs, Tap(s, t, verb) PROVE Dead'
    <3> DEFINE x == [at |-> IF Suspends THEN "resolved" ELSE "acting", for |-> t, verb |-> verb]
    <3>1. x \in Jobs /\ x.at \in {"resolved", "acting"} /\ Enters(s, x)
      BY <2>1 DEF Jobs, Stages, Tap
    <3> HIDE DEF x
    <3>2. \A r \in Slots :
             job'[r] = job[r] \/ (job[r].at # "revoking" /\ job'[r].at # "extending")
      BY <1>0, <3>1, Entering
    <3>3. Alive(t) /\ now' = now /\ expires' \in {expires, With(t)} /\ t \in Keys
      BY <1>0, <2>1 DEF Tap, Fixed
    <3>4. \A k \in Tokens : Alive(k)' => Alive(k)
      BY <1>0, <3>3, ExpiryTyped DEF Alive
    <3> QED BY <1>1, <2>0, <2>1, <3>2, <3>4 DEF Tap, tokenVars
  <2>2. CASE ExtendReads(s)
    <3>1. UNCHANGED <<spent, unheard, excused, now, expires>>
      BY <2>2 DEF ExtendReads, tokenVars, Fixed
    <3>2. job[s].at = "resolved" /\ (job'[s].at = "extending" => Alive(job'[s].for))
      BY <1>0, <2>2, Going DEF ExtendReads, Stages
    <3> QED BY <1>1, <2>0, <3>1, <3>2 DEF Alive
  <2>3. CASE ExtendWrites(s)
    <3>1. UNCHANGED <<spent, unheard, excused, now>> /\ expires' = With(job[s].for) /\ job[s].for \in Keys
      BY <1>0, <2>3 DEF ExtendWrites, tokenVars, Fixed, Fits
    <3>2. job[s].at = "extending" /\ job'[s].at = "acting"
      BY <1>0, <2>3, Going DEF ExtendWrites, Stages
    <3>3. \A t \in Tokens : Alive(t)' => Alive(t) \/ Extending(t)
      BY <1>0, <3>1, <3>2, ExpiryTyped DEF Alive, Extending
    <3> QED BY <1>1, <2>0, <3>1, <3>2, <3>3
  <2>4. CASE Acts(s) \/ NotDeleted(s)
    <3>1. UNCHANGED <<spent, unheard, excused, now, expires>>
      BY <2>4 DEF Acts, NotDeleted, tokenVars, Fixed
    <3>2. job[s].at = "acting" /\ job'[s].at = "free"
      BY <1>0, <2>4, Leaving, FreeTyped DEF Acts, NotDeleted
    <3> QED BY <1>1, <2>0, <3>1, <3>2 DEF Alive
  <2>5. CASE Deleted(s)
    <3> DEFINE d == job[s].for
    <3>1. /\ d \in Tokens /\ job[s].at = "acting" /\ spent' = spent \cup {d}
          /\ job'[s].at = "revoking" /\ job'[s].for = d
          /\ UNCHANGED <<unheard, excused, now, expires>>
      BY <1>0, <2>5, Going DEF Deleted, Fixed, Fits, Stages
    <3> HIDE DEF d
    <3>2. ASSUME NEW t \in Tokens, Settled(t) \/ t = d PROVE Settled(t)'
      <4>1. t = d => Revoking(t)'
        BY <3>1 DEF Revoking
      <4>2. Revoking(t) => Revoking(t)'
        BY <2>0, <3>1 DEF Revoking
      <4>3. (~Alive(t) /\ ~Extending(t)) => (~Alive(t) /\ ~Extending(t))'
        BY <2>0, <3>1 DEF Alive, Extending
      <4> QED BY <3>2, <4>1, <4>2, <4>3 DEF Settled
    <3> QED BY <1>0, <2>0, <3>1, <3>2 DEF Dead
  <2>6. CASE Revokes(s)
    <3> DEFINE d == job[s].for
    <3>1. /\ d \in Keys /\ d \in spent /\ job[s].at = "revoking"
          /\ UNCHANGED <<spent, unheard, now>> /\ expires' = Without(d) /\ job'[s].at = "free"
          /\ excused' = IF Extending(d) THEN excused \cup {d} ELSE excused
      BY <1>0, <2>6, Leaving, FreeTyped DEF Revokes, Fixed, Fits, SessionTypeOK, Extending
    <3>2. ASSUME NEW t \in spent' \ (unheard' \cup excused') PROVE Settled(t)'
      <4>1. t \in Tokens /\ t \in spent \ (unheard \cup excused) /\ Settled(t) /\ (t = d => ~Extending(t))
        BY <1>0, <3>1, <3>2 DEF Dead
      <4>2. CASE t = d
        BY <1>0, <2>0, <3>1, <4>1, <4>2, ExpiryTyped DEF Settled, Alive, Extending
      <4>3. CASE t # d
        <5>1. Revoking(t) => Revoking(t)'
          BY <2>0, <3>1, <4>3 DEF Revoking
        <5>2. (~Alive(t) /\ ~Extending(t)) => (~Alive(t) /\ ~Extending(t))'
          BY <1>0, <2>0, <3>1, <4>1, <4>3, ExpiryTyped DEF Alive, Extending
        <5> QED BY <4>1, <5>1, <5>2 DEF Settled
      <4> QED BY <4>2, <4>3
    <3>3. Extending(d) => backend = "redis"
      BY <1>0 DEF Extending, Fits, SessionTypeOK
    <3> HIDE DEF d
    <3> QED BY <2>0, <3>1, <3>2, <3>3 DEF Dead
  <2>7. CASE NeverHeard(s)
    <3> DEFINE d == job[s].for
    <3>1. /\ job[s].at = "revoking" /\ job'[s].at = "free" /\ unheard' = unheard \cup {d}
          /\ UNCHANGED <<spent, excused, now, expires>>
      BY <1>0, <2>7, Leaving, FreeTyped DEF NeverHeard, Fixed
    <3> HIDE DEF d
    <3>2. ASSUME NEW t \in spent' \ (unheard' \cup excused') PROVE Settled(t)'
      <4>1. t \in Tokens /\ t # d /\ Settled(t)
        BY <1>0, <3>1, <3>2 DEF Dead
      <4>2. Revoking(t) => Revoking(t)'
        BY <2>0, <3>1, <4>1 DEF Revoking, d
      <4>3. (~Alive(t) /\ ~Extending(t)) => (~Alive(t) /\ ~Extending(t))'
        BY <2>0, <3>1 DEF Alive, Extending
      <4> QED BY <4>1, <4>2, <4>3 DEF Settled
    <3> QED BY <2>0, <3>1, <3>2 DEF Dead
  <2> QED BY <1>7, <2>1, <2>2, <2>3, <2>4, <2>5, <2>6, <2>7 DEF TapStep
<1> QED BY <1>2, <1>3, <1>4, <1>5, <1>6, <1>7, NextSteps

\* Once a note was deleted through a token, a tap finds the token alive only while the
\* revocation is on its way, if no answer ever came (and, in memory, until the next
\* restart), or in the two cases only Redis has (browse.py:518, tokens.py:108).
THEOREM DeletedNotesKeepNoToken == Spec => []SpentTokensAreDead
<1>1. Init => Dead
  BY DEF Init, Dead
<1>2. Typed /\ Dead => SpentTokensAreDead
  BY DEF Typed, Dead, Settled, Revoking, SpentTokensAreDead
<1> QED BY <1>1, <1>2, InitTyped, NextTyped, NextDead, PTL DEF Spec

-----------------------------------------------------------------------------
(* Every photo is in one place. *)

Disjoint(A, B) == A \cap B = {}

Handed == UNION batches

Apart ==
    /\ Disjoint(group, Handed) /\ Disjoint(group, dropped) /\ Disjoint(group, lost)
    /\ Disjoint(dropped, Handed) /\ Disjoint(dropped, lost)
    /\ Disjoint(lost, Handed)

\* Where the photos are; one handler waits while the group is open, and those
\* still downloading are in none of the places.
Placed ==
    /\ got = group \cup Handed \cup dropped \cup lost
    /\ Apart
    /\ \A b, c \in batches : b # c => Disjoint(b, c)
    /\ {} \notin batches
    /\ open <=> group # {}

Attended ==
    /\ \A s \in Slots : job[s].at = "waiting" => open
    /\ \A r, s \in Slots : job[r].at = "waiting" /\ job[s].at = "waiting" => r = s
    /\ \A s \in Slots : job[s].at = "downloading" => job[s].for \notin got
    /\ \A r, s \in Slots :
          /\ job[r].at = "downloading" /\ job[s].at = "downloading"
          /\ job[r].for = job[s].for
          => r = s

\* Every step keeps the photos in separate places, under one waiting handler.
LEMMA NextPlaced == Typed /\ Placed /\ Attended /\ [Next]_vars => Placed' /\ Attended'
<1> SUFFICES ASSUME Typed, Placed, Attended, [Next]_vars PROVE Placed' /\ Attended'
  OBVIOUS
<1>0. job \in [Slots -> Jobs] /\ AlbumTypeOK /\ \A r \in Slots : Fits(r)
  BY TypedParts DEF Typed
\* Steps that leave the photos alone.
<1>1. ASSUME UNCHANGED albumVars,
             \A r \in Slots : \/ job'[r] = job[r]
                              \/ job'[r].at \notin {"waiting", "downloading"}
      PROVE  Placed' /\ Attended'
  <2>1. UNCHANGED <<open, group, batches, got, dropped, lost, Handed>>
    BY <1>1 DEF albumVars, Handed
  <2>2. Placed'
    BY <2>1 DEF Placed, Apart
  <2>3. Attended'
    BY <1>1, <2>1 DEF Attended
  <2> QED BY <2>2, <2>3
<1>2. CASE Asking \/ TimePasses \/ UNCHANGED vars
  BY <1>1, <1>2 DEF Asking, Message, DraftAsks, TimePasses, vars, albumVars
<1>3. CASE Restart
  <2>1. \A r \in Slots : job'[r].at = "free"
    BY <1>3, FreeTyped DEF Restart
  <2>2. Attended'
    BY <2>1 DEF Attended
  <2>3. /\ open' = FALSE /\ group' = {} /\ lost' = lost \cup group
        /\ UNCHANGED <<batches, got, dropped, Handed>>
    BY <1>3 DEF Restart, AlbumRestart, Handed
  <2>4. Apart'
    BY <2>3 DEF Placed, Apart, Disjoint
  <2>5. got' = group' \cup Handed' \cup dropped' \cup lost'
    <3>1. got = group \cup Handed \cup dropped \cup lost
      BY DEF Placed
    <3> QED BY <2>3, <3>1
  <2>6. Placed'
    BY <2>3, <2>4, <2>5 DEF Placed
  <2> QED BY <2>2, <2>6
<1>4. ASSUME NEW s \in Slots, TapStep(s) PROVE Placed' /\ Attended'
  BY <1>1, <1>4, TapEffects DEF InTap
<1>5. ASSUME NEW s \in Slots, GuardStep(s) PROVE Placed' /\ Attended'
  <2>1. UNCHANGED albumVars
    BY <1>5 DEF GuardStep, StrangerComes, RefuseGoesOn
  <2>2. \A r \in Slots : job'[r] = job[r] \/ job'[r].at \notin {"waiting", "downloading"}
    <3>1. CASE RefuseGoesOn(s)
      BY <1>0, <3>1, Leaving, FreeTyped DEF RefuseGoesOn
    <3>2. ASSUME NEW u \in Strangers, StrangerComes(s, u)
          PROVE  \A r \in Slots : \/ job'[r] = job[r]
                                  \/ job'[r].at \notin {"waiting", "downloading"}
      <4> DEFINE x == [Free EXCEPT !.at = "refusing", !.for = u]
      <4>1. x \in Jobs /\ x.at = "refusing"
        BY DEF Jobs, Stages, Free, Verbs
      <4>2. Enters(s, x) \/ job' = job
        BY <3>2 DEF StrangerComes
      <4> HIDE DEF x
      <4> QED BY <1>0, <4>1, <4>2, Entering
    <3> QED BY <1>5, <3>1, <3>2 DEF GuardStep
  <2> QED BY <1>1, <2>1, <2>2
<1>6. ASSUME NEW s \in Slots, NEW y \in Photos, PhotoComes(s, y) PROVE Placed' /\ Attended'
  <2> DEFINE x == [Free EXCEPT !.at = "downloading", !.for = y]
  <2>1. x \in Jobs /\ x.at = "downloading" /\ x.for = y
    BY DEF Jobs, Stages, Free, Verbs
  <2>2. Enters(s, x)
    BY <1>6 DEF PhotoComes
  <2> HIDE DEF x
  <2>3. \A r \in Slots : job'[r] = IF r = s THEN x ELSE job[r]
    BY <1>0, <2>1, <2>2, Entering
  <2>4. y \notin got /\ (\A r \in Slots : job[r].for # y) /\ UNCHANGED albumVars
    BY <1>6 DEF PhotoComes
  <2>5. UNCHANGED <<open, group, batches, got, dropped, lost, Handed>>
    BY <2>4 DEF albumVars, Handed
  <2>6. Placed'
    BY <2>5 DEF Placed, Apart
  <2>7. Attended'
    BY <2>1, <2>3, <2>4, <2>5 DEF Attended
  <2> QED BY <2>6, <2>7
<1>7. ASSUME NEW s \in Slots, Collect(s) PROVE Placed' /\ Attended'
  <2> DEFINE x == job[s].for
  <2>1. /\ x \in Photos /\ x \notin got /\ job[s].at = "downloading"
        /\ \A r \in Slots : r # s /\ job[r].at = "downloading" => job[r].for # x
    BY <1>0, <1>7 DEF Collect, Fits, Attended
  <2>2. CASE open
    <3>1. \A r \in Slots : job'[r] = IF r = s THEN Free ELSE job[r]
      BY <1>0, <1>7, <2>2, Leaving DEF Collect
    <3>2. Joins(x)
      BY <1>7, <2>2 DEF Collect
    <3> HIDE DEF x
    <3>3. Attended'
      BY <2>1, <3>1, <3>2, FreeTyped DEF Joins, Attended
    <3>4. /\ got' = got \cup {x} /\ UNCHANGED <<open, batches, lost, Handed>>
          /\ \/ group' = group \cup {x} /\ dropped' = dropped
             \/ dropped' = dropped \cup {x} /\ group' = group
      BY <3>2 DEF Joins, Handed
    <3>5. got = group \cup Handed \cup dropped \cup lost
      BY DEF Placed
    <3>6. Apart'
      BY <2>1, <3>4, <3>5 DEF Placed, Apart, Disjoint
    <3>7. got' = group' \cup Handed' \cup dropped' \cup lost'
      BY <3>4, <3>5
    <3>8. Placed'
      BY <2>2, <3>4, <3>6, <3>7 DEF Placed
    <3> QED BY <3>3, <3>8
  <2>3. CASE ~open
    <3>1. /\ \A r \in Slots : r # s => job'[r] = job[r]
          /\ job'[s].at = "waiting"
      BY <1>0, <1>7, <2>3, Going DEF Collect, Stages
    <3>2. Opens(x) /\ group = {}
      BY <1>7, <2>3 DEF Collect, Placed
    <3> HIDE DEF x
    <3>3. Attended'
      BY <2>1, <2>3, <3>1, <3>2 DEF Opens, Attended
    <3>4. got' = got \cup {x} /\ open' = TRUE /\ group' = {x} /\ UNCHANGED <<batches, dropped, lost, Handed>>
      BY <3>2 DEF Opens, Handed
    <3>5. got = group \cup Handed \cup dropped \cup lost
      BY DEF Placed
    <3>6. Apart'
      BY <2>1, <3>4, <3>5 DEF Placed, Apart, Disjoint
    <3>7. got' = group' \cup Handed' \cup dropped' \cup lost'
      BY <3>2, <3>4, <3>5
    <3>8. Placed'
      BY <3>4, <3>6, <3>7 DEF Placed
    <3> QED BY <3>3, <3>8
  <2> QED BY <2>2, <2>3
<1>8. ASSUME NEW s \in Slots, WindowCloses(s) PROVE Placed' /\ Attended'
  <2>1. /\ job[s].at = "waiting" /\ open /\ group # {} /\ Closes
        /\ \A r \in Slots : job'[r] = IF r = s THEN Free ELSE job[r]
    BY <1>0, <1>8, Leaving DEF WindowCloses, Attended, Placed
  <2>2. Attended'
    BY <2>1, FreeTyped DEF Closes, Attended
  <2>3. Handed' = group \cup Handed
    BY <2>1 DEF Closes, Handed
  <2>4. \A b, c \in batches' : b # c => Disjoint(b, c)
    <3>1. \A b \in batches : Disjoint(group, b) /\ Disjoint(b, group)
      BY DEF Placed, Apart, Disjoint, Handed
    <3> QED BY <2>1, <3>1 DEF Closes, Placed
  <2>5. open' = FALSE /\ group' = {} /\ UNCHANGED <<got, dropped, lost>> /\ {} \notin batches'
    BY <2>1 DEF Closes, Placed
  <2>6. Apart'
    BY <2>3, <2>5 DEF Placed, Apart, Disjoint
  <2>7. got' = group' \cup Handed' \cup dropped' \cup lost'
    <3>1. got = group \cup Handed \cup dropped \cup lost
      BY DEF Placed
    <3> QED BY <2>3, <2>5, <3>1
  <2>8. Placed'
    BY <2>4, <2>5, <2>6, <2>7 DEF Placed
  <2> QED BY <2>2, <2>8
<1> QED BY <1>2, <1>3, <1>4, <1>5, <1>6, <1>7, <1>8, NextSteps DEF PhotoStep

\* Two sets that share nothing have as many members as both together.
LEMMA TwoParts ==
    ASSUME NEW A, NEW B, IsFiniteSet(A), IsFiniteSet(B), Disjoint(A, B)
    PROVE  /\ IsFiniteSet(A \cup B)
           /\ Cardinality(A \cup B) = Cardinality(A) + Cardinality(B)
<1>1. A \cap B = {} /\ Cardinality({}) = 0
  BY FS_EmptySet DEF Disjoint
<1>2. Cardinality(A) \in Nat /\ Cardinality(B) \in Nat
  BY FS_CardinalityType
<1>3. /\ IsFiniteSet(A \cup B)
      /\ Cardinality(A \cup B) = Cardinality(A) + Cardinality(B) - Cardinality(A \cap B)
  BY FS_Union
<1>4. Cardinality(A) + Cardinality(B) - 0 = Cardinality(A) + Cardinality(B)
  BY <1>2
<1> QED BY <1>1, <1>3, <1>4

\* So do four.
LEMMA FourParts ==
    ASSUME NEW A, NEW B, NEW C, NEW D,
           IsFiniteSet(A), IsFiniteSet(B), IsFiniteSet(C), IsFiniteSet(D),
           Disjoint(A, B), Disjoint(A, C), Disjoint(A, D),
           Disjoint(B, C), Disjoint(B, D), Disjoint(C, D)
    PROVE  Cardinality(A \cup B \cup C \cup D)
              = Cardinality(A) + Cardinality(B) + Cardinality(C) + Cardinality(D)
<1>1. Disjoint(A \cup B, C) /\ Disjoint(A \cup B \cup C, D)
  BY DEF Disjoint
<1>2. IsFiniteSet(A \cup B) /\ Cardinality(A \cup B) = Cardinality(A) + Cardinality(B)
  BY TwoParts
<1>3. /\ IsFiniteSet(A \cup B \cup C)
      /\ Cardinality(A \cup B \cup C) = Cardinality(A \cup B) + Cardinality(C)
  BY <1>1, <1>2, TwoParts
<1>4. Cardinality(A \cup B \cup C \cup D) = Cardinality(A \cup B \cup C) + Cardinality(D)
  BY <1>1, <1>3, TwoParts
<1> QED BY <1>2, <1>3, <1>4

\* Every photo collected is in one list, handed over once, unless it is beyond
\* the cap or the bot stopped, and no list is empty (albums.py:18-20, 39-43).
THEOREM PhotosAreInOnePlace == Spec => []EachPhotoOnce
<1>1. Init => Placed /\ Attended
  BY FreeTyped DEF Init, AlbumInit, Placed, Apart, Attended, Disjoint, Handed
<1>2. ASSUME Typed, Placed PROVE EachPhotoOnce
  <2>1. AlbumTypeOK
    BY <1>2, TypedParts DEF Typed
  <2>2. /\ IsFiniteSet(group) /\ IsFiniteSet(dropped) /\ IsFiniteSet(lost)
        /\ IsFiniteSet(Handed)
    <3>1. Handed \subseteq Photos
      BY <2>1 DEF AlbumTypeOK, Handed
    <3> QED BY <2>1, <3>1, AlbumAssumption, FS_Subset DEF AlbumTypeOK
  <2>3. got = group \cup dropped \cup lost \cup Handed
    <3>1. got = group \cup Handed \cup dropped \cup lost
      BY <1>2 DEF Placed
    <3> QED BY <3>1
  <2>4. Cardinality(got) = Cardinality(group) + Cardinality(dropped) + Cardinality(lost)
                             + Cardinality(Handed)
    <3>1. Apart /\ Disjoint(lost, Handed)
      BY <1>2 DEF Placed, Apart
    <3> QED BY <2>2, <2>3, <3>1, FourParts DEF Apart
  <2>5. got = group \cup (UNION batches) \cup dropped \cup lost
    <3>1. got = group \cup Handed \cup dropped \cup lost
      BY <1>2 DEF Placed
    <3>2. Handed = UNION batches
      BY DEF Handed
    <3> QED BY <3>1, <3>2
  <2>6. /\ \A b, c \in batches : b # c => b \cap c = {}
        /\ {} \notin batches /\ (open => group # {})
    BY <1>2 DEF Placed, Disjoint
  <2> QED BY <2>4, <2>5, <2>6 DEF Handed, EachPhotoOnce
<1> QED BY <1>1, <1>2, InitTyped, NextTyped, NextPlaced, PTL DEF Spec
=============================================================================

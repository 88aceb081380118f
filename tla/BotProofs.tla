------------------------------ MODULE BotProofs ------------------------------
(* The bot as a process and as what it shows.  First the MCP transport and the *)
(* process around it, for every number of handlers, readiness requests,        *)
(* subprocesses and troubles: what an orphan, a failed call and an answer say, *)
(* and what is left when run() has returned.  Then browsing, for every vault,  *)
(* listing and screen: what buttons open, links resolve to and prompts count.  *)
EXTENDS BotProcess, Browsing, FiniteSetTheorems, SequenceTheorems, WellFoundedInduction, TLAPS

-----------------------------------------------------------------------------
(* One call.  Each send but the last broke, and what the server applied it was *)
(* sent; a call that stands on a subprocess stands on a real one.              *)

CallInv(k) ==
    /\ k.at = "idle" => k = NoCall
    /\ k.at \in {"launching", "closing", "calling", "replied"} => k.on \in Launches
    /\ k.at \in {"launching", "closing"} =>
          k.sends = k.breaks /\ k.sends <= 1 /\ k.answer = "none" /\ k.applied <= k.sends
    /\ k.at = "calling" =>
          k.sends = k.breaks + 1 /\ k.answer = "none" /\ k.applied <= k.breaks
    /\ k.at = "replied" =>
          /\ k.sends = k.breaks + 1 /\ k.answer \in {"ok", "missing"}
          /\ k.applied <= k.sends
          /\ k.tool # "read" => k.applied > 0
          /\ k.answer = "missing" => k.breaks > 0
    /\ k.at = "done" =>
          /\ k.applied <= k.sends
          /\ k.answer = "ok" /\ k.tool # "read" => k.applied > 0
          /\ k.applied > 1 \/ k.answer = "missing" => k.breaks > 0
          /\ k.answer = "unavailable" => k.breaks = 2 /\ k.sends = 2
          /\ k.answer = "unlaunched" => k.sends = k.breaks /\ k.sends <= 1

(* Who owns which subprocess.  A launch belongs to its launcher alone, what is *)
(* being closed is no session any more, and where two launches overlap, or one *)
(* is under way although there is a session, that was noted.                   *)
OwnInv ==
    /\ \A c \in Callers : call[c].at = "launching" =>
          /\ session # call[c].on
          /\ \A d \in Callers \ {c} : call[d].on # call[c].on
          /\ session # None => session \in strained
    /\ \A c \in Callers : call[c].at = "closing" => session # call[c].on
    /\ \A c, d \in Launching : c # d => call[c].on \in strained

(* A call that has the adapter to itself pays for each break with a trouble,   *)
(* be it that a dead session was waiting for it, and for a failed launch too.  *)
SessionUp == session # None => process[session] = "up" \/ troubles >= 1

PaysForItself(c) == call[c].alone =>
    /\ Busy(c) => \A d \in Callers \ {c} : ~Busy(d)
    /\ call[c].at \in {"launching", "closing"} =>
          session = None /\ troubles >= call[c].breaks
    /\ call[c].at \in {"calling", "replied"} =>
          troubles >= call[c].breaks + (IF process[call[c].on] = "up" THEN 0 ELSE 1)
    /\ call[c].at = "done" /\ call[c].answer = "unavailable" => troubles >= 2
    /\ call[c].at = "done" /\ call[c].answer = "unlaunched" => troubles >= call[c].breaks + 1

AloneInv == SessionUp /\ \A c \in Callers : PaysForItself(c)

McpInv == /\ McpTypeOK
          /\ \A c \in Callers : CallInv(call[c])
          /\ Orphans \subseteq strained
          /\ OwnInv
          /\ AloneInv

(* The life of the process: what is left of the teardown says what is over.    *)
ApplicationLeft == <<"application", "health", "sessions", "llm", "notediscovery">>
HealthLeft == <<"health", "sessions", "llm", "notediscovery">>
StoresLeft == <<"sessions", "llm", "notediscovery">>
NotesLeft  == <<"notediscovery">>

Lefts == {TeardownSteps, ApplicationLeft, HealthLeft, StoresLeft, NotesLeft, <<>>}

TelegramOver == steps \in {HealthLeft, StoresLeft, NotesLeft, <<>>}
HealthOver   == steps \in {StoresLeft, NotesLeft, <<>>}

Quiet(h) == call[h].at = "idle"

LifeTypeOK ==
    /\ phase \in {"settings", "health", "probing", "starting", "ready", "stopping", "ended"}
    /\ telegram \in {"down", "initialized", "started", "polling"}
    /\ running \in BOOLEAN /\ serving \in BOOLEAN /\ stopping \in BOOLEAN /\ raised \in BOOLEAN
    /\ checks \subseteq {"notediscovery", "sessions", "llm", "telegram"}
    /\ steps \in Lefts
    /\ probed \in 0..2

LifeInv ==
    /\ LifeTypeOK
    /\ phase \in {"settings", "health"} => probed = 0 /\ ~serving
    /\ phase \in {"settings", "health", "probing", "starting", "ready"} => steps = TeardownSteps
    /\ phase = "probing" => probed < 2
    /\ phase \in {"starting", "ready", "stopping"} => probed = 2
    /\ phase = "ended" /\ probed = 2 => steps = <<>>
    /\ probed = 2 => call[Probe].at = "idle"
    /\ phase \in {"settings", "health", "probing"} => telegram = "down"
    /\ running => phase \in {"ready", "stopping"} /\ telegram = "polling"
    /\ ~raised /\ telegram = "polling" => running
    /\ "telegram" \in checks /\ steps = TeardownSteps => running
    /\ steps = ApplicationLeft => telegram = "started"
    /\ "telegram" \notin checks =>
          telegram # "polling" /\ \A h \in Handlers : Quiet(h)
    /\ TelegramOver /\ ~raised /\ "telegram" \in checks =>
          telegram = "down" /\ \A h \in Handlers : Quiet(h)
    /\ TelegramOver => ~running
    /\ HealthOver => ~serving /\ \A e \in Evals : ~Busy(e)
    /\ steps = <<>> => raised \/ session = None

-----------------------------------------------------------------------------
(* Typing of the transport. *)

CallRecords ==
    [at : {"idle", "launching", "closing", "calling", "replied", "done"},
     tool : Tools, on : Launches \cup {None}, sends : 0..2, applied : 0..2,
     breaks : 0..2, alone : BOOLEAN,
     answer : {"none", "ok", "missing", "unavailable", "unlaunched", "cancelled"}]

\* None is no launch.
LEMMA NoneIsNone == None \notin Launches
BY DEF None, Launches

\* A caller that has not begun is where its record says.
LEMMA NoCallTyped == NoCall \in CallRecords /\ CallInv(NoCall) /\ NoCall.at = "idle"
BY NoneIsNone DEF NoCall, CallRecords, CallInv, Tools

\* What connect() does to the calls, when c's own record is k and the others'
\* are calls: c's call is sent on the session there is, or c launches.
LEMMA ConnectTyped ==
    ASSUME NEW c \in Callers, NEW k \in CallRecords, NEW calls \in [Callers -> CallRecords],
           NEW ps \in [Launches -> {"gone", "starting", "up"}],
           session \in Launches \cup {None}, strained \subseteq Launches,
           call \in [Callers -> CallRecords],
           \A d \in Launching : call[d].on \in Launches,
           k.sends = k.breaks, k.sends <= 1, k.answer = "none", k.applied <= k.sends,
           \A d \in Callers : CallInv(calls[d]),
           Connect(c, k, calls, ps)
    PROVE  /\ session' \in Launches \cup {None} /\ strained' \subseteq Launches
           /\ process' \in [Launches -> {"gone", "starting", "up"}]
           /\ call' \in [Callers -> CallRecords]
           /\ \A d \in Callers : CallInv(call'[d])
<1>1. CASE Launch(c, k, calls, ps)
  <2>1. PICK n \in Launches :
          /\ process' = [ps EXCEPT ![n] = "starting"]
          /\ call' = [calls EXCEPT ![c] = [k EXCEPT !.at = "launching", !.on = n]]
          /\ strained' = IF Launching = {} THEN strained \ {n}
                         ELSE strained \cup {n} \cup {call[d].on : d \in Launching}
    BY <1>1 DEF Launch
  <2>2. session' = None /\ strained' \subseteq Launches
    <3>1. {call[d].on : d \in Launching} \subseteq Launches
      OBVIOUS
    <3> QED BY <1>1, <2>1, <3>1 DEF Launch
  <2>3. [k EXCEPT !.at = "launching", !.on = n] \in CallRecords
    BY DEF CallRecords
  <2>4. CallInv([k EXCEPT !.at = "launching", !.on = n])
    BY DEF CallInv, CallRecords
  <2> QED BY <2>1, <2>2, <2>3, <2>4
<1>2. CASE Connect(c, k, calls, ps) /\ ~Launch(c, k, calls, ps)
  <2>1. /\ session # None /\ session' = session /\ strained' = strained
        /\ process' = ps /\ call' = [calls EXCEPT ![c] = Sent(k, session)]
    BY <1>2 DEF Connect
  <2>2. Sent(k, session) \in CallRecords
    <3>1. k.sends \in 0..2 /\ k.sends + 1 \in 0..2
      BY DEF CallRecords
    <3> QED BY <2>1, <3>1 DEF CallRecords, Sent
  <2>3. CallInv(Sent(k, session))
    BY <2>1 DEF CallInv, CallRecords, Sent
  <2> QED BY <2>1, <2>2, <2>3
<1> QED BY <1>1, <1>2

\* Every step of the transport keeps the types and the state of each call.
CallsFit == McpTypeOK /\ \A c \in Callers : CallInv(call[c])

\* A call that begins is typed, whatever the adapter looks like.
LEMMA BeginTyped ==
    ASSUME CallsFit, NEW c \in Callers, NEW tool \in Tools, Begin(c, tool)
    PROVE  CallsFit'
<1> DEFINE others == {d \in Callers : Busy(d)}
           calls  == [d \in Callers |-> IF d \in others THEN [call[d] EXCEPT !.alone = FALSE]
                                                        ELSE call[d]]
           k      == [NoCall EXCEPT !.tool = tool, !.alone = others = {}]
<1>1. call \in [Callers -> CallRecords] /\ troubles' = troubles
  BY DEF CallsFit, McpTypeOK, CallRecords, Begin
<1>2. calls \in [Callers -> CallRecords]
  BY <1>1 DEF CallRecords
<1>3. \A d \in Callers : CallInv(calls[d])
  <2> SUFFICES ASSUME NEW d \in Callers PROVE CallInv(calls[d])
    OBVIOUS
  <2>1. CallInv(call[d]) /\ call[d] \in CallRecords
    BY <1>1 DEF CallsFit
  <2>2. CASE d \in others
    BY <2>1, <2>2 DEF CallInv, CallRecords, Busy
  <2> QED BY <2>1, <2>2
<1>4. k \in CallRecords /\ k.sends = 0 /\ k.breaks = 0 /\ k.answer = "none" /\ k.applied = 0
  BY NoCallTyped DEF CallRecords, NoCall
<1>5. Connect(c, k, calls, process)
  BY DEF Begin
<1>6. \A d \in Launching : call[d].on \in Launches
  BY DEF CallsFit, CallInv, Launching
<1> HIDE DEF k, calls
<1>7. /\ session \in Launches \cup {None} /\ strained \subseteq Launches
      /\ process \in [Launches -> {"gone", "starting", "up"}]
      /\ k.sends = k.breaks /\ k.sends <= 1 /\ k.answer = "none" /\ k.applied <= k.sends
  BY <1>4 DEF CallsFit, McpTypeOK
<1>8. /\ session' \in Launches \cup {None} /\ strained' \subseteq Launches
      /\ process' \in [Launches -> {"gone", "starting", "up"}]
      /\ call' \in [Callers -> CallRecords]
      /\ \A d \in Callers : CallInv(call'[d])
  BY <1>1, <1>2, <1>3, <1>4, <1>5, <1>6, <1>7, ConnectTyped
<1> QED BY <1>1, <1>8 DEF CallsFit, McpTypeOK, CallRecords

\* A step that rewrites one record, or connects, keeps them if the record does.
LEMMA OneCallTyped ==
    ASSUME CallsFit, NEW c \in Callers, NEW k \in CallRecords, CallInv(k),
           call' = [call EXCEPT ![c] = k],
           session' \in Launches \cup {None}, strained' \subseteq Launches,
           process' \in [Launches -> {"gone", "starting", "up"}],
           troubles' \in 0..MaxTroubles
    PROVE  CallsFit'
BY DEF CallsFit, McpTypeOK, CallRecords

\* _restart of a call whose first exchange broke
LEMMA RestartTyped ==
    ASSUME CallsFit, NEW c \in Callers, NEW k \in CallRecords, Restart(c, k),
           k.sends = 1, k.breaks = 1, k.answer = "none", k.applied <= 1,
           troubles' \in 0..MaxTroubles
    PROVE  CallsFit'
<1>1. /\ session \in Launches \cup {None} /\ strained \subseteq Launches
      /\ process \in [Launches -> {"gone", "starting", "up"}]
      /\ call \in [Callers -> CallRecords]
      /\ \A d \in Callers : CallInv(call[d])
      /\ \A d \in Launching : call[d].on \in Launches
  BY DEF CallsFit, McpTypeOK, CallRecords, CallInv, Launching
<1>2. CASE session = None
  <2>0. Connect(c, k, call, process)
    BY <1>2 DEF Restart, Connect
  <2>1. k.sends = k.breaks /\ k.sends <= 1 /\ k.applied <= k.sends
    OBVIOUS
  <2>2. /\ session' \in Launches \cup {None} /\ strained' \subseteq Launches
        /\ process' \in [Launches -> {"gone", "starting", "up"}]
        /\ call' \in [Callers -> CallRecords]
        /\ \A d \in Callers : CallInv(call'[d])
    BY <1>1, <1>2, <2>0, <2>1, ConnectTyped
  <2> QED BY <2>2 DEF CallsFit, McpTypeOK, CallRecords
<1>3. CASE session # None
  <2> DEFINE closing == [k EXCEPT !.at = "closing", !.on = session]
  <2>1. /\ session # None /\ session' = None
        /\ call' = [call EXCEPT ![c] = closing]
        /\ process' = process /\ strained' = strained
    BY <1>3 DEF Restart
  <2>2. session \in Launches
    BY <1>1, <2>1
  <2>3. closing \in CallRecords
    BY <2>2 DEF CallRecords
  <2>4. CallInv(closing)
    BY <2>2 DEF CallRecords, CallInv
  <2>5. session' \in Launches \cup {None} /\ strained' \subseteq Launches
        /\ process' \in [Launches -> {"gone", "starting", "up"}]
    BY <1>1, <2>1
  <2> HIDE DEF closing
  <2> QED BY <2>1, <2>3, <2>4, <2>5, OneCallTyped
<1> QED BY <1>2, <1>3

\* Every step of a call keeps the types and what a call says of itself.
LEMMA CallStepTyped ==
    ASSUME CallsFit, NEW c \in Callers, CallStep(c)
    PROVE  CallsFit'
<1>1. /\ session \in Launches \cup {None} /\ strained \subseteq Launches
      /\ process \in [Launches -> {"gone", "starting", "up"}]
      /\ call \in [Callers -> CallRecords] /\ troubles \in 0..MaxTroubles
      /\ call[c] \in CallRecords /\ CallInv(call[c])
      /\ \A d \in Callers : CallInv(call[d])
      /\ \A d \in Launching : call[d].on \in Launches
  BY DEF CallsFit, McpTypeOK, CallRecords, CallInv, Launching
<1>2. troubles < MaxTroubles => troubles + 1 \in 0..MaxTroubles
  BY <1>1, McpAssumption
<1>3. CASE Launched(c)
  <2> DEFINE k == Sent(call[c], call[c].on)
  <2>1. call[c].on \in Launches /\ call[c].sends \in 0..1 /\ call[c].sends + 1 \in 0..2
    BY <1>1, <1>3 DEF Launched, CallInv, CallRecords
  <2>2. k \in CallRecords
    BY <1>1, <2>1 DEF CallRecords, Sent
  <2>3. CallInv(k)
    BY <1>1, <1>3, <2>1 DEF Launched, CallRecords, Sent, CallInv
  <2>4. call' = [call EXCEPT ![c] = k]
    BY <1>3 DEF Launched
  <2>5. /\ session' \in Launches \cup {None} /\ strained' \subseteq Launches
        /\ process' \in [Launches -> {"gone", "starting", "up"}] /\ troubles' \in 0..MaxTroubles
    BY <1>1, <1>3, <2>1 DEF Launched
  <2> HIDE DEF k
  <2> QED BY <2>2, <2>3, <2>4, <2>5, OneCallTyped
<1>4. CASE LaunchFails(c)
  <2> DEFINE k == Ended(call[c], "unlaunched")
  <2>0. call[c] \in CallRecords
    BY <1>1
  <2>1. k \in CallRecords /\ CallInv(k)
    <3>1. k \in CallRecords
      BY <2>0 DEF CallRecords, Ended
    <3>2. CallInv(k)
      BY <1>1, <1>4, <2>0 DEF LaunchFails, CallRecords, Ended, CallInv
    <3> QED BY <3>1, <3>2
  <2>2. call' = [call EXCEPT ![c] = k] /\ troubles' \in 0..MaxTroubles
    BY <1>2, <1>4 DEF LaunchFails
  <2>3. /\ session' \in Launches \cup {None} /\ strained' \subseteq Launches
        /\ process' \in [Launches -> {"gone", "starting", "up"}]
    BY <1>1, <1>4 DEF LaunchFails
  <2> HIDE DEF k
  <2> QED BY <2>1, <2>2, <2>3, OneCallTyped
<1>5. CASE Handled(c)
  <2> DEFINE k == [call[c] EXCEPT !.at = "replied",
                       !.answer = IF call[c].tool = "delete" /\ call[c].applied > 0
                                  THEN "missing" ELSE "ok",
                       !.applied = IF call[c].tool = "read" THEN 0 ELSE call[c].applied + 1]
  <2>1. call[c].applied + 1 \in 0..2 /\ call[c].applied + 1 \in Nat \ {0}
    BY <1>1, <1>5 DEF Handled, CallInv, CallRecords
  <2>2. k \in CallRecords
    <3> DEFINE ans == IF call[c].tool = "delete" /\ call[c].applied > 0
                      THEN "missing" ELSE "ok"
               app == IF call[c].tool = "read" THEN 0 ELSE call[c].applied + 1
    <3>1. call[c] \in CallRecords /\ ans \in {"ok", "missing"} /\ app \in 0..2
      BY <1>1, <2>1
    <3>2. k = [call[c] EXCEPT !.at = "replied", !.answer = ans, !.applied = app]
      OBVIOUS
    <3> HIDE DEF ans, app, k
    <3> QED BY <3>1, <3>2 DEF CallRecords
  <2>3. CallInv(k)
    BY <1>1, <1>5, <2>1 DEF Handled, CallInv, CallRecords
  <2>4. call' = [call EXCEPT ![c] = k]
    BY <1>1, <1>5 DEF Handled
  <2>5. /\ session' \in Launches \cup {None} /\ strained' \subseteq Launches
        /\ process' \in [Launches -> {"gone", "starting", "up"}] /\ troubles' \in 0..MaxTroubles
    BY <1>1, <1>5 DEF Handled
  <2> HIDE DEF k
  <2> QED BY <2>2, <2>3, <2>4, <2>5, OneCallTyped
<1>6. CASE Replied(c)
  <2> DEFINE k == [call[c] EXCEPT !.at = "done"]
  <2>1. k \in CallRecords
    <3>1. call[c] \in CallRecords
      BY <1>1
    <3> QED BY <3>1 DEF CallRecords
  <2>2. CallInv(k)
    BY <1>1, <1>6 DEF Replied, CallInv, CallRecords
  <2>3. call' = [call EXCEPT ![c] = k]
    BY <1>6 DEF Replied
  <2>4. /\ session' \in Launches \cup {None} /\ strained' \subseteq Launches
        /\ process' \in [Launches -> {"gone", "starting", "up"}] /\ troubles' \in 0..MaxTroubles
    BY <1>1, <1>6 DEF Replied
  <2> HIDE DEF k
  <2> QED BY <2>1, <2>2, <2>3, <2>4, OneCallTyped
<1>7. CASE Broken(c)
  <2> DEFINE k == [call[c] EXCEPT !.breaks = @ + 1, !.answer = "none"]
  <2>1. /\ call[c].breaks + 1 = call[c].sends /\ call[c].sends \in 1..2
        /\ call[c].breaks + 1 \in 0..2 /\ call[c].applied <= call[c].sends
    BY <1>1, <1>7 DEF Broken, CallInv, CallRecords
  <2>2. /\ k \in CallRecords /\ k.sends = k.breaks /\ k.answer = "none"
        /\ k.applied <= k.sends /\ k.sends = call[c].sends
    <3>1. call[c] \in CallRecords
      BY <1>1
    <3> QED BY <2>1, <3>1 DEF CallRecords
  <2>3. troubles' \in 0..MaxTroubles
    BY <1>1, <1>2, <1>7 DEF Broken
  <2>4. CASE k.sends = 1 /\ Restart(c, k)
    <3> HIDE DEF k
    <3> QED BY <2>2, <2>3, <2>4, RestartTyped
  <2>5. CASE k.sends = 2
    <3> DEFINE e == Ended(k, "unavailable")
    <3>1. call' = [call EXCEPT ![c] = e] /\ session' = session /\ process' = process
          /\ strained' = strained
      BY <1>7, <2>5 DEF Broken
    <3>2. k.breaks = 2 /\ k.sends = 2 /\ k.applied <= 2
      BY <2>2, <2>5
    <3> HIDE DEF k
    <3>3. e \in CallRecords
      BY <2>2, <3>2 DEF CallRecords, Ended
    <3>4. CallInv(e)
      BY <2>2, <3>2 DEF CallRecords, Ended, CallInv
    <3>5. session' \in Launches \cup {None} /\ strained' \subseteq Launches
          /\ process' \in [Launches -> {"gone", "starting", "up"}]
      BY <1>1, <3>1
    <3> HIDE DEF e
    <3> QED BY <2>3, <3>1, <3>3, <3>4, <3>5, OneCallTyped
  <2> QED BY <1>7, <2>2, <2>4, <2>5 DEF Broken
<1>8. CASE Closed(c)
  <2> DEFINE ps == [process EXCEPT ![call[c].on] = "gone"]
  <2>1. ps \in [Launches -> {"gone", "starting", "up"}]
    BY <1>1
  <2>2. call[c].sends = call[c].breaks /\ call[c].sends <= 1 /\ call[c].answer = "none"
        /\ call[c].applied <= call[c].sends
    BY <1>1, <1>8 DEF Closed, CallInv
  <2>3. Connect(c, call[c], call, ps) /\ troubles' = troubles
    BY <1>8 DEF Closed
  <2> HIDE DEF ps
  <2>4. /\ session' \in Launches \cup {None} /\ strained' \subseteq Launches
        /\ process' \in [Launches -> {"gone", "starting", "up"}]
        /\ call' \in [Callers -> CallRecords]
        /\ \A d \in Callers : CallInv(call'[d])
    BY <1>1, <2>1, <2>2, <2>3, ConnectTyped
  <2> QED BY <1>1, <2>3, <2>4 DEF CallsFit, McpTypeOK, CallRecords
<1> QED BY <1>3, <1>4, <1>5, <1>6, <1>7, <1>8 DEF CallStep

\* McpNoteStore.aclose as the teardown calls it: the transport's part of NotesClose.
AdapterCloses ==
    /\ session' = None
    /\ process' = [n \in Launches |-> IF n = session THEN "gone" ELSE process[n]]
    /\ call' = [c \in Callers |-> IF Busy(c) THEN [call[c] EXCEPT !.alone = FALSE] ELSE call[c]]
    /\ UNCHANGED <<troubles, strained>>

IsTaken(c) == /\ call[c].at = "done" /\ Took(c)
              /\ UNCHANGED <<session, process, troubles, strained>>

\* So does everything else that befalls a call or the adapter.
LEMMA OtherStepsTyped ==
    ASSUME CallsFit
    PROVE  /\ \A c \in Callers : Cancelled(c) => CallsFit'
           /\ \A c \in Callers : IsTaken(c) => CallsFit'
           /\ \A n \in Launches : Crash(n) => CallsFit'
           /\ AdapterCloses => CallsFit'
           /\ UNCHANGED mcpVars => CallsFit'
<1>1. /\ session \in Launches \cup {None} /\ strained \subseteq Launches
      /\ process \in [Launches -> {"gone", "starting", "up"}]
      /\ call \in [Callers -> CallRecords] /\ troubles \in 0..MaxTroubles
      /\ \A d \in Callers : call[d] \in CallRecords /\ CallInv(call[d])
  BY DEF CallsFit, McpTypeOK, CallRecords
<1>2. troubles < MaxTroubles => troubles + 1 \in 0..MaxTroubles
  BY <1>1, McpAssumption
<1>3. ASSUME NEW c \in Callers, Cancelled(c) PROVE CallsFit'
  <2> DEFINE k == Ended(call[c], "cancelled")
  <2>1. call[c] \in CallRecords /\ CallInv(call[c]) /\ Busy(c)
    BY <1>1, <1>3 DEF Cancelled
  <2>2. k \in CallRecords
    BY <2>1 DEF CallRecords, Ended
  <2>3. CallInv(k)
    BY <2>1 DEF CallRecords, Ended, CallInv, Busy
  <2>4. call' = [call EXCEPT ![c] = k] /\ troubles' \in 0..MaxTroubles
    BY <1>1, <1>2, <1>3 DEF Cancelled
  <2>5. call[c].on \in Launches
    BY <2>1 DEF Busy, CallInv
  <2>6. /\ session' \in Launches \cup {None} /\ strained' \subseteq Launches
        /\ process' \in [Launches -> {"gone", "starting", "up"}]
    BY <1>1, <1>3, <2>5 DEF Cancelled
  <2> HIDE DEF k
  <2> QED BY <2>2, <2>3, <2>4, <2>6, OneCallTyped
<1>4. ASSUME NEW c \in Callers, IsTaken(c) PROVE CallsFit'
  <2>1. /\ call' = [call EXCEPT ![c] = NoCall]
        /\ session' \in Launches \cup {None} /\ strained' \subseteq Launches
        /\ process' \in [Launches -> {"gone", "starting", "up"}] /\ troubles' \in 0..MaxTroubles
    BY <1>1, <1>4 DEF IsTaken, Took
  <2> QED BY <2>1, NoCallTyped, OneCallTyped
<1>5. ASSUME NEW n \in Launches, Crash(n) PROVE CallsFit'
  BY <1>1, <1>2, <1>5 DEF Crash, CallsFit, McpTypeOK, CallRecords
<1>6. ASSUME AdapterCloses PROVE CallsFit'
  <2>1. \A c \in Callers : call'[c] \in CallRecords /\ CallInv(call'[c])
    <3> SUFFICES ASSUME NEW c \in Callers PROVE call'[c] \in CallRecords /\ CallInv(call'[c])
      OBVIOUS
    <3> DEFINE k == [call[c] EXCEPT !.alone = FALSE]
    <3>1. call[c] \in CallRecords /\ CallInv(call[c])
      BY <1>1
    <3>2. k \in CallRecords
      BY <3>1 DEF CallRecords
    <3>3. Busy(c) => CallInv(k)
      BY <3>1 DEF CallRecords, CallInv, Busy
    <3>4. call'[c] = IF Busy(c) THEN k ELSE call[c]
      BY <1>6 DEF AdapterCloses
    <3> HIDE DEF k
    <3> QED BY <3>1, <3>2, <3>3, <3>4
  <2>2. call' \in [Callers -> CallRecords]
    BY <1>6, <2>1 DEF AdapterCloses
  <2>3. process' \in [Launches -> {"gone", "starting", "up"}]
    BY <1>1, <1>6 DEF AdapterCloses
  <2> QED BY <1>1, <1>6, <2>1, <2>2, <2>3 DEF AdapterCloses, CallsFit, McpTypeOK, CallRecords
<1>7. ASSUME UNCHANGED mcpVars PROVE CallsFit'
  BY <1>7 DEF CallsFit, McpTypeOK, mcpVars
<1> QED BY <1>3, <1>4, <1>5, <1>6, <1>7

-----------------------------------------------------------------------------
(* Who owns which subprocess. *)

Covered(c, n) == call[c].at \in {"launching", "closing"} /\ call[c].on = n

OwnedInv == OwnInv /\ Orphans \subseteq strained

\* A step that leaves the session and who launches or closes what alone, and
\* brings no subprocess to life, orphans nothing.
LEMMA StillOwned ==
    ASSUME OwnedInv, NEW c \in Callers, session' = session, strained' = strained,
           \A n \in Launches : process'[n] # "gone" => process[n] # "gone",
           process \in [Launches -> {"gone", "starting", "up"}],
           process' \in [Launches -> {"gone", "starting", "up"}],
           \A d \in Callers \ {c} : call'[d].at = call[d].at /\ call'[d].on = call[d].on,
           \/ call'[c].at = call[c].at /\ call'[c].on = call[c].on
           \/ /\ call'[c].at \notin {"launching", "closing"}
              /\ call'[c].on \in {call[c].on, None, session}
              /\ \A n \in Launches : Covered(c, n) => process'[n] = "gone" \/ n \in strained,
           \A d \in Callers : call[d].at = "launching" => call[d].on \in Launches
    PROVE  OwnedInv'
<1>1. OwnInv'
  BY NoneIsNone DEF OwnedInv, OwnInv, Launching
<1>2. Orphans' \subseteq strained'
  <2> SUFFICES ASSUME NEW n \in Orphans' PROVE n \in strained
    OBVIOUS
  <2>1. n \in Launches /\ process[n] \in {"starting", "up"} /\ n # session
    BY DEF Orphans
  <2>2. \A d \in Callers : ~Covered(d, n)' /\ process'[n] # "gone"
    BY DEF Orphans, Covered
  <2>3. CASE \A d \in Callers : ~Covered(d, n)
    BY <2>1, <2>3 DEF OwnedInv, Orphans, Covered
  <2>4. CASE \E d \in Callers : Covered(d, n)
    <3>1. Covered(c, n)
      BY <2>2, <2>4 DEF Covered
    <3> QED BY <2>1, <2>2, <3>1 DEF Covered
  <2> QED BY <2>3, <2>4
<1> QED BY <1>1, <1>2 DEF OwnedInv

\* connect(), by a caller that launches nothing yet; what it was closing is gone.
LEMMA ConnectOwned ==
    ASSUME OwnedInv, CallsFit, NEW c \in Callers, NEW k \in CallRecords,
           NEW calls \in [Callers -> CallRecords],
           NEW ps \in [Launches -> {"gone", "starting", "up"}],
           \A d \in Callers : calls[d].at = call[d].at /\ calls[d].on = call[d].on,
           \A n \in Launches : ps[n] # "gone" => process[n] # "gone",
           call[c].at # "launching",
           call[c].at = "closing" => ps[call[c].on] = "gone",
           Connect(c, k, calls, ps)
    PROVE  OwnedInv'
<1> USE NoneIsNone
<1>1. /\ process \in [Launches -> {"gone", "starting", "up"}]
      /\ session \in Launches \cup {None}
      /\ \A d \in Callers : call[d].at = "launching" => call[d].on \in Launches
  BY DEF CallsFit, McpTypeOK, CallInv
<1>2. CASE session = None
  <2>0. Launch(c, k, calls, ps)
    BY <1>2 DEF Connect
  <2>1. PICK n \in Launches :
          /\ Unused(c, ps, n)
          /\ process' = [ps EXCEPT ![n] = "starting"]
          /\ call' = [calls EXCEPT ![c] = [k EXCEPT !.at = "launching", !.on = n]]
          /\ strained' = IF Launching = {} THEN strained \ {n}
                         ELSE strained \cup {n} \cup {call[d].on : d \in Launching}
    BY <2>0 DEF Launch
  <2>2. session' = None
    BY <2>0 DEF Launch
  <2>3. /\ call'[c].at = "launching" /\ call'[c].on = n
        /\ \A d \in Callers \ {c} : call'[d].at = call[d].at /\ call'[d].on = call[d].on
    BY <2>1 DEF CallRecords
  <2>4. \A d \in Callers \ {c} : call[d].on # n
    BY <2>1 DEF Unused
  <2>5. \A d, e \in Launching' : d # e => call'[d].on \in strained'
    <3> SUFFICES ASSUME NEW d \in Callers, NEW e \in Callers, d # e,
                        call'[d].at = "launching", call'[e].at = "launching"
                 PROVE  call'[d].on \in strained'
      BY DEF Launching
    <3>1. Launching # {}
      BY <2>3 DEF Launching
    <3>2. CASE d = c
      BY <2>1, <2>3, <3>1, <3>2
    <3>3. CASE d # c
      <4>1. d \in Launching /\ call'[d].on = call[d].on
        BY <2>3, <3>3 DEF Launching
      <4> QED BY <2>1, <3>1, <4>1
    <3> QED BY <3>2, <3>3
  <2>6. \A d \in Callers : call'[d].at = "launching" =>
          /\ session' # call'[d].on
          /\ \A e \in Callers \ {d} : call'[e].on # call'[d].on
    BY <1>1, <2>2, <2>3, <2>4 DEF OwnedInv, OwnInv
  <2>7. \A d \in Callers : call'[d].at = "closing" => session' # call'[d].on
    <3>1. \A d \in Callers : call[d].at = "closing" => call[d].on \in Launches
      BY DEF CallsFit, CallInv
    <3> QED BY <2>2, <2>3, <3>1
  <2>8. OwnInv'
    BY <2>2, <2>5, <2>6, <2>7 DEF OwnInv
  <2>9. Orphans' \subseteq strained'
    <3> SUFFICES ASSUME NEW m \in Orphans' PROVE m \in strained'
      OBVIOUS
    <3>1. m \in Launches /\ m # n /\ process'[m] \in {"starting", "up"}
      BY <2>3 DEF Orphans
    <3>2. ps[m] # "gone" /\ process[m] \in {"starting", "up"}
      BY <1>1, <2>1, <3>1
    <3>3. \A d \in Callers \ {c} : ~Covered(d, m)
      BY <2>3 DEF Orphans, Covered
    <3>4. ~Covered(c, m)
      BY <3>2 DEF Covered
    <3>5. session # m
      BY <1>2, <3>1
    <3>6. m \in strained
      BY <3>1, <3>2, <3>3, <3>4, <3>5 DEF OwnedInv, Orphans, Covered
    <3> QED BY <2>1, <3>1, <3>6
  <2> QED BY <2>8, <2>9 DEF OwnedInv
<1>3. CASE session # None
  <2>1. /\ session # None /\ session' = session /\ strained' = strained
        /\ process' = ps /\ call' = [calls EXCEPT ![c] = Sent(k, session)]
    BY <1>3 DEF Connect
  <2>2. \A d \in Callers \ {c} : call'[d].at = call[d].at /\ call'[d].on = call[d].on
    BY <2>1
  <2>3. call'[c].at = "calling" /\ call'[c].on = session
    BY <2>1 DEF Sent, CallRecords
  <2>4. \A n \in Launches : Covered(c, n) => process'[n] = "gone"
    BY <2>1 DEF Covered
  <2> QED BY <1>1, <2>1, <2>2, <2>3, <2>4, StillOwned
<1> QED BY <1>2, <1>3

\* Every step of a call keeps the owners apart, and notes what it orphans.
LEMMA CallStepOwned ==
    ASSUME OwnedInv, CallsFit, CallsFit', NEW c \in Callers, CallStep(c)
    PROVE  OwnedInv'
<1> USE NoneIsNone
<1>1. /\ process \in [Launches -> {"gone", "starting", "up"}]
      /\ process' \in [Launches -> {"gone", "starting", "up"}]
      /\ session \in Launches \cup {None}
      /\ call \in [Callers -> CallRecords] /\ call[c] \in CallRecords
      /\ \A d \in Callers : call[d].at = "launching" => call[d].on \in Launches
      /\ \A d \in Callers : call[d].at = "closing" => call[d].on \in Launches
  BY DEF CallsFit, McpTypeOK, CallInv, CallRecords
<1>2. CASE Launched(c)
  <2> DEFINE n == call[c].on
  <2>1. /\ call[c].at = "launching" /\ n \in Launches
        /\ process' = [process EXCEPT ![n] = "up"]
        /\ session' = n /\ strained' = strained
        /\ call'[c].at = "calling" /\ call'[c].on = n
        /\ \A d \in Callers \ {c} : call'[d] = call[d]
    BY <1>1, <1>2 DEF Launched, Sent, CallRecords
  <2>2. \A d \in Callers \ {c} : call[d].on # n /\ (call[d].at = "launching" => n \in strained)
    BY <2>1 DEF OwnedInv, OwnInv, Launching
  <2>3. session # None => session \in strained
    BY <2>1 DEF OwnedInv, OwnInv
  <2>4. OwnInv'
    BY <2>1, <2>2 DEF OwnedInv, OwnInv, Launching
  <2>5. Orphans' \subseteq strained'
    <3> SUFFICES ASSUME NEW m \in Orphans' PROVE m \in strained
      BY <2>1
    <3>1. m \in Launches /\ m # n /\ process[m] \in {"starting", "up"}
      BY <1>1, <2>1 DEF Orphans
    <3>2. \A d \in Callers : ~Covered(d, m)
      BY <2>1, <3>1 DEF Orphans, Covered
    <3>3. CASE m = session
      BY <2>3, <3>1, <3>3
    <3>4. CASE m # session
      BY <3>1, <3>2, <3>4 DEF OwnedInv, Orphans, Covered
    <3> QED BY <3>3, <3>4
  <2> QED BY <2>4, <2>5 DEF OwnedInv
<1>3. CASE LaunchFails(c)
  <2>1. /\ call[c].at = "launching" /\ session' = session /\ strained' = strained
        /\ process' = [process EXCEPT ![call[c].on] = "gone"]
        /\ call'[c].at = "done" /\ call'[c].on = call[c].on
        /\ \A d \in Callers \ {c} : call'[d] = call[d]
    BY <1>1, <1>3 DEF LaunchFails, Ended, CallRecords
  <2>2. \A n \in Launches : /\ process'[n] # "gone" => process[n] # "gone"
                            /\ Covered(c, n) => process'[n] = "gone"
    BY <1>1, <2>1 DEF Covered
  <2> QED BY <1>1, <2>1, <2>2, StillOwned
<1>4. CASE Handled(c) \/ Replied(c)
  <2>1. /\ call[c].at \in {"calling", "replied"} /\ session' = session /\ strained' = strained
        /\ process' = process
        /\ call'[c].at \in {"replied", "done"} /\ call'[c].on = call[c].on
        /\ \A d \in Callers \ {c} : call'[d] = call[d]
    BY <1>1, <1>4 DEF Handled, Replied, CallRecords
  <2>2. \A n \in Launches : ~Covered(c, n)
    BY <2>1 DEF Covered
  <2> QED BY <1>1, <2>1, <2>2, StillOwned
<1>5. CASE Broken(c)
  <2> DEFINE k == [call[c] EXCEPT !.breaks = @ + 1, !.answer = "none"]
  <2>0. call[c].breaks + 1 \in 0..2
    BY <1>1, <1>5 DEF CallsFit, CallInv, Broken, CallRecords
  <2>1. call[c].at \in {"calling", "replied"} /\ k \in CallRecords /\ k.on = call[c].on
    BY <1>1, <1>5, <2>0 DEF Broken, CallRecords
  <2>2. \A n \in Launches : ~Covered(c, n)
    BY <2>1 DEF Covered
  <2>3. CASE k.sends = 1 /\ Restart(c, k) /\ session # None
    <3>1. /\ session' = None /\ process' = process /\ strained' = strained
          /\ call' = [call EXCEPT ![c] = [k EXCEPT !.at = "closing", !.on = session]]
      BY <2>3 DEF Restart
    <3>2. /\ call'[c].at = "closing" /\ call'[c].on = session
          /\ \A d \in Callers \ {c} : call'[d] = call[d]
      BY <1>1, <2>1, <3>1 DEF CallRecords
    <3>3. OwnInv'
      BY <1>1, <2>3, <3>1, <3>2 DEF OwnedInv, OwnInv, Launching
    <3>4. Orphans' \subseteq strained'
      <4> SUFFICES ASSUME NEW m \in Orphans' PROVE m \in strained
        BY <3>1
      <4>1. m \in Launches /\ m # session /\ process[m] \in {"starting", "up"}
        BY <3>1, <3>2 DEF Orphans
      <4>2. \A d \in Callers : ~Covered(d, m)
        BY <2>2, <3>2, <4>1 DEF Orphans, Covered
      <4> QED BY <4>1, <4>2 DEF OwnedInv, Orphans, Covered
    <3> QED BY <3>3, <3>4 DEF OwnedInv
  <2>4. CASE k.sends = 1 /\ Restart(c, k) /\ session = None
    <3>1. Connect(c, k, call, process)
      BY <2>4 DEF Restart, Connect
    <3>2. call[c].at # "launching" /\ call[c].at # "closing"
      BY <2>1
    <3> HIDE DEF k
    <3> QED BY <1>1, <2>1, <3>1, <3>2, ConnectOwned
  <2>5. CASE k.sends = 2
    <3>1. /\ session' = session /\ process' = process /\ strained' = strained
          /\ call' = [call EXCEPT ![c] = Ended(k, "unavailable")]
      BY <1>5, <2>5 DEF Broken
    <3>2. /\ call'[c].at = "done" /\ call'[c].on = call[c].on
          /\ \A d \in Callers \ {c} : call'[d] = call[d]
      BY <1>1, <2>1, <3>1 DEF Ended, CallRecords
    <3> QED BY <1>1, <2>2, <3>1, <3>2, StillOwned
  <2> QED BY <1>5, <2>3, <2>4, <2>5 DEF Broken
<1>6. CASE Closed(c)
  <2> DEFINE ps == [process EXCEPT ![call[c].on] = "gone"]
  <2>1. /\ call[c].at = "closing" /\ call[c].on \in Launches
        /\ Connect(c, call[c], call, ps)
        /\ ps \in [Launches -> {"gone", "starting", "up"}]
        /\ ps[call[c].on] = "gone"
        /\ \A n \in Launches : ps[n] # "gone" => process[n] # "gone"
    BY <1>1, <1>6 DEF Closed
  <2> HIDE DEF ps
  <2> QED BY <1>1, <2>1, ConnectOwned
<1> QED BY <1>2, <1>3, <1>4, <1>5, <1>6 DEF CallStep

\* So does everything else that befalls a call or the adapter.
LEMMA OtherStepsOwned ==
    ASSUME OwnedInv, CallsFit, CallsFit'
    PROVE  /\ \A c \in Callers, tool \in Tools : Begin(c, tool) => OwnedInv'
           /\ \A c \in Callers : Cancelled(c) => OwnedInv'
           /\ \A c \in Callers : IsTaken(c) => OwnedInv'
           /\ \A n \in Launches : Crash(n) => OwnedInv'
           /\ AdapterCloses => OwnedInv'
           /\ UNCHANGED mcpVars => OwnedInv'
<1> USE NoneIsNone
<1>1. /\ process \in [Launches -> {"gone", "starting", "up"}]
      /\ process' \in [Launches -> {"gone", "starting", "up"}]
      /\ session \in Launches \cup {None}
      /\ call \in [Callers -> CallRecords]
      /\ \A d \in Callers : call[d] \in CallRecords
      /\ \A d \in Callers : call[d].at = "launching" => call[d].on \in Launches
      /\ \A d \in Callers : call[d].at = "closing" => call[d].on \in Launches
  BY DEF CallsFit, McpTypeOK, CallInv, CallRecords
<1>2. ASSUME NEW c \in Callers, NEW tool \in Tools, Begin(c, tool) PROVE OwnedInv'
  <2> DEFINE others == {d \in Callers : Busy(d)}
             calls  == [d \in Callers |-> IF d \in others THEN [call[d] EXCEPT !.alone = FALSE]
                                                          ELSE call[d]]
             k      == [NoCall EXCEPT !.tool = tool, !.alone = others = {}]
  <2>1. calls \in [Callers -> CallRecords]
    <3>1. \A d \in Callers : [call[d] EXCEPT !.alone = FALSE] \in CallRecords
      BY <1>1 DEF CallRecords
    <3> QED BY <1>1, <3>1
  <2>2. \A d \in Callers : calls[d].at = call[d].at /\ calls[d].on = call[d].on
    BY <1>1 DEF CallRecords
  <2>3. k \in CallRecords
    BY NoCallTyped DEF CallRecords, NoCall
  <2>4. Connect(c, k, calls, process) /\ call[c].at = "idle"
    BY <1>2 DEF Begin
  <2> HIDE DEF k, calls
  <2> QED BY <1>1, <2>1, <2>2, <2>3, <2>4, ConnectOwned
<1>3. ASSUME NEW c \in Callers, Cancelled(c) PROVE OwnedInv'
  <2>1. /\ call'[c].at = "done" /\ call'[c].on = call[c].on /\ session' = session
        /\ \A d \in Callers \ {c} : call'[d] = call[d]
    BY <1>1, <1>3 DEF Cancelled, Ended, CallRecords
  <2>2. /\ \A n \in Launches \ {call[c].on} : process'[n] = process[n]
        /\ process[call[c].on] = "gone" /\ process'[call[c].on] # "gone" =>
              call[c].at = "launching"
    BY <1>1, <1>3 DEF Cancelled
  <2>3. /\ strained \subseteq strained'
        /\ call[c].at \in {"launching", "closing"} => call[c].on \in strained'
    BY <1>3 DEF Cancelled
  <2>4. OwnInv'
    BY <2>1, <2>3 DEF OwnedInv, OwnInv, Launching
  <2>5. Orphans' \subseteq strained'
    <3> SUFFICES ASSUME NEW m \in Orphans' PROVE m \in strained'
      OBVIOUS
    <3>1. m \in Launches /\ m # session /\ process'[m] \in {"starting", "up"}
      BY <2>1 DEF Orphans
    <3>2. \A d \in Callers \ {c} : ~Covered(d, m)
      BY <2>1 DEF Orphans, Covered
    <3>3. CASE Covered(c, m)
      BY <2>3, <3>3 DEF Covered
    <3>4. CASE ~Covered(c, m)
      <4>1. process[m] # "gone"
        BY <2>2, <3>1, <3>4 DEF Covered
      <4> QED BY <1>1, <2>3, <3>1, <3>2, <3>4, <4>1 DEF OwnedInv, Orphans, Covered
    <3> QED BY <3>3, <3>4
  <2> QED BY <2>4, <2>5 DEF OwnedInv
<1>4. ASSUME NEW c \in Callers, IsTaken(c) PROVE OwnedInv'
  <2>1. /\ session' = session /\ process' = process /\ strained' = strained
        /\ call'[c] = NoCall /\ call[c].at = "done"
        /\ \A d \in Callers \ {c} : call'[d] = call[d]
    BY <1>1, <1>4 DEF IsTaken, Took
  <2>2. call'[c].at = "idle" /\ call'[c].on = None
    BY <2>1 DEF NoCall
  <2>3. \A n \in Launches : ~Covered(c, n)
    BY <2>1 DEF Covered
  <2> QED BY <1>1, <2>1, <2>2, <2>3, StillOwned
<1>5. ASSUME NEW n \in Launches, Crash(n) PROVE OwnedInv'
  <2>1. /\ session' = session /\ call' = call /\ strained' = strained
        /\ \A m \in Launches : process'[m] # "gone" => process'[m] = process[m]
    BY <1>1, <1>5 DEF Crash
  <2> QED BY <1>1, <2>1 DEF OwnedInv, OwnInv, Orphans, Launching
<1>6. ASSUME AdapterCloses PROVE OwnedInv'
  <2>1. \A d \in Callers : call'[d].at = call[d].at /\ call'[d].on = call[d].on
    BY <1>1, <1>6 DEF AdapterCloses, CallRecords
  <2>2. /\ session' = None /\ strained' = strained
        /\ \A m \in Launches : process'[m] # "gone" => m # session /\ process'[m] = process[m]
    BY <1>6 DEF AdapterCloses
  <2>3. OwnInv'
    BY <1>1, <2>1, <2>2 DEF OwnedInv, OwnInv, Launching
  <2>4. Orphans' \subseteq strained'
    BY <1>1, <2>1, <2>2 DEF OwnedInv, Orphans
  <2> QED BY <2>3, <2>4 DEF OwnedInv
<1>7. ASSUME UNCHANGED mcpVars PROVE OwnedInv'
  BY <1>7 DEF OwnedInv, OwnInv, Orphans, Launching, mcpVars
<1> QED BY <1>2, <1>3, <1>4, <1>5, <1>6, <1>7

-----------------------------------------------------------------------------
(* What a call that has the adapter to itself pays. *)

\* While a call is under way no other has the adapter to itself.
LEMMA OthersPay ==
    ASSUME AloneInv, NEW c \in Callers, Busy(c), NEW d \in Callers \ {c},
           call'[d] = call[d], call[d].breaks \in Nat,
           troubles \in Nat, troubles' \in Nat, troubles' >= troubles
    PROVE  PaysForItself(d)'
<1>1. call[d].alone => ~Busy(d)
  BY DEF AloneInv, PaysForItself
<1>2. troubles >= call[d].breaks + 1 => troubles' >= call[d].breaks + 1
  OBVIOUS
<1> QED BY <1>1, <1>2 DEF AloneInv, PaysForItself, Busy

\* What connect() leaves of the caller that asked for it, and of the others.
LEMMA ConnectSets ==
    ASSUME NEW c \in Callers, NEW k \in CallRecords, NEW calls \in [Callers -> CallRecords],
           NEW ps, Connect(c, k, calls, ps)
    PROVE  /\ \A d \in Callers \ {c} : call'[d] = calls[d]
           /\ call'[c].alone = k.alone /\ call'[c].breaks = k.breaks
           /\ session = None => session' = None /\ call'[c].at = "launching"
           /\ session # None => /\ session' = session /\ process' = ps
                               /\ call'[c].at = "calling" /\ call'[c].on = session
<1>1. CASE session = None
  <2>1. Launch(c, k, calls, ps)
    BY <1>1 DEF Connect
  <2>2. PICK n \in Launches : call' = [calls EXCEPT ![c] = [k EXCEPT !.at = "launching", !.on = n]]
    BY <2>1 DEF Launch
  <2>3. session' = None
    BY <2>1 DEF Launch
  <2>4. call'[c] = [k EXCEPT !.at = "launching", !.on = n]
    BY <2>2
  <2>5. call'[c].at = "launching" /\ call'[c].alone = k.alone /\ call'[c].breaks = k.breaks
    BY <2>4 DEF CallRecords
  <2> QED BY <1>1, <2>2, <2>3, <2>5
<1>2. CASE session # None
  <2>1. /\ call' = [calls EXCEPT ![c] = Sent(k, session)]
        /\ process' = ps /\ session' = session
    BY <1>2 DEF Connect
  <2>2. call'[c] = Sent(k, session)
    BY <2>1
  <2>3. /\ call'[c].at = "calling" /\ call'[c].on = session
        /\ call'[c].alone = k.alone /\ call'[c].breaks = k.breaks
    BY <2>2 DEF Sent, CallRecords
  <2> QED BY <1>2, <2>1, <2>3
<1> QED BY <1>1, <1>2

\* A lone call that goes on has paid for every break with a trouble.
LEMMA CallStepPays ==
    ASSUME AloneInv, OwnedInv, CallsFit, NEW c \in Callers, CallStep(c)
    PROVE  AloneInv'
<1> USE NoneIsNone
<1>1. /\ process \in [Launches -> {"gone", "starting", "up"}]
      /\ session \in Launches \cup {None} /\ troubles \in Nat
      /\ call \in [Callers -> CallRecords] /\ call[c] \in CallRecords
      /\ CallInv(call[c]) /\ \A d \in Callers : call[d].breaks \in Nat
  BY McpAssumption DEF CallsFit, McpTypeOK, CallRecords
<1>2. call[c].breaks \in Nat
  BY <1>1 DEF CallRecords
<1>3. Busy(c) /\ call[c].on \in Launches
  BY <1>1 DEF CallStep, Launched, LaunchFails, Handled, Replied, Broken, Closed, Busy, CallInv
<1>4. call[c].alone => \A d \in Callers \ {c} : ~Busy(d)
  BY <1>3 DEF AloneInv, PaysForItself
<1>5. ASSUME \A d \in Callers \ {c} : call'[d] = call[d], troubles' \in Nat, troubles' >= troubles,
             SessionUp', PaysForItself(c)'
      PROVE  AloneInv'
  BY <1>1, <1>3, <1>5, OthersPay DEF AloneInv
<1>6. ASSUME \A d \in Callers \ {c} : call'[d] = call[d], call'[c].alone = call[c].alone
      PROVE  call'[c].alone => \A d \in Callers \ {c} : ~Busy(d)'
  BY <1>4, <1>6 DEF Busy
<1>7. CASE Launched(c)
  <2>1. /\ call[c].at = "launching" /\ session' = call[c].on
        /\ process'[call[c].on] = "up" /\ troubles' = troubles
        /\ call'[c].at = "calling" /\ call'[c].on = call[c].on
        /\ call'[c].alone = call[c].alone /\ call'[c].breaks = call[c].breaks
        /\ \A d \in Callers \ {c} : call'[d] = call[d]
    BY <1>1, <1>3, <1>7 DEF Launched, Sent, CallRecords
  <2>2. SessionUp'
    BY <2>1 DEF SessionUp
  <2>3. call[c].alone => troubles >= call[c].breaks
    BY <2>1 DEF AloneInv, PaysForItself
  <2>4. PaysForItself(c)'
    BY <1>1, <1>2, <1>6, <2>1, <2>3 DEF PaysForItself
  <2> QED BY <1>1, <1>5, <2>1, <2>2, <2>4
<1>8. CASE LaunchFails(c)
  <2>1. /\ session' = session /\ troubles' = troubles + 1
        /\ call[c].at = "launching"
        /\ call'[c].at = "done" /\ call'[c].answer = "unlaunched"
        /\ call'[c].alone = call[c].alone /\ call'[c].breaks = call[c].breaks
        /\ \A d \in Callers \ {c} : call'[d] = call[d]
    BY <1>1, <1>8 DEF LaunchFails, Ended, CallRecords
  <2>2. SessionUp'
    BY <1>1, <2>1 DEF SessionUp
  <2>3. PaysForItself(c)'
    <3>1. call[c].alone => troubles >= call[c].breaks
      BY <2>1 DEF AloneInv, PaysForItself
    <3>2. call'[c].alone => troubles' >= call'[c].breaks + 1
      BY <1>1, <1>2, <2>1, <3>1
    <3> QED BY <2>1, <3>2 DEF PaysForItself, Busy
  <2> QED BY <1>1, <1>5, <2>1, <2>2, <2>3
<1>9. CASE Handled(c) \/ Replied(c)
  <2>1. /\ session' = session /\ troubles' = troubles /\ process' = process
        /\ call[c].at \in {"calling", "replied"}
        /\ \/ call'[c].at = "replied"
           \/ call'[c].at = "done" /\ call'[c].answer = call[c].answer /\ call[c].at = "replied"
        /\ call'[c].on = call[c].on
        /\ call'[c].alone = call[c].alone /\ call'[c].breaks = call[c].breaks
        /\ \A d \in Callers \ {c} : call'[d] = call[d]
    BY <1>1, <1>9 DEF Handled, Replied, CallRecords
  <2>2. SessionUp'
    BY <2>1 DEF SessionUp, AloneInv
  <2>3. call'[c].at = "done" => call'[c].answer \notin {"unavailable", "unlaunched"}
    BY <1>1, <2>1 DEF CallInv
  <2>4. PaysForItself(c)'
    BY <1>6, <2>1, <2>3 DEF AloneInv, PaysForItself
  <2> QED BY <1>1, <1>5, <2>1, <2>2, <2>4
<1>10. CASE Broken(c)
  <2> DEFINE k == [call[c] EXCEPT !.breaks = @ + 1, !.answer = "none"]
  <2>0. call[c].at \in {"calling", "replied"} /\ call[c].breaks + 1 \in 0..2
    BY <1>1, <1>10 DEF CallInv, Broken, CallRecords
  <2>1. /\ k \in CallRecords
        /\ k.breaks = call[c].breaks + 1 /\ k.alone = call[c].alone
        /\ k.sends = call[c].sends /\ k.sends = k.breaks
        /\ call[c].at \in {"calling", "replied"}
    BY <1>1, <2>0 DEF CallRecords, CallInv
  <2>2. troubles' \in Nat /\ troubles' >= troubles
    BY <1>1, <1>10 DEF Broken
  <2>3. call[c].alone => troubles' >= k.breaks
    BY <1>1, <1>2, <1>10, <2>1 DEF Broken, AloneInv, PaysForItself
  <2>4. CASE k.sends = 1 /\ Restart(c, k)
    <3>1. /\ session' = None
          /\ call'[c].at \in {"closing", "launching"} /\ call'[c].breaks = k.breaks
          /\ call'[c].alone = call[c].alone
          /\ \A d \in Callers \ {c} : call'[d] = call[d]
      <4> HIDE DEF k
      <4>1. CASE session = None
        BY <1>1, <2>1, <2>4, <4>1, ConnectSets DEF Restart, Connect
      <4>2. CASE session # None
        <5>1. /\ session' = None
              /\ call' = [call EXCEPT ![c] = [k EXCEPT !.at = "closing", !.on = session]]
          BY <2>4, <4>2 DEF Restart
        <5>2. call'[c] = [k EXCEPT !.at = "closing", !.on = session]
          BY <1>1, <5>1
        <5>3. /\ call'[c].at = "closing" /\ call'[c].breaks = k.breaks
              /\ call'[c].alone = k.alone
          BY <2>1, <5>2 DEF CallRecords
        <5> QED BY <1>1, <2>1, <5>1, <5>3
      <4> QED BY <4>1, <4>2
    <3>2. SessionUp'
      BY <3>1 DEF SessionUp
    <3>3. PaysForItself(c)'
      BY <1>6, <2>3, <3>1 DEF PaysForItself
    <3> QED BY <1>5, <2>2, <3>1, <3>2, <3>3
  <2>5. CASE k.sends = 2
    <3>1. /\ session' = session /\ process' = process
          /\ call'[c].at = "done" /\ call'[c].alone = call[c].alone
          /\ call'[c].answer = "unavailable"
          /\ \A d \in Callers \ {c} : call'[d] = call[d]
      <4>1. /\ session' = session /\ process' = process
            /\ call' = [call EXCEPT ![c] = Ended(k, "unavailable")]
        BY <1>10, <2>5 DEF Broken
      <4> HIDE DEF k
      <4>2. call'[c] = Ended(k, "unavailable")
        BY <1>1, <4>1
      <4>3. call'[c].at = "done" /\ call'[c].alone = k.alone /\ call'[c].answer = "unavailable"
        BY <2>1, <4>2 DEF Ended, CallRecords
      <4> QED BY <1>1, <2>1, <4>1, <4>3
    <3>2. SessionUp'
      BY <1>1, <2>2, <3>1 DEF SessionUp, AloneInv
    <3>3. PaysForItself(c)'
      BY <2>1, <2>3, <2>5, <3>1 DEF PaysForItself, Busy
    <3> QED BY <1>5, <2>2, <3>1, <3>2, <3>3
  <2> QED BY <1>10, <2>4, <2>5 DEF Broken
<1>11. CASE Closed(c)
  <2> DEFINE ps == [process EXCEPT ![call[c].on] = "gone"]
  <2>1. call[c].at = "closing" /\ Connect(c, call[c], call, ps) /\ troubles' = troubles
    BY <1>11 DEF Closed
  <2>2. session # call[c].on
    BY <2>1 DEF OwnedInv, OwnInv
  <2>3. /\ call'[c].alone = call[c].alone /\ call'[c].breaks = call[c].breaks
        /\ \A d \in Callers \ {c} : call'[d] = call[d]
    BY <1>1, <2>1, ConnectSets
  <2>4. CASE session = None
    <3>1. session' = None /\ call'[c].at = "launching"
      BY <1>1, <2>1, <2>4, ConnectSets
    <3>2. SessionUp'
      BY <3>1 DEF SessionUp
    <3>3. PaysForItself(c)'
      BY <1>6, <2>1, <2>3, <3>1 DEF PaysForItself, AloneInv
    <3> QED BY <1>1, <1>5, <2>1, <2>3, <3>2, <3>3
  <2>5. CASE session # None
    <3>1. session' = session /\ process'[session] = process[session]
      BY <1>1, <2>1, <2>2, <2>5 DEF Connect
    <3>2. SessionUp'
      BY <2>1, <3>1 DEF SessionUp, AloneInv
    <3>3. ~call'[c].alone
      BY <2>1, <2>3, <2>5 DEF AloneInv, PaysForItself
    <3>4. PaysForItself(c)'
      BY <3>3 DEF PaysForItself
    <3> QED BY <1>1, <1>5, <2>1, <2>3, <3>2, <3>4
  <2> QED BY <2>4, <2>5
<1> QED BY <1>7, <1>8, <1>9, <1>10, <1>11 DEF CallStep

\* Nothing that befalls the adapter from outside makes its account wrong.
LEMMA OtherStepsPay ==
    ASSUME AloneInv, OwnedInv, CallsFit
    PROVE  /\ \A c \in Callers, tool \in Tools : Begin(c, tool) => AloneInv'
           /\ \A c \in Callers : Cancelled(c) => AloneInv'
           /\ \A c \in Callers : IsTaken(c) => AloneInv'
           /\ \A n \in Launches : Crash(n) => AloneInv'
           /\ AdapterCloses => AloneInv'
           /\ UNCHANGED mcpVars => AloneInv'
<1> USE NoneIsNone
<1>1. /\ process \in [Launches -> {"gone", "starting", "up"}]
      /\ session \in Launches \cup {None} /\ troubles \in Nat
      /\ call \in [Callers -> CallRecords]
      /\ \A d \in Callers : call[d] \in CallRecords /\ CallInv(call[d]) /\ call[d].breaks \in Nat
  BY McpAssumption DEF CallsFit, McpTypeOK, CallRecords
<1>2. ASSUME NEW c \in Callers, NEW tool \in Tools, Begin(c, tool) PROVE AloneInv'
  <2> DEFINE others == {d \in Callers : Busy(d)}
             calls  == [d \in Callers |-> IF d \in others THEN [call[d] EXCEPT !.alone = FALSE]
                                                          ELSE call[d]]
             k      == [NoCall EXCEPT !.tool = tool, !.alone = others = {}]
  <2>0. calls \in [Callers -> CallRecords]
    BY <1>1 DEF CallRecords
  <2>1. /\ call[c].at = "idle" /\ Connect(c, k, calls, process) /\ troubles' = troubles
        /\ k.alone = (others = {}) /\ k.breaks = 0 /\ k \in CallRecords
    BY <1>2, NoCallTyped DEF Begin, NoCall, CallRecords
  <2>2. \A d \in Callers \ {c} :
          /\ Busy(d) => ~call'[d].alone
          /\ ~Busy(d) => call'[d] = call[d]
          /\ call'[d].at = call[d].at
    <3>1. \A d \in Callers \ {c} : call'[d] = calls[d]
      <4> HIDE DEF k, calls
      <4> QED BY <2>0, <2>1, ConnectSets
    <3> QED BY <1>1, <3>1 DEF CallRecords
  <2>3. call'[c].alone = (others = {}) /\ call'[c].breaks = 0
    <3> HIDE DEF k, calls
    <3> QED BY <2>0, <2>1, ConnectSets
  <2>3a. call'[c].alone => \A d \in Callers \ {c} : ~Busy(d)'
    BY <2>2, <2>3 DEF Busy
  <2>4. \A d \in Callers \ {c} : PaysForItself(d)'
    BY <1>1, <2>1, <2>2 DEF AloneInv, PaysForItself, Busy
  <2>5. CASE session = None
    <3>1. session' = None /\ call'[c].at = "launching"
      <4> HIDE DEF k, calls
      <4> QED BY <2>0, <2>1, <2>5, ConnectSets
    <3>2. SessionUp' /\ PaysForItself(c)'
      <4> HIDE DEF k, calls
      <4> QED BY <1>1, <2>1, <2>3a, <2>3, <3>1 DEF SessionUp, PaysForItself
    <3> QED BY <2>4, <3>2 DEF AloneInv
  <2>6. CASE session # None
    <3>1. session' = session /\ process' = process /\ call'[c].at = "calling" /\ call'[c].on = session
      <4> HIDE DEF k, calls
      <4> QED BY <2>0, <2>1, <2>6, ConnectSets
    <3>2. SessionUp'
      BY <2>1, <3>1 DEF SessionUp, AloneInv
    <3>3. PaysForItself(c)'
      <4> HIDE DEF k, calls
      <4>1. troubles >= (IF process[session] = "up" THEN 0 ELSE 1)
        BY <1>1, <2>6 DEF SessionUp, AloneInv
      <4>2. troubles' >= (IF process'[call'[c].on] = "up" THEN 0 ELSE 1)
        BY <2>1, <3>1, <4>1
      <4>3. troubles' >= call'[c].breaks + (IF process'[call'[c].on] = "up" THEN 0 ELSE 1)
        BY <2>3, <4>2
      <4> QED BY <2>3a, <3>1, <4>3 DEF PaysForItself
    <3> QED BY <2>4, <3>2, <3>3 DEF AloneInv
  <2> QED BY <2>5, <2>6
<1>3. ASSUME NEW c \in Callers, Cancelled(c) PROVE AloneInv'
  <2>1. /\ call'[c].at = "done" /\ call'[c].answer = "cancelled" /\ session' = session
        /\ \A d \in Callers \ {c} : call'[d] = call[d]
        /\ troubles' \in Nat /\ troubles' >= troubles /\ Busy(c)
    BY <1>1, <1>3 DEF Cancelled, Ended, CallRecords
  <2>2. SessionUp'
    BY <1>1, <1>3, <2>1 DEF Cancelled, SessionUp, AloneInv
  <2>3. PaysForItself(c)'
    BY <2>1 DEF PaysForItself, Busy
  <2> QED BY <1>1, <2>1, <2>2, <2>3, OthersPay DEF AloneInv
<1>4. ASSUME NEW c \in Callers, IsTaken(c) PROVE AloneInv'
  <2>1. /\ call[c].at = "done" /\ call'[c].at = "idle" /\ session' = session
        /\ process' = process /\ troubles' = troubles
        /\ \A d \in Callers \ {c} : call'[d] = call[d]
    BY <1>1, <1>4 DEF IsTaken, Took, NoCall
  <2> QED BY <2>1 DEF AloneInv, SessionUp, PaysForItself, Busy
<1>5. ASSUME NEW n \in Launches, Crash(n) PROVE AloneInv'
  <2>1. session' = session /\ call' = call /\ troubles' = troubles + 1
    BY <1>5 DEF Crash
  <2>2. SessionUp'
    BY <1>1, <2>1 DEF SessionUp
  <2>3. ASSUME NEW c \in Callers PROVE PaysForItself(c)'
    <3>1. PaysForItself(c) /\ call[c].breaks \in Nat
      BY <1>1 DEF AloneInv
    <3>2. troubles >= call[c].breaks + (IF process[call[c].on] = "up" THEN 0 ELSE 1) =>
             troubles + 1 >= call[c].breaks + (IF process'[call[c].on] = "up" THEN 0 ELSE 1)
      BY <1>1, <3>1
    <3> QED BY <1>1, <2>1, <3>1, <3>2 DEF PaysForItself, Busy
  <2> QED BY <2>2, <2>3 DEF AloneInv
<1>6. ASSUME AdapterCloses PROVE AloneInv'
  <2>1. \A d \in Callers : /\ call'[d].at = call[d].at
                           /\ Busy(d) => ~call'[d].alone
                           /\ ~Busy(d) => call'[d] = call[d]
    BY <1>1, <1>6 DEF AdapterCloses, CallRecords
  <2>2. session' = None /\ troubles' = troubles
    BY <1>6 DEF AdapterCloses
  <2> QED BY <2>1, <2>2 DEF AloneInv, SessionUp, PaysForItself, Busy
<1>7. ASSUME UNCHANGED mcpVars PROVE AloneInv'
  BY <1>7 DEF AloneInv, SessionUp, PaysForItself, Busy, mcpVars
<1> QED BY <1>2, <1>3, <1>4, <1>5, <1>6, <1>7

-----------------------------------------------------------------------------
(* The transport's invariant, under every step of the process. *)

\* What a step of the process is to the transport.
LEMMA StepsOfTheAdapter ==
    ASSUME [Next]_vars
    PROVE  \/ \E c \in Callers, tool \in Tools : Begin(c, tool)
           \/ \E c \in Callers : CallStep(c) \/ Cancelled(c) \/ IsTaken(c)
           \/ \E n \in Launches : Crash(n)
           \/ AdapterCloses
           \/ UNCHANGED mcpVars
<1>1. Probe \in Callers /\ Handlers \subseteq Callers /\ Evals \subseteq Callers
  BY ProcessAssumption
<1>2. CASE RunStep
  <2>1. CASE ProbeAsks
    BY <1>1, <2>1 DEF ProbeAsks, Tools
  <2>2. CASE ProbeAnswered
    BY <1>1, <2>2 DEF ProbeAnswered, IsTaken
  <2>3. CASE NotesClose
    BY <2>3 DEF NotesClose, AdapterCloses
  <2>4. CASE \/ BuildAdapters \/ HealthStarts \/ TelegramComesUp \/ StopSeen
             \/ TelegramNeverRan \/ UpdaterStops \/ ApplicationStops
             \/ HealthStops \/ StoresClose \/ RunReturns
    BY <2>4 DEF BuildAdapters, HealthStarts, TelegramComesUp, StopSeen, TelegramNeverRan,
                UpdaterStops, ApplicationStops, HealthStops, StoresClose, RunReturns
  <2> QED BY <1>2, <2>1, <2>2, <2>3, <2>4 DEF RunStep
<1>3. CASE StartupFails \/ TelegramFails \/ Signal \/ TelegramStopRaises
  BY <1>3 DEF StartupFails, TelegramFails, Signal, TelegramStopRaises
<1>4. ASSUME NEW h \in Handlers, HandlerCalls(h) \/ HandlerEnds(h)
      PROVE  \/ \E c \in Callers, tool \in Tools : Begin(c, tool)
             \/ \E c \in Callers : IsTaken(c)
  BY <1>1, <1>4 DEF HandlerCalls, HandlerEnds, IsTaken
<1>5. ASSUME NEW c \in Callers, CallProceeds(c) PROVE CallStep(c)
  BY <1>5 DEF CallProceeds
<1>6. CASE ServerCrashes
  BY <1>6 DEF ServerCrashes
<1>7. ASSUME NEW e \in Evals, Evaluate(e) \/ CheckCancelled(e) \/ Evaluated(e)
      PROVE  \/ \E c \in Callers, tool \in Tools : Begin(c, tool)
             \/ \E c \in Callers : Cancelled(c) \/ IsTaken(c)
  BY <1>1, <1>7 DEF Evaluate, CheckCancelled, Evaluated, IsTaken, Tools
<1>8. CASE UNCHANGED vars
  BY <1>8 DEF vars
<1> QED BY <1>2, <1>3, <1>4, <1>5, <1>6, <1>7, <1>8 DEF Next

\* The transport's invariant holds throughout the life of the process.
LEMMA McpInvariant == Spec => []McpInv
<1>1. Init => McpInv
  <2> SUFFICES ASSUME Init PROVE McpInv
    OBVIOUS
  <2> USE DEF Init, McpInit
  <2>1. CallsFit
    BY NoCallTyped, McpAssumption DEF CallsFit, McpTypeOK, CallRecords
  <2>2. \A c \in Callers : call[c].at = "idle"
    BY DEF NoCall
  <2>3. OwnedInv
    BY <2>2 DEF OwnedInv, OwnInv, Orphans, Launching
  <2>4. AloneInv
    BY <2>2 DEF AloneInv, SessionUp, PaysForItself, Busy
  <2> QED BY <2>1, <2>3, <2>4 DEF McpInv, CallsFit, OwnedInv
<1>2. McpInv /\ [Next]_vars => McpInv'
  <2> SUFFICES ASSUME McpInv, [Next]_vars PROVE McpInv'
    OBVIOUS
  <2>1. CallsFit /\ OwnedInv /\ AloneInv
    BY DEF McpInv, CallsFit, OwnedInv
  <2>2. CallsFit'
    BY <2>1, StepsOfTheAdapter, BeginTyped, CallStepTyped, OtherStepsTyped
  <2>3. OwnedInv'
    BY <2>1, <2>2, StepsOfTheAdapter, CallStepOwned, OtherStepsOwned
  <2>4. AloneInv'
    BY <2>1, StepsOfTheAdapter, CallStepPays, OtherStepsPay
  <2> QED BY <2>2, <2>3, <2>4 DEF McpInv, CallsFit, OwnedInv
<1> QED BY <1>1, <1>2, PTL DEF Spec

\* connect() has no lock and aclose() forgets before it closes (mcp.py:146-180,
\* 239-245): a subprocess nobody could close any more was launched while another
\* launch was under way, or its connect or its close was cancelled.
THEOREM OrphansAreAlwaysExplained == Spec => []OrphansAreExplained
<1>1. McpInv => OrphansAreExplained
  BY DEF McpInv, OrphansAreExplained
<1> QED BY <1>1, McpInvariant, PTL

\* mcp.py:182-203: a call fails because its first launch did, because its one
\* exchange broke and the relaunch failed, or because two exchanges broke; and a
\* call that had the adapter to itself, once it was sent, never of one trouble.
THEOREM FailuresAreAlwaysExplained == Spec => []FailuresAreExplained
<1>1. McpInv => FailuresAreExplained
  <2> SUFFICES ASSUME McpInv, NEW c \in Callers, call[c].at = "done",
                      call[c].answer \in {"unlaunched", "unavailable"}
               PROVE  /\ call[c].sends = call[c].breaks
                      /\ call[c].answer = "unavailable" <=> call[c].breaks = 2
                      /\ call[c].alone => troubles >= IF call[c].sends = 0 THEN 1 ELSE 2
    BY DEF FailuresAreExplained
  <2>1. call[c] \in CallRecords /\ CallInv(call[c]) /\ PaysForItself(c) /\ troubles \in Nat
    BY McpAssumption DEF McpInv, AloneInv, McpTypeOK, CallRecords
  <2>2. call[c].breaks \in 0..2 /\ call[c].sends \in 0..2
    BY <2>1 DEF CallRecords
  <2>3. call[c].alone => troubles >= call[c].breaks /\ troubles >= 1
                         /\ (call[c].answer = "unlaunched" => troubles >= call[c].breaks + 1)
    BY <2>1, <2>2 DEF PaysForItself, CallInv
  <2>4. /\ call[c].sends = call[c].breaks
        /\ call[c].answer = "unavailable" => call[c].breaks = 2
        /\ call[c].answer = "unlaunched" => call[c].sends <= 1
    BY <2>1 DEF CallInv
  <2> QED BY <2>1, <2>2, <2>3, <2>4
<1> QED BY <1>1, McpInvariant, PTL

\* mcp.py:196-203: an acknowledged call was carried out, and carried out twice or
\* told that its target is missing only after its first exchange broke.
THEOREM AnswersAreAlwaysTrue == Spec => []AnswersAreTrue
<1>1. ASSUME McpInv, NEW c \in Callers
      PROVE  /\ call[c].at = "done" /\ call[c].answer = "ok" /\ call[c].tool # "read" =>
                   call[c].applied \in 1..2
             /\ call[c].applied > 1 \/ call[c].answer = "missing" => call[c].breaks > 0
             /\ call[c].applied <= call[c].sends
  <2>1. call[c] \in CallRecords /\ CallInv(call[c])
    BY <1>1 DEF McpInv, McpTypeOK, CallRecords
  <2> QED BY <2>1 DEF CallInv, CallRecords, NoCall
<1>2. McpInv => AnswersAreTrue
  BY <1>1 DEF AnswersAreTrue
<1> QED BY <1>2, McpInvariant, PTL

-----------------------------------------------------------------------------
(* The steps of the teardown. *)

\* One step put in front of a sequence.
LEMMA Prefixed ==
    ASSUME NEW S, NEW s \in Seq(S), NEW t \in Seq(S), NEW u \in Seq(S),
           Len(s) = 1, Len(u) = 1 + Len(t), u[1] = s[1], \A i \in 1..Len(t) : u[i + 1] = t[i]
    PROVE  s \o t = u
<1>1. /\ s \o t \in Seq(S) /\ Len(s \o t) = Len(u)
      /\ \A i \in 1..Len(u) : (s \o t)[i] = IF i <= 1 THEN s[i] ELSE t[i - 1]
  <2>1. s \o t \in Seq(S) /\ Len(s \o t) = Len(s) + Len(t)
    BY ConcatProperties
  <2>2. \A i \in 1..(Len(s) + Len(t)) :
           (s \o t)[i] = IF i <= Len(s) THEN s[i] ELSE t[i - Len(s)]
    BY ConcatProperties
  <2> QED BY <2>1, <2>2
<1>2. \A i \in 1..Len(s \o t) : (s \o t)[i] = u[i]
  <2> TAKE i \in 1..Len(s \o t)
  <2>1. CASE i = 1
    BY <1>1, <2>1
  <2>2. CASE i # 1
    <3>1. i - 1 \in 1..Len(t) /\ (i - 1) + 1 = i
      BY <1>1, <2>2
    <3> QED BY <1>1, <2>2, <3>1
  <2> QED BY <2>1, <2>2
<1> QED BY <1>1, <1>2, SeqEqual

\* What Telegram's teardown leaves to do when it raised midway.
LEMMA ApplicationComesFirst == <<"application">> \o HealthLeft = ApplicationLeft
<1> DEFINE S == {"application", "health", "sessions", "llm", "notediscovery"}
<1>1. <<"application">> \in Seq(S) /\ HealthLeft \in Seq(S) /\ ApplicationLeft \in Seq(S)
  BY DEF HealthLeft, ApplicationLeft
<1>2. Len(<<"application">>) = 1 /\ Len(ApplicationLeft) = 1 + Len(HealthLeft)
  BY DEF HealthLeft, ApplicationLeft
<1>3. /\ ApplicationLeft[1] = <<"application">>[1]
      /\ \A i \in 1..Len(HealthLeft) : ApplicationLeft[i + 1] = HealthLeft[i]
  BY DEF HealthLeft, ApplicationLeft
<1> DEFINE s == <<"application">>
<1> HIDE DEF s, S
<1>4. s \o HealthLeft = ApplicationLeft
  BY <1>1, <1>2, <1>3, Prefixed DEF s
<1> QED BY <1>4 DEF s

\* The step that is next says all of what is left.
LEMMA WhatIsLeft ==
    ASSUME steps \in Lefts, steps # <<>>
    PROVE  /\ Head(steps) = "telegram" => steps = TeardownSteps /\ Tail(steps) = HealthLeft
           /\ Head(steps) = "application" =>
                 steps = ApplicationLeft /\ Tail(steps) = HealthLeft
           /\ Head(steps) = "health" => steps = HealthLeft /\ Tail(steps) = StoresLeft
           /\ Head(steps) = "sessions" =>
                 steps = StoresLeft /\ Tail(Tail(steps)) = NotesLeft
           /\ Head(steps) = "notediscovery" => steps = NotesLeft /\ Tail(steps) = <<>>
<1>1. /\ Head(TeardownSteps) = "telegram" /\ Head(ApplicationLeft) = "application"
      /\ Head(HealthLeft) = "health" /\ Head(StoresLeft) = "sessions"
      /\ Head(NotesLeft) = "notediscovery"
  BY DEF TeardownSteps, ApplicationLeft, HealthLeft, StoresLeft, NotesLeft
<1>2. /\ Tail(TeardownSteps) = HealthLeft /\ Tail(ApplicationLeft) = HealthLeft
      /\ Tail(HealthLeft) = StoresLeft
      /\ Tail(Tail(StoresLeft)) = NotesLeft /\ Tail(NotesLeft) = <<>>
  BY DEF TeardownSteps, ApplicationLeft, HealthLeft, StoresLeft, NotesLeft
<1> QED BY <1>1, <1>2 DEF Lefts

\* The stages of the teardown are told apart by what is left of it.
LEMMA LeftsDiffer ==
    /\ TeardownSteps \notin {ApplicationLeft, HealthLeft, StoresLeft, NotesLeft, <<>>}
    /\ ApplicationLeft \notin {HealthLeft, StoresLeft, NotesLeft, <<>>}
    /\ HealthLeft \notin {StoresLeft, NotesLeft, <<>>}
    /\ StoresLeft \notin {NotesLeft, <<>>}
    /\ NotesLeft # <<>>
BY DEF TeardownSteps, ApplicationLeft, HealthLeft, StoresLeft, NotesLeft

-----------------------------------------------------------------------------
(* Whose call a step of the transport moves. *)

\* A call that begins moves its caller alone.
LEMMA BeginMoves ==
    ASSUME CallsFit, NEW c \in Callers, NEW tool \in Tools, Begin(c, tool)
    PROVE  /\ call[c].at = "idle"
           /\ \A d \in Callers \ {c} : call'[d].at = call[d].at
           /\ session = None => session' = None
<1> DEFINE others == {d \in Callers : Busy(d)}
           calls  == [d \in Callers |-> IF d \in others THEN [call[d] EXCEPT !.alone = FALSE]
                                                        ELSE call[d]]
           k      == [NoCall EXCEPT !.tool = tool, !.alone = others = {}]
<1>1. call \in [Callers -> CallRecords]
  BY DEF CallsFit, McpTypeOK, CallRecords
<1>2. calls \in [Callers -> CallRecords] /\ \A d \in Callers : calls[d].at = call[d].at
  BY <1>1 DEF CallRecords
<1>3. k \in CallRecords
  BY NoCallTyped DEF CallRecords, NoCall
<1>4. call[c].at = "idle" /\ Connect(c, k, calls, process)
  BY DEF Begin
<1> HIDE DEF k, calls
<1> QED BY <1>2, <1>3, <1>4, ConnectSets

\* A call that goes on moves its caller alone, and never makes it call anew.
LEMMA CallStepMoves ==
    ASSUME CallsFit, NEW c \in Callers, CallStep(c)
    PROVE  Busy(c) /\ \A d \in Callers \ {c} : call'[d] = call[d]
<1>1. call \in [Callers -> CallRecords] /\ call[c] \in CallRecords /\ CallInv(call[c])
  BY DEF CallsFit, McpTypeOK, CallRecords
<1>2. Busy(c)
  BY DEF CallStep, Launched, LaunchFails, Handled, Replied, Broken, Closed, Busy
<1>3. CASE Launched(c) \/ LaunchFails(c) \/ Handled(c) \/ Replied(c)
  BY <1>1, <1>2, <1>3 DEF Launched, LaunchFails, Handled, Replied
<1>4. CASE Broken(c)
  <2> DEFINE k == [call[c] EXCEPT !.breaks = @ + 1, !.answer = "none"]
  <2>1. call[c].breaks + 1 \in 0..2
    BY <1>1, <1>4 DEF CallInv, Broken, CallRecords
  <2>2. k \in CallRecords
    BY <1>1, <2>1 DEF CallRecords
  <2>3. Restart(c, k) \/ call' = [call EXCEPT ![c] = Ended(k, "unavailable")]
    BY <1>4 DEF Broken
  <2>4. \/ Connect(c, k, call, process)
        \/ call' = [call EXCEPT ![c] = [k EXCEPT !.at = "closing", !.on = session]]
        \/ call' = [call EXCEPT ![c] = Ended(k, "unavailable")]
    BY <2>3 DEF Restart, Connect
  <2> HIDE DEF k
  <2> QED BY <1>1, <1>2, <2>2, <2>4, ConnectSets
<1>5. CASE Closed(c)
  <2> DEFINE ps == [process EXCEPT ![call[c].on] = "gone"]
  <2>1. Connect(c, call[c], call, ps)
    BY <1>5 DEF Closed
  <2> HIDE DEF ps
  <2> QED BY <1>1, <1>2, <2>1, ConnectSets
<1> QED BY <1>3, <1>4, <1>5 DEF CallStep

\* A cancelled call is over, and nobody else's is.
LEMMA CancelledMoves ==
    ASSUME CallsFit, NEW c \in Callers, Cancelled(c)
    PROVE  /\ Busy(c) /\ session' = session /\ call'[c].at = "done"
           /\ \A d \in Callers \ {c} : call'[d] = call[d]
<1>1. call \in [Callers -> CallRecords] /\ call[c] \in CallRecords
  BY DEF CallsFit, McpTypeOK, CallRecords
<1>2. Busy(c) /\ session' = session /\ call' = [call EXCEPT ![c] = Ended(@, "cancelled")]
  BY DEF Cancelled
<1>3. call'[c].at = "done"
  BY <1>1, <1>2 DEF Ended, CallRecords
<1> QED BY <1>1, <1>2, <1>3

\* A caller that takes its answer is at rest, and nobody else moves.
LEMMA TookMoves ==
    ASSUME CallsFit, NEW c \in Callers, Took(c)
    PROVE  call'[c].at = "idle" /\ \A d \in Callers \ {c} : call'[d] = call[d]
BY DEF CallsFit, McpTypeOK, Took, NoCall

\* Closing the adapter forgets the session and moves no caller.
LEMMA NotesCloseMoves ==
    ASSUME CallsFit, NotesClose
    PROVE  session' = None /\ \A d \in Callers : call'[d].at = call[d].at
<1>1. call \in [Callers -> CallRecords]
  BY DEF CallsFit, McpTypeOK, CallRecords
<1> QED BY <1>1 DEF NotesClose, CallRecords

-----------------------------------------------------------------------------
(* The life of the process. *)

\* A step that moves no call leaves what is said of the callers as it was.
LEMMA RunStepLives ==
    ASSUME LifeInv, CallsFit, RunStep
    PROVE  LifeInv'
<1> USE LeftsDiffer
<1>1. Probe \in Callers /\ Handlers \subseteq Callers \ {Probe} /\ Evals \subseteq Callers \ {Probe}
  BY ProcessAssumption
<1>2. ASSUME At("telegram") PROVE steps = TeardownSteps /\ Tail(steps) = HealthLeft
  BY <1>2, WhatIsLeft DEF At, LifeInv, LifeTypeOK
<1>3. ASSUME At("application") PROVE steps = ApplicationLeft /\ Tail(steps) = HealthLeft
  BY <1>3, WhatIsLeft DEF At, LifeInv, LifeTypeOK
<1>4. ASSUME At("health") PROVE steps = HealthLeft /\ Tail(steps) = StoresLeft
  BY <1>4, WhatIsLeft DEF At, LifeInv, LifeTypeOK
<1>5. ASSUME At("sessions") PROVE steps = StoresLeft /\ Tail(Tail(steps)) = NotesLeft
  BY <1>5, WhatIsLeft DEF At, LifeInv, LifeTypeOK
<1>6. ASSUME At("notediscovery") PROVE steps = NotesLeft /\ Tail(steps) = <<>>
  BY <1>6, WhatIsLeft DEF At, LifeInv, LifeTypeOK
<1> DEFINE SameCalls == call' = call /\ session' = session
<1>7. UNCHANGED mcpVars => SameCalls
  BY DEF mcpVars
<1> USE DEF LifeInv, LifeTypeOK, TelegramOver, HealthOver, Lefts, Quiet, Busy
<1>8. CASE BuildAdapters
  BY <1>7, <1>8 DEF BuildAdapters
<1>9. CASE HealthStarts
  BY <1>7, <1>9 DEF HealthStarts
<1>10. CASE ProbeAsks
  <2>1. /\ call[Probe].at = "idle" /\ \A d \in Callers \ {Probe} : call'[d].at = call[d].at
        /\ session = None => session' = None
    BY <1>1, <1>10, BeginMoves DEF ProbeAsks, Tools
  <2> QED BY <1>1, <1>10, <2>1 DEF ProbeAsks, lifeVars
<1>11. CASE ProbeAnswered
  <2>1. call'[Probe].at = "idle" /\ \A d \in Callers \ {Probe} : call'[d] = call[d]
    BY <1>1, <1>11, TookMoves DEF ProbeAnswered
  <2> QED BY <1>1, <1>11, <2>1 DEF ProbeAnswered
<1>12. CASE TelegramComesUp
  <2>1. telegram' \in {"initialized", "started", "polling"}
    <3>1. PICK i \in 1..3 : telegram' = Up[i + 1]
      BY <1>12 DEF TelegramComesUp
    <3> QED BY <3>1 DEF Up
  <2>2. CASE telegram' = "polling"
    <3>1. running' = TRUE
      BY <1>12, <2>2 DEF TelegramComesUp
    <3> QED BY <1>7, <1>12, <2>1, <2>2, <3>1 DEF TelegramComesUp
  <2>3. CASE telegram' # "polling"
    <3>1. running' = FALSE
      BY <1>12, <2>3 DEF TelegramComesUp
    <3> QED BY <1>7, <1>12, <2>1, <2>3, <3>1 DEF TelegramComesUp
  <2> QED BY <2>2, <2>3
<1>13. CASE StopSeen
  BY <1>7, <1>13 DEF StopSeen
<1>14. CASE TelegramNeverRan
  BY <1>2, <1>7, <1>14 DEF TelegramNeverRan, At
<1>15. CASE UpdaterStops
  BY <1>2, <1>7, <1>15, ApplicationComesFirst DEF UpdaterStops, At
<1>16. CASE ApplicationStops
  BY <1>3, <1>7, <1>16 DEF ApplicationStops, At
<1>17. CASE HealthStops
  BY <1>4, <1>7, <1>17 DEF HealthStops, At
<1>18. CASE StoresClose
  BY <1>5, <1>7, <1>18 DEF StoresClose, At
<1>19. CASE NotesClose
  <2>1. session' = None /\ \A d \in Callers : call'[d].at = call[d].at
    BY <1>19, NotesCloseMoves
  <2> QED BY <1>1, <1>6, <1>19, <2>1 DEF NotesClose, At
<1>20. CASE RunReturns
  BY <1>7, <1>20 DEF RunReturns
<1> QED BY <1>8, <1>9, <1>10, <1>11, <1>12, <1>13, <1>14, <1>15, <1>16, <1>17, <1>18, <1>19,
           <1>20 DEF RunStep

\* Wherever Telegram's stop raises, its step is over and the health server's next.
LEMMA RaisedStopLives ==
    ASSUME LifeInv, TelegramStopRaises
    PROVE  LifeInv'
<1> USE LeftsDiffer
<1>1. call' = call /\ session' = session /\ phase' = phase /\ telegram' = telegram
  BY DEF TelegramStopRaises, mcpVars
<1>2. raised' = TRUE /\ running' = FALSE /\ phase = "stopping"
  BY DEF TelegramStopRaises, At
<1>3. steps \in {TeardownSteps, ApplicationLeft} /\ steps' = HealthLeft
  BY WhatIsLeft DEF TelegramStopRaises, At, LifeInv, LifeTypeOK
<1> QED BY <1>1, <1>2, <1>3 DEF TelegramStopRaises, LifeInv, LifeTypeOK, TelegramOver,
                               HealthOver, Lefts, Quiet, Busy

\* What callers, signals and crashes do keeps the life of the process in order.
LEMMA CallersLive ==
    ASSUME LifeInv, CallsFit
    PROVE  /\ StartupFails \/ TelegramFails \/ Signal \/ ServerCrashes => LifeInv'
           /\ \A h \in Handlers : HandlerCalls(h) \/ HandlerEnds(h) => LifeInv'
           /\ \A c \in Callers : CallProceeds(c) => LifeInv'
           /\ \A e \in Evals : Evaluate(e) \/ CheckCancelled(e) \/ Evaluated(e) => LifeInv'
           /\ UNCHANGED vars => LifeInv'
<1> USE LeftsDiffer
<1>1. /\ Probe \in Callers /\ Handlers \subseteq Callers \ {Probe}
      /\ Evals \subseteq Callers \ {Probe}
      /\ \A h \in Handlers, e \in Evals : h # e
      /\ \A c \in Callers : c = Probe \/ c \in Handlers \/ c \in Evals
  BY ProcessAssumption
<1> USE DEF LifeInv, LifeTypeOK, TelegramOver, HealthOver, Lefts, Quiet, Busy
<1>2. CASE StartupFails \/ TelegramFails \/ Signal
  <2>1. CASE StartupFails
    BY <2>1 DEF StartupFails, mcpVars
  <2>2. CASE TelegramFails
    BY <2>2 DEF TelegramFails, mcpVars
  <2>3. CASE Signal
    BY <2>3 DEF Signal, mcpVars
  <2> QED BY <1>2, <2>1, <2>2, <2>3
<1>3. CASE ServerCrashes
  BY <1>3 DEF ServerCrashes, Crash, lifeVars
<1>4. ASSUME NEW h \in Handlers, HandlerCalls(h) PROVE LifeInv'
  <2>1. /\ call[h].at = "idle" /\ \A d \in Callers \ {h} : call'[d].at = call[d].at
        /\ session = None => session' = None
    BY <1>1, <1>4, BeginMoves DEF HandlerCalls
  <2> QED BY <1>1, <1>4, <2>1 DEF HandlerCalls, lifeVars
<1>5. ASSUME NEW h \in Handlers, HandlerEnds(h) PROVE LifeInv'
  <2>1. call'[h].at = "idle" /\ \A d \in Callers \ {h} : call'[d] = call[d]
    BY <1>1, <1>5, TookMoves DEF HandlerEnds
  <2> QED BY <1>1, <1>5, <2>1 DEF HandlerEnds, lifeVars
<1>6. ASSUME NEW c \in Callers, CallProceeds(c) PROVE LifeInv'
  <2>1. Busy(c) /\ \A d \in Callers \ {c} : call'[d] = call[d]
    BY <1>6, CallStepMoves DEF CallProceeds
  <2>2. phase # "ended" /\ UNCHANGED lifeVars
    BY <1>6 DEF CallProceeds
  <2>3. steps = <<>> => raised
    BY <1>1, <2>1, <2>2
  <2> QED BY <1>1, <2>1, <2>2, <2>3 DEF lifeVars
<1>7. ASSUME NEW e \in Evals, Evaluate(e) PROVE LifeInv'
  <2>1. /\ call[e].at = "idle" /\ \A d \in Callers \ {e} : call'[d].at = call[d].at
        /\ session = None => session' = None
    BY <1>1, <1>7, BeginMoves DEF Evaluate, Tools
  <2> QED BY <1>1, <1>7, <2>1 DEF Evaluate, lifeVars
<1>8. ASSUME NEW e \in Evals, CheckCancelled(e) PROVE LifeInv'
  <2>1. /\ session' = session /\ call'[e].at = "done"
        /\ \A d \in Callers \ {e} : call'[d] = call[d]
    BY <1>1, <1>8, CancelledMoves DEF CheckCancelled
  <2> QED BY <1>1, <1>8, <2>1 DEF CheckCancelled, lifeVars
<1>9. ASSUME NEW e \in Evals, Evaluated(e) PROVE LifeInv'
  <2>1. call'[e].at = "idle" /\ \A d \in Callers \ {e} : call'[d] = call[d]
    BY <1>1, <1>9, TookMoves DEF Evaluated
  <2> QED BY <1>1, <1>9, <2>1 DEF Evaluated, lifeVars
<1>10. CASE UNCHANGED vars
  BY <1>10 DEF vars, mcpVars, lifeVars
<1> QED BY <1>2, <1>3, <1>4, <1>5, <1>6, <1>7, <1>8, <1>9, <1>10

\* __main__.py:129-150: after a start that got as far as Telegram, a run() that
\* has returned left nothing: the health server is down, the adapter holds no
\* subprocess and nobody is in a call, unless Telegram's own stop raised; and the
\* application is down, unless that, or its start never ended.
THEOREM NothingEverOutlivesTheEnd == Spec => []NothingOutlivesTheEnd
<1>1. Init => LifeInv
  <2> SUFFICES ASSUME Init PROVE LifeInv
    OBVIOUS
  <2>1. \A c \in Callers : call[c].at = "idle"
    BY DEF Init, McpInit, NoCall
  <2>2. \A c \in Callers : ~Busy(c)
    BY <2>1 DEF Busy
  <2>3. /\ phase = "settings" /\ telegram = "down" /\ running = FALSE /\ checks = {}
        /\ serving = FALSE /\ stopping = FALSE /\ steps = TeardownSteps /\ raised = FALSE
        /\ probed = 0
    BY DEF Init
  <2>4. ~TelegramOver /\ ~HealthOver /\ steps \notin {ApplicationLeft, <<>>}
    BY <2>3, LeftsDiffer DEF TelegramOver, HealthOver
  <2>5. LifeTypeOK
    <3>1. steps \in Lefts /\ checks \subseteq {"notediscovery", "sessions", "llm", "telegram"}
      BY <2>3 DEF Lefts
    <3>2. /\ running \in BOOLEAN /\ serving \in BOOLEAN /\ stopping \in BOOLEAN
          /\ raised \in BOOLEAN
      BY <2>3
    <3>3. probed \in 0..2
      BY <2>3
    <3> QED BY <2>3, <3>1, <3>2, <3>3 DEF LifeTypeOK
  <2>6. \A h \in Handlers : Quiet(h)
    BY <2>1, ProcessAssumption DEF Quiet
  <2> QED BY <2>3, <2>4, <2>5, <2>6 DEF LifeInv
<1>2. McpInv /\ LifeInv /\ [Next]_vars => LifeInv'
  <2> SUFFICES ASSUME McpInv, LifeInv, [Next]_vars PROVE LifeInv'
    OBVIOUS
  <2>1. CallsFit
    BY DEF McpInv, CallsFit
  <2> QED BY <2>1, RunStepLives, RaisedStopLives, CallersLive DEF Next
<1>3. LifeInv => NothingOutlivesTheEnd
  <2> SUFFICES ASSUME LifeInv, phase = "ended", probed = 2 PROVE NothingOutlivesTheEnd
    BY DEF NothingOutlivesTheEnd
  <2>1. steps = <<>> /\ call[Probe].at = "idle"
    BY DEF LifeInv
  <2>2. TelegramOver /\ HealthOver
    BY <2>1 DEF TelegramOver, HealthOver
  <2>3. raised \/ \A h \in Handlers : Quiet(h)
    BY <2>2 DEF LifeInv
  <2>4. \A c \in Callers : c = Probe \/ c \in Handlers \/ c \in Evals
    BY ProcessAssumption
  <2>5. raised \/ \A c \in Callers : ~Busy(c)
    BY <2>1, <2>2, <2>3, <2>4 DEF LifeInv, Quiet, Busy
  <2> QED BY <2>1, <2>2, <2>5 DEF LifeInv, NothingOutlivesTheEnd
<1> QED BY <1>1, <1>2, <1>3, McpInvariant, PTL DEF Spec

-----------------------------------------------------------------------------
(* Browsing: sets put in order. *)

\* A strict total order on S, as a set of pairs.
Orders(R, S) ==
    /\ \A x \in S : <<x, x>> \notin R
    /\ \A x, y \in S : x # y => <<x, y>> \in R \/ <<y, x>> \in R
    /\ \A x, y, z \in S : <<x, y>> \in R /\ <<y, z>> \in R => <<x, z>> \in R

\* Ordered lists every element of a finite set once, in the given order.
LEMMA OrderedEnumerates ==
    ASSUME NEW S, IsFiniteSet(S), NEW R, Orders(R, S)
    PROVE  /\ Cardinality(S) \in Nat
           /\ Ordered(S, R) \in [1..Cardinality(S) -> S]
           /\ \A x \in S : \E i \in 1..Cardinality(S) : Ordered(S, R)[i] = x
           /\ \A i, j \in 1..Cardinality(S) :
                 i < j => <<Ordered(S, R)[i], Ordered(S, R)[j]>> \in R
           /\ \A i, j \in 1..Cardinality(S) : Ordered(S, R)[i] = Ordered(S, R)[j] => i = j
<1> DEFINE n == Cardinality(S)
           Below(x) == {y \in S : <<y, x>> \in R}
           rank == [x \in S |-> Cardinality(Below(x)) + 1]
           s == Ordered(S, R)
<1>1. n \in Nat
  BY FS_CardinalityType
<1>2. \A x \in S : IsFiniteSet(Below(x)) /\ Cardinality(Below(x)) \in 0..n - 1
  <2> TAKE x \in S
  <2>1. Below(x) \in SUBSET S /\ Below(x) # S
    BY DEF Orders
  <2>2. IsFiniteSet(Below(x)) /\ Cardinality(Below(x)) <= n /\ Cardinality(Below(x)) # n
    BY <2>1, FS_Subset
  <2>3. Cardinality(Below(x)) \in Nat
    BY <2>2, FS_CardinalityType
  <2> QED  BY <1>1, <2>2, <2>3
<1>3. \A x, y \in S : <<x, y>> \in R => rank[x] < rank[y]
  <2> SUFFICES ASSUME NEW x \in S, NEW y \in S, <<x, y>> \in R PROVE rank[x] < rank[y]
    OBVIOUS
  <2>1. Below(x) \in SUBSET Below(y) /\ x \in Below(y) /\ x \notin Below(x)
    BY DEF Orders
  <2>2. Cardinality(Below(x)) <= Cardinality(Below(y)) /\ Cardinality(Below(x)) # Cardinality(Below(y))
    BY <1>2, <2>1, FS_Subset
  <2> QED  BY <1>2, <2>2
<1>4. rank \in [S -> 1..n]
  <2>1. \A x \in S : Cardinality(Below(x)) + 1 \in 1..n
    <3> TAKE x \in S
    <3>1. Cardinality(Below(x)) \in 0..n - 1
      BY <1>2
    <3> HIDE DEF Below, n
    <3> QED  BY <1>1, <3>1
  <2> QED  BY <2>1
<1>5. rank \in Injection(S, 1..n)
  <2> HIDE DEF rank, n
  <2>1. SUFFICES ASSUME NEW x \in S, NEW y \in S, rank[x] = rank[y], x # y PROVE FALSE
    BY <1>4 DEF Injection, IsInjective
  <2>2. rank[x] < rank[y] \/ rank[y] < rank[x]
    BY <1>3, <2>1 DEF Orders
  <2>3. rank[x] \in Int /\ rank[y] \in Int
    BY <1>1, <1>4
  <2> QED  BY <2>1, <2>2, <2>3
<1>6. rank \in Surjection(S, 1..n)
  <2>1. IsFiniteSet(1..n) /\ Cardinality(1..n) = n
    BY <1>1, FS_Interval
  <2> HIDE DEF n, rank
  <2> QED  BY <1>5, <2>1, FS_Injection DEF n
<1>7. \A i \in 1..n : s[i] \in S /\ rank[s[i]] = i
  <2> TAKE i \in 1..n
  <2>1. PICK x \in S : rank[x] = i
    BY <1>6 DEF Surjection
  <2>2. Cardinality(Below(x)) = i - 1
    <3>1. Cardinality(Below(x)) + 1 = i
      BY <2>1
    <3>2. Cardinality(Below(x)) \in 0..n - 1
      BY <1>2
    <3> HIDE DEF Below, n
    <3> QED  BY <1>1, <3>1, <3>2
  <2>3. \E z \in S : Cardinality({y \in S : <<y, z>> \in R}) = i - 1
    BY <2>2
  <2>4. s[i] = CHOOSE z \in S : Cardinality({y \in S : <<y, z>> \in R}) = i - 1
    BY DEF Ordered
  <2>5. s[i] \in S /\ Cardinality(Below(s[i])) = i - 1
    BY <2>3, <2>4
  <2> QED  BY <2>5
<1>8. s \in [1..n -> S]
  BY <1>7 DEF Ordered
<1>9. \A x \in S : \E i \in 1..n : s[i] = x
  <2> TAKE x \in S
  <2>1. rank[x] \in 1..n
    BY <1>4
  <2>2. s[rank[x]] \in S /\ rank[s[rank[x]]] = rank[x]
    BY <1>7, <2>1
  <2> QED  BY <1>5, <2>1, <2>2 DEF Injection, IsInjective
<1>10. \A i, j \in 1..n : s[i] = s[j] => i = j
  BY <1>7
<1>11. \A i, j \in 1..n : i < j => <<s[i], s[j]>> \in R
  <2> SUFFICES ASSUME NEW i \in 1..n, NEW j \in 1..n, i < j PROVE <<s[i], s[j]>> \in R
    OBVIOUS
  <2>1. s[i] \in S /\ s[j] \in S /\ s[i] # s[j] /\ rank[s[i]] < rank[s[j]]
    BY <1>7
  <2>2. ~ (rank[s[j]] < rank[s[i]])
    BY <2>1, <1>7
  <2> HIDE DEF s, rank
  <2> QED  BY <1>3, <2>1, <2>2 DEF Orders
<1> QED  BY <1>1, <1>8, <1>9, <1>10, <1>11

\* A set of naturals has a least element.
LEMMA LeastElement ==
    ASSUME NEW T, T \subseteq Nat, T # {}
    PROVE  \E x \in T : \A y \in T : x <= y
<1>1. IsWellFoundedOn(OpToRel(<, Nat), Nat)
  BY NatLessThanWellFounded
<1>2. PICK x \in T : \A y \in T : ~(<<y, x>> \in OpToRel(<, Nat))
  BY <1>1, WFMin
<1>3. \A y \in T : ~(y < x)
  BY <1>2 DEF OpToRel
<1> QED BY <1>3

\* A normalised path is a non-empty sequence of names, each with a place.
LEMMA PathsAreSequences ==
    ASSUME NEW p \in NamePaths
    PROVE  /\ Len(p) \in Nat \ {0} /\ DOMAIN p = 1..Len(p)
           /\ p \in Seq(Names) /\ p \in Seq(Segments) /\ p # <<>>
           /\ \A i \in 1..Len(p) : p[i] \in Names /\ p[i] \in Segments /\ Place[p[i]] \in Nat
<1>1. p \in Seq(Names) /\ p # <<>> /\ Names \subseteq Segments
  BY DEF NamePaths, Names
<1>2. Len(p) \in Nat \ {0} /\ DOMAIN p = 1..Len(p)
  BY <1>1, EmptySeq, LenProperties
<1>3. \A i \in 1..Len(p) : p[i] \in Names
  BY <1>1, ElementOfSeq
<1>4. p \in Seq(Segments)
  BY <1>1, SeqMonotonic
<1> QED  BY <1>1, <1>2, <1>3, <1>4, TreeAssumption

\* The parent of a path is the path without its last name.
LEMMA ParentIsAllButTheLast ==
    ASSUME NEW p \in NamePaths
    PROVE  /\ Parent(p) = SubSeq(p, 1, Len(p) - 1) /\ Parent(p) \in Seq(Names)
           /\ Len(Parent(p)) = Len(p) - 1
           /\ \A i \in 1..Len(p) - 1 : Parent(p)[i] = p[i]
<1>1. /\ p # <<>> /\ Len(p) \in Nat \ {0}
      /\ \A i \in 1..Len(p) - 1 : p[i] \in Names
  BY PathsAreSequences
<1>2. Parent(p) = SubSeq(p, 1, Len(p) - 1)
  BY <1>1 DEF Parent, Front
<1> DEFINE l == Len(p) - 1
           f == SubSeq(p, 1, l)
<1>3. l \in Nat /\ \A i \in 1..l : p[i] \in Names
  BY <1>1
<1> HIDE DEF l
<1>4. /\ f \in Seq(Names)
      /\ Len(f) = IF 1 <= l THEN l - 1 + 1 ELSE 0
      /\ \A i \in 1..l - 1 + 1 : f[i] = p[1 + i - 1]
  BY <1>3, SubSeqProperties
<1> HIDE DEF f
<1>5. Len(f) = l /\ \A i \in 1..l : f[i] = p[i]
  BY <1>3, <1>4
<1> QED  BY <1>2, <1>4, <1>5 DEF f, l

\* Two paths are equal, or one comes before the other in the walk.
LEMMA WalkIsTotal ==
    ASSUME NEW m \in NamePaths, NEW n \in NamePaths, m # n
    PROVE  WalkBefore(m, n) \/ WalkBefore(n, m)
<1> DEFINE T == {i \in 1..Len(m) : i <= Len(n) /\ (m[i] # n[i] \/ i = Len(m) \/ i = Len(n))}
<1>1. /\ Len(m) \in Nat \ {0} /\ Len(n) \in Nat \ {0} /\ m \in Seq(Names) /\ n \in Seq(Names)
      /\ \A i \in 1..Len(m) : m[i] \in Segments /\ Place[m[i]] \in Nat
      /\ \A i \in 1..Len(n) : n[i] \in Segments /\ Place[n[i]] \in Nat
  BY PathsAreSequences
<1>2. T \subseteq Nat /\ T # {}
  <2>1. CASE Len(m) <= Len(n)
    <3>1. Len(m) \in T
      BY <1>1, <2>1
    <3> QED  BY <1>1, <3>1
  <2>2. CASE Len(n) <= Len(m)
    <3>1. Len(n) \in T
      BY <1>1, <2>2
    <3> QED  BY <1>1, <3>1
  <2> QED  BY <1>1, <2>1, <2>2
<1>3. PICK i \in T : \A j \in T : i <= j
  <2> HIDE DEF T
  <2> QED  BY <1>2, LeastElement
<1>4. i \in 1..Len(m) /\ i \in 1..Len(n) /\ (m[i] # n[i] \/ i = Len(m) \/ i = Len(n))
  BY <1>1, <1>3
<1>5. \A k \in 1..(i - 1) : m[k] = n[k]
  BY <1>1, <1>3, <1>4
<1>6. CASE i = Len(m) /\ i = Len(n)
  <2>1. m[i] # n[i]
    <3>1. SUFFICES ASSUME m[i] = n[i] PROVE FALSE
      OBVIOUS
    <3>2. \A k \in 1..Len(m) : m[k] = n[k]
      BY <1>1, <1>4, <1>5, <1>6, <3>1
    <3> QED  BY <1>1, <1>6, <3>2, SeqEqual
  <2>2. Place[m[i]] # Place[n[i]]
    BY <1>1, <1>4, <2>1, TreeAssumption
  <2>3. Place[m[i]] < Place[n[i]] \/ Place[n[i]] < Place[m[i]]
    BY <1>1, <1>4, <2>2
  <2> QED  BY <1>1, <1>4, <1>5, <1>6, <2>3 DEF WalkBefore
<1>7. CASE i = Len(m) /\ i # Len(n)
  BY <1>1, <1>4, <1>5, <1>7 DEF WalkBefore
<1>8. CASE i # Len(m) /\ i = Len(n)
  BY <1>1, <1>4, <1>5, <1>8 DEF WalkBefore
<1>9. CASE i # Len(m) /\ i # Len(n)
  <2>1. Place[m[i]] # Place[n[i]]
    BY <1>1, <1>4, <1>9, TreeAssumption
  <2>2. Place[m[i]] < Place[n[i]] \/ Place[n[i]] < Place[m[i]]
    BY <1>1, <1>4, <2>1
  <2> QED  BY <1>1, <1>4, <1>5, <1>9, <2>2 DEF WalkBefore
<1> QED  BY <1>6, <1>7, <1>8, <1>9

\* Nothing comes before itself.
LEMMA WalkIsIrreflexive ==
    ASSUME NEW m \in NamePaths PROVE ~WalkBefore(m, m)
BY PathsAreSequences DEF WalkBefore

\* What comes before in the walk comes before all that follows.
LEMMA WalkIsTransitive ==
    ASSUME NEW m \in NamePaths, NEW n \in NamePaths, NEW o \in NamePaths,
           WalkBefore(m, n), WalkBefore(n, o)
    PROVE  WalkBefore(m, o)
<1>1. /\ Len(m) \in Nat \ {0} /\ Len(n) \in Nat \ {0} /\ Len(o) \in Nat \ {0}
      /\ \A i \in 1..Len(m) : Place[m[i]] \in Nat
      /\ \A i \in 1..Len(n) : Place[n[i]] \in Nat
      /\ \A i \in 1..Len(o) : Place[o[i]] \in Nat
  BY PathsAreSequences
<1>2. PICK i \in 1..Len(m) :
        /\ i <= Len(n)
        /\ \A k \in 1..(i - 1) : m[k] = n[k]
        /\ \/ i = Len(m) /\ i < Len(n)
           \/ (i = Len(m) <=> i = Len(n)) /\ Place[m[i]] < Place[n[i]]
  BY DEF WalkBefore
<1>3. PICK j \in 1..Len(n) :
        /\ j <= Len(o)
        /\ \A k \in 1..(j - 1) : n[k] = o[k]
        /\ \/ j = Len(n) /\ j < Len(o)
           \/ (j = Len(n) <=> j = Len(o)) /\ Place[n[j]] < Place[o[j]]
  BY DEF WalkBefore
<1>4. i \in 1..Len(n) /\ j \in 1..Len(o)
  BY <1>1, <1>2, <1>3
<1>5. CASE i < j
  <2>1. n[i] = o[i] /\ i < Len(n) /\ i < Len(o) /\ i \in 1..Len(o)
    BY <1>1, <1>3, <1>4, <1>5
  <2>2. \A k \in 1..(i - 1) : m[k] = o[k]
    BY <1>1, <1>2, <1>3, <1>4, <1>5
  <2> QED  BY <1>1, <1>2, <2>1, <2>2 DEF WalkBefore
<1>6. CASE j < i
  <2>1. m[j] = n[j] /\ j < Len(n) /\ j < Len(m) /\ j \in 1..Len(m)
    BY <1>1, <1>2, <1>4, <1>6
  <2>2. \A k \in 1..(j - 1) : m[k] = o[k]
    BY <1>1, <1>2, <1>3, <1>4, <1>6
  <2> QED  BY <1>1, <1>3, <1>4, <2>1, <2>2 DEF WalkBefore
<1>7. CASE i = j
  <2>1. \A k \in 1..(i - 1) : m[k] = o[k]
    BY <1>1, <1>2, <1>3, <1>4, <1>7
  <2>2. \/ i = Len(m) /\ i < Len(o)
        \/ (i = Len(m) <=> i = Len(o)) /\ Place[m[i]] < Place[o[i]]
    BY <1>1, <1>2, <1>3, <1>4, <1>7
  <2> QED  BY <1>3, <1>4, <1>7, <2>1, <2>2 DEF WalkBefore
<1> QED  BY <1>1, <1>4, <1>5, <1>6, <1>7

\* _walk_notes (navigation.py): the walk puts any two notes in one order, so which
\* note keeps a key in the index is settled by the tree alone.
THEOREM WalkOrders ==
    ASSUME NEW S \in SUBSET NamePaths
    PROVE  Orders({p \in S \X S : WalkBefore(p[1], p[2])}, S)
BY WalkIsTotal, WalkIsIrreflexive, WalkIsTransitive DEF Orders

\* The names of a folder's children order them.
LEMMA NamesOrder ==
    ASSUME NEW S \in SUBSET (NamePaths \cup {<<>>}), NEW folder
    PROVE  Orders(ByName(Children(S, folder)), Children(S, folder))
<1> DEFINE C == Children(S, folder)
<1>1. \A p \in C : /\ p \in NamePaths /\ p # <<>>
                   /\ Len(p) \in Nat \ {0} /\ p[Len(p)] \in Segments /\ Place[p[Len(p)]] \in Nat
  BY PathsAreSequences DEF Children, Parent
<1>2. \A p, q \in C : p[Len(p)] = q[Len(q)] => p = q
  <2> SUFFICES ASSUME NEW p \in C, NEW q \in C, p[Len(p)] = q[Len(q)] PROVE p = q
    OBVIOUS
  <2>1. p \in Seq(Names) /\ q \in Seq(Names) /\ Len(p) \in Nat \ {0} /\ Len(q) \in Nat \ {0}
    BY <1>1 DEF NamePaths
  <2>2. Parent(p) = Parent(q)
    BY DEF Children
  <2>3. /\ Len(Parent(p)) = Len(p) - 1 /\ Len(Parent(q)) = Len(q) - 1
        /\ \A i \in 1..Len(p) - 1 : Parent(p)[i] = p[i]
        /\ \A i \in 1..Len(q) - 1 : Parent(q)[i] = q[i]
    BY <1>1, ParentIsAllButTheLast
  <2>4. Len(p) = Len(q)
    BY <2>1, <2>2, <2>3
  <2>5. \A i \in 1..Len(p) : p[i] = q[i]
    BY <2>1, <2>2, <2>3, <2>4
  <2> QED  BY <2>1, <2>4, <2>5, SeqEqual
<1>3. \A p, q \in C : p # q => Place[p[Len(p)]] < Place[q[Len(q)]] \/ Place[q[Len(q)]] < Place[p[Len(p)]]
  <2> SUFFICES ASSUME NEW p \in C, NEW q \in C, p # q
               PROVE  Place[p[Len(p)]] < Place[q[Len(q)]] \/ Place[q[Len(q)]] < Place[p[Len(p)]]
    OBVIOUS
  <2>1. Place[p[Len(p)]] # Place[q[Len(q)]]
    BY <1>1, <1>2, TreeAssumption
  <2> QED  BY <1>1, <2>1
<1>4. \A p, q \in C : <<p, q>> \in ByName(C) <=> Place[p[Len(p)]] < Place[q[Len(q)]]
  <2> HIDE DEF C
  <2> QED  BY DEF ByName, Last
<1> HIDE DEF C
<1>5. \A p \in C : <<p, p>> \notin ByName(C)
  BY <1>1, <1>4
<1>6. \A p, q \in C : p # q => <<p, q>> \in ByName(C) \/ <<q, p>> \in ByName(C)
  BY <1>3, <1>4
<1>7. \A p, q, r \in C : <<p, q>> \in ByName(C) /\ <<q, r>> \in ByName(C) => <<p, r>> \in ByName(C)
  BY <1>1, <1>4
<1> QED  BY <1>5, <1>6, <1>7 DEF Orders, C

\* What build_tree makes: finite, with every folder's parents and every note's.
IsTree(t) ==
    /\ IsFiniteSet(t.folders) /\ t.folders \subseteq Seq(Names) /\ <<>> \in t.folders
    /\ IsFiniteSet(t.notes) /\ t.notes \subseteq NamePaths
    /\ \A f \in t.folders : \A n \in 0..Len(f) : SubSeq(f, 1, n) \in t.folders
    /\ \A n \in t.notes : Parent(n) \in t.folders

IsListing(v) ==
    /\ v = [folders |-> v.folders, notes |-> v.notes]
    /\ IsFiniteSet(v.folders) /\ v.folders \subseteq NamePaths
    /\ IsFiniteSet(v.notes) /\ v.notes \subseteq NamePaths

\* The first names of a path.
LEMMA PrefixProperties ==
    ASSUME NEW T, NEW p \in Seq(T), NEW n \in 0..Len(p)
    PROVE  /\ SubSeq(p, 1, n) \in Seq(T) /\ Len(SubSeq(p, 1, n)) = n
           /\ \A i \in 1..n : SubSeq(p, 1, n)[i] = p[i]
<1>1. n \in Nat /\ \A i \in 1..n : p[i] \in T
  <2>1. Len(p) \in Nat /\ \A i \in 1..Len(p) : p[i] \in T
    BY LenProperties, ElementOfSeq
  <2> QED  BY <2>1
<1> DEFINE f == SubSeq(p, 1, n)
<1>2. /\ f \in Seq(T)
      /\ Len(f) = IF 1 <= n THEN n - 1 + 1 ELSE 0
      /\ \A i \in 1..n - 1 + 1 : f[i] = p[1 + i - 1]
  BY <1>1, SubSeqProperties
<1> HIDE DEF f
<1>3. Len(f) = n /\ \A i \in 1..n : f[i] = p[i]
  BY <1>1, <1>2
<1> QED  BY <1>2, <1>3 DEF f

\* ensure stops at a folder that is there already: its parents are there too.
LEMMA EnsuredIsClosed ==
    ASSUME NEW f \in Seq(Names)
    PROVE  /\ IsFiniteSet(Ensured(f)) /\ Ensured(f) \subseteq Seq(Names)
           /\ <<>> \in Ensured(f) /\ f \in Ensured(f)
           /\ \A g \in Ensured(f) : \A n \in 0..Len(g) : SubSeq(g, 1, n) \in Ensured(f)
<1>1. Len(f) \in Nat
  BY LenProperties
<1>2. IsFiniteSet(Ensured(f))
  <2> DEFINE h == [n \in 0..Len(f) |-> SubSeq(f, 1, n)]
  <2>1. h \in Surjection(0..Len(f), Ensured(f))
    BY DEF Surjection, Ensured
  <2>2. IsFiniteSet(0..Len(f))
    BY <1>1, FS_Interval
  <2> HIDE DEF h
  <2> QED  BY <2>1, <2>2, FS_Surjection
<1>3. Ensured(f) \subseteq Seq(Names)
  BY PrefixProperties DEF Ensured
<1>4. f \in Ensured(f)
  BY <1>1, SubSeqFull DEF Ensured
<1>5. <<>> \in Ensured(f)
  BY <1>1, SubSeqEmpty DEF Ensured
<1>6. \A g \in Ensured(f) : \A n \in 0..Len(g) : SubSeq(g, 1, n) \in Ensured(f)
  <2> SUFFICES ASSUME NEW g \in Ensured(f), NEW n \in 0..Len(g)
               PROVE  SubSeq(g, 1, n) \in Ensured(f)
    OBVIOUS
  <2>1. PICK k \in 0..Len(f) : g = SubSeq(f, 1, k)
    BY DEF Ensured
  <2>2. g \in Seq(Names) /\ Len(g) = k /\ \A i \in 1..k : g[i] = f[i]
    BY <2>1, PrefixProperties
  <2>3. n \in 0..k /\ n \in 0..Len(f)
    BY <1>1, <2>2
  <2>4. SubSeq(g, 1, n) \in Seq(Names) /\ Len(SubSeq(g, 1, n)) = n /\ \A i \in 1..n : SubSeq(g, 1, n)[i] = g[i]
    BY <2>2, PrefixProperties
  <2>5. SubSeq(f, 1, n) \in Seq(Names) /\ Len(SubSeq(f, 1, n)) = n /\ \A i \in 1..n : SubSeq(f, 1, n)[i] = f[i]
    BY <2>3, PrefixProperties
  <2> DEFINE x == SubSeq(g, 1, n)
             y == SubSeq(f, 1, n)
  <2>6. x \in Seq(Names) /\ y \in Seq(Names) /\ Len(x) = Len(y) /\ \A i \in 1..Len(x) : x[i] = y[i]
    <3>1. \A i \in 1..n : x[i] = y[i]
      BY <2>2, <2>3, <2>4, <2>5
    <3> QED  BY <2>4, <2>5, <3>1
  <2>7. x = y
    <3> HIDE DEF x, y
    <3> QED  BY <2>6, SeqEqual
  <2> QED  BY <2>3, <2>7 DEF Ensured
<1> QED  BY <1>2, <1>3, <1>4, <1>5, <1>6

\* build_tree (tree.py:22-45): of whatever the server lists it makes a tree, with
\* every folder on the way to a note or a listed folder, and the root.
THEOREM BuildTreeMakesATree ==
    ASSUME NEW v, IsListing(v)
    PROVE  IsTree(BuildTree(v)) /\ BuildTree(v) # NoTree
<1> DEFINE A == {Ensured(f) : f \in v.folders}
           B == {Ensured(Parent(n)) : n \in v.notes}
           t == BuildTree(v)
<1>1. /\ t.folders = {<<>>} \cup (UNION A) \cup (UNION B)
      /\ t.notes = v.notes
  BY DEF BuildTree
<1>2. /\ IsFiniteSet(v.folders) /\ IsFiniteSet(v.notes)
      /\ \A f \in v.folders : f \in Seq(Names)
      /\ \A n \in v.notes : n \in NamePaths /\ Parent(n) \in Seq(Names)
  BY ParentIsAllButTheLast DEF IsListing, NamePaths
<1>3. IsFiniteSet(UNION A)
  <2> DEFINE h == [f \in v.folders |-> Ensured(f)]
  <2>1. h \in Surjection(v.folders, A)
    BY DEF Surjection
  <2>2. IsFiniteSet(A)
    <3> HIDE DEF h, A
    <3> QED  BY <1>2, <2>1, FS_Surjection
  <2>3. \A X \in A : IsFiniteSet(X)
    BY <1>2, EnsuredIsClosed
  <2> HIDE DEF A
  <2> QED  BY <2>2, <2>3, FS_UNION
<1>4. IsFiniteSet(UNION B)
  <2> DEFINE h == [n \in v.notes |-> Ensured(Parent(n))]
  <2>1. h \in Surjection(v.notes, B)
    BY DEF Surjection
  <2>2. IsFiniteSet(B)
    <3> HIDE DEF h, B
    <3> QED  BY <1>2, <2>1, FS_Surjection
  <2>3. \A X \in B : IsFiniteSet(X)
    BY <1>2, EnsuredIsClosed
  <2> HIDE DEF B
  <2> QED  BY <2>2, <2>3, FS_UNION
<1>5. IsFiniteSet(t.folders)
  <2> HIDE DEF A, B, t
  <2>1. IsFiniteSet({<<>>} \cup (UNION A))
    BY <1>3, FS_Singleton, FS_Union
  <2>2. IsFiniteSet({<<>>} \cup (UNION A) \cup (UNION B))
    BY <1>4, <2>1, FS_Union
  <2>3. t.folders = {<<>>} \cup (UNION A) \cup (UNION B)
    BY <1>1, Zenon
  <2> QED  BY <2>2, <2>3, Zenon
<1>6. \A X \in A \cup B : \E f \in Seq(Names) : X = Ensured(f)
  BY <1>2
<1>7. \A g \in t.folders : g = <<>> \/ \E f \in Seq(Names) : g \in Ensured(f) /\ Ensured(f) \subseteq t.folders
  <2> HIDE DEF A, B, t
  <2> DEFINE W == t.folders
  <2>0. W = {<<>>} \cup (UNION A) \cup (UNION B)
    BY <1>1, Zenon
  <2> HIDE DEF W
  <2>1. \A X \in A \cup B : X \subseteq W
    BY <2>0
  <2>2. \A g \in W : g = <<>> \/ \E X \in A \cup B : g \in X
    BY <2>0
  <2>3. \A g \in W : g = <<>> \/ \E f \in Seq(Names) : g \in Ensured(f) /\ Ensured(f) \subseteq W
    BY <1>6, <2>1, <2>2
  <2> QED  BY <2>3 DEF W
<1>8. t.folders \subseteq Seq(Names) /\ <<>> \in t.folders
  <2>1. <<>> \in Seq(Names)
    BY EmptySeq
  <2> HIDE DEF A, B, t
  <2> QED  BY <1>1, <1>7, <2>1, EnsuredIsClosed
<1>9. \A g \in t.folders : \A n \in 0..Len(g) : SubSeq(g, 1, n) \in t.folders
  <2> SUFFICES ASSUME NEW g \in t.folders, NEW n \in 0..Len(g) PROVE SubSeq(g, 1, n) \in t.folders
    OBVIOUS
  <2> HIDE DEF A, B, t
  <2>1. CASE g = <<>>
    <3>1. n = 0 /\ SubSeq(g, 1, n) = <<>>
      BY <2>1, SubSeqEmpty, EmptySeq
    <3> QED  BY <1>8, <3>1
  <2>2. CASE g # <<>>
    BY <1>7, <2>2, EnsuredIsClosed
  <2> QED  BY <2>1, <2>2
<1>10. \A n \in t.notes : Parent(n) \in t.folders
  <2> SUFFICES ASSUME NEW n \in v.notes PROVE Parent(n) \in t.folders
    BY <1>1
  <2>1. Parent(n) \in Ensured(Parent(n)) /\ Ensured(Parent(n)) \in B
    BY <1>2, EnsuredIsClosed
  <2>2. (UNION B) \subseteq t.folders
    BY <1>1
  <2> HIDE DEF A, B, t
  <2> QED  BY <2>1, <2>2
<1>11. t.notes \subseteq NamePaths /\ IsFiniteSet(t.notes)
  BY <1>1, <1>2
<1>12. t # NoTree
  BY <1>8 DEF NoTree
<1> HIDE DEF t
<1> QED  BY <1>5, <1>8, <1>9, <1>10, <1>11, <1>12 DEF IsTree, t

-----------------------------------------------------------------------------
(* Listings. *)

Kinds == {"folder", "note"}
EntryRecords == [kind : Kinds, path : Seq(Segments)]

\* Whether a sequence lists entries, each once.
Lists(entries) ==
    /\ entries \in Seq(EntryRecords)
    /\ \A i, j \in 1..Len(entries) : entries[i] = entries[j] => i = j

\* The walk lists every note once, in its order.
LEMMA WalkEnumerates ==
    ASSUME NEW S \in SUBSET NamePaths, IsFiniteSet(S)
    PROVE  /\ Cardinality(S) \in Nat
           /\ Walk(S) \in [1..Cardinality(S) -> S]
           /\ Walk(S) \in Seq(S) /\ Len(Walk(S)) = Cardinality(S)
           /\ \A x \in S : \E i \in 1..Cardinality(S) : Walk(S)[i] = x
           /\ \A i, j \in 1..Cardinality(S) : i < j => WalkBefore(Walk(S)[i], Walk(S)[j])
           /\ \A i, j \in 1..Cardinality(S) : Walk(S)[i] = Walk(S)[j] => i = j
<1> DEFINE R == {p \in S \X S : WalkBefore(p[1], p[2])}
           w == Ordered(S, R)
<1>1. Orders(R, S) /\ Walk(S) = w
  BY WalkOrders DEF Walk
<1> HIDE DEF R
<1>2. /\ Cardinality(S) \in Nat
      /\ w \in [1..Cardinality(S) -> S]
      /\ \A x \in S : \E i \in 1..Cardinality(S) : w[i] = x
      /\ \A i, j \in 1..Cardinality(S) : i < j => <<w[i], w[j]>> \in R
      /\ \A i, j \in 1..Cardinality(S) : w[i] = w[j] => i = j
  BY <1>1, OrderedEnumerates
<1> HIDE DEF w
<1>3. w \in Seq(S) /\ Len(w) = Cardinality(S)
  BY <1>2
<1>4. \A x, y \in S : <<x, y>> \in R => WalkBefore(x, y)
  BY DEF R
<1> QED  BY <1>1, <1>2, <1>3, <1>4

\* NavigationService.folder (navigation.py): the listing of a folder shows all its
\* children and nothing else, each once, subfolders before notes and both by name.
THEOREM EntriesListChildren ==
    ASSUME NEW t, IsTree(t), NEW folder
    PROVE  /\ Lists(Entries(t, folder))
           /\ \A i \in 1..Len(Entries(t, folder)) :
                 Entries(t, folder)[i] \in
                     [kind : {"folder"}, path : Children(t.folders, folder)]
                     \cup [kind : {"note"}, path : Children(t.notes, folder)]
           /\ Len(Entries(t, folder)) = 0 =>
                 Children(t.folders, folder) = {} /\ Children(t.notes, folder) = {}
           /\ \A p \in Children(t.folders, folder) : \E i \in 1..Len(Entries(t, folder)) :
                 Entries(t, folder)[i] = [kind |-> "folder", path |-> p]
           /\ \A p \in Children(t.notes, folder) : \E i \in 1..Len(Entries(t, folder)) :
                 Entries(t, folder)[i] = [kind |-> "note", path |-> p]
           /\ \A i, j \in 1..Len(Entries(t, folder)) : i < j =>
                 \/ Entries(t, folder)[i].kind = "folder" /\ Entries(t, folder)[j].kind = "note"
                 \/ /\ Entries(t, folder)[i].kind = Entries(t, folder)[j].kind
                    /\ Place[Last(Entries(t, folder)[i].path)] < Place[Last(Entries(t, folder)[j].path)]
<1> DEFINE F == Children(t.folders, folder)
           N == Children(t.notes, folder)
           a == Subfolders(t, folder)
           b == NotesIn(t, folder)
           c == [i \in DOMAIN a |-> [kind |-> "folder", path |-> a[i]]]
           d == [i \in DOMAIN b |-> [kind |-> "note", path |-> b[i]]]
<1>1. /\ IsFiniteSet(F) /\ IsFiniteSet(N) /\ Orders(ByName(F), F) /\ Orders(ByName(N), N)
      /\ F \subseteq NamePaths /\ N \subseteq NamePaths
  <2>1. t.folders \subseteq NamePaths \cup {<<>>} /\ t.notes \subseteq NamePaths \cup {<<>>}
    BY DEF IsTree, NamePaths
  <2>2. Orders(ByName(F), F) /\ Orders(ByName(N), N)
    BY <2>1, NamesOrder
  <2>3. F \in SUBSET t.folders /\ N \in SUBSET t.notes
    BY DEF Children
  <2>4. IsFiniteSet(F) /\ IsFiniteSet(N)
    BY <2>3, FS_Subset DEF IsTree
  <2>5. F \subseteq NamePaths /\ N \subseteq NamePaths
    BY <2>1, <2>3 DEF Children
  <2> QED  BY <2>2, <2>4, <2>5
<1>2. a = Ordered(F, ByName(F)) /\ b = Ordered(N, ByName(N))
  BY DEF Subfolders, NotesIn
<1>3. Entries(t, folder) = c \o d
  BY DEF Entries
<1> HIDE DEF F, N, a, b
<1>4. /\ Cardinality(F) \in Nat /\ a \in [1..Cardinality(F) -> F]
      /\ \A x \in F : \E i \in 1..Cardinality(F) : a[i] = x
      /\ \A i, j \in 1..Cardinality(F) : a[i] = a[j] => i = j
      /\ \A i, j \in 1..Cardinality(F) : i < j => <<a[i], a[j]>> \in ByName(F)
  BY <1>1, <1>2, OrderedEnumerates
<1>5. /\ Cardinality(N) \in Nat /\ b \in [1..Cardinality(N) -> N]
      /\ \A x \in N : \E i \in 1..Cardinality(N) : b[i] = x
      /\ \A i, j \in 1..Cardinality(N) : b[i] = b[j] => i = j
      /\ \A i, j \in 1..Cardinality(N) : i < j => <<b[i], b[j]>> \in ByName(N)
  BY <1>1, <1>2, OrderedEnumerates
<1> DEFINE E == [kind : {"folder"}, path : F] \cup [kind : {"note"}, path : N]
           k == Cardinality(F)
           l == Cardinality(N)
<1>6. /\ c \in Seq(E) /\ Len(c) = k
      /\ \A i \in 1..k : c[i] = [kind |-> "folder", path |-> a[i]]
  <2>1. c \in [1..k -> E] /\ \A i \in 1..k : c[i] = [kind |-> "folder", path |-> a[i]]
    BY <1>4
  <2> HIDE DEF c, E
  <2> QED  BY <1>4, <2>1
<1>7. /\ d \in Seq(E) /\ Len(d) = l
      /\ \A i \in 1..l : d[i] = [kind |-> "note", path |-> b[i]]
  <2>1. d \in [1..l -> E] /\ \A i \in 1..l : d[i] = [kind |-> "note", path |-> b[i]]
    BY <1>5
  <2> HIDE DEF d, E
  <2> QED  BY <1>5, <2>1
<1> HIDE DEF c, d, k, l
<1> DEFINE e == c \o d
<1>8. /\ e \in Seq(E) /\ Len(e) = k + l
      /\ \A i \in 1..k + l : e[i] = IF i <= k THEN c[i] ELSE d[i - k]
  <2> HIDE DEF E
  <2> QED  BY <1>6, <1>7, ConcatProperties
<1> HIDE DEF e
<1>9. k \in Nat /\ l \in Nat
  BY <1>4, <1>5 DEF k, l
<1>10. \A i \in 1..k + l : e[i] = IF i <= k THEN [kind |-> "folder", path |-> a[i]]
                                  ELSE [kind |-> "note", path |-> b[i - k]]
  <2> SUFFICES ASSUME NEW i \in 1..k + l
               PROVE  e[i] = IF i <= k THEN [kind |-> "folder", path |-> a[i]]
                                  ELSE [kind |-> "note", path |-> b[i - k]]
    OBVIOUS
  <2>1. CASE i <= k
    <3>1. i \in 1..k
      BY <1>9, <2>1
    <3> QED  BY <1>6, <1>8, <2>1, <3>1
  <2>2. CASE ~(i <= k)
    <3>1. i - k \in 1..l
      BY <1>9, <2>2
    <3> QED  BY <1>7, <1>8, <2>2, <3>1
  <2> QED  BY <2>1, <2>2
<1>11. \A i, j \in 1..k + l : e[i] = e[j] => i = j
  <2> SUFFICES ASSUME NEW i \in 1..k + l, NEW j \in 1..k + l, e[i] = e[j] PROVE i = j
    OBVIOUS
  <2>1. CASE i <= k /\ j <= k
    <3>1. i \in 1..k /\ j \in 1..k
      BY <1>9, <2>1
    <3>2. [kind |-> "folder", path |-> a[i]] = [kind |-> "folder", path |-> a[j]]
      BY <1>10, <2>1, Zenon
    <3>3. a[i] = a[j]
      BY <3>2
    <3> QED  BY <1>4, <3>1, <3>3 DEF k
  <2>2. CASE ~(i <= k) /\ ~(j <= k)
    <3>1. i - k \in 1..l /\ j - k \in 1..l
      BY <1>9, <2>2
    <3>2. [kind |-> "note", path |-> b[i - k]] = [kind |-> "note", path |-> b[j - k]]
      BY <1>10, <2>2, Zenon
    <3>3. b[i - k] = b[j - k]
      BY <3>2
    <3>4. i - k = j - k
      BY <1>5, <3>1, <3>3 DEF l
    <3> QED  BY <1>9, <3>4
  <2>3. CASE i <= k /\ ~(j <= k)
    <3>1. [kind |-> "folder", path |-> a[i]] = [kind |-> "note", path |-> b[j - k]]
      BY <1>10, <2>3, Zenon
    <3> QED  BY <3>1
  <2>4. CASE ~(i <= k) /\ j <= k
    <3>1. [kind |-> "note", path |-> b[i - k]] = [kind |-> "folder", path |-> a[j]]
      BY <1>10, <2>4, Zenon
    <3> QED  BY <3>1
  <2> QED  BY <2>1, <2>2, <2>3, <2>4
<1>12. E \subseteq EntryRecords
  <2>1. F \subseteq Seq(Segments) /\ N \subseteq Seq(Segments)
    BY <1>1, PathsAreSequences
  <2> QED  BY <2>1 DEF EntryRecords, Kinds
<1>13. e \in Seq(EntryRecords) /\ \A i \in 1..Len(e) : e[i] \in E
  <2> HIDE DEF E
  <2> QED  BY <1>8, <1>12, SeqMonotonic, ElementOfSeq
<1>14. Len(e) = 0 => F = {} /\ N = {}
  <2>1. Len(e) = 0 => k = 0 /\ l = 0
    BY <1>8, <1>9
  <2> QED  BY <1>4, <1>5, <2>1 DEF k, l
<1>15. Lists(e)
  BY <1>8, <1>11, <1>13 DEF Lists
<1>16. Entries(t, folder) = e
  BY <1>3 DEF e
<1>17. /\ \A p \in F : \E i \in 1..Len(e) : e[i] = [kind |-> "folder", path |-> p]
       /\ \A p \in N : \E i \in 1..Len(e) : e[i] = [kind |-> "note", path |-> p]
  <2>1. ASSUME NEW p \in F PROVE \E i \in 1..Len(e) : e[i] = [kind |-> "folder", path |-> p]
    <3>1. PICK i \in 1..k : a[i] = p
      BY <1>4 DEF k
    <3>2. i \in 1..k + l /\ i <= k
      BY <1>9
    <3> QED  BY <1>8, <1>10, <3>1, <3>2
  <2>2. ASSUME NEW p \in N PROVE \E i \in 1..Len(e) : e[i] = [kind |-> "note", path |-> p]
    <3>1. PICK i \in 1..l : b[i] = p
      BY <1>5 DEF l
    <3>2. k + i \in 1..k + l /\ ~(k + i <= k) /\ (k + i) - k = i
      BY <1>9
    <3>3. e[k + i] = [kind |-> "note", path |-> p]
      BY <1>10, <3>1, <3>2
    <3> QED  BY <1>8, <3>2, <3>3
  <2> QED  BY <2>1, <2>2
<1>18. \A i, j \in 1..k + l : i < j =>
          \/ e[i].kind = "folder" /\ e[j].kind = "note"
          \/ e[i].kind = e[j].kind /\ Place[Last(e[i].path)] < Place[Last(e[j].path)]
  <2> SUFFICES ASSUME NEW i \in 1..k + l, NEW j \in 1..k + l, i < j
               PROVE  \/ e[i].kind = "folder" /\ e[j].kind = "note"
                      \/ /\ e[i].kind = e[j].kind
                         /\ Place[Last(e[i].path)] < Place[Last(e[j].path)]
    OBVIOUS
  <2>1. CASE j <= k
    <3>1. i \in 1..k /\ j \in 1..k /\ i <= k
      BY <1>9, <2>1
    <3>2. /\ e[i] = [kind |-> "folder", path |-> a[i]]
          /\ e[j] = [kind |-> "folder", path |-> a[j]]
      BY <1>10, <2>1, <3>1, Zenon
    <3>3. <<a[i], a[j]>> \in ByName(F)
      BY <1>4, <3>1 DEF k
    <3>4. Place[Last(a[i])] < Place[Last(a[j])]
      BY <3>3 DEF ByName
    <3> QED  BY <3>2, <3>4
  <2>2. CASE ~(i <= k)
    <3>1. i - k \in 1..l /\ j - k \in 1..l /\ i - k < j - k /\ ~(j <= k)
      BY <1>9, <2>2
    <3>2. /\ e[i] = [kind |-> "note", path |-> b[i - k]]
          /\ e[j] = [kind |-> "note", path |-> b[j - k]]
      BY <1>10, <2>2, <3>1, Zenon
    <3>3. <<b[i - k], b[j - k]>> \in ByName(N)
      BY <1>5, <3>1 DEF l
    <3>4. Place[Last(b[i - k])] < Place[Last(b[j - k])]
      BY <3>3 DEF ByName
    <3> QED  BY <3>2, <3>4
  <2>3. CASE i <= k /\ ~(j <= k)
    <3>1. /\ e[i] = [kind |-> "folder", path |-> a[i]]
          /\ e[j] = [kind |-> "note", path |-> b[j - k]]
      BY <1>10, <2>3, Zenon
    <3> QED  BY <3>1
  <2> QED  BY <1>9, <2>1, <2>2, <2>3
<1> QED  BY <1>8, <1>13, <1>14, <1>15, <1>16, <1>17, <1>18 DEF E, F, N

-----------------------------------------------------------------------------
(* Links. *)

\* setdefault: of the notes that have a key, the first in the walk is in the index.
LEMMA TheFirstKeepsTheKey ==
    ASSUME NEW t, IsTree(t), NEW key
    PROVE  LET holders == {n \in t.notes : key \in Keys(n)}
           IN  /\ holders = {} => NoteAt(t, key) = NoPath
               /\ holders # {} => /\ NoteAt(t, key) \in holders /\ NoteAt(t, key) # NoPath
                                  /\ \A n \in holders \ {NoteAt(t, key)} : WalkBefore(NoteAt(t, key), n)
<1> DEFINE holders == {n \in t.notes : key \in Keys(n)}
           w == Walk(holders)
           c == Cardinality(holders)
<1>1. NoteAt(t, key) = IF holders = {} THEN NoPath ELSE w[1]
  BY DEF NoteAt
<1>2. holders \subseteq NamePaths /\ IsFiniteSet(holders)
  <2>1. holders \in SUBSET t.notes
    OBVIOUS
  <2> HIDE DEF holders
  <2> QED  BY <2>1, FS_Subset DEF IsTree
<1> SUFFICES ASSUME holders # {}
             PROVE  /\ w[1] \in holders /\ w[1] # NoPath
                    /\ \A n \in holders \ {w[1]} : WalkBefore(w[1], n)
  BY <1>1
<1> HIDE DEF holders
<1>3. /\ c \in Nat /\ w \in [1..c -> holders]
      /\ \A x \in holders : \E i \in 1..c : w[i] = x
      /\ \A i, j \in 1..c : i < j => WalkBefore(w[i], w[j])
  BY <1>2, WalkEnumerates
<1> HIDE DEF w, c
<1>4. 1 \in 1..c
  BY <1>3
<1>5. w[1] \in holders
  BY <1>3, <1>4
<1>6. \A n \in holders \ {w[1]} : WalkBefore(w[1], n)
  BY <1>3, <1>4
<1>7. w[1] # NoPath
  BY <1>2, <1>5, PathsAreSequences, TreeAssumption
<1> QED  BY <1>5, <1>6, <1>7

\* Nothing in a folder comes before a note of the root.
LEMMA TheRootComesFirst ==
    ASSUME NEW m \in NamePaths, NEW n \in NamePaths, Len(n) = 1, WalkBefore(m, n)
    PROVE  Parent(m) = <<>>
<1>1. Len(m) \in Nat \ {0}
  BY PathsAreSequences
<1>2. PICK i \in 1..Len(m) : /\ i <= Len(n)
                             /\ \/ i = Len(m) /\ i < Len(n)
                                \/ i = Len(m) <=> i = Len(n)
  BY DEF WalkBefore
<1>3. Len(m) = 1
  <2>1. i = 1
    BY <1>1, <1>2
  <2> QED  BY <1>2, <2>1
<1>4. Parent(m) \in Seq(Names) /\ Len(Parent(m)) = Len(m) - 1
  BY ParentIsAllButTheLast
<1>5. Len(Parent(m)) = 0
  BY <1>3, <1>4
<1> QED  BY <1>4, <1>5, EmptySeq

\* What NavigationService and _resolve make of a reading that a note answers to.
LEMMA AReadingOpens ==
    ASSUME NEW t, IsTree(t), NEW key
    PROVE  LET Named  == {n \in t.notes : key \in {LowerPath(n), BarePath(LowerPath(n))}}
               Titled == {n \in t.notes : <<Lower[Stem[Last(n)]]>> = key}
               at     == NoteAt(t, key)
           IN  /\ Named \cup Titled = {} => at = NoPath
               /\ Named \cup Titled # {} =>
                    /\ at # NoPath
                    /\ Named # {} => at \in Named \cup {n \in Titled : Parent(n) = <<>>}
                    /\ Named = {} => /\ at \in Titled
                                     /\ \A n \in Titled \ {at} : WalkBefore(at, n)
<1> DEFINE Named  == {n \in t.notes : key \in {LowerPath(n), BarePath(LowerPath(n))}}
           Titled == {n \in t.notes : <<Lower[Stem[Last(n)]]>> = key}
           at     == NoteAt(t, key)
           holders == {n \in t.notes : key \in Keys(n)}
<1>1. holders = Named \cup Titled
  BY DEF Keys
<1>2. /\ holders = {} => at = NoPath
      /\ holders # {} => /\ at \in holders /\ at # NoPath
                         /\ \A n \in holders \ {at} : WalkBefore(at, n)
  BY TheFirstKeepsTheKey
<1>3. t.notes \subseteq NamePaths
  BY DEF IsTree
<1>4. ASSUME Named # {}, at \in Titled, at \notin Named PROVE Parent(at) = <<>>
  <2>1. PICK n \in Named : TRUE
    BY <1>4
  <2>2. n \in NamePaths /\ at \in NamePaths /\ WalkBefore(at, n)
    BY <1>1, <1>2, <1>3, <1>4, <2>1
  <2>3. DOMAIN key = 1..Len(n)
    <3>1. DOMAIN n = 1..Len(n)
      BY <2>2, PathsAreSequences
    <3>2. DOMAIN LowerPath(n) = 1..Len(n)
      BY <3>1 DEF LowerPath
    <3>3. DOMAIN BarePath(LowerPath(n)) = 1..Len(n)
      BY <3>2 DEF BarePath
    <3> QED  BY <2>1, <3>2, <3>3
  <2>4. DOMAIN key = 1..1
    <3>1. key = <<Lower[Stem[Last(at)]]>>
      BY <1>4
    <3> QED  BY <3>1
  <2>5. Len(n) = 1
    <3>1. Len(n) \in Nat
      BY <2>2, PathsAreSequences
    <3>2. \A k \in Nat : 1..k = 1..1 => k = 1
      BY SMT
    <3> QED  BY <2>3, <2>4, <3>1, <3>2
  <2> QED  BY <2>2, <2>5, TheRootComesFirst
<1> HIDE DEF Named, at, holders
<1>5. ASSUME Named # {} PROVE at \in Named \cup {n \in Titled : Parent(n) = <<>>}
  BY <1>1, <1>2, <1>4, <1>5
<1>6. ASSUME Named = {}, Titled # {} PROVE at \in Titled /\ \A n \in Titled \ {at} : WalkBefore(at, n)
  BY <1>1, <1>2, <1>6
<1> HIDE DEF Titled
<1>7. /\ Named \cup Titled = {} => at = NoPath
      /\ Named \cup Titled # {} =>
           /\ at # NoPath
           /\ Named # {} => at \in Named \cup {n \in Titled : Parent(n) = <<>>}
           /\ Named = {} => /\ at \in Titled
                            /\ \A n \in Titled \ {at} : WalkBefore(at, n)
  BY <1>1, <1>2, <1>5, <1>6
<1> QED  BY <1>7 DEF Named, Titled, at

\* In any tree.
LEMMA LinksResolveInATree ==
    ASSUME tree # NoTree => IsTree(tree)
    PROVE  LinksResolve
<1> SUFFICES ASSUME tree # NoTree, NEW target \in Targets
             PROVE  LET key       == LowerPath(target)
                        opened    == Resolve(tree, target)
                        Named(k)  == {n \in tree.notes : k \in {LowerPath(n), BarePath(LowerPath(n))}}
                        Titled(k) == {n \in tree.notes : <<Lower[Stem[Last(n)]]>> = k}
                        Opens(k)  == IF Named(k) # {}
                                     THEN opened \in Named(k) \cup {n \in Titled(k) : Parent(n) = <<>>}
                                     ELSE /\ opened \in Titled(k)
                                          /\ \A n \in Titled(k) \ {opened} : WalkBefore(opened, n)
                        Held(k)   == Named(k) \cup Titled(k) # {}
                    IN IF Held(key) THEN Opens(key)
                       ELSE IF Held(BarePath(key)) THEN Opens(BarePath(key))
                       ELSE IF Held(ExtendedPath(key)) THEN Opens(ExtendedPath(key))
                       ELSE opened = NoPath
  BY DEF LinksResolve
<1> DEFINE key       == LowerPath(target)
           opened    == Resolve(tree, target)
           Named(k)  == {n \in tree.notes : k \in {LowerPath(n), BarePath(LowerPath(n))}}
           Titled(k) == {n \in tree.notes : <<Lower[Stem[Last(n)]]>> = k}
           Held(k)   == Named(k) \cup Titled(k) # {}
           Opens(k)  == IF Named(k) # {}
                        THEN opened \in Named(k) \cup {n \in Titled(k) : Parent(n) = <<>>}
                        ELSE /\ opened \in Titled(k)
                             /\ \A n \in Titled(k) \ {opened} : WalkBefore(opened, n)
           bare      == BarePath(key)
           longer    == ExtendedPath(key)
<1>1. opened = IF NoteAt(tree, key) # NoPath THEN NoteAt(tree, key)
               ELSE IF NoteAt(tree, bare) # NoPath THEN NoteAt(tree, bare)
               ELSE NoteAt(tree, longer)
  BY DEF Resolve
<1> HIDE DEF opened, key, bare, longer
<1>2. ASSUME NEW k PROVE /\ ~Held(k) <=> NoteAt(tree, k) = NoPath
                         /\ Held(k) /\ opened = NoteAt(tree, k) => Opens(k)
  BY AReadingOpens
<1> HIDE DEF Held, Opens
<1>3. IF Held(key) THEN Opens(key)
      ELSE IF Held(bare) THEN Opens(bare)
      ELSE IF Held(longer) THEN Opens(longer)
      ELSE opened = NoPath
  BY <1>1, <1>2
<1> QED  BY <1>3 DEF opened, key, bare, longer, Held, Opens

-----------------------------------------------------------------------------
(* The pages a button may ask for: turning them shows every entry of a        *)
(* listing once, for listings and pages of every size.                        *)

\* Division with remainder.
LEMMA Quotient ==
    ASSUME NEW n \in Nat, NEW d \in Nat \ {0}
    PROVE  /\ n \div d \in Nat
           /\ (n \div d) * d <= n
           /\ n < (n \div d) * d + d
  BY SMTT(60)

\* Whole pages compare as their numbers do.
LEMMA Monotone ==
    ASSUME NEW a \in Int, NEW b \in Int, NEW d \in Nat \ {0}, a * d < b * d + d
    PROVE  a <= b
<1>1. SUFFICES ASSUME b + 1 <= a PROVE FALSE
  OBVIOUS
<1>2. (b + 1) * d <= a * d
  BY <1>1, SMTT(60)
<1>3. (b + 1) * d = b * d + d
  BY SMT
<1> QED  BY <1>2, <1>3

\* There is at least one page, and clamp keeps every number on one of them:
\* page and clamp of FolderView (navigation.py:85-90) and ResultSet
\* (search.py:257-263), for whatever number a callback carries.
THEOREM ClampIsAPage ==
    ASSUME NEW total \in Nat, NEW size \in Nat \ {0}, NEW page \in Int
    PROVE  /\ Pages(total, size) \in Nat \ {0}
           /\ Clamp(total, size, page) \in 1..Pages(total, size)
           /\ page \in 1..Pages(total, size) => Clamp(total, size, page) = page
<1>1. Pages(total, size) \in Nat \ {0}
  <2>1. CASE total = 0
    BY <2>1 DEF Pages
  <2>2. CASE total # 0
    <3>1. total + size - 1 \in Nat /\ total + size - 1 >= size
      BY <2>2
    <3>2. /\ (total + size - 1) \div size \in Nat
          /\ total + size - 1 < ((total + size - 1) \div size) * size + size
      BY <3>1, Quotient
    <3>3. (total + size - 1) \div size # 0
      BY <3>1, <3>2
    <3> QED  BY <2>2, <3>2, <3>3 DEF Pages
  <2> QED  BY <2>1, <2>2
<1> QED  BY <1>1 DEF Clamp

\* Every entry of a listing is on exactly one of its pages: the slices of
\* FolderView.page and ResultSet.page neither skip an entry nor repeat one.
THEOREM EveryEntryIsOnOnePage ==
    ASSUME NEW total \in Nat, NEW size \in Nat \ {0}, NEW i \in 0..(total - 1)
    PROVE  /\ \E p \in 1..Pages(total, size) : i \in OnPage(total, size, p)
           /\ \A p, r \in 1..Pages(total, size) :
                 i \in OnPage(total, size, p) /\ i \in OnPage(total, size, r) => p = r
<1> DEFINE last == Pages(total, size)
           q == i \div size
<1>1. i \in Nat /\ total \in Nat \ {0} /\ i <= total - 1
  OBVIOUS
<1>2. last \in Nat \ {0} /\ \A p \in 1..last : Clamp(total, size, p) = p
  BY ClampIsAPage
<1>3. q \in Nat /\ q * size <= i /\ i < q * size + size
  BY <1>1, Quotient
<1>4. q + 1 <= last
  <2>1. total + size - 1 \in Nat
    BY <1>1
  <2>2. last = (total + size - 1) \div size
    BY <1>1 DEF Pages
  <2>3. total + size - 1 < last * size + size
    BY <2>1, <2>2, Quotient
  <2>4. (q + 1) * size = q * size + size
    BY <1>3, SMT
  <2>5. (q + 1) * size < last * size + size
    <3> DEFINE x == q * size
               y == last * size
    <3>1. x \in Int /\ y \in Int
      BY <1>2, <1>3
    <3> HIDE DEF x, y
    <3>2. x <= i /\ total + size - 1 < y + size
      BY <1>3, <2>3 DEF x, y
    <3>3. x + size < y + size
      BY <1>1, <3>1, <3>2
    <3> QED  BY <2>4, <3>3 DEF x, y
  <2> QED  BY <1>2, <1>3, <2>5, Monotone
<1>5. i \in OnPage(total, size, q + 1)
  <2>1. Offset(size, Clamp(total, size, q + 1)) = q * size
    BY <1>2, <1>3, <1>4 DEF Offset
  <2> QED  BY <1>1, <1>3, <2>1 DEF OnPage
<1>6. ASSUME NEW p \in 1..last, NEW r \in 1..last,
             i \in OnPage(total, size, p), i \in OnPage(total, size, r)
      PROVE  p <= r
  <2>1. (p - 1) * size <= i /\ i < (r - 1) * size + size
    BY <1>2, <1>6 DEF OnPage, Offset
  <2>2. (p - 1) * size < (r - 1) * size + size
    <3> DEFINE x == (p - 1) * size
               y == (r - 1) * size
    <3>1. x \in Int /\ y \in Int
      BY <1>2
    <3> HIDE DEF x, y
    <3> QED  BY <1>1, <2>1, <3>1 DEF x, y
  <2>3. p - 1 <= r - 1
    BY <1>2, <2>2, Monotone
  <2> QED  BY <1>2, <2>3
<1> QED
  <2>1. q + 1 \in 1..last
    BY <1>2, <1>3, <1>4
  <2>2. ASSUME NEW p \in 1..last, NEW r \in 1..last,
               i \in OnPage(total, size, p), i \in OnPage(total, size, r)
        PROVE  p = r
    <3>1. p <= r /\ r <= p
      BY <2>2, <1>6
    <3> QED  BY <1>2, <3>1
  <2> QED  BY <1>5, <2>1, <2>2

-----------------------------------------------------------------------------
(* Messages. *)

\* A message has the fields of one.
Shaped(m) ==
    m = [kind |-> m.kind, path |-> m.path, entries |-> m.entries, page |-> m.page, id |-> m.id,
         seen |-> m.seen, size |-> m.size, counted |-> m.counted, then |-> m.then,
         fresh |-> m.fresh]

\* What was seen of a listing are whole pages of it.
SeenPages(m) ==
    /\ \A x \in m.seen :
          /\ x.page \in 1..Pages(Len(m.entries), PageSize)
          /\ \E i \in Shown(m, x.page) : x = [page |-> x.page, entry |-> m.entries[i]]
    /\ \A x \in m.seen : \A i \in Shown(m, x.page) :
          [page |-> x.page, entry |-> m.entries[i]] \in m.seen

Listing(m) ==
    /\ Lists(m.entries)
    /\ m.page \in 1..Pages(Len(m.entries), PageSize)
    /\ SeenPages(m)

\* The entries on a page follow its offset.
LEMMA ShownFollowsTheOffset ==
    ASSUME NEW total \in Nat, NEW page \in 1..Pages(total, PageSize)
    PROVE  LET start == Offset(PageSize, page)
               shown == {i + 1 : i \in OnPage(total, PageSize, page)}
           IN  /\ start \in Nat /\ shown \subseteq 1..total
               /\ Cardinality(shown) \in Nat
               /\ \A i \in 1..Cardinality(shown) : start + i \in 1..total
<1> DEFINE start == Offset(PageSize, page)
           on    == OnPage(total, PageSize, page)
           shown == {i + 1 : i \in on}
           end   == IF start + PageSize < total THEN start + PageSize ELSE total
<1>1. PageSize \in Nat \ {0} /\ page \in Nat \ {0} /\ Clamp(total, PageSize, page) = page
  BY BrowsingAssumption, ClampIsAPage
<1>2. start \in Nat
  <2>1. page - 1 \in Nat
    BY <1>1
  <2> QED  BY <1>1, <2>1 DEF Offset
<1>3. on = {i \in 0..(total - 1) : start <= i /\ i < start + PageSize}
  BY <1>1 DEF OnPage
<1> HIDE DEF start, on
<1>4. end \in Nat /\ end <= total
  BY <1>1, <1>2
<1>5. shown = (start + 1)..end
  <2>1. \A x \in shown : x \in (start + 1)..end
    BY <1>1, <1>2, <1>3
  <2>2. \A x \in (start + 1)..end : x \in shown
    <3> SUFFICES ASSUME NEW x \in (start + 1)..end PROVE x \in shown
      OBVIOUS
    <3>1. x - 1 \in on /\ x = (x - 1) + 1
      BY <1>1, <1>2, <1>3
    <3> QED  BY <3>1
  <2> HIDE DEF shown
  <2> QED  BY <2>1, <2>2
<1> HIDE DEF end, shown
<1>6. Cardinality(shown) = IF start + 1 > end THEN 0 ELSE end - (start + 1) + 1
  BY <1>2, <1>4, <1>5, FS_Interval
<1> DEFINE c == Cardinality(shown)
<1>7. c \in Nat /\ \A i \in 1..c : start + i \in 1..total
  <2> HIDE DEF c
  <2>1. c = IF start + 1 > end THEN 0 ELSE end - (start + 1) + 1
    BY <1>6 DEF c
  <2>2. CASE start + 1 > end
    BY <1>2, <1>4, <2>1, <2>2
  <2>3. CASE ~(start + 1 > end)
    BY <1>2, <1>4, <2>1, <2>3
  <2> QED  BY <2>2, <2>3
<1>8. shown \subseteq 1..total
  BY <1>2, <1>4, <1>5
<1>9. c \in Nat /\ \A i \in 1..c : Offset(PageSize, page) + i \in 1..total
  BY <1>7 DEF start
<1> QED  BY <1>2, <1>7, <1>8 DEF start, shown, on

\* Turning to a page, or showing the first one, leaves a listing well seen.
LEMMA TurningAPage ==
    ASSUME NEW m, Shaped(m), Lists(m.entries), SeenPages(m), NEW n \in Int
    PROVE  /\ Shaped(AtPage(m, n)) /\ Listing(AtPage(m, n))
           /\ AtPage(m, n).kind = m.kind /\ AtPage(m, n).entries = m.entries
<1> DEFINE page == Clamp(Len(m.entries), PageSize, n)
           new  == {[page |-> page, entry |-> m.entries[i]] : i \in Shown(m, page)}
           y    == AtPage(m, n)
<1>1. page \in 1..Pages(Len(m.entries), PageSize)
  BY BrowsingAssumption, ClampIsAPage, LenProperties DEF Lists
<1>2. y = [m EXCEPT !.page = page, !.seen = m.seen \cup new]
  BY DEF AtPage
<1> HIDE DEF page, new, y
<1>3. /\ Shaped(y) /\ y.kind = m.kind /\ y.entries = m.entries
      /\ y.page = page /\ y.seen = m.seen \cup new
  BY <1>2 DEF Shaped
<1>4. \A p : Shown(y, p) = Shown(m, p)
  BY <1>3 DEF Shown
<1>5. \A x \in new : /\ x.page = page
                     /\ \E i \in Shown(m, page) : x = [page |-> page, entry |-> m.entries[i]]
  BY DEF new
<1>6. SeenPages(y)
  <2>1. ASSUME NEW x \in y.seen
        PROVE  /\ x.page \in 1..Pages(Len(m.entries), PageSize)
               /\ \E i \in Shown(m, x.page) : x = [page |-> x.page, entry |-> m.entries[i]]
    <3>1. CASE x \in m.seen
      BY <3>1 DEF SeenPages
    <3>2. CASE x \in new
      BY <1>1, <1>5, <3>2
    <3> QED  BY <1>3, <2>1, <3>1, <3>2
  <2>2. ASSUME NEW x \in y.seen, NEW i \in Shown(m, x.page)
        PROVE  [page |-> x.page, entry |-> m.entries[i]] \in y.seen
    <3>1. CASE x \in m.seen
      BY <1>3, <2>2, <3>1 DEF SeenPages
    <3>2. CASE x \in new
      <4>1. x.page = page
        BY <1>5, <3>2
      <4>2. [page |-> page, entry |-> m.entries[i]] \in new
        BY <2>2, <4>1 DEF new
      <4> QED  BY <1>3, <4>1, <4>2
    <3> QED  BY <1>3, <2>2, <3>1, <3>2
  <2> QED  BY <1>3, <1>4, <2>1, <2>2 DEF SeenPages
<1> QED  BY <1>1, <1>3, <1>6 DEF Listing, y

\* The buttons of a listing open what they show, and its pages partition it.
LEMMA ListingsAreTrue ==
    ASSUME NEW m, Listing(m), m.kind \in {"folder", "hits"}
    PROVE  /\ \A b \in EntryButtons(m) : Chosen(m, b.arg) = {b.label}
           /\ \A x, y \in m.seen : x.entry = y.entry => x.page = y.page
           /\ 1..Pages(Len(m.entries), PageSize) = {x.page : x \in m.seen} =>
                 {x.entry : x \in m.seen} = ToSet(m.entries)
<1> DEFINE e     == m.entries
           total == Len(m.entries)
           last  == Pages(total, PageSize)
           start == Offset(PageSize, m.page)
           c     == Cardinality(Shown(m, m.page))
<1>1. /\ total \in Nat /\ DOMAIN e = 1..total
      /\ \A i, j \in 1..total : e[i] = e[j] => i = j
      /\ m.page \in 1..last
  BY LenProperties DEF Listing, Lists
<1>2. /\ start \in Nat /\ \A i \in 1..c : start + i \in 1..total
      /\ c \in Nat
  BY <1>1, ShownFollowsTheOffset DEF Shown
<1>3. \A p \in 1..last : Shown(m, p) \subseteq 1..total
  BY <1>1, ShownFollowsTheOffset DEF Shown
<1>4. PageSize \in Nat \ {0}
  BY BrowsingAssumption
<1>5. ASSUME NEW b \in EntryButtons(m) PROVE Chosen(m, b.arg) = {b.label}
  <2>1. CASE m.kind = "folder"
    <3>1. PICK i \in 1..c : b = [arg |-> start + (i - 1), label |-> e[start + i]]
      BY <1>5, <2>1 DEF EntryButtons, FolderButtons
    <3> HIDE DEF start, c, total, e
    <3>2. start + i \in 1..total /\ b.arg = start + (i - 1) /\ b.label = e[start + i]
      BY <1>2, <3>1
    <3>3. 0 <= b.arg /\ b.arg < total /\ b.arg + 1 = start + i
      BY <1>1, <1>2, <3>2
    <3>4. Chosen(m, b.arg) = {e[b.arg + 1]}
      BY <2>1, <3>3 DEF Chosen, Enter, e, total
    <3> QED  BY <3>2, <3>3, <3>4
  <2>2. CASE m.kind = "hits"
    <3>1. PICK i \in 1..c : b = [arg |-> start + i, label |-> e[start + i]]
      BY <1>5, <2>2 DEF EntryButtons, HitButtons
    <3> HIDE DEF start, c, total, e
    <3>2. start + i \in 1..total /\ b.arg = start + i /\ b.label = e[start + i]
      BY <1>2, <3>1
    <3>3. 1 <= b.arg /\ b.arg <= total
      BY <1>1, <3>2
    <3>4. Chosen(m, b.arg) = {e[b.arg]}
      BY <2>2, <3>3 DEF Chosen, OpenHit, e, total
    <3> QED  BY <3>2, <3>4
  <2> QED  BY <2>1, <2>2
<1>6. \A i \in 1..total : /\ \E p \in 1..last : i \in Shown(m, p)
                          /\ \A p, r \in 1..last : i \in Shown(m, p) /\ i \in Shown(m, r) => p = r
  <2> SUFFICES ASSUME NEW i \in 1..total
               PROVE  /\ \E p \in 1..last : i \in Shown(m, p)
                      /\ \A p, r \in 1..last : i \in Shown(m, p) /\ i \in Shown(m, r) => p = r
    OBVIOUS
  <2>1. i - 1 \in 0..(total - 1)
    BY <1>1
  <2>2. /\ \E p \in 1..last : i - 1 \in OnPage(total, PageSize, p)
        /\ \A p, r \in 1..last :
              i - 1 \in OnPage(total, PageSize, p) /\ i - 1 \in OnPage(total, PageSize, r) => p = r
    <3> HIDE DEF total, last
    <3> QED  BY <1>1, <1>4, <2>1, EveryEntryIsOnOnePage DEF last
  <2>3. \A p : i \in Shown(m, p) <=> i - 1 \in OnPage(total, PageSize, p)
    <3>1. \A p : OnPage(total, PageSize, p) \subseteq Int
      BY <1>1 DEF OnPage
    <3>2. \A p : \A k \in OnPage(total, PageSize, p) : k + 1 = i <=> k = i - 1
      BY <1>1, <3>1
    <3>3. \A p : Shown(m, p) = {k + 1 : k \in OnPage(total, PageSize, p)}
      BY DEF Shown
    <3>4. (i - 1) + 1 = i
      BY <1>1
    <3> HIDE DEF total, e
    <3> QED  BY <3>2, <3>3, <3>4
  <2> QED  BY <2>2, <2>3
<1>7. \A x \in m.seen : /\ x.page \in 1..last
                        /\ \E i \in Shown(m, x.page) : x = [page |-> x.page, entry |-> e[i]]
  BY DEF Listing, SeenPages
<1>8. \A x \in m.seen : \A i \in Shown(m, x.page) : [page |-> x.page, entry |-> e[i]] \in m.seen
  BY DEF Listing, SeenPages
<1>9. \A x \in m.seen : \E i \in 1..total : i \in Shown(m, x.page) /\ x.entry = e[i]
  BY <1>3, <1>7
<1> HIDE DEF e, total, last, start, c
<1>10. \A x, y \in m.seen : x.entry = y.entry => x.page = y.page
  <2> SUFFICES ASSUME NEW x \in m.seen, NEW y \in m.seen, x.entry = y.entry PROVE x.page = y.page
    OBVIOUS
  <2>1. PICK i \in 1..total : i \in Shown(m, x.page) /\ x.entry = e[i]
    BY <1>9
  <2>2. PICK j \in 1..total : j \in Shown(m, y.page) /\ y.entry = e[j]
    BY <1>9
  <2>3. i = j
    BY <1>1, <2>1, <2>2
  <2> QED  BY <1>6, <1>7, <2>1, <2>2, <2>3
<1>11. ASSUME 1..last = {x.page : x \in m.seen}
       PROVE  {x.entry : x \in m.seen} = ToSet(e)
  <2>1. \A x \in m.seen : x.entry \in ToSet(e)
    BY <1>1, <1>9 DEF ToSet
  <2>2. \A i \in 1..total : \E x \in m.seen : x.entry = e[i]
    <3> SUFFICES ASSUME NEW i \in 1..total PROVE \E x \in m.seen : x.entry = e[i]
      OBVIOUS
    <3>1. PICK p \in 1..last : i \in Shown(m, p)
      BY <1>6
    <3>2. PICK x \in m.seen : x.page = p
      BY <1>11
    <3>3. [page |-> p, entry |-> e[i]] \in m.seen
      BY <1>8, <3>1, <3>2
    <3> QED  BY <3>3
  <2>3. ToSet(e) = {e[i] : i \in 1..total}
    BY <1>1 DEF ToSet
  <2> QED  BY <2>1, <2>2, <2>3
<1> QED  BY <1>5, <1>10, <1>11 DEF e, total, last

-----------------------------------------------------------------------------
(* Typed paths. *)

\* The positions of a sequence, in order.
LEMMA PlacesOrder ==
    ASSUME NEW S \in SUBSET Int
    PROVE  Orders({p \in S \X S : p[1] < p[2]}, S)
<1> DEFINE R == {p \in S \X S : p[1] < p[2]}
<1>1. \A x, y \in S : <<x, y>> \in R <=> x < y
  OBVIOUS
<1> HIDE DEF R
<1> QED  BY <1>1 DEF Orders

\* What is kept of a sequence is a sequence of what was asked for.
LEMMA KeptIsInTheSet ==
    ASSUME NEW U, NEW s \in Seq(U), NEW T
    PROVE  Kept(s, T) \in Seq(T)
<1> DEFINE at == {i \in 1..Len(s) : s[i] \in T}
           R == {p \in at \X at : p[1] < p[2]}
           places == Ordered(at, R)
           c == Cardinality(at)
<1>1. Len(s) \in Nat
  BY LenProperties
<1>2. at \in SUBSET Int /\ IsFiniteSet(at)
  <2>1. IsFiniteSet(1..Len(s)) /\ at \in SUBSET (1..Len(s))
    BY <1>1, FS_Interval
  <2>2. 1..Len(s) \subseteq Int
    OBVIOUS
  <2> HIDE DEF at
  <2> QED  BY <2>1, <2>2, FS_Subset
<1>3. Kept(s, T) = [n \in 1..c |-> s[places[n]]]
  BY DEF Kept
<1>4. Orders(R, at)
  BY <1>2, PlacesOrder
<1>5. \A i \in at : s[i] \in T
  OBVIOUS
<1> HIDE DEF at, R
<1>6. c \in Nat /\ places \in [1..c -> at]
  BY <1>2, <1>4, OrderedEnumerates
<1> HIDE DEF c, places
<1>7. [n \in 1..c |-> s[places[n]]] \in [1..c -> T]
  BY <1>5, <1>6
<1> DEFINE k == [n \in 1..c |-> s[places[n]]]
<1> HIDE DEF k
<1>8. k \in Seq(T)
  BY <1>6, <1>7 DEF k
<1> QED  BY <1>3, <1>8 DEF k

\* A normalised path is made of names.
LEMMA NormalisedPaths ==
    ASSUME NEW typed \in Seq(Segments)
    PROVE  /\ NormaliseFolder(typed) # NoPath =>
                /\ NormaliseFolder(typed) \in NamePaths
                /\ NormaliseFolder(typed) = Kept(typed, Names)
           /\ NormaliseNote(typed) # NoPath => NormaliseNote(typed) \in NamePaths
<1>1. NormaliseFolder(typed) # NoPath =>
                /\ NormaliseFolder(typed) \in NamePaths
                /\ NormaliseFolder(typed) = Kept(typed, Names)
  BY KeptIsInTheSet DEF NormaliseFolder, NamePaths
<1>2. ASSUME NormaliseNote(typed) # NoPath PROVE NormaliseNote(typed) \in NamePaths
  <2> DEFINE p == NormaliseFolder(typed)
             s == Suffixed[p[Len(p)]]
             q == [p EXCEPT ![Len(p)] = s]
  <2>1. p # NoPath /\ NormaliseNote(typed) = q
    BY <1>2 DEF NormaliseNote
  <2>2. p \in NamePaths
    BY <1>1, <2>1
  <2> HIDE DEF p
  <2>3. p \in Seq(Names) /\ Len(p) \in Nat \ {0} /\ p[Len(p)] \in Names
    BY <2>2, PathsAreSequences
  <2>4. s \in Names
    BY <2>3, TreeAssumption
  <2> HIDE DEF s
  <2>5. q \in Seq(Names) /\ Len(q) = Len(p)
    BY <2>3, <2>4, ExceptSeq
  <2> HIDE DEF q
  <2>6. q # <<>>
    BY <2>3, <2>5, EmptySeq
  <2> QED  BY <2>1, <2>5, <2>6 DEF NamePaths
<1> QED  BY <1>1, <1>2

\* find_node finds folders only.
LEMMA FindNodeFinds ==
    ASSUME NEW t, IsTree(t), NEW typed
    PROVE  FindNode(t, typed) # NoPath => FindNode(t, typed) \in t.folders
BY DEF FindNode, IsTree

\* A set of positions has a first and a last.
LEMMA FirstAndLast ==
    ASSUME NEW n \in Nat, NEW I \in SUBSET (1..n), I # {}
    PROVE  /\ Min(I) \in I /\ \A i \in I : Min(I) <= i
           /\ Max(I) \in I /\ \A i \in I : i <= Max(I)
<1> DEFINE Q == {n - i : i \in I}
<1>6. I \subseteq Nat /\ \A i \in I : i <= n
  OBVIOUS
<1>1. \E x \in I : \A y \in I : x <= y
  BY <1>6, LeastElement
<1>2. \E z \in I : \A y \in I : z >= y
  <2>1. Q \subseteq Nat /\ Q # {}
    <3>1. \A i \in I : n - i \in Nat
      BY <1>6
    <3> QED  BY <3>1
  <2>2. PICK k \in Q : \A y \in Q : k <= y
    <3> HIDE DEF Q
    <3> QED  BY <2>1, LeastElement
  <2>3. PICK z \in I : k = n - z
    BY <2>2
  <2>4. \A y \in I : n - z <= n - y
    BY <2>2, <2>3
  <2>5. \A y \in I : z >= y
    BY <1>6, <2>4
  <2> QED  BY <2>5
<1>3. Min(I) \in I /\ \A i \in I : Min(I) <= i
  BY <1>1 DEF Min
<1>4. Max(I) \in I /\ \A i \in I : Max(I) >= i
  BY <1>2 DEF Max
<1>5. \A i \in I : i <= Max(I)
  BY <1>4
<1> QED  BY <1>3, <1>4, <1>5

\* The first and the last segment that is not empty.
LEMMA EndsOfATypedPath ==
    ASSUME NEW U, NEW s \in Seq(U), \E i \in 1..Len(s) : s[i] # ""
    PROVE  LET f == SelectInSeq(s, LAMBDA x : x # "")
               l == SelectLastInSeq(s, LAMBDA x : x # "")
           IN  /\ f \in 1..Len(s) /\ l \in 1..Len(s) /\ f <= l
               /\ \A i \in 1..Len(s) : s[i] # "" => f <= i /\ i <= l
<1> DEFINE I == {i \in 1..Len(s) : s[i] # ""}
           n == Len(s)
<1>1. n \in Nat
  BY LenProperties
<1>2. I # {} /\ I \in SUBSET (1..n)
  OBVIOUS
<1>3. /\ SelectInSeq(s, LAMBDA a : a # "") = Min(I)
      /\ SelectLastInSeq(s, LAMBDA a : a # "") = Max(I)
  BY <1>2 DEF SelectInSeq, SelectLastInSeq
<1>4. \A i \in 1..n : s[i] # "" => i \in I
  OBVIOUS
<1> DEFINE f == Min(I)
           l == Max(I)
<1> HIDE DEF I, n
<1>5. /\ f \in I /\ \A i \in I : f <= i
      /\ l \in I /\ \A i \in I : i <= l
  BY <1>1, <1>2, FirstAndLast
<1> HIDE DEF f, l
<1>6. f \in 1..n /\ l \in 1..n /\ f <= l
  BY <1>2, <1>5
<1>7. \A i \in 1..n : s[i] # "" => f <= i /\ i <= l
  BY <1>4, <1>5
<1> QED  BY <1>3, <1>6, <1>7 DEF f, l, n

\* Keeping the middle of a sequence cuts off its ends.
LEMMA KeptMiddle ==
    ASSUME NEW U, NEW s \in Seq(U), NEW T, NEW f \in 1..Len(s), NEW l \in 1..Len(s), f <= l,
           \A i \in 1..Len(s) : s[i] \in T <=> f <= i /\ i <= l
    PROVE  Kept(s, T) = SubSeq(s, f, l)
<1> DEFINE at == {i \in 1..Len(s) : s[i] \in T}
           R == {p \in at \X at : p[1] < p[2]}
           places == Ordered(at, R)
           k == l - f + 1
<1>1. Len(s) \in Nat /\ f \in Nat /\ l \in Nat /\ k \in Nat
  BY LenProperties
<1>2. at = f..l
  <2>1. \A i \in f..l : i \in 1..Len(s) /\ f <= i /\ i <= l
    BY <1>1
  <2>2. \A i \in 1..Len(s) : f <= i /\ i <= l => i \in f..l
    BY <1>1
  <2> QED  BY <2>1, <2>2
<1>3. Cardinality(at) = k
  <2>1. Cardinality(f..l) = IF f > l THEN 0 ELSE l - f + 1
    BY <1>1, FS_Interval
  <2>2. ~(f > l)
    BY <1>1
  <2> HIDE DEF at
  <2> QED  BY <1>2, <2>1, <2>2
<1>4. \A x \in at : Cardinality({y \in at : <<y, x>> \in R}) = x - f
  <2> SUFFICES ASSUME NEW x \in at PROVE Cardinality({y \in at : <<y, x>> \in R}) = x - f
    OBVIOUS
  <2>1. x \in f..l /\ x \in Int
    BY <1>1, <1>2
  <2>2. {y \in at : <<y, x>> \in R} = f..(x - 1)
    <3>1. {y \in at : <<y, x>> \in R} = {y \in at : y < x}
      OBVIOUS
    <3>2. {y \in f..l : y < x} = f..(x - 1)
      BY <1>1, <2>1
    <3> HIDE DEF at, R
    <3> QED  BY <1>2, <3>1, <3>2
  <2>3. Cardinality(f..(x - 1)) = x - f
    <3> DEFINE z == x - 1
    <3>1. z \in Int /\ (IF f > z THEN 0 ELSE z - f + 1) = x - f
      BY <1>1, <2>1
    <3> HIDE DEF z
    <3>2. Cardinality(f..z) = IF f > z THEN 0 ELSE z - f + 1
      BY <1>1, <3>1, FS_Interval
    <3>3. Cardinality(f..z) = x - f
      BY <3>1, <3>2
    <3> QED  BY <3>3 DEF z
  <2> QED  BY <2>2, <2>3
<1>5. \A n \in 1..k : places[n] = f + n - 1
  <2> SUFFICES ASSUME NEW n \in 1..k PROVE places[n] = f + n - 1
    OBVIOUS
  <2>1. places[n] = CHOOSE x \in at : Cardinality({y \in at : <<y, x>> \in R}) = n - 1
    BY <1>3 DEF Ordered
  <2>2. f + n - 1 \in at /\ (f + n - 1) - f = n - 1
    BY <1>1, <1>2
  <2> HIDE DEF at, R, places
  <2>3. Cardinality({y \in at : <<y, f + n - 1>> \in R}) = n - 1
    BY <1>4, <2>2
  <2>4. places[n] \in at /\ Cardinality({y \in at : <<y, places[n]>> \in R}) = n - 1
    BY <2>1, <2>2, <2>3
  <2>5. places[n] - f = n - 1 /\ places[n] \in Int
    BY <1>1, <1>2, <1>4, <2>4
  <2> QED  BY <1>1, <2>5
<1>6. Kept(s, T) = [n \in 1..k |-> s[f + n - 1]]
  <2>1. Kept(s, T) = [n \in 1..Cardinality(at) |-> s[places[n]]]
    BY DEF Kept
  <2> HIDE DEF at, R, places
  <2> QED  BY <1>3, <1>5, <2>1
<1> HIDE DEF k
<1>7. \A n \in 1..k : f + n - 1 \in 1..Len(s) /\ s[f + n - 1] \in U
  <2> SUFFICES ASSUME NEW n \in 1..k PROVE f + n - 1 \in 1..Len(s)
    BY ElementOfSeq
  <2> QED  BY <1>1 DEF k
<1> DEFINE a == [n \in 1..k |-> s[f + n - 1]]
           b == SubSeq(s, f, l)
<1>8. a \in Seq(U) /\ Len(a) = k /\ \A n \in 1..k : a[n] = s[f + n - 1]
  <2>1. a \in [1..k -> U] /\ \A n \in 1..k : a[n] = s[f + n - 1]
    BY <1>7
  <2> HIDE DEF a
  <2> QED  BY <1>1, <2>1
<1>9. b \in Seq(U) /\ Len(b) = k /\ \A n \in 1..k : b[n] = s[f + n - 1]
  <2>1. \A i \in f..l : s[i] \in U
    BY <1>1, ElementOfSeq
  <2>2. /\ b \in Seq(U) /\ Len(b) = IF f <= l THEN l - f + 1 ELSE 0
        /\ \A n \in 1..l - f + 1 : b[n] = s[f + n - 1]
    <3> HIDE DEF k
    <3> QED  BY <1>1, <2>1, SubSeqProperties
  <2> HIDE DEF b
  <2> QED  BY <2>2 DEF k
<1> HIDE DEF a, b
<1>10. a = b
  BY <1>1, <1>8, <1>9, SeqEqual
<1> QED  BY <1>6, <1>10 DEF a, b

\* find_node (tree.py) and normalise_folder_path (paths.py) read a typed path in
\* different ways: one takes segments literally, the other drops "" and ".".  Where
\* the tree has the folder and the path normalises, they mean the same folder.
THEOREM BothReadingsAgree ==
    ASSUME NEW t, IsTree(t), NEW typed \in Seq(Segments),
           FindNode(t, typed) # NoPath, NormaliseFolder(typed) # NoPath
    PROVE  FindNode(t, typed) = NormaliseFolder(typed)
<1> DEFINE f == SelectInSeq(typed, LAMBDA x : x # "")
           l == SelectLastInSeq(typed, LAMBDA x : x # "")
           path == SubSeq(typed, f, l)
<1>1. Len(typed) \in Nat /\ DOMAIN typed = 1..Len(typed) /\ \A i \in 1..Len(typed) : typed[i] \in Segments
  BY LenProperties, ElementOfSeq
<1>2. NormaliseFolder(typed) = Kept(typed, Names) /\ Kept(typed, Names) \in NamePaths
  BY NormalisedPaths
<1>3. \E i \in 1..Len(typed) : typed[i] \in Names
  <2>1. SUFFICES ASSUME \A i \in 1..Len(typed) : typed[i] \notin Names PROVE FALSE
    OBVIOUS
  <2>2. {i \in 1..Len(typed) : typed[i] \in Names} = {}
    BY <2>1
  <2>3. Kept(typed, Names) = [n \in 1..0 |-> typed[Ordered({}, {p \in {} \X {} : p[1] < p[2]})[n]]]
    BY <2>2, FS_EmptySet DEF Kept
  <2>4. Len(Kept(typed, Names)) \in Nat \ {0} /\ DOMAIN Kept(typed, Names) = 1..Len(Kept(typed, Names))
    BY <1>2, PathsAreSequences
  <2> QED  BY <2>3, <2>4
<1>4. typed \notin {<<>>, <<".">>}
  <2>1. "." \notin Names
    BY DEF Names
  <2> QED  BY <1>3, <2>1
<1>5. FindNode(t, typed) = path /\ path \in t.folders /\ path \in Seq(Names)
  BY <1>4 DEF FindNode, IsTree
<1>6. \E i \in 1..Len(typed) : typed[i] # ""
  BY <1>3 DEF Names
<1>7. /\ f \in 1..Len(typed) /\ l \in 1..Len(typed) /\ f <= l
  BY <1>6, EndsOfATypedPath
<1>11. \A i \in 1..Len(typed) : typed[i] \in Names => f <= i /\ i <= l
  BY <1>6, EndsOfATypedPath DEF Names
<1> HIDE DEF f, l
<1>8. \A i \in f..l : typed[i] \in Names
  <2> SUFFICES ASSUME NEW i \in f..l PROVE typed[i] \in Names
    OBVIOUS
  <2>1. \A j \in f..l : typed[j] \in Segments
    BY <1>1, <1>7
  <2>2. /\ Len(path) = IF f <= l THEN l - f + 1 ELSE 0
        /\ \A n \in 1..l - f + 1 : path[n] = typed[f + n - 1]
    BY <1>1, <1>7, <2>1, SubSeqProperties
  <2> HIDE DEF path
  <2>3. i - f + 1 \in 1..l - f + 1 /\ f + (i - f + 1) - 1 = i
    BY <1>1, <1>7
  <2>4. path[i - f + 1] = typed[f + (i - f + 1) - 1]
    BY <2>2, <2>3
  <2>5. i - f + 1 \in 1..Len(path)
    BY <1>1, <1>7, <2>2, <2>3
  <2>6. path[i - f + 1] \in Names
    BY <1>5, <2>5, ElementOfSeq
  <2> QED  BY <2>3, <2>4, <2>6
<1>9. \A i \in 1..Len(typed) : typed[i] \in Names <=> f <= i /\ i <= l
  <2> SUFFICES ASSUME NEW i \in 1..Len(typed) PROVE typed[i] \in Names <=> f <= i /\ i <= l
    OBVIOUS
  <2>1. typed[i] \in Names => f <= i /\ i <= l
    BY <1>11
  <2>2. f <= i /\ i <= l => i \in f..l
    BY <1>1, <1>7
  <2> QED  BY <1>8, <2>1, <2>2
<1>10. Kept(typed, Names) = path
  BY <1>7, <1>9, KeptMiddle
<1> QED  BY <1>2, <1>5, <1>10

\* A path typed the way it is normalised is found if it is there.
LEMMA PlainPathsAreFound ==
    ASSUME NEW t, IsTree(t), NEW p \in NamePaths
    PROVE  FindNode(t, p) = IF p \in t.folders THEN p ELSE NoPath
<1> DEFINE f == SelectInSeq(p, LAMBDA x : x # "")
           l == SelectLastInSeq(p, LAMBDA x : x # "")
<1>1. /\ Len(p) \in Nat \ {0} /\ DOMAIN p = 1..Len(p) /\ p \in Seq(Names) /\ p # <<>>
      /\ \A i \in 1..Len(p) : p[i] \in Names
  BY PathsAreSequences
<1>2. 1 \in 1..Len(p) /\ Len(p) \in 1..Len(p)
  BY <1>1
<1>8. \A i \in 1..Len(p) : p[i] # "" /\ p[i] # "."
  BY <1>1 DEF Names
<1>3. /\ f \in 1..Len(p) /\ l \in 1..Len(p) /\ f <= l
  BY <1>1, <1>2, <1>8, EndsOfATypedPath
<1>9. \A i \in 1..Len(p) : f <= i /\ i <= l
  BY <1>1, <1>2, <1>8, EndsOfATypedPath
<1> HIDE DEF f, l
<1> DEFINE n == Len(p)
<1>10. n \in Nat /\ f \in 1..n /\ l \in 1..n /\ f <= 1 /\ n <= l
  BY <1>1, <1>2, <1>3, <1>9
<1> HIDE DEF n
<1>11. f = 1 /\ l = n
  BY <1>10
<1>4. f = 1 /\ l = Len(p)
  BY <1>11 DEF n
<1>5. SubSeq(p, f, l) = p
  BY <1>1, <1>4, SubSeqFull
<1>6. p \notin {<<>>, <<".">>}
  <2>1. p[1] # "."
    BY <1>2, <1>8
  <2>2. <<".">>[1] = "."
    OBVIOUS
  <2> QED  BY <1>1, <2>1, <2>2
<1>7. ToSet(p) # {""}
  BY <1>1, <1>2, <1>8 DEF ToSet
<1> QED  BY <1>5, <1>6, <1>7 DEF FindNode, f, l

-----------------------------------------------------------------------------
(* What is at stake. *)

\* A path below another.
LEMMA BelowMeansLonger ==
    ASSUME NEW f \in Seq(Names), NEW p \in Seq(Names)
    PROVE  /\ IsStrictPrefix(f, p) => /\ Len(f) < Len(p) /\ Len(f) \in Nat /\ Len(p) \in Nat
                                      /\ \A i \in 1..Len(f) : f[i] = p[i]
           /\ p # <<>> /\ Parent(p) = f => IsStrictPrefix(f, p)
<1>1. Len(f) \in Nat /\ Len(p) \in Nat
  BY LenProperties
<1>2. ASSUME IsStrictPrefix(f, p)
      PROVE  Len(f) < Len(p) /\ \A i \in 1..Len(f) : f[i] = p[i]
  <2>1. Len(f) <= Len(p) /\ f # p /\ SubSeq(f, 1, Len(f)) = SubSeq(p, 1, Len(f))
    BY <1>2 DEF IsStrictPrefix, IsPrefix
  <2>2. SubSeq(f, 1, Len(f)) = f
    BY SubSeqFull
  <2>3. Len(f) \in 0..Len(p)
    BY <1>1, <2>1
  <2>4. \A i \in 1..Len(f) : f[i] = p[i]
    BY <2>1, <2>2, <2>3, PrefixProperties
  <2>5. Len(f) # Len(p)
    BY <2>1, <2>4, SeqEqual
  <2> QED  BY <1>1, <2>1, <2>4, <2>5
<1>3. ASSUME p # <<>>, Parent(p) = f PROVE IsStrictPrefix(f, p)
  <2>1. p \in NamePaths
    BY <1>3 DEF NamePaths
  <2>2. Len(f) = Len(p) - 1
    BY <1>3, <2>1, ParentIsAllButTheLast
  <2>3. f = SubSeq(p, 1, Len(f))
    BY <1>3, <2>1, <2>2, ParentIsAllButTheLast
  <2>4. SubSeq(f, 1, Len(f)) = f
    BY SubSeqFull
  <2>5. Len(f) <= Len(p) /\ f # p
    BY <1>1, <2>2
  <2> QED  BY <2>3, <2>4, <2>5 DEF IsStrictPrefix, IsPrefix
<1> QED  BY <1>1, <1>2, <1>3

\* Whatever is below a folder, the folder has a child.
LEMMA BelowIsAChild ==
    ASSUME NEW t, IsTree(t), NEW f \in Seq(Names), NEW p \in t.folders \cup t.notes,
           IsStrictPrefix(f, p)
    PROVE  /\ f \in t.folders
           /\ Children(t.folders, f) # {} \/ Children(t.notes, f) # {}
<1>1. p \in Seq(Names)
  BY DEF IsTree, NamePaths
<1>2. Len(f) < Len(p) /\ Len(f) \in Nat /\ Len(p) \in Nat /\ \A i \in 1..Len(f) : f[i] = p[i]
  BY <1>1, BelowMeansLonger
<1>3. p \in NamePaths
  BY <1>1, <1>2, EmptySeq DEF NamePaths
<1>4. Parent(p) = SubSeq(p, 1, Len(p) - 1)
  BY <1>3, ParentIsAllButTheLast
<1>5. ASSUME NEW q \in Seq(Names), q \in t.folders, NEW n \in 0..Len(q)
      PROVE  SubSeq(q, 1, n) \in t.folders
  BY <1>5 DEF IsTree
<1>6. \A n \in 0..Len(p) - 1 : SubSeq(p, 1, n) \in t.folders
  <2> SUFFICES ASSUME NEW n \in 0..Len(p) - 1 PROVE SubSeq(p, 1, n) \in t.folders
    OBVIOUS
  <2>1. n \in 0..Len(p)
    BY <1>2
  <2>2. CASE p \in t.folders
    BY <1>1, <1>5, <2>1, <2>2
  <2>3. CASE p \in t.notes
    <3> DEFINE q == Parent(p)
    <3>1. q \in t.folders /\ q \in Seq(Names) /\ Len(q) = Len(p) - 1 /\ \A i \in 1..Len(p) - 1 : q[i] = p[i]
      BY <1>3, <2>3, ParentIsAllButTheLast DEF IsTree
    <3> HIDE DEF q
    <3>2. n \in 0..Len(q)
      BY <3>1
    <3>3. SubSeq(q, 1, n) \in t.folders
      BY <1>5, <3>1, <3>2
    <3> DEFINE x == SubSeq(q, 1, n)
               y == SubSeq(p, 1, n)
    <3>4. /\ x \in Seq(Names) /\ Len(x) = n /\ \A i \in 1..n : x[i] = q[i]
          /\ y \in Seq(Names) /\ Len(y) = n /\ \A i \in 1..n : y[i] = p[i]
      BY <1>1, <2>1, <3>1, <3>2, PrefixProperties
    <3> HIDE DEF x, y
    <3>5. \A i \in 1..n : x[i] = y[i]
      BY <1>2, <3>1, <3>4
    <3>6. x = y
      BY <3>4, <3>5, SeqEqual
    <3> QED  BY <3>3, <3>6 DEF x, y
  <2> QED  BY <2>2, <2>3
<1>7. SubSeq(p, 1, Len(f)) = f
  <2> DEFINE y == SubSeq(p, 1, Len(f))
  <2>1. Len(f) \in 0..Len(p)
    BY <1>2
  <2>2. y \in Seq(Names) /\ Len(y) = Len(f) /\ \A i \in 1..Len(f) : y[i] = p[i]
    BY <1>1, <2>1, PrefixProperties
  <2> HIDE DEF y
  <2>3. y = f
    BY <1>2, <2>2, SeqEqual
  <2> QED  BY <2>3 DEF y
<1>8. f \in t.folders
  <2>1. Len(f) \in 0..Len(p) - 1
    BY <1>2
  <2> QED  BY <1>6, <1>7, <2>1
<1>9. CASE Len(p) = Len(f) + 1
  <2>1. Len(p) - 1 = Len(f)
    BY <1>2, <1>9
  <2>2. Parent(p) = f
    BY <1>4, <1>7, <2>1
  <2>3. p \in Children(t.folders, f) \/ p \in Children(t.notes, f)
    BY <1>3, <2>2 DEF Children, NamePaths
  <2> QED  BY <1>8, <2>3
<1>10. CASE Len(p) # Len(f) + 1
  <2> DEFINE n == Len(f) + 1
             c == SubSeq(p, 1, n)
  <2>1. n \in 0..Len(p) - 1 /\ n \in 0..Len(p) /\ n - 1 = Len(f) /\ n \in Nat \ {0}
    BY <1>2, <1>10
  <2>2. c \in t.folders
    BY <1>6, <2>1
  <2>3. c \in Seq(Names) /\ Len(c) = n /\ \A i \in 1..n : c[i] = p[i]
    BY <1>1, <2>1, PrefixProperties
  <2> HIDE DEF c
  <2>4. c \in NamePaths
    BY <2>1, <2>3, EmptySeq DEF NamePaths
  <2> DEFINE d == Parent(c)
  <2>5. d \in Seq(Names) /\ Len(d) = n - 1 /\ \A i \in 1..n - 1 : d[i] = c[i]
    BY <2>3, <2>4, ParentIsAllButTheLast
  <2> HIDE DEF d
  <2>6. Len(d) = Len(f) /\ \A i \in 1..Len(f) : d[i] = f[i]
    BY <1>2, <2>1, <2>3, <2>5
  <2>7. d = f
    BY <2>5, <2>6, SeqEqual
  <2>8. c \in Children(t.folders, f)
    BY <2>2, <2>4, <2>7 DEF Children, d, NamePaths
  <2> QED  BY <1>8, <2>8
<1> QED  BY <1>9, <1>10

\* A prompt counts no more than is deleted, and counts something if anything is.
LEMMA TheCountIsTheStakes ==
    ASSUME IsListing(vault), NEW f \in Seq(Names)
    PROVE  LET t == BuildTree(vault)
           IN  /\ Cardinality(Under(f)) \in Nat
               /\ f \notin t.folders => Cardinality(Under(f)) = 0
               /\ f \in t.folders =>
                    /\ Len(Entries(t, f)) \in Nat
                    /\ Len(Entries(t, f)) <= Cardinality(Under(f))
                    /\ Len(Entries(t, f)) = 0 => Cardinality(Under(f)) = 0
<1> DEFINE t == BuildTree(vault)
           A == [kind : {"folder"}, path : t.folders]
           B == [kind : {"note"}, path : vault.notes]
           e == Entries(t, f)
<1>1. IsTree(t) /\ t.notes = vault.notes
  BY BuildTreeMakesATree DEF BuildTree
<1>2. Under(f) = {x \in A \cup B : IsStrictPrefix(f, x.path)}
  BY DEF Under
<1> HIDE DEF t
<1>3. IsFiniteSet(Under(f))
  <2> DEFINE g == [p \in t.folders |-> [kind |-> "folder", path |-> p]]
             h == [p \in vault.notes |-> [kind |-> "note", path |-> p]]
  <2>1. g \in Surjection(t.folders, A)
    BY DEF Surjection
  <2>2. h \in Surjection(vault.notes, B)
    BY DEF Surjection
  <2> HIDE DEF A, B, g, h
  <2>3. IsFiniteSet(A) /\ IsFiniteSet(B)
    BY <1>1, <2>1, <2>2, FS_Surjection DEF IsTree
  <2>4. IsFiniteSet(A \cup B)
    BY <2>3, FS_Union
  <2>5. Under(f) \in SUBSET (A \cup B)
    BY <1>2
  <2> QED  BY <2>4, <2>5, FS_Subset
<1>4. Cardinality(Under(f)) \in Nat
  BY <1>3, FS_CardinalityType
<1>5. ASSUME Under(f) # {}
      PROVE  /\ f \in t.folders
             /\ Children(t.folders, f) # {} \/ Children(t.notes, f) # {}
  <2>1. PICK x \in A \cup B : IsStrictPrefix(f, x.path)
    BY <1>2, <1>5
  <2>2. x.path \in t.folders \cup t.notes
    BY <1>1, <2>1
  <2> QED  BY <1>1, <2>1, <2>2, BelowIsAChild
<1>6. ASSUME f \in t.folders
      PROVE  /\ Len(e) \in Nat /\ Len(e) <= Cardinality(Under(f))
             /\ Len(e) = 0 => Cardinality(Under(f)) = 0
  <2>1. /\ Lists(e)
        /\ \A i \in 1..Len(e) : e[i] \in [kind : {"folder"}, path : Children(t.folders, f)]
                                          \cup [kind : {"note"}, path : Children(t.notes, f)]
        /\ Len(e) = 0 => Children(t.folders, f) = {} /\ Children(t.notes, f) = {}
    BY <1>1, EntriesListChildren
  <2>2. Len(e) \in Nat /\ DOMAIN e = 1..Len(e) /\ e \in [1..Len(e) -> EntryRecords]
    BY <2>1, LenProperties DEF Lists
  <2>3. \A p \in Children(t.folders, f) : p \in t.folders /\ IsStrictPrefix(f, p)
    BY <1>1, BelowMeansLonger DEF Children, IsTree
  <2>4. \A p \in Children(t.notes, f) : p \in vault.notes /\ IsStrictPrefix(f, p)
    BY <1>1, BelowMeansLonger DEF Children, IsTree, NamePaths
  <2>5. \A i \in 1..Len(e) : e[i] \in Under(f)
    BY <1>2, <2>1, <2>3, <2>4
  <2> HIDE DEF e
  <2>6. e \in Injection(1..Len(e), Under(f))
    BY <2>1, <2>2, <2>5 DEF Injection, IsInjective, Lists
  <2>7. Cardinality(1..Len(e)) <= Cardinality(Under(f)) /\ Cardinality(1..Len(e)) = Len(e)
    <3>1. Cardinality(1..Len(e)) <= Cardinality(Under(f))
      BY <1>3, <2>6, FS_Injection
    <3>2. \A n \in Nat : Cardinality(1..n) = n
      <4> TAKE n \in Nat
      <4>1. Cardinality(1..n) = IF 1 > n THEN 0 ELSE n - 1 + 1
        BY FS_Interval
      <4> QED  BY <4>1
    <3> QED  BY <2>2, <3>1, <3>2
  <2>8. Len(e) = 0 => Under(f) = {}
    BY <1>5, <2>1
  <2> QED  BY <2>2, <2>7, <2>8, FS_EmptySet
<1>7. f \notin t.folders => Cardinality(Under(f)) = 0
  BY <1>5, FS_EmptySet
<1> QED  BY <1>4, <1>6, <1>7 DEF t, e

-----------------------------------------------------------------------------
(* The inductive invariant. *)

\* A prompt names the folder it counted, and is right about whether anything is
\* at stake.
Staked(m) ==
    NormaliseFolder(m.path) # NoPath =>
        /\ m.counted # NoPath => m.counted = NormaliseFolder(m.path)
        /\ m.fresh => /\ m.size <= m.then
                      /\ m.size = 0 /\ m.then > 0 => m.path # NormaliseFolder(m.path)

Fits(m) ==
    /\ Shaped(m)
    /\ m.kind \in {"folder", "hits"} => Listing(m)
    /\ m.kind = "askFolder" => Staked(m)

ChatFits(messages) ==
    /\ IsFiniteSet(messages) /\ Cardinality(messages) <= MaxMessages
    /\ \A m \in messages : Fits(m)

BrowseInv ==
    /\ IsListing(vault)
    /\ tree = NoTree \/ IsTree(tree)
    /\ ChatFits(chat)
    /\ changes \in 0..MaxChanges

-----------------------------------------------------------------------------
(* The screen. *)

\* A message that gives way to another.
LEMMA EditFits ==
    ASSUME ChatFits(chat), NEW m \in chat, NEW new, Fits(new), Edit(m, new)
    PROVE  ChatFits(chat')
<1> DEFINE c == chat \ {m}
<1>1. IsFiniteSet(chat) /\ Cardinality(chat) \in Nat /\ Cardinality(chat) <= MaxMessages
  BY FS_CardinalityType DEF ChatFits
<1>2. IsFiniteSet(c) /\ Cardinality(c) = Cardinality(chat) - 1 /\ Cardinality(c) \in Nat
  <2>1. IsFiniteSet(c) /\ Cardinality(c) = Cardinality(chat) - 1
    BY <1>1, FS_RemoveElement
  <2> QED  BY <2>1, FS_CardinalityType
<1>3. \A x \in c : Fits(x)
  BY DEF ChatFits
<1>4. chat' = c \cup {new}
  BY DEF Edit
<1> HIDE DEF c
<1>5. IsFiniteSet(c \cup {new})
      /\ Cardinality(c \cup {new}) = IF new \in c THEN Cardinality(c) ELSE Cardinality(c) + 1
  BY <1>2, FS_AddElement
<1>6. MaxMessages \in Nat
  BY BrowsingAssumption
<1>7. Cardinality(c \cup {new}) <= MaxMessages
  BY <1>1, <1>2, <1>5, <1>6
<1> QED  BY <1>3, <1>4, <1>5, <1>7 DEF ChatFits

\* A message sent, as long as the screen takes it or lets one go.
LEMMA ReplyFits ==
    ASSUME ChatFits(chat), NEW new, Fits(new), Reply(new)
    PROVE  ChatFits(chat')
<1>1. CASE Cardinality(chat) < MaxMessages /\ chat' = chat \cup {new}
  <2>1. IsFiniteSet(chat) /\ Cardinality(chat) \in Nat
    BY FS_CardinalityType DEF ChatFits
  <2>2. IsFiniteSet(chat \cup {new})
        /\ Cardinality(chat \cup {new}) = IF new \in chat THEN Cardinality(chat) ELSE Cardinality(chat) + 1
    BY <2>1, FS_AddElement
  <2>3. MaxMessages \in Nat
    BY BrowsingAssumption
  <2>4. Cardinality(chat \cup {new}) <= MaxMessages
    BY <1>1, <2>1, <2>2, <2>3
  <2> QED  BY <1>1, <2>2, <2>4 DEF ChatFits
<1>2. CASE \E m \in chat : Edit(m, new)
  BY <1>2, EditFits
<1> QED  BY <1>1, <1>2 DEF Reply

\* Either of the two.
LEMMA PutFits ==
    ASSUME ChatFits(chat), NEW new, Fits(new), NEW old \in SUBSET chat, Put(new, old)
    PROVE  ChatFits(chat')
<1>1. CASE old = {}
  BY <1>1, ReplyFits DEF Put
<1>2. CASE old # {}
  BY <1>2, EditFits DEF Put
<1> QED  BY <1>1, <1>2

\* Messages that go away.
LEMMA FewerFit ==
    ASSUME NEW c, ChatFits(c), NEW d \in SUBSET c
    PROVE  ChatFits(d)
<1>1. IsFiniteSet(c) /\ Cardinality(c) \in Nat /\ Cardinality(c) <= MaxMessages
  BY FS_CardinalityType DEF ChatFits
<1>2. IsFiniteSet(d) /\ Cardinality(d) <= Cardinality(c) /\ Cardinality(d) \in Nat
  BY <1>1, FS_Subset, FS_CardinalityType
<1>3. Cardinality(d) <= MaxMessages
  BY <1>1, <1>2, BrowsingAssumption
<1> QED  BY <1>2, <1>3 DEF ChatFits

\* Buttons that die with a token.
LEMMA RevokingFits ==
    ASSUME NEW c, ChatFits(c), NEW id
    PROVE  ChatFits({IF x.id = id THEN [x EXCEPT !.id = 0] ELSE x : x \in c})
<1> DEFINE F(x) == IF x.id = id THEN [x EXCEPT !.id = 0] ELSE x
           d == {F(x) : x \in c}
           g == [x \in c |-> F(x)]
<1>1. IsFiniteSet(c) /\ Cardinality(c) \in Nat /\ Cardinality(c) <= MaxMessages
  BY FS_CardinalityType DEF ChatFits
<1>2. g \in Surjection(c, d)
  BY DEF Surjection
<1>3. \A x \in c : Fits(F(x))
  <2> SUFFICES ASSUME NEW x \in c, NEW y, y = [x EXCEPT !.id = 0] PROVE Fits(y)
    BY DEF ChatFits
  <2>1. Fits(x)
    BY DEF ChatFits
  <2>2. /\ Shaped(y) /\ y.kind = x.kind /\ y.path = x.path /\ y.entries = x.entries
        /\ y.page = x.page /\ y.seen = x.seen /\ y.size = x.size /\ y.counted = x.counted
        /\ y.then = x.then /\ y.fresh = x.fresh
    BY <2>1 DEF Fits, Shaped
  <2>3. \A p : Shown(y, p) = Shown(x, p)
    BY <2>2 DEF Shown
  <2>4. Listing(x) => Listing(y)
    BY <2>2, <2>3 DEF Listing, SeenPages
  <2>5. Staked(x) => Staked(y)
    BY <2>2 DEF Staked
  <2> QED  BY <2>1, <2>2, <2>4, <2>5 DEF Fits
<1>4. \A y \in d : Fits(y)
  BY <1>3
<1>5. IsFiniteSet(d) /\ Cardinality(d) <= Cardinality(c)
  <2> HIDE DEF d, g
  <2> QED  BY <1>1, <1>2, FS_Surjection
<1>6. Cardinality(d) \in Nat
  BY <1>5, FS_CardinalityType
<1> HIDE DEF d
<1>7. Cardinality(d) <= MaxMessages
  BY <1>1, <1>5, <1>6, BrowsingAssumption
<1>8. ChatFits(d)
  BY <1>4, <1>5, <1>7 DEF ChatFits
<1> QED  BY <1>8 DEF d

-----------------------------------------------------------------------------
(* New messages. *)

\* What get_tree answers is a tree, cached or not.
LEMMA TreeIsATree ==
    ASSUME IsListing(vault), tree = NoTree \/ IsTree(tree)
    PROVE  IsTree(Tree)
BY BuildTreeMakesATree DEF Tree

\* A listing that nobody has seen yet, at its first page.
LEMMA FirstPageFits ==
    ASSUME NEW m, Shaped(m), Lists(m.entries), m.seen = {}, m.kind \in {"folder", "hits"}
    PROVE  Fits(AtPage(m, 1))
<1>1. SeenPages(m)
  BY DEF SeenPages
<1>2. /\ Shaped(AtPage(m, 1)) /\ Listing(AtPage(m, 1))
      /\ AtPage(m, 1).kind = m.kind
  BY <1>1, TurningAPage
<1> QED  BY <1>2 DEF Fits

\* The message new ones are made from.
LEMMA MessageIsShaped ==
    /\ Shaped(Message) /\ Message.kind = "folder" /\ Message.path = <<>>
    /\ Message.seen = {} /\ Message.counted = NoPath /\ Message.size = 0
BY DEF Message, Shaped

\* A folder at its first page.
LEMMA FolderMessageFits ==
    ASSUME IsTree(Tree), NEW typed
    PROVE  Fits(FolderMessage(typed))
<1> DEFINE path == FindNode(Tree, typed)
           e == Entries(Tree, path)
           m == [Message EXCEPT !.path = path, !.entries = e]
<1>1. Lists(e)
  BY EntriesListChildren
<1>2. Shaped(m) /\ m.entries = e /\ m.seen = {} /\ m.kind = "folder"
  <2> HIDE DEF path, e
  <2>1. m = [Message EXCEPT !.path = path, !.entries = e]
    OBVIOUS
  <2> HIDE DEF m
  <2> QED  BY <2>1, MessageIsShaped DEF Shaped
<1>3. FolderMessage(typed) = AtPage(m, 1)
  BY DEF FolderMessage
<1> HIDE DEF m, e
<1> QED  BY <1>1, <1>2, <1>3, FirstPageFits

\* A note, its references and the prompt before its deletion have no pages.
LEMMA NoteMessageFits ==
    ASSUME NEW note, NEW id
    PROVE  Fits(NoteMessage(note, id))
<1>1. ASSUME NEW m, NEW e,
             m = [Message EXCEPT !.kind = "note", !.path = note, !.id = id, !.entries = e]
      PROVE  Fits(m)
  <2>1. Shaped(m) /\ m.kind = "note"
    BY <1>1, MessageIsShaped DEF Shaped
  <2> QED  BY <2>1 DEF Fits
<1> QED  BY <1>1 DEF NoteMessage

\* Results at their first page.
LEMMA ResultsFit ==
    ASSUME NEW S \in SUBSET NamePaths, IsFiniteSet(S)
    PROVE  Fits(Results(S))
<1> DEFINE hits == Walk(S)
           n == IF Len(hits) < SearchLimit THEN Len(hits) ELSE SearchLimit
           e == [i \in 1..n |-> [kind |-> "note", path |-> hits[i]]]
           m == [Message EXCEPT !.kind = "hits", !.entries = e]
           c == Cardinality(S)
<1>1. /\ c \in Nat /\ Len(hits) = c
      /\ \A i \in 1..c : hits[i] \in S
      /\ \A i, j \in 1..c : hits[i] = hits[j] => i = j
  BY WalkEnumerates
<1>2. n \in Nat /\ n <= c
  <2> HIDE DEF hits, c
  <2> QED  BY <1>1, BrowsingAssumption
<1>3. Results(S) = AtPage(m, 1)
  BY DEF Results
<1> HIDE DEF n, hits, c
<1>4. \A i \in 1..n : i \in 1..c
  BY <1>1, <1>2
<1>5. \A p \in S : p \in Seq(Segments)
  BY PathsAreSequences
<1>6. \A i \in 1..n : [kind |-> "note", path |-> hits[i]] \in EntryRecords
  BY <1>1, <1>4, <1>5 DEF EntryRecords, Kinds
<1>7. /\ e \in [1..n -> EntryRecords]
      /\ \A i \in 1..n : e[i].path = hits[i]
  BY <1>6
<1>8. Shaped(m) /\ m.entries = e /\ m.seen = {} /\ m.kind = "hits"
  <2> HIDE DEF e
  <2>1. m = [Message EXCEPT !.kind = "hits", !.entries = e]
    OBVIOUS
  <2> HIDE DEF m
  <2> QED  BY <2>1, MessageIsShaped DEF Shaped
<1> HIDE DEF e, m
<1>9. e \in Seq(EntryRecords) /\ Len(e) = n
  BY <1>2, <1>7
<1>10. Lists(e)
  <2> SUFFICES ASSUME NEW i \in 1..n, NEW j \in 1..n, e[i] = e[j] PROVE i = j
    BY <1>9 DEF Lists
  <2>1. hits[i] = hits[j]
    BY <1>7
  <2> QED  BY <1>1, <1>4, <2>1
<1> QED  BY <1>3, <1>8, <1>10, FirstPageFits

\* The prompt before a folder is deleted says what it deletes.
LEMMA PromptFits ==
    ASSUME IsListing(vault), IsTree(Tree), NEW typed \in Seq(Segments),
           NEW size, NEW counted, NEW fresh, NEW then, NEW m,
           m = [Message EXCEPT !.kind = "askFolder", !.path = typed, !.size = size,
                  !.counted = counted, !.fresh = fresh, !.then = then],
           then = IF NormaliseFolder(typed) = NoPath THEN 0
                  ELSE Cardinality(Under(NormaliseFolder(typed))),
           \/ /\ size = FolderSize(typed) /\ counted = FindNode(Tree, typed)
              /\ fresh = (Tree = BuildTree(vault))
           \/ counted = NoPath /\ fresh = FALSE
    PROVE  Fits(m)
<1> DEFINE f == NormaliseFolder(typed)
<1>1. /\ Shaped(m) /\ m.kind = "askFolder" /\ m.path = typed /\ m.size = size
      /\ m.counted = counted /\ m.fresh = fresh /\ m.then = then
  BY MessageIsShaped DEF Shaped
<1>2. ASSUME f # NoPath
      PROVE  /\ counted # NoPath => counted = f
             /\ fresh => size <= then /\ (size = 0 /\ then > 0 => typed # f)
  <2>1. f \in NamePaths /\ f \in Seq(Names) /\ then = Cardinality(Under(f))
    BY <1>2, NormalisedPaths, PathsAreSequences
  <2> DEFINE t == BuildTree(vault)
             n == Len(Entries(t, f))
             u == Cardinality(Under(f))
  <2>2. /\ u \in Nat
        /\ f \notin t.folders => u = 0
        /\ f \in t.folders => n \in Nat /\ n <= u /\ (n = 0 => u = 0)
    BY <2>1, TheCountIsTheStakes
  <2>3. counted # NoPath => counted = f
    BY <1>2, BothReadingsAgree
  <2>4. ASSUME fresh
        PROVE  size <= then /\ (size = 0 /\ then > 0 => typed # f)
    <3>1. size = FolderSize(typed) /\ Tree = t /\ counted = FindNode(t, typed)
      BY <2>4
    <3>2. CASE counted = NoPath
      <4>1. size = 0
        BY <3>1, <3>2 DEF FolderSize
      <4>2. typed = f => f \notin t.folders
        BY <1>2, <2>1, <3>1, <3>2, PlainPathsAreFound
      <4> HIDE DEF f, u, t, n
      <4> QED  BY <2>1, <2>2, <4>1, <4>2 DEF u
    <3>3. CASE counted # NoPath
      <4>1. counted = f /\ f \in t.folders
        BY <2>3, <3>1, <3>3, FindNodeFinds
      <4>2. size = n
        BY <3>1, <3>3, <4>1 DEF FolderSize
      <4> HIDE DEF f, u, t, n
      <4> QED  BY <2>1, <2>2, <4>1, <4>2 DEF u
    <3> QED  BY <3>2, <3>3
  <2> QED  BY <2>3, <2>4
<1>3. Staked(m)
  BY <1>1, <1>2 DEF Staked
<1> QED  BY <1>1, <1>3 DEF Fits

-----------------------------------------------------------------------------
(* The vault. *)

\* Finite sets of paths are a listing.
LEMMA ListingOf ==
    ASSUME NEW F \in SUBSET NamePaths, IsFiniteSet(F), NEW N \in SUBSET NamePaths, IsFiniteSet(N)
    PROVE  IsListing([folders |-> F, notes |-> N])
BY DEF IsListing

\* A listing with other notes, or other folders.
LEMMA ListingChanges ==
    ASSUME NEW v, IsListing(v), NEW S \in SUBSET NamePaths, IsFiniteSet(S)
    PROVE  /\ IsListing([v EXCEPT !.notes = S])
           /\ IsListing([v EXCEPT !.folders = S])
<1>1. ASSUME NEW x, x = [v EXCEPT !.notes = S] PROVE IsListing(x)
  <2>1. x = [folders |-> v.folders, notes |-> S]
    BY <1>1 DEF IsListing
  <2> QED  BY <2>1, ListingOf DEF IsListing
<1>2. ASSUME NEW x, x = [v EXCEPT !.folders = S] PROVE IsListing(x)
  <2>1. x = [folders |-> S, notes |-> v.notes]
    BY <1>2 DEF IsListing
  <2> QED  BY <2>1, ListingOf DEF IsListing
<1> QED  BY <1>1, <1>2

\* A path added, taken away or left out.
LEMMA PathsComeAndGo ==
    ASSUME NEW S \in SUBSET NamePaths, IsFiniteSet(S)
    PROVE  /\ \A p \in NamePaths : S \cup {p} \in SUBSET NamePaths /\ IsFiniteSet(S \cup {p})
           /\ \A p : S \ {p} \in SUBSET NamePaths /\ IsFiniteSet(S \ {p})
           /\ \A T \in SUBSET S : T \in SUBSET NamePaths /\ IsFiniteSet(T)
BY FS_AddElement, FS_RemoveElement, FS_Subset

\* What was under a folder is under the other.
LEMMA MovedPaths ==
    ASSUME NEW old \in Seq(Names), NEW new \in NamePaths, NEW S \in SUBSET NamePaths, IsFiniteSet(S)
    PROVE  LET T == {Moved(old, new, p) : p \in S} IN T \in SUBSET NamePaths /\ IsFiniteSet(T)
<1> DEFINE T == {Moved(old, new, p) : p \in S}
           g == [p \in S |-> Moved(old, new, p)]
<1>1. ASSUME NEW p \in S PROVE Moved(old, new, p) \in NamePaths
  <2>1. CASE IsPrefix(old, p)
    <3> DEFINE a == Len(old) + 1
               b == Len(p)
               rest == SubSeq(p, a, b)
    <3>1. /\ p \in Seq(Names) /\ b \in Nat /\ \A i \in 1..b : p[i] \in Names
          /\ Len(old) \in Nat /\ new \in Seq(Names) /\ Len(new) \in Nat \ {0}
      BY PathsAreSequences, LenProperties
    <3>2. \A i \in a..b : p[i] \in Names
      <4>1. \A i \in a..b : i \in 1..b
        BY <3>1
      <4> QED  BY <3>1, <4>1
    <3>3. a \in Int /\ b \in Int
      BY <3>1
    <3>4. rest \in Seq(Names)
      <4> HIDE DEF a, b
      <4> QED  BY <3>2, <3>3, SubSeqProperties
    <3> DEFINE whole == new \o rest
    <3>5. Moved(old, new, p) = whole
      BY <2>1 DEF Moved
    <3> HIDE DEF rest
    <3>6. whole \in Seq(Names) /\ Len(whole) = Len(new) + Len(rest) /\ Len(rest) \in Nat
      BY <3>1, <3>4, ConcatProperties, LenProperties
    <3> HIDE DEF whole
    <3>7. whole # <<>>
      BY <3>1, <3>6, EmptySeq
    <3> QED  BY <3>5, <3>6, <3>7 DEF NamePaths
  <2>2. CASE ~IsPrefix(old, p)
    BY <2>2 DEF Moved
  <2> QED  BY <2>1, <2>2
<1>2. g \in Surjection(S, T)
  BY DEF Surjection
<1>3. T \subseteq NamePaths
  BY <1>1
<1> HIDE DEF T, g
<1>4. IsFiniteSet(T)
  BY <1>2, FS_Surjection
<1> QED  BY <1>3, <1>4 DEF T

-----------------------------------------------------------------------------
(* The actions keep the invariant. *)

\* What only reads leaves the vault alone, and the tree it leaves is a tree.
LEMMA ReadsKeep ==
    ASSUME BrowseInv, Reads, tree' = tree \/ tree' = Tree \/ tree' = NoTree, ChatFits(chat')
    PROVE  BrowseInv'
<1>1. IsTree(Tree)
  BY TreeIsATree DEF BrowseInv
<1>2. vault' = vault /\ changes' = changes
  BY DEF Reads
<1>3. IsListing(vault') /\ changes' \in 0..MaxChanges
  BY <1>2 DEF BrowseInv
<1>4. tree' = NoTree \/ IsTree(tree')
  BY <1>1 DEF BrowseInv
<1> QED  BY <1>3, <1>4 DEF BrowseInv

\* A folder rendered in reply or in place.
LEMMA GoToKeeps ==
    ASSUME BrowseInv, NEW typed, NEW old \in SUBSET chat, GoTo(typed, old)
    PROVE  BrowseInv'
<1>1. IsTree(Tree) /\ ChatFits(chat)
  BY TreeIsATree DEF BrowseInv
<1>2. Fits(FolderMessage(typed))
  BY <1>1, FolderMessageFits
<1>3. ChatFits(chat')
  <2>1. CASE Put(FolderMessage(typed), old)
    BY <1>1, <1>2, <2>1, PutFits
  <2>2. CASE UNCHANGED chat
    BY <1>1, <2>2
  <2> QED  BY <2>1, <2>2 DEF GoTo
<1> QED  BY <1>3, ReadsKeep DEF GoTo

\* A note rendered in reply or in place.
LEMMA ShowNoteKeeps ==
    ASSUME BrowseInv, NEW note, NEW id, NEW old \in SUBSET chat, ShowNote(note, id, old)
    PROVE  BrowseInv'
<1>1. ChatFits(chat)
  BY DEF BrowseInv
<1>2. ChatFits(chat')
  BY <1>1, NoteMessageFits, PutFits DEF ShowNote
<1>3. tree' = tree \/ tree' = Tree
  BY DEF ShowNote
<1> QED  BY <1>2, <1>3, ReadsKeep DEF ShowNote

\* A page of results.
LEMMA PresentKeeps ==
    ASSUME BrowseInv, NEW S \in SUBSET vault.notes, Present(S)
    PROVE  BrowseInv'
<1>1. ChatFits(chat) /\ S \in SUBSET NamePaths /\ IsFiniteSet(S)
  BY PathsComeAndGo DEF BrowseInv, IsListing
<1>2. Fits(Results(S))
  BY <1>1, ResultsFit
<1>3. ChatFits(chat')
  BY <1>1, <1>2, ReplyFits DEF Present
<1> QED  BY <1>3, ReadsKeep DEF Present

\* A write, whether its answer arrives or not.
LEMMA WriteKeeps ==
    ASSUME BrowseInv, NEW v, IsListing(v), NEW ACTION Done,
           Write(v, Done), Done => ChatFits(chat')
    PROVE  BrowseInv'
<1>1. changes' \in 0..MaxChanges
  BY BrowsingAssumption DEF BrowseInv, Write
<1>2. IsListing(vault')
  BY DEF Write
<1>3. ChatFits(chat') /\ (tree' = NoTree \/ IsTree(tree'))
  BY DEF Write, BrowseInv
<1> QED  BY <1>1, <1>2, <1>3 DEF BrowseInv

\* Every command.
LEMMA CommandsKeep ==
    ASSUME BrowseInv, Command PROVE BrowseInv'
<1>1. /\ IsListing(vault) /\ ChatFits(chat) /\ IsTree(Tree)
      /\ vault.notes \in SUBSET NamePaths /\ IsFiniteSet(vault.notes)
      /\ vault.folders \in SUBSET NamePaths /\ IsFiniteSet(vault.folders)
  BY TreeIsATree DEF BrowseInv, IsListing
<1>2. {} \in SUBSET chat
  OBVIOUS
<1>3. ASSUME NEW typed \in Typed, BrowseCommand(typed) PROVE BrowseInv'
  BY <1>2, <1>3, GoToKeeps DEF BrowseCommand
<1>4. ASSUME NEW typed \in Typed, OpenCommand(typed) PROVE BrowseInv'
  BY <1>2, <1>4, ShowNoteKeeps DEF OpenCommand
<1>5. ASSUME NEW typed \in Typed, FolderNew(typed) PROVE BrowseInv'
  <2> DEFINE f == NormaliseFolder(typed)
             v == [vault EXCEPT !.folders = vault.folders \cup {f}]
  <2>1. f # NoPath /\ Write(v, UNCHANGED chat)
    BY <1>5 DEF FolderNew
  <2>2. f \in NamePaths
    BY <2>1, NormalisedPaths, BrowsingAssumption
  <2> HIDE DEF f
  <2>3. IsListing(v)
    BY <1>1, <2>2, PathsComeAndGo, ListingChanges
  <2> HIDE DEF v
  <2> QED  BY <1>1, <2>1, <2>3, WriteKeeps
<1>6. ASSUME NEW typed \in Typed, ConfirmFolderDelete(typed) PROVE BrowseInv'
  <2>1. typed \in Seq(Segments)
    BY BrowsingAssumption
  <2>2. ASSUME NEW size, NEW counted, NEW fresh,
               \/ /\ size = FolderSize(typed) /\ counted = FindNode(Tree, typed)
                  /\ fresh = (Tree = BuildTree(vault))
               \/ counted = NoPath /\ fresh = FALSE,
               AskFolder(typed, size, counted, fresh)
        PROVE  ChatFits(chat')
    <3> DEFINE then == IF NormaliseFolder(typed) = NoPath THEN 0
                       ELSE Cardinality(Under(NormaliseFolder(typed)))
               m == [Message EXCEPT !.kind = "askFolder", !.path = typed, !.size = size,
                       !.counted = counted, !.fresh = fresh, !.then = then]
    <3>1. Reply(m)
      BY <2>2 DEF AskFolder
    <3>2. Fits(m)
      <4> HIDE DEF then, m
      <4>1. /\ then = IF NormaliseFolder(typed) = NoPath THEN 0
                      ELSE Cardinality(Under(NormaliseFolder(typed)))
            /\ m = [Message EXCEPT !.kind = "askFolder", !.path = typed, !.size = size,
                      !.counted = counted, !.fresh = fresh, !.then = then]
        BY DEF then, m
      <4> QED  BY <1>1, <2>1, <2>2, <4>1, PromptFits
    <3> HIDE DEF m
    <3> QED  BY <1>1, <3>1, <3>2, ReplyFits
  <2>3. CASE /\ tree' = Tree
             /\ AskFolder(typed, FolderSize(typed), FindNode(Tree, typed), Tree = BuildTree(vault))
    <3>1. ChatFits(chat')
      BY <2>2, <2>3
    <3> QED  BY <1>6, <2>3, <3>1, ReadsKeep DEF ConfirmFolderDelete
  <2>4. CASE tree = NoTree /\ tree' = tree /\ AskFolder(typed, 0, NoPath, FALSE)
    <3>1. ChatFits(chat')
      BY <2>2, <2>4
    <3> QED  BY <1>6, <2>4, <3>1, ReadsKeep DEF ConfirmFolderDelete
  <2> QED  BY <1>6, <2>3, <2>4 DEF ConfirmFolderDelete
<1>7. ASSUME NEW typed \in Typed, NEW newTyped \in Typed, FolderMove(typed, newTyped) PROVE BrowseInv'
  <2> DEFINE old == NormaliseFolder(typed)
             new == NormaliseFolder(newTyped)
             F == {Moved(old, new, f) : f \in vault.folders}
             N == {Moved(old, new, n) : n \in vault.notes}
             v == [folders |-> F, notes |-> N]
  <2>1. old \in BuildTree(vault).folders /\ new # NoPath /\ Write(v, UNCHANGED chat)
    BY <1>7 DEF FolderMove
  <2>2. old \in Seq(Names)
    BY <1>1, <2>1, BuildTreeMakesATree DEF IsTree
  <2>3. new \in NamePaths
    BY <2>1, NormalisedPaths, BrowsingAssumption
  <2> HIDE DEF old, new
  <2>4. /\ F \in SUBSET NamePaths /\ IsFiniteSet(F)
        /\ N \in SUBSET NamePaths /\ IsFiniteSet(N)
    BY <1>1, <2>2, <2>3, MovedPaths
  <2> HIDE DEF F, N
  <2>5. IsListing(v)
    BY <2>4, ListingOf
  <2> HIDE DEF v
  <2> QED  BY <1>1, <2>1, <2>5, WriteKeeps
<1>8. ASSUME NEW typed \in Typed, NEW old \in vault.notes, MoveCommand(old, typed) PROVE BrowseInv'
  <2> DEFINE new == NormaliseNote(typed)
             v == [vault EXCEPT !.notes = (vault.notes \ {old}) \cup {new}]
  <2>1. new # NoPath /\ Write(v, UNCHANGED chat)
    BY <1>8 DEF MoveCommand
  <2>2. new \in NamePaths
    BY <2>1, NormalisedPaths, BrowsingAssumption
  <2> HIDE DEF new
  <2> DEFINE S == vault.notes \ {old}
  <2>3. S \in SUBSET NamePaths /\ IsFiniteSet(S)
    BY <1>1, PathsComeAndGo
  <2>4. v = [vault EXCEPT !.notes = S \cup {new}]
    OBVIOUS
  <2> HIDE DEF S, v
  <2>5. IsListing(v)
    BY <1>1, <2>2, <2>3, <2>4, PathsComeAndGo, ListingChanges
  <2> QED  BY <1>1, <2>1, <2>5, WriteKeeps
<1>9. ASSUME SearchCommand PROVE BrowseInv'
  BY <1>9, PresentKeeps DEF SearchCommand, Holding
<1>10. ASSUME FindCommand PROVE BrowseInv'
  <2>1. PICK S \in Literal : Present(S)
    BY <1>10 DEF FindCommand
  <2>2. S \in SUBSET vault.notes
    BY DEF Literal, Holding
  <2> QED  BY <2>1, <2>2, PresentKeeps
<1>11. ASSUME ListCommand PROVE BrowseInv'
  BY <1>11, PresentKeeps DEF ListCommand
<1>12. ASSUME NEW n \in Files, CreateNote(n) PROVE BrowseInv'
  <2> DEFINE v == [vault EXCEPT !.notes = vault.notes \cup {n}]
  <2>1. Write(v, UNCHANGED chat)
    BY <1>12 DEF CreateNote
  <2>2. IsListing(v)
    BY <1>1, PathsComeAndGo, ListingChanges, BrowsingAssumption
  <2> HIDE DEF v
  <2> QED  BY <1>1, <2>1, <2>2, WriteKeeps
<1> QED  BY <1>3, <1>4, <1>5, <1>6, <1>7, <1>8, <1>9, <1>10, <1>11, <1>12 DEF Command

\* Every button of a message.
LEMMA TapsKeep ==
    ASSUME BrowseInv, NEW m \in chat, Tap(m) PROVE BrowseInv'
<1>1. /\ IsListing(vault) /\ ChatFits(chat) /\ IsTree(Tree) /\ Fits(m)
      /\ vault.notes \in SUBSET NamePaths /\ IsFiniteSet(vault.notes)
      /\ vault.folders \in SUBSET NamePaths /\ IsFiniteSet(vault.folders)
      /\ {} \in SUBSET chat /\ {m} \in SUBSET chat /\ chat \ {m} \in SUBSET chat
  BY TreeIsATree DEF BrowseInv, IsListing, ChatFits
<1>2. ChatFits(chat \ {m})
  BY <1>1, FewerFit
<1>3. ASSUME TurnPage(m) PROVE BrowseInv'
  <2>1. PICK n \in {m.page - 1, m.page + 1} \cap 1..Pages(Len(m.entries), PageSize) :
               Edit(m, TurnedPage(m, n))
    BY <1>3 DEF TurnPage
  <2>2. Listing(m) /\ Shaped(m) /\ m.kind \in {"folder", "hits"}
    BY <1>1, <1>3 DEF Fits, TurnPage
  <2>3. n \in Int
    OBVIOUS
  <2>4. Shaped(AtPage(m, n)) /\ Listing(AtPage(m, n)) /\ AtPage(m, n).kind = m.kind
    BY <2>2, <2>3, TurningAPage DEF Listing
  <2>5. Fits(AtPage(m, n))
    BY <2>2, <2>4 DEF Fits
  <2>6. ChatFits(chat')
    BY <1>1, <2>1, <2>5, EditFits DEF TurnedPage
  <2> QED  BY <1>3, <2>6, ReadsKeep DEF TurnPage
<1>4. ASSUME EnterFolder(m) PROVE BrowseInv'
  <2>1. PICK b, e : GoTo(e.path, {m})
    BY <1>4 DEF EnterFolder
  <2> QED  BY <1>1, <2>1, GoToKeeps
<1>5. ASSUME OpenEntry(m) PROVE BrowseInv'
  <2>1. PICK b, e : ShowNote(e.path, NewId, {})
    BY <1>5 DEF OpenEntry
  <2> QED  BY <1>1, <2>1, ShowNoteKeeps
<1>6. ASSUME UpOrRoot(m) PROVE BrowseInv'
  BY <1>1, <1>6, GoToKeeps DEF UpOrRoot
<1>7. ASSUME FollowLink(m) PROVE BrowseInv'
  <2>1. PICK i : ShowNote(m.entries[i].path, NewId, {m})
    BY <1>7 DEF FollowLink
  <2> QED  BY <1>1, <2>1, ShowNoteKeeps
<1>8. ASSUME Related(m) PROVE BrowseInv'
  <2>1. PICK e : Reply([Message EXCEPT !.kind = "refs", !.entries = e])
    BY <1>8 DEF Related
  <2>2. ASSUME NEW x, x = [Message EXCEPT !.kind = "refs", !.entries = e] PROVE Fits(x)
    <3>1. Shaped(x) /\ x.kind = "refs"
      BY <2>2, MessageIsShaped DEF Shaped
    <3> QED  BY <3>1 DEF Fits
  <2>3. ChatFits(chat')
    BY <1>1, <2>1, <2>2, ReplyFits
  <2> QED  BY <1>8, <2>3, ReadsKeep DEF Related
<1>9. ASSUME DeleteFolderConfirmed(m) PROVE BrowseInv'
  <2> DEFINE folder == NormaliseFolder(m.path)
  <2>1. ChatFits(chat')
    BY <1>2, <1>9 DEF DeleteFolderConfirmed
  <2>2. CASE UNCHANGED <<vault, tree, changes>>
    BY <2>1, <2>2 DEF BrowseInv
  <2>3. CASE /\ changes < MaxChanges /\ changes' = changes + 1
             /\ vault' = [folders |-> {f \in vault.folders : ~IsPrefix(folder, f)},
                          notes |-> {n \in vault.notes : ~IsPrefix(folder, n)}]
             /\ tree' \in {tree, NoTree}
    <3>1. IsListing(vault')
      BY <1>1, <2>3, PathsComeAndGo, ListingOf
    <3>2. changes' \in 0..MaxChanges
      BY <2>3, BrowsingAssumption DEF BrowseInv
    <3> QED  BY <2>1, <2>3, <3>1, <3>2 DEF BrowseInv
  <2> QED  BY <1>9, <2>2, <2>3 DEF DeleteFolderConfirmed
<1>10. ASSUME AskNote(m) PROVE BrowseInv'
  <2>1. ASSUME NEW x, x = [Message EXCEPT !.kind = "askNote", !.path = m.path, !.id = m.id]
        PROVE  Fits(x)
    <3>1. Shaped(x) /\ x.kind = "askNote"
      BY <2>1, MessageIsShaped DEF Shaped
    <3> QED  BY <3>1 DEF Fits
  <2>2. ChatFits(chat')
    BY <1>1, <1>10, <2>1, ReplyFits DEF AskNote
  <2> QED  BY <1>10, <2>2, ReadsKeep DEF AskNote
<1>11. ASSUME DeleteConfirmed(m) PROVE BrowseInv'
  <2> DEFINE v == [vault EXCEPT !.notes = vault.notes \ {m.path}]
             c == {IF x.id = m.id THEN [x EXCEPT !.id = 0] ELSE x : x \in chat \ {m}}
  <2>1. Write(v, chat' = c)
    BY <1>11 DEF DeleteConfirmed
  <2>2. ChatFits(c)
    BY <1>2, RevokingFits
  <2>3. IsListing(v)
    BY <1>1, PathsComeAndGo, ListingChanges
  <2> HIDE DEF v, c
  <2> QED  BY <2>1, <2>2, <2>3, WriteKeeps
<1>12. ASSUME DeleteCancelled(m) PROVE BrowseInv'
  BY <1>2, <1>12, ReadsKeep DEF DeleteCancelled
<1> QED  BY <1>3, <1>4, <1>5, <1>6, <1>7, <1>8, <1>9, <1>10, <1>11, <1>12 DEF Tap

\* A change made in NoteDiscovery itself.
LEMMA ElsewhereKeeps ==
    ASSUME BrowseInv, Elsewhere PROVE BrowseInv'
<1>1. /\ IsListing(vault)
      /\ vault.notes \in SUBSET NamePaths /\ IsFiniteSet(vault.notes)
      /\ vault.folders \in SUBSET NamePaths /\ IsFiniteSet(vault.folders)
  BY DEF BrowseInv, IsListing
<1>2. IsListing(vault')
  <2>1. ASSUME NEW n \in Files, vault' = [vault EXCEPT !.notes = @ \cup {n}] PROVE IsListing(vault')
    BY <1>1, <2>1, PathsComeAndGo, ListingChanges, BrowsingAssumption
  <2>2. ASSUME NEW n, vault' = [vault EXCEPT !.notes = @ \ {n}] PROVE IsListing(vault')
    BY <1>1, <2>2, PathsComeAndGo, ListingChanges
  <2>3. ASSUME NEW f, vault' = [vault EXCEPT !.folders = @ \ {f}] PROVE IsListing(vault')
    BY <1>1, <2>3, PathsComeAndGo, ListingChanges
  <2> QED  BY <2>1, <2>2, <2>3 DEF Elsewhere
<1>3. changes' \in 0..MaxChanges
  BY BrowsingAssumption DEF BrowseInv, Elsewhere
<1>4. tree' = tree /\ chat' = chat
  BY DEF Elsewhere
<1> QED  BY <1>2, <1>3, <1>4 DEF BrowseInv

\* What every handler of browse.py and search.py relies on: the vault is a listing,
\* the cached tree is a tree though perhaps not of this vault, a listing shows each
\* entry once and what was seen of it are whole pages, and a prompt keeps its word.
THEOREM BrowseInvAlways == BrowseSpec => []BrowseInv
<1>1. BrowseInit => BrowseInv
  <2> SUFFICES ASSUME BrowseInit PROVE BrowseInv
    OBVIOUS
  <2>1. IsListing(vault)
    <3>1. IsListing([folders |-> {}, notes |-> {}])
      BY FS_EmptySet, ListingOf
    <3>2. IsListing([folders |-> Folders, notes |-> Files])
      BY BrowsingAssumption, ListingOf
    <3> QED  BY <3>1, <3>2 DEF BrowseInit
  <2>2. ChatFits({})
    BY FS_EmptySet, BrowsingAssumption DEF ChatFits
  <2>3. changes \in 0..MaxChanges
    BY BrowsingAssumption DEF BrowseInit
  <2> QED  BY <2>1, <2>2, <2>3 DEF BrowseInit, BrowseInv
<1>2. BrowseInv /\ [BrowseNext]_browseVars => BrowseInv'
  <2> SUFFICES ASSUME BrowseInv, [BrowseNext]_browseVars PROVE BrowseInv'
    OBVIOUS
  <2>1. ASSUME NEW m \in chat, Tap(m) PROVE BrowseInv'
    BY <2>1, TapsKeep
  <2>2. CASE Command
    BY <2>2, CommandsKeep
  <2>3. CASE Elsewhere
    BY <2>3, ElsewhereKeeps
  <2>4. CASE TreeExpires
    BY <2>4, ReadsKeep DEF TreeExpires, BrowseInv
  <2>5. CASE UNCHANGED browseVars
    BY <2>5 DEF BrowseInv, browseVars
  <2> QED  BY <2>1, <2>2, <2>3, <2>4, <2>5 DEF BrowseNext
<1> QED  BY <1>1, <1>2, PTL DEF BrowseSpec

\* browse.py:190-195, 227-231 and results.py:140-146: whatever happened to the
\* vault since a listing was sent, for any page size and any number of messages, a
\* button opens the entry it is labelled with, and turning every page shows every
\* entry, each on one page.
THEOREM ButtonsOpenWhatTheyShowAlways == BrowseSpec => []ButtonsOpenWhatTheyShow
<1>1. BrowseInv => ButtonsOpenWhatTheyShow
  BY ListingsAreTrue DEF BrowseInv, ChatFits, Fits, ButtonsOpenWhatTheyShow
<1> QED  BY <1>1, BrowseInvAlways, PTL

\* navigation.py:199-209, 252-254: in every tree the bot caches, a link opens the
\* note its first answering reading names, else the first with that title in the
\* walk, and is unresolved only when no reading is answered.
THEOREM LinksResolveAlways == BrowseSpec => []LinksResolve
<1>1. BrowseInv => LinksResolve
  BY LinksResolveInATree DEF BrowseInv
<1> QED  BY <1>1, BrowseInvAlways, PTL

\* browse.py:713-732 and navigation.py:232-238: a prompt that counted a folder
\* counted the one its button deletes, and with a fresh tree it counted no more
\* than is under it, and nothing only if nothing is, unless it was typed otherwise.
THEOREM StakesAreNamedAlways == BrowseSpec => []StakesAreNamed
<1>1. BrowseInv => StakesAreNamed
  <2> SUFFICES ASSUME BrowseInv PROVE StakesAreNamed
    OBVIOUS
  <2>1. TypeOK
    <3>1. vault.notes \subseteq Seq(Segments) /\ vault.folders \subseteq Seq(Segments)
      BY PathsAreSequences DEF BrowseInv, IsListing
    <3> QED  BY <3>1 DEF BrowseInv, ChatFits, IsTree, TypeOK
  <2>2. \A m \in chat : m.kind = "askFolder" => Staked(m)
    BY DEF BrowseInv, ChatFits, Fits
  <2> QED  BY <2>1, <2>2 DEF StakesAreNamed, Staked
<1> QED  BY <1>1, BrowseInvAlways, PTL
=============================================================================

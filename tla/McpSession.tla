------------------------------ MODULE McpSession ------------------------------
(* adapters/mcp.py: tool calls over a stdio subprocess that is launched by the *)
(* first caller and replaced by any caller whose call raised.  There is no     *)
(* lock, so every await is a point where another caller runs.  A launch is a   *)
(* number; it stands for the subprocess, its session and its exit stack, and is *)
(* used again once the subprocess is gone and nobody refers to it.             *)
EXTENDS Naturals, FiniteSets

CONSTANTS Callers,      \* concurrent users of the adapter
          MaxLaunches,  \* bound on the subprocesses alive or referred to at a time
          MaxTroubles   \* bound on crashes, failed or cancelled handshakes, broken exchanges

ASSUME McpAssumption ==
    /\ MaxLaunches \in Nat \ {0}
    /\ MaxTroubles \in Nat

None == 0
Launches == 1..MaxLaunches

VARIABLES
    session,   \* _session and _exit_stack, set and cleared together: a launch or None
    process,   \* launch -> "gone", "starting" or "up"
    call,      \* caller -> its _call in progress or just ended
    troubles,  \* what went wrong so far, for the bound
    strained   \* history: launches whose connect overlapped with another's, or
               \* whose connect or close was cancelled

mcpVars == <<session, process, call, troubles, strained>>

\* A read, and a write whose repetition the server notices.
Tools == {"read", "delete"}

NoCall == [at |-> "idle", tool |-> "read", on |-> None, sends |-> 0, applied |-> 0,
           breaks |-> 0, answer |-> "none", alone |-> TRUE]

Busy(c) == call[c].at \in {"launching", "closing", "calling", "replied"}

McpTypeOK ==
    /\ session \in Launches \cup {None}
    /\ process \in [Launches -> {"gone", "starting", "up"}]
    /\ call \in [Callers ->
         [at : {"idle", "launching", "closing", "calling", "replied", "done"},
          tool : Tools, on : Launches \cup {None}, sends : 0..2, applied : 0..2,
          breaks : 0..2, alone : BOOLEAN,
          answer : {"none", "ok", "missing", "unavailable", "unlaunched", "cancelled"}]]
    /\ troubles \in 0..MaxTroubles
    /\ strained \subseteq Launches

McpInit ==
    /\ session = None
    /\ process = [n \in Launches |-> "gone"]
    /\ call = [c \in Callers |-> NoCall]
    /\ troubles = 0
    /\ strained = {}

-----------------------------------------------------------------------------
(* connect() and what follows it in the same step *)

\* The tool call leaves on the session connect() left behind.
Sent(k, n) == [k EXCEPT !.at = "calling", !.on = n, !.sends = @ + 1]

Ended(k, answer) == [k EXCEPT !.at = "done", !.answer = answer]

Launching == {d \in Callers : call[d].at = "launching"}

Unused(c, ps, n) == ps[n] = "gone" /\ \A d \in Callers \ {c} : call[d].on # n

\* connect() starts a subprocess for c, whose record is k; ps are the others.
Launch(c, k, calls, ps) ==
    /\ \E n \in Launches :
          /\ Unused(c, ps, n)
          /\ \A m \in 1..(n - 1) : ~Unused(c, ps, m)
          /\ process' = [ps EXCEPT ![n] = "starting"]
          /\ call' = [calls EXCEPT ![c] = [k EXCEPT !.at = "launching", !.on = n]]
          /\ strained' = IF Launching = {} THEN strained \ {n}
                         ELSE strained \cup {n} \cup {call[d].on : d \in Launching}
    /\ session' = None

\* connect() returns at once if there is a session, and the call is sent on it.
Connect(c, k, calls, ps) ==
    \/ /\ session # None
       /\ call' = [calls EXCEPT ![c] = Sent(k, session)]
       /\ process' = ps
       /\ UNCHANGED <<session, strained>>
    \/ session = None /\ Launch(c, k, calls, ps)

\* _call
Begin(c, tool) ==
    LET others == {d \in Callers : Busy(d)}
        calls  == [d \in Callers |-> IF d \in others THEN [call[d] EXCEPT !.alone = FALSE]
                                                    ELSE call[d]]
    IN /\ call[c].at = "idle"
       /\ Connect(c, [NoCall EXCEPT !.tool = tool, !.alone = others = {}],
                  calls, process)
       /\ UNCHANGED troubles

\* The handshake answers: the caller's launch becomes the session, whatever
\* was there, and its call is sent.
Launched(c) ==
    /\ call[c].at = "launching"
    /\ process' = [process EXCEPT ![call[c].on] = "up"]
    /\ session' = call[c].on
    /\ call' = [call EXCEPT ![c] = Sent(@, @.on)]
    /\ UNCHANGED <<troubles, strained>>

LaunchFailsAndIsLeft(c) ==
    /\ call[c].at = "launching"
    /\ troubles < MaxTroubles
    /\ troubles' = troubles + 1
    /\ call' = [call EXCEPT ![c] = Ended(@, "unlaunched")]
    /\ UNCHANGED <<session, process, strained>>

\* The handshake raises: its stack is closed and the call ends, first or retry.
LaunchFails(c) ==
    /\ call[c].at = "launching"
    /\ troubles < MaxTroubles
    /\ troubles' = troubles + 1
    /\ process' = [process EXCEPT ![call[c].on] = "gone"]
    /\ call' = [call EXCEPT ![c] = Ended(@, "unlaunched")]
    /\ UNCHANGED <<session, strained>>

-----------------------------------------------------------------------------
(* The exchange *)

\* The server's side of one send.  A delete repeated finds nothing.
Handled(c) ==
    /\ call[c].at = "calling" /\ process[call[c].on] = "up"
    /\ call' = [call EXCEPT ![c].at = "replied",
                            ![c].answer = IF call[c].tool = "delete" /\ call[c].applied > 0
                                          THEN "missing" ELSE "ok",
                            ![c].applied = IF call[c].tool = "read" THEN 0 ELSE @ + 1]
    /\ UNCHANGED <<session, process, troubles, strained>>

\* _decode of the reply that arrived
Replied(c) ==
    /\ call[c].at = "replied" /\ process[call[c].on] = "up"
    /\ call' = [call EXCEPT ![c].at = "done"]
    /\ UNCHANGED <<session, process, troubles, strained>>

RetryOnTheOldSession(c, k) ==
    /\ call' = [call EXCEPT ![c] = Sent(k, k.on)]
    /\ UNCHANGED <<session, process, strained>>

\* _restart: aclose() takes whatever session there is by now, then connect()
Restart(c, k) ==
    \/ /\ session # None
       /\ session' = None
       /\ call' = [call EXCEPT ![c] = [k EXCEPT !.at = "closing", !.on = session]]
       /\ UNCHANGED <<process, strained>>
    \/ session = None /\ Launch(c, k, call, process)

BrokenTwiceIsAnEmptyAnswer(c) ==
    LET k == [call[c] EXCEPT !.breaks = @ + 1, !.answer = "none"]
    IN /\ call[c].at \in {"calling", "replied"} /\ process[call[c].on] # "up"
       /\ \/ k.sends = 1 /\ Restart(c, k)
          \/ /\ k.sends = 2
             /\ call' = [call EXCEPT ![c] = Ended(k, "ok")]
             /\ UNCHANGED <<session, process, strained>>
       /\ UNCHANGED troubles

\* call_tool raises, because its subprocess is gone or for a reason of its own
Broken(c) ==
    LET k == [call[c] EXCEPT !.breaks = @ + 1, !.answer = "none"]
    IN /\ call[c].at \in {"calling", "replied"}
       /\ \/ process[call[c].on] # "up" /\ UNCHANGED troubles
          \/ /\ process[call[c].on] = "up" /\ troubles < MaxTroubles
             /\ troubles' = troubles + 1
       /\ \/ k.sends = 1 /\ Restart(c, k)
          \/ /\ k.sends = 2
             /\ call' = [call EXCEPT ![c] = Ended(k, "unavailable")]
             /\ UNCHANGED <<session, process, strained>>

\* The exit stack is closed; somebody may have connected meanwhile.
Closed(c) ==
    /\ call[c].at = "closing"
    /\ Connect(c, call[c], call, [process EXCEPT ![call[c].on] = "gone"])
    /\ UNCHANGED troubles

\* CancelledError is no Exception: connect() does not close what it started,
\* and a close that was cut short may or may not have ended the subprocess.
Cancelled(c) ==
    /\ Busy(c)
    /\ call' = [call EXCEPT ![c] = Ended(@, "cancelled")]
    /\ \/ /\ call[c].at \in {"launching", "closing"}
          /\ troubles < MaxTroubles
          /\ troubles' = troubles + 1
          /\ strained' = strained \cup {call[c].on}
       \/ /\ call[c].at \in {"calling", "replied"}
          /\ UNCHANGED <<troubles, strained>>
    /\ \/ call[c].at # "launching" /\ UNCHANGED process
       \/ call[c].at = "launching" /\ process' = [process EXCEPT ![call[c].on] = "up"]
       \/ call[c].at = "closing" /\ process' = [process EXCEPT ![call[c].on] = "gone"]
    /\ UNCHANGED session

\* The caller takes its answer and is free to call again.
Took(c) == call' = [call EXCEPT ![c] = NoCall]

\* A subprocess ends by itself.
Crash(n) ==
    /\ process[n] = "up" /\ troubles < MaxTroubles
    /\ process' = [process EXCEPT ![n] = "gone"]
    /\ troubles' = troubles + 1
    /\ UNCHANGED <<session, call, strained>>

\* What a call does by itself once it was made.
CallStep(c) == \/ Launched(c) \/ LaunchFails(c) \/ Handled(c)
               \/ Replied(c) \/ Broken(c) \/ Closed(c)

-----------------------------------------------------------------------------
\* Subprocesses that live on with nobody left who could close them.
Orphans == {n \in Launches : /\ process[n] \in {"starting", "up"}
                             /\ n # session
                             /\ \A c \in Callers : ~(call[c].at \in {"launching", "closing"}
                                                      /\ call[c].on = n)}

\* connect() has no lock and aclose() forgets before it closes (mcp.py:146-180,
\* 239-245).  A subprocess is orphaned only where two connects overlapped or a
\* connect or close was cancelled: every other path closes what it launched.
OrphansAreExplained == McpTypeOK /\ Orphans \subseteq strained

\* mcp.py:182-203 restarts once.  A call fails in one of three ways: nothing was
\* sent because the first launch failed; its one exchange broke and _restart's
\* connect() raised (197); or both its exchanges broke.  For a call that had the
\* adapter to itself each break and each failed launch was a trouble of its own,
\* so once its tool was sent, a single trouble never fails it.
FailuresAreExplained ==
    \A c \in Callers : call[c].at = "done" /\ call[c].answer \in {"unlaunched", "unavailable"} =>
        LET k == call[c]
        IN /\ k.sends = k.breaks
           /\ k.answer = "unavailable" <=> k.breaks = 2
           /\ k.alone => troubles >= IF k.sends = 0 THEN 1 ELSE 2

\* The repeated send of _call (mcp.py:196-203).  An acknowledged call was carried
\* out; it was carried out twice, or told that what it deleted is missing, only
\* after its first exchange broke.
AnswersAreTrue ==
    \A c \in Callers :
        /\ call[c].at = "done" /\ call[c].answer = "ok" /\ call[c].tool # "read" =>
              call[c].applied \in 1..2
        /\ call[c].applied > 1 \/ call[c].answer = "missing" => call[c].breaks > 0
        /\ call[c].applied <= call[c].sends

=============================================================================

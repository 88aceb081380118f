------------------------------ MODULE BotProcess ------------------------------
(* The process as a whole over the MCP transport: __main__.py's startup and    *)
(* teardown, bot/application.py's BotRunner, the startup probe, and health.py, *)
(* whose readiness checks call the note store like every handler does.         *)
EXTENDS McpSession, Sequences

CONSTANTS Probe, Handlers, Evals  \* the three kinds of caller

ASSUME ProcessAssumption ==
    /\ Callers = {Probe} \cup Handlers \cup Evals
    /\ Probe \notin Handlers \cup Evals
    /\ Handlers \cap Evals = {}

VARIABLES
    phase,     \* where run() is
    telegram,  \* how far the application came up: "down" .. "polling"
    running,   \* BotRunner._running
    checks,    \* HealthServer._checks
    serving,   \* the health server listens
    stopping,  \* the stop event
    steps,     \* what is left of _shutdown's steps
    raised,    \* history: Telegram's stop raised
    probed     \* probe_instance: questions answered

lifeVars == <<phase, telegram, running, checks, serving, stopping, steps, raised, probed>>
vars == <<mcpVars, lifeVars>>

TeardownStartingWithTheNotes == <<"notediscovery", "telegram", "health", "sessions", "llm">>

\* _shutdown: every step runs, whatever the ones before it did.
TeardownSteps == <<"telegram", "health", "sessions", "llm", "notediscovery">>

Up == <<"down", "initialized", "started", "polling">>

Init ==
    /\ McpInit
    /\ phase = "settings" /\ telegram = "down" /\ running = FALSE
    /\ checks = {} /\ serving = FALSE /\ stopping = FALSE
    /\ steps = TeardownSteps /\ raised = FALSE /\ probed = 0

-----------------------------------------------------------------------------
(* run(): up to the signal *)

\* Settings() is refused, or the health port is taken: nothing is torn down.
StartupFails ==
    /\ phase \in {"settings", "health"}
    /\ phase' = "ended"
    /\ UNCHANGED <<mcpVars, serving, telegram, running, checks, stopping, steps, raised, probed>>

BuildAdapters ==
    /\ phase = "settings"
    /\ phase' = "health"
    /\ checks' = {"notediscovery", "sessions", "llm"}
    /\ UNCHANGED <<mcpVars, serving, telegram, running, stopping, steps, raised, probed>>

HealthStarts ==
    /\ phase = "health"
    /\ phase' = "probing"
    /\ serving' = TRUE
    /\ UNCHANGED <<mcpVars, telegram, running, checks, stopping, steps, raised, probed>>

\* probe_instance asks for the health, then for the configuration; neither
\* failure stops the start.
ProbeAsks ==
    /\ phase = "probing" /\ probed < 2
    /\ Begin(Probe, "read")
    /\ UNCHANGED lifeVars

ProbeAnswered ==
    /\ phase = "probing" /\ call[Probe].at = "done"
    /\ Took(Probe)
    /\ probed' = probed + 1
    /\ phase' = IF probed = 1 THEN "starting" ELSE phase
    /\ UNCHANGED <<session, process, troubles, strained, serving,
                   telegram, running, checks, stopping, steps, raised>>

TelegramComesUpForgettingTheSignal ==
    /\ phase = "starting"
    /\ \E i \in 1..3 : telegram = Up[i] /\ telegram' = Up[i + 1]
    /\ running' = (telegram' = "polling")
    /\ phase' = IF running' THEN "ready" ELSE phase
    /\ checks' = IF running' THEN checks \cup {"telegram"} ELSE checks
    /\ stopping' = FALSE
    /\ UNCHANGED <<mcpVars, serving, steps, raised, probed>>

\* BotRunner.start: initialize, start, then the updater; only then _running.
TelegramComesUp ==
    /\ phase = "starting"
    /\ \E i \in 1..3 : telegram = Up[i] /\ telegram' = Up[i + 1]
    /\ running' = (telegram' = "polling")
    /\ phase' = IF running' THEN "ready" ELSE phase
    /\ checks' = IF running' THEN checks \cup {"telegram"} ELSE checks
    /\ UNCHANGED <<mcpVars, serving, stopping, steps, raised, probed>>

\* _start_telegram: a rejected token and any other failure differ in the exit
\* code alone; both leave through the finally.
TelegramFails ==
    /\ phase = "starting"
    /\ phase' = "stopping"
    /\ UNCHANGED <<mcpVars, serving, telegram, running, checks, stopping, steps, raised, probed>>

\* The handlers are installed just before Telegram is started.
Signal ==
    /\ phase \in {"starting", "ready"} /\ ~stopping
    /\ stopping' = TRUE
    /\ UNCHANGED <<mcpVars, serving, phase, telegram, running, checks, steps, raised, probed>>

StopSeen ==
    /\ phase = "ready" /\ stopping
    /\ phase' = "stopping"
    /\ UNCHANGED <<mcpVars, serving, telegram, running, checks, stopping, steps, raised, probed>>

-----------------------------------------------------------------------------
(* _shutdown: one step after the other, whatever any of them does *)

At(step) == phase = "stopping" /\ steps # <<>> /\ Head(steps) = step

\* BotRunner.stop returns at once unless start() got to its end.
TelegramNeverRan ==
    /\ At("telegram") /\ ~running
    /\ steps' = Tail(steps)
    /\ UNCHANGED <<mcpVars, serving, phase, telegram, running, checks, stopping, raised, probed>>

\* The updater stops taking updates; the application is still to be stopped.
UpdaterStops ==
    /\ At("telegram") /\ running
    /\ running' = FALSE
    /\ telegram' = "started"
    /\ steps' = <<"application">> \o Tail(steps)
    /\ UNCHANGED <<mcpVars, serving, phase, checks, stopping, raised, probed>>

\* Application.stop waits for the handlers that run, however long they take.
ApplicationStops ==
    /\ At("application")
    /\ \A h \in Handlers : call[h].at = "idle"
    /\ telegram' = "down"
    /\ steps' = Tail(steps)
    /\ UNCHANGED <<mcpVars, serving, phase, running, checks, stopping, raised, probed>>

\* Any of the three awaits of stop() may raise; none has to.  What of Telegram
\* is up by then stays up.
TelegramStopRaises ==
    /\ (At("telegram") /\ running) \/ At("application")
    /\ running' = FALSE
    /\ raised' = TRUE
    /\ steps' = Tail(steps)
    /\ UNCHANGED <<mcpVars, serving, phase, telegram, checks, stopping, probed>>

\* AppRunner.cleanup stops listening, then lets the requests in progress end
\* or cancels them (CheckCancelled).
HealthStops ==
    /\ At("health")
    /\ \A e \in Evals : ~Busy(e)
    /\ serving' = FALSE
    /\ steps' = Tail(steps)
    /\ UNCHANGED <<mcpVars, phase, telegram, running, checks, stopping, raised, probed>>

\* The session store, then the ladder: each closes or raises, and _shutdown
\* goes on either way.
StoresClose ==
    /\ At("sessions")
    /\ steps' = Tail(Tail(steps))
    /\ UNCHANGED <<mcpVars, serving, phase, telegram, running, checks, stopping, raised, probed>>

\* McpNoteStore.aclose.  It ends the adapter under any call still running.
NotesClose ==
    /\ At("notediscovery")
    /\ session' = None
    /\ process' = [n \in Launches |-> IF n = session THEN "gone" ELSE process[n]]
    /\ call' = [c \in Callers |-> IF Busy(c) THEN [call[c] EXCEPT !.alone = FALSE] ELSE call[c]]
    /\ steps' = Tail(steps)
    /\ UNCHANGED <<troubles, strained, serving,
                   phase, telegram, running, checks, stopping, raised, probed>>

RunReturns ==
    /\ phase = "stopping" /\ steps = <<>>
    /\ phase' = "ended"
    /\ UNCHANGED <<mcpVars, serving, telegram, running, checks, stopping, steps, raised, probed>>

-----------------------------------------------------------------------------
(* The handlers' calls, while updates arrive *)

HandlerCalls(h) ==
    /\ telegram = "polling" /\ phase # "ended"
    /\ \E tool \in Tools : Begin(h, tool)
    /\ UNCHANGED lifeVars

HandlerEnds(h) ==
    /\ call[h].at = "done"
    /\ Took(h)
    /\ UNCHANGED <<session, process, troubles, strained, lifeVars>>

\* asyncio runs nothing after run() returned.
CallProceeds(c) ==
    /\ phase # "ended"
    /\ CallStep(c)
    /\ UNCHANGED lifeVars

ServerCrashes ==
    /\ phase # "ended"
    /\ \E n \in Launches : Crash(n)
    /\ UNCHANGED lifeVars

-----------------------------------------------------------------------------
(* /readyz: the notes check is a call like any other.  A verdict younger than *)
(* CACHE_TTL_S is served without one.                                         *)

Evaluate(e) ==
    /\ serving /\ ~At("health")
    /\ Begin(e, "read")
    /\ UNCHANGED lifeVars

\* The timeout of _run, or the cleanup of the server, reaches into the call.
CheckCancelled(e) ==
    /\ phase # "ended"
    /\ Cancelled(e)
    /\ UNCHANGED lifeVars

Evaluated(e) ==
    /\ call[e].at = "done"
    /\ Took(e)
    /\ UNCHANGED <<session, process, troubles, strained, lifeVars>>

-----------------------------------------------------------------------------
RunStep == \/ BuildAdapters \/ HealthStarts \/ ProbeAsks \/ ProbeAnswered
           \/ TelegramComesUp \/ StopSeen
           \/ TelegramNeverRan \/ UpdaterStops \/ ApplicationStops
           \/ HealthStops \/ StoresClose \/ NotesClose \/ RunReturns

Next == \/ RunStep
        \/ StartupFails \/ TelegramFails \/ Signal \/ TelegramStopRaises
        \/ \E h \in Handlers : HandlerCalls(h) \/ HandlerEnds(h)
        \/ \E c \in Callers : CallProceeds(c)
        \/ ServerCrashes
        \/ \E e \in Evals : Evaluate(e) \/ CheckCancelled(e) \/ Evaluated(e)

\* The event loop resumes whatever is runnable, and a tool call that was sent is
\* answered or breaks (the subprocess has a timeout for its requests, mcp.py:126).
\* Updates, signals, crashes, cancellations and a stop that raises come when they
\* come, or not at all.
Fairness == /\ WF_vars(RunStep)
            /\ \A c \in Callers : WF_vars(CallProceeds(c))
            /\ \A h \in Handlers : WF_vars(HandlerEnds(h))

Spec == Init /\ [][Next]_vars /\ Fairness

-----------------------------------------------------------------------------
\* __main__.py:129-150: teardown runs Telegram, health, sessions, ladder, notes,
\* each whatever the others do.  After a start that got as far as Telegram, the
\* health server is down and the adapter holds no subprocess.  A handler still in
\* a call, an adapter that connected again or an application left up are there
\* only if Telegram's own stop raised or its start never ended.
NothingOutlivesTheEnd ==
    phase = "ended" /\ probed = 2 =>
        /\ ~serving
        /\ raised \/ (session = None /\ \A c \in Callers : ~Busy(c))
        /\ telegram = "down" \/ raised \/ "telegram" \notin checks

\* __main__.py:124-141 and application.py:250-266: once asked to stop, run()
\* returns.  Telegram's stop waits for the handlers and the health server's for
\* its requests (application.py:262, health.py), so this needs every call still
\* under way to end, through its restart if it breaks, and no new one to begin.
StopEndsTheProcess == stopping ~> phase = "ended"

=============================================================================

------------------------------- MODULE ChatBot -------------------------------
(* The bot between Telegram and the services: updates are handled             *)
(* concurrently (CONCURRENT_UPDATES), each by the first handler registered    *)
(* for it, behind the allow-list (bot/guard.py).  A tap resolves, extends and *)
(* revokes the token behind its button (bot/tokens.py, bot/browse.py); a verb *)
(* that wants text parks a question in user_data, which the next message      *)
(* answers; photos of one album are collected (bot/albums.py).                *)
(* What a deletion does to the vault is NoteEdits, what an answered draft     *)
(* question does is CaptureFlow.                                              *)
EXTENDS SessionStore, AlbumBuffer, Sequences

CONSTANTS Slots,     \* handlers that may be in progress at once
          Tokens, Strangers,
          Nothing,
          MaxUpdates  \* bound on updates and restarts

ASSUME ChatAssumption ==
    /\ Keys = Tokens \cup Strangers /\ Tokens \cap Strangers = {}
    /\ MaxUpdates \in Nat

VARIABLES
    job,       \* slot -> the handler in it: where it is, and for what
    prompted,  \* tokens whose "Yes, delete" button was sent
    parked,    \* user_data["pending_action"]: the question asked, or "none"
    updates,   \* how many updates and restarts there were
    spent,     \* history: tokens whose note was deleted through them
    unheard,   \* history: spent tokens whose deletion was never reported back
    excused,   \* history: spent tokens whose revocation Redis's ways undid or cut off
    refused,   \* history: stranger -> when last told so, 0 if never
    hasty      \* history: strangers told again too soon

vars == <<backend, now, expires, open, group, batches, got, dropped, lost,
          job, prompted, parked, updates, spent, unheard, excused, refused, hasty>>

Verbs == {"view", "ask", "del", "delok"}

Free == [at |-> "free", for |-> Nothing, verb |-> "view"]

\* A note was just opened, whence its token.
Init ==
    /\ SessionInit(Tokens) /\ AlbumInit
    /\ job = [s \in Slots |-> Free]
    /\ prompted = {} /\ parked = "none" /\ updates = 0
    /\ spent = {} /\ unheard = {} /\ excused = {}
    /\ refused = [u \in Strangers |-> 0] /\ hasty = {}

tokenVars == <<prompted, spent, unheard, excused>>
guardVars == <<refused, hasty>>

Comes == updates < MaxUpdates /\ updates' = updates + 1

Enters(s, x) == job[s] = Free /\ job' = [job EXCEPT ![s] = x]
Goes(s, at) == job' = [job EXCEPT ![s].at = at]
Leaves(s) == job' = [job EXCEPT ![s] = Free]

-----------------------------------------------------------------------------
(* The handlers of group 0, in the order build_application registers them,    *)
(* each with the updates its filter takes.                                    *)

Registered ==
    << <<"commands", {"cancel"}>>,
       <<"callbacks", {"tap"}>>,
       <<"attachment_message", {"photo"}>>,
       <<"unknown_command", {"cancel", "unknown"}>>,
       <<"forwarded_message", {"forward"}>>,
       <<"create.pending_input", {"text", "forward"}>>,
       <<"browse.pending_input", {"text", "forward"}>>,
       <<"default_text_capture", {"text", "forward"}>>,
       <<"text_message", {"text", "forward"}>> >>

\* One handler of a group runs: the first whose filter matches, whatever it does.
Handler(kind) ==
    Registered[CHOOSE i \in DOMAIN Registered :
        /\ kind \in Registered[i][2]
        /\ \A j \in 1..i - 1 : kind \notin Registered[j][2]][1]

\* Who takes the answer to a question ("draft" stands for create.py's three
\* kinds of question, "edit" for browse.py's three).
Takes(handler, question) ==
    \/ handler = "create.pending_input" /\ question = "draft"
    \/ handler = "browse.pending_input" /\ question = "edit"
    \/ handler = "commands"

\* A message that nothing but the parked question depends on: /cancel, an
\* unknown command, a text or a forwarded text.
Message(kind) ==
    /\ Comes
    /\ parked' = IF Takes(Handler(kind), parked) THEN "none" ELSE parked
    /\ UNCHANGED job /\ UNCHANGED tokenVars /\ UNCHANGED guardVars
    /\ UNCHANGED sessionVars /\ UNCHANGED albumVars

\* A draft's card asks for a title or a path (CaptureFlow).
DraftAsks ==
    /\ Comes
    /\ parked' = "draft"
    /\ UNCHANGED job /\ UNCHANGED tokenVars /\ UNCHANGED guardVars
    /\ UNCHANGED sessionVars /\ UNCHANGED albumVars

-----------------------------------------------------------------------------
(* A tap on a note's action bar: act_callback and its verbs. *)

Fixed == UNCHANGED guardVars /\ UNCHANGED albumVars /\ UNCHANGED <<backend, now>>

\* resolve() and extend(): with Redis, other handlers run in between.  A tap on
\* a dead token is answered and changes nothing.
Tap(s, t, verb) ==
    /\ Comes
    /\ Alive(t)
    /\ verb = "delok" => t \in prompted
    /\ Enters(s, [at |-> IF Suspends THEN "resolved" ELSE "acting", for |-> t, verb |-> verb])
    /\ expires' = IF Suspends THEN expires ELSE With(t)
    /\ UNCHANGED parked /\ UNCHANGED tokenVars /\ Fixed

ExtendReads(s) ==
    /\ job[s].at = "resolved"
    /\ Goes(s, IF Alive(job[s].for) THEN "extending" ELSE "acting")
    /\ UNCHANGED <<expires, parked, updates>> /\ UNCHANGED tokenVars /\ Fixed

ExtendWrites(s) ==
    /\ job[s].at = "extending"
    /\ Goes(s, "acting")
    /\ expires' = With(job[s].for)
    /\ UNCHANGED <<parked, updates>> /\ UNCHANGED tokenVars /\ Fixed

\* A verb that only shows something, asks for confirmation or parks a question.
Acts(s) ==
    /\ job[s].at = "acting" /\ job[s].verb # "delok"
    /\ Leaves(s)
    /\ prompted' = IF job[s].verb = "del" THEN prompted \cup {job[s].for} ELSE prompted
    /\ parked' = IF job[s].verb = "ask" THEN "edit" ELSE parked
    /\ UNCHANGED <<expires, updates, spent, unheard, excused>> /\ Fixed

\* The vault deletes the note, which may have been made anew since the token was
\* spent; its answer, and the revocation after it, are on their way, while other
\* handlers run: notes.delete() and revoke() are awaited, on either backend.
Deleted(s) ==
    /\ job[s].at = "acting" /\ job[s].verb = "delok"
    /\ spent' = spent \cup {job[s].for}
    /\ Goes(s, "revoking")
    /\ UNCHANGED <<expires, prompted, parked, updates, unheard, excused>> /\ Fixed

\* The vault refuses, knows no such note (any more) or cannot be reached: the
\* error skips the revocation, and the button stays good.
NotDeleted(s) ==
    /\ job[s].at = "acting" /\ job[s].verb = "delok"
    /\ Leaves(s)
    /\ UNCHANGED <<expires, parked, updates>> /\ UNCHANGED tokenVars /\ Fixed

\* The note is gone and the handler learns of an error: the vault's answer was lost
\* and a retry finds no note, or Redis does not answer.  The token is not revoked.
\* (A handler that gave up before the vault acts is taken to wait for it.)
NeverHeard(s) ==
    /\ job[s].at = "revoking"
    /\ Leaves(s)
    /\ unheard' = unheard \cup {job[s].for}
    /\ UNCHANGED <<expires, prompted, parked, updates, spent, excused>> /\ Fixed

KeepsTheToken(s) ==
    /\ job[s].at = "revoking"
    /\ Leaves(s)
    /\ UNCHANGED <<expires, parked, updates>> /\ UNCHANGED tokenVars /\ Fixed

Revokes(s) ==
    /\ job[s].at = "revoking"
    /\ Leaves(s)
    /\ expires' = Without(job[s].for)
    /\ excused' = IF \E r \in Slots : job[r].at = "extending" /\ job[r].for = job[s].for
                  THEN excused \cup {job[s].for} ELSE excused
    /\ UNCHANGED <<prompted, parked, updates, spent, unheard>> /\ Fixed

-----------------------------------------------------------------------------
(* The allow-list's refusal, and photos. *)

Refuse(u) ==
    /\ expires' = With(u)
    /\ refused' = [refused EXCEPT ![u] = now]
    /\ hasty' = IF refused[u] > 0 /\ now < refused[u] + TTL THEN hasty \cup {u} ELSE hasty

\* _refuse_once(): with Redis, another update of the same stranger may run
\* between the get and the set.
StrangerComes(s, u) ==
    /\ Comes
    /\ ~Alive(u)
    /\ IF Suspends
       THEN Enters(s, [Free EXCEPT !.at = "refusing", !.for = u])
            /\ UNCHANGED expires /\ UNCHANGED guardVars
       ELSE Refuse(u) /\ UNCHANGED job
    /\ UNCHANGED <<backend, now, parked>> /\ UNCHANGED tokenVars /\ UNCHANGED albumVars

RefuseGoesOn(s) ==
    /\ job[s].at = "refusing"
    /\ Refuse(job[s].for)
    /\ Leaves(s)
    /\ UNCHANGED <<backend, now, parked, updates>> /\ UNCHANGED tokenVars /\ UNCHANGED albumVars

NoPhoto == UNCHANGED parked /\ UNCHANGED tokenVars /\ UNCHANGED guardVars /\ UNCHANGED sessionVars

\* A photo is downloaded before it is collected.
PhotoComes(s, x) ==
    /\ Comes
    /\ x \notin got /\ \A r \in Slots : job[r].for # x
    /\ Enters(s, [Free EXCEPT !.at = "downloading", !.for = x])
    /\ UNCHANGED albumVars /\ NoPhoto

Collect(s) ==
    /\ job[s].at = "downloading"
    /\ IF open THEN Joins(job[s].for) /\ Leaves(s)
       ELSE Opens(job[s].for) /\ Goes(s, "waiting")
    /\ UNCHANGED updates /\ NoPhoto

WindowCloses(s) ==
    /\ job[s].at = "waiting"
    /\ Closes /\ Leaves(s)
    /\ UNCHANGED updates /\ NoPhoto

-----------------------------------------------------------------------------
TimePasses ==
    /\ SessionTick
    /\ UNCHANGED <<job, parked, updates>>
    /\ UNCHANGED tokenVars /\ UNCHANGED guardVars /\ UNCHANGED albumVars

\* Every handler is gone; buttons stay in the chat.  In memory their tokens are gone
\* with the process, and nothing is left to be excused.
Restart ==
    /\ Comes
    /\ SessionRestart /\ AlbumRestart
    /\ job' = [s \in Slots |-> Free]
    /\ parked' = "none"
    /\ unheard' = IF backend = "memory" THEN {} ELSE unheard
    /\ excused' = IF backend = "memory" THEN {}
                  ELSE excused \cup {job[s].for : s \in {r \in Slots : job[r].at = "revoking"}}
    /\ refused' = IF backend = "memory" THEN [u \in Strangers |-> 0] ELSE refused
    /\ UNCHANGED <<prompted, spent, hasty>>

Next ==
    \/ \E kind \in {"cancel", "unknown", "text", "forward"} : Message(kind)
    \/ DraftAsks \/ TimePasses \/ Restart
    \/ \E s \in Slots :
         \/ \E t \in Tokens, verb \in Verbs : Tap(s, t, verb)
         \/ ExtendReads(s) \/ ExtendWrites(s) \/ Acts(s)
         \/ Deleted(s) \/ NotDeleted(s) \/ NeverHeard(s) \/ Revokes(s)
         \/ \E u \in Strangers : StrangerComes(s, u)
         \/ RefuseGoesOn(s)
         \/ \E x \in Photos : PhotoComes(s, x)
         \/ Collect(s) \/ WindowCloses(s)

\* asyncio.sleep returns.
Spec == Init /\ [][Next]_vars /\ \A s \in Slots : WF_vars(WindowCloses(s))

-----------------------------------------------------------------------------
TypeOK ==
    /\ SessionTypeOK /\ AlbumTypeOK
    /\ job \in [Slots -> [at : {"free", "resolved", "extending", "acting", "revoking",
                                "refusing", "downloading", "waiting"},
                          for : Tokens \cup Strangers \cup Photos \cup {Nothing},
                          verb : Verbs]]
    /\ prompted \subseteq Tokens /\ spent \subseteq Tokens
    /\ unheard \subseteq spent /\ excused \subseteq spent
    /\ parked \in {"none", "draft", "edit"}
    /\ updates \in 0..MaxUpdates
    /\ refused \in [Strangers -> 0..MaxTime] /\ hasty \subseteq Strangers

\* browse.py:518, "the token that names it must not act again", and tokens.py:108:
\* once a note was deleted through a token, a tap finds the token alive only while
\* the answer and the revocation are on their way, or if no answer ever came:
\* however taps, timeouts and restarts interleave, whose restarts in memory kill
\* those tokens too.  Redis has two exceptions more: a concurrent tap was between
\* the get and the set of its extend(), or the bot stopped before it revoked.
SpentTokensAreDead ==
    /\ TypeOK
    /\ \A t \in spent \ (unheard \cup excused) :
          Alive(t) => \E s \in Slots : job[s].at = "revoking" /\ job[s].for = t
    /\ excused # {} => backend = "redis"

\* guard.py:17-18 and 78, "once per user per session TTL": in memory, strangers
\* who keep writing are told once per lifetime, whatever else is in the store.
RefusedOncePerTTL == backend = "memory" => hasty = {}

\* create.py:650-652, "so the browse handler still sees its own pending edits":
\* a text sent while browse.py's question is parked answers it.
EditsAreAnswered == [][Message("text") => (parked = "edit" => parked' = "none")]_vars
=============================================================================

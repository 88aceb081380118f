# DiscoveryGram: a TLA+ model of the bot

DiscoveryGram is an asyncio Telegram bot in front of a NoteDiscovery vault (notes
in folders, reached over HTTP or MCP), with a layer of LLM providers that reads
images, titles, tags and answers.  This directory models its state machines and
its decision procedures in TLA+, checks them with TLC on small instances and proves
their safety properties with TLAPS for every value of the constants.

Paths below are relative to `src/discoverygram/` unless they start with `docs/`.
The components, runs, seeded mutations, source lines, hazards, findings and
theorems are listed item by item in `PROJECT.json`.

## 1. The system

One process, one asyncio event loop.  Code between two awaits is atomic; every
hard behaviour comes from what happens *at* an await: another update
(`CONCURRENT_UPDATES` handlers run at once), an answer that is late or lost, a
subprocess that died, a clock that moved, a signal, a restart.

| Component | State | Operations | Talks to | What must hold |
|---|---|---|---|---|
| circuit breaker `llm/breaker.py` | per provider: failures, opened_at, probe mark | `allows`, `blocks`, `record_success`, `record_failure`, `reset` | called by the router | one probe per opening; a fixed cool-down |
| router `llm/router.py`, limits and ledger `llm/usage.py` | semaphore, daily cap, rolling window, counters | `complete` | breaker, provider clients | every request ends once; limits hold; no permit is lost; a rejected key is left alone |
| provider adapters `llm/base.py`, `gemini.py`, `cloudflare.py`, `puter.py` | none | one exchange each | providers | a reply is read as the kind of error it is |
| attempt ladder `llm/plan.py`, `llm/factory.py` | none; built at startup | plan, build, explain | settings | every name of a chain gives a rung or a reason |
| read caches `adapters/cache.py` | value, loaded_at, lock | `get`, `invalidate` | the note store's writers | one load at a time; writes are seen; staleness ends |
| throttle `adapters/throttle.py` | per bucket: deque of times, lock | `acquire` | REST transport | no more than the limit per window |
| REST transport `adapters/rest.py` | none but its limiter and caches | `_request` and the endpoints | server | outcomes are true; repetition is bounded |
| MCP transport `adapters/mcp.py` | one subprocess, its session and exit stack | connect, call, restart, close | subprocess | nothing is orphaned; one trouble fails no lone call that was sent |
| note edits `app/notes.py`, quick capture `app/capture.py` | none; read, then write whole | append, replace, add_tag, move, delete, `/quick` | transport | what was settled survives; no tag twice; no revival |
| ingest `app/ingest.py`, intent `app/intent.py`, assist `app/assist.py` | the draft under way | upload, read, describe, tidy, title, tag, summarise; `/ask`, `/summarize` | router, vault | each failure costs its own part and is told; sources are true |
| capture `bot/create.py`, `app/capture.py` | drafts inside card tokens, pending question | photo, forward, Title, Path, Regenerate, pick, Save, Cancel, `/new` | vault, tokens | a note is never overwritten knowingly; a card is saved no more often than taps on it overlap |
| tree `adapters/tree.py`, navigation `app/navigation.py`, search `app/search.py`, browsing `bot/browse.py`, `bot/search.py` | a cached tree; listings inside tokens | every command and button that reads, moves or deletes | note store, tokens | a button opens what it shows; links resolve; a prompt names what is at stake |
| session store `adapters/session.py`, tokens `bot/tokens.py` | key -> entry with a lifetime, in memory or in Redis | get, set, delete; issue, resolve, extend, revoke | guard, buttons | a revoked token never acts again |
| guard `bot/guard.py` | who was refused lately | one refusal per lifetime | session store | told once |
| albums `bot/albums.py` | open group and its photos | `collect` | capture | each photo in one batch, once |
| application `bot/application.py` | registered handlers, parked question in `user_data` | one handler per update and group | everything | an answer reaches who asked |
| start, stop, readiness `__main__.py`, `health.py`, `bot/application.py` | what is up; who is to be torn down | start, stop, probe, evaluate | everything | teardown is complete and ends |

How they interact: an update passes the guard (handler group -1), then the first
matching handler of group 0.  A handler resolves a token in the session store and
calls a service of `app/`; a service calls the note store, whose REST
implementation takes a place in the limiter, sends, retries and on success
invalidates the caches, and whose MCP implementation calls a tool of a subprocess
that any failing caller replaces; a service that needs words calls the router,
which charges the user, walks the ladder, takes a semaphore permit per call and
tells the breaker how the call went.

## 2. Modules

| Module | Models | State | Actions |
|---|---|---|---|
| `Circuit` | one circuit of `breaker.py` as a value | – | operators |
| `CircuitBreaker` | the breaker under concurrent callers | circuits, who is away calling whom | `Admit`, `Succeed`, `Fail`, `EndUnreported`, `Forget`, `Tick` |
| `UserLimits` | daily cap and rolling window of one user | – | operators |
| `ProviderReplies` | what each dialect makes of a reply | – | operators |
| `LlmRouter` | `complete()` | circuits, budgets, requests, semaphore queue, ledger | `Submit`, `Answer`, `Backoff`, `GiveUpRung`, `Wake`, `Tick`, `Midnight` |
| `RequestService` | what the LLM layer promises (abstract) | phase of each request, two counters | `Accept`, `Serve`, `Refuse` |
| `AttemptLadder` | from settings to rungs, clients and reasons; a ladder is the set of its rungs, their order is `LlmRouter`'s | – | operators |
| `TtlCache` | `TtlCache` between readers, writers and outside editors | value, age, lock and its queue, vault version | `GetHit`, `GetMiss`, `Proceed`, `ServerReads`, `LoadReturns`, `LoadFails`, `Send`, `ServerWrites`, `WriteReturns`, `WriteFails`, `EditElsewhere`, `Tick` |
| `RateLimiter` | one bucket of the limiter | deque, lock, queue, the holder's wake time | `Ask`, `LookAgain`, `Tick` |
| `RestTransport` | `_request` over the limiter and a late server | calls, requests on the wire, effects | `Call`, `Paced`, `Answered`, `Unanswered`, `Retry`, `ServerApplies`, `ServerRefuses`, `GatewayGivesUp` |
| `McpSession` | calls over one subprocess that any caller replaces | calls, subprocesses, session, exit stack | `Begin`, `Launched`, `LaunchFails`, `Handled`, `Replied`, `Broken`, `Closed`, `Cancelled`, `Crash` |
| `BotProcess` | the process over `McpSession` | phase of `run()`, Telegram's stage, readiness checks, the steps of the teardown | `BuildAdapters` … `RunReturns`, `Signal`, `HandlerCalls`, `Evaluate`, … |
| `NoteEdits` | read-then-write edits of concurrent handlers | vault bodies, calls in progress | `CallAppend`, `CallReplace`, `CallTag`, `CallQuick`, `CallDelete`, `CallMove`, `Read`, `Served`, `Returns`, `GivesUp`, `Vanishes` |
| `CaptureFlow` | drafts, cards, path resolution and saves | vault, cards, jobs, pending question | `Capture`, `NewCommand`, `FindTaken`, `FindFree`, `Tap…`, `SendTitle`, `SendPath`, `ServerCreates`, `SaveReturns`, `SaveFails`, `EditElsewhere` |
| `IngestPipeline` | what a draft holds, step by step | the capture under way, cards, notes, media | `SendImages`, `Forward`, `Stored…`, `Read…`, `Described`, `Tidied`, `Generated…`, `CallFailed`, `QuotaSpent`, `Present…`, `Save`, `Drop`, `Retitle`, `Regenerate` |
| `Assist` | questions to the vault, beside the captures | the question under way | `Ask`, `SearchAnswered`, `GatherText`, `GatherSkip`, `Summarise`, `Answered`, … |
| `VaultTree` | tree, the two ways a path is read, wiki-links | – | operators |
| `Paging` | page arithmetic | – | operators |
| `Browsing` | commands and buttons of `browse.py` and `search.py` | vault, cached tree, messages with their buttons | `BrowseCommand`, `OpenCommand`, `SearchCommand`, `TurnPage`, `FollowLink`, `FolderMove`, `ConfirmFolderDelete`, `DeleteConfirmed`, `Elsewhere`, … |
| `SessionStore` | entries and their lifetimes, two backends | clock, expiries | `SessionTick`, `SessionRestart` |
| `AlbumBuffer` | one media group | open list, batches | `Opens`, `Joins`, `Closes`, `AlbumRestart` |
| `ChatBot` | updates, handlers and taps over the two modules above | jobs, parked question, tokens, refusals | `Message`, `DraftAsks`, `Tap`, `ExtendReads`, `ExtendWrites`, `Acts`, `Deleted`, `NotDeleted`, `Revokes`, `StrangerComes`, `RefuseGoesOn`, `PhotoComes`, `Collect`, `WindowCloses`, `TimePasses`, `Restart` |
| `…Proofs` | theorems (section 4) | – | – |
| `MC…` | instances for TLC | – | – |

What is composed of what: `LlmRouter` of `Circuit`, `UserLimits` and
`ProviderReplies`; `RestTransport` of `RateLimiter`; `BotProcess` of `McpSession`;
`Browsing` of `VaultTree` and `Paging`; `Assist` of `IngestPipeline`, which is over
`AttemptLadder`; `ChatBot` of `SessionStore` and `AlbumBuffer`.  `LlmRouter` is
shown to implement `RequestService`, and `RestTransport` to implement
`RateLimiter`.  `IngestPipeline` ends where a draft has its card and `CaptureFlow`
starts there; `CaptureFlow` and `NoteEdits` each see the vault as far as their
own writes need it.

Definitions whose names read like a fault (`TakesTheSuffixBlindly`,
`OpensEmpty`, `LastWriterWins`, …) are used by no specification: each is a plausible
bug, and stands before the definition it would replace.

Conventions:

* **An action runs from one await to the next.**  `Submit` is everything from the
  limit checks to the first provider call, because nothing in between suspends.
  Where only one of two implementations suspends (the session store in memory or
  in Redis) the variable `backend` decides which steps are split.  `IngestPipeline`
  and `Browsing` are coarser: the draft under way is a local variable nobody else
  sees, and a message's buttons are written once, so that only the vault between
  two taps matters.
* **Clocks** are ticks.  An age that is only compared with a limit saturates there
  (`Circuit`, `TtlCache`); an absolute clock has a bound `MaxTime`.
* **Locks and semaphores** are asyncio's: waiters are served in order and a release
  hands over to the first, so a newcomer does not overtake.
* **History variables** (marked "history") record what happened for a property to
  speak of; no guard of the code's reads one (`got` also keeps a photo from arriving
  twice).
* **Data.** Bodies are sequences of who wrote what, or sets of the pieces they hold;
  paths are sequences of segments, or a base and a collision suffix; replies are
  classes.  What `str` methods do to a segment is given to `VaultTree` by constants
  that hold the real results for the instance's names.

## 3. Runs

| Run | Instance | Question | Result |
|---|---|---|---|
| `breaker` | 3 callers, 2 providers, threshold 2, cool-down 2 | can two probes leave, a straggler stretch a cool-down, a circuit get into a shape no operation knows? | holds |
| `router` | 2 requests, 1 user and nobody, a 3-rung ladder over 2 providers in 2 dialects, 8 kinds of reply, 1 permit, 1 retry, daily cap 1, rate 1 | do limits, permits, charging, retries and rejected keys survive concurrency; does the router implement `RequestService`; does every refusal end that the breaker was told of? | holds |
| `router_wedge` | the other two dialects, no limits | is every provider found again? | **violated** |
| `cache` | 2 readers, 1 writer, 2 changes of the vault, TTL 1 | is there one load at a time, none without need; are quiet writes seen; does staleness end? | holds |
| `capture` | 2 handlers, 2 commands and 1 edit, 2 titles, 2 folders, 1 note name, 1 ambiguous name, suffixes to 2, changes elsewhere | can an edited draft hold a path that was never free; are suffixes earned; how often can one card be saved? | holds |
| `transport` | 3 calls, limit 1 per window of 2, 1 retry, clock to 4 | is the pacing kept; what does an outcome say of the vault? | holds |
| `note_edits` | 2 handlers, 4 calls in all, 2 notes, 1 tag, each request served up to twice | what may a read-then-write-whole edit destroy or bring back? | holds |
| `chat` | 2 handlers, 5 updates or restarts, 1 token, 1 stranger, 3 photos, albums of 2, lifetime 2, clock to 4, both backends | do spent tokens die; are strangers told once; is each photo captured once, and captured at all? | holds |
| `chat_edit_unanswered` | the same | does the answer to an Edit, Append or Tag question reach it? | **violated** |
| `process` | the probe, a handler and a readiness request; 4 subprocesses, 2 troubles | what may be orphaned or left up; which calls may fail; what does an answer say; does a signal end the process? | holds |
| `browse` | 3 notes that share a title, 2 folders, 4 typed folders, 7 link targets, pages of 2, 2 messages, 1 change, both transports | does a button open what it shows; what does a link open; what does a deletion prompt promise? | holds |
| `ingest` | up to 2 images or a forward, 4 configurations, 2 kinds of caption, 1 regeneration and 1 tap; questions over 2 notes | is every upload referenced, every reading kept, every failure told, every stamp and every source true? | holds |

Why the bounds are enough.  Two handlers show every race between a read and a
write that the code has, since no code path looks at more than one other; the
breaker, the limiter and the MCP session get three callers, because what goes wrong
there needs one who holds, one who is late and one who is next.  A threshold of 2
separates the first failure from the conclusive one, a window of 2 ticks separates
"within", "at the edge" and "beyond", a ladder of three rungs holds a provider twice
and another one, one permit makes every call compete, two suffixes meet both a
success and the refusal at the end of the search, two troubles meet the repetition
and its failure.  The four configurations of `ingest` hold a missing account, a
missing key, a text-only provider, an unknown name and an empty ladder.
`MaxRequests`, `MaxStarts`, `MaxCards`, `MaxEdits`, `MaxCalls`, `MaxSends`,
`MaxUpdates`, `MaxVersion`, `MaxTime`, `MaxLaunches`, `MaxTroubles`, `MaxMessages`,
`MaxChanges`, `MaxCaptures`, `MaxTaps` and `MaxRegenerated` only cut behaviours off.
`capture` sees at most one edit after a capture, and a folder pick between them;
longer chains of edits are outside it.  `ingest` asks its questions before its
captures, which share nothing with them but the settings.

Symmetry is declared where no liveness property is checked and no definition
chooses among the symmetric values.  `CHECK_DEADLOCK FALSE` stands where a bound
ends every behaviour, or nobody is obliged to send another message; `breaker`,
`cache` and `browse` check for deadlock.

### Fairness

* `LlmRouter!FairSpec`: weak fairness of the return of a call (each client has
  `LLM_REQUEST_TIMEOUT_S`), of waking from a backoff (bounded by `MAX_SLEEP_S`) and
  of the clock.  Nobody is obliged to ask again, so `RefusalsEnd` speaks of the gate
  and not of traffic.
* `TtlCache!FairSpec`: a load ends (the HTTP client has a timeout), a woken waiter
  runs, the clock advances.  Readers and writers may stop for ever, and the
  vault's server need not answer with success.
* `ChatBot!Spec`: weak fairness of `WindowCloses` only: `asyncio.sleep` returns.
* `BotProcess!Spec`: weak fairness of the steps of `run()`, of a call that was made
  (the event loop resumes what is runnable, and a dead pipe raises) and of a handler
  that has its answer.  Signals, crashes, cancellations, a start that fails and a
  stop that raises (`TelegramStopRaises`) are under no fairness: the stop that
  `StopEndsTheProcess` relies on is the one that waits for every handler.
* The call fairness of `process` rests on the subprocess: its own requests carry
  `NOTEDISCOVERY_TIMEOUT` (`adapters/mcp.py:126`), so it answers or dies.  The
  exchange with it has no timeout of its own: a subprocess that lived on and said
  nothing would keep a handler, and so the process, from ending.

### Disagreements kept as runs

* `router_wedge`: a probe that ends in a model-level error is reported to nobody
  (`llm/router.py:306`), its mark stays and the provider is refused until the
  process restarts, against `llm/breaker.py:61`.  `RefusalsEnd` in `router` shows
  that this is the only way.
* `chat_edit_unanswered`: of four handlers with one filter in one group only the
  first ever runs, against `bot/create.py:650`.

### Where a property names an exception

Some properties hold only with an exception the code really has; the property
states it, and everything outside it is shown not to happen.

* `QuietWritesAreSeen`: a load under way when a write is answered stores its older
  answer after the invalidation, and that write is not seen on the next tap
  (`adapters/cache.py:10-14`).
* `OnlyLatecomersAreOverwritten`: Save writes the path the card was given as an
  upsert, so a note that appeared there since is replaced (`docs/FEATURES.md:87`
  says nothing overwrites).
* `SpentTokensAreDead`: on either backend, a deletion whose answer never comes, or
  whose retry finds no note, raises past the revocation, and the deleted note's
  buttons stay alive until their lifetime ends (`bot/browse.py:517`); with Redis,
  `extend()` can bring back a token revoked between its two calls
  (`bot/tokens.py:122`), and a restart between the deletion and the revocation
  leaves the token alive.  In memory a restart takes all tokens with it.
* `SettledTextIsKept` protects what a note has held *all the while* since the call
  began.  Text that arrives between a read and its write is lost: two concurrent
  `/quick` find no note of the day and the second replaces the first
  (`app/capture.py:233`).  So may be what was there when the call began, was replaced
  since and came back: with three handlers a stale tag write brings back replaced
  text, and a third one's write, read in between, drops it again.  (Two handlers do
  not show this; the failed proof of an earlier, stronger form of the property did.)
* `RevivalsOverlap`: a note deleted between the read and the write of replace or
  add_tag is created again (`adapters/rest.py:386`).
* `OrphansAreExplained`, `NothingOutlivesTheEnd`: two overlapping `connect()`s or a
  cancelled one leave a subprocess that nobody can close (`adapters/mcp.py:146-180`);
  a start that failed midway, or a stop that raised, leaves parts of Telegram up
  (`bot/application.py:254-257`), although `stop()` calls itself tolerant of a
  partially started application.
* `StakesAreNamed`: `folder_size` counts only a folder's direct entries and reads the
  typed path in another way than the deletion does (`app/navigation.py:232-238`):
  the prompt may say 0 for a full folder, and says fewer than "everything in it".
* `FailuresAreExplained`: a call that others use the adapter beside may fail of their
  restarts, and so of no trouble of its own (`adapters/mcp.py:198`).
* `UploadsAreReferenced`: a spent quota in mid-capture throws the draft away with the
  files already uploaded, and Cancel says "Nothing was written" of such files
  (`bot/create.py:515`).  An attempt that stored the file and whose answer was lost
  leaves a copy in the vault that nobody can name: a retry stores it a second time
  (`adapters/rest.py:162-177`, 556), or the draft goes on without it
  (`bot/create.py:394`); the property says that in the second case the card tells.
* `FailuresAreTold`: Regenerate clears the warnings of steps it does not repeat
  (`app/ingest.py:216`).

### Met on the way, not stated by a property

* A straggler's failure can end a probe it is not and re-open the circuit
  (`llm/breaker.py:157`); `LlmBadResponse` counts as a provider failure
  (`llm/router.py:306`, against `ports/llm_errors.py:102`); a retry after the backoff
  does not look at the breaker again (`llm/router.py:433`).
* Two quick taps on Save write twice: the token is revoked after the write
  (`bot/create.py:570-582`, against 555).  `RepeatedSavesOverlapped` says how often at
  most: as often as handlers run at once, all of them before the first is answered.
  Regenerate and Title forget a path the
  user chose afterwards (`bot/create.py:626` and 686), and Title on a draft whose
  folder was picked among several loses the folder, so that Save is refused.
  A note made from a template is written without the collision check.
* A 500 is not retried although `docs/ARCHITECTURE.md:100` says "5xx"; retries do
  not ask the limiter (`adapters/rest.py:149`); a retried delete that had worked
  reports `NotFound`.  Two taps on "Yes, delete" may both act.
* "A single reconnect turns a crash into a hiccup" (`adapters/mcp.py:186`) fails when
  two callers replace each other's session.
* `/readyz` can answer "ready" before Telegram is started.  `_post_init`
  (`bot/application.py:98`) is only called by the library's own `run_…` methods, which
  `BotRunner` does not use, so the command menu is never published.
* A description is stamped with the rung that answered NO_TEXT and not with the one
  that described (`app/ingest.py:259`); Regenerate stamps a body the vision model
  read with the title's model and replaces a title the user gave.  `_generate`
  "never raises LlmError", but `LlmQuotaExceeded` is one; `_tidy` swallows it.  The
  generated summary is shown on the card and not written by Save.
* A bare link `[[a]]` may open the root's `a.txt` though `a.md` exists, and the third
  attempt of `_resolve` only finds notes called like `a.md.md` or `a.md.bak`.  Folder deletion is
  asked for over MCP, where it is unsupported.
* Without an account id, the vision ladder says that Cloudflare cannot take images;
  the missing id is not mentioned.

## 4. Proofs

Every theorem holds for all values of the constants allowed by the named assumptions,
which only say what the settings' validators and the types give: a threshold, cool-
down, limit or window is positive, a set of requests, of handlers that work on cards
or of one album's photos is finite, a value that stands for "none" is no real one, a
tag is no text of a page and a file's link no other piece of a body, the startup
probe is neither a handler nor a readiness request. Of segments, those of `VaultTree`
say that a name with `.md` added is a name, that no two names share a place in a
listing, and that the vault has finitely many paths made of names; what a user types
may hold any segment, empty ones, `.` and `..` among them.

| Module | Theorems | Argument |
|---|---|---|
| `LlmProofs`, the breaker | `TypeCorrect`, `CircuitsWellFormed`, `AtMostOneProbe`, `FixedCoolDown`, `LookIsTheGate` | Well-formedness (a closed circuit is below its threshold and remembers no opening; a probe means open and cooled down) is inductive with the types.  For one probe: a call that left through an open circuit left the mark, and re-opening makes the calls away no longer fresh. |
| `LlmProofs`, the captures | `UploadsAreAlwaysReferenced`, `ReadingsAreAlwaysKept`, `FailuresAreAlwaysTold`, `StampsAreAlwaysTrue` | The properties speak of finished drafts, `IngestInv` of the draft under way as well.  `Ready` says, per step, what has to have happened before it (which pieces are in the body, what is attached or already told, who answered); `Kept` and `Told` say what a finished draft owes; `Accounted` that everything still missing is warned of, blank or yet to come; `Placed` that each file whose upload was answered is referenced, astray or with the draft under way. |
| `LlmProofs`, the questions | `AnswersAreAlwaysGrounded`, `QuestionsDisturbNothing` | `AssistInv`: each stage of a question has the sources, the prompt and the rung it should.  The second says that a question is a stutter of `IngestPipeline`, so that the theorems above hold beside questions. |
| `CaptureFlowProofs` | `OnlyLatecomersAreEverOverwritten`, `SuffixesAreAlwaysEarned`, `RepeatedSavesAlwaysOverlapped` | A path travels from a search over a draft to a card, into a pending question and back.  `FlowInv` says the same of every such place (`DraftFits`): a taken path was raced for, and every smaller suffix existed once; of a search under way, that all names before the one it looks at did.  `CountInv`: a card whose save was answered is dead, so that nobody begins to save it again, and what was answered or is under way of a card never exceeds the handlers. |
| `NoteEditsProofs` | `TagsAlwaysOnce`, `SettledTextIsAlwaysKept`, `RevivalsAlwaysOverlap` | `NotesInv`: what a call has to keep is in its note *and* in the body it is about to write, no pending body has a tag twice, and a pending write without a note to go to knows that the note was taken away. |
| `BotProofs`, the transport | `OrphansAreAlwaysExplained`, `FailuresAreAlwaysExplained`, `AnswersAreAlwaysTrue` | `McpInv`: per call, sends, breaks and effects balance (`CallInv`); a launch belongs to its launcher alone and overlapping ones are noted (`OwnInv`); a call that has the adapter to itself has paid for each break and for a failed launch with a trouble each, a session already dead counting as one (`AloneInv`). |
| `BotProofs`, the process | `NothingEverOutlivesTheEnd` | `LifeInv`: the teardown steps that are left say what is over, and with Telegram over no handler calls, with health over no readiness request does; only then does closing the adapter leave no session. |
| `BotProofs`, paging | `ClampIsAPage`, `EveryEntryIsOnOnePage` | arithmetic of the page bounds |
| `BotProofs`, the tree | `BuildTreeMakesATree`, `EntriesListChildren`, `WalkOrders`, `BothReadingsAgree` | `Ordered` lists every element of a finite set once and in order, by counting what comes before each (`OrderedEnumerates`).  Two paths part at a first place, and there the walk and the names decide. |
| `BotProofs`, browsing | `BrowseInvAlways`, `ButtonsOpenWhatTheyShowAlways`, `LinksResolveAlways`, `StakesAreNamedAlways` | `BrowseInv`: the vault is a listing (`IsListing`), the cached tree closed under parents (`IsTree`), and each message fits its kind: a listing names each entry once and what was seen of it are whole pages of it (`SeenPages`), a prompt is right about its folder (`Staked`).  Whatever is under a folder shows as a child of it in a fresh tree (`BelowIsAChild`), so a count of 0 means that nothing is at stake. |
| `RestTransportProofs`, the limiter | `CallsArePaced`, `NobodySleepsTwice`, `LimiterTypeCorrect` | "No `Limit + 1` calls in a window" is not inductive, since the code looks at its deque and not at the history.  `Remembers`: the deque is the end of the history, and what it forgot has left the window.  `Sleeps`: whoever sleeps holds the lock, the deque is full and the sleep ends when its head leaves. |
| `RestTransportProofs`, the transport | `TransportDrivesTheLimiter`, `TransportIsPaced`, `OutcomesAreTruthful`, `EffectsStayBounded` | The first is a refinement: every step of the transport is a step of the limiter or leaves it alone, so the limiter's theorems carry over.  `TInv` says where each call is (`InOrder`), what it was told against what the vault did (`Truthful`) and that effects plus sends on the wire never exceed the attempts (`Counted`); `OnePlaceEach` ties the calls paced to the places taken. |
| `TtlCacheProofs` | `CacheTypeCorrect`, `LoadsExclude`, `LoadsAreNeeded`, `WritesAreSeen` | `LockInv`: the holder is the one reader at work, the queue holds the others once each.  `OrderInv` and `SeenInv`: what the cache holds, what a load brings and what a reader was served is no older than every write whose return no load overlapped. |
| `LlmRouterProofs` | `PermitsAreConserved`, `ChargingIsFair`, `RejectedKeysStayRejected`, `CallsAreBounded`, `RefusalsHaveACause`, `RouterKeepsCircuits`, `RouterCoolDownIsFixed`, `RouterServes` | `RInv`: records are typed, `Queued` (calls and permits balance, the queue is exactly those who wait) and `Standing` (a request stands on a rung of its ladder whose provider it has not skipped, every rejected key is skipped, its calls are within what its rung and try allow).  `Surroundings`: the types and limits of the rest.  `HInv`: each circuit is well formed, and a probe mark belongs to a request under way on that provider or to an outcome not reported; so a refusal has one of three causes, of which `RefusalsEnd` has to except the last.  `RouterServes` is the safety half of `ImplementsService`: every step is a step of `RequestService` or a stutter. |
| `ChatBotProofs`, the chat | `ChatTyped`, `DeletedNotesKeepNoToken`, `StrangersAreToldOnce`, `PhotosAreInOnePlace` | `Fits`: what each place works for.  `Dead`: unless its deletion went unheard, a spent token's revocation is under way, or the token is dead and no extension is left that could revive it.  `Told`: in memory, a told stranger's entry dates from the telling.  `Placed` and `Attended`: the places of a photo are disjoint, one handler waits while the group is open, and a photo still downloading is in none of them. |

That a set of naturals has a least element (`LeastElement`) is what searches from the
front rest on: the limiter's `popleft` loop and the router's walk down the ladder.

Each proof that an invariant is inductive has one step per action.  The checked
properties are seldom inductive themselves, because they do not say how the pieces
of state that the code keeps in step (deque and history, queue and stages, token and
revocation, body read and note) belong together; the named strengthenings say just
that.  TLC checked `IngestInv`, `FlowInv`, `NotesInv`, `McpInv`,
`LifeInv`, `BrowseInv` and `HInv` on their runs' instances before they were proved.

Proofs that failed changed the model of browsing.  `LinksResolve` used to look a title
up without `.md` only, and to know two readings of a link.  For names outside the
instance that is false: `[[a.md]]` opens `a.md.bak`, whose title it is, and the third
try of `_resolve` (`app/navigation.py:254`) does find a note that the first two miss,
`a.md.md` for `[[a]]`.  The try is modelled now, and the property goes by the first
reading that any note answers to.  What is under a folder is counted in entries,
because a note and a folder may have the same path.

Only model-checked is liveness, which is beyond these proofs: `RefusalsEnd`,
`StalenessEnds`, `PhotosAreDelivered`, `StopEndsTheProcess`, and the fairness half of
`ImplementsService`.  That the constants of `VaultTree` are what `str` methods make of
the instance's names was worked out by hand.

## 5. Not modelled

* **Parsing and ranking** (`adapters/parsing.py`, the scores of `app/search.py`):
  conversions of single answers and floating-point weights, without state.
  `Browsing` lists results in the order of the tree instead.
* **Rendering**, escaping, chunking and keyboards, **settings**, **ports and data
  classes**, **metrics, logging, correlation**: output, declarations and constants
  without a state machine.  The **scripts** are run by hand.
* Of modelled components: what the single REST endpoints read; templates and the
  creation of missing parents (`CaptureFlow`); the ledger's per-provider totals and
  its tail of records (`UserLimits`); the regular expressions that read an intent
  off a caption (`IngestPipeline` takes any intent); the pages of one long note
  (`Browsing`); `/start`, `/help`, `/status` and the wording of errors.
* The refusal of an unknown user stops later handler groups
  (`ApplicationHandlerStop`); this and "one handler per group" are modelled from
  python-telegram-bot's documented behaviour and are external to the repository.

Composing the whole vault path (cache, limiter, retries and edits in one module)
would multiply state spaces without a step the parts do not have: a cache meets a
write only at its answer, and an edit meets the transport only as requests served
late, twice or not at all, which `TtlCache` and `NoteEdits` both allow.

## 6. What could come next

1. `LlmRouter` as an implementation of `CircuitBreaker` for each provider, which
   would carry `AtMostOneProbe` over to it; the circuits' shape and cool-down are
   proved of the router directly.  A request that wakes calls without asking the
   breaker, so the router needs a history of which calls it admitted.
2. Two media groups and two chats in `ChatBot`, once a second one can meet the first.

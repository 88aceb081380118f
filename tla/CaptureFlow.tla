----------------------------- MODULE CaptureFlow -----------------------------
(* From a capture to a note: bot/create.py over app/capture.py and the tokens *)
(* of bot/tokens.py in the memory session store.  A draft lives only in the   *)
(* payload of a card's token.  Handlers of one user run concurrently          *)
(* (CONCURRENT_UPDATES) and interleave at every vault call: at each existence *)
(* check of resolve(), and between the write of a save, its answer and the    *)
(* revocation of the card.                                                    *)
(* A note path is <<base, n>>: what the user or the title asked for, and the  *)
(* collision suffix (1 for none).  A base is <<folder or note name, title>>.  *)
EXTENDS Naturals, Sequences, FiniteSets

CONSTANTS
    Handlers,   \* updates that may be in progress at once
    Titles,     \* titles a model or the user may give
    Inbox, Folders,  \* INBOX_PATH, and the other folders of the vault
    NoteNames,  \* targets that end in .md or match no folder
    Ambiguous,  \* targets that match every folder of Folders by name
    NoTarget, Untitled, NoPath, NoCard,
    MaxSuffix,  \* 1 + MAX_COLLISION_ATTEMPTS
    MaxStarts, MaxEdits, \* bounds on what the user asks for and on edits elsewhere
    MaxCards             \* no folder is picked once so many cards are out or on their way

ASSUME CaptureAssumption ==
    /\ IsFiniteSet(Handlers)
    /\ MaxSuffix \in Nat \ {0} /\ MaxStarts \in Nat /\ MaxEdits \in Nat /\ MaxCards \in Nat
    /\ NoCard \notin Nat

Targets == NoteNames \cup Folders \cup Ambiguous
Places == {Inbox} \cup Folders \cup NoteNames
Bases == Places \X (Titles \cup {Untitled})
Paths == Bases \X (1..MaxSuffix)

VARIABLES
    vault,    \* path -> does a note exist there
    cards,    \* the cards sent, oldest first: [draft, live, picks, saves]
    job,      \* handler -> what it is doing
    pending,  \* user_data[PENDING_KEY]: nothing, or [kind, draft]
    starts,   \* how many commands, messages and card edits were started
    edits,    \* how many changes somebody made elsewhere
    existed   \* history: paths that have ever held a note

vars == <<vault, cards, job, pending, starts, edits, existed>>

\* raced is history: a note came to exist at path since path was found free; and
\* so is saves of a card: how many of its saves were answered.
Drafts == [title : Titles \cup {Untitled}, target : Targets \cup {NoTarget}, path : Paths \cup {NoPath},
           raced : BOOLEAN]

NoDraft == [title |-> Untitled, target |-> NoTarget,
            path |-> NoPath, raced |-> FALSE]

IdleJob == [at |-> "idle", draft |-> NoDraft, base |-> <<Inbox, Untitled>>,
            n |-> 1, card |-> NoCard]

NoPending == [kind |-> "none", draft |-> NoDraft]

Init == /\ vault = [p \in Paths |-> FALSE]
        /\ cards = <<>>
        /\ job = [h \in Handlers |-> IdleJob]
        /\ pending = NoPending
        /\ starts = 0 /\ edits = 0
        /\ existed = {}

-----------------------------------------------------------------------------
(* resolve(): where a note goes. *)

\* No target is the inbox, a folder takes a note named after its title, and
\* anything else is the note's own path.
Base(target, title) ==
    IF target = NoTarget THEN <<Inbox, title>>
    ELSE IF target \in NoteNames THEN <<target, Untitled>>
    ELSE <<target, title>>

Unplaced(d) == [d EXCEPT !.path = NoPath, !.raced = FALSE]

ResolvingFromTwo(d, base) == [IdleJob EXCEPT !.at = "resolving", !.draft = Unplaced(d),
                                             !.base = base, !.n = 2]
\* The handler goes on to look for a free path for draft d.
Resolving(d, base) == [IdleJob EXCEPT !.at = "resolving", !.draft = Unplaced(d), !.base = base]

\* _send_card, and the ambiguity question (which carries the candidates).
Card(d, picks) == [draft |-> d, live |-> TRUE, picks |-> picks, saves |-> 0]

Starts == starts < MaxStarts /\ starts' = starts + 1

NextSuffix(h) == job[h].n + 1

GivesUp(h) == NextSuffix(h) > MaxSuffix

Candidate(h) == <<job[h].base, job[h].n>>

TakesTheSuffixBlindly(h) == job[h].n > 1 \/ ~vault[Candidate(h)]
IsFree(h) == ~vault[Candidate(h)]

\* _exists() of the candidate the job stands on, as the server sees it now.
\* A free one becomes the draft's path and goes out on a card (or, for /new,
\* is written); with every variation taken the resolution is refused.
FindTaken(h) ==
    /\ job[h].at \in {"resolving", "naming"}
    /\ ~IsFree(h)
    /\ job' = [job EXCEPT ![h] =
                  IF GivesUp(h) THEN IdleJob ELSE [@ EXCEPT !.n = NextSuffix(h)]]
    /\ UNCHANGED <<vault, cards, pending, starts, edits, existed>>

FindFree(h) ==
    LET d == [job[h].draft EXCEPT !.path = Candidate(h), !.raced = FALSE]
    IN /\ job[h].at \in {"resolving", "naming"}
       /\ IsFree(h)
       /\ IF job[h].at = "naming"
          THEN job' = [job EXCEPT ![h].at = "saving", ![h].draft = d] /\ UNCHANGED cards
          ELSE job' = [job EXCEPT ![h] = IdleJob] /\ cards' = Append(cards, Card(d, FALSE))
       /\ UNCHANGED <<vault, pending, starts, edits, existed>>

-----------------------------------------------------------------------------
(* Captures. *)

\* _present_draft of a new draft: ask which folder, or resolve.
Capture(h, title, target) ==
    LET d == [NoDraft EXCEPT !.title = title, !.target = target]
    IN /\ job[h].at = "idle" /\ Starts
       /\ IF target \in Ambiguous
          THEN cards' = Append(cards, Card(d, TRUE)) /\ UNCHANGED job
          ELSE job' = [job EXCEPT ![h] = Resolving(d, Base(target, title))] /\ UNCHANGED cards
       /\ UNCHANGED <<vault, pending, edits, existed>>

\* /new: the target is resolved without a title, then written at once.  An
\* ambiguous one leaves an empty path, which create() refuses.
NewCommand(h, target) ==
    /\ job[h].at = "idle" /\ Starts
    /\ target \notin Ambiguous
    /\ job' = [job EXCEPT ![h] = [Resolving(NoDraft, Base(target, Untitled))
                                      EXCEPT !.at = "naming"]]
    /\ UNCHANGED <<vault, cards, pending, edits, existed>>

-----------------------------------------------------------------------------
(* The buttons of a card: draft_callback resolves the token first.  A tap may *)
(* have been made before the card's keyboard went away.                       *)

Live(c) == c \in DOMAIN cards /\ cards[c].live

TapCancel(c) ==
    /\ Live(c)
    /\ cards' = [cards EXCEPT ![c].live = FALSE]
    /\ UNCHANGED <<vault, job, pending, starts, edits, existed>>

\* create() refuses the empty path of a draft whose folder is still open; the
\* question itself has no Save button.
TapSave(h, c) ==
    /\ job[h].at = "idle"
    /\ Live(c) /\ ~cards[c].picks /\ cards[c].draft.path # NoPath
    /\ job' = [job EXCEPT ![h] = [IdleJob EXCEPT !.at = "saving", !.draft = cards[c].draft,
                                                 !.card = c]]
    /\ UNCHANGED <<vault, cards, pending, starts, edits, existed>>

\* The cards sent and those on their way.
CardsToCome == Len(cards) + Cardinality({g \in Handlers : job[g].at = "resolving"})

\* Answering the question which folder was meant; it may be answered again.
TapPick(h, c, f) ==
    LET d == cards[c].draft
    IN /\ job[h].at = "idle"
       /\ Live(c) /\ cards[c].picks /\ CardsToCome < MaxCards
       /\ job' = [job EXCEPT ![h] = Resolving(d, <<f, d.title>>)]
       /\ UNCHANGED <<vault, cards, pending, starts, edits, existed>>

\* "a new title earns a new path", unless the capture itself named one.
RegenMoves(d, title) == title # d.title /\ d.target = NoTarget

TapRegen(h, c, title) ==
    LET d == [cards[c].draft EXCEPT !.title = title]
    IN /\ job[h].at = "idle"
       /\ Live(c) /\ ~cards[c].picks /\ Starts
       /\ IF RegenMoves(cards[c].draft, title)
          THEN job' = [job EXCEPT ![h] = Resolving(d, Base(NoTarget, title))] /\ UNCHANGED cards
          ELSE cards' = Append(cards, Card(d, FALSE)) /\ UNCHANGED job
       /\ UNCHANGED <<vault, pending, edits, existed>>

\* Title and Path ask for a message and keep the card's draft until it comes.
TapEdit(c, kind) ==
    /\ Live(c) /\ ~cards[c].picks
    /\ pending' = [kind |-> kind, draft |-> cards[c].draft]
    /\ UNCHANGED <<vault, cards, job, starts, edits, existed>>

\* pending_input with a title: resolved again from the capture's own target,
\* whatever the resolution says about being ambiguous.
SendTitle(h, title) ==
    LET d == [pending.draft EXCEPT !.title = title]
    IN /\ job[h].at = "idle"
       /\ pending.kind = "title" /\ Starts
       /\ pending' = NoPending
       /\ IF d.target \in Ambiguous
          THEN /\ cards' = Append(cards, Card(Unplaced(d), FALSE))
               /\ UNCHANGED job
          ELSE job' = [job EXCEPT ![h] = Resolving(d, Base(d.target, title))] /\ UNCHANGED cards
       /\ UNCHANGED <<vault, edits, existed>>

\* pending_input with a path.
SendPath(h, target) ==
    LET d == pending.draft
    IN /\ job[h].at = "idle"
       /\ pending.kind = "path" /\ Starts
       /\ pending' = NoPending
       /\ IF target \in Ambiguous
          THEN cards' = Append(cards, Card(d, TRUE)) /\ UNCHANGED job
          ELSE job' = [job EXCEPT ![h] = Resolving(d, Base(target, d.title))] /\ UNCHANGED cards
       /\ UNCHANGED <<vault, edits, existed>>

-----------------------------------------------------------------------------
(* The save. *)

\* A note is at p from now on: drafts that hold p as a free path were raced.
Arrives(p) ==
    LET Raced(d) == IF d.path = p THEN [d EXCEPT !.raced = TRUE] ELSE d
    IN /\ vault' = [vault EXCEPT ![p] = TRUE]
       /\ existed' = existed \cup {p}
       /\ cards' = [c \in DOMAIN cards |-> [cards[c] EXCEPT !.draft = Raced(@)]]
       /\ pending' = [pending EXCEPT !.draft = Raced(@)]

JobsAfter(p, h, at) ==
    [g \in Handlers |->
        [job[g] EXCEPT !.at = IF g = h THEN at ELSE @,
                       !.draft.raced = @ \/ job[g].draft.path = p]]

\* create() reaches the vault: an upsert of exactly the confirmed path.
ServerCreates(h) ==
    LET p == job[h].draft.path
    IN /\ job[h].at = "saving"
       /\ Arrives(p)
       /\ job' = JobsAfter(p, h, "written")
       /\ UNCHANGED <<starts, edits>>

RevokesNothing(c) == cards
Revoked(c) == [cards EXCEPT ![c].live = FALSE]

\* The answer arrives and the card's token is revoked, which may be long after the
\* write: meanwhile a second Save, a Cancel or an edit found the token alive.
SaveReturns(h) ==
    LET c == job[h].card
    IN /\ job[h].at = "written"
       /\ cards' = IF c = NoCard THEN cards ELSE [Revoked(c) EXCEPT ![c].saves = @ + 1]
       /\ job' = [job EXCEPT ![h] = IdleJob]
       /\ UNCHANGED <<vault, pending, starts, edits, existed>>

\* The vault is unreachable, or did the write and its answer was lost: the
\* card's token stays.
SaveFails(h) ==
    /\ job[h].at \in {"saving", "written"}
    /\ job' = [job EXCEPT ![h] = IdleJob]
    /\ UNCHANGED <<vault, cards, pending, starts, edits, existed>>

HeldDrafts == {cards[c].draft : c \in DOMAIN cards} \cup {job[h].draft : h \in Handlers}
                \cup {pending.draft}

\* Somebody creates or deletes a note in NoteDiscovery itself.  A path that no
\* draft holds and no handler is about to look at can as well be edited later.
Watched == {p \in Paths : vault[p]} \cup {Candidate(h) : h \in Handlers}
             \cup ({d.path : d \in HeldDrafts} \ {NoPath})

EditElsewhere(p) ==
    /\ edits < MaxEdits
    /\ edits' = edits + 1
    /\ IF vault[p]
       THEN vault' = [vault EXCEPT ![p] = FALSE] /\ UNCHANGED <<cards, job, pending, existed>>
       ELSE Arrives(p) /\ job' = [h \in Handlers |-> JobsAfter(p, h, job[h].at)[h]]
    /\ UNCHANGED starts

-----------------------------------------------------------------------------
Next ==
    \/ \E h \in Handlers :
         \/ FindTaken(h) \/ FindFree(h)
         \/ \E t \in Titles, g \in Targets \cup {NoTarget} : Capture(h, t, g)
         \/ \E g \in Targets : NewCommand(h, g) \/ SendPath(h, g)
         \/ \E t \in Titles : SendTitle(h, t)
         \/ \E c \in DOMAIN cards :
              \/ TapSave(h, c)
              \/ \E f \in Folders : TapPick(h, c, f)
              \/ \E t \in Titles : TapRegen(h, c, t)
         \/ ServerCreates(h) \/ SaveReturns(h) \/ SaveFails(h)
    \/ \E c \in DOMAIN cards : TapCancel(c) \/ \E k \in {"title", "path"} : TapEdit(c, k)
    \/ \E p \in Watched : EditElsewhere(p)

Spec == Init /\ [][Next]_vars

-----------------------------------------------------------------------------
TypeOK ==
    /\ vault \in [Paths -> BOOLEAN]
    /\ cards \in Seq([draft : Drafts, live : BOOLEAN, picks : BOOLEAN, saves : Nat])
    /\ job \in [Handlers -> [at : {"idle", "resolving", "naming", "saving", "written"},
                             draft : Drafts, base : Bases, n : 1..MaxSuffix,
                             card : DOMAIN cards \cup {NoCard}]]
    /\ pending \in [kind : {"none", "title", "path"}, draft : Drafts]
    /\ starts \in 0..MaxStarts /\ edits \in 0..MaxEdits
    /\ existed \subseteq Paths

\* The collision rule of capture.py:16-18, as strong as the code gives it: a
\* draft, wherever it waits (on a card, behind a Title or Path question, in a
\* save) and however it was edited since, holds a taken path only if the note
\* came to exist after the path was found free (capture.py:155-173).
OnlyLatecomersAreOverwritten ==
    \A d \in HeldDrafts : d.path # NoPath => (vault[d.path] => d.raced)

\* capture.py:167-170 walks the names in order: a note is only called "x-3" when
\* "x" and "x-2" were both taken, at this resolution or an earlier one.
SuffixesAreEarned ==
    TypeOK /\ \A d \in HeldDrafts : d.path # NoPath =>
        \A k \in 1..(d.path[2] - 1) : <<d.path[1], k>> \in existed

SavesUnderWay(c) == {h \in Handlers : job[h].card = c}

\* create.py:555-556 says that a double tap cannot create the note twice.  Taps
\* inside the window between the write and the revocation do (582), but only
\* those: however the saves, cancels, edits and lost answers of a card interleave,
\* the saves answered and those under way were all under way at one time, so that
\* there are no more of them than updates are handled at once.
RepeatedSavesOverlapped ==
    \A c \in DOMAIN cards :
        cards[c].saves + Cardinality(SavesUnderWay(c)) <= Cardinality(Handlers)
=============================================================================

-------------------------- MODULE CaptureFlowProofs --------------------------
(* From a capture to a note, for every number of handlers, cards, folders,    *)
(* titles, suffixes and edits elsewhere: what a draft says of its path, and   *)
(* how often a card is saved.                                                 *)
EXTENDS CaptureFlow, FiniteSetTheorems, SequenceTheorems, TLAPS

CardRecords == [draft : Drafts, live : BOOLEAN, picks : BOOLEAN, saves : Nat]

JobRecords == [at : {"idle", "resolving", "naming", "saving", "written"},
               draft : Drafts, base : Bases, n : 1..MaxSuffix, card : Nat \cup {NoCard}]

Pendings == [kind : {"none", "title", "path"}, draft : Drafts]

\* Every name before the n-th has been taken at some time.
Earned(base, n) == \A k \in 1..(n - 1) : <<base, k>> \in existed

DraftFits(d) == d.path # NoPath =>
    /\ vault[d.path] => d.raced
    /\ Earned(d.path[1], d.path[2])

JobFits(x) ==
    /\ DraftFits(x.draft)
    /\ x.at \in {"resolving", "naming"} => Earned(x.base, x.n)
    /\ x.card # NoCard => x.card \in DOMAIN cards
    /\ x.at = "saving" => x.draft.path \in Paths

FlowInv ==
    /\ vault \in [Paths -> BOOLEAN]
    /\ existed \subseteq Paths
    /\ \A p \in Paths : vault[p] => p \in existed
    /\ cards \in Seq(CardRecords)
    /\ \A c \in DOMAIN cards : DraftFits(cards[c].draft)
    /\ job \in [Handlers -> JobRecords]
    /\ \A h \in Handlers : JobFits(job[h])
    /\ pending \in Pendings
    /\ DraftFits(pending.draft)
    /\ starts \in 0..MaxStarts /\ edits \in 0..MaxEdits

-----------------------------------------------------------------------------
(* Records and drafts. *)

\* What nobody holds is typed, and has no path.
LEMMA BasicRecords ==
    /\ NoDraft \in Drafts /\ NoDraft.path = NoPath
    /\ IdleJob \in JobRecords /\ IdleJob.draft = NoDraft
    /\ IdleJob.at = "idle" /\ IdleJob.card = NoCard
    /\ NoPending \in Pendings /\ NoPending.draft = NoDraft
<1>1. NoDraft \in Drafts /\ NoDraft.path = NoPath
  BY DEF NoDraft, Drafts
<1>2. <<Inbox, Untitled>> \in Bases /\ 1 \in 1..MaxSuffix
  BY CaptureAssumption DEF Bases, Places
<1> QED BY <1>1, <1>2 DEF IdleJob, JobRecords, NoPending, Pendings

\* An idle handler, and no question asked, say nothing that could be wrong.
LEMMA NothingToFit == JobFits(IdleJob) /\ DraftFits(NoPending.draft) /\ DraftFits(NoDraft)
BY BasicRecords DEF JobFits, DraftFits

\* A draft whose path is forgotten is a draft without one.
LEMMA Unplacing ==
    ASSUME NEW d \in Drafts
    PROVE  Unplaced(d) \in Drafts /\ Unplaced(d).path = NoPath
BY DEF Drafts, Unplaced

\* resolve() starts at the first name of a base that there is.
LEMMA ResolvingFits ==
    ASSUME NEW d \in Drafts, NEW base \in Bases
    PROVE  /\ Resolving(d, base) \in JobRecords /\ JobFits(Resolving(d, base))
           /\ [Resolving(d, base) EXCEPT !.at = "naming"] \in JobRecords
           /\ JobFits([Resolving(d, base) EXCEPT !.at = "naming"])
<1> DEFINE u == Unplaced(d)
<1>1. u \in Drafts /\ u.path = NoPath
  BY Unplacing
<1> HIDE DEF u
<1> DEFINE x == Resolving(d, base)
           y == [x EXCEPT !.at = "naming"]
<1>2. x = [IdleJob EXCEPT !.at = "resolving", !.draft = u, !.base = base]
  BY DEF Resolving, u
<1>3. /\ x \in JobRecords /\ x.draft = u /\ x.n = 1 /\ x.card = NoCard /\ x.base = base
      /\ x.at = "resolving"
  BY <1>1, <1>2, BasicRecords DEF JobRecords, IdleJob
<1>4. /\ y \in JobRecords /\ y.draft = u /\ y.n = 1 /\ y.card = NoCard /\ y.base = base
      /\ y.at = "naming"
  BY <1>3 DEF JobRecords
<1>5. Earned(base, 1)
  BY DEF Earned
<1>6. DraftFits(u)
  BY <1>1 DEF DraftFits
<1> HIDE DEF x, y
<1>7. JobFits(x) /\ JobFits(y)
  BY <1>3, <1>4, <1>5, <1>6 DEF JobFits
<1> QED BY <1>3, <1>4, <1>7 DEF x, y

\* Where a note goes is a place of the vault, unless the target is ambiguous.
LEMMA BaseFits ==
    ASSUME NEW target \in Targets \cup {NoTarget}, NEW title \in Titles \cup {Untitled},
           target \notin Ambiguous
    PROVE  Base(target, title) \in Bases
BY DEF Base, Bases, Places, Targets

\* A draft that changes its title keeps its path, and what is said of it.
LEMMA Retitled ==
    ASSUME NEW d \in Drafts, DraftFits(d), NEW title \in Titles
    PROVE  /\ [d EXCEPT !.title = title] \in Drafts
           /\ DraftFits([d EXCEPT !.title = title])
           /\ [d EXCEPT !.title = title].target = d.target
BY DEF Drafts, DraftFits

-----------------------------------------------------------------------------
(* Steps that leave the vault alone. *)

\* A handler moves, or the question that was asked; the cards stay.
LEMMA HandlerMoves ==
    ASSUME FlowInv, UNCHANGED <<vault, cards, edits, existed>>,
           starts' \in 0..MaxStarts, NEW h \in Handlers, NEW x \in JobRecords, JobFits(x),
           job' = [job EXCEPT ![h] = x] \/ job' = job,
           pending' \in Pendings, DraftFits(pending'.draft)
    PROVE  FlowInv'
<1>1. job' \in [Handlers -> JobRecords] /\ \A g \in Handlers : JobFits(job'[g])
  BY DEF FlowInv
<1> QED BY <1>1 DEF FlowInv, JobFits, DraftFits, Earned

\* A card goes out.
LEMMA CardGoesOut ==
    ASSUME FlowInv, UNCHANGED <<vault, edits, existed>>,
           starts' \in 0..MaxStarts, NEW h \in Handlers,
           job' = [job EXCEPT ![h] = IdleJob] \/ job' = job,
           pending' \in Pendings, DraftFits(pending'.draft),
           NEW d \in Drafts, DraftFits(d), NEW picks \in BOOLEAN,
           cards' = Append(cards, Card(d, picks))
    PROVE  FlowInv'
<1> DEFINE k == Card(d, picks)
<1>1. k \in CardRecords /\ k.draft = d
  BY DEF Card, CardRecords
<1> HIDE DEF k
<1>2. cards \in Seq(CardRecords) /\ Len(cards) \in Nat /\ DOMAIN cards = 1..Len(cards)
  BY DEF FlowInv
<1>3. /\ cards' \in Seq(CardRecords) /\ DOMAIN cards' = 1..(Len(cards) + 1)
      /\ \A c \in 1..Len(cards) : cards'[c] = cards[c]
      /\ cards'[Len(cards) + 1] = k
  BY <1>1, <1>2 DEF k
<1>4. \A c \in DOMAIN cards' : DraftFits(cards'[c].draft)
  <2> SUFFICES ASSUME NEW c \in DOMAIN cards' PROVE DraftFits(cards'[c].draft)
    OBVIOUS
  <2>1. CASE c \in 1..Len(cards)
    BY <1>2, <1>3, <2>1 DEF FlowInv
  <2>2. CASE c = Len(cards) + 1
    BY <1>1, <1>3, <2>2
  <2> QED BY <1>2, <1>3, <2>1, <2>2
<1>5. DOMAIN cards \subseteq DOMAIN cards'
  BY <1>2, <1>3
<1>6. job' \in [Handlers -> JobRecords] /\ \A g \in Handlers : JobFits(job'[g])
  BY BasicRecords, NothingToFit DEF FlowInv
<1>7. (\A g \in Handlers : JobFits(job[g]))'
  BY <1>5, <1>6 DEF JobFits, DraftFits, Earned
<1>8. (\A c \in DOMAIN cards : DraftFits(cards[c].draft))'
  BY <1>4 DEF DraftFits, Earned
<1>9. DraftFits(pending.draft)'
  BY DEF DraftFits, Earned
<1> QED BY <1>3, <1>5, <1>6, <1>7, <1>8, <1>9 DEF FlowInv

\* The invariant, in the pieces that the steps need.
LEMMA Types ==
    ASSUME FlowInv
    PROVE  /\ Len(cards) \in Nat /\ DOMAIN cards = 1..Len(cards)
           /\ \A c \in DOMAIN cards : cards[c] \in CardRecords /\ cards[c].draft \in Drafts
           /\ \A h \in Handlers : job[h] \in JobRecords /\ JobFits(job[h])
           /\ pending \in Pendings /\ pending.draft \in Drafts /\ DraftFits(pending.draft)
           /\ starts < MaxStarts => starts + 1 \in 0..MaxStarts
           /\ edits < MaxEdits => edits + 1 \in 0..MaxEdits
           /\ starts \in 0..MaxStarts
<1>1. \A c \in DOMAIN cards : cards[c] \in CardRecords
  BY DEF FlowInv
<1>2. \A c \in DOMAIN cards : cards[c].draft \in Drafts
  BY <1>1 DEF CardRecords
<1>3. pending.draft \in Drafts
  BY DEF FlowInv, Pendings
<1>4. Len(cards) \in Nat /\ DOMAIN cards = 1..Len(cards)
  BY DEF FlowInv
<1> QED BY <1>1, <1>2, <1>3, <1>4, CaptureAssumption DEF FlowInv

\* A handler that looks at a name of the vault, taken or free, keeps it.
LEMMA Looks ==
    ASSUME FlowInv, NEW h \in Handlers, FindTaken(h) \/ FindFree(h)
    PROVE  FlowInv'
<1> DEFINE x == job[h]
           p == Candidate(h)
<1>1. x \in JobRecords /\ JobFits(x) /\ x.at \in {"resolving", "naming"} /\ Earned(x.base, x.n)
  BY Types DEF FindTaken, FindFree, JobFits
<1>2. /\ x.base \in Bases /\ x.n \in 1..MaxSuffix /\ x.draft \in Drafts
      /\ p = <<x.base, x.n>>
  BY <1>1 DEF JobRecords, Candidate
<1>3. p \in Paths /\ p[1] = x.base /\ p[2] = x.n
  BY <1>2 DEF Paths
<1>4. CASE FindTaken(h)
  <2> DEFINE y == [x EXCEPT !.n = NextSuffix(h)]
  <2>1. p \in existed
    BY <1>3, <1>4 DEF FindTaken, IsFree, FlowInv
  <2>2. CASE GivesUp(h)
    BY <1>4, <2>2, Types, BasicRecords, NothingToFit, HandlerMoves DEF FindTaken
  <2>3. CASE ~GivesUp(h)
    <3>1. NextSuffix(h) = x.n + 1 /\ x.n + 1 \in 1..MaxSuffix
      BY <1>2, <2>3, CaptureAssumption DEF GivesUp, NextSuffix
    <3>2. y \in JobRecords /\ y.draft = x.draft /\ y.at = x.at /\ y.card = x.card
          /\ y.base = x.base /\ y.n = x.n + 1
      BY <1>1, <3>1 DEF JobRecords
    <3>3. Earned(x.base, x.n + 1)
      BY <1>1, <1>2, <2>1 DEF Earned
    <3>4. job' = [job EXCEPT ![h] = y]
      BY <1>4, <2>3 DEF FindTaken
    <3>5. JobFits(y)
      BY <1>1, <3>2, <3>3 DEF JobFits
    <3> HIDE DEF y
    <3> QED BY <1>4, <3>2, <3>4, <3>5, Types, HandlerMoves DEF FindTaken
  <2> QED BY <2>2, <2>3
<1>5. CASE FindFree(h)
  <2> DEFINE d == [x.draft EXCEPT !.path = p, !.raced = FALSE]
             y == [x EXCEPT !.at = "saving", !.draft = d]
  <2>1. d \in Drafts /\ d.path = p
    BY <1>2, <1>3 DEF Drafts
  <2>2. ~vault[p]
    BY <1>5 DEF FindFree, IsFree
  <2>3. DraftFits(d)
    BY <1>1, <1>3, <2>1, <2>2 DEF DraftFits
  <2>4. CASE x.at = "naming"
    <3>1. job' = [job EXCEPT ![h] = y] /\ cards' = cards
      <4>1. job' = [job EXCEPT ![h].at = "saving", ![h].draft = d] /\ cards' = cards
        BY <1>5, <2>4 DEF FindFree
      <4> HIDE DEF d
      <4> QED BY <4>1
    <3>0. d.path \in Paths
      BY <1>3, <2>1
    <3> HIDE DEF d
    <3>2. y \in JobRecords /\ y.draft = d /\ y.at = "saving" /\ y.card = x.card
      BY <1>1, <2>1 DEF JobRecords
    <3>3. JobFits(y)
      BY <1>1, <2>3, <3>0, <3>2 DEF JobFits
    <3> HIDE DEF y
    <3> QED BY <1>5, <3>1, <3>2, <3>3, Types, HandlerMoves DEF FindFree
  <2>5. CASE x.at # "naming"
    <3>1. job' = [job EXCEPT ![h] = IdleJob] /\ cards' = Append(cards, Card(d, FALSE))
      BY <1>5, <2>5 DEF FindFree
    <3> HIDE DEF d
    <3> QED BY <1>5, <2>1, <2>3, <3>1, Types, CardGoesOut DEF FindFree
  <2> QED BY <2>4, <2>5
<1> QED BY <1>4, <1>5

\* A capture or /new that begins keeps it.
LEMMA Captures ==
    ASSUME FlowInv, NEW h \in Handlers
    PROVE  /\ \A t \in Titles, g \in Targets \cup {NoTarget} : Capture(h, t, g) => FlowInv'
           /\ \A g \in Targets : NewCommand(h, g) => FlowInv'
<1>1. ASSUME NEW t \in Titles, NEW g \in Targets \cup {NoTarget}, Capture(h, t, g)
      PROVE  FlowInv'
  <2> DEFINE d == [NoDraft EXCEPT !.title = t, !.target = g]
  <2>1. d \in Drafts /\ d.path = NoPath
    BY DEF NoDraft, Drafts
  <2>2. DraftFits(d)
    BY <2>1 DEF DraftFits
  <2>3. /\ UNCHANGED <<vault, pending, edits, existed>>
        /\ starts' \in 0..MaxStarts
    BY <1>1, Types DEF Capture, Starts
  <2>4. CASE g \in Ambiguous
    <3>1. cards' = Append(cards, Card(d, TRUE)) /\ job' = job
      BY <1>1, <2>4 DEF Capture
    <3> HIDE DEF d
    <3> QED BY <2>1, <2>2, <2>3, <3>1, Types, CardGoesOut
  <2>5. CASE g \notin Ambiguous
    <3>1. job' = [job EXCEPT ![h] = Resolving(d, Base(g, t))] /\ cards' = cards
      BY <1>1, <2>5 DEF Capture
    <3>2. Base(g, t) \in Bases
      BY <2>5, BaseFits
    <3> HIDE DEF d
    <3>3. /\ Resolving(d, Base(g, t)) \in JobRecords
          /\ JobFits(Resolving(d, Base(g, t)))
      BY <2>1, <3>2, ResolvingFits
    <3> QED BY <2>3, <3>1, <3>3, Types, HandlerMoves
  <2> QED BY <2>4, <2>5
<1>2. ASSUME NEW g \in Targets, NewCommand(h, g) PROVE FlowInv'
  <2>1. Base(g, Untitled) \in Bases
    BY <1>2, BaseFits DEF NewCommand
  <2> DEFINE y == [Resolving(NoDraft, Base(g, Untitled)) EXCEPT !.at = "naming"]
  <2>2. y \in JobRecords /\ JobFits(y)
    BY <2>1, BasicRecords, ResolvingFits
  <2>3. /\ job' = [job EXCEPT ![h] = y]
        /\ UNCHANGED <<vault, cards, pending, edits, existed>>
        /\ starts' \in 0..MaxStarts
    BY <1>2, Types DEF NewCommand, Starts
  <2> HIDE DEF y
  <2> QED BY <2>2, <2>3, Types, HandlerMoves
<1> QED BY <1>1, <1>2

-----------------------------------------------------------------------------
(* The buttons of a card. *)

\* A tap on a card that resolves a path or saves keeps it.
LEMMA Taps ==
    ASSUME FlowInv, NEW h \in Handlers, NEW c \in DOMAIN cards
    PROVE  /\ TapSave(h, c) => FlowInv'
           /\ \A f \in Folders : TapPick(h, c, f) => FlowInv'
           /\ \A t \in Titles : TapRegen(h, c, t) => FlowInv'
<1> DEFINE d == cards[c].draft
<1>1. d \in Drafts /\ DraftFits(d)
  BY Types DEF FlowInv
<1>2. d.title \in Titles \cup {Untitled}
  BY <1>1 DEF Drafts
<1>3. ASSUME TapSave(h, c) PROVE FlowInv'
  <2> DEFINE y == [IdleJob EXCEPT !.at = "saving", !.draft = d, !.card = c]
  <2>1. c \in Nat
    BY Types
  <2> HIDE DEF d
  <2>2. y \in JobRecords /\ y.at = "saving" /\ y.draft = d /\ y.card = c
    BY <1>1, <2>1, BasicRecords DEF IdleJob, JobRecords
  <2>3. d.path \in Paths
    BY <1>1, <1>3 DEF TapSave, d, Drafts
  <2>4. JobFits(y)
    BY <1>1, <2>2, <2>3 DEF JobFits
  <2>5. /\ job' = [job EXCEPT ![h] = y]
        /\ UNCHANGED <<vault, cards, pending, starts, edits, existed>>
    BY <1>3 DEF TapSave, d
  <2> HIDE DEF y
  <2> QED BY <2>2, <2>4, <2>5, Types, HandlerMoves
<1>4. ASSUME NEW f \in Folders, TapPick(h, c, f) PROVE FlowInv'
  <2> DEFINE base == <<f, d.title>>
  <2>1. base \in Bases
    BY <1>2 DEF Bases, Places
  <2>2. /\ job' = [job EXCEPT ![h] = Resolving(d, base)]
        /\ UNCHANGED <<vault, cards, pending, starts, edits, existed>>
    BY <1>4 DEF TapPick
  <2> HIDE DEF d, base
  <2>3. Resolving(d, base) \in JobRecords /\ JobFits(Resolving(d, base))
    BY <1>1, <2>1, ResolvingFits
  <2> QED BY <2>2, <2>3, Types, HandlerMoves
<1>5. ASSUME NEW t \in Titles, TapRegen(h, c, t) PROVE FlowInv'
  <2> DEFINE e == [d EXCEPT !.title = t]
  <2>1. e \in Drafts /\ DraftFits(e)
    <3> HIDE DEF d
    <3> QED BY <1>1, Retitled
  <2>2. /\ UNCHANGED <<vault, pending, edits, existed>>
        /\ starts' \in 0..MaxStarts
    BY <1>5, Types DEF TapRegen, Starts
  <2>3. CASE RegenMoves(d, t)
    <3>1. job' = [job EXCEPT ![h] = Resolving(e, Base(NoTarget, t))] /\ cards' = cards
      BY <1>5, <2>3 DEF TapRegen
    <3>2. Base(NoTarget, t) \in Bases
      BY DEF Base, Bases, Places
    <3> HIDE DEF d, e
    <3>3. /\ Resolving(e, Base(NoTarget, t)) \in JobRecords
          /\ JobFits(Resolving(e, Base(NoTarget, t)))
      BY <2>1, <3>2, ResolvingFits
    <3> QED BY <2>2, <3>1, <3>3, Types, HandlerMoves
  <2>4. CASE ~RegenMoves(d, t)
    <3>1. cards' = Append(cards, Card(e, FALSE)) /\ job' = job
      BY <1>5, <2>4 DEF TapRegen
    <3> HIDE DEF d, e
    <3> QED BY <2>1, <2>2, <3>1, Types, CardGoesOut
  <2> QED BY <2>3, <2>4
<1> QED BY <1>3, <1>4, <1>5

\* A tap that asks for a title or a path keeps it.
LEMMA Questions ==
    ASSUME FlowInv, NEW c \in DOMAIN cards, NEW k \in {"title", "path"}, TapEdit(c, k)
    PROVE  FlowInv'
<1> DEFINE d == cards[c].draft
<1>1. d \in Drafts /\ DraftFits(d)
  BY Types DEF FlowInv
<1>2. pending' = [kind |-> k, draft |-> d]
  BY DEF TapEdit
<1> HIDE DEF d
<1>3. pending' \in Pendings /\ pending'.draft = d
  BY <1>1, <1>2 DEF Pendings
<1>4. UNCHANGED <<vault, cards, job, starts, edits, existed>>
  BY DEF TapEdit
<1> QED BY <1>1, <1>3, <1>4 DEF FlowInv, JobFits, DraftFits, Earned

\* A card whose record changes in other fields keeps its draft, and so do all.
LEMMA CardChanges ==
    ASSUME FlowInv, NEW c \in DOMAIN cards, NEW k \in CardRecords, k.draft = cards[c].draft,
           cards' = [cards EXCEPT ![c] = k]
    PROVE  /\ cards' \in Seq(CardRecords) /\ DOMAIN cards' = DOMAIN cards
           /\ \A b \in DOMAIN cards : cards'[b].draft = cards[b].draft
<1>1. cards \in Seq(CardRecords) /\ DOMAIN cards = 1..Len(cards)
  BY Types DEF FlowInv
<1>2. cards' \in Seq(CardRecords) /\ DOMAIN cards' = DOMAIN cards
  <2>1. c \in 1..Len(cards)
    BY <1>1
  <2>2. cards' \in Seq(CardRecords) /\ Len(cards') = Len(cards)
    <3>1. /\ [cards EXCEPT ![c] = k] \in Seq(CardRecords)
          /\ Len([cards EXCEPT ![c] = k]) = Len(cards)
      BY <1>1, <2>1, ExceptSeq
    <3> QED BY <3>1
  <2>3. DOMAIN cards' = 1..Len(cards')
    BY <2>2, LenProperties
  <2> QED BY <1>1, <2>2, <2>3
<1>3. \A b \in DOMAIN cards : cards'[b] = IF b = c THEN k ELSE cards[b]
  OBVIOUS
<1> QED BY <1>2, <1>3

\* The card of which nothing but the keyboard, and the count of its saves, changes.
Closed(k, saves) == [k EXCEPT !.live = FALSE, !.saves = saves]

\* Such a card is a card.
LEMMA ClosedCards ==
    ASSUME NEW k \in CardRecords, NEW saves \in Nat
    PROVE  /\ Closed(k, saves) \in CardRecords /\ Closed(k, saves).draft = k.draft
           /\ ~Closed(k, saves).live /\ Closed(k, saves).saves = saves
BY DEF Closed, CardRecords

\* Cancel kills its card.
LEMMA CancelledCard ==
    ASSUME FlowInv, NEW c \in DOMAIN cards, TapCancel(c)
    PROVE  cards' = [cards EXCEPT ![c] = Closed(cards[c], cards[c].saves)]
<1>1. cards[c] \in CardRecords
  BY Types
<1>2. [cards[c] EXCEPT !.live = FALSE] = Closed(cards[c], cards[c].saves)
  BY <1>1 DEF CardRecords, Closed
<1>3. cards' = [cards EXCEPT ![c] = [cards[c] EXCEPT !.live = FALSE]]
  BY DEF TapCancel
<1> QED BY <1>2, <1>3

\* The answer to a save kills its card and is counted.
LEMMA AnsweredCard ==
    ASSUME FlowInv, NEW h \in Handlers, SaveReturns(h), NEW c \in DOMAIN cards,
           c = job[h].card, c # NoCard
    PROVE  cards' = [cards EXCEPT ![c] = Closed(cards[c], cards[c].saves + 1)]
<1> DEFINE r == Revoked(c)
<1>1. cards' = [r EXCEPT ![c].saves = @ + 1]
  BY DEF SaveReturns
<1>2. r = [cards EXCEPT ![c] = [cards[c] EXCEPT !.live = FALSE]]
  BY DEF Revoked
<1>3. r[c] = [cards[c] EXCEPT !.live = FALSE] /\ r[c].saves = cards[c].saves
  BY <1>2, Types DEF CardRecords
<1>4. [r[c] EXCEPT !.saves = cards[c].saves + 1] = Closed(cards[c], cards[c].saves + 1)
  BY <1>3, Types DEF CardRecords, Closed
<1>5. cards' = [r EXCEPT ![c] = [r[c] EXCEPT !.saves = r[c].saves + 1]]
  BY <1>1
<1> HIDE DEF r
<1>6. cards' = [r EXCEPT ![c] = Closed(cards[c], cards[c].saves + 1)]
  BY <1>3, <1>4, <1>5
<1> QED BY <1>2, <1>6

\* Cancel keeps the invariant.
LEMMA Cancels ==
    ASSUME FlowInv, NEW c \in DOMAIN cards, TapCancel(c)
    PROVE  FlowInv'
<1> DEFINE k == Closed(cards[c], cards[c].saves)
<1>1. k \in CardRecords /\ k.draft = cards[c].draft
  BY Types, ClosedCards DEF CardRecords
<1>2. cards' = [cards EXCEPT ![c] = k]
  BY CancelledCard
<1> HIDE DEF k
<1>3. /\ cards' \in Seq(CardRecords) /\ DOMAIN cards' = DOMAIN cards
      /\ \A b \in DOMAIN cards : cards'[b].draft = cards[b].draft
  BY <1>1, <1>2, CardChanges
<1>4. UNCHANGED <<vault, job, pending, starts, edits, existed>>
  BY DEF TapCancel
<1> QED BY <1>3, <1>4 DEF FlowInv, JobFits, DraftFits, Earned

\* So does the answer to a question.
LEMMA Messages ==
    ASSUME FlowInv, NEW h \in Handlers
    PROVE  /\ \A t \in Titles : SendTitle(h, t) => FlowInv'
           /\ \A g \in Targets : SendPath(h, g) => FlowInv'
<1> DEFINE d == pending.draft
<1>1. d \in Drafts /\ DraftFits(d)
  BY Types
<1>2. d.title \in Titles \cup {Untitled} /\ d.target \in Targets \cup {NoTarget}
  BY <1>1 DEF Drafts
<1>3. ASSUME NEW t \in Titles, SendTitle(h, t) PROVE FlowInv'
  <2> DEFINE e == [d EXCEPT !.title = t]
  <2>1. e \in Drafts /\ DraftFits(e) /\ e.target = d.target
    <3> HIDE DEF d
    <3> QED BY <1>1, Retitled
  <2>2. /\ UNCHANGED <<vault, edits, existed>>
        /\ starts' \in 0..MaxStarts /\ pending' = NoPending
    BY <1>3, Types DEF SendTitle, Starts
  <2>3. CASE e.target \in Ambiguous
    <3>1. cards' = Append(cards, Card(Unplaced(e), FALSE)) /\ job' = job
      BY <1>3, <2>3 DEF SendTitle
    <3> HIDE DEF d, e
    <3>2. Unplaced(e) \in Drafts /\ DraftFits(Unplaced(e))
      BY <2>1, Unplacing DEF DraftFits
    <3> QED BY <2>2, <3>1, <3>2, BasicRecords, NothingToFit, CardGoesOut
  <2>4. CASE e.target \notin Ambiguous
    <3>1. job' = [job EXCEPT ![h] = Resolving(e, Base(e.target, t))] /\ cards' = cards
      BY <1>3, <2>4 DEF SendTitle
    <3> HIDE DEF d, e
    <3>2. Base(e.target, t) \in Bases
      BY <1>2, <2>1, <2>4, BaseFits
    <3>3. /\ Resolving(e, Base(e.target, t)) \in JobRecords
          /\ JobFits(Resolving(e, Base(e.target, t)))
      BY <2>1, <3>2, ResolvingFits
    <3> QED BY <2>2, <3>1, <3>3, BasicRecords, NothingToFit, HandlerMoves
  <2> QED BY <2>3, <2>4
<1>4. ASSUME NEW g \in Targets, SendPath(h, g) PROVE FlowInv'
  <2>1. /\ UNCHANGED <<vault, edits, existed>>
        /\ starts' \in 0..MaxStarts /\ pending' = NoPending
    BY <1>4, Types DEF SendPath, Starts
  <2>2. CASE g \in Ambiguous
    <3>1. cards' = Append(cards, Card(d, TRUE)) /\ job' = job
      BY <1>4, <2>2 DEF SendPath
    <3> HIDE DEF d
    <3> QED BY <1>1, <2>1, <3>1, BasicRecords, NothingToFit, CardGoesOut
  <2>3. CASE g \notin Ambiguous
    <3>1. job' = [job EXCEPT ![h] = Resolving(d, Base(g, d.title))] /\ cards' = cards
      BY <1>4, <2>3 DEF SendPath
    <3> HIDE DEF d
    <3>2. Base(g, d.title) \in Bases
      BY <1>2, <2>3, BaseFits
    <3>3. /\ Resolving(d, Base(g, d.title)) \in JobRecords
          /\ JobFits(Resolving(d, Base(g, d.title)))
      BY <1>1, <3>2, ResolvingFits
    <3> QED BY <2>1, <3>1, <3>3, BasicRecords, NothingToFit, HandlerMoves
  <2> QED BY <2>2, <2>3
<1> QED BY <1>3, <1>4

-----------------------------------------------------------------------------
(* The save, and edits elsewhere. *)

\* What is said of a draft survives a note that arrives: a draft of its path is
\* marked as raced.
LEMMA DraftsAfter ==
    ASSUME FlowInv, NEW p \in Paths, vault' = [vault EXCEPT ![p] = TRUE],
           existed' = existed \cup {p}, NEW d, NEW e, DraftFits(d), e.path = d.path,
           e.raced = (d.raced \/ d.path = p)
    PROVE  DraftFits(e)'
<1>1. d.path # NoPath /\ d.path # p => vault'[d.path] = vault[d.path]
  BY DEF FlowInv
<1> QED BY <1>1 DEF DraftFits, Earned

\* A note arrives at p; every job says what it said, and its draft was raced if
\* it stands on p.
LEMMA NoteArrives ==
    ASSUME FlowInv, NEW p \in Paths, Arrives(p),
           job' \in [Handlers -> JobRecords],
           \A g \in Handlers :
              /\ job'[g].draft.path = job[g].draft.path
              /\ job'[g].draft.raced = (job[g].draft.raced \/ job[g].draft.path = p)
              /\ job'[g].base = job[g].base /\ job'[g].n = job[g].n
              /\ job'[g].card = job[g].card
              /\ \/ job'[g].at = job[g].at
                 \/ job'[g].at = "written",
           starts' = starts, edits' \in 0..MaxEdits
    PROVE  FlowInv'
<1> DEFINE Raced(d) == IF d.path = p THEN [d EXCEPT !.raced = TRUE] ELSE d
<1>1. /\ vault' = [vault EXCEPT ![p] = TRUE] /\ existed' = existed \cup {p}
      /\ cards' = [c \in DOMAIN cards |-> [cards[c] EXCEPT !.draft = Raced(@)]]
      /\ pending' = [pending EXCEPT !.draft = Raced(@)]
  BY DEF Arrives
<1>2. ASSUME NEW d \in Drafts
      PROVE  /\ Raced(d) \in Drafts /\ Raced(d).path = d.path
             /\ Raced(d).raced = (d.raced \/ d.path = p)
  <2>1. CASE d.path = p
    BY <2>1 DEF Drafts
  <2>2. CASE d.path # p
    <3>1. d.raced \in BOOLEAN
      BY DEF Drafts
    <3> QED BY <2>2, <3>1
  <2> QED BY <2>1, <2>2
<1> HIDE DEF Raced
<1>3. ASSUME NEW d \in Drafts, DraftFits(d) PROVE DraftFits(Raced(d))'
  <2> DEFINE e == Raced(d)
  <2>1. e.path = d.path /\ e.raced = (d.raced \/ d.path = p)
    BY <1>2
  <2> HIDE DEF e
  <2>2. DraftFits(e)'
    BY <1>1, <1>3, <2>1, DraftsAfter
  <2> QED BY <2>2 DEF e
<1>4. DOMAIN cards' = DOMAIN cards
  BY <1>1
<1>5. ASSUME NEW c \in DOMAIN cards
      PROVE  /\ cards'[c] \in CardRecords /\ cards'[c].draft = Raced(cards[c].draft)
             /\ cards'[c].live = cards[c].live
  <2>1. cards[c] \in CardRecords /\ cards[c].draft \in Drafts
    BY Types
  <2>2. Raced(cards[c].draft) \in Drafts
    BY <1>2, <2>1
  <2>3. cards'[c] = [cards[c] EXCEPT !.draft = Raced(cards[c].draft)]
    BY <1>1
  <2> QED BY <2>1, <2>2, <2>3 DEF CardRecords
<1>6. cards' \in Seq(CardRecords)
  <2>1. Len(cards) \in Nat /\ DOMAIN cards = 1..Len(cards)
    BY Types
  <2>2. cards' \in [1..Len(cards) -> CardRecords]
    BY <1>1, <1>5, <2>1
  <2> QED BY <2>1, <2>2, SeqDef
<1>7. (\A c \in DOMAIN cards : DraftFits(cards[c].draft))'
  <2> SUFFICES ASSUME NEW c \in DOMAIN cards PROVE DraftFits(cards[c].draft)'
    BY <1>4
  <2>1. DraftFits(cards[c].draft) /\ cards[c].draft \in Drafts
    BY Types DEF FlowInv
  <2>2. PICK d \in Drafts : d = cards[c].draft
    BY <2>1
  <2>3. DraftFits(Raced(d))'
    BY <1>3, <2>1, <2>2
  <2>4. cards'[c].draft = Raced(d)
    BY <1>5, <2>2
  <2> QED BY <2>3, <2>4 DEF DraftFits, Earned
<1>8. pending' \in Pendings /\ DraftFits(pending.draft)'
  <2>1. pending \in Pendings /\ pending.draft \in Drafts /\ DraftFits(pending.draft)
    BY Types
  <2>2. Raced(pending.draft) \in Drafts
    BY <1>2, <2>1
  <2>3. pending' = [pending EXCEPT !.draft = Raced(pending.draft)]
    BY <1>1
  <2>4. pending' \in Pendings /\ pending'.draft = Raced(pending.draft)
    BY <2>1, <2>2, <2>3 DEF Pendings
  <2>5. PICK d \in Drafts : d = pending.draft
    BY <2>1
  <2>6. DraftFits(Raced(d))'
    BY <1>3, <2>1, <2>5
  <2>7. pending'.draft = Raced(d)
    BY <2>4, <2>5
  <2> QED BY <2>4, <2>6, <2>7 DEF DraftFits, Earned
<1>9. (\A g \in Handlers : JobFits(job[g]))'
  <2> SUFFICES ASSUME NEW g \in Handlers PROVE JobFits(job[g])'
    OBVIOUS
  <2>1. JobFits(job[g])
    BY Types
  <2>2. DraftFits(job[g].draft)'
    <3> DEFINE e == job'[g].draft
    <3>1. e.path = job[g].draft.path /\ e.raced = (job[g].draft.raced \/ job[g].draft.path = p)
      OBVIOUS
    <3>2. DraftFits(job[g].draft)
      BY <2>1 DEF JobFits
    <3>3. \A k : k \in existed => k \in existed'
      BY <1>1
    <3>4. e.path # NoPath /\ e.path # p => vault'[e.path] = vault[e.path]
      BY <1>1 DEF FlowInv
    <3> QED BY <3>1, <3>2, <3>3, <3>4 DEF DraftFits, Earned
  <2>3. (job[g].at \in {"resolving", "naming"} => Earned(job[g].base, job[g].n))'
    BY <1>1, <2>1 DEF JobFits, Earned
  <2>4. (/\ job[g].card # NoCard => job[g].card \in DOMAIN cards
         /\ job[g].at = "saving" => job[g].draft.path \in Paths)'
    BY <1>4, <2>1 DEF JobFits
  <2> QED BY <2>2, <2>3, <2>4 DEF JobFits
<1>10. /\ (vault \in [Paths -> BOOLEAN])' /\ existed' \subseteq Paths
       /\ \A q \in Paths : vault'[q] => q \in existed'
  BY <1>1 DEF FlowInv
<1> QED BY <1>4, <1>6, <1>7, <1>8, <1>9, <1>10 DEF FlowInv

\* What JobsAfter makes of one job.
JobAfter(x, p, at) == [x EXCEPT !.at = at, !.draft.raced = @ \/ x.draft.path = p]

\* A job when a note has come to be at p: marked if its draft is bound there.
LEMMA JobsAfterwards ==
    ASSUME NEW x \in JobRecords, NEW p,
           NEW at \in {"idle", "resolving", "naming", "saving", "written"}
    PROVE  /\ JobAfter(x, p, at) \in JobRecords
           /\ JobAfter(x, p, at).at = at
           /\ JobAfter(x, p, at).draft.path = x.draft.path
           /\ JobAfter(x, p, at).draft.raced = (x.draft.raced \/ x.draft.path = p)
           /\ JobAfter(x, p, at).base = x.base
           /\ JobAfter(x, p, at).n = x.n /\ JobAfter(x, p, at).card = x.card
<1> DEFINE d == [x.draft EXCEPT !.raced = x.draft.raced \/ x.draft.path = p]
<1>1. x.draft \in Drafts /\ x.draft.raced \in BOOLEAN
  BY DEF JobRecords, Drafts
<1>2. d \in Drafts /\ d.path = x.draft.path /\ d.raced = (x.draft.raced \/ x.draft.path = p)
  BY <1>1 DEF Drafts
<1>3. JobAfter(x, p, at) = [x EXCEPT !.at = at, !.draft = d]
  BY DEF JobAfter
<1> HIDE DEF d
<1> QED BY <1>2, <1>3 DEF JobRecords

\* The steps of a save keep the invariant.
LEMMA Saves ==
    ASSUME FlowInv, NEW h \in Handlers
    PROVE  /\ ServerCreates(h) => FlowInv'
           /\ SaveReturns(h) => FlowInv'
           /\ SaveFails(h) => FlowInv'
<1>1. job[h] \in JobRecords /\ JobFits(job[h])
  BY Types
<1>2. ASSUME ServerCreates(h) PROVE FlowInv'
  <2> DEFINE p == job[h].draft.path
  <2>1. /\ job[h].at = "saving" /\ Arrives(p) /\ job' = JobsAfter(p, h, "written")
        /\ UNCHANGED <<starts, edits>>
    BY <1>2 DEF ServerCreates
  <2>2. p \in Paths
    BY <1>1, <2>1 DEF JobFits
  <2>3. ASSUME NEW g \in Handlers
        PROVE  /\ job'[g] \in JobRecords
               /\ job'[g].at = (IF g = h THEN "written" ELSE job[g].at)
               /\ job'[g].draft.path = job[g].draft.path
               /\ job'[g].draft.raced = (job[g].draft.raced \/ job[g].draft.path = p)
               /\ job'[g].base = job[g].base /\ job'[g].n = job[g].n
               /\ job'[g].card = job[g].card
    <3> DEFINE at == IF g = h THEN "written" ELSE job[g].at
    <3>1. job[g] \in JobRecords /\ at \in {"idle", "resolving", "naming", "saving", "written"}
      BY Types DEF JobRecords
    <3> HIDE DEF p
    <3>2. job'[g] = JobAfter(job[g], p, at)
      BY <2>1 DEF JobsAfter, JobAfter
    <3> HIDE DEF at
    <3> QED BY <3>1, <3>2, JobsAfterwards DEF at
  <2> HIDE DEF p
  <2>4. job' \in [Handlers -> JobRecords]
    BY <2>1, <2>3 DEF JobsAfter
  <2>5. edits' \in 0..MaxEdits
    BY <2>1 DEF FlowInv
  <2> QED BY <2>1, <2>2, <2>3, <2>4, <2>5, NoteArrives
<1>3. ASSUME SaveReturns(h) PROVE FlowInv'
  <2>1. /\ job[h].at = "written" /\ job' = [job EXCEPT ![h] = IdleJob]
        /\ UNCHANGED <<vault, pending, starts, edits, existed>>
    BY <1>3 DEF SaveReturns
  <2>2. job' \in [Handlers -> JobRecords] /\ \A g \in Handlers : JobFits(job'[g])
    BY <2>1, BasicRecords, NothingToFit DEF FlowInv
  <2>3. CASE job[h].card = NoCard
    <3>1. cards' = cards
      BY <1>3, <2>3 DEF SaveReturns
    <3> QED BY <2>1, <2>2, <3>1 DEF FlowInv, JobFits, DraftFits, Earned
  <2>4. CASE job[h].card # NoCard
    <3> DEFINE c == job[h].card
               k == Closed(cards[c], cards[c].saves + 1)
    <3>1. c \in DOMAIN cards
      BY <1>1, <2>4 DEF JobFits
    <3>2. k \in CardRecords /\ k.draft = cards[c].draft
      <4>1. cards[c] \in CardRecords /\ cards[c].saves + 1 \in Nat
        BY <3>1, Types DEF CardRecords
      <4> HIDE DEF c
      <4> QED BY <4>1, ClosedCards
    <3>3. cards' = [cards EXCEPT ![c] = k]
      BY <1>3, <2>4, <3>1, AnsweredCard
    <3> HIDE DEF c, k
    <3>4. /\ cards' \in Seq(CardRecords) /\ DOMAIN cards' = DOMAIN cards
          /\ \A b \in DOMAIN cards : cards'[b].draft = cards[b].draft
      BY <3>1, <3>2, <3>3, CardChanges
    <3>5. (\A g \in Handlers : JobFits(job[g]))'
      BY <2>1, <2>2, <3>4 DEF JobFits, DraftFits, Earned
    <3> QED BY <2>1, <2>2, <3>4, <3>5 DEF FlowInv, DraftFits, Earned
  <2> QED BY <2>3, <2>4
<1>4. ASSUME SaveFails(h) PROVE FlowInv'
  BY <1>4, Types, BasicRecords, NothingToFit, HandlerMoves DEF SaveFails
<1> QED BY <1>2, <1>3, <1>4

\* Others create and delete notes only where a note can be.
LEMMA WatchedPaths ==
    ASSUME FlowInv
    PROVE  Watched \subseteq Paths
<1>1. ASSUME NEW h \in Handlers PROVE Candidate(h) \in Paths
  <2>1. job[h].base \in Bases /\ job[h].n \in 1..MaxSuffix
    BY Types DEF JobRecords
  <2> QED BY <2>1 DEF Candidate, Paths
<1>2. ASSUME NEW d \in HeldDrafts PROVE d \in Drafts
  <2>1. \A h \in Handlers : job[h].draft \in Drafts
    BY Types DEF JobRecords
  <2> QED BY <2>1, Types DEF HeldDrafts
<1>3. \A d \in Drafts : d.path \in Paths \cup {NoPath}
  BY DEF Drafts
<1> QED BY <1>1, <1>2, <1>3 DEF Watched

\* What others do to the vault keeps the invariant.
LEMMA Elsewhere ==
    ASSUME FlowInv, NEW p \in Watched, EditElsewhere(p)
    PROVE  FlowInv'
<1>1. p \in Paths
  BY WatchedPaths
<1>2. edits' \in 0..MaxEdits /\ UNCHANGED starts
  BY Types DEF EditElsewhere
<1>3. CASE vault[p]
  <2>1. vault' = [vault EXCEPT ![p] = FALSE] /\ UNCHANGED <<cards, job, pending, existed>>
    BY <1>3 DEF EditElsewhere
  <2>2. \A q : vault'[q] /\ q \in Paths => vault[q]
    BY <2>1 DEF FlowInv
  <2>3. ASSUME NEW d \in Drafts, DraftFits(d) PROVE DraftFits(d)'
    <3>1. d.path # NoPath => d.path \in Paths
      BY DEF Drafts
    <3> QED BY <2>1, <2>2, <2>3, <3>1 DEF DraftFits, Earned
  <2>4. (\A c \in DOMAIN cards : DraftFits(cards[c].draft))'
    <3>1. \A c \in DOMAIN cards : cards[c].draft \in Drafts /\ DraftFits(cards[c].draft)
      BY Types DEF FlowInv
    <3> QED BY <2>1, <2>3, <3>1
  <2>5. DraftFits(pending.draft)'
    BY <2>1, <2>3, Types
  <2>6. (\A h \in Handlers : JobFits(job[h]))'
    <3>1. \A h \in Handlers : job[h].draft \in Drafts /\ JobFits(job[h])
      BY Types DEF JobRecords
    <3> QED BY <1>2, <2>1, <2>3, <3>1 DEF JobFits, Earned
  <2> QED BY <1>2, <2>1, <2>2, <2>4, <2>5, <2>6 DEF FlowInv
<1>4. CASE ~vault[p]
  <2>1. Arrives(p) /\ job' = [h \in Handlers |-> JobsAfter(p, h, job[h].at)[h]]
    BY <1>4 DEF EditElsewhere
  <2>2. ASSUME NEW g \in Handlers
        PROVE  /\ job'[g] \in JobRecords /\ job'[g].at = job[g].at
               /\ job'[g].draft.path = job[g].draft.path
               /\ job'[g].draft.raced = (job[g].draft.raced \/ job[g].draft.path = p)
               /\ job'[g].base = job[g].base /\ job'[g].n = job[g].n
               /\ job'[g].card = job[g].card
    <3>1. /\ job[g] \in JobRecords
          /\ job[g].at \in {"idle", "resolving", "naming", "saving", "written"}
      BY Types DEF JobRecords
    <3>2. job'[g] = JobAfter(job[g], p, job[g].at)
      BY <2>1 DEF JobsAfter, JobAfter
    <3> QED BY <3>1, <3>2, JobsAfterwards
  <2>3. job' \in [Handlers -> JobRecords]
    BY <2>1, <2>2
  <2> QED BY <1>1, <1>2, <2>1, <2>2, <2>3, NoteArrives
<1> QED BY <1>3, <1>4

-----------------------------------------------------------------------------
(* The invariant, and what it says. *)

\* Every step keeps the invariant.
LEMMA FlowStep ==
    ASSUME FlowInv, [Next]_vars
    PROVE  FlowInv'
<1>1. ASSUME UNCHANGED vars PROVE FlowInv'
  BY <1>1 DEF vars, FlowInv, JobFits, DraftFits, Earned
<1>2. ASSUME NEW h \in Handlers, FindTaken(h) \/ FindFree(h) PROVE FlowInv'
  BY <1>2, Looks
<1>3. ASSUME NEW h \in Handlers,
             \/ \E t \in Titles, g \in Targets \cup {NoTarget} : Capture(h, t, g)
             \/ \E g \in Targets : NewCommand(h, g) \/ SendPath(h, g)
             \/ \E t \in Titles : SendTitle(h, t)
      PROVE  FlowInv'
  BY <1>3, Captures, Messages
<1>4. ASSUME NEW h \in Handlers, NEW c \in DOMAIN cards,
             \/ TapSave(h, c)
             \/ \E f \in Folders : TapPick(h, c, f)
             \/ \E t \in Titles : TapRegen(h, c, t)
      PROVE  FlowInv'
  BY <1>4, Taps
<1>5. ASSUME NEW h \in Handlers, ServerCreates(h) \/ SaveReturns(h) \/ SaveFails(h)
      PROVE  FlowInv'
  BY <1>5, Saves
<1>6. ASSUME NEW c \in DOMAIN cards, NEW k \in {"title", "path"}, TapEdit(c, k)
      PROVE  FlowInv'
  BY <1>6, Questions
<1>7. ASSUME NEW c \in DOMAIN cards, TapCancel(c) PROVE FlowInv'
  BY <1>7, Cancels
<1>8. ASSUME NEW p \in Watched, EditElsewhere(p) PROVE FlowInv'
  BY <1>8, Elsewhere
<1> QED BY <1>1, <1>2, <1>3, <1>4, <1>5, <1>6, <1>7, <1>8 DEF Next

\* The invariant holds in every behaviour.
LEMMA FlowInvariant == Spec => []FlowInv
<1>1. Init => FlowInv
  <2> SUFFICES ASSUME Init PROVE FlowInv
    OBVIOUS
  <2>1. /\ vault = [p \in Paths |-> FALSE] /\ cards = <<>>
        /\ job = [h \in Handlers |-> IdleJob] /\ pending = NoPending
        /\ starts = 0 /\ edits = 0 /\ existed = {}
    BY DEF Init
  <2>2. cards \in Seq(CardRecords) /\ DOMAIN cards = {}
    BY <2>1
  <2>3. job \in [Handlers -> JobRecords] /\ \A h \in Handlers : JobFits(job[h])
    BY <2>1, BasicRecords, NothingToFit
  <2>4. starts \in 0..MaxStarts /\ edits \in 0..MaxEdits
    BY <2>1, CaptureAssumption
  <2>5. pending \in Pendings /\ DraftFits(pending.draft)
    BY <2>1, BasicRecords, NothingToFit
  <2> QED BY <2>1, <2>2, <2>3, <2>4, <2>5 DEF FlowInv
<1>2. FlowInv /\ [Next]_vars => FlowInv'
  BY FlowStep
<1> QED BY <1>1, <1>2, PTL DEF Spec

\* A draft that is held is a draft, and says of its path what it should.
LEMMA HeldDraftsFit ==
    ASSUME FlowInv, NEW d \in HeldDrafts
    PROVE  d \in Drafts /\ DraftFits(d)
<1>1. \A c \in DOMAIN cards : cards[c].draft \in Drafts /\ DraftFits(cards[c].draft)
  BY Types DEF FlowInv
<1>2. \A h \in Handlers : job[h].draft \in Drafts /\ DraftFits(job[h].draft)
  BY Types DEF JobRecords, JobFits
<1>3. pending.draft \in Drafts /\ DraftFits(pending.draft)
  BY Types
<1> QED BY <1>1, <1>2, <1>3 DEF HeldDrafts

\* capture.py:16-18 and 155-173: wherever a draft waits, and whatever was edited
\* on it since, the path it holds is taken only if the note came to exist after
\* the path was found free.
THEOREM OnlyLatecomersAreEverOverwritten == Spec => []OnlyLatecomersAreOverwritten
<1>1. FlowInv => OnlyLatecomersAreOverwritten
  BY HeldDraftsFit DEF OnlyLatecomersAreOverwritten, DraftFits
<1> QED BY <1>1, FlowInvariant, PTL

\* capture.py:167-170: a note is only called "x-3" when "x" and "x-2" were both
\* taken at some time; with the module's type invariant.
THEOREM SuffixesAreAlwaysEarned == Spec => []SuffixesAreEarned
<1>1. ASSUME FlowInv PROVE TypeOK
  <2>1. job \in [Handlers -> [at : {"idle", "resolving", "naming", "saving", "written"},
                              draft : Drafts, base : Bases, n : 1..MaxSuffix,
                              card : DOMAIN cards \cup {NoCard}]]
    <3>1. job \in [Handlers -> JobRecords] /\ \A h \in Handlers : JobFits(job[h])
      BY <1>1 DEF FlowInv
    <3> QED BY <3>1 DEF JobRecords, JobFits
  <2> QED BY <1>1, <2>1 DEF FlowInv, TypeOK, CardRecords, Pendings
<1>2. FlowInv => SuffixesAreEarned
  BY <1>1, HeldDraftsFit DEF SuffixesAreEarned, DraftFits, Earned
<1> QED BY <1>2, FlowInvariant, PTL

-----------------------------------------------------------------------------
(* The saves of a card. *)

\* What the count needs: nobody begins to save a card that was answered.
CountInv == /\ \A c \in DOMAIN cards : cards[c].saves > 0 => ~cards[c].live
            /\ RepeatedSavesOverlapped

\* The saves of a card under way are finitely many, and no more than the handlers.
LEMMA UnderWay ==
    ASSUME NEW c
    PROVE  /\ IsFiniteSet(SavesUnderWay(c))
           /\ Cardinality(SavesUnderWay(c)) \in Nat
           /\ Cardinality(SavesUnderWay(c)) <= Cardinality(Handlers)
           /\ Cardinality(Handlers) \in Nat
<1>1. SavesUnderWay(c) \subseteq Handlers
  BY DEF SavesUnderWay
<1>2. IsFiniteSet(Handlers) /\ Cardinality(Handlers) \in Nat
  BY CaptureAssumption, FS_CardinalityType
<1>3. /\ IsFiniteSet(SavesUnderWay(c))
      /\ Cardinality(SavesUnderWay(c)) <= Cardinality(Handlers)
  BY <1>1, <1>2, FS_Subset
<1> QED BY <1>2, <1>3, FS_CardinalityType

\* So are they in the next state.
LEMMA UnderWayNext ==
    ASSUME NEW c
    PROVE  /\ IsFiniteSet(SavesUnderWay(c)')
           /\ Cardinality(SavesUnderWay(c)') \in Nat
           /\ Cardinality(SavesUnderWay(c)') <= Cardinality(Handlers)
<1>1. SavesUnderWay(c)' \subseteq Handlers
  BY DEF SavesUnderWay
<1>2. IsFiniteSet(Handlers) /\ Cardinality(Handlers) \in Nat
  BY CaptureAssumption, FS_CardinalityType
<1>3. /\ IsFiniteSet(SavesUnderWay(c)')
      /\ Cardinality(SavesUnderWay(c)') <= Cardinality(Handlers)
  BY <1>1, <1>2, FS_Subset
<1> QED BY <1>3, FS_CardinalityType

\* A step that begins no save of a card, answers none and revives none keeps the
\* count; a card that goes out has not been saved.
LEMMA CountsStay ==
    ASSUME FlowInv, FlowInv', CountInv,
           \A c \in DOMAIN cards :
               /\ cards'[c].saves = cards[c].saves
               /\ cards'[c].live => cards[c].live,
           \A c \in DOMAIN cards' : c \in DOMAIN cards \/ cards'[c].saves = 0,
           \A g \in Handlers : job'[g].card \in {job[g].card, NoCard}
    PROVE  CountInv'
<1> SUFFICES ASSUME NEW c \in DOMAIN cards'
             PROVE  /\ cards'[c].saves > 0 => ~cards'[c].live
                    /\ cards'[c].saves + Cardinality(SavesUnderWay(c)') <= Cardinality(Handlers)
  BY DEF CountInv, RepeatedSavesOverlapped
<1>1. CASE c \in DOMAIN cards
  <2>1. c \in Nat /\ c # NoCard /\ cards[c].saves \in Nat
    BY <1>1, Types, CaptureAssumption DEF CardRecords
  <2>2. SavesUnderWay(c)' \subseteq SavesUnderWay(c)
    BY <2>1 DEF SavesUnderWay
  <2>3. Cardinality(SavesUnderWay(c)') <= Cardinality(SavesUnderWay(c))
    BY <2>2, UnderWay, FS_Subset
  <2>4. cards[c].saves + Cardinality(SavesUnderWay(c)) <= Cardinality(Handlers)
    BY <1>1 DEF CountInv, RepeatedSavesOverlapped
  <2>5. cards'[c].saves > 0 => ~cards'[c].live
    BY <1>1 DEF CountInv
  <2> QED BY <1>1, <2>1, <2>3, <2>4, <2>5, UnderWay, UnderWayNext
<1>2. CASE c \notin DOMAIN cards
  <2>1. cards'[c].saves = 0
    BY <1>2
  <2> QED BY <2>1, UnderWayNext
<1> QED BY <1>1, <1>2

\* A card that goes out leaves the others as they were.
LEMMA CardsOut ==
    ASSUME FlowInv, NEW d, NEW picks, cards' = Append(cards, Card(d, picks))
    PROVE  /\ \A c \in DOMAIN cards : cards'[c] = cards[c]
           /\ \A c \in DOMAIN cards' : c \in DOMAIN cards \/ cards'[c].saves = 0
<1>1. cards \in Seq(CardRecords) /\ Len(cards) \in Nat /\ DOMAIN cards = 1..Len(cards)
  BY Types DEF FlowInv
<1> DEFINE k == Card(d, picks)
<1>2. k.saves = 0
  BY DEF Card
<1> HIDE DEF k
<1>3. cards' = Append(cards, k)
  BY DEF k
<1>4. /\ DOMAIN cards' = 1..(Len(cards) + 1) /\ cards'[Len(cards) + 1] = k
      /\ \A c \in 1..Len(cards) : cards'[c] = cards[c]
  BY <1>1, <1>3
<1> QED BY <1>1, <1>2, <1>4

\* A handler that ends, or goes on to something else than a card, does not save it.
LEMMA OtherJobs ==
    ASSUME FlowInv, NEW h \in Handlers, NEW x, x.card = NoCard,
           job' = [job EXCEPT ![h] = x] \/ job' = job
    PROVE  \A g \in Handlers : job'[g].card \in {job[g].card, NoCard}
BY DEF FlowInv

\* No job of resolve() is about a card.
LEMMA ResolvingNoCard ==
    /\ IdleJob.card = NoCard
    /\ \A d, base : /\ Resolving(d, base).card = NoCard
                    /\ [Resolving(d, base) EXCEPT !.at = "naming"].card = NoCard
BY DEF IdleJob, Resolving

\* A note that arrives leaves the keyboards and the counts alone.
LEMMA ArrivalCounts ==
    ASSUME FlowInv, NEW p, Arrives(p)
    PROVE  /\ DOMAIN cards' = DOMAIN cards
           /\ \A c \in DOMAIN cards : /\ cards'[c].saves = cards[c].saves
                                      /\ cards'[c].live = cards[c].live
<1> DEFINE Raced(d) == IF d.path = p THEN [d EXCEPT !.raced = TRUE] ELSE d
<1>1. cards' = [c \in DOMAIN cards |-> [cards[c] EXCEPT !.draft = Raced(@)]]
  BY DEF Arrives
<1> HIDE DEF Raced
<1>2. ASSUME NEW c \in DOMAIN cards
      PROVE  cards'[c].saves = cards[c].saves /\ cards'[c].live = cards[c].live
  BY <1>1, Types DEF CardRecords
<1> QED BY <1>1, <1>2

\* A tap on Save begins to save a card that was never answered.
LEMMA SavesBegin ==
    ASSUME FlowInv, CountInv, NEW h \in Handlers, NEW c \in DOMAIN cards, TapSave(h, c)
    PROVE  CountInv'
<1>1. cards' = cards /\ cards[c].live /\ cards[c].saves \in Nat
  BY Types DEF TapSave, Live, CardRecords
<1>2. cards[c].saves = 0
  BY <1>1 DEF CountInv
<1>3. \A g \in Handlers \ {h} : job'[g] = job[g]
  BY DEF TapSave
<1>4. job'[h].card = c
  BY DEF TapSave, FlowInv, IdleJob
<1> SUFFICES ASSUME NEW b \in DOMAIN cards
             PROVE  cards[b].saves + Cardinality(SavesUnderWay(b)') <= Cardinality(Handlers)
  BY <1>1 DEF CountInv, RepeatedSavesOverlapped
<1>5. CASE b = c
  BY <1>2, <1>5, UnderWayNext
<1>6. CASE b # c
  <2>1. SavesUnderWay(b)' \subseteq SavesUnderWay(b)
    BY <1>3, <1>4, <1>6 DEF SavesUnderWay
  <2>2. Cardinality(SavesUnderWay(b)') <= Cardinality(SavesUnderWay(b))
    BY <2>1, UnderWay, FS_Subset
  <2>3. cards[b].saves + Cardinality(SavesUnderWay(b)) <= Cardinality(Handlers)
    BY DEF CountInv, RepeatedSavesOverlapped
  <2>4. cards[b].saves \in Nat
    BY Types DEF CardRecords
  <2> QED BY <2>2, <2>3, <2>4, UnderWay, UnderWayNext
<1> QED BY <1>5, <1>6

\* An answered save is no longer under way: the sum stays.
LEMMA SavesEnd ==
    ASSUME FlowInv, FlowInv', CountInv, NEW h \in Handlers, SaveReturns(h)
    PROVE  CountInv'
<1>1. job' = [job EXCEPT ![h] = IdleJob] /\ job[h] \in JobRecords /\ JobFits(job[h])
  BY Types DEF SaveReturns
<1>2. \A g \in Handlers : job'[g] = IF g = h THEN IdleJob ELSE job[g]
  BY <1>1 DEF FlowInv
<1>3. CASE job[h].card = NoCard
  <2>1. cards' = cards
    BY <1>3 DEF SaveReturns
  <2> QED BY <1>1, <2>1, OtherJobs, ResolvingNoCard, CountsStay
<1>4. CASE job[h].card # NoCard
  <2>0. PICK c \in DOMAIN cards : c = job[h].card
    BY <1>1, <1>4 DEF JobFits
  <2> DEFINE k == Closed(cards[c], cards[c].saves + 1)
  <2>1. /\ c # NoCard /\ c \in Nat /\ cards[c] \in CardRecords
        /\ cards[c].saves \in Nat /\ cards[c].saves + 1 \in Nat
    BY <1>4, <2>0, Types DEF CardRecords
  <2>2. ~k.live /\ k.saves = cards[c].saves + 1
    BY <2>1, ClosedCards
  <2>3. cards' = [cards EXCEPT ![c] = k]
    BY <2>0, <2>1, AnsweredCard
  <2>4. h \in SavesUnderWay(c) /\ SavesUnderWay(c)' = SavesUnderWay(c) \ {h}
    BY <1>2, <2>0, <2>1, ResolvingNoCard DEF SavesUnderWay
  <2>5. Cardinality(SavesUnderWay(c)') = Cardinality(SavesUnderWay(c)) - 1
    BY <2>4, UnderWay, FS_RemoveElement
  <2> HIDE DEF k
  <2>6. /\ DOMAIN cards' = DOMAIN cards
        /\ \A b \in DOMAIN cards : cards'[b] = IF b = c THEN k ELSE cards[b]
    BY <2>3
  <2> SUFFICES ASSUME NEW b \in DOMAIN cards
               PROVE  /\ cards'[b].saves > 0 => ~cards'[b].live
                      /\ cards'[b].saves + Cardinality(SavesUnderWay(b)') <= Cardinality(Handlers)
    BY <2>6 DEF CountInv, RepeatedSavesOverlapped
  <2>7. cards[b].saves + Cardinality(SavesUnderWay(b)) <= Cardinality(Handlers)
    BY DEF CountInv, RepeatedSavesOverlapped
  <2>8. CASE b = c
    <3>1. /\ cards'[c] = k /\ cards[c].saves + Cardinality(SavesUnderWay(c)) <= Cardinality(Handlers)
          /\ Cardinality(SavesUnderWay(c)) \in Nat /\ Cardinality(Handlers) \in Nat
      BY <2>6, <2>7, <2>8, UnderWay
    <3> QED BY <2>1, <2>2, <2>5, <2>8, <3>1
  <2>9. CASE b # c
    <3>1. cards'[b] = cards[b] /\ cards[b].saves \in Nat /\ b \in Nat
      BY <2>6, <2>9, Types DEF CardRecords
    <3>2. SavesUnderWay(b)' \subseteq SavesUnderWay(b)
      BY <1>2, <3>1, ResolvingNoCard, CaptureAssumption DEF SavesUnderWay
    <3>3. Cardinality(SavesUnderWay(b)') <= Cardinality(SavesUnderWay(b))
      BY <3>2, UnderWay, FS_Subset
    <3> QED BY <2>7, <3>1, <3>3, UnderWay, UnderWayNext DEF CountInv
  <2> QED BY <2>8, <2>9
<1> QED BY <1>3, <1>4

\* Every step keeps the count.
LEMMA CountStep ==
    ASSUME FlowInv, FlowInv', CountInv, [Next]_vars
    PROVE  CountInv'
<1>1. ASSUME UNCHANGED <<cards, job>> PROVE CountInv'
  BY <1>1, CountsStay
<1>2. ASSUME NEW h \in Handlers, FindTaken(h) \/ FindFree(h) PROVE CountInv'
  <2>1. CASE FindTaken(h)
    <3>1. job'[h].card \in {job[h].card, NoCard}
      BY <2>1, Types, ResolvingNoCard DEF FindTaken, FlowInv, JobRecords
    <3>2. /\ cards' = cards
          /\ \A g \in Handlers : job'[g].card \in {job[g].card, NoCard}
      BY <2>1, <3>1 DEF FindTaken
    <3> QED BY <3>2, CountsStay
  <2>2. CASE FindFree(h)
    <3>1. \/ cards' = cards
          \/ \E d : cards' = Append(cards, Card(d, FALSE))
      BY <2>2 DEF FindFree
    <3>2. job'[h].card \in {job[h].card, NoCard}
      <4>1. CASE job[h].at = "naming"
        <5>1. \E d : job' = [job EXCEPT ![h] = [job[h] EXCEPT !.at = "saving", !.draft = d]]
          BY <2>2, <4>1 DEF FindFree
        <5> QED BY <5>1, Types DEF FlowInv, JobRecords
      <4>2. CASE job[h].at # "naming"
        BY <2>2, <4>2, ResolvingNoCard DEF FindFree, FlowInv
      <4> QED BY <4>1, <4>2
    <3>3. \A g \in Handlers : job'[g].card \in {job[g].card, NoCard}
      BY <2>2, <3>2 DEF FindFree, FlowInv
    <3> QED BY <3>1, <3>3, CardsOut, CountsStay
  <2> QED BY <1>2, <2>1, <2>2
<1>3. ASSUME NEW h \in Handlers,
             \/ \E t \in Titles, g \in Targets \cup {NoTarget} : Capture(h, t, g)
             \/ \E g \in Targets : NewCommand(h, g) \/ SendPath(h, g)
             \/ \E t \in Titles : SendTitle(h, t)
      PROVE  CountInv'
  <2>1. \/ cards' = cards
        \/ \E d, picks : cards' = Append(cards, Card(d, picks))
    BY <1>3 DEF Capture, NewCommand, SendPath, SendTitle
  <2>2. \/ job' = job
        \/ \E d, base : \/ job' = [job EXCEPT ![h] = Resolving(d, base)]
                        \/ job' = [job EXCEPT ![h] = [Resolving(d, base) EXCEPT !.at = "naming"]]
    BY <1>3 DEF Capture, NewCommand, SendPath, SendTitle
  <2>3. job' = job \/ \E x : x.card = NoCard /\ job' = [job EXCEPT ![h] = x]
    <3>1. ASSUME NEW d, NEW base, job' = [job EXCEPT ![h] = Resolving(d, base)]
          PROVE  \E x : x.card = NoCard /\ job' = [job EXCEPT ![h] = x]
      BY <3>1, ResolvingNoCard
    <3>2. ASSUME NEW d, NEW base,
                 job' = [job EXCEPT ![h] = [Resolving(d, base) EXCEPT !.at = "naming"]]
          PROVE  \E x : x.card = NoCard /\ job' = [job EXCEPT ![h] = x]
      BY <3>2, ResolvingNoCard
    <3> QED BY <2>2, <3>1, <3>2
  <2>4. \A g \in Handlers : job'[g].card \in {job[g].card, NoCard}
    BY <2>3, OtherJobs
  <2> QED BY <2>1, <2>4, CardsOut, CountsStay
<1>4. ASSUME NEW h \in Handlers, NEW c \in DOMAIN cards,
             \/ \E f \in Folders : TapPick(h, c, f)
             \/ \E t \in Titles : TapRegen(h, c, t)
      PROVE  CountInv'
  <2>1. \/ cards' = cards
        \/ \E d, picks : cards' = Append(cards, Card(d, picks))
    BY <1>4 DEF TapPick, TapRegen
  <2>2. job' = job \/ \E d, base : job' = [job EXCEPT ![h] = Resolving(d, base)]
    BY <1>4 DEF TapPick, TapRegen
  <2>3. \A g \in Handlers : job'[g].card \in {job[g].card, NoCard}
    BY <2>2, ResolvingNoCard, OtherJobs
  <2> QED BY <2>1, <2>3, CardsOut, CountsStay
<1>5. ASSUME NEW h \in Handlers, ServerCreates(h) PROVE CountInv'
  <2>1. \A g \in Handlers : job'[g].card = job[g].card
    BY <1>5, Types DEF ServerCreates, JobsAfter, JobRecords
  <2> QED BY <1>5, <2>1, ArrivalCounts, CountsStay DEF ServerCreates
<1>6. ASSUME NEW h \in Handlers, SaveFails(h) PROVE CountInv'
  BY <1>6, OtherJobs, ResolvingNoCard, CountsStay DEF SaveFails
<1>7. ASSUME NEW c \in DOMAIN cards, TapCancel(c) PROVE CountInv'
  <2> DEFINE k == Closed(cards[c], cards[c].saves)
  <2>1. ~k.live /\ k.saves = cards[c].saves
    BY Types, ClosedCards DEF CardRecords
  <2>2. cards' = [cards EXCEPT ![c] = k] /\ job' = job
    BY <1>7, CancelledCard DEF TapCancel
  <2> HIDE DEF k
  <2> QED BY <2>1, <2>2, CountsStay
<1>8. ASSUME NEW p \in Watched, EditElsewhere(p) PROVE CountInv'
  <2>1. ASSUME NEW g \in Handlers PROVE job'[g].card = job[g].card
    <3>1. CASE vault[p]
      BY <1>8, <3>1 DEF EditElsewhere
    <3>2. CASE ~vault[p]
      <4>1. job'[g] = JobAfter(job[g], p, job[g].at)
        BY <1>8, <3>2 DEF EditElsewhere, JobsAfter, JobAfter
      <4>2. job[g] \in JobRecords /\ job[g].at \in {"idle", "resolving", "naming", "saving", "written"}
        BY Types DEF JobRecords
      <4> QED BY <4>1, <4>2, JobsAfterwards
    <3> QED BY <3>1, <3>2
  <2>2. cards' = cards \/ Arrives(p)
    BY <1>8 DEF EditElsewhere
  <2> QED BY <2>1, <2>2, ArrivalCounts, CountsStay
<1>9. ASSUME NEW c \in DOMAIN cards, NEW k \in {"title", "path"}, TapEdit(c, k) PROVE CountInv'
  BY <1>1, <1>9 DEF TapEdit
<1> QED BY <1>1, <1>2, <1>3, <1>4, <1>5, <1>6, <1>7, <1>8, <1>9, SavesBegin, SavesEnd
        DEF Next, vars

\* create.py:555-556 and 582: however taps, cancels, edits and lost answers of a
\* card interleave, the saves of it that were answered and those under way are
\* together no more than the updates handled at once, for any number of handlers.
THEOREM RepeatedSavesAlwaysOverlapped == Spec => []RepeatedSavesOverlapped
<1>1. Init => CountInv
  BY DEF Init, CountInv, RepeatedSavesOverlapped
<1>2. FlowInv /\ FlowInv' /\ CountInv /\ [Next]_vars => CountInv'
  BY CountStep
<1>3. CountInv => RepeatedSavesOverlapped
  BY DEF CountInv
<1> QED BY <1>1, <1>2, <1>3, FlowInvariant, PTL DEF Spec
=============================================================================

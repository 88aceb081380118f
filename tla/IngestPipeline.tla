---------------------------- MODULE IngestPipeline ----------------------------
(* What a draft holds: bot/create.py and app/ingest.py from a photo, an album  *)
(* or a forward to the card and the note.  Where a draft goes, and what taps   *)
(* on its card race with, is CaptureFlow.                                      *)
(* Uploads and model calls are the steps of the one capture under way; a call  *)
(* of the router ends in an answer of some rung of its ladder, in LlmQuota-    *)
(* Exceeded, or in another LlmError.  A text is the set of its pieces: what    *)
(* the sender wrote, what a model made of the images, and links to files.      *)
EXTENDS AttemptLadder, FiniteSets

CONSTANTS
    SettingsSpace,  \* settings with, besides the ladder's, .transport and .provenance
    Captions,       \* the intents of the captions sent
    Files,          \* the images sent
    NoRung,
    MaxCaptures,    \* bound on the captures
    MaxTaps,        \* bound on the saves, drops and new titles of cards
    MaxRegenerated  \* bound on the regenerations

VARIABLES
    settings,
    job,      \* the capture or regeneration under way
    cards,    \* the drafts of the live cards
    media,    \* the files in the vault whose paths the bot was told
    notes,    \* what the notes saved from cards hold
    astray,   \* history: files of media dropped with a draft that knew them
    unheard,  \* history: files of which the vault has another copy, stored by an
              \* attempt that went unanswered: nobody knows its path
    captures, taps, regenerated

vars == <<settings, job, cards, media, notes, astray, unheard, captures, taps, regenerated>>

-----------------------------------------------------------------------------
\* CaptureIntent: any combination can be asked for; `words` is a caption that
\* is more than instructions.
Intents == [verbatim : BOOLEAN, title : BOOLEAN, tags : BOOLEAN, summary : BOOLEAN,
            words : BOOLEAN]

\* What a body holds besides links to files.
Texts == {"words", "raw", "tidied", "described"}

ASSUME IngestAssumption ==
    /\ Captions \subseteq Intents
    /\ Files \cap Texts = {}
    /\ \A s \in SettingsSpace, c \in Capabilities : NoRung \notin Attempts(s, c)

\* parse_caption("", has_image=False), what a forward is given
Plain == [verbatim |-> FALSE, title |-> TRUE, tags |-> TRUE, summary |-> FALSE, words |-> TRUE]

\* images, reader, answered, blank and again are history: the images sent, the
\* rung whose reading is in the body, the answers that read the images, titled
\* or tagged, the steps answered with nothing usable, and whether the draft was
\* regenerated.
Draft == [body |-> {}, title |-> "none", tags |-> FALSE, summary |-> FALSE, warnings |-> {},
          attachments |-> {}, stamp |-> NoRung, intent |-> Plain,
          images |-> {}, reader |-> NoRung, answered |-> {}, blank |-> {}, again |-> FALSE]

Worded(intent) ==
    [Draft EXCEPT !.intent = intent, !.body = IF intent.words THEN {"words"} ELSE {}]

Warned(d, step) == [d EXCEPT !.warnings = @ \cup {step}]

IsEmpty(d) == d.body = {} /\ d.title = "none" /\ d.attachments = {}

\* rung: the provider and model that will be stamped; told: upload_warning.
Idle == [at |-> "idle", kind |-> "none", draft |-> Draft, left |-> {}, rung |-> NoRung,
         told |-> FALSE]

Rungs(task) == Ladder(settings, task)
Available(task) == Rungs(task) # {}

Init ==
    /\ settings \in SettingsSpace
    /\ job = Idle
    /\ cards = {} /\ media = {} /\ notes = {} /\ astray = {} /\ unheard = {}
    /\ captures = 0 /\ taps = 0 /\ regenerated = 0

-----------------------------------------------------------------------------
(* Where the pipeline goes next. *)

Steps == {"title", "tags", "summary"}

\* What _enrich still has to do after a step.
After(step) == CASE step = "title" -> {"tags", "summary"}
                 [] step = "tags"  -> {"summary"}
                 [] OTHER          -> {}

TaskOf(step) == CASE step \in {"read", "describe"} -> "vision"
                  [] step = "title"                -> "title"
                  [] step = "summary"              -> "summarise"
                  [] OTHER                         -> "chat"

\* What was asked for and is missing.
Missing(d) ==
    {step \in Steps :
        CASE step = "title" -> d.intent.title /\ d.title = "none"
          [] step = "tags"  -> d.intent.tags /\ ~d.tags
          [] OTHER          -> d.intent.summary /\ ~d.summary}

\* _stamp
Stamped(d, rung) ==
    IF settings.provenance /\ rung # NoRung THEN [d EXCEPT !.stamp = rung] ELSE d

ReferencedWhenUnread(d) == IF d.body = {} THEN [d EXCEPT !.body = d.attachments] ELSE d

\* _reference_attachments
Referenced(d) == [d EXCEPT !.body = @ \cup d.attachments]

FinishedUntold(j, d, rung) ==
    LET stamped == Stamped(d, rung)
    IN [j EXCEPT !.at = "present", !.rung = rung,
                 !.draft = IF j.kind = "images" THEN Referenced(stamped) ELSE stamped]

\* The end of from_image, from_text and regenerate, and _build_draft_from_images'
\* own warning.
Finished(j, d, rung) ==
    LET stamped == Stamped(d, rung)
        whole   == IF j.kind = "images" THEN Referenced(stamped) ELSE stamped
    IN [j EXCEPT !.at = "present", !.rung = rung,
                 !.draft = IF j.told THEN Warned(whole, "upload") ELSE whole]

\* _enrich from `steps` on, up to its next call: without material nothing is
\* asked, and without a chat ladder everything open is warned of.  A title
\* without a body cannot be met here: both callers come without a title.
Enriched(j, d, rung, steps) ==
    LET open == Missing(d) \cap steps
        first == CHOOSE s \in open : open \ {s} \subseteq After(s)
    IN IF d.body = {} \/ open = {} THEN Finished(j, d, rung)
       ELSE IF ~Available("chat")
            THEN Finished(j, [d EXCEPT !.warnings = @ \cup open], rung)
            ELSE [j EXCEPT !.at = first, !.draft = d, !.rung = rung]

\* The uploads are over: the images are read if a vision ladder exists.
Reading(j) ==
    IF Available("vision") THEN [j EXCEPT !.at = "read", !.left = {}]
    ELSE Enriched([j EXCEPT !.left = {}], Warned(j.draft, "read"), NoRung, Steps)

-----------------------------------------------------------------------------
(* Messages. *)

\* attachment_message, an album having been gathered by AlbumBuffer
SendImages(images, intent) ==
    /\ job.at = "idle" /\ captures < MaxCaptures
    /\ images # {}
    /\ job' = [Idle EXCEPT !.at = "upload", !.kind = "images", !.left = images,
                           !.draft = [Worded(intent) EXCEPT !.images = images]]
    /\ captures' = captures + 1
    /\ UNCHANGED <<settings, cards, media, notes, astray, unheard, taps, regenerated>>

\* forwarded_message: the text and its attribution are the body.
Forward ==
    /\ job.at = "idle" /\ captures < MaxCaptures
    /\ job' = Enriched([Idle EXCEPT !.kind = "text"], Worded(Plain), NoRung, Steps)
    /\ captures' = captures + 1
    /\ UNCHANGED <<settings, cards, media, notes, astray, unheard, taps, regenerated>>

-----------------------------------------------------------------------------
(* _upload_all: one file after the other, and none after a failure.  An upload *)
(* is all the attempts of _request (rest.py:162-177), each of which may have    *)
(* stored a copy of its own before its answer was lost.                         *)

\* An attempt was answered; the ones before it may have stored the file too.
Stored(f) ==
    /\ job.at = "upload" /\ f \in job.left /\ settings.transport = "rest"
    /\ media' = media \cup {f}
    /\ unheard' \in {unheard, unheard \cup {f}}
    /\ LET j == [job EXCEPT !.left = @ \ {f}, !.draft.attachments = @ \cup {f}]
       IN job' = IF j.left = {} THEN Reading(j) ELSE j
    /\ UNCHANGED <<settings, cards, notes, astray, captures, taps, regenerated>>

\* Every attempt failed, though at least one had stored the file: the draft goes
\* on without it, and with the warning.
StoredUnheard(f) ==
    /\ job.at = "upload" /\ f \in job.left /\ settings.transport = "rest"
    /\ unheard' = unheard \cup {f}
    /\ job' = Reading([job EXCEPT !.told = TRUE])
    /\ UNCHANGED <<settings, cards, media, notes, astray, captures, taps, regenerated>>

\* A NoteStoreError, or Unsupported from a transport without uploads.
UploadRefused ==
    /\ job.at = "upload"
    /\ job' = Reading([job EXCEPT !.told = TRUE])
    /\ UNCHANGED <<settings, cards, media, notes, astray, unheard, captures, taps, regenerated>>

-----------------------------------------------------------------------------
(* Calls of the router. *)

Heard(d, step, rung) == [d EXCEPT !.answered = @ \cup {[step |-> step, rung |-> rung]}]

Continue(j) ==
    /\ job' = j
    /\ UNCHANGED <<settings, cards, media, notes, astray, unheard, captures, taps, regenerated>>

\* _read_images: a transcription, which is tidied unless it is asked for as it is.
ReadText(rung) ==
    /\ job.at = "read" /\ rung \in Rungs("vision")
    /\ LET d == [Heard(job.draft, "read", rung) EXCEPT !.body = @ \cup {"raw"}, !.reader = rung]
       IN Continue(IF ~d.intent.verbatim /\ Available("chat")
                   THEN [job EXCEPT !.at = "tidy", !.draft = d, !.rung = rung]
                   ELSE Enriched(job, d, rung, Steps))

\* NO_TEXT: the images are described instead.
ReadNothing(rung) ==
    /\ job.at = "read" /\ rung \in Rungs("vision")
    /\ Continue([job EXCEPT !.at = "describe", !.rung = rung,
                            !.draft = Heard(@, "read", rung)])

\* _describe; the draft is stamped with the rung that found no text (line 259).
Described(rung) ==
    /\ job.at = "describe" /\ rung \in Rungs("vision")
    /\ LET d == [Heard(job.draft, "describe", rung) EXCEPT !.body = @ \cup {"described"},
                                                           !.reader = job.rung]
       IN Continue(Enriched(job, d, job.rung, Steps))

\* _tidy
Tidied(rung) ==
    /\ job.at = "tidy" /\ rung \in Rungs("chat")
    /\ LET d == [job.draft EXCEPT !.body = (@ \ {"raw"}) \cup {"tidied"}]
       IN Continue(Enriched(job, d, job.rung, Steps))

UntidyIsLost ==
    /\ job.at = "tidy"
    /\ LET d == [job.draft EXCEPT !.body = @ \ {"raw"}]
       IN Continue(Enriched(job, d, job.rung, Steps))

\* Whatever goes wrong with tidying, a spent quota included, the raw text stays.
Untidied ==
    /\ job.at = "tidy"
    /\ Continue(Enriched(job, job.draft, job.rung, Steps))

\* _generate gave a title, tags or a summary; a summary is not stamped for.
Generated(rung) ==
    /\ job.at \in Steps /\ rung \in Rungs(TaskOf(job.at))
    /\ LET d == IF job.at = "summary" THEN job.draft ELSE Heard(job.draft, job.at, rung)
           r == IF job.at = "summary" \/ job.rung # NoRung THEN job.rung ELSE rung
       IN Continue(Enriched(job,
              CASE job.at = "title" -> [d EXCEPT !.title = "generated"]
                [] job.at = "tags"  -> [d EXCEPT !.tags = TRUE]
                [] OTHER            -> [d EXCEPT !.summary = TRUE],
              r, After(job.at)))

\* An answer of which _clean_line or parse_tags leaves nothing.
GeneratedNothing(rung) ==
    /\ job.at \in {"title", "tags"} /\ rung \in Rungs(TaskOf(job.at))
    /\ LET d == [Heard(job.draft, job.at, rung) EXCEPT !.blank = @ \cup {job.at}]
       IN Continue(Enriched(job, d, IF job.rung = NoRung THEN rung ELSE job.rung, After(job.at)))

\* An LlmError other than LlmQuotaExceeded; a failed description is not stamped for.
CallFailed ==
    /\ job.at \in {"read", "describe"} \cup Steps
    /\ Continue(Enriched(job, Warned(job.draft, job.at),
                         IF job.at \in Steps THEN job.rung ELSE NoRung,
                         IF job.at \in Steps THEN After(job.at) ELSE Steps))

\* What the draft knew is lost with it, but for a regeneration's old card.
Lost(j) == IF j.kind = "again" THEN {} ELSE j.draft.attachments

\* LlmQuotaExceeded passes through the pipeline to the error handler.
QuotaSpent ==
    /\ job.at \in {"read", "describe"} \cup Steps
    /\ job' = Idle
    /\ astray' = astray \cup Lost(job)
    /\ UNCHANGED <<settings, cards, media, notes, unheard, captures, taps, regenerated>>

-----------------------------------------------------------------------------
(* Cards. *)

\* _present_draft, and the end of _regenerate
Present ==
    /\ job.at = "present"
    /\ cards' = IF IsEmpty(job.draft) THEN cards ELSE cards \cup {job.draft}
    /\ job' = Idle
    /\ UNCHANGED <<settings, media, notes, astray, unheard, captures, taps, regenerated>>

\* The path cannot be resolved or the card not be sent.
PresentFailed ==
    /\ job.at = "present" /\ ~IsEmpty(job.draft)
    /\ job' = Idle
    /\ astray' = astray \cup Lost(job)
    /\ UNCHANGED <<settings, cards, media, notes, unheard, captures, taps, regenerated>>

Tapped == taps < MaxTaps /\ taps' = taps + 1

\* compose() writes no summary.
AsNote(d) == [d EXCEPT !.summary = FALSE]

\* _save_draft; the write may have happened unheard, and then the card stays.
Save(c, heard) ==
    /\ notes' = notes \cup {AsNote(c)}
    /\ cards' = IF heard THEN cards \ {c} ELSE cards
    /\ Tapped
    /\ UNCHANGED <<settings, job, media, astray, unheard, captures, regenerated>>

\* The card is cancelled, or its session lapses.
Drop(c) ==
    /\ cards' = cards \ {c}
    /\ astray' = astray \cup c.attachments
    /\ Tapped
    /\ UNCHANGED <<settings, job, media, notes, unheard, captures, regenerated>>

\* pending_input: a new card, while the old one lives on.
Retitle(c) ==
    /\ cards' = cards \cup {[c EXCEPT !.title = "given"]}
    /\ Tapped
    /\ UNCHANGED <<settings, job, media, notes, astray, unheard, captures, regenerated>>

\* _regenerate
Regenerate(c) ==
    /\ job.at = "idle" /\ regenerated < MaxRegenerated
    /\ LET cleared == [c EXCEPT !.title = "none", !.tags = FALSE, !.summary = FALSE,
                                !.warnings = {}, !.blank = {}, !.again = TRUE]
       IN job' = Enriched([Idle EXCEPT !.kind = "again"], cleared, NoRung, Steps)
    /\ regenerated' = regenerated + 1
    /\ UNCHANGED <<settings, cards, media, notes, astray, unheard, captures, taps>>

-----------------------------------------------------------------------------
Next ==
    \/ \E images \in SUBSET (Files \ (media \cup unheard)), intent \in Captions : SendImages(images, intent)
    \/ Forward
    \/ \E f \in Files : Stored(f)
    \/ \E f \in Files : StoredUnheard(f)
    \/ UploadRefused
    \/ \E rung \in Rungs("vision") : ReadText(rung)
    \/ \E rung \in Rungs("vision") : ReadNothing(rung)
    \/ \E rung \in Rungs("vision") : Described(rung)
    \/ \E rung \in Rungs("chat") : Tidied(rung)
    \/ Untidied
    \/ \E rung \in Rungs("chat") : Generated(rung)
    \/ \E rung \in Rungs("chat") : GeneratedNothing(rung)
    \/ CallFailed
    \/ QuotaSpent
    \/ Present
    \/ PresentFailed
    \/ \E c \in cards, heard \in BOOLEAN : Save(c, heard)
    \/ \E c \in cards : Drop(c)
    \/ \E c \in cards : Retitle(c)
    \/ \E c \in cards : Regenerate(c)

Spec == Init /\ [][Next]_vars

-----------------------------------------------------------------------------
Drafts == cards \cup notes

\* create.py:18-20 and ingest.py:404-409, "uploaded but never referenced is
\* invisible": the body of every card and note links each file it was given, and
\* a file whose upload was answered belongs to a draft unless one was dropped with
\* it.  A copy whose answer was lost can be linked by nobody; it is of a file that
\* a later attempt attached, or whose card says that it is not attached (a
\* regeneration having cleared what its first card said).
UploadsAreReferenced ==
    /\ \A d \in Drafts : d.attachments \subseteq d.body
    /\ media \ astray \subseteq job.draft.attachments \cup UNION {d.body : d \in Drafts}
    /\ \A f \in unheard, c \in cards :
          f \in c.images /\ ~c.again => f \in c.attachments \/ "upload" \in c.warnings

\* ingest.py:287-292, "never destructive": whatever fails after a model has read
\* the images, the card and the note hold its text, verbatim when that was asked
\* for and once only, beside the caption's own words.
WhatWasReadIsKept ==
    \A d \in Drafts :
        /\ d.intent.words => "words" \in d.body
        /\ d.reader # NoRung <=> Cardinality(d.body \cap {"raw", "tidied", "described"}) = 1
        /\ d.intent.verbatim => "tidied" \notin d.body

\* ingest.py:97-99, "hiding the degradation would be dishonest": what was asked
\* for and is missing has its warning, unless a model answered with nothing
\* usable.  A regeneration answers for the generated parts alone, having cleared
\* the warnings of the others (line 216).  And factory.py:8-10: every name of a
\* chain that gives no rung has a reason an operator can read.
FailuresAreTold ==
    /\ \A task \in Capabilities : \A p \in ToSet(settings.chains[task]) :
        p \in {rung.provider : rung \in Rungs(task)} \cup {s.provider : s \in Skipped(settings, task)}
    /\ \A c \in cards :
        /\ ~c.again /\ c.attachments # c.images => "upload" \in c.warnings
        /\ ~c.again /\ c.images # {} /\ c.reader = NoRung =>
               c.warnings \cap {"read", "describe"} # {}
        /\ c.body # c.attachments => Missing(c) \subseteq c.warnings \cup c.blank

\* capture.py:50-52, a body "can be traced back to the model that produced it":
\* a stamp is a rung with a client and a key that answered for this draft, the
\* reader's while nothing was regenerated, and is there whenever one answered.
StampsAreTrue ==
    \A d \in Drafts :
        LET sources == {a.rung : a \in {b \in d.answered : b.step \in {"read", "title", "tags"}}}
        IN /\ d.stamp # NoRung => settings.provenance /\ d.stamp \in sources
           /\ settings.provenance /\ ~d.again /\ d.reader # NoRung => d.stamp = d.reader
           /\ settings.provenance /\ {a \in d.answered : a.step \in {"title", "tags"}} # {} =>
                  d.stamp # NoRung
           /\ \A a \in d.answered :
                  /\ HasCredentials(settings, a.rung.provider)
                  /\ a.rung.provider \in Clients(settings)
                  /\ a.step \in {"read", "describe"} => TakesImages(settings, a.rung.provider)
=============================================================================

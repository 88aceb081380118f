------------------------------ MODULE LlmProofs ------------------------------
(* The LLM layer from both sides, for every number of providers, captures,    *)
(* files and questions and for all settings: what the features make of the    *)
(* ladders they are given (IngestPipeline, Assist), and how the breaker       *)
(* protects a provider from those that call it (CircuitBreaker).              *)
EXTENDS Assist, CircuitBreaker, FiniteSetTheorems, TLAPS

Readings == {"raw", "tidied", "described"}

AllRungs == Rungs("chat") \cup Rungs("vision")

DraftType == [body : SUBSET (Files \cup Texts), title : {"none", "generated", "given"},
              tags : BOOLEAN, summary : BOOLEAN,
              warnings : SUBSET ({"upload", "read", "describe"} \cup Steps),
              attachments : SUBSET Files, stamp : AllRungs \cup {NoRung}, intent : Intents,
              images : SUBSET Files, reader : AllRungs \cup {NoRung},
              answered : SUBSET [step : {"read", "describe"} \cup Steps, rung : AllRungs],
              blank : SUBSET Steps, again : BOOLEAN]

JobType == [at : {"idle", "upload", "read", "describe", "tidy", "present"} \cup Steps,
            kind : {"none", "images", "text", "again"}, draft : DraftType,
            left : SUBSET Files, rung : AllRungs \cup {NoRung}, told : BOOLEAN]

\* The answers a draft may be stamped for, and those that were stamped for
\* whether or not anything was read.
Credited(d, rung) == \E a \in d.answered : a.step \in {"read", "title", "tags"} /\ a.rung = rung
Titled(d) == \E a \in d.answered : a.step \in {"title", "tags"}

\* What holds of a draft from its first step to the note it becomes.
Sound(d) ==
    /\ d.body \cap Files \subseteq d.attachments
    /\ d.intent.words => "words" \in d.body
    /\ d.intent.verbatim => "tidied" \notin d.body
    /\ \/ d.reader = NoRung /\ d.body \cap Readings = {}
       \/ d.reader # NoRung /\ \E x \in Readings : d.body \cap Readings = {x}
    /\ d.stamp # NoRung => settings.provenance /\ Credited(d, d.stamp)
    /\ \A a \in d.answered : a.rung \in Rungs(TaskOf(a.step))

\* What a card and a note hold besides.
Kept(d) ==
    /\ d \in DraftType /\ Sound(d)
    /\ d.attachments \subseteq d.body
    /\ settings.provenance /\ ~d.again /\ d.reader # NoRung => d.stamp = d.reader
    /\ settings.provenance /\ Titled(d) => d.stamp # NoRung

Told(d) ==
    /\ ~d.again /\ d.attachments # d.images => "upload" \in d.warnings
    /\ ~d.again /\ d.images # {} /\ d.reader = NoRung => d.warnings \cap {"read", "describe"} # {}
    /\ d.body # d.attachments => Missing(d) \subseteq d.warnings \cup d.blank

-----------------------------------------------------------------------------
(* Where a draft stands before it is a card. *)

\* Its images have not been read yet.
Unread(j) ==
    /\ j.kind = "images" /\ Sound(j.draft)
    /\ ~j.draft.again /\ j.draft.reader = NoRung /\ j.draft.stamp = NoRung /\ ~Titled(j.draft)

Uploaded(j, d) == j.told \/ d.attachments = d.images

\* Draft d of job j has been read, or had nothing to read, and will be stamped
\* for `rung`.
Ready(j, d, rung) ==
    /\ d \in DraftType /\ rung \in AllRungs \cup {NoRung} /\ Sound(d)
    /\ j.kind = "text"   => d.attachments = {} /\ d.images = {} /\ ~d.again
    /\ j.kind = "again"  => d.again /\ d.attachments \subseteq d.body
    /\ j.kind = "images" => /\ ~d.again /\ Uploaded(j, d)
                            /\ d.reader = NoRung => d.warnings \cap {"read", "describe"} # {}
    /\ j.kind # "none"
    /\ rung # NoRung => Credited(d, rung)
    /\ ~d.again /\ d.reader # NoRung => rung = d.reader
    /\ settings.provenance /\ Titled(d) => rung # NoRung \/ d.stamp # NoRung

\* What is missing is warned of, came back blank, or is one of `steps`.
Accounted(d, steps) == Missing(d) \subseteq d.warnings \cup d.blank \cup steps

Standing(j) ==
    /\ j.at = "idle" => j = Idle
    /\ j.at = "upload" => Unread(j) /\ j.draft.attachments \cup j.left = j.draft.images
    /\ j.at \in {"read", "describe"} => Unread(j) /\ Uploaded(j, j.draft)
    /\ j.at = "describe" => j.rung # NoRung /\ Credited(j.draft, j.rung)
    /\ j.at = "tidy" => /\ Ready(j, j.draft, j.rung) /\ j.draft.body \cap Readings = {"raw"}
                        /\ j.draft.reader # NoRung /\ ~j.draft.intent.verbatim
    /\ j.at \in Steps => Ready(j, j.draft, j.rung) /\ Accounted(j.draft, {j.at} \cup After(j.at))
    /\ j.at = "present" => Kept(j.draft) /\ Told(j.draft)

\* Every file of which a path is known belongs to the draft under way, which will
\* drop it with itself, to a card or to a note, unless it went astray.
Placed ==
    /\ media \subseteq Files
    /\ media \ astray \subseteq Lost(job) \cup UNION {d.body : d \in cards \cup notes}

IngestInv ==
    /\ settings \in SettingsSpace
    /\ job \in JobType /\ Standing(job)
    /\ \A c \in cards : Kept(c) /\ Told(c)
    /\ \A n \in notes : Kept(n)
    /\ Placed
-----------------------------------------------------------------------------
(* The helpers of the pipeline. *)

\* _stamp changes the stamp alone.
LEMMA StampedFields ==
    ASSUME NEW d \in DraftType, NEW rung \in AllRungs \cup {NoRung}
    PROVE  /\ Stamped(d, rung) \in DraftType
           /\ Stamped(d, rung).stamp = IF settings.provenance /\ rung # NoRung THEN rung ELSE d.stamp
           /\ Stamped(d, rung).body = d.body
           /\ Stamped(d, rung).title = d.title
           /\ Stamped(d, rung).tags = d.tags
           /\ Stamped(d, rung).summary = d.summary
           /\ Stamped(d, rung).warnings = d.warnings
           /\ Stamped(d, rung).attachments = d.attachments
           /\ Stamped(d, rung).intent = d.intent
           /\ Stamped(d, rung).images = d.images
           /\ Stamped(d, rung).reader = d.reader
           /\ Stamped(d, rung).answered = d.answered
           /\ Stamped(d, rung).blank = d.blank
           /\ Stamped(d, rung).again = d.again
BY DEF Stamped, DraftType

\* _reference_attachments changes the body alone.
LEMMA ReferencedFields ==
    ASSUME NEW d \in DraftType
    PROVE  /\ Referenced(d) \in DraftType
           /\ Referenced(d).body = d.body \cup d.attachments
           /\ Referenced(d).title = d.title
           /\ Referenced(d).tags = d.tags
           /\ Referenced(d).summary = d.summary
           /\ Referenced(d).warnings = d.warnings
           /\ Referenced(d).attachments = d.attachments
           /\ Referenced(d).stamp = d.stamp
           /\ Referenced(d).intent = d.intent
           /\ Referenced(d).images = d.images
           /\ Referenced(d).reader = d.reader
           /\ Referenced(d).answered = d.answered
           /\ Referenced(d).blank = d.blank
           /\ Referenced(d).again = d.again
<1>1. Referenced(d).body = d.body \cup d.attachments
  BY DEF Referenced, DraftType
<1>2. d.body \cup d.attachments \in SUBSET (Files \cup Texts)
  BY DEF DraftType
<1>3. Referenced(d) \in DraftType
  BY <1>2 DEF Referenced, DraftType
<1> QED BY <1>1, <1>3 DEF Referenced, DraftType

Cautioned(d, W) == [d EXCEPT !.warnings = @ \cup W]

\* warn adds to the warnings alone.
LEMMA WarnedFields ==
    ASSUME NEW d \in DraftType, NEW W, W \subseteq {"upload", "read", "describe"} \cup Steps
    PROVE  /\ Cautioned(d, W) \in DraftType
           /\ Cautioned(d, W).warnings = d.warnings \cup W
           /\ Cautioned(d, W).body = d.body
           /\ Cautioned(d, W).title = d.title
           /\ Cautioned(d, W).tags = d.tags
           /\ Cautioned(d, W).summary = d.summary
           /\ Cautioned(d, W).attachments = d.attachments
           /\ Cautioned(d, W).stamp = d.stamp
           /\ Cautioned(d, W).intent = d.intent
           /\ Cautioned(d, W).images = d.images
           /\ Cautioned(d, W).reader = d.reader
           /\ Cautioned(d, W).answered = d.answered
           /\ Cautioned(d, W).blank = d.blank
           /\ Cautioned(d, W).again = d.again
<1>1. Cautioned(d, W).warnings = d.warnings \cup W
  BY DEF Cautioned, DraftType
<1>2. d.warnings \cup W \in SUBSET ({"upload", "read", "describe"} \cup Steps)
  BY DEF DraftType
<1>3. Cautioned(d, W) \in DraftType
  BY <1>2 DEF Cautioned, DraftType
<1> QED BY <1>1, <1>3 DEF Cautioned, DraftType

\* Nothing beside the three steps can be missing.
LEMMA MissingIsSteps == ASSUME NEW d PROVE Missing(d) \subseteq Steps
BY DEF Missing

\* What is missing depends on the intent and the three parts alone.
LEMMA SameMissing ==
    ASSUME NEW d, NEW e, e.intent = d.intent, e.title = d.title, e.tags = d.tags,
           e.summary = d.summary
    PROVE  Missing(e) = Missing(d)
BY DEF Missing

-----------------------------------------------------------------------------
(* The end of the pipeline. *)

\* A draft with nothing left to account for makes a card that keeps and tells
\* everything it should.
LEMMA FinishedStands ==
    ASSUME settings \in SettingsSpace, NEW j \in JobType, NEW d, NEW rung, Ready(j, d, rung),
           Accounted(d, {}) \/ d.body = {}
    PROVE  /\ Finished(j, d, rung) \in JobType
           /\ Standing(Finished(j, d, rung))
           /\ Finished(j, d, rung).kind = j.kind
           /\ Finished(j, d, rung).draft.attachments = d.attachments
<1> DEFINE s == Stamped(d, rung)
           w == IF j.kind = "images" THEN Referenced(s) ELSE s
           e == IF j.told THEN Warned(w, "upload") ELSE w
<1>0. d \in DraftType /\ rung \in AllRungs \cup {NoRung}
  BY DEF Ready
<1>1. /\ s \in DraftType
      /\ s.stamp = IF settings.provenance /\ rung # NoRung THEN rung ELSE d.stamp
      /\ s.body = d.body /\ s.title = d.title /\ s.tags = d.tags /\ s.summary = d.summary
      /\ s.warnings = d.warnings /\ s.attachments = d.attachments /\ s.intent = d.intent
      /\ s.images = d.images /\ s.reader = d.reader /\ s.answered = d.answered
      /\ s.blank = d.blank /\ s.again = d.again
  BY <1>0, StampedFields
<1> HIDE DEF s
<1>2. /\ w \in DraftType
      /\ w.body = IF j.kind = "images" THEN s.body \cup s.attachments ELSE s.body
      /\ w.stamp = s.stamp /\ w.title = s.title /\ w.tags = s.tags /\ w.summary = s.summary
      /\ w.warnings = s.warnings /\ w.attachments = s.attachments /\ w.intent = s.intent
      /\ w.images = s.images /\ w.reader = s.reader /\ w.answered = s.answered
      /\ w.blank = s.blank /\ w.again = s.again
  BY <1>1, ReferencedFields
<1> HIDE DEF w
<1>3. /\ e \in DraftType
      /\ e.warnings = IF j.told THEN w.warnings \cup {"upload"} ELSE w.warnings
      /\ e.body = w.body /\ e.title = w.title /\ e.tags = w.tags /\ e.summary = w.summary
      /\ e.stamp = w.stamp /\ e.attachments = w.attachments /\ e.intent = w.intent
      /\ e.images = w.images /\ e.reader = w.reader /\ e.answered = w.answered
      /\ e.blank = w.blank /\ e.again = w.again
  <2>1. CASE j.told
    <3>1. e = Cautioned(w, {"upload"})
      BY <2>1 DEF Warned, Cautioned
    <3> HIDE DEF e
    <3> QED BY <1>2, <2>1, <3>1, WarnedFields
  <2>2. CASE ~j.told
    BY <1>2, <2>2
  <2> QED BY <2>1, <2>2
<1> HIDE DEF e
<1>4. Finished(j, d, rung) = [j EXCEPT !.at = "present", !.rung = rung, !.draft = e]
  BY DEF Finished, e, w, s
<1>5. /\ Finished(j, d, rung) \in JobType
      /\ Finished(j, d, rung).at = "present" /\ Finished(j, d, rung).kind = j.kind
      /\ Finished(j, d, rung).draft = e
  BY <1>0, <1>3, <1>4 DEF JobType
<1>6. Sound(e)
  <2>1. e.body \cap Files \subseteq e.attachments
    BY <1>1, <1>2, <1>3 DEF Ready, Sound
  <2>2. e.body \cap Texts = d.body \cap Texts
    BY <1>0, <1>1, <1>2, <1>3, IngestAssumption DEF DraftType
  <2>3. e.intent.words => "words" \in e.body
    BY <1>1, <1>2, <1>3 DEF Ready, Sound
  <2>4. e.intent.verbatim => "tidied" \notin e.body
    BY <2>2, <1>1, <1>2, <1>3 DEF Ready, Sound, Texts
  <2>5. e.body \cap Readings = d.body \cap Readings
    BY <2>2 DEF Texts, Readings
  <2>6. \/ e.reader = NoRung /\ e.body \cap Readings = {}
        \/ e.reader # NoRung /\ \E x \in Readings : e.body \cap Readings = {x}
    BY <2>5, <1>1, <1>2, <1>3 DEF Ready, Sound
  <2>7. e.stamp # NoRung => settings.provenance /\ Credited(e, e.stamp)
    <3>1. \A r : Credited(e, r) <=> Credited(d, r)
      BY <1>1, <1>2, <1>3 DEF Credited
    <3>2. (e.stamp = rung /\ settings.provenance /\ rung # NoRung) \/ e.stamp = d.stamp
      BY <1>1, <1>2, <1>3
    <3>3. rung # NoRung => Credited(d, rung)
      BY DEF Ready
    <3>4. d.stamp # NoRung => settings.provenance /\ Credited(d, d.stamp)
      BY DEF Ready, Sound
    <3> QED BY <3>1, <3>2, <3>3, <3>4
  <2>8. \A a \in e.answered : a.rung \in Rungs(TaskOf(a.step))
    BY <1>1, <1>2, <1>3 DEF Ready, Sound
  <2> QED BY <2>1, <2>3, <2>4, <2>6, <2>7, <2>8 DEF Sound
<1>7. e.attachments \subseteq e.body
  BY <1>1, <1>2, <1>3 DEF Ready, JobType
<1>8. settings.provenance /\ ~e.again /\ e.reader # NoRung => e.stamp = e.reader
  BY <1>1, <1>2, <1>3 DEF Ready
<1>9. settings.provenance /\ Titled(e) => e.stamp # NoRung
  <2>1. Titled(e) <=> Titled(d)
    BY <1>1, <1>2, <1>3 DEF Titled
  <2> QED BY <2>1, <1>1, <1>2, <1>3 DEF Ready
<1>10. Kept(e)
  BY <1>3, <1>6, <1>7, <1>8, <1>9 DEF Kept
<1>11. Told(e)
  <2>1. ~e.again /\ e.attachments # e.images => "upload" \in e.warnings
    BY <1>1, <1>2, <1>3 DEF Ready, JobType, Uploaded
  <2>2. ~e.again /\ e.images # {} /\ e.reader = NoRung => e.warnings \cap {"read", "describe"} # {}
    BY <1>1, <1>2, <1>3 DEF Ready, JobType
  <2>3. e.body # e.attachments => Missing(e) \subseteq e.warnings \cup e.blank
    <3>1. CASE Accounted(d, {})
      <4>1. Missing(e) = Missing(d)
        BY <1>1, <1>2, <1>3, SameMissing
      <4> QED BY <4>1, <3>1, <1>1, <1>2, <1>3 DEF Accounted
    <3>2. CASE d.body = {}
      <4>1. d.attachments = {} \/ j.kind = "images"
        BY <3>2 DEF Ready, JobType
      <4> QED BY <4>1, <3>2, <1>1, <1>2, <1>3
    <3> QED BY <3>1, <3>2
  <2> QED BY <2>1, <2>2, <2>3 DEF Told
<1>12. Standing(Finished(j, d, rung))
  BY <1>5, <1>10, <1>11 DEF Standing, Steps
<1> QED BY <1>1, <1>2, <1>3, <1>5, <1>12

\* Some open step comes before all the others.
LEMMA FirstStep ==
    ASSUME NEW open, open \subseteq Steps, open # {}
    PROVE  \E s \in open : open \ {s} \subseteq After(s)
<1>1. CASE "title" \in open
  BY <1>1 DEF Steps, After
<1>2. CASE "title" \notin open /\ "tags" \in open
  BY <1>2 DEF Steps, After
<1>3. CASE "title" \notin open /\ "tags" \notin open
  BY <1>3 DEF Steps, After
<1> QED BY <1>1, <1>2, <1>3

\* Warnings about the open steps change nothing else.
LEMMA WarningKeepsReady ==
    ASSUME NEW j, NEW d, NEW rung, Ready(j, d, rung), NEW W,
           W \subseteq {"upload", "read", "describe"} \cup Steps
    PROVE  Ready(j, Cautioned(d, W), rung)
<1> DEFINE e == Cautioned(d, W)
<1>1. d \in DraftType
  BY DEF Ready
<1>2. /\ e \in DraftType /\ e.warnings = d.warnings \cup W
      /\ e.body = d.body /\ e.attachments = d.attachments /\ e.stamp = d.stamp
      /\ e.intent = d.intent /\ e.images = d.images /\ e.reader = d.reader
      /\ e.answered = d.answered /\ e.again = d.again
  BY <1>1, WarnedFields
<1> HIDE DEF e
<1>3. \A r : Credited(e, r) <=> Credited(d, r)
  BY <1>2 DEF Credited
<1>4. Titled(e) <=> Titled(d)
  BY <1>2 DEF Titled
<1>5. Sound(e)
  BY <1>2, <1>3 DEF Ready, Sound
<1>6. Ready(j, e, rung)
  BY <1>2, <1>3, <1>4, <1>5 DEF Ready, Uploaded
<1> QED BY <1>6 DEF e

\* Whatever is done next, asking for the first open step or ending with or
\* without warnings, the draft stands as the code means it to.
LEMMA EnrichedStands ==
    ASSUME settings \in SettingsSpace, NEW j \in JobType, NEW d, NEW rung, Ready(j, d, rung),
           NEW steps, steps \subseteq Steps, Accounted(d, steps)
    PROVE  /\ Enriched(j, d, rung, steps) \in JobType
           /\ Standing(Enriched(j, d, rung, steps))
           /\ Enriched(j, d, rung, steps).kind = j.kind
           /\ Enriched(j, d, rung, steps).draft.attachments = d.attachments
<1> DEFINE open == Missing(d) \cap steps
           first == CHOOSE s \in open : open \ {s} \subseteq After(s)
<1>0. d \in DraftType /\ rung \in AllRungs \cup {NoRung}
  BY DEF Ready
<1>1. CASE d.body = {} \/ open = {}
  <2>1. Enriched(j, d, rung, steps) = Finished(j, d, rung)
    BY <1>1 DEF Enriched
  <2>2. Accounted(d, {}) \/ d.body = {}
    BY <1>1 DEF Accounted
  <2> QED BY <2>1, <2>2, FinishedStands
<1>2. CASE ~(d.body = {} \/ open = {}) /\ ~Available("chat")
  <2> DEFINE e == Cautioned(d, open)
  <2>1. Enriched(j, d, rung, steps) = Finished(j, e, rung)
    BY <1>2 DEF Enriched, Cautioned
  <2>2. Ready(j, e, rung)
    BY WarningKeepsReady
  <2>3. e.warnings = d.warnings \cup open /\ e.blank = d.blank /\ e.attachments = d.attachments
    BY <1>0, WarnedFields
  <2>4. e.intent = d.intent /\ e.title = d.title /\ e.tags = d.tags /\ e.summary = d.summary
    BY <1>0, WarnedFields
  <2> HIDE DEF e
  <2>5. Missing(e) = Missing(d)
    BY <2>4, SameMissing
  <2>6. Accounted(e, {})
    BY <2>3, <2>5 DEF Accounted
  <2> QED BY <2>1, <2>2, <2>3, <2>6, FinishedStands
<1>3. CASE ~(d.body = {} \/ open = {}) /\ Available("chat")
  <2> DEFINE k == [j EXCEPT !.at = first, !.draft = d, !.rung = rung]
  <2>1. Enriched(j, d, rung, steps) = k
    BY <1>3 DEF Enriched
  <2>2. first \in open /\ open \ {first} \subseteq After(first)
    <3>1. open \subseteq Steps /\ open # {}
      BY <1>3
    <3> HIDE DEF open
    <3> QED BY <3>1, FirstStep
  <2> HIDE DEF first
  <2>3. first \in Steps
    BY <2>2
  <2>4. /\ k \in JobType /\ k.at = first /\ k.draft = d /\ k.rung = rung
        /\ k.kind = j.kind /\ k.told = j.told
    BY <1>0, <2>3 DEF JobType
  <2> HIDE DEF k
  <2>5. Ready(k, d, rung)
    BY <2>4 DEF Ready, Uploaded
  <2>6. Accounted(d, {first} \cup After(first))
    BY <2>2 DEF Accounted
  <2>7. Standing(k)
    BY <2>3, <2>4, <2>5, <2>6 DEF Standing, Steps
  <2> QED BY <2>1, <2>4, <2>7
<1> QED BY <1>1, <1>2, <1>3

\* The uploads are over.
LEMMA ReadingStands ==
    ASSUME settings \in SettingsSpace, NEW j \in JobType, Unread(j), Uploaded(j, j.draft)
    PROVE  /\ Reading(j) \in JobType
           /\ Standing(Reading(j))
           /\ Reading(j).kind = j.kind
           /\ Reading(j).draft.attachments = j.draft.attachments
<1>1. CASE Available("vision")
  <2> DEFINE k == [j EXCEPT !.at = "read", !.left = {}]
  <2>1. Reading(j) = k
    BY <1>1 DEF Reading
  <2>2. /\ k \in JobType /\ k.at = "read" /\ k.draft = j.draft
        /\ k.kind = j.kind /\ k.told = j.told
    BY DEF JobType
  <2> HIDE DEF k
  <2>3. Unread(k) /\ Uploaded(k, k.draft)
    BY <2>2 DEF Unread, Uploaded
  <2>4. Standing(k)
    BY <2>2, <2>3 DEF Standing, Steps
  <2> QED BY <2>1, <2>2, <2>4
<1>2. CASE ~Available("vision")
  <2> DEFINE k == [j EXCEPT !.left = {}]
             d == Cautioned(j.draft, {"read"})
  <2>1. Reading(j) = Enriched(k, d, NoRung, Steps)
    BY <1>2 DEF Reading, Warned, Cautioned
  <2>2. /\ k \in JobType /\ k.draft = j.draft
        /\ k.kind = j.kind /\ k.told = j.told
    BY DEF JobType
  <2> HIDE DEF k
  <2>3. j.draft \in DraftType
    BY DEF JobType
  <2>4. /\ d \in DraftType /\ d.warnings = j.draft.warnings \cup {"read"}
        /\ d.body = j.draft.body /\ d.attachments = j.draft.attachments
        /\ d.stamp = j.draft.stamp /\ d.intent = j.draft.intent /\ d.images = j.draft.images
        /\ d.reader = j.draft.reader /\ d.answered = j.draft.answered /\ d.again = j.draft.again
    BY <2>3, WarnedFields
  <2> HIDE DEF d
  <2>5. Sound(d) /\ ~Titled(d)
    BY <2>4 DEF Unread, Sound, Titled
  <2>6. Ready(k, d, NoRung)
    BY <2>2, <2>4, <2>5 DEF Ready, Unread, Uploaded
  <2>7. Accounted(d, Steps)
    BY MissingIsSteps DEF Accounted
  <2> QED BY <2>1, <2>2, <2>4, <2>6, <2>7, EnrichedStands
<1> QED BY <1>1, <1>2

-----------------------------------------------------------------------------
(* The steps of the draft under way. *)

\* A rung of any ladder is the rung of a provider with credentials and a
\* client, one that takes images on the vision ladder, and never NoRung.
LEMMA RungsOfLadders ==
    ASSUME settings \in SettingsSpace, NEW task, NEW rung \in Rungs(task)
    PROVE  /\ rung \in AllRungs /\ rung # NoRung
           /\ HasCredentials(settings, rung.provider)
           /\ rung.provider \in Clients(settings)
           /\ task = "vision" => TakesImages(settings, rung.provider)
<1>1. rung \in Attempts(settings, CapabilityOf(task)) /\ rung.provider \in Clients(settings)
  BY DEF Rungs, Ladder
<1>2. CapabilityOf(task) \in Capabilities
  BY DEF CapabilityOf, Capabilities
<1>3. rung # NoRung
  BY <1>1, <1>2, IngestAssumption
<1>4. rung \in AllRungs
  <2>1. CASE task = "vision"
    BY <2>1 DEF AllRungs
  <2>2. CASE task # "vision"
    BY <2>2 DEF AllRungs, Rungs, Ladder, CapabilityOf
  <2> QED BY <2>1, <2>2
<1>5. PICK p : /\ Gap(settings, p, CapabilityOf(task)) = "none"
               /\ \E m : rung = [provider |-> p, model |-> m]
  BY <1>1 DEF Attempts, RungsOf
<1>6. rung.provider = p
  BY <1>5
<1>7. HasCredentials(settings, p)
  BY <1>5 DEF Gap
<1>8. task = "vision" => TakesImages(settings, p)
  BY <1>5 DEF Gap, CapabilityOf
<1> QED BY <1>1, <1>3, <1>4, <1>6, <1>7, <1>8

\* An empty draft, and the one that carries the caption's words.
LEMMA WordedFields ==
    ASSUME NEW intent \in Intents
    PROVE  /\ Worded(intent) \in DraftType
           /\ Worded(intent).body = IF intent.words THEN {"words"} ELSE {}
           /\ Worded(intent).intent = intent
           /\ Worded(intent).attachments = {} /\ Worded(intent).images = {}
           /\ Worded(intent).stamp = NoRung /\ Worded(intent).reader = NoRung
           /\ Worded(intent).answered = {} /\ ~Worded(intent).again
<1>1. Plain \in Intents
  BY DEF Plain, Intents
<1>2. Draft \in DraftType
  BY <1>1 DEF Draft, DraftType
<1>3. Worded(intent) \in DraftType
  BY <1>2 DEF Worded, DraftType, Texts
<1> QED BY <1>3 DEF Worded, Draft, Intents

\* What a caption alone makes is sound.
LEMMA WordedIsSound ==
    ASSUME NEW intent \in Intents, NEW d, d.body = (IF intent.words THEN {"words"} ELSE {}),
           d.intent = intent, d.stamp = NoRung, d.reader = NoRung, d.answered = {}
    PROVE  Sound(d) /\ ~Titled(d)
<1>1. d.body \cap Files \subseteq d.attachments
  BY IngestAssumption DEF Texts
<1>2. d.body \cap Readings = {}
  BY DEF Readings
<1> QED BY <1>1, <1>2 DEF Sound, Titled

\* Nothing under way.
LEMMA IdleStands == Idle \in JobType /\ Standing(Idle) /\ Idle.draft.attachments = {}
<1>1. Plain \in Intents
  BY DEF Plain, Intents
<1>2. Draft \in DraftType
  BY <1>1 DEF Draft, DraftType
<1>3. Idle \in JobType
  BY <1>2 DEF Idle, JobType
<1>4. Idle.at = "idle" /\ Idle.draft.attachments = {}
  BY DEF Idle, Draft
<1> QED BY <1>3, <1>4 DEF Standing, Steps

\* attachment_message
LEMMA SendStands ==
    ASSUME NEW images \in SUBSET Files, NEW intent \in Captions, SendImages(images, intent)
    PROVE  \E k \in JobType : job' = k /\ Standing(k) /\ k.draft.attachments = {}
<1> DEFINE w == Worded(intent)
           d == [w EXCEPT !.images = images]
           k == [Idle EXCEPT !.at = "upload", !.kind = "images", !.left = images, !.draft = d]
<1>0. intent \in Intents
  BY IngestAssumption
<1>1. /\ w \in DraftType /\ w.body = (IF intent.words THEN {"words"} ELSE {})
      /\ w.intent = intent /\ w.attachments = {} /\ w.stamp = NoRung /\ w.reader = NoRung
      /\ w.answered = {} /\ ~w.again
  BY <1>0, WordedFields
<1>2. job' = k
  BY DEF SendImages
<1> HIDE DEF w
<1>3. /\ d \in DraftType /\ d.body = w.body /\ d.intent = w.intent /\ d.images = images
      /\ d.attachments = w.attachments /\ d.stamp = w.stamp /\ d.reader = w.reader
      /\ d.answered = w.answered /\ d.again = w.again
  BY <1>1 DEF DraftType
<1> HIDE DEF d
<1>4. /\ k \in JobType /\ k.at = "upload" /\ k.kind = "images" /\ k.left = images /\ k.draft = d
  BY <1>3, IdleStands DEF JobType
<1> HIDE DEF k
<1>5. Sound(d) /\ ~Titled(d)
  BY <1>0, <1>1, <1>3, WordedIsSound
<1>6. Standing(k)
  BY <1>1, <1>3, <1>4, <1>5 DEF Standing, Steps, Unread
<1> QED BY <1>1, <1>2, <1>3, <1>4, <1>6

\* forwarded_message
LEMMA ForwardStands ==
    ASSUME settings \in SettingsSpace, Forward
    PROVE  \E k \in JobType : job' = k /\ Standing(k) /\ k.draft.attachments = {} /\ k.kind = "text"
<1> DEFINE d == Worded(Plain)
           i == [Idle EXCEPT !.kind = "text"]
           k == Enriched(i, d, NoRung, Steps)
<1>0. Plain \in Intents
  BY DEF Plain, Intents
<1>1. /\ d \in DraftType /\ d.body = (IF Plain.words THEN {"words"} ELSE {})
      /\ d.intent = Plain /\ d.attachments = {} /\ d.images = {} /\ d.stamp = NoRung
      /\ d.reader = NoRung /\ d.answered = {} /\ ~d.again
  BY <1>0, WordedFields
<1>2. job' = k
  BY DEF Forward
<1>3. i \in JobType /\ i.kind = "text"
  BY IdleStands DEF JobType
<1> HIDE DEF d, i
<1>4. Sound(d) /\ ~Titled(d)
  BY <1>0, <1>1, WordedIsSound
<1>5. Ready(i, d, NoRung)
  BY <1>1, <1>3, <1>4 DEF Ready
<1>6. Accounted(d, Steps)
  BY MissingIsSteps DEF Accounted
<1>7. k \in JobType /\ Standing(k) /\ k.kind = i.kind /\ k.draft.attachments = d.attachments
  BY <1>3, <1>5, <1>6, EnrichedStands
<1> HIDE DEF k
<1> QED BY <1>1, <1>2, <1>3, <1>7

\* A stored file moves from the files to send to the attachments.
LEMMA StoredFields ==
    ASSUME job \in JobType, NEW f \in Files, NEW j,
           j = [job EXCEPT !.left = @ \ {f}, !.draft.attachments = @ \cup {f}]
    PROVE  /\ j \in JobType /\ j.at = job.at /\ j.kind = job.kind /\ j.told = job.told
           /\ j.left = job.left \ {f} /\ j.draft.attachments = job.draft.attachments \cup {f}
           /\ j.draft.body = job.draft.body /\ j.draft.images = job.draft.images
           /\ j.draft.stamp = job.draft.stamp /\ j.draft.reader = job.draft.reader
           /\ j.draft.intent = job.draft.intent /\ j.draft.answered = job.draft.answered
           /\ j.draft.again = job.draft.again
<1> DEFINE d == [job.draft EXCEPT !.attachments = @ \cup {f}]
<1>1. job.draft \in DraftType /\ job.left \ {f} \in SUBSET Files
  BY DEF JobType
<1>2. /\ d \in DraftType /\ d.attachments = job.draft.attachments \cup {f}
      /\ d.body = job.draft.body /\ d.images = job.draft.images /\ d.stamp = job.draft.stamp
      /\ d.reader = job.draft.reader /\ d.intent = job.draft.intent
      /\ d.answered = job.draft.answered /\ d.again = job.draft.again
  <2>1. job.draft.attachments \cup {f} \in SUBSET Files
    BY <1>1 DEF DraftType
  <2> QED BY <1>1, <2>1 DEF DraftType
<1>3. j = [job EXCEPT !.left = job.left \ {f}, !.draft = d]
  BY DEF JobType
<1> HIDE DEF d
<1>4. /\ j \in JobType /\ j.at = job.at /\ j.kind = job.kind /\ j.told = job.told
      /\ j.left = job.left \ {f} /\ j.draft = d
  BY <1>1, <1>2, <1>3 DEF JobType
<1> QED BY <1>2, <1>4

\* _upload_all: a file was stored, and the next is sent or the images are read.
LEMMA StoredStands ==
    ASSUME settings \in SettingsSpace, job \in JobType, Standing(job), NEW f \in Files, Stored(f)
    PROVE  \E k \in JobType : /\ job' = k /\ Standing(k) /\ k.kind = job.kind
                              /\ k.draft.attachments = job.draft.attachments \cup {f}
<1>1. PICK j : j = [job EXCEPT !.left = @ \ {f}, !.draft.attachments = @ \cup {f}]
  OBVIOUS
<1>2. job' = IF j.left = {} THEN Reading(j) ELSE j
  BY <1>1 DEF Stored
<1>3. job.at = "upload" /\ f \in job.left
  BY DEF Stored
<1>4. /\ j \in JobType /\ j.at = job.at /\ j.kind = job.kind /\ j.told = job.told
      /\ j.left = job.left \ {f} /\ j.draft.attachments = job.draft.attachments \cup {f}
      /\ j.draft.body = job.draft.body /\ j.draft.images = job.draft.images
      /\ j.draft.stamp = job.draft.stamp /\ j.draft.reader = job.draft.reader
      /\ j.draft.intent = job.draft.intent /\ j.draft.answered = job.draft.answered
      /\ j.draft.again = job.draft.again
  BY <1>1, StoredFields
<1>5. Unread(job) /\ job.draft.attachments \cup job.left = job.draft.images
  BY <1>3 DEF Standing
<1>6. Sound(j.draft) /\ (Titled(j.draft) <=> Titled(job.draft))
  <2>1. Sound(job.draft)
    BY <1>5 DEF Unread
  <2>2. j.draft.stamp # NoRung => Credited(j.draft, j.draft.stamp)
    BY <1>4, <2>1 DEF Sound, Credited
  <2> QED BY <1>4, <2>1, <2>2 DEF Sound, Titled
<1>7. Unread(j) /\ j.draft.attachments \cup j.left = j.draft.images
  BY <1>3, <1>4, <1>5, <1>6 DEF Unread
<1>8. CASE j.left = {}
  <2>1. Uploaded(j, j.draft)
    BY <1>7, <1>8 DEF Uploaded
  <2>2. PICK k : k = Reading(j)
    OBVIOUS
  <2> QED BY <1>2, <1>4, <1>7, <1>8, <2>1, <2>2, ReadingStands
<1>9. CASE j.left # {}
  <2>1. Standing(j)
    BY <1>3, <1>4, <1>7 DEF Standing, Steps
  <2> QED BY <1>2, <1>4, <1>9, <2>1
<1> QED BY <1>8, <1>9

\* _upload_all: an upload failed, and the images are read without the rest.
LEMMA RefusedStands ==
    ASSUME settings \in SettingsSpace, job \in JobType, Standing(job), job.at = "upload",
           job' = Reading([job EXCEPT !.told = TRUE])
    PROVE  \E k \in JobType : /\ job' = k /\ Standing(k) /\ k.kind = job.kind
                              /\ k.draft.attachments = job.draft.attachments
<1> DEFINE j == [job EXCEPT !.told = TRUE]
<1>1. j \in JobType /\ j.kind = job.kind /\ j.told /\ j.draft = job.draft
  BY DEF JobType
<1>2. job' = Reading(j)
  OBVIOUS
<1> HIDE DEF j
<1>3. Unread(job)
  BY DEF Standing
<1>4. Unread(j) /\ Uploaded(j, j.draft)
  BY <1>1, <1>3 DEF Unread, Uploaded
<1>5. PICK k : k = Reading(j)
  OBVIOUS
<1> QED BY <1>1, <1>2, <1>4, <1>5, ReadingStands

\* An answer adds itself to the history alone.
LEMMA HeardFields ==
    ASSUME settings \in SettingsSpace, NEW d \in DraftType,
           NEW step \in {"read", "describe"} \cup Steps, NEW rung \in Rungs(TaskOf(step))
    PROVE  /\ Heard(d, step, rung) \in DraftType
           /\ Heard(d, step, rung).answered = d.answered \cup {[step |-> step, rung |-> rung]}
           /\ Heard(d, step, rung).body = d.body
           /\ Heard(d, step, rung).title = d.title
           /\ Heard(d, step, rung).tags = d.tags
           /\ Heard(d, step, rung).summary = d.summary
           /\ Heard(d, step, rung).warnings = d.warnings
           /\ Heard(d, step, rung).attachments = d.attachments
           /\ Heard(d, step, rung).stamp = d.stamp
           /\ Heard(d, step, rung).intent = d.intent
           /\ Heard(d, step, rung).images = d.images
           /\ Heard(d, step, rung).reader = d.reader
           /\ Heard(d, step, rung).blank = d.blank
           /\ Heard(d, step, rung).again = d.again
           /\ Sound(d) => \A a \in Heard(d, step, rung).answered : a.rung \in Rungs(TaskOf(a.step))
           /\ \A r : Credited(Heard(d, step, rung), r) <=>
                        Credited(d, r) \/ (step \in {"read", "title", "tags"} /\ r = rung)
           /\ Titled(Heard(d, step, rung)) <=> Titled(d) \/ step \in {"title", "tags"}
<1> DEFINE h == Heard(d, step, rung)
           b == [step |-> step, rung |-> rung]
<1>1. b \in [step : {"read", "describe"} \cup Steps, rung : AllRungs]
  BY RungsOfLadders
<1>2. b.step = step /\ b.rung = rung
  OBVIOUS
<1>3. h = [d EXCEPT !.answered = @ \cup {b}]
  BY DEF Heard
<1> HIDE DEF b
<1>4. d.answered \cup {b} \in SUBSET [step : {"read", "describe"} \cup Steps, rung : AllRungs]
  BY <1>1 DEF DraftType
<1> HIDE DEF h
<1>5. /\ h \in DraftType /\ h.answered = d.answered \cup {b}
      /\ h.body = d.body /\ h.title = d.title /\ h.tags = d.tags /\ h.summary = d.summary
      /\ h.warnings = d.warnings /\ h.attachments = d.attachments /\ h.stamp = d.stamp
      /\ h.intent = d.intent /\ h.images = d.images /\ h.reader = d.reader
      /\ h.blank = d.blank /\ h.again = d.again
  BY <1>3, <1>4 DEF DraftType
<1>6. Sound(d) => \A a \in h.answered : a.rung \in Rungs(TaskOf(a.step))
  BY <1>2, <1>5 DEF Sound
<1>7. \A r : Credited(h, r) <=> Credited(d, r) \/ (step \in {"read", "title", "tags"} /\ r = rung)
  BY <1>2, <1>5 DEF Credited
<1>8. Titled(h) <=> Titled(d) \/ step \in {"title", "tags"}
  BY <1>2, <1>5 DEF Titled
<1> QED BY <1>5, <1>6, <1>7, <1>8 DEF h, b

\* The images read as piece x of the body, by rung r.
ReadAs(d, x, r) == [d EXCEPT !.body = @ \cup {x}, !.reader = r]

\* A reading puts one piece into a body that had none.
LEMMA ReadAsReady ==
    ASSUME settings \in SettingsSpace, NEW j \in JobType, Unread(j), Uploaded(j, j.draft),
           NEW step \in {"read", "describe"}, NEW rung \in Rungs("vision"),
           NEW r \in AllRungs, r # NoRung, Credited(Heard(j.draft, step, rung), r),
           NEW x \in {"raw", "described"}
    PROVE  LET e == ReadAs(Heard(j.draft, step, rung), x, r)
           IN /\ Ready(j, e, r)
              /\ e.body \cap Readings = {x} /\ e.reader = r
              /\ e.attachments = j.draft.attachments /\ e.intent = j.draft.intent
<1> DEFINE d == j.draft
           h == Heard(d, step, rung)
           e == ReadAs(h, x, r)
<1>0. d \in DraftType /\ TaskOf(step) = "vision"
  BY DEF JobType, TaskOf
<1>1. /\ h \in DraftType /\ h.body = d.body /\ h.warnings = d.warnings
      /\ h.attachments = d.attachments /\ h.stamp = d.stamp /\ h.intent = d.intent
      /\ h.images = d.images /\ h.again = d.again
      /\ Sound(d) => \A a \in h.answered : a.rung \in Rungs(TaskOf(a.step))
      /\ Titled(h) <=> Titled(d)
  BY <1>0, HeardFields DEF Steps
<1>2. Credited(h, r)
  OBVIOUS
<1> HIDE DEF h
<1>3. h.body \cup {x} \in SUBSET (Files \cup Texts)
  BY <1>1 DEF DraftType, Texts
<1>4. /\ e \in DraftType /\ e.body = h.body \cup {x} /\ e.reader = r
      /\ e.warnings = h.warnings /\ e.attachments = h.attachments /\ e.stamp = h.stamp
      /\ e.intent = h.intent /\ e.images = h.images /\ e.answered = h.answered
      /\ e.again = h.again
  BY <1>1, <1>3 DEF ReadAs, DraftType
<1> HIDE DEF e
<1>5. Credited(e, r) /\ ~Titled(e)
  BY <1>1, <1>2, <1>4 DEF Credited, Titled, Unread
<1>6. d.body \cap Readings = {}
  BY DEF Unread, Sound
<1>7. e.body \cap Readings = {x}
  BY <1>1, <1>4, <1>6 DEF Readings
<1>8. Sound(e)
  <2>1. e.body \cap Files \subseteq e.attachments
    BY <1>1, <1>4, IngestAssumption DEF Texts, Unread, Sound
  <2>2. e.intent.words => "words" \in e.body
    BY <1>1, <1>4 DEF Unread, Sound
  <2>3. e.intent.verbatim => "tidied" \notin e.body
    BY <1>1, <1>4 DEF Unread, Sound
  <2>4. e.reader # NoRung /\ \E y \in Readings : e.body \cap Readings = {y}
    BY <1>4, <1>7 DEF Readings
  <2>5. e.stamp = NoRung
    BY <1>1, <1>4 DEF Unread
  <2>6. \A a \in e.answered : a.rung \in Rungs(TaskOf(a.step))
    BY <1>1, <1>4 DEF Unread
  <2> QED BY <2>1, <2>2, <2>3, <2>4, <2>5, <2>6 DEF Sound
<1>9. Ready(j, e, r)
  BY <1>1, <1>4, <1>5, <1>8 DEF Ready, Unread, Uploaded
<1>10. e = ReadAs(Heard(j.draft, step, rung), x, r)
  BY DEF e, h
<1> QED BY <1>1, <1>4, <1>7, <1>9, <1>10

\* _read_images: text was found, and is tidied or kept.
LEMMA ReadTextStands ==
    ASSUME settings \in SettingsSpace, job \in JobType, Standing(job),
           NEW rung \in Rungs("vision"), ReadText(rung)
    PROVE  \E k \in JobType : /\ job' = k /\ Standing(k) /\ k.kind = job.kind
                              /\ k.draft.attachments = job.draft.attachments
<1> DEFINE e == ReadAs(Heard(job.draft, "read", rung), "raw", rung)
<1>1. Unread(job) /\ Uploaded(job, job.draft)
  BY DEF ReadText, Standing
<1>2. rung \in AllRungs /\ rung # NoRung
  BY RungsOfLadders
<1>3. Credited(Heard(job.draft, "read", rung), rung)
  <2>1. job.draft \in DraftType /\ TaskOf("read") = "vision"
    BY DEF JobType, TaskOf
  <2> QED BY <2>1, HeardFields DEF Steps
<1>4. /\ Ready(job, e, rung) /\ e.body \cap Readings = {"raw"} /\ e.reader = rung
      /\ e.attachments = job.draft.attachments /\ e.intent = job.draft.intent
  BY <1>1, <1>2, <1>3, ReadAsReady
<1>5. job' = IF ~e.intent.verbatim /\ Available("chat")
             THEN [job EXCEPT !.at = "tidy", !.draft = e, !.rung = rung]
             ELSE Enriched(job, e, rung, Steps)
  BY DEF ReadText, Continue, ReadAs
<1> HIDE DEF e
<1>6. CASE ~e.intent.verbatim /\ Available("chat")
  <2>1. PICK k : k = [job EXCEPT !.at = "tidy", !.draft = e, !.rung = rung]
    OBVIOUS
  <2>2. e \in DraftType
    BY <1>4 DEF Ready
  <2>3. /\ k \in JobType /\ k.at = "tidy" /\ k.draft = e /\ k.rung = rung
        /\ k.kind = job.kind /\ k.told = job.told
    BY <1>2, <2>1, <2>2 DEF JobType
  <2>4. Ready(k, e, rung)
    BY <1>4, <2>3 DEF Ready, Uploaded
  <2>5. Standing(k)
    BY <1>2, <1>4, <1>6, <2>3, <2>4 DEF Standing, Steps
  <2> QED BY <1>4, <1>5, <1>6, <2>1, <2>3, <2>5
<1>7. CASE ~(~e.intent.verbatim /\ Available("chat"))
  <2>1. PICK k : k = Enriched(job, e, rung, Steps)
    OBVIOUS
  <2>2. Accounted(e, Steps)
    BY MissingIsSteps DEF Accounted
  <2> QED BY <1>4, <1>5, <1>7, <2>1, <2>2, EnrichedStands
<1> QED BY <1>6, <1>7

\* _read_images: no text was found, and the images will be described.
LEMMA ReadNothingStands ==
    ASSUME settings \in SettingsSpace, job \in JobType, Standing(job),
           NEW rung \in Rungs("vision"), ReadNothing(rung)
    PROVE  \E k \in JobType : /\ job' = k /\ Standing(k) /\ k.kind = job.kind
                              /\ k.draft.attachments = job.draft.attachments
<1> DEFINE h == Heard(job.draft, "read", rung)
           d == job.draft
<1>1. Unread(job) /\ Uploaded(job, job.draft)
  BY DEF ReadNothing, Standing
<1>2. rung \in AllRungs /\ rung # NoRung
  BY RungsOfLadders
<1>3. d \in DraftType /\ TaskOf("read") = "vision"
  BY DEF JobType, TaskOf
<1>4. /\ h \in DraftType /\ h.body = d.body /\ h.attachments = d.attachments
      /\ h.stamp = d.stamp /\ h.intent = d.intent /\ h.images = d.images
      /\ h.reader = d.reader /\ h.again = d.again
      /\ Sound(d) => \A a \in h.answered : a.rung \in Rungs(TaskOf(a.step))
      /\ Titled(h) <=> Titled(d)
      /\ Credited(h, rung)
  BY <1>3, HeardFields DEF Steps
<1>5. job.at = "read" /\ job' = [job EXCEPT !.at = "describe", !.rung = rung, !.draft = h]
  BY DEF ReadNothing, Continue
<1> HIDE DEF h
<1>6. PICK k : k = [job EXCEPT !.at = "describe", !.rung = rung, !.draft = h]
  OBVIOUS
<1>7. /\ k \in JobType /\ k.at = "describe" /\ k.draft = h /\ k.rung = rung
      /\ k.kind = job.kind /\ k.told = job.told
  BY <1>2, <1>4, <1>6 DEF JobType
<1>8. Sound(h)
  BY <1>1, <1>4 DEF Unread, Sound
<1>9. Unread(k) /\ Uploaded(k, h)
  BY <1>1, <1>4, <1>7, <1>8 DEF Unread, Uploaded
<1>10. Standing(k)
  BY <1>2, <1>4, <1>7, <1>9 DEF Standing, Steps
<1> QED BY <1>4, <1>5, <1>6, <1>7, <1>10

\* _describe: the description is stamped for the rung that found no text.
LEMMA DescribedStands ==
    ASSUME settings \in SettingsSpace, job \in JobType, Standing(job),
           NEW rung \in Rungs("vision"), Described(rung)
    PROVE  \E k \in JobType : /\ job' = k /\ Standing(k) /\ k.kind = job.kind
                              /\ k.draft.attachments = job.draft.attachments
<1> DEFINE e == ReadAs(Heard(job.draft, "describe", rung), "described", job.rung)
<1>1. Unread(job) /\ Uploaded(job, job.draft) /\ job.rung # NoRung /\ Credited(job.draft, job.rung)
  BY DEF Described, Standing
<1>2. job.rung \in AllRungs
  BY <1>1 DEF JobType
<1>3. Credited(Heard(job.draft, "describe", rung), job.rung)
  <2>1. job.draft \in DraftType /\ TaskOf("describe") = "vision"
    BY DEF JobType, TaskOf
  <2> QED BY <1>1, <2>1, HeardFields DEF Steps
<1>4. /\ Ready(job, e, job.rung) /\ e.attachments = job.draft.attachments
  BY <1>1, <1>2, <1>3, ReadAsReady
<1>5. job' = Enriched(job, e, job.rung, Steps)
  BY DEF Described, Continue, ReadAs
<1> HIDE DEF e
<1>6. PICK k : k = Enriched(job, e, job.rung, Steps)
  OBVIOUS
<1>7. Accounted(e, Steps)
  BY MissingIsSteps DEF Accounted
<1> QED BY <1>4, <1>5, <1>6, <1>7, EnrichedStands

\* The body the tidied transcription replaces the raw one in.
TidiedInto(d) == [d EXCEPT !.body = (@ \ {"raw"}) \cup {"tidied"}]

\* _tidy
LEMMA TidiedStands ==
    ASSUME settings \in SettingsSpace, job \in JobType, Standing(job),
           NEW rung \in Rungs("chat"), Tidied(rung)
    PROVE  \E k \in JobType : /\ job' = k /\ Standing(k) /\ k.kind = job.kind
                              /\ k.draft.attachments = job.draft.attachments
<1> DEFINE d == job.draft
           e == TidiedInto(d)
<1>1. /\ Ready(job, d, job.rung) /\ d.body \cap Readings = {"raw"}
      /\ d.reader # NoRung /\ ~d.intent.verbatim
  BY DEF Tidied, Standing
<1>2. d \in DraftType
  BY DEF JobType
<1>3. (d.body \ {"raw"}) \cup {"tidied"} \in SUBSET (Files \cup Texts)
  BY <1>2 DEF DraftType, Texts
<1>4. /\ e \in DraftType /\ e.body = (d.body \ {"raw"}) \cup {"tidied"}
      /\ e.warnings = d.warnings /\ e.attachments = d.attachments /\ e.stamp = d.stamp
      /\ e.intent = d.intent /\ e.images = d.images /\ e.answered = d.answered
      /\ e.reader = d.reader /\ e.again = d.again
  BY <1>2, <1>3 DEF TidiedInto, DraftType
<1>5. job' = Enriched(job, e, job.rung, Steps)
  BY DEF Tidied, Continue, TidiedInto
<1> HIDE DEF e
<1>6. (\A r : Credited(e, r) <=> Credited(d, r)) /\ (Titled(e) <=> Titled(d))
  BY <1>4 DEF Credited, Titled
<1>7. "raw" \notin Files /\ "tidied" \notin Files
  BY IngestAssumption DEF Texts
<1>8. Sound(e)
  <2>1. Sound(d)
    BY <1>1 DEF Ready
  <2>2. e.body \cap Files \subseteq e.attachments
    BY <1>4, <1>7, <2>1 DEF Sound
  <2>3. e.intent.words => "words" \in e.body
    BY <1>4, <2>1 DEF Sound
  <2>4. e.reader # NoRung /\ e.body \cap Readings = {"tidied"}
    BY <1>1, <1>4 DEF Readings
  <2>5. "tidied" \in Readings
    BY DEF Readings
  <2> QED BY <1>1, <1>4, <1>6, <2>1, <2>2, <2>3, <2>4, <2>5 DEF Sound
<1>9. job.kind = "again" => e.attachments \subseteq e.body
  <2>1. "raw" \notin d.attachments
    BY <1>2, <1>7 DEF DraftType
  <2> QED BY <1>1, <1>4, <2>1 DEF Ready
<1>10. Ready(job, e, job.rung)
  BY <1>1, <1>4, <1>6, <1>8, <1>9 DEF Ready, Uploaded
<1>11. PICK k : k = Enriched(job, e, job.rung, Steps)
  OBVIOUS
<1>12. Accounted(e, Steps)
  BY MissingIsSteps DEF Accounted
<1> QED BY <1>4, <1>5, <1>10, <1>11, <1>12, EnrichedStands

\* _tidy failed, and the raw transcription stays.
LEMMA UntidiedStands ==
    ASSUME settings \in SettingsSpace, job \in JobType, Standing(job), Untidied
    PROVE  \E k \in JobType : /\ job' = k /\ Standing(k) /\ k.kind = job.kind
                              /\ k.draft.attachments = job.draft.attachments
<1>1. Ready(job, job.draft, job.rung)
  BY DEF Untidied, Standing
<1>2. PICK k : k = Enriched(job, job.draft, job.rung, Steps)
  OBVIOUS
<1>3. job' = k
  BY <1>2 DEF Untidied, Continue
<1>4. Accounted(job.draft, Steps)
  BY MissingIsSteps DEF Accounted
<1> QED BY <1>1, <1>2, <1>3, <1>4, EnrichedStands

\* A generated part, or the knowledge that its answer was blank.
Generating(d, step) ==
    CASE step = "title" -> [d EXCEPT !.title = "generated"]
      [] step = "tags"  -> [d EXCEPT !.tags = TRUE]
      [] OTHER          -> [d EXCEPT !.summary = TRUE]
Blanking(d, step) == [d EXCEPT !.blank = @ \cup {step}]

\* A generated part is no longer missing, and nothing else changes.
LEMMA GeneratingFields ==
    ASSUME NEW d \in DraftType, NEW step \in Steps
    PROVE  /\ Generating(d, step) \in DraftType
           /\ Missing(Generating(d, step)) \subseteq Missing(d) \ {step}
           /\ Generating(d, step).body = d.body
           /\ Generating(d, step).warnings = d.warnings
           /\ Generating(d, step).attachments = d.attachments
           /\ Generating(d, step).stamp = d.stamp
           /\ Generating(d, step).intent = d.intent
           /\ Generating(d, step).images = d.images
           /\ Generating(d, step).reader = d.reader
           /\ Generating(d, step).answered = d.answered
           /\ Generating(d, step).blank = d.blank
           /\ Generating(d, step).again = d.again
<1> DEFINE e == Generating(d, step)
<1>1. CASE step = "title"
  <2>1. /\ e \in DraftType /\ e.title = "generated" /\ e.tags = d.tags /\ e.summary = d.summary
        /\ e.body = d.body /\ e.warnings = d.warnings /\ e.attachments = d.attachments
        /\ e.stamp = d.stamp /\ e.intent = d.intent /\ e.images = d.images
        /\ e.reader = d.reader /\ e.answered = d.answered /\ e.blank = d.blank
        /\ e.again = d.again
    BY <1>1 DEF Generating, DraftType
  <2> HIDE DEF e
  <2>2. Missing(e) \subseteq Missing(d) \ {step}
    BY <1>1, <2>1 DEF Missing, Steps
  <2> QED BY <2>1, <2>2 DEF e
<1>2. CASE step = "tags"
  <2>1. /\ e \in DraftType /\ e.tags /\ e.title = d.title /\ e.summary = d.summary
        /\ e.body = d.body /\ e.warnings = d.warnings /\ e.attachments = d.attachments
        /\ e.stamp = d.stamp /\ e.intent = d.intent /\ e.images = d.images
        /\ e.reader = d.reader /\ e.answered = d.answered /\ e.blank = d.blank
        /\ e.again = d.again
    BY <1>2 DEF Generating, DraftType
  <2> HIDE DEF e
  <2>2. Missing(e) \subseteq Missing(d) \ {step}
    BY <1>2, <2>1 DEF Missing, Steps
  <2> QED BY <2>1, <2>2 DEF e
<1>3. CASE step = "summary"
  <2>1. /\ e \in DraftType /\ e.summary /\ e.title = d.title /\ e.tags = d.tags
        /\ e.body = d.body /\ e.warnings = d.warnings /\ e.attachments = d.attachments
        /\ e.stamp = d.stamp /\ e.intent = d.intent /\ e.images = d.images
        /\ e.reader = d.reader /\ e.answered = d.answered /\ e.blank = d.blank
        /\ e.again = d.again
    BY <1>3 DEF Generating, DraftType
  <2> HIDE DEF e
  <2>2. Missing(e) \subseteq Missing(d) \ {step}
    BY <1>3, <2>1 DEF Missing, Steps
  <2> QED BY <2>1, <2>2 DEF e
<1> QED BY <1>1, <1>2, <1>3 DEF Steps

\* A blank answer is remembered, and nothing else changes.
LEMMA BlankingFields ==
    ASSUME NEW d \in DraftType, NEW step \in Steps
    PROVE  /\ Blanking(d, step) \in DraftType
           /\ Missing(Blanking(d, step)) = Missing(d)
           /\ Blanking(d, step).body = d.body
           /\ Blanking(d, step).warnings = d.warnings
           /\ Blanking(d, step).attachments = d.attachments
           /\ Blanking(d, step).stamp = d.stamp
           /\ Blanking(d, step).intent = d.intent
           /\ Blanking(d, step).images = d.images
           /\ Blanking(d, step).reader = d.reader
           /\ Blanking(d, step).answered = d.answered
           /\ Blanking(d, step).blank = d.blank \cup {step}
           /\ Blanking(d, step).again = d.again
<1> DEFINE e == Blanking(d, step)
<1>1. d.blank \cup {step} \in SUBSET Steps
  BY DEF DraftType
<1>2. /\ e \in DraftType /\ e.summary = d.summary /\ e.title = d.title /\ e.tags = d.tags
      /\ e.body = d.body /\ e.warnings = d.warnings /\ e.attachments = d.attachments
      /\ e.stamp = d.stamp /\ e.intent = d.intent /\ e.images = d.images
      /\ e.reader = d.reader /\ e.answered = d.answered /\ e.blank = d.blank \cup {step}
      /\ e.again = d.again
  BY <1>1 DEF Blanking, DraftType
<1> HIDE DEF e
<1>3. Missing(e) = Missing(d)
  BY <1>2, SameMissing
<1> QED BY <1>2, <1>3 DEF e

\* One part is done with: generated, or blank.
LEMMA PartReady ==
    ASSUME NEW j, NEW d, NEW r, Ready(j, d, r), NEW step \in Steps,
           Accounted(d, {step} \cup After(step)),
           NEW e \in {Generating(d, step), Blanking(d, step)}
    PROVE  Ready(j, e, r) /\ Accounted(e, After(step)) /\ e.attachments = d.attachments
<1>0. d \in DraftType
  BY DEF Ready
<1>1. /\ e \in DraftType /\ e.body = d.body /\ e.warnings = d.warnings
      /\ e.attachments = d.attachments /\ e.stamp = d.stamp /\ e.intent = d.intent
      /\ e.images = d.images /\ e.reader = d.reader /\ e.answered = d.answered
      /\ e.again = d.again
      /\ Missing(e) \ {step} \subseteq Missing(d) /\ d.blank \subseteq e.blank
      /\ step \in Missing(e) => step \in e.blank
  <2>1. CASE e = Generating(d, step)
    BY <1>0, <2>1, GeneratingFields
  <2>2. CASE e = Blanking(d, step)
    BY <1>0, <2>2, BlankingFields
  <2> QED BY <2>1, <2>2
<1>2. (\A x : Credited(e, x) <=> Credited(d, x)) /\ (Titled(e) <=> Titled(d))
  BY <1>1 DEF Credited, Titled
<1>3. Sound(e)
  BY <1>1, <1>2 DEF Ready, Sound
<1>4. Ready(j, e, r)
  BY <1>1, <1>2, <1>3 DEF Ready, Uploaded
<1>5. Accounted(e, After(step))
  BY <1>1 DEF Accounted
<1> QED BY <1>1, <1>4, <1>5

\* A title or tags are stamped for, unless a rung already is.
LEMMA HeardReady ==
    ASSUME settings \in SettingsSpace, NEW j \in JobType, Ready(j, j.draft, j.rung),
           NEW step \in {"title", "tags"}, NEW rung \in Rungs(TaskOf(step)),
           Accounted(j.draft, {step} \cup After(step)),
           NEW r, r = IF j.rung = NoRung THEN rung ELSE j.rung
    PROVE  LET h == Heard(j.draft, step, rung)
           IN /\ Ready(j, h, r) /\ Accounted(h, {step} \cup After(step))
              /\ h.attachments = j.draft.attachments
<1> DEFINE d == j.draft
           h == Heard(d, step, rung)
<1>1. d \in DraftType /\ rung \in AllRungs /\ rung # NoRung /\ r # NoRung
  BY RungsOfLadders DEF JobType
<1>2. /\ h \in DraftType /\ h.body = d.body /\ h.warnings = d.warnings
      /\ h.attachments = d.attachments /\ h.stamp = d.stamp /\ h.intent = d.intent
      /\ h.images = d.images /\ h.reader = d.reader /\ h.again = d.again
      /\ h.title = d.title /\ h.tags = d.tags /\ h.summary = d.summary /\ h.blank = d.blank
      /\ Sound(d) => \A a \in h.answered : a.rung \in Rungs(TaskOf(a.step))
      /\ \A x : Credited(h, x) <=> Credited(d, x) \/ x = rung
  BY <1>1, HeardFields DEF Steps
<1> HIDE DEF h
<1>3. Sound(h)
  BY <1>2 DEF Ready, Sound
<1>4. Ready(j, h, r)
  BY <1>1, <1>2, <1>3 DEF Ready, Uploaded
<1>5. Missing(h) = Missing(d)
  BY <1>2, SameMissing
<1>6. Accounted(h, {step} \cup After(step))
  BY <1>2, <1>5 DEF Accounted
<1> QED BY <1>2, <1>4, <1>6 DEF h

\* _generate gave something.
LEMMA GeneratedStands ==
    ASSUME settings \in SettingsSpace, job \in JobType, Standing(job),
           NEW rung, Generated(rung)
    PROVE  \E k \in JobType : /\ job' = k /\ Standing(k) /\ k.kind = job.kind
                              /\ k.draft.attachments = job.draft.attachments
<1>1. PICK step \in Steps : step = job.at
  BY DEF Generated
<1>2. Ready(job, job.draft, job.rung) /\ Accounted(job.draft, {step} \cup After(step))
  BY <1>1 DEF Standing
<1>3. rung \in Rungs(TaskOf(step))
  BY <1>1 DEF Generated
<1>4. CASE step = "summary"
  <2>1. PICK e : e = Generating(job.draft, step)
    OBVIOUS
  <2>2. job' = Enriched(job, e, job.rung, After(step))
    BY <1>1, <1>4, <2>1 DEF Generated, Continue, Generating
  <2>3. Ready(job, e, job.rung) /\ Accounted(e, After(step)) /\ e.attachments = job.draft.attachments
    BY <1>2, <2>1, PartReady
  <2>4. After(step) \subseteq Steps
    BY DEF After, Steps
  <2>5. PICK k : k = Enriched(job, e, job.rung, After(step))
    OBVIOUS
  <2> QED BY <2>2, <2>3, <2>4, <2>5, EnrichedStands
<1>5. CASE step \in {"title", "tags"}
  <2>1. PICK r : r = IF job.rung = NoRung THEN rung ELSE job.rung
    OBVIOUS
  <2>2. PICK h : h = Heard(job.draft, step, rung)
    OBVIOUS
  <2>3. /\ Ready(job, h, r) /\ Accounted(h, {step} \cup After(step))
        /\ h.attachments = job.draft.attachments
    BY <1>2, <1>3, <1>5, <2>1, <2>2, HeardReady
  <2>4. PICK e : e = Generating(h, step)
    OBVIOUS
  <2>5. Ready(job, e, r) /\ Accounted(e, After(step)) /\ e.attachments = h.attachments
    BY <2>3, <2>4, PartReady
  <2>6. job' = Enriched(job, e, r, After(step))
    BY <1>1, <1>5, <2>1, <2>2, <2>4 DEF Generated, Continue, Generating
  <2>7. After(step) \subseteq Steps
    BY DEF After, Steps
  <2>8. PICK k : k = Enriched(job, e, r, After(step))
    OBVIOUS
  <2> QED BY <2>3, <2>5, <2>6, <2>7, <2>8, EnrichedStands
<1> QED BY <1>4, <1>5 DEF Steps

\* _generate gave nothing usable.
LEMMA GeneratedNothingStands ==
    ASSUME settings \in SettingsSpace, job \in JobType, Standing(job),
           NEW rung, GeneratedNothing(rung)
    PROVE  \E k \in JobType : /\ job' = k /\ Standing(k) /\ k.kind = job.kind
                              /\ k.draft.attachments = job.draft.attachments
<1>1. PICK step \in {"title", "tags"} : step = job.at
  BY DEF GeneratedNothing
<1>2. Ready(job, job.draft, job.rung) /\ Accounted(job.draft, {step} \cup After(step))
  BY <1>1 DEF Standing, Steps
<1>3. rung \in Rungs(TaskOf(step))
  BY <1>1 DEF GeneratedNothing
<1>4. PICK r : r = IF job.rung = NoRung THEN rung ELSE job.rung
  OBVIOUS
<1>5. PICK h : h = Heard(job.draft, step, rung)
  OBVIOUS
<1>6. /\ Ready(job, h, r) /\ Accounted(h, {step} \cup After(step))
      /\ h.attachments = job.draft.attachments
  BY <1>2, <1>3, <1>4, <1>5, HeardReady
<1>7. PICK e : e = Blanking(h, step)
  OBVIOUS
<1>8. Ready(job, e, r) /\ Accounted(e, After(step)) /\ e.attachments = h.attachments
  <2>1. step \in Steps
    BY DEF Steps
  <2> QED BY <1>6, <1>7, <2>1, PartReady
<1>9. job' = Enriched(job, e, r, After(step))
  BY <1>1, <1>4, <1>5, <1>7 DEF GeneratedNothing, Continue, Blanking
<1>10. After(step) \subseteq Steps
  BY DEF After, Steps
<1>11. PICK k : k = Enriched(job, e, r, After(step))
  OBVIOUS
<1> QED BY <1>6, <1>8, <1>9, <1>10, <1>11, EnrichedStands

\* A call failed, and the draft carries the warning of its step.
LEMMA FailedStands ==
    ASSUME settings \in SettingsSpace, job \in JobType, Standing(job), CallFailed
    PROVE  \E k \in JobType : /\ job' = k /\ Standing(k) /\ k.kind = job.kind
                              /\ k.draft.attachments = job.draft.attachments
<1>1. PICK step : step = job.at
  OBVIOUS
<1>2. PICK d : d = job.draft
  OBVIOUS
<1>3. step \in {"read", "describe"} \cup Steps /\ d \in DraftType
  BY <1>1, <1>2 DEF CallFailed, JobType
<1>4. PICK e : e = Cautioned(d, {step})
  OBVIOUS
<1>5. /\ e \in DraftType /\ e.warnings = d.warnings \cup {step} /\ e.blank = d.blank
      /\ e.body = d.body /\ e.attachments = d.attachments /\ e.stamp = d.stamp
      /\ e.intent = d.intent /\ e.images = d.images /\ e.reader = d.reader
      /\ e.answered = d.answered /\ e.again = d.again
      /\ e.title = d.title /\ e.tags = d.tags /\ e.summary = d.summary
  BY <1>3, <1>4, WarnedFields
<1>6. CASE step \in Steps
  <2>1. job' = Enriched(job, e, job.rung, After(step))
    BY <1>1, <1>2, <1>4, <1>6 DEF CallFailed, Continue, Warned, Cautioned
  <2>2. Ready(job, d, job.rung) /\ Accounted(d, {step} \cup After(step))
    BY <1>1, <1>2, <1>6 DEF Standing
  <2>3. Ready(job, e, job.rung)
    BY <1>3, <1>4, <2>2, WarningKeepsReady
  <2>4. Missing(e) = Missing(d)
    BY <1>5, SameMissing
  <2>5. Accounted(e, After(step))
    BY <1>5, <2>2, <2>4 DEF Accounted
  <2>6. After(step) \subseteq Steps
    BY DEF After, Steps
  <2>7. PICK k : k = Enriched(job, e, job.rung, After(step))
    OBVIOUS
  <2> QED BY <1>2, <1>5, <2>1, <2>3, <2>5, <2>6, <2>7, EnrichedStands
<1>7. CASE step \in {"read", "describe"}
  <2>1. job' = Enriched(job, e, NoRung, Steps)
    BY <1>1, <1>2, <1>4, <1>7 DEF CallFailed, Continue, Warned, Cautioned, Steps
  <2>2. Unread(job) /\ Uploaded(job, d)
    BY <1>1, <1>2, <1>7 DEF Standing
  <2>3. Sound(e) /\ ~Titled(e)
    BY <1>2, <1>5, <2>2 DEF Unread, Sound, Titled
  <2>4. Ready(job, e, NoRung)
    BY <1>2, <1>5, <1>7, <2>2, <2>3 DEF Ready, Unread, Uploaded
  <2>5. Accounted(e, Steps)
    BY MissingIsSteps DEF Accounted
  <2>6. PICK k : k = Enriched(job, e, NoRung, Steps)
    OBVIOUS
  <2> QED BY <1>2, <1>5, <2>1, <2>4, <2>5, <2>6, EnrichedStands
<1> QED BY <1>3, <1>6, <1>7

\* _regenerate: what was generated is cleared, and the rest of the card stays.
LEMMA RegenerateStands ==
    ASSUME settings \in SettingsSpace, NEW c, Kept(c), Regenerate(c)
    PROVE  \E k \in JobType : job' = k /\ Standing(k) /\ k.kind = "again"
<1> DEFINE e == [c EXCEPT !.title = "none", !.tags = FALSE, !.summary = FALSE,
                          !.warnings = {}, !.blank = {}, !.again = TRUE]
           i == [Idle EXCEPT !.kind = "again"]
<1>1. c \in DraftType
  BY DEF Kept
<1>2. /\ e \in DraftType /\ e.body = c.body /\ e.attachments = c.attachments
      /\ e.stamp = c.stamp /\ e.intent = c.intent /\ e.images = c.images
      /\ e.reader = c.reader /\ e.answered = c.answered /\ e.again
  BY <1>1 DEF DraftType
<1>3. job' = Enriched(i, e, NoRung, Steps)
  BY DEF Regenerate
<1>4. i \in JobType /\ i.kind = "again"
  BY IdleStands DEF JobType
<1> HIDE DEF e, i
<1>5. (\A x : Credited(e, x) <=> Credited(c, x)) /\ (Titled(e) <=> Titled(c))
  BY <1>2 DEF Credited, Titled
<1>6. Sound(e)
  BY <1>2, <1>5 DEF Kept, Sound
<1>7. Ready(i, e, NoRung)
  BY <1>2, <1>4, <1>5, <1>6 DEF Ready, Kept
<1>8. Accounted(e, Steps)
  BY MissingIsSteps DEF Accounted
<1>9. PICK k : k = Enriched(i, e, NoRung, Steps)
  OBVIOUS
<1> QED BY <1>3, <1>4, <1>7, <1>8, <1>9, EnrichedStands

-----------------------------------------------------------------------------
(* The cards, and the files of the vault. *)

\* A new title leaves everything else of a card as it was.
LEMMA RetitledKeeps ==
    ASSUME NEW c, Kept(c), Told(c), NEW e, e = [c EXCEPT !.title = "given"]
    PROVE  Kept(e) /\ Told(e) /\ e.body = c.body
<1>1. c \in DraftType
  BY DEF Kept
<1>2. /\ e \in DraftType /\ e.title = "given" /\ e.tags = c.tags /\ e.summary = c.summary
      /\ e.body = c.body /\ e.warnings = c.warnings /\ e.attachments = c.attachments
      /\ e.stamp = c.stamp /\ e.intent = c.intent /\ e.images = c.images
      /\ e.reader = c.reader /\ e.answered = c.answered /\ e.blank = c.blank
      /\ e.again = c.again
  BY <1>1 DEF DraftType
<1>3. (\A x : Credited(e, x) <=> Credited(c, x)) /\ (Titled(e) <=> Titled(c))
  BY <1>2 DEF Credited, Titled
<1>4. Sound(e)
  BY <1>2, <1>3 DEF Kept, Sound
<1>5. Kept(e)
  BY <1>2, <1>3, <1>4 DEF Kept
<1>6. Missing(e) \subseteq Missing(c)
  BY <1>2 DEF Missing, Steps
<1>7. Told(e)
  BY <1>2, <1>6 DEF Told
<1> QED BY <1>2, <1>5, <1>7

\* The note of a card holds what the card held.
LEMMA NoteKeeps ==
    ASSUME NEW c, Kept(c)
    PROVE  Kept(AsNote(c)) /\ AsNote(c).body = c.body
<1> DEFINE e == AsNote(c)
<1>1. c \in DraftType
  BY DEF Kept
<1>2. /\ e \in DraftType /\ e.body = c.body /\ e.attachments = c.attachments
      /\ e.stamp = c.stamp /\ e.intent = c.intent /\ e.reader = c.reader
      /\ e.answered = c.answered /\ e.again = c.again
  BY <1>1 DEF AsNote, DraftType
<1> HIDE DEF e
<1>3. (\A x : Credited(e, x) <=> Credited(c, x)) /\ (Titled(e) <=> Titled(c))
  BY <1>2 DEF Credited, Titled
<1>4. Sound(e)
  BY <1>2, <1>3 DEF Kept, Sound
<1>5. Kept(e)
  BY <1>2, <1>3, <1>4 DEF Kept
<1> QED BY <1>2, <1>5 DEF e

\* The settings are read once, at startup.
LEMMA SettingsStay == [Next]_vars => settings' = settings
<1> USE DEF Continue
<1> SUFFICES ASSUME [Next]_vars PROVE settings' = settings
  OBVIOUS
<1>1. ASSUME NEW images, NEW intent, SendImages(images, intent) PROVE settings' = settings
  BY <1>1 DEF SendImages
<1>2. CASE Forward
  BY <1>2 DEF Forward
<1>3. ASSUME NEW f, Stored(f) \/ StoredUnheard(f) PROVE settings' = settings
  BY <1>3 DEF Stored, StoredUnheard
<1>4. CASE UploadRefused
  BY <1>4 DEF UploadRefused
<1>5. ASSUME NEW rung, ReadText(rung) \/ ReadNothing(rung) \/ Described(rung)
      PROVE  settings' = settings
  BY <1>5 DEF ReadText, ReadNothing, Described
<1>6. ASSUME NEW rung, Tidied(rung) \/ Generated(rung) \/ GeneratedNothing(rung)
      PROVE  settings' = settings
  BY <1>6 DEF Tidied, Generated, GeneratedNothing
<1>7. CASE Untidied \/ CallFailed \/ QuotaSpent
  BY <1>7 DEF Untidied, CallFailed, QuotaSpent
<1>8. CASE Present \/ PresentFailed
  BY <1>8 DEF Present, PresentFailed
<1>9. ASSUME NEW c, NEW heard, Save(c, heard) PROVE settings' = settings
  BY <1>9 DEF Save
<1>10. ASSUME NEW c, Drop(c) \/ Retitle(c) \/ Regenerate(c) PROVE settings' = settings
  BY <1>10 DEF Drop, Retitle, Regenerate
<1>11. CASE UNCHANGED vars
  BY <1>11 DEF vars
<1> QED BY <1>1, <1>2, <1>3, <1>4, <1>5, <1>6, <1>7, <1>8, <1>9, <1>10, <1>11 DEF Next

\* Under the same settings a draft and a job stand as they stood.
LEMMA SameSettings ==
    ASSUME settings' = settings, NEW d, NEW j
    PROVE  /\ Kept(d)' <=> Kept(d)
           /\ Told(d)' <=> Told(d)
           /\ Standing(j)' <=> Standing(j)
           /\ JobType' = JobType
<1>1. \A task : Rungs(task)' = Rungs(task)
  BY DEF Rungs
<1>2. AllRungs' = AllRungs
  BY <1>1 DEF AllRungs
<1>3. DraftType' = DraftType
  BY <1>2 DEF DraftType
<1>4. JobType' = JobType
  BY <1>2, <1>3 DEF JobType
<1>5. \A e : Sound(e)' <=> Sound(e)
  BY <1>1 DEF Sound, Credited
<1>6. \A e : Kept(e)' <=> Kept(e)
  BY <1>3, <1>5 DEF Kept, Titled
<1>7. \A e : Told(e)' <=> Told(e)
  BY DEF Told, Missing
<1>8. \A e : Unread(e)' <=> Unread(e)
  BY <1>5 DEF Unread, Titled
<1>9. \A k, e, r : Ready(k, e, r)' <=> Ready(k, e, r)
  BY <1>2, <1>3, <1>5 DEF Ready, Uploaded, Credited, Titled
<1>10. Standing(j)' <=> Standing(j)
  BY <1>6, <1>7, <1>8, <1>9 DEF Standing, Uploaded, Credited, Accounted, Missing
<1> QED BY <1>4, <1>6, <1>7, <1>10

-----------------------------------------------------------------------------
(* The steps. *)

\* What a step leaves of the job, the cards, the notes and the files.
Outcome ==
    /\ \E k \in JobType : job' = k /\ Standing(k)
    /\ \A c \in cards' : Kept(c) /\ Told(c)
    /\ \A n \in notes' : Kept(n)
    /\ Placed'

\* A step of the pipeline proper touches neither cards nor notes nor files.
LEMMA PipelineOutcome ==
    ASSUME IngestInv,
           \E k \in JobType : /\ job' = k /\ Standing(k) /\ k.kind = job.kind
                              /\ k.draft.attachments = job.draft.attachments,
           UNCHANGED <<settings, cards, media, notes, astray>>
    PROVE  Outcome
<1>1. Lost(job)' = Lost(job)
  BY DEF Lost
<1>2. Placed'
  BY <1>1 DEF IngestInv, Placed
<1> QED BY <1>2 DEF IngestInv, Outcome

\* Every step of a capture keeps the invariant.
LEMMA NextIngest == IngestInv /\ [Next]_vars => IngestInv'
<1> SUFFICES ASSUME IngestInv, [Next]_vars PROVE IngestInv'
  OBVIOUS
<1>0. /\ settings \in SettingsSpace /\ job \in JobType /\ Standing(job) /\ Placed
      /\ settings' = settings
      /\ \A c \in cards : Kept(c) /\ Told(c)
      /\ \A n \in notes : Kept(n)
  BY SettingsStay DEF IngestInv
<1>1. ASSUME NEW images \in SUBSET (Files \ (media \cup unheard)), NEW intent \in Captions,
             SendImages(images, intent)
      PROVE  Outcome
  <2>1. \E k \in JobType : job' = k /\ Standing(k) /\ k.draft.attachments = {}
    BY <1>1, SendStands
  <2>2. job = Idle /\ UNCHANGED <<cards, media, notes, astray>>
    BY <1>0, <1>1 DEF SendImages, Standing
  <2>3. Lost(job) = {}
    BY <2>2, IdleStands DEF Lost
  <2>4. Placed'
    BY <1>0, <2>2, <2>3 DEF Placed
  <2> QED BY <1>0, <2>1, <2>2, <2>4 DEF Outcome
<1>2. ASSUME Forward PROVE Outcome
  <2>1. \E k \in JobType : job' = k /\ Standing(k)
    BY <1>0, <1>2, ForwardStands
  <2>2. job = Idle /\ UNCHANGED <<cards, media, notes, astray>>
    BY <1>0, <1>2 DEF Forward, Standing
  <2>3. Lost(job) = {}
    BY <2>2, IdleStands DEF Lost
  <2>4. Placed'
    BY <1>0, <2>2, <2>3 DEF Placed
  <2> QED BY <1>0, <2>1, <2>2, <2>4 DEF Outcome
<1>3. ASSUME NEW f \in Files, Stored(f) PROVE Outcome
  <2>1. PICK k \in JobType : /\ job' = k /\ Standing(k) /\ k.kind = job.kind
                             /\ k.draft.attachments = job.draft.attachments \cup {f}
    BY <1>0, <1>3, StoredStands
  <2>2. job.kind = "images"
    BY <1>0, <1>3 DEF Stored, Standing, Unread
  <2>3. media' = media \cup {f} /\ UNCHANGED <<cards, notes, astray>>
    BY <1>3 DEF Stored
  <2>4. Lost(job)' = Lost(job) \cup {f}
    BY <2>1, <2>2 DEF Lost
  <2>5. Placed'
    BY <1>0, <2>3, <2>4 DEF Placed
  <2> QED BY <1>0, <2>1, <2>3, <2>5 DEF Outcome
<1>4. ASSUME NEW f \in Files, StoredUnheard(f) PROVE Outcome
  <2>1. PICK k \in JobType : /\ job' = k /\ Standing(k) /\ k.kind = job.kind
                             /\ k.draft.attachments = job.draft.attachments
    BY <1>0, <1>4, RefusedStands DEF StoredUnheard
  <2>2. UNCHANGED <<cards, media, notes, astray>>
    BY <1>4 DEF StoredUnheard
  <2>3. Lost(job)' = Lost(job)
    BY <2>1 DEF Lost
  <2>4. Placed'
    BY <1>0, <2>2, <2>3 DEF Placed
  <2> QED BY <1>0, <2>1, <2>2, <2>4 DEF Outcome
<1>5. ASSUME UploadRefused PROVE Outcome
  <2>1. UNCHANGED <<settings, cards, media, notes, astray>>
    BY <1>5 DEF UploadRefused
  <2>2. \E k \in JobType : /\ job' = k /\ Standing(k) /\ k.kind = job.kind
                           /\ k.draft.attachments = job.draft.attachments
    BY <1>0, <1>5, RefusedStands DEF UploadRefused
  <2> QED BY <2>1, <2>2, PipelineOutcome
<1>6. ASSUME NEW rung \in Rungs("vision"),
             ReadText(rung) \/ ReadNothing(rung) \/ Described(rung)
      PROVE  Outcome
  <2>1. UNCHANGED <<settings, cards, media, notes, astray>>
    BY <1>6 DEF ReadText, ReadNothing, Described, Continue
  <2>2. \E k \in JobType : /\ job' = k /\ Standing(k) /\ k.kind = job.kind
                           /\ k.draft.attachments = job.draft.attachments
    BY <1>0, <1>6, ReadTextStands, ReadNothingStands, DescribedStands
  <2> QED BY <2>1, <2>2, PipelineOutcome
<1>7. ASSUME NEW rung \in Rungs("chat"),
             Tidied(rung) \/ Generated(rung) \/ GeneratedNothing(rung)
      PROVE  Outcome
  <2>1. UNCHANGED <<settings, cards, media, notes, astray>>
    BY <1>7 DEF Tidied, Generated, GeneratedNothing, Continue
  <2>2. \E k \in JobType : /\ job' = k /\ Standing(k) /\ k.kind = job.kind
                           /\ k.draft.attachments = job.draft.attachments
    BY <1>0, <1>7, TidiedStands, GeneratedStands, GeneratedNothingStands
  <2> QED BY <2>1, <2>2, PipelineOutcome
<1>8. ASSUME Untidied \/ CallFailed PROVE Outcome
  <2>1. UNCHANGED <<settings, cards, media, notes, astray>>
    BY <1>8 DEF Untidied, CallFailed, Continue
  <2>2. \E k \in JobType : /\ job' = k /\ Standing(k) /\ k.kind = job.kind
                           /\ k.draft.attachments = job.draft.attachments
    BY <1>0, <1>8, UntidiedStands, FailedStands
  <2> QED BY <2>1, <2>2, PipelineOutcome
<1>9. ASSUME QuotaSpent \/ PresentFailed PROVE Outcome
  <2>1. /\ job' = Idle /\ astray' = astray \cup Lost(job)
        /\ UNCHANGED <<cards, media, notes>>
    BY <1>9 DEF QuotaSpent, PresentFailed
  <2>2. Placed'
    BY <1>0, <2>1 DEF Placed
  <2> QED BY <1>0, <2>1, <2>2, IdleStands DEF Outcome
<1>10. ASSUME Present PROVE Outcome
  <2>1. /\ job' = Idle /\ UNCHANGED <<media, notes, astray>>
        /\ cards' = IF IsEmpty(job.draft) THEN cards ELSE cards \cup {job.draft}
    BY <1>10 DEF Present
  <2>2. Kept(job.draft) /\ Told(job.draft)
    BY <1>0, <1>10 DEF Present, Standing
  <2>3. Lost(job) \subseteq job.draft.body
    BY <2>2 DEF Lost, Kept
  <2>4. IsEmpty(job.draft) => job.draft.body = {}
    BY DEF IsEmpty
  <2>5. PICK d : d = job.draft
    OBVIOUS
  <2>6. \A c \in cards' : Kept(c) /\ Told(c)
    BY <1>0, <2>1, <2>2, <2>5
  <2>7. media \ astray \subseteq d.body \cup UNION {c.body : c \in cards \cup notes}
    BY <1>0, <2>3, <2>5 DEF Placed
  <2>8. media' \subseteq Files
    BY <1>0, <2>1 DEF Placed
  <2>9. media \ astray \subseteq UNION {c.body : c \in cards' \cup notes}
    BY <2>1, <2>4, <2>5, <2>7
  <2>10. Placed'
    BY <2>1, <2>8, <2>9 DEF Placed
  <2> QED BY <1>0, <2>1, <2>6, <2>10, IdleStands DEF Outcome
<1>11. ASSUME NEW c \in cards, NEW heard \in BOOLEAN, Save(c, heard) PROVE Outcome
  <2>1. /\ notes' = notes \cup {AsNote(c)} /\ cards' \in {cards, cards \ {c}}
        /\ UNCHANGED <<job, media, astray>>
    BY <1>11 DEF Save
  <2>2. PICK n : n = AsNote(c)
    OBVIOUS
  <2>3. Kept(n) /\ n.body = c.body
    BY <1>0, <2>2, NoteKeeps
  <2>4. Lost(job)' = Lost(job)
    BY <2>1 DEF Lost
  <2>5. UNION {d.body : d \in cards \cup notes} \subseteq UNION {d.body : d \in cards' \cup notes'}
    BY <2>1, <2>2, <2>3
  <2>6. Placed'
    BY <1>0, <2>1, <2>4, <2>5 DEF Placed
  <2> QED BY <1>0, <2>1, <2>2, <2>3, <2>6 DEF Outcome
<1>12. ASSUME NEW c \in cards, Drop(c) PROVE Outcome
  <2>1. /\ cards' = cards \ {c} /\ astray' = astray \cup c.attachments
        /\ UNCHANGED <<job, media, notes>>
    BY <1>12 DEF Drop
  <2>2. Lost(job)' = Lost(job)
    BY <2>1 DEF Lost
  <2>3. c.body \cap media \subseteq c.attachments
    BY <1>0 DEF Placed, Kept, Sound
  <2>4. Placed'
    BY <1>0, <2>1, <2>2, <2>3 DEF Placed
  <2> QED BY <1>0, <2>1, <2>4 DEF Outcome
<1>13. ASSUME NEW c \in cards, Retitle(c) PROVE Outcome
  <2>1. PICK e : e = [c EXCEPT !.title = "given"]
    OBVIOUS
  <2>2. cards' = cards \cup {e} /\ UNCHANGED <<job, media, notes, astray>>
    BY <1>13, <2>1 DEF Retitle
  <2>3. Kept(e) /\ Told(e)
    BY <1>0, <2>1, RetitledKeeps
  <2>4. Lost(job)' = Lost(job)
    BY <2>2 DEF Lost
  <2>5. Placed'
    BY <1>0, <2>2, <2>4 DEF Placed
  <2> QED BY <1>0, <2>2, <2>3, <2>5 DEF Outcome
<1>14. ASSUME NEW c \in cards, Regenerate(c) PROVE Outcome
  <2>1. PICK k \in JobType : job' = k /\ Standing(k) /\ k.kind = "again"
    BY <1>0, <1>14, RegenerateStands
  <2>2. job = Idle /\ UNCHANGED <<cards, media, notes, astray>>
    BY <1>0, <1>14 DEF Regenerate, Standing
  <2>3. Lost(job) = {}
    BY <2>2, IdleStands DEF Lost
  <2>4. Placed'
    BY <1>0, <2>2, <2>3 DEF Placed
  <2> QED BY <1>0, <2>1, <2>2, <2>4 DEF Outcome
<1>15. ASSUME UNCHANGED vars PROVE Outcome
  <2>1. UNCHANGED <<settings, cards, media, notes, astray>> /\ job' = job
    BY <1>15 DEF vars
  <2>2. \E k \in JobType : /\ job' = k /\ Standing(k) /\ k.kind = job.kind
                           /\ k.draft.attachments = job.draft.attachments
    BY <1>0, <2>1
  <2>3. UNCHANGED <<settings, cards, media, notes, astray>>
    BY <2>1
  <2> QED BY <2>2, <2>3, PipelineOutcome
<1>16. Outcome
  <2>1. ASSUME \/ \E images \in SUBSET (Files \ (media \cup unheard)), intent \in Captions : SendImages(images, intent)
               \/ Forward
               \/ \E f \in Files : Stored(f)
               \/ \E f \in Files : StoredUnheard(f)
               \/ UploadRefused
        PROVE  Outcome
    BY <2>1, <1>1, <1>2, <1>3, <1>4, <1>5, Zenon
  <2>2. ASSUME \/ \E rung \in Rungs("vision") : ReadText(rung)
               \/ \E rung \in Rungs("vision") : ReadNothing(rung)
               \/ \E rung \in Rungs("vision") : Described(rung)
               \/ \E rung \in Rungs("chat") : Tidied(rung)
               \/ Untidied
               \/ \E rung \in Rungs("chat") : Generated(rung)
               \/ \E rung \in Rungs("chat") : GeneratedNothing(rung)
               \/ CallFailed
               \/ QuotaSpent
        PROVE  Outcome
    BY <2>2, <1>6, <1>7, <1>8, <1>9, Zenon
  <2>3. ASSUME \/ Present
               \/ PresentFailed
               \/ \E c \in cards, heard \in BOOLEAN : Save(c, heard)
               \/ \E c \in cards : Drop(c)
               \/ \E c \in cards : Retitle(c)
               \/ \E c \in cards : Regenerate(c)
        PROVE  Outcome
    BY <2>3, <1>9, <1>10, <1>11, <1>12, <1>13, <1>14, Zenon
  <2> QED BY <2>1, <2>2, <2>3, <1>15 DEF Next
<1>17. PICK k \in JobType : job' = k /\ Standing(k)
  BY <1>16 DEF Outcome
<1>18. job' \in JobType' /\ Standing(k)'
  BY <1>0, <1>17, SameSettings
<1>19. Standing(job)'
  BY <1>17, <1>18
<1>20. \A c \in cards' : Kept(c)' /\ Told(c)'
  BY <1>0, <1>16, SameSettings DEF Outcome
<1>21. \A n \in notes' : Kept(n)'
  BY <1>0, <1>16, SameSettings DEF Outcome
<1>22. settings' \in SettingsSpace
  BY <1>0
<1>23. Placed'
  BY <1>16 DEF Outcome
<1> QED BY <1>18, <1>19, <1>20, <1>21, <1>22, <1>23 DEF IngestInv

\* It holds before the first capture.
LEMMA InitIngest == Init => IngestInv
BY IdleStands DEF Init, IngestInv, Placed, Lost

\* And so it holds in every behaviour.
LEMMA IngestCorrect == Spec => []IngestInv
BY InitIngest, NextIngest, PTL DEF Spec

-----------------------------------------------------------------------------
(* What the drafts hold. *)

\* A body holds one reading if a rung is named for it, and else none.
LEMMA PiecesCounted ==
    ASSUME NEW d, Sound(d)
    PROVE  d.reader # NoRung <=> Cardinality(d.body \cap {"raw", "tidied", "described"}) = 1
<1>1. CASE d.reader = NoRung /\ d.body \cap Readings = {}
  BY <1>1, FS_EmptySet DEF Readings
<1>2. CASE d.reader # NoRung /\ \E x \in Readings : d.body \cap Readings = {x}
  <2>1. PICK x \in Readings : d.body \cap Readings = {x}
    BY <1>2
  <2>2. Cardinality({x}) = 1
    BY FS_Singleton
  <2> QED BY <1>2, <2>1, <2>2 DEF Readings
<1> QED BY <1>1, <1>2 DEF Sound

\* create.py:18-20, ingest.py:404-409: whatever fails and in whatever order, the
\* body of every card and note links each file it was given, a file whose upload
\* was answered belongs to some draft unless one was dropped with it, and a file
\* stored only by unanswered attempts is missing from its card with a warning.
THEOREM UploadsAreAlwaysReferenced == Spec => []UploadsAreReferenced
<1>1. IngestInv => UploadsAreReferenced
  <2> SUFFICES ASSUME IngestInv PROVE UploadsAreReferenced
    OBVIOUS
  <2>1. \A d \in Drafts : d.attachments \subseteq d.body
    BY DEF Drafts, IngestInv, Kept
  <2>2. Lost(job) \subseteq job.draft.attachments
    BY DEF Lost
  <2>3. media \ astray \subseteq job.draft.attachments \cup UNION {d.body : d \in Drafts}
    BY <2>2 DEF Drafts, IngestInv, Placed
  <2>4. ASSUME NEW c \in cards, NEW f \in c.images, ~c.again
        PROVE  f \in c.attachments \/ "upload" \in c.warnings
    BY <2>4 DEF IngestInv, Told
  <2> QED BY <2>1, <2>3, <2>4 DEF UploadsAreReferenced
<1> QED BY <1>1, IngestCorrect, PTL

\* ingest.py:287-292: a card or note holds what a model read from its images
\* exactly once, raw, tidied or described, beside the caption's own words, and
\* never tidied when it was asked for verbatim.
THEOREM ReadingsAreAlwaysKept == Spec => []WhatWasReadIsKept
<1>1. IngestInv => WhatWasReadIsKept
  <2> SUFFICES ASSUME IngestInv, NEW d \in Drafts
               PROVE  /\ d.intent.words => "words" \in d.body
                      /\ d.reader # NoRung <=>
                             Cardinality(d.body \cap {"raw", "tidied", "described"}) = 1
                      /\ d.intent.verbatim => "tidied" \notin d.body
    BY DEF WhatWasReadIsKept
  <2>1. Sound(d)
    BY DEF Drafts, IngestInv, Kept
  <2>2. d.reader # NoRung <=> Cardinality(d.body \cap {"raw", "tidied", "described"}) = 1
    BY <2>1, PiecesCounted
  <2> QED BY <2>1, <2>2 DEF Sound
<1> QED BY <1>1, IngestCorrect, PTL

\* factory.py:8-10: every name of a chain gives a rung or a reason.
LEMMA LaddersExplained ==
    ASSUME NEW s, NEW task \in Capabilities, NEW p \in ToSet(s.chains[task])
    PROVE  p \in {rung.provider : rung \in Ladder(s, task)}
                 \cup {x.provider : x \in Skipped(s, task)}
<1>1. CapabilityOf(task) = task
  BY DEF Capabilities, CapabilityOf
<1>2. CASE Gap(s, p, task) # "none"
  <2>1. [provider |-> p, why |-> Gap(s, p, task)] \in Skipped(s, task)
    BY <1>1, <1>2 DEF Skipped
  <2> QED BY <2>1
<1>3. CASE Gap(s, p, task) = "none"
  <2>1. PICK m : m \in ToSet(ModelsFor(s, p, task))
    BY <1>3 DEF Gap
  <2>2. PICK a : a = [provider |-> p, model |-> m]
    OBVIOUS
  <2>3. a \in Attempts(s, task) /\ a.provider = p
    BY <1>3, <2>1, <2>2 DEF Attempts, RungsOf
  <2>4. CASE p \in Clients(s)
    BY <1>1, <2>3, <2>4 DEF Ladder
  <2>5. CASE p \notin Clients(s)
    <3>1. p \in {x.provider : x \in Attempts(s, task)} \ Clients(s)
      BY <2>3, <2>5
    <3>2. PICK x : x = [provider |-> p, why |-> "client not built"]
      OBVIOUS
    <3>3. x \in Skipped(s, task) /\ x.provider = p
      BY <1>1, <3>1, <3>2 DEF Skipped
    <3> QED BY <3>3
  <2> QED BY <2>4, <2>5
<1> QED BY <1>2, <1>3

\* ingest.py:97-99: a card that lacks a file, a reading or a part that was asked
\* for says so, unless a model answered with nothing usable; and every provider
\* missing from a ladder has its reason.
THEOREM FailuresAreAlwaysTold == Spec => []FailuresAreTold
<1>1. IngestInv => FailuresAreTold
  <2> SUFFICES ASSUME IngestInv PROVE FailuresAreTold
    OBVIOUS
  <2>1. \A task \in Capabilities : \A p \in ToSet(settings.chains[task]) :
           p \in {rung.provider : rung \in Rungs(task)} \cup {s.provider : s \in Skipped(settings, task)}
    BY LaddersExplained DEF Rungs
  <2>2. \A c \in cards : Told(c)
    BY DEF IngestInv
  <2> QED BY <2>1, <2>2 DEF FailuresAreTold, Told
<1> QED BY <1>1, IngestCorrect, PTL

\* capture.py:50-52: a stamp names a rung that answered for this very draft, the
\* reader's until something is regenerated, and every answer came from a rung
\* with credentials, a client and, for images, the capability.
THEOREM StampsAreAlwaysTrue == Spec => []StampsAreTrue
<1>1. IngestInv => StampsAreTrue
  <2> SUFFICES ASSUME IngestInv, NEW d \in Drafts, NEW sources,
                      sources = {a.rung : a \in {b \in d.answered : b.step \in {"read", "title", "tags"}}}
               PROVE  /\ d.stamp # NoRung => settings.provenance /\ d.stamp \in sources
                      /\ settings.provenance /\ ~d.again /\ d.reader # NoRung => d.stamp = d.reader
                      /\ settings.provenance /\ {a \in d.answered : a.step \in {"title", "tags"}} # {} =>
                             d.stamp # NoRung
                      /\ \A a \in d.answered :
                             /\ HasCredentials(settings, a.rung.provider)
                             /\ a.rung.provider \in Clients(settings)
                             /\ a.step \in {"read", "describe"} => TakesImages(settings, a.rung.provider)
    BY DEF StampsAreTrue
  <2>1. Kept(d) /\ settings \in SettingsSpace
    BY DEF Drafts, IngestInv
  <2>2. d.stamp # NoRung => settings.provenance /\ d.stamp \in sources
    BY <2>1 DEF Kept, Sound, Credited
  <2>3. settings.provenance /\ {a \in d.answered : a.step \in {"title", "tags"}} # {} => d.stamp # NoRung
    BY <2>1 DEF Kept, Titled
  <2>4. ASSUME NEW a \in d.answered
        PROVE  /\ HasCredentials(settings, a.rung.provider)
               /\ a.rung.provider \in Clients(settings)
               /\ a.step \in {"read", "describe"} => TakesImages(settings, a.rung.provider)
    <3>1. a.rung \in Rungs(TaskOf(a.step))
      BY <2>1 DEF Kept, Sound
    <3>2. a.step \in {"read", "describe"} => TaskOf(a.step) = "vision"
      BY DEF TaskOf
    <3> QED BY <2>1, <3>1, <3>2, RungsOfLadders
  <2> QED BY <2>1, <2>2, <2>3, <2>4 DEF Kept
<1> QED BY <1>1, IngestCorrect, PTL

-----------------------------------------------------------------------------
(* Questions. *)

\* The records a question goes through.
QuestionType == [at : {"idle", "search", "gather", "summarise", "call"},
                 task : {"chat", "summarise"}, left : SUBSET Found, sources : SUBSET Found,
                 prompt : SUBSET Found, rung : AllRungs \cup {NoRung},
                 told : {"nothing", "unavailable", "error", "not found", "answer"}]

\* A question q on its way to an answer holds the notes it was given and has
\* been told nothing; one that calls a rung has a note to show it.
Grounded(q) ==
    /\ q.at \in {"search", "gather"} => q.task = "chat"
    /\ q.at # "idle" => q.rung = NoRung /\ q.told = "nothing"
    /\ q.sources = q.prompt
    /\ q.at = "call" => q.prompt # {}
    /\ q.told = "answer" => q.rung # NoRung /\ q.prompt # {}
    /\ q.rung # NoRung => q.rung \in Rungs(q.task)

AssistInv ==
    /\ settings \in SettingsSpace
    /\ question \in QuestionType /\ Grounded(question)

\* Where nothing was asked nothing is claimed.
LEMMA UnaskedIsGrounded == Unasked \in QuestionType /\ Grounded(Unasked)
BY DEF Unasked, QuestionType, Grounded

\* Tell ends a question that reached no rung.
LEMMA TellIsGrounded ==
    ASSUME AssistInv, NEW what \in {"error", "not found"}, question.rung = NoRung
    PROVE  Tell(what) \in QuestionType /\ Grounded(Tell(what))
<1> DEFINE q == Tell(what)
<1>1. /\ q \in QuestionType /\ q.at = "idle" /\ q.told = what /\ q.sources = question.sources
      /\ q.prompt = question.prompt /\ q.rung = question.rung
  BY DEF Tell, AssistInv, QuestionType
<1> HIDE DEF q
<1>2. Grounded(q)
  BY <1>1 DEF AssistInv, Grounded
<1> QED BY <1>1, <1>2 DEF q

\* The end of _gather.
LEMMA GatheredIsGrounded ==
    ASSUME NEW q \in QuestionType, Grounded(q), q.at = "gather"
    PROVE  Gathered(q) \in QuestionType /\ Grounded(Gathered(q))
<1>1. CASE q.left # {}
  BY <1>1 DEF Gathered
<1>2. CASE q.left = {} /\ q.prompt = {}
  <2>1. PICK k : k = [q EXCEPT !.at = "idle", !.told = "not found"]
    OBVIOUS
  <2>2. /\ k \in QuestionType /\ k.at = "idle" /\ k.told = "not found" /\ k.sources = q.sources
        /\ k.prompt = q.prompt /\ k.rung = q.rung
    BY <2>1 DEF QuestionType
  <2>3. Grounded(k)
    BY <2>2 DEF Grounded
  <2> QED BY <1>2, <2>1, <2>2, <2>3 DEF Gathered
<1>3. CASE q.left = {} /\ q.prompt # {}
  <2>1. PICK k : k = [q EXCEPT !.at = "call"]
    OBVIOUS
  <2>2. /\ k \in QuestionType /\ k.at = "call" /\ k.told = q.told /\ k.sources = q.sources
        /\ k.prompt = q.prompt /\ k.rung = q.rung
    BY <2>1 DEF QuestionType
  <2>3. Grounded(k)
    BY <1>3, <2>2 DEF Grounded
  <2> QED BY <1>3, <2>1, <2>2, <2>3 DEF Gathered
<1> QED BY <1>1, <1>2, <1>3

\* Every step of a question keeps it grounded, under the settings it began with.
LEMMA AssistingGrounds ==
    ASSUME AssistInv, Assisting
    PROVE  \E k \in QuestionType : question' = k /\ Grounded(k)
<1> DEFINE Goal == \E k \in QuestionType : question' = k /\ Grounded(k)
<1>0. question \in QuestionType /\ Grounded(question) /\ settings \in SettingsSpace
  BY DEF AssistInv
<1>1. ASSUME Ask PROVE Goal
  <2>1. CASE Available("chat")
    <3>1. PICK k : k = [Unasked EXCEPT !.at = "search"]
      OBVIOUS
    <3>2. /\ k \in QuestionType /\ k.at = "search" /\ k.task = "chat" /\ k.told = "nothing"
          /\ k.sources = {} /\ k.prompt = {} /\ k.rung = NoRung
      BY <3>1 DEF Unasked, QuestionType
    <3> QED BY <1>1, <2>1, <3>1, <3>2 DEF Ask, Grounded
  <2>2. CASE ~Available("chat")
    <3>1. PICK k : k = [Unasked EXCEPT !.told = "unavailable"]
      OBVIOUS
    <3>2. /\ k \in QuestionType /\ k.at = "idle" /\ k.task = "chat" /\ k.told = "unavailable"
          /\ k.sources = {} /\ k.prompt = {} /\ k.rung = NoRung
      BY <3>1 DEF Unasked, QuestionType
    <3> QED BY <1>1, <2>2, <3>1, <3>2 DEF Ask, Grounded
  <2> QED BY <2>1, <2>2
<1>2. ASSUME SearchRefused \/ NothingToSummarise \/ AnswerFailed PROVE Goal
  <2>1. question.rung = NoRung
    BY <1>0, <1>2 DEF SearchRefused, NothingToSummarise, AnswerFailed, Grounded
  <2>2. PICK k : k = Tell("error")
    OBVIOUS
  <2> QED BY <1>2, <2>1, <2>2, TellIsGrounded DEF SearchRefused, NothingToSummarise, AnswerFailed
<1>3. ASSUME NEW hits \in SUBSET Found, SearchAnswered(hits) PROVE Goal
  <2>0. question.at = "search" /\ question.rung = NoRung
    BY <1>0, <1>3 DEF SearchAnswered, Grounded
  <2>1. CASE hits = {}
    <3>1. PICK k : k = Tell("not found")
      OBVIOUS
    <3> QED BY <1>3, <2>0, <2>1, <3>1, TellIsGrounded DEF SearchAnswered
  <2>2. CASE hits # {}
    <3>1. PICK k : k = [question EXCEPT !.at = "gather", !.left = hits]
      OBVIOUS
    <3>2. /\ k \in QuestionType /\ k.at = "gather" /\ k.task = question.task
          /\ k.told = question.told /\ k.sources = question.sources
          /\ k.prompt = question.prompt /\ k.rung = question.rung
      BY <1>0, <3>1 DEF QuestionType
    <3>3. Grounded(k)
      BY <1>0, <2>0, <3>2 DEF Grounded
    <3> QED BY <1>3, <2>2, <3>1, <3>2, <3>3 DEF SearchAnswered
  <2> QED BY <2>1, <2>2
<1>4. ASSUME NEW n \in Found, GatherText(n) PROVE Goal
  <2>1. PICK q : q = [question EXCEPT !.left = @ \ {n}, !.sources = @ \cup {n}, !.prompt = @ \cup {n}]
    OBVIOUS
  <2>2. question' = Gathered(q) /\ question.at = "gather"
    BY <1>4, <2>1 DEF GatherText
  <2>3. /\ question.left \ {n} \in SUBSET Found /\ question.sources \cup {n} \in SUBSET Found
        /\ question.prompt \cup {n} \in SUBSET Found
    BY <1>0 DEF QuestionType
  <2>4. /\ q \in QuestionType /\ q.at = question.at /\ q.task = question.task
        /\ q.told = question.told /\ q.sources = question.sources \cup {n}
        /\ q.prompt = question.prompt \cup {n} /\ q.rung = question.rung
    BY <1>0, <2>1, <2>3 DEF QuestionType
  <2>5. Grounded(q)
    BY <1>0, <2>2, <2>4 DEF Grounded
  <2>6. PICK k : k = Gathered(q)
    OBVIOUS
  <2> QED BY <2>2, <2>4, <2>5, <2>6, GatheredIsGrounded
<1>5. ASSUME NEW n \in Found, GatherSkip(n) PROVE Goal
  <2>1. PICK q : q = [question EXCEPT !.left = @ \ {n}]
    OBVIOUS
  <2>2. question' = Gathered(q) /\ question.at = "gather"
    BY <1>5, <2>1 DEF GatherSkip
  <2>3. /\ q \in QuestionType /\ q.at = question.at /\ q.task = question.task
        /\ q.told = question.told /\ q.sources = question.sources
        /\ q.prompt = question.prompt /\ q.rung = question.rung
    BY <1>0, <2>1 DEF QuestionType
  <2>4. Grounded(q)
    BY <1>0, <2>3 DEF Grounded
  <2>5. PICK k : k = Gathered(q)
    OBVIOUS
  <2> QED BY <2>2, <2>3, <2>4, <2>5, GatheredIsGrounded
<1>6. ASSUME NEW n \in Found, Summarise(n) PROVE Goal
  <2>1. CASE Available("summarise")
    <3>1. PICK k : k = [Unasked EXCEPT !.at = "summarise", !.task = "summarise", !.left = {n}]
      OBVIOUS
    <3>2. /\ k \in QuestionType /\ k.at = "summarise" /\ k.told = "nothing"
          /\ k.sources = {} /\ k.prompt = {} /\ k.rung = NoRung
      BY <3>1 DEF Unasked, QuestionType
    <3> QED BY <1>6, <2>1, <3>1, <3>2 DEF Summarise, Grounded
  <2>2. CASE ~Available("summarise")
    <3>1. PICK k : k = [Unasked EXCEPT !.told = "unavailable"]
      OBVIOUS
    <3>2. /\ k \in QuestionType /\ k.at = "idle" /\ k.told = "unavailable"
          /\ k.sources = {} /\ k.prompt = {} /\ k.rung = NoRung
      BY <3>1 DEF Unasked, QuestionType
    <3> QED BY <1>6, <2>2, <3>1, <3>2 DEF Summarise, Grounded
  <2> QED BY <2>1, <2>2
<1>7. ASSUME NEW n \in Found, ReadToSummarise(n) PROVE Goal
  <2>1. PICK k : k = [question EXCEPT !.at = "call", !.left = {}, !.sources = {n}, !.prompt = {n}]
    OBVIOUS
  <2>2. /\ k \in QuestionType /\ k.at = "call" /\ k.task = question.task
        /\ k.told = question.told /\ k.sources = {n} /\ k.prompt = {n} /\ k.rung = question.rung
    BY <1>0, <2>1 DEF QuestionType
  <2>3. Grounded(k)
    BY <1>0, <1>7, <2>2 DEF Grounded, ReadToSummarise
  <2> QED BY <1>7, <2>1, <2>2, <2>3 DEF ReadToSummarise
<1>8. ASSUME NEW rung, NEW inNotes \in BOOLEAN, Answered(rung, inNotes) PROVE Goal
  <2>1. PICK what \in {"answer", "not found"} :
           question' = [Tell(what) EXCEPT !.rung = rung]
    BY <1>8 DEF Answered
  <2>2. question.at = "call" /\ rung \in Rungs(question.task)
    BY <1>8 DEF Answered
  <2>3. rung \in AllRungs /\ rung # NoRung
    BY <1>0, <2>2, RungsOfLadders
  <2>4. PICK q : q = Tell(what)
    OBVIOUS
  <2>5. /\ q \in QuestionType /\ q.at = "idle" /\ q.task = question.task /\ q.told = what
        /\ q.sources = question.sources /\ q.prompt = question.prompt
    BY <1>0, <2>4 DEF Tell, QuestionType
  <2>6. PICK k : k = [q EXCEPT !.rung = rung]
    OBVIOUS
  <2>7. /\ k \in QuestionType /\ k.at = "idle" /\ k.task = question.task /\ k.told = what
        /\ k.sources = question.sources /\ k.prompt = question.prompt /\ k.rung = rung
    BY <2>3, <2>5, <2>6 DEF QuestionType
  <2>8. Grounded(k)
    BY <1>0, <2>2, <2>3, <2>7 DEF Grounded
  <2> QED BY <2>1, <2>4, <2>6, <2>7, <2>8
<1>9. Goal
  <2> HIDE DEF Goal
  <2> QED BY <1>1, <1>2, <1>3, <1>4, <1>5, <1>6, <1>7, <1>8 DEF Assisting
<1> QED BY <1>9

\* A question's steps and the captures beside it keep the invariant.
LEMMA NextAssist == AssistInv /\ [AssistNext]_avars => AssistInv'
<1> SUFFICES ASSUME AssistInv, [AssistNext]_avars PROVE AssistInv'
  OBVIOUS
<1>1. settings' = settings
  BY SettingsStay DEF AssistNext, avars, vars
<1>2. \E k \in QuestionType : question' = k /\ Grounded(k)
  <2>1. CASE Assisting
    BY <2>1, AssistingGrounds
  <2>2. CASE question' = question
    BY <2>2 DEF AssistInv
  <2> QED BY <2>1, <2>2 DEF AssistNext, avars
<1>3. PICK k \in QuestionType : question' = k /\ Grounded(k)
  BY <1>2
<1>4. \A task : Rungs(task)' = Rungs(task)
  BY <1>1 DEF Rungs
<1>5. QuestionType' = QuestionType
  BY <1>4 DEF QuestionType, AllRungs
<1>6. Grounded(k)'
  BY <1>3, <1>4 DEF Grounded
<1>7. question' \in QuestionType' /\ Grounded(question)'
  BY <1>3, <1>5, <1>6
<1> QED BY <1>1, <1>7 DEF AssistInv

\* assist.py:6-12: whatever goes on beside it and whatever happens to the notes
\* between the search and the reads, an answer came from a rung of the chat
\* ladder that was shown at least one note, and it names exactly those shown.
THEOREM AnswersAreAlwaysGrounded == AssistSpec => []AnswersAreGrounded
<1>1. AssistInit => AssistInv
  BY UnaskedIsGrounded DEF AssistInit, AssistInv, Init
<1>2. AssistInv => AnswersAreGrounded
  BY DEF AssistInv, AnswersAreGrounded, Grounded
<1> QED BY <1>1, <1>2, NextAssist, PTL DEF AssistSpec

\* Questions leave the captures alone: what was proved of the pipeline by itself
\* holds with /ask and /summarize beside it.
THEOREM QuestionsDisturbNothing == AssistSpec => Spec
<1>1. AssistInit => Init
  BY DEF AssistInit
<1>2. [AssistNext]_avars => [Next]_vars
  BY DEF AssistNext, avars
<1> QED BY <1>1, <1>2, PTL DEF AssistSpec, Spec

-----------------------------------------------------------------------------
(* The circuit breaker, for every number of providers and callers, every      *)
(* threshold and every cool-down.                                             *)

USE DEF Circuits, Closed

-----------------------------------------------------------------------------
(* What the operations on one circuit return. *)

\* Every operation of breaker.py maps circuits to circuits.
LEMMA OperationsTyped ==
    ASSUME NEW c \in Circuits, NEW immediate \in BOOLEAN
    PROVE  /\ Closed \in Circuits
           /\ Admitted(c) \in Circuits
           /\ Succeeded(c) \in Circuits
           /\ Failed(c, immediate) \in Circuits
           /\ Elapsed(c) \in Circuits
BY ThresholdAssumption, ResetAssumption
   DEF Admitted, Succeeded, Failed, Trips, Elapsed

\* No operation breaks the shape of a circuit; admission needs the gate open.
LEMMA OperationsWellFormed ==
    ASSUME NEW c \in Circuits, NEW immediate \in BOOLEAN, WellFormed(c)
    PROVE  /\ WellFormed(Closed)
           /\ Allows(c) => WellFormed(Admitted(c))
           /\ WellFormed(Succeeded(c))
           /\ WellFormed(Failed(c, immediate))
           /\ WellFormed(Elapsed(c))
<1> USE ThresholdAssumption, ResetAssumption DEF WellFormed
<1>1. WellFormed(Closed) /\ WellFormed(Succeeded(c))
  BY DEF Succeeded
<1>2. Allows(c) => WellFormed(Admitted(c))
  BY DEF Allows, Admitted
<1>3. WellFormed(Failed(c, immediate))
  <2>1. CASE Trips(c, immediate)
    BY <2>1 DEF Failed
  <2>2. CASE ~Trips(c, immediate)
    BY <2>2 DEF Failed, Trips
  <2> QED BY <2>1, <2>2
<1>4. WellFormed(Elapsed(c))
  BY DEF Elapsed
<1> QED BY <1>1, <1>2, <1>3, <1>4

\* blocks() looks at exactly what allows() would refuse (breaker.py:104-117):
\* the router's back-pressure check never refuses a request the walk would
\* serve, and never lets one through that no rung would admit.
THEOREM LookIsTheGate ==
    ASSUME NEW c \in Circuits
    PROVE  Blocks(c) <=> ~Allows(c)
BY ResetAssumption DEF Blocks, Allows

-----------------------------------------------------------------------------
(* Type correctness. *)

\* The breaker begins with its types.
LEMMA InitTyped == BreakerInit => BreakerTypeOK
BY OperationsTyped, ThresholdAssumption, ResetAssumption DEF BreakerInit, BreakerTypeOK

\* Every outcome, in whatever order, keeps them.
LEMMA NextTyped == BreakerTypeOK /\ [BreakerNext]_breakerVars => BreakerTypeOK'
<1> SUFFICES ASSUME BreakerTypeOK, [BreakerNext]_breakerVars PROVE BreakerTypeOK'
  OBVIOUS
<1> USE DEF BreakerTypeOK
<1>1. ASSUME NEW c \in Callers, NEW p \in Providers, Admit(c, p) PROVE BreakerTypeOK'
  <2>1. Admitted(circuits[p]) \in Circuits
    BY OperationsTyped
  <2> QED BY <1>1, <2>1 DEF Admit
<1>2. ASSUME NEW c \in Callers, Succeed(c) PROVE BreakerTypeOK'
  <2>1. Succeeded(circuits[calls[c]]) \in Circuits
    BY <1>2, OperationsTyped DEF Succeed
  <2> QED BY <1>2, <2>1 DEF Succeed
<1>3. ASSUME NEW c \in Callers, NEW immediate \in BOOLEAN, Fail(c, immediate)
      PROVE  BreakerTypeOK'
  <2>1. Failed(circuits[calls[c]], immediate) \in Circuits
    BY <1>3, OperationsTyped DEF Fail
  <2>2. fresh' \subseteq Callers
    BY <1>3 DEF Fail
  <2> QED BY <1>3, <2>1, <2>2 DEF Fail
<1>4. ASSUME NEW c \in Callers, EndUnreported(c) PROVE BreakerTypeOK'
  BY <1>4 DEF EndUnreported
<1>5. CASE Forget
  BY <1>5, OperationsTyped, ThresholdAssumption, ResetAssumption DEF Forget
<1>6. CASE Tick
  <2>1. \A p \in Providers : Elapsed(circuits[p]) \in Circuits
    BY OperationsTyped
  <2> QED BY <1>6, <2>1 DEF Tick
<1>7. CASE UNCHANGED breakerVars
  BY <1>7 DEF breakerVars
<1> QED BY <1>1, <1>2, <1>3, <1>4, <1>5, <1>6, <1>7 DEF BreakerNext

\* The variables keep their types in every behaviour of the breaker.
THEOREM TypeCorrect == BreakerSpec => []BreakerTypeOK
BY InitTyped, NextTyped, PTL DEF BreakerSpec

-----------------------------------------------------------------------------
(* The shape of the circuits. *)

\* And the shapes of the circuits.
LEMMA NextWellFormed ==
    BreakerTypeOK /\ WellFormedCircuits /\ [BreakerNext]_breakerVars => WellFormedCircuits'
<1> SUFFICES ASSUME BreakerTypeOK, WellFormedCircuits, [BreakerNext]_breakerVars, NEW q \in Providers
             PROVE  WellFormed(circuits'[q])
  BY DEF WellFormedCircuits
<1> USE DEF BreakerTypeOK, WellFormedCircuits
<1>1. ASSUME NEW c \in Callers, NEW p \in Providers, Admit(c, p)
      PROVE  WellFormed(circuits'[q])
  <2>1. WellFormed(Admitted(circuits[p]))
    BY <1>1, OperationsWellFormed DEF Admit
  <2> QED BY <1>1, <2>1 DEF Admit
<1>2. ASSUME NEW c \in Callers, Succeed(c) PROVE WellFormed(circuits'[q])
  <2>1. WellFormed(Succeeded(circuits[q]))
    BY OperationsWellFormed
  <2> QED BY <1>2, <2>1 DEF Succeed
<1>3. ASSUME NEW c \in Callers, NEW immediate \in BOOLEAN, Fail(c, immediate)
      PROVE  WellFormed(circuits'[q])
  <2>1. WellFormed(Failed(circuits[q], immediate))
    BY OperationsWellFormed
  <2> QED BY <1>3, <2>1 DEF Fail
<1>4. ASSUME NEW c \in Callers, EndUnreported(c) PROVE WellFormed(circuits'[q])
  BY <1>4 DEF EndUnreported
<1>5. CASE Forget
  <2>1. WellFormed(Closed)
    BY OperationsWellFormed
  <2> QED BY <1>5, <2>1 DEF Forget
<1>6. CASE Tick
  <2>1. WellFormed(Elapsed(circuits[q]))
    BY OperationsWellFormed
  <2> QED BY <1>6, <2>1 DEF Tick
<1>7. CASE UNCHANGED breakerVars
  BY <1>7 DEF breakerVars
<1> QED BY <1>1, <1>2, <1>3, <1>4, <1>5, <1>6, <1>7 DEF BreakerNext

\* A closed circuit is below its threshold and remembers no opening, and a
\* probe is only ever marked on a circuit that has cooled down.
THEOREM CircuitsWellFormed == BreakerSpec => []WellFormedCircuits
<1>1. BreakerInit => WellFormedCircuits
  BY ThresholdAssumption, ResetAssumption DEF BreakerInit, WellFormedCircuits, WellFormed
<1> QED BY <1>1, TypeCorrect, NextWellFormed, PTL DEF BreakerSpec

-----------------------------------------------------------------------------
(* The single-probe rule.  SingleProbe is inductive relative to the type and  *)
(* the shape invariants: admission through an open circuit needs the mark     *)
(* down, and with the mark down SingleProbe says no fresh call is under way.  *)

\* And it never lets a second probe out.
LEMMA NextSingleProbe ==
    BreakerTypeOK /\ WellFormedCircuits /\ SingleProbe /\ [BreakerNext]_breakerVars => SingleProbe'
<1> SUFFICES ASSUME BreakerTypeOK, WellFormedCircuits, SingleProbe, [BreakerNext]_breakerVars,
                    NEW d \in fresh', NEW e \in fresh',
                    calls'[d] = calls'[e], calls'[d] # NoCall,
                    circuits'[calls'[d]].open
             PROVE  d = e /\ circuits'[calls'[d]].probe
  BY DEF SingleProbe
<1> USE DEF BreakerTypeOK
<1>1. ASSUME NEW c \in Callers, NEW p \in Providers, Admit(c, p)
      PROVE  d = e /\ circuits'[calls'[d]].probe
  <2>1. CASE calls'[d] = p
    <3>1. circuits[p].open /\ ~circuits[p].probe
      BY <1>1, <2>1 DEF Admit, Allows, Admitted
    <3>2. \A x \in fresh : calls[x] # p
      BY <3>1, NoCallAssumption DEF SingleProbe
    <3>3. d = c /\ e = c
      BY <1>1, <2>1, <3>2 DEF Admit
    <3> QED BY <1>1, <2>1, <3>1, <3>3 DEF Admit, Admitted
  <2>2. CASE calls'[d] # p
    <3>1. d \in fresh /\ e \in fresh /\ calls[d] = calls'[d] /\ calls[e] = calls'[e]
      BY <1>1, <2>2 DEF Admit
    <3>2. circuits'[calls'[d]] = circuits[calls[d]]
      BY <1>1, <2>2, <3>1 DEF Admit
    <3> QED BY <3>1, <3>2 DEF SingleProbe
  <2> QED BY <2>1, <2>2
<1>2. ASSUME NEW c \in Callers, Succeed(c)
      PROVE  d = e /\ circuits'[calls'[d]].probe
  <2>1. d \in fresh /\ e \in fresh /\ calls[d] = calls'[d] /\ calls[e] = calls'[e]
    BY <1>2 DEF Succeed
  <2>2. calls[d] # calls[c]
    BY <1>2, <2>1, NoCallAssumption DEF Succeed, Succeeded
  <2>3. circuits'[calls'[d]] = circuits[calls[d]]
    BY <1>2, <2>1, <2>2 DEF Succeed
  <2> QED BY <2>1, <2>3 DEF SingleProbe
<1>3. ASSUME NEW c \in Callers, NEW immediate \in BOOLEAN, Fail(c, immediate)
      PROVE  d = e /\ circuits'[calls'[d]].probe
  <2>1. d \in fresh /\ e \in fresh /\ calls[d] = calls'[d] /\ calls[e] = calls'[e]
    BY <1>3 DEF Fail
  <2>2. CASE calls[d] = calls[c]
    <3>1. ~Trips(circuits[calls[c]], immediate)
      BY <1>3, <2>1, <2>2 DEF Fail, Calling
    <3>2. circuits[calls[c]].open /\ ~circuits[calls[c]].probe
      BY <1>3, <2>1, <2>2, <3>1 DEF Fail, Failed, Trips
    <3> QED BY <1>3, <2>1, <2>2, <3>2 DEF SingleProbe
  <2>3. CASE calls[d] # calls[c]
    <3>1. circuits'[calls'[d]] = circuits[calls[d]]
      BY <1>3, <2>1, <2>3 DEF Fail
    <3> QED BY <2>1, <3>1 DEF SingleProbe
  <2> QED BY <2>2, <2>3
<1>4. ASSUME NEW c \in Callers, EndUnreported(c)
      PROVE  d = e /\ circuits'[calls'[d]].probe
  <2>1. d \in fresh /\ e \in fresh /\ calls[d] = calls'[d] /\ calls[e] = calls'[e]
    BY <1>4 DEF EndUnreported
  <2> QED BY <1>4, <2>1 DEF SingleProbe, EndUnreported
<1>5. CASE Forget
  BY <1>5 DEF Forget
<1>6. CASE Tick
  <2>1. circuits'[calls[d]] = Elapsed(circuits[calls[d]])
    BY <1>6 DEF Tick
  <2>2. circuits[calls[d]].open /\ circuits'[calls[d]].probe = circuits[calls[d]].probe
    BY <1>6, <2>1 DEF Tick, Elapsed
  <2> QED BY <1>6, <2>2 DEF Tick, SingleProbe
<1>7. CASE UNCHANGED breakerVars
  BY <1>7 DEF breakerVars, SingleProbe
<1> QED BY <1>1, <1>2, <1>3, <1>4, <1>5, <1>6, <1>7 DEF BreakerNext

\* Whatever the number of callers and however late their answers, at most one
\* call admitted since a circuit was last opened is under way: the probe.
THEOREM AtMostOneProbe == BreakerSpec => []SingleProbe
<1>1. BreakerInit => SingleProbe
  BY DEF BreakerInit, SingleProbe
<1> QED BY <1>1, TypeCorrect, CircuitsWellFormed, NextSingleProbe, PTL DEF BreakerSpec

-----------------------------------------------------------------------------
(* The cool-down. *)

\* Nothing but a failure recorded while a probe is marked moves an opening
\* forward: the stragglers of an outage do not postpone the recovery check.
THEOREM FixedCoolDown == BreakerSpec => CoolDownIsFixed
<1> DEFINE Fixed == \A p \in Providers :
               circuits[p].open /\ circuits'[p].open /\ circuits'[p].age < circuits[p].age
                 => circuits[p].probe
<1>1. ASSUME BreakerTypeOK, [BreakerNext]_breakerVars PROVE Fixed
  <2> SUFFICES ASSUME NEW q \in Providers, circuits[q].open, circuits'[q].open,
                      circuits'[q].age < circuits[q].age
               PROVE  circuits[q].probe
    OBVIOUS
  <2> USE <1>1, ResetAssumption DEF BreakerTypeOK
  <2>1. ASSUME NEW c \in Callers, NEW p \in Providers, Admit(c, p)
        PROVE  circuits[q].probe
    BY <2>1 DEF Admit, Admitted
  <2>2. ASSUME NEW c \in Callers, Succeed(c) PROVE circuits[q].probe
    BY <2>2 DEF Succeed, Succeeded
  <2>3. ASSUME NEW c \in Callers, NEW immediate \in BOOLEAN, Fail(c, immediate)
        PROVE  circuits[q].probe
    BY <2>3 DEF Fail, Failed, Trips
  <2>4. ASSUME NEW c \in Callers, EndUnreported(c) PROVE circuits[q].probe
    BY <2>4 DEF EndUnreported
  <2>5. CASE Forget
    BY <2>5 DEF Forget
  <2>6. CASE Tick
    BY <2>6 DEF Tick, Elapsed
  <2>7. CASE UNCHANGED breakerVars
    BY <2>7 DEF breakerVars
  <2> QED BY <2>1, <2>2, <2>3, <2>4, <2>5, <2>6, <2>7 DEF BreakerNext
<1>2. BreakerTypeOK /\ [BreakerNext]_breakerVars => [Fixed]_breakerVars
  BY <1>1
<1> QED BY <1>2, TypeCorrect, PTL DEF BreakerSpec, CoolDownIsFixed
=============================================================================

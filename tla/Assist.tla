------------------------------- MODULE Assist -------------------------------
(* app/assist.py: /ask and /summarize, beside the captures of IngestPipeline   *)
(* on the same ladders.  One question at a time; the notes found may be gone,  *)
(* unreadable or blank by the time they are read, as other handlers write      *)
(* between the search and the reads.                                           *)
EXTENDS IngestPipeline

CONSTANT Found  \* the notes a search can find

VARIABLE question  \* the /ask or /summarize under way

avars == <<vars, question>>

\* read: what each source's read showed, blank or text; prompt: the notes whose
\* text went into the prompt; told: what the chat is told in the end.
Unasked == [at |-> "idle", task |-> "chat", left |-> {}, sources |-> {}, prompt |-> {},
            rung |-> NoRung, told |-> "nothing"]

AssistInit == Init /\ question = Unasked

Tell(what) == [question EXCEPT !.at = "idle", !.left = {}, !.told = what]

-----------------------------------------------------------------------------
\* Without a chat ladder both commands refuse before they read anything.
Ask ==
    /\ question.at = "idle"
    /\ question' = IF Available("chat") THEN [Unasked EXCEPT !.at = "search"]
                   ELSE [Unasked EXCEPT !.told = "unavailable"]

\* The search refuses, fails, or gives its first ASK_CONTEXT_NOTES hits.
SearchRefused ==
    /\ question.at = "search"
    /\ question' = Tell("error")

SearchAnswered(hits) ==
    /\ question.at = "search"
    /\ question' = IF hits = {} THEN Tell("not found")
                   ELSE [question EXCEPT !.at = "gather", !.left = hits]

\* The end of _gather: without any text nobody is called.
CalledAnyway(q) == IF q.left = {} THEN [q EXCEPT !.at = "call"] ELSE q
Gathered(q) ==
    IF q.left # {} THEN q
    ELSE IF q.prompt = {} THEN [q EXCEPT !.at = "idle", !.told = "not found"]
    ELSE [q EXCEPT !.at = "call"]

GatherText(n) ==
    /\ question.at = "gather" /\ n \in question.left
    /\ question' = Gathered([question EXCEPT !.left = @ \ {n}, !.sources = @ \cup {n},
                                             !.prompt = @ \cup {n}])

\* A note that cannot be read, or has no text, is skipped.
GatherSkip(n) ==
    /\ question.at = "gather" /\ n \in question.left
    /\ question' = Gathered([question EXCEPT !.left = @ \ {n}])

\* summarise: the note is read first, and a blank one refused.
Summarise(n) ==
    /\ question.at = "idle"
    /\ question' = IF Available("summarise")
                   THEN [Unasked EXCEPT !.at = "summarise", !.task = "summarise", !.left = {n}]
                   ELSE [Unasked EXCEPT !.told = "unavailable"]

ReadToSummarise(n) ==
    /\ question.at = "summarise" /\ n \in question.left
    /\ question' = [question EXCEPT !.at = "call", !.left = {}, !.sources = {n}, !.prompt = {n}]

NothingToSummarise ==
    /\ question.at = "summarise"
    /\ question' = Tell("error")

\* An answer that holds NOT_IN_NOTES anywhere is told as nothing found.
Answered(rung, inNotes) ==
    /\ question.at = "call" /\ rung \in Rungs(question.task)
    /\ question' = [Tell(IF inNotes \/ question.task = "summarise" THEN "answer" ELSE "not found")
                        EXCEPT !.rung = rung]

\* _complete swallows nothing.
AnswerFailed ==
    /\ question.at = "call"
    /\ question' = Tell("error")

-----------------------------------------------------------------------------
Assisting ==
    \/ Ask
    \/ SearchRefused
    \/ \E hits \in SUBSET Found : SearchAnswered(hits)
    \/ \E n \in Found : GatherText(n)
    \/ \E n \in Found : GatherSkip(n)
    \/ \E n \in Found : Summarise(n)
    \/ \E n \in Found : ReadToSummarise(n)
    \/ NothingToSummarise
    \/ \E rung \in Rungs("chat"), inNotes \in BOOLEAN : Answered(rung, inNotes)
    \/ AnswerFailed

AssistNext ==
    \/ Next /\ UNCHANGED question
    \/ Assisting /\ UNCHANGED vars

AssistSpec == AssistInit /\ [][AssistNext]_avars

-----------------------------------------------------------------------------
\* assist.py:6-12 and 127-129: what is told as an answer came from a rung that
\* was given the text of at least one note, and names exactly the notes it was
\* given; a question without notes reaches no provider.
AnswersAreGrounded ==
    /\ question.told = "answer" =>
           question.rung # NoRung /\ question.prompt # {} /\ question.sources = question.prompt
    /\ question.at = "call" => question.prompt # {}
    /\ question.rung # NoRung => question.rung \in Rungs(question.task)
=============================================================================

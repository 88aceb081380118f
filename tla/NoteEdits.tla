------------------------------ MODULE NoteEdits ------------------------------
(* app/notes.py and the quick capture of app/capture.py over the vault: calls *)
(* of concurrent handlers that read a note and then write it whole, append to *)
(* it, delete it or move it.  The vault is reached through the transport: a   *)
(* request may be applied more than once (its retries), and once more after   *)
(* its caller was told it failed (RestTransport).                             *)
(* A note's body is the sequence of what was written: the text of a call,     *)
(* named by the call's number, and tags.                                      *)
EXTENDS Naturals, Sequences, SequencesExt

CONSTANTS
    Callers,   \* handlers that may be in progress at once
    Paths,
    Inbox,     \* the inbox note of the day, one of Paths
    Tags,
    NoNote, NoTag,
    MaxCalls,  \* bound on the calls made
    MaxSends   \* 1 + NOTEDISCOVERY_MAX_RETRIES

ASSUME EditsAssumption ==
    /\ Inbox \in Paths /\ NoNote \notin Seq((1..MaxCalls) \cup Tags)
    /\ MaxCalls \in Nat /\ MaxSends \in Nat \ {0}
    /\ Tags \cap (1..MaxCalls) = {}  \* a tag of the frontmatter is no text of the page

Texts == 1..MaxCalls
Bodies == Seq(Texts \cup Tags)

VARIABLES
    vault,  \* path -> the note's body, or NoNote
    job,    \* caller -> the call it is making
    made    \* how many calls were made

vars == <<vault, job, made>>

\* at is what was sent last ("read", "put", "append", "delete", "move"), or
\* "idle"; body is what a put writes and reply the server's latest answer, if
\* it answered.  A call that gave up is adrift: nobody waits for what it sent.
\* settled and bereft are history: the text its note has held ever since the
\* call began, and whether the note has gone since.
Idle == [op |-> "append", at |-> "idle", path |-> Inbox, target |-> Inbox, text |-> 0,
         tag |-> NoTag, body |-> <<>>, sends |-> 0, reply |-> "none", adrift |-> FALSE,
         settled |-> {}, bereft |-> FALSE]

\* Notes the user has written elsewhere may be there at the start.
Init ==
    /\ vault \in [Paths -> {NoNote, <<>>}]
    /\ job = [c \in Callers |-> Idle]
    /\ made = 0

-----------------------------------------------------------------------------
(* The services. *)

Holds(body, x) == body # NoNote /\ x \in ToSet(body)

Adders == {"append", "tag", "quick"}
Writers == {"append", "replace", "quick"}

TextIn(body) == {x \in Texts : Holds(body, x)}

Begins(c, op, p, first, target, tag) ==
    /\ job[c].at = "idle" /\ made < MaxCalls
    /\ made' = made + 1
    /\ job' = [job EXCEPT ![c] =
                  [Idle EXCEPT !.op = op, !.at = first, !.path = p, !.target = target,
                               !.tag = tag, !.text = IF op \in Writers THEN made + 1 ELSE 0,
                               !.settled = IF op \in Adders THEN TextIn(vault[p]) ELSE {}]]
    /\ UNCHANGED vault

CallAppend(c, p) == Begins(c, "append", p, "append", p, NoTag)
CallDelete(c, p) == Begins(c, "delete", p, "delete", p, NoTag)
\* update_note and add_tag read before they write, and so does quick().
CallReplace(c, p) == Begins(c, "replace", p, "read", p, NoTag)
CallTag(c, p, t) == Begins(c, "tag", p, "read", p, t)
CallQuick(c) == Begins(c, "quick", Inbox, "read", Inbox, NoTag)
\* A move onto itself is refused at once.
CallMove(c, p, q) == p # q /\ Begins(c, "move", p, "move", q, NoTag)

Ends(c) == job' = [job EXCEPT ![c] = Idle] /\ UNCHANGED <<vault, made>>

QuickAlwaysCreates(x, body) ==
    CASE x.op \in {"replace", "quick"} -> [x EXCEPT !.at = "put", !.body = <<x.text>>]
      [] x.op = "tag" -> [x EXCEPT !.at = "put", !.body = Append(body, x.tag)]

\* What the handler sends when it knows what the note holds, or that it is gone.
AfterRead(x, body) ==
    CASE x.op = "replace" -> [x EXCEPT !.at = "put", !.body = <<x.text>>]
      [] x.op = "tag" -> [x EXCEPT !.at = "put", !.body = Append(body, x.tag)]
      [] x.op = "quick" /\ body # NoNote -> [x EXCEPT !.at = "append"]
      [] x.op = "quick" /\ body = NoNote -> [x EXCEPT !.at = "put", !.body = <<x.text>>]

TagsAgain(x, body) == body = NoNote /\ x.op # "quick"

ReplacesWhatIsGone(x, body) ==
    \/ body = NoNote /\ x.op = "tag"
    \/ x.op = "tag" /\ Holds(body, x.tag)

\* A missing note is NotFound to replace and tag; a tag that is there already
\* is not written.
NothingToWrite(x, body) ==
    \/ body = NoNote /\ x.op # "quick"
    \/ x.op = "tag" /\ Holds(body, x.tag)

\* The read's answer arrives.  Reads change nothing, so that their retries and
\* their time of arrival do not matter.
Read(c) ==
    LET x == job[c]
        body == vault[x.path]
    IN /\ x.at = "read"
       /\ IF NothingToWrite(x, body) THEN Ends(c)
          ELSE job' = [job EXCEPT ![c] = AfterRead(x, body)] /\ UNCHANGED <<vault, made>>

-----------------------------------------------------------------------------
(* The server, and what the transport makes of its answers. *)

Possible(x) ==
    CASE x.at = "put" -> TRUE
      [] x.at \in {"append", "delete"} -> vault[x.path] # NoNote
      [] x.at = "move" -> vault[x.path] # NoNote /\ vault[x.target] = NoNote

Effect(x) ==
    CASE x.at = "put" -> [vault EXCEPT ![x.path] = x.body]
      [] x.at = "append" -> [vault EXCEPT ![x.path] = Append(@, x.text)]
      [] x.at = "delete" -> [vault EXCEPT ![x.path] = NoNote]
      [] x.at = "move" -> [vault EXCEPT ![x.path] = NoNote, ![x.target] = vault[x.path]]

\* Calls in progress remember that their note, or some of its text, has gone.
Witnessed(jobs, x) ==
    [d \in Callers |->
        [jobs[d] EXCEPT
            !.settled = {t \in @ : Holds(vault'[jobs[d].path], t)},
            !.bereft  = @ \/ (/\ x.at \in {"delete", "move"}
                              /\ jobs[d].at # "idle" /\ jobs[d].path = x.path)]]

Sends == {"put", "append", "delete", "move"}

\* One of the sends reaches the server.
Served(c) ==
    LET x == job[c]
        sent == [job EXCEPT ![c].sends = @ + 1,
                            ![c].reply = IF Possible(x) THEN "ok" ELSE "refused"]
    IN /\ x.at \in Sends /\ x.sends < MaxSends
       /\ vault' = IF Possible(x) THEN Effect(x) ELSE vault
       /\ job' = Witnessed(sent, x)
       /\ UNCHANGED made

\* An answer reaches the caller.
Returns(c) == job[c].reply # "none" /\ ~job[c].adrift /\ Ends(c)

\* The caller is told Unavailable, which ends its call; a write may yet land.
GivesUp(c) ==
    /\ job[c].at # "idle" /\ ~job[c].adrift
    /\ IF job[c].at = "read" \/ job[c].sends = MaxSends THEN Ends(c)
       ELSE job' = [job EXCEPT ![c].adrift = TRUE] /\ UNCHANGED <<vault, made>>

\* What was sent is lost, or has been served.
Vanishes(c) == job[c].adrift /\ Ends(c)

Next ==
    \E c \in Callers :
        \/ \E p \in Paths :
             \/ CallAppend(c, p) \/ CallReplace(c, p) \/ CallDelete(c, p)
             \/ \E t \in Tags : CallTag(c, p, t)
             \/ \E q \in Paths : CallMove(c, p, q)
        \/ CallQuick(c)
        \/ Read(c) \/ Served(c) \/ Returns(c) \/ GivesUp(c) \/ Vanishes(c)

Spec == Init /\ [][Next]_vars

-----------------------------------------------------------------------------
TypeOK ==
    /\ vault \in [Paths -> Bodies \cup {NoNote}]
    /\ made \in 0..MaxCalls
    /\ job \in [Callers -> [op : {"append", "replace", "tag", "quick", "delete", "move"},
                            at : Sends \cup {"idle", "read"},
                            path : Paths, target : Paths, text : 0..MaxCalls,
                            tag : Tags \cup {NoTag}, body : Bodies,
                            sends : 0..MaxSends, reply : {"none", "ok", "refused"},
                            adrift : BOOLEAN, settled : SUBSET Texts, bereft : BOOLEAN]]

\* notes.py:13-14 and 74-75: however taps, retries and other writes interleave,
\* no note ends up with a tag twice.
TagsOnce ==
    TypeOK /\ \A p \in Paths : \A t \in Tags :
        vault[p] # NoNote =>
            \A i, j \in DOMAIN vault[p] : (vault[p][i] = t /\ vault[p][j] = t) => i = j

\* notes.py:50, 85 and capture.py:219-221, "one page to read back": appending,
\* tagging and quick capture, which may write a whole note they read earlier,
\* never drop text that was in it all the while since they began.  (Text that
\* arrives meanwhile they do drop, and so may they what somebody else removed
\* meanwhile and a third one's late write brought back.)
KeepsSettledText(c) ==
    job[c].op \in Adders =>
        \A x \in job[c].settled : Holds(vault'[job[c].path], x)

SettledTextIsKept == [][\A c \in Callers : Served(c) => KeepsSettledText(c)]_vars

\* notes.py:10-12 and rest.py:379-382, "instead of silently re-creating it":
\* replacing or tagging brings a note back only if the note was deleted or moved
\* while that very call was in progress.
RevivesNothing(c) ==
    (job[c].op \in {"replace", "tag"} /\ vault[job[c].path] = NoNote)
        => (vault'[job[c].path] = NoNote \/ job[c].bereft)

RevivalsOverlap == [][\A c \in Callers : Served(c) => RevivesNothing(c)]_vars
=============================================================================

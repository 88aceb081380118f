--------------------------- MODULE NoteEditsProofs ---------------------------
(* Concurrent edits of the vault, for every number of handlers, notes, tags,  *)
(* calls and retries: a tag is never put twice, nothing that stood in a note  *)
(* all the while is dropped by who adds to it, and nothing is brought back    *)
(* that was not taken away meanwhile.                                         *)
EXTENDS NoteEdits, SequenceTheorems, TLAPS

JobRecords ==
    [op : {"append", "replace", "tag", "quick", "delete", "move"},
     at : Sends \cup {"idle", "read"},
     path : Paths, target : Paths, text : 0..MaxCalls,
     tag : Tags \cup {NoTag}, body : Bodies,
     sends : 0..MaxSends, reply : {"none", "ok", "refused"},
     adrift : BOOLEAN, settled : SUBSET Texts, bereft : BOOLEAN]

OnceEach(body) ==
    \A t \in Tags : \A i, j \in DOMAIN body : (body[i] = t /\ body[j] = t) => i = j

\* What a call sends goes with what it is, and so does what it carries.
Sensible(x) ==
    /\ x.at = "append" => x.op \in {"append", "quick"}
    /\ x.at \in {"read", "put"} => x.op \in {"replace", "tag", "quick"}
    /\ x.at \in {"delete", "move"} => x.op = x.at
    /\ x.at # "idle" /\ x.op \in Writers => x.text \in Texts
    /\ x.at # "idle" /\ x.op = "tag" => x.tag \in Tags

\* What stood in the note all the while is in the body a pending put will write,
\* and the note that a replace or a tag has read is there unless it was bereft.
JobFits(x) ==
    /\ Sensible(x)
    /\ OnceEach(x.body)
    /\ \A t \in x.settled : Holds(vault[x.path], t)
    /\ x.at = "put" /\ x.op \in Adders => \A t \in x.settled : Holds(x.body, t)
    /\ x.at = "put" /\ x.op \in {"replace", "tag"} /\ ~x.bereft => vault[x.path] # NoNote

NotesInv ==
    /\ vault \in [Paths -> Bodies \cup {NoNote}]
    /\ made \in 0..MaxCalls
    /\ job \in [Callers -> JobRecords]
    /\ \A p \in Paths : vault[p] # NoNote => OnceEach(vault[p])
    /\ \A c \in Callers : JobFits(job[c])

-----------------------------------------------------------------------------
(* Bodies *)

\* A note that is there is told from one that is not.
LEMMA BodiesAreNoNote == NoNote \notin Bodies /\ <<>> \in Bodies
BY EditsAssumption DEF Bodies, Texts

\* A page of one text has no tag at all.
LEMMA OneText ==
    ASSUME NEW t \in Texts
    PROVE  <<t>> \in Bodies /\ OnceEach(<<t>>)
BY DEF Bodies, OnceEach

\* An empty page holds no tag twice.
LEMMA EmptyBody == OnceEach(<<>>)
BY DEF OnceEach

\* What an appended body holds, and where.
LEMMA Appended ==
    ASSUME NEW body \in Bodies, NEW x \in Texts \cup Tags
    PROVE  /\ Append(body, x) \in Bodies
           /\ DOMAIN Append(body, x) = 1..(Len(body) + 1) /\ Len(body) \in Nat
           /\ DOMAIN body = 1..Len(body)
           /\ \A i \in DOMAIN body : Append(body, x)[i] = body[i]
           /\ Append(body, x)[Len(body) + 1] = x
           /\ \A t : Holds(body, t) => Holds(Append(body, x), t)
           /\ body # NoNote /\ Append(body, x) # NoNote
<1>1. body \in Seq(Texts \cup Tags) /\ Len(body) \in Nat /\ DOMAIN body = 1..Len(body)
  BY DEF Bodies
<1>2. /\ Append(body, x) \in Seq(Texts \cup Tags)
      /\ DOMAIN Append(body, x) = 1..(Len(body) + 1)
      /\ \A i \in 1..Len(body) : Append(body, x)[i] = body[i]
      /\ Append(body, x)[Len(body) + 1] = x
  BY <1>1
<1>3. body # NoNote /\ Append(body, x) # NoNote
  BY <1>2, BodiesAreNoNote DEF Bodies
<1>4. \A t : Holds(body, t) => Holds(Append(body, x), t)
  BY <1>1, <1>2, <1>3 DEF Holds, ToSet
<1> QED BY <1>1, <1>2, <1>3, <1>4 DEF Bodies

\* Adding a text, or a tag that is not there yet, puts no tag twice.
LEMMA AppendedOnce ==
    ASSUME NEW body \in Bodies, OnceEach(body), NEW x \in Texts \cup Tags,
           x \in Texts \/ ~Holds(body, x)
    PROVE  OnceEach(Append(body, x))
<1>1. SUFFICES ASSUME NEW t \in Tags, NEW i \in DOMAIN Append(body, x),
                      NEW j \in DOMAIN Append(body, x),
                      Append(body, x)[i] = t, Append(body, x)[j] = t
               PROVE  i = j
  BY DEF OnceEach
<1>2. i \in 1..(Len(body) + 1) /\ j \in 1..(Len(body) + 1) /\ Len(body) \in Nat
  BY Appended
<1>3. CASE x = t
  <2>1. ~Holds(body, t)
    BY <1>3, EditsAssumption DEF Texts
  <2>2. \A k \in DOMAIN body : body[k] # t
    BY <2>1, Appended DEF Holds, ToSet
  <2>3. i = Len(body) + 1 /\ j = Len(body) + 1
    BY <1>1, <1>2, <2>2, Appended
  <2> QED BY <2>3
<1>4. CASE x # t
  <2>1. i \in DOMAIN body /\ j \in DOMAIN body
    <3>1. Append(body, x)[Len(body) + 1] # t
      <4>1. Append(body, x)[Len(body) + 1] = x
        BY Appended
      <4> QED BY <4>1, <1>4
    <3>2. i # Len(body) + 1 /\ j # Len(body) + 1
      BY <1>1, <3>1, Zenon
    <3>3. DOMAIN body = 1..Len(body)
      BY Appended
    <3> QED BY <1>2, <3>2, <3>3
  <2>2. body[i] = t /\ body[j] = t
    BY <1>1, <2>1, Appended
  <2> QED BY <2>1, <2>2 DEF OnceEach
<1> QED BY <1>3, <1>4

-----------------------------------------------------------------------------
(* Calls begin, read and end. *)

\* A caller that does nothing claims nothing.
LEMMA IdleFits ==
    /\ Idle \in JobRecords /\ Idle.at = "idle" /\ Idle.settled = {}
    /\ JobFits(Idle)
<1>1. Idle \in JobRecords
  BY EditsAssumption, BodiesAreNoNote DEF Idle, JobRecords, Sends
<1>2. Idle.at = "idle" /\ Idle.settled = {} /\ Idle.body = <<>>
  BY DEF Idle
<1> QED BY <1>1, <1>2, EmptyBody DEF JobFits, Sensible

\* A call that moves by itself, the vault staying as it is.
LEMMA OneJobMoves ==
    ASSUME NotesInv, NEW c \in Callers, NEW x \in JobRecords, JobFits(x),
           job' = [job EXCEPT ![c] = x], vault' = vault, made' \in 0..MaxCalls
    PROVE  NotesInv'
<1>1. job' \in [Callers -> JobRecords] /\ \A d \in Callers : JobFits(job'[d])
  BY DEF NotesInv
<1> QED BY <1>1 DEF NotesInv, JobFits

\* A call that ends keeps the invariant.
LEMMA EndsFits ==
    ASSUME NotesInv, NEW c \in Callers, Ends(c)
    PROVE  NotesInv'
BY IdleFits, OneJobMoves DEF Ends, NotesInv

\* A call that begins has only to keep what its note holds now.
LEMMA BeginsFits ==
    ASSUME NotesInv, NEW c \in Callers, NEW p \in Paths, NEW q \in Paths,
           NEW op \in {"append", "replace", "tag", "quick", "delete", "move"},
           NEW first \in Sends \cup {"read"}, NEW tag \in Tags \cup {NoTag},
           first # "put",
           first = "append" => op \in {"append", "quick"},
           first = "read" => op \in {"replace", "tag", "quick"},
           first \in {"delete", "move"} => op = first,
           op = "tag" => tag \in Tags,
           Begins(c, op, p, first, q, tag)
    PROVE  NotesInv'
<1> DEFINE text == IF op \in Writers THEN made + 1 ELSE 0
           settled == IF op \in Adders THEN TextIn(vault[p]) ELSE {}
           x == [Idle EXCEPT !.op = op, !.at = first, !.path = p, !.target = q,
                             !.tag = tag, !.text = text, !.settled = settled]
<1>1. made' \in 0..MaxCalls /\ made + 1 \in Texts /\ job' = [job EXCEPT ![c] = x] /\ vault' = vault
  BY EditsAssumption DEF Begins, NotesInv, Texts
<1>2. text \in 0..MaxCalls /\ (op \in Writers => text \in Texts)
  BY <1>1, EditsAssumption DEF Texts
<1>3. settled \in SUBSET Texts /\ \A t \in settled : Holds(vault[p], t)
  BY DEF TextIn
<1> HIDE DEF text, settled
<1>4. /\ x \in JobRecords /\ x.op = op /\ x.at = first /\ x.path = p /\ x.tag = tag
      /\ x.text = text /\ x.settled = settled /\ x.body = <<>>
  BY <1>2, <1>3, IdleFits DEF JobRecords, Idle
<1> HIDE DEF x
<1>5. Sensible(x)
  BY <1>2, <1>4 DEF Sensible
<1>6. JobFits(x)
  BY <1>3, <1>4, <1>5, EmptyBody DEF JobFits
<1> QED BY <1>1, <1>4, <1>6, OneJobMoves

\* A read, and what a call makes of the body it brings, keeps the invariant.
LEMMA ReadFits ==
    ASSUME NotesInv, NEW c \in Callers, Read(c)
    PROVE  NotesInv'
<1> DEFINE x == job[c]
           body == vault[x.path]
           y == AfterRead(x, body)
<1>1. /\ x \in JobRecords /\ JobFits(x) /\ x.at = "read"
      /\ x.op \in {"replace", "tag", "quick"}
  BY DEF NotesInv, Read, JobFits, Sensible
<1>2. /\ x.path \in Paths /\ x.settled \subseteq Texts /\ body \in Bodies \cup {NoNote}
      /\ body # NoNote => OnceEach(body)
      /\ x.op # "tag" => x.text \in Texts
      /\ x.op = "tag" => x.tag \in Tags
      /\ \A t \in x.settled : Holds(body, t)
  BY <1>1 DEF NotesInv, JobRecords, JobFits, Sensible, Writers
<1>3. CASE NothingToWrite(x, body)
  BY <1>3, EndsFits DEF Read
<1>4. CASE ~NothingToWrite(x, body)
  <2>1. job' = [job EXCEPT ![c] = y] /\ vault' = vault /\ made' \in 0..MaxCalls
    BY <1>4 DEF Read, NotesInv
  <2> HIDE DEF x, body
  <2>2. CASE x.op = "replace"
    <3>1. y = [x EXCEPT !.at = "put", !.body = <<x.text>>] /\ body # NoNote
      BY <1>4, <2>2 DEF AfterRead, NothingToWrite
    <3>2. <<x.text>> \in Bodies /\ OnceEach(<<x.text>>)
      BY <1>2, <2>2, OneText
    <3>3. /\ y \in JobRecords /\ y.at = "put" /\ y.op = "replace" /\ y.body = <<x.text>>
          /\ y.path = x.path /\ y.settled = x.settled /\ y.text = x.text
      BY <1>1, <2>2, <3>1, <3>2 DEF JobRecords, Sends
    <3> HIDE DEF y
    <3>4. JobFits(y)
      BY <1>2, <2>2, <3>1, <3>2, <3>3 DEF JobFits, Sensible, Adders, body
    <3> QED BY <2>1, <3>3, <3>4, OneJobMoves
  <2>3. CASE x.op = "tag"
    <3> DEFINE b == Append(body, x.tag)
    <3>1. y = [x EXCEPT !.at = "put", !.body = b] /\ body # NoNote /\ ~Holds(body, x.tag)
      BY <1>4, <2>3 DEF AfterRead, NothingToWrite
    <3>2. body \in Bodies /\ OnceEach(body) /\ x.tag \in Tags
      BY <1>2, <2>3, <3>1
    <3>3. b \in Bodies /\ OnceEach(b) /\ \A t : Holds(body, t) => Holds(b, t)
      BY <3>1, <3>2, Appended, AppendedOnce
    <3> HIDE DEF b
    <3>4. /\ y \in JobRecords /\ y.at = "put" /\ y.op = "tag" /\ y.body = b
          /\ y.path = x.path /\ y.settled = x.settled /\ y.tag = x.tag
      BY <1>1, <2>3, <3>1, <3>3 DEF JobRecords, Sends
    <3> HIDE DEF y
    <3>5. JobFits(y)
      BY <1>2, <3>1, <3>2, <3>3, <3>4 DEF JobFits, Sensible, Writers, body
    <3> QED BY <2>1, <3>4, <3>5, OneJobMoves
  <2>4. CASE x.op = "quick" /\ body # NoNote
    <3>1. y = [x EXCEPT !.at = "append"]
      BY <2>4 DEF AfterRead
    <3>2. /\ y \in JobRecords /\ y.at = "append" /\ y.op = "quick" /\ y.body = x.body
          /\ y.path = x.path /\ y.settled = x.settled /\ y.text = x.text
      BY <1>1, <2>4, <3>1 DEF JobRecords, Sends
    <3> HIDE DEF y
    <3>3. JobFits(y)
      BY <1>1, <1>2, <2>4, <3>2 DEF JobFits, Sensible, body
    <3> QED BY <2>1, <3>2, <3>3, OneJobMoves
  <2>5. CASE x.op = "quick" /\ body = NoNote
    <3>1. y = [x EXCEPT !.at = "put", !.body = <<x.text>>]
      BY <2>5 DEF AfterRead
    <3>2. <<x.text>> \in Bodies /\ OnceEach(<<x.text>>)
      BY <1>2, <2>5, OneText
    <3>3. /\ y \in JobRecords /\ y.at = "put" /\ y.op = "quick" /\ y.body = <<x.text>>
          /\ y.path = x.path /\ y.settled = x.settled /\ y.text = x.text
      BY <1>1, <2>5, <3>1, <3>2 DEF JobRecords, Sends
    <3>4. x.settled = {}
      BY <1>2, <2>5 DEF Holds
    <3> HIDE DEF y
    <3>5. JobFits(y)
      BY <1>2, <2>5, <3>2, <3>3, <3>4 DEF JobFits, Sensible
    <3> QED BY <2>1, <3>3, <3>5, OneJobMoves
  <2> QED BY <1>1, <2>2, <2>3, <2>4, <2>5 DEF x
<1> QED BY <1>3, <1>4

-----------------------------------------------------------------------------
(* The server carries a request out. *)

\* What a request leaves of the vault: a note for every path it does not take,
\* each of them with every tag once.
LEMMA EffectFits ==
    ASSUME NotesInv, NEW c \in Callers, job[c].at \in Sends, Possible(job[c])
    PROVE  /\ Effect(job[c]) \in [Paths -> Bodies \cup {NoNote}]
           /\ \A p \in Paths : Effect(job[c])[p] # NoNote => OnceEach(Effect(job[c])[p])
           /\ \A p \in Paths : vault[p] # NoNote /\ Effect(job[c])[p] = NoNote =>
                 job[c].at \in {"delete", "move"} /\ p = job[c].path
<1> DEFINE x == job[c]
<1>1. /\ x \in JobRecords /\ JobFits(x) /\ vault \in [Paths -> Bodies \cup {NoNote}]
      /\ \A p \in Paths : vault[p] # NoNote => OnceEach(vault[p])
  BY DEF NotesInv
<1>2. /\ x.path \in Paths /\ x.target \in Paths /\ x.body \in Bodies /\ OnceEach(x.body)
      /\ x.at = "append" => x.text \in Texts
  BY <1>1 DEF JobRecords, JobFits, Sensible, Writers
<1>3. x.at \in Sends /\ Possible(x)
  OBVIOUS
<1> HIDE DEF x
<1>4. CASE x.at = "put"
  <2>1. Effect(x) = [vault EXCEPT ![x.path] = x.body]
    BY <1>4 DEF Effect
  <2> QED BY <1>1, <1>2, <2>1, BodiesAreNoNote DEF x
<1>5. CASE x.at = "append"
  <2>1. Effect(x) = [vault EXCEPT ![x.path] = Append(@, x.text)]
    BY <1>5 DEF Effect
  <2>2. vault[x.path] \in Bodies /\ OnceEach(vault[x.path])
    BY <1>1, <1>2, <1>3, <1>5 DEF Possible
  <2> DEFINE b == Append(vault[x.path], x.text)
  <2>3. b \in Bodies /\ OnceEach(b) /\ b # NoNote
    BY <1>2, <1>5, <2>2, Appended, AppendedOnce
  <2> HIDE DEF b
  <2>4. Effect(x) = [vault EXCEPT ![x.path] = b]
    BY <2>1 DEF b
  <2> QED BY <1>1, <1>2, <2>3, <2>4 DEF x
<1>6. CASE x.at = "delete"
  <2>1. Effect(x) = [vault EXCEPT ![x.path] = NoNote]
    BY <1>6 DEF Effect
  <2> QED BY <1>1, <1>2, <1>6, <2>1 DEF x
<1>7. CASE x.at = "move"
  <2>1. Effect(x) = [vault EXCEPT ![x.path] = NoNote, ![x.target] = vault[x.path]]
    BY <1>7 DEF Effect
  <2>2. vault[x.path] # NoNote
    BY <1>3, <1>7 DEF Possible
  <2> QED BY <1>1, <1>2, <1>7, <2>1, <2>2 DEF x
<1> QED BY <1>3, <1>4, <1>5, <1>6, <1>7 DEF Sends

\* The vault carrying a request out keeps the invariant, late or twice.
LEMMA ServedFits ==
    ASSUME NotesInv, NEW c \in Callers, Served(c)
    PROVE  NotesInv'
<1> DEFINE x == job[c]
           sent == [job EXCEPT ![c].sends = @ + 1,
                               ![c].reply = IF Possible(x) THEN "ok" ELSE "refused"]
<1>1. /\ x.at \in Sends /\ x.sends < MaxSends /\ made' = made
      /\ vault' = IF Possible(x) THEN Effect(x) ELSE vault
      /\ job' = Witnessed(sent, x)
  BY DEF Served
<1>2. /\ vault' \in [Paths -> Bodies \cup {NoNote}]
      /\ \A p \in Paths : vault'[p] # NoNote => OnceEach(vault'[p])
      /\ \A p \in Paths : vault[p] # NoNote /\ vault'[p] = NoNote =>
            x.at \in {"delete", "move"} /\ p = x.path
  BY <1>1, EffectFits DEF NotesInv
<1>3. ASSUME NEW d \in Callers
      PROVE  /\ sent[d] \in JobRecords
             /\ sent[d].op = job[d].op /\ sent[d].at = job[d].at
             /\ sent[d].path = job[d].path /\ sent[d].text = job[d].text
             /\ sent[d].tag = job[d].tag /\ sent[d].body = job[d].body
             /\ sent[d].settled = job[d].settled /\ sent[d].bereft = job[d].bereft
  <2>1. job[d] \in JobRecords /\ job \in [Callers -> JobRecords]
    BY DEF NotesInv
  <2>2. CASE d # c
    BY <2>1, <2>2
  <2>3. CASE d = c
    <3> DEFINE reply == IF Possible(x) THEN "ok" ELSE "refused"
    <3>1. x.sends + 1 \in 0..MaxSends /\ reply \in {"none", "ok", "refused"}
      BY <1>1, <2>1, <2>3, EditsAssumption DEF JobRecords
    <3> HIDE DEF reply
    <3>2. sent[d] = [x EXCEPT !.sends = x.sends + 1, !.reply = reply]
      BY <2>1, <2>3 DEF reply
    <3> HIDE DEF sent
    <3> QED BY <2>1, <2>3, <3>1, <3>2 DEF JobRecords
  <2> QED BY <2>2, <2>3
<1> HIDE DEF sent
<1>4. ASSUME NEW d \in Callers
      PROVE  job'[d] \in JobRecords /\ JobFits(job[d])'
  <2> DEFINE y == sent[d]
             settled == {t \in y.settled : Holds(vault'[y.path], t)}
             bereft == y.bereft \/ (/\ x.at \in {"delete", "move"}
                                    /\ y.at # "idle" /\ y.path = x.path)
             z == [y EXCEPT !.settled = settled, !.bereft = bereft]
  <2>1. job'[d] = z
    BY <1>1 DEF Witnessed
  <2>2. y \in JobRecords /\ y.path \in Paths /\ y.settled \subseteq Texts /\ y.bereft \in BOOLEAN
    BY <1>3 DEF JobRecords
  <2>3. /\ Sensible(y) /\ OnceEach(y.body)
        /\ y.at = "put" /\ y.op \in Adders => \A t \in y.settled : Holds(y.body, t)
        /\ y.at = "put" /\ y.op \in {"replace", "tag"} /\ ~y.bereft => vault[y.path] # NoNote
    <3>1. JobFits(job[d])
      BY DEF NotesInv
    <3> QED BY <1>3, <3>1 DEF JobFits, Sensible
  <2>4. settled \in SUBSET y.settled /\ \A t \in settled : Holds(vault'[y.path], t)
    OBVIOUS
  <2>5. bereft \in BOOLEAN /\ (~bereft => ~y.bereft)
    BY <2>2
  <2>6. ~bereft /\ vault[y.path] # NoNote /\ y.at # "idle" => vault'[y.path] # NoNote
    BY <1>2, <2>2
  <2> HIDE DEF y, settled, bereft
  <2>7. /\ z \in JobRecords /\ z.op = y.op /\ z.at = y.at /\ z.path = y.path /\ z.text = y.text
        /\ z.tag = y.tag /\ z.body = y.body /\ z.settled = settled /\ z.bereft = bereft
    BY <2>2, <2>4, <2>5 DEF JobRecords
  <2> HIDE DEF z
  <2>8. /\ Sensible(z) /\ OnceEach(z.body)
        /\ \A t \in z.settled : Holds(vault'[z.path], t)
        /\ z.at = "put" /\ z.op \in Adders => \A t \in z.settled : Holds(z.body, t)
        /\ z.at = "put" /\ z.op \in {"replace", "tag"} /\ ~z.bereft => vault'[z.path] # NoNote
    BY <2>3, <2>4, <2>5, <2>6, <2>7 DEF Sensible
  <2> QED BY <2>1, <2>7, <2>8 DEF JobFits
<1>5. job' \in [Callers -> JobRecords]
  BY <1>1, <1>4 DEF Witnessed
<1> QED BY <1>1, <1>2, <1>4, <1>5 DEF NotesInv

\* A call that is sent again or gives up keeps it.
LEMMA GivesUpFits ==
    ASSUME NotesInv, NEW c \in Callers, GivesUp(c)
    PROVE  NotesInv'
<1> DEFINE x == job[c]
           y == [x EXCEPT !.adrift = TRUE]
<1>1. x \in JobRecords /\ JobFits(x)
  BY DEF NotesInv
<1>2. Ends(c) \/ (job' = [job EXCEPT ![c] = y] /\ vault' = vault /\ made' = made)
  BY DEF GivesUp
<1> HIDE DEF x
<1>3. /\ y \in JobRecords /\ y.op = x.op /\ y.at = x.at /\ y.path = x.path /\ y.text = x.text
      /\ y.tag = x.tag /\ y.body = x.body /\ y.settled = x.settled /\ y.bereft = x.bereft
  BY <1>1 DEF JobRecords
<1> HIDE DEF y
<1>4. JobFits(y)
  BY <1>1, <1>3 DEF JobFits, Sensible
<1>5. made \in 0..MaxCalls
  BY DEF NotesInv
<1> QED BY <1>2, <1>3, <1>4, <1>5, EndsFits, OneJobMoves

\* The invariant holds in every behaviour.
LEMMA NotesInvariant == Spec => []NotesInv
<1>1. Init => NotesInv
  <2> SUFFICES ASSUME Init PROVE NotesInv
    OBVIOUS
  <2>1. vault \in [Paths -> Bodies \cup {NoNote}] /\ \A p \in Paths : vault[p] # NoNote => OnceEach(vault[p])
    BY BodiesAreNoNote, EmptyBody DEF Init
  <2>2. job \in [Callers -> JobRecords] /\ \A c \in Callers : JobFits(job[c])
    BY IdleFits DEF Init
  <2> QED BY <2>1, <2>2, EditsAssumption DEF Init, NotesInv
<1>2. NotesInv /\ [Next]_vars => NotesInv'
  <2> SUFFICES ASSUME NotesInv, [Next]_vars PROVE NotesInv'
    OBVIOUS
  <2>1. CASE UNCHANGED vars
    BY <2>1 DEF vars, NotesInv, JobFits
  <2>2. ASSUME NEW c \in Callers, NEW p \in Paths,
               CallAppend(c, p) \/ CallReplace(c, p) \/ CallDelete(c, p)
        PROVE  NotesInv'
    BY <2>2, BeginsFits DEF CallAppend, CallReplace, CallDelete, Sends
  <2>3. ASSUME NEW c \in Callers, NEW p \in Paths, NEW t \in Tags, CallTag(c, p, t)
        PROVE  NotesInv'
    BY <2>3, BeginsFits DEF CallTag
  <2>4. ASSUME NEW c \in Callers, NEW p \in Paths, NEW q \in Paths, CallMove(c, p, q)
        PROVE  NotesInv'
    BY <2>4, BeginsFits DEF CallMove, Sends
  <2>5. ASSUME NEW c \in Callers, CallQuick(c) PROVE NotesInv'
    BY <2>5, BeginsFits, EditsAssumption DEF CallQuick
  <2>6. ASSUME NEW c \in Callers, Returns(c) \/ Vanishes(c) PROVE NotesInv'
    BY <2>6, EndsFits DEF Returns, Vanishes
  <2> QED BY <2>1, <2>2, <2>3, <2>4, <2>5, <2>6, ReadFits, ServedFits, GivesUpFits DEF Next
<1> QED BY <1>1, <1>2, PTL DEF Spec

-----------------------------------------------------------------------------
(* What the invariant says. *)

\* notes.py:13-14 and 74-75: however taps, retries and other writes interleave,
\* no note ends up with a tag twice; with the module's type invariant.
THEOREM TagsAlwaysOnce == Spec => []TagsOnce
<1>1. NotesInv => TagsOnce
  BY DEF NotesInv, TagsOnce, TypeOK, OnceEach, JobRecords
<1> QED BY <1>1, NotesInvariant, PTL

\* notes.py:50, 85 and capture.py:219-221: no append, tag or quick capture drops
\* text that was in the note all the while since it began.
THEOREM SettledTextIsAlwaysKept == Spec => SettledTextIsKept
<1>1. ASSUME NotesInv, NEW c \in Callers, Served(c) PROVE KeepsSettledText(c)
  <2> DEFINE x == job[c]
  <2>1. /\ x \in JobRecords /\ JobFits(x) /\ x.at \in Sends
        /\ vault' = IF Possible(x) THEN Effect(x) ELSE vault
        /\ vault \in [Paths -> Bodies \cup {NoNote}]
    BY <1>1 DEF NotesInv, Served
  <2>2. SUFFICES ASSUME x.op \in Adders, NEW t \in x.settled PROVE Holds(vault'[x.path], t)
    BY DEF KeepsSettledText
  <2> HIDE DEF x
  <2>3. /\ Holds(vault[x.path], t) /\ x.path \in Paths
        /\ x.at \in {"put", "append"} \/ ~Possible(x)
        /\ x.at = "put" => Holds(x.body, t)
        /\ x.at = "append" => x.text \in Texts
    <3>1. x.at \in {"put", "append"}
      BY <2>1, <2>2 DEF JobFits, Sensible, Sends, Adders
    <3> QED BY <2>1, <2>2, <3>1 DEF JobFits, Sensible, JobRecords, Writers
  <2>4. CASE ~Possible(x)
    BY <2>1, <2>3, <2>4
  <2>5. CASE Possible(x) /\ x.at = "put"
    <3>1. vault' = [vault EXCEPT ![x.path] = x.body]
      BY <2>1, <2>5 DEF Effect
    <3> QED BY <2>1, <2>3, <2>5, <3>1
  <2>6. CASE Possible(x) /\ x.at = "append"
    <3>1. vault' = [vault EXCEPT ![x.path] = Append(vault[x.path], x.text)]
      BY <2>1, <2>6 DEF Effect
    <3>2. vault[x.path] \in Bodies
      BY <2>1, <2>3, <2>6 DEF Possible
    <3>3. Holds(Append(vault[x.path], x.text), t)
      BY <2>3, <2>6, <3>2, Appended
    <3> QED BY <2>1, <2>3, <3>1, <3>3
  <2> QED BY <2>3, <2>4, <2>5, <2>6
<1>2. NotesInv => \A c \in Callers : Served(c) => KeepsSettledText(c)
  BY <1>1
<1> QED BY <1>2, NotesInvariant, PTL DEF SettledTextIsKept

\* notes.py:10-12 and rest.py:379-382: replacing or tagging brings a note back only
\* if the note went while that very call was in progress.
THEOREM RevivalsAlwaysOverlap == Spec => RevivalsOverlap
<1>1. ASSUME NotesInv, NEW c \in Callers, Served(c) PROVE RevivesNothing(c)
  <2> DEFINE x == job[c]
  <2>1. JobFits(x) /\ x.at \in Sends
    BY <1>1 DEF NotesInv, Served
  <2>2. SUFFICES ASSUME x.op \in {"replace", "tag"}, vault[x.path] = NoNote PROVE x.bereft
    BY DEF RevivesNothing
  <2>3. x.at = "put"
    BY <2>1, <2>2 DEF JobFits, Sensible, Sends
  <2> QED BY <2>1, <2>2, <2>3 DEF JobFits
<1>2. NotesInv => \A c \in Callers : Served(c) => RevivesNothing(c)
  BY <1>1
<1> QED BY <1>2, NotesInvariant, PTL DEF RevivalsOverlap
=============================================================================

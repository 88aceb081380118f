------------------------------ MODULE VaultTree ------------------------------
(* The folder tree the bot derives from the note listing (adapters/tree.py),  *)
(* the two ways a typed path is read (util/paths.py and find_node), and what   *)
(* a wiki-link resolves to (app/navigation.py).                                *)
(* A path is the sequence of its segments, "" and "." among them as typed; a   *)
(* listing is a set of note paths and a set of folder paths.  What str methods *)
(* do to a segment is given by constants.                                      *)
EXTENDS Naturals, Sequences, SequencesExt, FiniteSets

CONSTANTS
    Lower,     \* segment -> str.lower() of it
    Suffixed,  \* segment -> itself with ".md" if it has no "."
    Bare,      \* segment -> itself without a ".md" at its end
    Extended,  \* segment -> itself with ".md" after it
    Stem,      \* segment -> itself without its last extension
    Place,     \* segment -> its place in a listing by casefolded name; equal names
               \* are apart as the server lists them
    NoPath

Segments == DOMAIN Place

\* What is left of a typed path once it is normalised.
Names == Segments \ {"", "."}
NamePaths == Seq(Names) \ {<<>>}

ASSUME TreeAssumption ==
    /\ \A f \in {Lower, Suffixed, Bare, Extended, Stem} : DOMAIN f = Segments
    /\ \A s \in Names : Suffixed[s] \in Names
    /\ \A s \in Segments : Place[s] \in Nat
    /\ \A s, t \in Segments : Place[s] = Place[t] => s = t
    /\ NoPath \notin Seq(Segments)

Parent(path) == IF path = <<>> THEN <<>> ELSE Front(path)

\* S in the order of the pairs in R
Ordered(S, R) ==
    [n \in 1..Cardinality(S) |-> CHOOSE x \in S : Cardinality({y \in S : <<y, x>> \in R}) = n - 1]

\* The elements of s that are in T.
Kept(s, T) ==
    LET at     == {i \in 1..Len(s) : s[i] \in T}
        places == Ordered(at, {p \in at \X at : p[1] < p[2]})
    IN [n \in 1..Cardinality(at) |-> s[places[n]]]

-----------------------------------------------------------------------------
(* build_tree.  A tree is the set of its folders, the root among them, and of *)
(* its notes: a child is what has the folder as its parent.                   *)

\* ensure: a folder and everything above it
Ensured(folder) == {SubSeq(folder, 1, n) : n \in 0..Len(folder)}

BuildTree(listing) ==
    [folders |-> {<<>>} \cup (UNION {Ensured(f) : f \in listing.folders})
                        \cup (UNION {Ensured(Parent(n)) : n \in listing.notes}),
     notes |-> listing.notes]

\* assemble: the children in the order they are shown
ByName(S) == {p \in S \X S : Place[Last(p[1])] < Place[Last(p[2])]}
Children(S, folder) == {p \in S \ {<<>>} : Parent(p) = folder}
Subfolders(tree, folder) ==
    Ordered(Children(tree.folders, folder), ByName(Children(tree.folders, folder)))
NotesIn(tree, folder) ==
    Ordered(Children(tree.notes, folder), ByName(Children(tree.notes, folder)))

\* NavigationService.folder: the entries of a view
Entries(tree, folder) ==
    LET subfolders == Subfolders(tree, folder)
        notes      == NotesIn(tree, folder)
    IN [i \in DOMAIN subfolders |-> [kind |-> "folder", path |-> subfolders[i]]]
       \o [i \in DOMAIN notes |-> [kind |-> "note", path |-> notes[i]]]

-----------------------------------------------------------------------------
(* Typed paths. *)

RootIfMissing(tree, typed) ==
    IF typed \in tree.folders THEN typed ELSE <<>>

\* find_node strips the slashes at both ends and takes every segment literally.
FindNode(tree, typed) ==
    LET path == SubSeq(typed, SelectInSeq(typed, LAMBDA s : s # ""),
                       SelectLastInSeq(typed, LAMBDA s : s # ""))
    IN IF typed \in {<<>>, <<".">>} THEN <<>>
       ELSE IF ToSet(typed) # {""} /\ path \in tree.folders THEN path ELSE NoPath

\* normalise_folder_path and normalise_note_path, NoPath where they raise
NormaliseFolder(typed) ==
    LET kept == Kept(typed, Names)
    IN IF kept = <<>> \/ ".." \in ToSet(kept) THEN NoPath ELSE kept
NormaliseNote(typed) ==
    LET path == NormaliseFolder(typed)
    IN IF path = NoPath THEN NoPath ELSE [path EXCEPT ![Len(path)] = Suffixed[@]]

-----------------------------------------------------------------------------
(* Wiki-links. *)

\* _walk_notes: a folder's notes, then its subfolders in their order.  Where two
\* paths part, a note comes before what is in a folder, and else the names decide.
WalkBefore(m, n) ==
    \E i \in 1..Len(m) :
        /\ i <= Len(n)
        /\ \A k \in 1..(i - 1) : m[k] = n[k]
        /\ \/ i = Len(m) /\ i < Len(n)
           \/ (i = Len(m) <=> i = Len(n)) /\ Place[m[i]] < Place[n[i]]
Walk(notes) == Ordered(notes, {p \in notes \X notes : WalkBefore(p[1], p[2])})

LowerPath(path) == [i \in DOMAIN path |-> Lower[path[i]]]
BarePath(path) == [path EXCEPT ![Len(path)] = Bare[@]]
ExtendedPath(path) == [path EXCEPT ![Len(path)] = Extended[@]]

\* _note_index: the keys of one note; the first note that has a key keeps it
Keys(note) == {LowerPath(note), BarePath(LowerPath(note)), <<Lower[Stem[Last(note)]]>>}

LastWriterWins(tree, key) ==
    LET holders == {n \in tree.notes : key \in Keys(n)}
    IN IF holders = {} THEN NoPath ELSE Walk(holders)[Cardinality(holders)]
NoteAt(tree, key) ==
    LET holders == {n \in tree.notes : key \in Keys(n)}
    IN IF holders = {} THEN NoPath ELSE Walk(holders)[1]

\* _resolve: the key, then without ".md", then with it
Resolve(tree, target) ==
    LET key == LowerPath(target)
    IN IF NoteAt(tree, key) # NoPath THEN NoteAt(tree, key)
       ELSE IF NoteAt(tree, BarePath(key)) # NoPath THEN NoteAt(tree, BarePath(key))
       ELSE NoteAt(tree, ExtendedPath(key))
=============================================================================

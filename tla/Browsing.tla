------------------------------- MODULE Browsing -------------------------------
(* bot/browse.py, bot/search.py and the services under them: listings, notes,  *)
(* search results and the prompts before a deletion, as messages with buttons, *)
(* over a vault that others change too.                                        *)
(* A button's callback data is a token and an argument; what a token holds was *)
(* written when it was issued and never changes, so a message carries it.  A   *)
(* token that has expired answers that the view is stale and changes nothing.  *)
EXTENDS VaultTree, Paging, FiniteSets

CONSTANTS
    Folders,      \* folder paths the vault may have
    Files,        \* note paths the vault may have
    Typed,        \* what a user types for a folder
    Targets,      \* what [[...]] may hold
    LinksIn,      \* file name -> the targets in its body, in order
    Says,         \* file name -> how a body holds the query: "exact", "beyond" (only
                  \* outside the snippets), "case" (in another case) or "no"
    Tagged,       \* file names of the notes with the tag, and of the recent ones
    PageSize,     \* TREE_PAGE_SIZE and RESULTS_PAGE_SIZE
    FetchLimit,   \* LITERAL_BODY_FETCH_LIMIT
    SearchLimit,  \* SEARCH_DEFAULT_LIMIT
    MaxMessages,  \* bound on the messages a user still taps
    MaxChanges    \* bound on the changes of the vault

ASSUME BrowsingAssumption ==
    /\ PageSize \in Nat \ {0} /\ SearchLimit \in Nat \ {0} /\ FetchLimit \in Nat
    /\ MaxMessages \in Nat \ {0} /\ MaxChanges \in Nat
    /\ Folders \subseteq NamePaths /\ IsFiniteSet(Folders)
    /\ Files \subseteq NamePaths /\ IsFiniteSet(Files)
    /\ Typed \subseteq Seq(Segments)

VARIABLES
    vault,      \* NoteDiscovery: its notes and the folders it lists
    tree,       \* the cached tree, or NoTree
    chat,       \* the messages on the screen
    transport,  \* NOTEDISCOVERY_TRANSPORT
    changes     \* changes of the vault so far

browseVars == <<vault, tree, chat, transport, changes>>

NoTree == [folders |-> {}, notes |-> {}]

BrowseInit ==
    /\ vault \in {[folders |-> {}, notes |-> {}], [folders |-> Folders, notes |-> Files]}
    /\ tree = NoTree
    /\ chat = {}
    /\ transport \in {"rest", "mcp"}
    /\ changes = 0

-----------------------------------------------------------------------------
(* Messages.  `id` tells the tokens of notes apart, which a deletion revokes;  *)
(* seen, counted and then are history: the entries shown page by page, the     *)
(* folder a prompt counted, and what the vault held when the prompt was sent.  *)

Message == [kind |-> "folder", path |-> <<>>, entries |-> <<>>, page |-> 1, id |-> 0,
            seen |-> {}, size |-> 0, counted |-> NoPath, then |-> 0, fresh |-> TRUE]

Shown(m, page) == {i + 1 : i \in OnPage(Len(m.entries), PageSize, page)}

\* The message at a page, whatever number the callback had.
AtPage(m, n) ==
    LET page == Clamp(Len(m.entries), PageSize, n)
    IN [m EXCEPT !.page = page,
                 !.seen = @ \cup {[page |-> page, entry |-> m.entries[i]] : i \in Shown(m, page)}]

\* _folder_message: index counts from 0 into the stored listing
FolderButtons(m) ==
    {[arg |-> Offset(PageSize, m.page) + (i - 1),
      label |-> m.entries[Offset(PageSize, m.page) + i]]
        : i \in 1..Cardinality(Shown(m, m.page))}

\* hit_buttons: index counts from 1
HitButtons(m) ==
    {[arg |-> Offset(PageSize, m.page) + i,
      label |-> m.entries[Offset(PageSize, m.page) + i]]
        : i \in 1..Cardinality(Shown(m, m.page))}

EntryButtons(m) == IF m.kind = "folder" THEN FolderButtons(m) ELSE HitButtons(m)

\* _enter and _open_hit: the entry an argument stands for
Enter(m, arg) == IF 0 <= arg /\ arg < Len(m.entries) THEN {m.entries[arg + 1]} ELSE {}
OpenHit(m, arg) == IF 1 <= arg /\ arg <= Len(m.entries) THEN {m.entries[arg]} ELSE {}
Chosen(m, arg) == IF m.kind = "folder" THEN Enter(m, arg) ELSE OpenHit(m, arg)

Edit(m, new) == chat' = (chat \ {m}) \cup {new}

\* A new message; a user whose screen is full scrolls one away.
Reply(new) == \/ Cardinality(chat) < MaxMessages /\ chat' = chat \cup {new}
              \/ /\ Cardinality(chat) = MaxMessages
                 /\ \E m \in chat : Edit(m, new)

\* In place of the messages in old (one or none).
Put(new, old) == IF old = {} THEN Reply(new) ELSE \E m \in old : Edit(m, new)

\* A token no message has.
NewId == CHOOSE id \in 1..(MaxMessages + 1) :
            /\ \A m \in chat : m.id # id
            /\ \A lower \in 1..(id - 1) : \E m \in chat : m.id = lower

-----------------------------------------------------------------------------
(* Reading the vault. *)

\* get_tree
Tree == IF tree = NoTree THEN BuildTree(vault) ELSE tree

\* NavigationService.folder of a path that is there, rendered by _folder_message
FolderMessage(typed) ==
    LET path == FindNode(Tree, typed)
    IN AtPage([Message EXCEPT !.path = path, !.entries = Entries(Tree, path)], 1)

\* _note_message: with the resolved links of wiki_links, which need the tree
NoteMessage(note, id) ==
    LET links == LinksIn[Last(note)]
        found == Kept([i \in DOMAIN links |-> Resolve(Tree, links[i])], Tree.notes)
    IN [Message EXCEPT !.kind = "note", !.path = note, !.id = id,
                       !.entries = [i \in DOMAIN found |-> [kind |-> "note", path |-> found[i]]]]

Reads == UNCHANGED <<vault, transport, changes>>

\* A handler that renders the folder, or tells NotFound once it has the tree.
GoTo(typed, old) ==
    /\ tree' = Tree
    /\ IF FindNode(Tree, typed) = NoPath THEN UNCHANGED chat ELSE Put(FolderMessage(typed), old)
    /\ Reads

\* get_note, and then the tree for the links of the body
ShowNote(note, id, old) ==
    /\ note \in vault.notes
    /\ tree' = IF LinksIn[Last(note)] = <<>> THEN tree ELSE Tree
    /\ Put(NoteMessage(note, id), old)
    /\ Reads

-----------------------------------------------------------------------------
(* Commands that read. *)

BrowseCommand(typed) == GoTo(typed, {})

OpenCommand(typed) ==
    /\ NormaliseNote(typed) # NoPath
    /\ ShowNote(NormaliseNote(typed), NewId, {})

\* The order of ranking.py is a score; here the order of a listing stands for it.
Results(notes) ==
    LET hits == Walk(notes)
    IN AtPage([Message EXCEPT !.kind = "hits",
                  !.entries = [i \in 1..(IF Len(hits) < SearchLimit THEN Len(hits) ELSE SearchLimit)
                                 |-> [kind |-> "note", path |-> hits[i]]]], 1)

\* _present: a page of results, or words when there are none
Present(notes) ==
    /\ notes # {}
    /\ Reply(Results(notes))
    /\ Reads /\ UNCHANGED tree

Holding(ways) == {n \in vault.notes : Says[Last(n)] \in ways}

\* search_literal: the snippets decide, and over REST the bodies of the first
\* near misses; a body that cannot be read decides nothing.
Literal ==
    LET near == Holding({"beyond", "case"})
    IN IF transport = "mcp" THEN {Holding({"exact"})}
       ELSE {Holding({"exact"}) \cup (read \cap Holding({"beyond"}))
                : read \in {r \in SUBSET near : Cardinality(r) <= FetchLimit}}

\* _text_search; where the probe or the instance says that search is off, and
\* for a query too short, the answer is words.
SearchCommand == Present(Holding({"exact", "beyond", "case"}))
FindCommand == \E notes \in Literal : Present(notes)
\* by_tag and recent, which need no search
ListCommand == Present({n \in vault.notes : Last(n) \in Tagged})

-----------------------------------------------------------------------------
(* Buttons that read. *)

\* page_callback and nav_callback with a number: the stored listing again
RelistPage(m, n) == AtPage([m EXCEPT !.entries = Entries(BuildTree(vault), m.path)], n)
TurnedPage(m, n) == AtPage(m, n)

TurnPage(m) ==
    /\ m.kind \in {"folder", "hits"}
    /\ \E n \in {m.page - 1, m.page + 1} \cap 1..Pages(Len(m.entries), PageSize) :
          Edit(m, TurnedPage(m, n))
    /\ Reads /\ UNCHANGED tree

EnterFolder(m) ==
    /\ m.kind = "folder"
    /\ \E b \in FolderButtons(m) : \E e \in Enter(m, b.arg) :
          e.kind = "folder" /\ GoTo(e.path, {m})

\* A note opens as a message of its own.
OpenEntry(m) ==
    /\ m.kind \in {"folder", "hits"}
    /\ \E b \in EntryButtons(m) : \E e \in Chosen(m, b.arg) :
          e.kind = "note" /\ ShowNote(e.path, NewId, {})

\* "up" and "root" on a listing, and the pointers under a note
UpOrRoot(m) ==
    /\ m.kind \in {"folder", "note"}
    /\ \E to \in {<<>>, Parent(m.path)} : GoTo(to, {m})

\* note_callback: a link, a backlink or a related note turns the message into it
FollowLink(m) ==
    /\ m.kind \in {"note", "refs"}
    /\ \E i \in DOMAIN m.entries :
          ShowNote(m.entries[i].path, NewId, {m})

\* The notes with a link to this one, and over the graph those it links to.
Neighbours(note) ==
    LET back == {n \in vault.notes : \E i \in DOMAIN LinksIn[Last(n)] :
                                        Resolve(BuildTree(vault), LinksIn[Last(n)][i]) = note}
    IN {back, back \cup {n \in vault.notes : \E i \in DOMAIN LinksIn[Last(note)] :
                            Resolve(BuildTree(vault), LinksIn[Last(note)][i]) = n}}

\* _verb_backlinks and _verb_related: at most a page of buttons
Related(m) ==
    /\ m.kind = "note" /\ m.path \in vault.notes
    /\ \E notes \in Neighbours(m.path) :
          LET refs == Walk(notes)
          IN Reply([Message EXCEPT !.kind = "refs",
                       !.entries = [i \in 1..(IF Len(refs) < PageSize THEN Len(refs) ELSE PageSize)
                                      |-> [kind |-> "note", path |-> refs[i]]]])
    /\ Reads /\ UNCHANGED tree

-----------------------------------------------------------------------------
(* Writing. *)

Under(folder) ==
    {e \in [kind : {"folder"}, path : BuildTree(vault).folders]
             \cup [kind : {"note"}, path : vault.notes] : IsStrictPrefix(folder, e.path)}

\* What an adapter refuses with Unsupported.
UnsupportedByMcp == {"move_folder", "delete_folder"}
Supports(operation) == transport = "rest" \/ operation \notin UnsupportedByMcp

\* A write that answers drops the cached tree; one whose answer is lost was
\* carried out all the same, and its handler ends with an error.
Write(v, Done) ==
    /\ changes < MaxChanges
    /\ changes' = changes + 1
    /\ vault' = v
    /\ \/ tree' = NoTree /\ Done
       \/ UNCHANGED <<tree, chat>>
    /\ UNCHANGED transport

CreateNote(note) ==
    /\ note \notin vault.notes
    /\ Write([vault EXCEPT !.notes = @ \cup {note}], UNCHANGED chat)

MoveCommand(old, typed) ==
    /\ old \in vault.notes /\ NormaliseNote(typed) \notin {NoPath} \cup vault.notes
    /\ Write([vault EXCEPT !.notes = (@ \ {old}) \cup {NormaliseNote(typed)}], UNCHANGED chat)

FolderNew(typed) ==
    /\ NormaliseFolder(typed) \notin {NoPath} \cup BuildTree(vault).folders
    /\ Write([vault EXCEPT !.folders = @ \cup {NormaliseFolder(typed)}], UNCHANGED chat)

\* The server's move of a folder and of everything under it; a rename is one.
Moved(old, new, p) == IF IsPrefix(old, p) THEN new \o SubSeq(p, Len(old) + 1, Len(p)) ELSE p

FolderMove(typed, newTyped) ==
    LET old == NormaliseFolder(typed)
        new == NormaliseFolder(newTyped)
    IN /\ Supports("move_folder")
       /\ old \in BuildTree(vault).folders
       /\ new \notin {NoPath} \cup BuildTree(vault).folders
       /\ ~IsPrefix(old, new)
       /\ Write([folders |-> {Moved(old, new, f) : f \in vault.folders},
                 notes |-> {Moved(old, new, n) : n \in vault.notes}], UNCHANGED chat)

\* folder_size: the entries of the view, 0 if there is none or the read failed
FolderSize(typed) ==
    LET path == FindNode(Tree, typed)
    IN IF path = NoPath THEN 0 ELSE Len(Entries(Tree, path))

\* The prompt before a folder is deleted; it is shown over MCP as well.
AskFolder(typed, size, counted, fresh) ==
    Reply([Message EXCEPT !.kind = "askFolder", !.path = typed, !.size = size,
              !.counted = counted, !.fresh = fresh,
              !.then = IF NormaliseFolder(typed) = NoPath THEN 0
                       ELSE Cardinality(Under(NormaliseFolder(typed)))])

ConfirmFolderDelete(typed) ==
    /\ typed # <<>>
    /\ \/ /\ tree' = Tree
          /\ AskFolder(typed, FolderSize(typed), FindNode(Tree, typed), Tree = BuildTree(vault))
       \/ tree = NoTree /\ tree' = tree /\ AskFolder(typed, 0, NoPath, FALSE)
    /\ Reads

\* rmdirok: done or not, the prompt gives way to words; a path that cannot be
\* normalised raises past the handler and leaves it.
DeleteFolderConfirmed(m) ==
    LET folder == NormaliseFolder(m.path)
    IN /\ m.kind = "askFolder" /\ folder # NoPath
       /\ chat' = chat \ {m}
       /\ \/ /\ Supports("delete_folder") /\ folder \in BuildTree(vault).folders
             /\ changes < MaxChanges
             /\ changes' = changes + 1
             /\ vault' = [folders |-> {f \in vault.folders : ~IsPrefix(folder, f)},
                          notes |-> {n \in vault.notes : ~IsPrefix(folder, n)}]
             /\ tree' \in {tree, NoTree}
          \/ UNCHANGED <<vault, tree, changes>>
       /\ UNCHANGED transport

\* _verb_delete: the prompt has the token of the note
AskNote(m) ==
    /\ m.kind = "note" /\ m.id # 0
    /\ Reply([Message EXCEPT !.kind = "askNote", !.path = m.path, !.id = m.id])
    /\ Reads /\ UNCHANGED tree

\* delok: once it is acknowledged, every button with that token is dead
DeleteConfirmed(m) ==
    /\ m.kind = "askNote" /\ m.id # 0 /\ m.path \in vault.notes
    /\ Write([vault EXCEPT !.notes = @ \ {m.path}],
             chat' = {IF x.id = m.id THEN [x EXCEPT !.id = 0] ELSE x : x \in chat \ {m}})

\* nodel, on either prompt
DeleteCancelled(m) ==
    /\ m.kind \in {"askNote", "askFolder"}
    /\ chat' = chat \ {m}
    /\ Reads /\ UNCHANGED tree

-----------------------------------------------------------------------------
(* The rest of the world. *)

\* Somebody adds, removes or moves something in NoteDiscovery itself.
Elsewhere ==
    /\ changes < MaxChanges
    /\ changes' = changes + 1
    /\ \/ \E n \in Files \ vault.notes : vault' = [vault EXCEPT !.notes = @ \cup {n}]
       \/ \E n \in vault.notes : vault' = [vault EXCEPT !.notes = @ \ {n}]
       \/ \E f \in vault.folders : vault' = [vault EXCEPT !.folders = @ \ {f}]
    /\ UNCHANGED <<tree, chat, transport>>

\* TREE_CACHE_TTL_S passes.
TreeExpires ==
    /\ tree # NoTree
    /\ tree' = NoTree
    /\ Reads /\ UNCHANGED chat

Tap(m) == \/ TurnPage(m) \/ EnterFolder(m) \/ OpenEntry(m) \/ UpOrRoot(m)
          \/ FollowLink(m) \/ Related(m)
          \/ DeleteFolderConfirmed(m) \/ AskNote(m) \/ DeleteConfirmed(m)
          \/ DeleteCancelled(m)

Command == \/ \E typed \in Typed : \/ BrowseCommand(typed) \/ OpenCommand(typed)
                                   \/ FolderNew(typed) \/ ConfirmFolderDelete(typed)
                                   \/ \E new \in Typed : FolderMove(typed, new)
                                   \/ \E old \in vault.notes : MoveCommand(old, typed)
           \/ SearchCommand \/ FindCommand \/ ListCommand
           \/ \E n \in Files : CreateNote(n)

BrowseNext == \/ \E m \in chat : Tap(m)
              \/ Command \/ Elsewhere \/ TreeExpires

BrowseSpec == BrowseInit /\ [][BrowseNext]_browseVars

-----------------------------------------------------------------------------
TypeOK ==
    /\ vault.notes \subseteq Seq(Segments) /\ vault.folders \subseteq Seq(Segments)
    /\ tree = NoTree \/ <<>> \in tree.folders
    /\ Cardinality(chat) <= MaxMessages /\ changes \in 0..MaxChanges

\* browse.py:227-231 counts from 0, results.py:140-146 from 1, and a page turn
\* renders the stored listing (browse.py:190-195, search.py:5-9).  Whatever
\* happened to the vault since, a button opens the entry it is labelled with,
\* and who turns all pages has seen every entry, each on one page.
ButtonsOpenWhatTheyShow ==
    \A m \in chat : m.kind \in {"folder", "hits"} =>
        /\ \A b \in EntryButtons(m) : Chosen(m, b.arg) = {b.label}
        /\ \A x, y \in m.seen : x.entry = y.entry => x.page = y.page
        /\ 1..Pages(Len(m.entries), PageSize) = {x.page : x \in m.seen} =>
              {x.entry : x \in m.seen} = ToSet(m.entries)

\* navigation.py:199-209, 252-254.  The first reading of a link that any note
\* answers to decides.  If it is some note's path, in any case and with or without
\* .md, the link opens a note at that path though others have it for a title; only
\* the root's notes, which are indexed first, can take a bare name from one
\* another.  If it is only a title, the link opens the first note with it, and only
\* a link no note answers to in any reading is shown as unresolved.
LinksResolve ==
    tree # NoTree =>
    \A target \in Targets :
        LET key       == LowerPath(target)
            opened    == Resolve(tree, target)
            Named(k)  == {n \in tree.notes : k \in {LowerPath(n), BarePath(LowerPath(n))}}
            Titled(k) == {n \in tree.notes : <<Lower[Stem[Last(n)]]>> = k}
            Opens(k)  == IF Named(k) # {}
                         THEN opened \in Named(k) \cup {n \in Titled(k) : Parent(n) = <<>>}
                         ELSE /\ opened \in Titled(k)
                              /\ \A n \in Titled(k) \ {opened} : WalkBefore(opened, n)
            Held(k)   == Named(k) \cup Titled(k) # {}
        IN IF Held(key) THEN Opens(key)
           ELSE IF Held(BarePath(key)) THEN Opens(BarePath(key))
           ELSE IF Held(ExtendedPath(key)) THEN Opens(ExtendedPath(key))
           ELSE opened = NoPath

\* browse.py:713-732 and navigation.py:232-238.  The folder a prompt counted is
\* the folder its button deletes, and the count is right about whether there is
\* anything at stake, unless the cached tree was out of date, could not be read,
\* or the path was typed in a way the tree does not take.
StakesAreNamed ==
    TypeOK /\
    \A m \in chat : m.kind = "askFolder" /\ NormaliseFolder(m.path) # NoPath =>
        /\ m.counted # NoPath => m.counted = NormaliseFolder(m.path)
        /\ m.fresh => /\ m.size <= m.then
                      /\ m.size = 0 /\ m.then > 0 => m.path # NormaliseFolder(m.path)

=============================================================================

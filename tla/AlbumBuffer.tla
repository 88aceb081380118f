----------------------------- MODULE AlbumBuffer -----------------------------
(* bot/albums.py: the first photo of a media group opens its list and waits a *)
(* window, later ones join the list, and the first takes what is there.       *)
EXTENDS Naturals, FiniteSets

CONSTANTS Photos,   \* the photos of one media group
          MaxAlbum  \* MAX_ALBUM_SIZE

ASSUME AlbumAssumption == MaxAlbum \in Nat \ {0} /\ IsFiniteSet(Photos)

VARIABLES
    open,     \* is the group in the buffer
    group,    \* its photos
    batches,  \* the lists handed to a capture
    got,      \* history: the photos collect() was called with
    dropped,  \* photos beyond the cap
    lost      \* photos that were in the buffer when the bot stopped

albumVars == <<open, group, batches, got, dropped, lost>>

AlbumInit ==
    /\ open = FALSE /\ group = {} /\ batches = {}
    /\ got = {} /\ dropped = {} /\ lost = {}

OpensEmpty(x) ==
    /\ open' = TRUE /\ group' = {} /\ got' = got \cup {x}
    /\ UNCHANGED <<batches, dropped, lost>>

\* The first caller: the entry is made before it sleeps.
Opens(x) ==
    /\ open' = TRUE /\ group' = {x} /\ got' = got \cup {x}
    /\ UNCHANGED <<batches, dropped, lost>>

\* A later caller adds its photo, or drops it when the list is full.
Joins(x) ==
    /\ IF Cardinality(group) < MaxAlbum
       THEN group' = group \cup {x} /\ UNCHANGED dropped
       ELSE dropped' = dropped \cup {x} /\ UNCHANGED group
    /\ got' = got \cup {x}
    /\ UNCHANGED <<open, batches, lost>>

ClosesWhenFull ==
    /\ Cardinality(group) = MaxAlbum
    /\ open' = FALSE /\ group' = {} /\ batches' = batches \cup {group}
    /\ UNCHANGED <<got, dropped, lost>>

\* The window is over.
Closes ==
    /\ open' = FALSE /\ group' = {} /\ batches' = batches \cup {group}
    /\ UNCHANGED <<got, dropped, lost>>

AlbumRestart ==
    /\ open' = FALSE /\ group' = {} /\ lost' = lost \cup group
    /\ UNCHANGED <<batches, got, dropped>>

AlbumTypeOK ==
    /\ open \in BOOLEAN
    /\ group \subseteq Photos /\ batches \subseteq SUBSET Photos
    /\ got \subseteq Photos /\ dropped \subseteq Photos /\ lost \subseteq Photos

\* albums.py:39-43 and 18-20: photos of an album that arrive in any order and at
\* any time, the window's end included, are each in one list, handed over once,
\* unless they are beyond the cap or the bot stopped; no list is empty.
EachPhotoOnce ==
    /\ got = group \cup (UNION batches) \cup dropped \cup lost
    /\ Cardinality(got) = Cardinality(group) + Cardinality(dropped) + Cardinality(lost)
                             + Cardinality(UNION batches)
    /\ \A b, c \in batches : b # c => b \cap c = {}
    /\ {} \notin batches /\ (open => group # {})

\* albums.py:14-20: what was collected reaches a capture, or the bot stopped.
PhotosAreDelivered ==
    \A x \in Photos : x \in group ~> x \in (UNION batches) \cup lost
=============================================================================

SPECIFICATION Spec
CONSTANTS
    Handlers = {h1, h2}
    Titles = {t1, t2}
    Inbox = inbox
    Folders = {f1, f2}
    NoteNames = {note}
    Ambiguous = {either}
    NoTarget = NoTarget
    Untitled = untitled
    NoPath = NoPath
    NoCard = NoCard
    MaxSuffix = 2
    MaxStarts = 2
    MaxEdits = 1
    MaxCards = 2
SYMMETRY Perms
INVARIANTS OnlyLatecomersAreOverwritten SuffixesAreEarned RepeatedSavesOverlapped
CHECK_DEADLOCK FALSE

SPECIFICATION Spec
CONSTANTS
    Callers = {c1, c2}
    Paths = {inbox, note}
    Inbox = inbox
    Tags = {tag}
    NoNote = NoNote
    NoTag = NoTag
    MaxCalls = 4
    MaxSends = 2
SYMMETRY Perms
INVARIANTS TagsOnce
PROPERTIES SettledTextIsKept RevivalsOverlap
CHECK_DEADLOCK FALSE

SPECIFICATION Spec
CONSTANTS
    Slots = {s1, s2}
    Tokens = {t1}
    Strangers = {u1}
    Keys = {t1, u1}
    Photos = {x1, x2, x3}
    MaxAlbum = 2
    TTL = 2
    MaxTime = 4
    Nothing = Nothing
    MaxUpdates = 5
PROPERTY EditsAreAnswered
CHECK_DEADLOCK FALSE

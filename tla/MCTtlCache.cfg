CONSTANTS
    Readers = {r1, r2}
    Writers = {w1}
    TTL = 1
    MaxVersion = 2
    NoValue = NoValue
    Nobody = Nobody
SPECIFICATION FairSpec
INVARIANTS
    OneLoader
    QuietWritesAreSeen
PROPERTIES
    LoadsOnlyWhenNeeded
    StalenessEnds

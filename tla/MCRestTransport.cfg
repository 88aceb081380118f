CONSTANTS
    Callers = {c1, c2, c3}
    Nobody = Nobody
    Limit = 1
    Window = 2
    MaxTime = 4
    MaxRetries = 1
SPECIFICATION Spec
SYMMETRY Symmetry
INVARIANTS
    CallsAreSpaced
    OneSleepIsEnough
    OutcomesAreTrue
    EffectsAreBounded
CHECK_DEADLOCK FALSE

SPECIFICATION Spec
CONSTANTS
    p = p
    h = h
    e1 = e1
    Probe = p
    Handlers = {h}
    Evals = {e1}
    Callers = {p, h, e1}
    MaxLaunches = 4
    MaxTroubles = 2
INVARIANTS
    OrphansAreExplained
    FailuresAreExplained
    AnswersAreTrue
    NothingOutlivesTheEnd
PROPERTY
    StopEndsTheProcess
CHECK_DEADLOCK FALSE

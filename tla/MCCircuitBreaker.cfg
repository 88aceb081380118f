CONSTANTS
    Threshold = 2
    Reset = 2
    Providers = {gemini, cloudflare}
    Callers = {c1, c2, c3}
    NoCall = NoCall
SPECIFICATION BreakerSpec
SYMMETRY Symmetry
INVARIANTS
    WellFormedCircuits
    SingleProbe
PROPERTIES
    CoolDownIsFixed

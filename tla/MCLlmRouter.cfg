CONSTANTS
    gemini = gemini
    puter = puter
    Providers <- MCProviders
    Requests = {r1, r2}
    Users = {u1}
    NoUser = NoUser
    Tasks = {"chat"}
    Ladders <- MCLadders
    Retries = 1
    Permits = 1
    Dialect <- MCDialect
    Replies = {"text", "unauthorised", "timeout", "rate limited for long", "garbled", "blocked",
               "refused key", "refused for funds"}
    MaxRequests = 2
    Threshold = 2
    Reset = 1
    DailyLimit = 1
    RateLimit = 1
    Window = 1
SPECIFICATION FairSpec
INVARIANTS
    ChargesAreFair
    RejectedKeyIsLeftAlone
    CallsPerRungBounded
    PermitsConserved
PROPERTIES
    ImplementsService
    RefusalsEnd
CHECK_DEADLOCK FALSE

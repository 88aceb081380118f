CONSTANTS
    gemini = gemini
    puter = puter
    Providers <- MCProviders
    Requests = {r1, r2}
    Users = {}
    NoUser = NoUser
    Tasks = {"chat"}
    Ladders <- MCLadders
    Retries = 0
    Permits = 0
    Dialect <- MCOtherDialect
    Replies = {"text", "server error", "garbled", "refused"}
    MaxRequests = 3
    Threshold = 2
    Reset = 1
    DailyLimit = 0
    RateLimit = 0
    Window = 1
SPECIFICATION FairSpec
PROPERTIES
    ProviderIsFoundAgain
CHECK_DEADLOCK FALSE

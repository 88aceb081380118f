CONSTANTS
    Keyless = {"ollama"}
    NeedAccount = {"cloudflare"}
    TextOnly = {"cerebras"}
    SettingsSpace <- MCSettings
    Captions <- MCCaptions
    Files = {f1, f2}
    Found = {n1, n2}
    NoRung = NoRung
    MaxCaptures = 1
    MaxTaps = 1
    MaxRegenerated = 1
SPECIFICATION MCSpec
SYMMETRY Symmetry
INVARIANTS
    FailuresAreTold
    UploadsAreReferenced
    WhatWasReadIsKept
    StampsAreTrue
    AnswersAreGrounded
CHECK_DEADLOCK FALSE

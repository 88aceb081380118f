---------------------------- MODULE AttemptLadder ----------------------------
(* From the settings to the rungs the router walks: llm/plan.py and            *)
(* llm/factory.py, once, at startup.                                           *)
(* Settings s hold s.chains, capability -> the provider names of LLM_CHAIN_*   *)
(* in order, and s.configs, known provider -> [key, account, models, vision];  *)
(* models and vision are the ordered lists of its *_MODELS variables.  A       *)
(* ladder is kept as the set of its rungs: any of them may be the one that     *)
(* answers in the end, and in which order they are tried is LlmRouter's.       *)
EXTENDS Naturals, Sequences, SequencesExt

CONSTANTS
    Keyless,      \* KEYLESS_PROVIDERS
    NeedAccount,  \* providers whose client cannot be built without an account id
    TextOnly      \* providers whose profile says vision=False

Capabilities == {"chat", "vision"}

\* TITLE and SUMMARISE walk the rungs of CHAT.
CapabilityOf(task) == IF task = "vision" THEN "vision" ELSE "chat"

HasCredentials(s, p) == s.configs[p].key \/ p \in Keyless

ModelsFor(s, p, capability) ==
    IF capability = "vision" THEN s.configs[p].vision ELSE s.configs[p].models

\* build_clients: one for every provider a chain names, unless it cannot be built
Named(s) == UNION {ToSet(s.chains[c]) : c \in Capabilities}
Clients(s) ==
    {p \in Named(s) \cap DOMAIN s.configs :
        HasCredentials(s, p) /\ (p \in NeedAccount => s.configs[p].account)}

\* capabilities, which has no entry for a client that was not built
TakesImages(s, p) == p \in Clients(s) \ TextOnly

\* build_attempt_ladder: why a name of a chain gives no rung, or "none"
Gap(s, p, capability) ==
    IF p \notin DOMAIN s.configs THEN "unknown provider"
    ELSE IF ~HasCredentials(s, p) THEN "no API key configured"
    ELSE IF capability = "vision" /\ ~TakesImages(s, p) THEN "cannot accept images"
    ELSE IF ToSet(ModelsFor(s, p, capability)) = {} THEN "no model listed"
    ELSE "none"

RungsOf(s, p, capability) ==
    IF Gap(s, p, capability) # "none" THEN {}
    ELSE {[provider |-> p, model |-> m] : m \in ToSet(ModelsFor(s, p, capability))}

\* The rungs of a whole chain, with or without a client to call.
Attempts(s, capability) ==
    UNION {RungsOf(s, p, capability) : p \in ToSet(s.chains[capability])}

KeepsUnbuilt(s, task) == Attempts(s, CapabilityOf(task))

\* build_router: `usable`
Ladder(s, task) == {a \in Attempts(s, CapabilityOf(task)) : a.provider \in Clients(s)}

\* The reasons a ladder is shorter than its chain: `skipped`, and what
\* build_clients says of a provider that was dropped with its rungs.
Skipped(s, task) ==
    LET capability == CapabilityOf(task)
        chain == ToSet(s.chains[capability])
    IN {[provider |-> p, why |-> Gap(s, p, capability)] :
           p \in {q \in chain : Gap(s, q, capability) # "none"}}
       \cup {[provider |-> p, why |-> "client not built"] :
           p \in {a.provider : a \in Attempts(s, capability)} \ Clients(s)}
=============================================================================

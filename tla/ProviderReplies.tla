--------------------------- MODULE ProviderReplies ---------------------------
(* The four dialects of llm/base.py, gemini.py, cloudflare.py and puter.py: what *)
(* one HTTP exchange with a provider comes to for the router.  A reply is a      *)
(* failed exchange, a status, or a 200 told by its body:                         *)
(*   garbled  no JSON, another shape, or no text;                                *)
(*   blocked  Gemini's safety verdict;                                           *)
(*   refused...  Workers AI's and Puter's `success: false`, by its error code.   *)
(* The kinds: "auth" is provider_level; "busy" and "bad" (LlmBadResponse) may be *)
(* repeated; "slow" is a rate limit that asks for more than MAX_SLEEP_S; "model" *)
(* is LlmInvalidRequest.                                                         *)

Failures == {"timeout", "unreachable", "server error"}
Statuses == {"unauthorised", "unknown model", "rejected", "rate limited", "rate limited for long"}
Bodies == {"text", "garbled", "blocked", "refused key", "refused for funds", "refused"}
AllReplies == Failures \cup Statuses \cup Bodies
Dialects == {"openai", "gemini", "cloudflare", "puter"}
Kinds == {"ok", "auth", "busy", "slow", "bad", "model"}

\* complete() and _to_error(), which the dialects share; an unparseable or absent
\* Retry-After is no Retry-After.
ByStatus(reply) ==
    CASE reply \in Failures                -> "busy"
      [] reply = "unauthorised"            -> "auth"
      [] reply = "rate limited"            -> "busy"
      [] reply = "rate limited for long"   -> "slow"
      [] OTHER                             -> "model"

\* _parse() of base.py: a refusal or a block has no choices, or no text in them.
OpenAiParsed(reply) == IF reply = "text" THEN "ok" ELSE "bad"

GeminiParsed(reply) == IF reply = "blocked" THEN "model" ELSE OpenAiParsed(reply)

\* _from_errors()
CloudflareParsed(reply) ==
    CASE reply = "refused key"                       -> "auth"
      [] reply \in {"refused", "refused for funds"}  -> "model"
      [] OTHER                                       -> OpenAiParsed(reply)

\* _from_error_field(): out of funds is a rate limit without a Retry-After.
PuterParsed(reply) ==
    CASE reply = "refused key"       -> "auth"
      [] reply = "refused for funds" -> "busy"
      [] reply = "refused"           -> "model"
      [] OTHER                       -> OpenAiParsed(reply)

Classed(dialect, reply) ==
    IF reply \notin Bodies THEN ByStatus(reply)
    ELSE CASE dialect = "openai"     -> OpenAiParsed(reply)
           [] dialect = "gemini"     -> GeminiParsed(reply)
           [] dialect = "cloudflare" -> CloudflareParsed(reply)
           [] OTHER                  -> PuterParsed(reply)

\* What the server means, however the dialect reads it: the key is no good.
RejectsKey(dialect, reply) ==
    reply = "unauthorised" \/ (reply = "refused key" /\ dialect \in {"cloudflare", "puter"})
=============================================================================

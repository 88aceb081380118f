----------------------------- MODULE MCLlmRouter -----------------------------
(* Small instances of LlmRouter. *)
EXTENDS LlmRouter, TLC

CONSTANTS gemini, puter

MCProviders == {gemini, puter}

\* Two models of one provider, then another provider.
MCLadders == [t \in Tasks |-> <<gemini, gemini, puter>>]

MCDialect == gemini :> "gemini" @@ puter :> "puter"

\* The same providers spoken to by the other two adapters.
MCOtherDialect == gemini :> "cloudflare" @@ puter :> "openai"
=============================================================================

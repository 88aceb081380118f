------------------------------ MODULE MCIngest ------------------------------
(* Small instances of IngestPipeline and Assist. *)
EXTENDS Assist, TLC

Config(key, account, models, vision) ==
    [key |-> key, account |-> account, models |-> models, vision |-> vision]

\* Gemini has a key; Cerebras carries no images; Cloudflare needs an account id;
\* Ollama needs no key; "typo" is a name no provider has.
Configs(account) ==
    ("gemini"     :> Config(TRUE, FALSE, <<"g">>, <<"g">>)) @@
    ("cerebras"   :> Config(TRUE, FALSE, <<"c">>, <<"c">>)) @@
    ("cloudflare" :> Config(TRUE, account, <<"w">>, <<"w">>)) @@
    ("puter"      :> Config(FALSE, FALSE, <<"p">>, <<"p">>)) @@
    ("ollama"     :> Config(FALSE, FALSE, <<"o">>, <<>>))

With(chat, vision, account, transport, provenance) ==
    [chains |-> ("chat" :> chat @@ "vision" :> vision), configs |-> Configs(account),
     transport |-> transport, provenance |-> provenance]

MCSettings ==
    {With(<<"cloudflare", "gemini">>, <<"cerebras", "cloudflare">>, TRUE, "rest", TRUE),
     With(<<"cloudflare", "ollama">>, <<"gemini">>, FALSE, "rest", TRUE),
     With(<<"typo", "puter">>, <<"gemini">>, FALSE, "rest", TRUE),
     With(<<"gemini">>, <<"ollama", "cloudflare">>, FALSE, "mcp", FALSE)}

Caption(verbatim, title, tags, summary, words) ==
    [verbatim |-> verbatim, title |-> title, tags |-> tags, summary |-> summary, words |-> words]

MCCaptions == {Caption(FALSE, TRUE, TRUE, FALSE, FALSE), Caption(TRUE, TRUE, FALSE, TRUE, TRUE)}

\* Questions and captures share the settings alone, so the run asks its
\* questions before the first capture.
MCNext ==
    \/ Next /\ question = Unasked /\ UNCHANGED question
    \/ captures = 0 /\ Assisting /\ UNCHANGED vars

MCSpec == AssistInit /\ [][MCNext]_avars

Symmetry == Permutations(Files) \cup Permutations(Found)
=============================================================================

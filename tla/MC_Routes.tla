------------------------------ MODULE MC_Routes ------------------------------
(* Two catalogues over three providers, one of them an anonymous tier: a     *)
(* model at two hosts, an alias of a backend, a block that is no chat model, *)
(* an excluded deployment, and two reserved ones only `vision` may spend.    *)
EXTENDS Routes

Chat(g, m, h) == [group |-> g, model |-> m, host |-> h, mode |-> "chat", redacted |-> FALSE]
NotChat(g, m, h) == [Chat(g, m, h) EXCEPT !.mode = "embedding"]

HostProvider == [g |-> "gemini", q |-> "groq", a |-> "anonymous"]
Priority     == <<"gemini", "groq", "anonymous">>
Anonymous    == {"anonymous"}

Dead     == {<<"dead", "q">>}
Kept4Vision == {<<"flash", "g">>, <<"pro", "g">>}
ToolsOK  == {<<"oss", "q">>, <<"lite", "g">>}
VisionOK == {<<"flash", "g">>, <<"pro", "g">>, <<"lite", "g">>}
Classify == <<<<"oss", "a">>, <<"lite", "g">>, <<"absent", "q">>, <<"oss", "q">>>>

Alone == [fork |-> <<>>,
          upstream |-> <<NotChat("embed", "oss", "q"), Chat("oss", "oss", "q"),
                         Chat("flash", "flash", "g"), Chat("free", "oss", "a"),
                         Chat("dead", "dead", "q"), Chat("big", "oss", "q"),
                         Chat("lite", "lite", "g")>>]

WithFork == [fork |-> <<Chat("pro", "pro", "g"), Chat("flash", "flash", "g")>>,
             upstream |-> <<Chat("free", "oss", "a"), Chat("oss", "oss", "q"),
                            Chat("lite", "lite", "g"), Chat("flash2", "flash", "g")>>]

Catalogues == {Alone, WithFork}

Nobody == <<"nobody", "nowhere">>
==============================================================================

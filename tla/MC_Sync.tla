------------------------------ MODULE MC_Sync ------------------------------
(***************************************************************************)
(* Five providers, one per way a deployment is told apart (a prefix of its *)
(* own, an api_base, no key needed, a curated list to fall back on, an     *)
(* aggregator), and ids for each special case of the catalogues.           *)
(***************************************************************************)
EXTENDS Sync, TLC

TheProviders == <<"openrouter", "nvidia", "llm7io", "huggingface", "ovhcloud">>
ThePrefix == [p \in ToSet(TheProviders) |->
                IF p \in {"openrouter", "huggingface"} THEN p ELSE "openai"]
TheBase == [p \in ToSet(TheProviders) |->
              IF p \in {"openrouter", "huggingface"} THEN NoBase ELSE p]

TheIds == <<"embed", "gpt-5", "gpt-oss", "gpt-oss:free", "inkling:free", "openai/gpt-oss",
            "openrouter/free", "pickle", "zed/Solar", "zed/solar">>
Table(f) == [m \in ToSet(TheIds) |-> IF m \in DOMAIN f THEN f[m] ELSE m]

TheVendor  == Table("openai/gpt-oss" :> "openai" @@ "openrouter/free" :> "openrouter"
                    @@ "zed/Solar" :> "zed" @@ "zed/solar" :> "zed")
TheSegment == Table("openai/gpt-oss" :> "gpt-oss" @@ "openrouter/free" :> "free"
                    @@ "zed/Solar" :> "solar" @@ "zed/solar" :> "solar")
TheLower   == Table("zed/Solar" :> "zed/solar")
ThePretty  == Table("gpt-oss:free" :> "gpt-oss" @@ "inkling:free" :> "inkling" @@ "zed/Solar" :> "solar"
                    @@ "openai/gpt-oss" :> "gpt-oss" @@ "openrouter/free" :> "free" @@ "zed/solar" :> "solar")

TheNames == <<"embed", "embedding", "free", "gpt-5", "gpt-oss", "inkling", "openrouter-free",
              "pickle", "solar">>
\* The name made from zed/solar does not normalise to its group.
TheNorm == Table("gpt-oss:free" :> "gpt-oss" @@ "inkling:free" :> "inkling" @@ "zed/Solar" :> "zed-solar" @@ "embed" :> "embedding"
                 @@ "openai/gpt-oss" :> "gpt-oss" @@ "openrouter/free" :> "openrouter"
                 @@ "zed/solar" :> "zed-solar")
           @@ [g \in ToSet(TheNames) |-> IF g = "openrouter-free" THEN "openrouter" ELSE g]

ThePool     == <<"gpt-oss", "llama", "solar">>
TheCatchAll == <<"llama", "gpt-oss", "openrouter-free">>

TheDead       == {<<"openrouter", "inkling:free">>}
TheFirstParty == {<<"ovhcloud", "gpt-5">>}
TheSlaves     == <<"slave1", "slave2">>

Block(g, p, m, mode) ==
  <<Name(g), Model(ThePrefix[p], m)>>
    \o (IF TheBase[p] = NoBase THEN <<>> ELSE <<ApiBase(TheBase[p])>>)
    \o <<Cost(0), Mode(mode)>>

Settings(chains) ==
  <<Key("rule"), Key("router_settings"), Begin("REDIS"), Marked("REDIS"), End("REDIS"),
    Begin(RetryTag), End(RetryTag), Blank, Key("fallbacks"), Chain("embedding", <<>>),
    Chain("gpt-oss", <<"solar", "embedding", "gpt-oss">>)>> \o chains
    \o <<Key("context"), Chain("gpt-oss", <<"solar", "openrouter-free">>),
         Blank, Key("rule"), Key("litellm_settings")>>

\* A group in two places, one without a blank line between its blocks, a
\* comment over a group; with and without the catch-all.
Scattered ==
  <<Key("rule"), Key("model_list"), Blank, Key("header"), Blank>>
    \o Block("gpt-oss", "openrouter", "gpt-oss:free", "chat")
    \o Block("gpt-oss", "nvidia", "openai/gpt-oss", "chat") \o <<Blank, Key("header")>>
    \o Block("embedding", "nvidia", "embed", "embedding") \o <<Blank>>
    \o Block("gpt-oss", "huggingface", "openai/gpt-oss", "chat") \o <<Blank>>
    \o Block("openrouter-free", "openrouter", "openrouter/free", "chat") \o <<Blank>>
    \o Settings(<<Chain("*", <<"solar", "gpt-oss">>)>>)

Solar ==
  <<Key("model_list"), Blank>>
    \o Block("openrouter-free", "openrouter", "openrouter/free", "chat") \o <<Blank, Key("header")>>
    \o Block("embedding", "huggingface", "embed", "embedding") \o <<Blank, Key("header"), Blank>>
    \o Block("gpt-oss", "openrouter", "gpt-oss:free", "chat") \o <<Blank>>
    \o Settings(<<Chain("solar", <<"gpt-oss">>)>>)

TheTemplates == {Scattered, Solar}

\* fork/models.yaml
TheFragment == <<Blank>> \o Block("gpt-5", "ovhcloud", "gpt-5", "chat") \o <<Blank>>

TheEnvs == {{"openrouter", "nvidia", "llm7io", "REDIS"}, {"nvidia", "huggingface"}}

Answer(openrouter, llm7io, huggingface) ==
  "openrouter" :> openrouter @@ "llm7io" :> llm7io @@ "huggingface" :> huggingface
  @@ "nvidia" :> {"embed", "openai/gpt-oss", "zed/solar"} @@ "ovhcloud" :> {"gpt-5", "zed/solar"}

TheAnswers ==
  {Answer(Fail, {"gpt-oss", "gpt-5", "pickle"}, {"zed/Solar"}),
   Answer({"gpt-oss:free", "inkling:free", "embed"}, {"gpt-oss", "gpt-5", "pickle", "embed"},
          {"openai/gpt-oss", "zed/Solar", "zed/solar"}),
   Answer({"gpt-oss:free", "openai/gpt-oss", "zed/solar"}, Fail, {"zed/Solar"})}
TheCurated == "huggingface" :> {"openai/gpt-oss"}

Free   == Table([m \in ToSet(TheIds) |-> 0])
Priced == [Free EXCEPT !["openai/gpt-oss"] = 1]
ThePrices == {Priced}

=============================================================================

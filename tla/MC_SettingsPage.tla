--------------------------- MODULE MC_SettingsPage ---------------------------
(***************************************************************************)
(* A provider with a key, an api_base and a catalogue of two pages; one    *)
(* that falls back on a curated list, with a token it rejects; and one     *)
(* whose catalogue is asked without the key, which is not set at first.    *)
(***************************************************************************)
EXTENDS SettingsPage, TLC

TheNeeded   == "cloudflare" :> <<"key", "base">> @@ "huggingface" :> <<"token">>
               @@ "ovhcloud" :> <<"other key">>
TheQuery    == "cloudflare" :> "both" @@ "huggingface" :> "masked" @@ "ovhcloud" :> "keyless"
TheAccepted == {<<"cloudflare", <<"good", "url">>>>}
TheDefault  == "key" :> "good" @@ "base" :> "old url" @@ "token" :> "bad" @@ "other key" :> ""
TheTyped    == "key" :> {"bad"} @@ "base" :> {"url"} @@ "token" :> {"example"}
               @@ "other key" :> {"bad"}
TheSlots    == <<1, 2, 3>>

=============================================================================

------------------------------ MODULE MC_EnvFile ------------------------------
(* Every .env of up to three lines over a provider key and a secret, in every *)
(* form, duplicates and quotes included; a second provider key is only ever   *)
(* added.                                                                     *)
EXTENDS EnvFile

Assigned == [form : {"exact", "spaced"}, key : {"GROQ_API_KEY", "REDIS_PASSWORD"},
             val : {"your-key", "'k'"}]
Comments == [form : {"comment"}, key : {"GROQ_API_KEY"}, val : {"old"}]

ShortFiles == BoundedSeq(Assigned \union Comments, 3)

Secrets == <<"REDIS_PASSWORD">>

\* A key pasted with its quotes.
Quotes == [q \in {"'k'"} |-> "k"]
==============================================================================

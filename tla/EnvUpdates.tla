----------------------------- MODULE EnvUpdates -----------------------------
(***************************************************************************)
(* The bodies POST /api/apply carries, when validate() of                  *)
(* fork/settings_ui.py accepts one, and what an accepted one does to the   *)
(* variables of `.env`.                                                    *)
(***************************************************************************)
EXTENDS Naturals

CONSTANTS
  Requests,   \* POST /api/apply calls
  Editable,   \* EDITABLE_VARS: provider keys and api_base variables
  MasterKey,  \* LITELLM_MASTER_KEY, which stands for every line not editable
  Values,     \* what a variable may hold
  NoValue,    \* the empty string
  BadValue,   \* a value VALUE_RE refuses
  Updates     \* bodies the requests carry: partial functions on variables

Vars == Editable \union {MasterKey}

ASSUME VarsAssumption == MasterKey \notin Editable
ASSUME ValuesAssumption == NoValue \in Values /\ BadValue \notin Values
ASSUME UpdatesAssumption ==
  \A u \in Updates :
    /\ DOMAIN u \subseteq Vars
    /\ \A v \in DOMAIN u : u[v] \in Values \union {BadValue}

\* Mutant: the names are checked, the values are not.
ValidNames(u) == DOMAIN u \subseteq Editable

\* validate(): only editable variables, only printable values.
Valid(u) ==
  /\ DOMAIN u \subseteq Editable
  /\ \A v \in DOMAIN u : u[v] # BadValue

\* The file with the update's variables set and every other one as it was.
Merge(u, f) == [v \in DOMAIN f |-> IF v \in DOMAIN u THEN u[v] ELSE f[v]]

NoUpdate == [v \in {} |-> NoValue]

=============================================================================

------------------------------- MODULE EnvFile -------------------------------
(***************************************************************************)
(* `.env` line by line: the three programs that rewrite it, each with its  *)
(* own idea of which line holds a variable, and the parser every reader of *)
(* the stack uses.  The settings page (settings_ui.write_env) and env-init *)
(* (ensure_secrets.write_updates) change the first `KEY=` or `KEY =` line, *)
(* onboard.py (set_value) the first `KEY=` line; load_env keeps the last.  *)
(*                                                                         *)
(* A line is a record of its form ("exact" for `KEY=`, "spaced" for        *)
(* `KEY =`, "comment" for `# KEY=`), key and the text after the `=`, of    *)
(* which every reader strips the quotes.  Writers are atomic here;         *)
(* SettingsApply and ComposeUp interleave them.                            *)
(***************************************************************************)
EXTENDS Naturals, FiniteSets, Sequences, Selection

CONSTANTS
  Files,      \* what .env may hold when the stack is first used
  Editable,   \* EDITABLE_VARS
  GENERATED,  \* the secrets that are generated, a sequence
  Keys,       \* what VALUE_RE lets through for a provider, "" included
  Fresh,      \* generated secrets
  Quoted,     \* texts in quotes, each with what strip leaves of it
  Unset       \* values that count as no secret: empty or a placeholder

Names  == Editable \union ToSet(GENERATED)
Values == Unset \union Keys \union Fresh \union DOMAIN Quoted \union {"old"}
Line   == [form : {"exact", "spaced", "comment"}, key : Names, val : Values]

\* GENERATED is a dict: every secret once.  VALUE_RE takes no quotes, and what
\* is generated has none.
ASSUME EnvFileAssumption ==
  /\ Files \subseteq Seq(Line)
  /\ GENERATED \in Seq(ToSet(GENERATED)) /\ IsInjective(GENERATED)
  /\ ToSet(GENERATED) \cap Editable = {}
  /\ "" \in Unset /\ Unset \cap Fresh = {}
  /\ (Keys \union Fresh) \cap DOMAIN Quoted = {}

VARIABLES
  file, \* the lines of .env
  last  \* the last writer and what it set, a function of its keys

vars == <<file, last>>

Least(S) == CHOOSE i \in S : \A j \in S : i <= j
Most(S)  == CHOOSE i \in S : \A j \in S : i >= j

-----------------------------------------------------------------------------
(* Readers. *)

\* The lines that assign k.
Live(f, k) == {i \in DOMAIN f : f[i].key = k /\ f[i].form # "comment"}

\* .strip('"').strip("'")
Stripped(v) == IF v \in DOMAIN Quoted THEN Quoted[v] ELSE v

\* load_env, ensure_secrets.load, env_exports.load: the last line wins.
Loaded(f, k) == IF Live(f, k) = {} THEN "" ELSE Stripped(f[Most(Live(f, k))].val)

\* The lines onboard.py takes for k.
Exact(f, k) == {i \in DOMAIN f : f[i].key = k /\ f[i].form = "exact"}

\* onboard.get_value: the first line wins.
Get(f, k) == IF Exact(f, k) = {} THEN "" ELSE Stripped(f[Least(Exact(f, k))].val)

-----------------------------------------------------------------------------
(* Writers. *)

\* Mutant: a commented line is uncommented.
Mentions(f, k) == {i \in DOMAIN f : f[i].key = k}

\* _OWNED_LINE_RE and write_updates' test: the lines they take for k.
Owned(f, k) == {i \in DOMAIN f : f[i].key = k /\ f[i].form \in {"exact", "spaced"}}

\* Mutant: `echo KEY=value >> .env`.
AppendAlways(f, hits, k, v) == Append(f, [form |-> "exact", key |-> k, val |-> v])

\* The first line of hits becomes `k=v`; without one it is appended.
SetFirst(f, hits, k, v) ==
  LET line == [form |-> "exact", key |-> k, val |-> v]
  IN  IF hits = {} THEN Append(f, line) ELSE [f EXCEPT ![Least(hits)] = line]

\* write_env and write_updates: u is a sequence of <<key, value>> pairs.
WriteEnv(f, u) == FoldLeft(LAMBDA g, e : SetFirst(g, Owned(g, e[1]), e[1], e[2]), f, u)

\* onboard.set_value, once for every edit
SetValues(f, u) == FoldLeft(LAMBDA g, e : SetFirst(g, Exact(g, e[1]), e[1], e[2]), f, u)

\* Mutant: only what this writer generated counts as set.
NotGenerated(v) == v \notin Fresh

NeedsGeneration(v) == v \in Unset

\* Every way to give the keys of a sequence values of S.
Settings(ks, S) == {[i \in DOMAIN ks |-> <<ks[i], g[i]>>] : g \in [DOMAIN ks -> S]}

\* Mutant: `validate` lets every variable through.
AnyUpdates == {<<<<k, v>>>> : k \in Names, v \in Keys}

\* Updates of one or two editable keys, in either order: what `validate` lets
\* through.
Updates ==
  {<<<<k, v>>>> : k \in Editable, v \in Keys} \union
  {<<<<k, v>>, <<l, w>>>> : k \in Editable, v \in Keys, l \in Editable, w \in Keys}

Distinct(u) == \A i, j \in DOMAIN u : u[i][1] = u[j][1] => i = j

Wrote(by, u) ==
  last' = [by |-> by, set |-> [k \in {u[i][1] : i \in DOMAIN u} |->
             u[CHOOSE i \in DOMAIN u : u[i][1] = k][2]]]

-----------------------------------------------------------------------------

Init == file \in Files /\ last = [by |-> "nobody", set |-> [k \in {} |-> ""]]

\* POST /api/apply
Page(u) ==
  /\ Distinct(u)
  /\ file' = WriteEnv(file, u)
  /\ Wrote("page", u)

\* `docker compose up`: env-init generates what is missing.
EnvInit ==
  LET missing == Only(GENERATED, {k \in Names : NeedsGeneration(Loaded(file, k))})
  IN  /\ missing # <<>>
      /\ \E u \in Settings(missing, Fresh) :
           file' = WriteEnv(file, u) /\ Wrote("env-init", u)

\* What an operator types into onboard.py is written as it is; "" is `-`.
Typed == Keys \union DOMAIN Quoted

\* The edit of a provider's key, or none; further edits are further runs.
Edits == {<<>>} \union {<<<<k, v>>>> : k \in Editable, v \in Typed}

\* What becomes of a missing secret: Enter generates one.
Answers == Fresh \union (Typed \ {""})

\* onboard.py: the base secrets, generated or typed, then a provider's key.
Onboard ==
  LET missing == Only(GENERATED, {k \in Names : NeedsGeneration(Get(file, k))})
  IN  \E u \in Settings(missing, Answers), e \in Edits :
        /\ file' = SetValues(file, u \o e)
        /\ Wrote("onboard", u \o e)

Next == (\E u \in Updates : Page(u)) \/ EnvInit \/ Onboard

Spec == Init /\ [][Next]_vars

-----------------------------------------------------------------------------
(* Properties. *)

Unique(f) == \A k \in Names : Cardinality(Live(f, k)) <= 1
Tidy(f)   == Unique(f) /\ \A i \in DOMAIN f : f[i].form # "spaced"

\* Lines are lines; only a writer changes them, to values it was given, and a
\* text in quotes comes from an operator at onboard.py only.
TypeOK ==
  /\ file \in Seq(Line)
  /\ last.by \in {"nobody", "page", "env-init", "onboard"}
  /\ \A k \in DOMAIN last.set :
       \/ last.set[k] \in IF k \in Editable THEN Keys ELSE Fresh
       \/ last.by = "onboard" /\ last.set[k] \in Typed

\* A file in which every variable has one `KEY=` line stays such a file,
\* whoever writes it: no writer misses the line another one would change.
TidyKept == [][Tidy(file) => Tidy(file')]_vars

\* What is written is what every reader loads, as long as no variable has two
\* lines: the writers change the first line and load_env keeps the last.  To the
\* letter this holds of the page and env-init; onboard.py writes what the
\* operator typed, and it is loaded without its quotes.  And "leaving every
\* other line byte-identical", in its place and in every file: comments and the
\* lines of other variables survive every writer.
WritesReadBack ==
  [][/\ Unique(file) =>
          \A k \in DOMAIN last'.set :
            Loaded(file', k) = IF last'.by = "onboard" THEN Stripped(last'.set[k])
                               ELSE last'.set[k]
     /\ \A i \in DOMAIN file :
          file[i].form = "comment" \/ file[i].key \notin DOMAIN last'.set
            => i \in DOMAIN file' /\ file'[i] = file[i]]_vars

\* A real secret is never replaced: the postgres volume was initialised with
\* it.  In a tidy file this holds across all three writers, although onboard.py
\* and env-init look for it with different parsers.
SecretsKept ==
  [][Tidy(file) => \A k \in ToSet(GENERATED) :
       ~(Loaded(file, k) \in Unset) => Loaded(file', k) = Loaded(file, k)]_vars

\* What the settings page writes is what "upstream's load_env read[s] back".
AppliedReadsBack ==
  [][last'.by = "page" => \A k \in DOMAIN last'.set : Loaded(file', k) = last'.set[k]]_vars

=============================================================================

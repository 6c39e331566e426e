----------------------------- MODULE Catalogue -----------------------------
(***************************************************************************)
(* find-shared-models.py from the providers' answers to the apply plan:    *)
(* what is collected, which ids are one model, which of them the template  *)
(* lacks, and which of its deployments a catalogue no longer lists.        *)
(***************************************************************************)
EXTENDS Template

CONSTANTS
  KeyNeeded,     \* the providers with a _REQUIRED_ENV
  Paid,          \* ids that match PAID_VENDOR_PATTERNS
  Ambiguous,     \* ids that match AMBIGUOUS_VENDOR_PATTERNS
  AGGREGATORS,
  FirstParty,    \* <<provider, id>>: a vendor's own models
  NonChat,       \* ids of OpenRouter's embedding catalogue
  Norm,          \* Norm[x]: the normalised name of an id or a model_name
  Pretty,        \* Pretty[id]: the model_name derived from an id
  ZEN,           \* the normalised ZEN_MODEL_NAMES
  ZenLike,       \* the normalised names that match one at a dash
  DEAD,          \* <<provider, segment>>: DEAD_ROUTES
  EXEMPT,        \* STALE_CHECK_EXEMPT
  Lower,         \* Lower[id]: the id in lower case
  CASE_SENSITIVE,
  FRAGMENT       \* the lines of fork/models.yaml

ASSUME CatalogueAssumption ==
  /\ DOMAIN Norm = Ids \union Names /\ Pretty \in [Ids -> Names]
  /\ ZEN \subseteq ZenLike

-----------------------------------------------------------------------------

IsPaid(m, p) ==
  /\ <<p, m>> \notin FirstParty
  /\ m \in Paid \/ (p \in AGGREGATORS /\ m \in Ambiguous)

\* collect_models: a provider without its key or whose query failed is left
\* out, the others list what is not a paid model.
Collect(answers, env) ==
  [p \in {q \in DOMAIN answers : q \in KeyNeeded => q \in env} |->
     {m \in answers[p] : ~IsPaid(m, p)}]

\* build_groups
Members(raw, n, p) == {m \in raw[p] : Norm[m] = n /\ ~(p = "openrouter" /\ m \in NonChat)}

Shared(raw, n) == Cardinality({p \in DOMAIN raw : Members(raw, n, p) # {}}) >= 2

\* find_zen_groups: these come with everything the catalogues list of them.
ZenGroup(raw, n) ==
  /\ n \in ZEN \/ (n \in ZenLike /\ Shared(raw, n))
  /\ \E p \in DOMAIN raw : \E m \in raw[p] : Norm[m] = n

Offered(raw, n, p) ==
  IF ZenGroup(raw, n) THEN {m \in raw[p] : Norm[m] = n}
  ELSE IF Shared(raw, n) THEN Members(raw, n, p) ELSE {}

\* The groups in the order the catalogues first name them.
GroupOrder(raw) ==
  LET listed == Concat(Len(PROVIDERS), LAMBDA i :
                  IF PROVIDERS[i] \in DOMAIN raw
                  THEN Only(IDS, raw[PROVIDERS[i]]) ELSE <<>>)
      firsts == {i \in DOMAIN listed : \A j \in 1..(i - 1) : Norm[listed[j]] # Norm[listed[i]]}
      at     == Ascending(firsts, Len(listed))
  IN  Concat(Len(at), LAMBDA k : <<Norm[listed[at[k]]]>>)

\* model_id_key
IdKey(p, m) == <<p, IF m = NoId THEN "" ELSE Segment[m]>>

\* The group's model_name: the first one in the file with this normalised
\* name, else one made from the group's first id.
ModelName(raw, n, existing) ==
  LET known == SelectInSeq(existing, LAMBDA b : Norm[b.name] = n)
      ids   == UNION {Offered(raw, n, p) : p \in DOMAIN raw}
  IN  IF known # 0 THEN existing[known].name
      ELSE Pretty[Only(IDS, ids)[1]]

\* generate_apply_plan: the additions.  A key that is in the file under any
\* name is skipped; the keys of the plan itself are not looked at.
Plan(raw, existing, price) ==
  LET present == {IdKey(existing[i].provider, existing[i].id) : i \in DOMAIN existing}
      order == GroupOrder(raw)
      Adds(n, p) ==
        LET offered == IF p \in DOMAIN raw THEN Offered(raw, n, p) ELSE {}
            new == Filter(IDS, LAMBDA m : m \in offered /\ IdKey(p, m) \notin present \union DEAD)
        IN  Concat(Len(new), LAMBDA j : <<[name |-> ModelName(raw, n, existing), provider |-> p,
                                           id |-> new[j], cost |-> price[new[j]]]>>)
  IN  Concat(Len(order), LAMBDA k :
        Concat(Len(PROVIDERS), LAMBDA i : Adds(order[k], PROVIDERS[i])))

\* find_stale_deployments: chat deployments, the fragment's too, whose model a
\* complete catalogue does not list, or spells otherwise where that matters.
\* Ids that differ only in case are one entry of the catalogue, the last of them.
Stale(template, raw, partial) ==
  LET blocks == ParseBlocks(Splice(template, ListStart(template) + 1, FRAGMENT))
      Checked(b) == /\ b.mode = "chat" /\ b.name \notin EXEMPT
                    /\ b.provider \in DOMAIN raw \ partial /\ raw[b.provider] # {}
      Listed(b)  == Filter(IDS, LAMBDA m : m \in raw[b.provider] /\ Lower[m] = Lower[b.id])
      Gone(b)    == \/ Listed(b) = <<>>
                    \/ b.provider \in CASE_SENSITIVE /\ b.id # Last(Listed(b))
  IN  {[name |-> b.name, provider |-> b.provider, id |-> b.id] :
         b \in {c \in ToSet(blocks) : Checked(c) /\ Gone(c)}}

=============================================================================

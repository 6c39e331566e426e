------------------------------ MODULE Template ------------------------------
(***************************************************************************)
(* config.template.yaml as the sequence of lines find-shared-models.py and *)
(* render-config.py take it for, and what a sync splices into it.          *)
(*                                                                         *)
(* Both scripts find the deployments by scanning lines, each with a scanner *)
(* of its own; none of them uses a YAML parser.  A line here is a record   *)
(* with its kind; the lines of a block that no step looks at are left out. *)
(***************************************************************************)
EXTENDS FiniteSets, Selection

CONSTANTS
  PROVIDERS,      \* the provider table, in its order
  Prefix,         \* Prefix[p]: what litellm_params.model starts with
  Base,           \* Base[p]: the api_base, NoBase for a provider without one
  VendorInPath,   \* the providers whose ids start with a vendor
  IDS,            \* the model ids catalogues list, in alphabetical order
  Vendor,         \* Vendor[id]: its first path segment
  Segment,           \* Segment[id]: its last path segment, in lower case
  NAMES,          \* model_names, in alphabetical order
  POOL,           \* fallback_pool
  CATCH_ALL       \* the targets of the catch-all chain

Providers == ToSet(PROVIDERS)
Ids       == ToSet(IDS)
Names     == ToSet(NAMES)
NoBase    == "none"
NoId      == "none"
NoName    == "none"

ASSUME TableAssumption ==
  /\ {PROVIDERS, IDS, NAMES, POOL, CATCH_ALL} \subseteq Seq(STRING)
  /\ IsInjective(PROVIDERS) /\ IsInjective(IDS) /\ IsInjective(NAMES)
  /\ {Prefix, Base} \subseteq [Providers -> STRING] /\ VendorInPath \subseteq Providers
  /\ {Vendor, Segment} \subseteq [Ids -> STRING]
  /\ NoId \notin Ids /\ {NoName, "*"} \intersect Names = {} /\ NoBase # "openai" /\ "openai" \in STRING

\* The elements of a set of indices in ascending order.
Ascending(S, n) == Only([i \in 1..n |-> i], S)

-----------------------------------------------------------------------------
(* Lines. *)

Key(k)           == [k |-> k]
Blank            == Key("blank")
Name(g)          == [k |-> "model_name", name |-> g]
Model(prefix, m) == [k |-> "model", prefix |-> prefix, id |-> m]
ApiBase(b)       == [k |-> "api_base", base |-> b]
Cost(c)          == [k |-> "cost", cost |-> c, indent |-> 6]
Mode(m)          == [k |-> "mode", mode |-> m]
Chain(g, to)     == [k |-> "chain", name |-> g, to |-> to]
Begin(tag)       == [k |-> "begin", tag |-> tag]
End(tag)         == [k |-> "end", tag |-> tag]
Marked(tag)      == [k |-> "marked", tag |-> tag]

\* Not blank and not indented.  A sync's "new_header" is one string that
\* starts with a newline: not indented either, until the file is read again.
TopLevel == {"model_list", "rule", "router_settings", "litellm_settings", "new_header"}

Line ==
  [k : TopLevel \union {"blank", "header", "fallbacks", "context", "policies"}]
    \union [k : {"model_name", "policy"}, name : Names]
    \union [k : {"model"}, prefix : STRING, id : Ids \union {NoId}]
    \union [k : {"api_base"}, base : STRING]
    \union [k : {"cost"}, cost : Nat, indent : Nat]
    \union [k : {"mode"}, mode : {"audio_speech", "audio_transcription", "chat", "embedding"}]
    \union [k : {"chain"}, name : Names \union {"*"}, to : Seq(STRING)]
    \union [k : {"begin", "end", "marked"}, tag : STRING]

\* build_deployment: a block and the blank line after it.
BuildDeployment(g, p, m, c) ==
  <<Name(g), Model(Prefix[p], m)>>
    \o (IF Base[p] = NoBase THEN <<>> ELSE <<ApiBase(Base[p])>>)
    \o <<Cost(c), Mode("chat"), Blank>>

-----------------------------------------------------------------------------
(* Scanning. *)

OrElse(i, default) == IF i = 0 THEN default ELSE i

\* _find_model_list_bounds, and the same loops in parse_blocks and render.
ListStart(lines) == SelectInSeq(lines, LAMBDA l : l.k = "model_list")
ListEnd(lines) ==
  OrElse(SelectInSubSeq(lines, ListStart(lines) + 1, Len(lines), LAMBDA l : l.k \in TopLevel),
         Len(lines) + 1)

Starts(lines) == {i \in (ListStart(lines) + 1)..(ListEnd(lines) - 1) : lines[i].k = "model_name"}

\* A mutant of ProviderOf: an api_base says nothing.
ProviderOfPrefix(prefix, m, base) ==
  LET same == {p \in Providers : Prefix[p] = prefix}
  IN  IF m = NoId \/ same = {} THEN "" ELSE CHOOSE p \in same : TRUE

\* _provider_from_block: the prefix; for OpenAI-compatible providers the
\* api_base, then the vendor in the path, then the first one without vendors.
ProviderOf(prefix, m, base) ==
  LET Compatible(p) == Prefix[p] = "openai"
      byBase == {p \in Providers : Compatible(p) /\ Base[p] = base}
      other  == {p \in Providers : Prefix[p] = prefix}
      last   == SelectInSeq(PROVIDERS, LAMBDA p : Compatible(p) /\ p \notin VendorInPath)
  IN  IF m = NoId THEN ""
      ELSE IF prefix # "openai" THEN (IF other = {} THEN "" ELSE CHOOSE p \in other : TRUE)
      ELSE IF base # NoBase /\ byBase # {} THEN CHOOSE p \in byBase : TRUE
      ELSE IF Vendor[m] = "openai" THEN "nvidia"
      ELSE IF Vendor[m] \in Providers THEN Vendor[m]
      ELSE IF last = 0 THEN "" ELSE PROVIDERS[last]

\* The block from line i to line j, with the line of each kind that Pick takes.
BlockAt(lines, i, j, Pick(_)) ==
  LET body      == SubSeq(lines, i, j)
      Of(k)     == Filter(body, LAMBDA l : l.k = k)
      model     == IF Of("model") = <<>> THEN Model("", NoId) ELSE Pick(Of("model"))
      base      == IF Of("api_base") = <<>> THEN NoBase ELSE Pick(Of("api_base")).base
  IN  [name |-> lines[i].name, start |-> i, end |-> j, id |-> model.id,
       provider |-> ProviderOf(model.prefix, model.id, base),
       cost |-> IF Of("cost") = <<>> THEN 0 ELSE Last(Of("cost")).cost,
       mode |-> IF Of("mode") = <<>> THEN "chat" ELSE Last(Of("mode")).mode]

Blocks(lines, EndOf(_), Pick(_)) ==
  LET at == Ascending(Starts(lines), Len(lines))
  IN  Concat(Len(at), LAMBDA n : <<BlockAt(lines, at[n], EndOf(at[n]), Pick)>>)

\* _scan_existing_blocks: a block ends before the next one or a blank line;
\* of a repeated line the last one counts.
ScanExisting(lines) ==
  Blocks(lines,
         LAMBDA i : OrElse(SelectInSubSeq(lines, i + 1, ListEnd(lines) - 1,
                                          LAMBDA l : l.k \in {"blank", "model_name"}),
                           ListEnd(lines)) - 1,
         Last)

\* render-config's parse_blocks: a block ends before a line with less than two
\* spaces; the last one, when nothing ends it, with the file.
ParseBlocks(lines) ==
  Blocks(lines,
         LAMBDA i : OrElse(SelectInSubSeq(lines, i + 1, ListEnd(lines) - 1,
                                          LAMBDA l : l.k \in {"blank", "model_name"}),
                           Len(lines) + 1) - 1,
         Head)

NamesOf(blocks) == {blocks[i].name : i \in DOMAIN blocks}

-----------------------------------------------------------------------------
(* apply_to_config.  An addition is [name, provider, id, cost]. *)

AddsFor(adds, g) == Filter(adds, LAMBDA a : a.name = g)

Deployments(adds) ==
  Concat(Len(adds), LAMBDA i :
           BuildDeployment(adds[i].name, adds[i].provider, adds[i].id, adds[i].cost))

\* lines[i:i] = new
Splice(lines, i, new) == SubSeq(lines, 1, i - 1) \o new \o SubSeq(lines, i, Len(lines))

Sorted(names) == Only(NAMES, names)

\* A mutant of InsertDeployments: front to back.
InsertForwards(lines, adds) ==
  LET existing == ScanExisting(lines)
      names    == {adds[i].name : i \in DOMAIN adds}
      new      == Sorted(names \ NamesOf(existing))
      lasts    == {SelectLastInSeq(existing, LAMBDA b : b.name = g) : g \in names} \ {0}
      grown    == Ascending(lasts, Len(existing))
      Insert(ls, n) == Splice(ls, existing[n].end + 1, Deployments(AddsFor(adds, existing[n].name)))
      Headed(i) == <<Key("new_header")>> \o Deployments(AddsFor(adds, new[i]))
  IN  FoldLeft(Insert, Splice(lines, ListEnd(lines), Concat(Len(new), Headed)), grown)

\* Steps 3 to 5: new groups before the end of the list, then additions after
\* the last block of their group, back to front.
InsertDeployments(lines, adds) ==
  LET existing == ScanExisting(lines)
      names    == {adds[i].name : i \in DOMAIN adds}
      new      == Sorted(names \ NamesOf(existing))
      lasts    == {SelectLastInSeq(existing, LAMBDA b : b.name = g) : g \in names} \ {0}
      grown    == Reverse(Ascending(lasts, Len(existing)))
      Insert(ls, n) == Splice(ls, existing[n].end + 1, Deployments(AddsFor(adds, existing[n].name)))
      Headed(i) == <<Key("new_header")>> \o Deployments(AddsFor(adds, new[i]))
  IN  FoldLeft(Insert, Splice(lines, ListEnd(lines), Concat(Len(new), Headed)), grown)

\* _update_existing_costs, on fresh positions: a zero cost in a group becomes
\* the first planned price of the same provider there.  The substitution puts
\* six spaces in front of the key, after the ones the line has.
UpdateCosts(lines, adds) ==
  LET blocks == ScanExisting(lines)
      Planned(b) == Filter(adds, LAMBDA a : a.name = b.name /\ a.provider = b.provider)
      Patched == {n \in DOMAIN blocks : /\ blocks[n].cost = 0
                                        /\ Planned(blocks[n]) # <<>>
                                        /\ Head(Planned(blocks[n])).cost # 0}
      Patch(i) == CHOOSE n \in Patched : i \in blocks[n].start..blocks[n].end
      Reached == UNION {blocks[n].start..blocks[n].end : n \in Patched}
  IN  Concat(Len(lines), LAMBDA i :
        IF i \in Reached /\ lines[i].k = "cost"
        THEN <<[k |-> "cost", cost |-> Head(Planned(blocks[Patch(i)])).cost,
                indent |-> lines[i].indent + 6]>>
        ELSE <<lines[i]>>)

\* _update_fallbacks: a chain for each new group, before the end of the
\* section, and the catch-all when such a group has four providers.
UpdateFallbacks(lines, adds, existingNames) ==
  LET at    == SelectInSeq(lines, LAMBDA l : l.k = "fallbacks")
      end   == OrElse(SelectInSubSeq(lines, at + 1, Len(lines), LAMBDA l : l.k \notin {"blank", "chain"}),
                      Len(lines) + 1)
      keys  == {lines[i].name : i \in {j \in (at + 1)..(end - 1) : lines[j].k = "chain"}}
      new   == Sorted({adds[i].name : i \in DOMAIN adds} \ (existingNames \union keys))
      First4(g) == LET others == Filter(POOL, LAMBDA c : c # g)
                   IN  SubSeq(others, 1, IF Len(others) < 4 THEN Len(others) ELSE 4)
      Wide(i) == Len(AddsFor(adds, new[i])) >= 4
      CatchAll(i) == "*" \notin keys /\ Wide(i) /\ \A j \in 1..(i - 1) : ~Wide(j)
      Entries(i) == <<Chain(new[i], First4(new[i]))>>
                      \o (IF CatchAll(i) THEN <<Chain("*", CATCH_ALL)>> ELSE <<>>)
  IN  IF at = 0 THEN lines ELSE Splice(lines, end, Concat(Len(new), Entries))

\* What a reader of the written file sees.
Reread(lines) ==
  Concat(Len(lines), LAMBDA i :
           IF lines[i].k = "new_header" THEN <<Blank, Key("header")>> ELSE <<lines[i]>>)

\* The new content.
ApplyToConfig(lines, adds) ==
  LET existingNames == NamesOf(ScanExisting(lines))
  IN  Reread(UpdateFallbacks(UpdateCosts(InsertDeployments(lines, adds), adds), adds, existingNames))

=============================================================================

---------------------------- MODULE RenderConfig ----------------------------
(***************************************************************************)
(* render-config.py: config.yaml from the lines of the template and the    *)
(* variables .env sets; and multi-instance/generate-config.py, which makes *)
(* the master's configuration from config.yaml.                            *)
(***************************************************************************)
EXTENDS Template

CONSTANTS
  Required,     \* the providers whose deployments need a key
  Features,     \* tags of marked blocks, each active when .env has its keys
  MAX_HEADER_LINES,
  SLAVES        \* the slave instances, in order

RetryTag == "RETRY POLICY"

ASSUME RenderAssumption ==
  /\ Required \subseteq Providers /\ RetryTag \notin Features /\ IsFiniteSet(Features)
  /\ MAX_HEADER_LINES \in Nat
  /\ SLAVES \in Seq(STRING) /\ IsInjective(SLAVES)
  /\ \A p \in Providers : Base[p] \notin ToSet(SLAVES)

-----------------------------------------------------------------------------

\* strip_marked_blocks, strip_redis_blocks and strip_cloudflare_image_blocks:
\* the marker lines go, and the content too unless active.
StripMarked(lines, tag, active) ==
  LET At(mark) == {i \in DOMAIN lines : lines[i] = mark}
      begins == At(Begin(tag))
      ends   == At(End(tag))
      Inside(i) == \E b \in begins : b < i /\ \A e \in ends : ~(b < e /\ e < i)
  IN  Concat(Len(lines), LAMBDA i :
               IF i \in begins \union ends \/ (Inside(i) /\ ~active) THEN <<>> ELSE <<lines[i]>>)

StripAll(lines, env) ==
  FoldLeft(LAMBDA ls, tag : StripMarked(ls, tag, tag \in env), lines, SetToSeq(Features))

\* filter_blocks
Kept(block, env) == block.provider \in Required => block.provider \in env

\* The first line of the comment above a block, at most MAX_HEADER_LINES up.
HeaderStart(lines, b) ==
  LET furthest == IF b.start - MAX_HEADER_LINES > ListStart(lines)
                  THEN b.start - MAX_HEADER_LINES ELSE ListStart(lines)
      above == {j \in (furthest + 1)..(b.start - 1) :
                  /\ lines[j].k = "header"
                  /\ \A i \in j..(b.start - 1) : lines[i].k \in {"blank", "header"}}
  IN  CHOOSE j \in above \union {b.start} : \A i \in above : j <= i

RemoveBlocks(lines, blocks, env) ==
  LET gone == UNION {HeaderStart(lines, blocks[n])..blocks[n].end :
                       n \in {m \in DOMAIN blocks : ~Kept(blocks[m], env)}}
  IN  Concat(Len(lines), LAMBDA i : IF i \in gone THEN <<>> ELSE <<lines[i]>>)

\* The section a line is in: a section lasts until the next one or the next
\* top-level key.
Section(lines, i) ==
  LET j == SelectLastInSubSeq(lines, 1, i, LAMBDA l : l.k \in TopLevel \union {"fallbacks", "context"})
  IN  IF j = 0 THEN "none" ELSE lines[j].k

InChains(lines, i) == lines[i].k = "chain" /\ Section(lines, i) \in {"fallbacks", "context"}

\* remove_orphaned_fallbacks
Orphan(lines, i, names) == InChains(lines, i) /\ lines[i].name \notin names \union {"*"}

\* A mutant of Targets: groups without deployments stay.
AllTargets(line, section, names, env) ==
  IF section = "fallbacks" /\ "openrouter-free" \in names /\ ~Contains(line.to, "openrouter-free")
  THEN Append(line.to, "openrouter-free") ELSE line.to

\* update_fallbacks: the chain's targets
Targets(line, section, names, env) ==
  LET valid == Only(line.to, names)
  IN  IF section # "fallbacks" THEN valid
      ELSE IF "openrouter" \notin env THEN Filter(valid, LAMBDA g : g # "openrouter-free")
      ELSE IF "openrouter-free" \in names /\ ~Contains(valid, "openrouter-free")
      THEN Append(valid, "openrouter-free")
      ELSE valid

\* ... and the line or lines that replace line i: an explicit empty chain of a
\* group of another type stays, another chain without targets goes, and the
\* substitution finds nothing to replace in `[]`.
UpdatedChain(lines, i, names, nonChat, env) ==
  LET line == lines[i]
      to   == Targets(line, Section(lines, i), names, env)
  IN  IF ~InChains(lines, i) THEN <<line>>
      ELSE IF Section(lines, i) = "fallbacks" /\ line.name \in nonChat THEN <<Chain(line.name, <<>>)>>
      ELSE IF to = <<>> THEN <<>>
      ELSE IF line.to = <<>> THEN <<line>>
      ELSE <<Chain(line.name, to)>>

UpdateChains(lines, names, nonChat, env) ==
  Concat(Len(lines), LAMBDA i :
           IF Orphan(lines, i, names) THEN <<>> ELSE UpdatedChain(lines, i, names, nonChat, env))

\* single_deployment_model_names
Singles(blocks) ==
  {g \in NamesOf(blocks) : Len(Filter(blocks, LAMBDA b : b.name = g)) = 1}

\* build_retry_policy_lines
RetryPolicy(names) ==
  IF names = {} THEN <<>>
  ELSE <<Key("policies")>>
         \o Concat(Len(Sorted(names)), LAMBDA i : <<[k |-> "policy", name |-> Sorted(names)[i]]>>)

\* insert_retry_policy: in place of the markers, when both are there.
InsertRetryPolicy(lines, names) ==
  LET end   == SelectInSeq(lines, LAMBDA l : l = End(RetryTag))
      start == SelectLastInSubSeq(lines, 1, end, LAMBDA l : l = Begin(RetryTag))
  IN  IF start = 0 THEN lines
      ELSE SubSeq(lines, 1, start - 1) \o RetryPolicy(names) \o SubSeq(lines, end + 1, Len(lines))

\* render, up to the text that is written.
Render(template, env) ==
  LET lines   == StripAll(template, env)
      blocks  == ParseBlocks(lines)
      kept    == Filter(blocks, LAMBDA b : Kept(b, env))
      nonChat == {g \in Names : \E n \in DOMAIN kept : kept[n].name = g /\ kept[n].mode # "chat"}
  IN  InsertRetryPolicy(
        UpdateChains(RemoveBlocks(lines, blocks, env), NamesOf(kept), nonChat, env),
        Singles(kept))

-----------------------------------------------------------------------------
(* multi-instance/generate-config.py. *)

\* strip_retry_policy: the key and everything indented below it.
StripRetryPolicy(lines) ==
  LET at   == SelectInSeq(lines, LAMBDA l : l.k = "policies")
      stop == OrElse(SelectInSubSeq(lines, at + 1, Len(lines), LAMBDA l : l.k \notin {"policy", "blank"}),
                     Len(lines) + 1)
  IN  IF at = 0 THEN lines ELSE SubSeq(lines, 1, at - 1) \o SubSeq(lines, stop, Len(lines))

\* parse_model_list: here a comment does not end the list.
MirrorEnd(lines) ==
  OrElse(SelectInSubSeq(lines, ListStart(lines) + 1, Len(lines),
                        LAMBDA l : l.k \in TopLevel \ {"rule"}),
         Len(lines) + 1)

\* A mutant of FirstNames: every entry's model_name.
EntryNames(lines) ==
  LET entries == Filter(SubSeq(lines, ListStart(lines) + 1, MirrorEnd(lines) - 1),
                           LAMBDA l : l.k = "model_name")
  IN  Concat(Len(entries), LAMBDA n : <<entries[n].name>>)

\* The model_names in the order of their first entry.
FirstNames(lines) ==
  LET entries == Filter(SubSeq(lines, ListStart(lines) + 1, MirrorEnd(lines) - 1),
                           LAMBDA l : l.k = "model_name")
      firsts  == {i \in DOMAIN entries : \A j \in 1..(i - 1) : entries[j] # entries[i]}
      at      == Ascending(firsts, Len(entries))
  IN  Concat(Len(at), LAMBDA n : <<entries[at[n]].name>>)

\* generate_slave_entries: no blank line after an entry.
SlaveEntries(names) ==
  Concat(Len(names), LAMBDA n :
    Concat(Len(SLAVES), LAMBDA s :
      <<Name(names[n]), Model("openai", NoId), ApiBase(SLAVES[s])>>))

\* generate: the master's configuration.
Master(config) ==
  LET lines == StripRetryPolicy(config)
  IN  Splice(lines, MirrorEnd(lines), SlaveEntries(FirstNames(lines)))

=============================================================================

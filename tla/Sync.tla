-------------------------------- MODULE Sync --------------------------------
(***************************************************************************)
(* `find-shared-models.py --apply`, the renders of config.yaml and the     *)
(* multi-instance generator, as processes over the files they share.  The  *)
(* sync may die between any two steps.                                     *)
(***************************************************************************)
EXTENDS RenderConfig, Catalogue

CONSTANTS
  Templates,    \* templates to start with
  Envs,         \* what .env may set: sets of providers and features
  Answers,      \* what the providers may answer, each Fail or a set of ids
  Curated,      \* Curated[p]: the list a provider's query falls back to
  Prices,       \* price tables: functions on ids; all zero without pricing data
  BACKUP_KEEP,
  MaxSyncs,     \* syncs (bound)
  MaxEvents     \* renders by hand, edits of .env and crashes together (bound)

NoFile == <<>>
Fail   == {"no answer"}   \* not a set of ids
Outputs == <<"docker", "k8s", "slave">>

\* The chains of a section.
ChainsAt(lines, section) ==
  {i \in DOMAIN lines : lines[i].k = "chain" /\ Section(lines, i) = section}

\* The groups with a deployment of another type than chat.
OtherTypes(lines) ==
  {lines[i].name : i \in {j \in DOMAIN lines : /\ lines[j].k = "model_name"
     /\ \E m \in (j + 1)..Len(lines) :
          /\ lines[m].k = "mode" /\ lines[m].mode # "chat"
          /\ \A x \in (j + 1)..m : lines[x].k \notin {"blank", "model_name"}}}

\* Each marked block holds lines of its own only, each feature has one, and
\* the retry policy has its place once.
Marks(t) ==
  LET At(k) == {i \in DOMAIN t : t[i].k = k}
      Within(i, j, tag) == \A x \in (i + 1)..(j - 1) : t[x] = Marked(tag)
  IN  /\ \A i \in At("begin") : \E j \in (i + 1)..Len(t) :
           t[j] = End(t[i].tag) /\ Within(i, j, t[i].tag)
      /\ \A j \in At("marked") \union At("end") : \E i \in 1..(j - 1) :
           t[i] = Begin(t[j].tag) /\ Within(i, j, t[j].tag)
      /\ {t[i].tag : i \in At("begin")} \subseteq Features \union {RetryTag}
      /\ Features \subseteq {t[i].tag : i \in At("marked")}
      /\ \E b \in DOMAIN t : \A i \in DOMAIN t : t[i] = Begin(RetryTag) <=> i = b

\* The chains are in the two sections behind the list, and only the groups of
\* chat deployments have targets.
ChainsPlaced(t) ==
  LET At(k) == {i \in DOMAIN t : t[i].k = k}
  IN  /\ \A i \in At("fallbacks") \union At("context") \union At("chain") : ListEnd(t) < i
      /\ \A i \in At("chain") : Section(t, i) \in {"fallbacks", "context"}
      /\ \A i \in ChainsAt(t, "fallbacks") : t[i].name \in OtherTypes(t) => t[i].to = <<>>

\* What config.template.yaml is written like: one model_list, a blank line
\* behind its last deployment and the settings behind that, with the marked
\* blocks and the chains; the retry policy and the slaves are left to the
\* programs.
WellFormed(t) ==
  LET s == ListStart(t)
      e == ListEnd(t)
      At(k) == {i \in DOMAIN t : t[i].k = k}
  IN  /\ t \in Seq(Line)
      /\ At("model_list") = {s} /\ At("router_settings") # {}
      /\ At("new_header") \union At("policies") \union At("policy") = {}
      /\ \A i \in At("router_settings") : s < i
      /\ \A i \in At("model_name") : s < i /\ \E z \in (i + 1)..(e - 1) : t[z].k = "blank"
      /\ \A i \in At("api_base") : t[i].base \notin ToSet(SLAVES)
      /\ \A i \in At("begin") : e < i
      /\ Marks(t) /\ ChainsPlaced(t)

ASSUME SyncAssumption ==
  /\ \A t \in Templates : WellFormed(t)
  /\ Envs \subseteq SUBSET (Providers \union Features)
  /\ \A answers \in Answers :
       /\ DOMAIN answers = Providers
       /\ \A p \in Providers : answers[p] # Fail => answers[p] \subseteq Ids
  /\ Prices \subseteq [Ids -> Nat]
  /\ BACKUP_KEEP \in Nat \ {0} /\ {MaxSyncs, MaxEvents} \subseteq Nat

VARIABLES
  env,        \* .env
  template,   \* config.template.yaml
  backup,     \* the newest config.template.yaml.bak.*
  config,     \* config.yaml
  saved,      \* the config.yaml.bak.*, oldest first
  out,        \* the multi-instance configurations
  sync,       \* find-shared-models.py
  render,     \* render-config.py
  left        \* how many syncs and other events are left (bounds)

vars == <<env, template, backup, config, saved, out, sync, render, left>>

NoSync   == [pc |-> "idle"]
NoRender == [pc |-> "idle", by |-> "hand"]

Init ==
  /\ env \in Envs
  /\ template \in Templates
  /\ backup = NoFile
  /\ config \in {NoFile} \union {Render(template, e) : e \in Envs}
  /\ saved = <<>>
  /\ out = [o \in ToSet(Outputs) |-> NoFile]
  /\ sync = NoSync
  /\ render = NoRender
  /\ left = [syncs |-> MaxSyncs, events |-> MaxEvents]

-----------------------------------------------------------------------------
(* The sync. *)

\* collect_models, with .env as it is now.
Query ==
  /\ sync.pc = "idle" /\ left.syncs > 0
  /\ \E answers \in Answers :
       LET answered == {p \in Providers : answers[p] # Fail}
       IN  sync' = [pc |-> "queried", raw |-> Collect([p \in answered |-> answers[p]], env),
                    partial |-> {p \in DOMAIN Curated : answers[p] = Curated[p]}]
  /\ left' = [left EXCEPT !.syncs = @ - 1]
  /\ UNCHANGED <<env, template, backup, config, saved, out, render>>

\* The file to apply to: the template, or config.yaml when there is none.
Target == IF template # NoFile THEN template ELSE config

\* generate_apply_plan and find_stale_deployments; without additions, a file
\* to add to or --apply the run ends here.
MakePlan ==
  /\ sync.pc = "queried"
  /\ \E price \in Prices :
       LET adds == IF Target = NoFile THEN <<>>
                   ELSE Plan(sync.raw, ScanExisting(Target), price)
           stale == IF template = NoFile \/ DOMAIN sync.raw = {} THEN {}
                    ELSE Stale(template, sync.raw, sync.partial)
       IN  \/ sync' = NoSync
           \/ /\ adds # <<>>
              /\ sync' = [pc |-> "apply", raw |-> sync.raw, partial |-> sync.partial,
                          adds |-> adds, stale |-> stale, old |-> Target,
                          onTemplate |-> template # NoFile]
  /\ UNCHANGED <<env, template, backup, config, saved, out, render, left>>

\* A backup's name is the time in seconds: one of the same second is replaced.
Saved(files, content) ==
  {Append(files, content)} \union (IF files = <<>> THEN {} ELSE {Append(Front(files), content)})

\* A mutant of MoveAway: it deletes.
MoveNowhere ==
  /\ sync.pc = "apply"
  /\ sync' = [pc |-> "write", raw |-> sync.raw, partial |-> sync.partial, adds |-> sync.adds,
              stale |-> sync.stale, old |-> sync.old, onTemplate |-> sync.onTemplate,
              new |-> ApplyToConfig(sync.old, sync.adds)]
  /\ IF sync.onTemplate THEN template' = NoFile /\ UNCHANGED config
     ELSE config' = NoFile /\ UNCHANGED template
  /\ UNCHANGED <<env, backup, saved, out, render, left>>

\* apply_to_config up to `config_path.rename(backup)`.
MoveAway ==
  /\ sync.pc = "apply"
  /\ sync' = [pc |-> "write", raw |-> sync.raw, partial |-> sync.partial, adds |-> sync.adds,
              stale |-> sync.stale, old |-> sync.old, onTemplate |-> sync.onTemplate,
              new |-> ApplyToConfig(sync.old, sync.adds)]
  /\ IF sync.onTemplate
     THEN /\ template' = NoFile /\ backup' = template
          /\ UNCHANGED <<config, saved>>
     ELSE /\ config' = NoFile
          /\ saved' \in IF config = NoFile THEN {saved} ELSE Saved(saved, config)
          /\ UNCHANGED <<template, backup>>
  /\ UNCHANGED <<env, out, render, left>>

\* The temporary file, and os.replace; then the render, or what follows it.
Write ==
  /\ sync.pc = "write"
  /\ IF sync.onTemplate
     THEN template' = sync.new /\ UNCHANGED config
     ELSE config' = sync.new /\ UNCHANGED template
  /\ sync' = [pc |-> IF sync.onTemplate THEN "render" ELSE "rendered"]
  /\ UNCHANGED <<env, backup, saved, out, render, left>>

\* The subprocess ended, whatever its exit code; --regen-multi-instance or not.
Rendered ==
  /\ sync.pc = "rendered"
  /\ sync' \in {NoSync, [pc |-> "generate", n |-> 1]}
  /\ UNCHANGED <<env, template, backup, config, saved, out, render, left>>

\* generate-config.py reads config.yaml anew for each of its outputs; without
\* one it fails, and the sync only warns.
Generate ==
  /\ sync.pc = "generate"
  /\ IF config = NoFile THEN sync' = NoSync /\ UNCHANGED out
     ELSE /\ out' = [out EXCEPT ![Outputs[sync.n]] =
                       IF Outputs[sync.n] = "slave" THEN config ELSE Master(config)]
          /\ sync' = IF sync.n = Len(Outputs) THEN NoSync
                     ELSE [pc |-> "generate", n |-> sync.n + 1]
  /\ UNCHANGED <<env, template, backup, config, saved, render, left>>

\* The process is killed, with its subprocess or without.
Crash ==
  /\ sync.pc # "idle" /\ left.events > 0
  /\ sync' = NoSync
  /\ render' \in IF render.by = "sync" THEN {NoRender, [render EXCEPT !.by = "hand"]} ELSE {render}
  /\ left' = [left EXCEPT !.events = @ - 1]
  /\ UNCHANGED <<env, template, backup, config, saved, out>>

-----------------------------------------------------------------------------
(* A render, by the sync or by hand; one at a time (bound). *)

EditEnv ==
  /\ left.events > 0
  /\ env' \in Envs \ {env}
  /\ left' = [left EXCEPT !.events = @ - 1]
  /\ UNCHANGED <<template, backup, config, saved, out, sync, render>>

\* "template not found" ends it.
Reading(by) ==
  IF template = NoFile THEN NoRender
  ELSE [pc |-> "backup", by |-> by, template |-> template, env |-> env, new |-> Render(template, env)]

RenderByHand ==
  /\ render.pc = "idle" /\ left.events > 0
  /\ render' = Reading("hand")
  /\ left' = [left EXCEPT !.events = @ - 1]
  /\ UNCHANGED <<env, template, backup, config, saved, out, sync>>

\* A mutant of RenderBySync: the subprocess is not waited for.
RenderUnawaited ==
  /\ sync.pc = "render" /\ render.pc = "idle"
  /\ render' = Reading("sync")
  /\ sync' = [pc |-> "rendered"]
  /\ UNCHANGED <<env, template, backup, config, saved, out, left>>

RenderBySync ==
  /\ sync.pc = "render" /\ render.pc = "idle"
  /\ render' = Reading("sync")
  /\ sync' = [pc |-> IF template = NoFile THEN "rendered" ELSE "waiting"]
  /\ UNCHANGED <<env, template, backup, config, saved, out, left>>

\* shutil.copy2 of the old version.
BackUpConfig ==
  /\ render.pc = "backup"
  /\ saved' \in IF config = NoFile THEN {saved} ELSE Saved(saved, config)
  /\ render' = [render EXCEPT !.pc = "replace"]
  /\ UNCHANGED <<env, template, backup, config, out, sync, left>>

ReplaceConfig ==
  /\ render.pc = "replace"
  /\ config' = render.new
  /\ render' = [pc |-> "prune", by |-> render.by]
  /\ UNCHANGED <<env, template, backup, saved, out, sync, left>>

\* A mutant of Prune: it keeps the oldest.
PruneNewest ==
  /\ render.pc = "prune"
  /\ saved' = IF Len(saved) > BACKUP_KEEP THEN SubSeq(saved, 1, BACKUP_KEEP) ELSE saved
  /\ render' = NoRender
  /\ sync' = IF render.by = "sync" THEN [pc |-> "rendered"] ELSE sync
  /\ UNCHANGED <<env, template, backup, config, out, left>>

\* prune_backups
Prune ==
  /\ render.pc = "prune"
  /\ saved' = IF Len(saved) > BACKUP_KEEP
              THEN SubSeq(saved, Len(saved) - BACKUP_KEEP + 1, Len(saved)) ELSE saved
  /\ render' = NoRender
  /\ sync' = IF render.by = "sync" THEN [pc |-> "rendered"] ELSE sync
  /\ UNCHANGED <<env, template, backup, config, out, left>>

Next ==
  \/ Query \/ MakePlan \/ MoveAway \/ Write \/ Rendered \/ Generate \/ Crash
  \/ EditEnv \/ RenderByHand \/ RenderBySync \/ BackUpConfig \/ ReplaceConfig \/ Prune

Spec == Init /\ [][Next]_vars

-----------------------------------------------------------------------------
(* Properties. *)

TypeOK ==
  /\ env \in Envs
  /\ \A f \in {template, config} : f # NoFile => f \in Seq(Line) /\ ListStart(f) # 0
  /\ sync.pc \in {"idle", "queried", "apply", "write", "render", "waiting", "rendered", "generate"}
  /\ render.pc \in {"idle", "backup", "replace", "prune"}
  /\ sync.pc = "waiting" <=> render.by = "sync"
  /\ left \in [{"syncs", "events"} -> Nat]

Facts(b) == [name |-> b.name, provider |-> b.provider, id |-> b.id, mode |-> b.mode]
FactsOf(blocks) == Concat(Len(blocks), LAMBDA i : <<Facts(blocks[i])>>)

\* What the plan asks for, block by block instead of line by line.
Expected(old, adds) ==
  LET New(g) == Concat(Len(AddsFor(adds, g)), LAMBDA i :
                         <<[name |-> g, provider |-> AddsFor(adds, g)[i].provider,
                            id |-> AddsFor(adds, g)[i].id, mode |-> "chat"]>>)
      IsLast(i) == \A j \in (i + 1)..Len(old) : old[j].name # old[i].name
      fresh == Sorted({adds[i].name : i \in DOMAIN adds} \ NamesOf(old))
  IN  Concat(Len(old), LAMBDA i : <<old[i]>> \o (IF IsLast(i) THEN New(old[i].name) ELSE <<>>))
        \o Concat(Len(fresh), LAMBDA i : New(fresh[i]))

\* A line --apply has nothing to do with: the chain of a group there was, or a
\* line that is neither a chain nor of a deployment or its heading.
Other(l, names) ==
  IF l.k = "chain" THEN l.name \in names
  ELSE l.k \notin {"model_name", "model", "api_base", "cost", "mode", "blank", "header"}

OtherLines(lines, names) == Filter(lines, LAMBDA l : Other(l, names))

\* What --apply writes has every such line, in the order it found them: each
\* chain in its section, the marked blocks where they were.
RestKept ==
  sync.pc = "write" =>
    LET had == NamesOf(ParseBlocks(sync.old))
    IN  OtherLines(sync.new, had) = OtherLines(sync.old, had)

\* What --apply writes has, for the parser render-config.py reads it with, every
\* deployment it had, in place and of the same kind, and each planned one
\* behind the last of its group, new groups behind all: no splice lands inside
\* a block, however many shift each other.  Every new group has one chain, the
\* chains there were and the rest of the file are as before.
AppliedAsPlanned ==
  sync.pc = "write" =>
    LET old == sync.old  new == sync.new
        fresh == {sync.adds[i].name : i \in DOMAIN sync.adds} \ NamesOf(ParseBlocks(old))
        Chains(lines, names) == Filter(lines, LAMBDA l : l.k = "chain" /\ l.name \in names)
        had == {old[i].name : i \in {j \in DOMAIN old : old[j].k = "chain"}}
    IN  /\ FactsOf(ParseBlocks(new)) = Expected(FactsOf(ParseBlocks(old)), sync.adds)
        /\ \A g \in fresh : Cardinality({i \in ChainsAt(new, "fallbacks") : new[i].name = g}) = 1
        /\ Chains(new, had) = Chains(old, had)
        /\ RestKept

\* "Existing comments, RPMs, and cost fields are preserved": a deployment that
\* was there before --apply has its own cost lines afterwards.
CostFieldsPreserved ==
  sync.pc = "write" =>
    LET CostLines(lines, b) == Filter(SubSeq(lines, b.start, b.end), LAMBDA l : l.k = "cost")
        had == ParseBlocks(sync.old)
        has == ParseBlocks(sync.new)
    IN  \A i \in DOMAIN had : \E j \in DOMAIN has :
          /\ Facts(has[j]) = Facts(had[i])
          /\ CostLines(sync.new, has[j]) = CostLines(sync.old, had[i])

\* "Every sync would re-propose them": once applied, the same catalogues give
\* nothing more to add, and none of what was just added counts as stale, except
\* where a catalogue that minds the case lists an id in two spellings.
NextSyncIsQuiet ==
  sync.pc = "write" =>
    /\ \A price \in Prices : Plan(sync.raw, ScanExisting(sync.new), price) = <<>>
    /\ sync.onTemplate =>
         \A d \in Stale(sync.new, sync.raw, sync.partial) \ sync.stale :
           /\ d.provider \in CASE_SENSITIVE
           /\ \E m \in sync.raw[d.provider] : m # d.id /\ Lower[m] = Lower[d.id]

\* What a render makes of the template: exactly the deployments whose keys are
\* set; fallback chains only between groups that have deployments, in the
\* template's order, with openrouter-free in the chat chains as long as it can
\* be called, unless they are empty in the template, and nothing behind other
\* types of model; the retry policy for exactly the groups with one deployment;
\* marked lines only for what is configured; and the rest of the template.
Exact(old, new, keys) ==
  LET kept == Filter(ParseBlocks(old), LAMBDA b : Kept(b, keys))
      names == NamesOf(kept)
      nonChat == {kept[i].name : i \in {j \in DOMAIN kept : kept[j].mode # "chat"}}
      free == "openrouter" \in keys /\ "openrouter-free" \in names
      Plain(to) == Only(to, names \ {"openrouter-free"})
      Of(k) == {i \in DOMAIN new : new[i].k = k}
      Sections == {"fallbacks", "context"}
      chains == [s \in Sections |-> ChainsAt(new, s)]
      Rest(lines) == Filter(lines, LAMBDA l : l.k \in (TopLevel \union {"fallbacks", "context"}))
  IN  /\ FactsOf(ParseBlocks(new)) = FactsOf(kept)
      /\ \A i \in Of("chain") : /\ new[i].name \in names \union {"*"}
                                /\ ToSet(new[i].to) \subseteq names
      /\ \A i \in chains["fallbacks"] :
           IF new[i].name \in nonChat THEN new[i].to = <<>>
           ELSE IF new[i].to = <<>> THEN \E j \in ChainsAt(old, "fallbacks") : old[j] = new[i]
           ELSE free <=> Contains(new[i].to, "openrouter-free")
      /\ \A s \in Sections : \A i \in ChainsAt(old, s) :
           old[i].name \in names \union {"*"} /\ Plain(old[i].to) # <<>> =>
             \E j \in chains[s] : /\ new[j].name = old[i].name
                                   /\ Plain(new[j].to) = Plain(old[i].to)
      /\ {new[i].name : i \in Of("policy")} = Singles(kept)
      /\ {new[i].tag : i \in Of("marked")} = Features \intersect keys
      /\ Of("begin") \union Of("end") = {}
      /\ Rest(new) = Rest(old)

\* It is so of what a render is about to write.
RenderExact == render.pc = "replace" => Exact(render.template, render.new, render.env)

\* Wherever a sync dies, the template it found or the one it wrote is in a
\* file: the new content comes only from a complete old one, which stays as
\* the backup until it is replaced.
TemplateKept ==
  [][template' # template =>
       IF template' = NoFile THEN backup' = template
       ELSE backup' = backup /\ template' = ApplyToConfig(backup, sync.adds)]_vars

\* A config.yaml that is replaced or moved away is its newest backup, and
\* pruning keeps that one.  Only after a sync has lost the template, a render
\* that read it before and the next sync, which then works on config.yaml
\* itself, can overwrite each other's.
PreviousConfigKept ==
  [][/\ config' # config /\ config # NoFile =>
          \/ saved' # <<>> /\ Last(saved') = config
          \/ template = NoFile /\ (render.pc = "replace" \/ sync.pc = "write")
     /\ Len(saved') < Len(saved) => saved' # <<>> /\ Last(saved') = Last(saved)]_vars

\* Every group has all slaves behind its own deployments and, none being single
\* any more, no retry policy.
Mirrored(lines) ==
  LET list  == SubSeq(lines, 1, SelectInSeq(lines, LAMBDA l : l.k = "router_settings"))
      On(g, s) == {i \in DOMAIN list : list[i] = Name(g) /\ list[i + 1].k = "model"
                                       /\ list[i + 2] = ApiBase(s)}
      names == {list[i].name : i \in {j \in DOMAIN list : list[j].k = "model_name"}}
  IN  /\ names = NamesOf(ParseBlocks(lines))
      /\ \A g \in names, s \in ToSet(SLAVES) : Cardinality(On(g, s)) = 1
      /\ \A i \in DOMAIN lines : lines[i].k \notin {"policies", "policy"}

\* It is so of the master's configuration in every output that is written.
MasterMirrors ==
  sync.pc = "generate" => \A i \in 1..(sync.n - 1) : Mirrored(out[Outputs[i]])

=============================================================================

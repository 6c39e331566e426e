# Verification of the LiteLLM free-models proxy

TLA+ specifications of this repository, the TLC runs that check them and the
TLAPS proofs about them. Every definition translates code; `PROJECT.json`
names, for each one, the lines it stands for (`map`), and lists the runs, the
mutated definitions that show each property can fail, the hazards, the findings
and the theorems.

- [The system](#the-system): inventory
- [Modules](#modules): what models what
- [Runs](#runs): what each check asks, with which bounds
- [Findings](#findings): where code and documents disagree
- [Proofs](#proofs)
- [Observed while modelling](#observed-while-modelling)
- [What is not modelled](#what-is-not-modelled)
- [Plan](#plan)

To check: `tlc -config MC_X.cfg MC_X.tla` for a run (`ComposeUp.tla` itself for
the `MC_ComposeUp*.cfg`), `tlapm X_proofs.tla` for the proofs about `X`
(`SettingsApply`, `ComposeUp`, `SettingsPage`, `Sync`, `EnvFile`, `ChainLog`,
`Routes`), `tlapm FoldLemmas.tla` for the lemmas that several of them cite.

## The system

One `docker compose` stack serves free LLM deployments of many providers behind
one LiteLLM proxy. Its own logic is in Python scripts around the proxy, and they
share one file, `.env`.

| component | state | operations | interacts with |
|---|---|---|---|
| settings page, server (`fork/settings_ui.py`) | `_write_lock`, a thread per request, the cache of key checks | `POST /api/apply` and `/api/check`, `GET /api/providers` and `/api/proxy` | writes `.env`; restarts the proxy through the Docker socket; polls the proxy; reads its log |
| settings page, browser (`fork/settings_ui.html`) | the edits not yet applied (`dirty`), the rows on display, requests under way | edit, clear, check, check all, apply, reload, log in and out | the server's API |
| `.env` readers and writers | the lines of `.env` | `write_env` (page), `write_updates` (env-init), `set_value` and `write_env` (onboard.py), four copies of `load_env` | each other, through the file alone |
| env-init (`fork/ensure_secrets.py`) | `.env`, the files of `secrets-data` | generate missing secrets, copy two of them to files | started by compose before postgres and redis |
| compose stack (`docker-compose.yaml`) | the containers' states, the `postgres-data` volume | `up`, `down`, health checks, restarts | starts everything else |
| proxy start (`fork/docker-entrypoint.sh`, `fork/env_exports.py`, `fork/render.py`) | the environment and `config.yaml` of one start | export from `.env`, render, exec LiteLLM | reads `.env` three times; prints the chains the page reads |
| generated routes (`fork/standard.py`, `tools_route.py`, `vision_route.py`, `classify_route.py`) | none: functions of the catalogue and the keys | `chain`, `render_blocks`, `pin_fallbacks` | the renderer; LiteLLM walks them |
| `render-config.py` | `config.yaml` and its backups | filter blocks by key, prune fallbacks, retry policy, marked blocks, replace the file | `fork/render.py` |
| `find-shared-models.py` | `config.template.yaml`, a pricing cache | query catalogues, group models, plan and apply additions, find stale deployments | providers' APIs; the page uses its fetchers |
| `onboard.py` | the lines of `.env`, held for minutes | generate secrets, ask for keys, check them, render, start docker | `.env`, the scripts above |
| multi-instance generator, smoke tools, dead deployment finder, `opencode-config.py` | files they write, results they collect | one pass each | `config.yaml`, the running proxy |

What is hard here, and what makes each part correct:

- **Apply.** Threads of the page interleave with each other and with a booting
  proxy; writing, restarting and reporting may each fail after the ones before
  have succeeded. Correct when `.env` changes as if each accepted apply were one
  atomic step, no landed key is lost, `ready` is never said of a proxy that has
  not read the request's keys, and every request is answered.
- **Start-up.** Secrets are generated once and reach postgres, redis and the
  proxy by three different ways, with `.env` open to three writers that share no
  lock. Correct when all of them agree, above all with the password the database
  volume was initialised with, whatever dies and is run again.
- **The lines of `.env`.** Three writers choose the line to change in two ways,
  readers choose the line to believe in a third. Correct when what is written is
  what is read.
- **Chain report.** The page learns the proxy's chains by reading a log that is
  still being written, from a point in time, in blocks of bytes. Correct when it
  reports what one start printed, and all of it once the proxy is ready.
- **Routes.** Four chains are built from one catalogue, each from lines that
  contain the ones before. Correct when every chain has exactly the deployments
  it promises in the order it promises, keys change nothing but their own
  deployments, and a request tries all of its route and nothing else.
- **Key checks.** Threads query the same catalogue at the same time, with
  retries, while `.env` changes under them, and store what they find in one
  cache. Correct when a cached result belongs to the key it was asked with, and
  a query gives up exactly when nothing can be gained by repeating it.
- **The browser's state.** Edits, checks, reloads and an apply that takes up to
  two minutes are under way at once, and their answers come in any order.
  Correct when no edit is lost, no row shows the check of another key, and every
  button comes back.
- **Catalogue tools.** A sync splices blocks, prices and chains into a file by
  line numbers that each splice shifts; four line scanners read that file, each
  a little different; the sync, the render it starts, renders by hand and the
  generator replace two files in several steps. Correct when the file written
  is the old one and the plan, the next sync plans nothing, a rendered
  configuration names only what has a deployment, and whatever dies, the last
  good version of each file is somewhere.

## Modules

| module | models | state ↔ code |
|---|---|---|
| `EnvUpdates` | `validate` and the merge of `write_env` | operators on `.env` as a function of variables; shared by the two below |
| `EnvStore` | what the page promises (abstract) | `file`; `phase[r]`, the promise to request `r`: open, committed (its one atomic change has happened), closed |
| `SettingsApply` | `do_POST`, `App.apply`, `write_env`, `docker_restart`, `proxy_status` against a booting proxy | `pc[r]` is the place of thread `r` in `do_POST`; `lock` is `_write_lock`; `buffer[r]` the lines `write_env` computed; `proxy.reads` which version of `.env` each of the three reads of the current start returned; `version`, `landed`, `seen` and `crashes` are history |
| `ComposeUp` | env-init, postgres, redis, proxy, page and onboard.py around one `.env` | `env` and `files` hold small numbers that name generated values, 0 for none; `init.pc` is the place in `ensure_secrets.main`; `up` what compose waits for; `overlaps` is history |
| `EnvFile` | `.env` line by line, the three writers and the parsers | `file` is the sequence of lines, each `KEY=`, `KEY =` or a comment; `last` is history |
| `ChainLog` | `print_chain`, the container's log, `_demux`, `parse_chains`, `docker_chains` | `log` is every line printed; `reader` the place and bytes of `docker_chains`; `torn` is history |
| `Routes` | `standard.chain` and the narrowed chains, `fork/render.py`, a request's walk in LiteLLM | `template` the merged catalogue; `live` what the proxy has loaded; `request` one client request |
| `KeyCheck` | `App.check`, `KeyChecker`, `http_get_json` with its retries under the providers' fetch functions | `requests[i]` is one check from the click to the answer, `requests[i].pc` the place of its thread; `cache` is `_cache`, by provider and key material; `env` is `.env` |
| `SettingsPage` | the script of `settings_ui.html`, one open page over the server | `dirty`, `rows` (`providers`) and the login as in the script; `drawn` tells the row objects of one table from those of the next; `apply` and `loads` are the requests under way; `field` and `meant` are history |
| `Template` | `config.template.yaml` as lines; `_scan_existing_blocks` and `parse_blocks`; `apply_to_config` | operators: a line is a record with its kind, a block the lines a scanner takes for one |
| `RenderConfig` | `render-config.py`'s `render`, `multi-instance/generate-config.py` | operators on lines and on what `.env` sets |
| `Catalogue` | `collect_models`, `build_groups`, `find_zen_groups`, `generate_apply_plan`, `find_stale_deployments` | operators on the providers' answers, functions from provider to a set of ids |
| `Sync` | `find-shared-models.py --apply`, the renders and the generator as processes over their files | `template`, `backup`, `config`, `saved`, `out` are the files; `sync` and `render` the two processes, each with its place and what it has read; `left` bounds the events |
| `Selection` | the filters and loops of the code over lists | `Only(s, S)`: the elements of `s` in `S`, in order; what `SelectSeq` computes, as a recursive function the prover can follow. `Filter` the same with a condition, `Concat` one list after the other. Used by `Routes`, `EnvFile`, `Template` and the modules over it |
| `MC_SettingsApply`, `MC_ChainLog`, `MC_Routes`, `MC_EnvFile`, `MC_SettingsPage`, `MC_Sync` | instances for TLC | |
| `SettingsApply_proofs`, `ComposeUp_proofs`, `SettingsPage_proofs`, `Sync_proofs`, `EnvFile_proofs`, `ChainLog_proofs`, `Routes_proofs` | theorems | |
| `FoldLemmas` | lemmas on folds, recursive functions, filters, enumerations, and on parts of a sequence left out or replaced | |

How they compose: `SettingsApply` implements `EnvStore` (`Store == INSTANCE
EnvStore WITH phase <- ...`, checked as a property and proved); `EnvFile` opens
up the writers that `SettingsApply` and `ComposeUp` take as atomic functions of
variables; `ComposeUp` puts the page and onboard.py next to env-init; `ChainLog`
opens up the last step of `proxy_status`, which `SettingsApply` takes as an
answer; `Routes` and `RenderConfig` open up the render that `SettingsApply`
takes as a read: `RenderConfig` what render-config.py keeps of the template,
`Routes` what the fork appends to it. `SettingsPage` extends `KeyCheck`, the
server's side of its checks, and takes an apply, which is all of
`SettingsApply`, as one step that may fail before or after the file is written.
`Sync` extends `RenderConfig` and `Catalogue`, both over `Template`.

Atomicity. One step reads a file, renames one over another, or makes one call to
the Docker daemon or the proxy. Where the code reads, computes and renames,
these are separate steps; where it writes in place (`onboard.write_env`) the
truncation and the write are separate steps. A rename is atomic, as POSIX says.
One attempt of a catalogue query is a step, and so is one callback of the
browser, which runs one at a time. In `Sync`, what is computed between reading a
file and renaming or replacing one is computed in one of the two steps.

Assumed of the world outside the repository, beyond that:

- Docker: `restart` of a container that was only created starts it; a request
  the daemon has accepted may finish after its client gave up; `compose up`
  creates all containers first and waits on `depends_on` after that; it
  recreates a container whose interpolated environment has changed; `restart:
  unless-stopped` does not look at `depends_on`.
- The postgres image reads the password file only when the volume is empty.
- LiteLLM, from what `fork/render.py:19-23`, `fork/standard.py:7-9` and the ADR
  say of it: the lowest `order` of a group first, one fallback hop for every
  further order, at most `max_fallbacks` hops, then the group's `fallbacks` entry
  or else `"*"`. A deployment is up or down; load balancing, cooldowns and
  retries inside one deployment are left out.
- A provider's catalogue answers to a key or rejects it, always the same, unless it
  is not sent the key; and it may at any time be too busy to do either, or answer
  what is no JSON.

## Runs

All passing runs are exhaustive over their instance.

| run | question | instance |
|---|---|---|
| `apply` | do two applies, a booting proxy, crashes and failing steps keep the promises of `EnvStore`, and is everything answered and served? | 2 requests, 2 editable keys and the master key, 2 values, 6 bodies (empty, one key, two keys, clearing, an invalid value, a variable that is not editable), 1 crash; 422 914 states |
| `compose_up` | do `.env`, secret files, volume, redis and proxy agree, whatever dies and is run again? Does `up` return? | 3 `up` and 3 `down`, 2 runs of the page or onboard.py, 2 faults, one kind of overlap; 454 425 states |
| `env_file` | do three writers and the parsers agree on the lines? | every file of up to 3 lines over one provider key and one secret in every form, a second provider key that is appended, a value pasted with its quotes; 385 982 states, no depth bound |
| `chain_log` | is the report what one start printed? | 2 routes (the first and the last), 0 to 2 deployments each, 2 starts, chunks that end anywhere; 841 341 states |
| `routes` | are the four routes what they promise, and does a request stay within its own? | 2 catalogues of 6 and 7 blocks, 3 providers, every subset of keys, every subset of failing deployments; 98 304 states |
| `page` | do the page and the server's key check agree on keys and edits, whatever is under way at once? | 3 providers (a key with an api_base and a catalogue of two pages; a token with a curated list behind it; a key its catalogue is not sent), 3 requests at once, 3 attempts, 3 acts of user, operator and restart; 358 862 states |
| `sync` | is what `--apply` and a render write what the catalogues, the template and `.env` ask for, and is no file lost? | 5 providers, 10 ids, 2 templates, 2 `.env`, 3 sets of answers, 2 syncs, 2 other events (render by hand, edit of `.env`, death), 1 backup kept; 83 186 states |
| `compose_race`, `compose_early`, `chain_log_torn`, `env_file_twice`, `sync_costs` | the [findings](#findings) | the smallest instances |

What they show, by property:

- `apply`. `ImplementsStore`: whatever interleaving, the file changes by one
  atomic merge for every accepted request; 200 means that this has happened, 401
  that nothing changed, and after a 400 or a 500 the file is as it was or has all of
  the request's change, since either can follow the rename as well as precede it. `LandedUpdatesKept`: an apply's value stays until a later apply
  carries the same variable. `ReadyMeansApplied`: a request answered `ready` was
  answered about a start that had read its keys all three times; a crash, a
  second apply and a late daemon included. `ReadyServesCurrentFile`: with nobody
  inside an apply, a ready proxy's exports, deployments and routes come from one
  version of `.env`, the current one, unless the last apply failed or was lost.
  `EveryApplyAnswered` and `AppliedEventuallyServed` are the liveness of both.
- `compose_up`. `FilesFollowEnv`, `PasswordKept`, `ProxyAuthenticated` and the
  half of `UpFinishes` that says when `up` fails hold as long as `overlaps` is
  empty, and none of them holds with any single kind of overlap: the page while `up` has not succeeded,
  onboard.py together with `up` or an apply, onboard.py caught between its
  truncation and its write. `overlaps` makes the assumption exact that the
  programs make without saying so; these properties say nothing of writers that do
  overlap. What happens then is the question of `compose_race`, where each kind of
  overlap by itself loses the password. That `up` returns needs no assumption.
- `env_file`. On a file in which every variable has one line, what the page and
  env-init write is what every reader loads, what onboard.py writes is loaded
  without the quotes the operator may have typed, and no writer ever touches another
  line, whatever the file (`WritesReadBack`); a file of plain `KEY=` lines stays one
  (`TidyKept`), keeps its secrets (`SecretsKept`).
- `chain_log`. `ReportIsPrefix` and `CompleteReport` are about a report for which
  the lines of the running start, and no older ones, were asked for, with no restart
  between the poll and the answer; the first holds wherever chunks end, the
  second as long as none ends inside a line. Where older starts are read too, for
  want of a `since` or after a restart, what holds is that each chain is of one start
  (`NoMixedChain`) and that the newest printing of a route counts, so that a newer
  start takes the routes over from the front (`NewerStartsFirst`).
- `routes`. `StandardIsExact`, `NarrowedKeepOrder`: the chains against a
  definition by membership and order, after each route was parsed again from the
  lines of those before. `KeysInsertOnly`: a start under
  other keys leaves the order of all other deployments alone.
  `FailsOnlyWhenAllTried`, `AnsweredWithinRoute`: a request fails
  only after every deployment of its route and is never answered by the catch-all,
  while deployments fail and recover around it. `TypeOK` includes that
  no closed route is missing.
- `page`. `CacheTrue`: whatever checks run side by side and whatever `.env`
  becomes meanwhile, a key is cached as good only if its provider's catalogue
  answered to just that key at just that api_base, or the query has a curated list
  to fall back on (huggingface) or does not send the key (ovhcloud). `RetriedAsNeeded`: a query is repeated only
  after a 429, a 5xx or no connection, at most `HTTP_RETRIES` times, and what
  was met last is what the caller is told. `EditsStored`: with nothing left to
  apply, what the user last made of a variable is in `.env`, through reloads,
  logouts, failed applies and restarts; only an edit made while an apply is
  under way can be lost. `CheckOfStoredKey`: a row that lists what is stored and
  holds no edit shows no check of anything else, whatever answers are still to
  come. `EveryRequestEnds`: each check is answered and the Apply button enabled
  again.
- `sync`. `AppliedAsPlanned`: the file written, read by render-config.py's
  scanner and not by the one it was written with, has every deployment it had,
  in place, and each planned one behind the last of its group; one chain for
  each new group; everything else as before, in its order (`RestKept`). `NextSyncIsQuiet`: the same
  catalogues then plan nothing, and nothing just added counts as stale, except where
  a catalogue that minds the case lists an id in two spellings.
  `RenderExact`: exactly the deployments whose keys are set, chains only between
  groups that have some, with what the template says otherwise and no targets
  for other types of model than chat, marked lines for what is configured, the
  retry policy for exactly the groups with one deployment.
  `MasterMirrors`: every group, and no other, has each slave behind it once.
  `TemplateKept`, `PreviousConfigKept`: whatever dies between two steps, the
  template is in its file or its backup, and a config.yaml that is replaced is
  its newest backup, which pruning leaves.

Bounds, and why they are enough. Two requests: every property of `apply` is
about one request and its rival, and the proofs drop the bound. `MaxCrashes = 1`:
a crash only resets (lock, threads, boot), and it can come at every step. Three
`up`s: one that generates, one that finds a half-finished earlier one, one after
a `down`; two faults give a fault in the recovery from a fault. Two routes in
`chain_log`: the reader distinguishes the last block from the others and
nothing more. Files of three lines hold a line, its duplicate and a comment, in
every order. The catalogues of `routes` hold what the chains can trip over: a
model at two hosts, two aliases of one backend, another mode, an excluded and
two reserved deployments, an anonymous tier, a preference order against the
priority order with an entry that does not exist, and the fork's own models in
front; with two reserved deployments `vision` can be longer than `standard`. The
proofs hold for catalogues, files and chains of any length. `page`:
three providers, one for each way an answer becomes a status (an error of either of
two queries reaches the page; every error is answered with a curated list; a
wrong key is none), so that a key and its api_base can be edited, checked and applied apart; a check of
every row that has a key at first takes two of the three slots and leaves one for a
single check beside it; three acts are an edit, a check or apply of it and one thing that gets in
between. The proofs drop all these bounds. `sync`: two syncs, so that one works on what the other wrote, or on what its
death left; two events, so that a death can fall into a render by hand. The five
providers are one for each way a deployment is told from another (a prefix of
its own, an api_base, no key, a curated list, the fork's own models), the ids
one for each special case (a paid, an ambiguous and an embedding model, one that
two providers spell differently and one lists in both spellings, one named by its host, a dead route, two ids
with one last segment), the templates hold a group in two places, blocks without a
blank line between them, comments above blocks, and a list with and without the
catch-all chain. One backup kept is the smallest number at which pruning can
take the wrong one.

Fairness. `SettingsApply`: weak fairness of each thread (a started Python thread
runs; every wait in it has a timeout: the socket's, `urlopen`'s, the poll's
deadline; the lock is released by all its holders) and of the boot (the daemon
runs what it started). Clients, crashes and failures have none. Weak fairness of
the thread is enough for the lock: requests are finitely many in the model, and
a thread that waits can be passed only by each of the others. `ComposeUp`: weak
fairness of env-init's steps and of what compose waits for; people, deaths and the page have none.
`SettingsPage`: weak fairness of `System`, all
threads of the server and callbacks of the page together: as long as one of them
can go on, one does. The queries have a timeout and finitely many attempts, the
browser runs the callbacks it has, and no request waits for another, so that
nothing stronger is needed; the user, a login included, has none. `Routes` and
`Sync` have none and no liveness: that a request stops walking up its route is
LiteLLM's doing, whatever this repository does.

Deadlock is not checked where the system may stop: all requests answered, the
counters of calls used up, the log read, no sync left. In `env_file` it is
checked.

## Findings

Each is a run that TLC ends with a counterexample; `PROJECT.json` quotes both
sides.

1. `compose_race`: the generated postgres password can be lost again. The page
   read `.env` before env-init's rename and renames after it; no lock spans the
   two processes. `README.md:58-60` says that later runs leave the passwords
   alone.
2. `compose_early`: an apply before `up` has got to postgres starts the proxy
   without passwords. `docker-compose.yaml:119-123` says that postgres is
   healthy by then.
3. `chain_log_torn`: `docker_chains` takes a fragment of an entry of the last
   block for the line that follows it and returns a shortened chain
   (`settings_ui.py:360-364`).
4. `env_file_twice`: with two lines for a variable, an apply changes the one
   that nobody reads (`settings_ui.py:81-82`, `README.md:130`).

5. `sync_costs`: `--apply` with pricing data gives a free deployment the price
   of another id of its provider in the same group, and indents the line by six
   spaces more, which is no valid YAML (`find-shared-models.py:1425-1437`);
   `docs/upstream-README.md:588` has "cost fields are preserved".

## Proofs

Seven modules, each about the component of its name, for every value of its
constants: any finite or infinite set of requests and bodies, any number of
crashes, `up`s, writers, acts and syncs, `.env` files of any length, any
catalogues and templates.

| module | theorem | states that `Spec` implies |
|---|---|---|
| `SettingsApply_proofs` | `TypeCorrect` | `[]TypeOK` |
| | `NoLostUpdate` | `[]LandedUpdatesKept` |
| | `ReadyIsApplied` | `[]ReadyMeansApplied` |
| | `ReadyIsCurrent` | `[]ReadyServesCurrentFile` |
| | `Implementation` | `Store!StoreSpec`, the refinement |
| `ComposeUp_proofs` | `TypeCorrect` | `[]TypeOK` |
| | `QuietInvariance` | `[]QuietInv`, the inductive invariant |
| | `FilesAgree` | `[]FilesFollowEnv` |
| | `PasswordSafe` | `[]PasswordKept` |
| | `ProxySafe` | `[]ProxyAuthenticated` |
| | `UpFailsWithInit` | the safety half of `UpFinishes` |
| `SettingsPage_proofs` | `CacheIsTrue` | `[]CacheTrue` |
| | `Retries` | `[]RetriedAsNeeded` |
| | `NoEditLost` | `[]EditsStored` |
| | `RowsShowStored` | `[]CheckOfStoredKey` |
| | `TypeCorrect` | `[]TypeOK` |
| `Sync_proofs` | `TypeCorrect` | `[]TypeOK` |
| | `MirrorsSafe` | `[]MasterMirrors` |
| | `TemplateSafe` | `TemplateKept` |
| | `ConfigSafe` | `PreviousConfigKept` |
| | `RenderedExactly` | `[]RenderExact` |
| | `RestSafe` | `[]RestKept`, a conjunct of `AppliedAsPlanned` |
| `EnvFile_proofs` | `TypeCorrect` | `[]TypeOK` |
| | `WritesAreRead` | `WritesReadBack` |
| | `TidyFilesStayTidy` | `TidyKept` |
| | `SecretsAreKept` | `SecretsKept` |
| `ChainLog_proofs` | `Invariance` | `[]IInv`, the inductive invariant |
| | `TypeCorrect` | `[]TypeOK` |
| | `ChainsUnmixed` | `[]NoMixedChain` |
| | `ReportsArePrefixes` | `[]ReportIsPrefix` |
| | `ReportsAreComplete` | `[]CompleteReport` |
| `Routes_proofs` | `Invariance` | `[]IInv`, the inductive invariant |
| | `TypeCorrect` | `[]TypeOK` |
| | `StandardExact` | `[]StandardIsExact` |
| | `OrderKept` | `[]NarrowedKeepOrder` |
| | `AnsweredByTheRoute` | `[]AnsweredWithinRoute` |
| | `AllTriedBeforeFailure` | `[]FailsOnlyWhenAllTried` |
| | `InsertsOnly` | `KeysInsertOnly` |

Assumed of the constants, in the modules that declare them: `NoThread` is no
request, the master key is not editable, `NoValue` is a value and `BadValue` is
none, bodies are functions on variables (`EnvUpdates`, `SettingsApply`); bounds
are numbers (`ComposeUp`); there are finitely many providers, each with at least
one variable, there is at least one attempt, slots are listed once (`KeyCheck`, `SettingsPage`);
the tables of names and ids hold strings, and no model is called `*`, the key of
the catch-all (`Template`), the features are finitely
many, the slaves are listed once and no provider is reached at a slave's address
(`RenderConfig`), a template is written as `config.template.yaml` is
(`WellFormed`: one `model_list`, a blank line behind its last deployment, the
settings behind that, marked blocks behind both and closed (`Marks`), one for
each feature and for the retry policy, the chains in the two sections behind the list
and empty for groups of other types than chat (`ChainsPlaced`), no retry policy and
no slave written by hand), a provider lists ids or fails, a price is a number, and at least one backup is kept (`Sync`); the files are
sequences of lines, the secrets env-init generates are listed once and the page
edits none of them, no generated value counts as unset, and the empty one does,
and neither what `VALUE_RE` admits nor what is generated is in quotes
(`EnvFile`); the routes are listed once and there is one, their chains have
lengths, the proxy starts at least once (`ChainLog`); the template holds chat
blocks and others, none of them marked as reserved or named like a route, and
`PROVIDER_PRIORITY` and `CLASSIFY_ORDER` list nothing twice (`Routes`). The
finiteness is there because `checkAll` goes over the providers one by one; the
other facts about sets and sequences come from `FiniteSetTheorems` and
`SequenceTheorems`.

**SettingsApply.** None of the properties is inductive: that a landed value is
kept depends on the lines another thread has already computed and not yet
renamed. The inductive invariant is the conjunction of

- `TypeOK`;
- `LockInv`: a thread is inside the `with` block exactly when it holds the lock;
- `StatusInv`: a thread has an answer exactly when it is done;
- `BufferInv`: the lines a thread is about to rename are the file as it is now,
  merged with its own update. This is where the lock matters: nobody else can
  have renamed since it read;
- `LandedInv`: landed versions are distinct and at most `version`, they begin
  with the rename, and between rename and restart a thread's is the current one;
- `LandedUpdatesKept` itself;
- `ReadsInv`: what a start has read is a version that has existed;
- `BootInv`: while a request waits for readiness, the reads already made by the
  boot in progress are at least as new as the request's landed version;
- `ReadyMeansApplied` itself;
- `CurrentInv`: unless the last rename's request failed, was lost, or has not
  restarted the proxy yet, the boot has read nothing older than the current
  version.

`WriteInv` (the first six) is inductive alone; `ServeInv` adds the proxy's part.
Each is preserved action by action; the lemmas `StepLanded`, `StepProxy`,
`StepRestarts` and their like say what a step can do to one piece of state, so
that every conjunct is argued from the few actions that can disturb it.
`Implementation` maps `Replace` to `Commit` (by `BufferInv` what is renamed is
the merge with the current file), answers to answers, a crash of the page to an
abort of all open requests and every other step to a stutter.

**ComposeUp.** The properties speak of files and containers; what can break
them is a write that is still to come. `QuietInv` says, as long as `overlaps` is
empty:

- `StageInv`: which program is where when `up` is at which stage, so that no two
  writers are inside `.env`;
- `PageInv`, `BoardInv`, `InitInv`: what a writer has read or computed and not
  yet written agrees with the file, and a secret that is real in the file is the
  same in every writer's lines. env-init generates only what the file lacks;
- `FileInv`: each secret file has its secret from the step that writes it;
- `DatabaseInv`: a volume that was initialised has the password `.env` has;
- `LoginInv`: running redis and proxy hold what `.env`, the files and the volume
  have.

Every step either notes an overlap, which makes the invariant trivial from then
on, or is taken alone, and then one of the lemmas per program shows it. With
`overlaps` in the premise the theorems say exactly under which use of the
programs the documents' promises hold; the runs `compose_race` and
`compose_early` show that the premise is needed.

**SettingsPage.** Three invariants, one per question, and one for the types.
`CheckInv`: a query under way is about a key that is neither missing nor an example, and its attempt and
last error fit. It carries `CacheTrue`, since what is stored is the material the
request holds, not what `.env` has become. `EditInv`: what the user meant of a
variable is in `dirty` or stored, and an apply under way carries the edits there
were at the click, of which nothing meant since is one. `RowInv`, for
`CheckOfStoredKey`: an edit that can still change `.env` is at an input that is
not blank (`HeldInv`), a request belongs to a table drawn before and, if that is
the present one and the inputs are blank, is about what is stored (`FlightInv`),
a list under way shows checks of what it lists (`ListInv`), and so does the
table, or else of what is stored (`TableInv`). That a late answer finds its own
row object gone, and not the one now at its place, is what makes it inductive.
Type correctness (`ValueInv`, `StatusInv`, `WaitInv`) follows the values and the
statuses through every request and list that is under way, with `RowInv` for
the shape of the rows.

**Sync.** `SyncInv`: a sync that has found the template holds its content, which
is first in place and then in the backup, and what it is going to write is made from that;
one that works on config.yaml found no template. `RenderInv`: a render about to
replace config.yaml has it in the newest backup, unless the template it read is
gone.

`TypeOK` of `Sync` is about contents: each file is missing or consists of lines
with a `model_list`, without which every scanner here finds nothing. That is not
inductive: a marked block that began before `model_list` would take it along when its
feature is switched off. What is inductive is the shape of a file, `Sound`: one
`model_list`, every deployment behind it and before a blank line (`ListIs`), the
settings behind that, a retry policy in one piece at most, and every marked
block behind the list and closed, with nothing but marked lines in it
(`TailIs`); `FilesInv` says it of both files and of what a sync or a render holds
to write, for the template with no policy yet (`Fresh`), and for both without a
slave (`Settled`). `StepsInv` says that a sync waits exactly when the render under
way is its own. The work is one lemma per pass of the code over the lines:
`InsertFramed`, `CostsSound`, `RereadSound`, `FallbacksSound` for a sync,
together `ApplySound`; `StripAllSound`, `RemoveSound`, `ChainsSound`, `PolicySound`
for a render, together `RenderSound`. Under them are three ways to change a file:
a splice at a line number that a scan has given (`SpliceWidens`, `SpliceFramed`;
the numbers come from `ScanExistingScans`), a pass that puts a piece in place of
each line (`PiecesSound`, on `PiecesTraced`, which finds for a line of the result
the line it came from) and a cut (`CutList`). `PlanTyped` follows the names of a plan
through the grouping.

`MasterMirrors` needs that shape, since the programs end the list differently:
the render at the first line that is not indented, the generator at the first
such line that is no comment. `MirrorEndIs` shows that all deployments the one
sees are before the other's end, and this end before the settings.
`MasterMirrored` has the argument: the master's lines
are those of config.yaml without a policy (`StripPolicies`), with the slaves'
entries spliced in at that end (`SplicedBounds`, `SplicedRouter`); each group was listed once, since the
first names are listed once (`FirstNamesAre`) and stand for all groups; a
`model_name` followed by a slave's address can only be one of the entries, since no
line of config.yaml has one (`MirroredOwn`), and entries of different pairs are
different (`GroupEntries`, `SlaveEntriesAre`). `OutInv` carries it over the
outputs already written.

`RenderExact` needs more of the template than its shape, and every template, not
only the first: a marked block may hold nothing else, or switching a feature off
would take more along; a chain outside the two sections would escape the pruning.
`TidyInv` says that the template, what a sync is about to write as one, and what a
render has read are `Tidy`, that is `Sound`, `Marks` and `ChainsPlaced`. That a
sync leaves it so (`ApplyTidy`) is not said by its passes one by one: the scan that
knows the groups of other types is made before the splices, the chains are added
after them. `Neat` is what one pass hands to the next, with those groups as a
fixed set `O`: the deployments of other types stay within `O` and no chain of `O` gets
targets. Each pass leaves the lines behind the list as they are, up to costs and
new chains (`Woven`), which keeps marked blocks and sections (`MarksWoven`,
`SectionWoven`): `NeatSplice` for the deployments, `NeatPass` for the costs and for
reading the file again, `NeatChains` for the chains. A new chain stands behind a
chain, a blank line or the section's own, never inside a marked block.

`RestKept`, the part of `AppliedAsPlanned` about everything that is not planned, needs
only the shape (`RestSafe`). `Aside` are those lines, as a set; each pass leaves what
a filter keeps of it: a splice puts in none of them (`OnlyPutIn`), a pass line by line
rewords only others (`AsidePass`), and the chains that come in are of groups the
scan before the first splice did not find (`AsideKept`). Since the
filter keeps chains and sections in one sequence, no chain changes its section.

What a render makes of a tidy template is `RenderIsExact`: one lemma per pass
(`StripPass`, `RemovePass`, then the chains and the policy), each saying what the
next still finds (`RenderPasses`). Where a pass only drops lines, the result is
`Drawn` from the file; `FactsRemain` follows the deployments, parsed before
and parsed again after (`ParsedFacts`), `SectionDrawn` the section of a chain,
`MarksDrawn` the marked blocks. The chains are rewritten one by one
(`ChainFits`, `ChainStays`), with what `Only` keeps of their targets.

**EnvFile.** A writer applies its updates one after the other, each to the lines
the one before has left: `write_env` and env-init by folding over the keys they
set, onboard.py one key at a time. The argument is about one update
(`Written(f, g, u)`: in `g` what `u` sets is read back, every other variable
reads as in `f`, no other line has changed, a file of plain lines stays one) and
about putting two of them one behind the other; the theorems follow by going
through the fold.

**ChainLog.** `IInv` is `TypeOK`, where the proxy is in its print (`Printing`),
what the reader has got so far as a part of the log (`Reading`), and three of the
properties. The log is linked from each entry of a block to the one before, and
what the container prints of one start is a prefix of its script; the parser's
state after any prefix of a script is stated in closed form, so that a report,
whichever lines it has been made of, is compared with what was printed. A torn
line can shorten the last block and mixes no two chains.

**Routes.** `IInv` is `TypeOK`, `Loaded` (what is live was rendered from the template
under some two sets of keys, since the render and the start read `.env`
separately) and `Walks` (a request has hopped once for every order below its
level, and what it has tried is exactly the deployments of those orders). The
render parses each route out of lines that hold the routes before it. The proof
describes a chain without parsing: the template's chat blocks, the first of each
deployment, by provider rank and then by place (`Ahead`, `Served`, `Lists`).
That blocks already copied into a route are ignored when the lines are parsed
again (`CopiesIgnored`, `AddRoute`) makes that description hold of every route
after every other; that two lists of one set in one order are equal
(`ListsUnique`) gives `KeysInsertOnly`, the chains of two key sets being lists
of two sets in the same order.

**FoldLemmas.** What a fold, a filter or a recursive function yields is stated by a
table of intermediate results, one for each position, and proved by induction
on positions. The library's induction theorems cannot be instantiated here, so
each induction is done by the least position at which the claim fails. The
prover has no definition of `SelectSeq`, and could not follow a recursive
concatenation: what proofs look into uses `Only`, `Filter` and `Concat` of
`Selection`.

Only model-checked:

- liveness (`EveryApplyAnswered`, `AppliedEventuallyServed`, the first half of
  `UpFinishes`, `EveryRequestEnds`), which is about fairness and
  `ENABLED` and out of the prover's reach;
- `NewerStartsFirst` of `ChainLog`, about reports that read several starts;
- of `Sync` what is said of the single deployments and chains of a sync
  (`AppliedAsPlanned` but for its part `RestKept`, `NextSyncIsQuiet`). Each relates
  several scans and splices of one file, nested in one another; what is proved of
  a sync is that every splice finds its place, that the file keeps its form, that all
  it has nothing to do with is as before and in order, and that what is rendered
  from it is exact.

## Observed while modelling

What the models show of the code and no run states as a finding.

- `docs/adr/0001-fork-conventions.md:190-192` has `vision` ⊆ `standard` as an
  invariant; `fork/render.py:87-88` keeps the deployments reserved for `vision`
  out of `standard`. `NarrowedKeepOrder` states what does hold.
- `find-shared-models.py:1377` says "Atomic write"; line 1382 renames the file
  away first. A death before line 1386 leaves no template, the next render ends
  with "template not found", and the next sync works on config.yaml instead.
  `PreviousConfigKept` has the one exception that follows from it: a render that
  had read the template and that next sync can overwrite each other's.
- The render a sync runs is `render-config.py`: until the next render by the
  fork, config.yaml, and what the generator makes of it, have no fork routes. A
  render that has read an old template or `.env` can replace the result of one
  that read a newer one; nothing orders two renders.
- A sync may add a chat deployment to a group of another type: a plan looks at
  names only (`find-shared-models.py:1133-1239`), and `build_deployment` writes
  `mode: chat`. If then only that deployment's key is set, the render puts no
  `openrouter-free` into the group's chain, which the template has as `[]`;
  `RenderExact` allows for chains that are empty there.
- `README.md:125-126` says that check results are cached until the key changes;
  of two checks of one key the one that ends later replaces the other's result,
  a passing failure a success.
- huggingface, whose fetch function falls back on a curated list, is reported "ok"
  for a token it rejects, and ovhcloud, whose catalogue is asked without any
  `Authorization` (`find-shared-models.py:458-472`), for whatever is typed as its key;
  `CacheTrue` excepts both.
- `do_POST` answers any `ValueError` 400 (`settings_ui.py:544-545`), also one that comes
  after the rename, as from an inspect body that is no JSON (329): a 400 does not
  say that the keys were refused.
- Where the daemon does not tell `StartedAt`, `docker_chains` reads the log from the
  container's first start, and the test for completeness can return there
  (`settings_ui.py:362-365`): the page then shows the chains of the oldest start, not
  of the current one as the docstring (339) has it. A restart between the poll for
  readiness and the request for the log has the report of one start shown with the
  `ready` of another. Neither is a property; `NewerStartsFirst` says what is left.
- onboard.py writes what is typed as it is, quotes included (`onboard.py:210`,
  `250-255`), where the page refuses a quote (`VALUE_RE`); the readers strip them.
- After a sync has added an id that a case-sensitive catalogue lists in two spellings,
  `find_stale_deployments` reports it: its dictionary keeps one id for both
  (`find-shared-models.py:1689-1717`).
- Reload redraws the table without the edits in `dirty`; the next apply writes
  them and the next check sends them (`Held`). Edits made while an apply is under
  way are dropped with those it sent. An apply that fails after its write leaves
  the rows as they were before it, and a list that fails after an apply that
  succeeded is reported as "Apply failed".

## What is not modelled

`PROJECT.json` has the full list under `components`. Whole parts:

- pricing lookup, the reports and the matrix: formatting of static data; a price
  is an input of `Sync`;
- the smoke tools: each is one sequential pass over the responses of a running
  proxy and keeps nothing. Its hazard, that a fallback answers for the
  deployment under test, is listed without a property;
- the dead deployment finder: regular expressions over error texts, where the
  data is the text;
- `opencode-config.py`: one pass that writes a client's file;
- the provider tables, Kubernetes manifests, CI and Makefile: declarative, or
  wrappers around the programs.

Inside modelled parts: of `onboard.py` its dialogue, its key check and its
render, docker and test steps; `fork/render.py`'s second replacement of
config.yaml, since LiteLLM is started only after a render that succeeded
(a hazard without a property); the generator's wrapping in a ConfigMap; the
header and `--dry-run` of render-config.py; more than two pages of a catalogue;
cohere's second address, which is asked only when the first one ends with an HTTP
error and whose answer then counts (the model has no such query);
providers without a query, which have no check button.

Data is abstracted throughout: a key is set, empty, a placeholder or invalid; a
generated secret is a number; a line is a record of what its readers tell apart;
names and ids are strings whose normal forms are given by tables, and so are
quoted values and what they hold.

## Plan

Done, in this order: the core (`SettingsApply` over `EnvStore`, `ComposeUp`,
`ChainLog`, `Routes`, `EnvFile`) with the proofs about `SettingsApply`; the
files and tools of the catalogue (`Template`, `RenderConfig`, `Catalogue`,
`Sync`); the key check and the page (`KeyCheck`, `SettingsPage`); the proofs about
`ComposeUp`, `SettingsPage` and `Sync`; the proofs about `EnvFile`, `ChainLog` and
`Routes`.

What could follow:

1. Proofs about the deployments a sync adds, on top of `Neat`: the rest of
   `AppliedAsPlanned`, then `NextSyncIsQuiet`.
2. `SmokeTools`: attempts, two-step calls and the attribution of answers to the
   deployment under test, over a proxy that falls back.
3. `onboard.py`'s later steps: its key check and render between the two saves.
4. Refinement of `SettingsPage`'s apply step by `SettingsApply`, with the store's
   phases in place of the pair of outcomes.

----------------------------- MODULE ComposeUp -----------------------------
(***************************************************************************)
(* `docker compose up`: env-init (fork/ensure_secrets.py) generates the    *)
(* secrets `.env` lacks and copies two of them into secrets-data; postgres *)
(* and redis read the files, each at its own moment; the proxy reads       *)
(* `.env`.  Two other programs rewrite `.env`: the settings page and       *)
(* onboard.py.  Everything but the volumes and `.env` is lost by `down`,   *)
(* and any container may die.                                              *)
(***************************************************************************)
EXTENDS Naturals, FiniteSets

CONSTANTS
  MaxUps,     \* `docker compose up` calls, and `down` calls (bound)
  MaxWrites,  \* runs of onboard.py and applies of the page (bound)
  MaxFaults,  \* dying containers and interrupted writers (bound)
  MaxOverlaps \* kinds of overlap in one behaviour (bound)

ASSUME BoundsAssumption ==
  MaxUps \in Nat /\ MaxWrites \in Nat /\ MaxFaults \in Nat /\ MaxOverlaps \in Nat

VARIABLES
  env,     \* .env: the generated secrets, 0 for missing, empty or placeholder
  files,   \* the secret files of the secrets-data volume, 0 for no file
  pgdata,  \* the password postgres-data was initialised with, 0 for empty
  fresh,   \* how many times secrets were generated; names a generated value
  up,      \* what `docker compose up` is waiting for
  init,    \* the env-init container
  pg,      \* the postgres container
  redis,   \* the redis container and the password it demands
  proxy,   \* litellm-proxy and the passwords it uses
  page,    \* POST /api/apply: its stage and the lines it read
  board,   \* onboard.py: its stage and its lines
  count,   \* calls and faults so far
  overlaps \* history: how writers of .env have got in each other's way

vars == <<env, files, pgdata, fresh, up, init, pg, redis, proxy, page, board, count,
          overlaps>>

Secrets   == {"master", "redis", "postgres"}   \* GENERATED
FileNames == {"redis", "postgres"}             \* SECRET_FILES
NoSecrets == [s \in Secrets |-> 0]

\* "early": an apply of the page before `up` has succeeded;
\* "board": onboard.py and `up`, or onboard.py and an apply;
\* "torn":  onboard.py's write_text between its truncation and its write.
Overlaps == {"early", "board", "torn"}

Phases      == {"absent", "created", "running"}
UpStages    == {"down", "init", "services", "up", "failed"}
InitStages  == {"idle", "load", "read", "replace", "pgfile", "redisfile",
                "completed", "failed"}
InitRunning == InitStages \ {"idle", "completed", "failed"}

Init ==
  /\ env \in {NoSecrets, [NoSecrets EXCEPT !["master"] = 1]}
  /\ files = [f \in FileNames |-> 0]
  /\ pgdata = 0
  /\ fresh = 1
  /\ up = "down"
  /\ init = [pc |-> "idle", env |-> NoSecrets, lines |-> NoSecrets, generated |-> {}]
  /\ pg = "absent"
  /\ redis = [phase |-> "absent", password |-> 0]
  /\ proxy = [phase |-> "absent", captured |-> NoSecrets, redis |-> 0, postgres |-> 0]
  /\ page  = [pc |-> "idle", lines |-> NoSecrets]
  /\ board = [pc |-> "idle", lines |-> NoSecrets]
  /\ count = [ups |-> 0, downs |-> 0, writes |-> 0, faults |-> 0]
  /\ overlaps = {}

Note(o) ==
  /\ Cardinality(overlaps \union o) <= MaxOverlaps
  /\ overlaps' = overlaps \union o

Composing == up \in {"init", "services"}

\* Mutant: every value is generated anew.
Everything(e) == Secrets

\* needs_generation
Missing(e) == {s \in Secrets : e[s] = 0}

\* The secrets of `e`: its real values, and fresh ones for the rest.
Completed(e) == [s \in Secrets |-> IF s \in Missing(e) THEN fresh + 1 ELSE e[s]]

-----------------------------------------------------------------------------
(* env-init: ensure_secrets.main. *)

InitOnly == UNCHANGED <<pgdata, pg, redis, proxy, page, board, count, overlaps>>

\* load() and ensure()
InitLoad ==
  /\ init.pc = "load"
  /\ init' = [init EXCEPT !.pc = IF Missing(env) = {} THEN "pgfile" ELSE "read",
                          !.env = Completed(env), !.generated = Missing(env)]
  /\ fresh' = IF Missing(env) = {} THEN fresh ELSE fresh + 1
  /\ UNCHANGED <<env, files, up>> /\ InitOnly

\* write_updates reads the lines again ...
InitRead ==
  /\ init.pc = "read"
  /\ init' = [init EXCEPT !.pc = "replace", !.lines = env]
  /\ UNCHANGED <<env, files, fresh, up>> /\ InitOnly

\* ... sets the generated variables, whatever they hold by now, and renames.
InitReplace ==
  /\ init.pc = "replace"
  /\ env' = [s \in Secrets |-> IF s \in init.generated THEN init.env[s] ELSE init.lines[s]]
  /\ init' = [init EXCEPT !.pc = "pgfile"]
  /\ UNCHANGED <<files, fresh, up>> /\ InitOnly

\* Mutant: the file is written only when the password was generated just now.
InitPgFileOnce ==
  /\ init.pc = "pgfile"
  /\ files' = IF "postgres" \in init.generated
              THEN [files EXCEPT !["postgres"] = init.env["postgres"]] ELSE files
  /\ init' = [init EXCEPT !.pc = "redisfile"]
  /\ UNCHANGED <<env, fresh, up>> /\ InitOnly

\* write_secret_file, for every run and not only when something was generated.
InitPgFile ==
  /\ init.pc = "pgfile"
  /\ files' = [files EXCEPT !["postgres"] = init.env["postgres"]]
  /\ init' = [init EXCEPT !.pc = "redisfile"]
  /\ UNCHANGED <<env, fresh, up>> /\ InitOnly

\* Mutant: a file for every generated secret, not for SECRET_FILES only.
InitFileForAll ==
  /\ init.pc = "redisfile"
  /\ files' = init.env
  /\ init' = [init EXCEPT !.pc = "completed"]
  /\ UNCHANGED <<env, fresh, up>> /\ InitOnly

InitRedisFile ==
  /\ init.pc = "redisfile"
  /\ files' = [files EXCEPT !["redis"] = init.env["redis"]]
  /\ init' = [init EXCEPT !.pc = "completed"]
  /\ UNCHANGED <<env, fresh, up>> /\ InitOnly

\* The container dies or a write raises: `up` stops with an error.
InitFails ==
  /\ init.pc \in InitRunning
  /\ count.faults < MaxFaults
  /\ init' = [init EXCEPT !.pc = "failed"]
  /\ up' = "failed"
  /\ count' = [count EXCEPT !.faults = @ + 1]
  /\ UNCHANGED <<env, files, pgdata, fresh, pg, redis, proxy, page, board, overlaps>>

-----------------------------------------------------------------------------
(* docker compose. *)

\* `up` and `down` wait for no writer.
ComposeOverlaps ==
  Note({o \in {"early"} : page.pc # "idle"} \union {o \in {"board"} : board.pc # "idle"})

Create(phase) == IF phase = "absent" THEN "created" ELSE phase

\* Compose interpolates ${...} once, creates the missing containers, and
\* recreates the proxy when what it captured has changed.
ComposeUp ==
  /\ ~Composing
  /\ ComposeOverlaps
  /\ count.ups < MaxUps
  /\ count' = [count EXCEPT !.ups = @ + 1]
  /\ up' = "init"
  /\ init' = [init EXCEPT !.pc = "load"]
  /\ pg' = Create(pg)
  /\ redis' = [redis EXCEPT !.phase = Create(@)]
  /\ proxy' = IF proxy.phase # "absent" /\ proxy.captured = env
              THEN proxy
              ELSE [proxy EXCEPT !.phase = "created", !.captured = env]
  /\ UNCHANGED <<env, files, pgdata, fresh, page, board>>

ComposeOnly ==
  UNCHANGED <<env, files, fresh, init, page, board, count, overlaps>>

\* service_completed_successfully
InitDone ==
  /\ up = "init"
  /\ init.pc = "completed"
  /\ up' = "services"
  /\ UNCHANGED <<pgdata, pg, redis, proxy>> /\ ComposeOnly

\* The image reads POSTGRES_PASSWORD_FILE only to initialise an empty volume.
StartPostgres ==
  /\ up = "services"
  /\ pg = "created"
  /\ pg' = "running"
  /\ pgdata' = IF pgdata = 0 THEN files["postgres"] ELSE pgdata
  /\ UNCHANGED <<up, redis, proxy>> /\ ComposeOnly

\* --requirepass "$(cat /run/secrets/redis_password)"
StartRedis ==
  /\ up = "services"
  /\ redis.phase = "created"
  /\ redis' = [phase |-> "running", password |-> files["redis"]]
  /\ UNCHANGED <<up, pgdata, pg, proxy>> /\ ComposeOnly

\* Mutant: the entrypoint does not export REDIS_PASSWORD and DATABASE_URL.
BootCaptured ==
  [proxy EXCEPT !.phase = "running", !.redis = proxy.captured["redis"],
                !.postgres = proxy.captured["postgres"]]

\* docker-entrypoint.sh: env_exports overrides what compose captured, where
\* .env has a value.
Booted ==
  LET Live(s) == IF env[s] # 0 THEN env[s] ELSE proxy.captured[s]
  IN  [proxy EXCEPT !.phase = "running", !.redis = Live("redis"),
                    !.postgres = Live("postgres")]

\* Redis' health check logs in with the file's password.
RedisHealthy == redis.phase = "running" /\ redis.password = files["redis"]

\* Mutant: `up` waits for a proxy that it started itself.
StartNewProxy ==
  /\ up = "services"
  /\ pg = "running"
  /\ RedisHealthy
  /\ proxy.phase = "created"
  /\ up' = "up"
  /\ proxy' = Booted
  /\ UNCHANGED <<pgdata, pg, redis>> /\ ComposeOnly

\* depends_on: both healthy.
StartProxy ==
  /\ up = "services"
  /\ pg = "running"
  /\ RedisHealthy
  /\ up' = "up"
  /\ proxy' = IF proxy.phase = "created" THEN Booted ELSE proxy
  /\ UNCHANGED <<pgdata, pg, redis>> /\ ComposeOnly

\* The health check's retries are used up.
RedisUnhealthy ==
  /\ up = "services"
  /\ redis.phase = "running"
  /\ ~RedisHealthy
  /\ up' = "failed"
  /\ UNCHANGED <<pgdata, pg, redis, proxy>> /\ ComposeOnly

\* `docker compose down`; with -v the volumes go too.
Down(withVolumes) ==
  /\ ~Composing
  /\ up # "down"
  /\ ComposeOverlaps
  /\ count.downs < MaxUps
  /\ count' = [count EXCEPT !.downs = @ + 1]
  /\ up' = "down"
  /\ init' = [init EXCEPT !.pc = "idle"]
  /\ pg' = "absent"
  /\ redis' = [redis EXCEPT !.phase = "absent"]
  /\ proxy' = [proxy EXCEPT !.phase = "absent"]
  /\ pgdata' = IF withVolumes THEN 0 ELSE pgdata
  /\ files'  = IF withVolumes THEN [f \in FileNames |-> 0] ELSE files
  /\ UNCHANGED <<env, fresh, page, board>>

\* A container dies and `restart: unless-stopped` starts it, dependencies or
\* not: redis reads its file again, the proxy .env.
ContainerDies ==
  /\ count.faults < MaxFaults
  /\ count' = [count EXCEPT !.faults = @ + 1]
  /\ \/ /\ redis.phase = "running"
        /\ redis' = [redis EXCEPT !.password = files["redis"]]
        /\ UNCHANGED proxy
     \/ /\ proxy.phase = "running"
        /\ proxy' = Booted
        /\ UNCHANGED redis
  /\ UNCHANGED <<env, files, pgdata, fresh, up, init, pg, page, board, overlaps>>

-----------------------------------------------------------------------------
(* POST /api/apply, whose own variables are the provider keys: of the       *)
(* secrets it keeps the lines it read.                                      *)

PageRead ==
  /\ page.pc = "idle"
  /\ up # "down"                \* settings-ui depends on nothing
  /\ env["master"] # 0          \* nobody can log in without one
  /\ Note({o \in {"early"} : up # "up"} \union {o \in {"board"} : board.pc # "idle"})
  /\ count.writes < MaxWrites
  /\ count' = [count EXCEPT !.writes = @ + 1]
  /\ page' = [pc |-> "replace", lines |-> env]
  /\ UNCHANGED <<env, files, pgdata, fresh, up, init, pg, redis, proxy, board>>

PageReplace ==
  /\ page.pc = "replace"
  /\ env' = page.lines
  /\ page' = [page EXCEPT !.pc = "restart"]
  /\ UNCHANGED <<files, pgdata, fresh, up, init, pg, redis, proxy, board, count, overlaps>>

\* Docker restarts a created container by starting it; an absent one is a 404.
PageRestart ==
  /\ page.pc = "restart"
  /\ proxy' = IF proxy.phase = "absent" THEN proxy ELSE Booted
  /\ page' = [page EXCEPT !.pc = "idle"]
  /\ UNCHANGED <<env, files, pgdata, fresh, up, init, pg, redis, board, count, overlaps>>

-----------------------------------------------------------------------------
(* onboard.py: reads .env once, writes it after step 2 and, when            *)
(* interactive, again after step 3, each time all of its lines.             *)

BoardOnly == UNCHANGED <<files, pgdata, up, init, pg, redis, proxy, page>>

\* step_env_file and step_base_secrets
BoardOpen ==
  /\ board.pc = "idle"
  /\ Note({o \in {"board"} : Composing \/ page.pc # "idle"})
  /\ count.writes < MaxWrites
  /\ count' = [count EXCEPT !.writes = @ + 1]
  /\ board' = [pc |-> "secrets", lines |-> Completed(env)]
  /\ fresh' = IF Missing(env) = {} THEN fresh ELSE fresh + 1
  /\ UNCHANGED env /\ BoardOnly

\* write_env's open(..., "w")
BoardTruncate ==
  /\ Note({"torn"})
  /\ board.pc \in {"secrets", "keys"}
  /\ env' = NoSecrets
  /\ board' = [board EXCEPT !.pc = IF @ = "secrets" THEN "torn" ELSE "torn again"]
  /\ UNCHANGED <<fresh, count>> /\ BoardOnly

\* write_env: after step 2, and after step 3 unless --non-interactive.
BoardSave ==
  /\ board.pc # "idle"
  /\ env' = board.lines
  /\ \/ board.pc \in {"secrets", "torn"} /\ board' = [board EXCEPT !.pc = "keys"]
     \/ board' = [board EXCEPT !.pc = "idle"]
  /\ UNCHANGED <<fresh, count, overlaps>> /\ BoardOnly

\* Ctrl-C at a prompt, or a write that fails half-way.
BoardQuit ==
  /\ board.pc # "idle"
  /\ count.faults < MaxFaults
  /\ count' = [count EXCEPT !.faults = @ + 1]
  /\ board' = [board EXCEPT !.pc = "idle"]
  /\ UNCHANGED <<env, fresh, overlaps>> /\ BoardOnly

-----------------------------------------------------------------------------

EnvInit == InitLoad \/ InitRead \/ InitReplace \/ InitPgFile \/ InitRedisFile

Compose == InitDone \/ StartPostgres \/ StartRedis \/ StartProxy \/ RedisUnhealthy

Next ==
  \/ EnvInit \/ InitFails
  \/ ComposeUp \/ Compose \/ \E v \in BOOLEAN : Down(v)
  \/ ContainerDies
  \/ PageRead \/ PageReplace \/ PageRestart
  \/ BoardOpen \/ BoardTruncate \/ BoardSave \/ BoardQuit

\* A started container runs, and compose goes on waiting; people need not.
Fairness == WF_vars(EnvInit) /\ WF_vars(Compose)

Spec == Init /\ [][Next]_vars /\ Fairness

-----------------------------------------------------------------------------
(* Properties. *)

Dict == [Secrets -> Nat]

TypeOK ==
  /\ env \in Dict
  /\ files \in [FileNames -> Nat]
  /\ pgdata \in Nat
  /\ fresh \in Nat
  /\ up \in UpStages
  /\ init \in [pc : InitStages, env : Dict, lines : Dict, generated : SUBSET Secrets]
  /\ pg \in Phases
  /\ redis \in [phase : Phases, password : Nat]
  /\ proxy \in [phase : Phases, captured : Dict, redis : Nat, postgres : Nat]
  /\ page \in [pc : {"idle", "replace", "restart"}, lines : Dict]
  /\ board \in [pc : {"idle", "secrets", "torn", "keys", "torn again"}, lines : Dict]
  /\ overlaps \subseteq Overlaps
  /\ count \in [{"ups", "downs", "writes", "faults"} -> Nat]

\* Once env-init has completed, what postgres and redis will read is what the
\* proxy will read, though one comes from secrets-data and the other from .env,
\* and env-init may have died between any two of its writes before.
FilesFollowEnv ==
  overlaps = {} /\ up \in {"services", "up"} => \A f \in FileNames : files[f] = env[f]

\* "the first `docker compose up` generates them into .env and later runs leave
\* them alone", for the one that cannot be changed afterwards: the password
\* postgres-data was initialised with is the one in .env.
PasswordAlwaysKept == pgdata # 0 => env["postgres"] = pgdata

\* It holds, whatever dies and is run again, while the writers of .env do not
\* overlap; with an overlap of any one kind it does not.
PasswordKept == overlaps = {} => PasswordAlwaysKept

\* "by then postgres is already healthy, so a real password exists": a running
\* proxy can log in at the database and at the redis that runs.
ProxyAlwaysAuthenticated ==
  proxy.phase = "running" =>
    /\ proxy.postgres # 0
    /\ proxy.postgres = pgdata
    /\ redis.phase = "running" => proxy.redis = redis.password

\* It holds while the page waits for `up`, whoever started the proxy last and
\* whatever has died since.
ProxyAuthenticated == overlaps = {} => ProxyAlwaysAuthenticated

\* `docker compose up` returns, overlaps or not: whatever the files and .env
\* hold, every condition it waits for comes true or fails for good.  Without
\* overlaps it fails for one reason only, env-init failing: the redis that still
\* runs from an earlier `up` is never locked out of its own health check by the
\* files env-init has just rewritten.
UpFinishes ==
  /\ up = "init" ~> up \in {"up", "failed"}
  /\ [](overlaps = {} /\ up = "failed" => init.pc = "failed")

=============================================================================

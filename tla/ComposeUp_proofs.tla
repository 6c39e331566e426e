-------------------------- MODULE ComposeUp_proofs --------------------------
(***************************************************************************)
(* Proofs about ComposeUp for any number of `up`s, writers and faults.     *)
(* Each safety property says what holds while `overlaps` is empty; Quiet   *)
(* is that said inductively: what every writer of `.env` has read and not  *)
(* yet written agrees with the file, secrets once real stay as they are,   *)
(* and the files, the volume and the containers hold those secrets.        *)
(***************************************************************************)
EXTENDS ComposeUp, TLAPS

-----------------------------------------------------------------------------
(* Type correctness. *)

LEMMA BootedType ==
  ASSUME TypeOK
  PROVE  Booted \in [phase : Phases, captured : Dict, redis : Nat, postgres : Nat]
<1>1. \A s \in Secrets : (IF env[s] # 0 THEN env[s] ELSE proxy.captured[s]) \in Nat
  BY DEF TypeOK, Dict
<1> QED
  BY <1>1 DEF Booted, TypeOK, Dict, Secrets, Phases

LEMMA CompletedType ==
  ASSUME TypeOK
  PROVE  Completed(env) \in Dict
<1>0. fresh \in Nat
  BY DEF TypeOK
<1>1. fresh + 1 \in Nat
  BY <1>0
<1>2. \A s \in Secrets : env[s] \in Nat
  BY DEF TypeOK, Dict
<1> QED
  BY <1>1, <1>2 DEF Dict, Completed

Counts == [{"ups", "downs", "writes", "faults"} -> Nat]

LEMMA CountType ==
  ASSUME count \in Counts, NEW x \in {"ups", "downs", "writes", "faults"},
         count' = [count EXCEPT ![x] = @ + 1]
  PROVE  count' \in Counts
<1>1. count[x] + 1 \in Nat
  BY DEF Counts
<1> QED
  BY <1>1 DEF Counts

\* Every action keeps the variables in their types, with no bound on calls.
THEOREM TypeCorrect == Spec => []TypeOK
<1>1. Init => TypeOK
  BY DEF Init, TypeOK, Dict, NoSecrets, Secrets, FileNames, UpStages, InitStages, Phases, Overlaps
<1>2. TypeOK /\ [Next]_vars => TypeOK'
  <2> SUFFICES ASSUME TypeOK, [Next]_vars PROVE TypeOK'
    OBVIOUS
  <2>0. NoSecrets \in Dict /\ Completed(env) \in Dict
    BY CompletedType DEF NoSecrets, Dict
  <2>00. fresh \in Nat
    BY DEF TypeOK
  <2>000. fresh + 1 \in Nat
    BY <2>00
  <2> USE DEF TypeOK
  <2>1. CASE EnvInit
    <3>1. CASE InitLoad
      <4>1. init' \in [pc : InitStages, env : Dict, lines : Dict, generated : SUBSET Secrets]
        BY <2>0, <3>1 DEF InitLoad, InitStages, Missing
      <4>2. fresh' \in Nat
        BY <2>000, <3>1 DEF InitLoad
      <4> QED
        BY <3>1, <4>1, <4>2 DEF InitLoad, InitOnly
    <3>2. CASE InitRead
      BY <3>2 DEF InitRead, InitOnly, InitStages
    <3>3. CASE InitReplace
      BY <3>3 DEF InitReplace, InitOnly, InitStages, Dict
    <3>4. CASE InitPgFile
      BY <3>4 DEF InitPgFile, InitOnly, InitStages, FileNames, Dict, Secrets
    <3>5. CASE InitRedisFile
      BY <3>5 DEF InitRedisFile, InitOnly, InitStages, FileNames, Dict, Secrets
    <3> QED
      BY <2>1, <3>1, <3>2, <3>3, <3>4, <3>5 DEF EnvInit
  <2>2. CASE InitFails
    <3>1. count' \in Counts
      BY <2>2, CountType DEF InitFails, Counts
    <3> QED
      BY <2>0, <3>1, <2>2 DEF Counts, InitFails, InitStages, UpStages
  <2>3. CASE ComposeUp
    <3>1. count' \in Counts
      BY <2>3, CountType DEF ComposeUp, Counts
    <3> QED
      BY <2>0, <3>1, <2>3 DEF Counts, ComposeUp, ComposeOverlaps, Note, Create, InitStages, UpStages, Phases, Overlaps
  <2>4. CASE Compose
    <3>1. CASE InitDone
      BY <3>1 DEF InitDone, ComposeOnly, UpStages
    <3>2. CASE StartPostgres
      BY <3>2 DEF StartPostgres, ComposeOnly, Phases, FileNames
    <3>3. CASE StartRedis
      BY <3>3 DEF StartRedis, ComposeOnly, Phases, FileNames
    <3>4. CASE StartProxy
      BY <3>4, BootedType DEF StartProxy, ComposeOnly, UpStages
    <3>5. CASE RedisUnhealthy
      BY <3>5 DEF RedisUnhealthy, ComposeOnly, UpStages
    <3> QED
      BY <2>4, <3>1, <3>2, <3>3, <3>4, <3>5 DEF Compose
  <2>5. ASSUME NEW v \in BOOLEAN, Down(v) PROVE TypeOK'
    <3>1. count' \in Counts
      BY <2>5, CountType DEF Down, Counts
    <3> QED
      BY <2>0, <3>1, <2>5 DEF Counts, Down, ComposeOverlaps, Note, InitStages, UpStages, Phases, Overlaps
  <2>6. CASE ContainerDies
    <3>1. files["redis"] \in Nat
      BY DEF FileNames
    <3>2. count' \in Counts
      BY <2>6, CountType DEF ContainerDies, Counts
    <3> QED
      BY <2>6, <3>1, <3>2, BootedType DEF Counts, ContainerDies
  <2>7. CASE PageRead
    <3>1. count' \in Counts
      BY <2>7, CountType DEF PageRead, Counts
    <3> QED
      BY <2>0, <3>1, <2>7 DEF Counts, PageRead, Note, Overlaps
  <2>8. CASE PageReplace
    BY <2>8 DEF PageReplace
  <2>9. CASE PageRestart
    BY <2>9, BootedType DEF PageRestart
  <2>10. CASE BoardOpen
    <3>1. count' \in Counts
      BY <2>10, CountType DEF BoardOpen, Counts
    <3> QED
      BY <2>0, <2>000, <3>1, <2>10 DEF Counts, BoardOpen, BoardOnly, Note, Overlaps
  <2>11. CASE BoardTruncate
    BY <2>0, <2>11 DEF BoardTruncate, BoardOnly, Note, Overlaps
  <2>12. CASE BoardSave
    BY <2>12 DEF BoardSave, BoardOnly
  <2>13. CASE BoardQuit
    <3>1. count' \in Counts
      BY <2>13, CountType DEF BoardQuit, Counts
    <3> QED
      BY <2>0, <3>1, <2>13 DEF Counts, BoardQuit, BoardOnly
  <2>14. CASE UNCHANGED vars
    BY <2>14 DEF vars
  <2> QED
    BY <2>1, <2>2, <2>3, <2>4, <2>5, <2>6, <2>7, <2>8, <2>9, <2>10, <2>11, <2>12, <2>13, <2>14 DEF Next
<1> QED
  BY <1>1, <1>2, PTL DEF Spec

-----------------------------------------------------------------------------
(* The invariant of a behaviour without overlaps. *)

Waiting == {"read", "replace"}

StageInv ==
  /\ init.pc \in InitRunning => up = "init"
  /\ up = "init" => init.pc \in InitRunning \union {"completed"}
  /\ up \in {"services", "up"} => init.pc = "completed"
  /\ up = "failed" => init.pc = "failed"
  /\ up = "down" => init.pc = "idle"
  /\ page.pc # "idle" => up = "up" /\ board.pc = "idle"
  /\ board.pc # "idle" => ~Composing
  /\ board.pc \in {"idle", "secrets", "keys"}

\* What a writer has read or computed, and not yet written, against `.env`.
PageInv == page.pc = "replace" => page.lines = env

BoardInv ==
  board.pc # "idle" =>
    \A s \in Secrets : /\ board.lines[s] # 0
                       /\ env[s] # 0 => board.lines[s] = env[s]

InitInv ==
  /\ init.pc \in Waiting =>
       \A s \in Secrets : /\ init.env[s] # 0
                          /\ s \in init.generated => env[s] = 0
                          /\ s \notin init.generated => init.env[s] = env[s]
  /\ init.pc = "replace" => init.lines = env
  /\ init.pc \in {"pgfile", "redisfile"} => init.env = env
  /\ init.pc \in {"pgfile", "redisfile", "completed"} => \A s \in Secrets : env[s] # 0

FileInv ==
  /\ init.pc \in {"redisfile", "completed"} => files["postgres"] = env["postgres"]
  /\ init.pc = "completed" => files["redis"] = env["redis"]

DatabaseInv ==
  /\ pgdata # 0 => env["postgres"] = pgdata
  /\ pg = "running" => pgdata # 0
  /\ up = "up" => pg = "running"

LoginInv ==
  /\ redis.phase = "running" =>
       /\ redis.password # 0
       /\ redis.password = env["redis"]
       /\ redis.password = files["redis"]
  /\ proxy.phase = "running" =>
       /\ pg = "running"
       /\ proxy.postgres = pgdata
       /\ env["redis"] # 0
       /\ proxy.redis = env["redis"]

Quiet == StageInv /\ PageInv /\ BoardInv /\ InitInv /\ FileInv /\ DatabaseInv /\ LoginInv

QuietInv == overlaps = {} => Quiet

LEMMA Alone ==
  ASSUME NEW o, Note(o), overlaps' = {}
  PROVE  o = {}
BY DEF Note

\* `up`, `down` and the writers that keep `overlaps` empty are alone.
LEMMA ComposeAlone ==
  ASSUME ComposeOverlaps, overlaps' = {}
  PROVE  page.pc = "idle" /\ board.pc = "idle"
<1>1. {o \in {"early"} : page.pc # "idle"} \union {o \in {"board"} : board.pc # "idle"} = {}
  BY Alone DEF ComposeOverlaps
<1> QED
  BY <1>1

LEMMA PageAlone ==
  ASSUME PageRead, overlaps' = {}
  PROVE  up = "up" /\ board.pc = "idle"
<1>1. {o \in {"early"} : up # "up"} \union {o \in {"board"} : board.pc # "idle"} = {}
  BY Alone DEF PageRead
<1> QED
  BY <1>1

LEMMA BoardAlone ==
  ASSUME BoardOpen, overlaps' = {}
  PROVE  ~Composing /\ page.pc = "idle"
<1>1. {o \in {"board"} : Composing \/ page.pc # "idle"} = {}
  BY Alone DEF BoardOpen
<1> QED
  BY <1>1

LEMMA OverlapsGrow ==
  ASSUME [Next]_vars, overlaps' = {}
  PROVE  overlaps = {}
<1>1. ASSUME NEW o, Note(o) PROVE overlaps = {}
  BY <1>1 DEF Note
<1>2. CASE overlaps' = overlaps
  BY <1>2
<1> QED
  BY <1>1, <1>2 DEF Next, vars, EnvInit, InitLoad, InitRead, InitReplace, InitPgFile, InitRedisFile,
     InitOnly, InitFails, ComposeUp, ComposeOverlaps, Compose, ComposeOnly, InitDone, StartPostgres,
     StartRedis, StartProxy, RedisUnhealthy, Down, ContainerDies, PageRead, PageReplace,
     PageRestart, BoardOpen, BoardTruncate, BoardSave, BoardQuit, BoardOnly

\* The lines that env-init and onboard.py compute have every secret, and the old ones.
LEMMA CompletedReal ==
  ASSUME TypeOK
  PROVE  \A s \in Secrets : /\ Completed(env)[s] # 0
                            /\ s \in Missing(env) <=> env[s] = 0
                            /\ env[s] # 0 => Completed(env)[s] = env[s]
<1>0. fresh \in Nat
  BY DEF TypeOK
<1>1. fresh + 1 # 0
  BY <1>0
<1> QED
  BY <1>1 DEF Completed, Missing

-----------------------------------------------------------------------------
(* env-init keeps the invariant. *)

LEMMA EnvInitQuiet ==
  ASSUME TypeOK, TypeOK', Quiet, EnvInit
  PROVE  Quiet'
<1> USE DEF Quiet
<1>0. /\ init \in [pc : InitStages, env : Dict, lines : Dict, generated : SUBSET Secrets]
      /\ files \in [FileNames -> Nat]
      /\ env \in [Secrets -> Nat]
  BY DEF TypeOK, Dict
<1>s. "redis" \in Secrets /\ "postgres" \in Secrets /\ "redis" \in FileNames /\ "postgres" \in FileNames
  BY DEF Secrets, FileNames
<1>i. up = "init" /\ page.pc = "idle" /\ board.pc = "idle"
  BY DEF EnvInit, InitLoad, InitRead, InitReplace, InitPgFile, InitRedisFile, StageInv, InitRunning, InitStages, Composing
<1>1. CASE InitLoad
  <2>1. /\ init'.pc = IF Missing(env) = {} THEN "pgfile" ELSE "read"
        /\ init'.env = Completed(env)
        /\ init'.generated = Missing(env)
    BY <1>0, <1>1 DEF InitLoad
  <2>2. UNCHANGED <<env, files, up, pgdata, pg, redis, proxy, page, board>>
    BY <1>1 DEF InitLoad, InitOnly
  <2>3. InitInv'
    <3>1. CASE Missing(env) = {}
      <4>1. \A s \in Secrets : env[s] # 0 /\ Completed(env)[s] = env[s]
        BY <3>1 DEF Missing, Completed
      <4>2. Completed(env) = env
        BY <4>1, <1>0 DEF Completed
      <4> QED
        BY <2>1, <2>2, <3>1, <4>1, <4>2 DEF InitInv, Waiting
    <3>2. CASE Missing(env) # {}
      BY <2>1, <2>2, <3>2, CompletedReal DEF InitInv, Waiting
    <3> QED
      BY <3>1, <3>2
  <2>4. StageInv' /\ FileInv' /\ PageInv' /\ BoardInv' /\ DatabaseInv' /\ LoginInv'
    BY <1>i, <2>1, <2>2 DEF StageInv, FileInv, PageInv, BoardInv, DatabaseInv, LoginInv, InitRunning, InitStages, Composing
  <2> QED
    BY <2>3, <2>4
<1>2. CASE InitRead
  <2>1. /\ init.pc = "read" /\ init'.pc = "replace" /\ init'.lines = env
        /\ init'.env = init.env /\ init'.generated = init.generated
    BY <1>0, <1>2 DEF InitRead
  <2>2. UNCHANGED <<env, files, up, pgdata, pg, redis, proxy, page, board>>
    BY <1>2 DEF InitRead, InitOnly
  <2> QED
    BY <1>i, <2>1, <2>2 DEF StageInv, InitInv, Waiting, FileInv, PageInv, BoardInv, DatabaseInv, LoginInv, InitRunning, InitStages, Composing
<1>3. CASE InitReplace
  <2>1. /\ init.pc = "replace" /\ init'.pc = "pgfile"
        /\ init'.env = init.env /\ init'.generated = init.generated
    BY <1>0, <1>3 DEF InitReplace
  <2>2. UNCHANGED <<files, up, pgdata, pg, redis, proxy, page, board>>
    BY <1>3 DEF InitReplace, InitOnly
  <2>3. env' = [s \in Secrets |-> IF s \in init.generated THEN init.env[s] ELSE env[s]]
    BY <1>3, <2>1 DEF InitReplace, InitInv
  <2>4. /\ \A s \in Secrets : env'[s] = init.env[s]
        /\ \A s \in Secrets : env'[s] # 0 /\ (env[s] # 0 => env'[s] = env[s])
    BY <2>1, <2>3 DEF InitInv, Waiting
  <2>5. env' = init.env
    BY <2>3, <2>4, <1>0 DEF Dict
  <2>6. InitInv'
    BY <2>1, <2>4, <2>5 DEF InitInv, Waiting
  <2>7. DatabaseInv' /\ LoginInv'
    BY <1>s, <2>2, <2>4 DEF DatabaseInv, LoginInv
  <2>8. StageInv' /\ FileInv' /\ PageInv' /\ BoardInv'
    BY <1>i, <2>1, <2>2 DEF StageInv, FileInv, PageInv, BoardInv, InitRunning, InitStages, Composing
  <2> QED
    BY <2>6, <2>7, <2>8
<1>4. CASE InitPgFile
  <2>1. init.pc = "pgfile" /\ init'.pc = "redisfile" /\ init'.env = init.env
    BY <1>0, <1>4 DEF InitPgFile
  <2>2. UNCHANGED <<env, up, pgdata, pg, redis, proxy, page, board>>
    BY <1>4 DEF InitPgFile, InitOnly
  <2>3. files'["postgres"] = env["postgres"] /\ files'["redis"] = files["redis"]
    BY <1>0, <1>s, <1>4, <2>1 DEF InitPgFile, InitInv
  <2> QED
    BY <1>i, <2>1, <2>2, <2>3 DEF StageInv, InitInv, Waiting, FileInv, PageInv, BoardInv, DatabaseInv, LoginInv, InitRunning, InitStages, Composing
<1>5. CASE InitRedisFile
  <2>1. init.pc = "redisfile" /\ init'.pc = "completed" /\ init'.env = init.env
    BY <1>0, <1>5 DEF InitRedisFile
  <2>2. UNCHANGED <<env, up, pgdata, pg, redis, proxy, page, board>>
    BY <1>5 DEF InitRedisFile, InitOnly
  <2>3. files'["redis"] = env["redis"] /\ files'["postgres"] = files["postgres"]
    BY <1>0, <1>s, <1>5, <2>1 DEF InitRedisFile, InitInv
  <2> QED
    BY <1>i, <2>1, <2>2, <2>3 DEF StageInv, InitInv, Waiting, FileInv, PageInv, BoardInv, DatabaseInv, LoginInv, InitRunning, InitStages, Composing
<1> QED
  BY <1>1, <1>2, <1>3, <1>4, <1>5 DEF EnvInit

-----------------------------------------------------------------------------
(* Every step keeps the invariant. *)

\* What the last conjuncts of the invariant say of a proxy that boots now.
LEMMA BootsAuthenticated ==
  ASSUME TypeOK, Quiet, init.pc = "completed", pg = "running"
  PROVE  Booted.phase = "running" /\ Booted.postgres = pgdata /\ Booted.redis = env["redis"]
<1>1. "redis" \in Secrets /\ "postgres" \in Secrets
  BY DEF Secrets
<1>2. env["redis"] # 0 /\ env["postgres"] # 0 /\ env["postgres"] = pgdata
  BY <1>1 DEF Quiet, InitInv, DatabaseInv
<1>3. proxy \in [phase : Phases, captured : Dict, redis : Nat, postgres : Nat]
  BY DEF TypeOK
<1> QED
  BY <1>2, <1>3 DEF Booted

LEMMA ComposeQuiet ==
  ASSUME TypeOK, TypeOK', Quiet, Compose
  PROVE  Quiet'
<1> USE DEF Quiet
<1>0. redis \in [phase : Phases, password : Nat]
  BY DEF TypeOK
<1>s. "redis" \in Secrets /\ "postgres" \in Secrets
  BY DEF Secrets
<1>1. UNCHANGED <<env, files, init, page, board>>
  BY DEF Compose, InitDone, StartPostgres, StartRedis, StartProxy, RedisUnhealthy, ComposeOnly
<1>2. up \in {"init", "services"} /\ init.pc = "completed" /\ page.pc = "idle" /\ board.pc = "idle"
  BY DEF Compose, InitDone, StartPostgres, StartRedis, StartProxy, RedisUnhealthy, StageInv, Composing
<1>3. env["redis"] # 0 /\ env["postgres"] # 0
  BY <1>s, <1>2 DEF InitInv
<1>4. PageInv' /\ BoardInv' /\ InitInv' /\ FileInv'
  BY <1>1, <1>2 DEF PageInv, BoardInv, InitInv, FileInv
<1>5. ~RedisUnhealthy
  BY DEF RedisUnhealthy, RedisHealthy, LoginInv
<1>6. StageInv'
  BY <1>1, <1>2, <1>5 DEF Compose, InitDone, StartPostgres, StartRedis, StartProxy,
     StageInv, Composing, InitRunning
<1>7. DatabaseInv' /\ LoginInv'
  <2>1. CASE InitDone
    BY <1>1, <2>1 DEF InitDone, DatabaseInv, LoginInv
  <2>2. CASE StartPostgres
    <3>1. files["postgres"] = env["postgres"]
      BY <1>2 DEF FileInv
    <3> QED
      BY <1>1, <1>3, <3>1, <2>2 DEF StartPostgres, DatabaseInv, LoginInv
  <2>3. CASE StartRedis
    <3>1. files["redis"] = env["redis"]
      BY <1>2 DEF FileInv
    <3> QED
      BY <1>1, <1>3, <3>1, <2>3 DEF StartRedis, DatabaseInv, LoginInv
  <2>4. CASE StartProxy
    <3>1. CASE proxy.phase = "created"
      BY <1>1, <1>2, <1>3, <2>4, <3>1, BootsAuthenticated DEF StartProxy, DatabaseInv, LoginInv
    <3>2. CASE proxy.phase # "created"
      BY <1>1, <2>4, <3>2 DEF StartProxy, DatabaseInv, LoginInv
    <3> QED
      BY <3>1, <3>2
  <2> QED
    BY <1>5, <2>1, <2>2, <2>3, <2>4 DEF Compose
<1> QED
  BY <1>4, <1>6, <1>7

LEMMA StackQuiet ==
  ASSUME TypeOK, TypeOK', Quiet, overlaps' = {},
         InitFails \/ ComposeUp \/ (\E v \in BOOLEAN : Down(v)) \/ ContainerDies
  PROVE  Quiet'
<1> USE DEF Quiet
<1>0. /\ init \in [pc : InitStages, env : Dict, lines : Dict, generated : SUBSET Secrets]
      /\ redis \in [phase : Phases, password : Nat]
      /\ proxy \in [phase : Phases, captured : Dict, redis : Nat, postgres : Nat]
      /\ pg \in Phases
  BY DEF TypeOK
<1>1. CASE InitFails
  <2>1. init.pc \in InitRunning /\ up = "init" /\ init'.pc = "failed" /\ up' = "failed"
    BY <1>0, <1>1 DEF InitFails, StageInv
  <2>2. UNCHANGED <<env, files, pgdata, pg, redis, proxy, page, board>>
    BY <1>1 DEF InitFails
  <2> QED
    BY <2>1, <2>2 DEF StageInv, PageInv, BoardInv, InitInv, Waiting, FileInv, DatabaseInv, LoginInv,
       InitRunning, InitStages, Composing
<1>2. CASE ComposeUp
  <2>1. page.pc = "idle" /\ board.pc = "idle"
    BY <1>2, ComposeAlone DEF ComposeUp
  <2>2. init'.pc = "load" /\ up' = "init"
    BY <1>0, <1>2 DEF ComposeUp
  <2>3. UNCHANGED <<env, files, pgdata, page, board>>
    BY <1>2 DEF ComposeUp
  <2>4. /\ redis'.password = redis.password
        /\ redis'.phase = "running" => redis.phase = "running"
        /\ pg = "running" <=> pg' = "running"
    BY <1>0, <1>2 DEF ComposeUp, Create, Phases
  <2>5. proxy'.phase = "running" => proxy' = proxy
    BY <1>0, <1>2 DEF ComposeUp, Phases
  <2>6. StageInv'
    BY <2>1, <2>2, <2>3 DEF StageInv, InitRunning, InitStages
  <2>7. PageInv' /\ BoardInv' /\ InitInv' /\ FileInv'
    BY <2>1, <2>2, <2>3 DEF PageInv, BoardInv, InitInv, Waiting, FileInv
  <2>8. DatabaseInv' /\ LoginInv'
    BY <2>2, <2>3, <2>4, <2>5 DEF DatabaseInv, LoginInv
  <2> QED
    BY <2>6, <2>7, <2>8
<1>3. ASSUME NEW v \in BOOLEAN, Down(v) PROVE Quiet'
  <2>1. page.pc = "idle" /\ board.pc = "idle"
    BY <1>3, ComposeAlone DEF Down
  <2>2. init'.pc = "idle" /\ up' = "down" /\ pg' = "absent"
    BY <1>0, <1>3 DEF Down
  <2>3. redis'.phase = "absent" /\ proxy'.phase = "absent"
    BY <1>0, <1>3 DEF Down
  <2>4. UNCHANGED <<env, page, board>> /\ pgdata' \in {0, pgdata}
    BY <1>3 DEF Down
  <2> QED
    BY <2>1, <2>2, <2>3, <2>4 DEF StageInv, PageInv, BoardInv, InitInv, Waiting, FileInv, DatabaseInv,
       LoginInv, InitRunning, InitStages, Composing
<1>4. CASE ContainerDies
  <2>1. UNCHANGED <<env, files, pgdata, up, init, pg, page, board>>
    BY <1>4 DEF ContainerDies
  <2>2. StageInv' /\ PageInv' /\ BoardInv' /\ InitInv' /\ FileInv' /\ DatabaseInv'
    BY <2>1 DEF StageInv, PageInv, BoardInv, InitInv, FileInv, DatabaseInv, Composing
  <2>3. CASE redis.phase = "running" /\ redis' = [redis EXCEPT !.password = files["redis"]]
             /\ UNCHANGED proxy
    <3>1. redis'.phase = "running" /\ redis'.password = redis.password
      BY <1>0, <2>3 DEF LoginInv
    <3> QED
      BY <2>1, <2>2, <2>3, <3>1 DEF LoginInv
  <2>4. CASE proxy.phase = "running" /\ proxy' = Booted /\ UNCHANGED redis
    <3>1. Booted.postgres = pgdata /\ Booted.redis = env["redis"]
      <4>1. "redis" \in Secrets /\ "postgres" \in Secrets
        BY DEF Secrets
      <4>2. env["redis"] # 0 /\ env["postgres"] = pgdata /\ pgdata # 0
        BY <2>4 DEF LoginInv, DatabaseInv
      <4> QED
        BY <1>0, <4>1, <4>2 DEF Booted
    <3> QED
      BY <2>1, <2>2, <2>4, <3>1 DEF LoginInv
  <2> QED
    BY <1>4, <2>3, <2>4 DEF ContainerDies
<1> QED
  BY <1>1, <1>2, <1>3, <1>4

LEMMA PageQuiet ==
  ASSUME TypeOK, TypeOK', Quiet, overlaps' = {}, PageRead \/ PageReplace \/ PageRestart
  PROVE  Quiet'
<1> USE DEF Quiet
<1>0. page \in [pc : {"idle", "replace", "restart"}, lines : Dict]
  BY DEF TypeOK
<1>1. CASE PageRead
  <2>1. up = "up" /\ board.pc = "idle" /\ page' = [pc |-> "replace", lines |-> env]
    BY <1>1, PageAlone DEF PageRead
  <2>2. UNCHANGED <<env, files, pgdata, up, init, pg, redis, proxy, board>>
    BY <1>1 DEF PageRead
  <2> QED
    BY <2>1, <2>2 DEF StageInv, PageInv, BoardInv, InitInv, FileInv, DatabaseInv, LoginInv, Composing
<1>2. CASE PageReplace
  <2>1. env' = env /\ page.pc = "replace" /\ page'.pc = "restart"
    BY <1>0, <1>2 DEF PageReplace, PageInv
  <2>2. UNCHANGED <<files, pgdata, up, init, pg, redis, proxy, board>>
    BY <1>2 DEF PageReplace
  <2> QED
    BY <2>1, <2>2 DEF StageInv, PageInv, BoardInv, InitInv, FileInv, DatabaseInv, LoginInv, Composing
<1>3. CASE PageRestart
  <2>1. page.pc = "restart" /\ page'.pc = "idle"
    BY <1>0, <1>3 DEF PageRestart
  <2>2. UNCHANGED <<env, files, pgdata, up, init, pg, redis, board>>
    BY <1>3 DEF PageRestart
  <2>3. init.pc = "completed" /\ pg = "running" /\ env["redis"] # 0
    <3>1. "redis" \in Secrets
      BY DEF Secrets
    <3> QED
      BY <2>1, <3>1 DEF StageInv, InitInv, DatabaseInv
  <2>4. StageInv' /\ PageInv' /\ BoardInv' /\ InitInv' /\ FileInv' /\ DatabaseInv'
    BY <2>1, <2>2 DEF StageInv, PageInv, BoardInv, InitInv, FileInv, DatabaseInv, Composing
  <2>5. LoginInv'
    BY <1>3, <2>2, <2>3, BootsAuthenticated DEF PageRestart, LoginInv
  <2> QED
    BY <2>4, <2>5
<1> QED
  BY <1>1, <1>2, <1>3

LEMMA BoardQuiet ==
  ASSUME TypeOK, TypeOK', Quiet, overlaps' = {},
         BoardOpen \/ BoardTruncate \/ BoardSave \/ BoardQuit
  PROVE  Quiet'
<1> USE DEF Quiet
<1>0. /\ board \in [pc : {"idle", "secrets", "torn", "keys", "torn again"}, lines : Dict]
      /\ init.pc \in InitStages
  BY DEF TypeOK
<1>s. "redis" \in Secrets /\ "postgres" \in Secrets
  BY DEF Secrets
<1>1. CASE BoardOpen
  <2>1. ~Composing /\ page.pc = "idle"
    BY <1>1, BoardAlone
  <2>2. board' = [pc |-> "secrets", lines |-> Completed(env)]
    BY <1>1 DEF BoardOpen
  <2>3. UNCHANGED <<env, files, pgdata, up, init, pg, redis, proxy, page>>
    BY <1>1 DEF BoardOpen, BoardOnly
  <2>4. BoardInv'
    BY <2>2, <2>3, CompletedReal DEF BoardInv
  <2>5. StageInv'
    BY <2>1, <2>2, <2>3 DEF StageInv, Composing
  <2>6. PageInv' /\ InitInv' /\ FileInv' /\ DatabaseInv' /\ LoginInv'
    BY <2>3 DEF PageInv, InitInv, FileInv, DatabaseInv, LoginInv
  <2> QED
    BY <2>4, <2>5, <2>6
<1>2. ~BoardTruncate
  <2>1. SUFFICES ASSUME BoardTruncate PROVE FALSE
    OBVIOUS
  <2>2. {"torn"} = {}
    BY <2>1, Alone DEF BoardTruncate
  <2> QED
    BY <2>2
<1>3. CASE BoardSave
  <2>1. /\ board.pc # "idle" /\ ~Composing /\ page.pc = "idle"
        /\ env' = board.lines /\ board'.lines = board.lines /\ board'.pc \in {"idle", "keys"}
    BY <1>0, <1>3 DEF BoardSave, StageInv
  <2>2. UNCHANGED <<files, pgdata, up, init, pg, redis, proxy, page>>
    BY <1>3 DEF BoardSave, BoardOnly
  <2>3. \A s \in Secrets : env'[s] # 0 /\ (env[s] # 0 => env'[s] = env[s])
    BY <2>1 DEF BoardInv
  <2>4. StageInv' /\ PageInv' /\ BoardInv'
    BY <2>1, <2>2, <2>3 DEF StageInv, PageInv, BoardInv, Composing
  <2>5. init.pc \notin InitRunning
    BY <2>1 DEF StageInv, Composing
  <2>6. InitInv'
    BY <1>0, <2>2, <2>3, <2>5 DEF InitInv, Waiting, InitRunning, InitStages
  <2>7. FileInv' /\ DatabaseInv' /\ LoginInv'
    <3>1. init.pc = "completed" => env["redis"] # 0 /\ env["postgres"] # 0
      BY <1>s DEF InitInv
    <3>2. init.pc # "redisfile"
      BY <2>5 DEF InitRunning, InitStages
    <3> QED
      BY <1>s, <2>2, <2>3, <3>1, <3>2 DEF FileInv, DatabaseInv, LoginInv
  <2> QED
    BY <2>4, <2>6, <2>7
<1>4. CASE BoardQuit
  <2>1. board'.pc = "idle"
    BY <1>0, <1>4 DEF BoardQuit
  <2>2. UNCHANGED <<env, files, pgdata, up, init, pg, redis, proxy, page>>
    BY <1>4 DEF BoardQuit, BoardOnly
  <2> QED
    BY <2>1, <2>2 DEF StageInv, PageInv, BoardInv, InitInv, FileInv, DatabaseInv, LoginInv, Composing
<1> QED
  BY <1>1, <1>2, <1>3, <1>4

\* No sequence of steps that do not overlap leaves the invariant: `overlaps`
\* only grows, so a step that ends without one began without one.
THEOREM QuietInvariance == Spec => [](TypeOK /\ QuietInv)
<1>1. Init => QuietInv
  BY DEF Init, QuietInv, Quiet, StageInv, PageInv, BoardInv, InitInv, Waiting, FileInv, DatabaseInv,
     LoginInv, InitRunning, InitStages, Composing
<1>2. TypeOK /\ TypeOK' /\ QuietInv /\ [Next]_vars => QuietInv'
  <2> SUFFICES ASSUME TypeOK, TypeOK', QuietInv, [Next]_vars, overlaps' = {}
               PROVE  Quiet'
    BY DEF QuietInv
  <2>1. Quiet
    BY OverlapsGrow DEF QuietInv
  <2>2. CASE UNCHANGED vars
    BY <2>1, <2>2 DEF vars, Quiet, StageInv, PageInv, BoardInv, InitInv, FileInv, DatabaseInv, LoginInv, Composing
  <2> QED
    BY <2>1, <2>2, EnvInitQuiet, ComposeQuiet, StackQuiet, PageQuiet, BoardQuiet DEF Next
<1> QED
  BY <1>1, <1>2, TypeCorrect, PTL DEF Spec

-----------------------------------------------------------------------------
(* What it implies. *)

\* Once env-init has completed, the secret files agree with `.env`, however
\* often it died between its writes (FileInv, StageInv).
THEOREM FilesAgree == Spec => []FilesFollowEnv
<1>1. TypeOK /\ QuietInv => FilesFollowEnv
  BY DEF QuietInv, Quiet, StageInv, FileInv, FilesFollowEnv, FileNames
<1> QED
  BY <1>1, QuietInvariance, PTL

\* No run of env-init, onboard.py or the page loses the password that
\* postgres-data was initialised with, as long as they do not overlap.
THEOREM PasswordSafe == Spec => []PasswordKept
<1>1. TypeOK /\ QuietInv => PasswordKept
  BY DEF QuietInv, Quiet, DatabaseInv, PasswordKept, PasswordAlwaysKept
<1> QED
  BY <1>1, QuietInvariance, PTL

\* A running proxy has the passwords of the database and of the running redis,
\* whoever started it last.
THEOREM ProxySafe == Spec => []ProxyAuthenticated
<1>1. TypeOK /\ QuietInv => ProxyAuthenticated
  BY DEF QuietInv, Quiet, DatabaseInv, LoginInv, ProxyAuthenticated, ProxyAlwaysAuthenticated
<1> QED
  BY <1>1, QuietInvariance, PTL

\* The safety half of UpFinishes: without overlaps, `docker compose up` fails
\* only with env-init, never at redis' health check.
THEOREM UpFailsWithInit == Spec => [](overlaps = {} /\ up = "failed" => init.pc = "failed")
<1>1. TypeOK /\ QuietInv => (overlaps = {} /\ up = "failed" => init.pc = "failed")
  BY DEF QuietInv, Quiet, StageInv
<1> QED
  BY <1>1, QuietInvariance, PTL

=============================================================================

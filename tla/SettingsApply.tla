--------------------------- MODULE SettingsApply ---------------------------
(***************************************************************************)
(* POST /api/apply of the settings page (fork/settings_ui.py) against the  *)
(* proxy container (fork/docker-entrypoint.sh, fork/render.py).            *)
(*                                                                         *)
(* ThreadingHTTPServer gives every request a thread.  A thread checks the  *)
(* bearer token against .env, takes App._write_lock, reads .env, replaces  *)
(* it, restarts the proxy through the Docker socket, releases the lock,    *)
(* and polls the proxy until it is ready or a deadline passes.  The proxy  *)
(* reads .env three times per start: env_exports, render-config.load_env,  *)
(* and load_env again for the generated routes.                            *)
(*                                                                         *)
(* The file is modelled as the variables its readers see; EnvFile models   *)
(* its lines.                                                              *)
(***************************************************************************)
EXTENDS EnvUpdates

CONSTANTS
  NoThread,   \* App._write_lock is free
  MaxCrashes  \* how often the page or the proxy may die (bounds the model)

VARIABLES
  file,      \* .env: variable -> value
  version,   \* how many times .env was replaced; names its contents
  lock,      \* the thread inside `with self._write_lock`
  pc,        \* pc[r]: where thread r is
  update,    \* update[r]: the body of request r
  token,     \* token[r]: the bearer token of request r
  buffer,    \* buffer[r]: the lines write_env computed from what it read
  landed,    \* landed[r]: the version thread r's os.replace created, 0 if none
  status,    \* status[r]: what r was answered
  seen,      \* seen[r]: the versions the proxy served when r saw it ready
  proxy,     \* the proxy container
  crashes    \* crashes so far

vars == <<file, version, lock, pc, update, token, buffer, landed, status, seen,
          proxy, crashes>>

\* The promise EnvStore tracks, for a thread at the given stage: "committed"
\* from the rename on, "closed" once answered.
PhaseOf(stage) ==
  IF stage = "idle" THEN "idle"
  ELSE IF stage \in {"restart", "start", "report"} THEN "committed"
  ELSE IF stage = "done" THEN "closed"
  ELSE "open"

Store == INSTANCE EnvStore WITH phase <- [r \in Requests |-> PhaseOf(pc[r])]

ASSUME ThreadAssumption == NoThread \notin Requests
ASSUME CrashAssumption == MaxCrashes \in Nat

Stages == {"idle", "authorize", "lock", "read", "replace", "restart", "start",
           "report", "done"}

\* The versions of .env the three reads of one start returned.
Served == [exported : Nat, rendered : Nat, routed : Nat]
NothingServed == [exported |-> 0, rendered |-> 0, routed |-> 0]

ProxyPhases == {"boot", "exported", "rendered", "routed", "ready", "exited"}

Init ==
  /\ file \in [Vars -> Values]
  /\ version = 0
  /\ lock = NoThread
  /\ pc     = [r \in Requests |-> "idle"]
  /\ update = [r \in Requests |-> NoUpdate]
  /\ token  = [r \in Requests |-> NoValue]
  /\ buffer = [r \in Requests |-> file]
  /\ landed = [r \in Requests |-> 0]
  /\ status = [r \in Requests |-> "none"]
  /\ seen   = [r \in Requests |-> NothingServed]
  /\ proxy  = [phase |-> "ready", reads |-> NothingServed]
  /\ crashes = 0

-----------------------------------------------------------------------------
(* The request thread. *)

Goto(r, stage) == pc' = [pc EXCEPT ![r] = stage]

Answer(r, s) ==
  /\ Goto(r, "done")
  /\ status' = [status EXCEPT ![r] = s]

\* do_POST answers a ValueError 400 and any other exception 500, wherever in the
\* request it is raised: 400 does not say that the file is as it was.
FailureAnswers == {"400", "500"}

\* A client's POST reaches do_POST in a thread of its own.
Receive(r, u, t) ==
  /\ pc[r] = "idle"
  /\ Goto(r, "authorize")
  /\ update' = [update EXCEPT ![r] = u]
  /\ token'  = [token EXCEPT ![r] = t]
  /\ UNCHANGED <<file, version, lock, buffer, landed, status, seen, proxy, crashes>>

Authorized(t) == file[MasterKey] # NoValue /\ t = file[MasterKey]

\* _guard: .env is read afresh for every request.
Authorize(r) ==
  /\ pc[r] = "authorize"
  /\ \/ Authorized(token[r]) /\ Goto(r, "lock") /\ UNCHANGED status
     \/ ~Authorized(token[r]) /\ Answer(r, "401")
  /\ UNCHANGED <<file, version, lock, update, token, buffer, landed, seen, proxy, crashes>>

\* Mutant: write_env and restart outside the lock.
AcquireUnlocked(r) ==
  /\ pc[r] = "lock"
  /\ lock' = r
  /\ Goto(r, "read")
  /\ UNCHANGED <<file, version, update, token, buffer, landed, status, seen, proxy, crashes>>

Acquire(r) ==
  /\ pc[r] = "lock"
  /\ lock = NoThread
  /\ lock' = r
  /\ Goto(r, "read")
  /\ UNCHANGED <<file, version, update, token, buffer, landed, status, seen, proxy, crashes>>

\* Mutant: acquire() and release() instead of `with`, so an exception keeps the lock.
RejectHoldingLock(r) ==
  /\ pc[r] = "read"
  /\ ~Valid(update[r])
  /\ Answer(r, "400")
  /\ UNCHANGED <<file, version, lock, update, token, buffer, landed, seen, proxy, crashes>>

\* validate() raises ValueError before the file is opened.
Reject(r) ==
  /\ pc[r] = "read"
  /\ ~Valid(update[r])
  /\ lock' = NoThread
  /\ Answer(r, "400")
  /\ UNCHANGED <<file, version, update, token, buffer, landed, seen, proxy, crashes>>

\* write_env up to the rename: the new text is computed from the lines read now.
ReadLines(r) ==
  /\ pc[r] = "read"
  /\ Valid(update[r])
  /\ buffer' = [buffer EXCEPT ![r] = Merge(update[r], file)]
  /\ Goto(r, "replace")
  /\ UNCHANGED <<file, version, lock, update, token, landed, status, seen, proxy, crashes>>

Replace(r) ==
  /\ pc[r] = "replace"
  /\ file' = buffer[r]
  /\ version' = version + 1
  /\ landed' = [landed EXCEPT ![r] = version + 1]
  /\ Goto(r, "restart")
  /\ UNCHANGED <<lock, update, token, buffer, status, seen, proxy, crashes>>

\* Mutant: .env is opened for writing itself, so a failed write loses its lines.
WriteFailsInPlace(r) ==
  /\ pc[r] = "replace"
  /\ lock' = NoThread
  /\ file' = [file EXCEPT ![MasterKey] = NoValue]
  /\ Answer(r, "500")
  /\ UNCHANGED <<version, update, token, buffer, landed, seen, proxy, crashes>>

\* Reading .env raises, an undecodable line a ValueError; or mkstemp, the write,
\* chmod, chown or the rename does, and the temporary file is unlinked.
WriteFails(r) ==
  /\ \/ /\ pc[r] = "read"
        /\ Valid(update[r])
        /\ \E s \in FailureAnswers : Answer(r, s)
     \/ /\ pc[r] = "replace"
        /\ Answer(r, "500")
  /\ lock' = NoThread
  /\ UNCHANGED <<file, version, update, token, buffer, landed, seen, proxy, crashes>>

\* docker_restart: the daemon stops the container first ...
StopProxy(r) ==
  /\ pc[r] = "restart"
  /\ proxy' = [proxy EXCEPT !.phase = "exited"]
  /\ Goto(r, "start")
  /\ UNCHANGED <<file, version, lock, update, token, buffer, landed, status, seen, crashes>>

\* ... then starts it and replies 204; leaving the with-block frees the lock.
StartProxy(r) ==
  /\ pc[r] = "start"
  /\ proxy' = [proxy EXCEPT !.phase = "boot"]
  /\ lock' = NoThread
  /\ Goto(r, "report")
  /\ UNCHANGED <<file, version, update, token, buffer, landed, status, seen, crashes>>

\* Mutant: the daemon's status code is not looked at.
RestartFailsUnnoticed(r) ==
  /\ pc[r] \in {"restart", "start"}
  /\ lock' = NoThread
  /\ Goto(r, "report")
  /\ UNCHANGED <<file, version, update, token, buffer, landed, status, seen, proxy, crashes>>

\* Any other reply, or none within the socket's timeout, raises: 500.  The
\* container is as the daemon left it, or started after the client gave up.
RestartFails(r) ==
  /\ pc[r] \in {"restart", "start"}
  /\ lock' = NoThread
  /\ Answer(r, "500")
  /\ \/ UNCHANGED proxy
     \/ pc[r] = "start" /\ proxy' = [proxy EXCEPT !.phase = "boot"]
  /\ UNCHANGED <<file, version, update, token, buffer, landed, seen, crashes>>

\* proxy_status: a readiness poll succeeds ...
SeeReady(r) ==
  /\ pc[r] = "report"
  /\ proxy.phase = "ready"
  /\ seen' = [seen EXCEPT ![r] = proxy.reads]
  /\ Answer(r, "ready")
  /\ UNCHANGED <<file, version, lock, update, token, buffer, landed, proxy, crashes>>

\* After the restart: .env cannot be read for the master key, an http.client
\* exception leaves the readiness poll or the log request, or the container's
\* inspect body is not JSON.  proxy_status catches OSError only, so the request
\* fails although its keys are in the file and the proxy was restarted.
ReportFails(r) ==
  /\ pc[r] = "report"
  /\ \E s \in FailureAnswers : Answer(r, s)
  /\ UNCHANGED <<file, version, lock, update, token, buffer, landed, seen, proxy, crashes>>

\* ... or RESTART_WAIT_SECONDS pass without one.
GiveUp(r) ==
  /\ pc[r] = "report"
  /\ proxy.phase # "ready"
  /\ Answer(r, "not_ready")
  /\ UNCHANGED <<file, version, lock, update, token, buffer, landed, seen, proxy, crashes>>

-----------------------------------------------------------------------------
(* The proxy container: docker-entrypoint.sh at every start. *)

Boot(from, to, read) ==
  /\ proxy.phase = from
  /\ proxy' = [phase |-> to, reads |-> read]
  /\ UNCHANGED <<file, version, lock, pc, update, token, buffer, landed, status,
                 seen, crashes>>

\* Mutant: no export at start; the environment stays as compose captured it.
BootExportsNothing == Boot("boot", "exported", proxy.reads)

\* eval "$(env_exports.py)"
BootExports == Boot("boot", "exported", [proxy.reads EXCEPT !.exported = version])

\* render-config.render: which deployments stay in config.yaml
BootRender == Boot("exported", "rendered", [proxy.reads EXCEPT !.rendered = version])

\* fork/render.render: load_env again, for the generated routes
BootRoutes == Boot("rendered", "routed", [proxy.reads EXCEPT !.routed = version])

\* exec LiteLLM, which answers /health/readiness
BootListen == Boot("routed", "ready", proxy.reads)

\* The proxy's process dies; `restart: unless-stopped` starts it again.
ProxyCrash ==
  /\ proxy.phase # "exited"
  /\ crashes < MaxCrashes
  /\ crashes' = crashes + 1
  /\ proxy' = [proxy EXCEPT !.phase = "boot"]
  /\ UNCHANGED <<file, version, lock, pc, update, token, buffer, landed, status, seen>>

Idle(r) == pc[r] \in {"idle", "done"}

\* The page's process dies with all its threads; a restarted one holds no lock.
\* A restart the daemon had begun, it may still finish.
PageCrash ==
  /\ crashes < MaxCrashes
  /\ crashes' = crashes + 1
  /\ lock' = NoThread
  /\ pc' = [r \in Requests |-> IF Idle(r) THEN pc[r] ELSE "done"]
  /\ status' = [r \in Requests |-> IF Idle(r) THEN status[r] ELSE "lost"]
  /\ \/ UNCHANGED proxy
     \/ /\ \E r \in Requests : pc[r] = "start"
        /\ proxy' = [proxy EXCEPT !.phase = "boot"]
  /\ UNCHANGED <<file, version, update, token, buffer, landed, seen>>

-----------------------------------------------------------------------------

Thread(r) ==
  \/ Authorize(r) \/ Acquire(r) \/ Reject(r) \/ ReadLines(r) \/ Replace(r)
  \/ WriteFails(r) \/ StopProxy(r) \/ StartProxy(r) \/ RestartFails(r)
  \/ SeeReady(r) \/ ReportFails(r) \/ GiveUp(r)

Proxy == BootExports \/ BootRender \/ BootRoutes \/ BootListen

Next ==
  \/ \E r \in Requests, u \in Updates, t \in Values : Receive(r, u, t)
  \/ \E r \in Requests : Thread(r)
  \/ Proxy
  \/ ProxyCrash
  \/ PageCrash

\* A started thread and a started boot go on; clients and crashes are free.
Fairness == /\ \A r \in Requests : WF_vars(Thread(r))
            /\ WF_vars(Proxy)

Spec     == Init /\ [][Next]_vars
FairSpec == Spec /\ Fairness

-----------------------------------------------------------------------------
(* Properties. *)

TypeOK ==
  /\ file \in [Vars -> Values]
  /\ version \in Nat
  /\ lock \in Requests \union {NoThread}
  /\ pc \in [Requests -> Stages]
  /\ update \in [Requests -> Updates \union {NoUpdate}]
  /\ token \in [Requests -> Values]
  /\ buffer \in [Requests -> [Vars -> Values]]
  /\ landed \in [Requests -> Nat]
  /\ status \in [Requests -> Store!Statuses]
  /\ seen \in [Requests -> Served]
  /\ proxy \in [phase : ProxyPhases, reads : Served]
  /\ crashes \in Nat

\* Implementation of EnvStore: threads that interleave read, rename, restart
\* and crash still change .env as if each accepted apply were one atomic step
\* (App.apply holds the lock across write_env), a failed write leaves it alone,
\* and the answers mean what EnvStore says: 200 changed the file once and 401
\* did not change it.  400 and 500 leave open whether it was changed.
ImplementsStore == Store!StoreSpec

\* No lost update: the value of an apply whose os.replace ran is in the file
\* as long as no other apply that replaced the file carried that variable.
LandedUpdatesKept ==
  \A r \in Requests :
    landed[r] # 0 =>
      \A v \in DOMAIN update[r] :
        \/ file[v] = update[r][v]
        \/ \E q \in Requests \ {r} : landed[q] > landed[r] /\ v \in DOMAIN update[q]

\* When nobody is inside an apply and the last apply that replaced the file
\* was not answered 500 or lost, a ready proxy serves the file as it is, and
\* all three reads of its start agree: key exported, deployment rendered and
\* route generated come from one version of .env.
ReadyServesCurrentFile ==
  (/\ lock = NoThread
   /\ proxy.phase = "ready"
   /\ \A r \in Requests :
        landed[r] = version /\ version > 0 => status[r] \notin {"500", "lost"})
  => proxy.reads = [exported |-> version, rendered |-> version, routed |-> version]

\* "ready" is never reported about the process the restart replaced: what the
\* polled proxy had read at its start includes the request's own keys.
ReadyMeansApplied ==
  \A r \in Requests :
    status[r] = "ready" =>
      /\ seen[r].exported >= landed[r]
      /\ seen[r].rendered >= landed[r]
      /\ seen[r].routed >= landed[r]

\* Every POST is answered, or lost with the page's process: no thread waits
\* for the lock, the daemon or the proxy forever.
EveryApplyAnswered == \A r \in Requests : pc[r] = "authorize" ~> pc[r] = "done"

\* A request that got past the restart is served in the end: the proxy comes
\* up having read its keys in all three reads, unless a later restart left
\* the container stopped.
AppliedEventuallyServed ==
  \A r \in Requests :
    pc[r] = "report" ~>
      \/ proxy.phase = "exited"
      \/ /\ proxy.phase = "ready"
         /\ \A f \in {"exported", "rendered", "routed"} : proxy.reads[f] >= landed[r]

=============================================================================

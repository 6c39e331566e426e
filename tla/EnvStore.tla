------------------------------ MODULE EnvStore ------------------------------
(***************************************************************************)
(* What the settings page promises about `.env`, with no thread, lock or   *)
(* container in sight: every request is answered at most once, an accepted *)
(* request changes exactly its own variables in one atomic step on the     *)
(* file as it is at that moment, and nothing else changes it.  200 is said *)
(* of an accepted request and 401 of a refused one; a failure, 400 or 500, *)
(* may follow either.  SettingsApply implements this module.               *)
(***************************************************************************)
EXTENDS EnvUpdates

VARIABLES
  file,    \* .env, as its readers see it: variable -> value
  update,  \* update[r]: the body of request r
  phase,   \* phase[r]: how far the promise to r has got
  status   \* status[r]: what r was answered

storeVars == <<file, update, phase, status>>

Phases   == {"idle", "open", "committed", "closed"}
Statuses == {"none", "400", "401", "500", "ready", "not_ready", "lost"}

StoreInit ==
  /\ file \in [Vars -> Values]
  /\ update = [r \in Requests |-> NoUpdate]
  /\ phase  = [r \in Requests |-> "idle"]
  /\ status = [r \in Requests |-> "none"]

Receive(r, u) ==
  /\ phase[r] = "idle"
  /\ update' = [update EXCEPT ![r] = u]
  /\ phase'  = [phase EXCEPT ![r] = "open"]
  /\ UNCHANGED <<file, status>>

Commit(r) ==
  /\ phase[r] = "open"
  /\ Valid(update[r])
  /\ file'  = Merge(update[r], file)
  /\ phase' = [phase EXCEPT ![r] = "committed"]
  /\ UNCHANGED <<update, status>>

\* Answered with the file as it was: no token, an invalid body, a failed write.
Refuse(r, s) ==
  /\ phase[r] = "open"
  /\ s \in {"400", "401", "500"}
  /\ phase'  = [phase EXCEPT ![r] = "closed"]
  /\ status' = [status EXCEPT ![r] = s]
  /\ UNCHANGED <<file, update>>

\* Answered with the change in the file: 200 with the proxy ready or not, or a
\* failure of the restart or of the report.
Acknowledge(r, s) ==
  /\ phase[r] = "committed"
  /\ s \in {"ready", "not_ready", "400", "500"}
  /\ phase'  = [phase EXCEPT ![r] = "closed"]
  /\ status' = [status EXCEPT ![r] = s]
  /\ UNCHANGED <<file, update>>

\* The page's process dies: every request under way loses its answer.
Abort ==
  /\ phase'  = [r \in Requests |-> IF phase[r] = "idle" THEN "idle" ELSE "closed"]
  /\ status' = [r \in Requests |->
                  IF phase[r] \in {"open", "committed"} THEN "lost" ELSE status[r]]
  /\ UNCHANGED <<file, update>>

StoreNext ==
  \/ \E r \in Requests, u \in Updates : Receive(r, u)
  \/ \E r \in Requests : Commit(r)
  \/ \E r \in Requests, s \in Statuses : Refuse(r, s) \/ Acknowledge(r, s)
  \/ Abort

StoreSpec == StoreInit /\ [][StoreNext]_storeVars

=============================================================================

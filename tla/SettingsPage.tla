---------------------------- MODULE SettingsPage ----------------------------
(***************************************************************************)
(* The script of settings_ui.html: one open page over the server, with its *)
(* requests under way, their answers in any order, and the user going on   *)
(* in the meantime.  What the server does with an apply in between is      *)
(* SettingsApply's; here it is one step.                                   *)
(***************************************************************************)
EXTENDS KeyCheck

CONSTANTS
  Default,        \* .env to start with
  Typed,          \* Typed[v]: what the user may type into v's input
  MaxActs         \* what the user and the outside do (bound)

ASSUME PageAssumption ==
  /\ Default \in [Vars -> Values]
  /\ \A v \in Vars : Typed[v] \subseteq Values
  /\ IsInjective(Slots)

VARIABLES
  session,    \* "app", or "login" after a 401
  keyValid,   \* the server takes the master key of the page
  rows,       \* `providers`: [env, check] of the last list received
  drawn,      \* how often the table was drawn; its rows are new objects each time
  field,      \* what was done to an input since the table was drawn
  dirty,      \* the edits an apply would send
  apply,      \* the apply under way
  loads,      \* loads[by]: a GET /api/providers under way
  acts,       \* how much the user and the outside may still do
  meant       \* what the user has edited a variable to, outside an apply

vars == <<env, cache, requests, session, keyValid, rows, drawn, field, dirty, apply, loads, acts, meant>>
page == <<session, rows, drawn, field, dirty, apply, meant>>

Idle   == [pc |-> "idle"]
None   == [pc |-> "none"]
Listed(e) == [env |-> e, check |-> [p \in Providers |-> Cached(p, e)]]

Init ==
  /\ env = Default /\ cache = [k \in {} |-> "ok"]
  /\ requests = [i \in ToSet(Slots) |-> Free]
  /\ session = "app" /\ keyValid = TRUE
  /\ rows = Listed(env) /\ drawn = 1
  /\ field = [v \in Vars |-> "blank"] /\ dirty = [v \in {} |-> Empty]
  /\ apply = Idle /\ loads = [by \in {"page", "apply"} |-> None]
  /\ acts = MaxActs /\ meant = dirty

Without(f, v) == [w \in DOMAIN f \ {v} |-> f[w]]
With(f, v, x) == [w \in DOMAIN f \union {v} |-> IF w = v THEN x ELSE f[w]]

Act == session = "app" /\ acts > 0 /\ acts' = acts - 1

-----------------------------------------------------------------------------
(* The inputs. *)

\* An edit while an apply is under way is forgotten with the ones it sends.
Edited(v, x) == meant' = IF apply.pc = "sent" THEN Without(meant, v) ELSE With(meant, v, x)

\* The input listener; an api_base is compared with the one listed.
Type(v, x) ==
  /\ Act
  /\ IF v \in {KeyVar(p) : p \in Providers}
     THEN /\ x # Empty /\ dirty' = With(dirty, v, x)
          /\ field' = [field EXCEPT ![v] = IF @ = "clearing" THEN @ ELSE "typed"]
     ELSE /\ dirty' = IF x = rows.env[v] THEN Without(dirty, v) ELSE With(dirty, v, x)
          /\ field' = [field EXCEPT ![v] = "typed"]
  /\ IF v \in DOMAIN dirty' THEN Edited(v, x) ELSE meant' = Without(meant, v)
  /\ UNCHANGED <<env, cache, requests, session, keyValid, rows, drawn, apply, loads>>

\* A key typed and deleted again.
Undo(v) ==
  /\ Act /\ v \in {KeyVar(p) : p \in Providers} /\ field[v] = "typed"
  /\ dirty' = Without(dirty, v) /\ field' = [field EXCEPT ![v] = "undone"]
  /\ meant' = Without(meant, v)
  /\ UNCHANGED <<env, cache, requests, session, keyValid, rows, drawn, apply, loads>>

\* The button next to a key that is set.
Clear(v) ==
  /\ Act /\ v \in {KeyVar(p) : p \in Providers} /\ rows.env[v] # Empty
  /\ dirty' = With(dirty, v, Empty) /\ field' = [field EXCEPT ![v] = "clearing"]
  /\ Edited(v, Empty)
  /\ UNCHANGED <<env, cache, requests, session, keyValid, rows, drawn, apply, loads>>

-----------------------------------------------------------------------------
(* Checks. *)

Request(p, by) ==
  [pc |-> "sent", p |-> p, by |-> by, row |-> drawn,
   value |-> IF KeyVar(p) \in DOMAIN dirty THEN dirty[KeyVar(p)] ELSE Stored]

Busy(by) == {i \in DOMAIN requests : requests[i].pc # "free" /\ requests[i].by = by}

\* check(), one call for each provider of P.
Send(P, by) ==
  LET providers == SetToSeq(P)
      free == SelectSeq(Slots, LAMBDA i : requests[i] = Free)
  IN  /\ Len(free) >= Len(providers)
      /\ requests' = [i \in DOMAIN requests |->
           IF \E k \in DOMAIN providers : free[k] = i
           THEN Request(providers[CHOOSE k \in DOMAIN providers : free[k] = i], by) ELSE requests[i]]

\* The button of a row is disabled while its check is under way.
Check(p) ==
  /\ Act
  /\ \A i \in Busy("row") : requests[i].p # p \/ requests[i].row # drawn
  /\ Send({p}, "row")
  /\ UNCHANGED <<env, cache, session, keyValid, rows, drawn, field, dirty, apply, loads, meant>>

CheckAll ==
  /\ Act /\ Busy("all") = {}
  /\ Send(Providers, "all")
  /\ UNCHANGED <<env, cache, session, keyValid, rows, drawn, field, dirty, apply, loads, meant>>

\* A mutant of Checked: the answer goes to the row there is now.
CheckedAnyRow(i) ==
  /\ requests[i].pc = "answer"
  /\ requests' = [requests EXCEPT ![i] = Free]
  /\ rows' = IF requests[i].res.status = "error" THEN rows
             ELSE [rows EXCEPT !.check[requests[i].p] = requests[i].res]
  /\ UNCHANGED <<env, cache, session, keyValid, drawn, field, dirty, apply, loads, acts, meant>>

\* The answer is for the row object and the cell of the click.
Checked(i) ==
  /\ requests[i].pc = "answer"
  /\ requests' = [requests EXCEPT ![i] = Free]
  /\ rows' = IF requests[i].row # drawn \/ requests[i].res.status = "error" THEN rows
             ELSE [rows EXCEPT !.check[requests[i].p] = requests[i].res]
  /\ UNCHANGED <<env, cache, session, keyValid, drawn, field, dirty, apply, loads, acts, meant>>

-----------------------------------------------------------------------------
(* Lists and applies. *)

Reload ==
  /\ Act /\ loads["page"] = None
  /\ loads' = [loads EXCEPT !["page"] = [pc |-> "sent"]]
  /\ UNCHANGED <<env, cache, requests, session, keyValid, rows, drawn, field, dirty, apply, meant>>

\* list_providers
List(by) ==
  /\ loads[by].pc = "sent"
  /\ loads' = [loads EXCEPT ![by] = [pc |-> "answer", rows |-> Listed(env)]]
  /\ UNCHANGED <<env, cache, requests, keyValid, acts, page>>

\* The edits that a new table does not show.
Held == DOMAIN dirty \union IF apply.pc = "sent" THEN DOMAIN apply.values ELSE {}

\* load(), and checkAll after an apply's; render() leaves dirty alone.
Loaded(by) ==
  /\ loads[by].pc = "answer"
  /\ loads' = [loads EXCEPT ![by] = None]
  /\ rows' = loads[by].rows /\ drawn' = drawn + 1
  /\ field' = [v \in Vars |-> IF v \in Held THEN "held" ELSE "blank"]
  /\ session' = IF by = "page" THEN "app" ELSE session
  /\ apply' = IF by = "apply" THEN [pc |-> "loaded"] ELSE apply
  /\ UNCHANGED <<env, cache, requests, keyValid, dirty, acts, meant>>

CheckApplied ==
  /\ apply.pc = "loaded"
  /\ apply' = [pc |-> "checking"]
  /\ Send(Providers, "apply")
  /\ UNCHANGED <<env, cache, session, keyValid, rows, drawn, field, dirty, loads, acts, meant>>

\* The button is enabled again.
ApplyEnds ==
  /\ apply.pc = "checking" /\ Busy("apply") = {}
  /\ apply' = Idle
  /\ UNCHANGED <<env, cache, requests, session, keyValid, rows, drawn, field, dirty, loads, acts, meant>>

Apply ==
  /\ Act /\ apply = Idle /\ dirty # [v \in {} |-> Empty]
  /\ apply' = [pc |-> "sent", values |-> dirty, res |-> "pending"]
  /\ UNCHANGED <<env, cache, requests, session, keyValid, rows, drawn, field, dirty, loads, meant>>

\* App.apply: it may fail before the file is written or after, when the proxy
\* does not restart.
ServeApply ==
  /\ apply.pc = "sent" /\ apply.res = "pending"
  /\ \E ok, written \in BOOLEAN :
       /\ ok => written
       /\ env' = IF written THEN [v \in Vars |-> IF v \in DOMAIN apply.values THEN apply.values[v] ELSE env[v]]
                 ELSE env
       /\ apply' = [apply EXCEPT !.res = IF ok THEN "ok" ELSE "failed"]
  /\ UNCHANGED <<cache, requests, session, keyValid, rows, drawn, field, dirty, loads, acts, meant>>

\* A mutant of Applied: the edits go whatever the answer.
AppliedAnyway ==
  /\ apply.pc = "sent" /\ apply.res # "pending"
  /\ dirty' = [v \in {} |-> Empty]
  /\ IF apply.res = "ok"
     THEN apply' = [pc |-> "loading"] /\ loads' = [loads EXCEPT !["apply"] = [pc |-> "sent"]]
     ELSE apply' = Idle /\ UNCHANGED loads
  /\ UNCHANGED <<env, cache, requests, session, keyValid, rows, drawn, field, acts, meant>>

\* All of dirty goes, what was edited since the click too.
Applied ==
  /\ apply.pc = "sent" /\ apply.res # "pending"
  /\ IF apply.res = "ok"
     THEN /\ dirty' = [v \in {} |-> Empty]
          /\ apply' = [pc |-> "loading"] /\ loads' = [loads EXCEPT !["apply"] = [pc |-> "sent"]]
     ELSE apply' = Idle /\ UNCHANGED <<dirty, loads>>
  /\ UNCHANGED <<env, cache, requests, session, keyValid, rows, drawn, field, acts, meant>>

-----------------------------------------------------------------------------
(* The login, and the server's end. *)

\* The operator edits LITELLM_MASTER_KEY in .env.
NewMaster ==
  /\ acts > 0 /\ acts' = acts - 1
  /\ keyValid /\ keyValid' = FALSE
  /\ UNCHANGED <<env, cache, requests, loads, page>>

\* What is under way from now on, or ends with an error: a check, a list and
\* an apply, each with its catch.
CheckError(i) ==
  requests' = [requests EXCEPT ![i] = Answer(requests[i], "error", <<>>)]
\* A mutant of ListError: an apply's own list has no catch.
ListErrorUncaught(by) == loads' = [loads EXCEPT ![by] = None] /\ UNCHANGED apply

ListError(by) ==
  /\ loads' = [loads EXCEPT ![by] = None]
  /\ apply' = IF by = "apply" THEN Idle ELSE apply

\* _guard answers 401: the page logs out.
Rejected ==
  /\ ~keyValid /\ session' = "login"
  /\ \/ /\ \E i \in DOMAIN requests : requests[i].pc = "sent" /\ CheckError(i)
        /\ UNCHANGED <<apply, loads>>
     \/ /\ \E by \in DOMAIN loads : loads[by].pc = "sent" /\ ListError(by)
        /\ UNCHANGED requests
     \/ /\ apply.pc = "sent" /\ apply.res = "pending" /\ apply' = Idle
        /\ UNCHANGED <<requests, loads>>
  /\ UNCHANGED <<env, cache, keyValid, rows, drawn, field, dirty, acts, meant>>

\* The new key, and open().
Login ==
  /\ session = "login" /\ loads["page"] = None
  /\ keyValid' = TRUE /\ loads' = [loads EXCEPT !["page"] = [pc |-> "sent"]]
  /\ UNCHANGED <<env, cache, requests, acts, page>>

\* settings-ui restarts: no request under way is answered, the cache is gone.
ServerRestarts ==
  /\ acts > 0 /\ acts' = acts - 1
  /\ cache' = [k \in {} |-> "ok"]
  /\ requests' = [i \in DOMAIN requests |-> IF requests[i].pc \in {"sent", "query"}
                                  THEN Answer(requests[i], "error", <<>>) ELSE requests[i]]
  /\ loads' = [by \in DOMAIN loads |-> IF loads[by].pc = "sent" THEN None ELSE loads[by]]
  /\ apply' = IF (apply.pc = "loading" /\ loads["apply"].pc = "sent")
                 \/ (apply.pc = "sent" /\ apply.res = "pending")
              THEN Idle ELSE apply
  /\ UNCHANGED <<env, session, keyValid, rows, drawn, field, dirty, meant>>

\* A request's own thread.
Thread(i) ==
  /\ (keyValid /\ Handle(i)) \/ Attempt(i)
  /\ UNCHANGED <<keyValid, loads, acts, page>>

Answers == (keyValid /\ ServeApply) \/ Applied \/ CheckApplied \/ ApplyEnds
Lists(by) == (keyValid /\ List(by)) \/ Loaded(by)
Checks(i) == Thread(i) \/ Checked(i)

User ==
  \/ \E v \in Vars : (\E x \in Typed[v] : Type(v, x)) \/ Undo(v) \/ Clear(v)
  \/ (\E p \in Providers : Check(p)) \/ CheckAll \/ Reload \/ Apply

System ==
  \/ Answers \/ (\E by \in DOMAIN loads : Lists(by))
  \/ (\E i \in ToSet(Slots) : Checks(i)) \/ Rejected

Next == System \/ User \/ NewMaster \/ Login \/ ServerRestarts

\* As long as a thread of the server or a callback of the page can go on, one
\* of them does: urlopen has a timeout.  Neither the user nor the operator has
\* to do anything.
Spec == Init /\ [][Next]_vars /\ WF_vars(System)

-----------------------------------------------------------------------------
(* Properties. *)

Statuses == {"none", "missing", "placeholder", "ok", "fail", "error"}

TypeOK ==
  /\ env \in [Vars -> Values] /\ rows.env \in [Vars -> Values]
  /\ DOMAIN dirty \subseteq Vars /\ \A v \in DOMAIN dirty : dirty[v] \in Values
  /\ \A p \in Providers : rows.check[p].status \in Statuses \ {"error"}
  /\ \A i \in DOMAIN requests : requests[i].pc \in {"free", "sent", "query", "answer"}
  /\ apply.pc \in {"idle", "sent", "loading", "loaded", "checking"}
  /\ apply.pc = "loading" <=> loads["apply"] # None

\* With nothing left to apply, what the user last made of a variable is in
\* .env, through reloads, logouts, failed applies and restarts: only an edit
\* made while an apply is under way can be lost.
EditsStored ==
  apply = Idle /\ DOMAIN dirty = {} => \A v \in DOMAIN meant : env[v] = meant[v]

\* A row that lists what is stored and whose inputs neither were touched nor
\* hold back an edit shows a check of just that, whichever checks of other
\* values, reloads and applies are still under way.
CheckOfStoredKey ==
  \A p \in Providers :
    /\ rows.check[p].status # "none"
    /\ \A v \in ToSet(Needed[p]) : field[v] = "blank" /\ rows.env[v] = env[v]
    => rows.check[p].about = Material(p, env)

\* Every check is answered, and the Apply button comes back, whatever the
\* providers, the restart and the session do.
EveryRequestEnds ==
  /\ \A i \in ToSet(Slots) : requests[i] # Free ~> requests[i] = Free
  /\ apply # Idle ~> apply = Idle

=============================================================================

------------------------ MODULE SettingsPage_proofs ------------------------
(***************************************************************************)
(* For any providers, values, retries and numbers of requests: what the key *)
(* check caches and reports, and which edits the page can lose.            *)
(***************************************************************************)
EXTENDS SettingsPage, FiniteSetTheorems, TLAPS

-----------------------------------------------------------------------------
(* Key checks. *)

\* A query is about a key that is neither missing nor an example.
Real(m) == ToSet(m) \intersect (Examples \union {Empty}) = {}

RequestInv ==
  /\ DOMAIN requests = ToSet(Slots)
  /\ \A i \in DOMAIN requests : requests[i].pc = "query" => Real(requests[i].material)

CheckInv == RequestInv /\ RetriedAsNeeded /\ CacheTrue

\* How a step may change the requests: a new one, an answer to one that needs
\* no query or cannot be answered, the end of one.
Quiet(i) ==
  \/ requests'[i] = requests[i]
  \/ requests'[i].pc \in {"free", "sent"}
  \/ requests'[i].pc = "answer" /\ requests'[i].error = "none"

LEMMA QuietStep ==
  ASSUME CheckInv, DOMAIN requests' = DOMAIN requests, \A i \in DOMAIN requests : Quiet(i),
         cache' = cache \/ DOMAIN cache' = {}
  PROVE  CheckInv'
<1>1. RequestInv' /\ RetriedAsNeeded'
  BY DEF CheckInv, RequestInv, RetriedAsNeeded, Quiet
<1>2. CacheTrue'
  BY DEF CheckInv, CacheTrue
<1> QED
  BY <1>1, <1>2 DEF CheckInv

\* A result is stored for the material it was queried with.
LEMMA DoneStep ==
  ASSUME CheckInv, NEW i \in DOMAIN requests, requests[i].pc = "query",
         NEW status, NEW error, Done(i, status, error),
         status = "ok" => \/ <<requests[i].p, requests[i].material>> \in Accepted
                          \/ Query[requests[i].p] \in {"masked", "keyless"},
         error \notin {"none", "rejected", "garbled"} => requests[i].attempt = HTTP_RETRIES
  PROVE  CheckInv'
<1> DEFINE r == requests[i]
           key == <<r.p, r.material>>
<1>1. Real(r.material)
  BY DEF CheckInv, RequestInv
<1>2. CacheTrue'
  <2>1. cache' = [k \in DOMAIN cache \union {key} |-> IF k = key THEN status ELSE cache[k]]
    BY DEF Done
  <2>2. ASSUME NEW k \in DOMAIN cache'
        PROVE  /\ Real(k[2])
               /\ cache'[k] = "ok" => k \in Accepted \/ Query[k[1]] \in {"masked", "keyless"}
    <3>1. CASE k = key
      BY <1>1, <2>1, <3>1
    <3>2. CASE k # key
      BY <2>1, <2>2, <3>2 DEF CheckInv, CacheTrue, Real
    <3> QED
      BY <3>1, <3>2
  <2> QED
    BY <2>2 DEF CacheTrue, Real
<1>3. requests' = [requests EXCEPT ![i] =
         [Answer(r, status, r.material) EXCEPT !.attempt = r.attempt, !.error = error]]
  BY DEF Done
<1>4. requests'[i].pc = "answer" /\ requests'[i].attempt = r.attempt /\ requests'[i].error = error
  BY <1>3 DEF Answer
<1>5. DOMAIN requests' = DOMAIN requests
  BY <1>3
<1>6. \A j \in DOMAIN requests : j # i => requests'[j] = requests[j]
  BY <1>3
<1>7. RequestInv'
  BY <1>4, <1>5, <1>6 DEF CheckInv, RequestInv
<1>8. RetriedAsNeeded'
  BY <1>4, <1>5, <1>6 DEF CheckInv, RetriedAsNeeded
<1> QED
  BY <1>2, <1>7, <1>8 DEF CheckInv

LEMMA AttemptStep ==
  ASSUME CheckInv, NEW i \in DOMAIN requests, Attempt(i)
  PROVE  CheckInv'
<1> DEFINE r == requests[i]
           more == Query[r.p] = "both" /\ r.query = 1
<1>0. r.pc = "query" /\ Real(r.material) /\ r.attempt \in 1..HTTP_RETRIES /\ HTTP_RETRIES \in Nat \ {0}
  BY KeyCheckAssumption DEF Attempt, CheckInv, RequestInv, RetriedAsNeeded
<1>1. PICK o \in Outcomes(r.p, r.material) :
        \/ o = "models" /\ more /\ Again(i, 2, 1, "none")
        \/ o = "models" /\ ~more /\ Done(i, "ok", "none")
        \/ o # "models" /\ Transient(o) /\ r.attempt < HTTP_RETRIES /\ Again(i, r.query, r.attempt + 1, o)
        \/ o # "models" /\ ~(Transient(o) /\ r.attempt < HTTP_RETRIES) /\ QueryFails(i, o)
  BY DEF Attempt
<1>2. o \in {"busy", "models", "garbled", "rejected"} /\ (o = "models" => <<r.p, r.material>> \in Accepted \/ Query[r.p] = "keyless")
  BY DEF Outcomes, Answered
<1>3. ASSUME NEW query, NEW attempt \in 1..HTTP_RETRIES, NEW error,
             attempt > 1 => error = "busy", Again(i, query, attempt, error)
      PROVE  CheckInv'
  <2>1. requests' = [requests EXCEPT ![i] = Querying(r, query, attempt, error, r.material)] /\ cache' = cache
    BY <1>3 DEF Again
  <2>2. /\ requests'[i].pc = "query" /\ requests'[i].material = r.material
        /\ requests'[i].attempt = attempt /\ requests'[i].error = error
    BY <2>1 DEF Querying
  <2>3. DOMAIN requests' = DOMAIN requests /\ \A j \in DOMAIN requests : j # i => requests'[j] = requests[j]
    BY <2>1
  <2>4. RequestInv'
    BY <1>0, <2>2, <2>3 DEF CheckInv, RequestInv
  <2>5. RetriedAsNeeded'
    BY <1>3, <2>2, <2>3 DEF CheckInv, RetriedAsNeeded
  <2> QED
    BY <2>1, <2>4, <2>5 DEF CheckInv, CacheTrue
<1>4. CASE o = "models" /\ more /\ Again(i, 2, 1, "none")
  BY <1>0, <1>3, <1>4
<1>5. CASE o = "models" /\ ~more /\ Done(i, "ok", "none")
  BY <1>0, <1>2, <1>5, DoneStep
<1>6. CASE o # "models" /\ Transient(o) /\ r.attempt < HTTP_RETRIES /\ Again(i, r.query, r.attempt + 1, o)
  <2>1. r.attempt + 1 \in 1..HTTP_RETRIES /\ o = "busy"
    BY <1>0, <1>6 DEF Transient
  <2> QED
    BY <1>3, <1>6, <2>1
<1>7. CASE o # "models" /\ ~(Transient(o) /\ r.attempt < HTTP_RETRIES) /\ QueryFails(i, o)
  <2>1. o \notin {"rejected", "garbled"} => r.attempt = HTTP_RETRIES
    BY <1>0, <1>2, <1>7 DEF Transient
  <2> DEFINE status == IF Query[r.p] = "masked" THEN "ok" ELSE "fail"
  <2>2. Done(i, status, o)
    BY <1>7 DEF QueryFails
  <2>3. status = "ok" => Query[r.p] = "masked"
    OBVIOUS
  <2> HIDE DEF status
  <2> QED
    BY <1>0, <2>1, <2>2, <2>3, DoneStep
<1> QED
  BY <1>1, <1>4, <1>5, <1>6, <1>7

LEMMA HandleStep ==
  ASSUME CheckInv, NEW i \in DOMAIN requests, Handle(i)
  PROVE  CheckInv'
<1> DEFINE r == requests[i]
           e == IF r.value = Stored THEN env ELSE [env EXCEPT ![KeyVar(r.p)] = r.value]
           m == Material(r.p, e)
<1>1. cache' = cache
  BY DEF Handle
<1>2. PICK q : requests' = [requests EXCEPT ![i] = q] /\
               \/ \E status : q = Answer(r, status, m)
               \/ Real(m) /\ q = Querying(r, 1, 1, "none", m)
  <2> DEFINE q == IF Empty \in ToSet(m) THEN Answer(r, "missing", m)
           ELSE IF ToSet(m) \intersect Examples # {} THEN Answer(r, "placeholder", m)
           ELSE IF <<r.p, m>> \in DOMAIN cache THEN Answer(r, cache[<<r.p, m>>], m)
           ELSE Querying(r, 1, 1, "none", m)
  <2>1. requests' = [requests EXCEPT ![i] = q]
    BY DEF Handle
  <2> HIDE DEF m
  <2>2. \/ \E status : q = Answer(r, status, m)
        \/ Real(m) /\ q = Querying(r, 1, 1, "none", m)
    BY DEF Real
  <2> QED
    BY <2>1, <2>2
<1> HIDE DEF m
<1>3. DOMAIN requests' = DOMAIN requests /\ \A j \in DOMAIN requests : requests'[j] = IF j = i THEN q ELSE requests[j]
  BY <1>2
<1>4. CASE \E status : q = Answer(r, status, m)
  <2>1. q.pc = "answer" /\ q.error = "none"
    BY <1>4 DEF Answer
  <2> QED
    BY <1>1, <1>3, <2>1, QuietStep DEF Quiet
<1>5. CASE Real(m) /\ q = Querying(r, 1, 1, "none", m)
  <2>1. q.pc = "query" /\ q.material = m /\ q.attempt = 1
    BY <1>5 DEF Querying
  <2>2. RequestInv'
    BY <1>3, <1>5, <2>1 DEF CheckInv, RequestInv
  <2>3. RetriedAsNeeded'
    BY <1>3, <2>1, KeyCheckAssumption DEF CheckInv, RetriedAsNeeded
  <2> QED
    BY <1>1, <2>2, <2>3 DEF CheckInv, CacheTrue
<1> QED
  BY <1>2, <1>4, <1>5

LEMMA CheckStep == CheckInv /\ [Next]_vars => CheckInv'
<1> SUFFICES ASSUME CheckInv, [Next]_vars PROVE CheckInv'
  OBVIOUS
<1>0. DOMAIN requests = ToSet(Slots)
  BY DEF CheckInv, RequestInv
<1>1. CASE UNCHANGED <<cache, requests>>
  BY <1>0, <1>1, QuietStep DEF Quiet
<1>2. ASSUME NEW P, NEW by, Send(P, by), UNCHANGED cache PROVE CheckInv'
  <2>1. DOMAIN requests' = DOMAIN requests
    BY <1>2 DEF Send
  <2>2. \A i \in DOMAIN requests : Quiet(i)
    BY <1>2 DEF Send, Request, Quiet
  <2> QED
    BY <1>2, <2>1, <2>2, QuietStep
<1>3. ASSUME NEW i \in ToSet(Slots), Thread(i) PROVE CheckInv'
  BY <1>0, <1>3, HandleStep, AttemptStep DEF Thread
<1>4. ASSUME NEW i \in ToSet(Slots), Checked(i) PROVE CheckInv'
  BY <1>0, <1>4, QuietStep DEF Checked, Quiet, Free
<1>5. CASE Rejected
  <2>1. UNCHANGED cache
    BY <1>5 DEF Rejected
  <2>2. DOMAIN requests' = DOMAIN requests
    BY <1>5 DEF Rejected, CheckError
  <2>3. \A i \in DOMAIN requests : Quiet(i)
    BY <1>5 DEF Rejected, CheckError, Answer, Quiet
  <2> QED
    BY <2>1, <2>2, <2>3, QuietStep
<1>6. CASE ServerRestarts
  <2>1. DOMAIN cache' = {} /\ DOMAIN requests' = DOMAIN requests
    BY <1>6 DEF ServerRestarts
  <2>2. \A i \in DOMAIN requests : Quiet(i)
    BY <1>6 DEF ServerRestarts, Answer, Quiet
  <2> QED
    BY <2>1, <2>2, QuietStep
<1>7. CASE Answers
  BY <1>1, <1>2, <1>7 DEF Answers, ServeApply, Applied, CheckApplied, ApplyEnds
<1>8. CASE User
  BY <1>1, <1>2, <1>8 DEF User, Type, Undo, Clear, Check, CheckAll, Reload, Apply
<1>9. ASSUME NEW by, Lists(by) PROVE CheckInv'
  BY <1>1, <1>9 DEF Lists, List, Loaded
<1>10. CASE NewMaster \/ Login \/ UNCHANGED vars
  BY <1>1, <1>10 DEF NewMaster, Login, vars
<1> QED
  BY <1>3, <1>4, <1>5, <1>6, <1>7, <1>8, <1>9, <1>10 DEF Next, System, Checks

LEMMA CheckInvariance == Spec => []CheckInv
<1>1. Init => CheckInv
  BY DEF Init, Free, CheckInv, RequestInv, CacheTrue, RetriedAsNeeded
<1> QED
  BY <1>1, CheckStep, PTL DEF Spec

\* Whatever checks overlap with each other and with changes of .env: a cached
\* result is about a real key, and "ok" about one that the provider's catalogue
\* answered to, unless its query sends no key or falls back on a list.
THEOREM CacheIsTrue == Spec => []CacheTrue
<1>1. CheckInv => CacheTrue
  BY DEF CheckInv
<1> QED
  BY <1>1, CheckInvariance, PTL

\* A check fails only for good reasons: an answer that is final, or
\* HTTP_RETRIES attempts that each met a transient error.
THEOREM Retries == Spec => []RetriedAsNeeded
<1>1. CheckInv => RetriedAsNeeded
  BY DEF CheckInv
<1> QED
  BY <1>1, CheckInvariance, PTL

-----------------------------------------------------------------------------
(* Edits. *)

\* What the user meant is in `dirty` or stored.  An apply carries the edits
\* there were at the click, so of what was meant since nothing is in it, and
\* once it is served with success what it carries is stored.
EditInv ==
  /\ DOMAIN meant \subseteq Vars
  /\ \A v \in DOMAIN meant : IF v \in DOMAIN dirty THEN dirty[v] = meant[v] ELSE env[v] = meant[v]
  /\ apply.pc = "sent" =>
       /\ DOMAIN apply = {"pc", "values", "res"}
       /\ \A v \in DOMAIN meant :
            /\ v \in DOMAIN dirty => v \in DOMAIN apply.values
            /\ v \in DOMAIN apply.values =>
                 /\ apply.values[v] = meant[v]
                 /\ apply.res = "ok" => env[v] = meant[v]

\* An edit of v changes nothing about the others.
LEMMA EditStep ==
  ASSUME EditInv, NEW v \in Vars, UNCHANGED <<env, apply>>,
         DOMAIN dirty' \subseteq DOMAIN dirty \union {v},
         DOMAIN dirty \subseteq DOMAIN dirty' \union {v},
         \A w \in DOMAIN dirty : w # v => dirty'[w] = dirty[w],
         \/ meant' = Without(meant, v)
         \/ apply.pc # "sent" /\ v \in DOMAIN dirty' /\ meant' = With(meant, v, dirty'[v])
  PROVE  EditInv'
<1>1. CASE meant' = Without(meant, v)
  <2>1. DOMAIN meant' = DOMAIN meant \ {v} /\ \A w \in DOMAIN meant' : meant'[w] = meant[w]
    BY <1>1 DEF Without
  <2> QED
    BY <2>1 DEF EditInv
<1>2. CASE apply.pc # "sent" /\ v \in DOMAIN dirty' /\ meant' = With(meant, v, dirty'[v])
  <2>1. /\ DOMAIN meant' = DOMAIN meant \union {v}
        /\ \A w \in DOMAIN meant' : meant'[w] = IF w = v THEN dirty'[v] ELSE meant[w]
    BY <1>2 DEF With
  <2> QED
    BY <1>2, <2>1 DEF EditInv
<1> QED
  BY <1>1, <1>2

LEMMA UserStep == EditInv /\ User => EditInv'
<1> SUFFICES ASSUME EditInv, User PROVE EditInv'
  OBVIOUS
<1>1. ASSUME NEW v \in Vars, NEW x, Type(v, x) PROVE EditInv'
  <2>1. dirty' = With(dirty, v, x) \/ dirty' = Without(dirty, v)
    BY <1>1 DEF Type
  <2>2. IF v \in DOMAIN dirty' THEN Edited(v, x) ELSE meant' = Without(meant, v)
    BY <1>1 DEF Type
  <2>3. v \in DOMAIN dirty' => dirty'[v] = x
    BY <2>1 DEF With, Without
  <2>4. UNCHANGED <<env, apply>>
    BY <1>1 DEF Type
  <2>5. /\ DOMAIN dirty' \subseteq DOMAIN dirty \union {v}
        /\ DOMAIN dirty \subseteq DOMAIN dirty' \union {v}
        /\ \A w \in DOMAIN dirty : w # v => dirty'[w] = dirty[w]
    BY <2>1 DEF With, Without
  <2>6. \/ meant' = Without(meant, v)
        \/ apply.pc # "sent" /\ v \in DOMAIN dirty' /\ meant' = With(meant, v, dirty'[v])
    BY <2>2, <2>3 DEF Edited
  <2> QED
    BY <2>4, <2>5, <2>6, EditStep
<1>2. ASSUME NEW v \in Vars, Undo(v) PROVE EditInv'
  BY <1>2, EditStep DEF Undo, Without
<1>3. ASSUME NEW v \in Vars, Clear(v) PROVE EditInv'
  <2>1. dirty' = With(dirty, v, Empty) /\ Edited(v, Empty) /\ UNCHANGED <<env, apply>>
    BY <1>3 DEF Clear
  <2>2. v \in DOMAIN dirty' /\ dirty'[v] = Empty
    BY <2>1 DEF With
  <2>3. /\ DOMAIN dirty' \subseteq DOMAIN dirty \union {v}
        /\ DOMAIN dirty \subseteq DOMAIN dirty' \union {v}
        /\ \A w \in DOMAIN dirty : w # v => dirty'[w] = dirty[w]
    BY <2>1 DEF With
  <2> QED
    BY <2>1, <2>2, <2>3, EditStep DEF Edited
<1>4. ASSUME UNCHANGED <<env, dirty, meant, apply>> PROVE EditInv'
  BY <1>4 DEF EditInv
<1>5. CASE Apply
  <2>1. /\ apply' = [pc |-> "sent", values |-> dirty, res |-> "pending"]
        /\ UNCHANGED <<env, dirty, meant>>
    BY <1>5 DEF Apply
  <2>2. DOMAIN apply' = {"pc", "values", "res"} /\ apply'.values = dirty /\ apply'.res = "pending"
    BY <2>1
  <2> QED
    BY <2>1, <2>2 DEF EditInv
<1> QED
  BY <1>1, <1>2, <1>3, <1>4, <1>5 DEF User, Check, CheckAll, Reload

LEMMA AnswerStep == EditInv /\ Answers => EditInv'
<1> SUFFICES ASSUME EditInv, Answers PROVE EditInv'
  OBVIOUS
<1>1. CASE ServeApply
  <2>1. PICK ok \in BOOLEAN, written \in BOOLEAN :
          /\ ok => written
          /\ env' = IF written THEN [v \in Vars |-> IF v \in DOMAIN apply.values THEN apply.values[v] ELSE env[v]]
                    ELSE env
          /\ apply' = [apply EXCEPT !.res = IF ok THEN "ok" ELSE "failed"]
    BY <1>1 DEF ServeApply
  <2>2. apply.pc = "sent" /\ UNCHANGED <<dirty, meant>>
    BY <1>1 DEF ServeApply
  <2>3. /\ DOMAIN apply' = {"pc", "values", "res"} /\ apply'.values = apply.values
        /\ apply'.res = "ok" => written
    BY <2>1, <2>2 DEF EditInv
  <2>4. \A v \in DOMAIN meant :
          /\ v \in DOMAIN apply.values /\ written => env'[v] = meant[v]
          /\ v \notin DOMAIN dirty => env'[v] = meant[v]
    BY <2>1, <2>2 DEF EditInv
  <2> QED
    BY <2>2, <2>3, <2>4 DEF EditInv
<1>2. CASE Applied
  <2>1. apply.pc = "sent" /\ UNCHANGED <<env, meant>> /\ apply'.pc # "sent"
    BY <1>2 DEF Applied, Idle
  <2>2. CASE apply.res = "ok"
    <3>1. DOMAIN dirty' = {}
      BY <1>2, <2>2 DEF Applied
    <3> QED
      BY <2>1, <2>2, <3>1 DEF EditInv
  <2>3. CASE apply.res # "ok"
    BY <1>2, <2>1, <2>3 DEF Applied, EditInv
  <2> QED
    BY <2>2, <2>3
<1>3. CASE CheckApplied \/ ApplyEnds
  BY <1>3 DEF CheckApplied, ApplyEnds, Idle, EditInv
<1> QED
  BY <1>1, <1>2, <1>3 DEF Answers

LEMMA EditsStep == EditInv /\ [Next]_vars => EditInv'
<1> SUFFICES ASSUME EditInv, [Next]_vars PROVE EditInv'
  OBVIOUS
<1>1. CASE UNCHANGED <<env, dirty, meant>> /\ (apply' = apply \/ apply'.pc # "sent")
  BY <1>1 DEF EditInv
<1>2. ASSUME NEW by, Lists(by) PROVE EditInv'
  BY <1>1, <1>2 DEF Lists, List, Loaded, page
<1>3. ASSUME NEW i, Checks(i) PROVE EditInv'
  <2>1. CASE Thread(i)
    <3>1. UNCHANGED <<env, dirty, meant, apply>>
      BY <2>1 DEF Thread, Handle, Attempt, page
    <3> QED
      BY <1>1, <3>1
  <2>2. CASE Checked(i)
    BY <1>1, <2>2 DEF Checked
  <2> QED
    BY <1>3, <2>1, <2>2 DEF Checks
<1>4. CASE Rejected \/ NewMaster \/ Login \/ ServerRestarts \/ UNCHANGED vars
  BY <1>1, <1>4 DEF Rejected, ListError, NewMaster, Login, ServerRestarts, Idle, page, vars
<1> QED
  BY <1>2, <1>3, <1>4, UserStep, AnswerStep DEF Next, System

\* Through reloads, logouts, failed applies and restarts no edit is lost but
\* one made while an apply is under way.
THEOREM NoEditLost == Spec => []EditsStored
<1>1. Init => EditInv
  BY DEF Init, EditInv, Idle
<1>2. EditInv => EditsStored
  BY DEF EditInv, EditsStored
<1> QED
  BY <1>1, <1>2, EditsStep, PTL DEF Spec

-----------------------------------------------------------------------------
(* What a row shows. *)

Blank(p) == \A v \in ToSet(Needed[p]) : field[v] = "blank"

\* A check of what the table lists, or of what is stored.
About(check, e, p) == check.status # "none" => check.about = Material(p, e)

\* An edit that can still change `.env` is at an input that is not blank.
HeldInv ==
  /\ DOMAIN field = Vars
  /\ DOMAIN dirty \subseteq Vars
  /\ \A v \in DOMAIN dirty : field[v] # "blank"
  /\ apply.pc = "sent" =>
       /\ DOMAIN apply.values \subseteq Vars
       /\ \A v \in DOMAIN apply.values : field[v] # "blank"
       /\ DOMAIN apply = {"pc", "values", "res"}

\* What a check of the present table, at blank inputs, is a check of.
Checking(i, p) ==
  LET r == requests[i]
  IN  /\ r.pc = "sent" => r.value = Stored
      /\ r.pc = "query" => r.material = Material(p, env)
      /\ r.pc = "answer" => r.res.status = "error" \/ r.res.about = Material(p, env)

FlightInv ==
  /\ drawn \in Nat
  /\ \A i \in DOMAIN requests : requests[i].pc # "free" =>
       /\ requests[i].p \in Providers
       /\ requests[i].row \in 0..drawn
       /\ requests[i].row = drawn => \A p \in Providers : requests[i].p = p /\ Blank(p) => Checking(i, p)

ListInv ==
  \A by \in DOMAIN loads : loads[by].pc = "answer" =>
    /\ DOMAIN loads[by].rows = {"env", "check"}
    /\ DOMAIN loads[by].rows.check = Providers
    /\ \A p \in Providers : About(loads[by].rows.check[p], loads[by].rows.env, p)

TableInv ==
  /\ DOMAIN rows = {"env", "check"}
  /\ DOMAIN rows.check = Providers
  /\ \A p \in Providers : Blank(p) => \/ About(rows.check[p], rows.env, p)
                                      \/ About(rows.check[p], env, p)

RowInv == HeldInv /\ FlightInv /\ ListInv /\ TableInv

LEMMA NeededVars ==
  ASSUME NEW p \in Providers
  PROVE  /\ ToSet(Needed[p]) \subseteq Vars
         /\ KeyVar(p) \in ToSet(Needed[p])
         /\ \A k \in DOMAIN Needed[p] : Needed[p][k] \in ToSet(Needed[p])
<1>1. Needed[p] \in Seq(Vars) /\ Needed[p] # <<>>
  BY KeyCheckAssumption
<1>2. 1 \in DOMAIN Needed[p]
  BY <1>1
<1> QED
  BY <1>2 DEF Vars, ToSet, KeyVar

\* What is stored for blank inputs does not change while they are blank.
LEMMA SameMaterial ==
  ASSUME NEW p \in Providers, NEW e, NEW f, \A v \in ToSet(Needed[p]) : f[v] = e[v]
  PROVE  Material(p, f) = Material(p, e)
BY NeededVars DEF Material

\* A step that draws nothing, touches inputs at most and starts no check.
LEMMA SameTable ==
  ASSUME RowInv, HeldInv', UNCHANGED <<rows, drawn>>,
         loads' = loads \/ ListInv',
         \A v \in Vars : field'[v] = "blank" => field[v] = "blank" /\ env'[v] = env[v],
         DOMAIN requests' = DOMAIN requests,
         \A i \in DOMAIN requests :
           \/ requests'[i] = requests[i]
           \/ requests'[i].pc = "free"
           \/ /\ requests[i].pc # "free" /\ requests'[i].pc = "answer"
              /\ requests'[i].p = requests[i].p /\ requests'[i].row = requests[i].row
              /\ requests'[i].res.status = "error"
  PROVE  RowInv'
<1>1. ASSUME NEW p \in Providers, Blank(p)'
      PROVE  Blank(p) /\ Material(p, env') = Material(p, env)
  <2>1. \A v \in ToSet(Needed[p]) : field[v] = "blank" /\ env'[v] = env[v]
    BY <1>1, NeededVars DEF Blank
  <2> QED
    BY <2>1, SameMaterial DEF Blank
<1>2. FlightInv'
  <2>1. drawn' \in Nat
    BY DEF RowInv, FlightInv
  <2>2. ASSUME NEW i \in DOMAIN requests', requests'[i].pc # "free"
        PROVE  /\ requests'[i].p \in Providers
               /\ requests'[i].row \in 0..drawn'
               /\ requests'[i].row = drawn' =>
                    \A p \in Providers : requests'[i].p = p /\ Blank(p)' => Checking(i, p)'
    <3>1. /\ requests[i].pc # "free"
          /\ requests'[i].p = requests[i].p
          /\ requests'[i].row = requests[i].row
          /\ \/ requests'[i] = requests[i]
             \/ requests'[i].pc = "answer" /\ requests'[i].res.status = "error"
      BY <2>2
    <3>2. requests'[i].p \in Providers /\ requests'[i].row \in 0..drawn'
      BY <3>1 DEF RowInv, FlightInv
    <3>3. ASSUME NEW p \in Providers, requests'[i].row = drawn', requests'[i].p = p, Blank(p)'
          PROVE  Checking(i, p)'
      <4>1. Blank(p) /\ Material(p, env') = Material(p, env)
        BY <1>1, <3>3
      <4>2. Checking(i, p)
        BY <3>1, <3>3, <4>1 DEF RowInv, FlightInv
      <4> QED
        BY <3>1, <4>1, <4>2 DEF Checking
    <3> QED
      BY <3>2, <3>3
  <2> QED
    BY <2>1, <2>2 DEF FlightInv
<1>3. TableInv'
  BY <1>1 DEF RowInv, TableInv, About
<1>4. ListInv'
  BY DEF RowInv, ListInv, About, Material
<1> QED
  BY <1>2, <1>3, <1>4 DEF RowInv

\* One check changes hands between its thread and the page.
LEMMA OneRequest ==
  ASSUME RowInv, NEW i \in DOMAIN requests, requests[i].pc # "free",
         UNCHANGED <<env, rows, drawn, field, dirty, apply, loads>>,
         DOMAIN requests' = DOMAIN requests,
         \A j \in DOMAIN requests : j # i => requests'[j] = requests[j],
         requests'[i].p = requests[i].p, requests'[i].row = requests[i].row,
         \A p \in Providers : requests[i].p = p /\ Blank(p) /\ Checking(i, p) => Checking(i, p)'
  PROVE  RowInv'
<1>2. ASSUME NEW p \in Providers PROVE Blank(p)' <=> Blank(p)
  BY DEF Blank
<1>1. HeldInv' /\ ListInv' /\ TableInv'
  <2>1. HeldInv'
    BY DEF RowInv, HeldInv
  <2>2. ListInv'
    BY DEF RowInv, ListInv, About, Material
  <2>3. TableInv'
    BY <1>2 DEF RowInv, TableInv, About, Material
  <2> QED
    BY <2>1, <2>2, <2>3
<1>3. ASSUME NEW j \in DOMAIN requests', requests'[j].pc # "free"
      PROVE  /\ requests'[j].p \in Providers
             /\ requests'[j].row \in 0..drawn'
             /\ requests'[j].row = drawn' =>
                  \A p \in Providers : requests'[j].p = p /\ Blank(p)' => Checking(j, p)'
  <2>1. CASE j = i
    BY <1>2, <2>1 DEF RowInv, FlightInv
  <2>2. CASE j # i
    <3>1. ASSUME NEW p \in Providers PROVE Checking(j, p)' <=> Checking(j, p)
      BY <2>2, <1>3 DEF Checking, Material
    <3> QED
      BY <1>2, <1>3, <2>2, <3>1 DEF RowInv, FlightInv
  <2> QED
    BY <2>1, <2>2
<1> QED
  BY <1>1, <1>3 DEF RowInv, FlightInv

LEMMA ThreadRow ==
  ASSUME RowInv, NEW i \in DOMAIN requests, Handle(i) \/ Attempt(i),
         UNCHANGED <<rows, drawn, field, dirty, apply, loads>>
  PROVE  RowInv'
<1> DEFINE r == requests[i]
<1>0. UNCHANGED env
  <2>1. CASE Handle(i)
    BY <2>1 DEF Handle
  <2>2. CASE Attempt(i)
    BY <2>2, Zenon DEF Attempt
  <2> QED
    BY <2>1, <2>2
<1>1. CASE Handle(i)
  <2> DEFINE e == IF r.value = Stored THEN env ELSE [env EXCEPT ![KeyVar(r.p)] = r.value]
             m == Material(r.p, e)
  <2>1. /\ r.pc = "sent"
        /\ requests' = [requests EXCEPT ![i] =
             IF Empty \in ToSet(m) THEN Answer(r, "missing", m)
             ELSE IF ToSet(m) \intersect Examples # {} THEN Answer(r, "placeholder", m)
             ELSE IF <<r.p, m>> \in DOMAIN cache THEN Answer(r, cache[<<r.p, m>>], m)
             ELSE Querying(r, 1, 1, "none", m)]
    BY <1>1 DEF Handle
  <2>2. DOMAIN requests' = DOMAIN requests /\ \A j \in DOMAIN requests : j # i => requests'[j] = requests[j]
    BY <2>1
  <2>3. \/ \E s : requests'[i] = Answer(r, s, m)
        \/ requests'[i] = Querying(r, 1, 1, "none", m)
    BY <2>1
  <2>4. /\ requests'[i].p = r.p /\ requests'[i].row = r.row
        /\ \/ requests'[i].pc = "answer" /\ requests'[i].res.about = m
           \/ requests'[i].pc = "query" /\ requests'[i].material = m
    <3> HIDE DEF m
    <3>1. ASSUME NEW s, requests'[i] = Answer(r, s, m)
          PROVE  /\ requests'[i].p = r.p /\ requests'[i].row = r.row
                 /\ requests'[i].pc = "answer" /\ requests'[i].res.about = m
      BY <3>1 DEF Answer
    <3>2. ASSUME requests'[i] = Querying(r, 1, 1, "none", m)
          PROVE  /\ requests'[i].p = r.p /\ requests'[i].row = r.row
                 /\ requests'[i].pc = "query" /\ requests'[i].material = m
      BY <3>2 DEF Querying
    <3> QED
      BY <2>3, <3>1, <3>2
  <2>5. ASSUME NEW p \in Providers, r.p = p, Checking(i, p) PROVE Checking(i, p)'
    <3>1. m = Material(p, env)
      BY <2>1, <2>5 DEF Checking
    <3>2. Material(p, env') = Material(p, env)
      BY <1>0
    <3> QED
      BY <2>4, <3>1, <3>2 DEF Checking
  <2> QED
    BY <1>0, <2>1, <2>2, <2>4, <2>5, OneRequest
<1>2. CASE Attempt(i)
  <2>1. r.pc = "query"
    BY <1>2 DEF Attempt
  <2>2. \/ \E q, a, error : Again(i, q, a, error)
        \/ \E s, error : Done(i, s, error)
    BY <1>2 DEF Attempt, QueryFails
  <2> DEFINE Kept ==
        /\ DOMAIN requests' = DOMAIN requests /\ \A j \in DOMAIN requests : j # i => requests'[j] = requests[j]
        /\ requests'[i].p = r.p /\ requests'[i].row = r.row
        /\ \/ requests'[i].pc = "answer" /\ requests'[i].res.about = r.material
           \/ requests'[i].pc = "query" /\ requests'[i].material = r.material
  <2>3. Kept
    <3>1. ASSUME NEW q, NEW a, NEW error, Again(i, q, a, error) PROVE Kept
      BY <3>1 DEF Again, Querying
    <3>2. ASSUME NEW s, NEW error, Done(i, s, error) PROVE Kept
      BY <3>2 DEF Done, Answer
    <3> QED
      BY <2>2, <3>1, <3>2
  <2>4. ASSUME NEW p \in Providers, r.p = p, Checking(i, p) PROVE Checking(i, p)'
    <3>1. r.material = Material(p, env) /\ Material(p, env') = Material(p, env)
      BY <1>0, <2>1, <2>4 DEF Checking
    <3> QED
      BY <2>3, <3>1 DEF Checking
  <2> QED
    BY <1>0, <2>1, <2>3, <2>4, OneRequest
<1> QED
  BY <1>1, <1>2

LEMMA CheckedRow ==
  ASSUME RowInv, NEW i \in DOMAIN requests, Checked(i)
  PROVE  RowInv'
<1> DEFINE r == requests[i]
<1>1. /\ r.pc = "answer" /\ requests' = [requests EXCEPT ![i] = Free]
      /\ UNCHANGED <<env, drawn, field, dirty, apply, loads>>
  BY DEF Checked
<1>2. HeldInv' /\ ListInv'
  BY <1>1 DEF RowInv, HeldInv, ListInv, About, Material
<1>3. ASSUME NEW p \in Providers
      PROVE  /\ Blank(p)' <=> Blank(p)
             /\ \A j \in DOMAIN requests : j # i => (Checking(j, p)' <=> Checking(j, p))
  BY <1>1 DEF Blank, Checking, Material
<1>4. FlightInv'
  <2>1. DOMAIN requests' = DOMAIN requests /\ requests'[i].pc = "free"
        /\ \A j \in DOMAIN requests : j # i => requests'[j] = requests[j]
    BY <1>1 DEF Free
  <2> QED
    BY <1>1, <1>3, <2>1 DEF RowInv, FlightInv
<1>5. TableInv'
  <2>1. CASE rows' = rows
    BY <1>1, <1>3, <2>1 DEF RowInv, TableInv, About, Material
  <2>2. CASE rows' # rows
    <3>1. r.row = drawn /\ r.res.status # "error" /\ r.p \in Providers
      BY <1>1, <2>2 DEF Checked, RowInv, FlightInv
    <3>2. rows' = [rows EXCEPT !.check[r.p] = r.res]
      BY <2>2 DEF Checked
    <3>3. /\ DOMAIN rows' = {"env", "check"} /\ DOMAIN rows'.check = Providers
          /\ rows'.env = rows.env /\ rows'.check[r.p] = r.res
          /\ \A p \in Providers : p # r.p => rows'.check[p] = rows.check[p]
      BY <3>1, <3>2 DEF RowInv, TableInv
    <3>4. Blank(r.p) => r.res.about = Material(r.p, env)
      BY <1>1, <3>1 DEF RowInv, FlightInv, Checking
    <3>5. ASSUME NEW p \in Providers, Blank(p)
          PROVE  About(rows'.check[p], rows'.env, p) \/ About(rows'.check[p], env, p)
      BY <3>3, <3>4, <3>5 DEF RowInv, TableInv, About
    <3> QED
      BY <1>1, <1>3, <3>3, <3>5 DEF TableInv, About, Material
  <2> QED
    BY <2>1, <2>2
<1> QED
  BY <1>2, <1>4, <1>5 DEF RowInv


LEMMA SequenceOf ==
  ASSUME NEW P \in SUBSET Providers
  PROVE  SetToSeq(P) \in [1..Cardinality(P) -> P]
<1>1. IsFiniteSet(P)
  BY FS_Subset, KeyCheckAssumption
<1>2. ExistsBijection(1..Cardinality(P), P)
  BY <1>1, FS_CardinalityType
<1>3. \E f \in [1..Cardinality(P) -> P] : IsInjective(f)
  BY <1>2 DEF ExistsBijection, Bijection, Injection
<1> QED
  BY <1>3 DEF SetToSeq

\* A click sends checks from free slots; a check of an input that holds an
\* edit carries its value, the others ask for what is stored.
LEMMA SendRow ==
  ASSUME RowInv, NEW P \in SUBSET Providers, NEW by, Send(P, by),
         UNCHANGED <<env, rows, drawn, field, dirty, loads>>, HeldInv'
  PROVE  RowInv'
<1>1. ASSUME NEW p \in Providers PROVE Blank(p)' <=> Blank(p)
  BY DEF Blank
<1>2. ListInv' /\ TableInv'
  <2>1. ListInv'
    BY DEF RowInv, ListInv, About, Material
  <2>2. TableInv'
    BY <1>1 DEF RowInv, TableInv, About, Material
  <2> QED
    BY <2>1, <2>2
<1>3. /\ DOMAIN requests' = DOMAIN requests
      /\ \A i \in DOMAIN requests :
           \/ requests'[i] = requests[i]
           \/ \E p \in P : requests'[i] = Request(p, by)
  <2> DEFINE providers == SetToSeq(P)
             free == SelectSeq(Slots, LAMBDA i : requests[i] = Free)
  <2>1. requests' = [i \in DOMAIN requests |->
           IF \E k \in DOMAIN providers : free[k] = i
           THEN Request(providers[CHOOSE k \in DOMAIN providers : free[k] = i], by) ELSE requests[i]]
    BY DEF Send
  <2>2. \A k \in DOMAIN providers : providers[k] \in P
    BY SequenceOf
  <2> HIDE DEF providers, free
  <2> QED
    BY <2>1, <2>2
<1>4. ASSUME NEW i \in DOMAIN requests', requests'[i].pc # "free"
      PROVE  /\ requests'[i].p \in Providers
             /\ requests'[i].row \in 0..drawn'
             /\ requests'[i].row = drawn' =>
                  \A p \in Providers : requests'[i].p = p /\ Blank(p)' => Checking(i, p)'
  <2>1. CASE requests'[i] = requests[i]
    <3>1. ASSUME NEW p \in Providers PROVE Checking(i, p)' <=> Checking(i, p)
      BY <2>1 DEF Checking, Material
    <3> QED
      BY <1>1, <1>3, <1>4, <2>1, <3>1 DEF RowInv, FlightInv
  <2>2. ASSUME NEW q \in P, requests'[i] = Request(q, by)
        PROVE  /\ requests'[i].p \in Providers
               /\ requests'[i].row \in 0..drawn'
               /\ requests'[i].row = drawn' =>
                    \A p \in Providers : requests'[i].p = p /\ Blank(p)' => Checking(i, p)'
    <3>1. /\ requests'[i].p = q /\ requests'[i].row = drawn /\ requests'[i].pc = "sent"
          /\ KeyVar(q) \notin DOMAIN dirty => requests'[i].value = Stored
      BY <2>2 DEF Request
    <3>2. Blank(q) => KeyVar(q) \notin DOMAIN dirty
      BY NeededVars DEF Blank, RowInv, HeldInv
    <3>3. Blank(q)' => Checking(i, q)'
      BY <1>1, <3>1, <3>2 DEF Checking
    <3>4. drawn \in Nat /\ drawn' = drawn
      BY DEF RowInv, FlightInv
    <3> QED
      BY <3>1, <3>3, <3>4
  <2> QED
    BY <1>3, <2>1, <2>2
<1> QED
  BY <1>2, <1>4 DEF RowInv, FlightInv

LEMMA TypeRow ==
  ASSUME RowInv, NEW v \in Vars, (\E x : Type(v, x)) \/ Undo(v) \/ Clear(v)
  PROVE  RowInv'
<1>1. UNCHANGED <<env, requests, rows, drawn, apply, loads>>
  BY DEF Type, Undo, Clear
<1>2. /\ DOMAIN field' = Vars /\ field'[v] # "blank"
      /\ \A w \in Vars : w # v => field'[w] = field[w]
  BY DEF Type, Undo, Clear, RowInv, HeldInv
<1>3. DOMAIN dirty' \subseteq DOMAIN dirty \union {v}
  BY DEF Type, Undo, Clear, With, Without
<1>4. HeldInv'
  BY <1>1, <1>2, <1>3 DEF RowInv, HeldInv
<1> QED
  BY <1>1, <1>2, <1>4, SameTable

LEMMA LoadedRow ==
  ASSUME RowInv, NEW by \in DOMAIN loads, Loaded(by)
  PROVE  RowInv'
<1>1. /\ loads[by].pc = "answer" /\ rows' = loads[by].rows /\ drawn' = drawn + 1
      /\ field' = [v \in Vars |-> IF v \in Held THEN "held" ELSE "blank"]
      /\ UNCHANGED <<env, requests, dirty>>
      /\ loads' = [loads EXCEPT ![by] = None]
      /\ apply' = apply \/ apply'.pc = "loaded"
  BY DEF Loaded
<1>2. HeldInv'
  BY <1>1 DEF RowInv, HeldInv, Held
<1>3. ListInv'
  <2>1. DOMAIN loads' = DOMAIN loads /\ loads'[by].pc = "none"
        /\ \A b \in DOMAIN loads : b # by => loads'[b] = loads[b]
    BY <1>1 DEF None
  <2> QED
    BY <2>1 DEF RowInv, ListInv, About, Material
<1>4. TableInv'
  <2>1. /\ DOMAIN rows' = {"env", "check"} /\ DOMAIN rows'.check = Providers
        /\ \A p \in Providers : About(rows'.check[p], rows'.env, p)
    BY <1>1 DEF RowInv, ListInv
  <2> QED
    BY <2>1 DEF TableInv, About, Material
<1>5. drawn \in Nat /\ drawn + 1 \in Nat /\ \A n \in 0..drawn : n \in 0..(drawn + 1) /\ n # drawn + 1
  BY DEF RowInv, FlightInv
<1>6. FlightInv'
  BY <1>1, <1>5 DEF RowInv, FlightInv
<1> QED
  BY <1>2, <1>3, <1>4, <1>6 DEF RowInv

LEMMA ApplyRow ==
  ASSUME RowInv, Apply \/ ServeApply \/ Applied \/ ApplyEnds
  PROVE  RowInv'
<1>1. UNCHANGED <<requests, rows, drawn, field>>
  BY DEF Apply, ServeApply, Applied, ApplyEnds
<1>2. HeldInv'
  <2>1. CASE Apply
    <3>1. apply' = [pc |-> "sent", values |-> dirty, res |-> "pending"] /\ dirty' = dirty
      BY <2>1 DEF Apply
    <3>2. DOMAIN apply' = {"pc", "values", "res"} /\ apply'.values = dirty
      BY <3>1
    <3> QED
      BY <1>1, <3>1, <3>2 DEF RowInv, HeldInv
  <2>2. CASE ServeApply
    <3>1. PICK ok \in BOOLEAN : apply' = [apply EXCEPT !.res = IF ok THEN "ok" ELSE "failed"]
      BY <2>2 DEF ServeApply
    <3>2. apply.pc = "sent" /\ dirty' = dirty
      BY <2>2 DEF ServeApply
    <3>3. DOMAIN apply' = {"pc", "values", "res"} /\ apply'.values = apply.values
      BY <3>1, <3>2 DEF RowInv, HeldInv
    <3> QED
      BY <1>1, <3>2, <3>3 DEF RowInv, HeldInv
  <2>3. CASE Applied
    <3>1. DOMAIN dirty' \subseteq DOMAIN dirty /\ apply'.pc # "sent"
      BY <2>3 DEF Applied, Idle
    <3> QED
      BY <1>1, <3>1 DEF RowInv, HeldInv
  <2>4. CASE ApplyEnds
    BY <1>1, <2>4 DEF ApplyEnds, Idle, RowInv, HeldInv
  <2> QED
    BY <2>1, <2>2, <2>3, <2>4
<1>3. \A v \in Vars : field[v] = "blank" => env'[v] = env[v]
  <2>1. CASE ServeApply
    BY <2>1 DEF ServeApply, RowInv, HeldInv
  <2>2. CASE env' = env
    BY <2>2
  <2> QED
    BY <2>1, <2>2 DEF Apply, Applied, ApplyEnds
<1>4. loads' = loads \/ ListInv'
  <2>1. CASE loads' = [loads EXCEPT !["apply"] = [pc |-> "sent"]]
    <3>1. DOMAIN loads' = DOMAIN loads
          /\ \A b \in DOMAIN loads : loads'[b] = loads[b] \/ loads'[b].pc = "sent"
      BY <2>1
    <3> QED
      BY <3>1 DEF RowInv, ListInv, About, Material
  <2> QED
    BY <2>1 DEF Apply, ServeApply, Applied, ApplyEnds
<1> QED
  BY <1>1, <1>2, <1>3, <1>4, SameTable

LEMMA OtherRow ==
  ASSUME RowInv, Reload \/ (\E by \in DOMAIN loads : List(by)) \/ Rejected \/ NewMaster \/ Login \/ ServerRestarts
  PROVE  RowInv'
<1>1. UNCHANGED <<env, rows, drawn, field, dirty>>
  BY DEF Reload, List, Rejected, NewMaster, Login, ServerRestarts, page
<1>2. apply' = apply \/ apply' = Idle
  BY DEF Reload, List, Rejected, ListError, NewMaster, Login, ServerRestarts, page
<1>3. HeldInv'
  BY <1>1, <1>2 DEF RowInv, HeldInv, Idle
<1>4. loads' = loads \/ ListInv'
  <2>1. ASSUME DOMAIN loads' = DOMAIN loads,
               \A b \in DOMAIN loads : loads'[b] = loads[b] \/ loads'[b].pc # "answer"
        PROVE  ListInv'
    BY <2>1 DEF RowInv, ListInv, About, Material
  <2>2. ASSUME NEW by \in DOMAIN loads, List(by)
        PROVE  ListInv'
    <3>1. loads' = [loads EXCEPT ![by] = [pc |-> "answer", rows |-> Listed(env)]]
      BY <2>2 DEF List
    <3>2. DOMAIN loads' = DOMAIN loads /\ loads'[by].rows = Listed(env)
          /\ \A b \in DOMAIN loads : b # by => loads'[b] = loads[b]
      BY <3>1
    <3>3. /\ DOMAIN Listed(env) = {"env", "check"} /\ DOMAIN Listed(env).check = Providers
          /\ \A p \in Providers : About(Listed(env).check[p], Listed(env).env, p)
      BY DEF Listed, Cached, About
    <3> QED
      BY <3>2, <3>3 DEF RowInv, ListInv, About, Material
  <2>3. CASE Reload \/ Login \/ Rejected \/ ServerRestarts \/ NewMaster
    <3>1. \/ loads' = loads
          \/ \E b \in {"page"} : loads' = [loads EXCEPT ![b] = [pc |-> "sent"]]
          \/ \E b \in DOMAIN loads : loads' = [loads EXCEPT ![b] = None]
          \/ loads' = [b \in DOMAIN loads |-> IF loads[b].pc = "sent" THEN None ELSE loads[b]]
      BY <2>3 DEF Reload, Login, Rejected, ListError, ServerRestarts, NewMaster
    <3> QED
      BY <2>1, <3>1 DEF None
  <2> QED
    BY <2>2, <2>3
<1>5. /\ DOMAIN requests' = DOMAIN requests
      /\ \A i \in DOMAIN requests :
           \/ requests'[i] = requests[i]
           \/ requests[i].pc \in {"sent", "query"} /\ requests'[i] = Answer(requests[i], "error", <<>>)
  BY DEF Reload, List, Rejected, CheckError, NewMaster, Login, ServerRestarts
<1>6. \A i \in DOMAIN requests :
        \/ requests'[i] = requests[i]
        \/ /\ requests[i].pc # "free" /\ requests'[i].pc = "answer"
           /\ requests'[i].p = requests[i].p /\ requests'[i].row = requests[i].row
           /\ requests'[i].res.status = "error"
  BY <1>5 DEF Answer
<1> QED
  BY <1>1, <1>3, <1>4, <1>5, <1>6, SameTable

LEMMA RowStep == RequestInv /\ RowInv /\ [Next]_vars => RowInv'
<1> SUFFICES ASSUME RequestInv, RowInv, [Next]_vars PROVE RowInv'
  OBVIOUS
<1>1. ASSUME NEW i \in ToSet(Slots), Checks(i) PROVE RowInv'
  <2>1. i \in DOMAIN requests
    BY DEF RequestInv
  <2>2. CASE Thread(i)
    BY <2>1, <2>2, ThreadRow DEF Thread, page
  <2>3. CASE Checked(i)
    BY <2>1, <2>3, CheckedRow
  <2> QED
    BY <1>1, <2>2, <2>3 DEF Checks
<1>2. ASSUME NEW by \in DOMAIN loads, Lists(by) PROVE RowInv'
  BY <1>2, LoadedRow, OtherRow DEF Lists
<1>3. CASE Answers
  <2>1. CASE CheckApplied
    <3>1. UNCHANGED <<env, rows, drawn, field, dirty, loads>> /\ Send(Providers, "apply") /\ apply'.pc = "checking"
      BY <2>1 DEF CheckApplied
    <3>2. HeldInv'
      BY <3>1 DEF RowInv, HeldInv
    <3> QED
      BY <3>1, <3>2, SendRow
  <2> QED
    BY <1>3, <2>1, ApplyRow DEF Answers
<1>4. CASE User
  <2>1. ASSUME NEW P \in SUBSET Providers, NEW by, Send(P, by),
               UNCHANGED <<env, rows, drawn, field, dirty, apply, loads>>
        PROVE  RowInv'
    <3>1. HeldInv'
      BY <2>1 DEF RowInv, HeldInv
    <3> QED
      BY <2>1, <3>1, SendRow
  <2>2. ASSUME NEW p \in Providers, Check(p) PROVE RowInv'
    BY <2>1, <2>2 DEF Check
  <2>3. CASE CheckAll
    BY <2>1, <2>3 DEF CheckAll
  <2> QED
    BY <1>4, <2>2, <2>3, TypeRow, ApplyRow, OtherRow DEF User
<1>5. CASE UNCHANGED vars
  <2>1. HeldInv'
    BY <1>5 DEF vars, RowInv, HeldInv
  <2> QED
    BY <1>5, <2>1, SameTable DEF vars
<1> QED
  BY <1>1, <1>2, <1>3, <1>4, <1>5, OtherRow DEF Next, System

LEMMA RowInvariance == Spec => []RowInv
<1>1. Init => RowInv
  <2> SUFFICES ASSUME Init PROVE RowInv
    OBVIOUS
  <2>1. HeldInv
    BY DEF Init, HeldInv, Idle
  <2>2. FlightInv
    BY DEF Init, FlightInv, Free
  <2>3. ListInv
    BY DEF Init, ListInv, None
  <2>4. TableInv
    BY DEF Init, TableInv, Listed, Cached, About
  <2> QED
    BY <2>1, <2>2, <2>3, <2>4 DEF RowInv
<1> QED
  BY <1>1, RowStep, CheckInvariance, PTL DEF Spec, CheckInv

\* A row whose inputs neither were touched nor hold back an edit, and which
\* lists what is stored, never shows a check of anything else.
THEOREM RowsShowStored == Spec => []CheckOfStoredKey
<1>1. RowInv => CheckOfStoredKey
  <2> SUFFICES ASSUME RowInv, NEW p \in Providers, rows.check[p].status # "none",
                      \A v \in ToSet(Needed[p]) : field[v] = "blank" /\ rows.env[v] = env[v]
               PROVE  rows.check[p].about = Material(p, env)
    BY DEF CheckOfStoredKey
  <2>1. Material(p, rows.env) = Material(p, env)
    BY SameMaterial
  <2> QED
    BY <2>1 DEF RowInv, TableInv, About, Blank
<1> QED
  BY <1>1, RowInvariance, PTL

-----------------------------------------------------------------------------
(* Type correctness. *)

Holding(f) == DOMAIN f \subseteq Vars /\ \A v \in DOMAIN f : f[v] \in Values

\* Every place a value can be in between the input and `.env`.
ValueInv ==
  /\ env \in [Vars -> Values] /\ rows.env \in [Vars -> Values]
  /\ \A by \in DOMAIN loads : loads[by].pc = "answer" => loads[by].rows.env \in [Vars -> Values]
  /\ Holding(dirty)
  /\ apply.pc = "sent" => Holding(apply.values)

\* Every place a status can be in between the query and the row.
StatusInv ==
  /\ \A k \in DOMAIN cache : cache[k] \in {"ok", "fail"}
  /\ \A i \in DOMAIN requests :
       /\ requests[i].pc \in {"free", "sent", "query", "answer"}
       /\ requests[i].pc = "answer" => requests[i].res.status \in Statuses \ {"none"}
  /\ \A by \in DOMAIN loads : loads[by].pc = "answer" =>
       \A p \in Providers : loads[by].rows.check[p].status \in Statuses \ {"error"}
  /\ \A p \in Providers : rows.check[p].status \in Statuses \ {"error"}

\* An apply waits for its own list exactly as long as that is under way.
WaitInv ==
  /\ DOMAIN loads = {"page", "apply"}
  /\ \A by \in DOMAIN loads : loads[by] = None \/ loads[by].pc \in {"sent", "answer"}
  /\ apply.pc \in {"idle", "sent", "loading", "loaded", "checking"}
  /\ apply.pc = "loading" <=> loads["apply"] # None

LEMMA WaitStep == WaitInv /\ [Next]_vars => WaitInv'
<1> SUFFICES ASSUME WaitInv, [Next]_vars PROVE WaitInv'
  OBVIOUS
<1>0. \A by : None # [pc |-> "sent"] /\ \A r : None # [pc |-> "answer", rows |-> r]
  BY DEF None
<1>1. CASE UNCHANGED <<loads, apply>>
  BY <1>1 DEF WaitInv
<1>2. ASSUME NEW by \in DOMAIN loads, Lists(by) PROVE WaitInv'
  <2>1. CASE List(by)
    <3>1. loads' = [loads EXCEPT ![by] = [pc |-> "answer", rows |-> Listed(env)]]
          /\ loads[by].pc = "sent" /\ apply' = apply
      BY <2>1 DEF List, page
    <3> QED
      BY <1>0, <3>1 DEF WaitInv, None
  <2>2. CASE Loaded(by)
    <3>1. /\ loads' = [loads EXCEPT ![by] = None] /\ loads[by].pc = "answer"
          /\ apply' = IF by = "apply" THEN [pc |-> "loaded"] ELSE apply
      BY <2>2 DEF Loaded
    <3> QED
      BY <3>1 DEF WaitInv, None
  <2> QED
    BY <1>2, <2>1, <2>2 DEF Lists
<1>3. CASE Answers
  <2>1. CASE ServeApply
    <3>1. loads' = loads /\ apply.pc = "sent" /\ \E x : apply' = [apply EXCEPT !.res = x]
      BY <2>1 DEF ServeApply
    <3>2. apply'.pc = "sent"
      BY <3>1 DEF WaitInv
    <3> QED
      BY <3>1, <3>2 DEF WaitInv
  <2>2. CASE Applied
    BY <2>2, <1>0 DEF Applied, WaitInv, Idle
  <2>3. CASE CheckApplied
    BY <2>3 DEF CheckApplied, WaitInv
  <2>4. CASE ApplyEnds
    BY <2>4 DEF ApplyEnds, WaitInv, Idle
  <2> QED
    BY <1>3, <2>1, <2>2, <2>3, <2>4 DEF Answers
<1>4. CASE Rejected
  <2>1. CASE UNCHANGED <<apply, loads>>
    BY <1>1, <2>1
  <2>2. ASSUME NEW by \in DOMAIN loads, ListError(by) PROVE WaitInv'
    BY <2>2 DEF ListError, WaitInv, Idle, None
  <2>3. CASE apply.pc = "sent" /\ apply' = Idle /\ UNCHANGED loads
    BY <2>3 DEF WaitInv, Idle
  <2> QED
    BY <1>4, <2>1, <2>2, <2>3 DEF Rejected
<1>5. CASE ServerRestarts
  <2>1. loads' = [by \in DOMAIN loads |-> IF loads[by].pc = "sent" THEN None ELSE loads[by]]
    BY <1>5 DEF ServerRestarts
  <2>2. apply' = IF (apply.pc = "loading" /\ loads["apply"].pc = "sent")
                    \/ (apply.pc = "sent" /\ apply.res = "pending")
                 THEN Idle ELSE apply
    BY <1>5 DEF ServerRestarts
  <2> QED
    BY <2>1, <2>2 DEF WaitInv, Idle, None
<1>6. CASE Reload \/ Login
  <2>1. loads["page"] = None /\ loads' = [loads EXCEPT !["page"] = [pc |-> "sent"]] /\ apply' = apply
    BY <1>6 DEF Reload, Login, page
  <2> QED
    BY <1>0, <2>1 DEF WaitInv
<1>7. CASE Apply
  BY <1>7 DEF Apply, WaitInv, Idle
<1> QED
  BY <1>1, <1>2, <1>3, <1>4, <1>5, <1>6, <1>7
     DEF Next, System, User, Checks, Thread, Checked, Type, Undo, Clear, Check, CheckAll,
         NewMaster, vars, page

LEMMA TypedValue ==
  ASSUME ValueInv, NEW v \in Vars, (\E x \in Typed[v] : Type(v, x)) \/ Undo(v) \/ Clear(v)
  PROVE  Holding(dirty') /\ UNCHANGED <<env, rows, apply, loads>>
<1>1. ASSUME NEW x \in Values PROVE Holding(With(dirty, v, x)) /\ Holding(Without(dirty, v))
  BY DEF ValueInv, Holding, With, Without
<1>2. Typed[v] \subseteq Values /\ Empty \in Values
  BY PageAssumption, KeyCheckAssumption
<1>3. CASE \E x \in Typed[v] : Type(v, x)
  BY <1>1, <1>2, <1>3 DEF Type
<1>4. CASE Undo(v)
  BY <1>1, <1>2, <1>4 DEF Undo
<1>5. CASE Clear(v)
  BY <1>1, <1>2, <1>5 DEF Clear
<1> QED
  BY <1>3, <1>4, <1>5

\* Lists and applies that only end, or begin to wait, carry no new values.
LEMMA NoNewValue ==
  ASSUME ValueInv, UNCHANGED <<env, rows>>, Holding(dirty'),
         apply'.pc = "sent" => apply'.values = apply.values /\ apply.pc = "sent",
         DOMAIN loads' = DOMAIN loads,
         \A by \in DOMAIN loads : loads'[by] = loads[by] \/ loads'[by].pc # "answer"
  PROVE  ValueInv'
BY DEF ValueInv, Holding

LEMMA ApplyValue ==
  ASSUME ValueInv, HeldInv, Apply \/ ServeApply \/ Applied
  PROVE  ValueInv'
<1>1. CASE Apply
  <2>1. apply'.values = dirty /\ UNCHANGED <<env, rows, dirty, loads>>
    BY <1>1 DEF Apply
  <2> QED
    BY <2>1 DEF ValueInv
<1>2. CASE ServeApply
  <2>1. PICK ok \in BOOLEAN : apply' = [apply EXCEPT !.res = IF ok THEN "ok" ELSE "failed"]
    BY <1>2 DEF ServeApply
  <2>2. apply.pc = "sent" /\ UNCHANGED <<rows, dirty, loads>>
    BY <1>2 DEF ServeApply
  <2>3. apply'.values = apply.values
    BY <2>1, <2>2 DEF HeldInv
  <2>4. env' = env \/ env' = [v \in Vars |-> IF v \in DOMAIN apply.values THEN apply.values[v] ELSE env[v]]
    BY <1>2 DEF ServeApply
  <2>5. env' \in [Vars -> Values]
    BY <2>2, <2>4 DEF ValueInv, Holding
  <2> QED
    BY <2>2, <2>3, <2>5 DEF ValueInv
<1>3. CASE Applied
  <2>1. UNCHANGED <<env, rows>> /\ apply'.pc # "sent"
    BY <1>3 DEF Applied, Idle
  <2>2. Holding(dirty')
    BY <1>3 DEF Applied, ValueInv, Holding
  <2>3. loads' = loads \/ loads' = [loads EXCEPT !["apply"] = [pc |-> "sent"]]
    BY <1>3 DEF Applied
  <2> QED
    BY <2>1, <2>2, <2>3, NoNewValue
<1> QED
  BY <1>1, <1>2, <1>3

LEMMA ListValue ==
  ASSUME ValueInv, NEW by \in DOMAIN loads, Lists(by)
  PROVE  ValueInv'
<1>1. CASE List(by)
  <2>1. /\ loads' = [loads EXCEPT ![by] = [pc |-> "answer", rows |-> Listed(env)]]
        /\ UNCHANGED <<env, rows, dirty, apply>>
    BY <1>1 DEF List, page
  <2>2. Listed(env).env = env
    BY DEF Listed
  <2>3. DOMAIN loads' = DOMAIN loads /\ loads'[by].rows = Listed(env)
        /\ \A b \in DOMAIN loads : b # by => loads'[b] = loads[b]
    BY <2>1
  <2> QED
    BY <2>1, <2>2, <2>3 DEF ValueInv
<1>2. CASE Loaded(by)
  <2>1. /\ loads[by].pc = "answer" /\ rows' = loads[by].rows /\ UNCHANGED <<env, dirty>>
        /\ loads' = [loads EXCEPT ![by] = None]
        /\ apply' = apply \/ apply'.pc = "loaded"
    BY <1>2 DEF Loaded
  <2>2. \A b \in DOMAIN loads : loads'[b] = loads[b] \/ loads'[b].pc = "none"
    BY <2>1 DEF None
  <2> QED
    BY <2>1, <2>2 DEF ValueInv
<1> QED
  BY <1>1, <1>2 DEF Lists

LEMMA ValueStep == ValueInv /\ RowInv /\ [Next]_vars => ValueInv'
<1> SUFFICES ASSUME ValueInv, RowInv, [Next]_vars PROVE ValueInv'
  OBVIOUS
<1>1. CASE UNCHANGED <<env, rows, dirty, loads>> /\ (apply' = apply \/ apply'.pc # "sent")
  BY <1>1 DEF ValueInv
<1>2. ASSUME NEW i, Checked(i) PROVE ValueInv'
  <2>1. UNCHANGED <<env, dirty, loads, apply>> /\ rows'.env = rows.env
    BY <1>2 DEF Checked, RowInv, TableInv
  <2> QED
    BY <2>1 DEF ValueInv
<1>3. ASSUME NEW v \in Vars, (\E x \in Typed[v] : Type(v, x)) \/ Undo(v) \/ Clear(v) PROVE ValueInv'
  BY <1>3, TypedValue DEF ValueInv
<1>4. CASE Reload \/ Rejected \/ Login \/ ServerRestarts
  <2>1. UNCHANGED <<env, rows, dirty>> /\ (apply' = apply \/ apply' = Idle)
    BY <1>4 DEF Reload, Rejected, ListError, Login, ServerRestarts, page
  <2>2. \/ loads' = loads
        \/ \E b \in {"page"} : loads' = [loads EXCEPT ![b] = [pc |-> "sent"]]
        \/ \E b \in DOMAIN loads : loads' = [loads EXCEPT ![b] = None]
        \/ loads' = [b \in DOMAIN loads |-> IF loads[b].pc = "sent" THEN None ELSE loads[b]]
    BY <1>4 DEF Reload, Rejected, ListError, Login, ServerRestarts
  <2>3. DOMAIN loads' = DOMAIN loads
        /\ \A b \in DOMAIN loads : loads'[b] = loads[b] \/ loads'[b].pc # "answer"
    BY <2>2 DEF None
  <2>4. Holding(dirty')
    BY <2>1 DEF ValueInv, Holding
  <2> QED
    BY <2>1, <2>3, <2>4, NoNewValue DEF Idle
<1>5. CASE CheckApplied \/ ApplyEnds
  BY <1>1, <1>5 DEF CheckApplied, ApplyEnds, Idle
<1>6. ASSUME NEW i, Thread(i) PROVE ValueInv'
  BY <1>1, <1>6 DEF Thread, Handle, Attempt, page
<1>7. CASE Apply \/ ServeApply \/ Applied
  BY <1>7, ApplyValue DEF RowInv
<1>8. CASE (\E p \in Providers : Check(p)) \/ CheckAll \/ NewMaster \/ UNCHANGED vars
  BY <1>1, <1>8 DEF Check, CheckAll, NewMaster, vars, page
<1> QED
  BY <1>2, <1>3, <1>4, <1>5, <1>6, <1>7, <1>8, ListValue DEF Next, System, User, Checks, Answers

\* A status comes from the cache, the handler or the end of a query.
LEMMA ThreadStatus ==
  ASSUME StatusInv, NEW i \in DOMAIN requests, Thread(i)
  PROVE  StatusInv'
<1>0. UNCHANGED <<rows, loads>> /\ (Handle(i) \/ Attempt(i))
  BY DEF Thread, page
<1>1. ASSUME cache' = cache \/ \E k : DOMAIN cache' = DOMAIN cache \union {k} /\ cache'[k] \in {"ok", "fail"}
                                     /\ \A l \in DOMAIN cache : l # k => cache'[l] = cache[l],
             NEW x, requests' = [requests EXCEPT ![i] = x],
             x.pc \in {"free", "sent", "query", "answer"},
             x.pc = "answer" => x.res.status \in Statuses \ {"none"}
      PROVE  StatusInv'
  BY <1>0, <1>1 DEF StatusInv
<1>2. ASSUME NEW status \in Statuses \ {"none"}, NEW r, NEW m
      PROVE  Answer(r, status, m).pc = "answer" /\ Answer(r, status, m).res.status \in Statuses \ {"none"}
  BY DEF Answer
<1>3. ASSUME NEW r, NEW q, NEW a, NEW e, NEW m PROVE Querying(r, q, a, e, m).pc = "query"
  BY DEF Querying
<1>4. CASE Handle(i)
  <2> DEFINE r == requests[i]
             e == IF r.value = Stored THEN env ELSE [env EXCEPT ![KeyVar(r.p)] = r.value]
             m == Material(r.p, e)
             x == IF Empty \in ToSet(m) THEN Answer(r, "missing", m)
                  ELSE IF ToSet(m) \intersect Examples # {} THEN Answer(r, "placeholder", m)
                  ELSE IF <<r.p, m>> \in DOMAIN cache THEN Answer(r, cache[<<r.p, m>>], m)
                  ELSE Querying(r, 1, 1, "none", m)
  <2>1. requests' = [requests EXCEPT ![i] = x] /\ cache' = cache
    BY <1>4 DEF Handle
  <2>2. <<r.p, m>> \in DOMAIN cache => cache[<<r.p, m>>] \in Statuses \ {"none"}
    BY DEF StatusInv, Statuses
  <2>3. {"missing", "placeholder"} \subseteq Statuses \ {"none"}
    BY DEF Statuses
  <2> HIDE DEF m, r
  <2>4. x.pc \in {"query", "answer"} /\ (x.pc = "answer" => x.res.status \in Statuses \ {"none"})
    BY <1>2, <1>3, <2>2, <2>3
  <2> HIDE DEF x
  <2> QED
    BY <1>1, <2>1, <2>4
<1>5. CASE Attempt(i)
  <2>1. ASSUME NEW status \in {"ok", "fail"}, NEW error, Done(i, status, error) PROVE StatusInv'
    <3> DEFINE k == <<requests[i].p, requests[i].material>>
               x == [Answer(requests[i], status, requests[i].material)
                       EXCEPT !.attempt = requests[i].attempt, !.error = error]
    <3>1. requests' = [requests EXCEPT ![i] = x]
      BY <2>1 DEF Done
    <3>2. cache' = [l \in DOMAIN cache \union {k} |-> IF l = k THEN status ELSE cache[l]]
      BY <2>1 DEF Done
    <3>3. x.pc = "answer" /\ x.res.status \in Statuses \ {"none"}
      BY DEF Answer, Statuses
    <3> HIDE DEF k, x
    <3> QED
      BY <1>1, <3>1, <3>2, <3>3
  <2>2. ASSUME NEW q, NEW a, NEW e, Again(i, q, a, e) PROVE StatusInv'
    <3> DEFINE x == Querying(requests[i], q, a, e, requests[i].material)
    <3>1. requests' = [requests EXCEPT ![i] = x] /\ cache' = cache
      BY <2>2 DEF Again
    <3>2. x.pc = "query"
      BY <1>3
    <3> HIDE DEF x
    <3> QED
      BY <1>1, <3>1, <3>2
  <2>3. ASSUME NEW error, QueryFails(i, error) PROVE StatusInv'
    BY <2>1, <2>3 DEF QueryFails
  <2> QED
    BY <1>5, <2>1, <2>2, <2>3 DEF Attempt
<1> QED
  BY <1>0, <1>4, <1>5

\* The answer of an error leaves the row as it is.
LEMMA CheckedStatus ==
  ASSUME StatusInv, RowInv, NEW i \in DOMAIN requests, Checked(i)
  PROVE  StatusInv'
<1>1. /\ requests[i].pc = "answer" /\ requests' = [requests EXCEPT ![i] = Free]
      /\ UNCHANGED <<cache, loads>>
  BY DEF Checked
<1>2. \A p \in Providers : rows'.check[p].status \in Statuses \ {"error"}
  <2>1. CASE rows' = rows
    BY <2>1 DEF StatusInv
  <2>2. CASE rows' = [rows EXCEPT !.check[requests[i].p] = requests[i].res] /\ requests[i].res.status # "error"
    <3>1. requests[i].p \in Providers /\ DOMAIN rows = {"env", "check"} /\ DOMAIN rows.check = Providers
      BY <1>1 DEF RowInv, FlightInv, TableInv
    <3>2. rows'.check = [rows.check EXCEPT ![requests[i].p] = requests[i].res]
      BY <2>2, <3>1
    <3>3. requests[i].res.status \in Statuses \ {"error"}
      BY <1>1, <2>2 DEF StatusInv
    <3> QED
      BY <3>1, <3>2, <3>3 DEF StatusInv
  <2> QED
    BY <2>1, <2>2 DEF Checked
<1> QED
  BY <1>1, <1>2 DEF StatusInv, Free

LEMMA SentStatus ==
  ASSUME StatusInv, NEW P, NEW by, Send(P, by), UNCHANGED <<cache, rows, loads>>
  PROVE  StatusInv'
<1>1. DOMAIN requests' = DOMAIN requests
      /\ \A i \in DOMAIN requests : requests'[i] = requests[i] \/ \E p : requests'[i] = Request(p, by)
  BY DEF Send
<1>2. \A p : Request(p, by).pc = "sent"
  BY DEF Request
<1> QED
  BY <1>1, <1>2 DEF StatusInv

LEMMA ListStatus ==
  ASSUME StatusInv, NEW by \in DOMAIN loads, Lists(by)
  PROVE  StatusInv'
<1>1. UNCHANGED <<requests, cache>>
  BY DEF Lists, List, Loaded
<1>2. CASE List(by)
  <2>1. rows' = rows /\ loads' = [loads EXCEPT ![by] = [pc |-> "answer", rows |-> Listed(env)]]
    BY <1>2 DEF List, page
  <2>2. \A p \in Providers : Listed(env).check[p].status \in Statuses \ {"error"}
    <3>1. ASSUME NEW p \in Providers PROVE Cached(p, env).status \in Statuses \ {"error"}
      BY DEF Cached, StatusInv, Statuses
    <3> QED
      BY <3>1 DEF Listed
  <2>3. DOMAIN loads' = DOMAIN loads /\ loads'[by].rows = Listed(env)
        /\ \A b \in DOMAIN loads : b # by => loads'[b] = loads[b]
    BY <2>1
  <2> QED
    BY <1>1, <2>1, <2>2, <2>3 DEF StatusInv
<1>3. CASE Loaded(by)
  <2>1. loads[by].pc = "answer" /\ rows' = loads[by].rows /\ loads' = [loads EXCEPT ![by] = None]
    BY <1>3 DEF Loaded
  <2>2. DOMAIN loads' = DOMAIN loads /\ loads'[by].pc = "none"
        /\ \A b \in DOMAIN loads : b # by => loads'[b] = loads[b]
    BY <2>1 DEF None
  <2> QED
    BY <1>1, <2>1, <2>2 DEF StatusInv
<1> QED
  BY <1>2, <1>3 DEF Lists

LEMMA StatusStep == RequestInv /\ RowInv /\ StatusInv /\ [Next]_vars => StatusInv'
<1> SUFFICES ASSUME RequestInv, RowInv, StatusInv, [Next]_vars PROVE StatusInv'
  OBVIOUS
<1>1. CASE UNCHANGED <<cache, requests, rows, loads>>
  BY <1>1 DEF StatusInv
<1>2. ASSUME NEW i \in ToSet(Slots), Checks(i) PROVE StatusInv'
  BY <1>2, ThreadStatus, CheckedStatus DEF Checks, RequestInv
<1>3. ASSUME rows' = rows, DOMAIN cache' \subseteq DOMAIN cache,
             \A k \in DOMAIN cache' : cache'[k] = cache[k],
             DOMAIN loads' = DOMAIN loads,
             \A b \in DOMAIN loads : loads'[b] = loads[b] \/ loads'[b].pc # "answer",
             DOMAIN requests' = DOMAIN requests,
             \A i \in DOMAIN requests : \/ requests'[i] = requests[i]
                                         \/ requests'[i] = Answer(requests[i], "error", <<>>)
      PROVE  StatusInv'
  <2>1. ASSUME NEW r PROVE /\ Answer(r, "error", <<>>).pc = "answer"
                           /\ Answer(r, "error", <<>>).res.status \in Statuses \ {"none"}
    BY DEF Answer, Statuses
  <2> QED
    BY <1>3, <2>1 DEF StatusInv
<1>4. CASE Reload \/ Rejected \/ Login \/ ServerRestarts \/ Applied
  <2>1. rows' = rows /\ (cache' = cache \/ DOMAIN cache' = {})
    BY <1>4 DEF Reload, Rejected, Login, ServerRestarts, Applied, page
  <2>2. \/ loads' = loads
        \/ \E b \in {"page", "apply"} : loads' = [loads EXCEPT ![b] = [pc |-> "sent"]]
        \/ \E b \in DOMAIN loads : loads' = [loads EXCEPT ![b] = None]
        \/ loads' = [b \in DOMAIN loads |-> IF loads[b].pc = "sent" THEN None ELSE loads[b]]
    BY <1>4 DEF Reload, Rejected, ListError, Login, ServerRestarts, Applied
  <2>3. DOMAIN loads' = DOMAIN loads
        /\ \A b \in DOMAIN loads : loads'[b] = loads[b] \/ loads'[b].pc # "answer"
    BY <2>2 DEF None
  <2>4. /\ DOMAIN requests' = DOMAIN requests
        /\ \A i \in DOMAIN requests : \/ requests'[i] = requests[i]
                                       \/ requests'[i] = Answer(requests[i], "error", <<>>)
    BY <1>4 DEF Reload, Rejected, CheckError, Login, ServerRestarts, Applied
  <2> QED
    BY <1>3, <2>1, <2>3, <2>4
<1>5. CASE (\E p \in Providers : Check(p)) \/ CheckAll \/ CheckApplied
  BY <1>5, SentStatus DEF Check, CheckAll, CheckApplied
<1> QED
  BY <1>1, <1>2, <1>4, <1>5, ListStatus
     DEF Next, System, User, Answers, Type, Undo, Clear, Apply, ServeApply, ApplyEnds, NewMaster, vars, page

\* Values, statuses and the phase of an apply stay what they can be, and an
\* apply waits for its list exactly as long as that is under way.
THEOREM TypeCorrect == Spec => []TypeOK
<1>1. Init => ValueInv /\ StatusInv /\ WaitInv
  <2> SUFFICES ASSUME Init PROVE ValueInv /\ StatusInv /\ WaitInv
    OBVIOUS
  <2>1. ValueInv
    BY PageAssumption DEF Init, ValueInv, Holding, Listed, None, Idle
  <2>2. StatusInv
    BY DEF Init, StatusInv, Listed, Cached, None, Free, Statuses
  <2>3. WaitInv
    BY DEF Init, WaitInv, Idle
  <2> QED
    BY <2>1, <2>2, <2>3
<1>2. ValueInv /\ StatusInv /\ WaitInv => TypeOK
  BY DEF ValueInv, Holding, StatusInv, WaitInv, TypeOK
<1> QED
  BY <1>1, <1>2, ValueStep, StatusStep, WaitStep, RowInvariance, CheckInvariance, PTL DEF Spec, CheckInv

=============================================================================

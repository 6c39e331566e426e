------------------------------ MODULE KeyCheck ------------------------------
(***************************************************************************)
(* The settings server's key check: POST /api/check requests in threads of *)
(* their own, a result cache, and the catalogue queries behind it with     *)
(* their retries.                                                          *)
(***************************************************************************)
EXTENDS Naturals, FiniteSets, SequencesExt

CONSTANTS
  Providers,      \* the providers that have a catalogue query
  Needed,         \* Needed[p]: its env_var, and its api_base_env if it has one
  Query,          \* Query[p]: how its fetch function uses http_get_json
  Values,         \* what a variable may hold, Empty included
  Examples,       \* the placeholder values of .env.example
  Accepted,       \* <<provider, material>>: what a provider's catalogue answers to
  HTTP_RETRIES,
  Slots           \* the requests that may be under way, in order (bound)

Empty  == ""
Stored == "stored"   \* a request without a value

\* One query; both of two (pages of one catalogue, or two catalogues); one
\* whose failure is answered with a curated list; or one that sends no key.
Queries == {"one", "both", "masked", "keyless"}

Vars == UNION {ToSet(Needed[p]) : p \in Providers}
KeyVar(p) == Needed[p][1]

ASSUME KeyCheckAssumption ==
  /\ IsFiniteSet(Providers)
  /\ \A p \in Providers : Needed[p] \in Seq(Vars) \ {<<>>} /\ Query[p] \in Queries
  /\ Empty \in Values /\ Examples \subseteq Values /\ Stored \notin Values
  /\ HTTP_RETRIES \in Nat \ {0}

VARIABLES
  env,        \* .env
  cache,      \* KeyChecker._cache: results by <<provider, material>>
  requests    \* requests[i]: a check from the click to the answer

Free == [pc |-> "free"]

\* _key's material.
Material(p, e) == [k \in DOMAIN Needed[p] |-> e[Needed[p][k]]]

Cached(p, e) ==
  IF <<p, Material(p, e)>> \in DOMAIN cache
  THEN [status |-> cache[<<p, Material(p, e)>>], about |-> Material(p, e)]
  ELSE [status |-> "none", about |-> <<>>]

\* A request answered at once, and one that http_get_json is called for.
Answer(r, status, m) ==
  [pc |-> "answer", p |-> r.p, by |-> r.by, row |-> r.row, attempt |-> 0, error |-> "none",
   res |-> [status |-> status, about |-> m]]
Querying(r, query, attempt, error, m) ==
  [pc |-> "query", p |-> r.p, by |-> r.by, row |-> r.row, material |-> m,
   query |-> query, attempt |-> attempt, error |-> error]

-----------------------------------------------------------------------------

\* App.check and KeyChecker.check up to the query: the value of the request
\* goes in place of the stored key, never of the api_base.
Handle(i) ==
  LET r == requests[i]
      e == IF r.value = Stored THEN env ELSE [env EXCEPT ![KeyVar(r.p)] = r.value]
      m == Material(r.p, e)
  IN  /\ r.pc = "sent"
      /\ requests' = [requests EXCEPT ![i] =
           IF Empty \in ToSet(m) THEN Answer(r, "missing", m)
           ELSE IF ToSet(m) \intersect Examples # {} THEN Answer(r, "placeholder", m)
           ELSE IF <<r.p, m>> \in DOMAIN cache THEN Answer(r, cache[<<r.p, m>>], m)
           ELSE Querying(r, 1, 1, "none", m)]
      /\ UNCHANGED <<env, cache>>

\* What one attempt may end with: a 429, a 5xx or no connection; the models, or
\* an answer that is no JSON; a 4xx.  A catalogue that is not sent the key cannot
\* reject it.
Answered(p, m) == <<p, m>> \in Accepted \/ Query[p] = "keyless"
Outcomes(p, m) ==
  {"busy"} \union (IF Answered(p, m) THEN {"models", "garbled"} ELSE {"rejected"})

\* A mutant of Transient: a 4xx is tried again too.
AnyError(o) == o # "models"

Transient(o) == o = "busy"

\* A mutant of Done: the cache key is taken after the query, from .env.
DoneNow(i, status, error) ==
  LET r == requests[i]
      key == <<r.p, Material(r.p, env)>>
  IN  /\ cache' = [k \in DOMAIN cache \union {key} |-> IF k = key THEN status ELSE cache[k]]
      /\ requests' = [requests EXCEPT ![i] =
           [Answer(r, status, r.material) EXCEPT !.attempt = r.attempt, !.error = error]]

\* The result is cached for what was asked with, over another check's.
Done(i, status, error) ==
  LET r == requests[i]
  IN  /\ cache' = [k \in DOMAIN cache \union {<<r.p, r.material>>} |->
                     IF k = <<r.p, r.material>> THEN status ELSE cache[k]]
      /\ requests' = [requests EXCEPT ![i] =
           [Answer(r, status, r.material) EXCEPT !.attempt = r.attempt, !.error = error]]

Again(i, query, attempt, error) ==
  /\ requests' = [requests EXCEPT ![i] = Querying(@, query, attempt, error, @.material)]
  /\ UNCHANGED cache

\* http_get_json's last error reaches the fetch function of the provider.
QueryFails(i, error) ==
  Done(i, IF Query[requests[i].p] = "masked" THEN "ok" ELSE "fail", error)

\* One attempt of http_get_json, with what its caller does about the outcome.
Attempt(i) ==
  LET r == requests[i]
      more == Query[r.p] = "both" /\ r.query = 1
  IN  /\ r.pc = "query"
      /\ \E o \in Outcomes(r.p, r.material) :
           LET again == Transient(o) /\ r.attempt < HTTP_RETRIES
           IN  \/ o = "models" /\ more /\ Again(i, 2, 1, "none")
               \/ o = "models" /\ ~more /\ Done(i, "ok", "none")
               \/ o # "models" /\ again /\ Again(i, r.query, r.attempt + 1, o)
               \/ o # "models" /\ ~again /\ QueryFails(i, o)
      /\ UNCHANGED env

-----------------------------------------------------------------------------

\* What is cached is about a real key, and a key that is cached as good is one
\* its provider's catalogue answered to, with the api_base it was asked at.  Only
\* huggingface, with its curated list, and ovhcloud, whose catalogue is asked
\* without the key, say "ok" whatever the key.
CacheTrue ==
  \A k \in DOMAIN cache :
    /\ ToSet(k[2]) \intersect (Examples \union {Empty}) = {}
    /\ cache[k] = "ok" => k \in Accepted \/ Query[k[1]] \in {"masked", "keyless"}

\* A check fails for good only after an answer that will not change or as
\* many attempts as there are, and is repeated only after a transient error.
RetriedAsNeeded ==
  \A i \in DOMAIN requests :
    LET r == requests[i]
    IN  /\ r.pc = "query" => /\ r.attempt \in 1..HTTP_RETRIES
                             /\ r.attempt > 1 => r.error = "busy"
        /\ r.pc = "answer" /\ r.error # "none" =>
             r.error \in {"rejected", "garbled"} \/ r.attempt = HTTP_RETRIES

=============================================================================

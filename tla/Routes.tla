------------------------------- MODULE Routes -------------------------------
(***************************************************************************)
(* The generated routes: what fork/render.py makes of the template and the *)
(* keys in `.env` at every start (fork/standard.py, tools_route.py,        *)
(* vision_route.py, classify_route.py), and how a request walks a route in *)
(* LiteLLM while deployments fail.                                         *)
(*                                                                         *)
(* A deployment block is a record of its group (`model_name`), model, host *)
(* and mode; the host decides the provider.  `redacted` marks the two      *)
(* lines vision_route adds to a deployment.                                *)
(***************************************************************************)
EXTENDS Naturals, FiniteSets, Sequences, Selection

CONSTANTS
  Templates,       \* what fork/models.yaml (fork) and the template (upstream) hold
  Provider,        \* Provider[host]
  PROVIDER_PRIORITY, \* every provider once, first = tried first
  Optional,        \* providers with required=False, and none at all
  EXCLUDED,        \* deployment keys left out of every route
  RESERVED,        \* deployment keys left out of `standard`
  ToolsVerified,   \* TOOL_CALLING_VERIFIED
  VisionVerified,  \* VISION_VERIFIED
  CLASSIFY_ORDER,  \* a sequence of deployment keys
  NoKey            \* no deployment

RouteNames == {"standard", "tools", "vision", "classify"}
Providers  == {PROVIDER_PRIORITY[i] : i \in DOMAIN PROVIDER_PRIORITY}
GroupNames == STRING \union RouteNames
Blocks(groups) ==
  [group : groups, model : STRING, host : STRING, mode : STRING, redacted : BOOLEAN]
Block == Blocks(GroupNames)

\* The template knows none of the generated routes; the two lists name nothing
\* twice ("no duplicates", tests/test_classify_route.py).
ASSUME RoutesAssumption ==
  /\ \A t \in Templates :
       /\ t.fork \in Seq(Block) /\ t.upstream \in Seq(Block)
       /\ \A b \in ToSet(t.fork) \union ToSet(t.upstream) : ~b.redacted /\ b.group \notin RouteNames
  /\ PROVIDER_PRIORITY \in Seq(Providers) /\ IsInjective(PROVIDER_PRIORITY)
  /\ CLASSIFY_ORDER \in Seq(ToSet(CLASSIFY_ORDER)) /\ IsInjective(CLASSIFY_ORDER)

VARIABLES
  template, \* the catalogue of this installation
  keys,     \* the providers with a key in .env
  live,     \* the configuration the running proxy has loaded
  down,     \* the deployments that fail at the moment
  request   \* a client's request

vars == <<template, keys, live, down, request>>

-----------------------------------------------------------------------------
(* The chains. *)

\* Mutant: a model is one backend, whoever serves it.
ModelOnly(b) == <<b.model, "anywhere">>

\* deployment_key: model id and host.
Key(b) == <<b.model, b.host>>

KeysOf(blocks) == {Key(blocks[i]) : i \in DOMAIN blocks}

\* filter_blocks
Kept(blocks, K) ==
  Only(blocks, {b \in Block : Provider[b.host] \in Optional \union K})

Eligible(b, K) ==
  /\ b.mode = "chat"
  /\ Provider[b.host] \in K
  /\ Key(b) \notin EXCLUDED

\* Mutant: no `seen`.
PickedAll(blocks, K) == {i \in DOMAIN blocks : Eligible(blocks[i], K)}

\* The first eligible block of every backend.
Picked(blocks, K) ==
  {i \in DOMAIN blocks :
     /\ Eligible(blocks[i], K)
     /\ \A j \in 1..(i - 1) : Eligible(blocks[j], K) => Key(blocks[j]) # Key(blocks[i])}

\* _RANK
Rank(p) == CHOOSE i \in DOMAIN PROVIDER_PRIORITY : PROVIDER_PRIORITY[i] = p

\* standard.chain: provider priority first, then template order.
Chain(blocks, K) ==
  LET picked == Picked(blocks, K)
      R(i)   == Rank(Provider[blocks[i].host])
      Before(i) == {j \in picked : R(j) < R(i) \/ (R(j) = R(i) /\ j < i)}
  IN  [n \in 1..Cardinality(picked) |->
         blocks[CHOOSE i \in picked : Cardinality(Before(i)) = n - 1]]

\* add_standard_route
StandardChain(blocks, K) ==
  LET chain == Chain(blocks, K)
  IN  Only(chain, {b \in Block : Key(b) \notin RESERVED})

\* Mutant: the allowlisted blocks as the template has them.
UnsortedChain(blocks, K, verified) ==
  Only(blocks, {b \in Block : Key(b) \in verified /\ Eligible(b, K)})

\* tools_route.chain and vision_route.chain
VerifiedChain(blocks, K, verified) ==
  LET chain == Chain(blocks, K)
  IN  Only(chain, {b \in Block : Key(b) \in verified})

\* classify_route.chain: sorted by the operator's list.
ClassifyChain(blocks, K) ==
  LET chain == Chain(blocks, K)
      named == Only(CLASSIFY_ORDER, KeysOf(chain))
  IN  [n \in DOMAIN named |-> chain[CHOOSE i \in DOMAIN chain : Key(chain[i]) = named[n]]]

-----------------------------------------------------------------------------
(* fork/render.render. *)

\* merged_template_text: the fork's models come first.
Merged(t) == t.fork \o t.upstream

\* render_blocks: copies under the route's name, in `order`.
Deployments(route, chain) == [n \in DOMAIN chain |-> [chain[n] EXCEPT !.group = route]]

\* vision_route.render_blocks: their messages are kept out of the logs.
VisionDeployments(chain) ==
  [n \in DOMAIN chain |-> [chain[n] EXCEPT !.group = "vision", !.redacted = TRUE]]

Lengths(chains) == {Len(chains[r]) : r \in RouteNames}

\* Mutant: deep enough for `standard`.
StandardDepth(chains) == Len(chains["standard"])

\* The longest chain, for max_fallbacks.
Depth(chains) == CHOOSE n \in Lengths(chains) : \A m \in Lengths(chains) : m <= n

\* Mutants of pin_fallbacks: only `standard` is closed; all four are.
ClosedStandard(chains) == {"standard"} \ {r \in RouteNames : chains[r] = <<>>}
ClosedAll(chains) == RouteNames

\* pin_fallbacks closes the routes that were rendered.
Closed(chains) == {r \in RouteNames : chains[r] # <<>>}

\* The lines are parsed again for every route, the copies of the routes
\* before it included.  .env is read twice: R are the keys render-config.py
\* filters with, K those the chains are built with; `from` is what they share.
Rendered(t, R, K) ==
  LET b0 == Kept(Merged(t), R)
      s  == StandardChain(b0, K)
      b1 == b0 \o Deployments("standard", s)
      t1 == VerifiedChain(b1, K, ToolsVerified)
      b2 == b1 \o Deployments("tools", t1)
      v  == VerifiedChain(b2, K, VisionVerified)
      b3 == b2 \o VisionDeployments(v)
      c  == ClassifyChain(b3, K)
      chains == [standard |-> s, tools |-> t1, vision |-> v, classify |-> c]
  IN  [deployments |-> b3 \o Deployments("classify", c), chains |-> chains,
       closed |-> Closed(chains), depth |-> Depth(chains),
       from |-> K \cap (R \union Optional)]

-----------------------------------------------------------------------------

NoRequest == [status |-> "none", route |-> "standard", level |-> 0, hops |-> 0, tried |-> {}, by |-> NoKey]

Init ==
  /\ template \in Templates
  /\ keys \in SUBSET Providers
  /\ live = Rendered(template, keys, keys)
  /\ down = {}
  /\ request = NoRequest

Edits == {K \in SUBSET Providers : \E p \in Providers : {p} = (K \ keys) \union (keys \ K)}

\* A provider key is added to .env or removed.
EditKeys == keys' \in Edits /\ UNCHANGED <<template, live, down, request>>

\* The proxy starts again, an edit may land between its two reads of .env;
\* requests under way are lost.
Restart ==
  /\ keys' \in Edits \union {keys}
  /\ live' = Rendered(template, keys, keys')
  /\ request' = NoRequest
  /\ UNCHANGED <<template, down>>

\* Quotas are spent and come back, hosts die and recover.
Weather ==
  /\ \E k \in KeysOf(Merged(template)) : down' = IF k \in down THEN down \ {k} ELSE down \union {k}
  /\ UNCHANGED <<template, keys, live, request>>

Group(name) == Only(live.deployments, Blocks({name}))

\* A request names a route; a name without deployments is no model at all.
Ask(route) ==
  /\ request.status # "walking"
  /\ Group(route) # <<>>
  /\ request' = [status |-> "walking", route |-> route, level |-> 1, hops |-> 0, tried |-> {}, by |-> NoKey]
  /\ UNCHANGED <<template, keys, live, down>>

Current == Key(Group(request.route)[request.level])

Walk(r) ==
  /\ request.status = "walking"
  /\ request' = r
  /\ UNCHANGED <<template, keys, live, down>>

\* The deployment of the current order answers.
Answer ==
  /\ request.status = "walking" /\ Current \notin down
  /\ Walk([request EXCEPT !.status = "answered", !.by = Current])

More == request.level < Len(Group(request.route)) /\ request.hops < live.depth

\* It fails: one fallback hop to the next order.
NextLevel ==
  /\ request.status = "walking" /\ Current \in down /\ More
  /\ Walk([request EXCEPT !.level = @ + 1, !.hops = @ + 1, !.tried = @ \union {Current}])

\* Where a request goes after its last order: a group without a chain of its
\* own falls back to "*", any deployment; an explicit empty chain is the end.
Strays ==
  IF request.route \in live.closed \/ request.hops = live.depth THEN {}
  ELSE KeysOf(live.deployments) \ down

\* The last order or the last hop has failed.
LastFails ==
  /\ request.status = "walking" /\ Current \in down /\ ~More
  /\ LET failed == [request EXCEPT !.status = "failed", !.tried = @ \union {Current}]
         strays == {[request EXCEPT !.status = "answered", !.by = k] : k \in Strays}
     IN  \E r \in IF strays = {} THEN {failed} ELSE strays : Walk(r)

Router == Answer \/ NextLevel \/ LastFails

Next ==
  \/ EditKeys \/ Restart \/ Weather
  \/ \E r \in RouteNames : Ask(r)
  \/ Router

Spec == Init /\ [][Next]_vars

-----------------------------------------------------------------------------
(* Properties. *)

\* The configuration the proxy loads is well-formed.  A closed route is a
\* group that exists: "a fallback key that is not a model_name would fail
\* LiteLLM's config validation" (pin_fallbacks).
TypeOK ==
  /\ template \in Templates /\ keys \subseteq Providers /\ down \subseteq KeysOf(Merged(template))
  /\ live.closed \subseteq {b.group : b \in ToSet(live.deployments)}
  /\ live.depth \in Nat /\ live.from \subseteq Providers
  /\ request.status \in {"none", "walking", "answered", "failed"}
  /\ request.status # "none" => request.level \in 1..Len(Group(request.route))

OneEach(chain) == \A i, j \in DOMAIN chain : Key(chain[i]) = Key(chain[j]) => i = j

\* `standard` has every chat deployment with a key that is neither excluded
\* nor reserved, once, although aliases share backends and the file is parsed
\* again for every route; a provider's models stand together, in the order of
\* PROVIDER_PRIORITY, the fork's own models first.
StandardIsExact ==
  LET chain == live.chains["standard"]
      all   == Merged(template)
      R(i)  == Rank(Provider[chain[i].host])
      First(b) == CHOOSE i \in DOMAIN all :
                    /\ Key(all[i]) = Key(b) /\ all[i].mode = "chat"
                    /\ \A j \in 1..(i - 1) : Key(all[j]) # Key(b) \/ all[j].mode # "chat"
  IN  /\ OneEach(chain)
      /\ KeysOf(chain) = {Key(b) : b \in {a \in ToSet(all) : Eligible(a, live.from)}} \ RESERVED
      /\ \A i, j \in DOMAIN chain : i < j =>
           \/ R(i) < R(j)
           \/ R(i) = R(j) /\ First(chain[i]) < First(chain[j])

\* `tools` and `vision` try their deployments in `standard`'s order, only
\* reserved ones are not in it, and `classify` follows the operator's list:
\* no chain repeats or invents a deployment.  However often the copies are
\* parsed again, exactly those of `vision` keep their messages out of the logs.
NarrowedKeepOrder ==
  LET standard == live.chains["standard"]
      Shared(r) ==
        Only(live.chains[r], {b \in Block : Key(b) \notin RESERVED})
  IN  /\ \A r \in {"tools", "vision"} :
           Shared(r) = Only(standard, ToSet(Shared(r)))
      /\ KeysOf(live.chains["classify"]) \subseteq KeysOf(standard) \union RESERVED
      /\ \A r \in RouteNames : OneEach(live.chains[r])
      /\ \A b \in ToSet(live.deployments) : b.redacted <=> b.group = "vision"

\* A provider key that appears in .env puts that provider's models into the
\* chains on the next render and changes nothing else: the deployments that
\* were there keep their order.  So does a key that goes.
KeysInsertOnly ==
  [][\A r \in RouteNames :
       LET Of(c, K) == Only(c, {b \in Block : Provider[b.host] \in K})
       IN  Of(live'.chains[r], live.from) = Of(live.chains[r], live'.from)]_vars

\* A request is answered by a deployment of the route it named: never by
\* whatever the catch-all "*" would find, however many deployments fail.
AnsweredWithinRoute ==
  request.status = "answered" => request.by \in KeysOf(live.chains[request.route])

\* A request fails only after every deployment of its route has failed it:
\* max_fallbacks is deep enough for the longest chain.
FailsOnlyWhenAllTried ==
  request.status = "failed" => request.tried = KeysOf(live.chains[request.route])

=============================================================================

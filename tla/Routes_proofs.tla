--------------------------- MODULE Routes_proofs ---------------------------
(***************************************************************************)
(* The properties of Routes, for every catalogue, provider table, list of  *)
(* verified, reserved and excluded deployments, and every order.           *)
(***************************************************************************)
EXTENDS Routes, FoldLemmas

-----------------------------------------------------------------------------
(* Which deployments of a file a chain lists, and in which order. *)

\* The first chat block of its backend.
FirstChat(M, i) ==
  M[i].mode = "chat" /\ \A j \in 1..(i - 1) : Key(M[j]) # Key(M[i]) \/ M[j].mode # "chat"

Served(M, F) ==
  {i \in 1..Len(M) : FirstChat(M, i) /\ Provider[M[i].host] \in F /\ Key(M[i]) \notin EXCLUDED}

RankOf(b) == Rank(Provider[b.host])

\* Provider priority first, then the file's order.
Ahead(M) ==
  {p \in Nat \X Nat : \/ RankOf(M[p[1]]) < RankOf(M[p[2]])
                      \/ RankOf(M[p[1]]) = RankOf(M[p[2]]) /\ p[1] < p[2]}

\* A provider has one rank.
LEMMA Ranks ==
  ASSUME NEW p \in Providers
  PROVE  Rank(p) \in Nat
<1>1. \E i \in DOMAIN PROVIDER_PRIORITY : PROVIDER_PRIORITY[i] = p
  BY DEF Providers
<1>2. Rank(p) \in DOMAIN PROVIDER_PRIORITY
  BY <1>1 DEF Rank
<1>3. DOMAIN PROVIDER_PRIORITY = 1..Len(PROVIDER_PRIORITY)
  BY RoutesAssumption
<1> QED
  BY <1>2, <1>3

\* Blocks of one backend are eligible together, if they are chat models.
LEMMA SameBackend ==
  ASSUME NEW b, NEW c, Key(b) = Key(c)
  PROVE  b.host = c.host /\ b.model = c.model
BY DEF Key

\* The chain takes the first chat block of every backend.
LEMMA PickedServed ==
  ASSUME NEW M \in Seq(Block), NEW F
  PROVE  Picked(M, F) = Served(M, F)
<1>1. DOMAIN M = 1..Len(M)
  OBVIOUS
<1>2. ASSUME NEW i \in 1..Len(M), Eligible(M[i], F), NEW j \in 1..(i - 1), Key(M[j]) = Key(M[i])
      PROVE  Eligible(M[j], F) <=> M[j].mode = "chat"
  <2>1. M[j].host = M[i].host
    BY <1>2, SameBackend
  <2> QED
    BY <1>2, <2>1 DEF Eligible
<1>3. ASSUME NEW i \in 1..Len(M), Eligible(M[i], F)
      PROVE  (\A j \in 1..(i - 1) : Eligible(M[j], F) => Key(M[j]) # Key(M[i])) <=> FirstChat(M, i)
  BY <1>2, <1>3 DEF FirstChat, Eligible
<1>4. \A i \in 1..Len(M) : FirstChat(M, i) => M[i].mode = "chat"
  BY DEF FirstChat
<1>5. ASSUME NEW i PROVE i \in Picked(M, F) <=> i \in Served(M, F)
  <2>1. i \in Picked(M, F) <=>
          /\ i \in 1..Len(M) /\ Eligible(M[i], F)
          /\ \A j \in 1..(i - 1) : Eligible(M[j], F) => Key(M[j]) # Key(M[i])
    BY <1>1 DEF Picked
  <2>2. i \in Served(M, F) <=>
          /\ i \in 1..Len(M) /\ FirstChat(M, i)
          /\ Provider[M[i].host] \in F /\ Key(M[i]) \notin EXCLUDED
    BY DEF Served
  <2> QED
    BY <2>1, <2>2, <1>3, <1>4 DEF Eligible
<1> QED
  BY <1>5

\* Provider priority and position order the blocks of ranked providers.
LEMMA AheadOrders ==
  ASSUME NEW M, NEW S, S \subseteq Nat, \A i \in S : Provider[M[i].host] \in Providers
  PROVE  Orders(Ahead(M), S)
<1> DEFINE r == [i \in S |-> RankOf(M[i])]
<1>1. \A i \in S : r[i] \in Nat /\ i \in Nat
  BY Ranks DEF RankOf
<1>2. \A i, j \in S : <<i, j>> \in Ahead(M) <=> (r[i] < r[j] \/ (r[i] = r[j] /\ i < j))
  BY <1>1 DEF Ahead
<1> HIDE DEF r
<1> QED
  BY <1>1, <1>2 DEF Orders

\* standard.chain lists them.
LEMMA ChainLists ==
  ASSUME NEW M \in Seq(Block), NEW F, F \subseteq Providers
  PROVE  Lists(Chain(M, F), M, Served(M, F), Ahead(M))
<1> DEFINE P == Served(M, F)
           c == Cardinality(P)
           Before(i) == {j \in P : \/ RankOf(M[j]) < RankOf(M[i])
                                   \/ RankOf(M[j]) = RankOf(M[i]) /\ j < i}
           Place(n) == CHOOSE i \in P : Cardinality(Before(i)) = n - 1
           place == [n \in 1..c |-> CHOOSE i \in P : Cardinality(Predecessors(P, Ahead(M), i)) = n - 1]
<1>1. P \subseteq 1..Len(M) /\ P \subseteq Nat /\ \A i \in P : Provider[M[i].host] \in Providers
  BY DEF Served
<1>2. IsFiniteSet(P)
  BY <1>1, FS_Interval, FS_Subset
<1>3. Orders(Ahead(M), P)
  BY <1>1, AheadOrders
<1>4. c \in Nat /\ Enumerates(place, c, P, Ahead(M))
  <2> HIDE DEF P
  <2> QED
    BY <1>2, <1>3, Ranked
<1>5. \A i \in P : Before(i) = Predecessors(P, Ahead(M), i)
  <2>1. \A i, j \in P : <<j, i>> \in Ahead(M) <=>
          (RankOf(M[j]) < RankOf(M[i]) \/ (RankOf(M[j]) = RankOf(M[i]) /\ j < i))
    BY <1>1 DEF Ahead
  <2> HIDE DEF P
  <2> QED
    BY <2>1 DEF Predecessors
<1>6. \A n \in 1..c : Place(n) = place[n]
  <2> HIDE DEF P, Before
  <2> QED
    BY <1>5
<1>7. Chain(M, F) = [n \in 1..c |-> M[Place(n)]]
  <2>1. Picked(M, F) = P
    BY PickedServed
  <2> HIDE DEF P
  <2> QED
    BY <2>1 DEF Chain, RankOf
<1>8. Chain(M, F) = [n \in 1..c |-> M[place[n]]]
  <2> HIDE DEF Place, place, c
  <2> QED
    BY <1>6, <1>7
<1> HIDE DEF P, place
<1> QED
  BY <1>4, <1>8 DEF Lists, P

-----------------------------------------------------------------------------
(* The chain of a rendered file, in terms of the template. *)

\* The positions that render-config.py keeps.
Keyed(M, R) == {i \in 1..Len(M) : Provider[M[i].host] \in Optional \union R}

\* filter_blocks keeps them in their order.
LEMMA KeptLists ==
  ASSUME NEW M \in Seq(Block), NEW R
  PROVE  /\ Kept(M, R) \in Seq(Block)
         /\ Lists(Kept(M, R), M, Keyed(M, R), Upward)
<1> DEFINE W == {b \in Block : Provider[b.host] \in Optional \union R}
<1>1. Kept(M, R) = Only(M, W)
  BY DEF Kept, Block
<1>2. \A i \in 1..Len(M) : M[i] \in Block
  OBVIOUS
<1>3. {i \in 1..Len(M) : M[i] \in W} = Keyed(M, R)
  BY <1>2 DEF Keyed
<1>4. Lists(M, M, 1..Len(M), Upward)
  BY ListsItself
<1>5. Lists(Only(M, W), M, {i \in 1..Len(M) : M[i] \in W}, Upward)
  <2> HIDE DEF W
  <2> QED
    BY <1>4, ListsOnly
<1>6. \A i \in Keyed(M, R) : M[i] \in Block
  BY <1>2 DEF Keyed
<1>7. Lists(Kept(M, R), M, Keyed(M, R), Upward)
  BY <1>1, <1>3, <1>5
<1> QED
  BY <1>6, <1>7, ListsMembers

\* The keys that both reads of .env have.
Both(R, K) == K \cap (R \union Optional)

\* f is where the kept blocks are in the template.
KeptAt(f, n, M, R) ==
  Enumerates(f, n, Keyed(M, R), Upward) /\ Kept(M, R) = [i \in 1..n |-> M[f[i]]]

\* What KeptAt means for two positions.
LEMMA KeptOrder ==
  ASSUME NEW M, NEW R, NEW n \in Nat, NEW f, KeptAt(f, n, M, R)
  PROVE  /\ \A i \in 1..n : /\ f[i] \in Keyed(M, R) /\ f[i] \in Nat
                            /\ Kept(M, R)[i] = M[f[i]]
         /\ \A x \in Keyed(M, R) : \E i \in 1..n : f[i] = x
         /\ \A i, j \in 1..n : i < j <=> f[i] < f[j]
<1>1. \A i \in 1..n : f[i] \in Keyed(M, R) /\ f[i] \in Nat /\ Kept(M, R)[i] = M[f[i]]
  BY DEF KeptAt, Enumerates, Keyed
<1>2. \A x \in Keyed(M, R) : \E i \in 1..n : f[i] = x
  BY DEF KeptAt, Enumerates
<1>3. \A i, j \in 1..n : i < j => f[i] < f[j]
  BY <1>1 DEF KeptAt, Enumerates, Upward
<1>4. ASSUME NEW i \in 1..n, NEW j \in 1..n, f[i] < f[j] PROVE i < j
  <2>1. i = j => ~(f[i] < f[j])
    BY <1>1
  <2>2. j < i => ~(f[i] < f[j])
    BY <1>1, <1>3
  <2> QED
    BY <1>4, <2>1, <2>2
<1> QED
  BY <1>1, <1>2, <1>3, <1>4

\* A kept block is the first of its backend in the rendered file exactly when
\* it is in the template: blocks of one backend have one provider.
LEMMA ServedKept ==
  ASSUME NEW M \in Seq(Block), NEW R, NEW K, NEW n \in Nat, NEW f, KeptAt(f, n, M, R),
         NEW x \in 1..n
  PROVE  x \in Served(Kept(M, R), K) <=> f[x] \in Served(M, Both(R, K))
<1> DEFINE b == Kept(M, R)
<1>1. b \in Seq(Block) /\ Len(b) = n
  BY KeptLists DEF KeptAt
<1>2. f[x] \in 1..Len(M) /\ f[x] \in Nat /\ b[x] = M[f[x]]
      /\ Provider[M[f[x]].host] \in Optional \union R
  BY KeptOrder, SMTT(20) DEF Keyed
<1>3. ASSUME FirstChat(b, x), NEW j \in 1..(f[x] - 1), Key(M[j]) = Key(M[f[x]]), M[j].mode = "chat"
      PROVE  FALSE
  <2>1. j \in Keyed(M, R)
    <3>1. M[j].host = M[f[x]].host
      BY <1>3, SameBackend
    <3>2. j \in 1..Len(M)
      BY <1>2
    <3> QED
      BY <3>1, <3>2, <1>2 DEF Keyed
  <2>2. PICK y \in 1..n : f[y] = j
    BY <2>1, KeptOrder
  <2>3. f[y] < f[x]
    BY <2>2, <1>2
  <2>4. y < x
    BY <2>3, KeptOrder
  <2>5. b[y] = M[j]
    <3>1. f[y] \in Keyed(M, R) /\ b[y] = M[f[y]]
      BY KeptOrder
    <3> QED
      BY <2>2, <3>1
  <2>6. y \in 1..(x - 1)
    BY <2>4
  <2> HIDE DEF b
  <2> QED
    BY <2>5, <2>6, <1>2, <1>3 DEF FirstChat
<1>4. ASSUME FirstChat(M, f[x]), NEW y \in 1..(x - 1) 
      PROVE  Key(b[y]) # Key(b[x]) \/ b[y].mode # "chat"
  <2>1. y \in 1..n /\ y < x
    OBVIOUS
  <2>2. f[y] < f[x]
    BY <2>1, KeptOrder
  <2>3. f[y] \in Keyed(M, R) /\ f[y] \in Nat /\ b[y] = M[f[y]]
    BY <2>1 DEF KeptAt, Enumerates, Keyed
  <2>4. f[y] \in 1..(f[x] - 1)
    BY <2>2, <2>3, <1>2 DEF Keyed
  <2> HIDE DEF b
  <2> QED
    BY <2>3, <2>4, <1>2, <1>4 DEF FirstChat
<1>5. FirstChat(b, x) <=> FirstChat(M, f[x])
  <2> HIDE DEF b
  <2> QED
    BY <1>2, <1>3, <1>4 DEF FirstChat
<1> HIDE DEF b
<1> QED
  BY <1>1, <1>2, <1>5 DEF Served, Both, b

\* standard.chain on the rendered file lists the template's first chat blocks.
LEMMA ChainOfKept ==
  ASSUME NEW M \in Seq(Block), NEW R, NEW K, K \subseteq Providers
  PROVE  Lists(Chain(Kept(M, R), K), M, Served(M, Both(R, K)), Ahead(M))
<1> DEFINE b == Kept(M, R)
           s == Chain(b, K)
           S == Served(M, Both(R, K))
<1>1. PICK n \in Nat : \E f : KeptAt(f, n, M, R)
  BY KeptLists DEF Lists, KeptAt
<1>2. PICK f : KeptAt(f, n, M, R)
  BY <1>1
<1>3. b \in Seq(Block) /\ Len(b) = n
  BY <1>2, KeptLists DEF KeptAt
<1> HIDE DEF b
<1>4. Lists(s, b, Served(b, K), Ahead(b))
  BY <1>3, ChainLists
<1>5. PICK c \in Nat : \E h : Enumerates(h, c, Served(b, K), Ahead(b)) /\ s = [i \in 1..c |-> b[h[i]]]
  BY <1>4 DEF Lists
<1>6. PICK h : Enumerates(h, c, Served(b, K), Ahead(b)) /\ s = [i \in 1..c |-> b[h[i]]]
  BY <1>5
<1> DEFINE g == [i \in 1..c |-> f[h[i]]]
<1>7. \A i \in 1..c : h[i] \in Served(b, K) /\ h[i] \in 1..n
  BY <1>3, <1>6 DEF Enumerates, Served
<1>8. \A x \in 1..n : f[x] \in Nat /\ b[x] = M[f[x]] /\ f[x] \in Keyed(M, R)
  <2>1. ASSUME NEW x \in 1..n
        PROVE  f[x] \in Keyed(M, R) /\ f[x] \in Nat /\ Kept(M, R)[x] = M[f[x]]
    BY <1>1, <1>2 DEF KeptAt, Enumerates, Keyed
  <2> QED
    BY <2>1 DEF b
<1>9. \A x \in 1..n : x \in Served(b, K) <=> f[x] \in S
  BY <1>2, ServedKept DEF b
<1>10. \A x, y \in 1..n : x < y <=> f[x] < f[y]
  BY <1>2, KeptOrder
<1> HIDE DEF S, s
<1>11. g \in [1..c -> S]
  <2>1. \A i \in 1..c : f[h[i]] \in S
    BY <1>7, <1>9
  <2> QED
    BY <2>1
<1>12. ASSUME NEW x \in S PROVE \E i \in 1..c : g[i] = x
  <2>1. x \in Keyed(M, R)
    BY DEF S, Served, Keyed, Both
  <2>2. PICK y \in 1..n : f[y] = x
    BY <2>1, <1>2, KeptOrder
  <2>3. y \in Served(b, K)
    BY <2>2, <1>9
  <2>4. PICK i \in 1..c : h[i] = y
    BY <2>3, <1>6 DEF Enumerates
  <2> QED
    BY <2>2, <2>4
<1>13. ASSUME NEW i \in 1..c, NEW j \in 1..c, i < j PROVE <<g[i], g[j]>> \in Ahead(M)
  <2>1. <<h[i], h[j]>> \in Ahead(b)
    BY <1>6, <1>13 DEF Enumerates
  <2>2. PICK x \in 1..n : x = h[i]
    BY <1>7
  <2>3. PICK y \in 1..n : y = h[j]
    BY <1>7
  <2>4. \/ RankOf(b[x]) < RankOf(b[y])
        \/ RankOf(b[x]) = RankOf(b[y]) /\ x < y
    BY <2>1, <2>2, <2>3 DEF Ahead
  <2>5. \/ RankOf(M[f[x]]) < RankOf(M[f[y]])
        \/ RankOf(M[f[x]]) = RankOf(M[f[y]]) /\ f[x] < f[y]
    BY <2>4, <1>8, <1>10
  <2>6. <<f[x], f[y]>> \in Ahead(M)
    BY <2>5, <1>8 DEF Ahead
  <2> QED
    BY <2>2, <2>3, <2>6
<1>14. s = [i \in 1..c |-> M[g[i]]]
  <2>1. \A i \in 1..c : b[h[i]] = M[g[i]]
    BY <1>7, <1>8
  <2> QED
    BY <2>1, <1>6
<1> HIDE DEF g
<1>15. Enumerates(g, c, S, Ahead(M))
  BY <1>11, <1>12, <1>13 DEF Enumerates
<1> QED
  BY <1>14, <1>15 DEF Lists, S, s, b

-----------------------------------------------------------------------------
(* Copies under a route's name. *)

\* Blocks whose backend is that of a chat block before them add nothing.
LEMMA CopiesIgnored ==
  ASSUME NEW b \in Seq(Block), NEW d \in Seq(Block), NEW K, K \subseteq Providers,
         \A i \in 1..Len(d) : \E j \in 1..Len(b) : Key(b[j]) = Key(d[i]) /\ b[j].mode = "chat"
  PROVE  Chain(b \o d, K) = Chain(b, K)
<1> DEFINE u == b \o d
           S == Served(b, K)
<1>1. PICK n \in Nat : n = Len(b)
  OBVIOUS
<1>2. PICK k \in Nat : k = Len(d)
  OBVIOUS
<1>3. u \in Seq(Block) /\ Len(u) = n + k
  BY <1>1, <1>2, ConcatProperties
<1>4. \A i \in 1..(n + k) : u[i] = IF i <= n THEN b[i] ELSE d[i - n]
  BY <1>1, <1>2, ConcatProperties
<1> HIDE DEF u
<1>5. ASSUME NEW i \in 1..n PROVE u[i] = b[i] /\ (FirstChat(u, i) <=> FirstChat(b, i))
  <2>1. i \in 1..(n + k) /\ i <= n /\ \A j \in 1..(i - 1) : j \in 1..(n + k) /\ j <= n
    OBVIOUS
  <2>2. u[i] = b[i] /\ \A j \in 1..(i - 1) : u[j] = b[j]
    BY <2>1, <1>4
  <2> QED
    BY <2>2 DEF FirstChat
<1>6. ASSUME NEW i \in 1..(n + k), i > n PROVE ~FirstChat(u, i)
  <2>1. i - n \in 1..k /\ ~(i <= n)
    BY <1>6
  <2>2. PICK j \in 1..n : Key(b[j]) = Key(d[i - n]) /\ b[j].mode = "chat"
    BY <2>1, <1>1, <1>2
  <2>3. j \in 1..(i - 1) /\ u[j] = b[j] /\ u[i] = d[i - n]
    BY <2>1, <1>4, <1>5, <1>6
  <2> QED
    BY <2>2, <2>3 DEF FirstChat
<1>7. Served(u, K) = S
  <2>1. ASSUME NEW i PROVE i \in Served(u, K) <=> i \in S
    <3>1. i \in Served(u, K) <=>
            /\ i \in 1..(n + k) /\ FirstChat(u, i)
            /\ Provider[u[i].host] \in K /\ Key(u[i]) \notin EXCLUDED
      BY <1>3 DEF Served
    <3>2. i \in S <=>
            /\ i \in 1..n /\ FirstChat(b, i)
            /\ Provider[b[i].host] \in K /\ Key(b[i]) \notin EXCLUDED
      BY <1>1 DEF Served
    <3>3. i \in 1..(n + k) => i \in 1..n \/ i > n
      OBVIOUS
    <3>4. i \in 1..n => i \in 1..(n + k)
      OBVIOUS
    <3> HIDE DEF S
    <3> QED
      BY <3>1, <3>2, <3>3, <3>4, <1>5, <1>6
  <2> QED
    BY <2>1
<1>8. Lists(Chain(u, K), u, S, Ahead(u)) /\ Lists(Chain(b, K), b, S, Ahead(b))
  BY <1>3, <1>7, ChainLists
<1>9. \A i \in S : i \in 1..n /\ i \in Nat /\ u[i] = b[i]
  BY <1>1, <1>5 DEF Served
<1>10. \A i, j \in S : <<i, j>> \in Ahead(u) => <<i, j>> \in Ahead(b)
  <2> HIDE DEF S
  <2> QED
    BY <1>9 DEF Ahead
<1>11. Lists(Chain(u, K), b, S, Ahead(b))
  <2> HIDE DEF S
  <2> QED
    BY <1>8, <1>9, <1>10, ListsSame
<1>12. \A i, j \in S : <<i, j>> \in Ahead(b) => <<j, i>> \notin Ahead(b)
  <2>1. S \subseteq Nat /\ \A i \in S : Provider[b[i].host] \in Providers
    BY <1>9 DEF Served
  <2> HIDE DEF S
  <2> QED
    BY <2>1, AheadOrders DEF Orders
<1>13. Chain(u, K) = Chain(b, K)
  <2> HIDE DEF S
  <2> QED
    BY <1>8, <1>11, <1>12, ListsUnique
<1> QED
  BY <1>13 DEF u

\* d has the deployments of s under the name r.
Copies(d, s, r) ==
  /\ d \in Seq(Block) /\ Len(d) = Len(s)
  /\ \A i \in 1..Len(s) : d[i].group = r /\ Key(d[i]) = Key(s[i])
  /\ \A i \in 1..Len(s) : d[i].redacted = IF r = "vision" THEN TRUE ELSE s[i].redacted

\* A block with another name.
LEMMA Renamed ==
  ASSUME NEW b \in Block, NEW r \in GroupNames
  PROVE  /\ [b EXCEPT !.group = r] \in Block
         /\ [b EXCEPT !.group = r].group = r
         /\ Key([b EXCEPT !.group = r]) = Key(b)
         /\ [b EXCEPT !.group = r].redacted = b.redacted
BY DEF Block, Blocks, Key

\* A block with another name whose messages are redacted or not.
Silent(b, r, c) == [b EXCEPT !.group = r, !.redacted = c]

LEMMA Redacted ==
  ASSUME NEW b \in Block, NEW r \in GroupNames, NEW c \in BOOLEAN
  PROVE  /\ Silent(b, r, c) \in Block /\ Silent(b, r, c).group = r
         /\ Key(Silent(b, r, c)) = Key(b) /\ Silent(b, r, c).redacted = c
<1> DEFINE d == [b EXCEPT !.group = r, !.redacted = c]
<1>1. b \in [group : GroupNames, model : STRING, host : STRING, mode : STRING, redacted : BOOLEAN]
  BY DEF Block, Blocks
<1>2. d.group = r /\ d.redacted = c /\ d.model = b.model /\ d.host = b.host /\ d.mode = b.mode
  BY <1>1
<1>3. d \in [group : GroupNames, model : STRING, host : STRING, mode : STRING, redacted : BOOLEAN]
  BY <1>1
<1> HIDE DEF d
<1>4. d \in Block /\ Key(d) = Key(b)
  BY <1>2, <1>3 DEF Block, Blocks, Key
<1>5. d = Silent(b, r, c)
  BY DEF d, Silent
<1> QED
  BY <1>2, <1>4, <1>5

\* The four names are names.
LEMMA RouteNamesAreNames == RouteNames \subseteq GroupNames
BY DEF GroupNames

\* standard.render_blocks.
LEMMA DeploymentsCopy ==
  ASSUME NEW s \in Seq(Block), NEW r \in GroupNames, r # "vision"
  PROVE  Copies(Deployments(r, s), s, r)
<1> DEFINE d == Deployments(r, s)
<1>1. DOMAIN s = 1..Len(s) /\ Len(s) \in Nat /\ \A i \in 1..Len(s) : s[i] \in Block
  OBVIOUS
<1>2. d = [n \in 1..Len(s) |-> [s[n] EXCEPT !.group = r]]
  BY <1>1 DEF Deployments
<1>3. \A i \in 1..Len(s) : /\ d[i] \in Block /\ d[i].group = r /\ Key(d[i]) = Key(s[i])
                            /\ d[i].redacted = s[i].redacted
  <2>1. \A i \in 1..Len(s) : d[i] = [s[i] EXCEPT !.group = r]
    BY <1>2
  <2>2. ASSUME NEW i \in 1..Len(s)
        PROVE  /\ d[i] \in Block /\ d[i].group = r /\ Key(d[i]) = Key(s[i])
               /\ d[i].redacted = s[i].redacted
    <3> DEFINE e == [s[i] EXCEPT !.group = r]
    <3>1. /\ e \in Block /\ e.group = r /\ Key(e) = Key(s[i])
          /\ e.redacted = s[i].redacted
      BY <1>1, Renamed
    <3>2. d[i] = e
      BY <2>1
    <3> HIDE DEF d, e
    <3> QED
      BY <3>1, <3>2
  <2> QED
    BY <2>2
<1>4. d \in Seq(Block) /\ Len(d) = Len(s)
  <2>1. DOMAIN d = 1..Len(s)
    BY <1>2
  <2>2. d = [n \in 1..Len(s) |-> d[n]]
    BY <1>2
  <2> HIDE DEF d
  <2> QED
    BY <1>1, <1>3, <2>1, <2>2
<1> HIDE DEF d
<1>5. Copies(d, s, r)
  BY <1>3, <1>4 DEF Copies
<1> QED
  BY <1>5 DEF d

\* vision_route.render_blocks.
LEMMA VisionDeploymentsCopy ==
  ASSUME NEW s \in Seq(Block)
  PROVE  Copies(VisionDeployments(s), s, "vision")
<1> DEFINE d == VisionDeployments(s)
<1>1. DOMAIN s = 1..Len(s) /\ Len(s) \in Nat /\ \A i \in 1..Len(s) : s[i] \in Block
  OBVIOUS
<1>2. PICK c \in BOOLEAN : c = TRUE
  OBVIOUS
<1>3. d = [n \in 1..Len(s) |-> Silent(s[n], "vision", c)]
  BY <1>1, <1>2, Zenon DEF VisionDeployments, Silent
<1>4. \A i \in 1..Len(s) : /\ d[i] \in Block /\ d[i].group = "vision" /\ Key(d[i]) = Key(s[i])
                            /\ d[i].redacted = c
  <2>1. \A i \in 1..Len(s) : d[i] = Silent(s[i], "vision", c)
    BY <1>3
  <2>2. ASSUME NEW i \in 1..Len(s)
        PROVE  /\ d[i] \in Block /\ d[i].group = "vision" /\ Key(d[i]) = Key(s[i])
               /\ d[i].redacted = c
    <3>1. s[i] \in Block /\ "vision" \in GroupNames
      BY <1>1, RouteNamesAreNames DEF RouteNames
    <3>2. d[i] = Silent(s[i], "vision", c)
      BY <2>1
    <3> HIDE DEF d
    <3> QED
      BY <3>1, <3>2, Redacted
  <2> QED
    BY <2>2
<1>5. d \in Seq(Block) /\ Len(d) = Len(s)
  <2>1. DOMAIN d = 1..Len(s)
    BY <1>3
  <2>2. d = [n \in 1..Len(s) |-> d[n]]
    BY <1>3
  <2> HIDE DEF d
  <2> QED
    BY <1>1, <1>4, <2>1, <2>2
<1> HIDE DEF d
<1>6. Copies(d, s, "vision")
  BY <1>2, <1>4, <1>5 DEF Copies
<1> QED
  BY <1>6 DEF d

-----------------------------------------------------------------------------
(* What a start renders. *)

\* The template's deployments bear no route's name and are not redacted.
LEMMA MergedBlocks ==
  ASSUME NEW t \in Templates
  PROVE  /\ Merged(t) \in Seq(Block)
         /\ \A i \in 1..Len(Merged(t)) : ~Merged(t)[i].redacted /\ Merged(t)[i].group \notin RouteNames
<1>1. /\ t.fork \in Seq(Block) /\ t.upstream \in Seq(Block)
      /\ \A b \in ToSet(t.fork) \union ToSet(t.upstream) : ~b.redacted /\ b.group \notin RouteNames
  BY RoutesAssumption
<1> DEFINE f == t.fork
           u == t.upstream
<1>2. /\ \A i \in 1..Len(f) : ~f[i].redacted /\ f[i].group \notin RouteNames
      /\ \A i \in 1..Len(u) : ~u[i].redacted /\ u[i].group \notin RouteNames
  <2>1. /\ \A i \in 1..Len(f) : f[i] \in ToSet(f)
        /\ \A i \in 1..Len(u) : u[i] \in ToSet(u)
    BY <1>1 DEF ToSet
  <2> QED
    BY <1>1, <2>1
<1> HIDE DEF f, u
<1>3. Merged(t) = f \o u
  BY DEF Merged, f, u
<1>4. f \in Seq(Block) /\ u \in Seq(Block)
  BY <1>1 DEF f, u
<1>5. PICK n \in Nat : n = Len(f)
  BY <1>4
<1>6. PICK m \in Nat : m = Len(u)
  BY <1>4
<1> DEFINE T == f \o u
<1>7. T \in Seq(Block) /\ Len(T) = n + m
      /\ \A i \in 1..(n + m) : T[i] = IF i <= n THEN f[i] ELSE u[i - n]
  BY <1>4, <1>5, <1>6, ConcatProperties
<1> HIDE DEF T
<1>8. ASSUME NEW i \in 1..(n + m) PROVE ~T[i].redacted /\ T[i].group \notin RouteNames
  <2>1. CASE i <= n
    <3>1. i \in 1..n
      BY <2>1
    <3> QED
      BY <3>1, <2>1, <1>2, <1>5, <1>7
  <2>2. CASE ~(i <= n)
    <3>1. i - n \in 1..m
      BY <2>2
    <3> QED
      BY <3>1, <2>2, <1>2, <1>6, <1>7
  <2> QED
    BY <2>1, <2>2
<1> QED
  BY <1>3, <1>7, <1>8 DEF T

\* Nor do those render-config.py keeps.
LEMMA KeptPlain ==
  ASSUME NEW t \in Templates, NEW R
  PROVE  /\ Kept(Merged(t), R) \in Seq(Block)
         /\ \A i \in 1..Len(Kept(Merged(t), R)) :
              /\ ~Kept(Merged(t), R)[i].redacted
              /\ Kept(Merged(t), R)[i].group \notin RouteNames
<1> DEFINE M == Merged(t)
           b == Kept(M, R)
<1>1. M \in Seq(Block) /\ \A i \in 1..Len(M) : ~M[i].redacted /\ M[i].group \notin RouteNames
  BY MergedBlocks
<1> HIDE DEF M
<1>2. b \in Seq(Block) /\ Lists(b, M, Keyed(M, R), Upward)
  BY <1>1, KeptLists
<1>3. \A x \in Keyed(M, R) : x \in 1..Len(M) /\ M[x] \in Block
  BY <1>1 DEF Keyed
<1> HIDE DEF b
<1>4. \A i \in 1..Len(b) : \E x \in Keyed(M, R) : b[i] = M[x]
  BY <1>2, <1>3, ListsMembers
<1>5. \A i \in 1..Len(b) : ~b[i].redacted /\ b[i].group \notin RouteNames
  BY <1>1, <1>3, <1>4
<1> QED
  BY <1>2, <1>5 DEF b, M

\* A chain is made of chat blocks of the file.
LEMMA ChainBlocks ==
  ASSUME NEW b \in Seq(Block), NEW K, K \subseteq Providers
  PROVE  /\ Chain(b, K) \in Seq(Block)
         /\ \A i \in 1..Len(Chain(b, K)) : \E j \in 1..Len(b) : Chain(b, K)[i] = b[j] /\ b[j].mode = "chat"
<1> DEFINE c == Chain(b, K)
           S == Served(b, K)
<1>1. Lists(c, b, S, Ahead(b))
  BY ChainLists
<1>2. \A x \in S : x \in 1..Len(b) /\ b[x] \in Block /\ b[x].mode = "chat"
  BY DEF Served, FirstChat
<1> HIDE DEF c, S
<1>3. c \in Seq(Block) /\ \A i \in 1..Len(c) : \E x \in S : c[i] = b[x]
  BY <1>1, <1>2, ListsMembers
<1>4. \A i \in 1..Len(c) : \E j \in 1..Len(b) : c[i] = b[j] /\ b[j].mode = "chat"
  BY <1>2, <1>3
<1> QED
  BY <1>3, <1>4 DEF c

\* s is made of members of c.
Within(s, c) ==
  s \in Seq(Block) /\ \A i \in 1..Len(s) : \E j \in 1..Len(c) : s[i] = c[j]

\* A filter adds nothing.
LEMMA OnlyWithin ==
  ASSUME NEW c \in Seq(Block), NEW W
  PROVE  Within(Only(c, W), c)
<1> DEFINE s == Only(c, W)
<1>1. s \in Seq(Block \cap W)
  BY OnlyKeeps
<1>2. \A i \in 1..Len(s) : \E j \in 1..Len(c) : s[i] = c[j]
  <2>1. Lists(c, c, 1..Len(c), Upward)
    BY ListsItself
  <2>2. Lists(s, c, {j \in 1..Len(c) : c[j] \in W}, Upward)
    BY <2>1, ListsOnly
  <2> DEFINE S == {j \in 1..Len(c) : c[j] \in W}
  <2>3. \A j \in S : c[j] \in Block /\ j \in 1..Len(c)
    OBVIOUS
  <2> HIDE DEF S, s
  <2> QED
    BY <2>2, <2>3, ListsMembers DEF S
<1>3. \A i \in 1..Len(s) : s[i] \in Block
  BY <1>1
<1>4. s \in Seq(Block)
  <2> HIDE DEF s
  <2> QED
    BY <1>1, <1>3
<1> HIDE DEF s
<1>5. Within(s, c)
  BY <1>2, <1>4 DEF Within
<1> QED
  BY <1>5 DEF s

\* What classify_route.chain makes of a chain.
ByList(c) ==
  LET named == Only(CLASSIFY_ORDER, KeysOf(c))
  IN  [n \in DOMAIN named |-> c[CHOOSE i \in DOMAIN c : Key(c[i]) = named[n]]]

\* It has the named deployments of the chain in the order of the list.
LEMMA ByListNamed ==
  ASSUME NEW c \in Seq(Block), NEW named, named = Only(CLASSIFY_ORDER, KeysOf(c))
  PROVE  /\ Within(ByList(c), c)
         /\ named \in Seq(ToSet(CLASSIFY_ORDER)) /\ Len(ByList(c)) = Len(named)
         /\ \A n \in 1..Len(named) : Key(ByList(c)[n]) = named[n]
<1> DEFINE s == ByList(c)
           At(n) == CHOOSE i \in DOMAIN c : Key(c[i]) = named[n]
<1>1. CLASSIFY_ORDER \in Seq(ToSet(CLASSIFY_ORDER))
  BY RoutesAssumption
<1>2. named \in Seq(ToSet(CLASSIFY_ORDER) \cap KeysOf(c))
  BY <1>1, OnlyKeeps
<1>3. PICK m \in Nat : m = Len(named)
  BY <1>2
<1>4. DOMAIN named = 1..m /\ \A n \in 1..m : named[n] \in ToSet(CLASSIFY_ORDER) /\ named[n] \in KeysOf(c)
  BY <1>2, <1>3
<1>5. s = [n \in 1..m |-> c[At(n)]]
  <2>1. s = [n \in DOMAIN named |-> c[CHOOSE i \in DOMAIN c : Key(c[i]) = named[n]]]
    BY DEF ByList
  <2> QED
    BY <1>4, <2>1
<1>6. \A n \in 1..m : At(n) \in DOMAIN c /\ Key(c[At(n)]) = named[n]
  BY <1>4 DEF KeysOf
<1> HIDE DEF At
<1>7. DOMAIN c = 1..Len(c) /\ \A i \in 1..Len(c) : c[i] \in Block
  OBVIOUS
<1>8. \A n \in 1..m : s[n] = c[At(n)]
  BY <1>5
<1>9. s \in Seq(Block) /\ Len(s) = m
  <2>1. \A n \in 1..m : c[At(n)] \in Block
    BY <1>6, <1>7
  <2> QED
    BY <1>5, <2>1
<1>10. named \in Seq(ToSet(CLASSIFY_ORDER))
  <2> DEFINE E == ToSet(CLASSIFY_ORDER)
             W == KeysOf(c)
  <2>1. named \in Seq(E \cap W)
    BY <1>2
  <2> HIDE DEF E, W
  <2>2. named \in Seq(E)
    <3>1. \A n \in 1..Len(named) : named[n] \in E
      BY <2>1
    <3> QED
      BY <2>1, <3>1
  <2> QED
    BY <2>2 DEF E
<1> HIDE DEF s
<1>11. Within(s, c)
  BY <1>6, <1>7, <1>8, <1>9 DEF Within
<1>12. \A n \in 1..m : Key(s[n]) = named[n]
  BY <1>6, <1>8
<1> QED
  BY <1>3, <1>9, <1>10, <1>11, <1>12 DEF s

\* b starts with the blocks of b0.
Starts(b, b0) ==
  /\ b \in Seq(Block) /\ Len(b0) <= Len(b)
  /\ \A i \in 1..Len(b0) : b[i] = b0[i]

\* The copies of a route do not change what the next route is built from.
LEMMA AddCopies ==
  ASSUME NEW b0 \in Seq(Block), NEW b, Starts(b, b0), NEW K, K \subseteq Providers,
         NEW c, c = Chain(b0, K), Chain(b, K) = c, NEW s, Within(s, c), NEW d, NEW r, Copies(d, s, r)
  PROVE  Starts(b \o d, b0) /\ Chain(b \o d, K) = c
<1>1. \A i \in 1..Len(c) : \E j \in 1..Len(b0) : c[i] = b0[j] /\ b0[j].mode = "chat"
  BY ChainBlocks
<1>2. b \in Seq(Block) /\ Len(b0) <= Len(b) /\ \A i \in 1..Len(b0) : b[i] = b0[i] /\ i \in 1..Len(b)
  BY DEF Starts
<1>3. d \in Seq(Block) /\ Len(d) = Len(s) /\ \A i \in 1..Len(s) : Key(d[i]) = Key(s[i])
  BY DEF Copies
<1>4. \A i \in 1..Len(s) : \E j \in 1..Len(c) : s[i] = c[j]
  BY DEF Within
<1>5. ASSUME NEW i \in 1..Len(d) PROVE \E j \in 1..Len(b) : Key(b[j]) = Key(d[i]) /\ b[j].mode = "chat"
  <2>1. PICK x \in 1..Len(c) : s[i] = c[x]
    BY <1>3, <1>4
  <2>2. PICK j \in 1..Len(b0) : c[x] = b0[j] /\ b0[j].mode = "chat"
    BY <1>1
  <2>3. b[j] = b0[j] /\ j \in 1..Len(b)
    BY <1>2
  <2>4. Key(b[j]) = Key(d[i])
    BY <1>3, <2>1, <2>2, <2>3
  <2> QED
    BY <2>2, <2>3, <2>4
<1>6. Chain(b \o d, K) = Chain(b, K)
  BY <1>2, <1>3, <1>5, CopiesIgnored
<1>7. PICK n \in Nat : n = Len(b)
  BY <1>2
<1>8. PICK m \in Nat : m = Len(d)
  BY <1>3
<1>9. PICK k \in Nat : k = Len(b0)
  OBVIOUS
<1> DEFINE T == b \o d
<1>10. T \in Seq(Block) /\ Len(T) = n + m
  BY <1>2, <1>3, <1>7, <1>8, ConcatProperties
<1>11. \A i \in 1..(n + m) : T[i] = IF i <= n THEN b[i] ELSE d[i - n]
  BY <1>2, <1>3, <1>7, <1>8, ConcatProperties
<1> HIDE DEF T
<1>12. \A i \in 1..k : T[i] = b0[i]
  <2>1. \A i \in 1..k : i \in 1..(n + m) /\ i <= n
    BY <1>2, <1>7, <1>9
  <2> QED
    BY <2>1, <1>2, <1>9, <1>11
<1>13. k <= Len(T)
  BY <1>2, <1>7, <1>9, <1>10
<1>14. Starts(T, b0)
  BY <1>9, <1>10, <1>12, <1>13 DEF Starts
<1> QED
  BY <1>6, <1>14 DEF T

\* The blocks of one name.
Named(b, r) == Only(b, Blocks({r}))

\* The copies of one route are its group, and in no other.
LEMMA AddGroup ==
  ASSUME NEW b \in Seq(Block), NEW d, NEW s, NEW r \in RouteNames, Copies(d, s, r), NEW q \in RouteNames
  PROVE  Named(b \o d, q) = IF q = r THEN Named(b, q) \o d ELSE Named(b, q)
<1>1. d \in Seq(Block) /\ \A i \in 1..Len(d) : d[i] \in Block /\ d[i].group = r
  BY DEF Copies
<1>2. Named(b \o d, q) = Named(b, q) \o Named(d, q)
  BY <1>1, OnlyConcat DEF Named
<1>3. CASE q = r
  <2>1. \A i \in 1..Len(d) : d[i] \in Blocks({q})
    BY <1>1, <1>3 DEF Block, Blocks
  <2>2. Named(d, q) = d
    BY <1>1, <2>1, OnlyAllOrNone DEF Named
  <2> QED
    BY <1>2, <1>3, <2>2
<1>4. CASE q # r
  <2>1. \A i \in 1..Len(d) : d[i] \notin Blocks({q})
    BY <1>1, <1>4 DEF Blocks
  <2>2. Named(d, q) = <<>>
    BY <1>1, <2>1, OnlyAllOrNone DEF Named
  <2>3. Named(b, q) \in Seq(Block)
    BY OnlyWithin DEF Named, Within
  <2>4. Named(b, q) \o <<>> = Named(b, q)
    BY <2>3, ConcatEmptySeq
  <2> QED
    BY <1>2, <1>4, <2>2, <2>4
<1> QED
  BY <1>3, <1>4

\* A file without a route's name has none of its deployments.
LEMMA NoGroup ==
  ASSUME NEW b \in Seq(Block), NEW q \in RouteNames, \A i \in 1..Len(b) : b[i].group \notin RouteNames
  PROVE  Named(b, q) = <<>>
<1>1. \A i \in 1..Len(b) : b[i] \notin Blocks({q})
  BY DEF Blocks
<1> QED
  BY <1>1, OnlyAllOrNone DEF Named

StandardOf(c) == Only(c, {b \in Block : Key(b) \notin RESERVED})

VerifiedOf(c, verified) == Only(c, {b \in Block : Key(b) \in verified})

\* The four chains of a rendering are narrowed from one chain c.
Chains(c) ==
  [standard |-> StandardOf(c), tools |-> VerifiedOf(c, ToolsVerified),
   vision |-> VerifiedOf(c, VisionVerified), classify |-> ByList(c)]

\* Exactly the deployments of `vision` are redacted.
Marked(b) == \A i \in 1..Len(b) : b[i].redacted <=> b[i].group = "vision"

\* A route's copies are redacted if and only if it is `vision`.
LEMMA AddMarked ==
  ASSUME NEW b \in Seq(Block), NEW d, NEW s, NEW r, Copies(d, s, r), Marked(b),
         \A i \in 1..Len(s) : ~s[i].redacted
  PROVE  b \o d \in Seq(Block) /\ Marked(b \o d)
<1>1. /\ d \in Seq(Block) /\ Len(d) = Len(s)
      /\ \A i \in 1..Len(s) : d[i].redacted <=> d[i].group = "vision"
  <2>1. \A i \in 1..Len(s) : d[i].group = r /\ d[i].redacted = IF r = "vision" THEN TRUE ELSE s[i].redacted
    BY DEF Copies
  <2>2. CASE r = "vision"
    BY <2>1, <2>2 DEF Copies
  <2>3. CASE r # "vision"
    <3>1. \A i \in 1..Len(s) : d[i].group = r /\ d[i].redacted = s[i].redacted
      BY <2>1, <2>3
    <3> QED
      BY <3>1, <2>3 DEF Copies
  <2> QED
    BY <2>2, <2>3
<1>2. PICK n \in Nat : n = Len(b)
  OBVIOUS
<1>3. PICK m \in Nat : m = Len(d)
  BY <1>1
<1> DEFINE T == b \o d
<1>4. T \in Seq(Block) /\ Len(T) = n + m
  BY <1>1, <1>2, <1>3, ConcatProperties
<1>5. \A i \in 1..(n + m) : T[i] = IF i <= n THEN b[i] ELSE d[i - n]
  BY <1>1, <1>2, <1>3, ConcatProperties
<1> HIDE DEF T
<1>6. ASSUME NEW i \in 1..(n + m) PROVE T[i].redacted <=> T[i].group = "vision"
  <2>1. CASE i <= n
    <3>1. i \in 1..n /\ T[i] = b[i]
      BY <2>1, <1>5
    <3> QED
      BY <3>1, <1>2 DEF Marked
  <2>2. CASE ~(i <= n)
    <3>1. i - n \in 1..m /\ T[i] = d[i - n]
      BY <2>2, <1>5
    <3> QED
      BY <3>1, <1>1, <1>3
  <2> QED
    BY <2>1, <2>2
<1>7. Marked(T)
  BY <1>4, <1>6 DEF Marked
<1> QED
  BY <1>4, <1>7 DEF T

\* One route more: its copies are its group, are found by no other route, and
\* leave the chain as it was.
Grown(b, b0, K, c) == Starts(b, b0) /\ Chain(b, K) = c /\ Marked(b)

\* A route's copies can be added to a file that has those before it.
LEMMA AddRoute ==
  ASSUME NEW b0 \in Seq(Block), NEW K, K \subseteq Providers, NEW c, c = Chain(b0, K),
         \A i \in 1..Len(b0) : ~b0[i].redacted,
         NEW b, Grown(b, b0, K, c), NEW s, Within(s, c), NEW d, NEW r, Copies(d, s, r)
  PROVE  b \in Seq(Block) /\ Grown(b \o d, b0, K, c)
<1>1. Starts(b, b0) /\ Chain(b, K) = c /\ Marked(b) /\ b \in Seq(Block)
  BY DEF Grown, Starts
<1>2. Starts(b \o d, b0) /\ Chain(b \o d, K) = c
  BY <1>1, AddCopies
<1>3. ASSUME NEW i \in 1..Len(s) PROVE ~s[i].redacted
  <2>1. PICK j \in 1..Len(c) : s[i] = c[j]
    BY DEF Within
  <2>2. PICK x \in 1..Len(b0) : c[j] = b0[x]
    BY ChainBlocks
  <2> QED
    BY <2>1, <2>2
<1>4. Marked(b \o d)
  BY <1>1, <1>3, AddMarked
<1> QED
  BY <1>1, <1>2, <1>4 DEF Grown

\* The routes' copies stand behind the file, one route after the other.
Built(l, b0, K, c) ==
  \E d1, d2, d3, d4 :
    /\ l.deployments = (((b0 \o d1) \o d2) \o d3) \o d4
    /\ Copies(d1, StandardOf(c), "standard")
    /\ Copies(d2, VerifiedOf(c, ToolsVerified), "tools")
    /\ Copies(d3, VerifiedOf(c, VisionVerified), "vision")
    /\ Copies(d4, ByList(c), "classify")
    /\ Grown((((b0 \o d1) \o d2) \o d3) \o d4, b0, K, c)

\* What render.render makes of a file: the chains are all narrowed from the
\* chain of the file without the routes.
LEMMA RenderedAs ==
  ASSUME NEW t \in Templates, NEW R, NEW K, K \subseteq Providers,
         NEW b0, b0 = Kept(Merged(t), R), NEW c, c = Chain(b0, K),
         NEW l, l = Rendered(t, R, K)
  PROVE  /\ l.chains = Chains(c) /\ l.closed = Closed(Chains(c))
         /\ l.depth = Depth(Chains(c)) /\ l.from = Both(R, K)
         /\ Built(l, b0, K, c)
<1> DEFINE k0 == Kept(Merged(t), R)
           s  == StandardChain(k0, K)
           b1 == k0 \o Deployments("standard", s)
           t1 == VerifiedChain(b1, K, ToolsVerified)
           b2 == b1 \o Deployments("tools", t1)
           v  == VerifiedChain(b2, K, VisionVerified)
           b3 == b2 \o VisionDeployments(v)
           cl == ClassifyChain(b3, K)
           ch == [standard |-> s, tools |-> t1, vision |-> v, classify |-> cl]
<1>1. l = [deployments |-> b3 \o Deployments("classify", cl), chains |-> ch,
           closed |-> Closed(ch), depth |-> Depth(ch), from |-> K \cap (R \union Optional)]
  BY Zenon DEF Rendered
<1>2. b0 \in Seq(Block) /\ \A i \in 1..Len(b0) : ~b0[i].redacted /\ b0[i].group \notin RouteNames
  BY KeptPlain
<1>3. c \in Seq(Block)
  BY <1>2, ChainBlocks
<1>4. Grown(b0, b0, K, c)
  BY <1>2 DEF Grown, Starts, Marked, RouteNames
<1>5. k0 = b0
  OBVIOUS
<1> HIDE DEF k0, ch, cl
<1>6. s = StandardOf(c) /\ Within(s, c) /\ Copies(Deployments("standard", s), s, "standard")
  <2>1. s = StandardOf(c)
    BY <1>5 DEF StandardChain, StandardOf
  <2>2. Within(s, c)
    BY <2>1, <1>3, OnlyWithin DEF StandardOf
  <2>3. "standard" \in GroupNames /\ "standard" # "vision"
    BY RouteNamesAreNames DEF RouteNames
  <2> QED
    BY <2>1, <2>2, <2>3, DeploymentsCopy DEF Within
<1> HIDE DEF s
<1>7. b1 = b0 \o Deployments("standard", s) /\ Grown(b1, b0, K, c)
  <2>1. b1 = b0 \o Deployments("standard", s)
    BY <1>5
  <2> QED
    BY <2>1, <1>2, <1>4, <1>6, AddRoute
<1> HIDE DEF b1
<1>8. t1 = VerifiedOf(c, ToolsVerified) /\ Within(t1, c) /\ Copies(Deployments("tools", t1), t1, "tools")
  <2>1. t1 = VerifiedOf(c, ToolsVerified)
    BY <1>7 DEF VerifiedChain, VerifiedOf, Grown
  <2>2. Within(t1, c)
    BY <2>1, <1>3, OnlyWithin DEF VerifiedOf
  <2>3. "tools" \in GroupNames /\ "tools" # "vision"
    BY RouteNamesAreNames DEF RouteNames
  <2> QED
    BY <2>1, <2>2, <2>3, DeploymentsCopy DEF Within
<1> HIDE DEF t1
<1>9. Grown(b2, b0, K, c)
  BY <1>2, <1>7, <1>8, AddRoute
<1> HIDE DEF b2
<1>10. v = VerifiedOf(c, VisionVerified) /\ Within(v, c) /\ Copies(VisionDeployments(v), v, "vision")
  <2>1. v = VerifiedOf(c, VisionVerified)
    BY <1>9 DEF VerifiedChain, VerifiedOf, Grown
  <2>2. Within(v, c)
    BY <2>1, <1>3, OnlyWithin DEF VerifiedOf
  <2> QED
    BY <2>1, <2>2, VisionDeploymentsCopy DEF Within
<1> HIDE DEF v
<1>11. Grown(b3, b0, K, c)
  BY <1>2, <1>9, <1>10, AddRoute
<1> HIDE DEF b3
<1>12. cl = ByList(c) /\ Within(cl, c) /\ Copies(Deployments("classify", cl), cl, "classify")
  <2>1. cl = ByList(c)
    <3>1. ClassifyChain(b3, K) = ByList(Chain(b3, K))
      BY DEF ClassifyChain, ByList
    <3>2. Chain(b3, K) = c
      BY <1>11 DEF Grown
    <3> QED
      BY <3>1, <3>2 DEF cl
  <2>2. Within(cl, c)
    BY <2>1, <1>3, ByListNamed
  <2>3. "classify" \in GroupNames /\ "classify" # "vision"
    BY RouteNamesAreNames DEF RouteNames
  <2> QED
    BY <2>1, <2>2, <2>3, DeploymentsCopy DEF Within
<1>13. Grown(b3 \o Deployments("classify", cl), b0, K, c)
  BY <1>2, <1>11, <1>12, AddRoute
<1>14. ch = Chains(c)
  BY <1>6, <1>8, <1>10, <1>12 DEF ch, Chains
<1>15. l.chains = Chains(c) /\ l.closed = Closed(Chains(c)) /\ l.depth = Depth(Chains(c)) /\ l.from = Both(R, K)
  BY <1>1, <1>14 DEF Both
<1>16. l.deployments = b3 \o Deployments("classify", cl)
  BY <1>1
<1>17. b3 = ((b0 \o Deployments("standard", s)) \o Deployments("tools", t1)) \o VisionDeployments(v)
  BY <1>7 DEF b3, b2
<1>18. Built(l, b0, K, c)
  BY <1>6, <1>8, <1>10, <1>12, <1>13, <1>16, <1>17, Zenon DEF Built
<1> QED
  BY <1>15, <1>18

\* The group of a route is its chain, under the route's name.
LEMMA RenderedGroups ==
  ASSUME NEW t \in Templates, NEW R, NEW K, K \subseteq Providers,
         NEW l, l = Rendered(t, R, K), NEW q \in RouteNames
  PROVE  /\ l.deployments \in Seq(Block) /\ Marked(l.deployments)
         /\ Copies(Named(l.deployments, q), l.chains[q], q)
<1>1. PICK b0 : b0 = Kept(Merged(t), R)
  OBVIOUS
<1>2. PICK c : c = Chain(b0, K)
  OBVIOUS
<1>3. b0 \in Seq(Block) /\ \A i \in 1..Len(b0) : b0[i].group \notin RouteNames
  BY <1>1, KeptPlain
<1>4. l.chains = Chains(c) /\ Built(l, b0, K, c)
  BY <1>1, <1>2, RenderedAs
<1>5. PICK d1, d2, d3, d4 :
           /\ l.deployments = (((b0 \o d1) \o d2) \o d3) \o d4
           /\ Copies(d1, StandardOf(c), "standard")
           /\ Copies(d2, VerifiedOf(c, ToolsVerified), "tools")
           /\ Copies(d3, VerifiedOf(c, VisionVerified), "vision")
           /\ Copies(d4, ByList(c), "classify")
           /\ Grown((((b0 \o d1) \o d2) \o d3) \o d4, b0, K, c)
  BY <1>4 DEF Built
<1> DEFINE b1 == b0 \o d1
           b2 == b1 \o d2
           b3 == b2 \o d3
<1>6. d1 \in Seq(Block) /\ d2 \in Seq(Block) /\ d3 \in Seq(Block) /\ d4 \in Seq(Block)
  BY <1>5 DEF Copies
<1>7. b1 \in Seq(Block)
  BY <1>3, <1>6, ConcatProperties
<1>8. l.deployments = b3 \o d4 /\ Grown(b3 \o d4, b0, K, c)
  BY <1>5
<1>9. "standard" \in RouteNames /\ "tools" \in RouteNames /\ "vision" \in RouteNames /\ "classify" \in RouteNames
  BY DEF RouteNames
<1>10. Named(b0, q) = <<>>
  BY <1>3, NoGroup
<1>11. Named(b1, q) = IF q = "standard" THEN <<>> \o d1 ELSE <<>>
  <2>1. Named(b1, q) = IF q = "standard" THEN Named(b0, q) \o d1 ELSE Named(b0, q)
    BY <1>3, <1>5, <1>9, AddGroup
  <2> QED
    BY <2>1, <1>10
<1>12. Named(b1, q) = IF q = "standard" THEN d1 ELSE <<>>
  BY <1>6, <1>11, ConcatEmptySeq
<1>13. Named(b2, q) = IF q = "tools" THEN Named(b1, q) \o d2 ELSE Named(b1, q)
  <2> HIDE DEF b1
  <2> QED
    BY <1>5, <1>7, <1>9, AddGroup
<1>14. b2 \in Seq(Block)
  <2> HIDE DEF b1
  <2> QED
    BY <1>6, <1>7, ConcatProperties
<1>15. Named(b3, q) = IF q = "vision" THEN Named(b2, q) \o d3 ELSE Named(b2, q)
  <2> HIDE DEF b2
  <2> QED
    BY <1>5, <1>9, <1>14, AddGroup
<1>16. b3 \in Seq(Block)
  <2> HIDE DEF b2
  <2> QED
    BY <1>6, <1>14, ConcatProperties
<1> HIDE DEF b1, b2, b3
<1>17. Named(l.deployments, q) = IF q = "classify" THEN Named(b3, q) \o d4 ELSE Named(b3, q)
  BY <1>5, <1>8, <1>9, <1>16, AddGroup
<1>18. /\ q = "standard" => Named(l.deployments, q) = d1
       /\ q = "tools" => Named(l.deployments, q) = d2
       /\ q = "vision" => Named(l.deployments, q) = d3
       /\ q = "classify" => Named(l.deployments, q) = d4
  <2>1. <<>> \o d2 = d2 /\ <<>> \o d3 = d3 /\ <<>> \o d4 = d4
    BY <1>6, ConcatEmptySeq
  <2> QED
    BY <2>1, <1>12, <1>13, <1>15, <1>17
<1>19. /\ q = "standard" => l.chains[q] = StandardOf(c)
       /\ q = "tools" => l.chains[q] = VerifiedOf(c, ToolsVerified)
       /\ q = "vision" => l.chains[q] = VerifiedOf(c, VisionVerified)
       /\ q = "classify" => l.chains[q] = ByList(c)
  BY <1>4 DEF Chains
<1>20. Copies(Named(l.deployments, q), l.chains[q], q)
  <2>1. q = "standard" \/ q = "tools" \/ q = "vision" \/ q = "classify"
    BY DEF RouteNames
  <2> QED
    BY <2>1, <1>5, <1>18, <1>19
<1>21. l.deployments \in Seq(Block) /\ Marked(l.deployments)
  BY <1>8 DEF Grown, Starts
<1> QED
  BY <1>20, <1>21

\* The longest chain is a maximum.
LEMMA Deepest ==
  ASSUME NEW ch, \A r \in RouteNames : Len(ch[r]) \in Nat
  PROVE  Depth(ch) \in Nat /\ \A r \in RouteNames : Len(ch[r]) <= Depth(ch)
<1> DEFINE L == Lengths(ch)
           Greatest(n) == \A m \in L : m <= n
<1>1. PICK w \in Nat : w = Len(ch["standard"])
  BY DEF RouteNames
<1>2. PICK x \in Nat : x = Len(ch["tools"])
  BY DEF RouteNames
<1>3. PICK y \in Nat : y = Len(ch["vision"])
  BY DEF RouteNames
<1>4. PICK z \in Nat : z = Len(ch["classify"])
  BY DEF RouteNames
<1>5. L = {w, x, y, z}
  BY <1>1, <1>2, <1>3, <1>4 DEF Lengths, RouteNames
<1> HIDE DEF L
<1>6. \E n \in L : Greatest(n)
  <2>1. \/ x <= w /\ y <= w /\ z <= w
        \/ w <= x /\ y <= x /\ z <= x
        \/ w <= y /\ x <= y /\ z <= y
        \/ w <= z /\ x <= z /\ y <= z
    OBVIOUS
  <2>2. w <= w /\ x <= x /\ y <= y /\ z <= z
    OBVIOUS
  <2> QED
    BY <2>1, <2>2, <1>5
<1>7. Depth(ch) = CHOOSE n \in L : Greatest(n)
  BY DEF Depth, L
<1>8. Depth(ch) \in L /\ Greatest(Depth(ch))
  <2> HIDE DEF Greatest
  <2> QED
    BY <1>6, <1>7
<1>9. \A r \in RouteNames : Len(ch[r]) \in L
  BY DEF L, Lengths
<1>10. Depth(ch) \in Nat
  BY <1>5, <1>8
<1> QED
  BY <1>8, <1>9, <1>10

\* What a request relies on while it walks a route.
Sound(l) ==
  /\ \A r \in RouteNames :
       /\ Copies(Named(l.deployments, r), l.chains[r], r)
       /\ l.chains[r] \in Seq(Block) /\ Len(l.chains[r]) <= l.depth
       /\ l.chains[r] # <<>> => r \in l.closed
  /\ l.closed \subseteq {b.group : b \in ToSet(l.deployments)}
  /\ l.depth \in Nat /\ l.from \subseteq Providers

\* Every rendering is sound.
LEMMA RenderedSound ==
  ASSUME NEW t \in Templates, NEW R, NEW K, K \subseteq Providers,
         NEW l, l = Rendered(t, R, K)
  PROVE  Sound(l)
<1>1. PICK b0 : b0 = Kept(Merged(t), R)
  OBVIOUS
<1>2. PICK c : c = Chain(b0, K)
  OBVIOUS
<1>3. c \in Seq(Block)
  BY <1>1, <1>2, KeptPlain, ChainBlocks
<1>4. /\ l.chains = Chains(c) /\ l.closed = Closed(Chains(c))
      /\ l.depth = Depth(Chains(c)) /\ l.from = Both(R, K)
  BY <1>1, <1>2, RenderedAs
<1>5. ASSUME NEW r \in RouteNames PROVE Chains(c)[r] \in Seq(Block)
  <2>1. /\ StandardOf(c) \in Seq(Block) /\ ByList(c) \in Seq(Block)
        /\ VerifiedOf(c, ToolsVerified) \in Seq(Block) /\ VerifiedOf(c, VisionVerified) \in Seq(Block)
    BY <1>3, OnlyWithin, ByListNamed DEF Within, StandardOf, VerifiedOf
  <2>2. r = "standard" \/ r = "tools" \/ r = "vision" \/ r = "classify"
    BY DEF RouteNames
  <2> QED
    BY <2>1, <2>2 DEF Chains
<1>6. l.depth \in Nat /\ \A r \in RouteNames : Len(l.chains[r]) <= l.depth
  <2>1. \A r \in RouteNames : Len(Chains(c)[r]) \in Nat
    BY <1>5
  <2> QED
    BY <2>1, <1>4, Deepest
<1>7. ASSUME NEW r \in RouteNames PROVE Copies(Named(l.deployments, r), l.chains[r], r)
  BY RenderedGroups
<1>8. l.deployments \in Seq(Block)
  BY RenderedGroups DEF RouteNames
<1>9. \A r \in RouteNames : l.chains[r] # <<>> <=> r \in l.closed
  BY <1>4 DEF Closed
<1>10. l.closed \subseteq RouteNames
  BY <1>4 DEF Closed
<1>11. ASSUME NEW r \in l.closed PROVE \E b \in ToSet(l.deployments) : b.group = r
  <2>1. r \in RouteNames /\ l.chains[r] # <<>> /\ l.chains[r] \in Seq(Block)
    BY <1>4, <1>5, <1>9, <1>10
  <2>2. Len(l.chains[r]) \in Nat /\ Len(l.chains[r]) # 0
    BY <2>1, EmptySeq
  <2>3. 1 \in 1..Len(l.chains[r])
    BY <2>2
  <2>4. Named(l.deployments, r)[1].group = r /\ 1 \in 1..Len(Named(l.deployments, r))
    BY <2>1, <2>3, <1>7 DEF Copies
  <2>5. PICK j \in 1..Len(l.deployments) : Named(l.deployments, r)[1] = l.deployments[j]
    BY <2>4, <1>8, OnlyWithin DEF Named, Within
  <2>6. l.deployments[j] \in ToSet(l.deployments)
    BY <1>8 DEF ToSet
  <2> QED
    BY <2>4, <2>5, <2>6
<1>12. l.from \subseteq Providers
  BY <1>4 DEF Both
<1> QED
  BY <1>4, <1>5, <1>6, <1>7, <1>9, <1>11, <1>12 DEF Sound

-----------------------------------------------------------------------------
(* The invariant. *)

Keys == (STRING \X STRING) \union {NoKey}

Requests ==
  [status : {"none", "walking", "answered", "failed"}, route : RouteNames,
   level : Nat, hops : Nat, tried : SUBSET Keys, by : Keys]

\* A walking request has been failed by every order before the current one,
\* with one hop for each.
Walks ==
  /\ request \in Requests
  /\ request.status # "none" => request.level \in 1..Len(Group(request.route))
  /\ request.status = "walking" =>
       /\ request.hops = request.level - 1
       /\ request.tried = {Key(Group(request.route)[i]) : i \in 1..(request.level - 1)}

Loaded == \E R, K \in SUBSET Providers : live = Rendered(template, R, K)

IInv ==
  /\ template \in Templates /\ keys \in SUBSET Providers /\ down \subseteq KeysOf(Merged(template))
  /\ Loaded /\ Walks /\ AnsweredWithinRoute /\ FailsOnlyWhenAllTried

\* Each deployment of a block has a key.
LEMMA KeyOfBlock == \A b \in Block : Key(b) \in Keys
BY DEF Block, Blocks, Key, Keys

\* The group of a route has its chain's keys, in the chain's order.
LEMMA GroupIsChain ==
  ASSUME Sound(live), NEW r \in RouteNames
  PROVE  /\ Group(r) \in Seq(Block) /\ Len(Group(r)) = Len(live.chains[r]) /\ Len(Group(r)) \in Nat
         /\ \A i \in 1..Len(Group(r)) : Key(Group(r)[i]) = Key(live.chains[r][i])
                                        /\ Key(Group(r)[i]) \in Keys
         /\ KeysOf(live.chains[r]) = {Key(Group(r)[i]) : i \in 1..Len(Group(r))}
<1> DEFINE g == Group(r)
           c == live.chains[r]
<1>1. Copies(g, c, r) /\ c \in Seq(Block)
  BY DEF Sound, Group, Named
<1> HIDE DEF g, c
<1>2. g \in Seq(Block) /\ Len(g) = Len(c) /\ \A i \in 1..Len(c) : Key(g[i]) = Key(c[i])
  BY <1>1 DEF Copies
<1>3. DOMAIN c = 1..Len(c)
  BY <1>1
<1>4. KeysOf(c) = {Key(g[i]) : i \in 1..Len(g)}
  BY <1>2, <1>3 DEF KeysOf
<1>5. \A i \in 1..Len(g) : Key(g[i]) \in Keys
  BY <1>2, KeyOfBlock
<1> QED
  BY <1>2, <1>4, <1>5 DEF g, c

\* What the steps make of a request.
LEMMA Answers ==
  ASSUME NEW r \in Requests, NEW k \in Keys
  PROVE  /\ [r EXCEPT !.status = "answered", !.by = k] \in Requests
         /\ [r EXCEPT !.status = "answered", !.by = k].status = "answered"
         /\ [r EXCEPT !.status = "answered", !.by = k].route = r.route
         /\ [r EXCEPT !.status = "answered", !.by = k].level = r.level
         /\ [r EXCEPT !.status = "answered", !.by = k].by = k
BY DEF Requests

\* A hop to the next order.
LEMMA Proceeds ==
  ASSUME NEW r \in Requests, NEW k \in Keys
  PROVE  LET n == [r EXCEPT !.level = @ + 1, !.hops = @ + 1, !.tried = @ \union {k}]
         IN  /\ n \in Requests /\ n.status = r.status /\ n.route = r.route
             /\ n.level = r.level + 1 /\ n.hops = r.hops + 1 /\ n.tried = r.tried \union {k}
<1> DEFINE n == [r EXCEPT !.level = @ + 1, !.hops = @ + 1, !.tried = @ \union {k}]
<1>1. n \in Requests
  <2>1. PICK x \in Nat : x = r.level + 1
    BY DEF Requests
  <2>2. PICK y \in Nat : y = r.hops + 1
    BY DEF Requests
  <2>3. PICK z \in SUBSET Keys : z = r.tried \union {k}
    BY DEF Requests
  <2>4. n = [r EXCEPT !.level = x, !.hops = y, !.tried = z]
    BY <2>1, <2>2, <2>3
  <2>5. [r EXCEPT !.level = x, !.hops = y, !.tried = z] \in Requests
    BY DEF Requests
  <2> QED
    BY <2>4, <2>5
<1>2. n.status = r.status /\ n.route = r.route
  BY DEF Requests
<1>3. n.level = r.level + 1 /\ n.hops = r.hops + 1
  BY DEF Requests
<1>4. n.tried = r.tried \union {k}
  BY DEF Requests
<1> QED
  BY <1>1, <1>2, <1>3, <1>4

\* The end of a request that nothing answered.
LEMMA Fails ==
  ASSUME NEW r \in Requests, NEW k \in Keys
  PROVE  LET n == [r EXCEPT !.status = "failed", !.tried = @ \union {k}]
         IN  /\ n \in Requests /\ n.status = "failed" /\ n.route = r.route
             /\ n.level = r.level /\ n.tried = r.tried \union {k}
BY DEF Requests

\* The configuration of the running proxy is a rendering, and sound.
LEMMA LoadedSound ==
  ASSUME IInv
  PROVE  Sound(live)
<1>1. template \in Templates /\ \E R, K \in SUBSET Providers : live = Rendered(template, R, K)
  BY DEF IInv, Loaded
<1>2. PICK R \in SUBSET Providers, K \in SUBSET Providers : live = Rendered(template, R, K)
  BY <1>1
<1> QED
  BY <1>1, <1>2, RenderedSound

\* The parts of the invariant that are about requests.
Requested == Walks /\ AnsweredWithinRoute /\ FailsOnlyWhenAllTried

\* They depend on the configuration and the request alone.
LEMMA RequestedUnchanged ==
  ASSUME Requested, UNCHANGED <<live, request>>
  PROVE  Requested'
BY DEF Requested, Walks, AnsweredWithinRoute, FailsOnlyWhenAllTried, Group

\* There is a state without a request.
LEMMA NothingAsked ==
  /\ NoRequest \in Requests /\ NoRequest.status = "none"
BY DEF NoRequest, Requests, Keys, RouteNames

\* A request that is not under way keeps no promise.
LEMMA RequestedAtFirst ==
  ASSUME request = NoRequest
  PROVE  Requested
BY NothingAsked DEF Requested, Walks, AnsweredWithinRoute, FailsOnlyWhenAllTried

\* The first start establishes the invariant.
LEMMA InitHolds == Init => IInv
<1> SUFFICES ASSUME Init PROVE IInv
  OBVIOUS
<1>1. template \in Templates /\ keys \in SUBSET Providers /\ down \subseteq KeysOf(Merged(template))
  BY DEF Init
<1>2. Loaded
  BY <1>1 DEF Init, Loaded
<1>3. Requested
  BY RequestedAtFirst DEF Init
<1> QED
  BY <1>1, <1>2, <1>3 DEF IInv, Requested

\* A request begins at the first order.
LEMMA AskHolds ==
  ASSUME Sound(live), NEW r \in RouteNames, Ask(r)
  PROVE  Requested'
<1>1. /\ live' = live /\ Group(r) # <<>>
      /\ request' = [status |-> "walking", route |-> r, level |-> 1, hops |-> 0, tried |-> {}, by |-> NoKey]
  BY DEF Ask
<1>2. request' \in Requests /\ request'.status = "walking" /\ request'.route = r
      /\ request'.level = 1 /\ request'.hops = 0 /\ request'.tried = {}
  BY <1>1 DEF Requests, Keys
<1>3. Group(r)' = Group(r)
  BY <1>1 DEF Group
<1>4. 1 \in 1..Len(Group(r))
  <2>1. Group(r) \in Seq(Block) /\ Len(Group(r)) \in Nat
    BY GroupIsChain
  <2>2. Len(Group(r)) # 0
    BY <2>1, <1>1, EmptySeq
  <2> QED
    BY <2>1, <2>2
<1>5. {Key(Group(r)[i]) : i \in 1..(1 - 1)} = {}
  OBVIOUS
<1>6. Walks'
  BY <1>2, <1>3, <1>4, <1>5 DEF Walks
<1> QED
  BY <1>2, <1>6 DEF Requested, AnsweredWithinRoute, FailsOnlyWhenAllTried

\* The deployment a walking request is at.
LEMMA AtCurrent ==
  ASSUME Sound(live), Requested, request.status = "walking"
  PROVE  /\ request \in Requests /\ request.route \in RouteNames
         /\ request.level \in 1..Len(Group(request.route)) /\ request.level \in Nat
         /\ request.hops = request.level - 1
         /\ Current \in Keys /\ Current \in KeysOf(live.chains[request.route])
         /\ request.tried \union {Current} = {Key(Group(request.route)[i]) : i \in 1..request.level}
<1>1. /\ request \in Requests /\ request.level \in 1..Len(Group(request.route))
      /\ request.hops = request.level - 1
      /\ request.tried = {Key(Group(request.route)[i]) : i \in 1..(request.level - 1)}
  BY DEF Requested, Walks
<1>2. request.route \in RouteNames /\ request.level \in Nat
  BY <1>1 DEF Requests
<1> DEFINE g == Group(request.route)
           n == request.level
<1>3. /\ \A i \in 1..Len(g) : Key(g[i]) \in Keys
      /\ KeysOf(live.chains[request.route]) = {Key(g[i]) : i \in 1..Len(g)}
  BY <1>2, GroupIsChain
<1>4. Current = Key(g[n])
  BY DEF Current
<1> HIDE DEF g
<1>5. Current \in Keys /\ Current \in KeysOf(live.chains[request.route])
  BY <1>1, <1>3, <1>4 DEF g
<1>6. request.tried \union {Current} = {Key(g[i]) : i \in 1..n}
  <2>1. request.tried = {Key(g[i]) : i \in 1..(n - 1)}
    BY <1>1 DEF g
  <2>2. ASSUME NEW i PROVE i \in 1..n <=> i \in 1..(n - 1) \/ i = n
    BY <1>1, <1>2
  <2> HIDE DEF n
  <2>3. ASSUME NEW k PROVE k \in request.tried \union {Current} <=> k \in {Key(g[i]) : i \in 1..n}
    BY <2>1, <2>2, <1>4
  <2> QED
    BY <2>3
<1> QED
  BY <1>1, <1>2, <1>5, <1>6 DEF g

\* An answer comes from the route's chain.
LEMMA AnswerHolds ==
  ASSUME Sound(live), Requested, Answer
  PROVE  Requested'
<1>1. /\ request.status = "walking" /\ live' = live
      /\ request' = [request EXCEPT !.status = "answered", !.by = Current]
  BY DEF Answer, Walk
<1>2. /\ request \in Requests /\ Current \in Keys /\ Current \in KeysOf(live.chains[request.route])
      /\ request.level \in 1..Len(Group(request.route))
  BY <1>1, AtCurrent
<1>3. /\ request' \in Requests /\ request'.status = "answered" /\ request'.route = request.route
      /\ request'.level = request.level /\ request'.by = Current
  BY <1>1, <1>2, Answers
<1>4. Group(request.route)' = Group(request.route)
  BY <1>1, <1>3 DEF Group
<1>5. request'.level \in 1..Len(Group(request.route)')
  BY <1>2, <1>3, <1>4
<1>6. Walks'
  BY <1>3, <1>5 DEF Walks
<1>7. request'.by \in KeysOf(live'.chains[request'.route])
  BY <1>1, <1>2, <1>3
<1> QED
  BY <1>3, <1>6, <1>7 DEF Requested, AnsweredWithinRoute, FailsOnlyWhenAllTried

\* A hop to the next order leaves the failed one behind.
LEMMA NextLevelHolds ==
  ASSUME Sound(live), Requested, NextLevel
  PROVE  Requested'
<1>1. /\ request.status = "walking" /\ live' = live /\ request.level < Len(Group(request.route))
      /\ request' = [request EXCEPT !.level = @ + 1, !.hops = @ + 1, !.tried = @ \union {Current}]
  BY DEF NextLevel, Walk, More
<1>2. /\ request \in Requests /\ request.route \in RouteNames /\ Current \in Keys
      /\ request.level \in 1..Len(Group(request.route)) /\ request.level \in Nat
      /\ request.hops = request.level - 1
      /\ request.tried \union {Current} = {Key(Group(request.route)[i]) : i \in 1..request.level}
  BY <1>1, AtCurrent
<1>3. /\ request' \in Requests /\ request'.status = "walking" /\ request'.route = request.route
      /\ request'.level = request.level + 1 /\ request'.hops = request.hops + 1
      /\ request'.tried = request.tried \union {Current}
  BY <1>1, <1>2, Proceeds
<1>4. Group(request.route)' = Group(request.route)
  BY <1>1, <1>3 DEF Group
<1>5. request'.level \in 1..Len(Group(request.route)')
  <2>1. Len(Group(request.route)) \in Nat
    BY <1>2, GroupIsChain
  <2> QED
    BY <2>1, <1>1, <1>2, <1>3, <1>4
<1>6. request'.hops = request'.level - 1 /\ request'.level - 1 = request.level
  BY <1>2, <1>3
<1>7. request'.tried = {Key(Group(request.route)'[i]) : i \in 1..(request'.level - 1)}
  BY <1>2, <1>3, <1>4, <1>6
<1>8. Walks'
  BY <1>3, <1>5, <1>6, <1>7 DEF Walks
<1> QED
  BY <1>3, <1>8 DEF Requested, AnsweredWithinRoute, FailsOnlyWhenAllTried

\* The end of a walk: there are hops for every order, and the closed route
\* leaves nowhere to stray.
LEMMA LastFailsHolds ==
  ASSUME Sound(live), Requested, LastFails
  PROVE  Requested'
<1>1. /\ request.status = "walking" /\ ~More
      /\ Strays = {} => live' = live /\ request' = [request EXCEPT !.status = "failed", !.tried = @ \union {Current}]
  <2>1. request.status = "walking" /\ ~More
    BY DEF LastFails
  <2>2. ASSUME Strays = {}
        PROVE  live' = live /\ request' = [request EXCEPT !.status = "failed", !.tried = @ \union {Current}]
    <3> DEFINE failed == [request EXCEPT !.status = "failed", !.tried = @ \union {Current}]
               strays == {[request EXCEPT !.status = "answered", !.by = k] : k \in Strays}
    <3>1. \E r \in IF strays = {} THEN {failed} ELSE strays : Walk(r)
      BY DEF LastFails
    <3>2. strays = {}
      BY <2>2
    <3> HIDE DEF strays, failed
    <3>3. Walk(failed)
      BY <3>1, <3>2
    <3> QED
      BY <3>3 DEF Walk, failed
  <2> QED
    BY <2>1, <2>2
<1>2. /\ request \in Requests /\ request.route \in RouteNames /\ Current \in Keys
      /\ request.level \in 1..Len(Group(request.route)) /\ request.level \in Nat
      /\ request.hops = request.level - 1
      /\ request.tried \union {Current} = {Key(Group(request.route)[i]) : i \in 1..request.level}
      /\ Current \in KeysOf(live.chains[request.route])
  BY <1>1, AtCurrent
<1>3. /\ Len(Group(request.route)) = Len(live.chains[request.route]) /\ Len(Group(request.route)) \in Nat
      /\ KeysOf(live.chains[request.route]) =
           {Key(Group(request.route)[i]) : i \in 1..Len(Group(request.route))}
  BY <1>2, GroupIsChain
<1>4. /\ Len(live.chains[request.route]) <= live.depth /\ live.depth \in Nat
      /\ live.chains[request.route] # <<>> => request.route \in live.closed
  BY <1>2 DEF Sound
<1>5. request.level = Len(Group(request.route))
  <2>1. ~(request.level < Len(Group(request.route)) /\ request.hops < live.depth)
    BY <1>1 DEF More
  <2> QED
    BY <2>1, <1>2, <1>3, <1>4
<1>6. Strays = {}
  <2>1. live.chains[request.route] # <<>>
    BY <1>2 DEF KeysOf
  <2> QED
    BY <2>1, <1>4 DEF Strays
<1>7. live' = live /\ request' = [request EXCEPT !.status = "failed", !.tried = @ \union {Current}]
  BY <1>1, <1>6
<1>8. /\ request' \in Requests /\ request'.status = "failed" /\ request'.route = request.route
      /\ request'.level = request.level /\ request'.tried = request.tried \union {Current}
  BY <1>7, <1>2, Fails
<1>9. Group(request.route)' = Group(request.route)
  BY <1>7, <1>8 DEF Group
<1>10. request'.level \in 1..Len(Group(request.route)')
  BY <1>2, <1>8, <1>9
<1>11. Walks'
  BY <1>8, <1>10 DEF Walks
<1>12. request'.tried = KeysOf(live'.chains[request'.route])
  BY <1>2, <1>3, <1>5, <1>7, <1>8
<1> QED
  BY <1>8, <1>11, <1>12 DEF Requested, AnsweredWithinRoute, FailsOnlyWhenAllTried

\* No step breaks the invariant.
LEMMA StepHolds == IInv /\ [Next]_vars => IInv'
<1> SUFFICES ASSUME IInv, [Next]_vars PROVE IInv'
  OBVIOUS
<1>1. /\ template \in Templates /\ keys \in SUBSET Providers /\ down \subseteq KeysOf(Merged(template))
      /\ Loaded /\ Requested
  BY DEF IInv, Requested
<1>2. Sound(live)
  BY LoadedSound
<1>3. UNCHANGED <<template, live>> => Loaded'
  BY <1>1 DEF Loaded
<1>4. \A K \in Edits : K \in SUBSET Providers
  BY DEF Edits
<1>5. CASE EditKeys
  <2>1. Requested'
    BY <1>1, <1>5, RequestedUnchanged DEF EditKeys
  <2> QED
    BY <1>1, <1>3, <1>4, <1>5, <2>1 DEF EditKeys, IInv, Requested
<1>6. CASE Restart
  <2>1. keys' \in SUBSET Providers /\ live' = Rendered(template, keys, keys') /\ request' = NoRequest
        /\ UNCHANGED <<template, down>>
    BY <1>1, <1>4, <1>6 DEF Restart
  <2>2. Loaded'
    BY <1>1, <2>1 DEF Loaded
  <2>3. Requested'
    BY <2>1, NothingAsked DEF Requested, Walks, AnsweredWithinRoute, FailsOnlyWhenAllTried
  <2> QED
    BY <1>1, <2>1, <2>2, <2>3 DEF IInv, Requested
<1>7. CASE Weather
  <2>1. down' \subseteq KeysOf(Merged(template)) /\ UNCHANGED <<template, keys, live, request>>
    BY <1>1, <1>7 DEF Weather
  <2>2. Requested'
    BY <1>1, <2>1, RequestedUnchanged
  <2> QED
    BY <1>1, <1>3, <2>1, <2>2 DEF IInv, Requested
<1>8. ASSUME UNCHANGED <<template, keys, live, down>>, Requested' PROVE IInv'
  BY <1>1, <1>3, <1>8 DEF IInv, Requested
<1>9. ASSUME NEW r \in RouteNames, Ask(r) PROVE IInv'
  <2>1. Requested'
    BY <1>2, <1>9, AskHolds
  <2> QED
    BY <1>8, <1>9, <2>1 DEF Ask
<1>10. CASE Router
  <2>1. Requested'
    BY <1>1, <1>2, <1>10, AnswerHolds, NextLevelHolds, LastFailsHolds DEF Router
  <2>2. UNCHANGED <<template, keys, live, down>>
    BY <1>10 DEF Router, Answer, NextLevel, LastFails, Walk
  <2> QED
    BY <1>8, <2>1, <2>2
<1>11. CASE UNCHANGED vars
  <2>1. Requested'
    BY <1>1, <1>11, RequestedUnchanged DEF vars
  <2> QED
    BY <1>8, <1>11, <2>1 DEF vars
<1> QED
  BY <1>5, <1>6, <1>7, <1>9, <1>10, <1>11 DEF Next

\* The invariant holds from the first start on.
THEOREM Invariance == Spec => []IInv
BY InitHolds, StepHolds, PTL DEF Spec

-----------------------------------------------------------------------------
(* What follows for the properties. *)

\* The configuration the proxy loads is well-formed.
THEOREM TypeCorrect == Spec => []TypeOK
<1>1. IInv => TypeOK
  <2> SUFFICES ASSUME IInv PROVE TypeOK
    OBVIOUS
  <2>1. Sound(live)
    BY LoadedSound
  <2>2. /\ live.closed \subseteq {b.group : b \in ToSet(live.deployments)}
        /\ live.depth \in Nat /\ live.from \subseteq Providers
    BY <2>1 DEF Sound
  <2>3. /\ request.status \in {"none", "walking", "answered", "failed"}
        /\ request.status # "none" => request.level \in 1..Len(Group(request.route))
    BY DEF IInv, Walks, Requests
  <2> QED
    BY <2>2, <2>3 DEF IInv, TypeOK
<1> QED
  BY Invariance, <1>1, PTL

\* A request is answered by a deployment of the route it named.
THEOREM AnsweredByTheRoute == Spec => []AnsweredWithinRoute
<1>1. IInv => AnsweredWithinRoute
  BY DEF IInv
<1> QED
  BY Invariance, <1>1, PTL

\* A request fails only after every deployment of its route has failed it.
THEOREM AllTriedBeforeFailure == Spec => []FailsOnlyWhenAllTried
<1>1. IInv => FailsOnlyWhenAllTried
  BY DEF IInv
<1> QED
  BY Invariance, <1>1, PTL

\* The chains of l are narrowed from the list of the template's first chat
\* blocks of every backend that l.from has a key for.
Lineage(l, t, c) ==
  /\ c \in Seq(Block) /\ l.chains = Chains(c) /\ l.from \subseteq Providers
  /\ Lists(c, Merged(t), Served(Merged(t), l.from), Ahead(Merged(t)))

\* Every rendering has one.
LEMMA RenderedLineage ==
  ASSUME NEW t \in Templates, NEW R, NEW K, K \subseteq Providers, NEW l, l = Rendered(t, R, K)
  PROVE  \E c : Lineage(l, t, c)
<1>1. PICK b0 : b0 = Kept(Merged(t), R)
  OBVIOUS
<1>2. PICK c : c = Chain(b0, K)
  OBVIOUS
<1>3. Merged(t) \in Seq(Block) /\ b0 \in Seq(Block)
  BY <1>1, MergedBlocks, KeptPlain
<1>4. c \in Seq(Block)
  BY <1>2, <1>3, ChainBlocks
<1>5. l.chains = Chains(c) /\ l.from = Both(R, K)
  BY <1>1, <1>2, RenderedAs
<1>6. Lists(c, Merged(t), Served(Merged(t), Both(R, K)), Ahead(Merged(t)))
  BY <1>1, <1>2, <1>3, ChainOfKept
<1>7. Both(R, K) \subseteq Providers
  BY DEF Both
<1>8. Lineage(l, t, c)
  BY <1>4, <1>5, <1>6, <1>7 DEF Lineage
<1> QED
  BY <1>8

\* So has the configuration of the running proxy.
LEMMA LoadedLineage ==
  ASSUME IInv
  PROVE  template \in Templates /\ \E c : Lineage(live, template, c)
<1>1. template \in Templates /\ \E R, K \in SUBSET Providers : live = Rendered(template, R, K)
  BY DEF IInv, Loaded
<1>2. PICK R \in SUBSET Providers, K \in SUBSET Providers : live = Rendered(template, R, K)
  BY <1>1
<1> QED
  BY <1>1, <1>2, RenderedLineage

\* The first chat block of a backend.
LEMMA FirstOfBackend ==
  ASSUME NEW M \in Seq(Block), NEW i \in 1..Len(M), M[i].mode = "chat"
  PROVE  \E x \in 1..Len(M) : FirstChat(M, x) /\ Key(M[x]) = Key(M[i])
<1>1. PICK n \in Nat : n = Len(M)
  OBVIOUS
<1> DEFINE Same == {j \in 1..n : Key(M[j]) = Key(M[i]) /\ M[j].mode = "chat"}
<1>2. Same \in SUBSET (1..n) /\ Same # {}
  BY <1>1
<1>3. \A j \in Same : j \in 1..n /\ Key(M[j]) = Key(M[i]) /\ M[j].mode = "chat"
  OBVIOUS
<1>4. \A j \in 1..n : Key(M[j]) = Key(M[i]) /\ M[j].mode = "chat" => j \in Same
  OBVIOUS
<1> HIDE DEF Same
<1>5. PICK x \in Same : \A j \in Same : x <= j
  BY <1>2, MinUpTo
<1>6. ASSUME NEW j \in 1..(x - 1) PROVE Key(M[j]) # Key(M[x]) \/ M[j].mode # "chat"
  <2>1. j \in 1..n /\ ~(x <= j)
    BY <1>3
  <2> QED
    BY <2>1, <1>3, <1>4, <1>5
<1> QED
  BY <1>1, <1>3, <1>6 DEF FirstChat

\* There is only one.
LEMMA FirstIsOne ==
  ASSUME NEW M, NEW x \in Nat, NEW y \in Nat, x # 0, y # 0, FirstChat(M, x), FirstChat(M, y),
         Key(M[x]) = Key(M[y])
  PROVE  x = y
<1>1. ASSUME x < y PROVE FALSE
  <2>1. x \in 1..(y - 1)
    BY <1>1
  <2> QED
    BY <2>1 DEF FirstChat
<1>2. ASSUME y < x PROVE FALSE
  <2>1. y \in 1..(x - 1)
    BY <1>2
  <2> QED
    BY <2>1 DEF FirstChat
<1> QED
  BY <1>1, <1>2

\* Where the template has them, the blocks of a chain are ranked and first.
LEMMA ServedPlaces ==
  ASSUME NEW M \in Seq(Block), NEW F, F \subseteq Providers, NEW x \in Served(M, F)
  PROVE  /\ x \in 1..Len(M) /\ x \in Nat /\ x # 0 /\ FirstChat(M, x) /\ M[x] \in Block
         /\ RankOf(M[x]) \in Nat /\ Provider[M[x].host] \in F /\ Key(M[x]) \notin EXCLUDED
<1>1. x \in 1..Len(M) /\ FirstChat(M, x) /\ Provider[M[x].host] \in F /\ Key(M[x]) \notin EXCLUDED
  BY DEF Served
<1>2. RankOf(M[x]) \in Nat
  BY <1>1, Ranks DEF RankOf
<1>3. x \in Nat /\ x # 0 /\ M[x] \in Block
  BY <1>1
<1> QED
  BY <1>1, <1>2, <1>3

\* What is listed by rank and position is listed in that order, and once.
LEMMA ListedOnce ==
  ASSUME NEW M \in Seq(Block), NEW F, F \subseteq Providers, NEW P, P \subseteq Served(M, F),
         NEW s, Lists(s, M, P, Ahead(M))
  PROVE  /\ s \in Seq(Block) /\ OneEach(s)
         /\ \A x \in P : \E i \in 1..Len(s) : s[i] = M[x]
         /\ \A i \in 1..Len(s) : \E x \in P : s[i] = M[x]
         /\ \A i, j \in 1..Len(s) : i < j => \E x, y \in P : s[i] = M[x] /\ s[j] = M[y] /\ <<x, y>> \in Ahead(M)
<1>1. \A x \in P : /\ x \in 1..Len(M) /\ x \in Nat /\ x # 0 /\ FirstChat(M, x) /\ M[x] \in Block
                    /\ RankOf(M[x]) \in Nat
  BY ServedPlaces
<1>2. /\ s \in Seq(Block)
      /\ \A x \in P : \E i \in 1..Len(s) : s[i] = M[x]
      /\ \A i \in 1..Len(s) : \E x \in P : s[i] = M[x]
      /\ \A i, j \in 1..Len(s) : i < j => \E x, y \in P : s[i] = M[x] /\ s[j] = M[y] /\ <<x, y>> \in Ahead(M)
  <2>1. \A x \in P : M[x] \in Block
    BY <1>1
  <2>2. s \in Seq(Block)
    BY <2>1, ListsMembers
  <2>3. \A x \in P : \E i \in 1..Len(s) : s[i] = M[x]
    BY <2>1, ListsMembers
  <2>4. PICK n \in Nat : \E h : Enumerates(h, n, P, Ahead(M)) /\ s = [i \in 1..n |-> M[h[i]]]
    BY DEF Lists
  <2>5. PICK h : Enumerates(h, n, P, Ahead(M)) /\ s = [i \in 1..n |-> M[h[i]]]
    BY <2>4
  <2>6. Len(s) = n /\ \A i \in 1..n : h[i] \in P /\ s[i] = M[h[i]]
    BY <2>5 DEF Enumerates
  <2>7. \A i, j \in 1..n : i < j => <<h[i], h[j]>> \in Ahead(M)
    BY <2>5 DEF Enumerates
  <2>8. \A i \in 1..Len(s) : \E z \in P : s[i] = M[z]
    BY <2>6
  <2>9. \A i, j \in 1..Len(s) : i < j => \E z, w \in P : s[i] = M[z] /\ s[j] = M[w] /\ <<z, w>> \in Ahead(M)
    BY <2>6, <2>7
  <2> QED
    BY <2>2, <2>3, <2>8, <2>9
<1>3. ASSUME NEW i \in 1..Len(s), NEW j \in 1..Len(s), i < j PROVE Key(s[i]) # Key(s[j])
  <2>1. PICK x \in P, y \in P : s[i] = M[x] /\ s[j] = M[y] /\ <<x, y>> \in Ahead(M)
    BY <1>2, <1>3
  <2>2. x # y
    BY <2>1, <1>1 DEF Ahead
  <2> QED
    BY <2>1, <2>2, <1>1, FirstIsOne
<1>4. OneEach(s)
  <2>1. DOMAIN s = 1..Len(s)
    BY <1>2
  <2>2. \A i, j \in 1..Len(s) : i < j \/ j < i \/ i = j
    OBVIOUS
  <2> QED
    BY <2>1, <2>2, <1>3 DEF OneEach
<1> QED
  BY <1>2, <1>4

\* `standard` is the list of the first chat blocks that are not reserved.
LEMMA StandardLists ==
  ASSUME NEW t \in Templates, NEW l, NEW c, Lineage(l, t, c)
  PROVE  Lists(l.chains["standard"], Merged(t),
               {x \in Served(Merged(t), l.from) : Key(Merged(t)[x]) \notin RESERVED}, Ahead(Merged(t)))
<1>1. PICK M \in Seq(Block) : M = Merged(t)
  BY MergedBlocks
<1>2. PICK S : S = Served(M, l.from)
  OBVIOUS
<1> DEFINE W == {b \in Block : Key(b) \notin RESERVED}
<1>3. c \in Seq(Block) /\ Lists(c, M, S, Ahead(M)) /\ l.chains["standard"] = Only(c, W)
  BY <1>1, <1>2 DEF Lineage, Chains, StandardOf
<1>4. \A x \in S : M[x] \in W <=> Key(M[x]) \notin RESERVED
  <2>1. l.from \subseteq Providers
    BY DEF Lineage
  <2>2. \A x \in S : M[x] \in Block
    BY <1>2, <2>1, ServedPlaces
  <2> QED
    BY <2>2
<1> HIDE DEF W
<1>5. Lists(Only(c, W), M, {x \in S : M[x] \in W}, Ahead(M))
  BY <1>3, ListsOnly
<1>6. {x \in S : M[x] \in W} = {x \in S : Key(M[x]) \notin RESERVED}
  BY <1>4
<1> QED
  BY <1>1, <1>2, <1>3, <1>5, <1>6

\* The keys, the places and the order of `standard`.
LEMMA ExactHolds ==
  ASSUME template \in Templates, NEW c, Lineage(live, template, c)
  PROVE  StandardIsExact
<1> DEFINE s == live.chains["standard"]
           M == Merged(template)
           F == live.from
           P == {x \in Served(M, F) : Key(M[x]) \notin RESERVED}
           First(b) == CHOOSE i \in DOMAIN M :
                         /\ Key(M[i]) = Key(b) /\ M[i].mode = "chat"
                         /\ \A j \in 1..(i - 1) : Key(M[j]) # Key(b) \/ M[j].mode # "chat"
           Wanted == {Key(b) : b \in {a \in ToSet(M) : Eligible(a, F)}} \ RESERVED
           Sorted == \A i, j \in DOMAIN s : i < j =>
                       \/ RankOf(s[i]) < RankOf(s[j])
                       \/ RankOf(s[i]) = RankOf(s[j]) /\ First(s[i]) < First(s[j])
<1>1. M \in Seq(Block) /\ DOMAIN M = 1..Len(M)
  BY MergedBlocks
<1>2. Lists(s, M, P, Ahead(M))
  BY StandardLists
<1>3. F \subseteq Providers
  BY DEF Lineage
<1>4. StandardIsExact <=> OneEach(s) /\ KeysOf(s) = Wanted /\ Sorted
  BY Zenon DEF StandardIsExact, RankOf
<1> HIDE DEF s, M, F
<1>5. \A x \in P : x \in Served(M, F) /\ Key(M[x]) \notin RESERVED
  OBVIOUS
<1>6. \A x \in P : /\ x \in 1..Len(M) /\ x \in Nat /\ x # 0 /\ FirstChat(M, x) /\ M[x] \in Block
                    /\ RankOf(M[x]) \in Nat /\ Provider[M[x].host] \in F /\ Key(M[x]) \notin EXCLUDED
  BY <1>1, <1>3, <1>5, ServedPlaces
<1>7. /\ s \in Seq(Block) /\ OneEach(s)
      /\ \A x \in P : \E i \in 1..Len(s) : s[i] = M[x]
      /\ \A i \in 1..Len(s) : \E x \in P : s[i] = M[x]
      /\ \A i, j \in 1..Len(s) : i < j => \E x, y \in P : s[i] = M[x] /\ s[j] = M[y] /\ <<x, y>> \in Ahead(M)
  <2>1. P \subseteq Served(M, F)
    OBVIOUS
  <2> HIDE DEF P
  <2> QED
    BY <1>1, <1>2, <1>3, <2>1, ListedOnce
<1>8. DOMAIN s = 1..Len(s)
  BY <1>7
<1>9. ASSUME NEW k \in KeysOf(s) PROVE k \in Wanted
  <2>1. PICK i \in 1..Len(s) : k = Key(s[i])
    BY <1>8 DEF KeysOf
  <2>2. PICK x \in P : s[i] = M[x]
    BY <1>7
  <2>3. M[x].mode = "chat"
    BY <2>2, <1>6 DEF FirstChat
  <2>4. Eligible(M[x], F)
    BY <2>2, <2>3, <1>6 DEF Eligible
  <2>5. M[x] \in ToSet(M)
    BY <2>2, <1>1, <1>6 DEF ToSet
  <2> QED
    BY <2>1, <2>2, <2>4, <2>5, <1>5
<1>10. ASSUME NEW k \in Wanted PROVE k \in KeysOf(s)
  <2>1. PICK a \in ToSet(M) : Eligible(a, F) /\ k = Key(a) /\ k \notin RESERVED
    OBVIOUS
  <2>2. PICK i \in 1..Len(M) : a = M[i]
    BY <2>1, <1>1 DEF ToSet
  <2>3. M[i].mode = "chat" /\ Provider[M[i].host] \in F /\ Key(M[i]) \notin EXCLUDED
    BY <2>1, <2>2 DEF Eligible
  <2>4. PICK x \in 1..Len(M) : FirstChat(M, x) /\ Key(M[x]) = Key(M[i])
    BY <2>3, <1>1, FirstOfBackend
  <2>5. M[x].host = M[i].host
    BY <2>4, SameBackend
  <2>6. x \in P
    BY <2>1, <2>2, <2>3, <2>4, <2>5 DEF Served
  <2>7. PICK j \in 1..Len(s) : s[j] = M[x]
    BY <2>6, <1>7
  <2> QED
    BY <2>1, <2>2, <2>4, <2>7, <1>8 DEF KeysOf
<1>11. \A x \in P : First(M[x]) = x
  <2> SUFFICES ASSUME NEW x \in P PROVE First(M[x]) = x
    OBVIOUS
  <2> DEFINE Fits(i) == /\ Key(M[i]) = Key(M[x]) /\ M[i].mode = "chat"
                        /\ \A j \in 1..(i - 1) : Key(M[j]) # Key(M[x]) \/ M[j].mode # "chat"
  <2>1. x \in DOMAIN M /\ Fits(x)
    BY <1>1, <1>6 DEF FirstChat
  <2>2. ASSUME NEW i \in DOMAIN M, Fits(i) PROVE i = x
    <3>1. i \in Nat /\ i # 0 /\ FirstChat(M, i) /\ Key(M[i]) = Key(M[x])
      BY <1>1, <2>2 DEF FirstChat
    <3> QED
      BY <3>1, <1>6, FirstIsOne
  <2>3. First(M[x]) = CHOOSE i \in DOMAIN M : Fits(i)
    OBVIOUS
  <2> HIDE DEF Fits, First
  <2> QED
    BY <2>1, <2>2, <2>3
<1>12. Sorted
  <2> SUFFICES ASSUME NEW i \in 1..Len(s), NEW j \in 1..Len(s), i < j
               PROVE  \/ RankOf(s[i]) < RankOf(s[j])
                      \/ RankOf(s[i]) = RankOf(s[j]) /\ First(s[i]) < First(s[j])
    BY <1>8
  <2>1. PICK x \in P, y \in P : s[i] = M[x] /\ s[j] = M[y] /\ <<x, y>> \in Ahead(M)
    BY <1>7
  <2>2. \/ RankOf(M[x]) < RankOf(M[y])
        \/ RankOf(M[x]) = RankOf(M[y]) /\ x < y
    BY <2>1 DEF Ahead
  <2>3. First(s[i]) = x /\ First(s[j]) = y
    BY <2>1, <1>11
  <2> HIDE DEF First
  <2> QED
    BY <2>1, <2>2, <2>3
<1> HIDE DEF Wanted, Sorted
<1> QED
  BY <1>4, <1>7, <1>9, <1>10, <1>12

\* `standard` is exactly what there is a key for, once, a provider's models
\* together and in the order of PROVIDER_PRIORITY.
THEOREM StandardExact == Spec => []StandardIsExact
<1>1. IInv => StandardIsExact
  BY LoadedLineage, ExactHolds
<1> QED
  BY Invariance, <1>1, PTL

Has(s, x) == \E i \in 1..Len(s) : s[i] = x

Once(s) == \A i, j \in 1..Len(s) : s[i] = s[j] => i = j

\* What a filter leaves, in one line each.
LEMMA OnlyHas ==
  ASSUME NEW E, NEW s \in Seq(E), NEW W
  PROVE  /\ \A x : Has(Only(s, W), x) <=> x \in W /\ Has(s, x)
         /\ Once(s) => Once(Only(s, W))
<1>1. \A x : (\E i \in 1..Len(Only(s, W)) : Only(s, W)[i] = x)
                     <=> (x \in W /\ \E i \in 1..Len(s) : s[i] = x)
  BY OnlyKeeps, Zenon
<1>2. (\A i, j \in 1..Len(s) : s[i] = s[j] => i = j) =>
         \A i, j \in 1..Len(Only(s, W)) : Only(s, W)[i] = Only(s, W)[j] => i = j
  BY OnlyKeeps, Zenon
<1> QED
  BY <1>1, <1>2, Zenon DEF Has, Once

\* A chain narrowed by the backend has the order of `standard`, apart from
\* what is reserved.
LEMMA SharedOrder ==
  ASSUME NEW c \in Seq(Block), NEW verified, NEW N, N = {b \in Block : Key(b) \notin RESERVED},
         NEW s, s = Only(VerifiedOf(c, verified), N)
  PROVE  s = Only(StandardOf(c), ToSet(s))
<1>1. PICK V : V = {b \in Block : Key(b) \in verified}
  OBVIOUS
<1>2. PICK v : v = Only(c, V)
  OBVIOUS
<1>3. v \in Seq(Block)
  BY <1>2, OnlyWithin DEF Within
<1>4. s = Only(v, N) /\ StandardOf(c) = Only(c, N)
  BY <1>1, <1>2 DEF VerifiedOf, StandardOf
<1>5. s \in Seq(Block)
  BY <1>3, <1>4, OnlyWithin DEF Within
<1>6. ToSet(s) = {s[i] : i \in 1..Len(s)}
  <2>1. DOMAIN s = 1..Len(s)
    BY <1>5
  <2> QED
    BY <2>1, Zenon DEF ToSet
<1>7. \A x : Has(s, x) <=> x \in N /\ Has(v, x)
  BY <1>3, <1>4, OnlyHas
<1>8. \A x : Has(v, x) <=> x \in V /\ Has(c, x)
  BY <1>2, OnlyHas
<1>9. PICK T : T = ToSet(s)
  OBVIOUS
<1>10. \A i \in 1..Len(c) : c[i] \in T <=> c[i] \in V /\ c[i] \in N
  <2>1. \A i \in 1..Len(c) : Has(c, c[i])
    BY DEF Has
  <2>2. \A x : x \in T <=> Has(s, x)
    BY <1>6, <1>9 DEF Has
  <2> QED
    BY <2>1, <2>2, <1>7, <1>8
<1>11. Only(v, N) = Only(c, T)
  BY <1>2, <1>10, OnlyTwice
<1>12. \A i \in 1..Len(c) : c[i] \in T <=> c[i] \in N /\ c[i] \in T
  BY <1>10
<1>13. Only(Only(c, N), T) = Only(c, T)
  BY <1>12, OnlyTwice
<1> QED
  BY <1>4, <1>9, <1>11, <1>13

\* The operator's list names nothing twice, so `classify` repeats nothing.
LEMMA ByListOnce ==
  ASSUME NEW c \in Seq(Block)
  PROVE  OneEach(ByList(c))
<1>1. PICK named : named = Only(CLASSIFY_ORDER, KeysOf(c))
  OBVIOUS
<1>2. PICK s : s = ByList(c)
  OBVIOUS
<1>3. /\ s \in Seq(Block) /\ Len(s) = Len(named)
      /\ \A n \in 1..Len(named) : Key(s[n]) = named[n]
  BY <1>1, <1>2, ByListNamed DEF Within
<1> DEFINE L == CLASSIFY_ORDER
<1>4. L \in Seq(ToSet(L)) /\ Once(L)
  BY RoutesAssumption DEF IsInjective, Once
<1>5. named = Only(L, KeysOf(c))
  BY <1>1
<1> HIDE DEF L
<1>6. Once(named)
  BY <1>4, <1>5, OnlyHas
<1>7. DOMAIN s = 1..Len(s)
  BY <1>3
<1> QED
  BY <1>2, <1>3, <1>6, <1>7 DEF OneEach, Once

\* Nor does a chain that is filtered.
LEMMA NarrowedOnce ==
  ASSUME NEW t \in Templates, NEW l, NEW c, Lineage(l, t, c), NEW W
  PROVE  OneEach(Only(c, W))
<1>1. PICK M \in Seq(Block) : M = Merged(t)
  BY MergedBlocks
<1>2. PICK S : S = Served(M, l.from)
  OBVIOUS
<1>3. c \in Seq(Block) /\ Lists(c, M, S, Ahead(M)) /\ l.from \subseteq Providers
  BY <1>1, <1>2 DEF Lineage
<1>4. PICK P : P = {x \in S : M[x] \in W}
  OBVIOUS
<1>5. Lists(Only(c, W), M, P, Ahead(M))
  BY <1>3, <1>4, ListsOnly
<1>6. P \subseteq Served(M, l.from)
  BY <1>2, <1>4
<1> QED
  BY <1>3, <1>5, <1>6, ListedOnce

\* The other three chains, and the marks of their copies.
LEMMA NarrowedHolds ==
  ASSUME IInv
  PROVE  NarrowedKeepOrder
<1>1. template \in Templates /\ \E c : Lineage(live, template, c)
  BY LoadedLineage
<1>2. PICK c : Lineage(live, template, c)
  BY <1>1
<1>3. c \in Seq(Block) /\ live.chains = Chains(c)
  BY <1>2 DEF Lineage
<1>4. /\ live.chains["standard"] = StandardOf(c)
      /\ live.chains["tools"] = VerifiedOf(c, ToolsVerified)
      /\ live.chains["vision"] = VerifiedOf(c, VisionVerified)
      /\ live.chains["classify"] = ByList(c)
  BY <1>3 DEF Chains
<1> DEFINE N == {b \in Block : Key(b) \notin RESERVED}
           Shared(r) == Only(live.chains[r], N)
<1>5. \A r \in {"tools", "vision"} : Shared(r) = Only(live.chains["standard"], ToSet(Shared(r)))
  <2>1. ASSUME NEW verified, NEW r, live.chains[r] = VerifiedOf(c, verified)
        PROVE  Shared(r) = Only(StandardOf(c), ToSet(Shared(r)))
    <3>1. PICK s : s = Only(VerifiedOf(c, verified), N)
      OBVIOUS
    <3>2. PICK n : n = N
      OBVIOUS
    <3>3. s = Only(StandardOf(c), ToSet(s))
      BY <1>3, <3>1, <3>2, SharedOrder
    <3>4. Shared(r) = s
      BY <2>1, <3>1
    <3> HIDE DEF Shared
    <3> QED
      BY <3>3, <3>4
  <2> HIDE DEF Shared
  <2> QED
    BY <1>4, <2>1
<1>6. KeysOf(live.chains["classify"]) \subseteq KeysOf(live.chains["standard"]) \union RESERVED
  <2>1. PICK s : s = ByList(c)
    OBVIOUS
  <2>2. PICK n : n = Only(c, N)
    OBVIOUS
  <2>3. s \in Seq(Block) /\ \A i \in 1..Len(s) : \E j \in 1..Len(c) : s[i] = c[j]
    BY <1>3, <2>1, ByListNamed DEF Within
  <2>4. n \in Seq(Block)
    BY <1>3, <2>2, OnlyWithin DEF Within
  <2>5. DOMAIN s = 1..Len(s) /\ DOMAIN n = 1..Len(n)
    BY <2>3, <2>4
  <2>6. ASSUME NEW k \in KeysOf(s), k \notin RESERVED PROVE k \in KeysOf(n)
    <3>1. PICK i \in 1..Len(s) : k = Key(s[i])
      BY <2>5 DEF KeysOf
    <3>2. PICK j \in 1..Len(c) : s[i] = c[j]
      BY <2>3
    <3>3. c[j] \in N /\ Has(c, c[j])
      BY <1>3, <2>6, <3>1, <3>2 DEF Has
    <3> HIDE DEF N
    <3>4. Has(n, c[j])
      BY <1>3, <2>2, <3>3, OnlyHas
    <3> QED
      BY <2>5, <3>1, <3>2, <3>4 DEF Has, KeysOf
  <2>7. n = StandardOf(c)
    BY <2>2 DEF StandardOf
  <2> HIDE DEF N
  <2> QED
    BY <1>4, <2>1, <2>6, <2>7
<1>7. \A r \in RouteNames : OneEach(live.chains[r])
  <2>1. OneEach(StandardOf(c))
    BY <1>1, <1>2, NarrowedOnce DEF StandardOf
  <2>2. OneEach(VerifiedOf(c, ToolsVerified)) /\ OneEach(VerifiedOf(c, VisionVerified))
    BY <1>1, <1>2, NarrowedOnce DEF VerifiedOf
  <2>3. OneEach(ByList(c))
    BY <1>3, ByListOnce
  <2> QED
    BY <1>4, <2>1, <2>2, <2>3 DEF RouteNames
<1>8. \A b \in ToSet(live.deployments) : b.redacted <=> b.group = "vision"
  <2>1. \E R, K \in SUBSET Providers : live = Rendered(template, R, K)
    BY DEF IInv, Loaded
  <2>2. PICK R \in SUBSET Providers, K \in SUBSET Providers : live = Rendered(template, R, K)
    BY <2>1
  <2>3. live.deployments \in Seq(Block) /\ Marked(live.deployments)
    BY <1>1, <2>2, RenderedGroups DEF RouteNames
  <2>4. \A b \in ToSet(live.deployments) : \E i \in 1..Len(live.deployments) : b = live.deployments[i]
    BY <2>3 DEF ToSet
  <2> QED
    BY <2>3, <2>4 DEF Marked
<1> HIDE DEF N
<1> QED
  BY <1>5, <1>6, <1>7, <1>8, Zenon DEF NarrowedKeepOrder, N

\* `tools` and `vision` keep the order of `standard`, `classify` follows the
\* operator's list, no chain repeats or invents a deployment, and exactly the
\* copies of `vision` keep their messages out of the logs.
THEOREM OrderKept == Spec => []NarrowedKeepOrder
BY Invariance, NarrowedHolds, PTL

-----------------------------------------------------------------------------
(* What a key changes. *)

\* The deployments of some providers.
OfProviders(K) == {b \in Block : Provider[b.host] \in K}

\* Two chains of one template agree on the providers both have a key for.
LEMMA FilteredAgree ==
  ASSUME NEW t \in Templates, NEW l, NEW c, Lineage(l, t, c), NEW m, NEW d, Lineage(m, t, d), NEW W
  PROVE  Only(Only(c, W), OfProviders(m.from)) = Only(Only(d, W), OfProviders(l.from))
<1>1. PICK M \in Seq(Block) : M = Merged(t)
  BY MergedBlocks
<1>2. ASSUME NEW k, NEW e, Lineage(k, t, e), NEW F
      PROVE  Lists(Only(Only(e, W), OfProviders(F)), M,
                   {x \in {y \in Served(M, k.from) : M[y] \in W} : M[x] \in OfProviders(F)}, Ahead(M))
  <2>1. PICK S : S = Served(M, k.from)
    OBVIOUS
  <2>2. e \in Seq(Block) /\ Lists(e, M, S, Ahead(M))
    BY <1>1, <1>2, <2>1 DEF Lineage
  <2>3. PICK P : P = {y \in S : M[y] \in W}
    OBVIOUS
  <2>4. Lists(Only(e, W), M, P, Ahead(M))
    BY <2>2, <2>3, ListsOnly
  <2>5. Only(e, W) \in Seq(Block)
    BY <2>2, OnlyWithin DEF Within
  <2>6. Lists(Only(Only(e, W), OfProviders(F)), M, {x \in P : M[x] \in OfProviders(F)}, Ahead(M))
    BY <2>4, <2>5, ListsOnly
  <2> QED
    BY <2>1, <2>3, <2>6
<1> DEFINE A(F, G) == {x \in {y \in Served(M, F) : M[y] \in W} : M[x] \in OfProviders(G)}
<1>3. l.from \subseteq Providers /\ m.from \subseteq Providers
  BY DEF Lineage
<1>4. ASSUME NEW F, F \subseteq Providers, NEW G, NEW x \in A(F, G) PROVE x \in A(G, F)
  <2>1. x \in Served(M, F) /\ M[x] \in W /\ M[x] \in OfProviders(G)
    OBVIOUS
  <2>2. x \in 1..Len(M) /\ FirstChat(M, x) /\ Key(M[x]) \notin EXCLUDED /\ Provider[M[x].host] \in F
        /\ M[x] \in Block /\ Provider[M[x].host] \in G
    BY <2>1, <1>4, ServedPlaces DEF OfProviders
  <2> QED
    BY <2>1, <2>2 DEF Served, OfProviders
<1>5. A(l.from, m.from) = A(m.from, l.from)
  BY <1>3, <1>4
<1>6. PICK S : S = A(l.from, m.from)
  OBVIOUS
<1>7. Lists(Only(Only(c, W), OfProviders(m.from)), M, S, Ahead(M))
  BY <1>2, <1>6
<1>8. Lists(Only(Only(d, W), OfProviders(l.from)), M, S, Ahead(M))
  BY <1>2, <1>5, <1>6
<1>9. \A x, y \in S : <<x, y>> \in Ahead(M) => <<y, x>> \notin Ahead(M)
  <2>1. \A x \in S : x \in Served(M, l.from)
    BY <1>6
  <2>2. \A x \in S : x \in Nat /\ Provider[M[x].host] \in Providers
    BY <2>1, <1>3, ServedPlaces
  <2>3. S \subseteq Nat
    BY <2>2
  <2>4. Orders(Ahead(M), S)
    BY <2>2, <2>3, AheadOrders
  <2> QED
    BY <2>4 DEF Orders
<1> HIDE DEF A
<1> QED
  BY <1>7, <1>8, <1>9, ListsUnique

\* The positions of the operator's list that a chain has.
Listed(M, F) ==
  {p \in 1..Len(CLASSIFY_ORDER) : \E x \in Served(M, F) : Key(M[x]) = CLASSIFY_ORDER[p]}

FirstNamed(M) ==
  [p \in 1..Len(CLASSIFY_ORDER) |->
     M[CHOOSE x \in 1..Len(M) : FirstChat(M, x) /\ Key(M[x]) = CLASSIFY_ORDER[p]]]

\* The block the template has for a name of the list.
LEMMA FirstNamedIs ==
  ASSUME NEW M \in Seq(Block), NEW F, F \subseteq Providers,
         NEW p \in 1..Len(CLASSIFY_ORDER), NEW x \in Served(M, F), Key(M[x]) = CLASSIFY_ORDER[p]
  PROVE  FirstNamed(M)[p] = M[x]
<1> DEFINE Fits(y) == FirstChat(M, y) /\ Key(M[y]) = CLASSIFY_ORDER[p]
<1>1. x \in 1..Len(M) /\ x \in Nat /\ x # 0 /\ FirstChat(M, x)
  BY ServedPlaces
<1>2. x \in 1..Len(M) /\ Fits(x)
  BY <1>1
<1>3. ASSUME NEW y \in 1..Len(M), Fits(y) PROVE y = x
  <2>1. y \in Nat /\ y # 0
    OBVIOUS
  <2> QED
    BY <2>1, <1>1, <1>3, FirstIsOne
<1>4. FirstNamed(M)[p] = M[CHOOSE y \in 1..Len(M) : Fits(y)]
  BY DEF FirstNamed
<1> HIDE DEF Fits
<1>5. (CHOOSE y \in 1..Len(M) : Fits(y)) = x
  BY <1>2, <1>3
<1> QED
  BY <1>4, <1>5

\* `classify` lists them in the order of the list.
LEMMA ByListLists ==
  ASSUME NEW t \in Templates, NEW l, NEW c, Lineage(l, t, c), NEW M, M = Merged(t)
  PROVE  Lists(ByList(c), FirstNamed(M), Listed(M, l.from), Upward)
<1>1. M \in Seq(Block)
  BY MergedBlocks
<1>2. PICK S : S = Served(M, l.from)
  OBVIOUS
<1>3. c \in Seq(Block) /\ Lists(c, M, S, Ahead(M)) /\ l.from \subseteq Providers
  BY <1>2 DEF Lineage
<1>4. /\ \A x \in S : \E i \in 1..Len(c) : c[i] = M[x]
      /\ \A i \in 1..Len(c) : \E x \in S : c[i] = M[x]
  <2>1. PICK n \in Nat : \E h : Enumerates(h, n, S, Ahead(M)) /\ c = [i \in 1..n |-> M[h[i]]]
    BY <1>3 DEF Lists
  <2>2. PICK h : Enumerates(h, n, S, Ahead(M)) /\ c = [i \in 1..n |-> M[h[i]]]
    BY <2>1
  <2>3. Len(c) = n /\ \A i \in 1..n : h[i] \in S /\ c[i] = M[h[i]]
    BY <2>2 DEF Enumerates
  <2>4. \A x \in S : \E i \in 1..n : h[i] = x
    BY <2>2 DEF Enumerates
  <2> QED
    BY <2>3, <2>4
<1>5. PICK L : L = CLASSIFY_ORDER
  OBVIOUS
<1>6. L \in Seq(ToSet(L))
  BY <1>5, RoutesAssumption
<1>7. PICK named : named = Only(L, KeysOf(c))
  OBVIOUS
<1>8. PICK s : s = ByList(c)
  OBVIOUS
<1>9. /\ s \in Seq(Block) /\ Len(s) = Len(named)
      /\ \A i \in 1..Len(s) : \E j \in 1..Len(c) : s[i] = c[j]
      /\ \A i \in 1..Len(named) : Key(s[i]) = named[i]
  <2>1. named = Only(CLASSIFY_ORDER, KeysOf(c))
    BY <1>5, <1>7
  <2>2. /\ Within(s, c) /\ Len(s) = Len(named)
        /\ \A i \in 1..Len(named) : Key(s[i]) = named[i]
    BY <1>3, <1>8, <2>1, ByListNamed
  <2> QED
    BY <2>2 DEF Within
<1>10. DOMAIN c = 1..Len(c)
  BY <1>3
<1>11. {p \in 1..Len(L) : L[p] \in KeysOf(c)} = Listed(M, l.from)
  <2>1. ASSUME NEW p \in 1..Len(L) PROVE L[p] \in KeysOf(c) <=> \E x \in S : Key(M[x]) = L[p]
    <3>1. L[p] \in KeysOf(c) <=> \E i \in 1..Len(c) : L[p] = Key(c[i])
      BY <1>10 DEF KeysOf
    <3> QED
      BY <3>1, <1>4
  <2> QED
    BY <2>1, <1>2, <1>5 DEF Listed
<1>12. Lists(L, L, 1..Len(L), Upward)
  BY <1>6, ListsItself
<1>13. PICK D : D = 1..Len(L)
  OBVIOUS
<1>14. Lists(named, L, {p \in D : L[p] \in KeysOf(c)}, Upward)
  BY <1>6, <1>7, <1>12, <1>13, ListsOnly
<1>15. Lists(named, L, Listed(M, l.from), Upward)
  BY <1>11, <1>13, <1>14
<1>16. PICK n \in Nat : \E h : Enumerates(h, n, Listed(M, l.from), Upward) /\ named = [i \in 1..n |-> L[h[i]]]
  BY <1>15 DEF Lists
<1>17. PICK h : Enumerates(h, n, Listed(M, l.from), Upward) /\ named = [i \in 1..n |-> L[h[i]]]
  BY <1>16
<1>18. Len(named) = n /\ \A i \in 1..n : named[i] = L[h[i]] /\ h[i] \in Listed(M, l.from)
  BY <1>17 DEF Enumerates
<1>19. \A i \in 1..n : s[i] = FirstNamed(M)[h[i]]
  <2> SUFFICES ASSUME NEW i \in 1..n PROVE s[i] = FirstNamed(M)[h[i]]
    OBVIOUS
  <2>1. PICK j \in 1..Len(c) : s[i] = c[j]
    BY <1>9, <1>18
  <2>2. PICK x \in S : c[j] = M[x]
    BY <1>4
  <2>3. PICK p : p = h[i]
    OBVIOUS
  <2>4. p \in 1..Len(CLASSIFY_ORDER)
    BY <2>3, <1>18 DEF Listed
  <2>5. Key(M[x]) = CLASSIFY_ORDER[p]
    BY <2>1, <2>2, <2>3, <1>5, <1>9, <1>18
  <2>6. FirstNamed(M)[p] = M[x]
    BY <1>1, <1>2, <1>3, <2>4, <2>5, FirstNamedIs
  <2> QED
    BY <2>1, <2>2, <2>3, <2>6
<1>20. s = [i \in 1..n |-> FirstNamed(M)[h[i]]]
  <2>1. s = [i \in 1..n |-> s[i]]
    BY <1>9, <1>18
  <2> QED
    BY <2>1, <1>19
<1> QED
  BY <1>8, <1>17, <1>20 DEF Lists

\* So two of them agree as well.
LEMMA ByListAgree ==
  ASSUME NEW t \in Templates, NEW l, NEW c, Lineage(l, t, c), NEW m, NEW d, Lineage(m, t, d)
  PROVE  Only(ByList(c), OfProviders(m.from)) = Only(ByList(d), OfProviders(l.from))
<1>1. PICK M \in Seq(Block) : M = Merged(t)
  BY MergedBlocks
<1>2. PICK g : g = FirstNamed(M)
  OBVIOUS
<1> DEFINE A(F, G) == {p \in Listed(M, F) : g[p] \in OfProviders(G)}
<1>3. ASSUME NEW k, NEW e, Lineage(k, t, e), NEW F
      PROVE  Lists(Only(ByList(e), OfProviders(F)), g, A(k.from, F), Upward)
  <2>1. ByList(e) \in Seq(Block)
    BY <1>3, ByListNamed DEF Within, Lineage
  <2>2. PICK P : P = Listed(M, k.from)
    OBVIOUS
  <2>3. Lists(ByList(e), g, P, Upward)
    BY <1>1, <1>2, <1>3, <2>2, ByListLists
  <2>4. Lists(Only(ByList(e), OfProviders(F)), g, {p \in P : g[p] \in OfProviders(F)}, Upward)
    BY <2>1, <2>3, ListsOnly
  <2> QED
    BY <2>2, <2>4
<1>4. l.from \subseteq Providers /\ m.from \subseteq Providers
  BY DEF Lineage
<1>5. ASSUME NEW F, F \subseteq Providers, NEW G, NEW p \in A(F, G) PROVE p \in A(G, F)
  <2>1. p \in 1..Len(CLASSIFY_ORDER) /\ g[p] \in OfProviders(G)
    BY DEF Listed
  <2>2. PICK x \in Served(M, F) : Key(M[x]) = CLASSIFY_ORDER[p]
    BY DEF Listed
  <2>3. g[p] = M[x]
    BY <1>1, <1>2, <1>5, <2>1, <2>2, FirstNamedIs
  <2>4. /\ x \in 1..Len(M) /\ FirstChat(M, x) /\ Key(M[x]) \notin EXCLUDED
        /\ Provider[M[x].host] \in F /\ M[x] \in Block
    BY <1>1, <1>5, <2>2, ServedPlaces
  <2>5. Provider[M[x].host] \in G
    BY <2>1, <2>3 DEF OfProviders
  <2>6. x \in Served(M, G)
    BY <2>4, <2>5 DEF Served
  <2>7. p \in Listed(M, G)
    BY <2>1, <2>2, <2>6 DEF Listed
  <2>8. g[p] \in OfProviders(F)
    BY <2>3, <2>4 DEF OfProviders
  <2> QED
    BY <2>7, <2>8
<1>6. A(l.from, m.from) = A(m.from, l.from)
  BY <1>4, <1>5
<1>7. PICK S : S = A(l.from, m.from)
  OBVIOUS
<1>8. Lists(Only(ByList(c), OfProviders(m.from)), g, S, Upward)
  BY <1>3, <1>7
<1>9. Lists(Only(ByList(d), OfProviders(l.from)), g, S, Upward)
  BY <1>3, <1>6, <1>7
<1>10. \A p, q \in S : <<p, q>> \in Upward => <<q, p>> \notin Upward
  BY DEF Upward
<1> HIDE DEF A
<1> QED
  BY <1>8, <1>9, <1>10, ListsUnique

\* A key more or less inserts or removes, and reorders nothing.
LEMMA ChainsAgree ==
  ASSUME NEW t \in Templates, NEW l, NEW c, Lineage(l, t, c), NEW m, NEW d, Lineage(m, t, d),
         NEW r \in RouteNames
  PROVE  Only(l.chains[r], OfProviders(m.from)) = Only(m.chains[r], OfProviders(l.from))
<1>1. l.chains = Chains(c) /\ m.chains = Chains(d)
  BY DEF Lineage
<1>2. CASE r = "standard"
  <2>1. l.chains[r] = StandardOf(c) /\ m.chains[r] = StandardOf(d)
    BY <1>1, <1>2 DEF Chains
  <2> QED
    BY <2>1, FilteredAgree DEF StandardOf
<1>3. CASE r = "tools"
  <2>1. l.chains[r] = VerifiedOf(c, ToolsVerified) /\ m.chains[r] = VerifiedOf(d, ToolsVerified)
    BY <1>1, <1>3 DEF Chains
  <2> QED
    BY <2>1, FilteredAgree DEF VerifiedOf
<1>4. CASE r = "vision"
  <2>1. l.chains[r] = VerifiedOf(c, VisionVerified) /\ m.chains[r] = VerifiedOf(d, VisionVerified)
    BY <1>1, <1>4 DEF Chains
  <2> QED
    BY <2>1, FilteredAgree DEF VerifiedOf
<1>5. CASE r = "classify"
  <2>1. l.chains[r] = ByList(c) /\ m.chains[r] = ByList(d)
    BY <1>1, <1>5 DEF Chains
  <2> QED
    BY <2>1, ByListAgree
<1> QED
  BY <1>2, <1>3, <1>4, <1>5 DEF RouteNames

\* The step of KeysInsertOnly.
InsertOnly ==
  \A r \in RouteNames :
    LET Of(c, K) == Only(c, {b \in Block : Provider[b.host] \in K})
    IN  Of(live'.chains[r], live.from) = Of(live.chains[r], live'.from)

\* Only a restart loads another configuration, of the same template.
LEMMA StepInserts == IInv /\ [Next]_vars => [InsertOnly]_vars
<1> SUFFICES ASSUME IInv, [Next]_vars PROVE InsertOnly
  OBVIOUS
<1>1. CASE live' = live
  BY <1>1 DEF InsertOnly
<1>2. CASE live' # live
  <2>1. Restart
    BY <1>2 DEF Next, EditKeys, Weather, Ask, Router, Answer, NextLevel, LastFails, Walk, vars
  <2>2. live' = Rendered(template, keys, keys') /\ keys' \subseteq Providers
    BY <2>1 DEF Restart, Edits, IInv
  <2>3. template \in Templates /\ \E c : Lineage(live, template, c)
    BY LoadedLineage
  <2>4. PICK c : Lineage(live, template, c)
    BY <2>3
  <2>5. PICK m : m = live'
    OBVIOUS
  <2>6. PICK d : Lineage(m, template, d)
    BY <2>2, <2>3, <2>5, RenderedLineage
  <2>7. \A r \in RouteNames : Only(m.chains[r], OfProviders(live.from)) = Only(live.chains[r], OfProviders(m.from))
    BY <2>3, <2>4, <2>6, ChainsAgree
  <2> QED
    BY <2>5, <2>7 DEF InsertOnly, OfProviders
<1> QED
  BY <1>1, <1>2

\* A provider key that comes or goes inserts or removes that provider's
\* models and changes nothing else.
THEOREM InsertsOnly == Spec => KeysInsertOnly
<1>1. Spec => [][InsertOnly]_vars
  BY Invariance, StepInserts, PTL DEF Spec
<1>2. KeysInsertOnly <=> [][InsertOnly]_vars
  BY PTL DEF KeysInsertOnly, InsertOnly
<1> QED
  BY <1>1, <1>2

=============================================================================

---------------------------- MODULE Sync_proofs ----------------------------
(***************************************************************************)
(* For any catalogues, templates, .env and bounds: a template that is      *)
(* replaced is in the backup the new one was made from, and a config.yaml  *)
(* that is replaced is the newest of its backups.  Then, that the files    *)
(* keep their shape: whatever the syncs and renders do, template and       *)
(* config.yaml are missing or have one model_list every program finds      *)
(* again, the settings behind it, and of policies and marked blocks only   *)
(* what the next program can take away.  And that the master's             *)
(* configuration, made of such a config.yaml, mirrors each of its groups.  *)
(***************************************************************************)
EXTENDS Sync, FoldLemmas

\* A sync that moved the template away is the only way to have none and get
\* it back.
Moved == sync.pc = "write" /\ sync.onTemplate

\* A sync that works on the template holds its content, first in place, then
\* in the backup; one that works on config.yaml found no template.
SyncInv ==
  /\ sync.pc \in {"apply", "write"} => sync.onTemplate \in BOOLEAN
  /\ sync.pc = "apply" /\ sync.onTemplate => template = sync.old /\ template # NoFile
  /\ sync.pc \in {"apply", "write"} /\ ~sync.onTemplate => template = NoFile
  /\ Moved => /\ template = NoFile /\ backup = sync.old
              /\ sync.new = ApplyToConfig(sync.old, sync.adds)

\* A render that is about to replace config.yaml has it in the newest backup,
\* unless the template it read is gone for good.
RenderInv ==
  /\ DOMAIN render \in {{"pc", "by"}, {"pc", "by", "template", "env", "new"}}
  /\ \E S : saved \in Seq(S)
  /\ render.pc = "replace" /\ config # NoFile =>
       \/ saved # <<>> /\ Last(saved) = config
       \/ template = NoFile /\ ~Moved

IInv == SyncInv /\ RenderInv

-----------------------------------------------------------------------------
(* Lines. *)

\* No line of it begins a marked block.
Unmarked == {l \in Line : l.k # "begin"}

\* The lines the programs write are lines.
LEMMA LinesTyped ==
  /\ \A k \in {"model_list", "blank", "header", "new_header", "policies"} : Key(k) \in Unmarked
  /\ \A g \in Names : Name(g) \in Unmarked /\ [k |-> "policy", name |-> g] \in Unmarked
  /\ \A s \in STRING, m \in Ids : Model(s, m) \in Unmarked
  /\ \A b \in STRING : ApiBase(b) \in Unmarked
  /\ \A c \in Nat : Cost(c) \in Unmarked
  /\ Mode("chat") \in Unmarked
  /\ \A g \in Names \union {"*"}, t \in Seq(STRING) : Chain(g, t) \in Unmarked
<1>1. \A k \in {"model_list", "blank", "header", "new_header", "policies"} : Key(k) \in Unmarked
  BY DEF Key, Line, Unmarked, TopLevel
<1>2. \A g \in Names : Name(g) \in Unmarked /\ [k |-> "policy", name |-> g] \in Unmarked
  BY DEF Name, Line, Unmarked
<1>3. \A s \in STRING, m \in Ids : Model(s, m) \in Unmarked
  BY DEF Model, Line, Unmarked
<1>4. \A b \in STRING : ApiBase(b) \in Unmarked
  BY DEF ApiBase, Line, Unmarked
<1>5. \A c \in Nat : Cost(c) \in Unmarked
  BY DEF Cost, Line, Unmarked
<1>6. Mode("chat") \in Unmarked
  BY DEF Mode, Line, Unmarked
<1>7. \A g \in Names \union {"*"}, t \in Seq(STRING) : Chain(g, t) \in Unmarked
  BY DEF Chain, Line, Unmarked
<1> QED
  BY <1>1, <1>2, <1>3, <1>4, <1>5, <1>6, <1>7

\* ListStart is the first model_list line, 0 without one.
LEMMA ListStartIs ==
  ASSUME NEW f \in Seq(Line)
  PROVE  /\ ListStart(f) \in 0..Len(f)
         /\ ListStart(f) # 0 => f[ListStart(f)].k = "model_list"
         /\ \A i \in 1..Len(f) : f[i].k = "model_list" => ListStart(f) # 0 /\ ListStart(f) <= i
<1>1. PICK n \in Nat : n = Len(f)
  OBVIOUS
<1> DEFINE I == {i \in 1..Len(f) : f[i].k = "model_list"}
<1>2. ListStart(f) = IF I # {} THEN Min(I) ELSE 0
  BY DEF ListStart, SelectInSeq
<1>3. I \in SUBSET (1..n)
  BY <1>1
<1> HIDE DEF I
<1>4. I # {} => Min(I) \in I /\ \A j \in I : Min(I) <= j
  BY <1>3, MinIsFirst
<1> QED
  <2>1. CASE I = {}
    BY <1>1, <1>2, <2>1 DEF I
  <2>2. CASE I # {}
    <3>1. ListStart(f) \in I /\ \A j \in I : ListStart(f) <= j
      BY <1>2, <1>4, <2>2
    <3> QED
      BY <3>1, <1>1 DEF I
  <2> QED
    BY <2>1, <2>2

\* The model_list ends behind its first line, at the latest with the file.
LEMMA ListEndIs ==
  ASSUME NEW f \in Seq(Line)
  PROVE  ListEnd(f) \in (ListStart(f) + 1)..(Len(f) + 1)
<1>1. PICK n \in Nat : n = Len(f)
  OBVIOUS
<1>2. ListStart(f) \in 0..n
  BY <1>1, ListStartIs
<1> DEFINE from == ListStart(f) + 1
           I == {i \in from..n : f[i].k \in TopLevel}
           j == IF I # {} THEN Min(I) ELSE 0
<1>3. ListEnd(f) = IF j = 0 THEN n + 1 ELSE j
  BY <1>1 DEF ListEnd, OrElse, SelectInSubSeq
<1>4. I \in SUBSET (1..n) /\ I \subseteq from..n /\ from \in 1..(n + 1)
  BY <1>2
<1> HIDE DEF I, from
<1>5. CASE I = {}
  <2>1. ListEnd(f) = n + 1
    BY <1>3, <1>5
  <2> QED
    BY <2>1, <1>1, <1>4 DEF from
<1>6. CASE I # {}
  <2>1. Min(I) \in I
    BY <1>4, <1>6, MinIsFirst
  <2>2. Min(I) \in from..n /\ Min(I) \in 1..n
    BY <2>1, <1>4
  <2>3. j = Min(I) /\ j # 0
    BY <2>2, <1>6
  <2>4. ListEnd(f) = Min(I)
    BY <2>3, <1>3
  <2> QED
    BY <2>2, <2>4, <1>1, <1>4 DEF from
<1> QED
  BY <1>5, <1>6

-----------------------------------------------------------------------------
(* Changing a file line by line. *)

\* A splice, line by line.
LEMMA SpliceAt ==
  ASSUME NEW E, NEW f \in Seq(E), NEW new \in Seq(E), NEW p \in 1..(Len(f) + 1)
  PROVE  /\ Splice(f, p, new) \in Seq(E)
         /\ Len(Splice(f, p, new)) = Len(f) + Len(new)
         /\ \A j \in 1..(Len(f) + Len(new)) :
              Splice(f, p, new)[j] = IF j < p THEN f[j]
                                     ELSE IF j < p + Len(new) THEN new[j - p + 1]
                                     ELSE f[j - Len(new)]
BY PutInAt DEF Splice, PutIn

-----------------------------------------------------------------------------
(* Scanning. *)

\* The first position of a set of them, or what stands for none.
LEMMA FirstOr ==
  ASSUME NEW n \in Nat, NEW I \in SUBSET (1..n), NEW d
  PROVE  /\ I = {} => OrElse(IF I # {} THEN Min(I) ELSE 0, d) = d
         /\ I # {} => /\ OrElse(IF I # {} THEN Min(I) ELSE 0, d) \in I
                      /\ \A i \in I : OrElse(IF I # {} THEN Min(I) ELSE 0, d) <= i
<1>1. CASE I = {}
  BY <1>1 DEF OrElse
<1>2. CASE I # {}
  <2>1. Min(I) \in I /\ \A i \in I : Min(I) <= i
    BY <1>2, MinIsFirst
  <2>2. Min(I) # 0
    BY <2>1
  <2> QED
    BY <1>2, <2>1, <2>2 DEF OrElse
<1> QED
  BY <1>1, <1>2

\* A block starts behind model_list, with a model_name.
LEMMA StartsIn ==
  ASSUME NEW f \in Seq(Line), NEW i \in Starts(f)
  PROVE  i \in 1..Len(f) /\ i > ListStart(f) /\ i < ListEnd(f) /\ f[i].name \in Names
<1>1. ListStart(f) \in 0..Len(f) /\ ListEnd(f) \in (ListStart(f) + 1)..(Len(f) + 1)
  BY ListStartIs, ListEndIs
<1>2. i \in (ListStart(f) + 1)..(ListEnd(f) - 1) /\ f[i].k = "model_name"
  BY DEF Starts
<1> HIDE DEF Starts
<1>3. i \in 1..Len(f) /\ i > ListStart(f) /\ i < ListEnd(f)
  BY <1>1, <1>2
<1>4. f[i] \in Line
  BY <1>3
<1>5. f[i].name \in Names
  BY <1>2, <1>4, SMTT(30) DEF Line, TopLevel
<1> QED
  BY <1>3, <1>5

\* b are the blocks of f that start at at[1] to at[n], all there are.
Scans(b, f, n, at) ==
  /\ at \in [1..n -> Starts(f)] /\ \A j \in Starts(f) : \E i \in 1..n : at[i] = j
  /\ b = [i \in 1..n |-> b[i]]
  /\ \A i \in 1..n : b[i].name = f[at[i]].name /\ b[i].start = at[i]

\* The starts in their order.
LEMMA AscendingStarts ==
  ASSUME NEW f \in Seq(Line)
  PROVE  \E n \in Nat : /\ n = Len(Ascending(Starts(f), Len(f)))
                        /\ Ascending(Starts(f), Len(f)) \in [1..n -> Starts(f)]
                        /\ \A j \in Starts(f) : \E i \in 1..n : Ascending(Starts(f), Len(f))[i] = j
<1> DEFINE s == [i \in 1..Len(f) |-> i]
           at == Only(s, Starts(f))
<1>1. s \in Seq(1..Len(f))
  OBVIOUS
<1>0. ASSUME NEW j \in Starts(f) PROVE j \in 1..Len(s) /\ s[j] = j
  BY <1>1, StartsIn
<1> HIDE DEF s
<1>2. /\ at \in Seq(Starts(f))
      /\ \A j \in Starts(f) : \E i \in 1..Len(at) : at[i] = j
  <2> DEFINE D == 1..Len(f)
             S == Starts(f)
  <2>1. s \in Seq(D)
    BY <1>1
  <2>2. S \subseteq D
    BY StartsIn
  <2>3. \A j \in S : \E i \in 1..Len(s) : s[i] = j
    BY <1>0
  <2> HIDE DEF D, S
  <2>4. /\ Only(s, S) \in Seq(D \cap S)
        /\ \A x : (\E i \in 1..Len(Only(s, S)) : Only(s, S)[i] = x)
             <=> (x \in S /\ \E i \in 1..Len(s) : s[i] = x)
    BY <2>1, OnlyKeeps
  <2>5. D \cap S = S
    BY <2>2
  <2>6. Only(s, S) \in Seq(S) /\ \A j \in S : \E i \in 1..Len(Only(s, S)) : Only(s, S)[i] = j
    BY <2>3, <2>4, <2>5
  <2> QED
    BY <2>6 DEF S
<1> HIDE DEF at
<1>3. at \in [1..Len(at) -> Starts(f)] /\ Len(at) \in Nat
  BY <1>2
<1>4. at = Ascending(Starts(f), Len(f))
  BY DEF at, s, Ascending
<1> QED
  BY <1>2, <1>3, <1>4, Zenon

\* _scan_existing_blocks: each block ends at its start or behind it.
LEMMA ScanExistingScans ==
  ASSUME NEW f \in Seq(Line)
  PROVE  \E n \in Nat : \E at :
           /\ Scans(ScanExisting(f), f, n, at)
           /\ \A i \in 1..n : ScanExisting(f)[i].end \in at[i]..(ListEnd(f) - 1)
<1> DEFINE at == Ascending(Starts(f), Len(f))
           Ends(i) == {j \in (i + 1)..(ListEnd(f) - 1) : f[j].k \in {"blank", "model_name"}}
           EndOf(i) == OrElse(IF Ends(i) # {} THEN Min(Ends(i)) ELSE 0, ListEnd(f)) - 1
           block(i) == BlockAt(f, at[i], EndOf(at[i]), Last)
<1>1. PICK n \in Nat : /\ n = Len(at) /\ at \in [1..n -> Starts(f)]
                     /\ \A j \in Starts(f) : \E i \in 1..n : at[i] = j
  BY AscendingStarts
<1> DEFINE b == [i \in 1..n |-> block(i)]
<1>2. ScanExisting(f) = FlattenSeq([i \in 1..n |-> <<b[i]>>])
  BY <1>1 DEF ScanExisting, Blocks, Concat, SelectInSubSeq
<1>3. ASSUME NEW i \in 1..n
      PROVE  /\ block(i).name = f[at[i]].name /\ block(i).start = at[i]
             /\ block(i).end = EndOf(at[i])
  BY DEF BlockAt
<1> HIDE DEF block, at
<1>4. FlattenSeq([i \in 1..n |-> <<b[i]>>]) = b
  <2> DEFINE E == {block(i) : i \in 1..n}
             ss == [i \in 1..n |-> <<b[i]>>]
  <2>1. b \in [1..n -> E]
    OBVIOUS
  <2> HIDE DEF b, E
  <2>2. FlattenSeq(ss) = b
    BY <2>1, FlattenSingles
  <2> QED
    BY <2>2
<1>5. Scans(b, f, n, at)
  BY <1>1, <1>3 DEF Scans
<1>6. ASSUME NEW i \in 1..n PROVE b[i].end \in at[i]..(ListEnd(f) - 1)
  <2>1. /\ at[i] \in 1..Len(f) /\ at[i] < ListEnd(f)
        /\ ListEnd(f) \in (ListStart(f) + 1)..(Len(f) + 1) /\ ListStart(f) \in 0..Len(f)
    BY <1>1, StartsIn, ListEndIs, ListStartIs
  <2> DEFINE I == Ends(at[i])
             e == OrElse(IF I # {} THEN Min(I) ELSE 0, ListEnd(f))
  <2>2. I \in SUBSET (1..Len(f)) /\ I \subseteq (at[i] + 1)..(ListEnd(f) - 1)
    BY <2>1
  <2>3. b[i].end = e - 1
    BY <1>3
  <2> HIDE DEF I, b
  <2>4. e \in (at[i] + 1)..ListEnd(f)
    <3>1. PICK m \in Nat : m = Len(f)
      OBVIOUS
    <3>2. (I = {} => e = ListEnd(f)) /\ (I # {} => e \in I)
      <4>1. I \in SUBSET (1..m)
        BY <2>2, <3>1
      <4> QED
        BY <4>1, FirstOr
    <3> HIDE DEF e
    <3>3. at[i] \in Int /\ ListEnd(f) \in Int /\ at[i] + 1 <= ListEnd(f)
      BY <2>1
    <3>4. \A j \in I : j \in (at[i] + 1)..ListEnd(f)
      BY <2>2, <3>3
    <3> QED
      BY <3>2, <3>3, <3>4
  <2> HIDE DEF e
  <2> QED
    BY <2>1, <2>3, <2>4
<1> HIDE DEF b
<1> QED
  BY <1>2, <1>4, <1>5, <1>6

\* parse_blocks: each block ends before the blank lines behind its start.
LEMMA ParseBlocksScans ==
  ASSUME NEW f \in Seq(Line)
  PROVE  \E n \in Nat : \E at :
           /\ Scans(ParseBlocks(f), f, n, at)
           /\ \A i \in 1..n : \A j \in (at[i] + 1)..(ListEnd(f) - 1) :
                f[j].k = "blank" => ParseBlocks(f)[i].end \in 0..(j - 1)
<1> DEFINE at == Ascending(Starts(f), Len(f))
           Ends(i) == {j \in (i + 1)..(ListEnd(f) - 1) : f[j].k \in {"blank", "model_name"}}
           EndOf(i) == OrElse(IF Ends(i) # {} THEN Min(Ends(i)) ELSE 0, Len(f) + 1) - 1
           block(i) == BlockAt(f, at[i], EndOf(at[i]), Head)
<1>1. PICK n \in Nat : /\ n = Len(at) /\ at \in [1..n -> Starts(f)]
                     /\ \A j \in Starts(f) : \E i \in 1..n : at[i] = j
  BY AscendingStarts
<1> DEFINE b == [i \in 1..n |-> block(i)]
<1>2. ParseBlocks(f) = FlattenSeq([i \in 1..n |-> <<b[i]>>])
  BY <1>1 DEF ParseBlocks, Blocks, Concat, SelectInSubSeq
<1>3. \A i \in 1..n : /\ block(i).name = f[at[i]].name /\ block(i).start = at[i]
                    /\ block(i).end = EndOf(at[i])
  BY DEF BlockAt
<1> HIDE DEF block, at
<1>4. FlattenSeq([i \in 1..n |-> <<b[i]>>]) = b
  <2> DEFINE E == {block(i) : i \in 1..n}
             ss == [i \in 1..n |-> <<b[i]>>]
  <2>1. b \in [1..n -> E]
    OBVIOUS
  <2> HIDE DEF b, E
  <2>2. FlattenSeq(ss) = b
    BY <2>1, FlattenSingles
  <2> QED
    BY <2>2
<1>5. Scans(b, f, n, at)
  BY <1>1, <1>3 DEF Scans
<1>6. ASSUME NEW i \in 1..n, NEW j \in (at[i] + 1)..(ListEnd(f) - 1), f[j].k = "blank"
      PROVE  b[i].end \in 0..(j - 1)
  <2>1. /\ at[i] \in 1..Len(f) /\ at[i] < ListEnd(f)
        /\ ListEnd(f) \in (ListStart(f) + 1)..(Len(f) + 1) /\ ListStart(f) \in 0..Len(f)
    BY <1>1, StartsIn, ListEndIs, ListStartIs
  <2> DEFINE I == Ends(at[i])
             e == OrElse(IF I # {} THEN Min(I) ELSE 0, Len(f) + 1)
  <2>2. I \in SUBSET (1..Len(f)) /\ j \in I
    BY <2>1, <1>6
  <2>3. b[i].end = e - 1
    BY <1>3
  <2> HIDE DEF I, b
  <2>4. e \in I /\ e <= j
    <3>1. PICK m \in Nat : m = Len(f)
      OBVIOUS
    <3>2. I \in SUBSET (1..m)
      BY <2>2, <3>1
    <3> QED
      BY <2>2, <3>2, FirstOr
  <2> HIDE DEF e
  <2> QED
    BY <2>2, <2>3, <2>4
<1> HIDE DEF b
<1> QED
  BY <1>2, <1>4, <1>5, <1>6

\* The names of the blocks.
LEMMA ScannedNames ==
  ASSUME NEW f \in Seq(Line), NEW b, NEW n \in Nat, NEW at, Scans(b, f, n, at)
  PROVE  \A i \in DOMAIN b : b[i].name \in Names /\ b[i].start \in Starts(f)
BY StartsIn DEF Scans

-----------------------------------------------------------------------------
(* Additions. *)

Addition == [name : Names, provider : Providers, id : Ids, cost : Nat]

\* The additions planned for one group.
LEMMA AddsForTyped ==
  ASSUME NEW adds \in Seq(Addition), NEW g
  PROVE  AddsFor(adds, g) \in Seq(Addition)
BY OnlyTyped DEF AddsFor, Filter

\* sorted() of some names is a sequence of them.
LEMMA SortedTyped ==
  ASSUME NEW names
  PROVE  Sorted(names) \in Seq(Names)
<1>1. NAMES \in Seq(Names)
  BY TableAssumption DEF Names, ToSet
<1> QED
  BY <1>1, OnlyTyped DEF Sorted

-----------------------------------------------------------------------------
(* Rendering. *)

\* The order in which the features are taken.
LEMMA FeaturesListed ==
  \E n \in Nat : /\ n = Len(SetToSeq(Features))
                 /\ SetToSeq(Features) \in [1..n -> Features]
                 /\ \A i, j \in 1..n : SetToSeq(Features)[i] = SetToSeq(Features)[j] => i = j
                 /\ \A tag \in Features : \E i \in 1..n : SetToSeq(Features)[i] = tag
<1> DEFINE n == Cardinality(Features)
           q == SetToSeq(Features)
<1>1. n \in Nat
  BY RenderAssumption, FS_CardinalityType
<1>2. ExistsBijection(1..n, Features)
  BY RenderAssumption, FS_CardinalityType
<1>3. PICK b \in [1..n -> Features] : \A i, j \in 1..n : b[i] = b[j] => i = j
  BY <1>2 DEF ExistsBijection, Bijection, Injection, IsInjective
<1>4. IsInjective(b)
  BY <1>3 DEF IsInjective
<1>5. q \in [1..n -> Features] /\ IsInjective(q)
  BY <1>4 DEF SetToSeq
<1>6. Len(q) = n
  BY <1>1, <1>5
<1>7. \A i, j \in 1..n : q[i] = q[j] => i = j
  BY <1>5 DEF IsInjective
<1> HIDE DEF q
<1>8. \A tag \in Features : \E i \in 1..n : q[i] = tag
  <2> DEFINE J == {q[i] : i \in 1..n}
  <2>1. q \in Injection(1..n, J) /\ q \in Surjection(1..n, J)
    BY <1>5, <1>7 DEF Injection, Surjection, IsInjective
  <2>2. IsFiniteSet(1..n) /\ Cardinality(1..n) = n
    BY <1>1, FS_Interval
  <2>3. IsFiniteSet(J) /\ Cardinality(J) = n
    <3>1. ExistsBijection(1..n, J)
      BY <2>1 DEF ExistsBijection, Bijection
    <3> HIDE DEF J
    <3> QED
      BY <3>1, <2>2, FS_Bijection
  <2>4. J \subseteq Features
    BY <1>5
  <2> HIDE DEF J
  <2>5. J = Features
    BY <2>3, <2>4, RenderAssumption, FS_Subset
  <2> QED
    BY <2>5 DEF J
<1> QED
  BY <1>1, <1>5, <1>6, <1>7, <1>8 DEF q

\* The comment above a block is behind model_list.
LEMMA HeaderStartIs ==
  ASSUME NEW f \in Seq(Line), NEW b, b.start \in Starts(f)
  PROVE  HeaderStart(f, b) \in (ListStart(f) + 1)..Len(f)
<1> DEFINE furthest == IF b.start - MAX_HEADER_LINES > ListStart(f)
                       THEN b.start - MAX_HEADER_LINES ELSE ListStart(f)
           above == {j \in (furthest + 1)..(b.start - 1) :
                       /\ f[j].k = "header"
                       /\ \A i \in j..(b.start - 1) : f[i].k \in {"blank", "header"}}
<1>1. PICK n \in Nat : n = Len(f)
  OBVIOUS
<1>2. ListStart(f) \in 0..n /\ b.start \in (ListStart(f) + 1)..n
  BY <1>1, ListStartIs, StartsIn
<1>3. furthest \in Nat /\ furthest >= ListStart(f)
  BY <1>2, RenderAssumption
<1> HIDE DEF furthest
<1>4. above \in SUBSET ((ListStart(f) + 1)..n) /\ above \in SUBSET (1..n)
      /\ \A i \in above : i \in 1..n /\ i < b.start
  BY <1>2, <1>3
<1>5. HeaderStart(f, b) = CHOOSE j \in above \union {b.start} : \A i \in above : j <= i
  BY DEF HeaderStart, above, furthest
<1> HIDE DEF above
<1>6. \E j \in above \union {b.start} : \A i \in above : j <= i
  <2>1. CASE above = {}
    BY <2>1
  <2>2. CASE above # {}
    BY <2>2, <1>4, MinUpTo
  <2> QED
    BY <2>1, <2>2
<1>7. HeaderStart(f, b) \in above \union {b.start}
  BY <1>5, <1>6
<1> QED
  BY <1>1, <1>2, <1>4, <1>7 DEF above

\* Retained names are the groups'.
LEMMA KeptNames ==
  ASSUME NEW f \in Seq(Line), NEW W
  PROVE  NamesOf(Only(ParseBlocks(f), W)) \subseteq Names
<1> DEFINE b == ParseBlocks(f)
           kept == Only(b, W)
<1>1. PICK n \in Nat : \E at : Scans(b, f, n, at)
  BY ParseBlocksScans
<1> HIDE DEF b
<1>2. b = [i \in 1..n |-> b[i]] /\ \A i \in 1..n : b[i].name \in Names
  <2>1. PICK at : Scans(b, f, n, at)
    BY <1>1
  <2>2. b = [i \in 1..n |-> b[i]]
    BY <2>1 DEF Scans
  <2>3. \A i \in DOMAIN b : b[i].name \in Names
    BY <2>1, ScannedNames
  <2> QED
    BY <2>2, <2>3
<1> DEFINE E == {b[i] : i \in 1..n}
<1>3. b \in Seq(E)
  BY <1>2
<1>4. kept \in Seq(E \cap W)
  <2> HIDE DEF E
  <2> QED
    BY <1>3, OnlyKeeps
<1> HIDE DEF kept
<1>5. \A i \in DOMAIN kept : kept[i] \in E
  BY <1>4
<1> QED
  BY <1>2, <1>5 DEF NamesOf, kept, b

\* A chain's new targets.
LEMMA TargetsTyped ==
  ASSUME NEW line, line.to \in Seq(STRING), NEW section, NEW names \in SUBSET Names, NEW e
  PROVE  Targets(line, section, names, e) \in Seq(STRING)
<1> DEFINE valid == Only(line.to, names)
<1>1. valid \in Seq(STRING)
  BY OnlyTyped
<1>2. Filter(valid, LAMBDA g : g # "openrouter-free") \in Seq(STRING)
  BY <1>1, OnlyTyped DEF Filter
<1>3. Names \subseteq STRING
  BY TableAssumption DEF Names, ToSet
<1> HIDE DEF valid
<1>4. "openrouter-free" \in names => Append(valid, "openrouter-free") \in Seq(STRING)
  <2> DEFINE g == "openrouter-free"
  <2>1. g \in names => g \in STRING
    BY <1>3
  <2> HIDE DEF g
  <2>2. g \in names => Append(valid, g) \in Seq(STRING)
    BY <1>1, <2>1
  <2> QED
    BY <2>2 DEF g
<1> QED
  BY <1>1, <1>2, <1>4 DEF Targets, valid

-----------------------------------------------------------------------------
(* The plan. *)

\* Positions taken in ascending order.
LEMMA AscendingTyped ==
  ASSUME NEW n \in Nat, NEW S
  PROVE  Ascending(S, n) \in Seq(1..n)
<1> DEFINE s == [i \in 1..n |-> i]
<1>1. s \in Seq(1..n)
  OBVIOUS
<1> HIDE DEF s
<1>2. Only(s, S) \in Seq(1..n)
  BY <1>1, OnlyTyped
<1> QED
  BY <1>2 DEF Ascending, s

\* The tables of providers and of ids.
LEMMA TablesTyped ==
  /\ PROVIDERS \in Seq(Providers) /\ IDS \in Seq(Ids)
  /\ \A m \in Ids : \E i \in 1..Len(IDS) : IDS[i] = m
<1>1. PROVIDERS \in Seq(STRING) /\ IDS \in Seq(STRING)
  BY TableAssumption
<1>2. PROVIDERS \in Seq(Providers)
  BY <1>1 DEF Providers, ToSet
<1>3. IDS \in Seq(Ids) /\ \A m \in Ids : \E i \in 1..Len(IDS) : IDS[i] = m
  BY <1>1 DEF Ids, ToSet
<1> QED
  BY <1>2, <1>3

\* Some groups, one after the other.
LEMMA GroupOrderLength ==
  ASSUME NEW raw
  PROVE  Len(GroupOrder(raw)) \in Nat
<1> DEFINE ids(i) == IF PROVIDERS[i] \in DOMAIN raw THEN Only(IDS, raw[PROVIDERS[i]]) ELSE <<>>
           ss == [i \in 1..Len(PROVIDERS) |-> ids(i)]
           listed == FlattenSeq(ss)
           firsts == {i \in DOMAIN listed : \A j \in 1..(i - 1) : Norm[listed[j]] # Norm[listed[i]]}
           at == Ascending(firsts, Len(listed))
           group(k) == Norm[listed[at[k]]]
           tt == [k \in 1..Len(at) |-> <<group(k)>>]
           E == {group(k) : k \in 1..Len(at)}
<1>1. GroupOrder(raw) = FlattenSeq(tt)
  BY DEF GroupOrder, Concat
<1>2. PROVIDERS \in Seq(Providers) /\ IDS \in Seq(Ids)
  BY TablesTyped
<1>3. ASSUME NEW i \in 1..Len(PROVIDERS) PROVE ids(i) \in Seq(Ids)
  <2>1. Only(IDS, raw[PROVIDERS[i]]) \in Seq(Ids) /\ <<>> \in Seq(Ids)
    <3>1. Only(IDS, raw[PROVIDERS[i]]) \in Seq(Ids)
      BY <1>2, OnlyTyped
    <3>2. <<>> \in Seq(Ids)
      OBVIOUS
    <3> QED
      BY <3>1, <3>2
  <2> QED
    BY <2>1
<1> HIDE DEF ids
<1>4. ss \in Seq(Seq(Ids))
  BY <1>2, <1>3
<1> HIDE DEF ss
<1>5. listed \in Seq(Ids)
  BY <1>4, FlattenTyped
<1> HIDE DEF listed, firsts
<1>6. at \in Seq(1..Len(listed)) /\ Len(listed) \in Nat
  BY <1>5, AscendingTyped
<1> HIDE DEF at, group
<1>7. tt \in Seq(Seq(E))
  <2>1. ASSUME NEW k \in 1..Len(at) PROVE <<group(k)>> \in Seq(E)
    <3>1. group(k) \in E
      OBVIOUS
    <3> HIDE DEF E
    <3> QED
      BY <3>1, OneElement
  <2> HIDE DEF E
  <2> QED
    BY <1>6, <2>1
<1> HIDE DEF tt, E
<1>8. FlattenSeq(tt) \in Seq(E)
  BY <1>7, FlattenTyped
<1> QED
  BY <1>1, <1>8

\* What was collected: the ids some providers list.
Collected(raw) == DOMAIN raw \subseteq Providers /\ \A p \in DOMAIN raw : raw[p] \subseteq Ids

\* A planned deployment's group has a name.
LEMMA ModelNameTyped ==
  ASSUME NEW raw, Collected(raw), NEW n, NEW f \in Seq(Line),
         NEW p \in DOMAIN raw, NEW m \in Offered(raw, n, p)
  PROVE  ModelName(raw, n, ScanExisting(f)) \in Names
<1> DEFINE existing == ScanExisting(f)
           known == SelectInSeq(existing, LAMBDA b : Norm[b.name] = n)
           ids   == UNION {Offered(raw, n, q) : q \in DOMAIN raw}
           I == {i \in 1..Len(existing) : Norm[existing[i].name] = n}
<1>1. ModelName(raw, n, existing) = IF known # 0 THEN existing[known].name ELSE Pretty[Only(IDS, ids)[1]]
  BY DEF ModelName
<1>2. known = IF I # {} THEN Min(I) ELSE 0
  BY DEF SelectInSeq
<1>3. PICK k \in Nat : existing = [i \in 1..k |-> existing[i]] /\ \A i \in 1..k : existing[i].name \in Names
  <2>1. PICK k \in Nat : \E at : /\ Scans(existing, f, k, at)
                                  /\ \A i \in 1..k : existing[i].end \in at[i]..(ListEnd(f) - 1)
    BY ScanExistingScans
  <2>2. PICK at : Scans(existing, f, k, at)
    BY <2>1
  <2> HIDE DEF existing
  <2>3. \A i \in DOMAIN existing : existing[i].name \in Names
    BY <2>2, ScannedNames
  <2>4. existing = [i \in 1..k |-> existing[i]]
    BY <2>2 DEF Scans
  <2> QED
    BY <2>3, <2>4
<1> HIDE DEF known, existing
<1>4. Len(existing) = k
  BY <1>3
<1>5. ASSUME known # 0 PROVE ModelName(raw, n, existing) \in Names
  <2>1. I \in SUBSET (1..k) /\ I # {}
    BY <1>2, <1>4, <1>5
  <2> HIDE DEF I
  <2>2. Min(I) \in I
    BY <2>1, MinIsFirst
  <2>3. Min(I) \in 1..k
    BY <2>2, <1>4 DEF I
  <2> QED
    BY <1>1, <1>2, <1>3, <1>5, <2>1, <2>3
<1>6. ASSUME known = 0 PROVE ModelName(raw, n, existing) \in Names
  <2>1. m \in ids /\ m \in Ids
    BY DEF Offered, Members, Collected
  <2> HIDE DEF ids
  <2>2. IDS \in Seq(Ids) /\ \E i \in 1..Len(IDS) : IDS[i] = m
    BY <2>1, TablesTyped
  <2> DEFINE o == Only(IDS, ids)
  <2>3. o \in Seq(Ids) /\ \E i \in 1..Len(o) : o[i] = m
    <3>1. o \in Seq(Ids)
      BY <2>2, OnlyTyped
    <3>2. \A x : (\E i \in 1..Len(o) : o[i] = x) <=> (x \in ids /\ \E i \in 1..Len(IDS) : IDS[i] = x)
      <4>1. IDS \in Seq(Ids)
        BY <2>2
      <4> QED
        BY <4>1, OnlyKeeps
    <3> HIDE DEF o
    <3>3. \E i \in 1..Len(o) : o[i] = m
      BY <2>1, <2>2, <3>2
    <3> QED
      BY <3>1, <3>3
  <2> HIDE DEF o
  <2>4. o[1] \in Ids
    BY <2>3
  <2>5. Pretty[o[1]] \in Names
    BY <2>4, CatalogueAssumption
  <2> QED
    BY <1>1, <1>6, <2>5 DEF o
<1> QED
  BY <1>5, <1>6 DEF existing

\* The plan consists of additions.
LEMMA PlanTyped ==
  ASSUME NEW raw, Collected(raw), NEW f \in Seq(Line), NEW price \in [Ids -> Nat]
  PROVE  Plan(raw, ScanExisting(f), price) \in Seq(Addition)
<1> DEFINE existing == ScanExisting(f)
           present == {IdKey(existing[i].provider, existing[i].id) : i \in DOMAIN existing}
           order == GroupOrder(raw)
           offered(n, p) == IF p \in DOMAIN raw THEN Offered(raw, n, p) ELSE {}
           new(n, p) == Filter(IDS, LAMBDA m : m \in offered(n, p) /\ IdKey(p, m) \notin present \union DEAD)
           add(n, p, j) == [name |-> ModelName(raw, n, existing), provider |-> p,
                            id |-> new(n, p)[j], cost |-> price[new(n, p)[j]]]
           Adds(n, p) == FlattenSeq([j \in 1..Len(new(n, p)) |-> <<add(n, p, j)>>])
           group(k) == FlattenSeq([i \in 1..Len(PROVIDERS) |-> Adds(order[k], PROVIDERS[i])])
           ss == [k \in 1..Len(order) |-> group(k)]
<1>1. Plan(raw, existing, price) = FlattenSeq(ss)
  BY DEF Plan, Concat
<1>2. PROVIDERS \in Seq(Providers) /\ IDS \in Seq(Ids) /\ Len(order) \in Nat
  BY TablesTyped, GroupOrderLength
<1>3. ASSUME NEW n, NEW p \in Providers PROVE Adds(n, p) \in Seq(Addition)
  <2> DEFINE s == new(n, p)
             W == {m \in ToSet(IDS) : m \in offered(n, p) /\ IdKey(p, m) \notin present \union DEAD}
             tt == [j \in 1..Len(s) |-> <<add(n, p, j)>>]
  <2>1. s = Only(IDS, W)
    BY DEF Filter
  <2>2. W \subseteq offered(n, p)
    OBVIOUS
  <2> HIDE DEF W
  <2>3. s \in Seq(Ids) /\ s \in Seq(Ids \cap W)
    <3> HIDE DEF s
    <3> QED
      BY <1>2, <2>1, OnlyTyped
  <2> HIDE DEF s, present
  <2>4. ASSUME NEW j \in 1..Len(s) PROVE <<add(n, p, j)>> \in Seq(Addition)
    <3>1. s[j] \in Ids /\ s[j] \in W
      BY <2>3
    <3>2. p \in DOMAIN raw /\ s[j] \in Offered(raw, n, p)
      BY <2>2, <3>1
    <3>3. ModelName(raw, n, existing) \in Names
      BY <3>2, ModelNameTyped
    <3>4. price[s[j]] \in Nat
      BY <3>1
    <3> HIDE DEF existing
    <3>5. add(n, p, j) = [name |-> ModelName(raw, n, existing), provider |-> p, id |-> s[j], cost |-> price[s[j]]]
      BY DEF s
    <3>6. add(n, p, j) \in Addition
      BY <3>1, <3>3, <3>4, <3>5 DEF Addition
    <3> HIDE DEF add
    <3> QED
      BY <3>6, OneElement
  <2> HIDE DEF add
  <2>5. tt \in Seq(Seq(Addition))
    BY <2>3, <2>4
  <2> HIDE DEF tt
  <2>6. FlattenSeq(tt) \in Seq(Addition)
    BY <2>5, FlattenTyped
  <2> QED
    BY <2>6 DEF tt, s
<1> HIDE DEF Adds, order
<1>4. ASSUME NEW k \in 1..Len(order) PROVE group(k) \in Seq(Addition)
  <2> DEFINE tt == [i \in 1..Len(PROVIDERS) |-> Adds(order[k], PROVIDERS[i])]
  <2>1. tt \in Seq(Seq(Addition))
    BY <1>2, <1>3
  <2> HIDE DEF tt
  <2>2. FlattenSeq(tt) \in Seq(Addition)
    BY <2>1, FlattenTyped
  <2> QED
    BY <2>2 DEF tt
<1> HIDE DEF group
<1>5. ss \in Seq(Seq(Addition))
  BY <1>2, <1>4
<1> HIDE DEF ss
<1>6. FlattenSeq(ss) \in Seq(Addition)
  BY <1>5, FlattenTyped
<1> QED
  BY <1>1, <1>6

\* What the providers that answer list is a catalogue the plan can be made from.
LEMMA CollectTyped ==
  ASSUME NEW answers \in Answers, NEW e
  PROVE  Collected(Collect([p \in {q \in Providers : answers[q] # Fail} |-> answers[p]], e))
BY SyncAssumption DEF Collected, Collect

-----------------------------------------------------------------------------
(* Sequences. *)

\* A backup ends with what was backed up and none is lost before it.
LEMMA SavedLast ==
  ASSUME NEW S, NEW s \in Seq(S), NEW c, NEW t \in Saved(s, c)
  PROVE  /\ \E T : t \in Seq(T)
         /\ t # <<>> /\ Last(t) = c
         /\ ~(Len(t) < Len(s))
<1>1. CASE t = Append(s, c)
  BY <1>1, AppendLast
<1>2. CASE s # <<>> /\ t = Append(Front(s), c)
  <2>1. Len(s) \in Nat \ {0}
    BY <1>2
  <2> DEFINE m == Len(s) - 1
  <2>2. m \in Nat /\ \A i \in 1..m : s[i] \in S
    BY <2>1
  <2> HIDE DEF m
  <2>3. SubSeq(s, 1, m) \in Seq(S) /\ Len(SubSeq(s, 1, m)) = IF 1 <= m THEN m - 1 + 1 ELSE 0
    BY <2>2, SubSeqProperties
  <2>4. Len(SubSeq(s, 1, m)) = m
    BY <2>2, <2>3
  <2>5. Front(s) \in Seq(S) /\ Len(Front(s)) = Len(s) - 1
    BY <2>3, <2>4 DEF Front, m
  <2> QED
    BY <1>2, <2>1, <2>5, AppendLast
<1> QED
  BY <1>1, <1>2 DEF Saved

\* What pruning leaves.
LEMMA PrunedLast ==
  ASSUME NEW S, NEW s \in Seq(S), Len(s) > BACKUP_KEEP,
         NEW t, t = SubSeq(s, Len(s) - BACKUP_KEEP + 1, Len(s))
  PROVE  t \in Seq(S) /\ t # <<>> /\ Last(t) = Last(s)
<1>1. BACKUP_KEEP \in Nat \ {0}
  BY SyncAssumption
<1>2. t \in Seq(S) /\ Len(t) = BACKUP_KEEP
  BY <1>1
<1>3. t[BACKUP_KEEP] = s[Len(s)]
  BY <1>1
<1> QED
  BY <1>1, <1>2, <1>3 DEF Last

-----------------------------------------------------------------------------
(* The shape of the files. *)

\* Keys at the left margin, in a file that is at rest.
Top == TopLevel \ {"new_header"}

\* The model_list is from line s to line e, where the rest begins, with the
\* settings; its deployments are before line z, which is blank.
ListIs(f, s, z, e) ==
  /\ {s, z, e} \subseteq 1..Len(f) /\ s <= z /\ z < e
  /\ \A i \in 1..Len(f) :
       /\ f[i].k = "model_list" <=> i = s
       /\ f[i].k = "model_name" => s < i /\ i < z
       /\ f[i].k \in Top => i <= s \/ e <= i
       /\ f[i].k = "router_settings" => e <= i
  /\ f[e].k \in Top /\ \E i \in 1..Len(f) : f[i].k = "router_settings"
  /\ z = s \/ f[z].k = "blank"

\* From line h to line i stretches one line of kind k and then lines of kind l.
Run(f, h, i, k, l) == f[h].k = k /\ \A j \in (h + 1)..i : f[j].k = l

\* Behind it, the policies are one run and each marked block is one.
TailIs(f, e) ==
  /\ \A i \in 1..Len(f) : f[i].k \in {"policies", "policy", "begin"} => e < i
  /\ \A i, j \in 1..Len(f) : f[i].k = "policies" /\ f[j].k = "policies" => i = j
  /\ \A i \in 1..Len(f) : f[i].k = "policy" => \E h \in 1..i : Run(f, h, i, "policies", "policy")
  /\ \A i \in 1..Len(f) : f[i].k = "begin" =>
       \E c \in (i + 1)..Len(f) : f[c] = End(f[i].tag) /\ Run(f, i, c - 1, "begin", "marked")

\* A file of lines in L of that shape.
Framed(f, L, s, e) == f \in Seq(L) /\ \E z : ListIs(f, s, z, e) /\ TailIs(f, e)

Sound(f, L) == \E s, e : Framed(f, L, s, e)

\* The lines of config.yaml, and of the template.
Settled == {l \in Line : l.k # "new_header" /\ ~(l.k = "api_base" /\ l.base \in ToSet(SLAVES))}
Fresh   == {l \in Settled : l.k \notin {"policies", "policy"}}

\* Where line i is after m lines have been put in front of line p.
Up(i, p, m) == IF i < p THEN i ELSE i + m

\* Lines that may be put anywhere behind model_list.
Inert(new) == \A i \in 1..Len(new) : new[i].k \notin Top \union {"policies", "policy", "begin"}

\* g is f with the m inert lines from line p on.
Widens(g, f, p, m) ==
  /\ Len(g) = Len(f) + m
  /\ \A i \in 1..Len(f) : g[Up(i, p, m)] = f[i]
  /\ \A j \in 1..Len(g) : \/ \E i \in 1..Len(f) : j = Up(i, p, m)
                          \/ /\ p <= j /\ j < p + m
                             /\ g[j].k \notin Top \union {"policies", "policy", "begin"}

\* A splice of inert lines does that.
LEMMA SpliceWidens ==
  ASSUME NEW f \in Seq(Line), NEW new \in Seq(Line), Inert(new), NEW p \in 1..(Len(f) + 1)
  PROVE  Widens(Splice(f, p, new), f, p, Len(new))
<1> DEFINE g == Splice(f, p, new)
<1>1. PICK n \in Nat : n = Len(f)
  OBVIOUS
<1>2. PICK m \in Nat : m = Len(new)
  OBVIOUS
<1>3. /\ Len(g) = n + m
      /\ \A j \in 1..(n + m) : g[j] = IF j < p THEN f[j] ELSE IF j < p + m THEN new[j - p + 1]
                                      ELSE f[j - m]
  BY <1>1, <1>2, SpliceAt
<1>4. p \in 1..(n + 1)
  BY <1>1
<1> HIDE DEF g
<1>5. ASSUME NEW i \in 1..n PROVE g[Up(i, p, m)] = f[i]
  <2>1. CASE i < p
    BY <2>1, <1>2, <1>3 DEF Up
  <2>2. CASE p <= i
    <3>1. i + m \in 1..(n + m) /\ ~(i + m < p) /\ ~(i + m < p + m) /\ i + m - m = i /\ ~(i < p)
      BY <2>2, <1>2, <1>4
    <3> QED
      BY <3>1, <1>3 DEF Up
  <2> QED
    BY <2>1, <2>2, <1>4
<1>6. ASSUME NEW j \in 1..(n + m)
      PROVE  \/ \E i \in 1..n : j = Up(i, p, m)
             \/ p <= j /\ j < p + m /\ g[j].k \notin Top \union {"policies", "policy", "begin"}
  <2>1. CASE j < p
    <3>1. j \in 1..n /\ j = Up(j, p, m)
      BY <2>1, <1>4 DEF Up
    <3> QED
      BY <3>1
  <2>2. CASE p <= j /\ j < p + m
    <3>1. g[j] = new[j - p + 1] /\ j - p + 1 \in 1..m
      BY <2>2, <1>2, <1>3, <1>4
    <3> QED
      BY <2>2, <3>1, <1>2 DEF Inert
  <2>3. CASE p + m <= j
    <3>1. j - m \in 1..n /\ ~(j - m < p) /\ j = (j - m) + m
      BY <2>3, <1>2, <1>4
    <3>2. j = Up(j - m, p, m)
      BY <3>1 DEF Up
    <3> QED
      BY <3>1, <3>2
  <2> QED
    BY <2>1, <2>2, <2>3, <1>2, <1>4
<1>7. Len(g) = Len(f) + m /\ 1..Len(g) = 1..(n + m) /\ 1..Len(f) = 1..n
  BY <1>1, <1>3
<1>8. Widens(g, f, p, m)
  BY <1>5, <1>6, <1>7 DEF Widens
<1> QED
  BY <1>2, <1>8 DEF g

\* The list keeps its shape.
LEMMA WidensList ==
  ASSUME NEW f, NEW g, NEW n \in Nat, n = Len(f), NEW m \in Nat, NEW p \in 1..(n + 1), Widens(g, f, p, m),
         NEW s, NEW z, NEW e, ListIs(f, s, z, e),
         \/ \A j \in p..(p + m - 1) : g[j].k # "model_name"
         \/ s < p /\ p <= e /\ g[p + m - 1].k = "blank"
  PROVE  \E y : ListIs(g, Up(s, p, m), y, Up(e, p, m))
<1> DEFINE U == [i \in 1..n |-> Up(i, p, m)]
           N == n + m
<1>1. /\ Len(g) = N
      /\ \A i \in 1..n : U[i] \in 1..N /\ g[U[i]] = f[i]
      /\ \A i, j \in 1..n : i < j => U[i] < U[j]
      /\ \A i \in 1..n : (i < p => U[i] = i) /\ (p <= i => U[i] = i + m)
  BY DEF Widens, Up
<1>2. ASSUME NEW j \in 1..N
      PROVE  \/ \E i \in 1..n : j = U[i]
             \/ p <= j /\ j < p + m /\ g[j].k \notin Top \union {"policies", "policy", "begin"}
  BY <1>1 DEF Widens
<1>3. /\ s \in 1..n /\ z \in 1..n /\ e \in 1..n /\ s <= z /\ z < e
      /\ \A i \in 1..n :
           /\ f[i].k = "model_list" <=> i = s
           /\ f[i].k = "model_name" => s < i /\ i < z
           /\ f[i].k \in Top => i <= s \/ e <= i
           /\ f[i].k = "router_settings" => e <= i
      /\ f[e].k \in Top /\ \E i \in 1..n : f[i].k = "router_settings"
      /\ z = s \/ f[z].k = "blank"
  BY DEF ListIs
<1>4. U[s] = Up(s, p, m) /\ U[e] = Up(e, p, m)
  BY <1>3
<1> HIDE DEF U
<1>5. \A i, j \in 1..n : (i <= j => U[i] <= U[j]) /\ (U[i] = U[j] => i = j)
  BY <1>1
<1> DEFINE y == IF (\E j \in p..(p + m - 1) : g[j].k = "model_name") /\ z < p THEN p + m - 1 ELSE U[z]
<1>6. y \in 1..N /\ U[s] <= y /\ y < U[e] /\ (y = U[s] \/ g[y].k = "blank")
  <2>1. CASE (\E j \in p..(p + m - 1) : g[j].k = "model_name") /\ z < p
    <3>1. y = p + m - 1 /\ m >= 1 /\ s < p /\ p <= e /\ g[y].k = "blank"
      BY <2>1
    <3>2. U[s] = s /\ U[e] = e + m
      BY <3>1, <1>1, <1>3
    <3> QED
      BY <3>1, <3>2, <1>1, <1>3, <1>5
  <2>2. CASE y = U[z]
    <3>1. U[z] \in 1..N /\ U[s] <= U[z] /\ U[z] < U[e] /\ g[U[z]] = f[z] /\ (z = s => U[z] = U[s])
      BY <1>1, <1>3, <1>5
    <3>2. U[z] = U[s] \/ g[U[z]].k = "blank"
      BY <3>1, <1>3
    <3> HIDE DEF y
    <3> QED
      BY <2>2, <3>1, <3>2
  <2> QED
    BY <2>1, <2>2
<1>7. ASSUME NEW j \in 1..N, g[j].k = "model_name" PROVE U[s] < j /\ j < y
  <2>1. CASE \E i \in 1..n : j = U[i]
    <3>1. PICK i \in 1..n : j = U[i]
      BY <2>1
    <3>2. s < i /\ i < z
      BY <3>1, <1>1, <1>3, <1>7
    <3>3. U[s] < U[i] /\ U[i] < U[z]
      BY <3>2, <1>1, <1>3
    <3>4. z < p => U[z] = z
      BY <1>1, <1>3
    <3> QED
      BY <3>1, <3>3, <3>4, <1>3
  <2>2. CASE p <= j /\ j < p + m
    <3>1. j \in p..(p + m - 1)
      BY <2>2
    <3>2. s < p /\ p <= e /\ g[p + m - 1].k = "blank" /\ j # p + m - 1
      BY <3>1, <1>7
    <3>3. U[s] = s
      BY <3>2, <1>1, <1>3
    <3>4. CASE z < p
      <4>1. y = p + m - 1
        BY <3>1, <3>4, <1>7
      <4> QED
        BY <4>1, <3>2, <3>3, <2>2, <1>3
    <3>5. CASE p <= z
      <4>1. U[z] = z + m /\ y = U[z]
        BY <3>5, <1>1, <1>3
      <4> QED
        BY <3>2, <3>3, <3>5, <4>1, <2>2, <1>3
    <3> QED
      BY <3>4, <3>5, <1>3
  <2> QED
    BY <2>1, <2>2, <1>2
<1> HIDE DEF y
<1>8. ASSUME NEW j \in 1..N
      PROVE  /\ g[j].k = "model_list" <=> j = U[s]
             /\ g[j].k \in Top => j <= U[s] \/ U[e] <= j
             /\ g[j].k = "router_settings" => U[e] <= j
  <2>1. CASE \E i \in 1..n : j = U[i]
    <3>1. PICK i \in 1..n : j = U[i]
      BY <2>1
    <3>2. g[j] = f[i]
      BY <3>1, <1>1
    <3>3. j = U[s] <=> i = s
      BY <3>1, <1>3, <1>5
    <3>4. (i <= s => j <= U[s]) /\ (e <= i => U[e] <= j)
      BY <3>1, <1>3, <1>5
    <3> QED
      BY <3>2, <3>3, <3>4, <1>3
  <2>2. CASE g[j].k \notin Top \union {"policies", "policy", "begin"}
    <3>1. j # U[s]
      BY <2>2, <1>1, <1>3 DEF Top, TopLevel
    <3> QED
      BY <2>2, <3>1 DEF Top, TopLevel
  <2> QED
    BY <2>1, <2>2, <1>2
<1>9. g[U[e]].k \in Top /\ \E i \in 1..N : g[i].k = "router_settings"
  BY <1>1, <1>3
<1>10. ListIs(g, U[s], y, U[e])
  <2>1. U[s] \in 1..N /\ U[e] \in 1..N
    BY <1>1, <1>3
  <2> QED
    BY <2>1, <1>1, <1>6, <1>7, <1>8, <1>9 DEF ListIs
<1> QED
  BY <1>4, <1>10

\* So does what is behind it, unless the lines are put into a run.
LEMMA WidensTail ==
  ASSUME NEW f, NEW g, NEW n \in Nat, n = Len(f), NEW m \in Nat, NEW p \in 1..(n + 1), Widens(g, f, p, m),
         NEW e \in 1..n, TailIs(f, e),
         p <= e \/ (p > 1 /\ f[p - 1].k \notin {"policies", "policy", "begin", "marked"})
  PROVE  TailIs(g, Up(e, p, m))
<1> DEFINE U == [i \in 1..n |-> Up(i, p, m)]
           N == n + m
           Special == {"policies", "policy", "begin"}
<1>1. /\ Len(g) = N
      /\ \A i \in 1..n : U[i] \in 1..N /\ g[U[i]] = f[i]
      /\ \A i, j \in 1..n : i < j => U[i] < U[j]
      /\ \A i \in 1..n : (i < p => U[i] = i) /\ (p <= i => U[i] = i + m)
  BY DEF Widens, Up
<1>2. ASSUME NEW j \in 1..N, g[j].k \in Special
      PROVE  \E i \in 1..n : j = U[i] /\ g[j] = f[i] /\ e < i
  <2>1. \E i \in 1..n : j = U[i]
    BY <1>1, <1>2 DEF Widens
  <2> QED
    BY <2>1, <1>1, <1>2 DEF TailIs
<1>3. U[e] = Up(e, p, m)
  OBVIOUS
<1> HIDE DEF U
<1>4. ASSUME NEW h \in 1..n, NEW i \in h..n, NEW k, NEW l, Run(f, h, i, k, l), e < h,
             {k, l} \subseteq Special \union {"marked"}
      PROVE  U[i] = U[h] + (i - h) /\ Run(g, U[h], U[i], k, l)
  <2>1. ~(h < p /\ p <= i)
    <3> SUFFICES ASSUME h < p, p <= i PROVE FALSE
      OBVIOUS
    <3>1. p - 1 \in h..i /\ ~(p <= e)
      BY <1>4
    <3>2. f[p - 1].k \in {k, l}
      BY <3>1, <1>4 DEF Run
    <3> QED
      BY <3>1, <3>2, <1>4
  <2>2. PICK d \in {0, m} : \A j \in h..i : U[j] = j + d
    BY <2>1, <1>1
  <2>3. ASSUME NEW j \in h..i PROVE j + d \in 1..N /\ g[j + d] = f[j]
    <3>1. j \in 1..n /\ U[j] = j + d
      BY <2>2
    <3> QED
      BY <3>1, <1>1
  <2>4. g[h + d].k = k
    BY <2>3, <1>4 DEF Run
  <2>5. ASSUME NEW j \in (h + d + 1)..(i + d) PROVE g[j].k = l
    <3>1. j - d \in (h + 1)..i /\ (j - d) + d = j
      BY <2>2
    <3>2. g[j] = f[j - d]
      BY <3>1, <2>3
    <3> QED
      BY <3>1, <3>2, <1>4 DEF Run
  <2> QED
    <3>1. U[h] = h + d /\ U[i] = i + d
      BY <2>2
    <3> QED
      BY <2>2, <2>4, <2>5, <3>1 DEF Run
<1>5. ASSUME NEW j \in 1..N, g[j].k \in Special PROVE U[e] < j
  BY <1>1, <1>2, <1>5
<1>6. ASSUME NEW i \in 1..N, NEW j \in 1..N, g[i].k = "policies", g[j].k = "policies" PROVE i = j
  BY <1>2, <1>6 DEF TailIs
<1>7. ASSUME NEW j \in 1..N, g[j].k = "policy"
      PROVE  \E h \in 1..j : Run(g, h, j, "policies", "policy")
  <2>1. PICK i \in 1..n : j = U[i] /\ g[j] = f[i]
    BY <1>2, <1>7
  <2>2. PICK h \in 1..i : Run(f, h, i, "policies", "policy")
    BY <2>1, <1>7 DEF TailIs
  <2>3. e < h /\ h \in 1..n /\ i \in h..n
    BY <2>2 DEF TailIs, Run
  <2>4. U[i] = U[h] + (i - h) /\ Run(g, U[h], U[i], "policies", "policy")
    BY <2>2, <2>3, <1>4
  <2> QED
    BY <2>1, <2>3, <2>4, <1>1
<1>8. ASSUME NEW j \in 1..N, g[j].k = "begin"
      PROVE  \E c \in (j + 1)..N : g[c] = End(g[j].tag) /\ Run(g, j, c - 1, "begin", "marked")
  <2>1. PICK i \in 1..n : j = U[i] /\ g[j] = f[i] /\ e < i
    BY <1>2, <1>8
  <2>2. PICK c \in (i + 1)..n : f[c] = End(f[i].tag) /\ Run(f, i, c - 1, "begin", "marked")
    BY <2>1, <1>8 DEF TailIs
  <2>3. U[c - 1] = U[i] + (c - 1 - i) /\ Run(g, U[i], U[c - 1], "begin", "marked")
    BY <2>1, <2>2, <1>4
  <2>4. p # c
    BY <2>1, <2>2 DEF Run
  <2>5. U[c] = U[c - 1] + 1
    <3>1. c - 1 \in 1..n /\ c \in 1..n /\ p \in Int
      BY <2>1, <2>2
    <3>2. c < p \/ p <= c - 1
      BY <3>1, <2>4
    <3> QED
      BY <3>1, <3>2, <1>1
  <2> QED
    BY <2>1, <2>2, <2>3, <2>5, <1>1
<1>9. TailIs(g, U[e])
  BY <1>1, <1>5, <1>6, <1>7, <1>8 DEF TailIs
<1> QED
  BY <1>3, <1>9

-----------------------------------------------------------------------------
(* Steps 3 to 5 of apply_to_config. *)

\* Between its steps a sync has new headers too.
Draft(L) == L \union {Key("new_header")}

\* Lines that end with a blank one.
Closed(new) == Len(new) > 0 /\ new[Len(new)].k = "blank"

\* The lines of deployments.
Body == {l \in Fresh : /\ l.k \in {"model_name", "model", "api_base", "cost", "mode", "blank"}
                       /\ l.k = "mode" => l.mode = "chat"}

\* ... and of their headers.
Above == Draft(Body)

\* What both kinds of file may hold.
LEMMA Subsets ==
  /\ Body \subseteq Fresh /\ Fresh \subseteq Settled /\ Settled \subseteq Line
  /\ Above \subseteq Draft(Fresh) /\ Above \subseteq Draft(Settled)
  /\ Draft(Fresh) \subseteq Line /\ Draft(Settled) \subseteq Line
<1>1. Body \subseteq Fresh /\ Fresh \subseteq Settled /\ Settled \subseteq Line
  BY DEF Fresh, Settled, Body
<1>2. Key("new_header") \in Line
  BY LinesTyped DEF Unmarked
<1> QED
  BY <1>1, <1>2 DEF Above, Draft

\* What kinds of lines these are.
LEMMA AboveKinds ==
  ASSUME NEW l \in Above
  PROVE  /\ l.k \in {"model_name", "model", "api_base", "cost", "mode", "blank", "new_header"}
         /\ l.k = "mode" => l.mode = "chat"
<1>1. CASE l \in Body
  BY <1>1 DEF Body
<1>2. CASE l = Key("new_header")
  BY <1>2 DEF Key
<1> QED
  BY <1>1, <1>2 DEF Above, Draft

\* The last of several pieces ends them.
LEMMA FlattenClosed ==
  ASSUME NEW E, NEW ss \in Seq(Seq(E)), NEW n \in Nat, n = Len(ss), n > 0, Closed(ss[n])
  PROVE  Closed(FlattenSeq(ss))
<1>1. ss # <<>>
  OBVIOUS
<1>2. PICK g \in [0..n -> Seq(E)] : Rows(g, <<>>, n, FlattenStep(ss, E)) /\ g[n] = FlattenSeq(ss)
  BY <1>1, FlattenRows
<1> DEFINE x == g[n - 1]
           y == ss[n]
<1>3. x \in Seq(E) /\ y \in Seq(E) /\ FlattenSeq(ss) = x \o y
  <2>1. n \in 1..n
    OBVIOUS
  <2> QED
    BY <1>2, <2>1, FlattenRow
<1> HIDE DEF x
<1>4. Closed(y)
  OBVIOUS
<1> HIDE DEF y
<1>5. Closed(x \o y)
  BY <1>3, <1>4 DEF Closed
<1> QED
  BY <1>3, <1>5

\* build_deployment: a block and a blank line.
LEMMA DeploymentBody ==
  ASSUME NEW g \in Names, NEW p \in Providers, NEW m \in Ids, NEW c \in Nat
  PROVE  BuildDeployment(g, p, m, c) \in Seq(Body) /\ Closed(BuildDeployment(g, p, m, c))
<1>1. Prefix[p] \in STRING /\ Base[p] \in STRING /\ Base[p] \notin ToSet(SLAVES)
  BY TableAssumption, RenderAssumption
<1>2. Name(g) \in Body
  BY LinesTyped DEF Name, Body, Fresh, Settled, Unmarked
<1>3. Model(Prefix[p], m) \in Body
  BY <1>1, LinesTyped DEF Model, Body, Fresh, Settled, Unmarked
<1>4. ApiBase(Base[p]) \in Body
  BY <1>1, LinesTyped DEF ApiBase, Body, Fresh, Settled, Unmarked
<1>5. Cost(c) \in Body
  BY LinesTyped DEF Cost, Body, Fresh, Settled, Unmarked
<1>6. Mode("chat") \in Body
  BY LinesTyped DEF Mode, Body, Fresh, Settled, Unmarked
<1>7. Blank \in Body /\ Blank.k = "blank"
  BY LinesTyped DEF Blank, Key, Body, Fresh, Settled, Unmarked
<1> DEFINE a == <<Name(g), Model(Prefix[p], m)>>
           b == IF Base[p] = NoBase THEN <<>> ELSE <<ApiBase(Base[p])>>
           d == <<Cost(c), Mode("chat"), Blank>>
<1>8. a \in Seq(Body) /\ b \in Seq(Body) /\ d \in Seq(Body) /\ Closed(d)
  BY <1>2, <1>3, <1>4, <1>5, <1>6, <1>7 DEF Closed
<1>9. BuildDeployment(g, p, m, c) = (a \o b) \o d
  BY DEF BuildDeployment
<1> HIDE DEF a, b, d
<1>10. a \o b \in Seq(Body)
  BY <1>8
<1> DEFINE ab == a \o b
<1> HIDE DEF ab
<1>11. ab \in Seq(Body) => ab \o d \in Seq(Body) /\ Closed(ab \o d)
  BY <1>8 DEF Closed
<1> QED
  BY <1>9, <1>10, <1>11 DEF ab

\* The deployments of several additions.
LEMMA DeploymentsBody ==
  ASSUME NEW adds \in Seq(Addition)
  PROVE  /\ Deployments(adds) \in Seq(Body)
         /\ adds # <<>> => Closed(Deployments(adds))
<1> DEFINE item(i) == BuildDeployment(adds[i].name, adds[i].provider, adds[i].id, adds[i].cost)
           ss == [i \in 1..Len(adds) |-> item(i)]
<1>1. ASSUME NEW i \in 1..Len(adds) PROVE item(i) \in Seq(Body) /\ Closed(item(i))
  <2>1. adds[i] \in Addition
    OBVIOUS
  <2> QED
    BY <2>1, DeploymentBody DEF Addition
<1>2. Deployments(adds) = FlattenSeq(ss)
  BY DEF Deployments, Concat
<1> HIDE DEF item
<1>3. ss \in Seq(Seq(Body)) /\ Len(ss) = Len(adds)
  BY <1>1
<1>4. PICK n \in Nat : n = Len(adds)
  OBVIOUS
<1>5. adds # <<>> => n > 0 /\ Closed(ss[n])
  BY <1>1, <1>4
<1> HIDE DEF ss
<1> QED
  BY <1>2, <1>3, <1>4, <1>5, FlattenTyped, FlattenClosed

\* The blocks of new groups, each below its header.
Headings(ss, n, adds, new) ==
  ss = [i \in 1..n |-> <<Key("new_header")>> \o Deployments(AddsFor(adds, Sorted(new)[i]))]

\* A group's header and deployments are lines a template may gain.
LEMMA HeadedAbove ==
  ASSUME NEW adds \in Seq(Addition), NEW new, new \subseteq {adds[i].name : i \in DOMAIN adds},
         NEW n \in Nat, n = Len(Sorted(new)), NEW ss, Headings(ss, n, adds, new)
  PROVE  FlattenSeq(ss) \in Seq(Above) /\ (FlattenSeq(ss) = <<>> \/ Closed(FlattenSeq(ss)))
<1> DEFINE item(i) == <<Key("new_header")>> \o Deployments(AddsFor(adds, Sorted(new)[i]))
<1>1. Sorted(new) \in [1..n -> new]
  <2>1. NAMES \in Seq(Names)
    BY TableAssumption DEF Names, ToSet
  <2>2. Sorted(new) \in Seq(Names \cap new)
    BY <2>1, OnlyKeeps DEF Sorted
  <2> DEFINE S == Sorted(new)
  <2> HIDE DEF S
  <2>3. S \in Seq(Names \cap new) /\ n = Len(S)
    BY <2>2 DEF S
  <2>4. S \in [1..n -> new]
    BY <2>3
  <2> QED
    BY <2>4 DEF S
<1>2. ASSUME NEW i \in 1..n PROVE item(i) \in Seq(Above) /\ Closed(item(i))
  <2> DEFINE g == Sorted(new)[i]
             a == AddsFor(adds, g)
             d == Deployments(a)
  <2>1. g \in new
    BY <1>1
  <2>2. PICK j \in 1..Len(adds) : adds[j].name = g
    <3>1. g \in {adds[j].name : j \in DOMAIN adds}
      BY <2>1
    <3>2. DOMAIN adds = 1..Len(adds)
      OBVIOUS
    <3> HIDE DEF g
    <3> QED
      BY <3>1, <3>2
  <2> HIDE DEF g
  <2>3. a \in Seq(Addition)
    BY AddsForTyped
  <2>4. a # <<>>
    <3> DEFINE W == {x \in ToSet(adds) : x.name = g}
    <3>1. adds[j] \in W
      BY <2>2 DEF ToSet
    <3>2. a = Only(adds, W)
      BY DEF AddsFor, Filter
    <3> HIDE DEF W, a
    <3>4. \A x : (\E l \in 1..Len(Only(adds, W)) : Only(adds, W)[l] = x)
                   <=> (x \in W /\ \E l \in 1..Len(adds) : adds[l] = x)
      BY OnlyKeeps
    <3>3. \E l \in 1..Len(a) : a[l] = adds[j]
      BY <3>1, <3>2, <3>4
    <3> QED
      BY <3>3
  <2> HIDE DEF a
  <2>5. d \in Seq(Body) /\ Closed(d)
    BY <2>3, <2>4, DeploymentsBody
  <2>6. d \in Seq(Above) /\ Key("new_header") \in Above
    <3>1. Body \subseteq Above
      BY DEF Above, Draft
    <3>2. Key("new_header") \in Above
      BY DEF Above, Draft
    <3> HIDE DEF d
    <3> QED
      BY <2>5, <3>1, <3>2
  <2> HIDE DEF d
  <2> DEFINE k == <<Key("new_header")>>
  <2>7. k \in Seq(Above)
    BY <2>6
  <2> HIDE DEF k
  <2>8. k \o d \in Seq(Above) /\ Closed(k \o d)
    BY <2>5, <2>6, <2>7 DEF Closed
  <2> QED
    BY <2>8 DEF d, a, g, k
<1> HIDE DEF item
<1>3. ss \in Seq(Seq(Above)) /\ Len(ss) = n /\ (n > 0 => Closed(ss[n]))
  <2>1. ss = [i \in 1..n |-> item(i)]
    BY DEF item, Headings
  <2> QED
    BY <2>1, <1>2
<1>5. n = 0 => ss = <<>>
  BY <1>3
<1>6. FlattenSeq(ss) \in Seq(Above) /\ (n > 0 => Closed(FlattenSeq(ss)))
  BY <1>3, FlattenTyped, FlattenClosed
<1>7. n = 0 => FlattenSeq(ss) = <<>>
  BY <1>5 DEF FlattenSeq
<1> QED
  BY <1>6, <1>7

\* Such lines may go where the list is.
LEMMA SpliceFramed ==
  ASSUME NEW L, Above \subseteq L, L \subseteq Line, NEW f, NEW s, NEW e, Framed(f, L, s, e),
         NEW new \in Seq(Above), new = <<>> \/ Closed(new), NEW p \in Nat, s < p, p <= e
  PROVE  /\ Framed(Splice(f, p, new), L, s, e + Len(new))
         /\ Len(Splice(f, p, new)) = Len(f) + Len(new)
<1>1. PICK z : ListIs(f, s, z, e) /\ TailIs(f, e)
  BY DEF Framed
<1>2. PICK n \in Nat : n = Len(f) /\ f \in Seq(Line) /\ f \in Seq(L)
  BY DEF Framed
<1>3. PICK m \in Nat : m = Len(new)
  OBVIOUS
<1>4. s \in 1..n /\ e \in 1..n /\ p \in 1..(n + 1)
  BY <1>1, <1>2 DEF ListIs
<1>5. new \in Seq(L) /\ new \in Seq(Line)
  OBVIOUS
<1> DEFINE g == Splice(f, p, new)
<1>6. /\ g \in Seq(L) /\ Len(g) = n + m
      /\ \A j \in 1..(n + m) : g[j] = IF j < p THEN f[j] ELSE IF j < p + m THEN new[j - p + 1]
                                      ELSE f[j - m]
  <2>1. f \in Seq(L) /\ new \in Seq(L) /\ p \in 1..(Len(f) + 1)
    BY <1>2, <1>4, <1>5
  <2>2. /\ g \in Seq(L) /\ Len(g) = Len(f) + Len(new)
        /\ \A j \in 1..(Len(f) + Len(new)) :
             g[j] = IF j < p THEN f[j] ELSE IF j < p + Len(new) THEN new[j - p + 1]
                    ELSE f[j - Len(new)]
    BY <2>1, SpliceAt
  <2> QED
    BY <2>2, <1>2, <1>3
<1>7. Inert(new)
  <2>1. ASSUME NEW i \in 1..Len(new)
        PROVE new[i].k \notin Top \union {"policies", "policy", "begin"}
    <3>1. new[i] \in Above
      OBVIOUS
    <3> QED
      BY <3>1, AboveKinds DEF Top, TopLevel
  <2> QED
    BY <2>1 DEF Inert
<1>8. Widens(g, f, p, m)
  BY <1>2, <1>3, <1>4, <1>5, <1>7, SpliceWidens
<1> HIDE DEF g
<1>9. \/ \A j \in p..(p + m - 1) : g[j].k # "model_name"
      \/ s < p /\ p <= e /\ g[p + m - 1].k = "blank"
  <2>1. CASE m = 0
    BY <2>1, <1>4
  <2>2. CASE m > 0
    <3>1. new[m].k = "blank"
      BY <2>2, <1>3 DEF Closed
    <3>2. p + m - 1 \in 1..(n + m) /\ ~(p + m - 1 < p) /\ p + m - 1 < p + m /\ p + m - 1 - p + 1 = m
      BY <2>2, <1>3, <1>4
    <3>3. g[p + m - 1] = new[m]
      BY <3>2, <1>6
    <3> QED
      BY <3>1, <3>3
  <2> QED
    BY <2>1, <2>2
<1>10. Up(s, p, m) = s /\ Up(e, p, m) = e + m
  BY <1>4 DEF Up
<1>11. \E y : ListIs(g, s, y, e + m)
  BY <1>1, <1>2, <1>4, <1>8, <1>9, <1>10, WidensList
<1>12. TailIs(g, e + m)
  BY <1>1, <1>2, <1>4, <1>8, <1>10, WidensTail
<1>13. Framed(g, L, s, e + m)
  BY <1>6, <1>11, <1>12 DEF Framed
<1> QED
  BY <1>2, <1>3, <1>6, <1>13 DEF g

\* Where a scan finds the model_list of a file at rest.
LEMMA Bounds ==
  ASSUME NEW f \in Seq(Settled), NEW s, NEW z, NEW e, ListIs(f, s, z, e)
  PROVE  ListStart(f) = s /\ ListEnd(f) = e
<1>1. PICK n \in Nat : n = Len(f)
  OBVIOUS
<1>2. f \in Seq(Line)
  BY Subsets
<1>3. s \in 1..n /\ e \in 1..n /\ s < e /\ f[s].k = "model_list" /\ f[e].k \in Top
      /\ \A i \in 1..n : /\ f[i].k = "model_list" <=> i = s
                         /\ f[i].k \in Top => i <= s \/ e <= i
  BY <1>1 DEF ListIs
<1>4. ListStart(f) = s
  <2>1. ListStart(f) \in 0..n /\ (ListStart(f) # 0 => f[ListStart(f)].k = "model_list") /\ ListStart(f) # 0
    BY <1>1, <1>2, <1>3, ListStartIs
  <2> QED
    BY <2>1, <1>3
<1> DEFINE I == {i \in (s + 1)..n : f[i].k \in TopLevel}
<1>5. ListEnd(f) = OrElse(IF I # {} THEN Min(I) ELSE 0, n + 1)
  BY <1>1, <1>4 DEF ListEnd, SelectInSubSeq
<1>6. I \in SUBSET (1..n) /\ e \in I
  <2>1. f[e].k \in TopLevel /\ e \in (s + 1)..n
    BY <1>3 DEF Top
  <2>2. I \subseteq 1..n
    BY <1>3
  <2> QED
    BY <2>1, <2>2
<1>7. ASSUME NEW i \in I PROVE e <= i
  <2>1. i \in 1..n /\ s < i /\ f[i].k \in TopLevel
    BY <1>3
  <2>2. f[i] \in Settled
    BY <1>1, <2>1
  <2>3. f[i].k \in Top
    BY <2>1, <2>2 DEF Top, Settled
  <2> QED
    BY <2>1, <2>3, <1>3
<1> HIDE DEF I
<1> DEFINE first == OrElse(IF I # {} THEN Min(I) ELSE 0, n + 1)
<1>8. first \in I /\ \A i \in I : first <= i
  BY <1>6, FirstOr
<1> HIDE DEF first
<1>9. first \in 1..n /\ first <= e /\ e <= first
  BY <1>6, <1>7, <1>8
<1> QED
  BY <1>3, <1>4, <1>5, <1>9 DEF first

\* T has, with a file, what splices of deployments into its list make of it.
Splices(T, s, e) ==
  \A g \in T, p \in (s + 1)..e, d \in Seq(Above) : d = <<>> \/ Closed(d) => Splice(g, p, d) \in T

\* The new deployments come in by such splices.
LEMMA InsertSplices ==
  ASSUME NEW L \in {Settled, Fresh}, NEW f, NEW s, NEW e, Framed(f, L, s, e), NEW adds \in Seq(Addition),
         NEW T, f \in T, Splices(T, s, e)
  PROVE  InsertDeployments(f, adds) \in T
<1> DEFINE existing == ScanExisting(f)
           names    == {adds[i].name : i \in DOMAIN adds}
           fresh    == names \ NamesOf(existing)
           new      == Sorted(fresh)
           lasts    == {SelectLastInSeq(existing, LAMBDA b : b.name = g) : g \in names} \ {0}
           up       == Ascending(lasts, Len(existing))
           grown    == Reverse(up)
           Insert(ls, i) == Splice(ls, existing[i].end + 1, Deployments(AddsFor(adds, existing[i].name)))
           Headed(i) == <<Key("new_header")>> \o Deployments(AddsFor(adds, new[i]))
           ss == [i \in 1..Len(new) |-> Headed(i)]
           base == Splice(f, e, FlattenSeq(ss))
<1>1. f \in Seq(L) /\ f \in Seq(Line) /\ f \in Seq(Settled)
  <2>0. L \subseteq Settled /\ L \subseteq Line
    BY Subsets
  <2>1. f \in Seq(L)
    BY DEF Framed
  <2> QED
    BY <2>0, <2>1, SeqMono
<1>2. PICK k \in Nat : k = Len(f)
  BY <1>1
<1>3. ListStart(f) = s /\ ListEnd(f) = e /\ s \in 1..k /\ e \in 1..k /\ s < e
  <2>1. PICK z : ListIs(f, s, z, e)
    BY DEF Framed
  <2>2. ListStart(f) = s /\ ListEnd(f) = e
    BY <1>1, <2>1, Bounds
  <2> QED
    BY <1>2, <2>1, <2>2 DEF ListIs
<1>4. base \in T
  <2>1. PICK n \in Nat : n = Len(new)
    <3>1. new \in Seq(Names)
      BY SortedTyped
    <3> HIDE DEF new
    <3> QED
      BY <3>1
  <2>2. Headings(ss, n, adds, fresh)
    BY <2>1 DEF Headings
  <2>3. fresh \subseteq names
    OBVIOUS
  <2> DEFINE c == FlattenSeq(ss)
  <2>4. c \in Seq(Above) /\ (c = <<>> \/ Closed(c))
    <3> HIDE DEF ss, fresh
    <3> QED
      BY <2>1, <2>2, <2>3, HeadedAbove
  <2> HIDE DEF c
  <2>5. e \in (s + 1)..e
    BY <1>3
  <2>6. Splice(f, e, c) \in T
    BY <2>4, <2>5 DEF Splices
  <2> QED
    BY <2>6 DEF c
<1>5. PICK m \in Nat : m = Len(existing) /\ DOMAIN existing = 1..m
                       /\ \A i \in 1..m : existing[i].end \in (s + 1)..(e - 1) /\ existing[i].name \in Names
  <2>0. PICK m \in Nat : \E at : /\ Scans(existing, f, m, at)
                                /\ \A i \in 1..m : existing[i].end \in at[i]..(ListEnd(f) - 1)
    BY <1>1, ScanExistingScans
  <2>1. PICK at : /\ Scans(existing, f, m, at)
                  /\ \A i \in 1..m : existing[i].end \in at[i]..(ListEnd(f) - 1)
    BY <2>0
  <2>2. Len(existing) = m /\ DOMAIN existing = 1..m
    BY <2>1 DEF Scans
  <2>3. ASSUME NEW i \in 1..m PROVE existing[i].end \in (s + 1)..(e - 1)
    <3>1. at[i] \in Starts(f)
      BY <2>1 DEF Scans
    <3>2. at[i] \in 1..k /\ at[i] > s
      BY <1>1, <1>2, <1>3, <3>1, StartsIn
    <3> HIDE DEF existing
    <3> QED
      BY <2>1, <3>2, <1>3
  <2>4. \A i \in 1..m : existing[i].name \in Names
    BY <1>1, <2>1, <2>2, ScannedNames
  <2> HIDE DEF existing
  <2> QED
    BY <2>2, <2>3, <2>4
<1> HIDE DEF existing, ss
<1>6. ASSUME NEW g \in T, NEW i \in 1..m PROVE Insert(g, i) \in T
  <2> DEFINE a == AddsFor(adds, existing[i].name)
             d == Deployments(a)
  <2>2. a \in Seq(Addition)
    BY AddsForTyped
  <2> HIDE DEF a
  <2>3. d \in Seq(Body) /\ (a # <<>> => Closed(d))
    BY <2>2, DeploymentsBody
  <2>4. a = <<>> => d = <<>>
    BY DEF Deployments, Concat, FlattenSeq
  <2> HIDE DEF d
  <2>5. d \in Seq(Above) /\ (d = <<>> \/ Closed(d))
    <3>1. Body \subseteq Above
      BY DEF Above, Draft
    <3> QED
      BY <2>3, <2>4, <3>1
  <2> DEFINE p == existing[i].end + 1
  <2>6. p \in (s + 1)..e
    BY <1>3, <1>5
  <2> HIDE DEF p
  <2>7. Splice(g, p, d) \in T
    BY <2>5, <2>6 DEF Splices
  <2> QED
    BY <2>7 DEF p, d, a
<1>7. PICK n \in Nat : n = Len(grown) /\ grown \in [1..n -> 1..m]
  <2>1. up \in Seq(1..m)
    <3>1. [i \in 1..m |-> i] \in Seq(1..m)
      OBVIOUS
    <3> QED
      BY <1>5, <3>1, OnlyTyped DEF Ascending
  <2> HIDE DEF up
  <2> QED
    BY <2>1 DEF Reverse
<1> HIDE DEF grown
<1> DEFINE D == SUBSET (1..n)
           step == [i \in 1..n |-> [g \in T |-> Insert(g, grown[i])]]
           Eq(h) == h = [x \in D |-> IF x = {} THEN base ELSE Insert(h[x \ {Max(x)}], grown[Max(x)])]
           fn == CHOOSE h : Eq(h)
<1>8. InsertDeployments(f, adds) = fn[1..n]
  <2>1. DOMAIN grown = 1..n
    BY <1>7
  <2> QED
    BY <2>1, <1>3 DEF InsertDeployments, FoldLeft, MapThenFoldSet, Concat, existing, grown, ss
<1> HIDE DEF base
<1>9. step \in [1..n -> [T -> T]] /\ \A i \in 1..n, g \in T : step[i][g] = Insert(g, grown[i])
  BY <1>6, <1>7
<1> HIDE DEF step, Insert
<1>10. PICK h \in [D -> T] : Folds(h, base, n, step)
  BY <1>4, <1>9, FoldTable
<1>11. ASSUME NEW x \in D, x # {} PROVE Max(x) \in 1..n /\ x \ {Max(x)} \in D
  BY <1>11, MaxUpTo
<1>12. Eq(h)
  BY <1>9, <1>10, <1>11 DEF Folds
<1>13. Eq(fn)
  BY <1>12
<1> HIDE DEF fn
<1>14. Advances(fn, T, base, n, step)
  <2>1. fn[{}] = base
    BY <1>13
  <2>2. ASSUME NEW j \in 1..n, fn[1..(j - 1)] \in T PROVE fn[1..j] = step[j][fn[1..(j - 1)]]
    <3>1. 1..j \in D /\ 1..j # {} /\ Max(1..j) = j /\ (1..j) \ {j} = 1..(j - 1)
      BY FirstPositions
    <3>2. fn[1..j] = Insert(fn[1..(j - 1)], grown[j])
      BY <3>1, <1>13
    <3> HIDE DEF D, Eq
    <3> QED
      BY <3>2, <2>2, <1>9
  <2> QED
    BY <2>1, <2>2 DEF Advances
<1> HIDE DEF D, Eq
<1>15. fn[1..n] \in T
  BY <1>4, <1>9, <1>14, FoldStays
<1> QED
  BY <1>8, <1>15

\* They are within the list.
LEMMA InsertFramed ==
  ASSUME NEW L \in {Settled, Fresh}, NEW f, NEW s, NEW e, Framed(f, L, s, e), NEW adds \in Seq(Addition)
  PROVE  \E x : Framed(InsertDeployments(f, adds), Draft(L), s, x)
<1> DEFINE M == Draft(L)
           T == {g \in Seq(M) : \E x \in Nat : e <= x /\ Framed(g, M, s, x)}
<1>0. Above \subseteq M /\ M \subseteq Line /\ L \subseteq M
  BY Subsets DEF Draft
<1> HIDE DEF M
<1>1. PICK z : f \in Seq(L) /\ ListIs(f, s, z, e) /\ TailIs(f, e)
  BY DEF Framed
<1>2. s \in Nat /\ e \in Nat
  BY <1>1 DEF ListIs
<1>3. f \in T
  <2>1. f \in Seq(M)
    BY <1>0, <1>1, SeqMono
  <2>2. Framed(f, M, s, e)
    BY <1>1, <2>1 DEF Framed
  <2> QED
    BY <1>2, <2>1, <2>2
<1>4. Splices(T, s, e)
  <2> SUFFICES ASSUME NEW g \in T, NEW p \in (s + 1)..e, NEW d \in Seq(Above), d = <<>> \/ Closed(d)
      PROVE  Splice(g, p, d) \in T
    BY DEF Splices
  <2>1. PICK x \in Nat : e <= x /\ Framed(g, M, s, x)
    OBVIOUS
  <2>2. p \in Nat /\ s < p /\ p <= x /\ Len(d) \in Nat
    BY <1>2, <2>1
  <2> DEFINE h == Splice(g, p, d)
  <2>3. Framed(h, M, s, x + Len(d))
    <3> HIDE DEF T
    <3> QED
      BY <1>0, <2>1, <2>2, SpliceFramed
  <2> HIDE DEF h
  <2>4. x + Len(d) \in Nat /\ e <= x + Len(d) /\ h \in Seq(M)
    BY <1>2, <2>1, <2>2, <2>3 DEF Framed
  <2>5. h \in T
    BY <2>3, <2>4
  <2> QED
    BY <2>5 DEF h
<1> HIDE DEF T
<1>5. InsertDeployments(f, adds) \in T
  BY <1>3, <1>4, InsertSplices
<1> QED
  BY <1>5 DEF T, M

-----------------------------------------------------------------------------
(* Passes over a file, line by line. *)

\* What a pass may write for a line.
Rewritten(l, old) ==
  l = old \/ (old.k \in {"cost", "chain", "new_header"} /\ l.k \in {"cost", "chain", "blank", "header"})

\* What the two passes of a sync make of it.
Reworded(l, old) ==
  l = old \/ (l.k = "cost" /\ old.k = "cost") \/ (old.k = "new_header" /\ l.k \in {"blank", "header"})

\* For each line of f at most one, or for a new header the two it is.
Pieces(ss, f) ==
  /\ Len(ss) = Len(f)
  /\ \A i \in 1..Len(f) : /\ \A j \in 1..Len(ss[i]) : Rewritten(ss[i][j], f[i])
                          /\ Len(ss[i]) <= 1 \/ f[i].k = "new_header"

\* None is dropped or becomes another.
Rewords(ss, f) ==
  \A i \in 1..Len(f) : ss[i] # <<>> /\ \A j \in 1..Len(ss[i]) : Reworded(ss[i][j], f[i])

\* The lines that keep f's shape are kept.
Keeping(ss, f, z) ==
  \A i \in 1..Len(f) : ss[i] = <<>> =>
    /\ f[i].k \notin Top \union {"policies", "policy"} /\ i # z
    /\ \A a \in 1..(i - 1) : f[a].k = "begin" /\ f[i] = End(f[a].tag) /\ Run(f, a, i - 1, "begin", "marked")
                               => ss[a] = <<>>

\* Line j of g is from line h[j] of f.
Traced(g, h, f) ==
  /\ h \in [1..Len(g) -> 1..Len(f)]
  /\ \A j \in 1..Len(g) : Rewritten(g[j], f[h[j]])
  /\ \A i, j \in 1..Len(g) : i < j => \/ h[i] < h[j]
                                      \/ h[i] = h[j] /\ f[h[i]].k = "new_header"

\* Every line of the concatenation is from one piece, in their order.
LEMMA PiecesTraced ==
  ASSUME NEW E, NEW f, NEW ss \in Seq(Seq(E)), Pieces(ss, f)
  PROVE  /\ FlattenSeq(ss) \in Seq(E)
         /\ \E h : /\ Traced(FlattenSeq(ss), h, f)
                   /\ \A i \in 1..Len(f) : ss[i] # <<>> => \E j \in 1..Len(FlattenSeq(ss)) : h[j] = i
                   /\ \A j \in 1..Len(FlattenSeq(ss)) : ss[h[j]] # <<>>
                   /\ \A j \in 1..Len(FlattenSeq(ss)) :
                        \E x \in 1..Len(ss[h[j]]) : FlattenSeq(ss)[j] = ss[h[j]][x]
<1> DEFINE P == Places(ss)
           I == ItemAt(ss)
           g == FlattenSeq(ss)
<1>0. g \in Seq(E)
  BY FlattenTyped
<1>1. PICK n \in Nat : n = Len(f) /\ n = Len(ss)
  BY DEF Pieces
<1>2. PICK N \in Nat : \E m : Enumerates(m, N, P, Lexical) /\ g = [i \in 1..N |-> I[m[i]]]
  BY FlattenLists DEF Lists
<1>3. PICK m : Enumerates(m, N, P, Lexical) /\ g = [i \in 1..N |-> I[m[i]]]
  BY <1>2
<1>4. ASSUME NEW x \in P
      PROVE  x[1] \in 1..n /\ x[2] \in 1..Len(ss[x[1]]) /\ x = <<x[1], x[2]>> /\ I[x] = ss[x[1]][x[2]]
  <2>1. PICK i \in 1..Len(ss) : x \in {i} \X (1..Len(ss[i]))
    BY DEF Places
  <2> QED
    BY <2>1, <1>1 DEF ItemAt
<1>5. m \in [1..N -> P] /\ (\A x \in P : \E i \in 1..N : m[i] = x)
      /\ \A i, j \in 1..N : i < j => <<m[i], m[j]>> \in Lexical
  BY <1>3 DEF Enumerates
<1>6. Len(g) = N /\ \A j \in 1..N : g[j] = I[m[j]]
  BY <1>3
<1> HIDE DEF P, I, g
<1> DEFINE h == [j \in 1..N |-> m[j][1]]
<1>7. h \in [1..N -> 1..n]
  BY <1>4, <1>5
<1>8. ASSUME NEW j \in 1..N
      PROVE  Rewritten(g[j], f[h[j]]) /\ ss[h[j]] # <<>> /\ \E x \in 1..Len(ss[h[j]]) : g[j] = ss[h[j]][x]
  <2>1. m[j] \in P
    BY <1>5
  <2>2. h[j] \in 1..n /\ m[j][2] \in 1..Len(ss[h[j]]) /\ g[j] = ss[h[j]][m[j][2]]
    BY <2>1, <1>4, <1>6
  <2>3. ss[h[j]] # <<>>
    BY <2>2
  <2> QED
    BY <2>2, <2>3, <1>1 DEF Pieces
<1>9. ASSUME NEW i \in 1..N, NEW j \in 1..N, i < j
      PROVE  h[i] < h[j] \/ (h[i] = h[j] /\ f[h[i]].k = "new_header")
  <2>1. m[i] \in P /\ m[j] \in P /\ <<m[i], m[j]>> \in Lexical
    BY <1>5, <1>9
  <2>2. m[i][1] < m[j][1] \/ (m[i][1] = m[j][1] /\ m[i][2] < m[j][2])
    BY <2>1 DEF Lexical
  <2>3. CASE m[i][1] = m[j][1] /\ m[i][2] < m[j][2]
    <3>1. h[i] \in 1..n /\ h[i] = h[j] /\ m[i][2] \in 1..Len(ss[h[i]]) /\ m[j][2] \in 1..Len(ss[h[i]])
      BY <2>1, <2>3, <1>4
    <3>2. ~(Len(ss[h[i]]) <= 1)
      <4>1. ss[h[i]] \in Seq(E)
        BY <3>1, <1>1
      <4>2. Len(ss[h[i]]) \in Nat
        BY <4>1
      <4> QED
        BY <3>1, <2>3, <4>2
    <3> QED
      BY <3>1, <3>2, <1>1 DEF Pieces
  <2> QED
    BY <2>2, <2>3
<1>10. ASSUME NEW i \in 1..n, ss[i] # <<>> PROVE \E j \in 1..N : h[j] = i
  <2>1. ss[i] \in Seq(E) /\ i \in 1..Len(ss)
    BY <1>1
  <2>2. 1 \in 1..Len(ss[i])
    BY <2>1, <1>10
  <2>3. <<i, 1>> \in P
    BY <2>1, <2>2 DEF P, Places
  <2>4. PICK j \in 1..N : m[j] = <<i, 1>>
    BY <2>3, <1>5
  <2> QED
    BY <2>4
<1> HIDE DEF h
<1>11. Traced(g, h, f)
  BY <1>1, <1>6, <1>7, <1>8, <1>9 DEF Traced
<1>12. /\ \A j \in 1..Len(g) : ss[h[j]] # <<>>
       /\ \A j \in 1..Len(g) : \E x \in 1..Len(ss[h[j]]) : g[j] = ss[h[j]][x]
       /\ \A i \in 1..Len(f) : ss[i] # <<>> => \E j \in 1..Len(g) : h[j] = i
  BY <1>1, <1>6, <1>8, <1>10
<1> QED
  BY <1>0, <1>11, <1>12 DEF g

\* Such a pass keeps the shape.
LEMMA PiecesSound ==
  ASSUME NEW E, NEW f \in Seq(Line), NEW s, NEW z, NEW e, ListIs(f, s, z, e), TailIs(f, e),
         NEW ss \in Seq(Seq(E)), Pieces(ss, f), Keeping(ss, f, z)
  PROVE  Sound(FlattenSeq(ss), E)
<1> DEFINE g == FlattenSeq(ss)
<1>1. PICK n \in Nat : n = Len(f)
  OBVIOUS
<1>2. g \in Seq(E) /\ \E h : /\ Traced(g, h, f)
                             /\ \A i \in 1..n : ss[i] # <<>> => \E j \in 1..Len(g) : h[j] = i
                             /\ \A j \in 1..Len(g) : ss[h[j]] # <<>>
  BY <1>1, PiecesTraced
<1> HIDE DEF g
<1>3. PICK N \in Nat : N = Len(g)
  BY <1>2
<1>4. PICK h : /\ Traced(g, h, f)
               /\ \A i \in 1..n : ss[i] # <<>> => \E j \in 1..N : h[j] = i
               /\ \A j \in 1..N : ss[h[j]] # <<>>
  BY <1>2, <1>3
<1>5. /\ h \in [1..N -> 1..n]
      /\ \A j \in 1..N : Rewritten(g[j], f[h[j]])
      /\ \A i, j \in 1..N : i < j => h[i] < h[j] \/ (h[i] = h[j] /\ f[h[i]].k = "new_header")
  BY <1>1, <1>3, <1>4 DEF Traced
<1> DEFINE Special == Top \union {"model_name", "policies", "policy", "begin", "end", "marked"}
<1>6. ASSUME NEW j \in 1..N
      PROVE  /\ g[j].k \in Special => g[j] = f[h[j]]
             /\ f[h[j]].k \in Special \union {"blank"} => g[j] = f[h[j]]
  BY <1>5 DEF Rewritten, Top, TopLevel
<1>7. ASSUME NEW i \in 1..N, NEW j \in 1..N
      PROVE  /\ i <= j => h[i] <= h[j]
             /\ h[i] < h[j] => i < j
             /\ i < j /\ (f[h[i]].k # "new_header" \/ f[h[j]].k # "new_header") => h[i] < h[j]
             /\ h[i] = h[j] /\ f[h[i]].k # "new_header" => i = j
  <2>0. h[i] \in 1..n /\ h[j] \in 1..n
    BY <1>5
  <2>1. h[i] \in Int /\ h[j] \in Int
    BY <2>0
  <2>2. i < j => h[i] < h[j] \/ (h[i] = h[j] /\ f[h[i]].k = "new_header")
    BY <1>5
  <2>3. j < i => h[j] < h[i] \/ (h[j] = h[i] /\ f[h[j]].k = "new_header")
    BY <1>5
  <2>4. i < j \/ i = j \/ j < i
    OBVIOUS
  <2>5. CASE i < j
    BY <2>1, <2>2, <2>5
  <2>6. CASE j < i
    BY <2>1, <2>3, <2>6
  <2>7. CASE i = j
    BY <2>1, <2>7
  <2> QED
    BY <2>4, <2>5, <2>6, <2>7
<1>8. ASSUME NEW i \in 1..n, f[i].k \in Top \union {"policies", "policy"} \/ i = z
      PROVE  \E j \in 1..N : h[j] = i
  <2>1. ss[i] # <<>>
    BY <1>1, <1>8 DEF Keeping
  <2> QED
    BY <2>1, <1>4
<1>9. /\ s \in 1..n /\ z \in 1..n /\ e \in 1..n /\ s <= z /\ z < e
      /\ \A i \in 1..n :
           /\ f[i].k = "model_list" <=> i = s
           /\ f[i].k = "model_name" => s < i /\ i < z
           /\ f[i].k \in Top => i <= s \/ e <= i
           /\ f[i].k = "router_settings" => e <= i
      /\ f[e].k \in Top /\ \E i \in 1..n : f[i].k = "router_settings"
      /\ z = s \/ f[z].k = "blank"
  BY <1>1 DEF ListIs
<1>10. /\ "model_list" \in Top /\ "router_settings" \in Top /\ "new_header" \notin Special \union {"blank"}
  BY DEF Top, TopLevel
<1>11. PICK s1 \in 1..N : h[s1] = s
  BY <1>8, <1>9, <1>10
<1>12. PICK z1 \in 1..N : h[z1] = z
  BY <1>8, <1>9
<1>13. PICK e1 \in 1..N : h[e1] = e
  BY <1>8, <1>9
<1> HIDE DEF Special
<1>14. Top \subseteq Special /\ {"model_list", "router_settings"} \subseteq Top
       /\ {"model_name", "policies", "policy", "begin", "end", "marked"} \subseteq Special
  BY <1>10 DEF Special
<1>15. s1 <= z1 /\ z1 < e1
  <2>1. z1 < e1
    BY <1>7, <1>9, <1>12, <1>13
  <2>2. CASE z = s
    <3>1. f[s].k # "new_header"
      BY <1>9
    <3>2. h[s1] = h[z1] /\ f[h[s1]].k # "new_header"
      BY <2>2, <3>1, <1>11, <1>12
    <3> QED
      BY <2>1, <3>2, <1>7
  <2>3. CASE s < z
    <3>1. s1 < z1
      BY <2>3, <1>7, <1>11, <1>12
    <3> QED
      BY <2>1, <3>1
  <2> QED
    BY <2>1, <2>2, <2>3, <1>9
<1>16. ASSUME NEW j \in 1..N
       PROVE  /\ g[j].k = "model_list" <=> j = s1
              /\ g[j].k = "model_name" => s1 < j /\ j < z1
              /\ g[j].k \in Top => j <= s1 \/ e1 <= j
              /\ g[j].k = "router_settings" => e1 <= j
  <2>1. j = s1 => g[j].k = "model_list"
    BY <1>6, <1>9, <1>11, <1>14
  <2>2. ASSUME g[j].k = "model_list" PROVE j = s1
    <3>1. f[h[j]].k = "model_list" /\ h[j] = s
      BY <2>2, <1>5, <1>6, <1>9, <1>14
    <3>2. h[s1] = h[j] /\ f[h[s1]].k # "new_header"
      BY <3>1, <1>11
    <3> QED
      BY <3>2, <1>7
  <2>3. ASSUME g[j].k = "model_name" PROVE s1 < j /\ j < z1
    <3>1. s < h[j] /\ h[j] < z
      BY <2>3, <1>5, <1>6, <1>9, <1>14
    <3> QED
      BY <3>1, <1>7, <1>11, <1>12
  <2>4. ASSUME g[j].k \in Top PROVE j <= s1 \/ e1 <= j
    <3>1. f[h[j]].k \in Top /\ (h[j] <= s \/ e <= h[j])
      BY <2>4, <1>5, <1>6, <1>9, <1>14
    <3>2. f[h[j]].k # "new_header"
      BY <3>1 DEF Top
    <3>3. h[j] \in 1..n
      BY <1>5
    <3>4. CASE h[j] <= s
      <4>1. h[j] = h[s1] \/ h[j] < h[s1]
        BY <3>3, <3>4, <1>9, <1>11
      <4>2. j = s1 \/ j < s1
        BY <4>1, <3>2, <1>7
      <4> QED
        BY <4>2
    <3>5. CASE e <= h[j]
      <4>1. h[j] = h[e1] \/ h[e1] < h[j]
        BY <3>3, <3>5, <1>9, <1>13
      <4>2. j = e1 \/ e1 < j
        BY <4>1, <3>2, <1>7
      <4> QED
        BY <4>2
    <3> QED
      BY <3>1, <3>4, <3>5
  <2>5. ASSUME g[j].k = "router_settings" PROVE e1 <= j
    <3>1. f[h[j]].k = "router_settings" /\ e <= h[j]
      BY <2>5, <1>5, <1>6, <1>9, <1>14
    <3>2. f[h[j]].k # "new_header"
      BY <3>1
    <3> QED
      BY <3>1, <3>2, <1>5, <1>7, <1>13, SMTT(30)
  <2> QED
    BY <2>1, <2>2, <2>3, <2>4, <2>5
<1>17. g[e1].k \in Top /\ (z1 = s1 \/ g[z1].k = "blank")
  <2>1. g[e1] = f[e]
    BY <1>6, <1>9, <1>13, <1>14
  <2>2. CASE z = s
    <3>1. h[s1] = h[z1] /\ f[h[s1]].k # "new_header"
      BY <2>2, <1>9, <1>11, <1>12
    <3>2. z1 = s1
      BY <3>1, <1>5
    <3> QED
      BY <2>1, <3>2, <1>9
  <2>3. CASE f[z].k = "blank"
    BY <2>1, <2>3, <1>6, <1>9, <1>12
  <2> QED
    BY <2>2, <2>3, <1>9
<1>18. \E i \in 1..N : g[i].k = "router_settings"
  <2>1. PICK i \in 1..n : f[i].k = "router_settings"
    BY <1>9
  <2>2. PICK j \in 1..N : h[j] = i
    BY <2>1, <1>8, <1>14
  <2>3. g[j] = f[i]
    BY <2>1, <2>2, <1>6, <1>14
  <2> QED
    BY <2>1, <2>3
<1>19. ListIs(g, s1, z1, e1)
  BY <1>3, <1>15, <1>16, <1>17, <1>18 DEF ListIs
<1>20. ASSUME NEW j \in 1..N, g[j].k \in {"policies", "policy", "begin"}
       PROVE e1 < j /\ g[j] = f[h[j]]
  <2>1. g[j] = f[h[j]]
    BY <1>6, <1>14, <1>20
  <2>2. e < h[j]
    BY <2>1, <1>1, <1>5, <1>20 DEF TailIs
  <2> QED
    BY <2>1, <2>2, <1>7, <1>13
<1>21. ASSUME NEW i \in 1..N, NEW j \in 1..N, g[i].k = "policies", g[j].k = "policies" PROVE i = j
  <2>1. f[h[i]].k = "policies" /\ f[h[j]].k = "policies" /\ h[i] \in 1..n /\ h[j] \in 1..n
    BY <1>5, <1>20, <1>21
  <2>2. h[i] = h[j]
    BY <2>1, <1>1 DEF TailIs
  <2> QED
    BY <2>1, <2>2, <1>7
<1>22. ASSUME NEW a \in 1..N, NEW d \in a..N, NEW k, NEW l, {k, l} \subseteq Special,
              Run(f, h[a], h[d], k, l)
       PROVE  Run(g, a, d, k, l)
  <2>1. g[a].k = k
    BY <1>6, <1>22 DEF Run
  <2>2. ASSUME NEW j \in (a + 1)..d PROVE g[j].k = l
    <3>1. j \in 1..N /\ f[h[a]].k # "new_header"
      BY <1>22, <1>10 DEF Run
    <3>2. h[a] < h[j] /\ h[j] <= h[d]
      BY <3>1, <1>7
    <3>3. h[j] \in (h[a] + 1)..h[d]
      BY <3>1, <3>2, <1>5
    <3>4. f[h[j]].k = l
      BY <3>3, <1>22 DEF Run
    <3> QED
      BY <3>1, <3>4, <1>6, <1>22
  <2> QED
    BY <2>1, <2>2 DEF Run
<1>23. ASSUME NEW j \in 1..N, g[j].k = "policy"
       PROVE  \E a \in 1..j : Run(g, a, j, "policies", "policy")
  <2>1. f[h[j]].k = "policy" /\ h[j] \in 1..n
    BY <1>5, <1>20, <1>23
  <2>2. PICK x \in 1..h[j] : Run(f, x, h[j], "policies", "policy")
    BY <2>1, <1>1 DEF TailIs
  <2>3. x \in 1..n /\ f[x].k = "policies"
    BY <2>1, <2>2 DEF Run
  <2>4. PICK a \in 1..N : h[a] = x
    BY <2>3, <1>8
  <2>5. a \in 1..j
    <3>1. x < h[j]
      BY <2>1, <2>2, <2>3
    <3> QED
      BY <2>4, <3>1, <1>7
  <2> QED
    BY <2>2, <2>4, <2>5, <1>14, <1>22
<1>24. ASSUME NEW j \in 1..N, g[j].k = "begin"
       PROVE  \E c \in (j + 1)..N : g[c] = End(g[j].tag) /\ Run(g, j, c - 1, "begin", "marked")
  <2>1. g[j] = f[h[j]] /\ h[j] \in 1..n
    BY <1>5, <1>20, <1>24
  <2>2. PICK y \in (h[j] + 1)..n : f[y] = End(f[h[j]].tag) /\ Run(f, h[j], y - 1, "begin", "marked")
    BY <2>1, <1>1, <1>24 DEF TailIs
  <2>3. y \in 1..n /\ h[j] \in 1..(y - 1) /\ f[h[j]].k = "begin"
    BY <2>1, <2>2, <1>24
  <2>4. ss[y] # <<>>
    <3>1. ss[h[j]] # <<>>
      BY <1>4
    <3> QED
      BY <2>2, <2>3, <3>1, <1>1 DEF Keeping
  <2>5. PICK c \in 1..N : h[c] = y
    BY <2>3, <2>4, <1>4
  <2>6. f[y].k = "end"
    BY <2>2 DEF End
  <2>7. g[c] = f[y]
    BY <2>5, <2>6, <1>6, <1>14
  <2>8. j < c
    BY <2>3, <2>5, <1>5, <1>7
  <2>9. c - 1 \in j..N /\ c - 1 \in 1..N
    BY <2>8
  <2>10. h[c - 1] \in h[j]..(y - 1)
    <3>1. h[c - 1] < h[c]
      <4>1. f[h[c]].k # "new_header" /\ c - 1 < c
        BY <2>5, <2>6
      <4> HIDE DEF Special
      <4> QED
        BY <4>1, <2>9, <1>7
    <3>2. h[j] <= h[c - 1]
      <4>1. j <= c - 1
        BY <2>9
      <4> DEFINE d == c - 1
      <4>2. d \in 1..N /\ j <= d
        BY <4>1, <2>9
      <4> HIDE DEF d
      <4>3. h[j] <= h[d]
        BY <4>2, <1>7
      <4> QED
        BY <4>3 DEF d
    <3> QED
      BY <3>1, <3>2, <2>5, <2>9, <1>5
  <2>11. Run(f, h[j], h[c - 1], "begin", "marked")
    BY <2>2, <2>10 DEF Run
  <2>12. Run(g, j, c - 1, "begin", "marked")
    BY <2>9, <2>11, <1>14, <1>22
  <2> QED
    BY <2>1, <2>2, <2>7, <2>8, <2>12
<1>25. TailIs(g, e1)
  BY <1>3, <1>20, <1>21, <1>23, <1>24 DEF TailIs
<1> QED
  BY <1>2, <1>19, <1>25 DEF Sound, Framed, g

\* A pass that drops nothing.
LEMMA PassSound ==
  ASSUME NEW M, M \subseteq Line, NEW f, Sound(f, M), NEW E, NEW ss \in Seq(Seq(E)), Pieces(ss, f),
         \A i \in 1..Len(f) : ss[i] # <<>>
  PROVE  Sound(FlattenSeq(ss), E)
<1>1. PICK s, z, e : f \in Seq(M) /\ ListIs(f, s, z, e) /\ TailIs(f, e)
  BY DEF Sound, Framed
<1>2. f \in Seq(Line)
  BY <1>1, SeqMono
<1>3. Keeping(ss, f, z)
  BY DEF Keeping
<1> QED
  BY <1>1, <1>2, <1>3, PiecesSound

\* One line for another is a pass.
LEMMA SinglePiece ==
  ASSUME NEW E, NEW l \in E, NEW old, Reworded(l, old), NEW p, p = <<l>>
  PROVE  /\ p \in Seq(E) /\ p # <<>> /\ Len(p) = 1
         /\ \A j \in 1..Len(p) : Reworded(p[j], old) /\ Rewritten(p[j], old)
<1>1. Rewritten(l, old)
  BY DEF Reworded, Rewritten
<1> QED
  BY <1>1

\* A pass over the costs.
LEMMA CostsPieces ==
  ASSUME NEW M \in {Draft(Settled), Draft(Fresh)}, NEW f \in Seq(M), NEW adds \in Seq(Addition)
  PROVE  \E ss \in Seq(Seq(M)) : UpdateCosts(f, adds) = FlattenSeq(ss) /\ Pieces(ss, f) /\ Rewords(ss, f)
<1> DEFINE blocks == ScanExisting(f)
           Planned(b) == Filter(adds, LAMBDA a : a.name = b.name /\ a.provider = b.provider)
           Patched == {n \in DOMAIN blocks : /\ blocks[n].cost = 0
                                             /\ Planned(blocks[n]) # <<>>
                                             /\ Head(Planned(blocks[n])).cost # 0}
           Patch(i) == CHOOSE n \in Patched : i \in blocks[n].start..blocks[n].end
           Reached == UNION {blocks[n].start..blocks[n].end : n \in Patched}
           price(i) == Head(Planned(blocks[Patch(i)])).cost
           new(i) == [k |-> "cost", cost |-> price(i), indent |-> f[i].indent + 6]
           item(i) == IF i \in Reached /\ f[i].k = "cost" THEN <<new(i)>> ELSE <<f[i]>>
           ss == [i \in 1..Len(f) |-> item(i)]
<1>0. M \subseteq Line /\ Fresh \subseteq M
  BY Subsets DEF Draft
<1>1. f \in Seq(M) /\ Len(f) \in Nat
  OBVIOUS
<1>2. UpdateCosts(f, adds) = FlattenSeq(ss)
  BY SMTT(30) DEF UpdateCosts, Concat
<1>3. ASSUME NEW i \in Reached PROVE price(i) \in Nat
  <2>1. \E n \in Patched : i \in blocks[n].start..blocks[n].end
    BY ZenonT(30)
  <2>2. Patch(i) \in Patched
    BY <2>1, ZenonT(30)
  <2> DEFINE p == Planned(blocks[Patch(i)])
  <2>3. p # <<>>
    BY <2>2, ZenonT(30)
  <2>4. p \in Seq(Addition)
    BY OnlyTyped, Zenon DEF Filter
  <2> HIDE DEF p
  <2>5. Head(p) \in Addition
    BY <2>3, <2>4
  <2>6. Head(p).cost \in Nat
    BY <2>5 DEF Addition
  <2> QED
    BY <2>6, Zenon DEF p
<1> HIDE DEF price, Reached
<1>4. ASSUME NEW i \in 1..Len(f), i \in Reached, f[i].k = "cost"
      PROVE  new(i) \in M /\ new(i).k = "cost"
  <2>1. f[i] \in Line /\ price(i) \in Nat
    BY <1>0, <1>1, <1>3, <1>4
  <2>2. f[i] \in [k : {"cost"}, cost : Nat, indent : Nat]
    BY <2>1, <1>4 DEF Line, TopLevel
  <2>3. new(i) \in [k : {"cost"}, cost : Nat, indent : Nat]
    BY <2>1, <2>2
  <2>4. new(i) \in Fresh
    BY <2>3 DEF Line, Fresh, Settled
  <2> QED
    BY <2>4, <1>0
<1> HIDE DEF new
<1>5. ASSUME NEW i \in 1..Len(f)
      PROVE  \E l \in M : item(i) = <<l>> /\ Reworded(l, f[i])
  BY <1>1, <1>4 DEF Reworded
<1> HIDE DEF item
<1>6. ASSUME NEW i \in 1..Len(f)
      PROVE  /\ item(i) \in Seq(M) /\ item(i) # <<>> /\ Len(item(i)) = 1
             /\ \A j \in 1..Len(item(i)) : Reworded(item(i)[j], f[i]) /\ Rewritten(item(i)[j], f[i])
  BY <1>5, SinglePiece
<1>7. ss \in Seq(Seq(M)) /\ Len(ss) = Len(f) /\ \A i \in 1..Len(f) : ss[i] = item(i)
  BY <1>1, <1>6
<1> HIDE DEF ss
<1> HIDE DEF Planned, Patched, Patch, blocks
<1>8. ASSUME NEW i \in 1..Len(f)
      PROVE  /\ ss[i] # <<>> /\ Len(ss[i]) <= 1
             /\ \A j \in 1..Len(ss[i]) : Reworded(ss[i][j], f[i]) /\ Rewritten(ss[i][j], f[i])
  <2>1. ss[i] = item(i)
    BY <1>7
  <2> QED
    BY <2>1, <1>6
<1>9. Pieces(ss, f)
  BY <1>7, <1>8 DEF Pieces
<1>10. Rewords(ss, f)
  BY <1>8 DEF Rewords
<1> QED
  BY <1>2, <1>7, <1>9, <1>10

LEMMA CostsSound ==
  ASSUME NEW M \in {Draft(Settled), Draft(Fresh)}, NEW f, Sound(f, M), NEW adds \in Seq(Addition)
  PROVE  Sound(UpdateCosts(f, adds), M)
<1>0. M \subseteq Line
  BY Subsets
<1>1. f \in Seq(M)
  BY DEF Sound, Framed
<1>2. PICK ss \in Seq(Seq(M)) : UpdateCosts(f, adds) = FlattenSeq(ss) /\ Pieces(ss, f) /\ Rewords(ss, f)
  BY <1>1, CostsPieces
<1>3. \A i \in 1..Len(f) : ss[i] # <<>>
  BY <1>2 DEF Rewords
<1> QED
  BY <1>0, <1>2, <1>3, PassSound

\* What the writer leaves as one line is read as two.
LEMMA RereadPieces ==
  ASSUME NEW L \in {Settled, Fresh}, NEW f \in Seq(Draft(L))
  PROVE  \E ss \in Seq(Seq(L)) : Reread(f) = FlattenSeq(ss) /\ Pieces(ss, f) /\ Rewords(ss, f)
<1> DEFINE item(i) == IF f[i].k = "new_header" THEN <<Blank, Key("header")>> ELSE <<f[i]>>
           ss == [i \in 1..Len(f) |-> item(i)]
           M == Draft(L)
<1>0. M \subseteq Line /\ Fresh \subseteq L
  BY Subsets DEF Draft
<1>1. f \in Seq(M) /\ Len(f) \in Nat
  OBVIOUS
<1>2. Reread(f) = FlattenSeq(ss)
  BY DEF Reread, Concat
<1>3. Blank \in L /\ Key("header") \in L /\ Blank.k = "blank" /\ Key("header").k = "header"
  <2>1. Blank \in Line /\ Key("header") \in Line
    BY LinesTyped DEF Blank, Unmarked
  <2>2. Blank.k = "blank" /\ Key("header").k = "header"
    BY DEF Blank, Key
  <2>3. Blank \in Fresh /\ Key("header") \in Fresh
    BY <2>1, <2>2 DEF Fresh, Settled
  <2> QED
    BY <2>2, <2>3, <1>0
<1>4. ASSUME NEW i \in 1..Len(f)
      PROVE  /\ item(i) \in Seq(L) /\ item(i) # <<>>
             /\ \A j \in 1..Len(item(i)) : Reworded(item(i)[j], f[i]) /\ Rewritten(item(i)[j], f[i])
             /\ Len(item(i)) <= 1 \/ f[i].k = "new_header"
  <2>1. CASE f[i].k = "new_header"
    <3> DEFINE b == Blank
               h == Key("header")
    <3>1. b \in L /\ h \in L /\ Reworded(b, f[i]) /\ Reworded(h, f[i])
          /\ Rewritten(b, f[i]) /\ Rewritten(h, f[i])
      BY <2>1, <1>3 DEF Reworded, Rewritten
    <3>2. item(i) = <<b, h>>
      BY <2>1
    <3> HIDE DEF b, h, item
    <3> QED
      BY <2>1, <3>1, <3>2
  <2>2. CASE f[i].k # "new_header"
    <3>1. f[i] \in L
      <4>1. f[i] \in Draft(L)
        BY <1>1
      <4> QED
        BY <4>1, <2>2 DEF Draft, Key
    <3>2. Reworded(f[i], f[i]) /\ item(i) = <<f[i]>>
      BY <2>2 DEF Reworded
    <3>3. /\ item(i) \in Seq(L) /\ item(i) # <<>> /\ Len(item(i)) = 1
          /\ \A j \in 1..Len(item(i)) : Reworded(item(i)[j], f[i]) /\ Rewritten(item(i)[j], f[i])
      BY <3>1, <3>2, SinglePiece
    <3> HIDE DEF item
    <3> QED
      BY <3>3
  <2> HIDE DEF item
  <2> QED
    BY <2>1, <2>2
<1> HIDE DEF item
<1>6. ss \in Seq(Seq(L)) /\ Len(ss) = Len(f) /\ \A i \in 1..Len(f) : ss[i] = item(i)
  BY <1>1, <1>4
<1> HIDE DEF ss
<1>7. Pieces(ss, f) /\ Rewords(ss, f)
  BY <1>4, <1>6 DEF Pieces, Rewords
<1> QED
  BY <1>2, <1>6, <1>7

LEMMA RereadSound ==
  ASSUME NEW L \in {Settled, Fresh}, NEW f, Sound(f, Draft(L))
  PROVE  Sound(Reread(f), L)
<1>0. Draft(L) \subseteq Line
  BY Subsets
<1>1. f \in Seq(Draft(L))
  BY DEF Sound, Framed
<1>2. PICK ss \in Seq(Seq(L)) : Reread(f) = FlattenSeq(ss) /\ Pieces(ss, f) /\ Rewords(ss, f)
  BY <1>1, RereadPieces
<1>3. \A i \in 1..Len(f) : ss[i] # <<>>
  BY <1>2 DEF Rewords
<1> QED
  BY <1>0, <1>2, <1>3, PassSound

\* Chains of other groups than the known ones.
Chains(known) == {l \in Fresh : l.k = "chain" /\ l.name \in (Names \ known) \union {"*"}}

\* Lines in front of line p are in the section fallbacks.
InFallbacks(f, p) ==
  /\ p \in 1..(Len(f) + 1)
  /\ \E a \in 1..(p - 1) : f[a].k = "fallbacks" /\ \A i \in (a + 1)..(p - 1) : f[i].k \in {"blank", "chain"}

\* The chains of new groups are put into their section.
LEMMA FallbacksSpliced ==
  ASSUME NEW M \in {Draft(Settled), Draft(Fresh)}, NEW f \in Seq(M), NEW adds \in Seq(Addition), NEW known
  PROVE  \/ UpdateFallbacks(f, adds, known) = f
         \/ \E p : \E c \in Seq(Chains(known)) :
              UpdateFallbacks(f, adds, known) = Splice(f, p, c) /\ InFallbacks(f, p)
<1> DEFINE at    == SelectInSeq(f, LAMBDA l : l.k = "fallbacks")
           I     == {i \in (at + 1)..Len(f) : f[i].k \notin {"blank", "chain"}}
           end   == OrElse(IF I # {} THEN Min(I) ELSE 0, Len(f) + 1)
           keys  == {f[i].name : i \in {j \in (at + 1)..(end - 1) : f[j].k = "chain"}}
           new   == Sorted({adds[i].name : i \in DOMAIN adds} \ (known \union keys))
           others(g) == Filter(POOL, LAMBDA c : c # g)
           First4(g) == SubSeq(others(g), 1, IF Len(others(g)) < 4 THEN Len(others(g)) ELSE 4)
           Wide(i) == Len(AddsFor(adds, new[i])) >= 4
           CatchAll(i) == "*" \notin keys /\ Wide(i) /\ \A j \in 1..(i - 1) : ~Wide(j)
           one(i) == <<Chain(new[i], First4(new[i]))>>
           two(i) == IF CatchAll(i) THEN <<Chain("*", CATCH_ALL)>> ELSE <<>>
           item(i) == one(i) \o two(i)
           ss == [i \in 1..Len(new) |-> item(i)]
           C == Chains(known)
<1>0. M \subseteq Line /\ Fresh \subseteq M
  BY Subsets DEF Draft
<1>2. PICK n \in Nat : n = Len(f)
  OBVIOUS
<1>3. UpdateFallbacks(f, adds, known) = IF at = 0 THEN f ELSE Splice(f, end, FlattenSeq(ss))
  BY DEF UpdateFallbacks, SelectInSubSeq, Concat
<1> DEFINE J == {i \in 1..Len(f) : f[i].k = "fallbacks"}
<1>4. at = IF J # {} THEN Min(J) ELSE 0
  BY DEF SelectInSeq
<1>5. J # {} => Min(J) \in 1..n /\ f[Min(J)].k = "fallbacks"
  <2>1. J \in SUBSET (1..n)
    BY <1>2
  <2> HIDE DEF J
  <2>2. J # {} => Min(J) \in J
    BY <2>1, MinIsFirst
  <2> QED
    BY <2>2, <1>2 DEF J
<1> HIDE DEF J, at
<1>6. at \in 0..n /\ (at # 0 => f[at].k = "fallbacks")
  BY <1>2, <1>4, <1>5
<1>7. I \in SUBSET (1..n)
  BY <1>2, <1>6
<1>8. /\ end \in (at + 1)..(n + 1)
      /\ \A i \in (at + 1)..(end - 1) : f[i].k \in {"blank", "chain"}
  <2>0. \A i \in (at + 1)..n : i \notin I => f[i].k \in {"blank", "chain"}
    BY <1>2
  <2>00. I \subseteq (at + 1)..n
    BY <1>2
  <2> HIDE DEF I
  <2>1. (I = {} => end = Len(f) + 1) /\ (I # {} => end \in I /\ \A i \in I : end <= i)
    BY <1>7, FirstOr
  <2> HIDE DEF end
  <2>2. CASE I = {}
    BY <2>0, <2>1, <2>2, <1>2, <1>6
  <2>3. CASE I # {}
    <3>1. end \in (at + 1)..n /\ \A i \in I : end <= i
      BY <2>00, <2>1, <2>3
    <3>2. at \in Int /\ n \in Int /\ end \in Int
      BY <3>1, <1>6
    <3>3. ASSUME NEW i \in (at + 1)..(end - 1) PROVE f[i].k \in {"blank", "chain"}
      <4>1. i \in (at + 1)..n /\ ~(end <= i)
        BY <3>1, <3>2
      <4> QED
        BY <4>1, <3>1, <2>0
    <3>4. end \in (at + 1)..(n + 1)
      BY <3>1, <3>2
    <3> QED
      BY <3>3, <3>4
  <2> QED
    BY <2>2, <2>3
<1> HIDE DEF end
<1>9. ASSUME at # 0 PROVE InFallbacks(f, end)
  <2>1. at \in 1..(end - 1) /\ end \in 1..(Len(f) + 1)
    BY <1>2, <1>6, <1>8, <1>9
  <2> QED
    BY <2>1, <1>6, <1>8, <1>9 DEF InFallbacks
<1> HIDE DEF keys
<1>10. new \in Seq(Names \ known)
  <2> DEFINE W == {adds[i].name : i \in DOMAIN adds} \ (known \union keys)
  <2>1. NAMES \in Seq(Names)
    BY TableAssumption DEF Names, ToSet
  <2>2. Sorted(W) \in Seq(Names \cap W)
    BY <2>1, OnlyKeeps DEF Sorted
  <2>3. Names \cap W \subseteq Names \ known
    OBVIOUS
  <2> HIDE DEF W
  <2>4. Sorted(W) \in Seq(Names \ known)
    BY <2>2, <2>3, SeqMono
  <2> QED
    BY <2>4 DEF W
<1>11. POOL \in Seq(STRING) /\ CATCH_ALL \in Seq(STRING)
  BY TableAssumption
<1>12. ASSUME NEW g PROVE First4(g) \in Seq(STRING)
  <2> DEFINE o == others(g)
             m == IF Len(o) < 4 THEN Len(o) ELSE 4
  <2>1. o \in Seq(STRING)
    BY <1>11, OnlyTyped DEF Filter
  <2> HIDE DEF o
  <2>2. m \in 0..Len(o) /\ Len(o) \in Nat
    BY <2>1
  <2>3. \A i \in 1..m : o[i] \in STRING
    BY <2>1, <2>2
  <2> HIDE DEF m
  <2>4. SubSeq(o, 1, m) \in Seq(STRING)
    BY <2>2, <2>3, SubSeqProperties
  <2> QED
    BY <2>4 DEF o, m
<1> HIDE DEF new, First4, CatchAll
<1>13. ASSUME NEW i \in 1..Len(new) PROVE item(i) \in Seq(C)
  <2>0. \A g \in (Names \ known) \union {"*"}, t \in Seq(STRING) : Chain(g, t) \in C
    <3> SUFFICES ASSUME NEW g \in (Names \ known) \union {"*"}, NEW t \in Seq(STRING) PROVE Chain(g, t) \in C
      OBVIOUS
    <3>1. Chain(g, t) \in Line
      BY LinesTyped DEF Unmarked
    <3>2. Chain(g, t).k = "chain" /\ Chain(g, t).name = g
      BY DEF Chain
    <3>3. Chain(g, t) \in Fresh
      BY <3>1, <3>2 DEF Fresh, Settled
    <3> QED
      BY <3>2, <3>3 DEF Chains
  <2>1. new[i] \in Names \ known
    BY <1>10
  <2>2. Chain(new[i], First4(new[i])) \in C
    BY <1>12, <2>0, <2>1
  <2>3. Chain("*", CATCH_ALL) \in C
    BY <1>11, <2>0
  <2> HIDE DEF C
  <2>4. one(i) \in Seq(C)
    BY <2>2, OneElement
  <2>5. two(i) \in Seq(C)
    <3>1. <<Chain("*", CATCH_ALL)>> \in Seq(C)
      BY <2>3, OneElement
    <3>2. <<>> \in Seq(C)
      OBVIOUS
    <3> QED
      BY <3>1, <3>2
  <2> HIDE DEF one, two
  <2> QED
    BY <2>4, <2>5, ConcatProperties
<1> HIDE DEF item
<1>14. ss \in Seq(Seq(C))
  BY <1>10, <1>13
<1> HIDE DEF ss
<1>15. FlattenSeq(ss) \in Seq(C)
  BY <1>14, FlattenTyped
<1> QED
  BY <1>3, <1>9, <1>15

\* That keeps the shape.
LEMMA FallbacksFramed ==
  ASSUME NEW M \in {Draft(Settled), Draft(Fresh)}, NEW f, NEW s, NEW e, Framed(f, M, s, e), NEW known,
         NEW c \in Seq(Chains(known)), NEW p, InFallbacks(f, p)
  PROVE  Framed(Splice(f, p, c), M, Up(s, p, Len(c)), Up(e, p, Len(c)))
<1>0. M \subseteq Line /\ Fresh \subseteq M
  BY Subsets DEF Draft
<1>1. PICK z : f \in Seq(M) /\ ListIs(f, s, z, e) /\ TailIs(f, e)
  BY DEF Framed
<1>2. PICK n \in Nat : n = Len(f) /\ f \in Seq(Line)
  BY <1>0, <1>1, SeqMono
<1>3. p \in 1..(n + 1) /\ p > 1 /\ f[p - 1].k \in {"fallbacks", "blank", "chain"} /\ p \in 1..(Len(f) + 1)
  <2>1. PICK a \in 1..(p - 1) : f[a].k = "fallbacks" /\ \A i \in (a + 1)..(p - 1) : f[i].k \in {"blank", "chain"}
    BY DEF InFallbacks
  <2>2. p \in 1..(n + 1)
    BY <1>2 DEF InFallbacks
  <2>3. p - 1 = a \/ p - 1 \in (a + 1)..(p - 1)
    BY <2>1, <2>2
  <2> QED
    BY <2>1, <2>2, <2>3, <1>2
<1>4. Chains(known) \subseteq M /\ Chains(known) \subseteq Line
  BY <1>0 DEF Chains
<1>5. PICK m \in Nat : m = Len(c) /\ \A j \in 1..m : c[j].k = "chain"
  BY DEF Chains
<1>6. c \in Seq(M) /\ c \in Seq(Line) /\ Inert(c)
  BY <1>4, <1>5 DEF Inert, Top, TopLevel
<1>7. Widens(Splice(f, p, c), f, p, m)
  BY <1>2, <1>3, <1>5, <1>6, SpliceWidens
<1>8. /\ Splice(f, p, c) \in Seq(M)
      /\ \A j \in 1..(Len(f) + Len(c)) :
           Splice(f, p, c)[j] = IF j < p THEN f[j]
                                ELSE IF j < p + Len(c) THEN c[j - p + 1] ELSE f[j - Len(c)]
  BY <1>1, <1>3, <1>6, SpliceAt
<1> DEFINE h == Splice(f, p, c)
<1> HIDE DEF h
<1>9. ASSUME NEW j \in p..(p + m - 1) PROVE h[j].k # "model_name"
  <2>1. j \in 1..(n + m) /\ ~(j < p) /\ j < p + m /\ j - p + 1 \in 1..m
    BY <1>3
  <2>2. h[j] = c[j - p + 1]
    BY <2>1, <1>2, <1>5, <1>8 DEF h
  <2> QED
    BY <2>1, <2>2, <1>5
<1>10. \E y : ListIs(h, Up(s, p, m), y, Up(e, p, m))
  BY <1>1, <1>2, <1>3, <1>7, <1>9, WidensList DEF h
<1>11. TailIs(h, Up(e, p, m))
  <2>1. e \in 1..n
    BY <1>1, <1>2 DEF ListIs
  <2>2. p > 1 /\ f[p - 1].k \notin {"policies", "policy", "begin", "marked"}
    BY <1>3
  <2> QED
    BY <1>1, <1>2, <1>3, <1>7, <2>1, <2>2, WidensTail DEF h
<1> QED
  BY <1>5, <1>8, <1>10, <1>11 DEF Framed, h

LEMMA FallbacksSound ==
  ASSUME NEW M \in {Draft(Settled), Draft(Fresh)}, NEW f, Sound(f, M), NEW adds \in Seq(Addition), NEW known
  PROVE  Sound(UpdateFallbacks(f, adds, known), M)
<1>1. PICK s, e : Framed(f, M, s, e)
  BY DEF Sound
<1>2. f \in Seq(M)
  BY <1>1 DEF Framed
<1>3. CASE UpdateFallbacks(f, adds, known) = f
  BY <1>3
<1>4. ASSUME NEW p, NEW c \in Seq(Chains(known)), UpdateFallbacks(f, adds, known) = Splice(f, p, c),
             InFallbacks(f, p)
      PROVE  Sound(UpdateFallbacks(f, adds, known), M)
  <2>1. Framed(Splice(f, p, c), M, Up(s, p, Len(c)), Up(e, p, Len(c)))
    BY <1>1, <1>4, FallbacksFramed
  <2> QED
    BY <2>1, <1>4 DEF Sound
<1> QED
  BY <1>2, <1>3, <1>4, FallbacksSpliced

\* What --apply writes has the shape of what it read.
LEMMA ApplySound ==
  ASSUME NEW L \in {Settled, Fresh}, NEW f, Sound(f, L), NEW adds \in Seq(Addition)
  PROVE  Sound(ApplyToConfig(f, adds), L)
<1>1. Sound(InsertDeployments(f, adds), Draft(L))
  BY InsertFramed DEF Sound
<1>2. Sound(UpdateCosts(InsertDeployments(f, adds), adds), Draft(L))
  BY <1>1, CostsSound
<1>3. Sound(UpdateFallbacks(UpdateCosts(InsertDeployments(f, adds), adds), adds,
                            NamesOf(ScanExisting(f))), Draft(L))
  BY <1>2, FallbacksSound
<1> QED
  BY <1>3, RereadSound DEF ApplyToConfig

-----------------------------------------------------------------------------
(* A render. *)

\* ss has, for each line of f, at most one: the line or one it may become.
AtMostOne(ss, f, E) ==
  /\ ss = [i \in 1..Len(f) |-> ss[i]]
  /\ \A i \in 1..Len(f) : ss[i] = <<>> \/ \E l \in E : ss[i] = <<l>> /\ Rewritten(l, f[i])

\* A line that may go.
Spare(f, i, z) ==
  f[i].k \notin Top \union {"policies", "policy", "end"} /\ i # z

\* Such a pass keeps the shape as long as it only drops spare lines.
LEMMA AtMostOnePieces ==
  ASSUME NEW E, NEW f, Len(f) \in Nat, NEW ss, AtMostOne(ss, f, E)
  PROVE  ss \in Seq(Seq(E)) /\ Pieces(ss, f)
<1> DEFINE n == Len(f)
<1>1. ASSUME NEW i \in 1..n
      PROVE  ss[i] \in Seq(E) /\ Len(ss[i]) <= 1 /\ \A j \in 1..Len(ss[i]) : Rewritten(ss[i][j], f[i])
  <2> DEFINE p == ss[i]
  <2>1. p = <<>> \/ \E l \in E : p = <<l>> /\ Rewritten(l, f[i])
    BY DEF AtMostOne
  <2> HIDE DEF p
  <2>2. CASE p = <<>>
    BY <2>2 DEF p
  <2>3. CASE p # <<>>
    <3>1. PICK l \in E : p = <<l>> /\ Rewritten(l, f[i])
      BY <2>1, <2>3
    <3>2. p \in Seq(E) /\ Len(p) = 1 /\ \A j \in 1..Len(p) : Rewritten(p[j], f[i])
      BY <3>1, SinglePiece
    <3> QED
      BY <3>2 DEF p
  <2> QED
    BY <2>2, <2>3
<1>2. ss = [i \in 1..n |-> ss[i]]
  BY DEF AtMostOne
<1>3. ss \in Seq(Seq(E)) /\ Len(ss) = n
  BY <1>1, <1>2
<1> QED
  BY <1>1, <1>3 DEF Pieces

\* A pass that drops spare lines keeps the shape.
LEMMA ThinningSound ==
  ASSUME NEW L \in {Settled, Fresh}, NEW f \in Seq(L), NEW s, NEW z, NEW e,
         ListIs(f, s, z, e), TailIs(f, e), NEW ss, AtMostOne(ss, f, L), Keeping(ss, f, z)
  PROVE  Sound(FlattenSeq(ss), L)
<1>1. f \in Seq(Line)
  BY Subsets, SeqMono
<1>2. Len(f) \in Nat
  OBVIOUS
<1>3. ss \in Seq(Seq(L)) /\ Pieces(ss, f)
  BY <1>2, AtMostOnePieces
<1> QED
  BY <1>1, <1>3, PiecesSound

\* A pass that only drops lines, or none.
LEMMA SpareKeeping ==
  ASSUME NEW f, NEW z, NEW ss, \A i \in 1..Len(f) : ss[i] = <<>> => Spare(f, i, z)
  PROVE  Keeping(ss, f, z)
<1>1. ASSUME NEW i \in 1..Len(f), ss[i] = <<>>
      PROVE  /\ f[i].k \notin Top \union {"policies", "policy"} /\ i # z
             /\ \A t : f[i] # End(t)
  BY <1>1 DEF Spare, End
<1> QED
  BY <1>1 DEF Keeping

\* Markers go together; what goes with them is between them.
LEMMA StripMarkedSound ==
  ASSUME NEW L \in {Settled, Fresh}, NEW f, Sound(f, L), NEW tag, NEW active
  PROVE  Sound(StripMarked(f, tag, active), L)
<1> DEFINE At(mark) == {i \in DOMAIN f : f[i] = mark}
           begins == At(Begin(tag))
           ends   == At(End(tag))
           Inside(i) == \E b \in begins : b < i /\ \A x \in ends : ~(b < x /\ x < i)
           gone(i) == i \in begins \union ends \/ (Inside(i) /\ ~active)
           ss == [i \in 1..Len(f) |-> IF gone(i) THEN <<>> ELSE <<f[i]>>]
<1>1. PICK s, z, e : f \in Seq(L) /\ ListIs(f, s, z, e) /\ TailIs(f, e)
  BY DEF Sound, Framed
<1>2. PICK n \in Nat : n = Len(f) /\ f \in Seq(Line)
  BY <1>1, Subsets, SeqMono
<1>3. /\ s \in 1..n /\ z \in 1..n /\ e \in 1..n /\ f[s].k = "model_list"
      /\ z = s \/ f[z].k = "blank"
  BY <1>1, <1>2 DEF ListIs
<1>4. /\ \A i \in begins : i \in 1..n /\ f[i] = Begin(tag) /\ f[i].k = "begin" /\ f[i].tag = tag
      /\ \A i \in ends : i \in 1..n /\ f[i] = End(tag) /\ f[i].k = "end" /\ f[i].tag = tag
      /\ \A i \in 1..n : f[i] = End(tag) => i \in ends
  BY <1>2 DEF Begin, End
<1>5. ASSUME NEW i \in 1..n, f[i].k = "begin", f[i].tag = tag PROVE i \in begins
  <2>1. f[i] \in Line
    BY <1>2
  <2>2. f[i] \in [k : {"begin", "end", "marked"}, tag : STRING]
    BY <2>1, <1>5 DEF Line, TopLevel
  <2>3. f[i] = [k |-> "begin", tag |-> tag]
    BY <2>2, <1>5
  <2> QED
    BY <2>3, <1>2 DEF Begin
<1> HIDE DEF begins, ends
<1>6. ASSUME NEW i \in 1..n, Inside(i), i \notin ends PROVE f[i].k = "marked"
  <2>1. PICK b \in begins : b < i /\ \A x \in ends : ~(b < x /\ x < i)
    BY <1>6
  <2>2. PICK c \in (b + 1)..n : f[c] = End(tag) /\ Run(f, b, c - 1, "begin", "marked")
    <3>1. b \in 1..n /\ f[b].k = "begin" /\ f[b].tag = tag
      BY <1>4
    <3> QED
      BY <3>1, <1>1, <1>2 DEF TailIs
  <2>3. b \in 1..n /\ c \in ends
    BY <1>4, <2>2
  <2>4. i < c
    BY <2>1, <2>3, <1>6
  <2>5. i \in (b + 1)..(c - 1)
    BY <2>1, <2>2, <2>3, <2>4
  <2> QED
    BY <2>2, <2>5 DEF Run
<1> HIDE DEF Inside
<1>7. ASSUME NEW i \in 1..n, gone(i)
      PROVE  f[i].k \in {"begin", "end", "marked"} /\ (f[i].k = "end" => i \in ends)
  <2>1. CASE i \in begins
    BY <2>1, <1>4
  <2>2. CASE i \in ends
    BY <2>2, <1>4
  <2>3. CASE Inside(i) /\ i \notin ends
    BY <2>3, <1>6
  <2> QED
    BY <2>1, <2>2, <2>3, <1>7
<1>8. ASSUME NEW i \in 1..n, gone(i), NEW a \in 1..(i - 1), f[a].k = "begin", f[i] = End(f[a].tag)
      PROVE  gone(a)
  <2>1. i \in ends /\ f[i].tag = tag
    <3>1. f[i].k = "end"
      BY <1>8 DEF End
    <3> QED
      BY <3>1, <1>4, <1>7, <1>8
  <2>2. f[a].tag = tag
    BY <2>1, <1>8 DEF End
  <2>3. a \in 1..n
    OBVIOUS
  <2> QED
    BY <2>2, <2>3, <1>5, <1>8
<1>9. StripMarked(f, tag, active) = FlattenSeq(ss)
  BY DEF StripMarked, Concat, begins, ends, Inside
<1> HIDE DEF gone
<1>10. ASSUME NEW i \in 1..n PROVE ss[i] = <<>> <=> gone(i)
  BY <1>2
<1>11. AtMostOne(ss, f, L)
  <2>1. ASSUME NEW i \in 1..n PROVE f[i] \in L /\ Rewritten(f[i], f[i])
    BY <1>1, <1>2 DEF Rewritten
  <2> QED
    BY <2>1, <1>2 DEF AtMostOne
<1> HIDE DEF ss
<1>12. Keeping(ss, f, z)
  <2>1. ASSUME NEW i \in 1..n, ss[i] = <<>>
        PROVE  /\ f[i].k \notin Top \union {"policies", "policy"} /\ i # z
               /\ \A a \in 1..(i - 1) : f[a].k = "begin" /\ f[i] = End(f[a].tag) => ss[a] = <<>>
    <3>1. gone(i)
      BY <2>1, <1>10
    <3>2. f[i].k \in {"begin", "end", "marked"}
      BY <3>1, <1>7
    <3>3. f[i].k \notin Top \union {"policies", "policy"} /\ i # z
      BY <3>2, <1>3 DEF Top, TopLevel
    <3>4. ASSUME NEW a \in 1..(i - 1), f[a].k = "begin", f[i] = End(f[a].tag) PROVE ss[a] = <<>>
      <4>1. gone(a)
        BY <3>1, <3>4, <1>8
      <4>2. a \in 1..n
        OBVIOUS
      <4> QED
        BY <4>1, <4>2, <1>10
    <3> QED
      BY <3>3, <3>4
  <2> QED
    BY <2>1, <1>2 DEF Keeping
<1> QED
  BY <1>1, <1>9, <1>11, <1>12, ThinningSound

\* So it is for all the features, one after the other.
LEMMA StripAllSound ==
  ASSUME NEW L \in {Settled, Fresh}, NEW f, Sound(f, L), NEW e
  PROVE  Sound(StripAll(f, e), L)
<1> DEFINE tags == SetToSeq(Features)
           T == {g \in Seq(L) : Sound(g, L)}
           Strip(ls, tag) == StripMarked(ls, tag, tag \in e)
<1>1. PICK n \in Nat : n = Len(tags) /\ tags \in [1..n -> Features]
  BY FeaturesListed
<1>2. f \in T
  BY DEF Sound, Framed
<1>3. ASSUME NEW g \in T, NEW tag PROVE Strip(g, tag) \in T
  <2>1. Sound(Strip(g, tag), L)
    BY StripMarkedSound
  <2> QED
    BY <2>1 DEF Sound, Framed
<1> HIDE DEF tags
<1> DEFINE D == SUBSET (1..n)
           step == [i \in 1..n |-> [g \in T |-> Strip(g, tags[i])]]
           Eq(h) == h = [x \in D |-> IF x = {} THEN f ELSE Strip(h[x \ {Max(x)}], tags[Max(x)])]
           fn == CHOOSE h : Eq(h)
<1>4. StripAll(f, e) = fn[1..n]
  <2>1. DOMAIN tags = 1..n
    BY <1>1
  <2> QED
    BY <2>1 DEF StripAll, FoldLeft, MapThenFoldSet, tags
<1> HIDE DEF T, Strip
<1>5. step \in [1..n -> [T -> T]] /\ \A i \in 1..n, g \in T : step[i][g] = Strip(g, tags[i])
  BY <1>1, <1>3
<1> HIDE DEF step
<1>6. PICK h \in [D -> T] : Folds(h, f, n, step)
  BY <1>2, <1>5, FoldTable
<1>7. ASSUME NEW x \in D, x # {} PROVE Max(x) \in 1..n /\ x \ {Max(x)} \in D
  BY <1>7, MaxUpTo
<1>8. Eq(h)
  BY <1>5, <1>6, <1>7 DEF Folds
<1>9. Eq(fn)
  BY <1>8
<1> HIDE DEF fn
<1>10. Advances(fn, T, f, n, step)
  <2>1. fn[{}] = f
    BY <1>9
  <2>2. ASSUME NEW j \in 1..n, fn[1..(j - 1)] \in T PROVE fn[1..j] = step[j][fn[1..(j - 1)]]
    <3>1. 1..j \in D /\ 1..j # {} /\ Max(1..j) = j /\ (1..j) \ {j} = 1..(j - 1)
      BY FirstPositions
    <3>2. fn[1..j] = Strip(fn[1..(j - 1)], tags[j])
      BY <3>1, <1>9
    <3> HIDE DEF D, Eq
    <3> QED
      BY <3>2, <2>2, <1>5
  <2> QED
    BY <2>1, <2>2 DEF Advances
<1> HIDE DEF D, Eq
<1>11. fn[1..n] \in T
  BY <1>2, <1>5, <1>10, FoldStays
<1> QED
  BY <1>4, <1>11 DEF T

\* Removed blocks are within the list, above the blank line that ends it.
LEMMA RemoveSound ==
  ASSUME NEW L \in {Settled, Fresh}, NEW f, Sound(f, L), NEW env1
  PROVE  Sound(RemoveBlocks(f, ParseBlocks(f), env1), L)
<1> DEFINE blocks == ParseBlocks(f)
           out1 == {m \in DOMAIN blocks : ~Kept(blocks[m], env1)}
           gone == UNION {HeaderStart(f, blocks[n])..blocks[n].end : n \in out1}
           ss == [i \in 1..Len(f) |-> IF i \in gone THEN <<>> ELSE <<f[i]>>]
<1>1. PICK s, z, e : f \in Seq(L) /\ ListIs(f, s, z, e) /\ TailIs(f, e)
  BY DEF Sound, Framed
<1>2. PICK n \in Nat : n = Len(f) /\ f \in Seq(Line) /\ f \in Seq(Settled)
  BY <1>1, Subsets, SeqMono
<1>3. ListStart(f) = s /\ ListEnd(f) = e
  BY <1>1, <1>2, Bounds
<1>4. /\ s \in 1..n /\ z \in 1..n /\ e \in 1..n /\ s <= z /\ z < e
      /\ \A i \in 1..n : /\ f[i].k = "model_list" <=> i = s
                         /\ f[i].k = "model_name" => s < i /\ i < z
                         /\ f[i].k \in Top => i <= s \/ e <= i
      /\ z = s \/ f[z].k = "blank"
  BY <1>1, <1>2 DEF ListIs
<1>5. \A i \in 1..n : f[i].k \in {"policies", "policy", "begin"} => e < i
  BY <1>1, <1>2 DEF TailIs
<1>60. PICK N \in Nat : \E at :
        /\ Scans(blocks, f, N, at)
        /\ \A i \in 1..N : \A j \in (at[i] + 1)..(ListEnd(f) - 1) :
             f[j].k = "blank" => blocks[i].end \in 0..(j - 1)
  BY <1>2, ParseBlocksScans
<1>61. PICK at :
        /\ Scans(blocks, f, N, at)
        /\ \A i \in 1..N : \A j \in (at[i] + 1)..(ListEnd(f) - 1) :
             f[j].k = "blank" => blocks[i].end \in 0..(j - 1)
  BY <1>60
<1>6. /\ at \in [1..N -> Starts(f)] /\ Scans(blocks, f, N, at)
      /\ \A i \in 1..N : \A j \in (at[i] + 1)..(ListEnd(f) - 1) :
           f[j].k = "blank" => blocks[i].end \in 0..(j - 1)
  BY <1>61 DEF Scans
<1>7. DOMAIN blocks = 1..N /\ \A m \in 1..N : blocks[m].start = at[m]
  BY <1>6 DEF Scans
<1> HIDE DEF blocks
<1>8. ASSUME NEW m \in out1
      PROVE HeaderStart(f, blocks[m]) \in (s + 1)..n /\ blocks[m].end \in 0..(z - 1)
  <2>1. m \in 1..N /\ blocks[m].start \in Starts(f) /\ at[m] \in Starts(f)
    BY <1>6, <1>7
  <2>2. HeaderStart(f, blocks[m]) \in (s + 1)..n
    BY <2>1, <1>2, <1>3, HeaderStartIs
  <2>3. at[m] \in 1..n /\ f[at[m]].k = "model_name"
    BY <2>1, <1>2, StartsIn DEF Starts
  <2>4. at[m] < z /\ s < at[m]
    BY <2>3, <1>4
  <2>5. f[z].k = "blank" /\ z \in (at[m] + 1)..(ListEnd(f) - 1)
    BY <2>3, <2>4, <1>3, <1>4
  <2>6. blocks[m].end \in 0..(z - 1)
    BY <2>1, <2>5, <1>6
  <2> QED
    BY <2>2, <2>6
<1> HIDE DEF out1
<1>9. ASSUME NEW i \in 1..n, i \in gone PROVE s < i /\ i < z
  <2>1. PICK m \in out1 : i \in HeaderStart(f, blocks[m])..blocks[m].end
    BY <1>9
  <2> DEFINE a == HeaderStart(f, blocks[m])
             b == blocks[m].end
  <2>2. a \in (s + 1)..n /\ b \in 0..(z - 1) /\ a <= i /\ i <= b
    BY <2>1, <1>8
  <2> HIDE DEF a, b
  <2> QED
    BY <2>2, <1>4
<1>10. RemoveBlocks(f, blocks, env1) = FlattenSeq(ss)
  BY DEF RemoveBlocks, Concat, out1
<1> HIDE DEF gone
<1>11. ASSUME NEW i \in 1..n, i \in gone, f[i].k = "end"
       PROVE \A a \in 1..(i - 1) : f[a].k # "begin"
  <2> SUFFICES ASSUME NEW a \in 1..(i - 1), f[a].k = "begin" PROVE FALSE
    OBVIOUS
  <2>1. a \in 1..n /\ e < a
    BY <1>5
  <2> QED
    BY <2>1, <1>4, <1>9, <1>11
<1>12. ASSUME NEW i \in 1..n PROVE ss[i] = <<>> <=> i \in gone
  BY <1>2
<1>13. AtMostOne(ss, f, L)
  <2>1. ASSUME NEW i \in 1..n PROVE f[i] \in L /\ Rewritten(f[i], f[i])
    BY <1>1, <1>2 DEF Rewritten
  <2> QED
    BY <2>1, <1>2 DEF AtMostOne
<1> HIDE DEF ss
<1>14. Keeping(ss, f, z)
  <2>1. ASSUME NEW i \in 1..n, ss[i] = <<>>
        PROVE  /\ f[i].k \notin Top \union {"policies", "policy"} /\ i # z
               /\ \A a \in 1..(i - 1) : f[a].k = "begin" => f[i] # End(f[a].tag)
    <3>1. s < i /\ i < z /\ i \in gone
      BY <2>1, <1>9, <1>12
    <3>2. f[i].k \notin Top
      BY <3>1, <1>4
    <3>3. f[i].k \notin {"policies", "policy"}
      BY <3>1, <1>4, <1>5
    <3>4. ASSUME NEW a \in 1..(i - 1), f[a].k = "begin" PROVE f[i] # End(f[a].tag)
      BY <3>1, <3>4, <1>11 DEF End
    <3> QED
      BY <3>1, <3>2, <3>3, <3>4, <1>4
  <2> QED
    BY <2>1, <1>2 DEF Keeping
<1> QED
  BY <1>1, <1>10, <1>13, <1>14, ThinningSound DEF blocks

\* Chains stay single lines or go.
LEMMA ChainsSound ==
  ASSUME NEW f, Sound(f, Fresh), NEW names \in SUBSET Names, NEW nonChat, NEW env1
  PROVE  Sound(UpdateChains(f, names, nonChat, env1), Fresh)
<1> DEFINE item(i) == IF Orphan(f, i, names) THEN <<>> ELSE UpdatedChain(f, i, names, nonChat, env1)
           ss == [i \in 1..Len(f) |-> item(i)]
<1>1. PICK s, z, e : f \in Seq(Fresh) /\ ListIs(f, s, z, e) /\ TailIs(f, e)
  BY DEF Sound, Framed
<1>2. PICK n \in Nat : n = Len(f) /\ f \in Seq(Line)
  BY <1>1, Subsets, SeqMono
<1>3. z \in 1..n /\ f[s].k = "model_list" /\ (z = s \/ f[z].k = "blank")
  BY <1>1, <1>2 DEF ListIs
<1>4. ASSUME NEW i \in 1..n, ~InChains(f, i) PROVE item(i) = <<f[i]>>
  BY <1>4 DEF Orphan, UpdatedChain
<1>5. ASSUME NEW i \in 1..n, InChains(f, i)
      PROVE  f[i].k = "chain" /\ (item(i) = <<>> \/ \E l \in Fresh : item(i) = <<l>> /\ Rewritten(l, f[i]))
  <2>1. f[i].k = "chain" /\ f[i] \in Line /\ f[i] \in Fresh
    BY <1>1, <1>2, <1>5 DEF InChains
  <2>2. f[i].name \in Names \union {"*"} /\ f[i].to \in Seq(STRING)
    BY <2>1 DEF Line, TopLevel
  <2> DEFINE to == Targets(f[i], Section(f, i), names, env1)
             a == Chain(f[i].name, to)
             b == Chain(f[i].name, <<>>)
  <2>3. to \in Seq(STRING) /\ <<>> \in Seq(STRING)
    BY <2>2, TargetsTyped
  <2> HIDE DEF to
  <2>4. a \in Unmarked /\ b \in Unmarked
    BY <2>2, <2>3, LinesTyped
  <2>5. a.k = "chain" /\ b.k = "chain"
    BY DEF Chain
  <2>6. item(i) \in {<<>>, <<f[i]>>, <<a>>, <<b>>}
    BY <1>5 DEF Orphan, UpdatedChain, to
  <2> HIDE DEF a, b, item
  <2>7. a \in Fresh /\ b \in Fresh
    BY <2>4, <2>5 DEF Unmarked, Fresh, Settled
  <2>8. Rewritten(a, f[i]) /\ Rewritten(b, f[i]) /\ Rewritten(f[i], f[i])
    BY <2>1, <2>5 DEF Rewritten
  <2> QED
    BY <2>1, <2>6, <2>7, <2>8
<1> HIDE DEF item
<1>6. ASSUME NEW i \in 1..n
      PROVE  item(i) = <<>> \/ \E l \in Fresh : item(i) = <<l>> /\ Rewritten(l, f[i])
  <2>1. f[i] \in Fresh /\ Rewritten(f[i], f[i])
    BY <1>1, <1>2 DEF Rewritten
  <2> QED
    BY <2>1, <1>4, <1>5
<1>7. AtMostOne(ss, f, Fresh)
  BY <1>2, <1>6 DEF AtMostOne
<1>8. UpdateChains(f, names, nonChat, env1) = FlattenSeq(ss)
  BY DEF UpdateChains, Concat, item
<1>9. ASSUME NEW i \in 1..n, ss[i] = <<>> PROVE Spare(f, i, z)
  <2>1. item(i) = <<>>
    BY <1>2, <1>9
  <2>2. InChains(f, i)
    BY <2>1, <1>4
  <2>3. f[i].k = "chain"
    BY <2>2, <1>5
  <2> QED
    BY <2>3, <1>3 DEF Spare, Top, TopLevel
<1> HIDE DEF ss
<1>10. Keeping(ss, f, z)
  BY <1>2, <1>9, SpareKeeping
<1> QED
  BY <1>1, <1>7, <1>8, <1>10, ThinningSound

\* The generated retry policies: their key and nothing but policies below it.
LEMMA PolicyRun ==
  ASSUME NEW names
  PROVE  /\ RetryPolicy(names) \in Seq(Settled)
         /\ Len(RetryPolicy(names)) > 0 => Run(RetryPolicy(names), 1, Len(RetryPolicy(names)), "policies", "policy")
<1> DEFINE item(i) == <<[k |-> "policy", name |-> Sorted(names)[i]]>>
           n == Len(Sorted(names))
           ss == [i \in 1..n |-> item(i)]
           p == Key("policies")
           P == {l \in Settled : l.k = "policy"}
<1>1. n \in Nat /\ \A i \in 1..n : Sorted(names)[i] \in Names
  BY SortedTyped
<1>2. p \in Settled /\ p.k = "policies" /\ \A g \in Names : [k |-> "policy", name |-> g] \in P
  BY LinesTyped DEF Unmarked, Settled, Key
<1> HIDE DEF P
<1>3. ASSUME NEW i \in 1..n PROVE item(i) \in Seq(P)
  <2>1. [k |-> "policy", name |-> Sorted(names)[i]] \in P
    BY <1>1, <1>2
  <2> QED
    BY <2>1, OneElement
<1> HIDE DEF item, n, p
<1>4. ss \in Seq(Seq(P))
  BY <1>1, <1>3
<1> HIDE DEF ss
<1> DEFINE q == FlattenSeq(ss)
           r == <<p>> \o q
<1>5. q \in Seq(P)
  BY <1>4, FlattenTyped
<1> HIDE DEF q
<1>6. q \in Seq(Settled) /\ \A j \in 1..Len(q) : q[j].k = "policy"
  BY <1>5 DEF P
<1>7. r \in Seq(Settled) /\ r[1] = p /\ \A j \in 2..Len(r) : r[j].k = "policy"
  BY <1>2, <1>6
<1> HIDE DEF r
<1>8. r \in Seq(Settled) /\ Run(r, 1, Len(r), "policies", "policy")
  BY <1>2, <1>7 DEF Run
<1>9. RetryPolicy(names) = IF names = {} THEN <<>> ELSE r
  BY DEF RetryPolicy, Concat, ss, item, n, p, q, r
<1>10. <<>> \in Seq(Settled) /\ Len(<<>>) = 0
  OBVIOUS
<1> QED
  BY <1>8, <1>9, <1>10

\* Lines behind the list may be replaced by lines of the same kind.
LEMMA CutList ==
  ASSUME NEW f, NEW g, NEW n \in Nat, n = Len(f), NEW s, NEW z, NEW e, ListIs(f, s, z, e),
         NEW new, NEW m \in Nat, m = Len(new),
         NEW a \in 1..n, NEW b \in a..(n + 1), e < a, NEW d, Cuts(g, f, n, a, b, new, d),
         \A i \in a..(b - 1) : f[i].k \notin Top,
         \A i \in 1..m : new[i].k \notin Top \union {"model_name"}
  PROVE  ListIs(g, s, z, e)
<1> DEFINE N == Len(g)
<1>1. d \in Int /\ d = a + m - b /\ N = n + d /\ N \in Nat
  BY DEF Cuts
<1>2. /\ \A i \in 1..(a - 1) : i \in 1..N /\ g[i] = f[i]
      /\ \A i \in b..n : i + d \in 1..N /\ i + d >= a /\ g[i + d] = f[i]
  <2>1. \A i \in 1..(a - 1) : i \in 1..N
    BY <1>1
  <2>2. \A i \in b..n : i + d \in 1..N /\ i + d >= a
    BY <1>1
  <2> QED
    BY <2>1, <2>2 DEF Cuts
<1>3. ASSUME NEW j \in 1..N
      PROVE  \/ j < a /\ j \in 1..n /\ g[j] = f[j]
             \/ j >= a /\ j - a + 1 \in 1..m /\ g[j] = new[j - a + 1]
             \/ j - d \in b..n /\ g[j] = f[j - d] /\ j >= a
  <2>1. From(g, f, n, a, b, new, d, j)
    <3>1. a \in 1..(n + 1)
      OBVIOUS
    <3> QED
      BY <3>1, CutFrom
  <2>2. b + d >= a
    BY <1>1
  <2> QED
    BY <1>1, <2>1, <2>2 DEF From
<1>4. /\ s \in 1..n /\ z \in 1..n /\ e \in 1..n /\ s <= z /\ z < e
      /\ \A i \in 1..n :
           /\ f[i].k = "model_list" <=> i = s
           /\ f[i].k = "model_name" => s < i /\ i < z
           /\ f[i].k \in Top => i <= s \/ e <= i
           /\ f[i].k = "router_settings" => e <= i
      /\ f[e].k \in Top /\ \E i \in 1..n : f[i].k = "router_settings"
      /\ z = s \/ f[z].k = "blank"
  BY DEF ListIs
<1> HIDE DEF N
<1>5. {s, z, e} \subseteq 1..(a - 1) /\ {s, z, e} \subseteq 1..N
      /\ g[s] = f[s] /\ g[z] = f[z] /\ g[e] = f[e]
  <2>1. {s, z, e} \subseteq 1..(a - 1)
    BY <1>4
  <2> QED
    BY <2>1, <1>2
<1>6. ASSUME NEW j \in 1..N
      PROVE  /\ g[j].k = "model_list" <=> j = s
             /\ g[j].k = "model_name" => s < j /\ j < z
             /\ g[j].k \in Top => j <= s \/ e <= j
             /\ g[j].k = "router_settings" => e <= j
  <2>1. CASE j < a /\ j \in 1..n /\ g[j] = f[j]
    BY <2>1, <1>4
  <2>2. CASE j >= a /\ j - a + 1 \in 1..m /\ g[j] = new[j - a + 1]
    <3>1. g[j].k \notin Top \union {"model_name"} /\ j # s
      BY <2>2, <1>4
    <3> QED
      BY <3>1 DEF Top, TopLevel
  <2>3. CASE j - d \in b..n /\ g[j] = f[j - d] /\ j >= a
    <3> DEFINE i == j - d
    <3>1. i \in 1..n /\ i > e /\ g[j] = f[i] /\ j > e
      BY <2>3, <1>4
    <3> HIDE DEF i
    <3> QED
      BY <3>1, <1>4
  <2> QED
    BY <1>3, <2>1, <2>2, <2>3
<1>7. \E j \in 1..N : g[j].k = "router_settings"
  <2>1. PICK i \in 1..n : f[i].k = "router_settings"
    BY <1>4
  <2>2. i \in 1..(a - 1) \/ i \in b..n
    BY <2>1 DEF Top, TopLevel
  <2> QED
    BY <2>1, <2>2, <1>2
<1> QED
  BY <1>4, <1>5, <1>6, <1>7 DEF ListIs, N

\* The run of policies is put in place of a marked block.
LEMMA PolicyCut ==
  ASSUME NEW f \in Seq(Fresh), NEW n \in Nat, n = Len(f), NEW s, NEW z, NEW e, ListIs(f,
         s, z, e), TailIs(f, e),
         NEW a \in 1..n, NEW c \in (a + 1)..n, f[c].k = "end", Run(f, a, c - 1, "begin", "marked"),
         NEW new \in Seq(Settled), Len(new) > 0 => Run(new, 1, Len(new), "policies", "policy")
  PROVE  Sound(Cut(f, a, c + 1, new), Settled)
<1> DEFINE g == Cut(f, a, c + 1, new)
           b == c + 1
<1>1. PICK m \in Nat : m = Len(new)
  OBVIOUS
<1> DEFINE d == a + m - b
           N == n + d
<1>2. f \in Seq(Settled) /\ b \in a..(n + 1) /\ a \in 1..(n + 1) /\ a \in Int /\ b \in Int
  BY Subsets, SeqMono
<1>3. g \in Seq(Settled) /\ Cuts(g, f, n, a, b, new, d)
  BY <1>1, <1>2, CutCuts
<1> HIDE DEF g
<1>4. d \in Int /\ N \in Nat /\ Len(g) = N
  BY <1>1, <1>3 DEF Cuts
<1>5. /\ \A i \in 1..(a - 1) : i \in 1..N /\ g[i] = f[i]
      /\ \A i \in b..n : i + d \in 1..N /\ i + d >= a /\ g[i + d] = f[i]
  <2>1. \A i \in 1..(a - 1) : i \in 1..N
    BY <1>1, <1>2
  <2>2. \A i \in b..n : i + d \in 1..N /\ i + d >= a
    BY <1>1, <1>2
  <2> QED
    BY <1>3, <2>1, <2>2 DEF Cuts
<1>6. ASSUME NEW j \in 1..N
      PROVE  \/ j < a /\ j \in 1..n /\ g[j] = f[j]
             \/ j >= a /\ j - a + 1 \in 1..m /\ g[j] = new[j - a + 1]
             \/ j - d \in b..n /\ g[j] = f[j - d] /\ j >= a
  <2>1. \/ j < a /\ j \in 1..n /\ g[j] = f[j]
        \/ j \in a..(b + d - 1) /\ j - a + 1 \in 1..m /\ g[j] = new[j - a + 1]
        \/ j - d \in b..n /\ g[j] = f[j - d] /\ j >= b + d
    <3>1. j \in 1..Len(g)
      BY <1>4
    <3> HIDE DEF d, b
    <3>2. From(g, f, n, a, b, new, d, j)
      BY <3>1, <1>1, <1>2, <1>3, CutFrom
    <3> QED
      BY <3>2, <1>1 DEF From
  <2>2. b + d >= a
    BY <1>1, <1>2
  <2> QED
    BY <1>2, <1>4, <2>1, <2>2
<1>7. /\ s \in 1..n /\ z \in 1..n /\ e \in 1..n /\ s <= z /\ z < e
      /\ \A i \in 1..n :
           /\ f[i].k = "model_list" <=> i = s
           /\ f[i].k = "model_name" => s < i /\ i < z
           /\ f[i].k \in Top => i <= s \/ e <= i
           /\ f[i].k = "router_settings" => e <= i
      /\ f[e].k \in Top /\ \E i \in 1..n : f[i].k = "router_settings"
      /\ z = s \/ f[z].k = "blank"
  BY DEF ListIs
<1>8. f[a].k = "begin" /\ (\A i \in (a + 1)..(c - 1) : f[i].k = "marked")
  BY DEF Run
<1>9. e < a
  BY <1>8 DEF TailIs
<1>10. \A i \in 1..n : f[i].k \notin {"policies", "policy"}
  <2>1. \A i \in 1..n : f[i] \in Fresh
    OBVIOUS
  <2> QED
    BY <2>1 DEF Fresh
<1>11. \A i \in a..(b - 1) : f[i].k \notin Top
  <2>1. \A i \in a..c : f[i].k \in {"begin", "marked", "end"}
    BY <1>8
  <2> QED
    BY <2>1 DEF Top, TopLevel
<1>12. \A j \in 1..m : new[j].k \in {"policies", "policy"} /\ (new[j].k = "policies" <=> j = 1)
  BY <1>1 DEF Run
<1> HIDE DEF d, b, N
<1>16. ListIs(g, s, z, e)
  <2>1. \A j \in 1..m : new[j].k \notin Top \union {"model_name"}
    BY <1>12 DEF Top, TopLevel
  <2> QED
    BY <2>1, <1>1, <1>2, <1>3, <1>9, <1>11, CutList
<1>17. ASSUME NEW j \in 1..N
       PROVE  /\ g[j].k \in {"policies", "policy", "begin"} => e < j
              /\ g[j].k = "policies" => j = a
              /\ g[j].k = "policy" => \E h \in 1..j : Run(g, h, j, "policies", "policy")
  <2>1. CASE j < a /\ j \in 1..n /\ g[j] = f[j]
    BY <2>1, <1>10 DEF TailIs
  <2>2. CASE j >= a /\ j - a + 1 \in 1..m /\ g[j] = new[j - a + 1]
    <3>1. e < j
      BY <2>2, <1>7, <1>9
    <3>2. g[j].k = "policies" => j = a
      BY <2>2, <1>2, <1>12
    <3>3. ASSUME NEW i \in a..j PROVE g[i] = new[i - a + 1] /\ i - a + 1 \in 1..m
      <4>1. i \in 1..N /\ i - a + 1 \in 1..m /\ i >= a
        BY <2>2, <1>1, <1>2, <1>4
      <4>2. i \in a..(b + d - 1)
        BY <4>1, <1>1 DEF d, b
      <4> QED
        BY <1>3, <4>1, <4>2 DEF Cuts
    <3>4. Run(g, a, j, "policies", "policy")
      <4>1. g[a].k = "policies"
        <5>1. a \in a..j /\ a - a + 1 = 1
          BY <2>2
        <5> QED
          BY <5>1, <3>3, <1>12
      <4>2. ASSUME NEW i \in (a + 1)..j PROVE g[i].k = "policy"
        <5>1. i \in a..j /\ i - a + 1 # 1
          OBVIOUS
        <5> DEFINE x == i - a + 1
        <5>2. g[i] = new[x] /\ x \in 1..m /\ x # 1
          BY <5>1, <3>3
        <5> HIDE DEF x
        <5> QED
          BY <5>2, <1>12
      <4> QED
        BY <4>1, <4>2 DEF Run
    <3> QED
      BY <2>2, <3>1, <3>2, <3>4
  <2>3. CASE j - d \in b..n /\ g[j] = f[j - d] /\ j >= a
    <3> DEFINE i == j - d
    <3>1. i \in 1..n /\ g[j] = f[i] /\ j > e
      BY <2>3, <1>2, <1>7, <1>9
    <3> HIDE DEF i
    <3> QED
      BY <3>1, <1>10
  <2> QED
    BY <1>6, <2>1, <2>2, <2>3
<1>18. ASSUME NEW j \in 1..N, g[j].k = "begin"
       PROVE  \E x \in (j + 1)..N : g[x] = End(g[j].tag) /\ Run(g, j, x - 1, "begin", "marked")
  <2>1. CASE j < a /\ j \in 1..n /\ g[j] = f[j]
    <3>1. PICK y \in (j + 1)..n : f[y] = End(f[j].tag) /\ Run(f, j, y - 1, "begin", "marked")
      BY <2>1, <1>18 DEF TailIs
    <3>2. f[y].k = "end"
      BY <3>1 DEF End
    <3>3. ~(a \in (j + 1)..(y - 1)) /\ y # a
      BY <3>1, <3>2, <1>8 DEF Run
    <3>4. y < a
      BY <2>1, <3>3
    <3>5. \A i \in j..y : i \in 1..(a - 1)
      BY <3>4
    <3>6. Run(g, j, y - 1, "begin", "marked") /\ g[y] = f[y] /\ y \in (j + 1)..N
      BY <2>1, <3>1, <3>4, <3>5, <1>5, <1>18 DEF Run
    <3> QED
      BY <2>1, <3>1, <3>6
  <2>2. CASE j >= a /\ j - a + 1 \in 1..m /\ g[j] = new[j - a + 1]
    BY <2>2, <1>12, <1>18
  <2>3. CASE j - d \in b..n /\ g[j] = f[j - d] /\ j >= a
    <3> DEFINE i == j - d
    <3>1. i \in b..n /\ i \in 1..n /\ g[j] = f[i] /\ j = i + d
      BY <2>3, <1>2, <1>4
    <3> HIDE DEF i
    <3>2. PICK y \in (i + 1)..n : f[y] = End(f[i].tag) /\ Run(f, i, y - 1, "begin", "marked")
      BY <3>1, <1>18 DEF TailIs
    <3>3. ASSUME NEW x \in (j + 1)..(y + d - 1) PROVE g[x].k = "marked"
      <4> DEFINE w == x - d
      <4>1. w \in (i + 1)..(y - 1) /\ w \in b..n /\ x = w + d
        BY <3>1, <3>2, <1>2, <1>4
      <4> HIDE DEF w
      <4> QED
        BY <4>1, <3>2, <1>5 DEF Run
    <3>4. y + d \in (j + 1)..N /\ g[y + d] = f[y]
      <4>1. y \in b..n
        BY <3>1, <3>2, <1>2
      <4> QED
        BY <4>1, <3>1, <3>2, <1>4, <1>5
    <3> DEFINE q == y + d
    <3>6. q \in (j + 1)..N /\ g[q] = End(g[j].tag)
      BY <3>1, <3>2, <3>4
    <3>7. Run(g, j, q - 1, "begin", "marked")
      BY <3>1, <3>2, <3>3, <1>4, <1>18 DEF Run
    <3> HIDE DEF q
    <3> QED
      BY <3>6, <3>7
  <2> QED
    BY <1>6, <2>1, <2>2, <2>3
<1>19. TailIs(g, e)
  BY <1>4, <1>17, <1>18 DEF TailIs
<1> QED
  BY <1>3, <1>16, <1>19 DEF Sound, Framed, g, b

\* The policies come in place of their markers.
LEMMA PolicySound ==
  ASSUME NEW f, Sound(f, Fresh), NEW names
  PROVE  Sound(InsertRetryPolicy(f, names), Settled)
<1> DEFINE I == {i \in 1..Len(f) : f[i] = End(RetryTag)}
           end == IF I # {} THEN Min(I) ELSE 0
           J == {i \in 1..end : f[i] = Begin(RetryTag)}
           start == IF J # {} THEN Max(J) ELSE 0
           new == RetryPolicy(names)
<1>1. PICK s, z, e : f \in Seq(Fresh) /\ ListIs(f, s, z, e) /\ TailIs(f, e)
  BY DEF Sound, Framed
<1>2. PICK n \in Nat : n = Len(f)
  BY <1>1
<1>3. InsertRetryPolicy(f, names) =
        IF start = 0 THEN f ELSE SubSeq(f, 1, start - 1) \o new \o SubSeq(f, end + 1, Len(f))
  BY DEF InsertRetryPolicy, SelectInSeq, SelectLastInSubSeq
<1>4. new \in Seq(Settled) /\ (Len(new) > 0 => Run(new, 1, Len(new), "policies", "policy"))
  BY PolicyRun
<1> HIDE DEF new
<1>5. I # {} => end \in I /\ \A i \in I : end <= i
  <2>1. I \in SUBSET (1..n)
    BY <1>2
  <2> HIDE DEF I
  <2> QED
    BY <2>1, MinIsFirst
<1>6. (I # {} => end \in 1..n) /\ (I = {} => end = 0)
  BY <1>2, <1>5
<1>7. \A i \in 1..n : f[i] = End(RetryTag) => end \in 1..n /\ end <= i /\ f[end] = End(RetryTag)
  BY <1>2, <1>5, <1>6
<1> HIDE DEF end
<1>8. CASE J = {}
  <2>1. f \in Seq(Settled)
    BY <1>1, Subsets, SeqMono
  <2>2. start = 0
    BY <1>8
  <2> QED
    BY <1>1, <1>3, <2>1, <2>2 DEF Sound, Framed
<1>9. CASE J # {}
  <2>1. start \in J
    <3>1. J \in SUBSET (1..end)
      OBVIOUS
    <3> HIDE DEF J
    <3>2. end \in Nat
      BY <1>6
    <3> QED
      BY <3>1, <3>2, <1>9, MaxUpTo
  <2>2. start \in 1..end /\ f[start] = Begin(RetryTag) /\ end \in 1..n
    BY <2>1, <1>6
  <2>3. start \in 1..n /\ f[start].k = "begin" /\ f[start].tag = RetryTag
    BY <2>2 DEF Begin
  <2> HIDE DEF J, start
  <2>4. PICK c \in (start + 1)..n : f[c] = End(RetryTag) /\ Run(f, start, c - 1, "begin", "marked")
    BY <2>3, <1>1, <1>2 DEF TailIs
  <2>5. c \in 1..n /\ f[end] = End(RetryTag) /\ end <= c /\ f[end].k = "end"
    <3>1. c \in 1..n
      BY <2>3, <2>4
    <3> QED
      BY <3>1, <2>4, <1>7 DEF End
  <2>6. c = end
    <3> SUFFICES ASSUME end < c PROVE FALSE
      BY <2>2, <2>5
    <3>1. start # end
      BY <2>3, <2>5
    <3>2. end \in (start + 1)..(c - 1)
      BY <3>1, <2>2, <2>3, <2>4
    <3>3. f[end].k = "marked"
      BY <3>2, <2>4 DEF Run
    <3> QED
      BY <3>3, <2>5
  <2>7. end \in (start + 1)..n /\ f[end].k = "end" /\ Run(f, start, end - 1, "begin", "marked")
    BY <2>4, <2>5, <2>6
  <2>8. Sound(Cut(f, start, end + 1, new), Settled)
    BY <1>1, <1>2, <1>4, <2>3, <2>7, PolicyCut
  <2>9. start # 0
    BY <2>3
  <2> QED
    BY <1>3, <2>8, <2>9 DEF Cut
<1> QED
  BY <1>8, <1>9

\* What a render writes has the shape of its template.
LEMMA RenderSound ==
  ASSUME NEW f, Sound(f, Fresh), NEW e
  PROVE  Sound(Render(f, e), Settled)
<1> DEFINE lines   == StripAll(f, e)
           blocks  == ParseBlocks(lines)
           kept    == Filter(blocks, LAMBDA b : Kept(b, e))
           nonChat == {g \in Names : \E n \in DOMAIN kept : kept[n].name = g /\ kept[n].mode # "chat"}
           left1 == RemoveBlocks(lines, blocks, e)
           chains == UpdateChains(left1, NamesOf(kept), nonChat, e)
<1>1. Sound(lines, Fresh)
  BY StripAllSound
<1>2. Sound(left1, Fresh)
  <2> HIDE DEF lines
  <2> QED
    BY <1>1, RemoveSound
<1>3. NamesOf(kept) \in SUBSET Names
  <2>1. lines \in Seq(Line)
    BY <1>1, Subsets, SeqMono DEF Sound, Framed
  <2> HIDE DEF lines
  <2> QED
    BY <2>1, KeptNames DEF Filter
<1>4. Render(f, e) = InsertRetryPolicy(chains, Singles(kept))
  BY DEF Render
<1> HIDE DEF left1, kept, nonChat
<1>5. Sound(chains, Fresh)
  BY <1>2, <1>3, ChainsSound
<1> HIDE DEF chains
<1> QED
  BY <1>4, <1>5, PolicySound

-----------------------------------------------------------------------------
(* The master's configuration. *)

\* The policies go.
LEMMA StripPolicies ==
  ASSUME NEW f, Sound(f, Settled)
  PROVE  /\ StripRetryPolicy(f) \in Seq(Settled)
         /\ \E s, z, e : ListIs(StripRetryPolicy(f), s, z, e)
         /\ \A i \in 1..Len(StripRetryPolicy(f)) : StripRetryPolicy(f)[i].k \notin {"policies", "policy"}
<1> DEFINE J == {i \in 1..Len(f) : f[i].k = "policies"}
           at == IF J # {} THEN Min(J) ELSE 0
           I == {i \in (at + 1)..Len(f) : f[i].k \notin {"policy", "blank"}}
           stop == OrElse(IF I # {} THEN Min(I) ELSE 0, Len(f) + 1)
           cut == Cut(f, at, stop, <<>>)
<1>1. PICK s, z, e : f \in Seq(Settled) /\ ListIs(f, s, z, e) /\ TailIs(f, e)
  BY DEF Sound, Framed
<1>2. PICK n \in Nat : n = Len(f)
  BY <1>1
<1>3. StripRetryPolicy(f) = IF at = 0 THEN f ELSE SubSeq(f, 1, at - 1) \o SubSeq(f, stop, Len(f))
  BY DEF StripRetryPolicy, SelectInSeq, SelectInSubSeq
<1>4. (J # {} => at \in J) /\ (J = {} => at = 0)
  <2>1. J \in SUBSET (1..n)
    BY <1>2
  <2> HIDE DEF J
  <2> QED
    BY <2>1, MinIsFirst
<1>5. at \in 0..n /\ (at # 0 <=> J # {}) /\ (at # 0 => at \in 1..n /\ f[at].k = "policies")
  BY <1>2, <1>4
<1> HIDE DEF at
<1>6. \A i \in 1..n : f[i].k = "policies" => i = at
  BY <1>1, <1>2, <1>4 DEF TailIs
<1>7. ASSUME NEW i \in 1..n, f[i].k = "policy"
      PROVE  at # 0 /\ at < i /\ \A j \in (at + 1)..i : f[j].k = "policy"
  <2>1. PICK h \in 1..i : Run(f, h, i, "policies", "policy")
    BY <1>1, <1>2, <1>7 DEF TailIs
  <2>2. h = at /\ h # i
    BY <2>1, <1>6, <1>7 DEF Run
  <2> QED
    BY <2>1, <2>2, <1>5 DEF Run
<1>8. CASE at = 0
  <2>1. \A i \in 1..n : f[i].k \notin {"policies", "policy"}
    BY <1>6, <1>7, <1>8
  <2>2. StripRetryPolicy(f) = f
    BY <1>3, <1>8
  <2> QED
    BY <2>1, <2>2, <1>1, <1>2
<1>9. CASE at # 0
  <2>1. /\ stop \in (at + 1)..(n + 1)
        /\ \A i \in (at + 1)..(stop - 1) : f[i].k \in {"policy", "blank"}
        /\ stop <= n => f[stop].k \notin {"policy", "blank"}
    <3>0. /\ \A i \in (at + 1)..n : i \notin I => f[i].k \in {"policy", "blank"}
          /\ \A i \in I : i \in (at + 1)..n /\ f[i].k \notin {"policy", "blank"}
      BY <1>2
    <3>1. I \in SUBSET (1..n)
      BY <3>0, <1>5
    <3> HIDE DEF I
    <3>2. (I = {} => stop = n + 1) /\ (I # {} => stop \in I /\ \A i \in I : stop <= i)
      BY <3>1, <1>2, FirstOr
    <3> HIDE DEF stop
    <3>3. CASE I = {}
      BY <3>0, <3>2, <3>3, <1>5
    <3>4. CASE I # {}
      <4>1. stop \in (at + 1)..n /\ f[stop].k \notin {"policy", "blank"} /\ \A i \in I : stop <= i
        BY <3>0, <3>2, <3>4
      <4>2. at \in Int /\ stop \in Int
        BY <4>1, <1>5
      <4>3. ASSUME NEW i \in (at + 1)..(stop - 1) PROVE f[i].k \in {"policy", "blank"}
        <5>1. i \in (at + 1)..n /\ ~(stop <= i)
          BY <4>1, <4>2
        <5> QED
          BY <5>1, <4>1, <3>0
      <4> QED
        BY <4>1, <4>2, <4>3
    <3> QED
      BY <3>3, <3>4
  <2> HIDE DEF stop
  <2>2. at \in 1..n /\ at \in 1..(n + 1) /\ stop \in at..(n + 1) /\ <<>> \in Seq(Settled) /\ Len(<<>>) = 0
    BY <2>1, <1>5, <1>9
  <2>3. e < at
    BY <1>1, <1>2, <1>5, <1>9 DEF TailIs
  <2> DEFINE d == at + Len(<<>>) - stop
             new == <<>>
  <2>4. cut \in Seq(Settled) /\ Cuts(cut, f, n, at, stop, new, d)
    BY <2>2, <1>1, <1>2, CutCuts
  <2>5. \A i \in at..(stop - 1) : f[i].k \notin Top
    BY <2>1, <1>5, <1>9 DEF Top, TopLevel
  <2>6. \A i \in 1..0 : new[i].k \notin Top \union {"model_name"}
    OBVIOUS
  <2>7. Len(new) = 0
    OBVIOUS
  <2> HIDE DEF cut, new, d
  <2>8. ListIs(cut, s, z, e)
    BY <2>2, <2>3, <2>4, <2>5, <2>6, <2>7, <1>1, <1>2, CutList
  <2>9. ASSUME NEW j \in 1..Len(cut) PROVE cut[j].k \notin {"policies", "policy"}
    <3>1. From(cut, f, n, at, stop, new, d, j)
      BY <2>2, <2>4, <2>7, CutFrom
    <3>2. \E i \in 1..n : cut[j] = f[i] /\ (i < at \/ stop <= i)
      BY <3>1, <2>2, <2>7 DEF From
    <3>3. PICK i \in 1..n : cut[j] = f[i] /\ (i < at \/ stop <= i)
      BY <3>2
    <3>4. i # at
      BY <3>3, <2>1, <2>2
    <3>5. f[i].k # "policy"
      <4> SUFFICES ASSUME f[i].k = "policy" PROVE FALSE
        OBVIOUS
      <4>1. at < i /\ \A j1 \in (at + 1)..i : f[j1].k = "policy"
        BY <1>7
      <4>2. stop <= i /\ stop \in (at + 1)..i /\ stop <= n
        BY <4>1, <3>3, <2>1, <2>2
      <4> QED
        BY <4>1, <4>2, <2>1
    <3> QED
      BY <3>3, <3>4, <3>5, <1>6
  <2>10. StripRetryPolicy(f) = cut
    <3>1. SubSeq(f, 1, at - 1) \in Seq(Settled)
      BY <1>1, <1>2, <2>2
    <3> DEFINE x == SubSeq(f, 1, at - 1)
    <3>2. x \o <<>> = x
      <4> HIDE DEF x
      <4> QED
        BY <3>1 DEF x
    <3> QED
      BY <3>2, <1>3, <1>9 DEF cut, Cut
  <2> QED
    BY <2>4, <2>8, <2>9, <2>10
<1> QED
  BY <1>8, <1>9

\* On line j begins the entry of group g with api_base b.
Trio(q, j, g, b) ==
  j \in 1..(Len(q) - 2) /\ q[j] = Name(g) /\ q[j + 1].k = "model" /\ q[j + 2] = ApiBase(b)

\* q has one entry for each of these pairs, and no other entry.
Entries(q, R) ==
  /\ \A r \in R : r = <<r[1], r[2]>>
  /\ \A j \in 1..Len(q) : q[j].k = "model_name" => \E r \in R : Trio(q, j, r[1], r[2])
  /\ \A r \in R : \E j \in 1..Len(q) : Trio(q, j, r[1], r[2])
  /\ \A r \in R : \A i, j \in 1..Len(q) : Trio(q, i, r[1], r[2]) /\ Trio(q, j, r[1], r[2]) => i = j

\* Each piece has the entries of its own pairs.
Shares(ss, R, k) ==
  /\ \A i \in 1..k : Entries(ss[i], R[i])
  /\ \A i, j \in 1..k : \A r : r \in R[i] /\ r \in R[j] => i = j

Joined(R, k) == UNION {R[i] : i \in 1..k}

\* The concatenation has the entries of all pieces.
LEMMA EntriesFlatten ==
  ASSUME NEW E, NEW ss \in Seq(Seq(E)), NEW k \in Nat, k = Len(ss), NEW R, Shares(ss, R, k)
  PROVE  Entries(FlattenSeq(ss), Joined(R, k))
<1> DEFINE q == FlattenSeq(ss)
           S == Joined(R, k)
<1>0. /\ \A i \in 1..k : Entries(ss[i], R[i])
      /\ \A i, j \in 1..k : \A r : r \in R[i] /\ r \in R[j] => i = j
  BY DEF Shares
<1>1. PICK n \in Nat : \E m : Placed(q, ss, n, m)
  BY FlattenPlaced
<1>2. PICK m : Placed(q, ss, n, m)
  BY <1>1
<1>3. \A i \in 1..k : ss[i] \in Seq(E) /\ Len(ss[i]) \in Nat
  OBVIOUS
<1> HIDE DEF q
<1>4. n = Len(q) /\ \A j \in 1..n : q[j] = ss[m[j][1]][m[j][2]]
  BY <1>2 DEF Placed
<1>5. ASSUME NEW j \in 1..n
      PROVE m[j][1] \in 1..k /\ m[j][2] \in 1..Len(ss[m[j][1]]) /\ m[j] = <<m[j][1], m[j][2]>>
  <2>1. m[j] \in Places(ss)
    BY <1>2 DEF Placed
  <2> QED
    BY <2>1 DEF Places
<1>6. ASSUME NEW i \in 1..k, NEW c \in 1..Len(ss[i]) PROVE \E j \in 1..n : m[j] = <<i, c>>
  <2>1. <<i, c>> \in Places(ss)
    BY DEF Places
  <2> QED
    BY <2>1, <1>2 DEF Placed
<1>7. ASSUME NEW j \in 1..n, NEW g, NEW b, Trio(ss[m[j][1]], m[j][2], g, b) PROVE Trio(q, j, g, b)
  <2> DEFINE a == m[j][1]
             c == m[j][2]
  <2>1. a \in 1..k /\ c \in 1..(Len(ss[a]) - 2) /\ Len(ss[a]) \in Nat
    BY <1>3, <1>5, <1>7 DEF Trio
  <2>2. j + 1 \in 1..n /\ m[j + 1] = <<a, c + 1>>
    BY <2>1, <1>2 DEF Placed
  <2> DEFINE x == j + 1
  <2>3. x \in 1..n /\ m[x][1] = a /\ m[x][2] = c + 1
    BY <2>2
  <2>4. q[x] = ss[a][c + 1]
    BY <2>3, <1>4
  <2> HIDE DEF x, a, c
  <2>40. m[x][2] < Len(ss[m[x][1]])
    BY <2>1, <2>3
  <2>5. x + 1 \in 1..n /\ m[x + 1] = <<m[x][1], m[x][2] + 1>>
    BY <2>3, <2>40, <1>2 DEF Placed
  <2>6. x + 1 \in 1..n /\ m[x + 1] = <<a, c + 2>>
    BY <2>1, <2>3, <2>5
  <2> DEFINE y == x + 1
  <2>7. y \in 1..n /\ m[y][1] = a /\ m[y][2] = c + 2
    BY <2>6
  <2>8. q[y] = ss[a][c + 2]
    BY <2>7, <1>4
  <2>9. y = j + 2
    BY DEF x
  <2> HIDE DEF y
  <2>10. q[j] = Name(g) /\ q[j + 1].k = "model" /\ q[j + 2] = ApiBase(b)
    BY <2>4, <2>8, <2>9, <1>4, <1>7 DEF Trio, x, a, c
  <2>11. j \in 1..(Len(q) - 2)
    BY <2>7, <2>9, <1>4
  <2> QED
    BY <2>10, <2>11 DEF Trio
<1>8. ASSUME NEW j \in 1..n, q[j].k = "model_name"
      PROVE  \E r \in R[m[j][1]] : Trio(ss[m[j][1]], m[j][2], r[1], r[2]) /\ Trio(q, j, r[1], r[2])
  <2> DEFINE a == m[j][1]
             c == m[j][2]
  <2>1. a \in 1..k /\ c \in 1..Len(ss[a]) /\ ss[a][c].k = "model_name"
    BY <1>4, <1>5, <1>8
  <2>2. \E r \in R[a] : Trio(ss[a], c, r[1], r[2])
    <3> HIDE DEF a, c
    <3> QED
      BY <2>1, <1>0 DEF Entries
  <2> QED
    BY <2>2, <1>7
<1>9. ASSUME NEW r \in S PROVE r = <<r[1], r[2]>>
  BY <1>0 DEF Entries, Joined
<1>10. ASSUME NEW r \in S PROVE \E j \in 1..n : Trio(q, j, r[1], r[2])
  <2>1. PICK i \in 1..k : r \in R[i]
    BY DEF Joined
  <2>2. PICK c \in 1..Len(ss[i]) : Trio(ss[i], c, r[1], r[2])
    BY <2>1, <1>0 DEF Entries
  <2>3. PICK j \in 1..n : m[j] = <<i, c>>
    BY <1>6
  <2>4. m[j][1] = i /\ m[j][2] = c
    BY <2>3
  <2> QED
    BY <2>2, <2>4, <1>7
<1>11. ASSUME NEW r \in S, NEW j \in 1..n, Trio(q, j, r[1], r[2])
       PROVE  r \in R[m[j][1]] /\ Trio(ss[m[j][1]], m[j][2], r[1], r[2])
  <2>1. q[j] = Name(r[1]) /\ q[j + 2] = ApiBase(r[2]) /\ q[j].k = "model_name"
    BY <1>11 DEF Trio, Name
  <2>2. PICK p \in R[m[j][1]] : Trio(ss[m[j][1]], m[j][2], p[1], p[2]) /\ Trio(q, j, p[1], p[2])
    BY <2>1, <1>8
  <2>3. q[j] = Name(p[1]) /\ q[j + 2] = ApiBase(p[2])
    BY <2>2 DEF Trio
  <2>4. p[1] = r[1] /\ p[2] = r[2]
    BY <2>1, <2>3 DEF Name, ApiBase
  <2>5. p \in S
    BY <1>5 DEF Joined
  <2>6. p = r
    BY <2>4, <2>5, <1>9
  <2> QED
    BY <2>2, <2>6
<1>12. ASSUME NEW r \in S, NEW i \in 1..n, NEW j \in 1..n, Trio(q, i, r[1], r[2]), Trio(q, j, r[1], r[2])
       PROVE  i = j
  <2>1. r \in R[m[i][1]] /\ r \in R[m[j][1]] /\ m[i][1] \in 1..k /\ m[j][1] \in 1..k
    BY <1>5, <1>11, <1>12
  <2>2. m[i][1] = m[j][1]
    BY <2>1, <1>0
  <2>3. m[i][2] = m[j][2]
    <3> DEFINE a == m[i][1]
               c == m[i][2]
               d == m[j][2]
    <3>1. Trio(ss[a], c, r[1], r[2]) /\ Trio(ss[a], d, r[1], r[2]) /\ a \in 1..k /\ r \in R[a]
          /\ c \in 1..Len(ss[a]) /\ d \in 1..Len(ss[a])
      BY <2>1, <2>2, <1>5, <1>11, <1>12
    <3> HIDE DEF a, c, d
    <3>2. c = d
      BY <3>1, <1>0 DEF Entries
    <3> QED
      BY <3>2 DEF c, d
  <2>4. m[i] = m[j]
    BY <2>2, <2>3, <1>5
  <2> QED
    BY <2>4, <1>2 DEF Placed
<1>13. \A j \in 1..n : q[j].k = "model_name" => \E r \in S : Trio(q, j, r[1], r[2])
  BY <1>5, <1>8 DEF Joined
<1> HIDE DEF S
<1>14. Entries(q, S)
  BY <1>4, <1>9, <1>10, <1>12, <1>13 DEF Entries
<1> QED
  BY <1>14 DEF q, S

\* The lines of the slaves' entries.
Mirror == {l \in Line : l.k \in {"model_name", "model", "api_base"}}

\* One entry.
LEMMA OneEntry ==
  ASSUME NEW g \in Names, NEW b \in STRING, NEW q, q = <<Name(g), Model("openai", NoId), ApiBase(b)>>
  PROVE  q \in Seq(Mirror) /\ Entries(q, {<<g, b>>})
<1> DEFINE x == Name(g)
           y == Model("openai", NoId)
           w == ApiBase(b)
<1>1. x \in Mirror /\ w \in Mirror /\ x.k = "model_name" /\ w.k = "api_base"
  BY LinesTyped DEF Mirror, Unmarked, Name, ApiBase
<1>2. y \in Mirror /\ y.k = "model"
  BY TableAssumption DEF Mirror, Line, Model
<1>3. q = <<x, y, w>>
  OBVIOUS
<1>4. x = Name(g) /\ w = ApiBase(b)
  OBVIOUS
<1> HIDE DEF x, y, w
<1>5. q \in Seq(Mirror) /\ Len(q) = 3 /\ q[1] = x /\ q[2] = y /\ q[3] = w
  BY <1>1, <1>2, <1>3
<1>6. \A j \in 1..3 : q[j].k = "model_name" => j = 1
  BY <1>1, <1>2, <1>5
<1>7. Trio(q, 1, g, b)
  BY <1>2, <1>4, <1>5 DEF Trio
<1>8. \A j \in 1..3 : Trio(q, j, g, b) => j = 1
  BY <1>5 DEF Trio
<1> DEFINE r == <<g, b>>
<1>9. r[1] = g /\ r[2] = b /\ r = <<r[1], r[2]>>
  OBVIOUS
<1> HIDE DEF r
<1>10. Entries(q, {r})
  BY <1>5, <1>6, <1>7, <1>8, <1>9 DEF Entries
<1> QED
  BY <1>5, <1>10 DEF r

\* The entries of one group.
OfGroup(q, g) ==
  q = Concat(Len(SLAVES), LAMBDA s : <<Name(g), Model("openai", NoId), ApiBase(SLAVES[s])>>)

\* They are in fact one for each slave.
LEMMA GroupEntries ==
  ASSUME NEW g \in Names, NEW q, OfGroup(q, g)
  PROVE  q \in Seq(Mirror) /\ Entries(q, {g} \X ToSet(SLAVES))
<1> DEFINE item(s) == <<Name(g), Model("openai", NoId), ApiBase(SLAVES[s])>>
           k == Len(SLAVES)
           ss == [s \in 1..k |-> item(s)]
           R == [s \in 1..k |-> {<<g, SLAVES[s]>>}]
<1>1. k \in Nat /\ (\A s \in 1..k : SLAVES[s] \in STRING)
      /\ ToSet(SLAVES) = {SLAVES[s] : s \in 1..k}
      /\ \A s, t \in 1..k : SLAVES[s] = SLAVES[t] => s = t
  <2>1. SLAVES \in Seq(STRING) /\ IsInjective(SLAVES)
    BY RenderAssumption
  <2> HIDE DEF ss, R, item
  <2>2. \A s, t \in DOMAIN SLAVES : SLAVES[s] = SLAVES[t] => s = t
    BY <2>1 DEF IsInjective
  <2> QED
    BY <2>1, <2>2 DEF ToSet
<1>2. ASSUME NEW s \in 1..k PROVE item(s) \in Seq(Mirror) /\ Entries(item(s), {<<g, SLAVES[s]>>})
  BY <1>1, OneEntry
<1>3. q = FlattenSeq(ss)
  BY DEF OfGroup, Concat
<1> HIDE DEF item, k
<1>4. ss \in Seq(Seq(Mirror)) /\ Len(ss) = k
  <2>1. ss \in [1..k -> Seq(Mirror)]
    BY <1>2
  <2> HIDE DEF ss
  <2> QED
    BY <2>1, <1>1
<1>5. \A s \in 1..k : Entries(ss[s], R[s])
  BY <1>2
<1> HIDE DEF ss
<1>6. ASSUME NEW s \in 1..k, NEW t \in 1..k, NEW r, r \in R[s], r \in R[t] PROVE s = t
  <2>1. r = <<g, SLAVES[s]>> /\ r = <<g, SLAVES[t]>>
    BY <1>6
  <2> HIDE DEF R
  <2>2. SLAVES[s] = SLAVES[t]
    BY <2>1
  <2> QED
    BY <2>2, <1>1
<1>7. Joined(R, k) = {g} \X ToSet(SLAVES)
  <2>1. Joined(R, k) = {<<g, SLAVES[s]>> : s \in 1..k}
    BY DEF Joined
  <2> HIDE DEF R
  <2>2. \A r : (\E s \in 1..k : r = <<g, SLAVES[s]>>) <=> (\E b \in ToSet(SLAVES) : r = <<g, b>>)
    BY <1>1
  <2> QED
    BY <2>1, <2>2
<1> HIDE DEF R
<1>8. Shares(ss, R, k)
  BY <1>5, <1>6 DEF Shares
<1>9. Entries(FlattenSeq(ss), Joined(R, k))
  BY <1>1, <1>4, <1>8, EntriesFlatten
<1> QED
  BY <1>3, <1>4, <1>7, <1>9, FlattenTyped

\* The entries of all of them.
LEMMA SlaveEntriesAre ==
  ASSUME NEW names \in Seq(Names), \A i, j \in 1..Len(names) : names[i] = names[j] => i = j
  PROVE  SlaveEntries(names) \in Seq(Mirror) /\ Entries(SlaveEntries(names), ToSet(names) \X ToSet(SLAVES))
<1> DEFINE item(i) == Concat(Len(SLAVES), LAMBDA s : <<Name(names[i]), Model("openai", NoId), ApiBase(SLAVES[s])>>)
           k == Len(names)
           ss == [i \in 1..k |-> item(i)]
           R == [i \in 1..k |-> {names[i]} \X ToSet(SLAVES)]
<1>1. k \in Nat /\ (\A i \in 1..k : names[i] \in Names)
      /\ ToSet(names) = {names[i] : i \in 1..k}
      /\ \A i, j \in 1..k : names[i] = names[j] => i = j
  BY DEF ToSet
<1>2. ASSUME NEW i \in 1..k
      PROVE item(i) \in Seq(Mirror) /\ Entries(item(i), {names[i]} \X ToSet(SLAVES))
  <2> DEFINE q == item(i)
             g == names[i]
  <2>1. g \in Names
    BY <1>1
  <2>2. q = Concat(Len(SLAVES), LAMBDA s : <<Name(g), Model("openai", NoId), ApiBase(SLAVES[s])>>)
    OBVIOUS
  <2>3. OfGroup(q, g)
    BY <2>2 DEF OfGroup
  <2> QED
    BY <2>1, <2>3, GroupEntries
<1>3. SlaveEntries(names) = FlattenSeq(ss)
  BY DEF SlaveEntries, Concat
<1> HIDE DEF item, k
<1>4. ss \in Seq(Seq(Mirror)) /\ Len(ss) = k
  <2>1. ss \in [1..k -> Seq(Mirror)]
    BY <1>2
  <2> HIDE DEF ss
  <2> QED
    BY <2>1, <1>1
<1>5. \A i \in 1..k : Entries(ss[i], R[i])
  BY <1>2
<1> HIDE DEF ss
<1>6. ASSUME NEW i \in 1..k, NEW j \in 1..k, NEW r, r \in R[i], r \in R[j] PROVE i = j
  <2>1. r[1] = names[i] /\ r[1] = names[j]
    BY <1>6
  <2> HIDE DEF R
  <2> QED
    BY <2>1, <1>1
<1>7. Joined(R, k) = ToSet(names) \X ToSet(SLAVES)
  <2>1. \A r : r \in Joined(R, k) <=> \E i \in 1..k : r \in {names[i]} \X ToSet(SLAVES)
    BY DEF Joined
  <2> HIDE DEF R
  <2>2. \A r : (\E i \in 1..k : r \in {names[i]} \X ToSet(SLAVES)) <=> r \in ToSet(names) \X ToSet(SLAVES)
    BY <1>1
  <2> QED
    BY <2>1, <2>2
<1> HIDE DEF R
<1>8. Shares(ss, R, k)
  BY <1>5, <1>6 DEF Shares
<1>9. Entries(FlattenSeq(ss), Joined(R, k))
  BY <1>1, <1>4, <1>8, EntriesFlatten
<1> QED
  BY <1>3, <1>4, <1>7, <1>9, FlattenTyped

\* Where the slaves go: behind the list, before the settings of the router.
LEMMA MirrorEndIs ==
  ASSUME NEW f \in Seq(Settled), NEW n \in Nat, n = Len(f), NEW s, NEW z, NEW e, ListIs(f, s, z, e)
  PROVE  /\ MirrorEnd(f) \in e..n
         /\ \A i \in 1..n : f[i].k = "router_settings" => MirrorEnd(f) <= i
<1> DEFINE I == {i \in (ListStart(f) + 1)..Len(f) : f[i].k \in TopLevel \ {"rule"}}
           x == OrElse(IF I # {} THEN Min(I) ELSE 0, Len(f) + 1)
<1>1. MirrorEnd(f) = x
  BY DEF MirrorEnd, SelectInSubSeq
<1>2. ListStart(f) = s
  BY Bounds
<1>3. /\ s \in 1..n /\ e \in 1..n /\ s < e
      /\ \A i \in 1..n : /\ f[i].k \in Top => i <= s \/ e <= i
                         /\ f[i].k = "router_settings" => e <= i
      /\ \E i \in 1..n : f[i].k = "router_settings"
  BY DEF ListIs
<1>4. \A i \in 1..n : f[i].k # "new_header"
  <2>1. \A i \in 1..n : f[i] \in Settled
    OBVIOUS
  <2> QED
    BY <2>1 DEF Settled
<1>5. I \in SUBSET (1..n) /\ \A i \in I : i \in e..n
  BY <1>2, <1>3, <1>4 DEF Top
<1>6. \A i \in 1..n : f[i].k = "router_settings" => i \in I
  BY <1>2, <1>3 DEF TopLevel
<1>7. I # {}
  BY <1>3, <1>6
<1> HIDE DEF I
<1>8. x \in I /\ \A i \in I : x <= i
  BY <1>5, <1>7, FirstOr
<1> QED
  BY <1>1, <1>5, <1>6, <1>8

\* names are those of the entries of the list, each once.
Groups(names, f) ==
  /\ names \in Seq(Names)
  /\ \A i, j \in 1..Len(names) : names[i] = names[j] => i = j
  /\ \A g : g \in ToSet(names) <=> \E i \in 1..Len(f) : f[i] = Name(g)

\* A line that names a group.
LEMMA NameLine ==
  ASSUME NEW l \in Line, l.k = "model_name"
  PROVE  l.name \in Names /\ l = Name(l.name)
<1>1. l \in [k : {"model_name", "policy"}, name : Names]
  BY DEF Line, TopLevel
<1>2. l.name \in Names /\ l = [k |-> "model_name", name |-> l.name]
  BY <1>1
<1> QED
  BY <1>2 DEF Name

\* A sequence of sequences of one name each.
LEMMA NamesFlattened ==
  ASSUME NEW c \in Nat, NEW name \in [1..c -> Names]
  PROVE  FlattenSeq([i \in 1..c |-> <<name[i]>>]) = name
<1> DEFINE ss == [i \in 1..c |-> <<name[i]>>]
<1>1. FlattenSeq(ss) = name
  BY FlattenSingles
<1> QED
  BY <1>1

\* Where the elements of a sequence are first.
AreFirst(F, q, k) == F = {i \in 1..k : \A j \in 1..(i - 1) : q[j] # q[i]}

\* The first occurrences of the elements of a sequence.
LEMMA Firsts ==
  ASSUME NEW E, NEW q \in Seq(E), NEW k \in Nat, k = Len(q), NEW F, AreFirst(F, q, k)
  PROVE  /\ Ascending(F, k) \in Seq(F)
         /\ \A i, j \in 1..Len(Ascending(F, k)) :
              q[Ascending(F, k)[i]] = q[Ascending(F, k)[j]] => i = j
         /\ \A i \in 1..k : \E j \in 1..Len(Ascending(F, k)) : q[Ascending(F, k)[j]] = q[i]
<1> DEFINE id == [i \in 1..k |-> i]
           at == Ascending(F, k)
<1>0. F = {i \in 1..k : \A j \in 1..(i - 1) : q[j] # q[i]}
  BY DEF AreFirst
<1>1. id \in Seq(1..k) /\ Len(id) = k /\ \A i \in 1..k : id[i] = i
  OBVIOUS
<1>2. at = Only(id, F)
  BY DEF Ascending
<1> HIDE DEF id, at
<1>3. /\ at \in Seq((1..k) \cap F)
      /\ \A x : (\E i \in 1..Len(at) : at[i] = x) <=> (x \in F /\ \E i \in 1..Len(id) : id[i] = x)
      /\ \A i, j \in 1..Len(at) : at[i] = at[j] => i = j
  <2> DEFINE D == 1..k
  <2>1. id \in Seq(D)
    BY <1>1
  <2> HIDE DEF D
  <2>2. /\ Only(id, F) \in Seq(D \cap F)
        /\ \A x : (\E i \in 1..Len(Only(id, F)) : Only(id, F)[i] = x)
             <=> (x \in F /\ \E i \in 1..Len(id) : id[i] = x)
    BY <2>1, OnlyKeeps
  <2>3. \A i, j \in 1..Len(id) : id[i] = id[j] => i = j
    BY <1>1
  <2>4. \A i, j \in 1..Len(Only(id, F)) : Only(id, F)[i] = Only(id, F)[j] => i = j
    BY <2>1, <2>3, OnlyKeeps
  <2> QED
    BY <2>2, <2>4, <1>2 DEF D
<1>4. at \in Seq(F) /\ \A x \in F : \E i \in 1..Len(at) : at[i] = x
  <2>1. (1..k) \cap F = F
    BY <1>0
  <2> QED
    BY <2>1, <1>1, <1>3
<1>5. ASSUME NEW i \in 1..Len(at), NEW j \in 1..Len(at), q[at[i]] = q[at[j]] PROVE i = j
  <2>1. at[i] \in F /\ at[j] \in F
    BY <1>4
  <2>2. at[i] \in 1..k /\ at[j] \in 1..k
    BY <2>1, <1>0
  <2>3. ~(at[i] < at[j])
    BY <2>1, <2>2, <1>5, <1>0
  <2>4. ~(at[j] < at[i])
    BY <2>1, <2>2, <1>5, <1>0
  <2>5. at[i] = at[j]
    BY <2>2, <2>3, <2>4
  <2> QED
    BY <2>5, <1>3
<1>6. ASSUME NEW i \in 1..k PROVE \E j \in 1..Len(at) : q[at[j]] = q[i]
  <2> DEFINE S == {x \in 1..k : q[x] = q[i]}
  <2>1. S \in SUBSET (1..k) /\ S # {}
    OBVIOUS
  <2> HIDE DEF S
  <2>2. Min(S) \in S /\ \A x \in S : Min(S) <= x
    BY <2>1, MinIsFirst
  <2> DEFINE y == Min(S)
  <2>3. y \in 1..k /\ q[y] = q[i] /\ \A x \in 1..k : q[x] = q[i] => y <= x
    BY <2>2 DEF S
  <2> HIDE DEF y
  <2>4. \A x \in 1..(y - 1) : q[x] # q[y]
    BY <2>3
  <2>5. y \in F
    BY <2>3, <2>4, <1>0
  <2> QED
    BY <2>3, <2>5, <1>4
<1> QED
  BY <1>4, <1>5, <1>6 DEF at

\* The model_names the generator finds are the groups of the list.
LEMMA FirstNamesAre ==
  ASSUME NEW f \in Seq(Settled), NEW s, NEW z, NEW e, ListIs(f, s, z, e)
  PROVE  Groups(FirstNames(f), f)
<1> DEFINE M == MirrorEnd(f)
           sub == SubSeq(f, ListStart(f) + 1, M - 1)
           W == {x \in ToSet(sub) : x.k = "model_name"}
           entries == Only(sub, W)
           F == {i \in DOMAIN entries : \A j \in 1..(i - 1) : entries[j] # entries[i]}
           at == Ascending(F, Len(entries))
           name == [i \in 1..Len(at) |-> entries[at[i]].name]
<1>1. PICK n \in Nat : n = Len(f)
  OBVIOUS
<1>2. M \in e..n /\ ListStart(f) = s
  BY <1>1, MirrorEndIs, Bounds
<1>3. /\ s \in 1..n /\ z \in 1..n /\ e \in 1..n /\ z < e /\ s < e
      /\ \A i \in 1..n : f[i].k = "model_name" => s < i /\ i < z
  BY <1>1 DEF ListIs
<1>4. FirstNames(f) = FlattenSeq([i \in 1..Len(at) |-> <<entries[at[i]].name>>])
  BY DEF FirstNames, Filter, Concat
<1> HIDE DEF M
<1>5. sub \in Seq(Settled) /\ Len(sub) \in Nat
      /\ \A x : (\E i \in 1..Len(sub) : sub[i] = x) <=> (\E i \in (s + 1)..(M - 1) : f[i] = x)
  <2> DEFINE p == s + 1
             t == M - 1
  <2>1. p \in Int /\ t \in Int /\ \A i \in p..t : f[i] \in Settled
    BY <1>1, <1>2, <1>3
  <2>2. sub = SubSeq(f, p, t)
    BY <1>2
  <2>3. p <= t + 1
    <3>1. M \in Int /\ s \in Int /\ s < M
      BY <1>1, <1>2, <1>3
    <3> QED
      BY <3>1
  <2> HIDE DEF p, t, sub
  <2>4. SubSeq(f, p, t) \in Seq(Settled) /\ Len(SubSeq(f, p, t)) = (IF p <= t THEN t - p + 1 ELSE 0)
        /\ \A i \in 1..(t - p + 1) : SubSeq(f, p, t)[i] = f[p + i - 1]
    BY <2>1, SubSeqProperties
  <2>5. sub \in Seq(Settled) /\ Len(sub) = t - p + 1 /\ \A i \in 1..(t - p + 1) : sub[i] = f[p + i - 1]
    BY <2>1, <2>2, <2>3, <2>4
  <2>6. ASSUME NEW i \in 1..(t - p + 1) PROVE p + i - 1 \in p..t
    BY <2>1
  <2>7. ASSUME NEW i \in p..t PROVE i - p + 1 \in 1..(t - p + 1) /\ p + (i - p + 1) - 1 = i
    BY <2>1
  <2>8. ASSUME NEW x, NEW i \in p..t, f[i] = x PROVE \E j \in 1..Len(sub) : sub[j] = x
    <3> DEFINE j == i - p + 1
    <3>1. j \in 1..(t - p + 1) /\ p + j - 1 = i
      BY <2>7
    <3> HIDE DEF j
    <3>2. sub[j] = f[i]
      BY <3>1, <2>5
    <3> QED
      BY <3>1, <3>2, <2>5, <2>8
  <2>9. Len(sub) \in Nat
    BY <2>5
  <2> QED
    BY <2>5, <2>6, <2>8, <2>9 DEF p, t
<1> HIDE DEF sub
<1>6. ToSet(sub) = {sub[i] : i \in 1..Len(sub)}
  BY <1>5 DEF ToSet
<1>7. entries \in Seq(Settled \cap W)
      /\ \A x : (\E i \in 1..Len(entries) : entries[i] = x)
           <=> (x \in W /\ \E i \in 1..Len(sub) : sub[i] = x)
  BY <1>5, OnlyKeeps
<1>8. \A x : x \in W <=> (x.k = "model_name" /\ \E i \in 1..n : f[i] = x)
  <2>1. \A x : x \in W <=> (x.k = "model_name" /\ \E i \in (s + 1)..(M - 1) : f[i] = x)
    BY <1>5, <1>6
  <2>2. \A i \in 1..n : f[i].k = "model_name" => i \in (s + 1)..(M - 1)
    BY <1>2, <1>3
  <2>3. \A i \in (s + 1)..(M - 1) : i \in 1..n
    BY <1>2, <1>3
  <2> HIDE DEF W
  <2> QED
    BY <2>1, <2>2, <2>3
<1> HIDE DEF W, entries
<1>9. PICK k \in Nat : k = Len(entries)
  BY <1>7
<1>10. ASSUME NEW i \in 1..k
       PROVE  entries[i] \in W /\ entries[i].name \in Names /\ entries[i] = Name(entries[i].name)
  <2>1. entries[i] \in Settled /\ entries[i] \in W
    BY <1>7, <1>9
  <2>2. entries[i] \in Line /\ entries[i].k = "model_name"
    BY <2>1, <1>8, Subsets
  <2> QED
    BY <2>1, <2>2, NameLine
<1>11. ASSUME NEW x \in W PROVE \E i \in 1..k : entries[i] = x
  <2>1. \E i \in 1..Len(sub) : sub[i] = x
    <3>1. x \in ToSet(sub)
      BY DEF W
    <3> QED
      BY <3>1, <1>6
  <2> QED
    BY <2>1, <1>7, <1>9
<1>12. AreFirst(F, entries, k) /\ at = Ascending(F, k)
         /\ F = {i \in 1..k : \A j \in 1..(i - 1) : entries[j] # entries[i]}
  <2>1. DOMAIN entries = 1..k /\ at = Ascending(F, k)
    BY <1>7, <1>9
  <2>2. F = {i \in 1..k : \A j \in 1..(i - 1) : entries[j] # entries[i]}
    BY <2>1
  <2> QED
    BY <2>1, <2>2 DEF AreFirst
<1> HIDE DEF F, at
<1>13. /\ at \in Seq(F)
       /\ \A i, j \in 1..Len(at) : entries[at[i]] = entries[at[j]] => i = j
       /\ \A i \in 1..k : \E j \in 1..Len(at) : entries[at[j]] = entries[i]
  <2> DEFINE E == Settled \cap W
             A == Ascending(F, k)
  <2>1. entries \in Seq(E)
    BY <1>7
  <2> HIDE DEF E
  <2>2. /\ A \in Seq(F)
        /\ \A i, j \in 1..Len(A) : entries[A[i]] = entries[A[j]] => i = j
        /\ \A i \in 1..k : \E j \in 1..Len(A) : entries[A[j]] = entries[i]
    <3>1. AreFirst(F, entries, k)
      BY <1>12
    <3> QED
      BY <2>1, <3>1, <1>9, Firsts
  <2>3. at = A
    BY <1>12
  <2> QED
    BY <2>2, <2>3
<1>14. PICK c \in Nat : c = Len(at)
  BY <1>13
<1>15. \A i \in 1..c : at[i] \in 1..k
  <2>1. \A i \in 1..c : at[i] \in F
    BY <1>13, <1>14
  <2> QED
    BY <2>1, <1>12
<1>16. name \in [1..c -> Names] /\ \A i \in 1..c : name[i] = entries[at[i]].name
  BY <1>10, <1>14, <1>15
<1>17. FirstNames(f) = name
  <2>1. [i \in 1..Len(at) |-> <<entries[at[i]].name>>] = [i \in 1..c |-> <<name[i]>>]
    BY <1>14, <1>16
  <2>0. name \in Seq(Names) /\ Len(name) = c
    BY <1>14, <1>16
  <2>3. name \in [1..c -> Names]
    BY <1>16
  <2> HIDE DEF name
  <2> DEFINE ss == [i \in 1..c |-> <<name[i]>>]
  <2>4. c \in Nat
    BY <1>14
  <2>2. FlattenSeq(ss) = name
    BY <2>3, <2>4, NamesFlattened
  <2> HIDE DEF ss
  <2> QED
    BY <2>1, <2>2, <1>4 DEF ss
<1> HIDE DEF name
<1>18. name \in Seq(Names) /\ Len(name) = c
  BY <1>16
<1>19. ASSUME NEW i \in 1..c, NEW j \in 1..c, name[i] = name[j] PROVE i = j
  <2>1. entries[at[i]] = Name(name[i]) /\ entries[at[j]] = Name(name[j])
    BY <1>10, <1>15, <1>16
  <2> QED
    BY <2>1, <1>13, <1>14, <1>19
<1>20. ASSUME NEW g PROVE g \in ToSet(name) <=> \E i \in 1..n : f[i] = Name(g)
  <2>1. g \in ToSet(name) <=> \E i \in 1..c : name[i] = g
    BY <1>18 DEF ToSet
  <2>2. ASSUME NEW i \in 1..c, name[i] = g PROVE \E j \in 1..n : f[j] = Name(g)
    <3>1. entries[at[i]] \in W /\ entries[at[i]] = Name(g)
      BY <2>2, <1>10, <1>15, <1>16
    <3> QED
      BY <3>1, <1>8
  <2>3. ASSUME NEW j \in 1..n, f[j] = Name(g) PROVE \E i \in 1..c : name[i] = g
    <3> DEFINE x == Name(g)
    <3>0. x.k = "model_name" /\ x.name = g
      BY DEF Name
    <3> HIDE DEF x
    <3>1. x \in W
      BY <2>3, <3>0, <1>8 DEF x
    <3>2. PICK i \in 1..k : entries[i] = x
      BY <3>1, <1>11
    <3>3. PICK y \in 1..c : entries[at[y]] = entries[i]
      BY <1>13, <1>14
    <3>4. name[y] = g
      BY <3>0, <3>2, <3>3, <1>16
    <3> QED
      BY <3>4
  <2> QED
    BY <2>1, <2>2, <2>3
<1>21. Groups(name, f)
  BY <1>1, <1>18, <1>19, <1>20 DEF Groups
<1> QED
  BY <1>17, <1>21

\* h is f with c lines new in front of line M, behind the list of f.
Spliced(h, f, s, z, e, n, M, new, c) ==
  /\ h \in Seq(Line) /\ Len(h) = n + c /\ n \in Nat /\ c \in Nat
  /\ s \in 1..n /\ z \in s..n /\ e \in (z + 1)..n /\ M \in e..n
  /\ \A j \in 1..(n + c) : \/ j < M /\ h[j] = f[j]
                           \/ M <= j /\ j < M + c /\ h[j] = new[j - M + 1]
                           \/ M + c <= j /\ h[j] = f[j - c]
  /\ \A j \in 1..n : f[j] \in Settled
  /\ \A j \in 1..c : new[j] \in Mirror

\* A splice behind the list is one.
LEMMA SplicedAre ==
  ASSUME NEW f \in Seq(Settled), NEW n \in Nat, n = Len(f), NEW s, NEW z, NEW e, ListIs(f, s, z, e),
         NEW M \in e..n, NEW new \in Seq(Mirror), NEW c \in Nat, c = Len(new)
  PROVE  Spliced(Splice(f, M, new), f, s, z, e, n, M, new, c)
<1> DEFINE h == Splice(f, M, new)
<1>1. f \in Seq(Line) /\ new \in Seq(Line)
  BY Subsets DEF Mirror
<1>2. s \in 1..n /\ z \in s..n /\ e \in (z + 1)..n
  BY DEF ListIs
<1>3. M \in 1..(Len(f) + 1) /\ M \in Int
  BY <1>2
<1>4. /\ h \in Seq(Line) /\ Len(h) = n + c
      /\ \A j \in 1..(n + c) :
           h[j] = IF j < M THEN f[j] ELSE IF j < M + c THEN new[j - M + 1] ELSE f[j - c]
  BY <1>1, <1>3, SpliceAt, ZenonT(30)
<1> HIDE DEF h
<1>5. \A j \in 1..(n + c) : \/ j < M /\ h[j] = f[j]
                            \/ M <= j /\ j < M + c /\ h[j] = new[j - M + 1]
                            \/ M + c <= j /\ h[j] = f[j - c]
  <2> TAKE j \in 1..(n + c)
  <2>1. h[j] = IF j < M THEN f[j] ELSE IF j < M + c THEN new[j - M + 1] ELSE f[j - c]
    BY <1>4
  <2>2. j \in Int /\ M \in Int /\ c \in Int
    BY <1>3
  <2>3. j < M \/ (M <= j /\ ~(j < M) /\ j < M + c) \/ (M + c <= j /\ ~(j < M) /\ ~(j < M + c))
    BY <2>2
  <2> QED
    BY <2>1, <2>3
<1>6. (\A j \in 1..n : f[j] \in Settled) /\ \A j \in 1..c : new[j] \in Mirror
  OBVIOUS
<1> QED
  BY <1>2, <1>4, <1>5, <1>6 DEF Spliced, h

\* Where its model_names are, and that its list reaches behind the own ones.
LEMMA SplicedNames ==
  ASSUME NEW h, NEW f, NEW s, NEW z, NEW e, NEW n, NEW M, NEW new, NEW c,
         Spliced(h, f, s, z, e, n, M, new, c), f \in Seq(Settled), Len(f) = n, ListIs(f, s, z, e),
         NEW j \in 1..(n + c), h[j].k = "model_name"
  PROVE  \/ s < j /\ j < z /\ h[j] = f[j]
         \/ j - M + 1 \in 1..c /\ h[j] = new[j - M + 1] /\ j < M + c /\ M <= j
<1>1. /\ n \in Nat /\ c \in Nat /\ s \in 1..n /\ z \in s..n /\ e \in (z + 1)..n /\ M \in e..n
      /\ \/ j < M /\ h[j] = f[j]
         \/ M <= j /\ j < M + c /\ h[j] = new[j - M + 1]
         \/ M + c <= j /\ h[j] = f[j - c]
  BY DEF Spliced
<1>2. \A i \in 1..n : f[i].k = "model_name" => s < i /\ i < z
  BY DEF ListIs
<1>3. CASE j < M /\ h[j] = f[j]
  BY <1>1, <1>2, <1>3
<1>4. CASE M <= j /\ j < M + c /\ h[j] = new[j - M + 1]
  BY <1>1, <1>4
<1>5. CASE M + c <= j /\ h[j] = f[j - c]
  <2> DEFINE i == j - c
  <2>1. i \in 1..n /\ M <= i /\ f[i].k = "model_name"
    BY <1>1, <1>5
  <2> HIDE DEF i
  <2> QED
    BY <2>1, <1>1, <1>2
<1> QED
  BY <1>1, <1>3, <1>4, <1>5

\* Its model_list begins where the one of f does, and does not end before.
LEMMA SplicedBounds ==
  ASSUME NEW h, NEW f, NEW s, NEW z, NEW e, NEW n, NEW M, NEW new, NEW c,
         Spliced(h, f, s, z, e, n, M, new, c), f \in Seq(Settled), Len(f) = n, ListIs(f, s, z, e)
  PROVE  ListStart(h) = s /\ ListEnd(h) \in e..(n + c + 1)
<1>1. /\ n \in Nat /\ c \in Nat /\ s \in 1..n /\ z \in s..n /\ e \in (z + 1)..n /\ M \in e..n
      /\ h \in Seq(Line) /\ Len(h) = n + c
  BY DEF Spliced
<1>2. \A i \in 1..n : /\ f[i].k = "model_list" <=> i = s
                      /\ f[i].k \in Top => i <= s \/ e <= i
                      /\ f[i].k # "new_header"
  <2>1. \A i \in 1..n : f[i] \in Settled
    BY DEF Spliced
  <2> QED
    BY <2>1 DEF ListIs, Settled
<1>3. \A i \in 1..c : new[i].k # "model_list" /\ new[i].k \notin TopLevel
  <2>1. \A i \in 1..c : new[i] \in Mirror
    BY DEF Spliced
  <2> QED
    BY <2>1 DEF Mirror, TopLevel
<1>4. ASSUME NEW j \in 1..(n + c)
      PROVE  /\ h[j].k = "model_list" <=> j = s
             /\ h[j].k \in TopLevel => j <= s \/ e <= j
  <2>1. \/ j < M /\ h[j] = f[j]
        \/ M <= j /\ j < M + c /\ h[j] = new[j - M + 1]
        \/ M + c <= j /\ h[j] = f[j - c]
    BY DEF Spliced
  <2>2. CASE j < M /\ h[j] = f[j]
    BY <1>1, <1>2, <2>2 DEF Top
  <2>3. CASE M <= j /\ j < M + c /\ h[j] = new[j - M + 1]
    <3> DEFINE i == j - M + 1
    <3>1. i \in 1..c /\ h[j] = new[i] /\ j # s
      BY <1>1, <2>3
    <3> HIDE DEF i
    <3> QED
      BY <3>1, <1>3
  <2>4. CASE M + c <= j /\ h[j] = f[j - c]
    <3> DEFINE i == j - c
    <3>1. i \in 1..n /\ h[j] = f[i] /\ j # s /\ i # s /\ e <= j
      BY <1>1, <2>4
    <3> HIDE DEF i
    <3> QED
      BY <3>1, <1>2
  <2> QED
    BY <2>1, <2>2, <2>3, <2>4
<1>5. ListStart(h) = s
  <2>1. s \in 1..(n + c)
    BY <1>1
  <2>2. h[s].k = "model_list"
    BY <2>1, <1>4
  <2>3. ListStart(h) \in 0..(n + c) /\ (ListStart(h) # 0 => h[ListStart(h)].k = "model_list") /\ ListStart(h) # 0
    BY <1>1, <2>1, <2>2, ListStartIs
  <2> QED
    BY <2>3, <1>4
<1> DEFINE I == {i \in (s + 1)..(n + c) : h[i].k \in TopLevel}
           first == OrElse(IF I # {} THEN Min(I) ELSE 0, n + c + 1)
<1>6. ListEnd(h) = first
  BY <1>1, <1>5 DEF ListEnd, SelectInSubSeq
<1> DEFINE N == n + c
<1>7. N \in Nat /\ I \in SUBSET (1..N) /\ (\A i \in I : i \in e..N) /\ e \in 1..N
  <2>1. N \in Nat /\ e \in 1..N
    BY <1>1
  <2>2. ASSUME NEW i \in I PROVE i \in e..N
    <3>1. i \in 1..N /\ s < i /\ h[i].k \in TopLevel
      BY <1>1
    <3>2. i <= s \/ e <= i
      BY <3>1, <1>4
    <3> QED
      BY <3>1, <3>2, <1>1
  <2>3. \A i \in I : i \in 1..N
    BY <2>1, <2>2
  <2> QED
    BY <2>1, <2>2, <2>3
<1> HIDE DEF I
<1>8. (I = {} => first = n + c + 1) /\ (I # {} => first \in I)
  BY <1>7, FirstOr
<1> HIDE DEF first
<1>9. first \in e..(n + c + 1)
  <2>1. first = N + 1 \/ first \in e..N
    BY <1>7, <1>8
  <2>2. e \in Int /\ e <= N
    BY <1>7
  <2> HIDE DEF N
  <2>3. first \in e..(N + 1)
    BY <1>7, <2>1, <2>2
  <2> QED
    BY <2>3 DEF N
<1> QED
  BY <1>5, <1>6, <1>9

\* The first router_settings, behind every entry.
LEMMA SplicedRouter ==
  ASSUME NEW h, NEW f, NEW s, NEW z, NEW e, NEW n, NEW M, NEW new, NEW c,
         Spliced(h, f, s, z, e, n, M, new, c), f \in Seq(Settled), Len(f) = n, ListIs(f, s, z, e),
         \A i \in 1..n : f[i].k = "router_settings" => M <= i
  PROVE  SelectInSeq(h, LAMBDA l : l.k = "router_settings") \in (M + c)..(n + c)
<1> DEFINE I == {i \in 1..Len(h) : h[i].k = "router_settings"}
           R == IF I # {} THEN Min(I) ELSE 0
<1>1. /\ n \in Nat /\ c \in Nat /\ s \in 1..n /\ z \in s..n /\ e \in (z + 1)..n /\ M \in e..n
      /\ h \in Seq(Line) /\ Len(h) = n + c
  BY DEF Spliced
<1>2. \A i \in 1..c : new[i].k # "router_settings"
  <2>1. \A i \in 1..c : new[i] \in Mirror
    BY DEF Spliced
  <2> QED
    BY <2>1 DEF Mirror
<1>3. \A j \in 1..(n + c) : \/ j < M /\ h[j] = f[j]
                            \/ M <= j /\ j < M + c /\ h[j] = new[j - M + 1]
                            \/ M + c <= j /\ h[j] = f[j - c]
  BY DEF Spliced
<1>4. ASSUME NEW j \in 1..(n + c), h[j].k = "router_settings" PROVE M + c <= j
  <2>1. CASE j < M /\ h[j] = f[j]
    <3>1. j \in 1..n
      BY <2>1, <1>1
    <3> QED
      BY <3>1, <2>1, <1>1, <1>4
  <2>2. CASE M <= j /\ j < M + c /\ h[j] = new[j - M + 1]
    <3> DEFINE i == j - M + 1
    <3>1. i \in 1..c /\ h[j] = new[i]
      BY <1>1, <2>2
    <3> HIDE DEF i
    <3> QED
      BY <3>1, <1>2, <1>4
  <2> QED
    BY <2>1, <2>2, <1>3
<1>5. \E j \in 1..(n + c) : h[j].k = "router_settings"
  <2>1. PICK i \in 1..n : f[i].k = "router_settings"
    BY DEF ListIs
  <2>2. M <= i
    BY <2>1
  <2> DEFINE j == i + c
  <2>3. j \in 1..(n + c) /\ M + c <= j /\ j - c = i /\ ~(j < M) /\ ~(j < M + c)
    BY <2>2, <1>1
  <2> HIDE DEF j
  <2>4. h[j] = f[i]
    BY <2>3, <1>3
  <2> QED
    BY <2>1, <2>3, <2>4
<1>6. I # {} /\ I \in SUBSET (1..(n + c)) /\ \A j \in I : j \in (M + c)..(n + c)
  <2>1. I # {} /\ I \in SUBSET (1..(n + c))
    BY <1>1, <1>5
  <2>2. ASSUME NEW j \in I PROVE j \in (M + c)..(n + c)
    <3>1. j \in 1..(n + c) /\ h[j].k = "router_settings"
      BY <1>1
    <3> QED
      BY <3>1, <1>1, <1>4
  <2> QED
    BY <2>1, <2>2
<1>7. SelectInSeq(h, LAMBDA l : l.k = "router_settings") = R
  BY DEF SelectInSeq
<1> HIDE DEF I
<1>8. Min(I) \in I
  <2> DEFINE N == n + c
  <2>1. N \in Nat /\ I \in SUBSET (1..N)
    BY <1>1, <1>6
  <2> HIDE DEF N
  <2> QED
    BY <2>1, <1>6, MinIsFirst
<1> QED
  BY <1>6, <1>7, <1>8

\* The entries of the groups names of f are what is in front of line M.
Mirrors(h, f, s, z, e, n, M, names, new, c) ==
  /\ Spliced(h, f, s, z, e, n, M, new, c)
  /\ f \in Seq(Settled) /\ Len(f) = n /\ ListIs(f, s, z, e)
  /\ Groups(names, f) /\ Len(new) = c /\ Entries(new, ToSet(names) \X ToSet(SLAVES))

\* A model_name of it is one of the groups.
LEMMA MirroredName ==
  ASSUME NEW h, NEW f, NEW s, NEW z, NEW e, NEW n, NEW M, NEW names, NEW new, NEW c,
         Mirrors(h, f, s, z, e, n, M, names, new, c), NEW j \in 1..(n + c), h[j].k = "model_name"
  PROVE  h[j].name \in ToSet(names)
<1>1. /\ Spliced(h, f, s, z, e, n, M, new, c) /\ f \in Seq(Settled) /\ Len(f) = n /\ ListIs(f, s, z, e)
      /\ Groups(names, f) /\ Len(new) = c /\ Entries(new, ToSet(names) \X ToSet(SLAVES))
  BY DEF Mirrors
<1>2. \/ s < j /\ j < z /\ h[j] = f[j]
      \/ j - M + 1 \in 1..c /\ h[j] = new[j - M + 1]
  BY <1>1, SplicedNames
<1>3. CASE s < j /\ j < z /\ h[j] = f[j]
  <2>1. j \in 1..n
    BY <1>1, <1>3 DEF Spliced
  <2>2. f[j] \in Line
    BY <1>1, <2>1, Subsets
  <2>3. f[j] = Name(f[j].name)
    BY <2>2, <1>3, NameLine
  <2> QED
    BY <2>1, <2>3, <1>1, <1>3 DEF Groups
<1>4. CASE j - M + 1 \in 1..c /\ h[j] = new[j - M + 1]
  <2> DEFINE i == j - M + 1
  <2>1. i \in 1..Len(new) /\ new[i].k = "model_name" /\ h[j] = new[i]
    BY <1>1, <1>4
  <2> HIDE DEF i
  <2>2. PICK r \in ToSet(names) \X ToSet(SLAVES) : Trio(new, i, r[1], r[2])
    BY <2>1, <1>1 DEF Entries
  <2>3. new[i].name = r[1]
    BY <2>2 DEF Trio, Name
  <2> QED
    BY <2>1, <2>2, <2>3
<1> QED
  BY <1>2, <1>3, <1>4

\* Every group is an own one.
LEMMA MirroredOwn ==
  ASSUME NEW h, NEW f, NEW s, NEW z, NEW e, NEW n, NEW M, NEW names, NEW new, NEW c,
         Mirrors(h, f, s, z, e, n, M, names, new, c), NEW g \in ToSet(names)
  PROVE  \E i \in (s + 1)..(z - 1) : h[i] = Name(g)
<1>1. /\ Spliced(h, f, s, z, e, n, M, new, c) /\ Len(f) = n /\ ListIs(f, s, z, e) /\ Groups(names, f)
  BY DEF Mirrors
<1>2. /\ n \in Nat /\ c \in Nat /\ s \in 1..n /\ z \in s..n /\ e \in (z + 1)..n /\ M \in e..n
  BY <1>1 DEF Spliced
<1>3. PICK i \in 1..n : f[i] = Name(g)
  BY <1>1 DEF Groups
<1>4. s < i /\ i < z
  <2>1. f[i].k = "model_name"
    BY <1>3 DEF Name
  <2> QED
    BY <2>1, <1>1 DEF ListIs
<1>5. i \in 1..(n + c) /\ i < M
  BY <1>2, <1>4
<1>6. h[i] = f[i]
  <2>1. \/ i < M /\ h[i] = f[i]
        \/ M <= i /\ i < M + c /\ h[i] = new[i - M + 1]
        \/ M + c <= i /\ h[i] = f[i - c]
    BY <1>1, <1>5 DEF Spliced
  <2> QED
    BY <2>1, <1>2, <1>5
<1>7. i \in (s + 1)..(z - 1)
  BY <1>2, <1>4
<1> QED
  BY <1>3, <1>6, <1>7

\* What render's scanner finds in it are the groups.
LEMMA MirroredNames ==
  ASSUME NEW h, NEW f, NEW s, NEW z, NEW e, NEW n, NEW M, NEW names, NEW new, NEW c,
         Mirrors(h, f, s, z, e, n, M, names, new, c)
  PROVE  NamesOf(ParseBlocks(h)) = ToSet(names)
<1>1. /\ Spliced(h, f, s, z, e, n, M, new, c) /\ f \in Seq(Settled) /\ Len(f) = n /\ ListIs(f, s, z, e)
  BY DEF Mirrors
<1>2. /\ n \in Nat /\ c \in Nat /\ s \in 1..n /\ z \in s..n /\ e \in (z + 1)..n /\ M \in e..n
      /\ h \in Seq(Line) /\ Len(h) = n + c
  BY <1>1 DEF Spliced
<1>3. ListStart(h) = s /\ ListEnd(h) \in e..(n + c + 1)
  BY <1>1, SplicedBounds
<1>4. PICK k \in Nat : \E at : Scans(ParseBlocks(h), h, k, at)
  <2>1. PICK k \in Nat : \E at :
           /\ Scans(ParseBlocks(h), h, k, at)
           /\ \A i \in 1..k : \A j \in (at[i] + 1)..(ListEnd(h) - 1) :
                h[j].k = "blank" => ParseBlocks(h)[i].end \in 0..(j - 1)
    BY <1>2, ParseBlocksScans
  <2> QED
    BY <2>1
<1>5. PICK at : Scans(ParseBlocks(h), h, k, at)
  BY <1>4
<1> DEFINE b == ParseBlocks(h)
<1>6. /\ DOMAIN b = 1..k /\ (\A i \in 1..k : at[i] \in Starts(h) /\ b[i].name = h[at[i]].name)
      /\ \A j \in Starts(h) : \E i \in 1..k : at[i] = j
  BY <1>5 DEF Scans
<1>7. ASSUME NEW j \in Starts(h) PROVE j \in 1..(n + c) /\ h[j].k = "model_name"
  BY <1>2, <1>3 DEF Starts
<1>8. ASSUME NEW j \in (s + 1)..(z - 1), h[j].k = "model_name" PROVE j \in Starts(h)
  <2>1. j \in (ListStart(h) + 1)..(ListEnd(h) - 1)
    BY <1>2, <1>3
  <2> QED
    BY <2>1, <1>8 DEF Starts
<1> HIDE DEF b
<1>9. ASSUME NEW i \in 1..k PROVE b[i].name \in ToSet(names)
  <2>1. at[i] \in 1..(n + c) /\ h[at[i]].k = "model_name"
    BY <1>6, <1>7
  <2>2. h[at[i]].name \in ToSet(names)
    BY <2>1, MirroredName
  <2> QED
    BY <2>2, <1>6
<1>10. ASSUME NEW g \in ToSet(names) PROVE \E i \in 1..k : b[i].name = g
  <2>1. PICK j \in (s + 1)..(z - 1) : h[j] = Name(g)
    BY MirroredOwn
  <2>2. h[j].k = "model_name" /\ h[j].name = g
    BY <2>1 DEF Name
  <2>3. PICK i \in 1..k : at[i] = j
    BY <2>2, <1>6, <1>8
  <2> QED
    BY <2>2, <2>3, <1>6
<1>11. NamesOf(b) = {b[i].name : i \in 1..k}
  BY <1>6 DEF NamesOf
<1> QED
  BY <1>9, <1>10, <1>11 DEF b

\* Where the entries of group g at slave b begin.
EntriesAt(list, g, b) ==
  {i \in DOMAIN list : list[i] = Name(g) /\ list[i + 1].k = "model" /\ list[i + 2] = ApiBase(b)}

\* list is the lines of h up to one behind its entries.
Heading(list, h, n, M, c) == \E R \in (M + c)..(n + c) : list = SubSeq(h, 1, R)

\* In list every group has one entry of every slave.
Once(list, names) == \A g \in ToSet(names), b \in ToSet(SLAVES) : \E x : EntriesAt(list, g, b) = {x}

\* Exactly one entry of group g at slave b is among the lines up to the settings.
LEMMA MirroredOnce ==
  ASSUME NEW h, NEW f, NEW s, NEW z, NEW e, NEW n, NEW M, NEW names, NEW new, NEW c,
         Mirrors(h, f, s, z, e, n, M, names, new, c), NEW list, Heading(list, h, n, M, c)
  PROVE  Once(list, names)
<1> SUFFICES ASSUME NEW g \in ToSet(names), NEW b \in ToSet(SLAVES)
             PROVE \E x : EntriesAt(list, g, b) = {x}
  BY DEF Once
<1>1. /\ Spliced(h, f, s, z, e, n, M, new, c) /\ f \in Seq(Settled) /\ Len(f) = n /\ ListIs(f, s, z, e)
      /\ Len(new) = c /\ Entries(new, ToSet(names) \X ToSet(SLAVES))
  BY DEF Mirrors
<1>2. /\ n \in Nat /\ c \in Nat /\ s \in 1..n /\ z \in s..n /\ e \in (z + 1)..n /\ M \in e..n
      /\ h \in Seq(Line) /\ Len(h) = n + c
      /\ \A j \in 1..(n + c) : \/ j < M /\ h[j] = f[j]
                               \/ M <= j /\ j < M + c /\ h[j] = new[j - M + 1]
                               \/ M + c <= j /\ h[j] = f[j - c]
      /\ \A j \in 1..n : f[j] \in Settled
  BY <1>1 DEF Spliced
<1>0. PICK R \in (M + c)..(n + c) : list = SubSeq(h, 1, R)
  BY DEF Heading
<1>3. R \in Nat /\ M + c <= R /\ R <= n + c
  BY <1>2
<1>4. DOMAIN list = 1..R /\ \A i \in 1..R : list[i] = h[i]
  BY <1>0, <1>2, <1>3
<1> DEFINE r == <<g, b>>
<1>5. r \in ToSet(names) \X ToSet(SLAVES) /\ r[1] = g /\ r[2] = b
  OBVIOUS
<1> HIDE DEF r
<1>6. ASSUME NEW j \in 1..c, NEW y, j + M - 1 = y PROVE y \in 1..R /\ list[y] = new[j]
  <2>1. y \in 1..(n + c) /\ y \in 1..R /\ M <= y /\ y < M + c /\ y - M + 1 = j
    BY <1>2, <1>3, <1>6
  <2>2. h[y] = new[j]
    BY <2>1, <1>2
  <2> QED
    BY <2>1, <2>2, <1>4
<1>7. PICK p \in 1..c : Trio(new, p, g, b)
  BY <1>1, <1>5 DEF Entries
<1>8. p + 1 \in 1..c /\ p + 2 \in 1..c /\ new[p] = Name(g) /\ new[p + 1].k = "model" /\ new[p + 2] = ApiBase(b)
  BY <1>1, <1>2, <1>7 DEF Trio
<1> DEFINE x == p + M - 1
<1>9. x \in DOMAIN list /\ list[x] = Name(g) /\ list[x + 1].k = "model" /\ list[x + 2] = ApiBase(b)
  <2>1. p + M - 1 = x /\ (p + 1) + M - 1 = x + 1 /\ (p + 2) + M - 1 = x + 2
    BY <1>2
  <2> DEFINE p1 == p + 1
             p2 == p + 2
             x1 == x + 1
             x2 == x + 2
  <2>2. p1 \in 1..c /\ p2 \in 1..c /\ p1 + M - 1 = x1 /\ p2 + M - 1 = x2
    BY <2>1, <1>8
  <2> HIDE DEF x, p1, p2, x1, x2
  <2>3. list[x] = new[p] /\ x \in 1..R
    BY <2>1, <1>6
  <2>4. list[x1] = new[p1] /\ list[x2] = new[p2]
    BY <2>2, <1>6
  <2> QED
    BY <2>3, <2>4, <1>4, <1>8 DEF p1, p2, x1, x2
<1>10. ASSUME NEW y \in DOMAIN list, list[y] = Name(g), list[y + 1].k = "model", list[y + 2] = ApiBase(b)
       PROVE  y = x
  <2>1. y \in 1..R /\ y \in 1..(n + c) /\ h[y] = Name(g) /\ h[y].k = "model_name"
    BY <1>2, <1>3, <1>4, <1>10 DEF Name
  <2>2. \/ s < y /\ y < z /\ h[y] = f[y]
        \/ y - M + 1 \in 1..c /\ h[y] = new[y - M + 1]
    BY <1>1, <2>1, SplicedNames
  <2>3. ~(s < y /\ y < z)
    <3> SUFFICES ASSUME s < y, y < z PROVE FALSE
      OBVIOUS
    <3> DEFINE y1 == y + 1
               y2 == y + 2
    <3>1. f[z].k = "blank"
      BY <1>1, <1>2, <2>1 DEF ListIs
    <3>2. z < M /\ z \in 1..R /\ z \in 1..(n + c) /\ z \in 1..n
      BY <1>2, <1>3
    <3>3. list[z] = f[z]
      BY <3>2, <1>2, <1>4
    <3>4. y1 # z
      BY <3>1, <3>3, <1>10
    <3>5. y2 <= z /\ y2 \in 1..R /\ y2 \in 1..(n + c) /\ y2 \in 1..n /\ y2 < M
      <4>1. y \in Int /\ z \in Int /\ M \in Int /\ R \in Int /\ n \in Int /\ c \in Int
        BY <1>2, <1>3, <2>1
      <4>2. 1 <= y /\ z <= R /\ z <= n + c /\ z <= n /\ z < M
        BY <3>2, <2>1, <4>1
      <4>3. y + 2 <= z
        BY <3>4, <4>1
      <4>4. y2 \in Int /\ 1 <= y2 /\ y2 <= z
        BY <4>1, <4>2, <4>3
      <4> QED
        BY <4>1, <4>2, <4>4
    <3>6. list[y2] = ApiBase(b)
      BY <1>10
    <3> HIDE DEF y2
    <3>7. list[y2] = f[y2]
      BY <3>5, <1>2, <1>4
    <3>8. f[y2] \in Settled
      BY <3>5, <1>2
    <3>9. f[y2].k = "api_base" /\ f[y2].base = b
      <4>1. f[y2] = ApiBase(b)
        BY <3>6, <3>7
      <4>2. ApiBase(b).k = "api_base" /\ ApiBase(b).base = b
        BY DEF ApiBase
      <4> QED
        BY <4>1, <4>2
    <3> QED
      BY <3>8, <3>9 DEF Settled
  <2> DEFINE j == y - M + 1
  <2>4. j \in 1..c /\ h[y] = new[j] /\ j + M - 1 = y
    BY <2>1, <2>2, <2>3, <1>2
  <2> HIDE DEF j
  <2>5. new[j].k = "model_name" /\ new[j] = Name(g)
    BY <2>1, <2>4
  <2>6. PICK q \in ToSet(names) \X ToSet(SLAVES) : Trio(new, j, q[1], q[2])
    BY <2>4, <2>5, <1>1 DEF Entries
  <2>7. new[j] = Name(q[1]) /\ new[j + 2] = ApiBase(q[2]) /\ j + 2 \in 1..c
    BY <2>4, <2>6, <1>1, <1>2 DEF Trio
  <2>8. list[y + 2] = new[j + 2]
    <3> DEFINE j2 == j + 2
               y2 == y + 2
    <3>1. j2 \in 1..c /\ j2 + M - 1 = y2
      BY <2>4, <2>7, <2>1, <1>2
    <3> HIDE DEF j2, y2
    <3>2. list[y2] = new[j2]
      BY <3>1, <1>6
    <3> QED
      BY <3>2 DEF j2, y2
  <2>9. q[1] = g /\ q[2] = b
    <3>1. Name(q[1]) = Name(g)
      BY <2>5, <2>7
    <3>2. ApiBase(q[2]) = ApiBase(b)
      BY <2>7, <2>8, <1>10
    <3>3. q[1] = g
      BY <3>1 DEF Name
    <3>4. q[2] = b
      BY <3>2 DEF ApiBase
    <3> QED
      BY <3>3, <3>4
  <2>10. Trio(new, j, g, b)
    BY <2>6, <2>9
  <2>11. j = p
    BY <2>4, <2>10, <1>1, <1>5, <1>7 DEF Entries
  <2> QED
    BY <2>4, <2>11, <1>2
<1> HIDE DEF x
<1>11. EntriesAt(list, g, b) = {x}
  BY <1>9, <1>10 DEF EntriesAt
<1> QED
  BY <1>11

\* It is so of the master's configuration that is made of a rendered one.
LEMMA MasterMirrored ==
  ASSUME NEW conf, Sound(conf, Settled)
  PROVE  Mirrored(Master(conf))
<1> DEFINE f == StripRetryPolicy(conf)
           M == MirrorEnd(f)
           names == FirstNames(f)
           new == SlaveEntries(names)
           h == Splice(f, M, new)
           list == SubSeq(h, 1, SelectInSeq(h, LAMBDA l : l.k = "router_settings"))
           own == {list[i].name : i \in {j \in DOMAIN list : list[j].k = "model_name"}}
<1>1. f \in Seq(Settled) /\ (\E s, z, e : ListIs(f, s, z, e))
      /\ \A i \in 1..Len(f) : f[i].k \notin {"policies", "policy"}
  BY StripPolicies
<1>2. PICK s, z, e : ListIs(f, s, z, e)
  BY <1>1
<1>3. Master(conf) = h
  BY DEF Master
<1> HIDE DEF f
<1>4. PICK n \in Nat : n = Len(f)
  BY <1>1
<1>5. M \in e..n /\ \A i \in 1..n : f[i].k = "router_settings" => M <= i
  BY <1>1, <1>2, <1>4, MirrorEndIs
<1>6. Groups(names, f)
  BY <1>1, <1>2, FirstNamesAre
<1> HIDE DEF M, names
<1>7. new \in Seq(Mirror) /\ Entries(new, ToSet(names) \X ToSet(SLAVES))
  BY <1>6, SlaveEntriesAre DEF Groups
<1> HIDE DEF new
<1>8. PICK c \in Nat : c = Len(new)
  BY <1>7
<1>9. Spliced(h, f, s, z, e, n, M, new, c)
  BY <1>1, <1>2, <1>4, <1>5, <1>7, <1>8, SplicedAre
<1> HIDE DEF h
<1>10. Mirrors(h, f, s, z, e, n, M, names, new, c)
  BY <1>1, <1>2, <1>4, <1>6, <1>7, <1>8, <1>9 DEF Mirrors
<1> DEFINE R == SelectInSeq(h, LAMBDA l : l.k = "router_settings")
<1>11. R \in (M + c)..(n + c)
  BY <1>1, <1>2, <1>4, <1>5, <1>9, SplicedRouter
<1>12. list = SubSeq(h, 1, R)
  OBVIOUS
<1>13. /\ n \in Nat /\ c \in Nat /\ s \in 1..n /\ z \in s..n /\ e \in (z + 1)..n /\ M \in e..n
       /\ h \in Seq(Line) /\ Len(h) = n + c
  BY <1>9 DEF Spliced
<1> HIDE DEF R, list
<1>14. R \in Nat /\ M + c <= R /\ R <= n + c
  BY <1>11, <1>13
<1>15. DOMAIN list = 1..R /\ \A i \in 1..R : list[i] = h[i]
  BY <1>12, <1>13, <1>14
<1>16. own = ToSet(names)
  <2>1. ASSUME NEW j \in 1..R, list[j].k = "model_name" PROVE list[j].name \in ToSet(names)
    <3>1. j \in 1..(n + c) /\ h[j].k = "model_name" /\ list[j] = h[j]
      BY <2>1, <1>13, <1>14, <1>15
    <3> QED
      BY <3>1, <1>10, MirroredName
  <2>2. ASSUME NEW g \in ToSet(names)
        PROVE \E j \in 1..R : list[j].k = "model_name" /\ list[j].name = g
    <3>1. PICK j \in (s + 1)..(z - 1) : h[j] = Name(g)
      BY <1>10, MirroredOwn
    <3>2. j \in 1..R
      BY <1>13, <1>14
    <3>3. list[j].k = "model_name" /\ list[j].name = g
      BY <3>1, <3>2, <1>15 DEF Name
    <3> QED
      BY <3>2, <3>3
  <2> QED
    BY <2>1, <2>2, <1>15
<1> HIDE DEF own
<1>17. own = NamesOf(ParseBlocks(h))
  BY <1>10, <1>16, MirroredNames
<1>18. ASSUME NEW g \in own, NEW b \in ToSet(SLAVES)
       PROVE  Cardinality({i \in DOMAIN list : list[i] = Name(g) /\ list[i + 1].k = "model"
                                               /\ list[i + 2] = ApiBase(b)}) = 1
  <2> DEFINE On == {i \in DOMAIN list : list[i] = Name(g) /\ list[i + 1].k = "model"
                                        /\ list[i + 2] = ApiBase(b)}
  <2>1. g \in ToSet(names)
    BY <1>16
  <2>2. PICK x : EntriesAt(list, g, b) = {x}
    <3>1. Heading(list, h, n, M, c)
      BY <1>11, <1>12 DEF Heading
    <3>2. Once(list, names)
      BY <3>1, <1>10, MirroredOnce
    <3> QED
      BY <3>2, <2>1 DEF Once
  <2>4. On = EntriesAt(list, g, b)
    BY DEF EntriesAt
  <2> HIDE DEF On
  <2>3. Cardinality(On) = 1
    BY <2>2, <2>4, FS_Singleton
  <2> QED
    BY <2>3 DEF On
<1>19. ASSUME NEW i \in DOMAIN h PROVE h[i].k \notin {"policies", "policy"}
  <2>1. i \in 1..(n + c)
    BY <1>13
  <2>2. \/ i < M /\ h[i] = f[i]
        \/ M <= i /\ i < M + c /\ h[i] = new[i - M + 1]
        \/ M + c <= i /\ h[i] = f[i - c]
    BY <2>1, <1>9 DEF Spliced
  <2>3. CASE i < M /\ h[i] = f[i]
    <3>1. i \in 1..n
      BY <2>1, <2>3, <1>13
    <3> QED
      BY <3>1, <2>3, <1>1, <1>4
  <2>4. CASE M <= i /\ i < M + c /\ h[i] = new[i - M + 1]
    <3> DEFINE j == i - M + 1
    <3>1. j \in 1..c /\ h[i] = new[j]
      BY <2>1, <2>4, <1>13
    <3> HIDE DEF j
    <3>2. new[j] \in Mirror
      BY <3>1, <1>7, <1>8
    <3> QED
      BY <3>1, <3>2 DEF Mirror
  <2>5. CASE M + c <= i /\ h[i] = f[i - c]
    <3> DEFINE j == i - c
    <3>1. j \in 1..n /\ h[i] = f[j]
      BY <2>1, <2>5, <1>13
    <3> HIDE DEF j
    <3> QED
      BY <3>1, <1>1, <1>4
  <2> QED
    BY <2>2, <2>3, <2>4, <2>5
<1>20. Mirrored(h)
  BY <1>17, <1>18, <1>19 DEF Mirrored, list, own, R
<1> QED
  BY <1>3, <1>20

-----------------------------------------------------------------------------
(* The invariant. *)

\* The first state has no sync, no render and no backup.
LEMMA Initial == Init => IInv
<1> SUFFICES ASSUME Init PROVE IInv
  OBVIOUS
<1>1. SyncInv
  BY DEF Init, NoSync, SyncInv, Moved
<1>2. RenderInv
  <2>1. render = NoRender
    BY DEF Init
  <2>2. DOMAIN render = {"pc", "by"} /\ render.pc # "replace"
    BY <2>1 DEF NoRender
  <2>3. saved \in Seq({})
    BY DEF Init
  <2> QED
    BY <2>2, <2>3 DEF RenderInv
<1> QED
  BY <1>1, <1>2 DEF IInv

\* Each step hands the sync's copy of the template on to the next.
LEMMA SyncStep == SyncInv /\ [Next]_vars => SyncInv'
<1> SUFFICES ASSUME SyncInv, [Next]_vars PROVE SyncInv'
  OBVIOUS
<1> USE DEF SyncInv, Moved
<1>1. CASE Query
  BY <1>1 DEF Query
<1>2. CASE MakePlan
  <2>1. CASE sync' = NoSync
    BY <2>1 DEF NoSync
  <2>2. CASE sync'.pc = "apply" /\ sync'.old = Target /\ sync'.onTemplate = (template # NoFile)
    BY <1>2, <2>2 DEF MakePlan, Target
  <2> QED
    BY <1>2, <2>1, <2>2 DEF MakePlan
<1>3. CASE MoveAway
  BY <1>3 DEF MoveAway
<1>4. CASE Write
  BY <1>4 DEF Write
<1>5. CASE Rendered
  BY <1>5 DEF Rendered, NoSync
<1>6. CASE Generate
  BY <1>6 DEF Generate, NoSync
<1>7. CASE Crash
  BY <1>7 DEF Crash, NoSync
<1>8. CASE EditEnv \/ RenderByHand \/ BackUpConfig \/ ReplaceConfig \/ UNCHANGED vars
  BY <1>8 DEF EditEnv, RenderByHand, BackUpConfig, ReplaceConfig, vars
<1>9. CASE RenderBySync
  BY <1>9 DEF RenderBySync
<1>10. CASE Prune
  BY <1>10 DEF Prune
<1> QED
  BY <1>1, <1>2, <1>3, <1>4, <1>5, <1>6, <1>7, <1>8, <1>9, <1>10 DEF Next

\* Whatever a sync does, the rendered configuration stays safe.
LEMMA RenderStep == IInv /\ [Next]_vars => RenderInv'
<1> SUFFICES ASSUME SyncInv, RenderInv, [Next]_vars PROVE RenderInv'
  BY DEF IInv
<1>0. PICK S : saved \in Seq(S)
  BY DEF RenderInv
<1>1. CASE Query \/ MakePlan \/ Rendered \/ Generate
  <2>1. UNCHANGED <<render, saved, config, template>>
    BY <1>1 DEF Query, MakePlan, Rendered, Generate
  <2>2. sync.pc # "write"
    BY <1>1 DEF Query, MakePlan, Rendered, Generate
  <2>3. sync'.pc # "write"
    <3>1. CASE Query
      BY <3>1 DEF Query
    <3>2. CASE MakePlan
      BY <3>2 DEF MakePlan, NoSync
    <3>3. CASE Rendered
      BY <3>3 DEF Rendered, NoSync
    <3>4. CASE Generate
      BY <3>4 DEF Generate, NoSync
    <3> QED
      BY <1>1, <3>1, <3>2, <3>3, <3>4
  <2> QED
    BY <2>1, <2>2, <2>3 DEF RenderInv, Moved
<1>2. CASE MoveAway
  <2>1. CASE sync.onTemplate
    <3>1. UNCHANGED <<render, saved, config>> /\ template # NoFile
      BY <1>2, <2>1 DEF MoveAway, SyncInv
    <3> QED
      BY <3>1 DEF RenderInv
  <2>2. CASE ~sync.onTemplate
    <3>1. UNCHANGED render /\ config' = NoFile
      BY <1>2, <2>2 DEF MoveAway
    <3>2. \E T : saved' \in Seq(T)
      BY <1>0, <1>2, <2>2, SavedLast DEF MoveAway
    <3> QED
      BY <3>1, <3>2 DEF RenderInv
  <2> QED
    BY <2>1, <2>2
<1>3. CASE Write
  <2>1. UNCHANGED <<render, saved>> /\ sync.pc = "write" /\ sync'.pc # "write"
    BY <1>3 DEF Write
  <2>2. CASE sync.onTemplate
    BY <1>3, <2>1, <2>2 DEF Write, RenderInv, Moved
  <2>3. CASE ~sync.onTemplate
    BY <1>3, <2>1, <2>3 DEF Write, RenderInv, SyncInv, Moved
  <2> QED
    BY <2>2, <2>3
<1>4. CASE Crash
  <2>1. UNCHANGED <<saved, config, template>> /\ sync'.pc # "write"
    BY <1>4 DEF Crash, NoSync
  <2>2. \/ render' = NoRender
        \/ render' = render
        \/ render' = [render EXCEPT !.by = "hand"]
    BY <1>4 DEF Crash
  <2>3. DOMAIN render' \in {{"pc", "by"}, {"pc", "by", "template", "env", "new"}}
    BY <2>2 DEF RenderInv, NoRender
  <2>4. render'.pc = "replace" => render.pc = "replace"
    BY <2>2 DEF RenderInv, NoRender
  <2> QED
    BY <2>1, <2>3, <2>4 DEF RenderInv, Moved
<1>5. CASE EditEnv \/ UNCHANGED vars
  BY <1>5 DEF EditEnv, vars, RenderInv, Moved
<1>6. CASE RenderByHand \/ RenderBySync
  <2>1. \E by : render' = Reading(by)
    BY <1>6 DEF RenderByHand, RenderBySync
  <2>2. DOMAIN render' \in {{"pc", "by"}, {"pc", "by", "template", "env", "new"}} /\ render'.pc # "replace"
    BY <2>1 DEF Reading, NoRender
  <2>3. saved' = saved
    BY <1>6 DEF RenderByHand, RenderBySync
  <2> QED
    BY <2>2, <2>3 DEF RenderInv
<1>7. CASE BackUpConfig
  <2>1. DOMAIN render' = DOMAIN render /\ config' = config
    BY <1>7 DEF BackUpConfig
  <2>2. CASE config = NoFile
    BY <1>7, <2>1, <2>2 DEF BackUpConfig, RenderInv
  <2>3. CASE config # NoFile
    <3>1. saved' \in Saved(saved, config)
      BY <1>7, <2>3 DEF BackUpConfig
    <3>2. (\E T : saved' \in Seq(T)) /\ saved' # <<>> /\ Last(saved') = config
      BY <1>0, <3>1, SavedLast
    <3> QED
      BY <2>1, <3>2 DEF RenderInv
  <2> QED
    BY <2>2, <2>3
<1>8. CASE ReplaceConfig
  <2>1. render' = [pc |-> "prune", by |-> render.by] /\ saved' = saved
    BY <1>8 DEF ReplaceConfig
  <2>2. DOMAIN render' = {"pc", "by"} /\ render'.pc # "replace"
    BY <2>1
  <2> QED
    BY <2>1, <2>2 DEF RenderInv
<1>9. CASE Prune
  <2>1. DOMAIN render' = {"pc", "by"} /\ render'.pc # "replace"
    BY <1>9 DEF Prune, NoRender
  <2>2. \E T : saved' \in Seq(T)
    BY <1>0, <1>9, PrunedLast DEF Prune
  <2> QED
    BY <2>1, <2>2 DEF RenderInv
<1> QED
  BY <1>1, <1>2, <1>3, <1>4, <1>5, <1>6, <1>7, <1>8, <1>9 DEF Next

-----------------------------------------------------------------------------
(* The theorems. *)

\* The two invariants together.
THEOREM Invariance == Spec => []IInv
<1>1. IInv /\ [Next]_vars => IInv'
  BY SyncStep, RenderStep DEF IInv
<1> QED
  BY Initial, <1>1, PTL DEF Spec

\* The template is moved away whole, and written from its backup.
LEMMA TemplateStep ==
  ASSUME SyncInv, [Next]_vars, template' # template
  PROVE  IF template' = NoFile THEN backup' = template
         ELSE backup' = backup /\ template' = ApplyToConfig(backup, sync.adds)
<1>1. CASE MoveAway
  BY <1>1 DEF MoveAway
<1>2. CASE Write
  BY <1>2 DEF Write, SyncInv, Moved
<1>3. CASE UNCHANGED template
  BY <1>3
<1> QED
  BY <1>1, <1>2, <1>3 DEF Next, vars, Query, MakePlan, Rendered, Generate, Crash, EditEnv,
     RenderByHand, RenderBySync, BackUpConfig, ReplaceConfig, Prune

\* Wherever a sync dies: the template it found is in the backup, and the one
\* it writes is that backup with the planned additions.
THEOREM TemplateSafe == Spec => TemplateKept
<1>1. IInv /\ [Next]_vars =>
        [template' # template =>
           IF template' = NoFile THEN backup' = template
           ELSE backup' = backup /\ template' = ApplyToConfig(backup, sync.adds)]_vars
  BY TemplateStep DEF IInv
<1> QED
  BY Invariance, <1>1, PTL DEF Spec, TemplateKept

\* Who replaces config.yaml has backed it up, unless there is no template.
LEMMA ConfigStep ==
  ASSUME IInv, [Next]_vars, config' # config, config # NoFile
  PROVE  \/ saved' # <<>> /\ Last(saved') = config
         \/ template = NoFile /\ (render.pc = "replace" \/ sync.pc = "write")
<1>0. PICK S : saved \in Seq(S)
  BY DEF IInv, RenderInv
<1>1. CASE MoveAway
  <2>1. saved' \in Saved(saved, config)
    BY <1>1 DEF MoveAway
  <2> QED
    BY <1>0, <2>1, SavedLast
<1>2. CASE Write
  BY <1>2 DEF Write, IInv, SyncInv
<1>3. CASE ReplaceConfig
  BY <1>3 DEF ReplaceConfig, IInv, RenderInv
<1>4. CASE UNCHANGED config
  BY <1>4
<1> QED
  BY <1>1, <1>2, <1>3, <1>4 DEF Next, vars, Query, MakePlan, Rendered, Generate, Crash, EditEnv,
     RenderByHand, RenderBySync, BackUpConfig, Prune

\* Only pruning removes backups, never the newest.
LEMMA BackupsStep ==
  ASSUME IInv, [Next]_vars, Len(saved') < Len(saved)
  PROVE  saved' # <<>> /\ Last(saved') = Last(saved)
<1>0. PICK S : saved \in Seq(S)
  BY DEF IInv, RenderInv
<1>1. CASE saved' \in Saved(saved, config)
  BY <1>0, <1>1, SavedLast
<1>2. CASE saved' = saved
  BY <1>0, <1>2
<1>3. CASE Prune
  BY <1>0, <1>2, <1>3, PrunedLast DEF Prune
<1> QED
  BY <1>1, <1>2, <1>3 DEF Next, vars, Query, MakePlan, MoveAway, Write, Rendered, Generate, Crash,
     EditEnv, RenderByHand, RenderBySync, BackUpConfig, ReplaceConfig

\* A config.yaml that is replaced or moved away is the newest backup, and
\* stays it, as long as no sync has lost the template.
THEOREM ConfigSafe == Spec => PreviousConfigKept
<1>1. IInv /\ [Next]_vars =>
        [/\ config' # config /\ config # NoFile =>
              \/ saved' # <<>> /\ Last(saved') = config
              \/ template = NoFile /\ (render.pc = "replace" \/ sync.pc = "write")
         /\ Len(saved') < Len(saved) => saved' # <<>> /\ Last(saved') = Last(saved)]_vars
  BY ConfigStep, BackupsStep
<1> QED
  BY Invariance, <1>1, PTL DEF Spec, PreviousConfigKept

-----------------------------------------------------------------------------
(* The files at every moment. *)

\* Missing, or a whole one.
Readable(f, L) == f = NoFile \/ Sound(f, L)

\* A sync works on the template, or on config.yaml.
LinesOf(onTemplate) == IF onTemplate THEN Fresh ELSE Settled

\* Whatever is about to be applied or written is of the same shape.
FilesInv ==
  /\ Readable(template, Fresh) /\ Readable(config, Settled)
  /\ sync.pc = "queried" => Collected(sync.raw)
  /\ sync.pc = "apply" => Sound(sync.old, LinesOf(sync.onTemplate)) /\ sync.adds \in Seq(Addition)
  /\ sync.pc = "write" => Sound(sync.new, LinesOf(sync.onTemplate))
  /\ render.pc \in {"backup", "replace"} => "new" \in DOMAIN render /\ Sound(render.new, Settled)

\* The outputs the generator has written since it started.
OutInv ==
  /\ DOMAIN out = ToSet(Outputs)
  /\ sync.pc = "generate" => sync.n \in 1..3 /\ \A i \in 1..(sync.n - 1) : Mirrored(out[Outputs[i]])

\* A sync waits for the render it started, and for no other.
StepsInv ==
  /\ env \in Envs
  /\ sync.pc \in {"idle", "queried", "apply", "write", "render", "waiting", "rendered", "generate"}
  /\ render.pc \in {"idle", "backup", "replace", "prune"}
  /\ sync.pc = "waiting" <=> render.by = "sync"
  /\ render.pc = "idle" => render.by = "hand"
  /\ left \in [{"syncs", "events"} -> Nat]

\* The template a deployment starts with has the shape.
LEMMA TemplatesSound ==
  ASSUME NEW t \in Templates
  PROVE  Sound(t, Fresh)
<1> DEFINE s == ListStart(t)
           e == ListEnd(t)
           At(k) == {i \in DOMAIN t : t[i].k = k}
<1>1. /\ t \in Seq(Line)
      /\ At("model_list") = {s} /\ At("router_settings") # {}
      /\ At("new_header") \union At("policies") \union At("policy") = {}
      /\ \A i \in At("router_settings") : s < i
      /\ \A i \in At("model_name") : s < i /\ \E z \in (i + 1)..(e - 1) : t[z].k = "blank"
      /\ \A i \in At("api_base") : t[i].base \notin ToSet(SLAVES)
      /\ \A i \in At("begin") : e < i
      /\ \A i \in At("begin") : \E c \in (i + 1)..Len(t) :
           t[c] = End(t[i].tag) /\ \A j \in (i + 1)..(c - 1) : t[j] = Marked(t[i].tag)
  <2>1. WellFormed(t)
    BY SyncAssumption
  <2>2. Marks(t)
    BY <2>1 DEF WellFormed
  <2>3. \A i \in At("begin") : \E c \in (i + 1)..Len(t) :
          t[c] = End(t[i].tag) /\ \A j \in (i + 1)..(c - 1) : t[j] = Marked(t[i].tag)
    BY <2>2 DEF Marks
  <2>4. /\ t \in Seq(Line)
        /\ At("model_list") = {s} /\ At("router_settings") # {}
        /\ At("new_header") \union At("policies") \union At("policy") = {}
        /\ \A i \in At("router_settings") : s < i
        /\ \A i \in At("model_name") : s < i /\ \E z \in (i + 1)..(e - 1) : t[z].k = "blank"
        /\ \A i \in At("api_base") : t[i].base \notin ToSet(SLAVES)
        /\ \A i \in At("begin") : e < i
    BY <2>1 DEF WellFormed
  <2> HIDE DEF s, e, At
  <2> QED
    BY <2>3, <2>4
<1>2. PICK n \in Nat : n = Len(t)
  BY <1>1
<1>3. DOMAIN t = 1..n /\ \A i \in 1..n : t[i] \in Line
  BY <1>1, <1>2
<1>4. s \in 1..n /\ \A i \in 1..n : t[i].k = "model_list" <=> i = s
  BY <1>1, <1>3
<1>5. t \in Seq(Fresh)
  <2>1. ASSUME NEW i \in 1..n PROVE t[i] \in Fresh
    <3>1. t[i].k \notin {"new_header", "policies", "policy"}
      BY <1>1, <1>3
    <3>2. t[i].k = "api_base" => t[i].base \notin ToSet(SLAVES)
      BY <1>1, <1>3
    <3>3. t[i] \in Line
      BY <1>3
    <3> QED
      BY <3>1, <3>2, <3>3 DEF Fresh, Settled
  <2> QED
    BY <1>1, <1>2, <1>3, <2>1
<1>6. \A i \in 1..n : /\ t[i].k = "router_settings" => s < i
                      /\ t[i].k \notin {"policies", "policy"}
  BY <1>1, <1>3
<1>7. PICK r \in 1..n : t[r].k = "router_settings"
  BY <1>1, <1>3
<1>8. \A i \in 1..n : t[i].k = "model_name" => s < i /\ \E z \in (i + 1)..(e - 1) : t[z].k = "blank"
  BY <1>1, <1>3
<1>9. ASSUME NEW i \in 1..n, t[i].k = "begin"
      PROVE  e < i /\ \E c \in (i + 1)..n : t[c] = End(t[i].tag) /\ Run(t, i, c - 1, "begin", "marked")
  <2>1. PICK c \in (i + 1)..n : t[c] = End(t[i].tag) /\ \A j \in (i + 1)..(c - 1) : t[j] = Marked(t[i].tag)
    BY <1>1, <1>2, <1>3, <1>9
  <2>2. e < i
    BY <1>1, <1>3, <1>9
  <2>3. Run(t, i, c - 1, "begin", "marked")
    BY <2>1, <1>9 DEF Run, Marked
  <2> QED
    BY <2>1, <2>2, <2>3
<1> DEFINE I == {i \in (s + 1)..n : t[i].k \in TopLevel}
           first == OrElse(IF I # {} THEN Min(I) ELSE 0, n + 1)
<1>10. e = first
  BY <1>2 DEF ListEnd, SelectInSubSeq
<1>11. I \in SUBSET (1..n) /\ r \in I
  BY <1>4, <1>6, <1>7 DEF TopLevel
<1>12. \A i \in 1..n : t[i].k \in TopLevel /\ s < i => i \in I
  BY <1>4
<1>13. \A i \in I : s < i /\ t[i].k \in TopLevel
  BY <1>4
<1> HIDE DEF s, e, I, At
<1>14. e \in I /\ \A i \in I : e <= i
  BY <1>10, <1>11, FirstOr
<1>15. e \in 1..n /\ s < e /\ t[e].k \in Top
  <2>1. e \in 1..n /\ s < e /\ t[e].k \in TopLevel
    BY <1>11, <1>13, <1>14
  <2>2. t[e] \in Fresh
    BY <2>1, <1>2, <1>5
  <2> QED
    BY <2>1, <2>2 DEF Top, Fresh, Settled
<1> DEFINE Z == {z \in (s + 1)..(e - 1) : t[z].k = "blank"}
           z == IF Z = {} THEN s ELSE Max(Z)
<1>16. z \in s..(e - 1) /\ (z = s \/ t[z].k = "blank") /\ \A x \in Z : x <= z
  <2>1. Z \in SUBSET (1..n) /\ \A x \in Z : x \in (s + 1)..(e - 1) /\ t[x].k = "blank"
    BY <1>4, <1>15
  <2> HIDE DEF Z
  <2>2. CASE Z = {}
    BY <2>2, <1>4, <1>15
  <2>3. CASE Z # {}
    <3>1. Max(Z) \in Z /\ \A x \in Z : x <= Max(Z)
      BY <2>1, <2>3, MaxUpTo
    <3>2. z = Max(Z)
      BY <2>3
    <3>3. z \in (s + 1)..(e - 1) /\ t[z].k = "blank" /\ \A x \in Z : x <= z
      BY <2>1, <3>1, <3>2
    <3> HIDE DEF z
    <3> QED
      BY <3>3, <1>4
  <2> QED
    BY <2>2, <2>3
<1>17. ASSUME NEW i \in 1..n, t[i].k = "model_name" PROVE s < i /\ i < z
  <2>1. s < i
    BY <1>8, <1>17
  <2>2. PICK x \in (i + 1)..(e - 1) : t[x].k = "blank"
    BY <1>8, <1>17
  <2>3. x \in Z /\ i < x /\ x \in Int
    BY <2>1, <2>2, <1>4, <1>15
  <2> HIDE DEF Z, z
  <2>4. x <= z /\ z \in Int
    BY <2>3, <1>4, <1>15, <1>16
  <2> QED
    BY <2>1, <2>3, <2>4
<1> HIDE DEF Z, z
<1>18. \A i \in 1..n : t[i].k \in Top => i <= s \/ e <= i
  <2> SUFFICES ASSUME NEW i \in 1..n, t[i].k \in Top, s < i PROVE e <= i
    BY <1>4
  <2>1. i \in I
    BY <1>12 DEF Top
  <2> QED
    BY <2>1, <1>14
<1>19. \A i \in 1..n : t[i].k = "router_settings" => e <= i
  <2> SUFFICES ASSUME NEW i \in 1..n, t[i].k = "router_settings" PROVE e <= i
    OBVIOUS
  <2>1. i \in I
    BY <1>6, <1>12 DEF TopLevel
  <2> QED
    BY <2>1, <1>14
<1>20. z \in 1..n /\ s <= z /\ z < e
  BY <1>4, <1>15, <1>16
<1>21. ListIs(t, s, z, e)
  BY <1>2, <1>4, <1>7, <1>15, <1>16, <1>17, <1>18, <1>19, <1>20 DEF ListIs
<1>22. TailIs(t, e)
  BY <1>2, <1>6, <1>9 DEF TailIs
<1> QED
  BY <1>5, <1>21, <1>22 DEF Sound, Framed

\* A file of the shape can be scanned.
LEMMA SoundTyped ==
  ASSUME NEW f, NEW L \in {Settled, Fresh}, Sound(f, L)
  PROVE  f # NoFile /\ f \in Seq(Line) /\ ListStart(f) # 0
<1>1. PICK s, z, e : f \in Seq(L) /\ ListIs(f, s, z, e)
  BY DEF Sound, Framed
<1>2. f \in Seq(Settled) /\ f \in Seq(Line)
  BY <1>1, Subsets
<1>3. ListStart(f) = s /\ s \in 1..Len(f)
  BY <1>1, <1>2, Bounds DEF ListIs
<1> QED
  BY <1>2, <1>3 DEF NoFile

\* So is the configuration rendered from it, and nothing runs.
LEMMA FilesInitial == Init => FilesInv /\ OutInv /\ StepsInv
<1> SUFFICES ASSUME Init PROVE FilesInv /\ OutInv /\ StepsInv
  OBVIOUS
<1>1. Sound(template, Fresh) /\ Readable(config, Settled)
  BY TemplatesSound, RenderSound DEF Init, Readable
<1>2. sync.pc = "idle" /\ render.pc = "idle" /\ render.by = "hand"
  BY DEF Init, NoSync, NoRender
<1>3. left \in [{"syncs", "events"} -> Nat]
  BY SyncAssumption DEF Init
<1>4. FilesInv
  BY <1>1, <1>2 DEF FilesInv, Readable
<1>5. StepsInv
  BY <1>2, <1>3 DEF StepsInv, Init
<1>6. OutInv
  BY <1>2 DEF OutInv, Init
<1> QED
  BY <1>4, <1>5, <1>6

\* A render that read a template has a configuration of the shape to write.
LEMMA ReadingSound ==
  ASSUME Readable(template, Fresh), NEW by
  PROVE  /\ Reading(by).pc \in {"idle", "backup"}
         /\ Reading(by).pc = "backup" => "new" \in DOMAIN Reading(by) /\ Sound(Reading(by).new, Settled)
<1>1. CASE template = NoFile
  BY <1>1 DEF Reading, NoRender
<1>2. CASE template # NoFile
  <2>1. Sound(Render(template, env), Settled)
    BY <1>2, RenderSound DEF Readable
  <2> QED
    BY <1>2, <2>1 DEF Reading
<1> QED
  BY <1>1, <1>2

\* Every step keeps the shape of the files.
LEMMA FilesStep == RenderInv /\ FilesInv /\ [Next]_vars => FilesInv'
<1> SUFFICES ASSUME RenderInv, FilesInv, [Next]_vars PROVE FilesInv'
  OBVIOUS
<1> USE DEF FilesInv
<1>1. CASE Query
  <2>1. UNCHANGED <<template, config, render>> /\ sync'.pc = "queried"
    BY <1>1 DEF Query
  <2>2. Collected(sync'.raw)
    BY <1>1, CollectTyped DEF Query
  <2> QED
    BY <2>1, <2>2
<1>2. CASE MakePlan
  <2>1. UNCHANGED <<template, config, render>>
    BY <1>2 DEF MakePlan
  <2>2. CASE sync' = NoSync
    BY <2>1, <2>2 DEF NoSync
  <2>3. CASE sync' # NoSync
    <3>1. PICK price \in Prices :
            LET adds == IF Target = NoFile THEN <<>> ELSE Plan(sync.raw, ScanExisting(Target), price)
            IN  /\ adds # <<>> /\ sync'.pc = "apply" /\ sync'.adds = adds /\ sync'.old = Target
                /\ sync'.onTemplate = (template # NoFile)
      BY <1>2, <2>3 DEF MakePlan
    <3>2. Target # NoFile
      BY <3>1
    <3>3. Sound(Target, LinesOf(template # NoFile))
      <4>1. CASE template = NoFile
        BY <4>1, <3>2 DEF Target, Readable, LinesOf
      <4>2. CASE template # NoFile
        BY <4>2, <3>2 DEF Target, Readable, LinesOf
      <4> QED
        BY <4>1, <4>2
    <3>4. Target \in Seq(Line) /\ Collected(sync.raw)
      <4>1. LinesOf(template # NoFile) \in {Settled, Fresh}
        BY DEF LinesOf
      <4> QED
        BY <4>1, <1>2, <3>3, SoundTyped DEF MakePlan
    <3>5. price \in [Ids -> Nat]
      BY SyncAssumption
    <3>6. Plan(sync.raw, ScanExisting(Target), price) \in Seq(Addition)
      BY <3>4, <3>5, PlanTyped
    <3>7. sync'.pc = "apply" /\ Sound(sync'.old, LinesOf(sync'.onTemplate)) /\ sync'.adds \in Seq(Addition)
      BY <3>1, <3>2, <3>3, <3>6
    <3> QED
      BY <2>1, <3>7
  <2> QED
    BY <2>2, <2>3
<1>3. CASE MoveAway
  <2>1. Sound(ApplyToConfig(sync.old, sync.adds), LinesOf(sync.onTemplate))
    <3>1. LinesOf(sync.onTemplate) \in {Settled, Fresh}
      BY DEF LinesOf
    <3>2. Sound(sync.old, LinesOf(sync.onTemplate)) /\ sync.adds \in Seq(Addition)
      BY <1>3 DEF MoveAway
    <3> QED
      BY <3>1, <3>2, ApplySound
  <2>2. sync'.pc = "write" /\ sync'.new = ApplyToConfig(sync.old, sync.adds) /\ render' = render
        /\ sync'.onTemplate = sync.onTemplate
    BY <1>3 DEF MoveAway
  <2>3. (template' = template \/ template' = NoFile) /\ (config' = config \/ config' = NoFile)
    BY <1>3 DEF MoveAway
  <2> QED
    BY <2>1, <2>2, <2>3 DEF Readable
<1>4. CASE Write
  <2>1. sync'.pc \in {"render", "rendered"} /\ render' = render /\ Sound(sync.new, LinesOf(sync.onTemplate))
    BY <1>4 DEF Write
  <2>2. CASE sync.onTemplate
    <3>1. template' = sync.new /\ config' = config
      BY <1>4, <2>2 DEF Write
    <3> QED
      BY <2>1, <2>2, <3>1 DEF Readable, LinesOf
  <2>3. CASE ~sync.onTemplate
    <3>1. config' = sync.new /\ template' = template
      BY <1>4, <2>3 DEF Write
    <3> QED
      BY <2>1, <2>3, <3>1 DEF Readable, LinesOf
  <2> QED
    BY <2>2, <2>3
<1>5. CASE Rendered
  BY <1>5 DEF Rendered, NoSync
<1>6. CASE Generate
  BY <1>6 DEF Generate, NoSync
<1>7. CASE Crash
  <2>1. UNCHANGED <<template, config>> /\ sync'.pc = "idle"
    BY <1>7 DEF Crash, NoSync
  <2>2. render' \in {NoRender, render, [render EXCEPT !.by = "hand"]}
    BY <1>7 DEF Crash
  <2>3. CASE render' = NoRender
    BY <2>1, <2>3 DEF NoRender
  <2>4. CASE render' = render
    BY <2>1, <2>4
  <2>5. CASE render' = [render EXCEPT !.by = "hand"]
    <3>1. render'.pc = render.pc
      BY <2>5 DEF RenderInv
    <3>2. DOMAIN render' = DOMAIN render /\ ("new" \in DOMAIN render => render'.new = render.new)
      BY <2>5
    <3> QED
      BY <2>1, <3>1, <3>2
  <2> QED
    BY <2>2, <2>3, <2>4, <2>5
<1>8. CASE EditEnv \/ UNCHANGED vars
  BY <1>8 DEF EditEnv, vars
<1>9. CASE RenderByHand \/ RenderBySync
  <2>1. PICK by : render' = Reading(by)
    BY <1>9 DEF RenderByHand, RenderBySync
  <2>2. UNCHANGED <<template, config>> /\ (sync' = sync \/ sync'.pc \in {"rendered", "waiting"})
    BY <1>9 DEF RenderByHand, RenderBySync
  <2> QED
    BY <2>1, <2>2, ReadingSound
<1>10. CASE BackUpConfig
  <2>1. /\ UNCHANGED <<template, config, sync>> /\ render.pc = "backup"
        /\ render' = [render EXCEPT !.pc = "replace"]
    BY <1>10 DEF BackUpConfig
  <2> QED
    BY <2>1 DEF RenderInv
<1>11. CASE ReplaceConfig
  BY <1>11 DEF ReplaceConfig, Readable
<1>12. CASE Prune
  <2>1. UNCHANGED <<template, config>> /\ render'.pc = "idle"
    BY <1>12 DEF Prune, NoRender
  <2>2. sync' = sync \/ sync'.pc = "rendered"
    BY <1>12 DEF Prune
  <2> QED
    BY <2>1, <2>2
<1> QED
  BY <1>1, <1>2, <1>3, <1>4, <1>5, <1>6, <1>7, <1>8, <1>9, <1>10, <1>11, <1>12 DEF Next

\* Only the generator writes its outputs, from a config.yaml of the shape.
LEMMA OutStep == FilesInv /\ OutInv /\ [Next]_vars => OutInv'
<1> SUFFICES ASSUME FilesInv, OutInv, [Next]_vars PROVE OutInv'
  OBVIOUS
<1>0. /\ DOMAIN out = ToSet(Outputs)
      /\ sync.pc = "generate" => sync.n \in 1..3 /\ \A i \in 1..(sync.n - 1) : Mirrored(out[Outputs[i]])
  BY DEF OutInv
<1>1. CASE Generate /\ config # NoFile /\ sync.n # 3
  <2>1. sync.n \in 1..2 /\ \A i \in 1..(sync.n - 1) : Mirrored(out[Outputs[i]])
    BY <1>0, <1>1 DEF Generate
  <2>2. Mirrored(Master(config))
    BY <1>1, MasterMirrored DEF FilesInv, Readable
  <2>3. /\ \A i \in 1..3 : Outputs[i] \in ToSet(Outputs)
        /\ \A i \in 1..2 : Outputs[i] # "slave" /\ \A j \in 1..(i - 1) : Outputs[j] # Outputs[i]
        /\ Len(Outputs) = 3
    BY DEF Outputs, ToSet
  <2>4. /\ out' = [out EXCEPT ![Outputs[sync.n]] = Master(config)]
        /\ sync'.pc = "generate" /\ sync'.n = sync.n + 1
    BY <1>1, <2>1, <2>3 DEF Generate
  <2> DEFINE n == sync.n
  <2>5. DOMAIN out' = DOMAIN out /\ out'[Outputs[n]] = Master(config)
        /\ \A o \in DOMAIN out : o # Outputs[n] => out'[o] = out[o]
    BY <2>1, <2>3, <2>4, <1>0
  <2>6. ASSUME NEW i \in 1..n PROVE Mirrored(out'[Outputs[i]])
    <3>1. CASE i = n
      BY <3>1, <2>2, <2>5
    <3>2. CASE i # n
      <4>1. i \in 1..(n - 1) /\ i \in 1..3
        BY <3>2, <2>1
      <4>2. Outputs[i] # Outputs[n] /\ Outputs[i] \in DOMAIN out
        BY <4>1, <2>1, <2>3, <1>0
      <4> QED
        BY <4>1, <4>2, <2>1, <2>5
    <3> QED
      BY <3>1, <3>2
  <2>7. sync'.n \in 1..3 /\ sync'.n - 1 = n
    BY <2>1, <2>4
  <2> HIDE DEF n
  <2> QED
    BY <2>4, <2>5, <2>6, <2>7, <1>0 DEF OutInv
<1>2. CASE Generate /\ config # NoFile /\ sync.n = 3
  <2>1. Len(Outputs) = 3
    BY DEF Outputs
  <2>2. sync'.pc # "generate" /\ DOMAIN out' = DOMAIN out
    BY <1>2, <2>1 DEF Generate, NoSync
  <2> QED
    BY <2>2, <1>0 DEF OutInv
<1>3. CASE Generate /\ config = NoFile
  BY <1>0, <1>3 DEF OutInv, Generate, NoSync
<1>4. CASE Rendered
  <2>1. out' = out /\ (sync'.pc # "generate" \/ sync'.n = 1)
    BY <1>4 DEF Rendered, NoSync
  <2> QED
    BY <2>1, <1>0 DEF OutInv
<1>5. ASSUME out' = out, sync' = sync \/ sync'.pc # "generate" PROVE OutInv'
  BY <1>0, <1>5 DEF OutInv
<1>6. CASE Query \/ MakePlan \/ MoveAway \/ Write \/ Crash \/ RenderBySync
  <2>1. out' = out
    BY <1>6 DEF Query, MakePlan, MoveAway, Write, Crash, RenderBySync
  <2>2. Query => sync'.pc # "generate"
    <3> SUFFICES ASSUME Query PROVE sync'.pc # "generate"
      OBVIOUS
    <3>1. PICK r, s : sync' = [pc |-> "queried", raw |-> r, partial |-> s]
      BY Zenon DEF Query
    <3> QED
      BY <3>1
  <2>5. MoveAway => sync'.pc # "generate"
    <3> SUFFICES ASSUME MoveAway PROVE sync'.pc # "generate"
      OBVIOUS
    <3>1. sync'.pc = "write"
      BY DEF MoveAway
    <3> QED
      BY <3>1
  <2>4. MakePlan => sync'.pc # "generate"
    <3> SUFFICES ASSUME MakePlan PROVE sync'.pc # "generate"
      OBVIOUS
    <3>1. sync' = NoSync \/ sync'.pc = "apply"
      BY DEF MakePlan
    <3> QED
      BY <3>1 DEF NoSync
  <2>3. Write \/ Crash \/ RenderBySync => sync'.pc # "generate"
    BY DEF Write, Crash, RenderBySync, NoSync
  <2> QED
    BY <2>1, <2>2, <2>3, <2>4, <2>5, <1>5, <1>6
<1>7. CASE EditEnv \/ RenderByHand \/ BackUpConfig \/ ReplaceConfig \/ UNCHANGED vars
  <2>1. out' = out /\ sync' = sync
    BY <1>7 DEF EditEnv, RenderByHand, BackUpConfig, ReplaceConfig, vars
  <2> QED
    BY <2>1, <1>5
<1>8. CASE Prune
  <2>1. out' = out /\ (sync' = sync \/ sync'.pc # "generate")
    BY <1>8 DEF Prune
  <2> QED
    BY <2>1, <1>5
<1> QED
  BY <1>1, <1>2, <1>3, <1>4, <1>6, <1>7, <1>8 DEF Next

\* Every step keeps the two programs in step with each other.
LEMMA StepsStep == RenderInv /\ StepsInv /\ [Next]_vars => StepsInv'
<1> SUFFICES ASSUME RenderInv, StepsInv, [Next]_vars PROVE StepsInv'
  OBVIOUS
<1> USE DEF StepsInv
<1>0. left \in [{"syncs", "events"} -> Nat]
  OBVIOUS
<1>1. CASE Query
  <2>1. UNCHANGED <<env, render>> /\ sync.pc = "idle" /\ sync'.pc = "queried"
    BY <1>1 DEF Query
  <2>2. left' \in [{"syncs", "events"} -> Nat]
    BY <1>1, <1>0 DEF Query
  <2> QED
    BY <2>1, <2>2
<1>2. CASE MakePlan
  <2>1. UNCHANGED <<env, render, left>> /\ sync.pc = "queried" /\ sync'.pc \in {"idle", "apply"}
    BY <1>2 DEF MakePlan, NoSync
  <2> QED
    BY <2>1
<1>3. CASE MoveAway
  BY <1>3 DEF MoveAway
<1>4. CASE Write
  BY <1>4 DEF Write
<1>5. CASE Rendered
  BY <1>5 DEF Rendered, NoSync
<1>6. CASE Generate
  BY <1>6 DEF Generate, NoSync
<1>7. CASE Crash
  <2>1. env' = env /\ sync'.pc = "idle"
    BY <1>7 DEF Crash, NoSync
  <2>2. left' \in [{"syncs", "events"} -> Nat]
    BY <1>7, <1>0 DEF Crash
  <2>3. CASE render.by = "sync"
    <3>1. render' = NoRender \/ render' = [render EXCEPT !.by = "hand"]
      BY <1>7, <2>3 DEF Crash
    <3>2. render'.pc \in {"idle", "backup", "replace", "prune"} /\ render'.by = "hand"
      BY <3>1 DEF NoRender, RenderInv
    <3> QED
      BY <2>1, <2>2, <3>2
  <2>4. CASE render.by # "sync"
    BY <1>7, <2>1, <2>2, <2>4 DEF Crash
  <2> QED
    BY <2>3, <2>4
<1>8. CASE EditEnv
  <2>1. left' \in [{"syncs", "events"} -> Nat]
    BY <1>8, <1>0 DEF EditEnv
  <2> QED
    BY <1>8, <2>1 DEF EditEnv
<1>9. CASE RenderByHand
  <2>1. left' \in [{"syncs", "events"} -> Nat]
    BY <1>9, <1>0 DEF RenderByHand
  <2>2. render'.pc \in {"idle", "backup"} /\ render'.by = "hand"
    BY <1>9 DEF RenderByHand, Reading, NoRender
  <2> QED
    BY <1>9, <2>1, <2>2 DEF RenderByHand
<1>10. CASE RenderBySync
  <2>1. UNCHANGED <<env, left>>
    BY <1>10 DEF RenderBySync
  <2>2. CASE template = NoFile
    BY <1>10, <2>1, <2>2 DEF RenderBySync, Reading, NoRender
  <2>3. CASE template # NoFile
    BY <1>10, <2>1, <2>3 DEF RenderBySync, Reading
  <2> QED
    BY <2>2, <2>3
<1>11. CASE BackUpConfig
  <2>1. UNCHANGED <<env, sync, left>> /\ render.pc = "backup" /\ render' = [render EXCEPT !.pc = "replace"]
    BY <1>11 DEF BackUpConfig
  <2>2. render'.pc = "replace" /\ render'.by = render.by
    BY <2>1 DEF RenderInv
  <2> QED
    BY <2>1, <2>2
<1>12. CASE ReplaceConfig
  BY <1>12 DEF ReplaceConfig
<1>13. CASE Prune
  BY <1>13 DEF Prune, NoRender
<1>14. CASE UNCHANGED vars
  BY <1>14 DEF vars
<1> QED
  BY <1>1, <1>2, <1>3, <1>4, <1>5, <1>6, <1>7, <1>8, <1>9, <1>10, <1>11, <1>12, <1>13, <1>14 DEF Next

\* The template and config.yaml are always missing or complete lists that the
\* scripts can scan, whatever a sync or a render was about to do to them, and
\* a sync only ever waits for its own render.
THEOREM TypeCorrect == Spec => []TypeOK
<1>1. RenderInv /\ FilesInv /\ StepsInv /\ [Next]_vars => (FilesInv /\ StepsInv)'
  BY FilesStep, StepsStep
<1>2. FilesInv /\ StepsInv => TypeOK
  <2> SUFFICES ASSUME FilesInv, StepsInv PROVE TypeOK
    OBVIOUS
  <2>1. ASSUME NEW f, NEW L \in {Settled, Fresh}, Readable(f, L), f # NoFile
        PROVE  f \in Seq(Line) /\ ListStart(f) # 0
    BY <2>1, SoundTyped DEF Readable
  <2> QED
    BY <2>1 DEF FilesInv, StepsInv, TypeOK
<1>3. IInv => RenderInv
  BY DEF IInv
<1> QED
  BY Invariance, FilesInitial, <1>1, <1>2, <1>3, PTL DEF Spec

\* Whatever the template, the additions and the keys were, every group the
\* master's configuration has is one of config.yaml and has each slave once.
THEOREM MirrorsSafe == Spec => []MasterMirrors
<1>1. RenderInv /\ FilesInv /\ OutInv /\ [Next]_vars => (FilesInv /\ OutInv)'
  BY FilesStep, OutStep
<1>2. OutInv => MasterMirrors
  <2> SUFFICES ASSUME OutInv, sync.pc = "generate", NEW i \in 1..(sync.n - 1)
               PROVE Mirrored(out[Outputs[i]])
    BY DEF MasterMirrors
  <2> QED
    BY DEF OutInv
<1>3. IInv => RenderInv
  BY DEF IInv
<1> QED
  BY Invariance, FilesInitial, <1>1, <1>2, <1>3, PTL DEF Spec

\* The lines of one kind.
Lines(k) == {l \in Line : l.k = k}

\* Ascending lists positions.
LEMMA AscendingEnumerates ==
  ASSUME NEW n \in Nat, NEW S \in SUBSET (1..n)
  PROVE  \E k \in Nat : k = Len(Ascending(S, n)) /\ Enumerates(Ascending(S, n), k, S, Upward)
<1> DEFINE s == [i \in 1..n |-> i]
<1>1. s \in Seq(1..n) /\ Len(s) = n /\ \A i \in 1..n : s[i] = i
  OBVIOUS
<1> HIDE DEF s
<1>20. PICK k \in Nat : \E m : Keeps(Only(s, S), s, S, k, m)
  BY <1>1, OnlyEnumerates
<1>2. PICK m : Keeps(Only(s, S), s, S, k, m)
  BY <1>20
<1> DEFINE H == {i \in 1..Len(s) : s[i] \in S}
<1>3. H = S
  BY <1>1
<1>4. Enumerates(m, k, S, Upward) /\ Only(s, S) = [i \in 1..k |-> s[m[i]]]
  <2>1. Enumerates(m, k, H, Upward) /\ Only(s, S) = [i \in 1..k |-> s[m[i]]]
    BY <1>2 DEF Keeps
  <2> HIDE DEF H
  <2> QED
    BY <2>1, <1>3
<1>5. m \in [1..k -> S]
  BY <1>4 DEF Enumerates
<1>6. Only(s, S) = m
  <2>1. \A i \in 1..k : s[m[i]] = m[i]
    BY <1>1, <1>5
  <2> QED
    BY <1>4, <1>5, <2>1
<1>7. Len(m) = k
  BY <1>5
<1> QED
  BY <1>4, <1>6, <1>7 DEF Ascending, s

-----------------------------------------------------------------------------
(* Blocks. *)

\* The block of lines i to j, as parse_blocks makes it.
Parsed(f, i, j) == BlockAt(f, i, j, Head)

\* The block that starts on line i stretches to line j.
Stretches(f, i, j, z) ==
  /\ j \in i..(z - 1) /\ f[j + 1].k \in {"blank", "model_name"}
  /\ \A x \in (i + 1)..j : f[x].k \notin {"blank", "model_name"}

\* b are the blocks of f, from at[1] to end[1] and so on.
Parses(b, f, n, at, end, z) ==
  /\ n \in Nat /\ Enumerates(at, n, Starts(f), Upward)
  /\ b = [i \in 1..n |-> Parsed(f, at[i], end[i])]
  /\ \A i \in 1..n : Stretches(f, at[i], end[i], z)

\* The starts are all model_names.
LEMMA StartsAre ==
  ASSUME NEW f \in Seq(Settled), NEW s, NEW z, NEW e, ListIs(f, s, z, e)
  PROVE  /\ Starts(f) = {i \in 1..Len(f) : f[i].k = "model_name"}
         /\ \A i \in Starts(f) : i \in 1..Len(f) /\ s < i /\ i < z /\ f[i] = Name(f[i].name)
                                 /\ f[i].name \in Names
<1>1. PICK n \in Nat : n = Len(f)
  OBVIOUS
<1>2. ListStart(f) = s /\ ListEnd(f) = e
  BY Bounds
<1>3. /\ s \in 1..n /\ z \in 1..n /\ e \in 1..n /\ z < e
      /\ \A i \in 1..n : f[i].k = "model_name" => s < i /\ i < z
  BY <1>1 DEF ListIs
<1>4. Starts(f) = {i \in 1..n : f[i].k = "model_name"}
  BY <1>2, <1>3 DEF Starts
<1>5. \A i \in 1..n : f[i] \in Line
  BY <1>1, Subsets
<1>6. \A i \in 1..n : f[i].k = "model_name" => f[i].name \in Names /\ f[i] = Name(f[i].name)
  BY <1>5, NameLine
<1> QED
  BY <1>1, <1>3, <1>4, <1>6

\* parse_blocks.
LEMMA BlocksParsed ==
  ASSUME NEW f \in Seq(Settled), NEW s, NEW z, NEW e, ListIs(f, s, z, e)
  PROVE  \E n, at, end : Parses(ParseBlocks(f), f, n, at, end, z)
<1> DEFINE at == Ascending(Starts(f), Len(f))
           Ends(i) == {j \in (i + 1)..(ListEnd(f) - 1) : f[j].k \in {"blank", "model_name"}}
           EndOf(i) == OrElse(IF Ends(i) # {} THEN Min(Ends(i)) ELSE 0, Len(f) + 1) - 1
           block(i) == BlockAt(f, at[i], EndOf(at[i]), Head)
<1>0. PICK k \in Nat : k = Len(f)
  OBVIOUS
<1>1. PICK n \in Nat : n = Len(at) /\ Enumerates(at, n, Starts(f), Upward)
  <2>1. Starts(f) \in SUBSET (1..k)
    BY <1>0, StartsAre
  <2> QED
    BY <2>1, <1>0, AscendingEnumerates
<1> DEFINE b == [i \in 1..n |-> block(i)]
<1>2. ParseBlocks(f) = FlattenSeq([i \in 1..n |-> <<b[i]>>])
  BY <1>1 DEF ParseBlocks, Blocks, Concat, SelectInSubSeq
<1> DEFINE end == [i \in 1..n |-> EndOf(at[i])]
<1>3. b = [i \in 1..n |-> Parsed(f, at[i], end[i])]
  BY DEF Parsed
<1>4. \A i \in 1..n : end[i] = EndOf(at[i])
  OBVIOUS
<1> HIDE DEF block, at, end
<1>5. FlattenSeq([i \in 1..n |-> <<b[i]>>]) = b
  <2> DEFINE E == {block(i) : i \in 1..n}
             ss == [i \in 1..n |-> <<b[i]>>]
  <2>1. b \in [1..n -> E]
    OBVIOUS
  <2> HIDE DEF b, E
  <2>2. FlattenSeq(ss) = b
    BY <2>1, FlattenSingles
  <2> QED
    BY <2>2
<1>6. ASSUME NEW i \in 1..n PROVE Stretches(f, at[i], end[i], z)
  <2>1. at[i] \in Starts(f)
    BY <1>1 DEF Enumerates
  <2>2. PICK a : a = at[i]
    OBVIOUS
  <2>3. a \in 1..k /\ s < a /\ a < z
    BY <2>1, <2>2, <1>0, StartsAre
  <2>4. ListEnd(f) = e /\ s \in 1..k /\ z \in 1..k /\ e \in 1..k /\ z < e /\ (z = s \/ f[z].k = "blank")
    BY <1>0, Bounds DEF ListIs
  <2> DEFINE I == Ends(a)
             first == OrElse(IF I # {} THEN Min(I) ELSE 0, Len(f) + 1)
  <2>5. I \in SUBSET (1..k) /\ z \in I
    BY <2>3, <2>4
  <2>6. \A x \in (a + 1)..z : f[x].k \in {"blank", "model_name"} => x \in I
    BY <2>3, <2>4
  <2>7. \A x \in I : x >= a + 1 /\ f[x].k \in {"blank", "model_name"}
    BY <2>3, <2>4
  <2>8. end[i] = first - 1
    BY <1>4, <2>2
  <2> HIDE DEF I
  <2>9. first \in I /\ \A x \in I : first <= x
    BY <2>5, FirstOr
  <2> HIDE DEF first
  <2>10. first \in 1..k /\ first <= z /\ a + 1 <= first /\ f[first].k \in {"blank", "model_name"}
    BY <2>5, <2>7, <2>9
  <2>11. \A x \in (a + 1)..(first - 1) : f[x].k \notin {"blank", "model_name"}
    <3> SUFFICES ASSUME NEW x \in (a + 1)..(first - 1), f[x].k \in {"blank", "model_name"} PROVE FALSE
      OBVIOUS
    <3>1. x \in I
      BY <2>3, <2>4, <2>6, <2>10
    <3> QED
      BY <3>1, <2>3, <2>9, <2>10
  <2>12. first - 1 \in a..(z - 1) /\ first - 1 + 1 = first
    BY <2>3, <2>4, <2>10
  <2> QED
    BY <2>2, <2>8, <2>10, <2>11, <2>12 DEF Stretches
<1> HIDE DEF b
<1> QED
  BY <1>1, <1>2, <1>3, <1>5, <1>6 DEF Parses

\* The lines of one kind of a block.
Part(f, i, j, k) == Only(SubSeq(f, i, j), Lines(k))

LEMMA PartIs ==
  ASSUME NEW f \in Seq(Line), NEW i \in 1..Len(f), NEW j \in i..Len(f), NEW k
  PROVE  /\ Only(SubSeq(f, i, j), {l \in ToSet(SubSeq(f, i, j)) : l.k = k}) = Part(f, i, j, k)
         /\ Lists(Part(f, i, j, k), f, {x \in i..j : f[x].k = k}, Upward)
<1> DEFINE q == SubSeq(f, i, j)
<1>1. q \in Seq(Line) /\ Lists(q, f, i..j, Upward)
  BY SubSeqLists
<1> HIDE DEF q
<1>2. \A x \in 1..Len(q) : q[x] \in {l \in ToSet(q) : l.k = k} <=> q[x] \in Lines(k)
  BY <1>1 DEF Lines, ToSet
<1>3. Only(q, {l \in ToSet(q) : l.k = k}) = Only(q, Lines(k))
  BY <1>1, <1>2, OnlyAgrees
<1>4. Lists(Only(q, Lines(k)), f, {x \in i..j : f[x] \in Lines(k)}, Upward)
  BY <1>1, ListsOnly
<1>5. {x \in i..j : f[x] \in Lines(k)} = {x \in i..j : f[x].k = k}
  BY DEF Lines
<1>6. Lists(Only(q, Lines(k)), f, {x \in i..j : f[x].k = k}, Upward)
  BY <1>4, <1>5, Zenon
<1> QED
  BY <1>3, <1>6 DEF q, Part

\* The facts about a deployment, from its name and its lines.
ModelOf(m) == IF m = <<>> THEN Model("", NoId) ELSE Head(m)
FactsFrom(g, m, a, d) ==
  [name |-> g, provider |-> ProviderOf(ModelOf(m).prefix, ModelOf(m).id, IF a = <<>> THEN NoBase ELSE Head(a).base),
   id |-> ModelOf(m).id, mode |-> IF d = <<>> THEN "chat" ELSE Last(d).mode]

LEMMA ParsedFacts ==
  ASSUME NEW f \in Seq(Line), NEW i \in 1..Len(f), NEW j \in i..Len(f)
  PROVE  /\ Facts(Parsed(f, i, j)) =
              FactsFrom(f[i].name, Part(f, i, j, "model"), Part(f, i, j, "api_base"), Part(f, i, j, "mode"))
         /\ Parsed(f, i, j).name = f[i].name /\ Parsed(f, i, j).start = i /\ Parsed(f, i, j).end = j
         /\ Parsed(f, i, j).provider = Facts(Parsed(f, i, j)).provider
         /\ Parsed(f, i, j).mode = Facts(Parsed(f, i, j)).mode
<1> DEFINE q == SubSeq(f, i, j)
           Of(k) == Only(q, {l \in ToSet(q) : l.k = k})
<1>1. /\ Of("model") = Part(f, i, j, "model") /\ Of("api_base") = Part(f, i, j, "api_base")
      /\ Of("mode") = Part(f, i, j, "mode")
  BY PartIs
<1>2. Parsed(f, i, j) =
        [name |-> f[i].name, start |-> i, end |-> j, id |-> ModelOf(Of("model")).id,
         provider |-> ProviderOf(ModelOf(Of("model")).prefix, ModelOf(Of("model")).id,
                                 IF Of("api_base") = <<>> THEN NoBase ELSE Head(Of("api_base")).base),
         cost |-> IF Of("cost") = <<>> THEN 0 ELSE Last(Of("cost")).cost,
         mode |-> IF Of("mode") = <<>> THEN "chat" ELSE Last(Of("mode")).mode]
  BY DEF Parsed, BlockAt, Filter, ModelOf
<1> HIDE DEF Of
<1> QED
  BY <1>1, <1>2 DEF Facts, FactsFrom

-----------------------------------------------------------------------------
(* Two files with the same list. *)

\* A block ends in one place.
LEMMA StretchesOnce ==
  ASSUME NEW f, NEW g, NEW z \in Nat, \A x \in 1..z : f[x] = g[x], NEW i \in 1..z,
         NEW j, NEW l, Stretches(f, i, j, z), Stretches(g, i, l, z)
  PROVE  j = l
<1>1. j \in i..(z - 1) /\ l \in i..(z - 1) /\ f[j + 1] = g[j + 1] /\ f[l + 1] = g[l + 1]
  BY DEF Stretches
<1>2. ~(j < l) /\ ~(l < j)
  BY <1>1 DEF Stretches
<1> QED
  BY <1>1, <1>2

LEMMA SameList ==
  ASSUME NEW f \in Seq(Settled), NEW g \in Seq(Settled), NEW s, NEW z, NEW e,
         ListIs(f, s, z, e), ListIs(g, s, z, e), \A x \in 1..e : f[x] = g[x]
  PROVE  ParseBlocks(f) = ParseBlocks(g)
<1>1. PICK n, at, end : Parses(ParseBlocks(f), f, n, at, end, z)
  BY BlocksParsed
<1>2. PICK m, bt, fin : Parses(ParseBlocks(g), g, m, bt, fin, z)
  BY BlocksParsed
<1>3. PICK k \in Nat, l \in Nat : k = Len(f) /\ l = Len(g)
  OBVIOUS
<1>4. s \in 1..k /\ z \in 1..k /\ e \in 1..k /\ e <= l /\ e \in Nat /\ z < e
  BY <1>3 DEF ListIs
<1>5. Starts(f) = Starts(g) /\ \A i \in Starts(f) : i \in 1..z
  <2>1. /\ Starts(f) = {i \in 1..k : f[i].k = "model_name"}
        /\ \A i \in Starts(f) : i \in 1..k /\ i < z
    BY <1>3, StartsAre
  <2>2. /\ Starts(g) = {i \in 1..l : g[i].k = "model_name"}
        /\ \A i \in Starts(g) : i \in 1..l /\ i < z
    BY <1>3, StartsAre
  <2>3. \A i \in 1..k : i < z => i \in 1..l /\ f[i] = g[i]
    BY <1>4
  <2>4. \A i \in 1..l : i < z => i \in 1..k /\ f[i] = g[i]
    BY <1>4
  <2>5. \A i \in Starts(f) : i \in 1..z
    BY <2>1, <1>4
  <2>6. Starts(f) \subseteq Starts(g)
    BY <2>1, <2>2, <2>3
  <2>7. Starts(g) \subseteq Starts(f)
    BY <2>1, <2>2, <2>4
  <2> QED
    BY <2>5, <2>6, <2>7
<1>6. n = m /\ at = bt
  <2>1. \A x, y \in Starts(f) : <<x, y>> \in Upward => <<y, x>> \notin Upward
    BY DEF Upward
  <2>2. n \in Nat /\ m \in Nat /\ Enumerates(at, n, Starts(f), Upward) /\ Enumerates(bt, m, Starts(f), Upward)
    BY <1>1, <1>2, <1>5 DEF Parses
  <2> QED
    BY <2>1, <2>2, EnumerationUnique
<1>7. ASSUME NEW i \in 1..n PROVE Parsed(f, at[i], end[i]) = Parsed(g, bt[i], fin[i])
  <2>1. PICK a : a = at[i] /\ a = bt[i] /\ a \in 1..z
    BY <1>1, <1>5, <1>6 DEF Parses, Enumerates
  <2>2. Stretches(f, a, end[i], z) /\ Stretches(g, a, fin[i], z)
    BY <1>1, <1>2, <1>6, <2>1 DEF Parses
  <2>3. end[i] = fin[i]
    <3>1. z \in Nat /\ \A x \in 1..z : f[x] = g[x]
      BY <1>4
    <3> QED
      BY <3>1, <2>1, <2>2, StretchesOnce
  <2>4. PICK j : j = end[i] /\ j \in a..(z - 1)
    BY <2>2 DEF Stretches
  <2>5. SubSeq(f, a, j) = SubSeq(g, a, j) /\ f[a] = g[a]
    <3>1. a \in 1..z /\ j \in a..z /\ z \in Nat
      BY <1>4, <2>1, <2>4
    <3>2. SubSeq(f, a, j) = [x \in 1..(j - a + 1) |-> f[a + x - 1]]
      BY <3>1
    <3>3. SubSeq(g, a, j) = [x \in 1..(j - a + 1) |-> g[a + x - 1]]
      BY <3>1
    <3>4. \A x \in 1..(j - a + 1) : a + x - 1 \in 1..e
      BY <3>1, <1>4
    <3> QED
      BY <3>1, <3>2, <3>3, <3>4, <1>4
  <2>6. Parsed(f, a, j) = Parsed(g, a, j)
    BY <2>5 DEF Parsed, BlockAt
  <2> QED
    BY <2>1, <2>3, <2>4, <2>6
<1> QED
  BY <1>1, <1>2, <1>6, <1>7 DEF Parses

-----------------------------------------------------------------------------
(* The removed deployments. *)

\* Every line that follows a gap breaks blocks.
Breaking(f, D) ==
  \A r \in D : r - 1 \in 1..Len(f) => r - 1 \in D \/ f[r].k \in {"blank", "model_name"}

\* Lines b to l are those that are from lines a to j.
Covers(h, n, b, l, a, j) == \A x \in 1..n : x \in b..l <=> h[x] \in a..j

\* The block that starts on a line that is there ends behind what is left of
\* the block it was.
LEMMA StretchDrawn ==
  ASSUME NEW f, NEW L \in Nat, Len(f) = L, NEW g, NEW h, NEW D, NEW n \in Nat,
         Drawn(g, f, h, D, n), Breaking(f, D),
         NEW z \in 1..L, NEW a \in 1..L, NEW j, Stretches(f, a, j, z),
         NEW y \in 1..n, NEW b \in 1..n, NEW l, Stretches(g, b, l, y), h[b] = a
  PROVE  Covers(h, n, b, l, a, j)
<1>1. /\ h \in [1..n -> D] /\ D \subseteq 1..L
      /\ \A x \in D : \E i \in 1..n : h[i] = x
      /\ \A i, x \in 1..n : i < x => h[i] < h[x]
      /\ \A x \in 1..n : g[x] = f[h[x]]
  BY DEF Drawn
<1>2. /\ j \in a..(z - 1) /\ f[j + 1].k \in {"blank", "model_name"}
      /\ \A x \in (a + 1)..j : f[x].k \notin {"blank", "model_name"}
  BY DEF Stretches
<1>3. /\ l \in b..(y - 1) /\ g[l + 1].k \in {"blank", "model_name"}
      /\ \A x \in (b + 1)..l : g[x].k \notin {"blank", "model_name"}
  BY DEF Stretches
<1>4. j \in 1..L /\ j + 1 \in 1..L /\ l \in 1..n /\ l + 1 \in 1..n
  BY <1>2, <1>3
<1>5. ASSUME NEW x \in b..l PROVE h[x] \in a..j
  <2>1. x \in 1..n /\ h[x] \in 1..L /\ a <= h[x]
    <3>1. x \in 1..n /\ (x = b \/ b < x)
      BY <1>4
    <3>2. h[x] \in 1..L /\ (x = b \/ h[b] < h[x])
      BY <3>1, <1>1
    <3> QED
      BY <3>1, <3>2
  <2> SUFFICES ASSUME j < h[x] PROVE FALSE
    BY <2>1, <1>4
  <2> DEFINE S == {d \in D : j < d}
  <2>2. S \in SUBSET (1..L) /\ h[x] \in S
    BY <1>1, <2>1
  <2>3. PICK r \in S : \A d \in S : r <= d
    BY <2>2, MinUpTo
  <2>4. r \in D /\ r \in 1..L /\ j < r /\ r <= h[x]
    BY <2>2, <2>3
  <2>5. r - 1 \in 1..L /\ (r - 1 \in D => r = j + 1)
    <3>1. r - 1 \in 1..L
      BY <2>4, <1>4
    <3>2. ASSUME r - 1 \in D, r # j + 1 PROVE FALSE
      <4>1. r - 1 \in S
        BY <3>2, <2>4, <1>4
      <4> QED
        BY <4>1, <2>3, <2>4
    <3> QED
      BY <3>1, <3>2
  <2>6. f[r].k \in {"blank", "model_name"}
    BY <2>4, <2>5, <1>2 DEF Breaking
  <2>7. PICK w \in 1..n : h[w] = r
    BY <2>4, <1>1
  <2>8. b < w /\ w <= x
    <3>1. ~(w < b) /\ w # b
      <4>1. h[b] < h[w]
        BY <2>4, <2>7, <1>2, <1>4
      <4> QED
        BY <4>1, <1>1, <2>4, <2>7
    <3>2. ~(x < w)
      <4>1. x < w => h[x] < h[w]
        BY <1>1, <2>1
      <4> QED
        BY <4>1, <2>1, <2>4, <2>7
    <3> QED
      BY <3>1, <3>2, <2>1
  <2>9. w \in (b + 1)..l /\ g[w].k \in {"blank", "model_name"}
    BY <2>6, <2>7, <2>8, <1>1, <1>4
  <2> QED
    BY <2>9, <1>3
<1>6. ASSUME NEW x \in 1..n, h[x] \in a..j PROVE x \in b..l
  <2>1. b <= x
    <3>1. x < b => h[x] < h[b]
      BY <1>1
    <3> QED
      BY <3>1, <1>6, <1>4
  <2>2. ~(l < x)
    <3> SUFFICES ASSUME l < x PROVE FALSE
      OBVIOUS
    <3>1. b < l + 1 /\ (l + 1 = x \/ l + 1 < x)
      BY <1>3, <1>4
    <3>2. h[b] < h[l + 1] /\ (l + 1 = x \/ h[l + 1] < h[x]) /\ h[l + 1] \in 1..L
      BY <3>1, <1>1, <1>4
    <3>3. h[l + 1] \in (a + 1)..j
      BY <3>2, <1>6, <1>4
    <3>4. g[l + 1] = f[h[l + 1]]
      BY <1>1, <1>4
    <3> QED
      BY <3>3, <3>4, <1>2, <1>3
  <2> QED
    BY <2>1, <2>2, <1>4
<1> QED
  BY <1>5, <1>6 DEF Covers

\* No line of kind k of these is missing.
Whole(f, a, j, k, D) == \A x \in a..j : f[x].k = k => x \in D

\* So it has the lines of each kind that are all there.
LEMMA PartDrawn ==
  ASSUME NEW f \in Seq(Line), NEW L \in Nat, Len(f) = L, NEW g \in Seq(Line), NEW h, NEW D, NEW n \in Nat,
         Drawn(g, f, h, D, n), NEW a \in 1..L, NEW j \in a..L, NEW b \in 1..n, NEW l \in b..n,
         Covers(h, n, b, l, a, j), NEW k, Whole(f, a, j, k, D)
  PROVE  Part(g, b, l, k) = Part(f, a, j, k)
<1>1. /\ h \in [1..n -> D] /\ D \subseteq 1..L /\ Len(g) = n
      /\ \A x \in D : \E i \in 1..n : h[i] = x
      /\ \A i, x \in 1..n : i < x => h[i] < h[x]
      /\ \A x \in 1..n : g[x] = f[h[x]]
      /\ \A x \in 1..n : x \in b..l <=> h[x] \in a..j
      /\ \A x \in a..j : f[x].k = k => x \in D
  BY DEF Drawn, Covers, Whole
<1> DEFINE S == {x \in b..l : g[x].k = k}
           T == {x \in a..j : f[x].k = k}
<1>2. Lists(Part(g, b, l, k), g, S, Upward) /\ Lists(Part(f, a, j, k), f, T, Upward)
  <2>1. b \in 1..Len(g) /\ l \in b..Len(g) /\ a \in 1..Len(f) /\ j \in a..Len(f)
    BY <1>1
  <2>2. Lists(Part(g, b, l, k), g, {x \in b..l : g[x].k = k}, Upward)
    BY <2>1, PartIs
  <2>3. Lists(Part(f, a, j, k), f, {x \in a..j : f[x].k = k}, Upward)
    BY <2>1, PartIs
  <2> QED
    BY <2>2, <2>3
<1>3. S \subseteq Nat /\ T \subseteq Nat /\ S \subseteq 1..n
  OBVIOUS
<1>4. \A x \in S : h[x] \in T /\ g[x] = f[h[x]]
  BY <1>1
<1>5. \A y \in T : \E x \in S : h[x] = y
  <2> TAKE y \in T
  <2>1. y \in D /\ y \in a..j /\ f[y].k = k
    BY <1>1
  <2>2. PICK x \in 1..n : h[x] = y
    BY <2>1, <1>1
  <2>3. x \in S
    BY <2>1, <2>2, <1>1
  <2> QED
    BY <2>2, <2>3
<1>6. \A x, y \in S : x < y => h[x] < h[y]
  BY <1>1, <1>3
<1> HIDE DEF S, T
<1>7. Lists(Part(g, b, l, k), f, T, Upward)
  BY <1>2, <1>3, <1>4, <1>5, <1>6, ListsFrom
<1>8. \A x, y \in T : <<x, y>> \in Upward => <<y, x>> \notin Upward
  BY DEF Upward
<1> QED
  BY <1>2, <1>7, <1>8, ListsUnique

\* A block's header is comments and blank lines.
LEMMA HeaderIs ==
  ASSUME NEW f \in Seq(Line), NEW b, b.start \in Starts(f)
  PROVE  /\ HeaderStart(f, b) \in (ListStart(f) + 1)..b.start
         /\ \A i \in HeaderStart(f, b)..(b.start - 1) : f[i].k \in {"blank", "header"}
<1> DEFINE furthest == IF b.start - MAX_HEADER_LINES > ListStart(f)
                       THEN b.start - MAX_HEADER_LINES ELSE ListStart(f)
           above == {j \in (furthest + 1)..(b.start - 1) :
                       /\ f[j].k = "header"
                       /\ \A i \in j..(b.start - 1) : f[i].k \in {"blank", "header"}}
<1>1. PICK n \in Nat : n = Len(f)
  OBVIOUS
<1>2. ListStart(f) \in 0..n /\ b.start \in (ListStart(f) + 1)..n
  BY <1>1, ListStartIs, StartsIn
<1>3. furthest \in Nat /\ furthest >= ListStart(f)
  BY <1>2, RenderAssumption
<1> HIDE DEF furthest
<1>4. above \in SUBSET (1..n)
      /\ \A i \in above : /\ i \in (ListStart(f) + 1)..b.start
                          /\ \A x \in i..(b.start - 1) : f[x].k \in {"blank", "header"}
  BY <1>2, <1>3
<1>5. HeaderStart(f, b) = CHOOSE j \in above \union {b.start} : \A i \in above : j <= i
  BY DEF HeaderStart, above, furthest
<1> HIDE DEF above
<1>6. \E j \in above \union {b.start} : \A i \in above : j <= i
  <2>1. CASE above = {}
    BY <2>1
  <2>2. CASE above # {}
    BY <2>2, <1>4, MinUpTo
  <2> QED
    BY <2>1, <2>2
<1>7. HeaderStart(f, b) \in above \union {b.start}
  BY <1>5, <1>6
<1>8. PICK j, a : j = HeaderStart(f, b) /\ a = b.start /\ (j \in above \/ j = a)
  BY <1>7
<1>9. j \in (ListStart(f) + 1)..a
  <2>1. CASE j \in above
    BY <2>1, <1>4, <1>8
  <2>2. CASE j = a
    <3>1. a \in (ListStart(f) + 1)..n /\ ListStart(f) \in Nat
      BY <1>2, <1>8
    <3> QED
      BY <2>2, <3>1
  <2> QED
    BY <1>8, <2>1, <2>2
<1>10. ASSUME NEW i \in j..(a - 1) PROVE f[i].k \in {"blank", "header"}
  <2>1. j # a
    BY <1>9, <1>2, <1>8
  <2> QED
    BY <2>1, <1>4, <1>8
<1> QED
  BY <1>8, <1>9, <1>10

LEMMA FactsOfIs ==
  ASSUME NEW n \in Nat, NEW b, b = [i \in 1..n |-> b[i]]
  PROVE  Len(b) = n /\ FactsOf(b) = [i \in 1..n |-> Facts(b[i])]
<1>1. Len(b) = n
  <2> DEFINE c == [i \in 1..n |-> b[i]]
             E == {b[i] : i \in 1..n}
  <2>1. c \in [1..n -> E]
    OBVIOUS
  <2> HIDE DEF c, E
  <2>2. Len(c) = n
    BY <2>1
  <2>3. b = c
    BY DEF c
  <2> QED
    BY <2>2, <2>3
<1> DEFINE E == {Facts(b[i]) : i \in 1..n}
           x == [i \in 1..n |-> Facts(b[i])]
           ss == [i \in 1..n |-> <<x[i]>>]
<1>2. FactsOf(b) = FlattenSeq(ss)
  BY <1>1 DEF FactsOf, Concat
<1>3. x \in [1..n -> E]
  OBVIOUS
<1> HIDE DEF x, E
<1>4. FlattenSeq(ss) = x
  BY <1>3, FlattenSingles
<1> QED
  BY <1>1, <1>2, <1>4 DEF x

\* The lines D are what removing all blocks but K leaves.
Remains(f, b, n, at, end, s, z, K, D) ==
  /\ Parses(b, f, n, at, end, z) /\ K \subseteq 1..n /\ D \subseteq 1..Len(f)
  /\ Breaking(f, D)
  /\ \A m \in 1..n : at[m] \in D <=> m \in K
  /\ \A m \in K : \A x \in at[m]..end[m] : x \in D \/ f[x].k = "header"
  /\ \A x \in 1..Len(f) : x <= s \/ z <= x => x \in D

\* Each block goes with its header, up to a line that breaks blocks.
LEMMA RangesRemain ==
  ASSUME NEW f \in Seq(Settled), NEW L \in Nat, Len(f) = L, NEW s, NEW z, NEW e, ListIs(f, s, z, e),
         NEW b, NEW n, NEW at, NEW end, Parses(b, f, n, at, end, z), NEW K \in SUBSET (1..n),
         NEW from, NEW D,
         \A m \in 1..n : /\ from[m] \in (s + 1)..at[m]
                         /\ \A i \in from[m]..(at[m] - 1) : f[i].k \in {"blank", "header"},
         D = {x \in 1..L : \A m \in (1..n) \ K : x \notin from[m]..end[m]}
  PROVE  Remains(f, b, n, at, end, s, z, K, D)
<1>1. s \in 1..L /\ z \in 1..L /\ (z = s \/ f[z].k = "blank")
  BY DEF ListIs
<1>2. /\ n \in Nat /\ at \in [1..n -> Starts(f)]
      /\ \A i, j \in 1..n : i < j => at[i] < at[j]
  BY DEF Parses, Enumerates, Upward
<1>3. ASSUME NEW m \in 1..n
      PROVE  /\ at[m] \in 1..L /\ s < at[m] /\ at[m] < z /\ f[at[m]].k = "model_name"
             /\ end[m] \in at[m]..(z - 1) /\ f[end[m] + 1].k \in {"blank", "model_name"}
             /\ \A x \in (at[m] + 1)..end[m] : f[x].k \notin {"blank", "model_name"}
             /\ from[m] \in (s + 1)..at[m]
             /\ \A i \in from[m]..(at[m] - 1) : f[i].k \in {"blank", "header"}
  <2>1. at[m] \in Starts(f)
    BY <1>2
  <2>2. at[m] \in 1..L /\ s < at[m] /\ at[m] < z /\ f[at[m]].k = "model_name"
    BY <2>1, StartsAre
  <2>3. Stretches(f, at[m], end[m], z)
    BY DEF Parses
  <2> QED
    BY <2>2, <2>3 DEF Stretches
<1>4. ASSUME NEW m \in 1..n, NEW l \in 1..n, m # l PROVE at[m] \notin at[l]..end[l]
  <2>1. at[m] # at[l]
    <3>1. m < l \/ l < m
      BY <1>2, <1>4
    <3>2. at[m] < at[l] \/ at[l] < at[m]
      BY <3>1, <1>2
    <3>3. at[m] \in Nat /\ at[l] \in Nat
      BY <1>3
    <3> QED
      BY <3>2, <3>3
  <2>2. f[at[m]].k = "model_name" /\ at[m] \in Nat /\ at[l] \in Nat /\ end[l] \in Nat
    <3>1. at[m] \in Nat /\ f[at[m]].k = "model_name"
      BY <1>3
    <3>2. at[l] \in 1..L /\ end[l] \in at[l]..(z - 1)
      BY <1>3
    <3> QED
      BY <3>1, <3>2, <1>1
  <2>3. at[m] \notin (at[l] + 1)..end[l]
    BY <2>2, <1>3
  <2> QED
    BY <2>1, <2>2, <2>3
<1>5. D \subseteq 1..L
  OBVIOUS
<1>6. Breaking(f, D)
  <2> SUFFICES ASSUME NEW r \in D, r - 1 \in 1..L, r - 1 \notin D PROVE f[r].k \in {"blank", "model_name"}
    BY DEF Breaking
  <2>1. PICK m \in (1..n) \ K : r - 1 \in from[m]..end[m]
    OBVIOUS
  <2>2. r \notin from[m]..end[m] /\ r \in 1..L
    BY <2>1
  <2>3. from[m] \in Nat /\ end[m] \in Nat /\ f[end[m] + 1].k \in {"blank", "model_name"}
    <3>1. m \in 1..n
      BY <2>1
    <3>2. at[m] \in 1..L /\ from[m] \in (s + 1)..at[m] /\ end[m] \in at[m]..(z - 1)
          /\ f[end[m] + 1].k \in {"blank", "model_name"}
      BY <3>1, <1>3
    <3> QED
      BY <3>2, <1>1
  <2>4. r = end[m] + 1
    BY <2>1, <2>2, <2>3
  <2> QED
    BY <2>3, <2>4
<1>7. ASSUME NEW m \in K, NEW x \in at[m]..end[m], x \notin D PROVE f[x].k = "header" /\ x # at[m]
  <2>0. m \in 1..n /\ at[m] \in 1..L /\ end[m] \in at[m]..(z - 1) /\ x \in 1..L
    <3>1. m \in 1..n
      OBVIOUS
    <3>2. at[m] \in 1..L /\ end[m] \in at[m]..(z - 1)
      BY <3>1, <1>3
    <3> QED
      BY <3>1, <3>2, <1>1
  <2>1. PICK l \in (1..n) \ K : x \in from[l]..end[l]
    BY <1>7, <2>0
  <2>2. l \in 1..n /\ l # m
    BY <2>1
  <2>3. at[l] \in 1..L /\ end[l] \in at[l]..(z - 1) /\ from[l] \in (s + 1)..at[l]
    BY <2>2, <1>3
  <2>4. CASE x < at[l]
    <3>1. x \in from[l]..(at[l] - 1)
      BY <2>1, <2>3, <2>4, <1>1
    <3>2. f[x].k \in {"blank", "header"}
      BY <3>1, <2>2, <1>3
    <3>3. f[at[m]].k = "model_name" /\ \A i \in (at[m] + 1)..end[m] : f[i].k \notin {"blank", "model_name"}
      BY <2>0, <1>3
    <3>4. x = at[m] \/ x \in (at[m] + 1)..end[m]
      BY <2>0
    <3> QED
      BY <3>2, <3>3, <3>4
  <2>5. CASE ~(x < at[l])
    <3>1. x \in at[l]..end[l] /\ x \in at[m]..end[m]
      BY <2>1, <2>3, <2>5, <1>1
    <3>2. at[m] \notin at[l]..end[l] /\ at[l] \notin at[m]..end[m]
      BY <2>0, <2>2, <1>4
    <3> QED
      BY <3>1, <3>2, <2>0, <2>3, <1>1
  <2> QED
    BY <2>4, <2>5
<1>8. ASSUME NEW m \in 1..n PROVE at[m] \in D <=> m \in K
  <2>1. at[m] \in 1..L /\ end[m] \in at[m]..(z - 1) /\ from[m] \in (s + 1)..at[m]
    BY <1>3
  <2>2. at[m] \in from[m]..end[m] /\ at[m] \in at[m]..end[m]
    BY <2>1, <1>1
  <2>3. m \notin K => at[m] \notin D
    BY <2>2
  <2>4. m \in K => at[m] \in D
    BY <2>2, <1>7
  <2> QED
    BY <2>3, <2>4
<1>9. ASSUME NEW x \in 1..L, x <= s \/ z <= x PROVE x \in D
  <2> SUFFICES ASSUME NEW m \in 1..n, x \in from[m]..end[m] PROVE FALSE
    OBVIOUS
  <2>1. at[m] \in 1..L /\ end[m] \in at[m]..(z - 1) /\ from[m] \in (s + 1)..at[m]
    BY <1>3
  <2> QED
    BY <2>1, <1>1, <1>9
<1> QED
  BY <1>5, <1>6, <1>7, <1>8, <1>9 DEF Remains

\* What is left has the facts of the blocks that stay.
LEMMA FactsRemain ==
  ASSUME NEW f \in Seq(Settled), NEW L \in Nat, Len(f) = L, NEW s, NEW z, NEW e, ListIs(f, s, z, e),
         NEW b, NEW n, NEW at, NEW end, NEW K, NEW D, Remains(f, b, n, at, end, s, z, K, D),
         NEW g \in Seq(Settled), NEW h, NEW N, Drawn(g, f, h, D, N),
         NEW w, NEW y, NEW x, ListIs(g, w, y, x),
         NEW c \in Nat, NEW kappa, Enumerates(kappa, c, K, Upward)
  PROVE  FactsOf(ParseBlocks(g)) = [i \in 1..c |-> Facts(b[kappa[i]])]
<1>1. PICK m, bt, fin : Parses(ParseBlocks(g), g, m, bt, fin, y)
  BY BlocksParsed
<1>2. /\ n \in Nat /\ at \in [1..n -> Starts(f)] /\ m \in Nat /\ bt \in [1..m -> Starts(g)]
      /\ \A i \in Starts(f) : \E j \in 1..n : at[j] = i
      /\ \A i \in Starts(g) : \E j \in 1..m : bt[j] = i
      /\ \A i, j \in 1..n : i < j => at[i] < at[j]
      /\ \A i, j \in 1..m : i < j => bt[i] < bt[j]
      /\ K \subseteq 1..n /\ kappa \in [1..c -> K]
      /\ \A i \in K : \E j \in 1..c : kappa[j] = i
      /\ \A i, j \in 1..c : i < j => kappa[i] < kappa[j]
  BY <1>1 DEF Remains, Parses, Enumerates, Upward
<1>3. /\ h \in [1..N -> D] /\ D \subseteq 1..L /\ Len(g) = N /\ N \in Nat
      /\ \A i \in D : \E j \in 1..N : h[j] = i
      /\ \A i, j \in 1..N : i < j => h[i] < h[j]
      /\ \A i \in 1..N : g[i] = f[h[i]]
  BY DEF Drawn
<1>4. /\ \A i \in 1..L : i \in Starts(f) <=> f[i].k = "model_name"
      /\ \A i \in Starts(f) : i \in 1..L
      /\ \A i \in 1..N : i \in Starts(g) <=> g[i].k = "model_name"
      /\ \A i \in Starts(g) : i \in 1..N
  BY <1>3, StartsAre
<1> DEFINE T == {at[i] : i \in K}
           p == [i \in 1..m |-> h[bt[i]]]
           q == [i \in 1..c |-> at[kappa[i]]]
<1>5. \A i \in 1..n : at[i] \in D <=> i \in K
  BY DEF Remains
<1>6. Enumerates(p, m, T, Upward)
  <2>1. ASSUME NEW i \in 1..m PROVE p[i] \in T
    <3>1. bt[i] \in 1..N /\ g[bt[i]].k = "model_name"
      BY <1>2, <1>4
    <3>2. h[bt[i]] \in D /\ h[bt[i]] \in 1..L /\ f[h[bt[i]]].k = "model_name"
      BY <3>1, <1>3
    <3>3. PICK j \in 1..n : at[j] = h[bt[i]]
      BY <3>2, <1>2, <1>4
    <3> QED
      BY <3>2, <3>3, <1>5
  <2>2. ASSUME NEW t \in T PROVE \E i \in 1..m : p[i] = t
    <3>1. PICK j \in K : t = at[j]
      OBVIOUS
    <3>2. t \in D /\ t \in 1..L /\ f[t].k = "model_name"
      BY <3>1, <1>2, <1>4, <1>5
    <3>3. PICK i \in 1..N : h[i] = t
      BY <3>2, <1>3
    <3>4. i \in Starts(g)
      BY <3>2, <3>3, <1>3, <1>4
    <3> QED
      BY <3>3, <3>4, <1>2
  <2>3. ASSUME NEW i \in 1..m, NEW j \in 1..m, i < j PROVE <<p[i], p[j]>> \in Upward
    <3>1. bt[i] \in 1..N /\ bt[j] \in 1..N /\ bt[i] < bt[j]
      BY <2>3, <1>2, <1>4
    <3>2. h[bt[i]] \in 1..L /\ h[bt[j]] \in 1..L /\ h[bt[i]] < h[bt[j]]
      BY <3>1, <1>3
    <3> QED
      BY <3>2 DEF Upward
  <2>4. p \in [1..m -> T]
    BY <2>1
  <2> HIDE DEF p, T
  <2> QED
    BY <2>2, <2>3, <2>4 DEF Enumerates
<1>7. Enumerates(q, c, T, Upward)
  <2>1. q \in [1..c -> T]
    BY <1>2
  <2>2. ASSUME NEW t \in T PROVE \E i \in 1..c : q[i] = t
    BY <1>2
  <2>3. ASSUME NEW i \in 1..c, NEW j \in 1..c, i < j PROVE <<q[i], q[j]>> \in Upward
    <3>1. kappa[i] \in 1..n /\ kappa[j] \in 1..n /\ kappa[i] < kappa[j]
      BY <2>3, <1>2
    <3>2. at[kappa[i]] \in 1..L /\ at[kappa[j]] \in 1..L /\ at[kappa[i]] < at[kappa[j]]
      BY <3>1, <1>2, <1>4
    <3> QED
      BY <3>2 DEF Upward
  <2> HIDE DEF q, T
  <2> QED
    BY <2>1, <2>2, <2>3 DEF Enumerates
<1>8. m = c /\ p = q
  <2>1. \A i, j \in T : <<i, j>> \in Upward => <<j, i>> \notin Upward
    BY DEF Upward
  <2> HIDE DEF p, q, T
  <2> QED
    BY <2>1, <1>2, <1>6, <1>7, EnumerationUnique
<1>9. f \in Seq(Line) /\ g \in Seq(Line)
  BY Subsets, SeqMono
<1>10. z \in 1..L /\ y \in 1..N
  BY <1>3 DEF ListIs
<1>11. ASSUME NEW i \in 1..c PROVE Facts(ParseBlocks(g)[i]) = Facts(b[kappa[i]])
  <2>1. PICK l : l = kappa[i] /\ l \in K /\ l \in 1..n
    BY <1>2
  <2>2. PICK a : a = at[l] /\ a \in 1..L
    BY <2>1, <1>2, <1>4
  <2>3. PICK d : d = bt[i] /\ d \in 1..N /\ h[d] = a
    <3>1. i \in 1..m /\ p[i] = q[i]
      BY <1>8
    <3>2. h[bt[i]] = at[kappa[i]] /\ bt[i] \in 1..N
      BY <3>1, <1>2, <1>4
    <3> QED
      BY <3>2, <2>1, <2>2
  <2>4. PICK j : j = end[l] /\ Stretches(f, a, j, z)
    BY <2>1, <2>2 DEF Remains, Parses
  <2>5. PICK r : r = fin[i] /\ Stretches(g, d, r, y)
    BY <2>3, <1>1, <1>8 DEF Parses
  <2>6. j \in a..L /\ r \in d..N
    <3>1. j \in a..(z - 1) /\ r \in d..(y - 1)
      BY <2>4, <2>5 DEF Stretches
    <3> QED
      BY <3>1, <2>2, <2>3, <1>3, <1>10
  <2>7. Covers(h, N, d, r, a, j)
    <3>1. Breaking(f, D) /\ N \in Nat
      BY <1>3 DEF Remains
    <3> QED
      BY <3>1, <2>2, <2>3, <2>4, <2>5, <1>10, StretchDrawn
  <2>8. \A t \in a..j : t \in D \/ f[t].k = "header"
    BY <2>1, <2>2, <2>4 DEF Remains
  <2>9. ASSUME NEW k \in {"model", "api_base", "mode"} PROVE Part(g, d, r, k) = Part(f, a, j, k)
    <3>1. Whole(f, a, j, k, D)
      BY <2>8 DEF Whole
    <3>2. N \in Nat
      BY <1>3
    <3> QED
      BY <3>1, <3>2, <2>2, <2>3, <2>6, <2>7, <1>9, PartDrawn
  <2>10. g[d].name = f[a].name
    BY <2>3, <1>3
  <2>11. ParseBlocks(g)[i] = Parsed(g, d, r) /\ b[kappa[i]] = Parsed(f, a, j)
    <3>1. b[l] = Parsed(f, at[l], end[l])
      BY <2>1 DEF Remains, Parses
    <3>2. i \in 1..m /\ ParseBlocks(g)[i] = Parsed(g, bt[i], fin[i])
      BY <1>1, <1>8 DEF Parses
    <3> QED
      BY <3>1, <3>2, <2>1, <2>2, <2>3, <2>4, <2>5
  <2>12. a \in 1..Len(f) /\ j \in a..Len(f) /\ d \in 1..Len(g) /\ r \in d..Len(g)
    BY <2>2, <2>3, <2>6, <1>3
  <2>13. Facts(Parsed(g, d, r)) =
           FactsFrom(g[d].name, Part(g, d, r, "model"), Part(g, d, r, "api_base"), Part(g, d, r, "mode"))
    BY <2>12, <1>9, ParsedFacts
  <2>14. Facts(Parsed(f, a, j)) =
           FactsFrom(f[a].name, Part(f, a, j, "model"), Part(f, a, j, "api_base"), Part(f, a, j, "mode"))
    BY <2>12, <1>9, ParsedFacts
  <2> QED
    BY <2>9, <2>10, <2>11, <2>13, <2>14
<1>12. FactsOf(ParseBlocks(g)) = [i \in 1..m |-> Facts(ParseBlocks(g)[i])]
  <2>1. ParseBlocks(g) = [i \in 1..m |-> ParseBlocks(g)[i]]
    <3>1. ParseBlocks(g) = [i \in 1..m |-> Parsed(g, bt[i], fin[i])]
      BY <1>1 DEF Parses
    <3> HIDE DEF p, q, T
    <3> QED
      BY <3>1
  <2> DEFINE B == ParseBlocks(g)
  <2>2. m \in Nat /\ B = [i \in 1..m |-> B[i]]
    BY <2>1, <1>2
  <2> HIDE DEF B
  <2>3. FactsOf(B) = [i \in 1..m |-> Facts(B[i])]
    BY <2>2, FactsOfIs, Zenon
  <2> QED
    BY <2>3 DEF B
<1> QED
  BY <1>8, <1>11, <1>12

\* The blocks whose keys are set.
Staying(f, env1) == Filter(ParseBlocks(f), LAMBDA b : Kept(b, env1))

\* t are the blocks K of b, in their order.
Chosen(t, b, K, c, kappa) ==
  c \in Nat /\ Enumerates(kappa, c, K, Upward) /\ t = [i \in 1..c |-> b[kappa[i]]]

LEMMA StayingIs ==
  ASSUME NEW f, NEW b, b = ParseBlocks(f), NEW n \in Nat, b = [i \in 1..n |-> b[i]], NEW env1,
         NEW K, K = {m \in 1..n : Kept(b[m], env1)}
  PROVE  \E c, kappa : Chosen(Staying(f, env1), b, K, c, kappa)
<1> DEFINE E == {b[i] : i \in 1..n}
           W == {x \in ToSet(b) : Kept(x, env1)}
           I == {i \in 1..Len(b) : b[i] \in W}
<1>1. b \in Seq(E) /\ Len(b) = n
  <2>1. b \in [1..n -> E]
    OBVIOUS
  <2> QED
    BY <2>1
<1>2. Staying(f, env1) = Only(b, W)
  BY DEF Staying, Filter
<1>3. \A i \in 1..n : b[i] \in ToSet(b)
  BY <1>1 DEF ToSet
<1>4. I = K
  BY <1>1, <1>3
<1> HIDE DEF W, E
<1>50. PICK c \in Nat : \E kappa : Keeps(Only(b, W), b, W, c, kappa)
  BY <1>1, OnlyEnumerates
<1>5. PICK kappa : Keeps(Only(b, W), b, W, c, kappa)
  BY <1>50
<1>6. Enumerates(kappa, c, I, Upward) /\ Only(b, W) = [i \in 1..c |-> b[kappa[i]]]
  BY <1>5 DEF Keeps
<1> HIDE DEF I
<1>7. Enumerates(kappa, c, K, Upward)
  BY <1>4, <1>6
<1>8. Staying(f, env1) = [i \in 1..c |-> b[kappa[i]]]
  BY <1>2, <1>6, Zenon
<1>9. Chosen(Staying(f, env1), b, K, c, kappa)
  BY <1>7, <1>8, Zenon DEF Chosen
<1> QED
  BY <1>9, Zenon

\* RemoveBlocks keeps the lines that no block or header that goes covers.
LEMMA RemovedLines ==
  ASSUME NEW f \in Seq(Line), NEW L \in Nat, Len(f) = L, NEW b, NEW n \in Nat, DOMAIN b = 1..n, NEW env1,
         NEW D, D = {x \in 1..L : \A m \in (1..n) \ {i \in 1..n : Kept(b[i], env1)} :
                                     x \notin HeaderStart(f, b[m])..b[m].end}
  PROVE  Lists(RemoveBlocks(f, b, env1), f, D, Upward)
<1> DEFINE gone == UNION {HeaderStart(f, b[m])..b[m].end : m \in {i \in DOMAIN b : ~Kept(b[i], env1)}}
           ss == [i \in 1..L |-> IF i \in gone THEN <<>> ELSE <<f[i]>>]
<1>1. RemoveBlocks(f, b, env1) = FlattenSeq(ss)
  BY DEF RemoveBlocks, Concat
<1>2. \A i \in 1..L : i \notin gone <=> i \in D
  OBVIOUS
<1> HIDE DEF gone
<1>3. ss = [i \in 1..L |-> IF i \in D THEN <<f[i]>> ELSE <<>>]
  BY <1>2
<1> HIDE DEF ss
<1>4. D \in SUBSET (1..L)
  OBVIOUS
<1>5. \A i \in 1..L : f[i] \in Line
  OBVIOUS
<1> HIDE DEF gone
<1>6. ss \in Seq(Seq(Line)) /\ Len(ss) = L
  <2>1. \A i \in 1..L : (IF i \in D THEN <<f[i]>> ELSE <<>>) \in Seq(Line)
    <3> TAKE i \in 1..L
    <3>1. <<f[i]>> \in Seq(Line)
      BY <1>5, OneElement
    <3> QED
      BY <3>1
  <2>2. ss \in [1..L -> Seq(Line)]
    BY <2>1, <1>3
  <2> QED
    BY <2>2
<1>7. \A i \in 1..Len(ss) : ss[i] = IF i \in D THEN <<f[i]>> ELSE <<>>
  BY <1>3, <1>6
<1>8. D \in SUBSET (1..Len(ss))
  BY <1>4, <1>6
<1>9. Lists(FlattenSeq(ss), f, D, Upward)
  BY <1>6, <1>7, <1>8, FlattenThinned
<1> QED
  BY <1>1, <1>9

\* g is drawn from f, with all lines outside the list.
DrawnAround(g, f, s, z) ==
  \E h, D, n : Drawn(g, f, h, D, n) /\ \A x \in 1..Len(f) : x <= s \/ z <= x => x \in D

\* So exactly the blocks that stay are left, and what is outside the list.
LEMMA RemovedIs ==
  ASSUME NEW f, Sound(f, Fresh), NEW s, NEW z, NEW e, ListIs(f, s, z, e), NEW env1, NEW g,
         g = RemoveBlocks(f, ParseBlocks(f), env1)
  PROVE  FactsOf(ParseBlocks(g)) = FactsOf(Staying(f, env1)) /\ DrawnAround(g, f, s, z)
<1>1. f \in Seq(Fresh)
  BY DEF Sound, Framed
<1>2. f \in Seq(Settled) /\ f \in Seq(Line)
  BY <1>1, Subsets, SeqMono
<1>3. PICK L \in Nat : L = Len(f)
  BY <1>2
<1>4. Sound(g, Fresh)
  BY RemoveSound
<1>5. PICK w, y, x : g \in Seq(Fresh) /\ ListIs(g, w, y, x)
  BY <1>4 DEF Sound, Framed
<1>6. g \in Seq(Settled)
  BY <1>5, Subsets, SeqMono
<1> DEFINE b == ParseBlocks(f)
<1>7. PICK n, at, end : Parses(b, f, n, at, end, z)
  BY <1>2, BlocksParsed
<1> HIDE DEF b
<1>8. /\ n \in Nat /\ at \in [1..n -> Starts(f)]
      /\ b = [i \in 1..n |-> Parsed(f, at[i], end[i])]
      /\ \A i \in 1..n : Stretches(f, at[i], end[i], z)
  BY <1>7 DEF Parses, Enumerates
<1>9. DOMAIN b = 1..n /\ \A m \in 1..n : b[m] = Parsed(f, at[m], end[m])
  BY <1>8
<1>10. s \in 1..L /\ z \in 1..L /\ ListStart(f) = s
  BY <1>2, <1>3, Bounds DEF ListIs
<1>11. ASSUME NEW m \in 1..n PROVE b[m].start = at[m] /\ b[m].end = end[m] /\ at[m] \in Starts(f)
  <2>1. at[m] \in Starts(f)
    BY <1>8
  <2>2. at[m] \in 1..L
    BY <2>1, <1>2, <1>3, StartsAre
  <2>3. end[m] \in at[m]..(z - 1)
    BY <1>8 DEF Stretches
  <2>4. at[m] \in 1..Len(f) /\ end[m] \in at[m]..Len(f)
    BY <2>2, <2>3, <1>3, <1>10
  <2>5. Parsed(f, at[m], end[m]).start = at[m] /\ Parsed(f, at[m], end[m]).end = end[m]
    BY <2>4, <1>2, ParsedFacts
  <2> QED
    BY <2>1, <2>5, <1>9
<1> DEFINE K == {m \in 1..n : Kept(b[m], env1)}
           from == [m \in 1..n |-> HeaderStart(f, b[m])]
           D == {x1 \in 1..L : \A m \in (1..n) \ K : x1 \notin from[m]..end[m]}
<1>12. \A m \in 1..n : /\ from[m] \in (s + 1)..at[m]
                       /\ \A i \in from[m]..(at[m] - 1) : f[i].k \in {"blank", "header"}
  <2> TAKE m \in 1..n
  <2>1. b[m].start \in Starts(f)
    BY <1>11
  <2>2. /\ HeaderStart(f, b[m]) \in (ListStart(f) + 1)..b[m].start
        /\ \A i \in HeaderStart(f, b[m])..(b[m].start - 1) : f[i].k \in {"blank", "header"}
    BY <2>1, <1>2, HeaderIs
  <2> QED
    BY <2>2, <1>10, <1>11
<1>13. Lists(g, f, D, Upward)
  <2>1. D = {x1 \in 1..L : \A m \in (1..n) \ {i \in 1..n : Kept(b[i], env1)} :
                             x1 \notin HeaderStart(f, b[m])..b[m].end}
    BY <1>11
  <2> HIDE DEF D, K, from
  <2>2. Lists(RemoveBlocks(f, b, env1), f, D, Upward)
    BY <2>1, <1>2, <1>3, <1>8, <1>9, RemovedLines
  <2> QED
    BY <2>2 DEF b
<1>14. D \subseteq 1..L /\ K \in SUBSET (1..n)
  OBVIOUS
<1> HIDE DEF K, from
<1>15. Remains(f, b, n, at, end, s, z, K, D)
  <2>1. D = {x1 \in 1..L : \A m \in (1..n) \ K : x1 \notin from[m]..end[m]}
    OBVIOUS
  <2> HIDE DEF D
  <2> QED
    BY <2>1, <1>2, <1>3, <1>7, <1>12, <1>14, RangesRemain
<1> HIDE DEF D
<1>16. PICK h, N : Drawn(g, f, h, D, N)
  BY <1>2, <1>3, <1>13, <1>14, DrawnIs
<1>17. \A x1 \in 1..Len(f) : x1 <= s \/ z <= x1 => x1 \in D
  BY <1>15 DEF Remains
<1>18. b = [i \in 1..n |-> b[i]]
  BY <1>8, <1>9
<1>190. PICK c, kappa : Chosen(Staying(f, env1), b, K, c, kappa)
  <2>1. b = ParseBlocks(f) /\ n \in Nat /\ K = {m \in 1..n : Kept(b[m], env1)}
    BY <1>8 DEF b, K
  <2> QED
    BY <2>1, <1>18, StayingIs, Zenon
<1>19. /\ c \in Nat /\ Enumerates(kappa, c, K, Upward)
       /\ Staying(f, env1) = [i \in 1..c |-> b[kappa[i]]]
  BY <1>190, Zenon DEF Chosen
<1>20. FactsOf(ParseBlocks(g)) = [i \in 1..c |-> Facts(b[kappa[i]])]
  BY <1>2, <1>3, <1>5, <1>6, <1>15, <1>16, <1>19, FactsRemain
<1>21. FactsOf(Staying(f, env1)) = [i \in 1..c |-> Facts(b[kappa[i]])]
  <2> DEFINE t == Staying(f, env1)
  <2>1. \A i \in 1..c : t[i] = b[kappa[i]]
    BY <1>19
  <2>2. t = [i \in 1..c |-> t[i]]
    BY <1>19, <2>1
  <2> HIDE DEF t
  <2>0. c \in Nat
    BY <1>19
  <2>3. FactsOf(t) = [i \in 1..c |-> Facts(t[i])]
    BY <2>2, <2>0, FactsOfIs, Zenon
  <2>4. FactsOf(t) = [i \in 1..c |-> Facts(b[kappa[i]])]
    BY <2>1, <2>3
  <2> QED
    BY <2>4 DEF t
<1>22. DrawnAround(g, f, s, z)
  BY <1>16, <1>17 DEF DrawnAround
<1> QED
  BY <1>20, <1>21, <1>22

-----------------------------------------------------------------------------
(* Marked blocks. *)

\* From line a to the one before line b.
TagRun(f, a, b, tag) == f[a] = Begin(tag) /\ \A x \in (a + 1)..(b - 1) : f[x] = Marked(tag)

\* The blocks of one tag are runs of their own lines.
MarksOf(f, tag) ==
  /\ \A i \in 1..Len(f) : f[i] = Begin(tag) =>
       \E c \in (i + 1)..Len(f) : f[c] = End(tag) /\ TagRun(f, i, c, tag)
  /\ \A i \in 1..Len(f) : f[i] \in {Marked(tag), End(tag)} => \E a \in 1..(i - 1) : TagRun(f, a, i, tag)

TagLines(tag) == {Begin(tag), End(tag), Marked(tag)}

\* Lines of different tags, or kinds, differ.
LEMMA TagLinesDiffer ==
  /\ \A t, u : Begin(t) # End(u) /\ Begin(t) # Marked(u) /\ End(t) # Marked(u)
  /\ \A t, u : t # u => TagLines(t) \intersect TagLines(u) = {}
<1>1. \A t, u : Begin(t) # End(u) /\ Begin(t) # Marked(u) /\ End(t) # Marked(u)
  BY DEF Begin, End, Marked
<1>2. \A t : \A l \in TagLines(t) : l.tag = t
  BY DEF TagLines, Begin, End, Marked
<1> QED
  BY <1>1, <1>2

LEMMA MarksByTag ==
  ASSUME NEW f \in Seq(Line), Marks(f), NEW tag
  PROVE  MarksOf(f, tag)
<1>1. /\ Begin(tag).k = "begin" /\ Begin(tag).tag = tag
      /\ End(tag).k = "end" /\ End(tag).tag = tag
      /\ Marked(tag).k = "marked" /\ Marked(tag).tag = tag
  BY DEF Begin, End, Marked
<1>2. PICK n \in Nat : n = Len(f) /\ DOMAIN f = 1..n
  OBVIOUS
<1>3. ASSUME NEW i \in 1..n, f[i] = Begin(tag)
      PROVE  \E c \in (i + 1)..n : f[c] = End(tag) /\ TagRun(f, i, c, tag)
  <2>1. f[i].k = "begin" /\ f[i].tag = tag
    BY <1>1, <1>3
  <2>2. \E c \in (i + 1)..n : f[c] = End(f[i].tag) /\ \A x \in (i + 1)..(c - 1) : f[x] = Marked(f[i].tag)
    BY <2>1, <1>2 DEF Marks
  <2> QED
    BY <2>1, <2>2, <1>3 DEF TagRun
<1>4. ASSUME NEW i \in 1..n, f[i] \in {Marked(tag), End(tag)} PROVE \E a \in 1..(i - 1) : TagRun(f, a, i, tag)
  <2>1. f[i].k \in {"marked", "end"} /\ f[i].tag = tag
    BY <1>1, <1>4
  <2>2. \E a \in 1..(i - 1) : f[a] = Begin(f[i].tag) /\ \A x \in (a + 1)..(i - 1) : f[x] = Marked(f[i].tag)
    BY <2>1, <1>2 DEF Marks
  <2> QED
    BY <2>1, <2>2 DEF TagRun
<1> QED
  BY <1>2, <1>3, <1>4 DEF MarksOf

\* What is left of such blocks.
Gone(tag, active) == {Begin(tag), End(tag)} \union (IF active THEN {} ELSE {Marked(tag)})

\* Stripping the blocks of a tag drops those lines, wherever they are.
LEMMA StripIs ==
  ASSUME NEW f \in Seq(Line), NEW tag, MarksOf(f, tag), NEW active \in BOOLEAN
  PROVE  StripMarked(f, tag, active) = Only(f, Line \ Gone(tag, active))
<1> DEFINE At(mark) == {i \in DOMAIN f : f[i] = mark}
           begins == At(Begin(tag))
           ends   == At(End(tag))
           Inside(i) == \E b \in begins : b < i /\ \A x \in ends : ~(b < x /\ x < i)
           drop(i) == i \in begins \union ends \/ (Inside(i) /\ ~active)
           ss == [i \in 1..Len(f) |-> IF drop(i) THEN <<>> ELSE <<f[i]>>]
           W == Line \ Gone(tag, active)
           S == {i \in 1..Len(f) : f[i] \in W}
<1>1. PICK n \in Nat : n = Len(f) /\ DOMAIN f = 1..n
  OBVIOUS
<1>2. StripMarked(f, tag, active) = FlattenSeq(ss)
  BY DEF StripMarked, Concat, begins, ends, Inside
<1>3. \A i \in 1..n : (i \in begins <=> f[i] = Begin(tag)) /\ (i \in ends <=> f[i] = End(tag))
  BY <1>1
<1>4. begins \subseteq 1..n /\ ends \subseteq 1..n
  BY <1>1
<1> HIDE DEF begins, ends
<1>5. ASSUME NEW i \in 1..n, i \notin begins, i \notin ends PROVE Inside(i) <=> f[i] = Marked(tag)
  <2>1. ASSUME Inside(i) PROVE f[i] = Marked(tag)
    <3>1. PICK b \in begins : b < i /\ \A x \in ends : ~(b < x /\ x < i)
      BY <2>1
    <3>2. b \in 1..n /\ f[b] = Begin(tag)
      BY <1>3, <1>4
    <3>3. PICK c \in (b + 1)..n : f[c] = End(tag) /\ TagRun(f, b, c, tag)
      BY <3>2, <1>1 DEF MarksOf
    <3>4. c \in 1..n
      BY <3>2
    <3>5. c \in ends
      BY <3>3, <3>4, <1>3
    <3>6. c # i /\ b < c /\ ~(c < i)
      BY <3>1, <3>2, <3>5, <1>5
    <3>7. i \in (b + 1)..(c - 1)
      BY <3>1, <3>2, <3>4, <3>6
    <3> QED
      BY <3>3, <3>7 DEF TagRun
  <2>2. ASSUME f[i] = Marked(tag) PROVE Inside(i)
    <3>1. PICK a \in 1..(i - 1) : TagRun(f, a, i, tag)
      BY <2>2, <1>1 DEF MarksOf
    <3>2. a \in 1..n /\ a < i /\ f[a] = Begin(tag)
      BY <3>1 DEF TagRun
    <3>3. ASSUME NEW x \in ends, a < x, x < i PROVE FALSE
      <4>1. x \in 1..n /\ f[x] = End(tag)
        BY <1>3, <1>4
      <4>2. x \in (a + 1)..(i - 1)
        BY <4>1, <3>2, <3>3
      <4> QED
        BY <4>1, <4>2, <3>1, TagLinesDiffer DEF TagRun
    <3> QED
      BY <3>2, <3>3, <1>3
  <2> QED
    BY <2>1, <2>2
<1> HIDE DEF Inside
<1>6. ASSUME NEW i \in 1..n PROVE drop(i) <=> f[i] \notin W
  <2>1. f[i] \in Line
    BY <1>1
  <2>2. f[i] \notin W <=> f[i] \in Gone(tag, active)
    BY <2>1
  <2>3. f[i] \in Gone(tag, active) <=> f[i] = Begin(tag) \/ f[i] = End(tag) \/ (f[i] = Marked(tag) /\ ~active)
    BY DEF Gone
  <2> QED
    BY <2>2, <2>3, <1>3, <1>5
<1> HIDE DEF drop
<1>7. \A i \in 1..Len(ss) : ss[i] = IF i \in S THEN <<f[i]>> ELSE <<>>
  BY <1>1, <1>6
<1>8. ss \in Seq(Seq(Line)) /\ Len(ss) = n
  <2>1. \A i \in 1..n : (IF drop(i) THEN <<>> ELSE <<f[i]>>) \in Seq(Line)
    <3> TAKE i \in 1..n
    <3>1. <<f[i]>> \in Seq(Line)
      BY <1>1, OneElement
    <3> QED
      BY <3>1
  <2>2. ss \in [1..n -> Seq(Line)]
    BY <2>1, <1>1
  <2> QED
    BY <2>2
<1>9. S \in SUBSET (1..n)
  BY <1>1
<1> HIDE DEF ss
<1>10. Lists(FlattenSeq(ss), f, S, Upward)
  <2> HIDE DEF S
  <2> QED
    BY <1>7, <1>8, <1>9, FlattenThinned
<1>11. Lists(Only(f, W), f, S, Upward)
  <2>1. Lists(f, f, 1..Len(f), Upward)
    BY ListsItself
  <2> HIDE DEF W
  <2> QED
    BY <2>1, ListsOnly
<1>12. \A x, y \in S : <<x, y>> \in Upward => <<y, x>> \notin Upward
  BY DEF Upward
<1> HIDE DEF S, W
<1>13. FlattenSeq(ss) = Only(f, W)
  BY <1>10, <1>11, <1>12, ListsUnique
<1> QED
  BY <1>2, <1>13 DEF W

\* Where all lines of a tag are drawn, its blocks are still runs.
LEMMA MarksDrawn ==
  ASSUME NEW f, NEW L \in Nat, Len(f) = L, NEW tag, MarksOf(f, tag), NEW g, NEW h, NEW D, NEW n, Drawn(g, f, h, D, n),
         \A i \in 1..L : f[i] \in TagLines(tag) => i \in D
  PROVE  MarksOf(g, tag)
<1>1. /\ n \in Nat /\ Len(g) = n /\ h \in [1..n -> D] /\ D \subseteq 1..L
      /\ \A x \in D : \E j \in 1..n : h[j] = x
      /\ \A i, j \in 1..n : i < j => h[i] < h[j]
      /\ \A j \in 1..n : g[j] = f[h[j]]
  BY DEF Drawn
<1>2. \A j \in 1..n : h[j] \in 1..L
  BY <1>1
<1>3. ASSUME NEW a \in 1..n, NEW b \in 1..n, TagRun(f, h[a], h[b], tag) PROVE TagRun(g, a, b, tag)
  <2>1. g[a] = Begin(tag)
    BY <1>1, <1>3 DEF TagRun
  <2>2. ASSUME NEW x \in (a + 1)..(b - 1) PROVE g[x] = Marked(tag)
    <3>1. x \in 1..n /\ a < x /\ x < b
      BY <1>1
    <3>2. h[x] \in (h[a] + 1)..(h[b] - 1)
      BY <3>1, <1>1, <1>2
    <3> QED
      BY <3>1, <3>2, <1>1, <1>3 DEF TagRun
  <2> QED
    BY <2>1, <2>2 DEF TagRun
<1>4. ASSUME NEW i \in 1..n, g[i] = Begin(tag)
      PROVE  \E c \in (i + 1)..n : g[c] = End(tag) /\ TagRun(g, i, c, tag)
  <2>1. h[i] \in 1..L /\ f[h[i]] = Begin(tag)
    BY <1>1, <1>2, <1>4
  <2>2. PICK c \in (h[i] + 1)..L : f[c] = End(tag) /\ TagRun(f, h[i], c, tag)
    BY <2>1 DEF MarksOf
  <2>3. c \in 1..L /\ f[c] \in TagLines(tag)
    BY <2>1, <2>2 DEF TagLines
  <2>4. PICK d \in 1..n : h[d] = c
    BY <2>3, <1>1
  <2>5. i < d
    BY <2>1, <2>2, <2>3, <2>4, <1>1, <1>2
  <2>6. d \in (i + 1)..n /\ g[d] = End(tag)
    BY <2>2, <2>4, <2>5, <1>1
  <2> QED
    BY <2>2, <2>4, <2>6, <1>3
<1>5. ASSUME NEW i \in 1..n, g[i] \in {Marked(tag), End(tag)} PROVE \E a \in 1..(i - 1) : TagRun(g, a, i, tag)
  <2>1. h[i] \in 1..L /\ f[h[i]] \in {Marked(tag), End(tag)}
    BY <1>1, <1>2, <1>5
  <2>2. PICK a \in 1..(h[i] - 1) : TagRun(f, a, h[i], tag)
    BY <2>1 DEF MarksOf
  <2>3. a \in 1..L /\ f[a] \in TagLines(tag)
    BY <2>1, <2>2 DEF TagLines, TagRun
  <2>4. PICK d \in 1..n : h[d] = a
    BY <2>3, <1>1
  <2>5. d < i
    BY <2>1, <2>2, <2>3, <2>4, <1>1, <1>2
  <2> QED
    BY <2>2, <2>4, <2>5, <1>3
<1> QED
  BY <1>1, <1>4, <1>5 DEF MarksOf

\* A filter of a filter is one for what both keep.
LEMMA OnlyBoth ==
  ASSUME NEW E, NEW f \in Seq(E), NEW V, NEW W
  PROVE  Only(Only(f, V), W) = Only(f, V \intersect W)
BY OnlyTwice

\* The lines of the features' blocks that go.
Leftovers(env1) == UNION {Gone(tag, tag \in env1) : tag \in Features}

\* One feature after the other.
LEMMA StripAllIs ==
  ASSUME NEW f \in Seq(Line), \A tag \in Features : MarksOf(f, tag), NEW e
  PROVE  StripAll(f, e) = Only(f, Line \ Leftovers(e))
<1> DEFINE tags == SetToSeq(Features)
           T == Seq(Line)
           Strip(ls, tag) == StripMarked(ls, tag, tag \in e)
<1>1. PICK n \in Nat : /\ n = Len(tags) /\ tags \in [1..n -> Features]
                       /\ \A i, j \in 1..n : tags[i] = tags[j] => i = j
                       /\ \A tag \in Features : \E i \in 1..n : tags[i] = tag
  BY FeaturesListed
<1>2. ASSUME NEW g \in T, NEW tag PROVE Strip(g, tag) \in T
  <2> DEFINE ss == [i \in 1..Len(g) |->
                      LET At(mark) == {j \in DOMAIN g : g[j] = mark}
                          begins == At(Begin(tag))
                          ends   == At(End(tag))
                          Inside(j) == \E b \in begins : b < j /\ \A x \in ends : ~(b < x /\ x < j)
                      IN  IF i \in begins \union ends \/ (Inside(i) /\ tag \notin e) THEN <<>> ELSE <<g[i]>>]
  <2>1. Strip(g, tag) = FlattenSeq(ss)
    BY DEF StripMarked, Concat
  <2>2. \A i \in 1..Len(g) : ss[i] = <<>> \/ ss[i] = <<g[i]>>
    OBVIOUS
  <2>3. ss = [i \in 1..Len(g) |-> ss[i]]
    OBVIOUS
  <2> HIDE DEF ss
  <2>4. \A i \in 1..Len(g) : ss[i] \in Seq(Line)
    <3> TAKE i \in 1..Len(g)
    <3>1. g[i] \in Line
      OBVIOUS
    <3>2. <<g[i]>> \in Seq(Line) /\ <<>> \in Seq(Line)
      BY <3>1, OneElement
    <3> QED
      BY <2>2, <3>2
  <2>5. Len(g) \in Nat
    OBVIOUS
  <2>6. ss \in Seq(Seq(Line))
    <3>1. ss \in [1..Len(g) -> Seq(Line)]
      BY <2>3, <2>4, Zenon
    <3> QED
      BY <2>5, <3>1
  <2> QED
    BY <2>1, <2>6, FlattenTyped
<1> HIDE DEF tags
<1> DEFINE D == SUBSET (1..n)
           step == [i \in 1..n |-> [g \in T |-> Strip(g, tags[i])]]
           Eq(h) == h = [x \in D |-> IF x = {} THEN f ELSE Strip(h[x \ {Max(x)}], tags[Max(x)])]
           fn == CHOOSE h : Eq(h)
<1>4. StripAll(f, e) = fn[1..n]
  <2>1. DOMAIN tags = 1..n
    BY <1>1
  <2> QED
    BY <2>1 DEF StripAll, FoldLeft, MapThenFoldSet, tags
<1> HIDE DEF T, Strip
<1>50. f \in T
  BY DEF T
<1>5. step \in [1..n -> [T -> T]] /\ \A i \in 1..n, g \in T : step[i][g] = Strip(g, tags[i])
  BY <1>1, <1>2
<1> HIDE DEF step
<1>6. PICK h \in [D -> T] : Folds(h, f, n, step)
  BY <1>50, <1>5, FoldTable
<1>7. ASSUME NEW x \in D, x # {} PROVE Max(x) \in 1..n /\ x \ {Max(x)} \in D
  BY <1>7, MaxUpTo
<1>8. Eq(h)
  BY <1>5, <1>6, <1>7 DEF Folds
<1>9. Eq(fn)
  BY <1>8
<1> HIDE DEF fn
<1>10. Advances(fn, T, f, n, step)
  <2>1. fn[{}] = f
    BY <1>9
  <2>2. ASSUME NEW j \in 1..n, fn[1..(j - 1)] \in T PROVE fn[1..j] = step[j][fn[1..(j - 1)]]
    <3>1. 1..j \in D /\ 1..j # {} /\ Max(1..j) = j /\ (1..j) \ {j} = 1..(j - 1)
      BY FirstPositions
    <3>2. fn[1..j] = Strip(fn[1..(j - 1)], tags[j])
      BY <3>1, <1>9
    <3> HIDE DEF D, Eq
    <3> QED
      BY <3>2, <2>2, <1>5
  <2> QED
    BY <2>1, <2>2 DEF Advances
<1> HIDE DEF D, Eq
<1>11. PICK a \in [0..n -> T] : Rows(a, f, n, step) /\ a[n] = fn[1..n]
  <2>1. step \in [1..n -> [T -> T]]
    BY <1>5
  <2>2. Advances(fn, T, f, n, step) /\ f \in T /\ n \in Nat
    BY <1>10, <1>50
  <2> QED
    BY <2>1, <2>2, FoldRows, SMTT(30)
<1> DEFINE Left(k) == UNION {Gone(tags[i], tags[i] \in e) : i \in 1..k}
           S == {k \in 0..n : a[k] = Only(f, Line \ Left(k))}
<1>12. 0 \in S
  <2>1. Left(0) = {}
    OBVIOUS
  <2>2. a[0] = f
    BY <1>11 DEF Rows
  <2>3. \A i \in 1..Len(f) : f[i] \in Line \ Left(0)
    BY <2>1
  <2> DEFINE W == Line \ Left(0)
  <2> HIDE DEF W
  <2>4. Only(f, W) = f
    BY <2>3, OnlyAllOrNone DEF W
  <2> QED
    BY <2>2, <2>4 DEF W
<1>13. ASSUME NEW k \in 1..n, k - 1 \in S PROVE k \in S
  <2> DEFINE tag == tags[k]
             V == Line \ Left(k - 1)
             W == Line \ Gone(tag, tag \in e)
             g == a[k - 1]
             J == {i \in 1..Len(f) : f[i] \in V}
  <2>1. g = Only(f, V) /\ tag \in Features /\ g \in Seq(Line)
    BY <1>1, <1>13 DEF T
  <2>2. a[k] = StripMarked(g, tag, tag \in e)
    <3>1. a[k] = step[k][g]
      BY <1>11 DEF Rows
    <3> QED
      BY <3>1, <2>1, <1>5 DEF T, Strip
  <2>3. ASSUME NEW i \in 1..Len(f), f[i] \in TagLines(tag) PROVE i \in J
    <3>1. ASSUME NEW j \in 1..(k - 1) PROVE f[i] \notin Gone(tags[j], tags[j] \in e)
      <4>1. j \in 1..n /\ tags[j] # tag
        BY <1>1
      <4>2. f[i] \notin TagLines(tags[j])
        BY <4>1, <2>3, TagLinesDiffer
      <4> QED
        BY <4>2 DEF Gone, TagLines
    <3> QED
      BY <3>1
  <2> HIDE DEF V, tag
  <2>4. PICK h1, m : Drawn(g, f, h1, J, m)
    BY <2>1, OnlyDrawn
  <2>5. MarksOf(g, tag)
    <3>1. MarksOf(f, tag)
      BY <2>1
    <3>2. \E L : L \in Nat /\ Len(f) = L
      OBVIOUS
    <3>3. PICK L \in Nat : Len(f) = L
      BY <3>2
    <3>4. \A i \in 1..L : f[i] \in TagLines(tag) => i \in J
      BY <2>3, <3>3
    <3> HIDE DEF J, g
    <3> QED
      BY <3>1, <3>3, <3>4, <2>4, MarksDrawn
  <2>6. StripMarked(g, tag, tag \in e) = Only(g, W)
    <3> DEFINE active == tag \in e
    <3>1. active \in BOOLEAN
      OBVIOUS
    <3> HIDE DEF active, g
    <3>2. StripMarked(g, tag, active) = Only(g, Line \ Gone(tag, active))
      BY <3>1, <2>1, <2>5, StripIs
    <3> QED
      BY <3>2 DEF active
  <2>7. V \intersect W = Line \ Left(k)
    <3>1. Left(k) = Left(k - 1) \union Gone(tag, tag \in e)
      <4>1. 1..k = (1..(k - 1)) \union {k}
        OBVIOUS
      <4> QED
        BY <4>1 DEF tag
    <3> HIDE DEF Left
    <3> QED
      BY <3>1 DEF V
  <2>8. Only(Only(f, V), W) = Only(f, V \intersect W)
    <3> HIDE DEF W
    <3> QED
      BY OnlyBoth
  <2> HIDE DEF W, Left, g
  <2>9. a[k] = Only(f, Line \ Left(k))
    BY <2>1, <2>2, <2>6, <2>7, <2>8
  <2>10. k \in 0..n
    OBVIOUS
  <2> QED
    BY <2>9, <2>10
<1>14. n \in S
  <2> HIDE DEF S
  <2>1. 0..n \subseteq S
    BY <1>12, <1>13, UpTo
  <2> QED
    BY <2>1
<1>15. Left(n) = Leftovers(e)
  BY <1>1 DEF Leftovers
<1> QED
  BY <1>4, <1>11, <1>14, <1>15

-----------------------------------------------------------------------------
(* Sections, and what files drawn from another have of it. *)

SectionKinds == TopLevel \union {"fallbacks", "context"}

\* Line p is the last line before line i, or line i, that starts a section.
Opens(f, p, i) ==
  /\ p \in 1..i /\ f[p].k \in SectionKinds
  /\ \A x \in (p + 1)..i : f[x].k \notin SectionKinds

LEMMA SectionIs ==
  ASSUME NEW f, NEW i \in Nat
  PROVE  /\ (\A x \in 1..i : f[x].k \notin SectionKinds) => Section(f, i) = "none"
         /\ \A p : Opens(f, p, i) => Section(f, i) = f[p].k
         /\ (\E p : Opens(f, p, i)) \/ \A x \in 1..i : f[x].k \notin SectionKinds
<1> DEFINE I == {x \in 1..i : f[x].k \in SectionKinds}
           j == IF I # {} THEN Max(I) ELSE 0
<1>1. Section(f, i) = IF j = 0 THEN "none" ELSE f[j].k
  BY DEF Section, SelectLastInSubSeq, SectionKinds
<1>2. ASSUME \A x \in 1..i : f[x].k \notin SectionKinds PROVE Section(f, i) = "none"
  <2>1. I = {}
    BY <1>2
  <2> QED
    BY <2>1, <1>1
<1>3. ASSUME I # {} PROVE j \in I /\ \A x \in I : x <= j
  <2>1. I \in SUBSET (1..i)
    OBVIOUS
  <2> HIDE DEF I
  <2> QED
    BY <2>1, <1>3, MaxUpTo
<1> HIDE DEF j
<1>4. ASSUME NEW p, Opens(f, p, i) PROVE Section(f, i) = f[p].k
  <2>1. p \in 1..i /\ f[p].k \in SectionKinds /\ \A x \in (p + 1)..i : f[x].k \notin SectionKinds
    BY <1>4 DEF Opens
  <2>2. p \in I
    BY <2>1
  <2>3. j \in I /\ \A x \in I : x <= j
    BY <2>2, <1>3
  <2>4. j \in 1..i /\ p <= j /\ f[j].k \in SectionKinds
    BY <2>2, <2>3
  <2>5. j = p
    <3> SUFFICES ASSUME p < j PROVE FALSE
      BY <2>1, <2>4
    <3>1. j \in (p + 1)..i
      BY <2>1, <2>4
    <3> QED
      BY <3>1, <2>1, <2>4
  <2>6. j # 0
    BY <2>4
  <2> QED
    BY <2>5, <2>6, <1>1
<1>5. ASSUME I # {} PROVE Opens(f, j, i)
  <2>1. j \in I /\ \A x \in I : x <= j
    BY <1>3, <1>5
  <2>2. j \in 1..i /\ f[j].k \in SectionKinds
    BY <2>1
  <2>3. ASSUME NEW x \in (j + 1)..i PROVE f[x].k \notin SectionKinds
    <3>1. x \in 1..i /\ ~(x <= j)
      BY <2>2
    <3>2. x \notin I
      BY <3>1, <2>1
    <3> QED
      BY <3>1, <3>2
  <2> QED
    BY <2>2, <2>3 DEF Opens
<1>6. (\E p : Opens(f, p, i)) \/ \A x \in 1..i : f[x].k \notin SectionKinds
  BY <1>5
<1> QED
  BY <1>2, <1>4, <1>6

\* Where all lines that start sections are drawn, every line is in its section.
LEMMA SectionDrawn ==
  ASSUME NEW f, NEW L \in Nat, Len(f) = L, NEW g, NEW h, NEW D, NEW n, Drawn(g, f, h, D, n),
         \A x \in 1..L : f[x].k \in SectionKinds => x \in D, NEW j \in 1..n
  PROVE  Section(g, j) = Section(f, h[j])
<1>1. /\ n \in Nat /\ Len(g) = n /\ h \in [1..n -> D] /\ D \subseteq 1..L
      /\ \A x \in D : \E y \in 1..n : h[y] = x
      /\ \A a, b \in 1..n : a < b => h[a] < h[b]
      /\ \A y \in 1..n : g[y] = f[h[y]]
  BY DEF Drawn
<1>2. \A y \in 1..n : h[y] \in 1..L
  BY <1>1
<1>3. \A a, b \in 1..n : h[a] < h[b] => a < b
  BY <1>1, <1>2
<1>4. j \in Nat /\ h[j] \in Nat
  BY <1>1, <1>2
<1>5. CASE \E p : Opens(f, p, h[j])
  <2>1. PICK p : Opens(f, p, h[j])
    BY <1>5
  <2>2. p \in 1..h[j] /\ f[p].k \in SectionKinds /\ \A x \in (p + 1)..h[j] : f[x].k \notin SectionKinds
    BY <2>1 DEF Opens
  <2>3. p \in D
    BY <2>2, <1>2
  <2>4. PICK q \in 1..n : h[q] = p
    BY <2>3, <1>1
  <2>5. q <= j
    BY <2>2, <2>4, <1>1, <1>2
  <2>6. ASSUME NEW x \in (q + 1)..j PROVE g[x].k \notin SectionKinds
    <3>1. x \in 1..n /\ q < x /\ x <= j
      BY <1>1, <2>4
    <3>2. h[q] < h[x] /\ h[x] <= h[j]
      BY <3>1, <1>1, <1>2
    <3>3. h[x] \in (p + 1)..h[j]
      BY <3>1, <3>2, <2>2, <2>4, <1>2
    <3> QED
      BY <3>1, <3>3, <2>2, <1>1
  <2>7. Opens(g, q, j)
    BY <2>2, <2>4, <2>5, <2>6, <1>1 DEF Opens
  <2>8. g[q].k = f[p].k
    BY <2>4, <1>1
  <2> QED
    BY <2>1, <2>7, <2>8, <1>4, SectionIs
<1>6. CASE \A x \in 1..h[j] : f[x].k \notin SectionKinds
  <2>1. ASSUME NEW x \in 1..j PROVE g[x].k \notin SectionKinds
    <3>1. x \in 1..n /\ h[x] <= h[j] /\ h[x] \in 1..L
      BY <1>1, <1>2
    <3>2. h[x] \in 1..h[j]
      BY <3>1, <1>2
    <3> QED
      BY <3>1, <3>2, <1>1, <1>6
  <2> QED
    BY <2>1, <1>4, <1>6, SectionIs
<1> QED
  BY <1>4, <1>5, <1>6, SectionIs

\* The kinds of the lines make the sections.
LEMMA SectionSame ==
  ASSUME NEW f, NEW u, NEW L \in Nat, \A x \in 1..L : f[x].k = u[x].k, NEW i \in 1..L
  PROVE  Section(u, i) = Section(f, i)
<1>1. \A x \in 1..i : f[x].k = u[x].k
  OBVIOUS
<1>2. i \in Nat
  OBVIOUS
<1>3. CASE \E p : Opens(f, p, i)
  <2>1. PICK p : Opens(f, p, i)
    BY <1>3
  <2>2. p \in 1..i /\ Opens(u, p, i)
    BY <2>1, <1>1 DEF Opens
  <2> QED
    BY <2>1, <2>2, <1>1, <1>2, SectionIs
<1>4. CASE \A x \in 1..i : f[x].k \notin SectionKinds
  <2>1. \A x \in 1..i : u[x].k \notin SectionKinds
    BY <1>1, <1>4
  <2> QED
    BY <2>1, <1>2, <1>4, SectionIs
<1> QED
  BY <1>2, <1>3, <1>4, SectionIs

\* g has every line of kind k of f, in its section.
Carries(f, g, k) ==
  \A i \in 1..Len(f) : f[i].k = k => \E j \in 1..Len(g) : g[j] = f[i] /\ Section(g, j) = Section(f, i)

LEMMA DrawnCarries ==
  ASSUME NEW f, NEW L \in Nat, Len(f) = L, NEW g, NEW h, NEW D, NEW n, Drawn(g, f, h, D, n),
         \A x \in 1..L : f[x].k \in SectionKinds => x \in D, NEW k
  PROVE  /\ Carries(g, f, k)
         /\ (\A x \in 1..L : f[x].k = k => x \in D) => Carries(f, g, k)
<1>1. /\ n \in Nat /\ Len(g) = n /\ h \in [1..n -> D] /\ D \subseteq 1..L
      /\ \A x \in D : \E y \in 1..n : h[y] = x
      /\ \A y \in 1..n : g[y] = f[h[y]]
  BY DEF Drawn
<1>2. \A y \in 1..n : h[y] \in 1..L /\ Section(g, y) = Section(f, h[y])
  <2> TAKE y \in 1..n
  <2>1. Section(g, y) = Section(f, h[y])
    BY SectionDrawn
  <2> QED
    BY <2>1, <1>1
<1>3. Carries(g, f, k)
  BY <1>1, <1>2 DEF Carries
<1>4. ASSUME \A x \in 1..L : f[x].k = k => x \in D PROVE Carries(f, g, k)
  BY <1>1, <1>2, <1>4 DEF Carries
<1> QED
  BY <1>3, <1>4

\* One file after another.
LEMMA CarriesOn ==
  ASSUME NEW f, NEW g, NEW t, NEW k, Carries(f, g, k), Carries(g, t, k)
  PROVE  Carries(f, t, k)
BY DEF Carries

\* So then is the list, with what it needs behind it.
LEMMA ListDrawn ==
  ASSUME NEW f \in Seq(Line), NEW L \in Nat, Len(f) = L, NEW g, NEW h, NEW D, NEW n, Drawn(g, f, h, D, n),
         NEW s, NEW z, NEW e, ListIs(f, s, z, e), 1..e \subseteq D,
         \A x \in 1..L : f[x].k \in SectionKinds => x \in D
  PROVE  ListIs(g, s, z, e) /\ \A i \in 1..e : f[i] = g[i]
<1>1. /\ n \in Nat /\ h \in [1..n -> D] /\ D \subseteq 1..L /\ Len(g) = n
      /\ \A x \in D : \E y \in 1..n : h[y] = x
      /\ \A a, b \in 1..n : a < b => h[a] < h[b]
      /\ \A y \in 1..n : g[y] = f[h[y]]
  BY DEF Drawn
<1>2. /\ s \in 1..L /\ z \in 1..L /\ e \in 1..L /\ s <= z /\ z < e
      /\ \A i \in 1..L : /\ f[i].k = "model_list" <=> i = s
                         /\ f[i].k = "model_name" => s < i /\ i < z
                         /\ f[i].k \in Top => i <= s \/ e <= i
                         /\ f[i].k = "router_settings" => e <= i
      /\ f[e].k \in Top /\ \E i \in 1..L : f[i].k = "router_settings"
      /\ z = s \/ f[z].k = "blank"
  BY DEF ListIs
<1>3. e <= n /\ \A i \in 1..e : h[i] = i /\ g[i] = f[i]
  BY <1>2, DrawnPrefix
<1>4. \A y \in 1..n : h[y] \in 1..L /\ g[y] = f[h[y]]
  BY <1>1
<1>5. s \in 1..n /\ z \in 1..n /\ e \in 1..n /\ s \in 1..e /\ z \in 1..e /\ e \in 1..e
  BY <1>1, <1>2, <1>3
<1>6. ASSUME NEW y \in 1..n, e <= h[y] PROVE e <= y
  <2>1. CASE y < e
    <3>1. y \in 1..e
      BY <2>1, <1>5, <1>1
    <3> QED
      BY <3>1, <2>1, <1>3, <1>4, <1>5, <1>6
  <2> QED
    BY <2>1, <1>1, <1>5
<1>7. ASSUME NEW y \in 1..n, h[y] < e PROVE h[y] = y
  <2>1. CASE e <= y
    <3>1. h[e] = e /\ h[e] <= h[y]
      BY <2>1, <1>1, <1>3, <1>4, <1>5
    <3> QED
      BY <3>1, <1>4, <1>5, <1>7
  <2>2. CASE y < e
    <3>1. y \in 1..e
      BY <2>2, <1>5, <1>1
    <3> QED
      BY <3>1, <1>3
  <2> QED
    BY <2>1, <2>2, <1>1, <1>5
<1>8. ASSUME NEW i \in 1..n
      PROVE  /\ g[i].k = "model_list" <=> i = s
             /\ g[i].k = "model_name" => s < i /\ i < z
             /\ g[i].k \in Top => i <= s \/ e <= i
             /\ g[i].k = "router_settings" => e <= i
  <2>1. h[i] \in 1..L /\ g[i] = f[h[i]]
    BY <1>4
  <2>2. CASE h[i] < e
    BY <2>1, <2>2, <1>2, <1>7
  <2>3. CASE e <= h[i]
    <3>1. e <= i
      BY <2>3, <1>6
    <3>2. g[i].k # "model_list" /\ i # s /\ g[i].k # "model_name"
      BY <3>1, <2>1, <2>3, <1>2
    <3> QED
      BY <3>1, <3>2
  <2> QED
    BY <2>1, <2>2, <2>3, <1>2
<1>9. \E i \in 1..n : g[i].k = "router_settings"
  <2>1. PICK x \in 1..L : f[x].k = "router_settings"
    BY <1>2
  <2>2. x \in D
    BY <2>1 DEF SectionKinds, TopLevel
  <2> QED
    BY <2>1, <2>2, <1>1
<1>10. g[s] = f[s] /\ g[z] = f[z] /\ g[e] = f[e]
  BY <1>3, <1>5
<1>11. {s, z, e} \subseteq 1..Len(g) /\ g[e].k \in Top /\ (z = s \/ g[z].k = "blank")
  BY <1>1, <1>2, <1>5, <1>10
<1>12. ListIs(g, s, z, e)
  BY <1>1, <1>2, <1>8, <1>9, <1>11 DEF ListIs
<1> QED
  BY <1>3, <1>12

-----------------------------------------------------------------------------
(* The chains. *)

\* The targets other than the free one.
Plainly(to, names) == Only(to, names \ {"openrouter-free"})

\* Targets have deployments; openrouter-free is among a chat chain's exactly
\* when it can be called; and the others are as before.
LEMMA TargetsAre ==
  ASSUME NEW line, line.to \in Seq(STRING), NEW section, NEW names \in SUBSET Names, NEW e,
         NEW t, t = Targets(line, section, names, e)
  PROVE  /\ t \in Seq(STRING) /\ ToSet(t) \subseteq names
         /\ section = "fallbacks" =>
              (Contains(t, "openrouter-free") <=> "openrouter" \in e /\ "openrouter-free" \in names)
         /\ Plainly(t, names) = Plainly(line.to, names)
<1> DEFINE F == "openrouter-free"
           valid == Only(line.to, names)
           W == names \ {F}
           V == {g \in ToSet(valid) : g # F}
<1>1. t \in Seq(STRING)
  BY TargetsTyped
<1>2. t = IF section # "fallbacks" THEN valid
          ELSE IF "openrouter" \notin e THEN Only(valid, V)
          ELSE IF F \in names /\ ~Contains(valid, F) THEN Append(valid, F) ELSE valid
  BY DEF Targets, Filter
<1>3. Names \subseteq STRING
  BY TableAssumption DEF Names, ToSet
<1> HIDE DEF F
<1>4. valid \in Seq(STRING \intersect names)
  BY OnlyKeeps
<1>5. valid \in Seq(STRING)
  BY OnlyTyped
<1>6. \A i \in 1..Len(valid) : valid[i] \in names /\ valid[i] \in ToSet(valid)
  BY <1>4, <1>5 DEF ToSet
<1>7. Only(valid, W) = Only(line.to, W)
  <2>1. Only(valid, W) = Only(line.to, names \intersect W)
    <3> HIDE DEF W
    <3> QED
      BY OnlyBoth
  <2>2. names \intersect W = W
    OBVIOUS
  <2> QED
    BY <2>1, <2>2
<1>8. Plainly(t, names) = Only(t, W) /\ Plainly(line.to, names) = Only(line.to, W)
  BY DEF Plainly, F
<1>9. Only(valid, V) = Only(valid, W)
  <2>1. \A i \in 1..Len(valid) : valid[i] \in V <=> valid[i] \in W
    BY <1>6
  <2> HIDE DEF V, W, valid
  <2> QED
    BY <2>1, <1>5, OnlyAgrees
<1> HIDE DEF valid, V
<1>10. ToSet(valid) \subseteq names /\ (Contains(valid, F) => F \in names)
  BY <1>5, <1>6 DEF ToSet, Contains
<1>11. CASE section # "fallbacks"
  <2>1. t = valid
    BY <1>2, <1>11
  <2> QED
    BY <2>1, <1>1, <1>7, <1>8, <1>10, <1>11
<1>12. CASE section = "fallbacks" /\ "openrouter" \notin e
  <2>1. t = Only(valid, W)
    BY <1>2, <1>9, <1>12
  <2>2. t \in Seq(STRING \intersect W)
    <3> HIDE DEF W
    <3> QED
      BY <2>1, <1>5, OnlyKeeps
  <2>3. \A i \in 1..Len(t) : t[i] \in W
    BY <2>2
  <2>4. ToSet(t) \subseteq names /\ ~Contains(t, F)
    BY <2>2, <2>3 DEF ToSet, Contains
  <2>5. Only(t, W) = Only(valid, W)
    <3> HIDE DEF W
    <3>1. Only(t, W) = t
      BY <2>2, <2>3, OnlyAllOrNone
    <3> QED
      BY <2>1, <3>1
  <2> QED
    BY <2>4, <2>5, <1>1, <1>7, <1>8, <1>12 DEF F
<1>13. CASE section = "fallbacks" /\ "openrouter" \in e /\ F \in names /\ ~Contains(valid, F)
  <2>1. t = Append(valid, F)
    BY <1>2, <1>13
  <2>2. F \in STRING
    BY <1>3, <1>13
  <2>3. Len(t) = Len(valid) + 1 /\ \A i \in 1..Len(t) : t[i] = IF i <= Len(valid) THEN valid[i] ELSE F
    BY <2>1, <2>2, <1>5
  <2>4. Len(valid) \in Nat /\ t[Len(valid) + 1] = F
    BY <2>3, <1>5
  <2>5. Contains(t, F)
    BY <2>3, <2>4 DEF Contains
  <2>6. ToSet(t) \subseteq names
    <3>1. \A i \in 1..Len(t) : t[i] \in names
      BY <2>3, <2>4, <1>6, <1>13
    <3> QED
      BY <3>1, <1>1 DEF ToSet
  <2>7. Only(t, W) = Only(valid, W)
    <3> DEFINE q == <<F>>
    <3>1. t = valid \o q
      BY <2>1, <2>2, <1>5
    <3>2. q \in Seq(STRING) /\ Len(q) = 1 /\ q[1] = F
      BY <2>2, OneElement
    <3> HIDE DEF q
    <3>3. \A i \in 1..Len(q) : q[i] \notin W
      BY <3>2
    <3>4. Only(valid, W) \in Seq(STRING)
      BY <1>5, OnlyTyped
    <3> HIDE DEF W
    <3>5. Only(q, W) = <<>>
      BY <3>2, <3>3, OnlyAllOrNone
    <3>6. Only(t, W) = Only(valid, W) \o Only(q, W)
      BY <3>1, <3>2, <1>5, OnlyConcat
    <3> QED
      BY <3>4, <3>5, <3>6
  <2> QED
    BY <2>5, <2>6, <2>7, <1>1, <1>7, <1>8, <1>13 DEF F
<1>14. CASE section = "fallbacks" /\ "openrouter" \in e /\ ~(F \in names /\ ~Contains(valid, F))
  <2>1. t = valid
    BY <1>2, <1>14
  <2> QED
    BY <2>1, <1>1, <1>7, <1>8, <1>10, <1>14 DEF F
<1> QED
  BY <1>11, <1>12, <1>13, <1>14

\* u are the lines of f, the chains rewritten; those at S stay.
Rewrites(u, S, f, names, nonChat, e) ==
  /\ u \in Seq(Line) /\ Len(u) = Len(f) /\ S \subseteq 1..Len(f)
  /\ \A i \in 1..Len(f) : u[i].k = f[i].k /\ (f[i].k # "chain" => u[i] = f[i] /\ i \in S)
  /\ \A i \in 1..Len(f) :
       (IF Orphan(f, i, names) THEN <<>> ELSE UpdatedChain(f, i, names, nonChat, e))
         = IF i \in S THEN <<u[i]>> ELSE <<>>

LEMMA ChainsRewritten ==
  ASSUME NEW f \in Seq(Fresh), NEW names \in SUBSET Names, NEW nonChat, NEW e
  PROVE  \E u, S, h, n : /\ Rewrites(u, S, f, names, nonChat, e)
                         /\ Drawn(UpdateChains(f, names, nonChat, e), u, h, S, n)
<1> DEFINE item(i) == IF Orphan(f, i, names) THEN <<>> ELSE UpdatedChain(f, i, names, nonChat, e)
           ss == [i \in 1..Len(f) |-> item(i)]
           S == {i \in 1..Len(f) : item(i) # <<>>}
           u == [i \in 1..Len(f) |-> IF item(i) = <<>> THEN f[i] ELSE item(i)[1]]
<1>1. f \in Seq(Line)
  BY Subsets, SeqMono
<1>2. PICK n \in Nat : n = Len(f) /\ \A i \in 1..n : f[i] \in Line
  BY <1>1
<1>3. ASSUME NEW i \in 1..n, ~InChains(f, i) PROVE item(i) = <<f[i]>>
  BY <1>3 DEF Orphan, UpdatedChain
<1>4. ASSUME NEW i \in 1..n, InChains(f, i)
      PROVE  f[i].k = "chain" /\ (item(i) = <<>> \/ \E l \in Line : item(i) = <<l>> /\ l.k = "chain")
  <2>1. f[i].k = "chain" /\ f[i] \in Line
    BY <1>2, <1>4 DEF InChains
  <2>2. f[i].name \in Names \union {"*"} /\ f[i].to \in Seq(STRING)
    BY <2>1 DEF Line, TopLevel
  <2> DEFINE to == Targets(f[i], Section(f, i), names, e)
             a == Chain(f[i].name, to)
             b == Chain(f[i].name, <<>>)
  <2>3. to \in Seq(STRING) /\ <<>> \in Seq(STRING)
    BY <2>2, TargetsTyped
  <2> HIDE DEF to
  <2>4. a \in Line /\ b \in Line
    BY <2>2, <2>3, LinesTyped DEF Unmarked
  <2>5. a.k = "chain" /\ b.k = "chain"
    BY DEF Chain
  <2>6. item(i) \in {<<>>, <<f[i]>>, <<a>>, <<b>>}
    BY <1>4 DEF Orphan, UpdatedChain, to
  <2> HIDE DEF a, b, item
  <2> QED
    BY <2>1, <2>4, <2>5, <2>6
<1> HIDE DEF item
<1>5. \A l : <<l>> # <<>> /\ <<l>>[1] = l
  OBVIOUS
<1>6. ASSUME NEW i \in 1..n
      PROVE  /\ u[i] \in Line /\ u[i].k = f[i].k /\ (f[i].k # "chain" => u[i] = f[i] /\ i \in S)
             /\ item(i) = IF i \in S THEN <<u[i]>> ELSE <<>>
  <2>1. CASE ~InChains(f, i)
    BY <2>1, <1>2, <1>3, <1>5
  <2>2. CASE InChains(f, i) /\ item(i) = <<>>
    BY <2>2, <1>2, <1>4
  <2>3. CASE InChains(f, i) /\ item(i) # <<>>
    <3>1. PICK l \in Line : item(i) = <<l>> /\ l.k = "chain" /\ f[i].k = "chain"
      BY <2>3, <1>4
    <3>2. u[i] = l /\ i \in S
      BY <3>1, <2>3, <1>2, <1>5
    <3> QED
      BY <3>1, <3>2
  <2> QED
    BY <2>1, <2>2, <2>3
<1>7. u = [i \in 1..n |-> u[i]] /\ ss = [i \in 1..n |-> item(i)]
  BY <1>2
<1>8. S \in SUBSET (1..n)
  BY <1>2
<1>9. UpdateChains(f, names, nonChat, e) = FlattenSeq(ss)
  BY DEF UpdateChains, Concat, item
<1> HIDE DEF u, S, ss
<1>10. u \in Seq(Line) /\ Len(u) = n
  <2>1. u \in [1..n -> Line]
    BY <1>6, <1>7, Zenon
  <2> QED
    BY <2>1
<1>11. ss \in Seq(Seq(Line)) /\ Len(ss) = n
  <2>1. \A i \in 1..n : item(i) \in Seq(Line)
    <3> TAKE i \in 1..n
    <3>1. <<u[i]>> \in Seq(Line) /\ <<>> \in Seq(Line)
      BY <1>6, OneElement
    <3> QED
      BY <3>1, <1>6
  <2>2. ss \in [1..n -> Seq(Line)]
    BY <2>1, <1>7
  <2> QED
    BY <2>2
<1>12. \A i \in 1..Len(ss) : ss[i] = IF i \in S THEN <<u[i]>> ELSE <<>>
  <2>1. \A i \in 1..n : ss[i] = item(i)
    BY <1>7
  <2> QED
    BY <2>1, <1>6, <1>11
<1>13. Lists(FlattenSeq(ss), u, S, Upward)
  BY <1>8, <1>11, <1>12, FlattenThinned
<1>14. \E h, m : Drawn(FlattenSeq(ss), u, h, S, m)
  BY <1>8, <1>10, <1>13, DrawnIs
<1>15. Rewrites(u, S, f, names, nonChat, e)
  BY <1>2, <1>6, <1>8, <1>10 DEF Rewrites, item
<1> QED
  BY <1>9, <1>14, <1>15

\* A chain that stays has targets that are called, and one with targets stays.
ChainFits(u, i, f, names, nonChat, e) ==
  /\ u[i].name \in names \union {"*"} /\ ToSet(u[i].to) \subseteq names
  /\ Section(f, i) = "fallbacks" =>
       IF u[i].name \in nonChat THEN u[i].to = <<>>
       ELSE IF u[i].to = <<>> THEN u[i] = f[i]
       ELSE "openrouter" \in e /\ "openrouter-free" \in names <=> Contains(u[i].to, "openrouter-free")

ChainStays(u, S, i, f, names, nonChat) ==
  /\ f[i].name \in names \union {"*"} /\ Plainly(f[i].to, names) # <<>>
  /\ Section(f, i) = "fallbacks" => f[i].name \notin nonChat
  => i \in S /\ u[i].name = f[i].name /\ Plainly(u[i].to, names) = Plainly(f[i].to, names)

LEMMA ChainRewritten ==
  ASSUME NEW f \in Seq(Line), NEW names \in SUBSET Names, NEW nonChat, NEW e, NEW u, NEW S,
         Rewrites(u, S, f, names, nonChat, e), NEW i \in 1..Len(f), f[i].k = "chain",
         Section(f, i) \in {"fallbacks", "context"}
  PROVE  (i \in S => ChainFits(u, i, f, names, nonChat, e)) /\ ChainStays(u, S, i, f, names, nonChat)
<1> USE DEF ChainStays
<1>1. f[i].name \in Names \union {"*"} /\ f[i].to \in Seq(STRING)
  <2>1. f[i] \in Line
    OBVIOUS
  <2> QED
    BY <2>1 DEF Line, TopLevel
<1> DEFINE to == Targets(f[i], Section(f, i), names, e)
<1>2. /\ to \in Seq(STRING) /\ ToSet(to) \subseteq names
      /\ Section(f, i) = "fallbacks" =>
           (Contains(to, "openrouter-free") <=> "openrouter" \in e /\ "openrouter-free" \in names)
      /\ Plainly(to, names) = Plainly(f[i].to, names)
  <2> DEFINE line == f[i]
             section == Section(f, i)
             t == Targets(line, section, names, e)
  <2>1. line.to \in Seq(STRING)
    BY <1>1
  <2> HIDE DEF line, section
  <2>2. t = Targets(line, section, names, e)
    OBVIOUS
  <2> HIDE DEF t
  <2>3. /\ t \in Seq(STRING) /\ ToSet(t) \subseteq names
        /\ section = "fallbacks" =>
             (Contains(t, "openrouter-free") <=> "openrouter" \in e /\ "openrouter-free" \in names)
        /\ Plainly(t, names) = Plainly(line.to, names)
    BY <2>1, <2>2, TargetsAre
  <2> QED
    BY <2>3 DEF t, line, section
<1> DEFINE both == IF Orphan(f, i, names) THEN <<>> ELSE UpdatedChain(f, i, names, nonChat, e)
           was == f[i].to
<1>3. InChains(f, i) /\ (Orphan(f, i, names) <=> f[i].name \notin names \union {"*"})
  BY DEF InChains, Orphan
<1>4. both = IF i \in S THEN <<u[i]>> ELSE <<>>
  BY DEF Rewrites
<1>5. both = IF f[i].name \notin names \union {"*"} THEN <<>>
             ELSE IF Section(f, i) = "fallbacks" /\ f[i].name \in nonChat THEN <<Chain(f[i].name, <<>>)>>
             ELSE IF to = <<>> THEN <<>>
             ELSE IF was = <<>> THEN <<f[i]>>
             ELSE <<Chain(f[i].name, to)>>
  BY <1>3 DEF UpdatedChain
<1> HIDE DEF both, to
<1>6. \A a, b : /\ Chain(a, b).name = a /\ Chain(a, b).to = b
                /\ <<a>> # <<>> /\ (<<a>> = <<b>> => a = b)
  BY DEF Chain
<1>7. ToSet(<<>>) = {}
  BY DEF ToSet
<1>8. Plainly(<<>>, names) = <<>>
  <2> DEFINE W == names \ {"openrouter-free"}
             q == <<>>
  <2>1. q \in Seq(STRING) /\ \A j \in 1..Len(q) : q[j] \notin W
    OBVIOUS
  <2> HIDE DEF W, q
  <2>2. Only(q, W) = <<>>
    BY <2>1, OnlyAllOrNone
  <2> QED
    BY <2>2 DEF Plainly, W, q
<1>9. CASE f[i].name \notin names \union {"*"}
  <2>1. i \notin S
    BY <1>4, <1>5, <1>6, <1>9
  <2> QED
    BY <2>1, <1>9
<1>10. CASE f[i].name \in names \union {"*"} /\ Section(f, i) = "fallbacks" /\ f[i].name \in nonChat
  <2>1. <<u[i]>> = <<Chain(f[i].name, <<>>)>>
    BY <1>4, <1>5, <1>6, <1>10
  <2>2. u[i] = Chain(f[i].name, <<>>)
    BY <2>1, <1>6
  <2>3. u[i].name = f[i].name /\ u[i].to = <<>>
    BY <2>2, <1>6
  <2>4. ChainFits(u, i, f, names, nonChat, e)
    BY <2>3, <1>7, <1>10 DEF ChainFits
  <2> QED
    BY <2>4, <1>10
<1> DEFINE rest == f[i].name \in names \union {"*"} /\ ~(Section(f, i) = "fallbacks" /\ f[i].name \in nonChat)
<1>11. CASE rest /\ to = <<>>
  <2>1. i \notin S
    BY <1>4, <1>5, <1>6, <1>11
  <2>2. Plainly(f[i].to, names) = <<>>
    BY <1>2, <1>8, <1>11
  <2> QED
    BY <2>1, <2>2
<1>12. CASE rest /\ to # <<>> /\ was = <<>>
  <2>1. i \in S => <<u[i]>> = <<f[i]>>
    BY <1>4, <1>5, <1>12
  <2>2. i \in S => u[i] = f[i] /\ u[i].to = <<>>
    BY <2>1, <1>6, <1>12
  <2>3. Plainly(f[i].to, names) = <<>>
    BY <1>8, <1>12
  <2>4. i \in S => ChainFits(u, i, f, names, nonChat, e)
    BY <2>2, <1>7, <1>12 DEF ChainFits
  <2> QED
    BY <2>3, <2>4
<1>13. CASE rest /\ to # <<>> /\ was # <<>>
  <2>1. i \in S /\ <<u[i]>> = <<Chain(f[i].name, to)>>
    BY <1>4, <1>5, <1>6, <1>13
  <2>2. u[i] = Chain(f[i].name, to)
    BY <2>1, <1>6
  <2>3. u[i].name = f[i].name /\ u[i].to = to
    BY <2>2, <1>6
  <2>4. ChainFits(u, i, f, names, nonChat, e)
    BY <2>3, <1>2, <1>13 DEF ChainFits
  <2> QED
    BY <2>1, <2>3, <2>4, <1>2
<1> QED
  BY <1>9, <1>10, <1>11, <1>12, <1>13

-----------------------------------------------------------------------------
(* The retry policy. *)

\* The one marked block of its tag is on lines b to c.
RetryAt(f, b, c) ==
  /\ b \in 1..Len(f) /\ c \in (b + 1)..Len(f)
  /\ \A i \in 1..Len(f) : /\ f[i] = Begin(RetryTag) <=> i = b
                          /\ f[i] = End(RetryTag) <=> i = c
                          /\ f[i] = Marked(RetryTag) => b < i /\ i < c
  /\ \A i \in (b + 1)..(c - 1) : f[i] = Marked(RetryTag)

\* The retry policy begins once.
BeginsOnce(f) == \E b \in 1..Len(f) : \A i \in 1..Len(f) : f[i] = Begin(RetryTag) <=> i = b

LEMMA RetryIsAt ==
  ASSUME NEW f \in Seq(Line), MarksOf(f, RetryTag), BeginsOnce(f)
  PROVE  \E b, c : RetryAt(f, b, c)
<1>1. PICK n \in Nat : n = Len(f)
  OBVIOUS
<1>2. PICK b \in 1..n : \A i \in 1..n : f[i] = Begin(RetryTag) <=> i = b
  BY <1>1 DEF BeginsOnce
<1>3. PICK c \in (b + 1)..n : f[c] = End(RetryTag) /\ TagRun(f, b, c, RetryTag)
  BY <1>1, <1>2 DEF MarksOf
<1>4. c \in 1..n /\ b < c /\ \A x \in (b + 1)..(c - 1) : f[x] = Marked(RetryTag)
  BY <1>2, <1>3 DEF TagRun
<1>5. ASSUME NEW i \in 1..n, f[i] \in {Marked(RetryTag), End(RetryTag)}
      PROVE  b < i /\ \A x \in (b + 1)..(i - 1) : f[x] = Marked(RetryTag)
  <2>1. PICK a \in 1..(i - 1) : TagRun(f, a, i, RetryTag)
    BY <1>1, <1>5 DEF MarksOf
  <2>2. a \in 1..n /\ f[a] = Begin(RetryTag)
    BY <2>1 DEF TagRun
  <2>3. a = b
    BY <2>2, <1>2
  <2> QED
    BY <2>1, <2>3, <1>2 DEF TagRun
<1>6. ASSUME NEW i \in 1..n, f[i] = End(RetryTag) PROVE i = c
  <2>1. b < i /\ \A x \in (b + 1)..(i - 1) : f[x] = Marked(RetryTag)
    BY <1>5, <1>6
  <2>2. ~(i < c)
    <3> SUFFICES ASSUME i < c PROVE FALSE
      OBVIOUS
    <3>1. i \in (b + 1)..(c - 1)
      BY <2>1, <1>2, <1>4
    <3> QED
      BY <3>1, <1>4, <1>6, TagLinesDiffer
  <2>3. ~(c < i)
    <3> SUFFICES ASSUME c < i PROVE FALSE
      OBVIOUS
    <3>1. c \in (b + 1)..(i - 1)
      BY <2>1, <1>2, <1>4
    <3> QED
      BY <3>1, <2>1, <1>3, TagLinesDiffer
  <2> QED
    BY <2>2, <2>3, <1>4
<1>7. ASSUME NEW i \in 1..n, f[i] = Marked(RetryTag) PROVE b < i /\ i < c
  <2>1. b < i /\ \A x \in (b + 1)..(i - 1) : f[x] = Marked(RetryTag)
    BY <1>5, <1>7
  <2>2. ~(c < i)
    <3> SUFFICES ASSUME c < i PROVE FALSE
      OBVIOUS
    <3>1. c \in (b + 1)..(i - 1)
      BY <2>1, <1>2, <1>4
    <3> QED
      BY <3>1, <2>1, <1>3, TagLinesDiffer
  <2>3. i # c
    BY <1>3, <1>7, TagLinesDiffer
  <2> QED
    BY <2>1, <2>2, <2>3, <1>4
<1>8. \A i \in 1..n : /\ f[i] = Begin(RetryTag) <=> i = b
                      /\ f[i] = End(RetryTag) <=> i = c
                      /\ f[i] = Marked(RetryTag) => b < i /\ i < c
  BY <1>2, <1>3, <1>6, <1>7
<1>9. RetryAt(f, b, c)
  BY <1>1, <1>4, <1>8 DEF RetryAt
<1> QED
  BY <1>9

\* It still does in what is drawn with it.
LEMMA BeginsDrawn ==
  ASSUME NEW f, NEW L \in Nat, Len(f) = L, BeginsOnce(f), NEW g, NEW h, NEW D, NEW n, Drawn(g, f, h, D, n),
         \A i \in 1..L : f[i] = Begin(RetryTag) => i \in D
  PROVE  BeginsOnce(g)
<1>1. /\ n \in Nat /\ Len(g) = n /\ h \in [1..n -> D] /\ D \subseteq 1..L
      /\ \A x \in D : \E j \in 1..n : h[j] = x
      /\ \A i, j \in 1..n : i < j => h[i] < h[j]
      /\ \A j \in 1..n : g[j] = f[h[j]]
  BY DEF Drawn
<1>2. PICK b \in 1..L : \A i \in 1..L : f[i] = Begin(RetryTag) <=> i = b
  BY DEF BeginsOnce
<1>3. PICK d \in 1..n : h[d] = b
  BY <1>1, <1>2
<1>4. \A j \in 1..n : h[j] \in 1..L
  BY <1>1
<1>5. \A j \in 1..n : h[j] = b => j = d
  BY <1>1, <1>3, <1>4
<1>6. \A j \in 1..n : g[j] = Begin(RetryTag) <=> j = d
  BY <1>1, <1>2, <1>3, <1>4, <1>5
<1> QED
  BY <1>1, <1>3, <1>6 DEF BeginsOnce

\* The block is replaced.
LEMMA PolicyInserted ==
  ASSUME NEW f \in Seq(Line), NEW b, NEW c, RetryAt(f, b, c), NEW names
  PROVE  InsertRetryPolicy(f, names) = Cut(f, b, c + 1, RetryPolicy(names))
<1> DEFINE I == {i \in 1..Len(f) : f[i] = End(RetryTag)}
           end == IF I # {} THEN Min(I) ELSE 0
           J == {i \in 1..end : f[i] = Begin(RetryTag)}
           start == IF J # {} THEN Max(J) ELSE 0
           new == RetryPolicy(names)
<1>1. PICK n \in Nat : n = Len(f)
  OBVIOUS
<1>2. /\ b \in 1..n /\ c \in (b + 1)..n /\ c \in 1..n /\ b < c
      /\ \A i \in 1..n : f[i] = Begin(RetryTag) <=> i = b
      /\ \A i \in 1..n : f[i] = End(RetryTag) <=> i = c
  BY <1>1 DEF RetryAt
<1>3. InsertRetryPolicy(f, names) =
        IF start = 0 THEN f ELSE SubSeq(f, 1, start - 1) \o new \o SubSeq(f, end + 1, Len(f))
  BY DEF InsertRetryPolicy, SelectInSeq, SelectLastInSubSeq
<1> HIDE DEF new
<1>4. I = {c}
  BY <1>1, <1>2
<1>5. end = c
  <2>1. {c} \in SUBSET (1..n) /\ {c} # {}
    BY <1>2
  <2>2. Min({c}) \in {c}
    BY <2>1, MinIsFirst
  <2>3. end = Min({c})
    BY <1>4
  <2> QED
    BY <2>2, <2>3
<1> HIDE DEF end, I
<1>6. J = {b}
  BY <1>2, <1>5
<1>7. start = b
  <2>1. {b} \in SUBSET (1..n) /\ {b} # {}
    BY <1>2
  <2>2. Max({b}) \in {b}
    BY <2>1, MaxUpTo
  <2>3. start = Max({b})
    BY <1>6
  <2> QED
    BY <2>2, <2>3
<1> HIDE DEF start
<1>8. start # 0
  BY <1>2, <1>7
<1> QED
  BY <1>3, <1>5, <1>7, <1>8 DEF Cut, new

\* The policies are the given ones.
LEMMA PolicyNames ==
  ASSUME NEW names \in SUBSET Names, NEW q, q = RetryPolicy(names)
  PROVE  /\ q \in Seq(Settled)
         /\ \A j \in 1..Len(q) : q[j].k \in {"policies", "policy"}
         /\ \A g : (\E j \in 1..Len(q) : q[j].k = "policy" /\ q[j].name = g) <=> g \in names
<1> DEFINE row == Sorted(names)
           line(i) == [k |-> "policy", name |-> row[i]]
           p == Key("policies")
<1>1. q \in Seq(Settled) /\ (Len(q) > 0 => Run(q, 1, Len(q), "policies", "policy"))
  BY PolicyRun
<1>2. \A j \in 1..Len(q) : q[j].k \in {"policies", "policy"}
  <2> TAKE j \in 1..Len(q)
  <2>1. Len(q) \in Nat /\ Len(q) > 0 /\ (j = 1 \/ j \in (1 + 1)..Len(q))
    BY <1>1
  <2> QED
    BY <2>1, <1>1 DEF Run
<1>3. row \in Seq(Names) /\ \A g : (\E i \in 1..Len(row) : row[i] = g) <=> g \in names
  <2>1. NAMES \in Seq(STRING)
    BY TableAssumption
  <2>2. \A g \in names : \E i \in 1..Len(NAMES) : NAMES[i] = g
    BY <2>1 DEF Names, ToSet
  <2>3. \A x : (\E i \in 1..Len(Only(NAMES, names)) : Only(NAMES, names)[i] = x)
                 <=> (x \in names /\ \E i \in 1..Len(NAMES) : NAMES[i] = x)
    BY <2>1, OnlyKeeps
  <2>4. row \in Seq(Names)
    BY SortedTyped
  <2> QED
    BY <2>2, <2>3, <2>4 DEF Sorted
<1> HIDE DEF row
<1>4. PICK n \in Nat : n = Len(row)
  BY <1>3
<1> DEFINE w == [i \in 1..n |-> line(i)]
           ss == [i \in 1..n |-> <<w[i]>>]
<1>5. q = IF names = {} THEN <<>> ELSE <<p>> \o FlattenSeq(ss)
  <2>1. ss = [i \in 1..n |-> <<[k |-> "policy", name |-> row[i]]>>]
    OBVIOUS
  <2> HIDE DEF ss
  <2> QED
    BY <2>1, <1>4 DEF RetryPolicy, Concat, row, p
<1>6. \A i \in 1..n : w[i].k = "policy" /\ w[i].name = row[i]
  OBVIOUS
<1>7. FlattenSeq(ss) = w
  <2> DEFINE E == {line(i) : i \in 1..n}
  <2>1. w \in [1..n -> E]
    OBVIOUS
  <2> HIDE DEF w, E
  <2> QED
    BY <2>1, FlattenSingles
<1>70. DOMAIN w = 1..n /\ w \in Seq({w[i] : i \in 1..n})
  OBVIOUS
<1> HIDE DEF ss, w, line
<1>8. p.k = "policies"
  BY DEF Key
<1> HIDE DEF p
<1>9. CASE names = {}
  <2>1. Len(q) = 0
    BY <1>5, <1>9
  <2> QED
    BY <2>1, <1>1, <1>2, <1>9
<1>10. CASE names # {}
  <2>1. q = <<p>> \o w
    BY <1>5, <1>7, <1>10
  <2>2. Len(w) = n
    BY <1>70
  <2>3. Len(q) = n + 1 /\ q[1] = p /\ \A i \in 1..n : q[i + 1] = w[i]
    BY <2>1, <2>2, <1>70
  <2>4. ASSUME NEW g, g \in names PROVE \E j \in 1..Len(q) : q[j].k = "policy" /\ q[j].name = g
    <3>1. PICK i \in 1..n : row[i] = g
      BY <2>4, <1>3, <1>4
    <3>2. i + 1 \in 1..Len(q) /\ q[i + 1] = w[i]
      BY <2>3
    <3> QED
      BY <3>1, <3>2, <1>6
  <2>5. ASSUME NEW g, NEW j \in 1..Len(q), q[j].k = "policy", q[j].name = g PROVE g \in names
    <3>1. j # 1
      BY <2>3, <2>5, <1>8
    <3>2. j - 1 \in 1..n /\ q[j - 1 + 1] = w[j - 1] /\ j - 1 + 1 = j
      BY <3>1, <2>3
    <3>3. row[j - 1] = g
      BY <3>2, <2>5, <1>6
    <3> QED
      BY <3>2, <3>3, <1>3, <1>4
  <2> QED
    BY <2>4, <2>5, <1>1, <1>2
<1> QED
  BY <1>9, <1>10

LEMMA DrawnLines ==
  ASSUME NEW f, NEW g, NEW h, NEW D, NEW n, Drawn(g, f, h, D, n), NEW l
  PROVE  (\E j \in 1..Len(g) : g[j] = l) <=> (\E x \in D : f[x] = l)
<1>1. /\ Len(g) = n /\ h \in [1..n -> D] /\ \A x \in D : \E j \in 1..n : h[j] = x
      /\ \A j \in 1..n : g[j] = f[h[j]]
  BY DEF Drawn
<1>2. ASSUME NEW j \in 1..n, g[j] = l PROVE \E x \in D : f[x] = l
  BY <1>1, <1>2
<1>3. ASSUME NEW x \in D, f[x] = l PROVE \E j \in 1..n : g[j] = l
  BY <1>1, <1>3
<1> QED
  BY <1>1, <1>2, <1>3

\* The lines that start sections.
Openers == {l \in Line : l.k \in SectionKinds}

\* g differs from f by what is not a chain, nor opens a section, nor is in the list.
Similar(f, g, s, z, e) ==
  /\ ListIs(g, s, z, e) /\ \A x \in 1..e : f[x] = g[x]
  /\ Carries(f, g, "chain") /\ Carries(g, f, "chain")
  /\ Only(g, Openers) = Only(f, Openers)

\* So does what insert_retry_policy makes of it; its policies are the given
\* ones, and of the other lines just those of the marked block are gone.
LEMMA PolicyPass ==
  ASSUME NEW f, Sound(f, Fresh), NEW s, NEW z, NEW e, ListIs(f, s, z, e),
         \A i \in 1..Len(f) : f[i].k = "begin" => e < i,
         MarksOf(f, RetryTag), BeginsOnce(f), NEW names \in SUBSET Names,
         NEW g, g = InsertRetryPolicy(f, names)
  PROVE  /\ g \in Seq(Settled) /\ Similar(f, g, s, z, e)
         /\ \A u : (\E j \in 1..Len(g) : g[j].k = "policy" /\ g[j].name = u) <=> u \in names
         /\ \A l : l.k \notin {"policies", "policy"} =>
              ((\E j \in 1..Len(g) : g[j] = l) <=> (\E i \in 1..Len(f) : f[i] = l) /\ l \notin TagLines(RetryTag))
<1>1. f \in Seq(Fresh) /\ f \in Seq(Settled) /\ f \in Seq(Line)
  BY Subsets, SeqMono DEF Sound, Framed
<1>2. PICK n \in Nat : n = Len(f)
  BY <1>1
<1>3. PICK b, c : RetryAt(f, b, c)
  BY <1>1, RetryIsAt
<1> DEFINE new == RetryPolicy(names)
           none == <<>>
<1>4. /\ new \in Seq(Settled) /\ \A j \in 1..Len(new) : new[j].k \in {"policies", "policy"}
      /\ \A u : (\E j \in 1..Len(new) : new[j].k = "policy" /\ new[j].name = u) <=> u \in names
  BY PolicyNames
<1>5. g = Cut(f, b, c + 1, new)
  BY <1>1, <1>3, PolicyInserted
<1> HIDE DEF new
<1>6. /\ b \in 1..n /\ c \in (b + 1)..n /\ c \in 1..n
      /\ \A i \in 1..n : /\ f[i] = Begin(RetryTag) <=> i = b
                         /\ f[i] = End(RetryTag) <=> i = c
                         /\ f[i] = Marked(RetryTag) => b < i /\ i < c
      /\ \A i \in (b + 1)..(c - 1) : f[i] = Marked(RetryTag)
  BY <1>2, <1>3 DEF RetryAt
<1>7. \A i \in 1..n : f[i] \in TagLines(RetryTag) <=> b <= i /\ i < c + 1
  <2> TAKE i \in 1..n
  <2>1. ASSUME b <= i, i < c + 1 PROVE f[i] \in TagLines(RetryTag)
    <3>1. i = b \/ i = c \/ i \in (b + 1)..(c - 1)
      BY <2>1, <1>6
    <3> QED
      BY <3>1, <1>6 DEF TagLines
  <2>2. ASSUME f[i] \in TagLines(RetryTag) PROVE b <= i /\ i < c + 1
    BY <2>2, <1>6 DEF TagLines
  <2> QED
    BY <2>1, <2>2
<1>8. \A l \in TagLines(RetryTag) : l.k \in {"begin", "end", "marked"}
  BY DEF TagLines, Begin, End, Marked
<1>9. e < b
  <2>1. f[b] = Begin(RetryTag)
    BY <1>6
  <2>2. f[b].k = "begin"
    BY <2>1 DEF Begin
  <2> QED
    BY <2>2, <1>2, <1>6
<1>10. PICK m \in Nat : m = Len(new)
  BY <1>4
<1> DEFINE a == c + 1
<1>11. a \in b..(n + 1) /\ b \in 1..(n + 1)
  BY <1>6
<1>12. \A i \in 1..n : f[i] \in TagLines(RetryTag) <=> b <= i /\ i < a
  BY <1>7
<1>13. g = Cut(f, b, a, new)
  BY <1>5
<1> HIDE DEF a
<1>14. IsCut(g, f, b, a, new, Settled)
  <2>1. b \in 1..(Len(f) + 1) /\ a \in b..(Len(f) + 1)
    BY <1>2, <1>11
  <2> QED
    BY <2>1, <1>1, <1>4, <1>13, CutIs
<1>15. /\ g \in Seq(Settled) /\ Len(g) = n + m - (a - b)
       /\ \A j \in 1..Len(g) : g[j] = IF j < b THEN f[j] ELSE IF j < b + m THEN new[j - b + 1]
                                      ELSE f[j - (b + m) + a]
  BY <1>2, <1>10, <1>14 DEF IsCut
<1>16. PICK N \in Nat : N = Len(g)
  BY <1>15
<1>17. b \in 1..(N + 1) /\ b + m \in b..(N + 1)
  BY <1>11, <1>15, <1>16
<1> DEFINE t == Cut(f, b, a, none)
           D == {x \in 1..n : x < b \/ a <= x}
           H == {x \in 1..N : x < b \/ b + m <= x}
<1>18. t \in Seq(Settled) /\ \E h, M : Drawn(t, f, h, D, M)
  BY <1>1, <1>2, <1>11, CutOut
<1>19. \E h, M : Drawn(t, g, h, H, M)
  <2> DEFINE d == b + m
             w == Cut(g, b, d, none)
  <2>1. w = t
    <3>1. new \in Seq(Settled) /\ f \in Seq(Settled) /\ b \in 1..(Len(f) + 1) /\ a \in b..(Len(f) + 1)
      BY <1>1, <1>2, <1>4, <1>11
    <3>2. d = b + Len(new) /\ none = <<>>
      BY <1>10
    <3> HIDE DEF d, t, w, none
    <3>3. Cut(g, b, d, none) = Cut(f, b, a, none)
      BY <3>1, <3>2, <1>13, CutAgain
    <3> QED
      BY <3>3 DEF t, w
  <2>2. d \in b..(N + 1)
    BY <1>17
  <2> HIDE DEF d, t
  <2>3. \E h, M : Drawn(w, g, h, {x \in 1..N : x < b \/ d <= x}, M)
    BY <2>2, <1>15, <1>16, <1>17, CutOut
  <2> HIDE DEF w
  <2> QED
    BY <2>1, <2>3 DEF d
<1> HIDE DEF t, none
<1>20. PICK h1, M1 : Drawn(t, f, h1, D, M1)
  BY <1>18
<1>21. PICK h2, M2 : Drawn(t, g, h2, H, M2)
  BY <1>19
<1>22. \A x \in 1..n : x \notin D => f[x].k \in {"begin", "end", "marked"}
  BY <1>8, <1>11, <1>12
<1>23. \A x \in 1..N : x \notin H => /\ g[x].k \in {"policies", "policy"}
                                    /\ x - b + 1 \in 1..m /\ g[x] = new[x - b + 1]
  <2> TAKE x \in 1..N
  <2> HAVE x \notin H
  <2>1. b <= x /\ x < b + m
    BY <1>17
  <2>2. x - b + 1 \in 1..m /\ g[x] = new[x - b + 1]
    BY <2>1, <1>11, <1>15, <1>16
  <2> QED
    BY <2>2, <1>4, <1>10
<1>24. \A x \in D : f[x] \notin TagLines(RetryTag)
  BY <1>11, <1>12
<1>25. {"begin", "end", "marked", "policies", "policy"} \intersect (SectionKinds \union {"chain"}) = {}
  BY DEF SectionKinds, TopLevel
<1>26. \A x \in 1..n : f[x].k \in SectionKinds \union {"chain"} => x \in D
  BY <1>22, <1>25
<1>27. \A x \in 1..N : g[x].k \in SectionKinds \union {"chain"} => x \in H
  BY <1>23, <1>25
<1>28. D \subseteq 1..n /\ H \subseteq 1..N
  OBVIOUS
<1> HIDE DEF D, H
<1>41. ASSUME NEW l PROVE (\E x \in 1..Len(t) : t[x] = l) <=> (\E x \in H : g[x] = l)
  BY <1>21, DrawnLines
<1>29. Carries(t, f, "chain") /\ Carries(f, t, "chain")
  <2>1. (\A x \in 1..n : f[x].k \in SectionKinds => x \in D) /\ (\A x \in 1..n : f[x].k = "chain" => x \in D)
    BY <1>26
  <2> QED
    BY <2>1, <1>2, <1>20, DrawnCarries
<1>30. Carries(t, g, "chain") /\ Carries(g, t, "chain")
  <2>1. (\A x \in 1..N : g[x].k \in SectionKinds => x \in H) /\ (\A x \in 1..N : g[x].k = "chain" => x \in H)
    BY <1>27
  <2> QED
    BY <2>1, <1>16, <1>21, DrawnCarries
<1>31. Carries(f, g, "chain") /\ Carries(g, f, "chain")
  BY <1>29, <1>30, CarriesOn
<1>32. Only(t, Openers) = Only(f, Openers)
  <2>1. \A i \in 1..Len(f) : f[i] \in Openers => i \in D
    BY <1>2, <1>26 DEF Openers
  <2> QED
    BY <2>1, <1>1, <1>18, <1>20, OnlySame
<1>33. Only(t, Openers) = Only(g, Openers)
  <2>1. \A i \in 1..Len(g) : g[i] \in Openers => i \in H
    BY <1>16, <1>27 DEF Openers
  <2> QED
    BY <2>1, <1>15, <1>18, <1>21, OnlySame
<1>34. s \in 1..n /\ z \in 1..n /\ e \in 1..n
  BY <1>2 DEF ListIs
<1>35. \A x \in 1..e : f[x] = g[x]
  <2> TAKE x \in 1..e
  <2>1. x < b /\ x \in 1..Len(g)
    BY <1>9, <1>11, <1>15, <1>34
  <2> QED
    BY <2>1, <1>15
<1>36. ListIs(g, s, z, e)
  <2>1. g = Cut(f, b, a, new) /\ new \in Seq(Settled)
    BY <1>4, <1>13
  <2>2. Cuts(Cut(f, b, a, new), f, n, b, a, new, b + Len(new) - a)
    BY <1>1, <1>2, <1>4, <1>11, CutCuts
  <2>3. PICK d : Cuts(g, f, n, b, a, new, d)
    BY <2>1, <2>2
  <2>4. \A i \in b..(a - 1) : f[i].k \notin Top
    <3> TAKE i \in b..(a - 1)
    <3>1. i \in 1..n /\ b <= i /\ i < a
      BY <1>11
    <3>2. f[i].k \in {"begin", "end", "marked"}
      BY <3>1, <1>8, <1>12
    <3> QED
      BY <3>2 DEF Top, TopLevel
  <2>5. \A i \in 1..m : new[i].k \notin Top \union {"model_name"}
    <3> TAKE i \in 1..m
    <3>1. new[i].k \in {"policies", "policy"}
      BY <1>4, <1>10
    <3> QED
      BY <3>1 DEF Top, TopLevel
  <2>6. b \in 1..n
    BY <1>6
  <2> QED
    BY <2>3, <2>4, <2>5, <2>6, <1>2, <1>9, <1>10, <1>11, CutList
<1>37. Similar(f, g, s, z, e)
  BY <1>31, <1>32, <1>33, <1>35, <1>36 DEF Similar
<1>38. ASSUME NEW u PROVE (\E j \in 1..N : g[j].k = "policy" /\ g[j].name = u) <=> u \in names
  <2>1. ASSUME NEW j \in 1..N, g[j].k = "policy", g[j].name = u PROVE u \in names
    <3>1. j \notin H
      <4> SUFFICES ASSUME j \in H PROVE FALSE
        OBVIOUS
      <4>0. PICK l : l = g[j]
        OBVIOUS
      <4>1. \E x \in 1..Len(t) : t[x] = l
        <5>1. \E x \in H : g[x] = l
          BY <4>0
        <5>2. (\E x \in 1..Len(t) : t[x] = l) <=> (\E x \in H : g[x] = l)
          BY <1>41
        <5> QED
          BY <5>1, <5>2
      <4>2. \E x \in D : f[x] = l
        BY <4>1, <1>20, DrawnLines
      <4>3. PICK x \in 1..n : f[x] = g[j]
        BY <4>0, <4>2, <1>28
      <4>4. f[x] \in Fresh
        BY <1>1, <1>2
      <4> QED
        BY <4>3, <4>4, <2>1 DEF Fresh
    <3> QED
      BY <3>1, <2>1, <1>4, <1>10, <1>23
  <2>2. ASSUME u \in names PROVE \E j \in 1..N : g[j].k = "policy" /\ g[j].name = u
    <3>1. PICK i \in 1..m : new[i].k = "policy" /\ new[i].name = u
      BY <2>2, <1>4, <1>10
    <3>2. b \in Nat /\ b >= 1 /\ b + m <= N + 1 /\ i \in Nat /\ 1 <= i /\ i <= m /\ m \in Nat /\ N \in Nat
      BY <1>11, <1>16, <1>17, <1>10
    <3>3. PICK j : j = i + b - 1
      OBVIOUS
    <3>6. j \in 1..N /\ ~(j < b) /\ j < b + m /\ j - b + 1 = i
      BY <3>2, <3>3
    <3>4. j \in 1..Len(g) /\ ~(j < b) /\ j < b + m /\ j - b + 1 = i
      BY <3>6, <1>16
    <3>5. g[j] = new[i]
      BY <3>4, <1>15
    <3> QED
      BY <3>1, <3>4, <3>5, <1>16
  <2> QED
    BY <2>1, <2>2
<1>39. ASSUME NEW l, l.k \notin {"policies", "policy"}
       PROVE (\E j \in 1..N : g[j] = l) <=> (\E i \in 1..n : f[i] = l) /\ l \notin TagLines(RetryTag)
  <2>1. (\E x \in 1..Len(t) : t[x] = l) <=> (\E x \in D : f[x] = l)
    BY <1>20, DrawnLines
  <2>2. (\E x \in 1..Len(t) : t[x] = l) <=> (\E x \in H : g[x] = l)
    BY <1>41
  <2>3. (\E x \in D : f[x] = l) <=> (\E i \in 1..n : f[i] = l) /\ l \notin TagLines(RetryTag)
    <3>1. ASSUME NEW i \in 1..n, f[i] = l, l \notin TagLines(RetryTag) PROVE i \in D
      BY <3>1, <1>11, <1>12 DEF D
    <3> QED
      BY <3>1, <1>24, <1>28
  <2>4. (\E x \in H : g[x] = l) <=> (\E j \in 1..N : g[j] = l)
    <3>1. ASSUME NEW j \in 1..N, g[j] = l PROVE j \in H
      BY <3>1, <1>23, <1>39
    <3> QED
      BY <3>1, <1>28
  <2> QED
    BY <2>1, <2>2, <2>3, <2>4
<1> QED
  BY <1>2, <1>15, <1>16, <1>37, <1>38, <1>39

-----------------------------------------------------------------------------
(* One pass after the other. *)

\* What is behind the list.
Behind == {"begin", "end", "marked", "chain", "fallbacks", "context"}

\* There it is, and the retry policy has its place.
Laid(f, s, z, e) ==
  /\ f \in Seq(Fresh) /\ ListIs(f, s, z, e)
  /\ \A i \in 1..Len(f) : f[i].k \in Behind => e < i
  /\ MarksOf(f, RetryTag) /\ BeginsOnce(f)

Has(f, l) == \E i \in 1..Len(f) : f[i] = l

\* With the same chains and sections.
Alike(f, g) ==
  /\ Carries(f, g, "chain") /\ Carries(g, f, "chain")
  /\ Only(g, Openers) = Only(f, Openers)

LEMMA PlacedDrawn ==
  ASSUME NEW f, NEW s, NEW z, NEW e, Laid(f, s, z, e), NEW g \in Seq(Fresh),
         NEW h, NEW D, NEW n, Drawn(g, f, h, D, n), 1..e \subseteq D,
         \A i \in 1..Len(f) : f[i].k \in SectionKinds \/ f[i] \in TagLines(RetryTag) => i \in D
  PROVE  Laid(g, s, z, e) /\ (\A x \in 1..e : f[x] = g[x]) /\ Only(g, Openers) = Only(f, Openers)
<1>1. /\ f \in Seq(Fresh) /\ ListIs(f, s, z, e)
      /\ \A i \in 1..Len(f) : f[i].k \in Behind => e < i
      /\ MarksOf(f, RetryTag) /\ BeginsOnce(f)
  BY DEF Laid
<1>2. f \in Seq(Line) /\ g \in Seq(Line)
  BY <1>1, Subsets, SeqMono
<1>3. PICK L \in Nat : L = Len(f)
  BY <1>1
<1>4. ListIs(g, s, z, e) /\ \A i \in 1..e : f[i] = g[i]
  BY <1>1, <1>2, <1>3, ListDrawn
<1>5. MarksOf(g, RetryTag)
  BY <1>1, <1>3, MarksDrawn
<1>6. BeginsOnce(g)
  <2>1. \A i \in 1..L : f[i] = Begin(RetryTag) => i \in D
    BY <1>3 DEF TagLines
  <2> QED
    BY <2>1, <1>1, <1>3, BeginsDrawn
<1>7. Only(g, Openers) = Only(f, Openers)
  <2>1. \A i \in 1..Len(f) : f[i] \in Openers => i \in D
    BY DEF Openers
  <2> QED
    BY <2>1, <1>2, OnlySame
<1>8. \A i \in 1..Len(g) : g[i].k \in Behind => e < i
  <2> TAKE i \in 1..Len(g)
  <2> HAVE g[i].k \in Behind
  <2>1. e \in 1..L
    BY <1>1, <1>3 DEF ListIs
  <2>2. ~(i <= e)
    <3> SUFFICES ASSUME i <= e PROVE FALSE
      OBVIOUS
    <3>1. i \in 1..e /\ i \in 1..L
      BY <2>1
    <3> QED
      BY <3>1, <1>1, <1>3, <1>4, <2>1
  <2> QED
    BY <2>1, <2>2
<1> QED
  BY <1>1, <1>4, <1>5, <1>6, <1>7, <1>8 DEF Laid

\* strip_marked_blocks.
LEMMA StripPass ==
  ASSUME NEW f, NEW s, NEW z, NEW e, Laid(f, s, z, e), \A tag \in Features : MarksOf(f, tag),
         NEW env1, NEW g, g = StripAll(f, env1)
  PROVE  /\ Laid(g, s, z, e) /\ ParseBlocks(g) = ParseBlocks(f) /\ Alike(f, g)
         /\ \A l \in Line : Has(g, l) <=> Has(f, l) /\ l \notin Leftovers(env1)
<1>1. /\ f \in Seq(Fresh) /\ ListIs(f, s, z, e)
      /\ \A i \in 1..Len(f) : f[i].k \in Behind => e < i
  BY DEF Laid
<1>2. f \in Seq(Line) /\ f \in Seq(Settled)
  BY <1>1, Subsets, SeqMono
<1> DEFINE W == Line \ Leftovers(env1)
           D == {i \in 1..Len(f) : f[i] \in W}
<1>3. g = Only(f, W)
  BY <1>2, StripAllIs
<1>4. \A l \in Leftovers(env1) : \E tag \in Features : l \in TagLines(tag)
  BY DEF Leftovers, Gone, TagLines
<1> HIDE DEF W
<1>5. PICK h, n : Drawn(g, f, h, D, n)
  BY <1>2, <1>3, OnlyDrawn
<1>6. g \in Seq(Fresh)
  BY <1>1, <1>3, OnlyTyped
<1>7. PICK L \in Nat : L = Len(f) /\ \A i \in 1..L : f[i] \in Line
  BY <1>2
<1>8. \A i \in 1..L : i \notin D => f[i] \notin TagLines(RetryTag) /\ f[i].k \in {"begin", "end", "marked"}
  <2> TAKE i \in 1..L
  <2> HAVE i \notin D
  <2>1. f[i] \in Leftovers(env1)
    BY <1>7 DEF W
  <2>2. PICK tag \in Features : f[i] \in TagLines(tag)
    BY <2>1, <1>4
  <2>3. tag # RetryTag
    BY RenderAssumption
  <2>4. TagLines(tag) \intersect TagLines(RetryTag) = {}
    BY <2>3, TagLinesDiffer
  <2>5. f[i].k \in {"begin", "end", "marked"}
    BY <2>2 DEF TagLines, Begin, End, Marked
  <2> QED
    BY <2>2, <2>4, <2>5
<1>9. D \subseteq 1..L
  BY <1>7
<1>10. \A l \in Line : (\E x \in D : f[x] = l) <=> Has(f, l) /\ l \notin Leftovers(env1)
  BY <1>7 DEF Has, W
<1> HIDE DEF D
<1>11. \A i \in 1..L : f[i].k \in SectionKinds \/ f[i].k = "chain" \/ f[i] \in TagLines(RetryTag) => i \in D
  BY <1>8 DEF SectionKinds, TopLevel
<1>12. 1..e \subseteq D
  <2> SUFFICES ASSUME NEW i \in 1..e PROVE i \in D
    OBVIOUS
  <2>1. e \in 1..L
    BY <1>1, <1>7 DEF ListIs
  <2>2. i \in 1..L /\ ~(e < i)
    BY <2>1
  <2>3. f[i].k \notin Behind
    BY <2>2, <1>1, <1>7
  <2> QED
    BY <2>2, <2>3, <1>8 DEF Behind
<1>13. Laid(g, s, z, e) /\ (\A x \in 1..e : f[x] = g[x]) /\ Only(g, Openers) = Only(f, Openers)
  BY <1>5, <1>6, <1>7, <1>11, <1>12, PlacedDrawn
<1>14. ParseBlocks(f) = ParseBlocks(g)
  <2>1. g \in Seq(Settled) /\ ListIs(g, s, z, e)
    BY <1>6, <1>13, Subsets, SeqMono DEF Laid
  <2> QED
    BY <2>1, <1>1, <1>2, <1>13, SameList
<1>15. Carries(f, g, "chain") /\ Carries(g, f, "chain")
  <2>1. (\A x \in 1..L : f[x].k \in SectionKinds => x \in D) /\ (\A x \in 1..L : f[x].k = "chain" => x \in D)
    BY <1>11
  <2> QED
    BY <2>1, <1>5, <1>7, DrawnCarries
<1>16. \A l : Has(g, l) <=> (\E x \in D : f[x] = l)
  BY <1>5, DrawnLines DEF Has
<1> QED
  BY <1>10, <1>13, <1>14, <1>15, <1>16 DEF Alike

\* filter_blocks.
LEMMA RemovePass ==
  ASSUME NEW f, Sound(f, Fresh), NEW s, NEW z, NEW e, Laid(f, s, z, e),
         NEW env1, NEW g, g = RemoveBlocks(f, ParseBlocks(f), env1)
  PROVE  /\ \E s1, z1, e1 : Laid(g, s1, z1, e1)
         /\ FactsOf(ParseBlocks(g)) = FactsOf(Staying(f, env1)) /\ Alike(f, g)
         /\ \A l : l.k \in Behind => (Has(g, l) <=> Has(f, l))
<1>1. /\ f \in Seq(Fresh) /\ ListIs(f, s, z, e)
      /\ \A i \in 1..Len(f) : f[i].k \in Behind => e < i
      /\ MarksOf(f, RetryTag) /\ BeginsOnce(f)
  BY DEF Laid
<1>2. f \in Seq(Line)
  BY <1>1, Subsets, SeqMono
<1>3. PICK L \in Nat : L = Len(f) /\ \A i \in 1..L : f[i] \in Fresh
  BY <1>1
<1>4. FactsOf(ParseBlocks(g)) = FactsOf(Staying(f, env1)) /\ DrawnAround(g, f, s, z)
  BY <1>1, RemovedIs
<1>5. PICK h, D, n : Drawn(g, f, h, D, n) /\ \A x \in 1..L : x <= s \/ z <= x => x \in D
  BY <1>3, <1>4 DEF DrawnAround
<1>6. PICK s1, z1, e1 : g \in Seq(Fresh) /\ ListIs(g, s1, z1, e1)
  <2>1. Sound(g, Fresh)
    BY RemoveSound
  <2> QED
    BY <2>1 DEF Sound, Framed
<1>7. g \in Seq(Line)
  BY <1>6, Subsets, SeqMono
<1>8. /\ n \in Nat /\ Len(g) = n /\ h \in [1..n -> D] /\ D \subseteq 1..L
      /\ \A x \in D : \E j \in 1..n : h[j] = x
      /\ \A i, j \in 1..n : i < j => h[i] < h[j]
      /\ \A j \in 1..n : g[j] = f[h[j]]
  BY <1>3, <1>5 DEF Drawn
<1>9. /\ s \in 1..L /\ z \in 1..L /\ e \in 1..L /\ s <= z /\ z < e
      /\ \A i \in 1..L : /\ f[i].k = "model_list" <=> i = s
                         /\ f[i].k \in Top => i <= s \/ e <= i
      /\ f[e].k \in Top
  BY <1>1, <1>3 DEF ListIs
<1>10. /\ s1 \in 1..n /\ z1 \in 1..n /\ e1 \in 1..n
       /\ \A i \in 1..n : /\ g[i].k = "model_list" <=> i = s1
                          /\ g[i].k \in Top => i <= s1 \/ e1 <= i
  BY <1>6, <1>8 DEF ListIs
<1>11. \A x \in 1..L : f[x].k \in Behind => x \in D /\ e < x
  <2> TAKE x \in 1..L
  <2> HAVE f[x].k \in Behind
  <2>1. e < x
    BY <1>1, <1>3
  <2>2. z <= x
    BY <2>1, <1>9
  <2> QED
    BY <2>1, <2>2, <1>5
<1>12. \A x \in 1..L : f[x].k \in SectionKinds => x \in D
  <2> TAKE x \in 1..L
  <2> HAVE f[x].k \in SectionKinds
  <2>1. CASE f[x].k \in Behind
    BY <2>1, <1>11
  <2>2. CASE f[x].k \notin Behind
    <3>1. f[x].k # "new_header"
      BY <1>3 DEF Fresh, Settled
    <3>2. f[x].k \in Top
      BY <2>2, <3>1 DEF SectionKinds, Behind, Top
    <3>3. x <= s \/ e <= x
      BY <3>2, <1>9
    <3>4. x <= s \/ z <= x
      BY <3>3, <1>9
    <3> QED
      BY <3>4, <1>5
  <2> QED
    BY <2>1, <2>2
<1>13. \A x \in 1..L : f[x] \in TagLines(RetryTag) => f[x].k \in Behind
  BY DEF TagLines, Behind, Begin, End, Marked
<1>15. \A j \in 1..n : h[j] \in 1..L
  BY <1>8
<1>14. e1 < e1 + 1 /\ \A j \in 1..n : e < h[j] => e1 < j
  <2>1. PICK p \in 1..n : h[p] = e
    <3>1. e \in D
      BY <1>5, <1>9
    <3> QED
      BY <3>1, <1>8
  <2>2. PICK q \in 1..n : h[q] = s
    <3>1. s \in D
      BY <1>5, <1>9
    <3> QED
      BY <3>1, <1>8
  <2>3. g[p].k \in Top /\ g[q].k = "model_list"
    BY <2>1, <2>2, <1>8, <1>9
  <2>4. q = s1 /\ (p <= s1 \/ e1 <= p)
    BY <2>3, <1>10
  <2>5. q < p
    <3>1. p # q /\ ~(p < q)
      BY <2>1, <2>2, <1>8, <1>9
    <3> QED
      BY <3>1
  <2>6. e1 <= p
    BY <2>4, <2>5, <1>10
  <2>7. ASSUME NEW j \in 1..n, e < h[j] PROVE e1 < j
    <3>1. ~(j < p) /\ j # p
      <4>1. e \in Nat
        BY <1>9
      <4>2. ASSUME j < p PROVE h[j] < e
        BY <2>1, <4>2, <1>8
      <4> QED
        BY <4>1, <4>2, <2>1, <2>7, <1>15
    <3> QED
      BY <3>1, <2>6, <1>10
  <2> QED
    BY <2>7, <1>10
<1>16. \A j \in 1..Len(g) : g[j].k \in Behind => e1 < j
  <2> TAKE j \in 1..Len(g)
  <2> HAVE g[j].k \in Behind
  <2>1. f[h[j]].k \in Behind /\ h[j] \in 1..L /\ j \in 1..n
    BY <1>8, <1>15
  <2>2. e < h[j]
    BY <2>1, <1>11
  <2> QED
    BY <2>1, <2>2, <1>14
<1>17. MarksOf(g, RetryTag)
  <2>1. \A i \in 1..L : f[i] \in TagLines(RetryTag) => i \in D
    BY <1>11, <1>13
  <2> QED
    BY <2>1, <1>1, <1>3, <1>5, MarksDrawn
<1>18. BeginsOnce(g)
  <2>1. \A i \in 1..L : f[i] = Begin(RetryTag) => i \in D
    BY <1>11, <1>13 DEF TagLines
  <2> QED
    BY <2>1, <1>1, <1>3, <1>5, BeginsDrawn
<1>19. Laid(g, s1, z1, e1)
  BY <1>6, <1>16, <1>17, <1>18 DEF Laid
<1>20. Only(g, Openers) = Only(f, Openers)
  <2>1. \A i \in 1..Len(f) : f[i] \in Openers => i \in D
    BY <1>3, <1>12 DEF Openers
  <2> QED
    BY <2>1, <1>2, <1>5, <1>7, OnlySame
<1>21. Carries(f, g, "chain") /\ Carries(g, f, "chain")
  <2>1. \A x \in 1..L : f[x].k = "chain" => x \in D
    BY <1>11 DEF Behind
  <2> QED
    BY <2>1, <1>3, <1>5, <1>12, DrawnCarries
<1>22. ASSUME NEW l, l.k \in Behind PROVE Has(g, l) <=> Has(f, l)
  <2>1. Has(g, l) <=> (\E x \in D : f[x] = l)
    BY <1>5, DrawnLines DEF Has
  <2>2. (\E x \in D : f[x] = l) <=> Has(f, l)
    BY <1>3, <1>8, <1>11, <1>22 DEF Has
  <2> QED
    BY <2>1, <2>2
<1> QED
  BY <1>4, <1>19, <1>20, <1>21, <1>22 DEF Alike

\* The chains of g: what a render leaves of those of f ...
Fit(g, f, names, nonChat, env1) ==
  \A j \in 1..Len(g) : g[j].k = "chain" =>
    /\ g[j].name \in names \union {"*"} /\ ToSet(g[j].to) \subseteq names
    /\ Section(g, j) = "fallbacks" =>
         IF g[j].name \in nonChat THEN g[j].to = <<>>
         ELSE IF g[j].to = <<>> THEN \E i \in 1..Len(f) : f[i] = g[j] /\ Section(f, i) = "fallbacks"
         ELSE "openrouter" \in env1 /\ "openrouter-free" \in names <=> Contains(g[j].to, "openrouter-free")

\* ... and it leaves those with targets.
Keep(g, f, names, nonChat) ==
  \A i \in 1..Len(f) :
    /\ f[i].k = "chain" /\ f[i].name \in names \union {"*"} /\ Plainly(f[i].to, names) # <<>>
    /\ Section(f, i) = "fallbacks" => f[i].name \notin nonChat
    => \E j \in 1..Len(g) : /\ g[j].k = "chain" /\ Section(g, j) = Section(f, i)
                            /\ g[j].name = f[i].name /\ Plainly(g[j].to, names) = Plainly(f[i].to, names)

\* The chains are in the two sections.
Sectioned(f) == \A i \in 1..Len(f) : f[i].k = "chain" => Section(f, i) \in {"fallbacks", "context"}

\* Besides, all is as before.
Rechained(g, f, s, z, e, names, nonChat, env1) ==
  /\ Laid(g, s, z, e) /\ ParseBlocks(g) = ParseBlocks(f) /\ Only(g, Openers) = Only(f, Openers)
  /\ \A l : l.k # "chain" => (Has(g, l) <=> Has(f, l))
  /\ Fit(g, f, names, nonChat, env1) /\ Keep(g, f, names, nonChat)

\* remove_orphaned_fallbacks and update_fallbacks.
LEMMA ChainPass ==
  ASSUME NEW f, Sound(f, Fresh), NEW s, NEW z, NEW e, Laid(f, s, z, e), Sectioned(f),
         NEW names \in SUBSET Names, NEW nonChat, NEW env1, NEW g, g = UpdateChains(f, names, nonChat, env1)
  PROVE  Rechained(g, f, s, z, e, names, nonChat, env1)
<1>1. /\ f \in Seq(Fresh) /\ ListIs(f, s, z, e)
      /\ \A i \in 1..Len(f) : f[i].k \in Behind => e < i
      /\ MarksOf(f, RetryTag) /\ BeginsOnce(f)
  BY DEF Laid
<1>2. f \in Seq(Line)
  BY <1>1, Subsets, SeqMono
<1>3. PICK L \in Nat : L = Len(f) /\ \A i \in 1..L : f[i] \in Fresh
  BY <1>1
<1>4. PICK u, S, h, n : Rewrites(u, S, f, names, nonChat, env1) /\ Drawn(g, u, h, S, n)
  BY <1>1, ChainsRewritten
<1>5. /\ u \in Seq(Line) /\ Len(u) = L /\ S \subseteq 1..L
      /\ \A i \in 1..L : u[i].k = f[i].k /\ (f[i].k # "chain" => u[i] = f[i] /\ i \in S)
  BY <1>3, <1>4 DEF Rewrites
<1>6. g \in Seq(Fresh)
  <2>1. Sound(g, Fresh)
    BY ChainsSound
  <2> QED
    BY <2>1 DEF Sound, Framed
<1>7. u \in Seq(Fresh)
  <2>1. \A i \in 1..L : u[i] \in Fresh
    <3> TAKE i \in 1..L
    <3>1. u[i] \in Line
      BY <1>5
    <3>2. CASE f[i].k # "chain"
      BY <3>2, <1>3, <1>5
    <3>3. CASE f[i].k = "chain"
      BY <3>1, <3>3, <1>5 DEF Fresh, Settled
    <3> QED
      BY <3>2, <3>3
  <2> QED
    BY <2>1, <1>5
<1>8. \A i \in 1..L : Section(u, i) = Section(f, i)
  BY <1>5, SectionSame
<1>9. \A i \in 1..L : f[i].k \in Behind \ {"chain"} => u[i] = f[i]
  BY <1>5 DEF Behind
<1>10. \A i \in 1..L : f[i] \in TagLines(RetryTag) <=> u[i] \in TagLines(RetryTag)
  BY <1>5 DEF TagLines, Begin, End, Marked
<1>11. \A i \in 1..L, l \in TagLines(RetryTag) : u[i] = l <=> f[i] = l
  BY <1>5 DEF TagLines, Begin, End, Marked
<1>12. MarksOf(u, RetryTag)
  BY <1>1, <1>3, <1>5, <1>11 DEF MarksOf, TagLines, TagRun
<1>13. BeginsOnce(u)
  <2>1. Begin(RetryTag) \in TagLines(RetryTag)
    BY DEF TagLines
  <2>2. PICK b \in 1..L : \A i \in 1..L : f[i] = Begin(RetryTag) <=> i = b
    BY <1>1, <1>3 DEF BeginsOnce
  <2>3. \A i \in 1..L : u[i] = Begin(RetryTag) <=> i = b
    BY <2>1, <2>2, <1>11
  <2> QED
    BY <2>3, <1>5 DEF BeginsOnce
<1>14. ListIs(u, s, z, e)
  BY <1>1, <1>3, <1>5 DEF ListIs
<1>15. Laid(u, s, z, e)
  BY <1>1, <1>3, <1>5, <1>7, <1>12, <1>13, <1>14 DEF Laid
<1>16. \A x \in 1..e : f[x] = u[x] /\ x \in S
  <2> TAKE x \in 1..e
  <2>1. e \in 1..L
    BY <1>1, <1>3 DEF ListIs
  <2>2. x \in 1..L /\ ~(e < x)
    BY <2>1
  <2>3. f[x].k # "chain"
    BY <2>2, <1>1, <1>3 DEF Behind
  <2> QED
    BY <2>2, <2>3, <1>5
<1>17. \A i \in 1..Len(u) : u[i].k \in SectionKinds \/ u[i] \in TagLines(RetryTag) => i \in S
  BY <1>5 DEF SectionKinds, TopLevel, TagLines, Begin, End, Marked
<1>18. Laid(g, s, z, e) /\ (\A x \in 1..e : u[x] = g[x]) /\ Only(g, Openers) = Only(u, Openers)
  BY <1>4, <1>6, <1>15, <1>16, <1>17, PlacedDrawn
<1>19. ParseBlocks(g) = ParseBlocks(f)
  <2>1. g \in Seq(Settled) /\ f \in Seq(Settled) /\ ListIs(g, s, z, e)
    BY <1>1, <1>6, <1>18, Subsets, SeqMono DEF Laid
  <2>2. \A x \in 1..e : g[x] = f[x]
    BY <1>16, <1>18
  <2> QED
    BY <2>1, <2>2, <1>1, SameList
<1>20. Only(g, Openers) = Only(f, Openers)
  <2> DEFINE I == {i \in 1..Len(u) : u[i] \in Openers}
             J == {i \in 1..Len(f) : f[i] \in Openers}
             id == [i \in 1..L |-> i]
  <2>1. f \in Seq(Line) /\ u \in Seq(Line)
    BY <1>2, <1>5
  <2>2. \A i \in 1..L : f[i] \in Openers => f[i] = u[i]
    BY <1>5 DEF Openers, SectionKinds, TopLevel
  <2>3. \A i \in 1..L : u[i] \in Openers => f[i] = u[i]
    BY <1>5 DEF Openers, SectionKinds, TopLevel
  <2>4. I = J /\ I \subseteq 1..L /\ I \subseteq Nat
    BY <2>2, <2>3, <1>3, <1>5
  <2>5. Lists(u, u, 1..Len(u), Upward) /\ Lists(f, f, 1..Len(f), Upward)
    BY <2>1, ListsItself
  <2>6. Lists(Only(u, Openers), u, I, Upward) /\ Lists(Only(f, Openers), f, J, Upward)
    <3>1. Lists(Only(u, Openers), u, I, Upward)
      BY <2>1, <2>5, ListsOnly
    <3>2. Lists(Only(f, Openers), f, J, Upward)
      BY <2>1, <2>5, ListsOnly
    <3> QED
      BY <3>1, <3>2
  <2>7. \A i \in I : u[i] = f[i] /\ i \in 1..L
    BY <2>3, <2>4
  <2> HIDE DEF I, J
  <2>8. /\ \A x \in I : id[x] \in I /\ u[x] = f[id[x]]
        /\ \A y \in I : \E x \in I : id[x] = y
        /\ \A x, y \in I : x < y => id[x] < id[y]
    BY <2>7
  <2> HIDE DEF id
  <2>9. Lists(Only(u, Openers), f, I, Upward)
    BY <2>4, <2>6, <2>8, ListsFrom
  <2>10. \A x, y \in I : <<x, y>> \in Upward => <<y, x>> \notin Upward
    BY DEF Upward
  <2>11. Only(u, Openers) = Only(f, Openers)
    BY <2>4, <2>6, <2>9, <2>10, ListsUnique
  <2> QED
    BY <2>11, <1>18
<1>21. /\ n \in Nat /\ Len(g) = n /\ h \in [1..n -> S]
       /\ \A x \in S : \E j \in 1..n : h[j] = x
       /\ \A j \in 1..n : g[j] = u[h[j]]
  BY <1>4 DEF Drawn
<1>22. \A j \in 1..n : h[j] \in S /\ h[j] \in 1..L /\ Section(g, j) = Section(f, h[j])
  <2> TAKE j \in 1..n
  <2>1. h[j] \in S /\ h[j] \in 1..L
    BY <1>5, <1>21
  <2>2. \A x \in 1..L : u[x].k \in SectionKinds => x \in S
    BY <1>5, <1>17
  <2>3. Section(g, j) = Section(u, h[j])
    BY <2>2, <1>4, <1>5, <1>21, SectionDrawn
  <2> QED
    BY <2>1, <2>3, <1>8
<1>23. ASSUME NEW l, l.k # "chain" PROVE Has(g, l) <=> Has(f, l)
  <2>1. Has(g, l) <=> (\E x \in S : u[x] = l)
    BY <1>4, DrawnLines DEF Has
  <2>2. ASSUME NEW x \in S, u[x] = l PROVE Has(f, l)
    <3>1. x \in 1..L /\ f[x].k # "chain"
      BY <2>2, <1>5, <1>23
    <3> QED
      BY <3>1, <2>2, <1>3, <1>5 DEF Has
  <2>3. ASSUME Has(f, l) PROVE \E x \in S : u[x] = l
    <3>1. PICK x \in 1..L : f[x] = l
      BY <2>3, <1>3 DEF Has
    <3> QED
      BY <3>1, <1>5, <1>23
  <2> QED
    BY <2>1, <2>2, <2>3
<1>24. ASSUME NEW i \in 1..L, f[i].k = "chain"
       PROVE  (i \in S => ChainFits(u, i, f, names, nonChat, env1)) /\ ChainStays(u, S, i, f, names, nonChat)
  <2>1. i \in 1..Len(f) /\ Section(f, i) \in {"fallbacks", "context"}
    BY <1>3, <1>24 DEF Sectioned
  <2> QED
    BY <2>1, <1>2, <1>4, <1>24, ChainRewritten
<1>25. Fit(g, f, names, nonChat, env1)
  <2> SUFFICES ASSUME NEW j \in 1..n, g[j].k = "chain"
      PROVE  /\ g[j].name \in names \union {"*"} /\ ToSet(g[j].to) \subseteq names
             /\ Section(g, j) = "fallbacks" =>
                  IF g[j].name \in nonChat THEN g[j].to = <<>>
                  ELSE IF g[j].to = <<>> THEN \E i \in 1..Len(f) : f[i] = g[j] /\ Section(f, i) = "fallbacks"
                  ELSE "openrouter" \in env1 /\ "openrouter-free" \in names <=> Contains(g[j].to, "openrouter-free")
    BY <1>21 DEF Fit
  <2>1. PICK i : i = h[j]
    OBVIOUS
  <2>2. i \in S /\ i \in 1..L /\ g[j] = u[i] /\ Section(g, j) = Section(f, i)
    BY <2>1, <1>21, <1>22
  <2>3. f[i].k = "chain"
    BY <2>2, <1>5
  <2>4. ChainFits(u, i, f, names, nonChat, env1)
    BY <2>2, <2>3, <1>24
  <2> QED
    BY <2>2, <2>4, <1>3 DEF ChainFits
<1>26. Keep(g, f, names, nonChat)
  <2> SUFFICES ASSUME NEW i \in 1..L,
                      f[i].k = "chain", f[i].name \in names \union {"*"}, Plainly(f[i].to, names) # <<>>,
                      Section(f, i) = "fallbacks" => f[i].name \notin nonChat
      PROVE \E j \in 1..n : /\ g[j].k = "chain" /\ Section(g, j) = Section(f, i)
                             /\ g[j].name = f[i].name /\ Plainly(g[j].to, names) = Plainly(f[i].to, names)
    BY <1>3, <1>21 DEF Keep
  <2>1. i \in S /\ u[i].name = f[i].name /\ Plainly(u[i].to, names) = Plainly(f[i].to, names)
    BY <1>24 DEF ChainStays
  <2>2. PICK j \in 1..n : h[j] = i
    BY <2>1, <1>21
  <2>3. g[j] = u[i] /\ Section(g, j) = Section(f, i) /\ u[i].k = "chain"
    BY <2>2, <1>5, <1>21, <1>22
  <2> QED
    BY <2>1, <2>3
<1> QED
  BY <1>18, <1>19, <1>20, <1>23, <1>25, <1>26 DEF Rechained

\* A deployment of another type than chat gives its group one.
LEMMA OtherParsed ==
  ASSUME NEW f \in Seq(Settled), NEW s, NEW z, NEW e, ListIs(f, s, z, e), NEW W, NEW kept, kept = Only(ParseBlocks(f), W),
         NEW i \in DOMAIN kept, kept[i].mode # "chat"
  PROVE  kept[i].name \in OtherTypes(f)
<1> DEFINE b == ParseBlocks(f)
<1>1. PICK n, at, end : Parses(b, f, n, at, end, z)
  BY BlocksParsed
<1>2. PICK L \in Nat : L = Len(f)
  OBVIOUS
<1>3. /\ n \in Nat /\ b = [x \in 1..n |-> Parsed(f, at[x], end[x])]
      /\ at \in [1..n -> Starts(f)] /\ \A x \in 1..n : Stretches(f, at[x], end[x], z)
  BY <1>1 DEF Parses, Enumerates
<1> HIDE DEF b
<1>4. PICK m \in 1..n : kept[i] = b[m]
  <2> DEFINE E == {Parsed(f, at[x], end[x]) : x \in 1..n}
  <2>1. b \in Seq(E)
    BY <1>3
  <2>2. \A x \in E : \E y \in 1..n : x = b[y]
    BY <1>3
  <2> HIDE DEF E
  <2>3. kept \in Seq(E)
    BY <2>1, OnlyTyped DEF b
  <2>4. kept[i] \in E
    BY <2>3
  <2> QED
    BY <2>2, <2>4
<1>5. PICK a, j : a = at[m] /\ j = end[m]
  OBVIOUS
<1>6. a \in Starts(f) /\ Stretches(f, a, j, z) /\ kept[i] = Parsed(f, a, j)
  BY <1>3, <1>4, <1>5
<1>7. a \in 1..L /\ s < a /\ a < z /\ f[a].k = "model_name"
  BY <1>2, <1>6, StartsAre DEF Name
<1>8. z \in 1..L
  BY <1>2 DEF ListIs
<1>9. j \in a..L /\ j \in a..(z - 1) /\ \A x \in (a + 1)..j : f[x].k \notin {"blank", "model_name"}
  BY <1>6, <1>7, <1>8 DEF Stretches
<1> DEFINE d == Part(f, a, j, "mode")
<1>10. f \in Seq(Line)
  BY Subsets, SeqMono
<1>11. /\ Facts(Parsed(f, a, j)) = FactsFrom(f[a].name, Part(f, a, j, "model"), Part(f, a, j, "api_base"), d)
       /\ Parsed(f, a, j).name = f[a].name
       /\ Parsed(f, a, j).mode = Facts(Parsed(f, a, j)).mode
  BY <1>2, <1>7, <1>9, <1>10, ParsedFacts
<1>12. Lists(d, f, {x \in a..j : f[x].k = "mode"}, Upward)
  <2>1. a \in 1..Len(f) /\ j \in a..Len(f)
    BY <1>2, <1>7, <1>9
  <2>2. Lists(Part(f, a, j, "mode"), f, {x \in a..j : f[x].k = "mode"}, Upward)
    BY <2>1, <1>10, PartIs, Zenon
  <2> QED
    BY <2>2
<1> HIDE DEF d
<1>13. kept[i].mode = IF d = <<>> THEN "chat" ELSE Last(d).mode
  BY <1>6, <1>11 DEF FactsFrom
<1>140. PICK c \in Nat : \E h : /\ h \in [1..c -> {x \in a..j : f[x].k = "mode"}]
                              /\ d = [x \in 1..c |-> f[h[x]]]
  BY <1>12 DEF Lists, Enumerates
<1>14. PICK h : /\ h \in [1..c -> {x \in a..j : f[x].k = "mode"}]
                /\ d = [x \in 1..c |-> f[h[x]]]
  BY <1>140
<1>15. d # <<>> /\ Last(d).mode # "chat"
  BY <1>13
<1>16. Len(d) = c /\ c # 0
  BY <1>14, <1>15
<1>17. PICK x : x = h[c]
  OBVIOUS
<1>18. Last(d) = f[x] /\ x \in a..j /\ f[x].k = "mode"
  BY <1>14, <1>16, <1>17 DEF Last
<1>19. x \in (a + 1)..j /\ x \in (a + 1)..L
  BY <1>7, <1>9, <1>18
<1>20. \A y \in (a + 1)..x : f[y].k \notin {"blank", "model_name"}
  BY <1>7, <1>9, <1>19
<1>21. kept[i].name = f[a].name
  BY <1>6, <1>11
<1> QED
  BY <1>2, <1>7, <1>15, <1>18, <1>19, <1>20, <1>21 DEF OtherTypes

\* A marked line is its tag's.
LEMMA MarkLine ==
  ASSUME NEW l \in Line
  PROVE  /\ l.k = "begin" => l = Begin(l.tag)
         /\ l.k = "end" => l = End(l.tag)
         /\ l.k = "marked" => l = Marked(l.tag)
BY DEF Line, TopLevel, Begin, End, Marked

\* Which lines are leftovers.
LEMMA LeftoversAre ==
  ASSUME NEW keys, NEW tag
  PROVE  /\ tag \in Features => Begin(tag) \in Leftovers(keys) /\ End(tag) \in Leftovers(keys)
         /\ Marked(tag) \in Leftovers(keys) <=> tag \in Features \ keys
<1>1. \A t : Begin(t) # Marked(tag) /\ End(t) # Marked(tag) /\ (Marked(t) = Marked(tag) => t = tag)
  BY DEF Begin, End, Marked
<1> QED
  BY <1>1 DEF Leftovers, Gone

-----------------------------------------------------------------------------
(* A render. *)

\* Its filter takes the lines that start sections.
LEMMA RestIs ==
  ASSUME NEW f \in Seq(Line)
  PROVE  Filter(f, LAMBDA l : l.k \in (TopLevel \union {"fallbacks", "context"})) = Only(f, Openers)
<1> DEFINE W == {l \in ToSet(f) : l.k \in (TopLevel \union {"fallbacks", "context"})}
<1>1. \A i \in 1..Len(f) : f[i] \in W <=> f[i] \in Openers
  BY DEF ToSet, Openers, SectionKinds
<1> HIDE DEF W
<1>2. Only(f, W) = Only(f, Openers)
  BY <1>1, OnlyAgrees
<1> QED
  BY <1>2 DEF Filter, W

\* The list, the chains and the marked blocks of a template are in their places.
LEMMA PlacedIs ==
  ASSUME NEW f, NEW s, NEW z, NEW e, f \in Seq(Fresh), ListIs(f, s, z, e), TailIs(f, e), Marks(f), ChainsPlaced(f)
  PROVE  Laid(f, s, z, e)
<1>1. f \in Seq(Line) /\ f \in Seq(Settled)
  BY Subsets, SeqMono
<1>2. PICK L \in Nat : L = Len(f)
  BY <1>1
<1>3. ListEnd(f) = e
  BY <1>1, Bounds
<1>4. e \in 1..L
  BY <1>2 DEF ListIs
<1>5. \A i \in 1..L : f[i].k = "begin" => e < i
  BY <1>2 DEF TailIs
<1>6. \A i \in 1..L : f[i].k \in {"marked", "end"} => e < i
  <2> TAKE i \in 1..L
  <2> HAVE f[i].k \in {"marked", "end"}
  <2>1. PICK a \in 1..(i - 1) : f[a] = Begin(f[i].tag)
    BY <1>2 DEF Marks
  <2>2. a \in 1..L /\ f[a].k = "begin"
    BY <2>1 DEF Begin
  <2> QED
    BY <2>1, <2>2, <1>4, <1>5
<1>7. \A i \in 1..L : f[i].k \in {"fallbacks", "context", "chain"} => e < i
  BY <1>2, <1>3 DEF ChainsPlaced
<1>8. \A i \in 1..L : f[i].k \in Behind => e < i
  BY <1>5, <1>6, <1>7 DEF Behind
<1>9. MarksOf(f, RetryTag)
  BY <1>1, MarksByTag
<1>10. BeginsOnce(f)
  BY <1>2 DEF Marks, BeginsOnce
<1> QED
  BY <1>2, <1>8, <1>9, <1>10 DEF Laid

\* What the passes make of one another.
Passes(f, g, kept, names, nonChat, keys) ==
  \E f1, f2, f3, s, z, e :
    /\ f1 \in Seq(Line) /\ f2 \in Seq(Line) /\ f3 \in Seq(Line) /\ g \in Seq(Settled)
    /\ Alike(f, f1) /\ Alike(f1, f2) /\ Only(f3, Openers) = Only(f2, Openers) /\ Similar(f3, g, s, z, e)
    /\ FactsOf(ParseBlocks(g)) = FactsOf(kept)
    /\ Fit(f3, f2, names, nonChat, keys) /\ Keep(f3, f2, names, nonChat)
    /\ \A u : (\E j \in 1..Len(g) : g[j].k = "policy" /\ g[j].name = u) <=> u \in Singles(kept)
    /\ \A l \in Line : l.k \in {"begin", "end", "marked"} =>
         (Has(g, l) <=> Has(f, l) /\ l \notin Leftovers(keys) \union TagLines(RetryTag))

LEMMA RenderPasses ==
  ASSUME NEW f, Sound(f, Fresh), Marks(f), ChainsPlaced(f), NEW keys,
         NEW kept, kept = Filter(ParseBlocks(f), LAMBDA b : Kept(b, keys)), NEW nonChat,
         nonChat = {x \in Names : \E n \in DOMAIN kept : kept[n].name = x /\ kept[n].mode # "chat"}
  PROVE  Passes(f, Render(f, keys), kept, NamesOf(kept), nonChat, keys)
<1>1. PICK s, z, e : f \in Seq(Fresh) /\ ListIs(f, s, z, e) /\ TailIs(f, e)
  BY DEF Sound, Framed
<1>2. f \in Seq(Line) /\ f \in Seq(Settled)
  BY <1>1, Subsets, SeqMono
<1>3. Laid(f, s, z, e)
  BY <1>1, PlacedIs
<1>4. \A tag \in Features : MarksOf(f, tag)
  BY <1>2, MarksByTag
<1>5. PICK f1 : f1 = StripAll(f, keys)
  OBVIOUS
<1>6. /\ Laid(f1, s, z, e) /\ ParseBlocks(f1) = ParseBlocks(f) /\ Alike(f, f1)
      /\ \A l \in Line : Has(f1, l) <=> Has(f, l) /\ l \notin Leftovers(keys)
  BY <1>3, <1>4, <1>5, StripPass
<1>7. Sound(f1, Fresh)
  BY <1>5, StripAllSound
<1>8. PICK f2 : f2 = RemoveBlocks(f1, ParseBlocks(f1), keys)
  OBVIOUS
<1>9. /\ \E s1, z1, e1 : Laid(f2, s1, z1, e1)
      /\ FactsOf(ParseBlocks(f2)) = FactsOf(Staying(f1, keys)) /\ Alike(f1, f2)
      /\ \A l : l.k \in Behind => (Has(f2, l) <=> Has(f1, l))
  BY <1>6, <1>7, <1>8, RemovePass
<1>10. PICK s1, z1, e1 : Laid(f2, s1, z1, e1)
  BY <1>9
<1>11. Sound(f2, Fresh)
  BY <1>7, <1>8, RemoveSound
<1>12. Staying(f1, keys) = kept
  BY <1>6 DEF Staying
<1>13. NamesOf(kept) \in SUBSET Names
  BY <1>2, KeptNames DEF Filter
<1>14. PICK names \in SUBSET Names : names = NamesOf(kept)
  BY <1>13
<1>15. PICK f3 : f3 = UpdateChains(f2, names, nonChat, keys)
  OBVIOUS
<1>16. Sound(f3, Fresh)
  BY <1>11, <1>15, ChainsSound
<1>17. Sectioned(f2)
  <2>1. Carries(f2, f1, "chain") /\ Carries(f1, f, "chain")
    BY <1>6, <1>9 DEF Alike
  <2>2. Carries(f2, f, "chain")
    BY <2>1, CarriesOn
  <2>3. \A i \in 1..Len(f) : f[i].k = "chain" => Section(f, i) \in {"fallbacks", "context"}
    BY <1>2 DEF ChainsPlaced
  <2> QED
    BY <2>2, <2>3 DEF Carries, Sectioned
<1>18. /\ Laid(f3, s1, z1, e1) /\ ParseBlocks(f3) = ParseBlocks(f2) /\ Only(f3, Openers) = Only(f2, Openers)
       /\ \A l : l.k # "chain" => (Has(f3, l) <=> Has(f2, l))
       /\ Fit(f3, f2, names, nonChat, keys) /\ Keep(f3, f2, names, nonChat)
  <2>1. Rechained(f3, f2, s1, z1, e1, names, nonChat, keys)
    BY <1>10, <1>11, <1>15, <1>17, ChainPass
  <2> QED
    BY <2>1 DEF Rechained
<1>19. PICK ones \in SUBSET Names : ones = Singles(kept)
  BY <1>13 DEF Singles
<1>20. PICK g : g = InsertRetryPolicy(f3, ones)
  OBVIOUS
<1>21. g = Render(f, keys)
  <2>1. nonChat = {x \in Names : \E n \in DOMAIN kept : kept[n].name = x /\ kept[n].mode # "chat"}
    OBVIOUS
  <2> DEFINE lines == StripAll(f, keys)
             blocks == ParseBlocks(lines)
             left1 == Filter(blocks, LAMBDA b : Kept(b, keys))
             not == {x \in Names : \E n \in DOMAIN left1 : left1[n].name = x /\ left1[n].mode # "chat"}
  <2>2. Render(f, keys) = InsertRetryPolicy(
          UpdateChains(RemoveBlocks(lines, blocks, keys), NamesOf(left1), not, keys), Singles(left1))
    BY DEF Render
  <2>3. lines = f1 /\ blocks = ParseBlocks(f1) /\ left1 = kept
    BY <1>5, <1>6
  <2> HIDE DEF left1, blocks, lines
  <2>4. not = nonChat
    BY <2>1, <2>3
  <2> HIDE DEF not
  <2> QED
    BY <2>2, <2>3, <2>4, <1>8, <1>14, <1>15, <1>19, <1>20
<1>22. /\ f3 \in Seq(Fresh) /\ ListIs(f3, s1, z1, e1) /\ \A i \in 1..Len(f3) : f3[i].k = "begin" => e1 < i
       /\ MarksOf(f3, RetryTag) /\ BeginsOnce(f3)
  BY <1>18 DEF Laid, Behind
<1>23. /\ g \in Seq(Settled) /\ Similar(f3, g, s1, z1, e1)
       /\ \A u : (\E j \in 1..Len(g) : g[j].k = "policy" /\ g[j].name = u) <=> u \in ones
       /\ \A l : l.k \notin {"policies", "policy"} =>
            ((\E j \in 1..Len(g) : g[j] = l) <=> (\E i \in 1..Len(f3) : f3[i] = l) /\ l \notin TagLines(RetryTag))
  BY <1>16, <1>20, <1>22, PolicyPass
<1>24. ParseBlocks(g) = ParseBlocks(f3)
  <2>1. f3 \in Seq(Settled) /\ ListIs(g, s1, z1, e1) /\ \A x \in 1..e1 : f3[x] = g[x]
    BY <1>22, <1>23, Subsets, SeqMono DEF Similar
  <2>2. ParseBlocks(f3) = ParseBlocks(g)
    BY <2>1, <1>22, <1>23, SameList
  <2> QED
    BY <2>2
<1>25. FactsOf(ParseBlocks(g)) = FactsOf(kept)
  BY <1>9, <1>12, <1>18, <1>24
<1>26. ASSUME NEW l \in Line, l.k \in {"begin", "end", "marked"}
       PROVE  Has(g, l) <=> Has(f, l) /\ l \notin Leftovers(keys) \union TagLines(RetryTag)
  <2>1. l.k \in Behind /\ l.k # "chain" /\ l.k \notin {"policies", "policy"}
    BY <1>26 DEF Behind
  <2>2. Has(g, l) <=> Has(f3, l) /\ l \notin TagLines(RetryTag)
    BY <2>1, <1>23 DEF Has
  <2>3. Has(f3, l) <=> Has(f2, l)
    BY <2>1, <1>18
  <2>4. Has(f2, l) <=> Has(f1, l)
    BY <2>1, <1>9
  <2>5. Has(f1, l) <=> Has(f, l) /\ l \notin Leftovers(keys)
    BY <1>6
  <2> QED
    BY <2>2, <2>3, <2>4, <2>5
<1>27. f1 \in Seq(Line) /\ f2 \in Seq(Line) /\ f3 \in Seq(Line)
  BY <1>6, <1>10, <1>18, Subsets, SeqMono DEF Laid
<1>28. Passes(f, g, kept, names, nonChat, keys)
  BY <1>6, <1>9, <1>18, <1>19, <1>23, <1>25, <1>26, <1>27 DEF Passes
<1> QED
  BY <1>14, <1>21, <1>28

\* The marked lines.
LEMMA MarksExact ==
  ASSUME NEW f \in Seq(Line), Marks(f), NEW g \in Seq(Line), NEW keys,
         \A l \in Line : l.k \in {"begin", "end", "marked"} =>
           (Has(g, l) <=> Has(f, l) /\ l \notin Leftovers(keys) \union TagLines(RetryTag))
  PROVE  /\ {g[i].tag : i \in {j \in DOMAIN g : g[j].k = "marked"}} = Features \intersect keys
         /\ {i \in DOMAIN g : g[i].k = "begin"} \union {i \in DOMAIN g : g[i].k = "end"} = {}
<1>1. ASSUME NEW l \in Line, l.k \in {"begin", "end", "marked"}, Has(f, l)
      PROVE  l.tag \in Features \union {RetryTag}
  <2>1. PICK i \in 1..Len(f) : f[i] = l
    BY <1>1 DEF Has
  <2>2. PICK a \in 1..Len(f) : f[a] = Begin(l.tag)
    <3>1. CASE l.k = "begin"
      BY <2>1, <3>1, MarkLine
    <3>2. CASE l.k \in {"marked", "end"}
      <4>1. \E a \in 1..(i - 1) : f[a] = Begin(f[i].tag)
        BY <2>1, <3>2 DEF Marks
      <4>2. 1..(i - 1) \subseteq 1..Len(f)
        OBVIOUS
      <4> QED
        BY <4>1, <4>2, <2>1
    <3> QED
      BY <3>1, <3>2, <1>1
  <2>3. f[a].k = "begin" /\ f[a].tag = l.tag
    BY <2>2 DEF Begin
  <2>4. {f[j].tag : j \in {j \in DOMAIN f : f[j].k = "begin"}} \subseteq Features \union {RetryTag}
    BY DEF Marks
  <2> QED
    BY <2>3, <2>4
<1>2. ASSUME NEW i \in 1..Len(g), g[i].k \in {"begin", "end", "marked"}
      PROVE  /\ g[i].k = "marked" /\ g[i].tag \in Features \intersect keys
  <2>1. PICK l \in Line : l = g[i]
    OBVIOUS
  <2>2. Has(f, l) /\ l \notin Leftovers(keys) /\ l \notin TagLines(RetryTag)
    BY <2>1, <1>2 DEF Has
  <2>3. l.tag \in Features \union {RetryTag}
    BY <2>1, <2>2, <1>1, <1>2
  <2>4. l.k \in {"begin", "end", "marked"} /\ (l.k = "begin" => l = Begin(l.tag))
        /\ (l.k = "end" => l = End(l.tag)) /\ (l.k = "marked" => l = Marked(l.tag))
    BY <2>1, <1>2, MarkLine
  <2>5. l.tag # RetryTag
    BY <2>2, <2>4 DEF TagLines
  <2>6. l.tag \in Features
    BY <2>3, <2>5
  <2>7. Begin(l.tag) \in Leftovers(keys) /\ End(l.tag) \in Leftovers(keys)
        /\ (Marked(l.tag) \in Leftovers(keys) <=> l.tag \in Features \ keys)
    BY <2>6, LeftoversAre
  <2>8. l.k = "marked"
    BY <2>2, <2>4, <2>7
  <2>9. l.tag \in keys
    BY <2>2, <2>4, <2>6, <2>7, <2>8
  <2> QED
    BY <2>1, <2>6, <2>8, <2>9
<1>3. ASSUME NEW tag \in Features \intersect keys PROVE \E i \in 1..Len(g) : g[i].k = "marked" /\ g[i].tag = tag
  <2>1. PICK i \in 1..Len(f) : f[i].k = "marked" /\ f[i].tag = tag
    BY DEF Marks
  <2>2. f[i] \in Line /\ f[i] = Marked(tag)
    BY <2>1, MarkLine
  <2>3. Marked(tag) \notin Leftovers(keys)
    BY LeftoversAre
  <2>4. tag # RetryTag
    BY RenderAssumption
  <2>5. Marked(tag) \notin TagLines(RetryTag)
    BY <2>4 DEF TagLines, Begin, End, Marked
  <2>6. Has(f, Marked(tag)) /\ Marked(tag).k = "marked" /\ Marked(tag).tag = tag
    BY <2>1, <2>2 DEF Has, Marked
  <2>7. Has(g, Marked(tag))
    BY <2>2, <2>3, <2>5, <2>6
  <2> QED
    BY <2>6, <2>7 DEF Has
<1>4. {g[i].tag : i \in {j \in DOMAIN g : g[j].k = "marked"}} = Features \intersect keys
  BY <1>2, <1>3
<1> QED
  BY <1>2, <1>4

\* The chains.
LEMMA ChainsExact ==
  ASSUME NEW f, NEW f2, NEW f3, NEW g, f \in Seq(Line), ChainsPlaced(f), NEW names, NEW nonChat, NEW keys,
         Carries(f, f2, "chain"), Carries(f2, f, "chain"), Carries(f3, g, "chain"), Carries(g, f3, "chain"),
         Fit(f3, f2, names, nonChat, keys), Keep(f3, f2, names, nonChat), nonChat \subseteq OtherTypes(f)
  PROVE  Fit(g, f, names, nonChat, keys) /\ Keep(g, f, names, {})
<1>1. ASSUME NEW j \in 1..Len(g), g[j].k = "chain"
      PROVE  \E i \in 1..Len(f3) : f3[i] = g[j] /\ Section(f3, i) = Section(g, j)
  BY <1>1 DEF Carries
<1>2. Fit(g, f, names, nonChat, keys)
  <2> SUFFICES ASSUME NEW j \in 1..Len(g), g[j].k = "chain"
      PROVE  /\ g[j].name \in names \union {"*"} /\ ToSet(g[j].to) \subseteq names
             /\ Section(g, j) = "fallbacks" =>
                  IF g[j].name \in nonChat THEN g[j].to = <<>>
                  ELSE IF g[j].to = <<>> THEN \E i \in 1..Len(f) : f[i] = g[j] /\ Section(f, i) = "fallbacks"
                  ELSE "openrouter" \in keys /\ "openrouter-free" \in names <=> Contains(g[j].to, "openrouter-free")
    BY DEF Fit
  <2>1. PICK l, sec : l = g[j] /\ sec = Section(g, j)
    OBVIOUS
  <2>2. PICK i \in 1..Len(f3) : f3[i] = l /\ Section(f3, i) = sec
    BY <2>1, <1>1
  <2>3. l.k = "chain"
    BY <2>1
  <2>4. /\ l.name \in names \union {"*"} /\ ToSet(l.to) \subseteq names
        /\ sec = "fallbacks" =>
             IF l.name \in nonChat THEN l.to = <<>>
             ELSE IF l.to = <<>> THEN \E x \in 1..Len(f2) : f2[x] = l /\ Section(f2, x) = "fallbacks"
             ELSE "openrouter" \in keys /\ "openrouter-free" \in names <=> Contains(l.to, "openrouter-free")
    BY <2>2, <2>3 DEF Fit
  <2>5. ASSUME NEW x \in 1..Len(f2), f2[x] = l, Section(f2, x) = "fallbacks"
        PROVE  \E y \in 1..Len(f) : f[y] = l /\ Section(f, y) = "fallbacks"
    <3>1. f2[x].k = "chain"
      BY <2>3, <2>5
    <3> QED
      BY <3>1, <2>5 DEF Carries
  <2> QED
    BY <2>1, <2>4, <2>5
<1>3. Plainly(<<>>, names) = <<>>
  <2> DEFINE W == names \ {"openrouter-free"}
             q == <<>>
  <2>1. q \in Seq(STRING) /\ \A j \in 1..Len(q) : q[j] \notin W
    OBVIOUS
  <2> HIDE DEF W, q
  <2>2. Only(q, W) = <<>>
    BY <2>1, OnlyAllOrNone
  <2> QED
    BY <2>2 DEF Plainly, W, q
<1>4. Keep(g, f, names, {})
  <2> SUFFICES ASSUME NEW i \in 1..Len(f), f[i].k = "chain", f[i].name \in names \union {"*"},
                      Plainly(f[i].to, names) # <<>>
      PROVE  \E j \in 1..Len(g) : /\ g[j].k = "chain" /\ Section(g, j) = Section(f, i)
                                  /\ g[j].name = f[i].name /\ Plainly(g[j].to, names) = Plainly(f[i].to, names)
    BY DEF Keep
  <2>1. PICK l, sec : l = f[i] /\ sec = Section(f, i)
    OBVIOUS
  <2>2. PICK x \in 1..Len(f2) : f2[x] = l /\ Section(f2, x) = sec
    BY <2>1 DEF Carries
  <2>3. l.k = "chain" /\ l.name \in names \union {"*"} /\ Plainly(l.to, names) # <<>>
    BY <2>1
  <2>4. sec = "fallbacks" => l.name \notin nonChat
    <3> SUFFICES ASSUME sec = "fallbacks", l.name \in nonChat PROVE FALSE
      OBVIOUS
    <3>1. l.name \in OtherTypes(f) /\ i \in ChainsAt(f, "fallbacks")
      BY <2>1, <2>3 DEF ChainsAt
    <3>2. l.to = <<>>
      BY <3>1, <2>1 DEF ChainsPlaced
    <3> QED
      BY <3>2, <2>3, <1>3
  <2>5. PICK y \in 1..Len(f3) : /\ f3[y].k = "chain" /\ Section(f3, y) = sec
                                /\ f3[y].name = l.name /\ Plainly(f3[y].to, names) = Plainly(l.to, names)
    BY <2>2, <2>3, <2>4 DEF Keep
  <2>6. PICK j \in 1..Len(g) : g[j] = f3[y] /\ Section(g, j) = Section(f3, y)
    BY <2>5 DEF Carries
  <2> QED
    BY <2>1, <2>5, <2>6
<1> QED
  BY <1>2, <1>4

\* What render-config.py makes of a template whose marked blocks and chains are
\* in their places, whatever keys are set, is exact.
LEMMA RenderIsExact ==
  ASSUME NEW f, Sound(f, Fresh), Marks(f), ChainsPlaced(f), NEW keys
  PROVE  Exact(f, Render(f, keys), keys)
<1> DEFINE W == {b \in ToSet(ParseBlocks(f)) : Kept(b, keys)}
<1> DEFINE kept == Filter(ParseBlocks(f), LAMBDA b : Kept(b, keys))
           names == NamesOf(kept)
           nonChat == {kept[i].name : i \in {j \in DOMAIN kept : kept[j].mode # "chat"}}
<1>6. PICK s, z, e : f \in Seq(Fresh) /\ ListIs(f, s, z, e)
  BY DEF Sound, Framed
<1>7. f \in Seq(Line) /\ f \in Seq(Settled)
  BY <1>6, Subsets, SeqMono
<1>8. kept = Only(ParseBlocks(f), W)
  BY DEF Filter
<1>1. kept = Filter(ParseBlocks(f), LAMBDA b : Kept(b, keys))
  OBVIOUS
<1> HIDE DEF W, kept
<1>9. \A n \in DOMAIN kept : kept[n].mode # "chat" => kept[n].name \in OtherTypes(f)
  BY <1>6, <1>7, <1>8, OtherParsed
<1>10. NamesOf(kept) \subseteq Names
  BY <1>7, <1>8, KeptNames
<1>11. nonChat = {x \in Names : \E n \in DOMAIN kept : kept[n].name = x /\ kept[n].mode # "chat"}
  <2>1. \A n \in DOMAIN kept : kept[n].name \in Names
    BY <1>10 DEF NamesOf
  <2> QED
    BY <2>1
<1>12. nonChat \subseteq OtherTypes(f)
  BY <1>9
<1> HIDE DEF nonChat
<1>4. PICK g : g = Render(f, keys)
  OBVIOUS
<1>5. Passes(f, g, kept, names, nonChat, keys)
  BY <1>1, <1>4, <1>11, RenderPasses
<1> HIDE DEF names
<1>13. PICK f1, f2, f3, s1, z1, e1 :
         /\ f1 \in Seq(Line) /\ f2 \in Seq(Line) /\ f3 \in Seq(Line) /\ g \in Seq(Settled)
         /\ Alike(f, f1) /\ Alike(f1, f2) /\ Only(f3, Openers) = Only(f2, Openers) /\ Similar(f3, g, s1, z1, e1)
         /\ FactsOf(ParseBlocks(g)) = FactsOf(kept)
         /\ Fit(f3, f2, names, nonChat, keys) /\ Keep(f3, f2, names, nonChat)
         /\ \A u : (\E j \in 1..Len(g) : g[j].k = "policy" /\ g[j].name = u) <=> u \in Singles(kept)
         /\ \A l \in Line : l.k \in {"begin", "end", "marked"} =>
              (Has(g, l) <=> Has(f, l) /\ l \notin Leftovers(keys) \union TagLines(RetryTag))
  BY <1>5 DEF Passes
<1>14. g \in Seq(Line)
  BY <1>13, Subsets, SeqMono
<1>15. Fit(g, f, names, nonChat, keys) /\ Keep(g, f, names, {})
  <2>1. /\ Carries(f, f1, "chain") /\ Carries(f1, f, "chain") /\ Carries(f1, f2, "chain") /\ Carries(f2, f1, "chain")
        /\ Carries(f3, g, "chain") /\ Carries(g, f3, "chain")
    BY <1>13 DEF Alike, Similar
  <2>2. Carries(f, f2, "chain") /\ Carries(f2, f, "chain")
    BY <2>1, CarriesOn
  <2> QED
    BY <2>1, <2>2, <1>7, <1>12, <1>13, ChainsExact
<1>16. /\ {g[i].tag : i \in {j \in DOMAIN g : g[j].k = "marked"}} = Features \intersect keys
       /\ {i \in DOMAIN g : g[i].k = "begin"} \union {i \in DOMAIN g : g[i].k = "end"} = {}
  BY <1>7, <1>13, <1>14, MarksExact
<1>17. {g[i].name : i \in {j \in DOMAIN g : g[j].k = "policy"}} = Singles(kept)
  BY <1>13, <1>14
<1>18. Filter(g, LAMBDA l : l.k \in (TopLevel \union {"fallbacks", "context"}))
         = Filter(f, LAMBDA l : l.k \in (TopLevel \union {"fallbacks", "context"}))
  <2>1. Only(g, Openers) = Only(f, Openers)
    BY <1>13 DEF Alike, Similar
  <2> QED
    BY <2>1, <1>7, <1>14, RestIs
<1> DEFINE Of(k) == {i \in DOMAIN g : g[i].k = k}
           Sections == {"fallbacks", "context"}
           chains == [x \in Sections |-> ChainsAt(g, x)]
           Plain(to) == Only(to, names \ {"openrouter-free"})
           free == "openrouter" \in keys /\ "openrouter-free" \in names
<1>19. DOMAIN g = 1..Len(g) /\ DOMAIN f = 1..Len(f)
  BY <1>7, <1>14
<1>20. \A i \in Of("chain") : g[i].name \in names \union {"*"} /\ ToSet(g[i].to) \subseteq names
  BY <1>15, <1>19 DEF Fit
<1>21. \A i \in chains["fallbacks"] :
         IF g[i].name \in nonChat THEN g[i].to = <<>>
         ELSE IF g[i].to = <<>> THEN \E j \in ChainsAt(f, "fallbacks") : f[j] = g[i]
         ELSE free <=> Contains(g[i].to, "openrouter-free")
  <2> SUFFICES ASSUME NEW i \in 1..Len(g), g[i].k = "chain", Section(g, i) = "fallbacks"
      PROVE  IF g[i].name \in nonChat THEN g[i].to = <<>>
             ELSE IF g[i].to = <<>> THEN \E j \in ChainsAt(f, "fallbacks") : f[j] = g[i]
             ELSE free <=> Contains(g[i].to, "openrouter-free")
    BY <1>19 DEF ChainsAt
  <2>1. IF g[i].name \in nonChat THEN g[i].to = <<>>
        ELSE IF g[i].to = <<>> THEN \E j \in 1..Len(f) : f[j] = g[i] /\ Section(f, j) = "fallbacks"
        ELSE free <=> Contains(g[i].to, "openrouter-free")
    BY <1>15 DEF Fit
  <2>2. ASSUME NEW j \in 1..Len(f), f[j] = g[i], Section(f, j) = "fallbacks" PROVE j \in ChainsAt(f, "fallbacks")
    BY <2>2, <1>19 DEF ChainsAt
  <2> QED
    BY <2>1, <2>2
<1>22. \A x \in Sections : \A i \in ChainsAt(f, x) :
         f[i].name \in names \union {"*"} /\ Plain(f[i].to) # <<>> =>
           \E j \in chains[x] : g[j].name = f[i].name /\ Plain(g[j].to) = Plain(f[i].to)
  <2> SUFFICES ASSUME NEW x \in Sections, NEW i \in ChainsAt(f, x),
                      f[i].name \in names \union {"*"}, Plain(f[i].to) # <<>>
      PROVE  \E j \in chains[x] : g[j].name = f[i].name /\ Plain(g[j].to) = Plain(f[i].to)
    OBVIOUS
  <2>3. i \in 1..Len(f) /\ f[i].k = "chain" /\ Section(f, i) = x
    BY <1>19 DEF ChainsAt
  <2>1. PICK j \in 1..Len(g) : /\ g[j].k = "chain" /\ Section(g, j) = Section(f, i)
                               /\ g[j].name = f[i].name /\ Plain(g[j].to) = Plain(f[i].to)
    BY <2>3, <1>15 DEF Keep, Plainly
  <2>2. j \in chains[x]
    BY <2>1, <2>3, <1>19 DEF ChainsAt
  <2> QED
    BY <2>1, <2>2
<1> DEFINE Rest(lines) == Filter(lines, LAMBDA l : l.k \in (TopLevel \union {"fallbacks", "context"}))
<1>23. /\ FactsOf(ParseBlocks(g)) = FactsOf(kept)
       /\ \A i \in Of("chain") : g[i].name \in names \union {"*"} /\ ToSet(g[i].to) \subseteq names
       /\ \A i \in chains["fallbacks"] :
            IF g[i].name \in nonChat THEN g[i].to = <<>>
            ELSE IF g[i].to = <<>> THEN \E j \in ChainsAt(f, "fallbacks") : f[j] = g[i]
            ELSE free <=> Contains(g[i].to, "openrouter-free")
       /\ \A x \in Sections : \A i \in ChainsAt(f, x) :
            f[i].name \in names \union {"*"} /\ Plain(f[i].to) # <<>> =>
              \E j \in chains[x] : g[j].name = f[i].name /\ Plain(g[j].to) = Plain(f[i].to)
       /\ {g[i].name : i \in Of("policy")} = Singles(kept)
       /\ {g[i].tag : i \in Of("marked")} = Features \intersect keys
       /\ Of("begin") \union Of("end") = {}
       /\ Rest(g) = Rest(f)
  <2> HIDE DEF chains, free, Plain, Sections
  <2> QED
    BY <1>13, <1>16, <1>17, <1>18, <1>20, <1>21, <1>22
<1>24. Exact(f, g, keys)
  BY <1>23, Zenon DEF Exact, kept, names, nonChat
<1> QED
  BY <1>4, <1>24

-----------------------------------------------------------------------------
(* What a sync leaves of the marked blocks and the chains. *)

\* In two files the lines at E and F are the same, up to costs, in their order.
Woven(g, f, h, E, F) ==
  /\ E \subseteq 1..Len(g) /\ F \subseteq 1..Len(f) /\ h \in [E -> F]
  /\ \A x \in F : \E j \in E : h[j] = x
  /\ \A i, j \in E : i < j => h[i] < h[j]
  /\ \A j \in E : g[j] = f[h[j]] \/ (g[j].k = "cost" /\ f[h[j]].k = "cost")

MarkKinds == {"begin", "end", "marked"}

\* No line that is in g only is within a marked block.
Unbroken(g, f, h, E) ==
  \A x \in 1..Len(g), i \in E : x \notin E /\ i < x =>
    \E y \in E : i <= y /\ y < x /\ f[h[y]].k \notin {"begin", "marked"}

LEMMA MarksWoven ==
  ASSUME NEW f \in Seq(Line), Marks(f), NEW g \in Seq(Line), NEW h, NEW E, NEW F,
         Woven(g, f, h, E, F), Unbroken(g, f, h, E),
         \A i \in 1..Len(g) : g[i].k \in MarkKinds => i \in E,
         \A i \in 1..Len(f) : f[i].k \in MarkKinds => i \in F
  PROVE  Marks(g)
<1>1. PICK n \in Nat : n = Len(g) /\ DOMAIN g = 1..n /\ \A i \in 1..n : g[i].k \in MarkKinds => i \in E
  OBVIOUS
<1>2. PICK L \in Nat : L = Len(f) /\ DOMAIN f = 1..L /\ \A i \in 1..L : f[i].k \in MarkKinds => i \in F
  OBVIOUS
<1>3. /\ E \subseteq 1..n /\ F \subseteq 1..L /\ h \in [E -> F]
      /\ \A x \in F : \E j \in E : h[j] = x
      /\ \A i, j \in E : i < j => h[i] < h[j]
      /\ \A j \in E : g[j] = f[h[j]] \/ (g[j].k = "cost" /\ f[h[j]].k = "cost")
  BY <1>1, <1>2 DEF Woven
<1>4. \A j \in E : j \in 1..n /\ h[j] \in 1..L /\ h[j] \in F
  BY <1>3
<1>40. \A j \in E : j \in Nat
  BY <1>4
<1>5. \A i, j \in E : h[i] < h[j] => i < j
  BY <1>3, <1>4
<1>6. \A j \in E : g[j].k \in MarkKinds \/ f[h[j]].k \in MarkKinds => g[j] = f[h[j]]
  BY <1>3 DEF MarkKinds
<1>7. \A t : Begin(t).k = "begin" /\ End(t).k = "end" /\ Marked(t).k = "marked"
             /\ Begin(t).tag = t /\ End(t).tag = t /\ Marked(t).tag = t
  BY DEF Begin, End, Marked
<1>8. ASSUME NEW i \in E, NEW j \in E, i < j, NEW tag, f[h[i]] = Begin(tag),
             \A x \in (h[i] + 1)..(h[j] - 1) : f[x] = Marked(tag)
      PROVE  \A x \in (i + 1)..(j - 1) : g[x] = Marked(tag)
  <2> TAKE x \in (i + 1)..(j - 1)
  <2>1. i \in 1..n /\ j \in 1..n /\ x \in 1..n /\ i < x /\ x < j
    BY <1>4
  <2>2. ASSUME NEW y \in E, i <= y, y < j PROVE f[h[y]].k \in {"begin", "marked"} /\ (i < y => f[h[y]] = Marked(tag))
    <3>1. CASE y = i
      <4>1. f[h[y]] = Begin(tag) /\ ~(i < y)
        BY <3>1, <1>8, <1>40
      <4> QED
        BY <4>1, <1>7
    <3>2. CASE i < y
      <4>1. h[i] < h[y] /\ h[y] < h[j] /\ h[y] \in 1..L /\ h[i] \in 1..L /\ h[j] \in 1..L
        BY <2>2, <3>2, <1>3, <1>4
      <4>2. h[y] \in (h[i] + 1)..(h[j] - 1)
        BY <4>1
      <4> QED
        BY <4>2, <1>7, <1>8
    <3> QED
      BY <3>1, <3>2, <2>2, <1>4
  <2>3. x \in E
    <3> SUFFICES ASSUME x \notin E PROVE FALSE
      OBVIOUS
    <3>1. PICK y \in E : i <= y /\ y < x /\ f[h[y]].k \notin {"begin", "marked"}
      BY <2>1, <1>1 DEF Unbroken
    <3>2. y < j
      <4>1. y \in Nat /\ x \in Nat /\ j \in Nat
        BY <2>1, <1>40
      <4> QED
        BY <4>1, <3>1, <2>1
    <3> QED
      BY <3>1, <3>2, <2>2
  <2>4. f[h[x]] = Marked(tag)
    BY <2>1, <2>2, <2>3
  <2>5. f[h[x]].k \in MarkKinds
    BY <2>4, <1>7 DEF MarkKinds
  <2> QED
    BY <2>3, <2>4, <2>5, <1>6
<1>9. ASSUME NEW i \in 1..n, g[i].k = "begin"
      PROVE  \E j \in (i + 1)..n : g[j] = End(g[i].tag) /\ \A x \in (i + 1)..(j - 1) : g[x] = Marked(g[i].tag)
  <2>1. i \in E /\ g[i] = f[h[i]] /\ h[i] \in 1..L /\ f[h[i]].k = "begin"
    BY <1>9, <1>1, <1>4, <1>6 DEF MarkKinds
  <2>2. PICK tag : tag = f[h[i]].tag
    OBVIOUS
  <2>3. PICK b \in (h[i] + 1)..L : f[b] = End(tag) /\ \A x \in (h[i] + 1)..(b - 1) : f[x] = Marked(tag)
    BY <2>1, <2>2, <1>2 DEF Marks
  <2>4. f[h[i]] = Begin(tag)
    BY <2>1, <2>2, <1>2, MarkLine
  <2>5. b \in 1..L /\ b \in F
    BY <2>1, <2>3, <1>2, <1>7 DEF MarkKinds
  <2>6. PICK j \in E : h[j] = b
    BY <2>5, <1>3
  <2>7. i < j /\ j \in (i + 1)..n
    BY <2>1, <2>3, <2>6, <1>4, <1>5
  <2>8. g[j] = End(tag)
    BY <2>3, <2>6, <1>6, <1>7 DEF MarkKinds
  <2>9. \A x \in (i + 1)..(j - 1) : g[x] = Marked(tag)
    BY <2>1, <2>3, <2>4, <2>6, <2>7, <1>8
  <2>10. g[i].tag = tag
    BY <2>1, <2>2
  <2> QED
    BY <2>7, <2>8, <2>9, <2>10
<1>10. ASSUME NEW j \in 1..n, g[j].k \in {"marked", "end"}
       PROVE  \E i \in 1..(j - 1) : g[i] = Begin(g[j].tag) /\ \A x \in (i + 1)..(j - 1) : g[x] = Marked(g[j].tag)
  <2>1. j \in E /\ g[j] = f[h[j]] /\ h[j] \in 1..L /\ f[h[j]].k \in {"marked", "end"}
    BY <1>10, <1>1, <1>4, <1>6 DEF MarkKinds
  <2>2. PICK tag : tag = f[h[j]].tag
    OBVIOUS
  <2>3. PICK a \in 1..(h[j] - 1) : f[a] = Begin(tag) /\ \A x \in (a + 1)..(h[j] - 1) : f[x] = Marked(tag)
    BY <2>1, <2>2, <1>2 DEF Marks
  <2>5. a \in 1..L /\ a \in F
    BY <2>1, <2>3, <1>2, <1>7 DEF MarkKinds
  <2>6. PICK i \in E : h[i] = a
    BY <2>5, <1>3
  <2>7. i < j /\ i \in 1..(j - 1)
    BY <2>1, <2>3, <2>6, <1>4, <1>5
  <2>8. g[i] = Begin(tag)
    BY <2>3, <2>6, <1>6, <1>7 DEF MarkKinds
  <2>9. \A x \in (i + 1)..(j - 1) : g[x] = Marked(tag)
    BY <2>1, <2>3, <2>6, <2>7, <1>8
  <2>10. g[j].tag = tag
    BY <2>1, <2>2
  <2> QED
    BY <2>7, <2>8, <2>9, <2>10
<1>11. \A k \in MarkKinds : /\ \A i \in 1..n : g[i].k = k => \E x \in 1..L : f[x] = g[i]
                            /\ \A x \in 1..L : f[x].k = k => \E i \in 1..n : g[i] = f[x]
  BY <1>1, <1>2, <1>3, <1>4, <1>6
<1>12. {g[i].tag : i \in {j \in 1..n : g[j].k = "begin"}} \subseteq Features \union {RetryTag}
  <2>1. {f[i].tag : i \in {j \in 1..L : f[j].k = "begin"}} \subseteq Features \union {RetryTag}
    BY <1>2 DEF Marks
  <2>2. ASSUME NEW i \in 1..n, g[i].k = "begin" PROVE g[i].tag \in Features \union {RetryTag}
    <3>1. PICK x \in 1..L : f[x] = g[i]
      BY <2>2, <1>11 DEF MarkKinds
    <3> QED
      BY <3>1, <2>1, <2>2
  <2> QED
    BY <2>2
<1>13. Features \subseteq {g[i].tag : i \in {j \in 1..n : g[j].k = "marked"}}
  <2>1. Features \subseteq {f[i].tag : i \in {j \in 1..L : f[j].k = "marked"}}
    BY <1>2 DEF Marks
  <2>2. ASSUME NEW t \in Features PROVE \E i \in 1..n : g[i].k = "marked" /\ g[i].tag = t
    <3>1. PICK x \in 1..L : f[x].k = "marked" /\ f[x].tag = t
      BY <2>1
    <3>2. PICK i \in 1..n : g[i] = f[x]
      BY <3>1, <1>11 DEF MarkKinds
    <3> QED
      BY <3>1, <3>2
  <2> QED
    BY <2>2
<1>14. \E b \in 1..n : \A i \in 1..n : g[i] = Begin(RetryTag) <=> i = b
  <2>0. \E a \in DOMAIN f : \A x \in DOMAIN f : f[x] = Begin(RetryTag) <=> x = a
    BY DEF Marks
  <2>1. PICK a \in 1..L : \A x \in 1..L : f[x] = Begin(RetryTag) <=> x = a
    BY <2>0, <1>2
  <2>2. f[a].k = "begin" /\ f[a] = Begin(RetryTag)
    BY <2>1, <1>7
  <2>3. a \in F
    BY <2>2, <1>2 DEF MarkKinds
  <2>4. PICK b \in E : h[b] = a
    BY <2>3, <1>3
  <2>5. b \in 1..n /\ g[b] = Begin(RetryTag)
    BY <2>2, <2>4, <1>4, <1>6 DEF MarkKinds
  <2>6. ASSUME NEW i \in 1..n, g[i] = Begin(RetryTag) PROVE i = b
    <3>1. g[i].k \in MarkKinds
      BY <2>6, <1>7 DEF MarkKinds
    <3>2. i \in E /\ f[h[i]] = Begin(RetryTag)
      BY <3>1, <2>6, <1>1, <1>6
    <3>3. h[i] = a
      BY <3>2, <2>1, <1>4
    <3>4. ~(i < b) /\ ~(b < i)
      <4>1. h[i] \in Nat /\ h[b] \in Nat /\ h[i] = h[b]
        BY <3>2, <3>3, <2>4, <1>4
      <4> QED
        BY <4>1, <3>2, <1>3
    <3> QED
      BY <3>4, <2>5
  <2> QED
    BY <2>5, <2>6
<1> DEFINE At(k) == {i \in DOMAIN g : g[i].k = k}
           Within(i, j, tag) == \A x \in (i + 1)..(j - 1) : g[x] = Marked(tag)
<1>15. \A i \in At("begin") : \E j \in (i + 1)..Len(g) : g[j] = End(g[i].tag) /\ Within(i, j, g[i].tag)
  BY <1>1, <1>9
<1>16. \A j \in At("marked") \union At("end") : \E i \in 1..(j - 1) : g[i] = Begin(g[j].tag) /\ Within(i, j, g[j].tag)
  BY <1>1, <1>10
<1>17. /\ {g[i].tag : i \in At("begin")} \subseteq Features \union {RetryTag}
       /\ Features \subseteq {g[i].tag : i \in At("marked")}
       /\ \E b \in DOMAIN g : \A i \in DOMAIN g : g[i] = Begin(RetryTag) <=> i = b
  BY <1>1, <1>12, <1>13, <1>14
<1> QED
  BY <1>15, <1>16, <1>17 DEF Marks

\* Other lines start sections only in front of it all.
Outside(f, F) ==
  \A x \in 1..Len(f) : f[x].k \in SectionKinds /\ x \notin F => \A y \in F : x < y

LEMMA SectionWoven ==
  ASSUME NEW f \in Seq(Line), NEW g \in Seq(Line), NEW h, NEW E, NEW F, Woven(g, f, h, E, F),
         Outside(g, E), Outside(f, F),
         NEW o \in E, f[h[o]].k \in SectionKinds, NEW j \in E, o <= j
  PROVE  Section(g, j) = Section(f, h[j])
<1>1. PICK n \in Nat : n = Len(g) /\ \A x \in 1..n : g[x].k \in SectionKinds /\ x \notin E => \A y \in E : x < y
  BY DEF Outside
<1>2. PICK L \in Nat : L = Len(f) /\ \A x \in 1..L : f[x].k \in SectionKinds /\ x \notin F => \A y \in F : x < y
  BY DEF Outside
<1>3. /\ E \subseteq 1..n /\ F \subseteq 1..L /\ h \in [E -> F]
      /\ \A x \in F : \E i \in E : h[i] = x
      /\ \A a, b \in E : a < b => h[a] < h[b]
      /\ \A i \in E : g[i].k = f[h[i]].k
  BY <1>1, <1>2 DEF Woven
<1>4. \A i \in E : i \in 1..n /\ h[i] \in 1..L /\ h[i] \in F
  BY <1>3
<1>5. PICK a \in 1..L, b \in 1..L : a = h[o] /\ b = h[j] /\ a \in F /\ b \in F /\ a <= b
  <2>1. o = j \/ o < j
    BY <1>4
  <2> QED
    BY <2>1, <1>3, <1>4
<1>6. PICK p : Opens(f, p, b)
  <2>1. a \in 1..b /\ f[a].k \in SectionKinds /\ b \in Nat
    BY <1>5
  <2> QED
    BY <2>1, SectionIs
<1>7. p \in 1..b /\ f[p].k \in SectionKinds /\ \A x \in (p + 1)..b : f[x].k \notin SectionKinds
  BY <1>6 DEF Opens
<1>8. a <= p
  <2> SUFFICES ASSUME p < a PROVE FALSE
    BY <1>5, <1>7
  <2>1. a \in (p + 1)..b
    BY <1>5, <1>7
  <2> QED
    BY <2>1, <1>5, <1>7
<1>9. p \in F
  <2> SUFFICES ASSUME p \notin F PROVE FALSE
    OBVIOUS
  <2>1. p \in 1..L
    BY <1>5, <1>7
  <2>2. p < a
    BY <2>1, <1>2, <1>5, <1>7
  <2> QED
    BY <2>1, <2>2, <1>5, <1>8
<1>10. PICK q \in E : h[q] = p
  BY <1>9, <1>3
<1>11. q \in 1..n /\ j \in 1..n /\ q <= j
  <2>1. q \in 1..n /\ j \in 1..n
    BY <1>4
  <2>2. ASSUME j < q PROVE FALSE
    <3>1. b < p
      BY <2>2, <1>3, <1>5, <1>10
    <3> QED
      BY <3>1, <1>5, <1>7
  <2> QED
    BY <2>1, <2>2
<1>12. ASSUME NEW x \in (q + 1)..j PROVE g[x].k \notin SectionKinds
  <2> SUFFICES ASSUME g[x].k \in SectionKinds PROVE FALSE
    OBVIOUS
  <2>1. x \in 1..n /\ q < x /\ x <= j
    BY <1>11
  <2>2. x \in E
    <3>1. ~(x < q)
      BY <2>1, <1>11
    <3> QED
      BY <3>1, <2>1, <1>1
  <2>3. f[h[x]].k \in SectionKinds /\ h[q] < h[x] /\ h[x] \in 1..L
    BY <2>1, <2>2, <1>3, <1>4
  <2>4. h[x] <= b
    <3>1. x = j \/ x < j
      BY <2>1, <1>11
    <3>2. x < j => h[x] < h[j]
      BY <2>2, <1>3
    <3>3. b \in Nat /\ h[x] \in Nat /\ b = h[j]
      BY <2>3, <1>5
    <3> QED
      BY <3>1, <3>2, <3>3
  <2>5. h[x] \in (p + 1)..b
    BY <2>3, <2>4, <1>5, <1>7, <1>10
  <2> QED
    BY <2>3, <2>5, <1>7
<1>13. Opens(g, q, j) /\ g[q].k = f[p].k
  BY <1>3, <1>7, <1>10, <1>11, <1>12 DEF Opens
<1>14. Section(f, b) = f[p].k
  BY <1>5, <1>6, SectionIs
<1>15. Section(g, j) = g[q].k
  BY <1>11, <1>13, SectionIs
<1> QED
  BY <1>5, <1>13, <1>14, <1>15

\* Line m makes the group of line j one of another type.
OtherAt(f, j, m) ==
  /\ f[j].k = "model_name" /\ f[m].k = "mode" /\ f[m].mode # "chat"
  /\ \A x \in (j + 1)..m : f[x].k \notin {"blank", "model_name"}

OtherIn(f, O) == \A j \in 1..Len(f), m \in 1..Len(f) : j < m /\ OtherAt(f, j, m) => f[j].name \in O

LEMMA OtherTypesIn ==
  ASSUME NEW f \in Seq(Line), NEW O
  PROVE  OtherTypes(f) \subseteq O <=> OtherIn(f, O)
<1>1. PICK n \in Nat : n = Len(f) /\ DOMAIN f = 1..n
  OBVIOUS
<1> DEFINE J == {j \in DOMAIN f : /\ f[j].k = "model_name"
                     /\ \E m \in (j + 1)..Len(f) :
                          /\ f[m].k = "mode" /\ f[m].mode # "chat"
                          /\ \A x \in (j + 1)..m : f[x].k \notin {"blank", "model_name"}}
<1>2. OtherTypes(f) = {f[j].name : j \in J}
  BY DEF OtherTypes
<1>3. ASSUME NEW j PROVE j \in J <=> j \in 1..n /\ \E m \in 1..n : j < m /\ OtherAt(f, j, m)
  <2>1. ASSUME j \in J PROVE j \in 1..n /\ \E m \in 1..n : j < m /\ OtherAt(f, j, m)
    <3>1. j \in 1..n /\ f[j].k = "model_name"
      BY <2>1, <1>1
    <3>2. PICK m \in (j + 1)..n : /\ f[m].k = "mode" /\ f[m].mode # "chat"
                                  /\ \A x \in (j + 1)..m : f[x].k \notin {"blank", "model_name"}
      BY <2>1, <1>1
    <3>3. m \in 1..n /\ j < m
      BY <3>1, <3>2
    <3> QED
      BY <3>1, <3>2, <3>3 DEF OtherAt
  <2>2. ASSUME j \in 1..n, NEW m \in 1..n, j < m, OtherAt(f, j, m) PROVE j \in J
    <3>1. m \in (j + 1)..Len(f) /\ j \in DOMAIN f
      BY <2>2, <1>1
    <3> QED
      BY <3>1, <2>2 DEF OtherAt
  <2> QED
    BY <2>1, <2>2
<1> HIDE DEF J
<1> QED
  BY <1>1, <1>2, <1>3 DEF OtherIn

\* Its chains are in the two sections, those of the groups in O without targets.
Tame(f, O) ==
  \A i \in 1..Len(f) : f[i].k = "chain" =>
    /\ Section(f, i) \in {"fallbacks", "context"}
    /\ Section(f, i) = "fallbacks" /\ f[i].name \in O => f[i].to = <<>>

\* What a sync keeps of the template from one step to the next.
Neat(f, L, s, e, O) ==
  /\ Framed(f, L, s, e)
  /\ \A i \in 1..Len(f) : (f[i].k \in Behind => e < i) /\ (f[i].k = "new_header" => i < e)
  /\ Marks(f) /\ Tame(f, O) /\ OtherIn(f, O)

LEMMA NeatFacts ==
  ASSUME NEW L, L \subseteq Line, NEW f, NEW s, NEW e, NEW O, Neat(f, L, s, e, O)
  PROVE  /\ f \in Seq(L) /\ f \in Seq(Line)
         /\ \E z : ListIs(f, s, z, e) /\ TailIs(f, e)
         /\ \E n \in Nat : /\ n = Len(f) /\ s \in 1..n /\ e \in 1..n /\ s < e
                           /\ f[e].k \in SectionKinds /\ f[e].k \notin {"new_header", "cost"}
<1>1. f \in Seq(L)
  BY DEF Neat, Framed
<1>2. f \in Seq(Line)
  BY <1>1, SeqMono
<1>3. PICK z : ListIs(f, s, z, e) /\ TailIs(f, e)
  BY DEF Neat, Framed
<1>4. PICK n \in Nat : n = Len(f)
  BY <1>2
<1>5. s \in 1..n /\ z \in 1..n /\ e \in 1..n /\ s <= z /\ z < e /\ f[e].k \in Top
  BY <1>3, <1>4 DEF ListIs
<1>6. f[e].k \in SectionKinds /\ f[e].k \notin {"new_header", "cost"}
  BY <1>5 DEF Top, TopLevel, SectionKinds
<1> QED
  BY <1>1, <1>2, <1>3, <1>4, <1>5, <1>6

\* Where the lines behind the list are the same, the chains and the blocks are.
LEMMA NeatWoven ==
  ASSUME NEW L, L \subseteq Line, NEW f, NEW s, NEW e, NEW O, Neat(f, L, s, e, O),
         NEW g \in Seq(Line), NEW a \in 1..Len(g), \A i \in 1..Len(g) : g[i].k \in Behind => a < i,
         NEW h, Woven(g, f, h, a..Len(g), e..Len(f)), h[a] = e
  PROVE  Marks(g) /\ Tame(g, O)
<1>1. PICK n \in Nat : n = Len(g)
  OBVIOUS
<1>2. f \in Seq(Line) /\ \E m \in Nat : m = Len(f) /\ e \in 1..m /\ f[e].k \in SectionKinds
  BY NeatFacts
<1>3. PICK m \in Nat : m = Len(f) /\ e \in 1..m /\ f[e].k \in SectionKinds
  BY <1>2
<1> DEFINE E == a..n
           F == e..m
<1>4. Woven(g, f, h, E, F) /\ a \in E /\ a \in 1..n /\ E \subseteq 1..n
  BY <1>1, <1>3
<1>5. \A i \in 1..m : f[i].k \in Behind => e < i
  BY <1>3 DEF Neat
<1>6. \A i \in 1..n : i \notin E => i < a
  BY <1>4
<1>7. \A i \in 1..m : i \notin F => i < e
  BY <1>3
<1>8. \A i \in E : a <= i
  OBVIOUS
<1>9. \A i \in F : e <= i
  OBVIOUS
<1>10. \A i \in 1..n : g[i].k \in Behind => i \in E
  BY <1>1, <1>4
<1>11. \A i \in 1..m : f[i].k \in Behind => i \in F
  BY <1>3, <1>5
<1> HIDE DEF E, F
<1>12. MarkKinds \subseteq Behind /\ "chain" \in Behind
  BY DEF MarkKinds, Behind
<1>13. Unbroken(g, f, h, E)
  <2> SUFFICES ASSUME NEW x \in 1..Len(g), NEW i \in E, x \notin E, i < x PROVE FALSE
    BY DEF Unbroken
  <2>1. x < a /\ a <= i /\ i \in 1..n
    BY <1>1, <1>4, <1>6, <1>8
  <2> QED
    BY <2>1, <1>1, <1>4
<1>14. Marks(f)
  BY DEF Neat
<1>15. Marks(g)
  <2>1. \A i \in 1..Len(g) : g[i].k \in MarkKinds => i \in E
    BY <1>1, <1>10, <1>12
  <2>2. \A i \in 1..Len(f) : f[i].k \in MarkKinds => i \in F
    BY <1>3, <1>11, <1>12
  <2> QED
    BY <2>1, <2>2, <1>3, <1>2, <1>4, <1>13, <1>14, MarksWoven
<1>16. Outside(g, E)
  <2> SUFFICES ASSUME NEW x \in 1..Len(g), x \notin E, NEW y \in E PROVE x < y
    BY DEF Outside
  <2>1. x < a /\ a <= y /\ y \in 1..n
    BY <1>1, <1>4, <1>6, <1>8
  <2> QED
    BY <2>1, <1>1, <1>4
<1>17. Outside(f, F)
  <2> SUFFICES ASSUME NEW x \in 1..Len(f), x \notin F, NEW y \in F PROVE x < y
    BY DEF Outside
  <2>1. x < e /\ e <= y /\ y \in 1..m
    BY <1>3, <1>7, <1>9 DEF F
  <2> QED
    BY <2>1, <1>3
<1>18. ASSUME NEW j \in 1..n, g[j].k = "chain"
       PROVE  /\ Section(g, j) \in {"fallbacks", "context"}
              /\ Section(g, j) = "fallbacks" /\ g[j].name \in O => g[j].to = <<>>
  <2>1. j \in E /\ a <= j
    BY <1>8, <1>10, <1>12, <1>18
  <2>2. f[h[a]].k \in SectionKinds
    BY <1>3
  <2>3. Section(g, j) = Section(f, h[j])
    <3>1. f \in Seq(Line) /\ Woven(g, f, h, E, F) /\ a \in E
      BY <1>2, <1>4
    <3> QED
      BY <3>1, <1>16, <1>17, <2>1, <2>2, SectionWoven
  <2>4. h[j] \in F /\ F \subseteq 1..m /\ g[j] = f[h[j]]
    BY <1>3, <1>4, <1>18, <2>1 DEF Woven
  <2>5. h[j] \in 1..Len(f) /\ f[h[j]].k = "chain"
    BY <2>4, <1>3, <1>18
  <2>6. Tame(f, O)
    BY DEF Neat
  <2> QED
    BY <2>3, <2>4, <2>5, <2>6 DEF Tame
<1>19. Tame(g, O)
  BY <1>1, <1>18 DEF Tame
<1> QED
  BY <1>15, <1>19

\* A splice of new deployments.
LEMMA NeatSplice ==
  ASSUME NEW L, Above \subseteq L, L \subseteq Line, NEW O, NEW f, NEW s, NEW e, Neat(f, L, s, e, O),
         NEW d \in Seq(Above), d = <<>> \/ Closed(d), NEW p \in Nat, s < p, p <= e
  PROVE  Neat(Splice(f, p, d), L, s, e + Len(d), O)
<1>1. /\ Framed(f, L, s, e)
      /\ \A i \in 1..Len(f) : (f[i].k \in Behind => e < i) /\ (f[i].k = "new_header" => i < e)
      /\ OtherIn(f, O)
  BY DEF Neat
<1>2. f \in Seq(L) /\ f \in Seq(Line)
      /\ \E n \in Nat : /\ n = Len(f) /\ s \in 1..n /\ e \in 1..n /\ s < e
                        /\ f[e].k \in SectionKinds /\ f[e].k \notin {"new_header", "cost"}
  BY NeatFacts
<1>3. PICK n \in Nat : /\ n = Len(f) /\ s \in 1..n /\ e \in 1..n /\ s < e
                       /\ f[e].k \in SectionKinds /\ f[e].k \notin {"new_header", "cost"}
  BY <1>2
<1>4. PICK m \in Nat : /\ m = Len(d) /\ \A i \in 1..m : d[i] \in Above
                       /\ m = 0 \/ d[m].k = "blank"
  BY DEF Closed
<1>5. PICK g : g = Splice(f, p, d)
  OBVIOUS
<1>6. Framed(g, L, s, e + m)
  BY <1>1, <1>3, <1>4, <1>5, SpliceFramed
<1>7. p \in 1..n /\ p \in 1..(Len(f) + 1)
  BY <1>3
<1>8. d \in Seq(L) /\ d \in Seq(Line)
  BY SeqMono
<1>9. /\ g \in Seq(L) /\ Len(g) = n + m
      /\ \A j \in 1..(n + m) : g[j] = IF j < p THEN f[j] ELSE IF j < p + m THEN d[j - p + 1] ELSE f[j - m]
  <2>1. f \in Seq(L) /\ d \in Seq(L) /\ p \in 1..(Len(f) + 1)
    BY <1>2, <1>7, <1>8
  <2>2. /\ g \in Seq(L) /\ Len(g) = Len(f) + Len(d)
        /\ \A j \in 1..(Len(f) + Len(d)) :
             g[j] = IF j < p THEN f[j] ELSE IF j < p + Len(d) THEN d[j - p + 1] ELSE f[j - Len(d)]
    BY <2>1, <1>5, SpliceAt
  <2> QED
    BY <2>2, <1>3, <1>4
<1>10. g \in Seq(Line)
  BY <1>9, SeqMono
<1>11. ASSUME NEW j \in 1..(n + m)
       PROVE  \/ j < p /\ g[j] = f[j] /\ j \in 1..n
              \/ p <= j /\ j < p + m /\ g[j] \in Above
              \/ p + m <= j /\ j - m \in 1..n /\ g[j] = f[j - m]
  <2>1. CASE j < p
    BY <2>1, <1>7, <1>9
  <2>2. CASE p <= j /\ j < p + m
    <3>1. j - p + 1 \in 1..m /\ ~(j < p)
      BY <2>2
    <3> QED
      BY <2>2, <3>1, <1>4, <1>9
  <2>3. CASE p + m <= j
    <3>1. ~(j < p) /\ ~(j < p + m) /\ j - m \in 1..n
      BY <2>3, <1>7
    <3> QED
      BY <2>3, <3>1, <1>9
  <2> QED
    BY <2>1, <2>2, <2>3
<1>12. ASSUME NEW j \in 1..(n + m)
       PROVE  (g[j].k \in Behind => e + m < j) /\ (g[j].k = "new_header" => j < e + m)
  <2>1. CASE j < p /\ g[j] = f[j] /\ j \in 1..n
    BY <2>1, <1>1, <1>3
  <2>2. CASE p <= j /\ j < p + m /\ g[j] \in Above
    <3>1. g[j].k \notin Behind
      BY <2>2, AboveKinds DEF Behind
    <3> QED
      BY <2>2, <3>1, <1>3
  <2>3. CASE p + m <= j /\ j - m \in 1..n /\ g[j] = f[j - m]
    BY <2>3, <1>1, <1>3
  <2> QED
    BY <2>1, <2>2, <2>3, <1>11
<1> DEFINE E == (e + m)..(n + m)
           F == e..n
           h == [j \in E |-> j - m]
<1>13. Woven(g, f, h, E, F)
  <2>1. h \in [E -> F] /\ E \subseteq 1..Len(g) /\ F \subseteq 1..Len(f)
    BY <1>3, <1>9
  <2>2. ASSUME NEW x \in F PROVE \E j \in E : h[j] = x
    <3>1. x + m \in E /\ x + m - m = x
      BY <1>3
    <3> QED
      BY <3>1
  <2>3. \A i, j \in E : i < j => h[i] < h[j]
    BY <1>3
  <2>4. ASSUME NEW j \in E PROVE g[j] = f[h[j]]
    <3>1. j \in 1..(n + m) /\ ~(j < p) /\ ~(j < p + m)
      BY <1>3, <1>7
    <3> QED
      BY <3>1, <1>9
  <2> HIDE DEF E, F, h
  <2> QED
    BY <2>1, <2>2, <2>3, <2>4 DEF Woven
<1>14. e + m \in E /\ h[e + m] = e
  BY <1>3
<1>15. Woven(g, f, h, (e + m)..Len(g), e..Len(f))
  BY <1>3, <1>9, <1>13
<1> HIDE DEF E, F, h
<1>16. Marks(g) /\ Tame(g, O)
  <2>1. PICK a : a = e + m
    OBVIOUS
  <2>2. a \in 1..Len(g) /\ \A i \in 1..Len(g) : g[i].k \in Behind => a < i
    BY <2>1, <1>3, <1>9, <1>12
  <2>3. Woven(g, f, h, a..Len(g), e..Len(f)) /\ h[a] = e
    BY <2>1, <1>14, <1>15
  <2> QED
    BY <2>2, <2>3, <1>10, NeatWoven
<1>17. ASSUME NEW j \in 1..(n + m), NEW x \in 1..(n + m), j < x, OtherAt(g, j, x)
       PROVE  g[j].name \in O
  <2>1. /\ g[j].k = "model_name" /\ g[x].k = "mode" /\ g[x].mode # "chat"
        /\ \A y \in (j + 1)..x : g[y].k \notin {"blank", "model_name"}
    BY <1>17 DEF OtherAt
  <2>2. ~(p <= x /\ x < p + m)
    <3> SUFFICES ASSUME p <= x /\ x < p + m PROVE FALSE
      OBVIOUS
    <3>1. g[x] \in Above
      BY <1>11
    <3> QED
      BY <3>1, <2>1, AboveKinds
  <2>3. ~(j < p + m /\ p + m <= x) \/ m = 0
    <3> SUFFICES ASSUME j < p + m, p + m <= x, m # 0 PROVE FALSE
      OBVIOUS
    <3>1. p + m - 1 \in 1..(n + m) /\ p + m - 1 - p + 1 = m /\ ~(p + m - 1 < p) /\ p + m - 1 < p + m
      BY <1>7
    <3>2. g[p + m - 1] = d[m]
      BY <3>1, <1>9
    <3>3. g[p + m - 1].k = "blank"
      BY <3>2, <1>4
    <3>4. p + m - 1 \in j..x
      BY <1>7
    <3>5. p + m - 1 = j \/ p + m - 1 \in (j + 1)..x
      BY <3>4
    <3> QED
      BY <3>3, <3>5, <2>1
  <2>4. \/ x < p
        \/ p + m <= j
        \/ m = 0
    BY <2>2, <2>3, <1>17, <1>7
  <2>5. PICK c \in {0, m} : j - c \in 1..n /\ x - c \in 1..n /\ \A y \in j..x : g[y] = f[y - c]
    <3>1. CASE x < p
      <4>1. \A y \in j..x : y \in 1..(n + m) /\ y < p
        BY <3>1, <1>7
      <4>2. j \in 1..n /\ x \in 1..n /\ \A y \in j..x : g[y] = f[y - 0]
        BY <4>1, <3>1, <1>7, <1>9, <1>17
      <4> QED
        BY <4>2
    <3>2. CASE p + m <= j
      <4>1. \A y \in j..x : y \in 1..(n + m) /\ ~(y < p) /\ ~(y < p + m)
        BY <3>2, <1>7
      <4>2. j - m \in 1..n /\ x - m \in 1..n /\ \A y \in j..x : g[y] = f[y - m]
        BY <4>1, <3>2, <1>7, <1>9, <1>17
      <4> QED
        BY <4>2
    <3>3. CASE m = 0
      <4>1. \A y \in 1..n : g[y] = f[y]
        BY <3>3, <1>7, <1>9
      <4>2. j \in 1..n /\ x \in 1..n /\ \A y \in j..x : y \in 1..n /\ y - 0 = y
        BY <3>3
      <4> QED
        BY <4>1, <4>2
    <3> QED
      BY <2>4, <3>1, <3>2, <3>3
  <2>6. PICK a, b : a = j - c /\ b = x - c
    OBVIOUS
  <2>7. a \in 1..n /\ b \in 1..n /\ a < b /\ g[j] = f[a] /\ g[x] = f[b]
    BY <2>5, <2>6, <1>17
  <2>8. ASSUME NEW y \in (a + 1)..b PROVE f[y].k \notin {"blank", "model_name"}
    <3>1. y + c \in (j + 1)..x /\ y + c \in j..x /\ y + c - c = y
      BY <2>5, <2>6, <2>7
    <3>2. g[y + c] = f[y]
      BY <3>1, <2>5
    <3> QED
      BY <3>1, <3>2, <2>1
  <2>9. OtherAt(f, a, b)
    BY <2>1, <2>7, <2>8 DEF OtherAt
  <2> QED
    BY <2>7, <2>9, <1>1, <1>3 DEF OtherIn
<1>18. OtherIn(g, O)
  BY <1>9, <1>17 DEF OtherIn
<1>19. Neat(g, L, s, e + m, O)
  BY <1>6, <1>9, <1>12, <1>16, <1>18 DEF Neat
<1> QED
  BY <1>4, <1>5, <1>19

\* All that a sync inserts.
LEMMA NeatInsert ==
  ASSUME NEW L \in {Settled, Fresh}, NEW O, NEW f, NEW s, NEW e, Neat(f, L, s, e, O), NEW adds \in Seq(Addition)
  PROVE  \E x : Neat(InsertDeployments(f, adds), Draft(L), s, x, O)
<1> DEFINE M == Draft(L)
           T == {g \in Seq(M) : \E x \in Nat : e <= x /\ Neat(g, M, s, x, O)}
<1>0. Above \subseteq M /\ M \subseteq Line /\ L \subseteq M /\ L \subseteq Line
  BY Subsets DEF Draft
<1> HIDE DEF M
<1>1. f \in Seq(L) /\ s \in Nat /\ e \in Nat
  <2>1. f \in Seq(L) /\ \E n \in Nat : s \in 1..n /\ e \in 1..n
    <3> HIDE DEF T
    <3> QED
      BY <1>0, NeatFacts
  <2> QED
    BY <2>1
<1>2. f \in Seq(M) /\ Framed(f, L, s, e)
  BY <1>0, <1>1, SeqMono DEF Neat
<1>3. f \in T
  <2>1. Framed(f, M, s, e)
    BY <1>2 DEF Framed
  <2>2. Neat(f, M, s, e, O)
    BY <2>1 DEF Neat
  <2> QED
    BY <1>1, <1>2, <2>2
<1>4. Splices(T, s, e)
  <2> SUFFICES ASSUME NEW g \in T, NEW p \in (s + 1)..e, NEW d \in Seq(Above), d = <<>> \/ Closed(d)
      PROVE  Splice(g, p, d) \in T
    BY DEF Splices
  <2>1. PICK x \in Nat : e <= x /\ Neat(g, M, s, x, O)
    OBVIOUS
  <2>2. p \in Nat /\ s < p /\ p <= x /\ Len(d) \in Nat
    BY <1>1, <2>1
  <2> DEFINE h == Splice(g, p, d)
  <2>3. Neat(h, M, s, x + Len(d), O)
    <3> HIDE DEF T
    <3> QED
      BY <1>0, <2>1, <2>2, NeatSplice
  <2> HIDE DEF h
  <2>4. x + Len(d) \in Nat /\ e <= x + Len(d) /\ h \in Seq(M)
    BY <1>1, <2>1, <2>2, <2>3 DEF Neat, Framed
  <2>5. h \in T
    BY <2>3, <2>4
  <2> QED
    BY <2>5 DEF h
<1> HIDE DEF T
<1>5. InsertDeployments(f, adds) \in T
  BY <1>2, <1>3, <1>4, InsertSplices
<1> QED
  BY <1>5 DEF T, M

\* Such a pass.
LEMMA NeatPass ==
  ASSUME NEW M, M \subseteq Line, NEW f, NEW s, NEW e, NEW O, Neat(f, M, s, e, O),
         NEW K, K \subseteq Line, NEW ss \in Seq(Seq(K)), Pieces(ss, f), Rewords(ss, f)
  PROVE  \E t, x : Neat(FlattenSeq(ss), K, t, x, O)
<1>0. f \in Seq(M) /\ f \in Seq(Line)
      /\ \E n \in Nat : /\ n = Len(f) /\ s \in 1..n /\ e \in 1..n /\ s < e
                        /\ f[e].k \in SectionKinds /\ f[e].k \notin {"new_header", "cost"}
  BY NeatFacts
<1>1. PICK n \in Nat : /\ n = Len(f) /\ s \in 1..n /\ e \in 1..n /\ s < e
                       /\ f[e].k \in SectionKinds /\ f[e].k \notin {"new_header", "cost"}
  BY <1>0
<1>2. /\ \A i \in 1..n : (f[i].k \in Behind => e < i) /\ (f[i].k = "new_header" => i < e)
      /\ OtherIn(f, O) /\ Framed(f, M, s, e)
  BY <1>1 DEF Neat
<1>3. PICK z : ListIs(f, s, z, e)
  BY <1>2 DEF Framed
<1>4. /\ \A i \in 1..n : /\ f[i].k = "model_list" <=> i = s
                         /\ f[i].k \in Top => i <= s \/ e <= i
      /\ f[e].k \in Top
  BY <1>1, <1>3 DEF ListIs
<1> DEFINE g == FlattenSeq(ss)
<1> HIDE DEF g
<1>6. Sound(g, K)
  <2>1. Sound(f, M) /\ \A i \in 1..Len(f) : ss[i] # <<>>
    BY <1>2 DEF Sound, Rewords
  <2> QED
    BY <2>1, PassSound DEF g
<1>7. PICK t, y, x : g \in Seq(K) /\ ListIs(g, t, y, x) /\ TailIs(g, x)
  BY <1>6 DEF Sound, Framed
<1>8. g \in Seq(Line)
  BY <1>7, SeqMono
<1>9. PICK N \in Nat : N = Len(g)
  BY <1>8
<1>10. PICK h : /\ Traced(g, h, f)
                /\ \A i \in 1..Len(f) : ss[i] # <<>> => \E j \in 1..Len(g) : h[j] = i
                /\ \A j \in 1..Len(g) : \E a \in 1..Len(ss[h[j]]) : g[j] = ss[h[j]][a]
  <2>1. \E h : /\ Traced(g, h, f)
               /\ \A i \in 1..Len(f) : ss[i] # <<>> => \E j \in 1..Len(g) : h[j] = i
               /\ \A j \in 1..Len(g) : ss[h[j]] # <<>>
               /\ \A j \in 1..Len(g) : \E a \in 1..Len(ss[h[j]]) : g[j] = ss[h[j]][a]
    BY PiecesTraced DEF g
  <2> QED
    BY <2>1
<1>11. /\ h \in [1..N -> 1..n]
       /\ \A i, j \in 1..N : i < j => h[i] < h[j] \/ (h[i] = h[j] /\ f[h[i]].k = "new_header")
  BY <1>1, <1>9, <1>10 DEF Traced
<1>12. \A i \in 1..n : \E j \in 1..N : h[j] = i
  BY <1>1, <1>9, <1>10 DEF Rewords
<1>13. \A j \in 1..N : Reworded(g[j], f[h[j]])
  <2> TAKE j \in 1..N
  <2>1. PICK a \in 1..Len(ss[h[j]]) : g[j] = ss[h[j]][a]
    BY <1>9, <1>10
  <2>2. h[j] \in 1..Len(f)
    BY <1>1, <1>11
  <2> QED
    BY <2>1, <2>2 DEF Rewords
<1>14. \A j \in 1..N : h[j] \in 1..n
  BY <1>11
<1>15. ASSUME NEW i \in 1..N, NEW j \in 1..N
       PROVE  /\ i <= j => h[i] <= h[j]
              /\ h[i] < h[j] => i < j
              /\ i < j /\ (f[h[i]].k # "new_header" \/ f[h[j]].k # "new_header") => h[i] < h[j]
              /\ h[i] = h[j] /\ f[h[i]].k # "new_header" => i = j
  <2>0. h[i] \in 1..n /\ h[j] \in 1..n
    BY <1>11
  <2>1. h[i] \in Int /\ h[j] \in Int
    BY <2>0
  <2>2. i < j => h[i] < h[j] \/ (h[i] = h[j] /\ f[h[i]].k = "new_header")
    BY <1>11
  <2>3. j < i => h[j] < h[i] \/ (h[j] = h[i] /\ f[h[j]].k = "new_header")
    BY <1>11
  <2>4. i < j \/ i = j \/ j < i
    OBVIOUS
  <2>5. CASE i < j
    BY <2>1, <2>2, <2>5
  <2>6. CASE j < i
    BY <2>1, <2>3, <2>6
  <2>7. CASE i = j
    BY <2>1, <2>7
  <2> QED
    BY <2>4, <2>5, <2>6, <2>7
<1>16. ASSUME NEW j \in 1..N
       PROVE  /\ g[j].k \notin {"cost", "blank", "header"} => g[j] = f[h[j]]
              /\ f[h[j]].k \notin {"cost", "new_header"} => g[j] = f[h[j]]
              /\ f[h[j]].k # "new_header" => g[j] = f[h[j]] \/ (g[j].k = "cost" /\ f[h[j]].k = "cost")
  BY <1>13 DEF Reworded
<1>17. /\ t \in 1..N /\ x \in 1..N /\ t < x /\ g[x].k \in Top
       /\ \A i \in 1..N : /\ g[i].k = "model_list" <=> i = t
                          /\ g[i].k \in Top => i <= t \/ x <= i
  BY <1>7, <1>9 DEF ListIs
<1>18. "model_list" \in Top /\ {"cost", "blank", "header", "new_header"} \intersect Top = {}
  BY DEF Top, TopLevel
<1>19. h[x] = e
  <2>1. PICK j \in 1..N : h[j] = e
    BY <1>1, <1>12
  <2>2. PICK i \in 1..N : h[i] = s
    BY <1>1, <1>12
  <2>3. g[j] = f[e] /\ g[i] = f[s]
    BY <2>1, <2>2, <1>1, <1>4, <1>16, <1>18
  <2>4. i = t /\ i < j /\ x <= j
    <3>1. g[i].k = "model_list" /\ g[j].k \in Top
      BY <2>3, <1>1, <1>4
    <3>2. i = t /\ (j <= t \/ x <= j)
      BY <3>1, <1>17
    <3>3. i < j
      BY <2>1, <2>2, <1>1, <1>15
    <3> QED
      BY <3>2, <3>3, <1>17
  <2>5. f[h[x]].k \in Top /\ h[x] \in 1..n
    BY <1>14, <1>16, <1>17, <1>18
  <2>6. s < h[x]
    <3>1. i < x /\ f[h[i]].k # "new_header"
      BY <2>2, <2>4, <1>1, <1>4, <1>17
    <3> QED
      BY <3>1, <2>2, <1>15, <1>17
  <2>7. e <= h[x]
    BY <2>5, <2>6, <1>1, <1>4
  <2>8. h[x] <= e
    BY <2>1, <2>4, <1>15, <1>17
  <2> QED
    BY <2>5, <2>7, <2>8, <1>1
<1>20. ASSUME NEW j \in 1..N
       PROVE  /\ x <= j <=> e <= h[j]
              /\ e < h[j] => x < j
              /\ h[j] < e => j < x
  <2>1. h[j] \in 1..n /\ f[h[x]].k # "new_header"
    BY <1>1, <1>14, <1>19
  <2>2. x <= j => e <= h[j]
    BY <1>15, <1>17, <1>19
  <2>3. j < x => h[j] < e
    BY <2>1, <1>15, <1>17, <1>19
  <2>4. e < h[j] => x < j
    BY <1>15, <1>17, <1>19
  <2> QED
    BY <2>1, <2>2, <2>3, <2>4, <1>1, <1>17
<1>21. ASSUME NEW j \in 1..N
       PROVE  (g[j].k \in Behind => x < j) /\ (g[j].k = "new_header" => j < x)
  <2>1. ASSUME g[j].k \in Behind PROVE x < j
    <3>1. f[h[j]].k \in Behind
      BY <2>1, <1>16 DEF Behind
    <3> QED
      BY <3>1, <1>2, <1>14, <1>20
  <2>2. ASSUME g[j].k = "new_header" PROVE j < x
    <3>1. f[h[j]].k = "new_header"
      BY <2>2, <1>16
    <3> QED
      BY <3>1, <1>2, <1>14, <1>20
  <2> QED
    BY <2>1, <2>2
<1> DEFINE E == x..N
           F == e..n
           u == [j \in E |-> h[j]]
<1>22. \A j \in E : j \in 1..N /\ e <= h[j] /\ h[j] \in 1..n /\ f[h[j]].k # "new_header"
  <2> TAKE j \in E
  <2>1. j \in 1..N /\ x <= j
    BY <1>17
  <2>2. e <= h[j] /\ h[j] \in 1..n
    BY <2>1, <1>14, <1>20
  <2> QED
    BY <2>1, <2>2, <1>1, <1>2
<1>23. Woven(g, f, u, E, F)
  <2>1. u \in [E -> F] /\ E \subseteq 1..N /\ F \subseteq 1..n
    BY <1>1, <1>17, <1>22
  <2>2. ASSUME NEW i \in F PROVE \E j \in E : u[j] = i
    <3>1. PICK j \in 1..N : h[j] = i
      BY <2>1, <1>12
    <3>2. j \in E
      BY <3>1, <1>17, <1>20
    <3> QED
      BY <3>1, <3>2
  <2>3. ASSUME NEW i \in E, NEW j \in E, i < j PROVE u[i] < u[j]
    <3>1. h[i] < h[j]
      BY <2>3, <1>15, <1>22
    <3> QED
      BY <3>1
  <2>4. ASSUME NEW j \in E PROVE g[j] = f[u[j]] \/ (g[j].k = "cost" /\ f[u[j]].k = "cost")
    BY <1>16, <1>22
  <2> HIDE DEF E, F, u
  <2> QED
    BY <2>1, <2>2, <2>3, <2>4, <1>1, <1>9 DEF Woven
<1>24. x \in E /\ u[x] = e
  BY <1>17, <1>19
<1>25. Woven(g, f, u, x..Len(g), e..Len(f))
  BY <1>1, <1>9, <1>23
<1> HIDE DEF E, F, u
<1>26. Marks(g) /\ Tame(g, O)
  <2>1. x \in 1..Len(g) /\ \A i \in 1..Len(g) : g[i].k \in Behind => x < i
    BY <1>9, <1>17, <1>21
  <2> QED
    BY <2>1, <1>8, <1>24, <1>25, NeatWoven
<1>27. ASSUME NEW j \in 1..N, NEW i \in 1..N, j < i, OtherAt(g, j, i)
       PROVE  g[j].name \in O
  <2>1. /\ g[j].k = "model_name" /\ g[i].k = "mode" /\ g[i].mode # "chat"
        /\ \A a \in (j + 1)..i : g[a].k \notin {"blank", "model_name"}
    BY <1>27 DEF OtherAt
  <2>2. g[j] = f[h[j]] /\ g[i] = f[h[i]] /\ h[j] \in 1..n /\ h[i] \in 1..n
    BY <2>1, <1>14, <1>16
  <2>3. h[j] < h[i]
    BY <2>1, <2>2, <1>15, <1>27
  <2>4. ASSUME NEW a \in (h[j] + 1)..h[i] PROVE f[a].k \notin {"blank", "model_name"}
    <3> SUFFICES ASSUME f[a].k \in {"blank", "model_name"} PROVE FALSE
      OBVIOUS
    <3>1. a \in 1..n
      BY <2>2
    <3>2. PICK w \in 1..N : h[w] = a
      BY <3>1, <1>12
    <3>3. g[w] = f[a]
      BY <3>2, <1>16
    <3>4. j < w
      BY <3>2, <2>2, <1>15
    <3>5. w <= i
      <4> SUFFICES ASSUME i < w PROVE FALSE
        OBVIOUS
      <4>1. h[i] < h[w]
        BY <2>1, <2>2, <1>15
      <4> QED
        BY <4>1, <2>2, <3>1, <3>2
    <3>6. w \in (j + 1)..i
      BY <3>4, <3>5
    <3> QED
      BY <3>3, <3>6, <2>1
  <2>5. OtherAt(f, h[j], h[i])
    BY <2>1, <2>2, <2>4 DEF OtherAt
  <2> QED
    BY <2>2, <2>3, <2>5, <1>1, <1>2 DEF OtherIn
<1>28. OtherIn(g, O)
  BY <1>9, <1>27 DEF OtherIn
<1>29. Framed(g, K, t, x)
  BY <1>7 DEF Framed
<1>30. Neat(g, K, t, x, O)
  BY <1>9, <1>21, <1>26, <1>28, <1>29 DEF Neat
<1> QED
  BY <1>30 DEF g

\* New chains in their section.
LEMMA NeatChains ==
  ASSUME NEW M \in {Draft(Settled), Draft(Fresh)}, NEW f, NEW s, NEW e, NEW O, Neat(f, M, s, e, O),
         NEW known, O \subseteq known, "*" \notin O, NEW c \in Seq(Chains(known)), NEW p, InFallbacks(f, p)
  PROVE  Neat(Splice(f, p, c), M, s, e, O)
<1>0. M \subseteq Line /\ Fresh \subseteq M
  BY Subsets DEF Draft
<1>1. f \in Seq(M) /\ f \in Seq(Line)
      /\ \E n \in Nat : /\ n = Len(f) /\ s \in 1..n /\ e \in 1..n /\ s < e
                        /\ f[e].k \in SectionKinds /\ f[e].k \notin {"new_header", "cost"}
  BY <1>0, NeatFacts
<1>2. PICK n \in Nat : /\ n = Len(f) /\ s \in 1..n /\ e \in 1..n /\ s < e
                       /\ f[e].k \in SectionKinds /\ f[e].k \notin {"new_header", "cost"}
  BY <1>1
<1>3. /\ Framed(f, M, s, e) /\ Marks(f) /\ Tame(f, O) /\ OtherIn(f, O)
      /\ \A i \in 1..n : (f[i].k \in Behind => e < i) /\ (f[i].k = "new_header" => i < e)
  BY <1>2 DEF Neat
<1>4. PICK m \in Nat : m = Len(c) /\ \A j \in 1..m : c[j].k = "chain" /\ c[j].name \notin O /\ c[j] \in M
  <2>1. \A l \in Chains(known) : l.k = "chain" /\ l.name \notin O /\ l \in M
    BY <1>0 DEF Chains
  <2>2. \A j \in 1..Len(c) : c[j] \in Chains(known)
    OBVIOUS
  <2> QED
    BY <2>1, <2>2
<1>5. p \in 1..(n + 1) /\ p \in 1..(Len(f) + 1)
      /\ \E a \in 1..(p - 1) : f[a].k = "fallbacks" /\ \A i \in (a + 1)..(p - 1) : f[i].k \in {"blank", "chain"}
  BY <1>2 DEF InFallbacks
<1>6. PICK a \in 1..(p - 1) : f[a].k = "fallbacks" /\ \A i \in (a + 1)..(p - 1) : f[i].k \in {"blank", "chain"}
  BY <1>5
<1>7. a \in 1..n /\ e < a /\ a < p
  <2>1. a \in 1..n /\ a < p
    BY <1>5
  <2> QED
    BY <2>1, <1>3, <1>6 DEF Behind
<1>8. PICK g : g = Splice(f, p, c)
  OBVIOUS
<1>9. Framed(g, M, s, e)
  <2>1. Framed(g, M, Up(s, p, Len(c)), Up(e, p, Len(c)))
    BY <1>3, <1>8, FallbacksFramed
  <2>2. Up(s, p, Len(c)) = s /\ Up(e, p, Len(c)) = e
    BY <1>2, <1>5, <1>7 DEF Up
  <2> QED
    BY <2>1, <2>2
<1>10. /\ g \in Seq(Line) /\ Len(g) = n + m
       /\ \A j \in 1..(n + m) : g[j] = IF j < p THEN f[j] ELSE IF j < p + m THEN c[j - p + 1] ELSE f[j - m]
  <2>1. f \in Seq(M) /\ c \in Seq(M) /\ p \in 1..(Len(f) + 1)
    BY <1>1, <1>4, <1>5
  <2>2. /\ g \in Seq(M) /\ Len(g) = Len(f) + Len(c)
        /\ \A j \in 1..(Len(f) + Len(c)) :
             g[j] = IF j < p THEN f[j] ELSE IF j < p + Len(c) THEN c[j - p + 1] ELSE f[j - Len(c)]
    BY <2>1, <1>8, SpliceAt
  <2> QED
    BY <2>2, <1>0, <1>2, <1>4, SeqMono
<1>11. ASSUME NEW j \in 1..(n + m)
       PROVE  \/ j < p /\ g[j] = f[j] /\ j \in 1..n
              \/ p <= j /\ j < p + m /\ g[j].k = "chain" /\ g[j].name \notin O
              \/ p + m <= j /\ j - m \in 1..n /\ g[j] = f[j - m]
  <2>1. CASE j < p
    BY <2>1, <1>5, <1>10
  <2>2. CASE p <= j /\ j < p + m
    <3>1. j - p + 1 \in 1..m /\ ~(j < p)
      BY <2>2, <1>5
    <3> QED
      BY <2>2, <3>1, <1>4, <1>10
  <2>3. CASE p + m <= j
    <3>1. ~(j < p) /\ ~(j < p + m) /\ j - m \in 1..n
      BY <2>3, <1>5
    <3> QED
      BY <2>3, <3>1, <1>10
  <2> QED
    BY <2>1, <2>2, <2>3, <1>5
<1>12. ASSUME NEW j \in 1..(n + m)
       PROVE  (g[j].k \in Behind => e < j) /\ (g[j].k = "new_header" => j < e)
  <2>1. CASE j < p /\ g[j] = f[j] /\ j \in 1..n
    BY <2>1, <1>3
  <2>2. CASE p <= j /\ j < p + m /\ g[j].k = "chain" /\ g[j].name \notin O
    BY <2>2, <1>2, <1>5, <1>7
  <2>3. CASE p + m <= j /\ j - m \in 1..n /\ g[j] = f[j - m]
    BY <2>3, <1>2, <1>3, <1>5, <1>7
  <2> QED
    BY <2>1, <2>2, <2>3, <1>11
<1> DEFINE E == {j \in 1..(n + m) : j < p \/ p + m <= j}
           F == 1..n
           h == [j \in E |-> IF j < p THEN j ELSE j - m]
<1>13. Woven(g, f, h, E, F)
  <2>1. h \in [E -> F] /\ E \subseteq 1..Len(g) /\ F \subseteq 1..Len(f)
    BY <1>2, <1>5, <1>10
  <2>2. ASSUME NEW x \in F PROVE \E j \in E : h[j] = x
    <3>1. CASE x < p
      BY <3>1
    <3>2. CASE ~(x < p)
      <4>1. x + m \in E /\ ~(x + m < p) /\ x + m - m = x
        BY <3>2, <1>5
      <4> QED
        BY <4>1
    <3> QED
      BY <3>1, <3>2
  <2>3. \A i, j \in E : i < j => h[i] < h[j]
    BY <1>5
  <2>4. ASSUME NEW j \in E PROVE g[j] = f[h[j]]
    BY <1>5, <1>10
  <2> HIDE DEF E, F, h
  <2> QED
    BY <2>1, <2>2, <2>3, <2>4 DEF Woven
<1>14. \A j \in 1..(n + m) : j \notin E => p <= j /\ j < p + m /\ g[j].k = "chain" /\ g[j].name \notin O
  BY <1>5, <1>11
<1>15. \A j \in E : j < p => h[j] = j
  OBVIOUS
<1>16. 1..(p - 1) \subseteq E
  BY <1>5
<1>17. \A x \in 1..n : x \in F
  OBVIOUS
<1>18. E \subseteq 1..(n + m) /\ \A j \in E : j < p \/ p + m <= j
  OBVIOUS
<1> HIDE DEF E, F, h
<1>19. Unbroken(g, f, h, E)
  <2> SUFFICES ASSUME NEW x \in 1..Len(g), NEW i \in E, x \notin E, i < x
      PROVE  \E y \in E : i <= y /\ y < x /\ f[h[y]].k \notin {"begin", "marked"}
    BY DEF Unbroken
  <2>1. x \in 1..(n + m) /\ p <= x /\ x < p + m
    BY <1>10, <1>14
  <2>2. i < p /\ i \in 1..(n + m)
    BY <2>1, <1>5, <1>18
  <2>3. p - 1 \in E /\ h[p - 1] = p - 1 /\ i <= p - 1 /\ p - 1 < x
    <3>1. p - 1 \in 1..(p - 1) /\ p - 1 < p
      BY <1>5, <1>7
    <3> QED
      BY <3>1, <2>1, <2>2, <1>5, <1>15, <1>16
  <2>4. f[p - 1].k \notin {"begin", "marked"}
    <3>1. p - 1 = a \/ p - 1 \in (a + 1)..(p - 1)
      BY <1>5, <1>7
    <3> QED
      BY <3>1, <1>6
  <2> QED
    BY <2>3, <2>4
<1>20. Marks(g)
  <2>1. \A i \in 1..Len(g) : g[i].k \in MarkKinds => i \in E
    BY <1>10, <1>14 DEF MarkKinds
  <2>2. \A i \in 1..Len(f) : f[i].k \in MarkKinds => i \in F
    BY <1>2, <1>17
  <2> QED
    BY <2>1, <2>2, <1>1, <1>3, <1>10, <1>13, <1>19, MarksWoven
<1>21. Outside(g, E) /\ Outside(f, F)
  <2>1. \A x \in 1..Len(g) : g[x].k \in SectionKinds => x \in E
    BY <1>10, <1>14 DEF SectionKinds, TopLevel
  <2> QED
    BY <2>1, <1>2, <1>17 DEF Outside
<1>22. ASSUME NEW j \in 1..(n + m), g[j].k = "chain"
       PROVE  /\ Section(g, j) \in {"fallbacks", "context"}
              /\ Section(g, j) = "fallbacks" /\ g[j].name \in O => g[j].to = <<>>
  <2>1. CASE j \in E
    <3>1. e \in E /\ h[e] = e /\ e <= j
      <4>1. e \in 1..(p - 1) /\ e < p
        BY <1>2, <1>5, <1>7
      <4>2. e < j
        BY <1>12, <1>22 DEF Behind
      <4> QED
        BY <4>1, <4>2, <1>2, <1>15, <1>16
    <3>2. Section(g, j) = Section(f, h[j])
      BY <2>1, <3>1, <1>1, <1>2, <1>10, <1>13, <1>21, SectionWoven
    <3>3. h[j] \in F /\ F \subseteq 1..Len(f) /\ g[j] = f[h[j]]
      BY <2>1, <1>13, <1>22 DEF Woven
    <3>4. h[j] \in 1..Len(f)
      BY <3>3
    <3> QED
      BY <3>2, <3>3, <3>4, <1>3, <1>22 DEF Tame
  <2>2. CASE j \notin E
    <3>1. p <= j /\ j < p + m /\ g[j].name \notin O
      BY <2>2, <1>14
    <3>2. Opens(g, a, j)
      <4>1. a \in 1..j /\ a \in 1..(n + m) /\ a < p
        BY <3>1, <1>5, <1>7
      <4>2. g[a].k = "fallbacks"
        BY <4>1, <1>6, <1>10
      <4>3. ASSUME NEW x \in (a + 1)..j PROVE g[x].k \in {"blank", "chain"}
        <5>1. x \in 1..(n + m) /\ ~(p + m <= x) /\ a < x
          BY <3>1, <1>5
        <5>2. x < p => x \in (a + 1)..(p - 1)
          BY <5>1, <1>5
        <5> QED
          BY <5>1, <5>2, <1>6, <1>11
      <4> QED
        BY <4>1, <4>2, <4>3 DEF Opens, SectionKinds, TopLevel
    <3>3. Section(g, j) = g[a].k /\ g[a].k = "fallbacks"
      <4>1. j \in Nat
        OBVIOUS
      <4>2. a \in 1..(n + m) /\ a < p
        BY <1>5, <1>7
      <4> QED
        BY <3>2, <4>1, <4>2, <1>6, <1>10, SectionIs
    <3> QED
      BY <3>1, <3>3
  <2> QED
    BY <2>1, <2>2
<1>23. Tame(g, O)
  BY <1>10, <1>22 DEF Tame
<1>24. PICK z : ListIs(f, s, z, e)
  BY <1>3 DEF Framed
<1>25. /\ z \in 1..n /\ z < e /\ (z = s \/ f[z].k = "blank")
       /\ \A i \in 1..n : f[i].k = "model_name" => s < i /\ i < z
  BY <1>2, <1>24 DEF ListIs
<1>26. ASSUME NEW j \in 1..(n + m), NEW x \in 1..(n + m), j < x, OtherAt(g, j, x)
       PROVE  g[j].name \in O
  <2>1. /\ g[j].k = "model_name" /\ g[x].k = "mode" /\ g[x].mode # "chat"
        /\ \A y \in (j + 1)..x : g[y].k \notin {"blank", "model_name"}
    BY <1>26 DEF OtherAt
  <2>2. j \in 1..n /\ g[j] = f[j] /\ s < j /\ j < z
    <3>1. CASE j < p /\ g[j] = f[j] /\ j \in 1..n
      BY <3>1, <2>1, <1>25
    <3>2. CASE p + m <= j /\ j - m \in 1..n /\ g[j] = f[j - m]
      <4>1. j - m < z
        BY <3>2, <2>1, <1>25
      <4> QED
        BY <4>1, <3>2, <1>2, <1>5, <1>7, <1>25
    <3> QED
      BY <3>1, <3>2, <2>1, <1>11
  <2>3. f[z].k = "blank" /\ g[z] = f[z]
    <3>1. z \in 1..(n + m) /\ z < p /\ z # s
      BY <2>2, <1>2, <1>5, <1>7, <1>25
    <3> QED
      BY <3>1, <1>10, <1>25
  <2>4. x < z
    <3> SUFFICES ASSUME z <= x PROVE FALSE
      BY <1>25
    <3>1. z \in (j + 1)..x
      BY <2>2, <1>25
    <3> QED
      BY <3>1, <2>1, <2>3
  <2>5. \A y \in j..x : y \in 1..(n + m) /\ y < p /\ y \in 1..n
    BY <2>2, <2>4, <1>2, <1>5, <1>7, <1>25
  <2>6. \A y \in j..x : g[y] = f[y]
    BY <2>5, <1>10
  <2>7. g[x] = f[x] /\ x \in 1..n
    BY <2>5, <2>6, <1>26
  <2>8. OtherAt(f, j, x)
    BY <2>1, <2>2, <2>6, <2>7 DEF OtherAt
  <2> QED
    BY <2>2, <2>7, <2>8, <1>2, <1>3, <1>26 DEF OtherIn
<1>27. OtherIn(g, O)
  BY <1>10, <1>26 DEF OtherIn
<1>28. Neat(g, M, s, e, O)
  BY <1>9, <1>10, <1>12, <1>20, <1>23, <1>27 DEF Neat
<1> QED
  BY <1>8, <1>28

\* The passes of a sync, one by one.
LEMMA NeatPasses ==
  ASSUME NEW O, NEW adds \in Seq(Addition), NEW f, NEW s, NEW e, Neat(f, Draft(Fresh), s, e, O)
  PROVE  /\ \E t, x : Neat(UpdateCosts(f, adds), Draft(Fresh), t, x, O)
         /\ \A known : O \subseteq known /\ "*" \notin O => Neat(UpdateFallbacks(f, adds, known), Draft(Fresh), s, e, O)
         /\ \E t, x : Neat(Reread(f), Fresh, t, x, O)
<1> DEFINE M == Draft(Fresh)
<1>0. M \subseteq Line /\ Fresh \subseteq Line
  BY Subsets
<1>1. f \in Seq(M)
  BY DEF Neat, Framed
<1>2. \E t, x : Neat(UpdateCosts(f, adds), M, t, x, O)
  <2>1. PICK ss \in Seq(Seq(M)) : UpdateCosts(f, adds) = FlattenSeq(ss) /\ Pieces(ss, f) /\ Rewords(ss, f)
    BY <1>1, CostsPieces
  <2> HIDE DEF M
  <2>2. \E t, x : Neat(FlattenSeq(ss), M, t, x, O)
    BY <1>0, <2>1, NeatPass DEF M
  <2> QED
    BY <2>1, <2>2
<1>3. ASSUME NEW known, O \subseteq known, "*" \notin O PROVE Neat(UpdateFallbacks(f, adds, known), M, s, e, O)
  <2>1. CASE UpdateFallbacks(f, adds, known) = f
    BY <2>1
  <2>2. ASSUME NEW p, NEW c \in Seq(Chains(known)), UpdateFallbacks(f, adds, known) = Splice(f, p, c),
               InFallbacks(f, p)
        PROVE  Neat(UpdateFallbacks(f, adds, known), M, s, e, O)
    <3>1. Neat(Splice(f, p, c), M, s, e, O)
      BY <1>3, <2>2, NeatChains
    <3> QED
      BY <2>2, <3>1
  <2> QED
    BY <1>1, <2>1, <2>2, FallbacksSpliced
<1>4. \E t, x : Neat(Reread(f), Fresh, t, x, O)
  <2>1. PICK ss \in Seq(Seq(Fresh)) : Reread(f) = FlattenSeq(ss) /\ Pieces(ss, f) /\ Rewords(ss, f)
    BY <1>1, RereadPieces
  <2>2. \E t, x : Neat(FlattenSeq(ss), Fresh, t, x, O)
    BY <1>0, <2>1, NeatPass
  <2> QED
    BY <2>1, <2>2
<1> QED
  BY <1>2, <1>3, <1>4

\* The groups of other types are known to the scan.
LEMMA OtherScanned ==
  ASSUME NEW f \in Seq(Settled), NEW s, NEW z, NEW e, ListIs(f, s, z, e)
  PROVE  OtherTypes(f) \subseteq NamesOf(ScanExisting(f)) /\ OtherTypes(f) \subseteq Names
<1>1. f \in Seq(Line) /\ DOMAIN f = 1..Len(f)
  BY Subsets, SeqMono
<1>2. PICK n \in Nat : \E at : Scans(ScanExisting(f), f, n, at)
  BY <1>1, ScanExistingScans
<1>3. PICK at : Scans(ScanExisting(f), f, n, at)
  BY <1>2
<1> DEFINE b == ScanExisting(f)
<1> HIDE DEF b
<1>4. /\ \A j \in Starts(f) : \E i \in 1..n : at[i] = j
      /\ DOMAIN b = 1..n /\ \A i \in 1..n : b[i].name = f[at[i]].name
  BY <1>3 DEF Scans, b
<1>5. \A x \in OtherTypes(f) : \E i \in 1..Len(f) : f[i].k = "model_name" /\ x = f[i].name
  BY <1>1 DEF OtherTypes
<1>6. \A i \in 1..Len(f) : f[i].k = "model_name" => i \in Starts(f) /\ f[i].name \in Names
  BY StartsAre
<1>7. \A i \in Starts(f) : f[i].name \in NamesOf(b)
  BY <1>4 DEF NamesOf
<1> QED
  BY <1>5, <1>6, <1>7 DEF b

\* What every template has.
Tidy(t) == Sound(t, Fresh) /\ Marks(t) /\ ChainsPlaced(t)

LEMMA TidyNeat ==
  ASSUME NEW f, Tidy(f)
  PROVE  /\ \E s, e : Neat(f, Fresh, s, e, OtherTypes(f))
         /\ OtherTypes(f) \subseteq NamesOf(ScanExisting(f)) /\ "*" \notin OtherTypes(f)
<1>1. PICK s, z, e : f \in Seq(Fresh) /\ ListIs(f, s, z, e) /\ TailIs(f, e)
  BY DEF Tidy, Sound, Framed
<1>2. f \in Seq(Line) /\ f \in Seq(Settled) /\ DOMAIN f = 1..Len(f)
  BY <1>1, Subsets, SeqMono
<1> DEFINE O == OtherTypes(f)
<1>3. O \subseteq NamesOf(ScanExisting(f)) /\ O \subseteq Names
  BY <1>1, <1>2, OtherScanned
<1>4. "*" \notin O
  BY <1>3, TableAssumption
<1> HIDE DEF O
<1>5. \A i \in 1..Len(f) : f[i].k \in Behind => e < i
  BY <1>1, PlacedIs DEF Tidy, Laid
<1>6. \A i \in 1..Len(f) : f[i].k # "new_header"
  <2>1. \A l \in Fresh : l.k # "new_header"
    BY DEF Fresh, Settled
  <2> QED
    BY <2>1, <1>1
<1>7. Tame(f, O)
  BY <1>2 DEF Tidy, ChainsPlaced, ChainsAt, Tame, O
<1>8. OtherIn(f, O)
  BY <1>2, OtherTypesIn DEF O
<1>9. Framed(f, Fresh, s, e)
  BY <1>1 DEF Framed
<1>10. Neat(f, Fresh, s, e, O)
  BY <1>5, <1>6, <1>7, <1>8, <1>9 DEF Neat, Tidy
<1> QED
  BY <1>3, <1>4, <1>10 DEF O

LEMMA NeatTidy ==
  ASSUME NEW f, NEW s, NEW e, NEW O, Neat(f, Fresh, s, e, O)
  PROVE  Tidy(f)
<1>1. /\ Framed(f, Fresh, s, e) /\ Marks(f) /\ Tame(f, O) /\ OtherIn(f, O)
      /\ \A i \in 1..Len(f) : f[i].k \in Behind => e < i
  BY DEF Neat
<1>2. PICK z : f \in Seq(Fresh) /\ ListIs(f, s, z, e)
  BY <1>1 DEF Framed
<1>3. f \in Seq(Line) /\ f \in Seq(Settled) /\ DOMAIN f = 1..Len(f)
  BY <1>2, Subsets, SeqMono
<1>4. ListEnd(f) = e
  BY <1>2, <1>3, Bounds
<1>5. OtherTypes(f) \subseteq O
  BY <1>1, <1>3, OtherTypesIn
<1>6. ChainsPlaced(f)
  <2>1. \A i \in 1..Len(f) : f[i].k \in {"fallbacks", "context", "chain"} => ListEnd(f) < i
    BY <1>1, <1>4 DEF Behind
  <2> QED
    BY <2>1, <1>1, <1>3, <1>5 DEF ChainsPlaced, ChainsAt, Tame
<1> QED
  BY <1>1, <1>6 DEF Tidy, Sound

\* A sync leaves the template such that the render is exact.
LEMMA ApplyTidy ==
  ASSUME NEW f, Tidy(f), NEW adds \in Seq(Addition)
  PROVE  Tidy(ApplyToConfig(f, adds))
<1> DEFINE O == OtherTypes(f)
           known == NamesOf(ScanExisting(f))
<1>1. O \subseteq known /\ "*" \notin O /\ \E s, e : Neat(f, Fresh, s, e, O)
  BY TidyNeat
<1> HIDE DEF O, known
<1>2. PICK s, e : Neat(f, Fresh, s, e, O)
  BY <1>1
<1>3. PICK f1 : f1 = InsertDeployments(f, adds)
  OBVIOUS
<1>4. PICK e1 : Neat(f1, Draft(Fresh), s, e1, O)
  BY <1>2, <1>3, NeatInsert
<1>5. PICK f2 : f2 = UpdateCosts(f1, adds)
  OBVIOUS
<1>6. PICK s2, e2 : Neat(f2, Draft(Fresh), s2, e2, O)
  BY <1>4, <1>5, NeatPasses
<1>7. PICK f3 : f3 = UpdateFallbacks(f2, adds, known)
  OBVIOUS
<1>8. Neat(f3, Draft(Fresh), s2, e2, O)
  BY <1>1, <1>6, <1>7, NeatPasses
<1>9. PICK s4, e4 : Neat(Reread(f3), Fresh, s4, e4, O)
  BY <1>8, NeatPasses
<1>10. Tidy(Reread(f3))
  BY <1>9, NeatTidy
<1> QED
  BY <1>3, <1>5, <1>7, <1>10 DEF ApplyToConfig, known

\* It is so of every template a render reads or is given.
TidyInv ==
  /\ template # NoFile => Tidy(template)
  /\ Moved => Tidy(sync.new)
  /\ render.pc \in {"backup", "replace"} =>
       /\ Tidy(render.template)
       /\ render.new = Render(render.template, render.env)

LEMMA TidyInitial == Init => TidyInv
<1> SUFFICES ASSUME Init PROVE TidyInv
  OBVIOUS
<1>1. Tidy(template)
  <2>1. template \in Templates
    BY DEF Init
  <2>2. WellFormed(template) /\ Sound(template, Fresh)
    BY <2>1, SyncAssumption, TemplatesSound
  <2> QED
    BY <2>2 DEF WellFormed, Tidy
<1>2. sync.pc = "idle" /\ render.pc = "idle"
  BY DEF Init, NoSync, NoRender
<1> QED
  BY <1>1, <1>2 DEF TidyInv, Moved

LEMMA TidyStep == IInv /\ FilesInv /\ TidyInv /\ [Next]_vars => TidyInv'
<1> SUFFICES ASSUME IInv, FilesInv, TidyInv, [Next]_vars PROVE TidyInv'
  OBVIOUS
<1>0. SyncInv /\ RenderInv
  BY DEF IInv
<1> USE DEF TidyInv
<1>1. CASE Query
  BY <1>1 DEF Query, Moved
<1>2. CASE MakePlan
  <2>1. UNCHANGED <<template, render>> /\ sync'.pc \in {"idle", "apply"}
    BY <1>2 DEF MakePlan, NoSync
  <2> QED
    BY <2>1 DEF Moved
<1>3. CASE MoveAway
  <2>1. /\ sync.pc = "apply" /\ sync'.onTemplate = sync.onTemplate /\ render' = render
        /\ sync'.new = ApplyToConfig(sync.old, sync.adds)
        /\ template' = template \/ template' = NoFile
    BY <1>3 DEF MoveAway
  <2>2. ASSUME sync.onTemplate PROVE Tidy(sync'.new)
    <3>1. Tidy(sync.old) /\ sync.adds \in Seq(Addition)
      BY <1>0, <2>1, <2>2 DEF SyncInv, FilesInv
    <3> QED
      BY <2>1, <3>1, ApplyTidy
  <2> QED
    BY <2>1, <2>2 DEF Moved
<1>4. CASE Write
  <2>1. sync.pc = "write" /\ sync'.pc \in {"render", "rendered"} /\ render' = render
    BY <1>4 DEF Write
  <2>2. template' = template \/ (sync.onTemplate /\ template' = sync.new)
    BY <1>4 DEF Write
  <2> QED
    BY <2>1, <2>2 DEF Moved
<1>5. CASE Rendered
  BY <1>5 DEF Rendered, NoSync, Moved
<1>6. CASE Generate
  BY <1>6 DEF Generate, NoSync, Moved
<1>7. CASE Crash
  <2>1. UNCHANGED template /\ sync'.pc = "idle"
    BY <1>7 DEF Crash, NoSync
  <2>2. render' \in {NoRender, render, [render EXCEPT !.by = "hand"]}
    BY <1>7 DEF Crash
  <2>3. CASE render' = NoRender
    BY <2>1, <2>3 DEF NoRender, Moved
  <2>4. CASE render' = render
    BY <2>1, <2>4 DEF Moved
  <2>5. CASE render' = [render EXCEPT !.by = "hand"]
    <3>1. render'.pc = render.pc
      BY <1>0, <2>5 DEF RenderInv
    <3>2. render.pc \in {"backup", "replace"} =>
            render'.template = render.template /\ render'.env = render.env /\ render'.new = render.new
      <4>1. SUFFICES ASSUME render.pc \in {"backup", "replace"}
                     PROVE  DOMAIN render = {"pc", "by", "template", "env", "new"}
        BY <2>5
      <4> QED
        BY <1>0, <4>1 DEF RenderInv, FilesInv
    <3> QED
      BY <2>1, <3>1, <3>2 DEF Moved
  <2> QED
    BY <2>2, <2>3, <2>4, <2>5
<1>8. CASE EditEnv \/ UNCHANGED vars
  BY <1>8 DEF EditEnv, vars, Moved
<1>9. CASE RenderByHand \/ RenderBySync
  <2>1. PICK by : render' = Reading(by)
    BY <1>9 DEF RenderByHand, RenderBySync
  <2>2. UNCHANGED template /\ (sync' = sync \/ sync'.pc \in {"rendered", "waiting"})
    BY <1>9 DEF RenderByHand, RenderBySync
  <2>3. CASE template = NoFile
    BY <2>1, <2>2, <2>3 DEF Reading, NoRender, Moved
  <2>4. CASE template # NoFile
    BY <2>1, <2>2, <2>4 DEF Reading, Moved
  <2> QED
    BY <2>3, <2>4
<1>10. CASE BackUpConfig
  <2>1. /\ UNCHANGED <<template, sync>> /\ render.pc = "backup"
        /\ render' = [render EXCEPT !.pc = "replace"]
    BY <1>10 DEF BackUpConfig
  <2>2. DOMAIN render = {"pc", "by", "template", "env", "new"}
    BY <1>0, <2>1 DEF RenderInv, FilesInv
  <2> QED
    BY <2>1, <2>2 DEF Moved
<1>11. CASE ReplaceConfig
  BY <1>11 DEF ReplaceConfig, Moved
<1>12. CASE Prune
  <2>1. UNCHANGED template /\ render'.pc = "idle"
    BY <1>12 DEF Prune, NoRender
  <2>2. sync' = sync \/ sync'.pc = "rendered"
    BY <1>12 DEF Prune
  <2> QED
    BY <2>1, <2>2 DEF Moved
<1> QED
  BY <1>1, <1>2, <1>3, <1>4, <1>5, <1>6, <1>7, <1>8, <1>9, <1>10, <1>11, <1>12 DEF Next

\* Whatever syncs did to the template before, and wherever they died, what a
\* render is about to write is exact.
THEOREM RenderedExactly == Spec => []RenderExact
<1>1. TidyInv => RenderExact
  <2> SUFFICES ASSUME TidyInv, render.pc = "replace" PROVE Exact(render.template, render.new, render.env)
    BY DEF RenderExact
  <2>1. Tidy(render.template) /\ render.new = Render(render.template, render.env)
    BY DEF TidyInv
  <2> QED
    BY <2>1, RenderIsExact DEF Tidy
<1>2. RenderInv /\ FilesInv /\ StepsInv /\ [Next]_vars => (FilesInv /\ StepsInv)'
  BY FilesStep, StepsStep
<1>3. IInv => RenderInv
  BY DEF IInv
<1> QED
  BY Invariance, FilesInitial, TidyInitial, TidyStep, <1>1, <1>2, <1>3, PTL DEF Spec

-----------------------------------------------------------------------------
(* What a sync leaves alone. *)

\* The lines a sync has nothing to do with, also while it is at work.
Aside(known) == {l \in Line : l.k # "new_header" /\ Other(l, known)}

\* A pass only changes such lines.
LEMMA AsidePass ==
  ASSUME NEW E, E \subseteq Line, NEW f \in Seq(Line), NEW ss \in Seq(Seq(E)), Pieces(ss, f), Rewords(ss, f), NEW known
  PROVE  Only(FlattenSeq(ss), Aside(known)) = Only(f, Aside(known))
<1>0. PICK n \in Nat : n = Len(f) /\ n = Len(ss)
  BY DEF Pieces
<1>1. ss \in Seq(Seq(Line))
  <2>1. Seq(E) \subseteq Seq(Line)
    BY SeqMono
  <2> QED
    BY <2>1, SeqMono
<1>2. ASSUME NEW i \in 1..n
      PROVE  \/ ss[i] = <<f[i]>>
             \/ f[i] \notin Aside(known) /\ \A j \in 1..Len(ss[i]) : ss[i][j] \notin Aside(known)
  <2>1. /\ ss[i] # <<>> /\ \A j \in 1..Len(ss[i]) : Reworded(ss[i][j], f[i])
        /\ Len(ss[i]) <= 1 \/ f[i].k = "new_header"
    BY <1>0 DEF Pieces, Rewords
  <2>2. ss[i] \in Seq(Line)
    BY <1>0, <1>1
  <2>3. CASE f[i].k \in {"cost", "new_header"}
    <3>1. \A j \in 1..Len(ss[i]) : ss[i][j].k \in {"cost", "new_header", "blank", "header"}
      BY <2>1, <2>3 DEF Reworded
    <3> QED
      BY <2>3, <3>1 DEF Aside, Other
  <2>4. CASE f[i].k \notin {"cost", "new_header"}
    <3>1. Len(ss[i]) = 1
      <4>1. Len(ss[i]) \in Nat /\ Len(ss[i]) # 0
        BY <2>1, <2>2, EmptySeq
      <4>2. Len(ss[i]) <= 1
        BY <2>1, <2>4
      <4>3. \A m \in Nat : m # 0 /\ m <= 1 => m = 1
        OBVIOUS
      <4> QED
        BY <4>1, <4>2, <4>3, Zenon
    <3>2. ss[i][1] = f[i]
      BY <2>1, <2>4, <3>1 DEF Reworded
    <3>3. ss[i] = <<ss[i][1]>>
      BY <2>2, <3>1
    <3> QED
      BY <3>2, <3>3
  <2> QED
    BY <2>3, <2>4
<1> QED
  BY <1>0, <1>1, <1>2, OnlyPieces

\* All that a sync does.
LEMMA AsideKept ==
  ASSUME NEW L \in {Settled, Fresh}, NEW f, Sound(f, L), NEW adds \in Seq(Addition)
  PROVE  LET W == Aside(NamesOf(ScanExisting(f)))
         IN  Only(ApplyToConfig(f, adds), W) = Only(f, W)
<1> DEFINE known == NamesOf(ScanExisting(f))
           M == Draft(L)
<1>0. M \in {Draft(Settled), Draft(Fresh)} /\ M \subseteq Line /\ L \subseteq Line /\ Above \subseteq Line /\ Chains(known) \subseteq Line
  BY Subsets DEF Chains
<1>1. PICK s, e : Framed(f, L, s, e)
  BY DEF Sound
<1>2. PICK z : f \in Seq(L) /\ ListIs(f, s, z, e)
  BY <1>1 DEF Framed
<1>3. f \in Seq(Line) /\ s \in 1..Len(f) /\ e \in 1..Len(f)
  BY <1>0, <1>2, SeqMono DEF ListIs
<1>4. "*" \notin known
  <2>1. PICK n \in Nat : \E at : Scans(ScanExisting(f), f, n, at)
    BY <1>3, ScanExistingScans
  <2>2. known \subseteq Names
    BY <2>1, <1>3, ScannedNames DEF NamesOf
  <2> QED
    BY <2>2, TableAssumption
<1> HIDE DEF known, M
<1> DEFINE W == Aside(known)
<1>5. \A l \in Above : l \notin W
  BY DEF Above, Draft, Body, Aside, Other, Key
<1>6. \A l \in Chains(known) : l \notin W
  BY <1>4 DEF Chains, Aside, Other
<1> HIDE DEF W
<1>7. PICK f1 : f1 = InsertDeployments(f, adds)
  OBVIOUS
<1>8. f1 \in Seq(Line) /\ Only(f1, W) = Only(f, W)
  <2> DEFINE T == {g \in Seq(Line) : Len(f) <= Len(g) /\ Only(g, W) = Only(f, W)}
  <2>1. f \in T
    BY <1>3
  <2>2. ASSUME NEW g \in T, NEW p \in (s + 1)..e, NEW d \in Seq(Above) PROVE Splice(g, p, d) \in T
    <3>1. p \in 1..(Len(g) + 1) /\ g \in Seq(Line) /\ d \in Seq(Line)
      BY <1>0, <1>3, SeqMono
    <3>2. \A i \in 1..Len(d) : d[i] \notin W
      BY <1>5
    <3>3. Only(Splice(g, p, d), W) = Only(g, W)
      <4> HIDE DEF T
      <4> QED
        BY <3>1, <3>2, OnlyPutIn DEF Splice, PutIn
    <3>4. Splice(g, p, d) \in Seq(Line) /\ Len(Splice(g, p, d)) = Len(g) + Len(d) /\ Len(g) \in Nat /\ Len(d) \in Nat
      <4> HIDE DEF T
      <4> QED
        BY <3>1, SpliceAt
    <3> QED
      BY <3>3, <3>4
  <2>3. Splices(T, s, e)
    BY <2>2 DEF Splices
  <2> HIDE DEF T
  <2>4. InsertDeployments(f, adds) \in T
    BY <1>1, <2>1, <2>3, InsertSplices
  <2> QED
    BY <1>7, <2>4 DEF T
<1>9. f1 \in Seq(M)
  BY <1>1, <1>7, InsertFramed DEF Framed, M
<1>10. PICK f2 : f2 = UpdateCosts(f1, adds)
  OBVIOUS
<1>11. f2 \in Seq(M) /\ f2 \in Seq(Line) /\ Only(f2, W) = Only(f1, W)
  <2>1. PICK ss \in Seq(Seq(M)) : f2 = FlattenSeq(ss) /\ Pieces(ss, f1) /\ Rewords(ss, f1)
    BY <1>0, <1>9, <1>10, CostsPieces
  <2>2. f2 \in Seq(M)
    BY <2>1, FlattenTyped
  <2> QED
    BY <1>0, <1>8, <2>1, <2>2, SeqMono, AsidePass DEF W
<1>12. PICK f3 : f3 = UpdateFallbacks(f2, adds, known)
  OBVIOUS
<1>13. f3 \in Seq(M) /\ f3 \in Seq(Line) /\ Only(f3, W) = Only(f2, W)
  <2>1. CASE f3 = f2
    BY <1>11, <2>1
  <2>2. ASSUME NEW p, NEW c \in Seq(Chains(known)), f3 = Splice(f2, p, c), InFallbacks(f2, p)
        PROVE  f3 \in Seq(M) /\ f3 \in Seq(Line) /\ Only(f3, W) = Only(f2, W)
    <3>1. p \in 1..(Len(f2) + 1) /\ c \in Seq(Line) /\ \A i \in 1..Len(c) : c[i] \notin W
      BY <1>0, <1>6, <2>2, SeqMono DEF InFallbacks
    <3>2. Only(f3, W) = Only(f2, W)
      BY <1>11, <2>2, <3>1, OnlyPutIn DEF Splice, PutIn
    <3>3. Chains(known) \subseteq M
      BY DEF Chains, M, Draft, Fresh
    <3>4. c \in Seq(M)
      BY <3>3, SeqMono
    <3>5. f3 \in Seq(M)
      BY <1>11, <2>2, <3>1, <3>4, SpliceAt
    <3> QED
      BY <1>0, <3>2, <3>5, SeqMono
  <2> QED
    BY <1>0, <1>11, <1>12, <2>1, <2>2, FallbacksSpliced
<1>14. Only(Reread(f3), W) = Only(f3, W)
  <2>1. PICK ss \in Seq(Seq(L)) : Reread(f3) = FlattenSeq(ss) /\ Pieces(ss, f3) /\ Rewords(ss, f3)
    BY <1>13, RereadPieces DEF M
  <2> QED
    BY <1>0, <1>13, <2>1, AsidePass DEF W
<1>15. ApplyToConfig(f, adds) = Reread(f3)
  BY <1>7, <1>10, <1>12 DEF ApplyToConfig, known
<1>16. Only(ApplyToConfig(f, adds), W) = Only(f, W)
  BY <1>8, <1>11, <1>13, <1>14, <1>15
<1> QED
  BY <1>16 DEF W, known

\* As the property says it.
LEMMA RestIsKept ==
  ASSUME NEW L \in {Settled, Fresh}, NEW f, Sound(f, L), NEW adds \in Seq(Addition)
  PROVE  OtherLines(ApplyToConfig(f, adds), NamesOf(ParseBlocks(f))) = OtherLines(f, NamesOf(ParseBlocks(f)))
<1> DEFINE had == NamesOf(ParseBlocks(f))
           V(g) == {l \in ToSet(g) : Other(l, had)}
<1>1. had = NamesOf(ScanExisting(f))
  <2>1. f \in Seq(Line)
    BY SoundTyped
  <2>2. PICK n \in Nat : \E at : Scans(ParseBlocks(f), f, n, at)
    BY <2>1, ParseBlocksScans
  <2>3. PICK m \in Nat : \E at : Scans(ScanExisting(f), f, m, at)
    BY <2>1, ScanExistingScans
  <2>4. ASSUME NEW b, NEW c, NEW k \in Nat, NEW l \in Nat, NEW at, NEW to, Scans(b, f, k, at), Scans(c, f, l, to)
        PROVE  NamesOf(b) \subseteq NamesOf(c)
    <3>1. DOMAIN b = 1..k /\ \A i \in 1..k : at[i] \in Starts(f) /\ b[i].name = f[at[i]].name
      BY <2>4 DEF Scans
    <3>2. DOMAIN c = 1..l /\ \A j \in Starts(f) : \E i \in 1..l : to[i] = j /\ c[i].name = f[to[i]].name
      BY <2>4 DEF Scans
    <3>3. ASSUME NEW i \in 1..k PROVE \E j \in 1..l : c[j].name = b[i].name
      BY <3>1, <3>2
    <3> QED
      BY <3>1, <3>2, <3>3 DEF NamesOf
  <2> HIDE DEF had
  <2>5. had \subseteq NamesOf(ScanExisting(f)) /\ NamesOf(ScanExisting(f)) \subseteq had
    BY <2>2, <2>3, <2>4 DEF had
  <2> QED
    BY <2>5
<1> HIDE DEF had
<1>2. ASSUME NEW g, Sound(g, L) PROVE Only(g, V(g)) = Only(g, Aside(had))
  <2>1. g \in Seq(Line) /\ g \in Seq(L)
    BY <1>2, SoundTyped DEF Sound, Framed
  <2>2. \A i \in 1..Len(g) : g[i] \in Line /\ g[i] \in ToSet(g) /\ g[i].k # "new_header"
    <3>1. \A l \in L : l.k # "new_header"
      BY DEF Settled, Fresh
    <3> QED
      BY <2>1, <3>1 DEF ToSet
  <2>3. \A i \in 1..Len(g) : g[i] \in V(g) <=> g[i] \in Aside(had)
    BY <2>2 DEF Aside
  <2> HIDE DEF V
  <2> QED
    BY <2>1, <2>3, OnlyAgrees
<1>3. Sound(ApplyToConfig(f, adds), L)
  BY ApplySound
<1>4. Only(ApplyToConfig(f, adds), Aside(had)) = Only(f, Aside(had))
  BY <1>1, AsideKept
<1>5. Only(ApplyToConfig(f, adds), V(ApplyToConfig(f, adds))) = Only(f, V(f))
  BY <1>2, <1>3, <1>4
<1> QED
  BY <1>5 DEF OtherLines, Filter, V, had

\* A sync leaves alone what it has nothing to do with, whatever it adds: every
\* chain of a group there was, every marked line and every other setting of the
\* file is in the new one, in the same order.
THEOREM RestSafe == Spec => []RestKept
<1>1. Init => RestKept
  BY DEF Init, NoSync, RestKept
<1>2. FilesInv /\ RestKept /\ [Next]_vars => RestKept'
  <2> SUFFICES ASSUME FilesInv, RestKept, [Next]_vars, sync'.pc = "write" PROVE RestKept'
    BY DEF RestKept
  <2>1. CASE MoveAway
    <3>1. /\ sync.pc = "apply" /\ sync'.old = sync.old
          /\ sync'.new = ApplyToConfig(sync.old, sync.adds)
      BY <2>1 DEF MoveAway
    <3>2. /\ Sound(sync.old, LinesOf(sync.onTemplate)) /\ sync.adds \in Seq(Addition)
          /\ LinesOf(sync.onTemplate) \in {Settled, Fresh}
      BY <3>1 DEF FilesInv, LinesOf
    <3> QED
      BY <3>1, <3>2, RestIsKept DEF RestKept
  <2>2. CASE UNCHANGED sync
    BY <2>2 DEF RestKept
  <2>3. MoveAway \/ UNCHANGED sync
    <3>1. ~Query
      <4>1. Query => sync'.pc = "queried"
        BY DEF Query
      <4> QED
        BY <4>1
    <3>2. ~MakePlan /\ ~Write /\ ~Rendered /\ ~Generate /\ ~Crash
      BY DEF MakePlan, Write, Rendered, Generate, Crash, NoSync
    <3>3. ~RenderBySync /\ (EditEnv \/ RenderByHand \/ BackUpConfig \/ ReplaceConfig => UNCHANGED sync)
      BY DEF RenderBySync, EditEnv, RenderByHand, BackUpConfig, ReplaceConfig
    <3>4. Prune => UNCHANGED sync
      BY DEF Prune
    <3> QED
      BY <3>1, <3>2, <3>3, <3>4 DEF Next, vars
  <2> QED
    BY <2>1, <2>2, <2>3
<1>3. RenderInv /\ FilesInv /\ [Next]_vars => FilesInv'
  BY FilesStep
<1>4. IInv => RenderInv
  BY DEF IInv
<1> QED
  BY Invariance, FilesInitial, <1>1, <1>2, <1>3, <1>4, PTL DEF Spec

=============================================================================

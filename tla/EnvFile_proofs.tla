--------------------------- MODULE EnvFile_proofs ---------------------------
(***************************************************************************)
(* For every file, every set of variables and any number of updates: what  *)
(* the three writers of `.env` keep and what their readers find.           *)
(***************************************************************************)
EXTENDS EnvFile, FoldLemmas

-----------------------------------------------------------------------------
(* One variable is set. *)

\* `k=v`
Entry(k, v) == [form |-> "exact", key |-> k, val |-> v]

\* The line at p of g now says k = v, and the others are those of f; p is the
\* end of g, or a line of k that was there.
Sets(f, g, p, k, v) ==
  /\ g \in Seq(Line) /\ p \in 1..Len(g) /\ g[p] = Entry(k, v)
  /\ \A i \in 1..Len(f) : i # p => i \in 1..Len(g) /\ g[i] = f[i]
  /\ \A i \in 1..Len(g) : i # p => i \in 1..Len(f)
  /\ \/ Exact(f, k) = {} /\ p = Len(f) + 1 /\ p = Len(g)
     \/ p \in Live(f, k)

\* The lines a writer takes for k: all `KEY=` lines, and no commented one.
Takes(f, hits, k) == Exact(f, k) \subseteq hits /\ hits \subseteq Live(f, k)

\* The first and the last of some lines are among them.
LEMMA LeastIsMember ==
  ASSUME NEW n \in Nat, NEW s \in SUBSET (1..n), s # {}
  PROVE  Least(s) \in s
BY MinUpTo DEF Least

\* Most is the greatest of a finite set of numbers.
LEMMA MostIsGreatest ==
  ASSUME NEW n \in Nat, NEW s \in SUBSET (1..n), NEW p \in s, \A i \in s : i <= p
  PROVE  Most(s) = p
<1>1. p \in 1..n /\ \A j \in s : p >= j
  OBVIOUS
<1>2. Most(s) \in s /\ \A j \in s : Most(s) >= j
  BY <1>1 DEF Most
<1>3. Most(s) \in 1..n
  BY <1>2
<1> QED
  BY <1>1, <1>2, <1>3

\* SetFirst sets one line, whichever of the two tests found it.
LEMMA SetFirstSets ==
  ASSUME NEW f \in Seq(Line), NEW k \in Names, NEW v \in Values, NEW hits, Takes(f, hits, k)
  PROVE  /\ SetFirst(f, hits, k, v) \in Seq(Line)
         /\ \E p : Sets(f, SetFirst(f, hits, k, v), p, k, v)
<1> DEFINE g == SetFirst(f, hits, k, v)
<1>1. Entry(k, v) \in Line
  BY DEF Entry, Line
<1>2. CASE hits = {}
  <2>1. g = Append(f, Entry(k, v))
    BY <1>2 DEF SetFirst, Entry
  <2>2. g \in Seq(Line) /\ Len(g) = Len(f) + 1 /\ g[Len(f) + 1] = Entry(k, v)
    BY <1>1, <2>1
  <2>3. \A i \in 1..Len(f) : g[i] = f[i]
    BY <1>1, <2>1
  <2>4. Exact(f, k) = {}
    BY <1>2 DEF Takes
  <2> HIDE DEF g
  <2>5. Sets(f, g, Len(f) + 1, k, v)
    BY <2>2, <2>3, <2>4 DEF Sets
  <2> QED
    BY <2>2, <2>5 DEF g
<1>3. CASE hits # {}
  <2>1. hits \in SUBSET (1..Len(f)) /\ Len(f) \in Nat
    BY DEF Takes, Live
  <2>2. PICK p \in hits : p = Least(hits)
    BY <1>3, <2>1, LeastIsMember
  <2>3. g = [f EXCEPT ![p] = Entry(k, v)]
    BY <1>3, <2>2 DEF SetFirst, Entry
  <2>4. p \in 1..Len(f) /\ p \in Live(f, k)
    BY <2>1 DEF Takes
  <2>5. g \in Seq(Line) /\ Len(g) = Len(f) /\ g[p] = Entry(k, v)
    BY <1>1, <2>3, <2>4
  <2>6. \A i \in 1..Len(f) : i # p => g[i] = f[i]
    BY <2>3, <2>4
  <2> HIDE DEF g
  <2>7. Sets(f, g, p, k, v)
    BY <2>4, <2>5, <2>6 DEF Sets
  <2> QED
    BY <2>5, <2>7 DEF g
<1> QED
  BY <1>2, <1>3

\* The lines of the other variables are the ones that were there.
LEMMA SetsElsewhere ==
  ASSUME NEW f \in Seq(Line), NEW g, NEW p, NEW k, NEW v, Sets(f, g, p, k, v),
         NEW l, l # k
  PROVE  /\ Live(g, l) = Live(f, l)
         /\ \A i \in Live(f, l) : g[i] = f[i]
         /\ Loaded(g, l) = Loaded(f, l)
<1>1. g \in Seq(Line) /\ DOMAIN f = 1..Len(f) /\ DOMAIN g = 1..Len(g)
  BY DEF Sets
<1>2. g[p].key = k /\ (p \in 1..Len(f) => f[p].key = k)
  BY DEF Sets, Entry, Live
<1>3. ASSUME NEW i \in Live(g, l) PROVE i \in Live(f, l)
  <2>1. i \in 1..Len(g) /\ i # p /\ g[i].key = l /\ g[i].form # "comment"
    BY <1>1, <1>2 DEF Live
  <2>2. i \in 1..Len(f) /\ g[i] = f[i]
    BY <2>1 DEF Sets
  <2> QED
    BY <1>1, <2>1, <2>2 DEF Live
<1>4. ASSUME NEW i \in Live(f, l) PROVE i \in Live(g, l) /\ g[i] = f[i]
  <2>1. i \in 1..Len(f) /\ i # p /\ f[i].key = l /\ f[i].form # "comment"
    BY <1>1, <1>2 DEF Live
  <2>2. i \in 1..Len(g) /\ g[i] = f[i]
    BY <2>1 DEF Sets
  <2> QED
    BY <1>1, <2>1, <2>2 DEF Live
<1>5. Live(g, l) = Live(f, l)
  BY <1>3, <1>4
<1>6. Live(f, l) # {} => Most(Live(f, l)) \in Live(f, l)
  <2>1. SUFFICES ASSUME Live(f, l) # {} PROVE Most(Live(f, l)) \in Live(f, l)
    OBVIOUS
  <2>2. Live(f, l) \in SUBSET (1..Len(f)) /\ Len(f) \in Nat
    BY <1>1 DEF Live
  <2>3. Max(Live(f, l)) \in Live(f, l) /\ \A i \in Live(f, l) : i <= Max(Live(f, l))
    BY <2>1, <2>2, MaxUpTo
  <2> QED
    BY <2>2, <2>3, MostIsGreatest
<1> QED
  BY <1>4, <1>5, <1>6 DEF Loaded

\* A variable with one line at most is then read as it was set, without quotes.
LEMMA SetsReadsBack ==
  ASSUME NEW f \in Seq(Line), NEW g, NEW p, NEW k, NEW v, Sets(f, g, p, k, v),
         \A i, j \in Live(f, k) : i = j
  PROVE  Loaded(g, k) = Stripped(v)
<1>1. g \in Seq(Line) /\ DOMAIN f = 1..Len(f) /\ DOMAIN g = 1..Len(g) /\ Len(g) \in Nat
  BY DEF Sets
<1>2. p \in Live(g, k) /\ g[p].val = v
  <2>1. p \in 1..Len(g) /\ g[p] = Entry(k, v)
    BY DEF Sets
  <2>2. g[p].form = "exact" /\ g[p].key = k /\ g[p].val = v
    BY <2>1 DEF Entry
  <2> QED
    BY <1>1, <2>1, <2>2 DEF Live
<1>3. ASSUME NEW i \in Live(g, k) PROVE i <= p
  <2>1. i \in 1..Len(g) /\ g[i].key = k /\ g[i].form # "comment"
    BY <1>1 DEF Live
  <2>2. CASE p = Len(g)
    BY <2>1, <2>2
  <2>3. CASE p \in Live(f, k) /\ i # p
    <3>1. i \in 1..Len(f) /\ g[i] = f[i]
      BY <2>1, <2>3 DEF Sets
    <3>2. i \in Live(f, k)
      BY <1>1, <2>1, <3>1 DEF Live
    <3> QED
      BY <2>3, <3>2
  <2>4. CASE i = p
    BY <2>1, <2>4
  <2> QED
    BY <2>2, <2>3, <2>4 DEF Sets
<1>4. Live(g, k) \in SUBSET (1..Len(g))
  BY <1>1 DEF Live
<1>5. Most(Live(g, k)) = p
  BY <1>1, <1>2, <1>3, <1>4, MostIsGreatest
<1> QED
  BY <1>2, <1>5 DEF Loaded

-----------------------------------------------------------------------------
(* One writer, for a sequence of updates. *)

\* a holds the file before and after each update.
Writes(a, f, u) ==
  /\ a \in [0..Len(u) -> Seq(Line)] /\ a[0] = f
  /\ \A i \in 1..Len(u) : \E p : Sets(a[i - 1], a[i], p, u[i][1], u[i][2])

\* Update i, as a function of the file.
WriteSteps(u) ==
  [i \in 1..Len(u) |-> [g \in Seq(Line) |-> SetFirst(g, Owned(g, u[i][1]), u[i][1], u[i][2])]]

\* write_env and write_updates set one variable after the other.
LEMMA WriteEnvWrites ==
  ASSUME NEW f \in Seq(Line), NEW u \in Seq(Names \X Values)
  PROVE  \E a : Writes(a, f, u) /\ a[Len(u)] = WriteEnv(f, u)
<1>1. PICK n \in Nat : n = Len(u)
  OBVIOUS
<1> DEFINE T == Seq(Line)
           D == SUBSET (1..n)
           step == WriteSteps(u)
           After(g, m) == SetFirst(g, Owned(g, u[m][1]), u[m][1], u[m][2])
           Eq(h) == h = [x \in D |-> IF x = {} THEN f ELSE After(h[x \ {Max(x)}], Max(x))]
           fn == CHOOSE h : Eq(h)
<1>2. DOMAIN u = 1..n
  BY <1>1
<1>3. WriteEnv(f, u) = fn[1..n]
  BY <1>2 DEF WriteEnv, FoldLeft, MapThenFoldSet
<1>4. ASSUME NEW i \in 1..n, NEW g \in T
      PROVE  After(g, i) \in T /\ \E p : Sets(g, After(g, i), p, u[i][1], u[i][2])
  <2>1. u[i][1] \in Names /\ u[i][2] \in Values
    BY <1>1
  <2>2. Takes(g, Owned(g, u[i][1]), u[i][1])
    BY DEF Takes, Exact, Live, Owned, Line
  <2> QED
    BY <2>1, <2>2, SetFirstSets
<1>5. step \in [1..n -> [T -> T]]
  BY <1>1, <1>4 DEF WriteSteps
<1>6. \A i \in 1..n, g \in T : step[i][g] = After(g, i)
  BY <1>1 DEF WriteSteps
<1> HIDE DEF step, After, T
<1>7. PICK h \in [D -> T] : Folds(h, f, n, step)
  <2>1. f \in T
    BY DEF T
  <2> HIDE DEF D
  <2> QED
    BY <1>5, <2>1, FoldTable DEF D
<1>8. ASSUME NEW x \in D, x # {} PROVE Max(x) \in 1..n /\ x \ {Max(x)} \in D
  BY <1>8, MaxUpTo
<1>9. Eq(h)
  BY <1>7, <1>8, <1>6 DEF Folds
<1>10. Eq(fn)
  BY <1>9
<1> HIDE DEF fn
<1>11. Advances(fn, T, f, n, step)
  <2>1. fn[{}] = f
    BY <1>10
  <2>2. ASSUME NEW k \in 1..n, fn[1..(k - 1)] \in T PROVE fn[1..k] = step[k][fn[1..(k - 1)]]
    <3>1. 1..k \in D /\ 1..k # {} /\ Max(1..k) = k /\ (1..k) \ {k} = 1..(k - 1)
      BY FirstPositions
    <3>2. fn[1..k] = After(fn[1..(k - 1)], k)
      BY <3>1, <1>10
    <3> HIDE DEF D, Eq
    <3> QED
      BY <3>2, <2>2, <1>6
  <2> QED
    BY <2>1, <2>2 DEF Advances
<1>12. PICK a \in [0..n -> T] : Rows(a, f, n, step) /\ a[n] = fn[1..n]
  <2>1. f \in T
    BY DEF T
  <2> HIDE DEF D, Eq
  <2> QED
    BY <2>1, <1>5, <1>11, FoldRows
<1>13. Writes(a, f, u)
  <2>1. \A i \in 1..n : a[i - 1] \in T /\ a[i] = After(a[i - 1], i)
    BY <1>6, <1>12 DEF Rows
  <2>2. \A i \in 1..n : \E p : Sets(a[i - 1], a[i], p, u[i][1], u[i][2])
    BY <2>1, <1>4
  <2> QED
    BY <2>2, <1>1, <1>12 DEF Writes, Rows, T
<1> QED
  BY <1>1, <1>3, <1>12, <1>13

\* Update i, as a function of the file.
SetSteps(u) ==
  [i \in 1..Len(u) |-> [g \in Seq(Line) |-> SetFirst(g, Exact(g, u[i][1]), u[i][1], u[i][2])]]

\* So does onboard.py.
LEMMA SetValuesWrites ==
  ASSUME NEW f \in Seq(Line), NEW u \in Seq(Names \X Values)
  PROVE  \E a : Writes(a, f, u) /\ a[Len(u)] = SetValues(f, u)
<1>1. PICK n \in Nat : n = Len(u)
  OBVIOUS
<1> DEFINE T == Seq(Line)
           D == SUBSET (1..n)
           step == SetSteps(u)
           After(g, m) == SetFirst(g, Exact(g, u[m][1]), u[m][1], u[m][2])
           Eq(h) == h = [x \in D |-> IF x = {} THEN f ELSE After(h[x \ {Max(x)}], Max(x))]
           fn == CHOOSE h : Eq(h)
<1>2. DOMAIN u = 1..n
  BY <1>1
<1>3. SetValues(f, u) = fn[1..n]
  BY <1>2 DEF SetValues, FoldLeft, MapThenFoldSet
<1>4. ASSUME NEW i \in 1..n, NEW g \in T
      PROVE  After(g, i) \in T /\ \E p : Sets(g, After(g, i), p, u[i][1], u[i][2])
  <2>1. u[i][1] \in Names /\ u[i][2] \in Values
    BY <1>1
  <2>2. Takes(g, Exact(g, u[i][1]), u[i][1])
    BY DEF Takes, Exact, Live, Owned, Line
  <2> QED
    BY <2>1, <2>2, SetFirstSets
<1>5. step \in [1..n -> [T -> T]]
  BY <1>1, <1>4 DEF SetSteps
<1>6. \A i \in 1..n, g \in T : step[i][g] = After(g, i)
  BY <1>1 DEF SetSteps
<1> HIDE DEF step, After, T
<1>7. PICK h \in [D -> T] : Folds(h, f, n, step)
  <2>1. f \in T
    BY DEF T
  <2> HIDE DEF D
  <2> QED
    BY <1>5, <2>1, FoldTable DEF D
<1>8. ASSUME NEW x \in D, x # {} PROVE Max(x) \in 1..n /\ x \ {Max(x)} \in D
  BY <1>8, MaxUpTo
<1>9. Eq(h)
  BY <1>7, <1>8, <1>6 DEF Folds
<1>10. Eq(fn)
  BY <1>9
<1> HIDE DEF fn
<1>11. Advances(fn, T, f, n, step)
  <2>1. fn[{}] = f
    BY <1>10
  <2>2. ASSUME NEW k \in 1..n, fn[1..(k - 1)] \in T PROVE fn[1..k] = step[k][fn[1..(k - 1)]]
    <3>1. 1..k \in D /\ 1..k # {} /\ Max(1..k) = k /\ (1..k) \ {k} = 1..(k - 1)
      BY FirstPositions
    <3>2. fn[1..k] = After(fn[1..(k - 1)], k)
      BY <3>1, <1>10
    <3> HIDE DEF D, Eq
    <3> QED
      BY <3>2, <2>2, <1>6
  <2> QED
    BY <2>1, <2>2 DEF Advances
<1>12. PICK a \in [0..n -> T] : Rows(a, f, n, step) /\ a[n] = fn[1..n]
  <2>1. f \in T
    BY DEF T
  <2> HIDE DEF D, Eq
  <2> QED
    BY <2>1, <1>5, <1>11, FoldRows
<1>13. Writes(a, f, u)
  <2>1. \A i \in 1..n : a[i - 1] \in T /\ a[i] = After(a[i - 1], i)
    BY <1>6, <1>12 DEF Rows
  <2>2. \A i \in 1..n : \E p : Sets(a[i - 1], a[i], p, u[i][1], u[i][2])
    BY <2>1, <1>4
  <2> QED
    BY <2>2, <1>1, <1>12 DEF Writes, Rows, T
<1> QED
  BY <1>1, <1>3, <1>12, <1>13

-----------------------------------------------------------------------------
(* What the updates leave. *)

\* No variable has two lines.
OneLine(f) == \A k \in Names : \A i, j \in Live(f, k) : i = j

\* Counting the lines of a variable, as the runs do, says the same.
LEMMA UniqueIsOneLine ==
  ASSUME NEW f \in Seq(Line)
  PROVE  Unique(f) <=> OneLine(f)
<1>1. ASSUME NEW k \in Names PROVE IsFiniteSet(Live(f, k))
  <2>1. IsFiniteSet(1..Len(f))
    BY FS_Interval
  <2>2. Live(f, k) \in SUBSET (1..Len(f))
    BY DEF Live
  <2> QED
    BY <2>1, <2>2, FS_Subset
<1>2. ASSUME NEW k \in Names, Cardinality(Live(f, k)) <= 1, NEW i \in Live(f, k), NEW j \in Live(f, k)
      PROVE  i = j
  <2>1. Cardinality(Live(f, k)) \in Nat /\ Cardinality(Live(f, k)) # 0
    BY <1>1, FS_CardinalityType, FS_EmptySet
  <2>2. Cardinality(Live(f, k)) = 1
    BY <1>2, <2>1
  <2> QED
    BY <1>1, <2>2, FS_Singleton
<1>3. ASSUME NEW k \in Names, \A i, j \in Live(f, k) : i = j
      PROVE  Cardinality(Live(f, k)) <= 1
  <2>1. CASE Live(f, k) = {}
    BY <2>1, FS_EmptySet
  <2>2. CASE Live(f, k) # {}
    <3>1. PICK i : Live(f, k) = {i}
      BY <1>3, <2>2
    <3>2. Cardinality({i}) = 1
      BY FS_Singleton
    <3> QED
      BY <3>1, <3>2
  <2> QED
    BY <2>1, <2>2
<1> QED
  BY <1>2, <1>3 DEF Unique, OneLine

\* Comments and the lines of other variables stay in place.
LEMMA SetsKeepsLines ==
  ASSUME NEW f \in Seq(Line), NEW g, NEW p, NEW k, NEW v, Sets(f, g, p, k, v),
         NEW i \in 1..Len(f), f[i].form = "comment" \/ f[i].key # k
  PROVE  i \in 1..Len(g) /\ g[i] = f[i]
<1>1. i # p
  BY DEF Sets, Live
<1> QED
  BY <1>1 DEF Sets

\* A tidy file stays tidy: the line that is set is the one there was.
LEMMA SetsKeepsTidy ==
  ASSUME NEW f \in Seq(Line), NEW g, NEW p, NEW k \in Names, NEW v, Sets(f, g, p, k, v), Tidy(f)
  PROVE  Tidy(g)
<1>1. /\ g \in Seq(Line) /\ DOMAIN f = 1..Len(f) /\ DOMAIN g = 1..Len(g)
      /\ p \in 1..Len(g) /\ g[p] = Entry(k, v)
  BY DEF Sets
<1>2. OneLine(f) /\ \A i \in 1..Len(f) : f[i].form # "spaced"
  BY <1>1, UniqueIsOneLine DEF Tidy
<1>3. \A i \in 1..Len(g) : i # p => i \in 1..Len(f) /\ g[i] = f[i]
  BY DEF Sets
<1>4. ASSUME NEW i \in 1..Len(g) PROVE g[i].form # "spaced"
  <2>1. CASE i = p
    BY <2>1, <1>1 DEF Entry
  <2>2. CASE i # p
    BY <2>2, <1>2, <1>3
  <2> QED
    BY <2>1, <2>2
<1>5. ASSUME NEW i \in Live(g, k) PROVE i = p
  <2>1. SUFFICES ASSUME i # p PROVE FALSE
    OBVIOUS
  <2>2. i \in 1..Len(f) /\ f[i].key = k /\ f[i].form # "comment"
    BY <2>1, <1>1, <1>3 DEF Live
  <2>3. f[i].form \in {"exact", "spaced", "comment"}
    <3>1. f[i] \in Line
      BY <2>2
    <3> QED
      BY <3>1 DEF Line
  <2>4. i \in Live(f, k) /\ i \in Exact(f, k)
    BY <2>2, <2>3, <1>1, <1>2 DEF Live, Exact
  <2>5. p \in Live(f, k)
    BY <2>4 DEF Sets
  <2> QED
    BY <2>1, <2>4, <2>5, <1>2 DEF OneLine
<1>6. ASSUME NEW l \in Names, NEW i \in Live(g, l), NEW j \in Live(g, l) PROVE i = j
  <2>1. CASE l = k
    BY <2>1, <1>5
  <2>2. CASE l # k
    <3>1. Live(g, l) = Live(f, l)
      BY <2>2, SetsElsewhere
    <3> QED
      BY <3>1, <1>2 DEF OneLine
  <2> QED
    BY <2>1, <2>2
<1>7. Unique(g)
  BY <1>1, <1>6, UniqueIsOneLine DEF OneLine
<1> QED
  BY <1>1, <1>4, <1>7 DEF Tidy

\* The variables that u sets.
KeysOf(u) == {u[i][1] : i \in 1..Len(u)}

\* The files in between are files.
LEMMA WritesTyped ==
  ASSUME NEW f \in Seq(Line), NEW u \in Seq(Names \X Values), NEW a, Writes(a, f, u)
  PROVE  /\ a[Len(u)] \in Seq(Line)
         /\ \A i \in 1..Len(u) : a[i - 1] \in Seq(Line) /\ u[i][1] \in Names /\ u[i][2] \in Values
<1>1. Len(u) \in Nat
  OBVIOUS
<1>2. Len(u) \in 0..Len(u) /\ \A i \in 1..Len(u) : i - 1 \in 0..Len(u)
  BY <1>1
<1>3. \A i \in 0..Len(u) : a[i] \in Seq(Line)
  BY DEF Writes
<1>4. ASSUME NEW i \in 1..Len(u) PROVE u[i][1] \in Names /\ u[i][2] \in Values
  <2>1. u[i] \in Names \X Values
    OBVIOUS
  <2> QED
    BY <2>1
<1> QED
  BY <1>2, <1>3, <1>4

\* What one update keeps, all of them keep.
LEMMA WritesKeepLines ==
  ASSUME NEW f \in Seq(Line), NEW u \in Seq(Names \X Values), NEW a, Writes(a, f, u),
         NEW i \in 1..Len(f), f[i].form = "comment" \/ f[i].key \notin KeysOf(u)
  PROVE  i \in 1..Len(a[Len(u)]) /\ a[Len(u)][i] = f[i]
<1> DEFINE S == {j \in 0..Len(u) : i \in 1..Len(a[j]) /\ a[j][i] = f[i]}
<1>1. 0 \in S /\ Len(u) \in Nat
  BY DEF Writes
<1>2. ASSUME NEW j \in 1..Len(u), j - 1 \in S PROVE j \in S
  <2>1. PICK p : Sets(a[j - 1], a[j], p, u[j][1], u[j][2])
    BY DEF Writes
  <2>2. a[j - 1] \in Seq(Line) /\ i \in 1..Len(a[j - 1]) /\ a[j - 1][i] = f[i]
    BY <1>2, WritesTyped
  <2>3. f[i].form = "comment" \/ f[i].key # u[j][1]
    BY DEF KeysOf
  <2>4. i \in 1..Len(a[j]) /\ a[j][i] = a[j - 1][i]
    BY <2>1, <2>2, <2>3, SetsKeepsLines
  <2> QED
    BY <2>2, <2>4
<1>3. 0..Len(u) \subseteq S
  <2> HIDE DEF S
  <2> QED
    BY <1>1, <1>2, UpTo
<1> QED
  BY <1>1, <1>3

\* A sequence of updates leaves a tidy file tidy.
LEMMA WritesKeepTidy ==
  ASSUME NEW f \in Seq(Line), NEW u \in Seq(Names \X Values), NEW a, Writes(a, f, u), Tidy(f)
  PROVE  Tidy(a[Len(u)])
<1> DEFINE S == {j \in 0..Len(u) : Tidy(a[j])}
<1>1. 0 \in S /\ Len(u) \in Nat
  BY DEF Writes
<1>2. ASSUME NEW j \in 1..Len(u), j - 1 \in S PROVE j \in S
  <2>1. PICK p : Sets(a[j - 1], a[j], p, u[j][1], u[j][2])
    BY DEF Writes
  <2>2. a[j - 1] \in Seq(Line) /\ u[j][1] \in Names
    BY WritesTyped
  <2> QED
    BY <1>2, <2>1, <2>2, SetsKeepsTidy
<1>3. 0..Len(u) \subseteq S
  <2> HIDE DEF S
  <2> QED
    BY <1>1, <1>2, UpTo
<1> QED
  BY <1>1, <1>3

\* The variables that are not among the first j updates are read as before.
LEMMA WritesElsewhere ==
  ASSUME NEW f \in Seq(Line), NEW u \in Seq(Names \X Values), NEW a, Writes(a, f, u),
         NEW n \in 0..Len(u), NEW k, \A i \in 1..n : u[i][1] # k
  PROVE  Live(a[n], k) = Live(f, k) /\ Loaded(a[n], k) = Loaded(f, k)
<1> DEFINE S == {j \in 0..n : Live(a[j], k) = Live(f, k) /\ Loaded(a[j], k) = Loaded(f, k)}
<1>1. 0 \in S /\ n \in Nat
  BY DEF Writes
<1>2. ASSUME NEW j \in 1..n, j - 1 \in S PROVE j \in S
  <2>1. j \in 1..Len(u)
    OBVIOUS
  <2>2. PICK p : Sets(a[j - 1], a[j], p, u[j][1], u[j][2])
    BY <2>1 DEF Writes
  <2>3. a[j - 1] \in Seq(Line) /\ u[j][1] # k
    BY <2>1, WritesTyped
  <2>4. Live(a[j], k) = Live(a[j - 1], k) /\ Loaded(a[j], k) = Loaded(a[j - 1], k)
    BY <2>2, <2>3, SetsElsewhere
  <2> QED
    BY <1>2, <2>4
<1>3. 0..n \subseteq S
  <2> HIDE DEF S
  <2> QED
    BY <1>1, <1>2, UpTo
<1> QED
  BY <1>1, <1>3

\* Every variable that is set once is read as it was set.
LEMMA WritesReadBackEach ==
  ASSUME NEW f \in Seq(Line), NEW u \in Seq(Names \X Values), NEW a, Writes(a, f, u),
         Distinct(u), OneLine(f), NEW i \in 1..Len(u)
  PROVE  Loaded(a[Len(u)], u[i][1]) = Stripped(u[i][2])
<1> DEFINE S == {j \in 0..Len(u) : i <= j => Loaded(a[j], u[i][1]) = Stripped(u[i][2])}
<1>1. 0 \in S /\ Len(u) \in Nat
  OBVIOUS
<1>2. ASSUME NEW j \in 1..Len(u), j - 1 \in S, i <= j PROVE Loaded(a[j], u[i][1]) = Stripped(u[i][2])
  <2>1. PICK p : Sets(a[j - 1], a[j], p, u[j][1], u[j][2])
    BY DEF Writes
  <2>2. a[j - 1] \in Seq(Line) /\ u[j][1] \in Names /\ DOMAIN u = 1..Len(u)
    BY WritesTyped
  <2>3. CASE i = j
    <3>1. \A m \in 1..(j - 1) : m \in DOMAIN u /\ m # j
      BY <2>2
    <3>2. \A m \in 1..(j - 1) : u[m][1] # u[j][1]
      BY <2>2, <3>1 DEF Distinct
    <3>3. Live(a[j - 1], u[j][1]) = Live(f, u[j][1])
      <4>1. j - 1 \in 0..Len(u)
        OBVIOUS
      <4> QED
        BY <4>1, <3>2, WritesElsewhere
    <3>4. \A x, y \in Live(a[j - 1], u[j][1]) : x = y
      BY <2>2, <3>3 DEF OneLine
    <3> QED
      BY <2>1, <2>2, <2>3, <3>4, SetsReadsBack
  <2>4. CASE i # j
    <3>1. u[i][1] # u[j][1]
      BY <2>2, <2>4 DEF Distinct
    <3>2. Loaded(a[j], u[i][1]) = Loaded(a[j - 1], u[i][1])
      BY <2>1, <2>2, <3>1, SetsElsewhere
    <3>3. i <= j - 1
      BY <1>2, <2>4
    <3> QED
      BY <1>2, <3>2, <3>3
  <2> QED
    BY <2>3, <2>4
<1>3. \A j \in 1..Len(u) : j - 1 \in S => j \in S
  BY <1>2
<1>4. 0..Len(u) \subseteq S
  <2> HIDE DEF S
  <2> QED
    BY <1>1, <1>3, UpTo
<1> QED
  BY <1>1, <1>4

-----------------------------------------------------------------------------
(* What every writer does. *)

\* The updates u turned f into g.
Written(f, g, u) ==
  /\ g \in Seq(Line)
  /\ Tidy(f) => Tidy(g)
  /\ \A i \in 1..Len(f) : f[i].form = "comment" \/ f[i].key \notin KeysOf(u) =>
       i \in 1..Len(g) /\ g[i] = f[i]
  /\ OneLine(f) => \A i \in 1..Len(u) : Loaded(g, u[i][1]) = Stripped(u[i][2])
  /\ \A k : k \notin KeysOf(u) => Loaded(g, k) = Loaded(f, k)

\* The above in one statement.
LEMMA WritesWritten ==
  ASSUME NEW f \in Seq(Line), NEW u \in Seq(Names \X Values), Distinct(u),
         NEW a, Writes(a, f, u), NEW g, a[Len(u)] = g
  PROVE  Written(f, g, u)
<1>1. g \in Seq(Line)
  BY WritesTyped
<1>2. Tidy(f) => Tidy(g)
  BY WritesKeepTidy
<1>3. ASSUME NEW i \in 1..Len(f), f[i].form = "comment" \/ f[i].key \notin KeysOf(u)
      PROVE  i \in 1..Len(g) /\ g[i] = f[i]
  BY <1>3, WritesKeepLines
<1>4. ASSUME OneLine(f), NEW i \in 1..Len(u) PROVE Loaded(g, u[i][1]) = Stripped(u[i][2])
  BY <1>4, WritesReadBackEach
<1>5. ASSUME NEW k, k \notin KeysOf(u) PROVE Loaded(g, k) = Loaded(f, k)
  <2>1. \A i \in 1..Len(u) : u[i][1] # k
    BY <1>5 DEF KeysOf
  <2>2. Len(u) \in 0..Len(u)
    OBVIOUS
  <2> QED
    BY <2>1, <2>2, WritesElsewhere
<1> QED
  BY <1>1, <1>2, <1>3, <1>4, <1>5 DEF Written

\* A provider's variable is given a key, a secret a generated value, or either
\* of them what an operator typed into onboard.py.
Entered(by, u) ==
  \A i \in 1..Len(u) :
    \/ u[i][1] \in Editable /\ u[i][2] \in Keys
    \/ u[i][1] \in ToSet(GENERATED) /\ u[i][2] \in Fresh
    \/ by = "onboard" /\ u[i][1] \in Names /\ u[i][2] \in Typed

\* Such updates are updates.
LEMMA EnteredTyped ==
  ASSUME NEW by, NEW u, NEW n \in Nat, NEW a, NEW b, u = [i \in 1..n |-> <<a[i], b[i]>>],
         Entered(by, u)
  PROVE  u \in Seq(Names \X Values)
<1>1. Len(u) = n
  OBVIOUS
<1>2. ASSUME NEW i \in 1..n PROVE u[i] \in Names \X Values
  <2>1. u[i] = <<a[i], b[i]>> /\ i \in 1..Len(u)
    BY <1>1
  <2>2. a[i] \in Names /\ b[i] \in Values
    BY <2>1 DEF Entered, Names, Values, Typed
  <2> QED
    BY <2>1, <2>2
<1> QED
  BY <1>2

\* What is missing is set once: generated, or typed into onboard.py.
LEMMA MissingOnce ==
  ASSUME NEW W, NEW V, NEW by, V \subseteq Fresh \/ (by = "onboard" /\ V \subseteq Fresh \union Typed),
         NEW u \in Settings(Only(GENERATED, W), V)
  PROVE  /\ u \in Seq(Names \X Values) /\ Distinct(u) /\ Entered(by, u)
         /\ KeysOf(u) \subseteq W \cap ToSet(GENERATED)
<1>1. GENERATED \in Seq(ToSet(GENERATED)) /\ IsInjective(GENERATED)
  BY EnvFileAssumption
<1> DEFINE ks == Only(GENERATED, W)
<1>2. DOMAIN GENERATED = 1..Len(GENERATED)
  BY <1>1
<1>3. \A i, j \in 1..Len(GENERATED) : GENERATED[i] = GENERATED[j] => i = j
  BY <1>1, <1>2 DEF IsInjective
<1>4. /\ ks \in Seq(ToSet(GENERATED) \cap W)
      /\ \A i, j \in 1..Len(ks) : ks[i] = ks[j] => i = j
  BY <1>1, <1>3, OnlyKeeps
<1> HIDE DEF ks
<1>5. PICK n \in Nat : n = Len(ks) /\ DOMAIN ks = 1..n
  BY <1>4
<1>6. PICK g \in [1..n -> V] : u = [i \in 1..n |-> <<ks[i], g[i]>>]
  BY <1>5 DEF Settings, ks
<1>7. Len(u) = n /\ DOMAIN u = 1..n /\ \A i \in 1..n : u[i][1] = ks[i] /\ u[i][2] \in V
  BY <1>6
<1>8. \A i \in 1..n : ks[i] \in ToSet(GENERATED) \cap W
  BY <1>4, <1>5
<1>9. Distinct(u)
  BY <1>4, <1>5, <1>7 DEF Distinct
<1>10. Entered(by, u) /\ KeysOf(u) \subseteq W \cap ToSet(GENERATED)
  BY <1>7, <1>8 DEF Entered, KeysOf, Names
<1>11. u \in Seq(Names \X Values)
  BY <1>6, <1>10, EnteredTyped
<1> QED
  BY <1>9, <1>10, <1>11

\* What `validate` lets through are entered keys.
LEMMA UpdatesEntered ==
  ASSUME NEW u \in Updates, NEW by
  PROVE  u \in Seq(Names \X Values) /\ Entered(by, u) /\ KeysOf(u) \subseteq Editable
<1>1. CASE \E k \in Editable, v \in Keys : u = <<<<k, v>>>>
  BY <1>1 DEF Entered, KeysOf, Names, Values
<1>2. CASE \E k \in Editable, v \in Keys, l \in Editable, w \in Keys : u = <<<<k, v>>, <<l, w>>>>
  BY <1>2 DEF Entered, KeysOf, Names, Values
<1> QED
  BY <1>1, <1>2 DEF Updates

-----------------------------------------------------------------------------
(* Steps. *)

\* A writer, `by`, made the updates u; a secret it generated was missing.
Step(by, u) ==
  /\ by \in {"page", "env-init", "onboard"}
  /\ u \in Seq(Names \X Values) /\ Distinct(u) /\ Entered(by, u)
  /\ Written(file, file', u) /\ Wrote(by, u)
  /\ Tidy(file) => \A k \in KeysOf(u) \cap ToSet(GENERATED) : Loaded(file, k) \in Unset

\* In a tidy file onboard.py finds what every other reader finds.
LEMMA TidyGet ==
  ASSUME NEW f \in Seq(Line), Tidy(f), NEW k \in Names
  PROVE  Get(f, k) = Loaded(f, k)
<1>1. Exact(f, k) = Live(f, k)
  <2>1. ASSUME NEW i \in 1..Len(f) PROVE f[i].form = "exact" <=> f[i].form # "comment"
    <3>1. f[i] \in Line /\ f[i].form # "spaced"
      BY DEF Tidy
    <3> QED
      BY <3>1 DEF Line
  <2> QED
    BY <2>1 DEF Exact, Live
<1>2. CASE Live(f, k) # {}
  <2>1. \A i, j \in Live(f, k) : i = j
    BY UniqueIsOneLine DEF Tidy, OneLine
  <2>2. PICK i : Live(f, k) = {i}
    BY <1>2, <2>1
  <2>3. i \in 1..Len(f)
    BY <2>2 DEF Live
  <2>4. Least({i}) = i /\ Most({i}) = i
    BY <2>3 DEF Least, Most
  <2> QED
    BY <1>1, <1>2, <2>2, <2>4 DEF Get, Loaded
<1> QED
  BY <1>1, <1>2 DEF Get, Loaded

\* Each of the three writers takes such a step.
LEMMA PageSteps ==
  ASSUME file \in Seq(Line), NEW u \in Updates, Page(u)
  PROVE  Step("page", u)
<1>1. u \in Seq(Names \X Values) /\ Entered("page", u) /\ KeysOf(u) \subseteq Editable /\ Distinct(u)
  BY UpdatesEntered DEF Page
<1>2. Written(file, file', u)
  <2>1. PICK a : Writes(a, file, u) /\ a[Len(u)] = WriteEnv(file, u)
    BY <1>1, WriteEnvWrites
  <2> QED
    BY <1>1, <2>1, WritesWritten DEF Page
<1>3. KeysOf(u) \cap ToSet(GENERATED) = {}
  BY <1>1, EnvFileAssumption
<1> QED
  BY <1>1, <1>2, <1>3 DEF Step, Page

\* A run of env-init as a Step.
LEMMA EnvInitSteps ==
  ASSUME file \in Seq(Line), EnvInit
  PROVE  \E u : Step("env-init", u)
<1> DEFINE W == {k \in Names : NeedsGeneration(Loaded(file, k))}
<1>1. PICK u \in Settings(Only(GENERATED, W), Fresh) :
        file' = WriteEnv(file, u) /\ Wrote("env-init", u)
  BY DEF EnvInit
<1>2. /\ u \in Seq(Names \X Values) /\ Distinct(u) /\ Entered("env-init", u)
      /\ KeysOf(u) \subseteq W \cap ToSet(GENERATED)
  <2> HIDE DEF W
  <2> QED
    BY <1>1, MissingOnce
<1>3. Written(file, file', u)
  <2>1. PICK a : Writes(a, file, u) /\ a[Len(u)] = WriteEnv(file, u)
    BY <1>2, WriteEnvWrites
  <2> QED
    BY <1>1, <1>2, <2>1, WritesWritten
<1>4. \A k \in KeysOf(u) : Loaded(file, k) \in Unset
  BY <1>2 DEF NeedsGeneration
<1>5. Step("env-init", u)
  BY <1>1, <1>2, <1>3, <1>4 DEF Step
<1> QED
  BY <1>5

\* A save of onboard.py as a Step.
LEMMA OnboardSteps ==
  ASSUME file \in Seq(Line), Onboard
  PROVE  \E u : Step("onboard", u)
<1> DEFINE W == {k \in Names : NeedsGeneration(Get(file, k))}
<1>1. PICK u \in Settings(Only(GENERATED, W), Answers), e \in Edits :
        file' = SetValues(file, u \o e) /\ Wrote("onboard", u \o e)
  BY DEF Onboard
<1>2. /\ u \in Seq(Names \X Values) /\ Distinct(u) /\ Entered("onboard", u)
      /\ KeysOf(u) \subseteq W \cap ToSet(GENERATED)
  <2>1. Answers \subseteq Fresh \union Typed
    BY DEF Answers
  <2> HIDE DEF W
  <2> QED
    BY <1>1, <2>1, MissingOnce
<1>3. /\ e \in Seq(Names \X Values) /\ Entered("onboard", e) /\ KeysOf(e) \subseteq Editable
      /\ Len(e) \in 0..1
  <2>1. CASE e = <<>>
    BY <2>1 DEF Entered, KeysOf
  <2>2. CASE \E k \in Editable, v \in Typed : e = <<<<k, v>>>>
    BY <2>2 DEF Entered, KeysOf, Names, Values, Typed
  <2> QED
    BY <2>1, <2>2 DEF Edits
<1> DEFINE b == u \o e
<1>4. /\ b \in Seq(Names \X Values) /\ Len(b) = Len(u) + Len(e)
      /\ \A i \in 1..Len(b) : b[i] = IF i <= Len(u) THEN u[i] ELSE e[i - Len(u)]
      /\ Len(u) \in Nat
  BY <1>2, <1>3
<1>5. ASSUME NEW i \in 1..Len(b)
      PROVE  \/ i \in 1..Len(u) /\ b[i] = u[i]
             \/ i = Len(u) + 1 /\ Len(e) = 1 /\ b[i] = e[1]
  BY <1>3, <1>4
<1> HIDE DEF b
<1>6. Entered("onboard", b)
  BY <1>2, <1>3, <1>5 DEF Entered
<1>7. KeysOf(b) \subseteq KeysOf(u) \union Editable
  BY <1>3, <1>5 DEF KeysOf
<1>8. Distinct(b)
  <2>1. ASSUME NEW i \in 1..Len(b), NEW j \in 1..Len(b), i < j, b[i][1] = b[j][1] PROVE FALSE
    <3>1. i \in 1..Len(u) /\ b[i] = u[i]
      BY <2>1, <1>3, <1>4, <1>5
    <3>2. CASE j \in 1..Len(u) /\ b[j] = u[j]
      <4>1. i \in DOMAIN u /\ j \in DOMAIN u /\ u[i][1] = u[j][1]
        BY <2>1, <3>1, <3>2, <1>2
      <4>2. i = j
        BY <4>1, <1>2 DEF Distinct
      <4>3. i # j
        BY <2>1, <1>4
      <4> QED
        BY <4>2, <4>3
    <3>3. CASE Len(e) = 1 /\ b[j] = e[1]
      <4>1. u[i][1] \in ToSet(GENERATED) /\ e[1][1] \in Editable
        BY <3>1, <3>3, <1>2, <1>3 DEF KeysOf
      <4> QED
        BY <2>1, <3>1, <3>3, <4>1, EnvFileAssumption
    <3> QED
      BY <3>2, <3>3, <1>5
  <2>2. DOMAIN b = 1..Len(b) /\ Len(b) \in Nat
    BY <1>4
  <2>3. ASSUME NEW i \in 1..Len(b), NEW j \in 1..Len(b), b[i][1] = b[j][1] PROVE i = j
    <3>1. ~(i < j) /\ ~(j < i)
      BY <2>1, <2>3
    <3> QED
      BY <3>1
  <2> QED
    BY <2>2, <2>3 DEF Distinct
<1>9. Written(file, file', b)
  <2>1. PICK a : Writes(a, file, b) /\ a[Len(b)] = SetValues(file, b)
    BY <1>4, SetValuesWrites
  <2> QED
    BY <1>1, <1>4, <1>8, <2>1, WritesWritten DEF b
<1>10. ASSUME Tidy(file), NEW k \in KeysOf(b) \cap ToSet(GENERATED) PROVE Loaded(file, k) \in Unset
  <2>1. k \in KeysOf(u)
    BY <1>7, EnvFileAssumption
  <2>2. k \in Names /\ Get(file, k) \in Unset
    BY <2>1, <1>2 DEF NeedsGeneration
  <2> QED
    BY <1>10, <2>2, TidyGet
<1>11. Step("onboard", b)
  BY <1>1, <1>4, <1>6, <1>8, <1>9, <1>10 DEF Step, b
<1> QED
  BY <1>11

\* Every step of the specification is a Step.
LEMMA NextSteps ==
  ASSUME file \in Seq(Line), Next
  PROVE  \E by, u : Step(by, u)
BY PageSteps, EnvInitSteps, OnboardSteps DEF Next

\* What last says of the updates.
LEMMA WroteSet ==
  ASSUME NEW by, NEW u \in Seq(Names \X Values), Distinct(u), Wrote(by, u)
  PROVE  /\ last'.by = by /\ DOMAIN last'.set = KeysOf(u)
         /\ \A i \in 1..Len(u) : last'.set[u[i][1]] = u[i][2]
<1>1. DOMAIN u = 1..Len(u)
  OBVIOUS
<1> DEFINE pick(k) == CHOOSE i \in DOMAIN u : u[i][1] = k
<1>2. ASSUME NEW i \in 1..Len(u) PROVE pick(u[i][1]) = i
  BY <1>1 DEF Distinct
<1>3. last' = [by |-> by, set |-> [k \in KeysOf(u) |-> u[pick(k)][2]]]
  BY <1>1 DEF Wrote, KeysOf
<1> HIDE DEF pick
<1>4. last'.by = by /\ last'.set = [k \in KeysOf(u) |-> u[pick(k)][2]]
  BY <1>3
<1>5. \A i \in 1..Len(u) : u[i][1] \in KeysOf(u)
  BY DEF KeysOf
<1> QED
  BY <1>2, <1>4, <1>5

-----------------------------------------------------------------------------
(* Theorems. *)

\* The lines stay lines, and a writer sets providers' variables to keys and
\* secrets to generated values: no writer stores one as the other, but for what
\* an operator types into onboard.py.
THEOREM TypeCorrect == Spec => []TypeOK
<1>1. Init => TypeOK
  <2> SUFFICES ASSUME Init PROVE TypeOK
    OBVIOUS
  <2>1. file \in Seq(Line) /\ last.by = "nobody" /\ last.set = [k \in {} |-> ""]
    BY EnvFileAssumption DEF Init
  <2>2. DOMAIN last.set = {}
    BY <2>1
  <2> QED
    BY <2>1, <2>2 DEF TypeOK
<1>2. TypeOK /\ [Next]_vars => TypeOK'
  <2> SUFFICES ASSUME TypeOK, [Next]_vars PROVE TypeOK'
    OBVIOUS
  <2>1. CASE Next
    <3>1. PICK by, u : Step(by, u)
      BY <2>1, NextSteps DEF TypeOK
    <3>2. /\ last'.by = by /\ DOMAIN last'.set = KeysOf(u)
          /\ \A i \in 1..Len(u) : last'.set[u[i][1]] = u[i][2]
      BY <3>1, WroteSet DEF Step
    <3>3. file' \in Seq(Line) /\ by \in {"page", "env-init", "onboard"}
      BY <3>1 DEF Step, Written
    <3>4. ASSUME NEW k \in KeysOf(u)
          PROVE  \/ last'.set[k] \in IF k \in Editable THEN Keys ELSE Fresh
                 \/ by = "onboard" /\ last'.set[k] \in Typed
      <4>1. PICK i \in 1..Len(u) : k = u[i][1]
        BY DEF KeysOf
      <4>2. Entered(by, u)
        BY <3>1 DEF Step
      <4> QED
        BY <4>1, <4>2, <3>2, EnvFileAssumption DEF Entered
    <3> QED
      BY <3>2, <3>3, <3>4 DEF TypeOK
  <2>2. CASE UNCHANGED vars
    BY <2>2 DEF TypeOK, vars
  <2> QED
    BY <2>1, <2>2
<1> QED
  BY <1>1, <1>2, PTL DEF Spec

\* A tidy file stays tidy, whoever writes it.
THEOREM TidyFilesStayTidy == Spec => TidyKept
<1>1. TypeOK /\ [Next]_vars => [Tidy(file) => Tidy(file')]_vars
  <2>1. ASSUME TypeOK, Next, Tidy(file) PROVE Tidy(file')
    <3>1. PICK by, u : Step(by, u)
      BY <2>1, NextSteps DEF TypeOK
    <3> QED
      BY <2>1, <3>1 DEF Step, Written
  <2> QED
    BY <2>1
<1> QED
  BY <1>1, TypeCorrect, PTL DEF Spec, TidyKept

\* What the page and env-init set is what every reader loads, what onboard.py
\* sets is loaded without its quotes, and each leaves the comments and the lines
\* of the other variables where and as they were.
THEOREM WritesAreRead == Spec => WritesReadBack
<1> DEFINE Read(k) == IF last'.by = "onboard" THEN Stripped(last'.set[k]) ELSE last'.set[k]
           A == /\ Unique(file) => \A k \in DOMAIN last'.set : Loaded(file', k) = Read(k)
                /\ \A i \in DOMAIN file :
                     file[i].form = "comment" \/ file[i].key \notin DOMAIN last'.set
                       => i \in DOMAIN file' /\ file'[i] = file[i]
<1>1. TypeOK /\ [Next]_vars => [A]_vars
  <2>1. ASSUME TypeOK, Next PROVE A
    <3>1. PICK by, u : Step(by, u)
      BY <2>1, NextSteps DEF TypeOK
    <3>2. /\ last'.by = by /\ DOMAIN last'.set = KeysOf(u)
          /\ \A i \in 1..Len(u) : last'.set[u[i][1]] = u[i][2]
      BY <3>1, WroteSet DEF Step
    <3>3. DOMAIN file = 1..Len(file) /\ DOMAIN file' = 1..Len(file')
      BY <2>1, <3>1 DEF TypeOK, Step, Written
    <3>4. Unique(file) => OneLine(file)
      BY <2>1, UniqueIsOneLine DEF TypeOK
    <3>5. ASSUME Unique(file), NEW k \in KeysOf(u) PROVE Loaded(file', k) = Read(k)
      <4>1. PICK i \in 1..Len(u) : k = u[i][1]
        BY DEF KeysOf
      <4>2. Loaded(file', k) = Stripped(u[i][2])
        BY <4>1, <3>1, <3>4, <3>5 DEF Step, Written
      <4>3. by # "onboard" => u[i][2] \in Keys \union Fresh
        BY <3>1 DEF Step, Entered
      <4>4. by # "onboard" => Stripped(u[i][2]) = u[i][2]
        BY <4>3, EnvFileAssumption DEF Stripped
      <4> QED
        BY <4>1, <4>2, <4>4, <3>2
    <3>6. ASSUME NEW i \in 1..Len(file), file[i].form = "comment" \/ file[i].key \notin KeysOf(u)
          PROVE  i \in 1..Len(file') /\ file'[i] = file[i]
      BY <3>1, <3>6 DEF Step, Written
    <3> QED
      BY <3>2, <3>3, <3>5, <3>6
  <2> QED
    BY <2>1
<1> QED
  BY <1>1, TypeCorrect, PTL DEF Spec, WritesReadBack

\* In a tidy file no writer replaces a real secret.
THEOREM SecretsAreKept == Spec => SecretsKept
<1> DEFINE A == Tidy(file) => \A k \in ToSet(GENERATED) :
                  ~(Loaded(file, k) \in Unset) => Loaded(file', k) = Loaded(file, k)
<1>1. TypeOK /\ [Next]_vars => [A]_vars
  <2>1. ASSUME TypeOK, Next PROVE A
    <3>1. PICK by, u : Step(by, u)
      BY <2>1, NextSteps DEF TypeOK
    <3>2. ASSUME Tidy(file), NEW k \in ToSet(GENERATED), Loaded(file, k) \notin Unset
          PROVE  Loaded(file', k) = Loaded(file, k)
      <4>1. k \notin KeysOf(u)
        BY <3>1, <3>2 DEF Step
      <4> QED
        BY <4>1, <3>1 DEF Step, Written
    <3> QED
      BY <3>2
  <2> QED
    BY <2>1
<1> QED
  BY <1>1, TypeCorrect, PTL DEF Spec, SecretsKept

=============================================================================

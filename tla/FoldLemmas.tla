----------------------------- MODULE FoldLemmas -----------------------------
(***************************************************************************)
(* Facts about the folds and orderings the models are built from, for      *)
(* sequences and sets of any size: what FoldLeft has computed after each    *)
(* position, which elements `Only` keeps and in which order, that an order *)
(* lists a finite set in one way, where the elements of a concatenation,   *)
(* of a part and of a sequence with a part replaced are from.              *)
(*                                                                         *)
(* Each is proved by induction on a position, which `UpTo` gives for a set *)
(* of positions; a fold of an operator is stated through the table of its  *)
(* intermediate results (`Rows`), so that a module proves for an operator  *)
(* of its own only that the operator advances the table.                   *)
(***************************************************************************)
EXTENDS Selection, SequenceTheorems, FiniteSetTheorems, FunctionTheorems, TLAPS

\* A sequence is the function from its positions to its elements.
LEMMA SequenceItself ==
  ASSUME NEW E, NEW s \in Seq(E)
  PROVE  s = [i \in 1..Len(s) |-> s[i]]
<1>1. s \in [1..Len(s) -> E]
  BY LenProperties
<1> QED
  BY <1>1, Zenon

-----------------------------------------------------------------------------
(* Induction. *)

\* A set with 0 and, for each of its numbers, the next has every number.
LEMMA NatSet ==
  ASSUME NEW S, 0 \in S, \A n \in Nat : n \in S => n + 1 \in S
  PROVE  Nat \subseteq S
<1> DEFINE rest == Nat \ S
<1>1. SUFFICES ASSUME rest # {} PROVE FALSE
  OBVIOUS
<1>2. PICK n \in rest : \A m \in rest : ~ (<<m, n>> \in OpToRel(<, Nat))
  BY <1>1, WFMin, NatLessThanWellFounded
<1>3. n \in Nat /\ n # 0
  BY <1>2
<1>4. n - 1 \in Nat /\ n - 1 < n /\ (n - 1) + 1 = n
  BY <1>3
<1>5. n - 1 \in S
  BY <1>2, <1>3, <1>4 DEF OpToRel
<1> QED
  BY <1>3, <1>4, <1>5

\* The same up to a bound.
LEMMA UpTo ==
  ASSUME NEW n \in Nat, NEW S, 0 \in S, \A k \in 1..n : k - 1 \in S => k \in S
  PROVE  0..n \subseteq S
<1> DEFINE R == S \union {k \in Nat : k > n}
<1>1. 0 \in R
  OBVIOUS
<1>2. ASSUME NEW k \in Nat, k \in R PROVE k + 1 \in R
  <2>1. CASE k + 1 > n
    BY <2>1
  <2>2. CASE k + 1 <= n
    <3>1. k + 1 \in 1..n /\ (k + 1) - 1 = k /\ ~(k > n)
      BY <2>2
    <3>2. k \in S
      BY <1>2, <3>1
    <3> QED
      BY <3>1, <3>2
  <2> QED
    BY <2>1, <2>2
<1>3. Nat \subseteq R
  <2> HIDE DEF R
  <2> QED
    BY <1>1, <1>2, NatSet
<1> QED
  BY <1>3

-----------------------------------------------------------------------------
(* Folds. *)

\* g holds the rows from u on: row k is step[k] of the row before.
Rows(g, u, n, step) == g[0] = u /\ \A k \in 1..n : g[k] = step[k][g[k - 1]]

\* A table that is filled in from 0 to n, one row from the row before.
LEMMA Table ==
  ASSUME NEW U, NEW u \in U, NEW n \in Nat, NEW step \in [1..n -> [U -> U]]
  PROVE  \E g \in [0..n -> U] : Rows(g, u, n, step)
<1> DEFINE Filled(m, g) == g[0] = u /\ \A k \in 1..m : g[k] = step[k][g[k - 1]]
           S == {m \in Nat : m <= n => \E g \in [0..m -> U] : Filled(m, g)}
<1>1. 0 \in S
  <2> DEFINE g == [k \in 0..0 |-> u]
  <2>1. g \in [0..0 -> U] /\ Filled(0, g)
    OBVIOUS
  <2> QED
    BY <2>1
<1>2. ASSUME NEW m \in Nat, m \in S, m + 1 <= n
      PROVE  \E g \in [0..(m + 1) -> U] : Filled(m + 1, g)
  <2>1. PICK f \in [0..m -> U] : Filled(m, f)
    BY <1>2
  <2> DEFINE g == [k \in 0..(m + 1) |-> IF k <= m THEN f[k] ELSE step[m + 1][f[m]]]
  <2>2. m + 1 \in 1..n /\ f[m] \in U
    BY <1>2
  <2>3. step[m + 1][f[m]] \in U
    BY <2>2
  <2>4. g \in [0..(m + 1) -> U]
    BY <2>3
  <2>5. g[0] = u
    BY <2>1
  <2>6. ASSUME NEW k \in 1..(m + 1) PROVE g[k] = step[k][g[k - 1]]
    <3>1. CASE k <= m
      <4>1. k \in 1..m /\ k \in 0..(m + 1) /\ k - 1 \in 0..(m + 1) /\ k - 1 <= m
        BY <3>1
      <4>2. g[k] = f[k] /\ g[k - 1] = f[k - 1]
        BY <4>1, <3>1
      <4> QED
        BY <4>1, <4>2, <2>1
    <3>2. CASE k = m + 1
      BY <3>2
    <3> QED
      BY <3>1, <3>2
  <2> QED
    BY <2>4, <2>5, <2>6
<1>3. \A m \in Nat : m + 1 \in Nat
  OBVIOUS
<1>4. \A m \in Nat : m \in S => m + 1 \in S
  BY <1>2, <1>3, Zenon
<1> HIDE DEF S
<1>5. n \in S
  BY <1>1, <1>4, NatSet
<1> QED
  BY <1>5 DEF S, Rows

\* A set of positions that is not empty has a greatest member, and Max is it.
LEMMA MaxUpTo ==
  ASSUME NEW n \in Nat, NEW s \in SUBSET (1..n), s # {}
  PROVE  Max(s) \in s /\ \A i \in s : i <= Max(s)
<1> DEFINE Greatest(t) == \E i \in t : \A j \in t : i >= j
           S == {m \in Nat : \A t \in SUBSET (1..m) : t # {} => Greatest(t)}
<1>1. 0 \in S
  <2>1. 1..0 = {}
    OBVIOUS
  <2> QED
    BY <2>1
<1>2. \A m \in Nat : m \in S => m + 1 \in S
  <2> SUFFICES ASSUME NEW m \in Nat, m \in S, NEW t \in SUBSET (1..(m + 1)), t # {}
               PROVE  Greatest(t)
    OBVIOUS
  <2>1. CASE m + 1 \in t
    BY <2>1
  <2>2. CASE m + 1 \notin t
    <3>1. t \in SUBSET (1..m)
      BY <2>2
    <3> QED
      BY <3>1
  <2> QED
    BY <2>1, <2>2
<1>3. n \in S
  BY <1>1, <1>2, NatSet
<1>4. PICK i \in s : \A j \in s : i >= j
  BY <1>3
<1>5. \A j \in s : Max(s) >= j
  BY <1>4 DEF Max
<1>6. Max(s) \in s
  BY <1>4 DEF Max
<1> QED
  BY <1>5, <1>6

\* And a least one.
LEMMA MinUpTo ==
  ASSUME NEW n \in Nat, NEW s \in SUBSET (1..n), s # {}
  PROVE  \E i \in s : \A j \in s : i <= j
<1> DEFINE S == {m \in Nat : \A t \in SUBSET (1..m) : t # {} => \E i \in t : \A j \in t : i <= j}
<1>1. 0 \in S
  <2>1. 1..0 = {}
    OBVIOUS
  <2> QED
    BY <2>1
<1>2. \A m \in Nat : m \in S => m + 1 \in S
  <2> SUFFICES ASSUME NEW m \in Nat, m \in S, NEW t \in SUBSET (1..(m + 1)), t # {}
               PROVE  \E i \in t : \A j \in t : i <= j
    OBVIOUS
  <2>1. CASE t \cap (1..m) = {}
    BY <2>1
  <2>2. CASE t \cap (1..m) # {}
    <3>1. PICK i \in t \cap (1..m) : \A j \in t \cap (1..m) : i <= j
      BY <2>2
    <3>2. \A j \in t : i <= j
      BY <3>1
    <3> QED
      BY <3>1, <3>2
  <2> QED
    BY <2>1, <2>2
<1>3. n \in S
  BY <1>1, <1>2, NatSet
<1> QED
  BY <1>3

\* The greatest of the numbers up to n is n.
LEMMA MaxOfRange ==
  ASSUME NEW n \in Nat, n # 0
  PROVE  Max(1..n) = n
<1>1. 1..n # {} /\ n \in 1..n
  OBVIOUS
<1>2. Max(1..n) \in 1..n /\ \A i \in 1..n : i <= Max(1..n)
  BY <1>1, MaxUpTo
<1> QED
  BY <1>1, <1>2

\* h folds, from base on, the members of every set of positions from left to
\* right, position k with step[k].
Folds(h, base, n, step) ==
  h = [s \in SUBSET (1..n) |-> IF s = {} THEN base ELSE step[Max(s)][h[s \ {Max(s)}]]]

\* Such a table exists for steps that stay in T.
LEMMA FoldTable ==
  ASSUME NEW T, NEW base \in T, NEW n \in Nat, NEW step \in [1..n -> [T -> T]]
  PROVE  \E h \in [SUBSET (1..n) -> T] : Folds(h, base, n, step)
<1> DEFINE D == SUBSET (1..n)
           U == [D -> T]
           u == [s \in D |-> base]
           Row(k, f) == [s \in D |-> IF k \in s THEN step[k][f[s]] ELSE f[s]]
           row == [k \in 1..n |-> [f \in U |-> Row(k, f)]]
<1>1. u \in U
  OBVIOUS
<1>2. ASSUME NEW k \in 1..n, NEW f \in U PROVE Row(k, f) \in U
  <2>1. ASSUME NEW s \in D PROVE (IF k \in s THEN step[k][f[s]] ELSE f[s]) \in T
    OBVIOUS
  <2> QED
    BY <2>1
<1>3. PICK g \in [0..n -> U] : g[0] = u /\ \A k \in 1..n : g[k] = Row(k, g[k - 1])
  <2> HIDE DEF U, u, Row
  <2>1. row \in [1..n -> [U -> U]]
    BY <1>2
  <2>2. PICK g \in [0..n -> U] : Rows(g, u, n, row)
    <3> HIDE DEF row
    <3> QED
      BY <1>1, <2>1, Table
  <2>3. ASSUME NEW k \in 1..n PROVE g[k] = Row(k, g[k - 1])
    <3>1. g[k - 1] \in U
      OBVIOUS
    <3> QED
      BY <2>2, <3>1 DEF Rows
  <2> QED
    BY <2>2, <2>3 DEF Rows
<1>10. ASSUME NEW k \in 0..n PROVE g[k] \in U
  <2> HIDE DEF U
  <2> QED
    OBVIOUS
<1>4. ASSUME NEW k \in 1..n, NEW s \in D
      PROVE  /\ k - 1 \in 0..n /\ k \in 0..n
             /\ g[k][s] = IF k \in s THEN step[k][g[k - 1][s]] ELSE g[k - 1][s]
  <2>1. k - 1 \in 0..n /\ k \in 0..n
    OBVIOUS
  <2>2. g[k] = Row(k, g[k - 1])
    BY <1>3
  <2> QED
    BY <2>1, <2>2
<1>5. \A k \in 0..n : \A s, t \in D : s \cap (1..k) = t \cap (1..k) => g[k][s] = g[k][t]
  <2> DEFINE S == {k \in 0..n : \A s, t \in D : s \cap (1..k) = t \cap (1..k) => g[k][s] = g[k][t]}
  <2>1. 0 \in S
    <3>1. \A s \in D : g[0][s] = base
      BY <1>3
    <3> QED
      BY <3>1
  <2>2. ASSUME NEW k \in 1..n, k - 1 \in S PROVE k \in S
    <3> SUFFICES ASSUME NEW s \in D, NEW t \in D, s \cap (1..k) = t \cap (1..k)
                 PROVE  g[k][s] = g[k][t]
      BY <2>2, <1>4
    <3>1. s \cap (1..(k - 1)) = t \cap (1..(k - 1)) /\ (k \in s <=> k \in t)
      OBVIOUS
    <3>2. g[k - 1][s] = g[k - 1][t]
      BY <3>1, <2>2
    <3> QED
      BY <3>1, <3>2, <1>4
  <2>3. 0..n \subseteq S
    <3> HIDE DEF S
    <3> QED
      BY <2>1, <2>2, UpTo, ZenonT(30)
  <2> QED
    BY <2>3
<1>6. ASSUME NEW j \in 0..n, NEW s \in D, \A i \in s : i <= j
      PROVE  g[n][s] = g[j][s]
  <2> DEFINE S == {k \in 0..n : k >= j => g[k][s] = g[j][s]}
  <2>1. 0 \in S
    OBVIOUS
  <2>2. ASSUME NEW k \in 1..n, k - 1 \in S PROVE k \in S
    <3>1. CASE k <= j
      BY <3>1
    <3>2. CASE k > j
      <4>1. k \notin s /\ k - 1 >= j
        BY <1>6, <3>2
      <4> QED
        BY <4>1, <1>4, <2>2
    <3> QED
      BY <3>1, <3>2
  <2>3. 0..n \subseteq S
    <3> HIDE DEF S
    <3> QED
      BY <2>1, <2>2, UpTo
  <2> QED
    BY <2>3
<1>7. g[n] \in U
  <2>1. n \in 0..n
    OBVIOUS
  <2> HIDE DEF U
  <2> QED
    BY <1>10, <2>1
<1>8. ASSUME NEW s \in D
      PROVE  g[n][s] = IF s = {} THEN base ELSE step[Max(s)][g[n][s \ {Max(s)}]]
  <2>1. CASE s = {}
    BY <2>1, <1>6, <1>3
  <2>2. CASE s # {}
    <3> DEFINE m == Max(s)
               r == s \ {m}
    <3>1. m \in s /\ \A i \in s : i <= m
      BY <2>2, MaxUpTo
    <3> HIDE DEF m
    <3>2. m \in 1..n /\ m - 1 \in 0..n /\ m \in 0..n
      BY <3>1
    <3>3. r \in D /\ \A i \in r : i <= m - 1
      BY <3>1, <3>2
    <3>4. g[n][s] = g[m][s] /\ g[n][r] = g[m - 1][r]
      BY <3>1, <3>2, <3>3, <1>6
    <3>5. s \cap (1..(m - 1)) = r \cap (1..(m - 1))
      BY <3>2
    <3>6. g[m - 1][s] = g[m - 1][r]
      BY <3>5, <3>2, <3>3, <1>5
    <3>7. g[m][s] = step[m][g[m - 1][s]]
      BY <3>1, <3>2, <1>4
    <3> QED
      BY <2>2, <3>4, <3>6, <3>7 DEF m
  <2> QED
    BY <2>1, <2>2
<1> QED
  <2> HIDE DEF u, Row
  <2>1. g[n] = [s \in D |-> IF s = {} THEN base ELSE step[Max(s)][g[n][s \ {Max(s)}]]]
    BY <1>7, <1>8
  <2> QED
    BY <1>7, <2>1 DEF Folds

\* f is such a fold on the first positions, as long as it stays in T.
Advances(f, T, base, n, step) ==
  f[{}] = base /\ \A k \in 1..n : f[1..(k - 1)] \in T => f[1..k] = step[k][f[1..(k - 1)]]

\* What such a fold has computed after each position.
LEMMA FoldRows ==
  ASSUME NEW T, NEW base \in T, NEW n \in Nat, NEW step \in [1..n -> [T -> T]], NEW f,
         Advances(f, T, base, n, step)
  PROVE  \E a \in [0..n -> T] : Rows(a, base, n, step) /\ a[n] = f[1..n]
<1> DEFINE a == [k \in 0..n |-> f[1..k]]
<1>1. 1..0 = {}
  OBVIOUS
<1>2. \A k \in 0..n : f[1..k] \in T
  <2> DEFINE S == {k \in 0..n : f[1..k] \in T}
  <2>1. 0 \in S
    BY <1>1 DEF Advances
  <2>2. ASSUME NEW k \in 1..n, k - 1 \in S PROVE k \in S
    BY <2>2 DEF Advances
  <2>3. 0..n \subseteq S
    <3> HIDE DEF S
    <3> QED
      BY <2>1, <2>2, UpTo
  <2> QED
    BY <2>3
<1>3. a \in [0..n -> T] /\ a[n] = f[1..n]
  BY <1>2
<1>4. Rows(a, base, n, step)
  BY <1>1, <1>2 DEF Rows, Advances
<1> QED
  BY <1>3, <1>4

\* Such a fold stays in T.
LEMMA FoldStays ==
  ASSUME NEW T, NEW base \in T, NEW n \in Nat, NEW step \in [1..n -> [T -> T]], NEW f,
         Advances(f, T, base, n, step)
  PROVE  f[1..n] \in T
<1>1. PICK a \in [0..n -> T] : Rows(a, base, n, step) /\ a[n] = f[1..n]
  BY FoldRows
<1> QED
  BY <1>1

\* The first k positions of n, as FoldLeft takes them apart.
LEMMA FirstPositions ==
  ASSUME NEW n \in Nat, NEW k \in 1..n
  PROVE  /\ 1..k \in SUBSET (1..n) /\ 1..k # {}
         /\ Max(1..k) = k /\ (1..k) \ {k} = 1..(k - 1)
<1>1. k \in Nat /\ k # 0
  OBVIOUS
<1>2. Max(1..k) = k
  BY <1>1, MaxOfRange
<1>3. 1..k \in SUBSET (1..n) /\ k \in 1..k
  OBVIOUS
<1>4. ASSUME NEW i PROVE i \in (1..k) \ {k} <=> i \in 1..(k - 1)
  OBVIOUS
<1> QED
  BY <1>2, <1>3, <1>4

-----------------------------------------------------------------------------
(* Filters. *)

\* One position of `Only`.
OnlyStep(s, W, E) == [i \in 1..Len(s) |-> [t \in Seq(E) |-> IF s[i] \in W THEN Append(t, s[i]) ELSE t]]

\* `Only` as a table: row k holds what is kept of the first k elements.
LEMMA OnlyRows ==
  ASSUME NEW E, NEW s \in Seq(E), NEW W
  PROVE  \E a \in [0..Len(s) -> Seq(E)] :
           Rows(a, <<>>, Len(s), OnlyStep(s, W, E)) /\ a[Len(s)] = Only(s, W)
<1>0. PICK n \in Nat : n = Len(s)
  OBVIOUS
<1> DEFINE T == Seq(E)
           step == OnlyStep(s, W, E)
           Eq(f) == f = [k \in 0..n |->
                           IF k = 0 THEN <<>>
                           ELSE IF s[k] \in W THEN Append(f[k - 1], s[k]) ELSE f[k - 1]]
           fn == CHOOSE f : Eq(f)
<1>1. n \in Nat /\ DOMAIN s = 1..n /\ <<>> \in T
  BY <1>0
<1>2. Only(s, W) = fn[n]
  BY <1>0 DEF Only
<1>3. step \in [1..n -> [T -> T]]
  BY <1>0 DEF OnlyStep
<1>4. PICK h \in [0..n -> T] : Rows(h, <<>>, n, step)
  <2> DEFINE b == <<>>
  <2>1. b \in T
    BY <1>1
  <2> HIDE DEF step, T, b
  <2>2. \E h \in [0..n -> T] : Rows(h, b, n, step)
    BY <1>1, <1>3, <2>1, Table
  <2> QED
    BY <2>2 DEF b
<1>5. ASSUME NEW k \in 1..n
      PROVE  h[k] = IF s[k] \in W THEN Append(h[k - 1], s[k]) ELSE h[k - 1]
  <2>1. k - 1 \in 0..n /\ h[k - 1] \in T
    BY <1>1
  <2> QED
    BY <1>0, <1>4, <2>1 DEF Rows, OnlyStep
<1>6. Eq(h)
  <2>1. \A k \in 0..n : k = 0 \/ k \in 1..n
    BY <1>1
  <2>2. h[0] = <<>>
    BY <1>4 DEF Rows
  <2> QED
    BY <1>5, <2>1, <2>2
<1>7. Eq(fn)
  BY <1>6
<1> HIDE DEF fn, T
<1>8. \A k \in 0..n : fn[k] = h[k]
  <2> DEFINE S == {k \in 0..n : fn[k] = h[k]}
  <2>1. 0 \in S
    BY <1>4, <1>7 DEF Rows
  <2>2. ASSUME NEW k \in 1..n, k - 1 \in S PROVE k \in S
    <3>1. k \in 0..n /\ k # 0
      BY <1>1
    <3>2. fn[k] = IF s[k] \in W THEN Append(fn[k - 1], s[k]) ELSE fn[k - 1]
      BY <1>7, <3>1
    <3> QED
      BY <1>5, <2>2, <3>1, <3>2
  <2>3. 0..n \subseteq S
    <3> HIDE DEF S, Eq
    <3> QED
      BY <1>1, <2>1, <2>2, UpTo
  <2> QED
    BY <2>3
<1>9. n \in 0..n /\ h[n] = Only(s, W)
  BY <1>1, <1>2, <1>8
<1> QED
  BY <1>0, <1>4, <1>9 DEF T

\* Row k, spelt out.
LEMMA OnlyRow ==
  ASSUME NEW E, NEW s \in Seq(E), NEW W, NEW a \in [0..Len(s) -> Seq(E)],
         Rows(a, <<>>, Len(s), OnlyStep(s, W, E)), NEW k \in 1..Len(s)
  PROVE  a[k] = IF s[k] \in W THEN Append(a[k - 1], s[k]) ELSE a[k - 1]
<1>1. a[k - 1] \in Seq(E)
  OBVIOUS
<1> QED
  BY <1>1 DEF Rows, OnlyStep

\* The table itself: row k of a is what W leaves of the first k elements of s.
Filters(a, s, n, W, T) ==
  /\ a \in [0..n -> T] /\ a[0] = <<>> /\ a[n] = Only(s, W)
  /\ \A k \in 1..n : a[k] = IF s[k] \in W THEN Append(a[k - 1], s[k]) ELSE a[k - 1]

\* Every filter has one.
LEMMA OnlyTable ==
  ASSUME NEW E, NEW s \in Seq(E), NEW W, NEW n \in Nat, n = Len(s)
  PROVE  \E a : Filters(a, s, n, W, Seq(E))
<1>1. PICK a \in [0..n -> Seq(E)] :
        Rows(a, <<>>, n, OnlyStep(s, W, E)) /\ a[n] = Only(s, W)
  BY OnlyRows
<1>2. \A k \in 1..n : a[k] = IF s[k] \in W THEN Append(a[k - 1], s[k]) ELSE a[k - 1]
  BY <1>1, OnlyRow
<1>3. a[0] = <<>>
  BY <1>1 DEF Rows
<1> QED
  BY <1>1, <1>2, <1>3 DEF Filters

\* m lists the members of S in the order R.
Enumerates(m, n, S, R) ==
  /\ m \in [1..n -> S]
  /\ \A x \in S : \E i \in 1..n : m[i] = x
  /\ \A i, j \in 1..n : i < j => <<m[i], m[j]>> \in R

\* Positions in their order.
Upward == {p \in Nat \X Nat : p[1] < p[2]}

\* An asymmetric order lists a set in one way only.
LEMMA EnumerationUnique ==
  ASSUME NEW S, NEW R, \A x, y \in S : <<x, y>> \in R => <<y, x>> \notin R,
         NEW m, NEW n \in Nat, Enumerates(m, n, S, R),
         NEW l, NEW k \in Nat, Enumerates(l, k, S, R)
  PROVE  n = k /\ m = l
<1>1. ASSUME NEW i \in 1..n, NEW j \in 1..n, m[i] = m[j] PROVE i = j
  <2>1. m[i] \in S /\ ~(i < j) /\ ~(j < i)
    BY <1>1 DEF Enumerates
  <2> QED
    BY <2>1
<1>2. ASSUME NEW i \in 1..k, NEW j \in 1..k, l[i] = l[j] PROVE i = j
  <2>1. l[i] \in S /\ ~(i < j) /\ ~(j < i)
    BY <1>2 DEF Enumerates
  <2> QED
    BY <2>1
<1> DEFINE Agree == {p \in 0..n : p <= k => \A i \in 1..p : m[i] = l[i]}
<1>3. 0 \in Agree
  OBVIOUS
<1>4. ASSUME NEW p \in 1..n, p - 1 \in Agree, p <= k PROVE m[p] = l[p]
  <2>1. \A i \in 1..(p - 1) : m[i] = l[i]
    BY <1>4
  <2>2. p \in 1..k /\ m[p] \in S /\ l[p] \in S
    BY <1>4 DEF Enumerates
  <2>3. PICK i \in 1..n : m[i] = l[p]
    BY <2>2 DEF Enumerates
  <2>4. PICK j \in 1..k : l[j] = m[p]
    BY <2>2 DEF Enumerates
  <2>5. i >= p
    <3>1. SUFFICES ASSUME i < p PROVE FALSE
      OBVIOUS
    <3>2. i \in 1..(p - 1) /\ i \in 1..k
      BY <3>1, <2>2
    <3>3. l[i] = l[p]
      BY <3>2, <2>1, <2>3
    <3> QED
      BY <3>1, <3>2, <3>3, <2>2, <1>2
  <2>6. j >= p
    <3>1. SUFFICES ASSUME j < p PROVE FALSE
      OBVIOUS
    <3>2. j \in 1..(p - 1) /\ j \in 1..n
      BY <3>1
    <3>3. m[j] = m[p]
      BY <3>2, <2>1, <2>4
    <3> QED
      BY <3>1, <3>2, <3>3, <1>1
  <2>7. CASE i = p
    BY <2>3, <2>7
  <2>8. CASE i > p
    <3>1. <<m[p], l[p]>> \in R
      BY <2>3, <2>8 DEF Enumerates
    <3>2. j # p
      BY <2>2, <2>4, <3>1
    <3>3. <<l[p], m[p]>> \in R
      BY <2>2, <2>4, <2>6, <3>2 DEF Enumerates
    <3> QED
      BY <3>1, <3>3, <2>2
  <2> QED
    BY <2>5, <2>7, <2>8
<1>5. ASSUME NEW p \in 1..n, p - 1 \in Agree PROVE p \in Agree
  <2>1. ASSUME p <= k, NEW i \in 1..p PROVE m[i] = l[i]
    <3>1. i = p \/ i \in 1..(p - 1)
      OBVIOUS
    <3> QED
      BY <3>1, <2>1, <1>4, <1>5
  <2> QED
    BY <2>1
<1>6. 0..n \subseteq Agree
  <2> HIDE DEF Agree
  <2> QED
    BY <1>3, <1>5, UpTo
<1>7. \A i \in 1..n : i <= k => m[i] = l[i]
  BY <1>6
<1>8. n = k
  <2>1. CASE n < k
    <3>1. n + 1 \in 1..k /\ l[n + 1] \in S
      BY <2>1 DEF Enumerates
    <3>2. PICK i \in 1..n : m[i] = l[n + 1]
      BY <3>1 DEF Enumerates
    <3>3. i \in 1..k /\ l[i] = l[n + 1] /\ i # n + 1
      BY <3>2, <2>1, <1>7
    <3> QED
      BY <3>3, <3>1, <1>2
  <2>2. CASE k < n
    <3>1. k + 1 \in 1..n /\ m[k + 1] \in S
      BY <2>2 DEF Enumerates
    <3>2. PICK i \in 1..k : l[i] = m[k + 1]
      BY <3>1 DEF Enumerates
    <3>3. i \in 1..n /\ m[i] = m[k + 1] /\ i # k + 1
      BY <3>2, <2>2, <1>7
    <3> QED
      BY <3>3, <3>1, <1>1
  <2> QED
    BY <2>1, <2>2
<1> QED
  BY <1>7, <1>8 DEF Enumerates

\* The n elements of s that are in W are at m[1], ..., m[n], and t lists them.
Keeps(t, s, W, n, m) ==
  /\ Enumerates(m, n, {i \in 1..Len(s) : s[i] \in W}, Upward)
  /\ t = [i \in 1..n |-> s[m[i]]]

\* `Only` keeps the elements in their order.
LEMMA OnlyEnumerates ==
  ASSUME NEW E, NEW s \in Seq(E), NEW W
  PROVE  \E n \in Nat : \E m : Keeps(Only(s, W), s, W, n, m)
<1>1. PICK a \in [0..Len(s) -> Seq(E)] :
        Rows(a, <<>>, Len(s), OnlyStep(s, W, E)) /\ a[Len(s)] = Only(s, W)
  BY OnlyRows
<1> DEFINE Hits(k) == {i \in 1..k : s[i] \in W}
           Lists(k, n, m) == Enumerates(m, n, Hits(k), Upward) /\ a[k] = [i \in 1..n |-> s[m[i]]]
           S == {k \in 0..Len(s) : \E n \in Nat : \E m : Lists(k, n, m)}
<1>2. 0 \in S
  <2> DEFINE m == [i \in 1..0 |-> 0]
  <2>1. 1..0 = {}
    OBVIOUS
  <2>2. Enumerates(m, 0, Hits(0), Upward)
    BY <2>1 DEF Enumerates
  <2>3. a[0] = [i \in 1..0 |-> s[m[i]]]
    BY <1>1, <2>1 DEF Rows
  <2>4. Lists(0, 0, m)
    BY <2>2, <2>3
  <2> HIDE DEF Lists, m
  <2> QED
    BY <2>4
<1>3. ASSUME NEW k \in 1..Len(s), k - 1 \in S PROVE k \in S
  <2>0. PICK n \in Nat : \E m : Lists(k - 1, n, m)
    BY <1>3
  <2>1. PICK m : Lists(k - 1, n, m)
    BY <2>0
  <2>2. a[k] = IF s[k] \in W THEN Append(a[k - 1], s[k]) ELSE a[k - 1]
    BY <1>1, OnlyRow
  <2>3. CASE s[k] \notin W
    <3>1. Hits(k) = Hits(k - 1)
      BY <2>3
    <3>2. Lists(k, n, m)
      BY <2>1, <2>2, <2>3, <3>1
    <3> HIDE DEF Lists
    <3> QED
      BY <3>2
  <2>4. CASE s[k] \in W
    <3> DEFINE l == [i \in 1..(n + 1) |-> IF i <= n THEN m[i] ELSE k]
    <3>1. Hits(k) = Hits(k - 1) \union {k}
      BY <2>4
    <3>2. m \in [1..n -> Hits(k - 1)]
      BY <2>1 DEF Enumerates
    <3>3. l \in [1..(n + 1) -> Hits(k)] /\ n + 1 \in Nat
      BY <3>1, <3>2
    <3>4. ASSUME NEW x \in Hits(k) PROVE \E i \in 1..(n + 1) : l[i] = x
      <4>1. CASE x = k
        BY <4>1
      <4>2. CASE x # k
        <5>1. PICK i \in 1..n : m[i] = x
          BY <4>2, <3>1, <2>1 DEF Enumerates
        <5> QED
          BY <5>1
      <4> QED
        BY <4>1, <4>2
    <3>5. ASSUME NEW i \in 1..(n + 1), NEW j \in 1..(n + 1), i < j
          PROVE  <<l[i], l[j]>> \in Upward
      <4>1. CASE j <= n
        <5>1. <<m[i], m[j]>> \in Upward
          BY <4>1, <3>5, <2>1 DEF Enumerates
        <5> QED
          BY <5>1, <4>1, <3>5
      <4>2. CASE j = n + 1
        <5>1. m[i] \in Hits(k - 1) /\ l[i] = m[i] /\ l[j] = k
          BY <4>2, <3>2, <3>5, SMTT(20)
        <5>2. l[i] \in Nat /\ l[j] \in Nat /\ l[i] < l[j]
          BY <5>1
        <5> QED
          BY <5>2 DEF Upward
      <4> QED
        BY <4>1, <4>2
    <3>6. Enumerates(l, n + 1, Hits(k), Upward)
      <4> HIDE DEF l
      <4> QED
        BY <3>3, <3>4, <3>5 DEF Enumerates
    <3>7. a[k - 1] \in Seq(E) /\ a[k - 1] = [i \in 1..n |-> s[m[i]]]
      <4>1. k - 1 \in 0..Len(s)
        OBVIOUS
      <4> QED
        BY <4>1, <2>1
    <3>8. Append(a[k - 1], s[k]) = [i \in 1..(n + 1) |-> s[l[i]]]
      BY <3>7
    <3>9. Lists(k, n + 1, l)
      BY <2>2, <2>4, <3>6, <3>8
    <3> HIDE DEF Lists, l
    <3> QED
      BY <3>3, <3>9
  <2> QED
    BY <2>3, <2>4
<1>4. Len(s) \in S
  <2> HIDE DEF S
  <2>1. Len(s) \in Nat
    OBVIOUS
  <2>2. 0..Len(s) \subseteq S
    BY <1>2, <1>3, <2>1, UpTo
  <2> QED
    BY <2>1, <2>2
<1> QED
  BY <1>1, <1>4 DEF Keeps

\* What is kept is what was there and in W; a sequence without repetition
\* stays one.
LEMMA OnlyKeeps ==
  ASSUME NEW E, NEW s \in Seq(E), NEW W
  PROVE  /\ Only(s, W) \in Seq(E \cap W)
         /\ \A x : (\E i \in 1..Len(Only(s, W)) : Only(s, W)[i] = x)
                     <=> (x \in W /\ \E i \in 1..Len(s) : s[i] = x)
         /\ (\A i, j \in 1..Len(s) : s[i] = s[j] => i = j) =>
              \A i, j \in 1..Len(Only(s, W)) : Only(s, W)[i] = Only(s, W)[j] => i = j
<1> DEFINE hits == {i \in 1..Len(s) : s[i] \in W}
           t == Only(s, W)
<1>1. PICK n \in Nat : \E m : Keeps(t, s, W, n, m)
  BY OnlyEnumerates
<1>2. PICK m : Keeps(t, s, W, n, m)
  BY <1>1
<1>3. Enumerates(m, n, hits, Upward) /\ t = [i \in 1..n |-> s[m[i]]]
  BY <1>2 DEF Keeps
<1> HIDE DEF t
<1>4. Len(t) = n /\ \A i \in 1..n : t[i] = s[m[i]]
  BY <1>3
<1>5. \A i \in 1..n : m[i] \in hits
  BY <1>3 DEF Enumerates
<1>6. t \in Seq(E \cap W)
  <2>1. \A i \in 1..n : s[m[i]] \in E \cap W
    BY <1>5
  <2> QED
    BY <2>1, <1>3
<1>7. ASSUME NEW x PROVE (\E i \in 1..n : t[i] = x) <=> (x \in W /\ \E i \in 1..Len(s) : s[i] = x)
  <2>1. ASSUME NEW i \in 1..n, t[i] = x PROVE x \in W /\ \E j \in 1..Len(s) : s[j] = x
    BY <2>1, <1>4, <1>5
  <2>2. ASSUME NEW j \in 1..Len(s), s[j] = x, x \in W PROVE \E i \in 1..n : t[i] = x
    <3>1. j \in hits
      BY <2>2
    <3>2. PICK i \in 1..n : m[i] = j
      BY <3>1, <1>3 DEF Enumerates
    <3> QED
      BY <3>2, <2>2, <1>4
  <2> QED
    BY <2>1, <2>2
<1>8. ASSUME \A i, j \in 1..Len(s) : s[i] = s[j] => i = j,
             NEW i \in 1..n, NEW j \in 1..n, t[i] = t[j]
      PROVE  i = j
  <2>1. m[i] = m[j]
    BY <1>4, <1>5, <1>8
  <2>2. i < j => <<m[i], m[j]>> \in Upward
    BY <1>3 DEF Enumerates
  <2>3. j < i => <<m[j], m[i]>> \in Upward
    BY <1>3 DEF Enumerates
  <2>4. ~(i < j) /\ ~(j < i)
    BY <2>1, <2>2, <2>3, <1>5 DEF Upward
  <2> QED
    BY <2>4
<1> QED
  BY <1>4, <1>6, <1>7, <1>8 DEF t

-----------------------------------------------------------------------------
(* Concatenations. *)

\* One position of FlattenSeq.
FlattenStep(ss, E) == [i \in 1..Len(ss) |-> [t \in Seq(E) |-> t \o ss[i]]]

\* FlattenSeq as a table: row k holds the first k sequences.
LEMMA FlattenRows ==
  ASSUME NEW E, NEW ss \in Seq(Seq(E)), ss # <<>>
  PROVE  \E g \in [0..Len(ss) -> Seq(E)] :
           Rows(g, <<>>, Len(ss), FlattenStep(ss, E)) /\ g[Len(ss)] = FlattenSeq(ss)
<1>1. PICK n \in Nat : n = Len(ss) /\ n # 0
  BY EmptySeq
<1> DEFINE T == Seq(E)
           b == <<>>
           step == FlattenStep(ss, E)
           Eq(f) == f = [i \in 1..n |-> IF i = 1 THEN ss[i] ELSE f[i - 1] \o ss[i]]
           fl == CHOOSE f : Eq(f)
<1>2. FlattenSeq(ss) = fl[n]
  BY <1>1 DEF FlattenSeq
<1>3. \A i \in 1..n : ss[i] \in T
  BY <1>1
<1>4. step \in [1..n -> [T -> T]]
  <2>1. \A i \in 1..n, t \in T : t \o ss[i] \in T
    BY <1>3
  <2> QED
    BY <1>1, <2>1 DEF FlattenStep
<1>5. \A i \in 1..n, t \in T : step[i][t] = t \o ss[i]
  BY <1>1 DEF FlattenStep
<1>6. PICK g \in [0..n -> T] : Rows(g, b, n, step)
  <2>1. b \in T
    OBVIOUS
  <2> HIDE DEF b, T, step
  <2> QED
    BY <1>4, <2>1, Table
<1>7. ASSUME NEW i \in 1..n PROVE g[i] = IF i = 1 THEN ss[i] ELSE g[i - 1] \o ss[i]
  <2>1. i - 1 \in 0..n
    OBVIOUS
  <2>2. g[i - 1] \in T
    BY <2>1
  <2>3. g[i] = g[i - 1] \o ss[i]
    BY <1>5, <1>6, <2>2 DEF Rows
  <2>4. CASE i = 1
    <3>1. g[i] = <<>> \o ss[i]
      <4>1. g[0] = <<>> /\ i - 1 = 0
        BY <2>4, <1>6 DEF Rows
      <4> QED
        BY <2>3, <4>1
    <3> QED
      BY <3>1, <2>4, <1>3, ConcatEmptySeq
  <2> QED
    BY <2>3, <2>4
<1>8. Eq([i \in 1..n |-> g[i]])
  BY <1>7
<1>9. Eq(fl)
  BY <1>8
<1> HIDE DEF fl
<1>10. fl[n] = g[n]
  <2> DEFINE S == {i \in 0..n : i # 0 => fl[i] = g[i]}
  <2>1. 0 \in S
    OBVIOUS
  <2>2. ASSUME NEW i \in 1..n, i - 1 \in S PROVE i \in S
    <3>1. fl[i] = IF i = 1 THEN ss[i] ELSE fl[i - 1] \o ss[i]
      BY <1>9
    <3>2. i # 1 => i - 1 # 0 /\ i - 1 \in 1..n
      OBVIOUS
    <3>3. i # 1 => fl[i - 1] = g[i - 1]
      BY <2>2, <3>2
    <3> HIDE DEF Eq
    <3> QED
      BY <3>1, <3>3, <1>7
  <2>3. 0..n \subseteq S
    <3> HIDE DEF S
    <3> QED
      BY <2>1, <2>2, UpTo
  <2> QED
    BY <2>3, <1>1
<1> QED
  BY <1>1, <1>2, <1>6, <1>10

\* Row k, spelt out.
LEMMA FlattenRow ==
  ASSUME NEW E, NEW ss \in Seq(Seq(E)), NEW g \in [0..Len(ss) -> Seq(E)],
         Rows(g, <<>>, Len(ss), FlattenStep(ss, E)), NEW k \in 1..Len(ss)
  PROVE  g[k - 1] \in Seq(E) /\ ss[k] \in Seq(E) /\ g[k] = g[k - 1] \o ss[k]
<1> DEFINE T == Seq(E)
<1>1. k - 1 \in 0..Len(ss)
  <2>1. Len(ss) \in Nat
    OBVIOUS
  <2> QED
    BY <2>1
<1>2. g[k - 1] \in T /\ ss[k] \in T
  <2>1. g \in [0..Len(ss) -> T] /\ ss \in Seq(T)
    OBVIOUS
  <2> HIDE DEF T
  <2>2. g[k - 1] \in T
    BY <1>1, <2>1
  <2>3. ss[k] \in T
    BY <2>1, ElementOfSeq
  <2> QED
    BY <2>2, <2>3
<1>3. g[k] = FlattenStep(ss, E)[k][g[k - 1]]
  BY DEF Rows
<1>4. FlattenStep(ss, E)[k][g[k - 1]] = g[k - 1] \o ss[k]
  BY <1>2 DEF FlattenStep
<1> QED
  BY <1>2, <1>3, <1>4

-----------------------------------------------------------------------------
(* Orders. *)

\* The members of P before x.
Predecessors(P, R, x) == {y \in P : <<y, x>> \in R}

\* R is a strict total order on P.
Orders(R, P) ==
  /\ \A x, y \in P : <<x, y>> \in R => <<y, x>> \notin R
  /\ \A x, y, z \in P : <<x, y>> \in R /\ <<y, z>> \in R => <<x, z>> \in R
  /\ \A x, y \in P : x = y \/ <<x, y>> \in R \/ <<y, x>> \in R

\* Taking the element with n - 1 predecessors for position n lists the set.
LEMMA Ranked ==
  ASSUME NEW P, IsFiniteSet(P), NEW R, Orders(R, P)
  PROVE  /\ Cardinality(P) \in Nat
         /\ Enumerates([n \in 1..Cardinality(P) |->
                          CHOOSE x \in P : Cardinality(Predecessors(P, R, x)) = n - 1],
                       Cardinality(P), P, R)
<1>1. PICK c \in Nat : c = Cardinality(P)
  BY FS_CardinalityType
<1> DEFINE At(x) == Cardinality(Predecessors(P, R, x))
           f == [x \in P |-> At(x) + 1]
           m == [n \in 1..c |-> CHOOSE x \in P : At(x) = n - 1]
<1>2. ASSUME NEW x \in P
      PROVE  IsFiniteSet(Predecessors(P, R, x)) /\ At(x) \in 0..(c - 1)
  <2>1. IsFiniteSet(P \ {x}) /\ Cardinality(P \ {x}) = c - 1
    BY <1>1, FS_RemoveElement
  <2>2. Predecessors(P, R, x) \in SUBSET (P \ {x})
    BY DEF Predecessors, Orders
  <2>3. IsFiniteSet(Predecessors(P, R, x)) /\ At(x) <= c - 1
    BY <2>1, <2>2, FS_Subset
  <2>4. At(x) \in Nat
    BY <2>3, FS_CardinalityType
  <2> QED
    BY <2>3, <2>4
<1>3. ASSUME NEW x \in P, NEW y \in P, <<x, y>> \in R
      PROVE  At(x) < At(y)
  <2>1. Predecessors(P, R, x) \in SUBSET Predecessors(P, R, y)
    BY <1>3 DEF Predecessors, Orders
  <2>2. x \in Predecessors(P, R, y) /\ x \notin Predecessors(P, R, x)
    BY <1>3 DEF Predecessors, Orders
  <2>3. At(x) <= At(y) /\ At(x) # At(y)
    BY <2>1, <2>2, <1>2, FS_Subset
  <2> QED
    BY <2>3, <1>2
<1>4. ASSUME NEW x \in P, NEW y \in P, At(x) = At(y) PROVE x = y
  <2>1. ~(<<x, y>> \in R) /\ ~(<<y, x>> \in R)
    BY <1>2, <1>3, <1>4
  <2> QED
    BY <2>1 DEF Orders
<1>5. \A n \in 1..c : \E x \in P : At(x) = n - 1
  <2>1. f \in [P -> 1..c]
    <3>1. \A x \in P : At(x) + 1 \in 1..c
      BY <1>2
    <3> HIDE DEF At
    <3> QED
      BY <3>1
  <2>2. \A x, y \in P : f[x] = f[y] => x = y
    <3>1. ASSUME NEW x \in P, NEW y \in P, f[x] = f[y] PROVE At(x) = At(y)
      <4>1. At(x) + 1 = At(y) + 1
        BY <3>1
      <4> QED
        BY <4>1, <1>2
    <3> QED
      BY <3>1, <1>4
  <2>3. f \in Injection(P, 1..c)
    <3> HIDE DEF f
    <3> QED
      BY <2>1, <2>2, Fun_IsInj
  <2>4. IsFiniteSet(1..c) /\ Cardinality(1..c) = c
    BY FS_Interval
  <2>5. f \in Surjection(P, 1..c)
    <3> HIDE DEF f
    <3> QED
      BY <2>3, <2>4, <1>1, FS_Injection
  <2>6. ASSUME NEW n \in 1..c PROVE \E x \in P : At(x) = n - 1
    <3>1. PICK x \in P : f[x] = n
      BY <2>5 DEF Surjection
    <3>2. At(x) + 1 = n
      BY <3>1
    <3> QED
      BY <3>2, <1>2
  <2> QED
    BY <2>6
<1>6. \A n \in 1..c : m[n] \in P /\ At(m[n]) = n - 1
  BY <1>5
<1>7. m \in [1..c -> P]
  BY <1>6
<1> HIDE DEF m
<1>8. ASSUME NEW x \in P PROVE \E n \in 1..c : m[n] = x
  <2>1. At(x) + 1 \in 1..c /\ (At(x) + 1) - 1 = At(x)
    BY <1>2
  <2>2. m[At(x) + 1] \in P /\ At(m[At(x) + 1]) = At(x)
    BY <2>1, <1>6
  <2> QED
    BY <2>1, <2>2, <1>4
<1>9. ASSUME NEW i \in 1..c, NEW j \in 1..c, i < j PROVE <<m[i], m[j]>> \in R
  <2>1. m[i] \in P /\ m[j] \in P /\ At(m[i]) < At(m[j])
    BY <1>6, <1>9
  <2>2. m[i] # m[j] /\ <<m[j], m[i]>> \notin R
    BY <2>1, <1>2, <1>3
  <2> QED
    BY <2>1, <2>2 DEF Orders
<1>10. Enumerates(m, c, P, R)
  BY <1>7, <1>8, <1>9 DEF Enumerates
<1> QED
  BY <1>1, <1>10 DEF m

-----------------------------------------------------------------------------
(* Lists: sequences as a table read in an order. *)

\* s lists f[x] for the x of S in the order R.
Lists(s, f, S, R) ==
  \E n \in Nat : \E h : Enumerates(h, n, S, R) /\ s = [i \in 1..n |-> f[h[i]]]

\* What a list holds, and where.
LEMMA ListsMembers ==
  ASSUME NEW s, NEW f, NEW S, NEW R, Lists(s, f, S, R), NEW E, \A x \in S : f[x] \in E
  PROVE  /\ s \in Seq(E)
         /\ \A x \in S : \E i \in 1..Len(s) : s[i] = f[x]
         /\ \A i \in 1..Len(s) : \E x \in S : s[i] = f[x]
         /\ \A i, j \in 1..Len(s) : i < j =>
              \E x, y \in S : s[i] = f[x] /\ s[j] = f[y] /\ <<x, y>> \in R
<1>1. PICK n \in Nat : \E h : Enumerates(h, n, S, R) /\ s = [i \in 1..n |-> f[h[i]]]
  BY DEF Lists
<1>2. PICK h : Enumerates(h, n, S, R) /\ s = [i \in 1..n |-> f[h[i]]]
  BY <1>1
<1>3. \A i \in 1..n : h[i] \in S
  BY <1>2 DEF Enumerates
<1>4. s \in Seq(E) /\ Len(s) = n /\ \A i \in 1..n : s[i] = f[h[i]]
  BY <1>2, <1>3
<1>5. \A x \in S : \E i \in 1..n : s[i] = f[x]
  BY <1>2, <1>4 DEF Enumerates
<1>6. ASSUME NEW i \in 1..n, NEW j \in 1..n, i < j
      PROVE  \E x, y \in S : s[i] = f[x] /\ s[j] = f[y] /\ <<x, y>> \in R
  <2>1. <<h[i], h[j]>> \in R
    BY <1>2, <1>6 DEF Enumerates
  <2> QED
    BY <2>1, <1>3, <1>4
<1> QED
  BY <1>3, <1>4, <1>5, <1>6

\* The list has the member x at i, others before and after it as R says.
Stands(s, f, S, R, x, i) ==
  /\ s[i] = f[x]
  /\ \A j \in 1..(i - 1) : \E y \in S : s[j] = f[y] /\ <<y, x>> \in R
  /\ \A j \in (i + 1)..Len(s) : \E y \in S : s[j] = f[y] /\ <<x, y>> \in R

\* Every member is somewhere.
LEMMA ListsAt ==
  ASSUME NEW s, NEW f, NEW S, NEW R, Lists(s, f, S, R), NEW x \in S
  PROVE  \E i \in 1..Len(s) : Stands(s, f, S, R, x, i)
<1>1. PICK n \in Nat : \E h : Enumerates(h, n, S, R) /\ s = [i \in 1..n |-> f[h[i]]]
  BY DEF Lists
<1>2. PICK h : Enumerates(h, n, S, R) /\ s = [i \in 1..n |-> f[h[i]]]
  BY <1>1
<1>3. Len(s) = n /\ \A i \in 1..n : s[i] = f[h[i]] /\ h[i] \in S
  BY <1>2 DEF Enumerates
<1>4. PICK i \in 1..n : h[i] = x
  BY <1>2 DEF Enumerates
<1>5. ASSUME NEW j \in 1..(i - 1) PROVE \E y \in S : s[j] = f[y] /\ <<y, x>> \in R
  <2>1. j \in 1..n /\ j < i
    OBVIOUS
  <2>2. <<h[j], h[i]>> \in R
    BY <1>2, <2>1 DEF Enumerates
  <2> QED
    BY <1>3, <1>4, <2>1, <2>2
<1>6. ASSUME NEW j \in (i + 1)..n PROVE \E y \in S : s[j] = f[y] /\ <<x, y>> \in R
  <2>1. j \in 1..n /\ i < j
    OBVIOUS
  <2>2. <<h[i], h[j]>> \in R
    BY <1>2, <2>1 DEF Enumerates
  <2> QED
    BY <1>3, <1>4, <2>1, <2>2
<1>7. Stands(s, f, S, R, x, i)
  BY <1>3, <1>4, <1>5, <1>6 DEF Stands
<1> QED
  BY <1>3, <1>7

\* A filter of a list is a list in the same order.
LEMMA ListsOnly ==
  ASSUME NEW E, NEW s \in Seq(E), NEW f, NEW S, NEW R, Lists(s, f, S, R), NEW W
  PROVE  Lists(Only(s, W), f, {x \in S : f[x] \in W}, R)
<1>1. PICK n \in Nat : \E h : Enumerates(h, n, S, R) /\ s = [i \in 1..n |-> f[h[i]]]
  BY DEF Lists
<1>2. PICK h : Enumerates(h, n, S, R) /\ s = [i \in 1..n |-> f[h[i]]]
  BY <1>1
<1>3. Len(s) = n /\ \A i \in 1..n : s[i] = f[h[i]] /\ h[i] \in S
  BY <1>2 DEF Enumerates
<1>4. PICK k \in Nat : \E m : Keeps(Only(s, W), s, W, k, m)
  BY OnlyEnumerates
<1>5. PICK m : Keeps(Only(s, W), s, W, k, m)
  BY <1>4
<1> DEFINE hits == {i \in 1..n : s[i] \in W}
           U == {x \in S : f[x] \in W}
           g == [i \in 1..k |-> h[m[i]]]
<1>6. Enumerates(m, k, hits, Upward) /\ Only(s, W) = [i \in 1..k |-> s[m[i]]]
  BY <1>3, <1>5 DEF Keeps
<1>7. \A i \in 1..k : m[i] \in hits
  BY <1>6 DEF Enumerates
<1>8. g \in [1..k -> U]
  <2>1. \A i \in 1..k : h[m[i]] \in U
    BY <1>3, <1>7
  <2> QED
    BY <2>1
<1>9. ASSUME NEW x \in U PROVE \E i \in 1..k : g[i] = x
  <2>1. PICK j \in 1..n : h[j] = x
    BY <1>2 DEF Enumerates
  <2>2. j \in hits
    BY <2>1, <1>3
  <2>3. PICK i \in 1..k : m[i] = j
    BY <2>2, <1>6 DEF Enumerates
  <2> QED
    BY <2>1, <2>3
<1>10. ASSUME NEW i \in 1..k, NEW j \in 1..k, i < j PROVE <<g[i], g[j]>> \in R
  <2>1. m[i] \in 1..n /\ m[j] \in 1..n /\ m[i] < m[j]
    BY <1>6, <1>7, <1>10 DEF Enumerates, Upward
  <2> QED
    BY <2>1, <1>2 DEF Enumerates
<1>11. Only(s, W) = [i \in 1..k |-> f[g[i]]]
  <2>1. \A i \in 1..k : s[m[i]] = f[g[i]]
    BY <1>3, <1>7
  <2> QED
    BY <2>1, <1>6
<1> HIDE DEF g, U
<1>12. Enumerates(g, k, U, R)
  BY <1>8, <1>9, <1>10 DEF Enumerates
<1> QED
  BY <1>11, <1>12 DEF Lists, U

\* There is one list of a set in an asymmetric order.
LEMMA ListsUnique ==
  ASSUME NEW s, NEW t, NEW f, NEW S, NEW R, \A x, y \in S : <<x, y>> \in R => <<y, x>> \notin R,
         Lists(s, f, S, R), Lists(t, f, S, R)
  PROVE  s = t
<1>1. PICK n \in Nat : \E h : Enumerates(h, n, S, R) /\ s = [i \in 1..n |-> f[h[i]]]
  BY DEF Lists
<1>2. PICK h : Enumerates(h, n, S, R) /\ s = [i \in 1..n |-> f[h[i]]]
  BY <1>1
<1>3. PICK k \in Nat : \E l : Enumerates(l, k, S, R) /\ t = [i \in 1..k |-> f[l[i]]]
  BY DEF Lists
<1>4. PICK l : Enumerates(l, k, S, R) /\ t = [i \in 1..k |-> f[l[i]]]
  BY <1>3
<1>5. n = k /\ h = l
  BY <1>2, <1>4, EnumerationUnique
<1> QED
  BY <1>2, <1>4, <1>5

\* A sequence lists its positions.
LEMMA ListsItself ==
  ASSUME NEW E, NEW s \in Seq(E)
  PROVE  Lists(s, s, 1..Len(s), Upward)
<1>1. PICK n \in Nat : n = Len(s)
  OBVIOUS
<1> DEFINE h == [i \in 1..n |-> i]
<1>2. Enumerates(h, n, 1..n, Upward)
  BY DEF Enumerates, Upward
<1>3. s = [i \in 1..n |-> s[h[i]]]
  BY <1>1
<1> HIDE DEF h
<1> QED
  BY <1>1, <1>2, <1>3 DEF Lists

\* Tables and orders that agree on S list the same.
LEMMA ListsSame ==
  ASSUME NEW s, NEW f, NEW g, NEW S, NEW R, NEW Q, Lists(s, f, S, R),
         \A x \in S : f[x] = g[x],
         \A x, y \in S : <<x, y>> \in R => <<x, y>> \in Q
  PROVE  Lists(s, g, S, Q)
<1>1. PICK n \in Nat : \E h : Enumerates(h, n, S, R) /\ s = [i \in 1..n |-> f[h[i]]]
  BY DEF Lists
<1>2. PICK h : Enumerates(h, n, S, R) /\ s = [i \in 1..n |-> f[h[i]]]
  BY <1>1
<1>3. \A i \in 1..n : h[i] \in S /\ f[h[i]] = g[h[i]]
  BY <1>2 DEF Enumerates
<1>4. s = [i \in 1..n |-> g[h[i]]]
  BY <1>2, <1>3
<1>5. Enumerates(h, n, S, Q)
  BY <1>2, <1>3 DEF Enumerates
<1> QED
  BY <1>4, <1>5 DEF Lists

\* What lists S and then what lists T lists both.
LEMMA ListsConcat ==
  ASSUME NEW s, NEW t, NEW f, NEW S, NEW T, NEW R, Lists(s, f, S, R), Lists(t, f, T, R),
         \A x \in S, y \in T : <<x, y>> \in R
  PROVE  Lists(s \o t, f, S \union T, R)
<1>1. PICK n \in Nat : \E h : Enumerates(h, n, S, R) /\ s = [i \in 1..n |-> f[h[i]]]
  BY DEF Lists
<1>2. PICK h : Enumerates(h, n, S, R) /\ s = [i \in 1..n |-> f[h[i]]]
  BY <1>1
<1>3. PICK k \in Nat : \E l : Enumerates(l, k, T, R) /\ t = [i \in 1..k |-> f[l[i]]]
  BY DEF Lists
<1>4. PICK l : Enumerates(l, k, T, R) /\ t = [i \in 1..k |-> f[l[i]]]
  BY <1>3
<1> DEFINE g == [i \in 1..(n + k) |-> IF i <= n THEN h[i] ELSE l[i - n]]
<1>5. /\ \A i \in 1..n : h[i] \in S
      /\ \A i \in 1..k : l[i] \in T
  BY <1>2, <1>4 DEF Enumerates
<1>6. \A i \in 1..(n + k) : i <= n \/ i - n \in 1..k
  OBVIOUS
<1>7. g \in [1..(n + k) -> S \union T] /\ n + k \in Nat
  BY <1>5, <1>6
<1>8. ASSUME NEW x \in S \union T PROVE \E i \in 1..(n + k) : g[i] = x
  <2>1. CASE x \in S
    <3>1. PICK i \in 1..n : h[i] = x
      BY <2>1, <1>2 DEF Enumerates
    <3>2. i \in 1..(n + k) /\ g[i] = x
      BY <3>1
    <3> QED
      BY <3>2
  <2>2. CASE x \in T
    <3>1. PICK i \in 1..k : l[i] = x
      BY <2>2, <1>4 DEF Enumerates
    <3>2. n + i \in 1..(n + k) /\ ~(n + i <= n) /\ (n + i) - n = i
      OBVIOUS
    <3>3. g[n + i] = x
      BY <3>1, <3>2
    <3> QED
      BY <3>2, <3>3
  <2> QED
    BY <2>1, <2>2
<1>9. ASSUME NEW i \in 1..(n + k), NEW j \in 1..(n + k), i < j PROVE <<g[i], g[j]>> \in R
  <2>1. CASE j <= n
    <3>1. i \in 1..n /\ j \in 1..n /\ g[i] = h[i] /\ g[j] = h[j]
      BY <1>9, <2>1
    <3> QED
      BY <1>9, <3>1, <1>2 DEF Enumerates
  <2>2. CASE i > n
    <3>1. i - n \in 1..k /\ j - n \in 1..k /\ i - n < j - n /\ g[i] = l[i - n] /\ g[j] = l[j - n]
      BY <1>9, <2>2
    <3> QED
      BY <3>1, <1>4 DEF Enumerates
  <2>3. CASE i <= n /\ ~(j <= n)
    <3>1. i \in 1..n /\ j - n \in 1..k /\ g[i] = h[i] /\ g[j] = l[j - n]
      BY <1>9, <2>3
    <3> QED
      BY <3>1, <1>5
  <2> QED
    BY <2>1, <2>2, <2>3
<1>10. s \o t = [i \in 1..(n + k) |-> f[g[i]]]
  <2> DEFINE E == {f[x] : x \in S \union T}
             u == [i \in 1..(n + k) |-> f[g[i]]]
  <2>1. s \in Seq(E) /\ Len(s) = n /\ \A i \in 1..n : s[i] = f[h[i]]
    BY <1>2, <1>5
  <2>2. t \in Seq(E) /\ Len(t) = k /\ \A i \in 1..k : t[i] = f[l[i]]
    BY <1>4, <1>5
  <2>3. u \in Seq(E) /\ Len(u) = n + k
    <3>1. \A i \in 1..(n + k) : g[i] \in S \union T
      BY <1>7
    <3>2. \A i \in 1..(n + k) : f[g[i]] \in E
      BY <3>1
    <3> HIDE DEF g, E
    <3> QED
      BY <3>2, <1>7
  <2> HIDE DEF E
  <2>4. /\ s \o t \in Seq(E) /\ Len(s \o t) = n + k
        /\ \A i \in 1..(n + k) : (s \o t)[i] = IF i <= n THEN s[i] ELSE t[i - n]
    BY <2>1, <2>2, ConcatProperties, ZenonT(40)
  <2>5. ASSUME NEW i \in 1..(n + k) PROVE (s \o t)[i] = u[i]
    <3>1. CASE i <= n
      BY <3>1, <2>1, <2>4, SMTT(20)
    <3>2. CASE ~(i <= n)
      <4>1. i - n \in 1..k /\ g[i] = l[i - n]
        BY <3>2
      <4> QED
        BY <3>2, <4>1, <2>2, <2>4
    <3> QED
      BY <3>1, <3>2
  <2> HIDE DEF u
  <2>6. s \o t = u
    BY <2>3, <2>4, <2>5, SeqEqual
  <2> QED
    BY <2>6 DEF u
<1> HIDE DEF g
<1>11. Enumerates(g, n + k, S \union T, R)
  BY <1>7, <1>8, <1>9 DEF Enumerates
<1> QED
  BY <1>7, <1>10, <1>11 DEF Lists

\* The places in a sequence of sequences: which sequence, which position.
Places(ss) == UNION {{i} \X (1..Len(ss[i])) : i \in 1..Len(ss)}

\* One sequence after the other, each in its order.
Lexical == {q \in (Nat \X Nat) \X (Nat \X Nat) :
              \/ q[1][1] < q[2][1]
              \/ q[1][1] = q[2][1] /\ q[1][2] < q[2][2]}

\* The element at a place.
ItemAt(ss) == [p \in Places(ss) |-> ss[p[1]][p[2]]]

\* FlattenSeq lists the elements place by place.
LEMMA FlattenLists ==
  ASSUME NEW E, NEW ss \in Seq(Seq(E))
  PROVE  Lists(FlattenSeq(ss), ItemAt(ss), Places(ss), Lexical)
<1>0. PICK n \in Nat : n = Len(ss)
  OBVIOUS
<1> DEFINE Upto(k) == UNION {{i} \X (1..Len(ss[i])) : i \in 1..k}
           f == ItemAt(ss)
<1>a. \A i \in 1..n : ss[i] \in Seq(E) /\ Len(ss[i]) \in Nat
  BY <1>0
<1>b. Upto(0) = {} /\ Upto(n) = Places(ss)
  BY <1>0 DEF Places
<1>1. ASSUME NEW b, b = <<>> PROVE Lists(b, f, Upto(0), Lexical)
  <2> DEFINE h == [i \in 1..0 |-> 0]
  <2>1. 1..0 = {}
    OBVIOUS
  <2>2. Enumerates(h, 0, {}, Lexical)
    BY <2>1 DEF Enumerates
  <2>3. b = [i \in 1..0 |-> f[h[i]]]
    BY <2>1, <1>1
  <2> HIDE DEF h, f
  <2>4. Lists(b, f, {}, Lexical)
    BY <2>2, <2>3 DEF Lists
  <2> QED
    BY <2>4, <1>b
<1>2. CASE ss = <<>>
  <2>1. n = 0 /\ FlattenSeq(ss) = <<>>
    BY <1>0, <1>2 DEF FlattenSeq
  <2> HIDE DEF Upto
  <2> QED
    BY <2>1, <1>1, <1>b
<1>3. CASE ss # <<>>
  <2>1. PICK g \in [0..Len(ss) -> Seq(E)] :
          Rows(g, <<>>, Len(ss), FlattenStep(ss, E)) /\ g[Len(ss)] = FlattenSeq(ss)
    BY <1>3, FlattenRows
  <2>2. \A k \in 1..n : g[k] = g[k - 1] \o ss[k]
    BY <1>0, <2>1, FlattenRow
  <2> DEFINE S == {k \in 0..n : Lists(g[k], f, Upto(k), Lexical)}
  <2>3. 0 \in S
    <3>1. g[0] = <<>>
      BY <2>1 DEF Rows
    <3> HIDE DEF Upto, f
    <3> QED
      BY <3>1, <1>1
  <2>4. ASSUME NEW k \in 1..n, k - 1 \in S PROVE k \in S
    <3> DEFINE P == {k} \X (1..Len(ss[k]))
               h == [i \in 1..Len(ss[k]) |-> <<k, i>>]
    <3>1. Upto(k) = Upto(k - 1) \union P
      <4>1. 1..k = (1..(k - 1)) \union {k}
        OBVIOUS
      <4> QED
        BY <4>1
    <3>2. ss[k] \in Seq(E) /\ Len(ss[k]) \in Nat
      BY <1>a
    <3>3. Enumerates(h, Len(ss[k]), P, Lexical)
      <4>1. h \in [1..Len(ss[k]) -> P]
        OBVIOUS
      <4>2. \A x \in P : \E i \in 1..Len(ss[k]) : h[i] = x
        OBVIOUS
      <4>3. ASSUME NEW i \in 1..Len(ss[k]), NEW j \in 1..Len(ss[k]), i < j
            PROVE  <<h[i], h[j]>> \in Lexical
        <5>1. h[i] = <<k, i>> /\ h[j] = <<k, j>> /\ k \in Nat /\ i \in Nat /\ j \in Nat
          BY <3>2
        <5>2. <<<<k, i>>, <<k, j>>>> \in Lexical
          BY <5>1, <4>3 DEF Lexical
        <5> QED
          BY <5>1, <5>2
      <4> HIDE DEF h, P
      <4> QED
        BY <4>1, <4>2, <4>3 DEF Enumerates
    <3>4. ss[k] = [i \in 1..Len(ss[k]) |-> f[h[i]]]
      <4>1. ASSUME NEW i \in 1..Len(ss[k]) PROVE f[h[i]] = ss[k][i]
        <5>1. h[i] = <<k, i>> /\ <<k, i>> \in Places(ss)
          BY <1>0 DEF Places
        <5> QED
          BY <5>1 DEF ItemAt
      <4> DEFINE m == Len(ss[k])
      <4>2. ss[k] = [i \in 1..m |-> ss[k][i]]
        BY <3>2, SequenceItself
      <4> HIDE DEF f, h
      <4>3. [i \in 1..m |-> f[h[i]]] = [i \in 1..m |-> ss[k][i]]
        BY <4>1
      <4> QED
        BY <4>2, <4>3
    <3>5. Lists(ss[k], f, P, Lexical)
      <4> HIDE DEF f, h, P
      <4> QED
        BY <3>2, <3>3, <3>4 DEF Lists
    <3>6. ASSUME NEW x \in Upto(k - 1), NEW y \in P PROVE <<x, y>> \in Lexical
      <4>0. PICK i \in 1..(k - 1) : x \in {i} \X (1..Len(ss[i]))
        OBVIOUS
      <4>1. PICK j \in 1..Len(ss[i]) : x = <<i, j>>
        BY <4>0
      <4>2. PICK m \in 1..Len(ss[k]) : y = <<k, m>>
        OBVIOUS
      <4>3. i \in Nat /\ k \in Nat /\ i < k /\ j \in Nat /\ m \in Nat /\ i \in 1..n
        BY <1>a
      <4>4. <<<<i, j>>, <<k, m>>>> \in Lexical
        BY <4>3 DEF Lexical
      <4> QED
        BY <4>1, <4>2, <4>4
    <3>7. Lists(g[k - 1] \o ss[k], f, Upto(k - 1) \union P, Lexical)
      <4>1. Lists(g[k - 1], f, Upto(k - 1), Lexical)
        BY <2>4
      <4> HIDE DEF Upto, f, P
      <4> QED
        BY <4>1, <3>5, <3>6, ListsConcat
    <3>8. Lists(g[k], f, Upto(k), Lexical)
      <4> HIDE DEF Upto, f, P
      <4> QED
        BY <3>1, <3>7, <2>2
    <3> HIDE DEF Upto, f
    <3> QED
      BY <3>8
  <2>5. 0..n \subseteq S
    <3> HIDE DEF S
    <3> QED
      BY <2>3, <2>4, UpTo
  <2>6. Lists(g[n], f, Upto(n), Lexical)
    <3> HIDE DEF Upto, f
    <3>1. n \in 0..n
      OBVIOUS
    <3> QED
      BY <2>5, <3>1
  <2> HIDE DEF Upto, f
  <2> QED
    BY <2>6, <2>1, <1>0, <1>b DEF f
<1> QED
  BY <1>2, <1>3

\* Sequences of at most one element each leave a list of those that have one.
LEMMA FlattenThinned ==
  ASSUME NEW E, NEW ss \in Seq(Seq(E)), NEW f, NEW S \in SUBSET (1..Len(ss)),
         \A i \in 1..Len(ss) : ss[i] = IF i \in S THEN <<f[i]>> ELSE <<>>
  PROVE  Lists(FlattenSeq(ss), f, S, Upward)
<1>a. ASSUME NEW i \in 1..Len(ss)
      PROVE  /\ i \in S => ss[i] = <<f[i]>> /\ 1..Len(ss[i]) = {1} /\ ss[i][1] = f[i]
             /\ i \notin S => 1..Len(ss[i]) = {}
  <2>1. CASE i \in S
    <3>1. ss[i] = <<f[i]>>
      BY <2>1
    <3> DEFINE e == f[i]
    <3> HIDE DEF e
    <3>2. Len(<<e>>) = 1 /\ <<e>>[1] = e
      OBVIOUS
    <3> QED
      BY <2>1, <3>1, <3>2 DEF e
  <2>2. CASE i \notin S
    <3>1. ss[i] = <<>>
      BY <2>2
    <3>2. Len(<<>>) = 0
      OBVIOUS
    <3> QED
      BY <2>2, <3>1, <3>2
  <2> QED
    BY <2>1, <2>2
<1>1. Lists(FlattenSeq(ss), ItemAt(ss), Places(ss), Lexical)
  BY FlattenLists
<1>2. PICK n \in Nat : \E h : /\ Enumerates(h, n, Places(ss), Lexical)
                              /\ FlattenSeq(ss) = [i \in 1..n |-> ItemAt(ss)[h[i]]]
  BY <1>1 DEF Lists
<1>3. PICK h : /\ Enumerates(h, n, Places(ss), Lexical)
               /\ FlattenSeq(ss) = [i \in 1..n |-> ItemAt(ss)[h[i]]]
  BY <1>2
<1>4. ASSUME NEW p \in Places(ss)
      PROVE  p[1] \in S /\ p = <<p[1], 1>> /\ ItemAt(ss)[p] = f[p[1]]
  <2>1. PICK i \in 1..Len(ss) : p \in {i} \X (1..Len(ss[i]))
    BY DEF Places
  <2>2. PICK j \in 1..Len(ss[i]) : p = <<i, j>>
    BY <2>1
  <2>3. i \in S
    BY <2>2, <1>a
  <2>4. ss[i][1] = f[i] /\ j = 1
    BY <2>2, <2>3, <1>a
  <2>5. ItemAt(ss)[p] = f[i]
    BY <2>2, <2>4 DEF ItemAt
  <2> QED
    BY <2>2, <2>3, <2>4, <2>5
<1>5. ASSUME NEW i \in S PROVE <<i, 1>> \in Places(ss)
  <2>1. i \in 1..Len(ss) /\ 1 \in 1..Len(ss[i])
    BY <1>a
  <2> QED
    BY <2>1 DEF Places
<1>6. \A i \in 1..n : h[i] \in Places(ss)
  BY <1>3 DEF Enumerates
<1> DEFINE g == [i \in 1..n |-> h[i][1]]
<1>7. g \in [1..n -> S]
  BY <1>4, <1>6
<1>8. ASSUME NEW x \in S PROVE \E i \in 1..n : g[i] = x
  <2>1. PICK i \in 1..n : h[i] = <<x, 1>>
    BY <1>3, <1>5 DEF Enumerates
  <2>2. g[i] = x
    BY <2>1
  <2> QED
    BY <2>2
<1>9. ASSUME NEW i \in 1..n, NEW j \in 1..n, i < j PROVE <<g[i], g[j]>> \in Upward
  <2>1. <<h[i], h[j]>> \in Lexical
    BY <1>3, <1>9 DEF Enumerates
  <2>2. h[i] = <<g[i], 1>> /\ h[j] = <<g[j], 1>>
    BY <1>4, <1>6
  <2>3. g[i] < g[j] /\ g[i] \in Nat /\ g[j] \in Nat
    <3>1. g[i] \in 1..Len(ss) /\ g[j] \in 1..Len(ss)
      BY <1>7
    <3>2. g[i] \in Nat /\ g[j] \in Nat
      BY <3>1
    <3> HIDE DEF g
    <3> QED
      BY <2>1, <2>2, <3>2 DEF Lexical
  <2> QED
    BY <2>3 DEF Upward
<1>10. FlattenSeq(ss) = [i \in 1..n |-> f[g[i]]]
  BY <1>3, <1>4, <1>6
<1>11. Enumerates(g, n, S, Upward)
  <2> HIDE DEF g
  <2> QED
    BY <1>7, <1>8, <1>9 DEF Enumerates
<1> HIDE DEF g
<1> QED
  BY <1>10, <1>11 DEF Lists

\* Sequences of one element each.
LEMMA FlattenSingles ==
  ASSUME NEW E, NEW n \in Nat, NEW f \in [1..n -> E], NEW ss, ss = [i \in 1..n |-> <<f[i]>>]
  PROVE  FlattenSeq(ss) = f
<1>1. ss \in Seq(Seq(E)) /\ Len(ss) = n
  <2>1. \A i \in 1..n : <<f[i]>> \in Seq(E)
    OBVIOUS
  <2> QED
    BY <2>1
<1>2. \A i \in 1..n : ss[i] = <<f[i]>>
  OBVIOUS
<1>3. Lists(FlattenSeq(ss), f, 1..n, Upward)
  BY <1>1, <1>2, FlattenThinned
<1>4. f \in Seq(E) /\ Len(f) = n
  OBVIOUS
<1>5. Lists(f, f, 1..n, Upward)
  BY <1>4, ListsItself
<1>6. \A x, y \in 1..n : <<x, y>> \in Upward => <<y, x>> \notin Upward
  BY DEF Upward
<1> QED
  BY <1>3, <1>5, <1>6, ListsUnique

\* What is in a sequence of sequences is in their concatenation.
LEMMA FlattenTyped ==
  ASSUME NEW E, NEW ss \in Seq(Seq(E))
  PROVE  FlattenSeq(ss) \in Seq(E)
<1>1. Lists(FlattenSeq(ss), ItemAt(ss), Places(ss), Lexical)
  BY FlattenLists
<1>2. ASSUME NEW p \in Places(ss) PROVE ItemAt(ss)[p] \in E
  <2>1. PICK i \in 1..Len(ss) : p \in {i} \X (1..Len(ss[i]))
    BY DEF Places
  <2>2. PICK j \in 1..Len(ss[i]) : p = <<i, j>>
    BY <2>1
  <2>3. ss[i] \in Seq(E)
    OBVIOUS
  <2>4. ss[i][j] \in E
    BY <2>3
  <2> QED
    BY <2>2, <2>4 DEF ItemAt
<1> QED
  BY <1>1, <1>2, ListsMembers

\* Min of positions.
LEMMA MinIsFirst ==
  ASSUME NEW n \in Nat, NEW s \in SUBSET (1..n), s # {}
  PROVE  Min(s) \in s /\ \A i \in s : Min(s) <= i
BY MinUpTo DEF Min

-----------------------------------------------------------------------------
(* Filters of concatenations. *)

\* All of s is kept, or nothing.
LEMMA OnlyAllOrNone ==
  ASSUME NEW E, NEW s \in Seq(E), NEW W
  PROVE  /\ (\A i \in 1..Len(s) : s[i] \in W) => Only(s, W) = s
         /\ (\A i \in 1..Len(s) : s[i] \notin W) => Only(s, W) = <<>>
<1>1. PICK n \in Nat : n = Len(s)
  OBVIOUS
<1> DEFINE T == Seq(E)
<1>2. PICK a : Filters(a, s, n, W, T)
  BY <1>1, OnlyTable
<1>3. ASSUME \A i \in 1..n : s[i] \in W PROVE Only(s, W) = s
  <2> DEFINE S == {k \in 0..n : a[k] = SubSeq(s, 1, k)}
  <2>1. 0 \in S
    BY <1>2, SubSeqEmpty DEF Filters
  <2>2. ASSUME NEW k \in 1..n, k - 1 \in S PROVE k \in S
    <3>1. a[k] = Append(SubSeq(s, 1, k - 1), s[k])
      BY <1>2, <1>3, <2>2 DEF Filters
    <3>2. /\ SubSeq(s, 1, k - 1) \in Seq(E) /\ s[k] \in E
          /\ SubSeq(s, 1, k) = SubSeq(s, 1, k - 1) \o <<s[k]>>
      <4>1. 1 \in 1..Len(s) /\ k \in 1..Len(s) /\ \A i \in 1..(k - 1) : s[i] \in E
        BY <1>1
      <4> QED
        BY <4>1, SubSeqRecursiveSecond, SubSeqProperties
    <3>3. Append(SubSeq(s, 1, k - 1), s[k]) = SubSeq(s, 1, k - 1) \o <<s[k]>>
      BY <3>2, AppendIsConcat
    <3> QED
      BY <3>1, <3>2, <3>3
  <2>3. 0..n \subseteq S
    <3> HIDE DEF S
    <3> QED
      BY <2>1, <2>2, UpTo
  <2>4. a[n] = SubSeq(s, 1, n)
    BY <2>3
  <2> QED
    BY <1>1, <1>2, <2>4, SubSeqFull DEF Filters
<1>4. ASSUME \A i \in 1..n : s[i] \notin W PROVE Only(s, W) = <<>>
  <2> DEFINE S == {k \in 0..n : a[k] = <<>>}
  <2> HIDE DEF T
  <2>1. 0 \in S
    BY <1>2 DEF Filters
  <2>2. ASSUME NEW k \in 1..n, k - 1 \in S PROVE k \in S
    <3>1. a[k] = a[k - 1]
      BY <1>2, <1>4 DEF Filters
    <3> QED
      BY <2>2, <3>1
  <2>3. 0..n \subseteq S
    <3> HIDE DEF S
    <3> QED
      BY <2>1, <2>2, UpTo
  <2> QED
    BY <1>2, <2>3 DEF Filters
<1> QED
  BY <1>1, <1>3, <1>4

\* What is appended to a concatenation is appended to its second part.
LEMMA ConcatAppend ==
  ASSUME NEW E, NEW s \in Seq(E), NEW t \in Seq(E), NEW e \in E
  PROVE  s \o Append(t, e) = Append(s \o t, e)
<1>1. <<e>> \in Seq(E) /\ s \o t \in Seq(E)
  OBVIOUS
<1>2. Append(t, e) = t \o <<e>> /\ Append(s \o t, e) = (s \o t) \o <<e>>
  BY <1>1, AppendIsConcat
<1>3. (s \o t) \o <<e>> = s \o (t \o <<e>>)
  BY <1>1, ConcatAssociative
<1> QED
  BY <1>2, <1>3

\* A concatenation is filtered part by part.
LEMMA OnlyConcat ==
  ASSUME NEW E, NEW s \in Seq(E), NEW t \in Seq(E), NEW W
  PROVE  Only(s \o t, W) = Only(s, W) \o Only(t, W)
<1>1. PICK n \in Nat : n = Len(s)
  OBVIOUS
<1>2. PICK k \in Nat : k = Len(t)
  OBVIOUS
<1> DEFINE u == s \o t
           T == Seq(E)
<1>3. u \in T /\ Len(u) = n + k
  BY <1>1, <1>2, ConcatProperties
<1>4. \A i \in 1..(n + k) : u[i] = IF i <= n THEN s[i] ELSE t[i - n]
  BY <1>1, <1>2, ConcatProperties
<1>5. PICK a : Filters(a, s, n, W, T)
  BY <1>1, OnlyTable
<1>6. PICK b : Filters(b, t, k, W, T)
  BY <1>2, OnlyTable
<1>7. PICK c : Filters(c, u, n + k, W, T)
  <2>1. u \in Seq(E) /\ n + k \in Nat /\ n + k = Len(u)
    BY <1>3
  <2> HIDE DEF u
  <2> QED
    BY <2>1, OnlyTable
<1>8. \A x, y \in T : \A e \in E : x \o Append(y, e) = Append(x \o y, e)
  BY ConcatAppend
<1>9. \A x \in T : x \o <<>> = x
  BY ConcatEmptySeq
<1>10. \A i \in 1..k : t[i] \in E
  BY <1>2
<1> HIDE DEF u, T
<1>11. c[n] = a[n]
  <2> DEFINE S == {j \in 0..n : c[j] = a[j]}
  <2>1. 0 \in S
    BY <1>5, <1>7 DEF Filters
  <2>2. ASSUME NEW j \in 1..n, j - 1 \in S PROVE j \in S
    <3>1. j \in 1..(n + k) /\ u[j] = s[j] /\ c[j - 1] = a[j - 1]
      BY <1>4, <2>2
    <3> QED
      BY <3>1, <1>5, <1>7 DEF Filters
  <2>3. 0..n \subseteq S
    <3> HIDE DEF S
    <3> QED
      BY <2>1, <2>2, UpTo
  <2> QED
    BY <2>3
<1>12. c[n + k] = a[n] \o b[k]
  <2> DEFINE S == {j \in 0..k : c[n + j] = a[n] \o b[j]}
  <2>1. 0 \in S
    <3>1. a[n] \in T /\ n + 0 = n /\ b[0] = <<>> /\ 0 \in 0..k
      BY <1>5, <1>6 DEF Filters
    <3>2. c[n + 0] = a[n] /\ a[n] \o b[0] = a[n]
      BY <3>1, <1>9, <1>11
    <3> QED
      BY <3>1, <3>2
  <2>2. ASSUME NEW j \in 1..k, j - 1 \in S PROVE j \in S
    <3>1. n + j \in 1..(n + k) /\ (n + j) - n = j /\ ~(n + j <= n) /\ (n + j) - 1 = n + (j - 1)
      OBVIOUS
    <3>2. u[n + j] = t[j] /\ c[n + (j - 1)] = a[n] \o b[j - 1]
      BY <1>4, <2>2, <3>1
    <3>3. c[n + j] = IF t[j] \in W THEN Append(a[n] \o b[j - 1], t[j]) ELSE a[n] \o b[j - 1]
      BY <3>1, <3>2, <1>7 DEF Filters
    <3>4. b[j] = IF t[j] \in W THEN Append(b[j - 1], t[j]) ELSE b[j - 1]
      BY <1>6 DEF Filters
    <3>5. a[n] \in T /\ b[j - 1] \in T
      BY <1>5, <1>6 DEF Filters
    <3>6. a[n] \o Append(b[j - 1], t[j]) = Append(a[n] \o b[j - 1], t[j])
      BY <3>5, <1>8, <1>10
    <3>7. c[n + j] = a[n] \o b[j]
      BY <3>3, <3>4, <3>6
    <3>8. j \in 0..k
      OBVIOUS
    <3> QED
      BY <3>7, <3>8
  <2>3. 0..k \subseteq S
    <3> HIDE DEF S
    <3> QED
      BY <2>1, <2>2, UpTo
  <2>4. k \in 0..k
    OBVIOUS
  <2> QED
    BY <2>3, <2>4
<1> QED
  BY <1>5, <1>6, <1>7, <1>11, <1>12 DEF Filters, u

\* A filter does not see lines it drops become others it drops.
LEMMA OnlyPieces ==
  ASSUME NEW E, NEW ss \in Seq(Seq(E)), NEW f \in Seq(E), NEW n \in Nat, n = Len(ss), n = Len(f), NEW W,
         \A i \in 1..n : \/ ss[i] = <<f[i]>>
                         \/ f[i] \notin W /\ \A j \in 1..Len(ss[i]) : ss[i][j] \notin W
  PROVE  Only(FlattenSeq(ss), W) = Only(f, W)
<1>1. CASE ss = <<>>
  <2>1. FlattenSeq(ss) = <<>> /\ f = <<>>
    <3>1. Len(ss) = 0
      BY <1>1
    <3>2. f = <<>>
      BY <3>1, EmptySeq
    <3>3. FlattenSeq(ss) = <<>>
      BY <1>1, <3>1 DEF FlattenSeq
    <3> QED
      BY <3>2, <3>3
  <2> QED
    BY <2>1
<1>2. CASE ss # <<>>
  <2> DEFINE T == Seq(E)
  <2>1. PICK g \in [0..n -> T] : Rows(g, <<>>, n, FlattenStep(ss, E)) /\ g[n] = FlattenSeq(ss)
    BY <1>2, FlattenRows
  <2>2. PICK a : Filters(a, f, n, W, T)
    BY OnlyTable
  <2>3. ASSUME NEW k \in 1..n PROVE g[k - 1] \in T /\ ss[k] \in T /\ g[k] = g[k - 1] \o ss[k]
    <3>1. g \in [0..Len(ss) -> Seq(E)] /\ Rows(g, <<>>, Len(ss), FlattenStep(ss, E)) /\ k \in 1..Len(ss)
      BY <2>1
    <3> QED
      BY <3>1, FlattenRow
  <2>4. \A i \in 1..n : f[i] \in E
    OBVIOUS
  <2>5. g[0] = <<>>
    BY <2>1 DEF Rows
  <2> DEFINE S == {k \in 0..n : Only(g[k], W) = a[k]}
  <2>6. 0 \in S
    <3>1. g[0] \in T /\ Len(g[0]) = 0
      BY <2>5
    <3>2. Only(g[0], W) = <<>>
      <4> HIDE DEF T
      <4>1. Only(g[0], W) = g[0]
        BY <3>1, OnlyAllOrNone DEF T
      <4> QED
        BY <4>1, <2>5
    <3> QED
      BY <3>2, <2>2 DEF Filters
  <2>7. ASSUME NEW k \in 1..n, k - 1 \in S PROVE k \in S
    <3>0. k \in 0..n
      OBVIOUS
    <3>1. Only(g[k], W) = Only(g[k - 1], W) \o Only(ss[k], W)
      <4>1. g[k - 1] \in Seq(E) /\ ss[k] \in Seq(E) /\ g[k] = g[k - 1] \o ss[k]
        BY <2>3
      <4>2. Only(g[k - 1] \o ss[k], W) = Only(g[k - 1], W) \o Only(ss[k], W)
        <5>1. \A x, y \in Seq(E) : Only(x \o y, W) = Only(x, W) \o Only(y, W)
          BY OnlyConcat
        <5> QED
          BY <4>1, <5>1
      <4> QED
        BY <4>1, <4>2
    <3>2. Only(g[k - 1], W) = a[k - 1] /\ a[k - 1] \in T
      BY <2>2, <2>7 DEF Filters
    <3>3. a[k] = IF f[k] \in W THEN Append(a[k - 1], f[k]) ELSE a[k - 1]
      BY <2>2 DEF Filters
    <3>4. CASE f[k] \in W
      <4>1. ss[k] = <<f[k]>> /\ ss[k] \in T /\ \A j \in 1..Len(ss[k]) : ss[k][j] \in W
        <5>1. ss[k] = <<f[k]>>
          BY <3>4
        <5>2. \A j \in 1..Len(<<f[k]>>) : <<f[k]>>[j] \in W
          BY <3>4
        <5> QED
          BY <2>3, <5>1, <5>2
      <4>2. Only(ss[k], W) = <<f[k]>>
        BY <4>1, OnlyAllOrNone
      <4>3. Append(a[k - 1], f[k]) = a[k - 1] \o <<f[k]>>
        BY <2>4, <3>2, AppendIsConcat
      <4> QED
        BY <3>1, <3>2, <3>3, <3>4, <4>2, <4>3, <3>0
    <3>5. CASE f[k] \notin W
      <4>1. ss[k] \in T /\ \A j \in 1..Len(ss[k]) : ss[k][j] \notin W
        <5>1. \A j \in 1..Len(ss[k]) : ss[k][j] \notin W
          <6>1. CASE ss[k] = <<f[k]>>
            <7>1. \A j \in 1..Len(<<f[k]>>) : <<f[k]>>[j] \notin W
              BY <3>5
            <7> QED
              BY <6>1, <7>1
          <6> QED
            BY <6>1
        <5> QED
          BY <2>3, <5>1
      <4>2. Only(ss[k], W) = <<>>
        BY <4>1, OnlyAllOrNone
      <4>3. a[k - 1] \o <<>> = a[k - 1]
        BY <3>2, ConcatEmptySeq
      <4> QED
        BY <3>1, <3>2, <3>3, <3>5, <4>2, <4>3, <3>0
    <3> QED
      BY <3>4, <3>5
  <2>8. 0..n \subseteq S
    <3> HIDE DEF S
    <3> QED
      BY <2>6, <2>7, UpTo
  <2>9. n \in 0..n
    OBVIOUS
  <2> QED
    BY <2>1, <2>2, <2>8, <2>9 DEF Filters
<1> QED
  BY <1>1, <1>2

-----------------------------------------------------------------------------
(* Filters and lists. *)

\* A filter keeps what it is given, in the type it had.
LEMMA OnlyTyped ==
  ASSUME NEW E, NEW s \in Seq(E), NEW W
  PROVE  Only(s, W) \in Seq(E) /\ Only(s, W) \in Seq(E \cap W)
<1>1. Only(s, W) \in Seq(E \cap W)
  BY OnlyKeeps
<1> QED
  BY <1>1

\* Sets with the same members of s leave the same of it.
LEMMA OnlyAgrees ==
  ASSUME NEW E, NEW s \in Seq(E), NEW W, NEW V, \A i \in 1..Len(s) : s[i] \in W <=> s[i] \in V
  PROVE  Only(s, W) = Only(s, V)
<1> DEFINE I == {x \in 1..Len(s) : s[x] \in W}
           J == {x \in 1..Len(s) : s[x] \in V}
<1>1. Lists(s, s, 1..Len(s), Upward)
  BY ListsItself
<1>2. Lists(Only(s, W), s, I, Upward) /\ Lists(Only(s, V), s, J, Upward)
  BY <1>1, ListsOnly
<1>3. I = J
  OBVIOUS
<1> HIDE DEF I, J
<1>4. \A x, y \in I : <<x, y>> \in Upward => <<y, x>> \notin Upward
  BY DEF Upward
<1> QED
  BY <1>2, <1>3, <1>4, ListsUnique

\* Two filters are one.
LEMMA OnlyTwice ==
  ASSUME NEW E, NEW s \in Seq(E), NEW V, NEW W, NEW U,
         \A i \in 1..Len(s) : s[i] \in U <=> s[i] \in V /\ s[i] \in W
  PROVE  Only(Only(s, V), W) = Only(s, U)
<1> DEFINE D == 1..Len(s)
           t == Only(s, V)
           S == {i \in D : s[i] \in V}
<1>1. Lists(s, s, D, Upward)
  BY ListsItself
<1>2. Lists(t, s, S, Upward)
  BY <1>1, ListsOnly
<1>3. \A i \in S : s[i] \in E
  OBVIOUS
<1>4. t \in Seq(E)
  <2> HIDE DEF t, S
  <2> QED
    BY <1>2, <1>3, ListsMembers
<1>5. Lists(Only(t, W), s, {i \in S : s[i] \in W}, Upward)
  <2> HIDE DEF t, S
  <2> QED
    BY <1>2, <1>4, ListsOnly
<1>6. Lists(Only(s, U), s, {i \in D : s[i] \in U}, Upward)
  <2> HIDE DEF D
  <2> QED
    BY <1>1, ListsOnly
<1>7. {i \in S : s[i] \in W} = {i \in D : s[i] \in U}
  OBVIOUS
<1>8. \A i, j \in {i \in D : s[i] \in U} : <<i, j>> \in Upward => <<j, i>> \notin Upward
  BY DEF Upward
<1> HIDE DEF t, S, D
<1> QED
  BY <1>5, <1>6, <1>7, <1>8, ListsUnique DEF t

\* A list of lines of g is one of the lines of f they are from.
LEMMA ListsFrom ==
  ASSUME NEW s, NEW g, NEW S, S \subseteq Nat, Lists(s, g, S, Upward), NEW f, NEW T, T \subseteq Nat, NEW h,
         \A x \in S : h[x] \in T /\ g[x] = f[h[x]],
         \A y \in T : \E x \in S : h[x] = y,
         \A x, y \in S : x < y => h[x] < h[y]
  PROVE  Lists(s, f, T, Upward)
<1>10. PICK n \in Nat : \E m : Enumerates(m, n, S, Upward) /\ s = [i \in 1..n |-> g[m[i]]]
  BY DEF Lists
<1>1. PICK m : Enumerates(m, n, S, Upward) /\ s = [i \in 1..n |-> g[m[i]]]
  BY <1>10
<1>2. /\ m \in [1..n -> S]
      /\ \A x \in S : \E i \in 1..n : m[i] = x
      /\ \A i, j \in 1..n : i < j => m[i] < m[j]
  BY <1>1 DEF Enumerates, Upward
<1> DEFINE l == [i \in 1..n |-> h[m[i]]]
<1>3. l \in [1..n -> T]
  BY <1>2
<1>4. \A y \in T : \E i \in 1..n : l[i] = y
  BY <1>2
<1>5. \A i, j \in 1..n : i < j => <<l[i], l[j]>> \in Upward
  <2> SUFFICES ASSUME NEW i \in 1..n, NEW j \in 1..n, i < j PROVE <<l[i], l[j]>> \in Upward
    OBVIOUS
  <2>1. m[i] \in S /\ m[j] \in S /\ m[i] < m[j]
    BY <1>2
  <2>2. l[i] < l[j] /\ l[i] \in Nat /\ l[j] \in Nat
    BY <2>1, <1>3
  <2> QED
    BY <2>2 DEF Upward
<1>6. s = [i \in 1..n |-> f[l[i]]]
  BY <1>1, <1>2
<1> HIDE DEF l
<1>7. Enumerates(l, n, T, Upward)
  BY <1>3, <1>4, <1>5 DEF Enumerates
<1> QED
  BY <1>6, <1>7 DEF Lists

\* A part of a sequence lists its positions.
LEMMA SubSeqLists ==
  ASSUME NEW E, NEW f \in Seq(E), NEW i \in 1..Len(f), NEW j \in i..Len(f)
  PROVE  SubSeq(f, i, j) \in Seq(E) /\ Lists(SubSeq(f, i, j), f, i..j, Upward)
<1>1. PICK n \in Nat : n = Len(f)
  OBVIOUS
<1>2. i \in 1..n /\ j \in 1..n /\ i <= j
  BY <1>1
<1> DEFINE m == [x \in 1..(j - i + 1) |-> i + x - 1]
<1>3. j - i + 1 \in Nat
  BY <1>2
<1>4. SubSeq(f, i, j) = [x \in 1..(j - i + 1) |-> f[i + x - 1]]
  BY <1>2
<1>5. SubSeq(f, i, j) \in Seq(E)
  BY <1>1, <1>2
<1>6. m \in [1..(j - i + 1) -> i..j]
  BY <1>2
<1>7. \A x \in i..j : \E y \in 1..(j - i + 1) : m[y] = x
  <2> TAKE x \in i..j
  <2>1. x - i + 1 \in 1..(j - i + 1) /\ m[x - i + 1] = x
    BY <1>2
  <2> QED
    BY <2>1
<1>8. \A x, y \in 1..(j - i + 1) : x < y => <<m[x], m[y]>> \in Upward
  BY <1>2 DEF Upward
<1>9. SubSeq(f, i, j) = [x \in 1..(j - i + 1) |-> f[m[x]]]
  BY <1>4
<1> HIDE DEF m
<1> QED
  BY <1>3, <1>5, <1>6, <1>7, <1>8, <1>9 DEF Lists, Enumerates

\* The sequences over a set are among those over a larger one.
LEMMA SeqMono ==
  ASSUME NEW A, NEW B, A \subseteq B, NEW f \in Seq(A)
  PROVE  f \in Seq(B)
OBVIOUS

\* m[j] is the place line j of g is from: each once, and side by side.
Placed(g, ss, n, m) ==
  /\ n = Len(g) /\ m \in [1..n -> Places(ss)]
  /\ \A x \in Places(ss) : \E j \in 1..n : m[j] = x
  /\ \A i, j \in 1..n : m[i] = m[j] => i = j
  /\ \A j \in 1..n : g[j] = ss[m[j][1]][m[j][2]]
  /\ \A j \in 1..n : m[j][2] < Len(ss[m[j][1]]) =>
       j + 1 \in 1..n /\ m[j + 1] = <<m[j][1], m[j][2] + 1>>

\* The places of the lines of a concatenation, in their order.
LEMMA FlattenPlaced ==
  ASSUME NEW E, NEW ss \in Seq(Seq(E))
  PROVE  \E n \in Nat : \E m : Placed(FlattenSeq(ss), ss, n, m)
<1> DEFINE P == Places(ss)
           I == ItemAt(ss)
           g == FlattenSeq(ss)
<1>1. PICK k \in Nat : k = Len(ss)
  OBVIOUS
<1>2. PICK n \in Nat : \E m : Enumerates(m, n, P, Lexical) /\ g = [i \in 1..n |-> I[m[i]]]
  BY FlattenLists DEF Lists
<1>3. PICK m : Enumerates(m, n, P, Lexical) /\ g = [i \in 1..n |-> I[m[i]]]
  BY <1>2
<1>4. ASSUME NEW x \in P
      PROVE  /\ x[1] \in 1..k /\ x[2] \in 1..Len(ss[x[1]]) /\ x = <<x[1], x[2]>>
             /\ I[x] = ss[x[1]][x[2]] /\ x[1] \in Nat /\ x[2] \in Nat
  <2>1. PICK i \in 1..Len(ss) : x \in {i} \X (1..Len(ss[i]))
    BY DEF Places
  <2> QED
    BY <2>1, <1>1 DEF ItemAt
<1>5. m \in [1..n -> P] /\ (\A x \in P : \E i \in 1..n : m[i] = x)
      /\ \A i, j \in 1..n : i < j => <<m[i], m[j]>> \in Lexical
  BY <1>3 DEF Enumerates
<1>6. Len(g) = n /\ \A j \in 1..n : g[j] = I[m[j]]
  BY <1>3
<1>7. ASSUME NEW i \in 1..k, NEW c \in 1..Len(ss[i]) PROVE <<i, c>> \in P
  BY <1>1 DEF Places
<1> HIDE DEF P, I, g
<1>8. ASSUME NEW i \in 1..n, NEW j \in 1..n, i < j
      PROVE  m[i][1] < m[j][1] \/ (m[i][1] = m[j][1] /\ m[i][2] < m[j][2])
  BY <1>5, <1>8 DEF Lexical
<1>9. ASSUME NEW i \in 1..n, NEW j \in 1..n, m[i] = m[j] PROVE i = j
  <2>1. m[i] \in P /\ m[j] \in P
    BY <1>5
  <2>2. m[i][1] \in Nat /\ m[i][2] \in Nat
    BY <2>1, <1>4
  <2>3. m[j][1] = m[i][1] /\ m[j][2] = m[i][2]
    BY <1>9
  <2>4. ~(i < j)
    <3> SUFFICES ASSUME i < j PROVE FALSE
      OBVIOUS
    <3>1. m[i][1] < m[j][1] \/ (m[i][1] = m[j][1] /\ m[i][2] < m[j][2])
      BY <1>8
    <3> QED
      BY <2>2, <2>3, <3>1
  <2>5. ~(j < i)
    <3> SUFFICES ASSUME j < i PROVE FALSE
      OBVIOUS
    <3>1. m[j][1] < m[i][1] \/ (m[j][1] = m[i][1] /\ m[j][2] < m[i][2])
      BY <1>8
    <3> QED
      BY <2>2, <2>3, <3>1
  <2> QED
    BY <2>4, <2>5
<1>10. ASSUME NEW j \in 1..n, m[j][2] < Len(ss[m[j][1]])
       PROVE  j + 1 \in 1..n /\ m[j + 1] = <<m[j][1], m[j][2] + 1>>
  <2> DEFINE a == m[j][1]
             c == m[j][2]
             x == <<a, c + 1>>
  <2>1. m[j] \in P
    BY <1>5
  <2>2. a \in 1..k /\ c \in 1..Len(ss[a]) /\ a \in Nat /\ c \in Nat /\ Len(ss[a]) \in Nat
    <3>1. a \in 1..k /\ c \in 1..Len(ss[a]) /\ a \in Nat /\ c \in Nat
      BY <2>1, <1>4
    <3>2. ss[a] \in Seq(E)
      BY <3>1, <1>1
    <3> QED
      BY <3>1, <3>2
  <2>3. c + 1 \in 1..Len(ss[a])
    BY <2>2, <1>10
  <2>4. x \in P
    BY <2>2, <2>3, <1>7
  <2>5. PICK i \in 1..n : m[i] = x
    BY <2>4, <1>5
  <2>6. m[i][1] = a /\ m[i][2] = c + 1
    BY <2>5
  <2> HIDE DEF x
  <2>7. j < i
    <3>1. ~(i < j)
      BY <2>2, <2>6, <1>8
    <3>2. i # j
      BY <2>2, <2>6
    <3> QED
      BY <3>1, <3>2
  <2>8. i = j + 1
    <3> SUFFICES ASSUME j + 1 < i PROVE FALSE
      BY <2>7
    <3> DEFINE y == j + 1
    <3>1. y \in 1..n /\ j < y /\ y < i
      OBVIOUS
    <3> HIDE DEF y
    <3>2. m[y] \in P
      BY <3>1, <1>5
    <3>3. m[y][1] \in Nat /\ m[y][2] \in Nat
      BY <3>2, <1>4
    <3>4. a < m[y][1] \/ (a = m[y][1] /\ c < m[y][2])
      BY <3>1, <1>8
    <3>5. m[y][1] < a \/ (m[y][1] = a /\ m[y][2] < c + 1)
      BY <3>1, <2>6, <1>8
    <3> QED
      BY <3>3, <3>4, <3>5, <2>2
  <2> QED
    BY <2>5, <2>8 DEF x
<1>11. \A j \in 1..n : g[j] = ss[m[j][1]][m[j][2]]
  BY <1>4, <1>5, <1>6
<1>12. Placed(g, ss, n, m)
  BY <1>5, <1>6, <1>9, <1>10, <1>11 DEF Placed, P
<1> QED
  BY <1>12 DEF g

-----------------------------------------------------------------------------
(* What is drawn from a sequence: some of its elements, in its order. *)

\* The n lines of g are the lines D of f, line j being line h[j].
Drawn(g, f, h, D, n) ==
  /\ n \in Nat /\ Len(g) = n /\ D \subseteq 1..Len(f) /\ h \in [1..n -> D]
  /\ \A x \in D : \E j \in 1..n : h[j] = x
  /\ \A i, j \in 1..n : i < j => h[i] < h[j]
  /\ \A j \in 1..n : g[j] = f[h[j]]

\* A list of elements of f, in their order, is drawn from it.
LEMMA DrawnIs ==
  ASSUME NEW E, NEW f \in Seq(E), NEW g, NEW D, D \subseteq 1..Len(f), Lists(g, f, D, Upward)
  PROVE  \E h : \E n : Drawn(g, f, h, D, n)
<1>10. PICK n \in Nat : \E h : Enumerates(h, n, D, Upward) /\ g = [i \in 1..n |-> f[h[i]]]
  BY DEF Lists
<1>1. PICK h : Enumerates(h, n, D, Upward) /\ g = [i \in 1..n |-> f[h[i]]]
  BY <1>10
<1>2. /\ h \in [1..n -> D]
      /\ \A x \in D : \E i \in 1..n : h[i] = x
      /\ \A i, j \in 1..n : i < j => h[i] < h[j]
  BY <1>1 DEF Enumerates, Upward
<1>3. Len(g) = n /\ \A j \in 1..n : g[j] = f[h[j]]
  BY <1>1
<1> QED
  BY <1>2, <1>3 DEF Drawn

\* A filter draws lines.
LEMMA OnlyDrawn ==
  ASSUME NEW E, NEW f \in Seq(E), NEW W
  PROVE  \E h, n : Drawn(Only(f, W), f, h, {i \in 1..Len(f) : f[i] \in W}, n)
<1>1. Lists(f, f, 1..Len(f), Upward)
  BY ListsItself
<1>2. Lists(Only(f, W), f, {i \in 1..Len(f) : f[i] \in W}, Upward)
  BY <1>1, ListsOnly
<1> QED
  BY <1>2, DrawnIs

\* Where all lines of W are drawn, a filter for them sees no difference.
LEMMA OnlySame ==
  ASSUME NEW E, NEW f \in Seq(E), NEW g \in Seq(E), NEW h, NEW D, NEW n, Drawn(g, f, h, D, n),
         NEW W, \A i \in 1..Len(f) : f[i] \in W => i \in D
  PROVE  Only(g, W) = Only(f, W)
<1> DEFINE I == {i \in 1..Len(f) : f[i] \in W}
           J == {j \in 1..Len(g) : g[j] \in W}
<1>1. PICK L \in Nat : L = Len(f)
  OBVIOUS
<1>2. /\ n \in Nat /\ Len(g) = n /\ h \in [1..n -> D] /\ D \subseteq 1..L
      /\ \A x \in D : \E y \in 1..n : h[y] = x
      /\ \A a, b \in 1..n : a < b => h[a] < h[b]
      /\ \A y \in 1..n : g[y] = f[h[y]]
  BY <1>1 DEF Drawn
<1>3. Lists(f, f, 1..Len(f), Upward) /\ Lists(g, g, 1..Len(g), Upward)
  BY ListsItself
<1>4. Lists(Only(f, W), f, I, Upward)
  BY <1>3, ListsOnly
<1>5. Lists(Only(g, W), g, J, Upward)
  BY <1>3, ListsOnly
<1>6. \A x \in J : h[x] \in I /\ g[x] = f[h[x]]
  BY <1>1, <1>2
<1>7. \A y \in I : \E x \in J : h[x] = y
  BY <1>1, <1>2
<1>8. \A x, y \in J : x < y => h[x] < h[y]
  BY <1>2
<1>9. I \subseteq Nat /\ J \subseteq Nat
  OBVIOUS
<1>10. \A x, y \in I : <<x, y>> \in Upward => <<y, x>> \notin Upward
  BY DEF Upward
<1> HIDE DEF I, J
<1>11. Lists(Only(g, W), f, I, Upward)
  BY <1>5, <1>6, <1>7, <1>8, <1>9, ListsFrom
<1> QED
  BY <1>4, <1>10, <1>11, ListsUnique

\* Where the first e lines are drawn, they are the first of the file.
LEMMA DrawnPrefix ==
  ASSUME NEW f, NEW g, NEW h, NEW D, NEW n, Drawn(g, f, h, D, n), NEW e \in Nat, 1..e \subseteq D
  PROVE  e <= n /\ \A i \in 1..e : h[i] = i /\ g[i] = f[i]
<1>1. /\ n \in Nat /\ h \in [1..n -> D] /\ D \subseteq 1..Len(f)
      /\ \A x \in D : \E y \in 1..n : h[y] = x
      /\ \A a, b \in 1..n : a < b => h[a] < h[b]
      /\ \A y \in 1..n : g[y] = f[h[y]]
  BY DEF Drawn
<1>2. \A y \in 1..n : h[y] \in Nat /\ h[y] >= 1
  <2>1. \A x \in D : x \in Nat /\ x >= 1
    BY <1>1
  <2> QED
    BY <2>1, <1>1
<1> DEFINE S == {k \in 0..e : k <= n /\ \A i \in 1..k : h[i] = i}
<1>3. 0 \in S
  BY <1>1
<1>4. ASSUME NEW k \in 1..e, k - 1 \in S PROVE k \in S
  <2>1. k - 1 <= n /\ \A i \in 1..(k - 1) : h[i] = i
    BY <1>4
  <2>2. k \in D
    OBVIOUS
  <2>3. PICK j \in 1..n : h[j] = k
    BY <2>2, <1>1
  <2>4. ~(j < k)
    <3> SUFFICES ASSUME j < k PROVE FALSE
      OBVIOUS
    <3>1. j \in 1..(k - 1)
      BY <1>1
    <3> QED
      BY <3>1, <2>1, <2>3
  <2>5. k \in 1..n
    BY <2>3, <2>4, <1>1
  <2>6. h[k] >= k
    <3>1. CASE k = 1
      BY <3>1, <2>5, <1>2
    <3>2. CASE k > 1
      <4>1. k - 1 \in 1..n /\ k - 1 \in 1..(k - 1)
        BY <3>2, <2>5, <1>1
      <4>2. h[k - 1] = k - 1 /\ h[k - 1] < h[k]
        BY <4>1, <2>1, <2>5, <1>1
      <4> QED
        BY <4>2, <2>5, <1>2
    <3> QED
      BY <3>1, <3>2
  <2>7. h[k] = k
    <3>1. j = k \/ k < j
      BY <2>3, <2>4, <1>1
    <3> QED
      BY <3>1, <2>3, <2>5, <2>6, <1>1, <1>2
  <2>8. k \in 0..e /\ k <= n /\ \A i \in 1..k : h[i] = i
    BY <2>1, <2>5, <2>7, <1>1
  <2> QED
    BY <2>8
<1>5. e \in S
  <2> HIDE DEF S
  <2>1. 0..e \subseteq S
    BY <1>3, <1>4, UpTo
  <2> QED
    BY <2>1
<1>6. \A i \in 1..e : i \in 1..n
  BY <1>1, <1>5
<1> QED
  BY <1>1, <1>5, <1>6

-----------------------------------------------------------------------------
(* Elements replaced by others. *)

\* Lines a to b - 1 are replaced.
Cut(f, a, b, new) == SubSeq(f, 1, a - 1) \o new \o SubSeq(f, b, Len(f))

\* Line by line.
LEMMA CutAt ==
  ASSUME NEW E, NEW f \in Seq(E), NEW new \in Seq(E), NEW a \in 1..(Len(f) + 1),
         NEW b \in a..(Len(f) + 1)
  PROVE  /\ Cut(f, a, b, new) \in Seq(E)
         /\ Len(Cut(f, a, b, new)) = Len(f) + Len(new) - (b - a)
         /\ \A j \in 1..Len(Cut(f, a, b, new)) :
              Cut(f, a, b, new)[j] = IF j < a THEN f[j]
                                     ELSE IF j < a + Len(new) THEN new[j - a + 1]
                                     ELSE f[j - (a + Len(new)) + b]
<1> DEFINE g == Cut(f, a, b, new)
<1>1. PICK n \in Nat : n = Len(f)
  OBVIOUS
<1>2. PICK m \in Nat : m = Len(new)
  OBVIOUS
<1> DEFINE x == SubSeq(f, 1, a - 1)
           y == SubSeq(f, b, n)
           xn == x \o new
<1>3. a \in 1..(n + 1) /\ b \in a..(n + 1)
  BY <1>1
<1>4. x \in Seq(E) /\ Len(x) = a - 1 /\ \A j \in 1..(a - 1) : x[j] = f[j]
  BY <1>1
<1>5. y \in Seq(E) /\ Len(y) = n - b + 1 /\ \A j \in 1..(n - b + 1) : y[j] = f[b + j - 1]
  <2>1. b \in Int /\ n \in Int /\ \A i \in b..n : f[i] \in E
    BY <1>1, <1>3
  <2>2. y \in Seq(E) /\ Len(y) = IF b <= n THEN n - b + 1 ELSE 0
    BY <2>1, <1>1, SubSeqProperties
  <2>3. Len(y) = n - b + 1
    BY <1>3, <2>2
  <2> QED
    BY <2>1, <2>2, <2>3, <1>1, SubSeqProperties
<1> HIDE DEF x, y
<1>6. xn \in Seq(E) /\ Len(xn) = a - 1 + m
      /\ \A j \in 1..(a - 1 + m) : xn[j] = IF j <= a - 1 THEN x[j] ELSE new[j - (a - 1)]
  <2>1. /\ x \o new \in Seq(E) /\ Len(x \o new) = Len(x) + Len(new)
        /\ \A j \in 1..Len(x) + Len(new) : (x \o new)[j] = IF j <= Len(x) THEN x[j] ELSE new[j - Len(x)]
    BY <1>4, ConcatProperties
  <2> QED
    BY <2>1, <1>2, <1>4
<1> HIDE DEF xn
<1>7. g = xn \o y
  BY <1>1 DEF xn, x, y, Cut
<1> HIDE DEF g
<1>8. g \in Seq(E) /\ Len(g) = Len(xn) + Len(y)
  BY <1>5, <1>6, <1>7, ConcatProperties
<1>9. Len(g) = n + m - (b - a)
  <2>1. Len(g) = (a - 1 + m) + (n - b + 1)
    BY <1>5, <1>6, <1>8
  <2> QED
    BY <2>1, <1>2, <1>3
<1>10. ASSUME NEW j \in 1..(n + m - (b - a))
       PROVE  g[j] = IF j < a THEN f[j] ELSE IF j < a + m THEN new[j - a + 1] ELSE f[j - (a + m) + b]
  <2>0. g[j] = IF j <= a - 1 + m THEN xn[j] ELSE y[j - (a - 1 + m)]
    <3>1. j \in 1..Len(xn) + Len(y)
      BY <1>8, <1>9
    <3>2. g[j] = IF j <= Len(xn) THEN xn[j] ELSE y[j - Len(xn)]
      BY <3>1, <1>5, <1>6, <1>7, ConcatProperties
    <3> QED
      BY <3>2, <1>6
  <2>1. CASE j < a
    <3>1. j \in 1..(a - 1) /\ j <= a - 1 + m /\ j \in 1..(a - 1 + m)
      BY <2>1, <1>2, <1>3
    <3> QED
      BY <2>0, <2>1, <3>1, <1>4, <1>6
  <2>2. CASE a <= j /\ j < a + m
    <3>1. ~(j <= a - 1) /\ j <= a - 1 + m /\ j \in 1..(a - 1 + m) /\ j - (a - 1) = j - a + 1 /\ ~(j < a)
      BY <2>2, <1>2, <1>3
    <3> QED
      BY <2>0, <2>2, <3>1, <1>6
  <2>3. CASE a + m <= j
    <3>1. ~(j <= a - 1 + m) /\ j - (a - 1 + m) \in 1..(n - b + 1) /\ ~(j < a) /\ ~(j < a + m)
          /\ b + (j - (a - 1 + m)) - 1 = j - (a + m) + b
      BY <2>3, <1>1, <1>2, <1>3
    <3> QED
      BY <2>0, <3>1, <1>5
  <2> QED
    <3>1. j < a \/ (a <= j /\ j < a + m) \/ a + m <= j
      BY <1>2, <1>3
    <3> QED
      BY <3>1, <2>1, <2>2, <2>3
<1> QED
  BY <1>1, <1>2, <1>8, <1>9, <1>10 DEF g

\* The lines a to b - 1 of f are replaced by new; d lines more, or less.
Cuts(g, f, n, a, b, new, d) ==
  /\ Len(g) = n + d /\ d = a + Len(new) - b
  /\ \A i \in 1..(a - 1) : g[i] = f[i]
  /\ \A i \in b..n : g[i + d] = f[i]
  /\ \A j \in a..(b + d - 1) : g[j] = new[j - a + 1]

\* Cut is such a replacement.
LEMMA CutCuts ==
  ASSUME NEW E, NEW f \in Seq(E), NEW new \in Seq(E), NEW n \in Nat, n = Len(f),
         NEW a \in 1..(n + 1), NEW b \in a..(n + 1)
  PROVE  Cut(f, a, b, new) \in Seq(E) /\ Cuts(Cut(f, a, b, new), f, n, a, b, new, a + Len(new) - b)
<1> DEFINE g == Cut(f, a, b, new)
<1>1. PICK m \in Nat : m = Len(new)
  OBVIOUS
<1>2. /\ g \in Seq(E) /\ Len(g) = n + m - (b - a)
      /\ \A j \in 1..(n + m - (b - a)) :
           g[j] = IF j < a THEN f[j] ELSE IF j < a + m THEN new[j - a + 1] ELSE f[j - (a + m) + b]
  <2>1. a \in 1..(Len(f) + 1) /\ b \in a..(Len(f) + 1)
    OBVIOUS
  <2>2. /\ g \in Seq(E)
        /\ Len(g) = Len(f) + Len(new) - (b - a)
        /\ \A j \in 1..Len(g) :
             g[j] = IF j < a THEN f[j]
                    ELSE IF j < a + Len(new) THEN new[j - a + 1] ELSE f[j - (a + Len(new)) + b]
    BY <2>1, CutAt
  <2> HIDE DEF g
  <2> QED
    BY <2>2, <1>1
<1> HIDE DEF g
<1> DEFINE d == a + m - b
<1>3. d \in Int /\ n + m - (b - a) = n + d /\ b + d = a + m /\ d = a + Len(new) - b
  BY <1>1
<1>4. ASSUME NEW i \in 1..(a - 1) PROVE g[i] = f[i]
  <2>1. i \in 1..(n + m - (b - a)) /\ i < a
    OBVIOUS
  <2> QED
    BY <2>1, <1>2
<1>5. ASSUME NEW i \in b..n PROVE g[i + d] = f[i]
  <2> DEFINE j == i + d
  <2>1. j \in 1..(n + m - (b - a)) /\ ~(j < a) /\ ~(j < a + m) /\ j - (a + m) + b = i
    OBVIOUS
  <2> HIDE DEF j
  <2>2. g[j] = f[i]
    BY <2>1, <1>2
  <2> QED
    BY <2>2 DEF j
<1>6. ASSUME NEW j \in a..(b + d - 1) PROVE g[j] = new[j - a + 1]
  <2>1. j \in 1..(n + m - (b - a)) /\ ~(j < a) /\ j < a + m
    BY <1>3
  <2> QED
    BY <2>1, <1>2
<1>7. Cuts(g, f, n, a, b, new, d)
  BY <1>2, <1>3, <1>4, <1>5, <1>6 DEF Cuts
<1> QED
  BY <1>1, <1>2, <1>7 DEF g

\* Where line j of g is from.
From(g, f, n, a, b, new, d, j) ==
  \/ j < a /\ j \in 1..n /\ g[j] = f[j]
  \/ j \in a..(b + d - 1) /\ j - a + 1 \in 1..Len(new) /\ g[j] = new[j - a + 1]
  \/ j - d \in b..n /\ g[j] = f[j - d] /\ j >= b + d

\* Every line of the result is an old one or a new one.
LEMMA CutFrom ==
  ASSUME NEW f, NEW g, NEW new, NEW n \in Nat, NEW m \in Nat, m = Len(new),
         NEW a \in 1..(n + 1), NEW b \in a..(n + 1),
         NEW d, Cuts(g, f, n, a, b, new, d), NEW j \in 1..Len(g)
  PROVE  From(g, f, n, a, b, new, d, j)
<1>1. d \in Int /\ d = a + m - b /\ Len(g) = n + d
  BY DEF Cuts
<1>2. CASE j < a
  BY <1>1, <1>2 DEF Cuts, From
<1>3. CASE a <= j /\ j <= b + d - 1
  <2>1. j \in a..(b + d - 1) /\ j - a + 1 \in 1..m
    BY <1>1, <1>3
  <2> QED
    BY <1>1, <2>1 DEF Cuts, From
<1>4. CASE b + d - 1 < j
  <2>1. j - d \in b..n /\ (j - d) + d = j /\ j >= b + d
    BY <1>1, <1>4
  <2> DEFINE i == j - d
  <2>2. g[i + d] = f[i]
    BY <2>1 DEF Cuts
  <2> QED
    BY <1>1, <2>1, <2>2 DEF From
<1> QED
  BY <1>1, <1>2, <1>3, <1>4

\* t is f with new in the place of lines a to b - 1.
IsCut(t, f, a, b, new, E) ==
  /\ t \in Seq(E) /\ Len(t) = Len(f) + Len(new) - (b - a)
  /\ \A j \in 1..Len(t) : t[j] = IF j < a THEN f[j] ELSE IF j < a + Len(new) THEN new[j - a + 1]
                                 ELSE f[j - (a + Len(new)) + b]

\* Cut is such a replacement, for every line.
LEMMA CutIs ==
  ASSUME NEW E, NEW f \in Seq(E), NEW new \in Seq(E), NEW a \in 1..(Len(f) + 1),
         NEW b \in a..(Len(f) + 1)
  PROVE  IsCut(Cut(f, a, b, new), f, a, b, new, E)
BY CutAt DEF IsCut

\* What is not cut out is drawn.
LEMMA CutOut ==
  ASSUME NEW E, NEW f \in Seq(E), NEW n \in Nat, n = Len(f), NEW a \in 1..(n + 1), NEW b \in a..(n + 1)
  PROVE  /\ Cut(f, a, b, <<>>) \in Seq(E)
         /\ \E h, N : Drawn(Cut(f, a, b, <<>>), f, h, {x \in 1..n : x < a \/ b <= x}, N)
<1> DEFINE q == <<>>
           t == Cut(f, a, b, q)
           N == n - (b - a)
           D == {x \in 1..n : x < a \/ b <= x}
           h == [j \in 1..N |-> IF j < a THEN j ELSE j - a + b]
<1>1. q \in Seq(E) /\ Len(q) = 0
  OBVIOUS
<1> HIDE DEF q
<1>10. a \in 1..(Len(f) + 1) /\ b \in a..(Len(f) + 1)
  OBVIOUS
<1>11. IsCut(t, f, a, b, q, E)
  BY <1>1, <1>10, CutIs
<1> HIDE DEF t
<1>2. /\ t \in Seq(E) /\ Len(t) = Len(f) + Len(q) - (b - a)
      /\ \A j \in 1..Len(t) : t[j] = IF j < a THEN f[j] ELSE IF j < a + Len(q) THEN q[j - a + 1]
                                     ELSE f[j - (a + Len(q)) + b]
  BY <1>11 DEF IsCut
<1>3. Len(t) = N /\ N \in Nat
  BY <1>1, <1>2
<1>4. \A j \in 1..N : h[j] \in D /\ t[j] = f[h[j]]
  <2> TAKE j \in 1..N
  <2>1. CASE j < a
    BY <2>1, <1>1, <1>2, <1>3
  <2>2. CASE ~(j < a)
    <3>1. h[j] = j - a + b /\ j - a + b \in 1..n /\ b <= j - a + b
      BY <2>2
    <3>2. ~(j < a + Len(q)) /\ j - (a + Len(q)) + b = j - a + b
      BY <2>2, <1>1
    <3> QED
      BY <3>1, <3>2, <2>2, <1>2, <1>3
  <2> QED
    BY <2>1, <2>2
<1>5. \A x \in D : \E j \in 1..N : h[j] = x
  <2> TAKE x \in D
  <2>1. CASE x < a
    <3>1. x \in 1..N /\ h[x] = x
      BY <2>1
    <3> QED
      BY <3>1
  <2>2. CASE b <= x
    <3>1. x - b + a \in 1..N /\ ~(x - b + a < a) /\ x - b + a - a + b = x
      BY <2>2
    <3>2. h[x - b + a] = x
      BY <3>1
    <3> QED
      BY <3>1, <3>2
  <2> QED
    BY <2>1, <2>2
<1>6. \A i, j \in 1..N : i < j => h[i] < h[j]
  OBVIOUS
<1>7. h \in [1..N -> D] /\ D \subseteq 1..n
  BY <1>4
<1> HIDE DEF h, D, N
<1>8. Drawn(t, f, h, D, N)
  BY <1>3, <1>4, <1>5, <1>6, <1>7 DEF Drawn
<1> QED
  BY <1>2, <1>8 DEF t, q, D

\* A replacement can be cut out again.
LEMMA CutAgain ==
  ASSUME NEW E, NEW f \in Seq(E), NEW new \in Seq(E), NEW a \in 1..(Len(f) + 1), NEW b \in a..(Len(f) + 1),
         NEW g, g = Cut(f, a, b, new), NEW d, d = a + Len(new), NEW q, q = <<>>
  PROVE  Cut(g, a, d, q) = Cut(f, a, b, q)
<1>0. PICK n \in Nat, m \in Nat : n = Len(f) /\ m = Len(new)
  OBVIOUS
<1>12. n = Len(f) /\ m = Len(new) /\ a \in 1..(n + 1) /\ b \in a..(n + 1) /\ d = a + m
  BY <1>0
<1> DEFINE t == Cut(f, a, b, q)
           w == Cut(g, a, a + m, q)
<1>1. q \in Seq(E) /\ Len(q) = 0
  OBVIOUS
<1>9. a \in 1..(Len(f) + 1) /\ b \in a..(Len(f) + 1)
  OBVIOUS
<1>10. IsCut(t, f, a, b, q, E) /\ IsCut(g, f, a, b, new, E)
  BY <1>1, <1>9, CutIs
<1> HIDE DEF t
<1>2. /\ t \in Seq(E) /\ Len(t) = Len(f) + Len(q) - (b - a)
      /\ \A j \in 1..Len(t) : t[j] = IF j < a THEN f[j] ELSE IF j < a + Len(q) THEN q[j - a + 1]
                                     ELSE f[j - (a + Len(q)) + b]
  BY <1>10 DEF IsCut
<1>3. /\ g \in Seq(E) /\ Len(g) = Len(f) + Len(new) - (b - a)
      /\ \A j \in 1..Len(g) : g[j] = IF j < a THEN f[j] ELSE IF j < a + Len(new) THEN new[j - a + 1]
                                     ELSE f[j - (a + Len(new)) + b]
  BY <1>10 DEF IsCut
<1>4. a \in 1..(Len(g) + 1) /\ a + m \in a..(Len(g) + 1)
  BY <1>3, <1>12
<1>11. IsCut(w, g, a, a + m, q, E)
  <2> DEFINE am == a + m
  <2>1. am \in a..(Len(g) + 1)
    BY <1>4
  <2> HIDE DEF am
  <2>2. IsCut(Cut(g, a, am, q), g, a, am, q, E)
    BY <2>1, <1>1, <1>3, <1>4, CutIs
  <2> QED
    BY <2>2 DEF am
<1>5. /\ w \in Seq(E) /\ Len(w) = Len(g) + Len(q) - (a + m - a)
      /\ \A j \in 1..Len(w) : w[j] = IF j < a THEN g[j] ELSE IF j < a + Len(q) THEN q[j - a + 1]
                                     ELSE g[j - (a + Len(q)) + (a + m)]
  BY <1>11 DEF IsCut
<1> HIDE DEF w
<1>6. Len(w) = n - (b - a) /\ Len(t) = n - (b - a) /\ Len(g) = n + m - (b - a)
  BY <1>1, <1>2, <1>3, <1>5, <1>12
<1>7. \A j \in 1..Len(t) : w[j] = t[j]
  <2> TAKE j \in 1..Len(t)
  <2>1. CASE j < a
    <3>1. j \in 1..Len(g) /\ j \in 1..Len(w)
      BY <1>6
    <3> QED
      BY <2>1, <3>1, <1>2, <1>3, <1>5, <1>12
  <2>2. CASE ~(j < a)
    <3>1. j \in 1..Len(w) /\ j + m \in 1..Len(g) /\ ~(j < a + Len(q)) /\ j - (a + Len(q)) + (a + m) = j + m
      BY <2>2, <1>1, <1>6, <1>12
    <3>2. ~(j + m < a) /\ ~(j + m < a + Len(new)) /\ j + m - (a + Len(new)) + b = j - a + b
      BY <2>2, <1>12
    <3>3. g[j + m] = f[j - a + b]
      <4>1. PICK x : x = j + m
        OBVIOUS
      <4>2. x \in 1..Len(g) /\ ~(x < a) /\ ~(x < a + Len(new)) /\ x - (a + Len(new)) + b = j - a + b
        BY <4>1, <3>1, <3>2
      <4>3. g[x] = f[x - (a + Len(new)) + b]
        BY <4>2, <1>3
      <4> QED
        BY <4>1, <4>2, <4>3
    <3>4. t[j] = f[j - a + b]
      <4>1. j - (a + Len(q)) + b = j - a + b
        BY <1>1, <1>6, <1>12
      <4> QED
        BY <4>1, <3>1, <2>2, <1>2, <1>12
    <3> QED
      BY <3>1, <3>3, <3>4, <2>2, <1>5, <1>12
  <2> QED
    BY <2>1, <2>2
<1>8. w = t
  <2>1. w \in Seq(E) /\ t \in Seq(E) /\ Len(w) = Len(t)
    BY <1>2, <1>5, <1>6
  <2> HIDE DEF w
  <2> QED
    BY <2>1, <1>7
<1> QED
  BY <1>8, <1>12 DEF w, t

-----------------------------------------------------------------------------
(* Elements put in. *)

\* f with new in front of its element p, or behind the last one.
PutIn(f, p, new) == SubSeq(f, 1, p - 1) \o new \o SubSeq(f, p, Len(f))

LEMMA PutInAt ==
  ASSUME NEW E, NEW f \in Seq(E), NEW new \in Seq(E), NEW p \in 1..(Len(f) + 1)
  PROVE  /\ PutIn(f, p, new) \in Seq(E)
         /\ Len(PutIn(f, p, new)) = Len(f) + Len(new)
         /\ \A j \in 1..(Len(f) + Len(new)) :
              PutIn(f, p, new)[j] = IF j < p THEN f[j]
                                     ELSE IF j < p + Len(new) THEN new[j - p + 1]
                                     ELSE f[j - Len(new)]
<1>1. PICK n \in Nat : n = Len(f)
  OBVIOUS
<1>2. PICK m \in Nat : m = Len(new)
  OBVIOUS
<1> DEFINE a == SubSeq(f, 1, p - 1)
           c == SubSeq(f, p, n)
           ab == a \o new
<1>3. a \in Seq(E) /\ Len(a) = p - 1 /\ \A j \in 1..(p - 1) : a[j] = f[j]
  BY <1>1
<1>4. c \in Seq(E) /\ Len(c) = n - p + 1 /\ \A j \in 1..(n - p + 1) : c[j] = f[j + p - 1]
  <2>1. p >= 1 /\ \A i \in p..n : f[i] \in E
    BY <1>1
  <2>2. c \in Seq(E) /\ Len(c) = IF p <= n THEN n - p + 1 ELSE 0
    BY <2>1, <1>1, SubSeqProperties
  <2>3. Len(c) = n - p + 1
    BY <1>1, <2>2
  <2>4. \A j \in 1..(n - p + 1) : c[j] = f[p + j - 1]
    BY <2>1, <1>1, SubSeqProperties
  <2> QED
    BY <2>2, <2>3, <2>4, <1>1
<1> HIDE DEF a, c
<1>5. ab \in Seq(E) /\ Len(ab) = p - 1 + m
      /\ \A j \in 1..(p - 1 + m) : ab[j] = IF j <= p - 1 THEN a[j] ELSE new[j - (p - 1)]
  BY <1>2, <1>3, SMTT(20)
<1> HIDE DEF ab
<1>0. p \in 1..(n + 1)
  BY <1>1
<1>6. ab \o c \in Seq(E) /\ Len(ab \o c) = n + m
      /\ \A j \in 1..(n + m) : (ab \o c)[j] = IF j <= p - 1 + m THEN ab[j] ELSE c[j - (p - 1 + m)]
  <2>1. ab \o c \in Seq(E) /\ Len(ab \o c) = Len(ab) + Len(c)
        /\ \A j \in 1..(Len(ab) + Len(c)) :
             (ab \o c)[j] = IF j <= Len(ab) THEN ab[j] ELSE c[j - Len(ab)]
    <3>1. ab \in Seq(E) /\ c \in Seq(E)
      BY <1>4, <1>5
    <3>2. /\ ab \o c \in Seq(E) /\ Len(ab \o c) = Len(ab) + Len(c)
          /\ \A j \in 1..Len(ab) + Len(c) :
               (ab \o c)[j] = IF j <= Len(ab) THEN ab[j] ELSE c[j - Len(ab)]
      BY <3>1, ConcatProperties
    <3> QED
      BY <3>2
  <2>2. Len(ab) + Len(c) = n + m
    BY <1>0, <1>2, <1>4, <1>5
  <2> QED
    BY <2>1, <2>2, <1>5
<1>7. PutIn(f, p, new) = ab \o c
  BY <1>1 DEF PutIn, ab, a, c
<1>8. ASSUME NEW j \in 1..(n + m)
      PROVE (ab \o c)[j] = IF j < p THEN f[j] ELSE IF j < p + m THEN new[j - p + 1] ELSE f[j - m]
  <2>1. CASE j < p
    <3>1. (ab \o c)[j] = ab[j] /\ ab[j] = a[j] /\ a[j] = f[j]
      <4>1. j \in 1..(p - 1) /\ j \in 1..(p - 1 + m) /\ j <= p - 1 /\ j <= p - 1 + m
        BY <2>1, <1>0, <1>2
      <4> QED
        BY <4>1, <1>3, <1>5, <1>6
    <3> QED
      BY <2>1, <3>1
  <2>2. CASE p <= j /\ j < p + m
    <3>1. (ab \o c)[j] = ab[j] /\ ab[j] = new[j - (p - 1)] /\ j - (p - 1) = j - p + 1
      BY <2>2, <1>1, <1>2, <1>5, <1>6
    <3> QED
      BY <2>2, <3>1
  <2>3. CASE p + m <= j
    <3>1. (ab \o c)[j] = c[j - (p - 1 + m)] /\ j - (p - 1 + m) \in 1..(n - p + 1)
      <4>1. ~(j <= p - 1 + m) /\ j - (p - 1 + m) \in 1..(n - p + 1)
        BY <2>3, <1>0, <1>2
      <4> QED
        BY <4>1, <1>6
    <3>2. c[j - (p - 1 + m)] = f[j - (p - 1 + m) + p - 1]
      BY <3>1, <1>4
    <3>3. j - (p - 1 + m) + p - 1 = j - m /\ ~(j < p) /\ ~(j < p + m)
      BY <2>3, <1>0, <1>2
    <3> QED
      BY <3>1, <3>2, <3>3
  <2> QED
    <3>1. j < p \/ (p <= j /\ j < p + m) \/ p + m <= j
      BY <1>0, <1>2
    <3> QED
      BY <3>1, <2>1, <2>2, <2>3
<1> QED
  BY <1>1, <1>2, <1>6, <1>7, <1>8

\* A filter does not see what it drops being put in.
LEMMA OnlyPutIn ==
  ASSUME NEW E, NEW f \in Seq(E), NEW p \in 1..(Len(f) + 1), NEW c \in Seq(E), NEW W, \A i \in 1..Len(c) : c[i] \notin W
  PROVE  Only(PutIn(f, p, c), W) = Only(f, W)
<1> DEFINE a == SubSeq(f, 1, p - 1)
           b == SubSeq(f, p, Len(f))
<1>1. a \in Seq(E) /\ b \in Seq(E)
  OBVIOUS
<1>2. a \o b = f
  <2>1. p - 1 \in (1 - 1)..Len(f) /\ Len(f) \in (p - 1)..Len(f) /\ 1 \in 1..(Len(f) + 1) /\ (p - 1) + 1 = p
    OBVIOUS
  <2>2. SubSeq(f, 1, p - 1) \o SubSeq(f, (p - 1) + 1, Len(f)) = SubSeq(f, 1, Len(f))
    BY <2>1, ConcatAdjacentSubSeq
  <2> QED
    BY <2>1, <2>2, SubSeqFull
<1>3. PutIn(f, p, c) = (a \o c) \o b
  BY DEF PutIn
<1> HIDE DEF a, b
<1>4. \A x, y \in Seq(E) : x \o y \in Seq(E) /\ Only(x \o y, W) = Only(x, W) \o Only(y, W)
  BY OnlyConcat, ConcatProperties
<1>5. Only(c, W) = <<>>
  BY OnlyAllOrNone
<1>6. Only(a, W) \in Seq(E)
  BY <1>1, OnlyTyped
<1>7. Only(a, W) \o <<>> = Only(a, W)
  BY <1>6, ConcatEmptySeq
<1>8. a \o c \in Seq(E) /\ Only(a \o c, W) = Only(a, W)
  <2>1. a \o c \in Seq(E) /\ Only(a \o c, W) = Only(a, W) \o Only(c, W)
    BY <1>1, <1>4
  <2> QED
    BY <2>1, <1>5, <1>7
<1>9. Only((a \o c) \o b, W) = Only(a, W) \o Only(b, W)
  <2>1. Only((a \o c) \o b, W) = Only(a \o c, W) \o Only(b, W)
    BY <1>1, <1>4, <1>8
  <2> QED
    BY <2>1, <1>8
<1> QED
  BY <1>1, <1>2, <1>3, <1>4, <1>9

\* A sequence of one.
LEMMA OneElement ==
  ASSUME NEW E, NEW e \in E
  PROVE  <<e>> \in Seq(E) /\ Len(<<e>>) = 1 /\ <<e>>[1] = e
OBVIOUS

\* Append makes its argument the last element.
LEMMA AppendLast ==
  ASSUME NEW S, NEW s \in Seq(S), NEW c
  PROVE  /\ \E T : Append(s, c) \in Seq(T)
         /\ Append(s, c) # <<>> /\ Last(Append(s, c)) = c
         /\ Len(Append(s, c)) = Len(s) + 1
<1>1. s \in Seq(S \union {c})
  OBVIOUS
<1>2. Append(s, c) \in Seq(S \union {c})
  BY <1>1
<1>3. Len(Append(s, c)) = Len(s) + 1 /\ Append(s, c)[Len(s) + 1] = c
  BY <1>1
<1> QED
  BY <1>2, <1>3 DEF Last

=============================================================================

--------------------------- MODULE ChainLog_proofs ---------------------------
(***************************************************************************)
(* For any routes, chains, starts and chunks: what the settings page       *)
(* reports of the chains the proxy prints.                                 *)
(***************************************************************************)
EXTENDS ChainLog, FoldLemmas

-----------------------------------------------------------------------------
(* Lines. *)

\* A header names a route.
Printable == {l \in Lines : l.kind = "header" => l.route \in Routes}

\* An entry comes after the header or the entry before it in its block.
Follows(p, l) ==
  l.kind = "entry" =>
    /\ p.route = l.route /\ p.run = l.run
    /\ \/ p.kind = "header" /\ l.n = 1
       \/ p.kind = "entry" /\ l.n = p.n + 1

\* Blocks, perhaps without their end or, the first one, without its beginning.
Linked(s) == s \in Seq(Printable) /\ \A i \in 1..Len(s) : i > 1 => Follows(s[i - 1], s[i])

\* t is the beginning of s.
StartsWith(s, t) == Len(t) <= Len(s) /\ \A i \in 1..Len(t) : t[i] = s[i]

\* The page may ask for the log from any line on.
LEMMA LinkedSubSeq ==
  ASSUME NEW s, Linked(s), NEW m \in Nat \ {0}, NEW n \in 0..Len(s)
  PROVE  /\ Linked(SubSeq(s, m, n))
         /\ Len(SubSeq(s, m, n)) = IF m <= n THEN n - m + 1 ELSE 0
         /\ \A i \in 1..(n - m + 1) : SubSeq(s, m, n)[i] = s[m + i - 1]
<1>1. s \in Seq(Printable) /\ Len(s) \in Nat
  BY DEF Linked
<1>2. \A i \in m..n : s[i] \in Printable
  BY <1>1
<1>3. /\ SubSeq(s, m, n) \in Seq(Printable)
      /\ Len(SubSeq(s, m, n)) = IF m <= n THEN n - m + 1 ELSE 0
      /\ \A i \in 1..(n - m + 1) : SubSeq(s, m, n)[i] = s[m + i - 1]
  BY <1>1, <1>2, SubSeqProperties
<1>4. ASSUME NEW i \in 1..Len(SubSeq(s, m, n)), i > 1
      PROVE  Follows(SubSeq(s, m, n)[i - 1], SubSeq(s, m, n)[i])
  <2>1. i \in 1..(n - m + 1) /\ i - 1 \in 1..(n - m + 1)
    BY <1>1, <1>3, <1>4
  <2>2. SubSeq(s, m, n)[i] = s[m + i - 1] /\ SubSeq(s, m, n)[i - 1] = s[(m + i - 1) - 1]
    BY <1>3, <2>1
  <2>3. m + i - 1 \in 1..Len(s) /\ m + i - 1 > 1
    BY <1>1, <2>1, <1>4
  <2> QED
    BY <2>2, <2>3 DEF Linked
<1> QED
  BY <1>3, <1>4 DEF Linked

\* A line that follows the last one may be printed.
LEMMA LinkedAppend ==
  ASSUME NEW s, Linked(s), NEW l \in Printable, Len(s) # 0 => Follows(s[Len(s)], l)
  PROVE  /\ Linked(Append(s, l)) /\ Len(Append(s, l)) = Len(s) + 1
         /\ Append(s, l)[Len(s) + 1] = l
         /\ \A i \in 1..Len(s) : Append(s, l)[i] = s[i]
<1>1. s \in Seq(Printable) /\ Len(s) \in Nat
  BY DEF Linked
<1>2. /\ Append(s, l) \in Seq(Printable) /\ Len(Append(s, l)) = Len(s) + 1
      /\ Append(s, l)[Len(s) + 1] = l
      /\ \A i \in 1..Len(s) : Append(s, l)[i] = s[i]
  BY <1>1
<1>3. ASSUME NEW i \in 1..(Len(s) + 1), i > 1 PROVE Follows(Append(s, l)[i - 1], Append(s, l)[i])
  <2>1. CASE i = Len(s) + 1
    BY <2>1, <1>1, <1>2, <1>3
  <2>2. CASE i # Len(s) + 1
    <3>1. i \in 1..Len(s) /\ i - 1 \in 1..Len(s)
      BY <2>2, <1>1, <1>3
    <3> QED
      BY <3>1, <1>2, <1>3 DEF Linked
  <2> QED
    BY <2>1, <2>2
<1> QED
  BY <1>2, <1>3 DEF Linked

-----------------------------------------------------------------------------
(* parse_chains. *)

States == [active : Routes \union {NoRoute}, seen : SUBSET Routes, chains : [Routes -> Seq(Lines)]]

\* a holds the parser's state before and after every line of s.
Parses(a, s) ==
  /\ a \in [0..Len(s) -> States] /\ a[0] = Unparsed
  /\ \A i \in 1..Len(s) : a[i] = ParseLine(a[i - 1], s[i])
  /\ Parse(s) = [seen |-> a[Len(s)].seen, chains |-> a[Len(s)].chains]

\* A line takes the parser from a state to a state.
LEMMA ParseLineTyped ==
  ASSUME NEW st \in States, NEW l \in Printable
  PROVE  ParseLine(st, l) \in States
<1>1. l \in Lines
  BY DEF Printable
<1>2. CASE l.kind = "header"
  BY <1>2 DEF ParseLine, Printable, States
<1>3. CASE l.kind = "entry" /\ st.active # NoRoute
  <2>1. st.active \in Routes /\ st.chains \in [Routes -> Seq(Lines)]
    BY <1>3 DEF States
  <2>2. Append(st.chains[st.active], l) \in Seq(Lines)
    BY <1>1, <2>1
  <2>3. [st.chains EXCEPT ![st.active] = Append(@, l)] \in [Routes -> Seq(Lines)]
    BY <2>1, <2>2
  <2> QED
    BY <1>3, <2>3 DEF ParseLine, States
<1>4. CASE l.kind # "header" /\ ~(l.kind = "entry" /\ st.active # NoRoute)
  BY <1>4 DEF ParseLine, States
<1> QED
  BY <1>2, <1>3, <1>4

ParseSteps(s) == [i \in 1..Len(s) |-> [st \in States |-> ParseLine(st, s[i])]]

\* The parser's states, one after every line.
LEMMA ParseRows ==
  ASSUME NEW s \in Seq(Printable)
  PROVE  \E a : Parses(a, s)
<1>1. PICK n \in Nat : n = Len(s)
  OBVIOUS
<1> DEFINE T == States
           b == Unparsed
           D == SUBSET (1..n)
           step == ParseSteps(s)
           Eq(h) == h = [x \in D |-> IF x = {} THEN b ELSE ParseLine(h[x \ {Max(x)}], s[Max(x)])]
           fn == CHOOSE h : Eq(h)
<1>2. DOMAIN s = 1..n
  BY <1>1
<1>3. Parse(s) = [seen |-> fn[1..n].seen, chains |-> fn[1..n].chains]
  BY <1>2 DEF Parse, FoldLeft, MapThenFoldSet
<1>4. b \in T
  BY DEF Unparsed, States
<1>5. ASSUME NEW i \in 1..n, NEW st \in T PROVE ParseLine(st, s[i]) \in T
  <2>1. s[i] \in Printable
    BY <1>1
  <2> QED
    BY <2>1, ParseLineTyped
<1>6. step \in [1..n -> [T -> T]]
  BY <1>1, <1>5 DEF ParseSteps
<1>7. \A i \in 1..n, st \in T : step[i][st] = ParseLine(st, s[i])
  BY <1>1 DEF ParseSteps
<1> HIDE DEF step, T, b
<1>8. PICK h \in [D -> T] : Folds(h, b, n, step)
  <2> HIDE DEF D
  <2> QED
    BY <1>4, <1>6, FoldTable DEF D
<1>9. ASSUME NEW x \in D, x # {} PROVE Max(x) \in 1..n /\ x \ {Max(x)} \in D
  BY <1>9, MaxUpTo
<1>10. Eq(h)
  BY <1>8, <1>9, <1>7 DEF Folds
<1>11. Eq(fn)
  BY <1>10
<1> HIDE DEF fn
<1>12. Advances(fn, T, b, n, step)
  <2>1. fn[{}] = b
    BY <1>11
  <2>2. ASSUME NEW k \in 1..n, fn[1..(k - 1)] \in T PROVE fn[1..k] = step[k][fn[1..(k - 1)]]
    <3>1. 1..k \in D /\ 1..k # {} /\ Max(1..k) = k /\ (1..k) \ {k} = 1..(k - 1)
      BY FirstPositions
    <3>2. fn[1..k] = ParseLine(fn[1..(k - 1)], s[k])
      BY <3>1, <1>11
    <3> HIDE DEF D, Eq
    <3> QED
      BY <3>2, <2>2, <1>7
  <2> QED
    BY <2>1, <2>2 DEF Advances
<1>13. PICK a \in [0..n -> T] : Rows(a, b, n, step) /\ a[n] = fn[1..n]
  <2> HIDE DEF D, Eq
  <2> QED
    BY <1>4, <1>6, <1>12, FoldRows
<1>14. \A i \in 1..n : a[i - 1] \in T /\ a[i] = ParseLine(a[i - 1], s[i])
  BY <1>7, <1>13 DEF Rows
<1>15. Parses(a, s)
  BY <1>1, <1>3, <1>13, <1>14 DEF Parses, Rows, T, b
<1> QED
  BY <1>15

\* What the parser returns has the type of a report.
LEMMA ParseTyped ==
  ASSUME NEW s \in Seq(Printable)
  PROVE  Parse(s) \in [seen : SUBSET Routes, chains : [Routes -> Seq(Lines)]]
<1>1. PICK a : Parses(a, s)
  BY ParseRows
<1>2. Len(s) \in 0..Len(s)
  OBVIOUS
<1>3. a[Len(s)] \in States
  BY <1>1, <1>2 DEF Parses
<1> QED
  BY <1>1, <1>3 DEF Parses, States

\* A line that is neither a header nor an entry adds nothing.
LEMMA ParseOther ==
  ASSUME NEW s \in Seq(Printable), NEW l \in Printable, l.kind = "other"
  PROVE  Parse(Append(s, l)) = Parse(s)
<1> DEFINE t == Append(s, l)
<1>1. /\ t \in Seq(Printable) /\ Len(t) = Len(s) + 1 /\ Len(s) \in Nat
      /\ t[Len(s) + 1] = l /\ \A i \in 1..Len(s) : t[i] = s[i]
  OBVIOUS
<1> HIDE DEF t
<1>2. PICK a : Parses(a, s)
  BY ParseRows
<1>3. PICK c : Parses(c, t)
  BY <1>1, ParseRows
<1> DEFINE S == {i \in 0..Len(s) : c[i] = a[i]}
<1>4. 0 \in S
  BY <1>1, <1>2, <1>3 DEF Parses
<1>5. ASSUME NEW i \in 1..Len(s), i - 1 \in S PROVE i \in S
  <2>1. i \in 1..Len(t)
    BY <1>1
  <2> QED
    BY <2>1, <1>1, <1>2, <1>3, <1>5 DEF Parses
<1>6. 0..Len(s) \subseteq S
  <2> HIDE DEF S
  <2> QED
    BY <1>1, <1>4, <1>5, UpTo
<1>7. c[Len(s)] = a[Len(s)] /\ a[Len(s)] \in States
  BY <1>1, <1>2, <1>6 DEF Parses
<1>8. c[Len(t)] = ParseLine(a[Len(s)], l)
  <2>1. Len(t) \in 1..Len(t) /\ Len(t) - 1 = Len(s)
    BY <1>1
  <2> QED
    BY <2>1, <1>1, <1>3, <1>7 DEF Parses
<1>9. ParseLine(a[Len(s)], l).seen = a[Len(s)].seen /\ ParseLine(a[Len(s)], l).chains = a[Len(s)].chains
  BY <1>7 DEF ParseLine, States
<1> QED
  BY <1>2, <1>3, <1>8, <1>9 DEF Parses, t

-----------------------------------------------------------------------------
(* Chains. *)

\* The chain of r is what one start printed, without a gap.
Whole(c, r) == \A i \in 1..Len(c) : c[i].route = r /\ c[i].n = i /\ c[i].run = c[1].run

\* After line l the chain the parser is at ends with l.
Upto(st, l) ==
  /\ \A r \in Routes : Whole(st.chains[r], r)
  /\ st.active # NoRoute =>
       LET c == st.chains[st.active]
       IN  /\ l.route = st.active
           /\ \/ l.kind = "header" /\ c = <<>>
              \/ l.kind = "entry" /\ c # <<>> /\ c[Len(c)] = l

\* If the chain ended with line p, it ends with l after the next line l.
LEMMA UptoNext ==
  ASSUME NEW st \in States, NEW p, NEW l \in Printable, Upto(st, p), Follows(p, l)
  PROVE  Upto(ParseLine(st, l), l)
<1> DEFINE nxt == ParseLine(st, l)
<1>1. st.chains \in [Routes -> Seq(Lines)] /\ l \in Lines
  BY DEF States, Printable
<1>2. CASE l.kind = "header"
  <2>1. l.route \in Routes
    BY <1>2 DEF Printable
  <2>2. nxt.active = l.route /\ nxt.chains = [st.chains EXCEPT ![l.route] = <<>>]
    BY <1>2 DEF ParseLine
  <2>3. Whole(<<>>, l.route)
    BY DEF Whole
  <2>4. \A r \in Routes : Whole(nxt.chains[r], r)
    BY <1>1, <2>1, <2>2, <2>3 DEF Upto
  <2>5. nxt.chains[nxt.active] = <<>>
    BY <1>1, <2>1, <2>2
  <2> HIDE DEF nxt
  <2> QED
    BY <1>2, <2>2, <2>4, <2>5 DEF Upto, nxt
<1>3. CASE l.kind = "entry" /\ st.active # NoRoute
  <2> DEFINE r == st.active
             c == st.chains[r]
             d == Append(c, l)
  <2>1. r \in Routes /\ c \in Seq(Lines) /\ Whole(c, r) /\ Len(c) \in Nat
    BY <1>1, <1>3 DEF States, Upto
  <2>2. nxt.active = r /\ nxt.chains = [st.chains EXCEPT ![r] = d]
    BY <1>3 DEF ParseLine, States
  <2>3. /\ p.route = r /\ p.route = l.route /\ p.run = l.run
        /\ \/ l.n = 1 /\ c = <<>>
           \/ l.n = p.n + 1 /\ c # <<>> /\ c[Len(c)] = p
    BY <1>3 DEF Upto, Follows
  <2>4. /\ Len(d) = Len(c) + 1 /\ d[Len(c) + 1] = l /\ d # <<>>
        /\ \A i \in 1..Len(c) : d[i] = c[i]
    BY <1>1, <2>1
  <2>5. l.n = Len(c) + 1 /\ l.run = d[1].run
    <3>1. CASE c = <<>>
      BY <2>3, <2>4, <3>1
    <3>2. CASE c # <<>>
      <4>1. Len(c) \in 1..Len(c) /\ 1 \in 1..Len(c)
        BY <2>1, <3>2
      <4> QED
        BY <4>1, <3>2, <2>1, <2>3, <2>4 DEF Whole
    <3> QED
      BY <3>1, <3>2
  <2> HIDE DEF d
  <2>6. Whole(d, r)
    <3>1. ASSUME NEW i \in 1..Len(d) PROVE d[i].route = r /\ d[i].n = i /\ d[i].run = d[1].run
      <4>1. CASE i = Len(c) + 1
        BY <4>1, <2>3, <2>4, <2>5
      <4>2. CASE i # Len(c) + 1
        <5>1. i \in 1..Len(c) /\ 1 \in 1..Len(c)
          BY <4>2, <2>1, <2>4
        <5> QED
          BY <5>1, <2>1, <2>4 DEF Whole
      <4> QED
        BY <4>1, <4>2
    <3> QED
      BY <3>1 DEF Whole
  <2>7. \A q \in Routes : Whole(nxt.chains[q], q)
    BY <1>1, <2>1, <2>2, <2>6 DEF Upto
  <2>8. nxt.chains[r] = d
    BY <1>1, <2>1, <2>2
  <2> HIDE DEF nxt
  <2> QED
    BY <1>3, <2>2, <2>3, <2>4, <2>7, <2>8 DEF Upto, nxt
<1>4. CASE l.kind # "header" /\ ~(l.kind = "entry" /\ st.active # NoRoute)
  <2>1. nxt.active = NoRoute /\ nxt.chains = st.chains
    BY <1>4 DEF ParseLine, States
  <2> QED
    BY <2>1 DEF Upto
<1> QED
  BY <1>2, <1>3, <1>4

\* Whatever part of the log is parsed, no chain mixes two starts.
LEMMA ParsedWhole ==
  ASSUME NEW s, Linked(s)
  PROVE  \A r \in Routes : Whole(Parse(s).chains[r], r)
<1>1. s \in Seq(Printable) /\ Len(s) \in Nat
  BY DEF Linked
<1>2. PICK a : Parses(a, s)
  BY <1>1, ParseRows
<1> DEFINE S == {i \in 0..Len(s) : IF i = 0 THEN a[i] = Unparsed ELSE Upto(a[i], s[i])}
<1>3. 0 \in S
  BY <1>1, <1>2 DEF Parses
<1>4. ASSUME NEW i \in 1..Len(s), i - 1 \in S PROVE i \in S
  <2>1. s[i] \in Printable /\ i - 1 \in 0..Len(s)
    BY <1>1
  <2>2. a[i - 1] \in States /\ a[i] = ParseLine(a[i - 1], s[i])
    BY <2>1, <1>2 DEF Parses
  <2>3. CASE i = 1
    <3>1. a[i - 1] = Unparsed
      BY <2>3, <1>4
    <3>2. Unparsed.active = NoRoute /\ \A r \in Routes : Unparsed.chains[r] = <<>>
      BY DEF Unparsed
    <3>3. CASE s[i].kind = "entry"
      <4>1. a[i].active = NoRoute /\ a[i].chains = Unparsed.chains
        BY <2>2, <3>1, <3>3 DEF ParseLine, Unparsed
      <4>2. Upto(a[i], s[i])
        BY <4>1, <3>2 DEF Upto, Whole
      <4> QED
        BY <4>2
    <3>4. CASE s[i].kind # "entry"
      <4>1. Upto(Unparsed, s[i]) /\ Follows(s[i], s[i])
        BY <3>2, <3>4 DEF Upto, Whole, Follows
      <4>2. Upto(a[i], s[i])
        BY <4>1, <2>1, <2>2, <3>1, UptoNext
      <4> QED
        BY <4>2
    <3> QED
      BY <3>3, <3>4
  <2>4. CASE i # 1
    <3>1. Upto(a[i - 1], s[i - 1]) /\ Follows(s[i - 1], s[i])
      BY <2>4, <1>4 DEF Linked
    <3>2. Upto(a[i], s[i])
      BY <3>1, <2>1, <2>2, UptoNext
    <3> QED
      BY <3>2
  <2> QED
    BY <2>3, <2>4
<1>5. 0..Len(s) \subseteq S
  <2> HIDE DEF S
  <2> QED
    BY <1>1, <1>3, <1>4, UpTo
<1>6. \A r \in Routes : Whole(a[Len(s)].chains[r], r)
  <2>1. Len(s) \in S
    BY <1>1, <1>5
  <2>2. CASE Len(s) = 0
    BY <2>1, <2>2 DEF Unparsed, Whole
  <2>3. CASE Len(s) # 0
    BY <2>1, <2>3 DEF Upto
  <2> QED
    BY <2>2, <2>3
<1> QED
  BY <1>2, <1>6 DEF Parses

-----------------------------------------------------------------------------
(* What a start prints. *)

\* Blocks and nothing else.
Blocks(t) ==
  /\ Linked(t)
  /\ \A i \in 1..Len(t) : t[i].kind # "other"
  /\ Len(t) # 0 => t[1].kind = "header"

\* print_chain prints one block, its lines linked.
LEMMA BlockBlocks ==
  ASSUME run \in 1..MaxRuns, chain \in Lengths, NEW r \in Routes
  PROVE  /\ Blocks(Block(r)) /\ Len(Block(r)) = chain[r] + 1 /\ Block(r)[1] = Header(r)
         /\ \A n \in 1..chain[r] : Block(r)[n + 1] = EntryLine(r, n)
<1>1. PICK m \in Nat : m = chain[r]
  BY LengthsAssumption
<1> DEFINE es == [n \in 1..m |-> EntryLine(r, n)]
           b == Block(r)
<1>2. Header(r) \in Printable /\ \A n \in 1..m : EntryLine(r, n) \in Printable
  BY DEF Header, EntryLine, Printable, Lines
<1>3. es \in Seq(Printable) /\ Len(es) = m /\ \A n \in 1..m : es[n] = EntryLine(r, n)
  BY <1>2
<1>4. b = <<Header(r)>> \o es
  BY <1>1 DEF Block, Entries
<1> HIDE DEF es, b
<1>5. b \in Seq(Printable) /\ Len(b) = m + 1 /\ b[1] = Header(r)
  BY <1>2, <1>3, <1>4
<1>6. \A n \in 1..m : b[n + 1] = EntryLine(r, n)
  BY <1>2, <1>3, <1>4
<1>7. ASSUME NEW i \in 1..Len(b), i # 1 PROVE i - 1 \in 1..m /\ b[i] = EntryLine(r, i - 1)
  <2>1. i - 1 \in 1..m /\ (i - 1) + 1 = i
    BY <1>5, <1>7
  <2> QED
    BY <2>1, <1>6
<1>8. \A i \in 1..Len(b) : b[i].kind # "other" /\ (i = 1 => b[i].kind = "header")
  BY <1>5, <1>7 DEF Header, EntryLine
<1>9. ASSUME NEW i \in 1..Len(b), i > 1 PROVE Follows(b[i - 1], b[i])
  <2>1. b[i] = EntryLine(r, i - 1) /\ i - 1 \in 1..Len(b)
    BY <1>5, <1>7, <1>9
  <2>2. CASE i = 2
    BY <2>1, <2>2, <1>5 DEF Header, EntryLine, Follows
  <2>3. CASE i # 2
    <3>1. b[i - 1] = EntryLine(r, (i - 1) - 1)
      BY <2>1, <2>3, <1>7, <1>9
    <3> QED
      BY <2>1, <3>1 DEF EntryLine, Follows
  <2> QED
    BY <2>2, <2>3
<1>10. Blocks(b)
  BY <1>5, <1>8, <1>9 DEF Blocks, Linked
<1> QED
  BY <1>1, <1>5, <1>6, <1>10 DEF b

\* Blocks after blocks are blocks.
LEMMA BlocksConcat ==
  ASSUME NEW s, Blocks(s), NEW t, Blocks(t)
  PROVE  Blocks(s \o t)
<1> DEFINE b == s \o t
<1>1. s \in Seq(Printable) /\ t \in Seq(Printable) /\ Len(s) \in Nat /\ Len(t) \in Nat
  BY DEF Blocks, Linked
<1>2. /\ b \in Seq(Printable) /\ Len(b) = Len(s) + Len(t)
      /\ \A i \in 1..(Len(s) + Len(t)) : b[i] = IF i <= Len(s) THEN s[i] ELSE t[i - Len(s)]
  BY <1>1, ConcatProperties
<1> HIDE DEF b
<1>3. \A i \in 1..Len(b) : b[i].kind # "other"
  BY <1>1, <1>2 DEF Blocks
<1>4. Len(b) # 0 => b[1].kind = "header"
  BY <1>1, <1>2 DEF Blocks
<1>5. ASSUME NEW i \in 1..Len(b), i > 1 PROVE Follows(b[i - 1], b[i])
  <2>1. CASE i <= Len(s)
    <3>1. i \in 1..Len(s) /\ b[i] = s[i] /\ b[i - 1] = s[i - 1]
      BY <2>1, <1>1, <1>2, <1>5
    <3> QED
      BY <3>1, <1>5 DEF Blocks, Linked
  <2>2. CASE i = Len(s) + 1
    <3>1. b[i] = t[1] /\ Len(t) # 0
      BY <2>2, <1>1, <1>2
    <3> QED
      BY <3>1 DEF Blocks, Follows
  <2>3. CASE i > Len(s) + 1
    <3>1. i - Len(s) \in 1..Len(t) /\ i - Len(s) > 1 /\ (i - 1) - Len(s) = (i - Len(s)) - 1
      BY <2>3, <1>1, <1>2
    <3>2. /\ i \in 1..(Len(s) + Len(t)) /\ i - 1 \in 1..(Len(s) + Len(t))
          /\ ~(i <= Len(s)) /\ ~(i - 1 <= Len(s))
      BY <2>3, <1>1, <1>2
    <3>3. b[i] = t[i - Len(s)] /\ b[i - 1] = t[(i - 1) - Len(s)]
      BY <3>2, <1>2
    <3> QED
      BY <3>1, <3>3 DEF Blocks, Linked
  <2>4. i <= Len(s) \/ i = Len(s) + 1 \/ i > Len(s) + 1
    BY <1>1, <1>2
  <2> QED
    BY <2>1, <2>2, <2>3, <2>4
<1>6. Blocks(b)
  BY <1>2, <1>3, <1>4, <1>5 DEF Blocks, Linked
<1> QED
  BY <1>6 DEF b

\* The blocks of all routes.
Printout == FlattenSeq([i \in DOMAIN ROUTES |-> Block(ROUTES[i])])

\* g holds the blocks of the first routes.
PrintsUpTo(g) ==
  /\ g \in [0..Len(ROUTES) -> Seq(Printable)] /\ g[0] = <<>> /\ g[Len(ROUTES)] = Printout
  /\ \A i \in 1..Len(ROUTES) : g[i] = g[i - 1] \o Block(ROUTES[i])

\* The blocks are printed one after the other.
LEMMA PrintoutRows ==
  ASSUME run \in 1..MaxRuns, chain \in Lengths
  PROVE  \E g : PrintsUpTo(g)
<1> DEFINE E == Printable
           ss == [i \in 1..Len(ROUTES) |-> Block(ROUTES[i])]
           T == Seq(E)
<1>1. /\ Len(ROUTES) \in Nat \ {0} /\ DOMAIN ROUTES = 1..Len(ROUTES)
      /\ \A i \in 1..Len(ROUTES) : ROUTES[i] \in Routes
  BY RoutesAssumption, EmptySeq
<1>2. \A i \in 1..Len(ROUTES) : Block(ROUTES[i]) \in T
  BY <1>1, BlockBlocks DEF Blocks, Linked
<1>3. /\ ss \in Seq(T) /\ Len(ss) = Len(ROUTES) /\ ss # <<>>
      /\ \A i \in 1..Len(ROUTES) : ss[i] = Block(ROUTES[i])
  <2> HIDE DEF T
  <2> QED
    BY <1>1, <1>2
<1>4. Printout = FlattenSeq(ss)
  BY <1>1 DEF Printout
<1> HIDE DEF ss, E
<1>5. PICK g \in [0..Len(ss) -> Seq(E)] :
        Rows(g, <<>>, Len(ss), FlattenStep(ss, E)) /\ g[Len(ss)] = FlattenSeq(ss)
  BY <1>3, FlattenRows
<1>6. ASSUME NEW i \in 1..Len(ss) PROVE g[i] = g[i - 1] \o ss[i]
  BY <1>3, <1>5, FlattenRow
<1>7. g[0] = <<>>
  BY <1>5 DEF Rows
<1>8. PrintsUpTo(g)
  BY <1>3, <1>4, <1>5, <1>6, <1>7 DEF PrintsUpTo, E
<1> QED
  BY <1>8

\* They are blocks, their lines linked.
LEMMA PrintoutBlocks ==
  ASSUME run \in 1..MaxRuns, chain \in Lengths
  PROVE  Blocks(Printout) /\ Len(Printout) # 0
<1>1. /\ Len(ROUTES) \in Nat \ {0}
      /\ \A i \in 1..Len(ROUTES) : ROUTES[i] \in Routes
  BY RoutesAssumption, EmptySeq
<1>2. PICK g : PrintsUpTo(g)
  BY PrintoutRows
<1> DEFINE S == {i \in 0..Len(ROUTES) : Blocks(g[i]) /\ (i # 0 => Len(g[i]) # 0)}
<1>3. 0 \in S
  <2>1. Blocks(<<>>)
    BY DEF Blocks, Linked
  <2> QED
    BY <1>1, <1>2, <2>1 DEF PrintsUpTo
<1>4. ASSUME NEW i \in 1..Len(ROUTES), i - 1 \in S PROVE i \in S
  <2>1. g[i] = g[i - 1] \o Block(ROUTES[i]) /\ Blocks(g[i - 1])
    BY <1>2, <1>4 DEF PrintsUpTo
  <2>2. Blocks(Block(ROUTES[i])) /\ Len(Block(ROUTES[i])) = chain[ROUTES[i]] + 1
    BY <1>1, BlockBlocks
  <2>3. chain[ROUTES[i]] \in Nat
    BY <1>1, LengthsAssumption
  <2>4. Blocks(g[i])
    BY <2>1, <2>2, BlocksConcat
  <2>5. Len(g[i]) = Len(g[i - 1]) + Len(Block(ROUTES[i])) /\ Len(g[i - 1]) \in Nat
    <3>1. g[i - 1] \in Seq(Printable) /\ Block(ROUTES[i]) \in Seq(Printable)
      BY <2>1, <2>2 DEF Blocks, Linked
    <3> QED
      BY <2>1, <3>1
  <2> QED
    BY <2>2, <2>3, <2>4, <2>5
<1>5. 0..Len(ROUTES) \subseteq S
  <2> HIDE DEF S
  <2> QED
    BY <1>1, <1>3, <1>4, UpTo
<1>6. Len(ROUTES) \in S
  BY <1>1, <1>5
<1> QED
  BY <1>1, <1>2, <1>6 DEF PrintsUpTo

\* A start prints blocks, then one other line.
LEMMA ScriptShape ==
  ASSUME run \in 1..MaxRuns, chain \in Lengths
  PROVE  /\ Linked(Script) /\ Len(Script) = Len(Printout) + 1 /\ Len(Printout) \in Nat
         /\ Script[1].kind = "header"
         /\ \A i \in 1..Len(Script) : Script[i].kind = "other" <=> i = Len(Script)
         /\ \A i \in 1..Len(Printout) : Script[i] = Printout[i]
<1>1. Blocks(Printout) /\ Len(Printout) # 0
  BY PrintoutBlocks
<1>2. Linked(Printout) /\ Len(Printout) \in Nat /\ Printout \in Seq(Printable)
  BY <1>1 DEF Blocks, Linked
<1>3. OtherLine \in Printable /\ OtherLine.kind = "other"
  BY DEF OtherLine, Printable, Lines
<1>4. Script = Append(Printout, OtherLine)
  BY <1>2, <1>3 DEF Script, Printout
<1>5. Len(Printout) # 0 => Follows(Printout[Len(Printout)], OtherLine)
  BY <1>3 DEF Follows
<1>6. /\ Linked(Script) /\ Len(Script) = Len(Printout) + 1
      /\ Script[Len(Printout) + 1] = OtherLine
      /\ \A i \in 1..Len(Printout) : Script[i] = Printout[i]
  BY <1>2, <1>3, <1>4, <1>5, LinkedAppend
<1>7. \A i \in 1..Len(Printout) : Printout[i].kind # "other"
  BY <1>1 DEF Blocks
<1> QED
  BY <1>1, <1>2, <1>3, <1>6, <1>7 DEF Blocks

-----------------------------------------------------------------------------
(* What a whole start says. *)

\* The lines of a concatenation, by their position.
LEMMA ConcatLines ==
  ASSUME NEW s \in Seq(Printable), NEW t \in Seq(Printable), NEW u, u = s \o t
  PROVE  /\ Len(s) \in Nat /\ Len(t) \in Nat /\ Len(u) = Len(s) + Len(t)
         /\ \A m \in 1..Len(s) : u[m] = s[m]
         /\ \A m \in 1..Len(t) : u[Len(s) + m] = t[m]
<1>1. Len(s) \in Nat /\ Len(t) \in Nat
  OBVIOUS
<1>2. /\ Len(u) = Len(s) + Len(t)
      /\ \A i \in 1..(Len(s) + Len(t)) : u[i] = IF i <= Len(s) THEN s[i] ELSE t[i - Len(s)]
  BY ConcatProperties
<1>3. ASSUME NEW m \in 1..Len(t) PROVE u[Len(s) + m] = t[m]
  <2>1. /\ Len(s) + m \in 1..(Len(s) + Len(t)) /\ ~(Len(s) + m <= Len(s))
        /\ (Len(s) + m) - Len(s) = m
    BY <1>1
  <2> QED
    BY <1>2, <2>1
<1>4. ASSUME NEW m \in 1..Len(s) PROVE u[m] = s[m]
  <2>1. m \in 1..(Len(s) + Len(t)) /\ m <= Len(s)
    BY <1>1
  <2> QED
    BY <1>2, <2>1
<1> QED
  BY <1>1, <1>2, <1>3, <1>4

\* The first i blocks are where the script has them.
LEMMA PrintsWithin ==
  ASSUME run \in 1..MaxRuns, chain \in Lengths, NEW g, PrintsUpTo(g), NEW i \in 1..Len(ROUTES)
  PROVE  /\ Len(g[i - 1]) \in Nat /\ chain[ROUTES[i]] \in Nat
         /\ Len(g[i]) = Len(g[i - 1]) + 1 + chain[ROUTES[i]] /\ Len(g[i]) <= Len(Printout)
         /\ Script[Len(g[i - 1]) + 1] = Header(ROUTES[i])
         /\ \A n \in 1..chain[ROUTES[i]] : Script[Len(g[i - 1]) + 1 + n] = EntryLine(ROUTES[i], n)
<1> DEFINE r == ROUTES[i]
           N == Len(ROUTES)
<1>1. N \in Nat /\ \A j \in 1..N : ROUTES[j] \in Routes
  BY RoutesAssumption
<1>2. \A j \in 0..N : g[j] \in Seq(Printable)
  BY DEF PrintsUpTo
<1>3. \A j \in 1..N : Block(ROUTES[j]) \in Seq(Printable) /\ g[j] = g[j - 1] \o Block(ROUTES[j])
  BY <1>1, BlockBlocks DEF PrintsUpTo, Blocks, Linked
<1> DEFINE S == {j \in 0..N : i <= j => StartsWith(g[j], g[i])}
<1>4. 0 \in S
  BY <1>1
<1>5. ASSUME NEW j \in 1..N, j - 1 \in S PROVE j \in S
  <2>1. g[j] \in Seq(Printable) /\ g[j - 1] \in Seq(Printable) /\ g[i] \in Seq(Printable)
    <3>1. j - 1 \in 0..N /\ j \in 0..N /\ i \in 0..N
      BY <1>1
    <3> QED
      BY <3>1, <1>2
  <2>2. CASE j = i
    BY <2>1, <2>2 DEF StartsWith
  <2>3. CASE i <= j - 1
    <3>1. StartsWith(g[j - 1], g[i])
      BY <1>5, <2>3
    <3>2. /\ Len(g[j]) = Len(g[j - 1]) + Len(Block(ROUTES[j])) /\ Len(Block(ROUTES[j])) \in Nat
          /\ \A m \in 1..Len(g[j - 1]) : g[j][m] = g[j - 1][m]
      <4> DEFINE b == Block(ROUTES[j])
      <4>1. g[j] = g[j - 1] \o b /\ b \in Seq(Printable) /\ g[j - 1] \in Seq(Printable)
        BY <1>3, <2>1
      <4> HIDE DEF b
      <4>2. /\ Len(g[j]) = Len(g[j - 1]) + Len(b) /\ Len(b) \in Nat
            /\ \A m \in 1..Len(g[j - 1]) : g[j][m] = g[j - 1][m]
        BY <4>1, ConcatLines
      <4> QED
        BY <4>2 DEF b
    <3>3. Len(g[i]) <= Len(g[j - 1]) /\ Len(g[i]) \in Nat /\ Len(g[j - 1]) \in Nat
      BY <2>1, <3>1 DEF StartsWith
    <3>4. ASSUME NEW m \in 1..Len(g[i]) PROVE g[j][m] = g[i][m]
      <4>1. m \in 1..Len(g[j - 1])
        BY <3>3
      <4> QED
        BY <4>1, <3>1, <3>2 DEF StartsWith
    <3>5. StartsWith(g[j], g[i])
      <4>1. Len(g[i]) <= Len(g[j])
        <5>1. PICK x \in Nat, y \in Nat, z \in Nat :
                x = Len(g[i]) /\ y = Len(g[j - 1]) /\ z = Len(Block(ROUTES[j]))
          BY <3>2, <3>3
        <5>2. x <= y => x <= y + z
          OBVIOUS
        <5> QED
          BY <5>1, <5>2, <3>2, <3>3
      <4> QED
        BY <4>1, <3>4 DEF StartsWith
    <3> QED
      BY <3>5
  <2>4. CASE ~(i <= j)
    BY <2>4
  <2> QED
    BY <2>2, <2>3, <2>4, <1>1
<1>6. StartsWith(Printout, g[i])
  <2>1. 0..N \subseteq S
    <3> HIDE DEF S
    <3> QED
      BY <1>1, <1>4, <1>5, UpTo
  <2>2. N \in S
    BY <2>1, <1>1
  <2> QED
    BY <2>2, <1>1 DEF PrintsUpTo
<1> HIDE DEF S
<1>7. /\ Len(Block(r)) = chain[r] + 1 /\ Block(r)[1] = Header(r)
      /\ \A n \in 1..chain[r] : Block(r)[n + 1] = EntryLine(r, n)
  BY <1>1, BlockBlocks
<1>8. chain[r] \in Nat /\ g[i - 1] \in Seq(Printable) /\ Len(g[i - 1]) \in Nat
  <2>1. i - 1 \in 0..N /\ r \in Routes
    BY <1>1
  <2>2. g[i - 1] \in Seq(Printable)
    BY <2>1, <1>2
  <2> QED
    BY <2>1, <2>2, LengthsAssumption
<1>9. /\ Len(g[i]) = Len(g[i - 1]) + 1 + chain[r]
      /\ \A m \in 1..(chain[r] + 1) : g[i][Len(g[i - 1]) + m] = Block(r)[m]
  <2>1. /\ Len(g[i]) = Len(g[i - 1]) + Len(Block(r))
        /\ \A m \in 1..Len(Block(r)) : g[i][Len(g[i - 1]) + m] = Block(r)[m]
    <3>1. g[i] = g[i - 1] \o Block(r) /\ Block(r) \in Seq(Printable)
      BY <1>3
    <3> HIDE DEF r
    <3> QED
      BY <3>1, <1>8, ConcatLines
  <2>2. PICK c \in Nat, p \in Nat : c = chain[r] /\ p = Len(g[i - 1])
    BY <1>8
  <2>3. Len(g[i]) = p + (c + 1) /\ \A m \in 1..(c + 1) : g[i][p + m] = Block(r)[m]
    BY <2>1, <2>2, <1>7
  <2>4. p + (c + 1) = p + 1 + c
    OBVIOUS
  <2> QED
    BY <2>2, <2>3, <2>4
<1>10. ASSUME NEW m \in 1..(chain[r] + 1) PROVE Script[Len(g[i - 1]) + m] = Block(r)[m]
  <2>1. Len(g[i - 1]) + m \in 1..Len(g[i]) /\ Len(g[i]) \in Nat
    BY <1>8, <1>9
  <2>2. Printout[Len(g[i - 1]) + m] = Block(r)[m] /\ Len(g[i]) <= Len(Printout)
    BY <2>1, <1>6, <1>9 DEF StartsWith
  <2>3. Len(g[i - 1]) + m \in 1..Len(Printout)
    BY <2>1, <2>2, ScriptShape
  <2> QED
    BY <2>2, <2>3, ScriptShape
<1>11. Script[Len(g[i - 1]) + 1] = Header(r)
  BY <1>7, <1>8, <1>10
<1>12. ASSUME NEW n \in 1..chain[r] PROVE Script[Len(g[i - 1]) + 1 + n] = EntryLine(r, n)
  <2>1. n + 1 \in 1..(chain[r] + 1) /\ Len(g[i - 1]) + (n + 1) = Len(g[i - 1]) + 1 + n
    <3>1. PICK c \in Nat, p \in Nat : c = chain[r] /\ p = Len(g[i - 1])
      BY <1>8
    <3>2. n \in 1..c
      BY <3>1
    <3>3. n + 1 \in 1..(c + 1) /\ p + (n + 1) = p + 1 + n
      BY <3>2
    <3> QED
      BY <3>1, <3>3
  <2>2. Script[Len(g[i - 1]) + (n + 1)] = Block(r)[n + 1]
    BY <2>1, <1>10
  <2> QED
    BY <2>1, <2>2, <1>7
<1> QED
  BY <1>6, <1>8, <1>9, <1>11, <1>12 DEF StartsWith

\* After the first n entries of r's block.
AfterEntries(st, r, n) ==
  [active |-> r, seen |-> st.seen \union {r},
   chains |-> [st.chains EXCEPT ![r] = [k \in 1..n |-> EntryLine(r, k)]]]

\* Parsing the block of r gives r its whole chain and touches no other.
LEMMA ParseBlock ==
  ASSUME NEW a, Parses(a, Script), run \in 1..MaxRuns, chain \in Lengths,
         NEW r \in Routes, NEW p \in Nat, p + 1 + chain[r] <= Len(Script),
         Script[p + 1] = Header(r), \A n \in 1..chain[r] : Script[p + 1 + n] = EntryLine(r, n)
  PROVE  a[p + 1 + chain[r]] = AfterEntries(a[p], r, chain[r])
<1>1. chain[r] \in Nat /\ Len(Script) \in Nat /\ r # NoRoute
  BY LengthsAssumption, ScriptShape, RoutesAssumption
<1>2. \A i \in 1..Len(Script) : a[i] = ParseLine(a[i - 1], Script[i])
  BY DEF Parses
<1>3. a[p] \in States
  <2>1. p \in 0..Len(Script)
    BY <1>1
  <2> QED
    BY <2>1 DEF Parses
<1> DEFINE S == {n \in 0..chain[r] : a[p + 1 + n] = AfterEntries(a[p], r, n)}
<1>4. 0 \in S
  <2>1. p + 1 \in 1..Len(Script) /\ (p + 1) - 1 = p /\ p + 1 + 0 = p + 1
    BY <1>1
  <2>2. a[p + 1] = ParseLine(a[p], Header(r))
    BY <2>1, <1>2
  <2>3. ParseLine(a[p], Header(r)) = [active |-> r, seen |-> a[p].seen \union {r},
                                      chains |-> [a[p].chains EXCEPT ![r] = <<>>]]
    BY DEF ParseLine, Header
  <2>4. [k \in 1..0 |-> EntryLine(r, k)] = <<>>
    OBVIOUS
  <2> QED
    BY <2>1, <2>2, <2>3, <2>4, <1>1 DEF AfterEntries
<1>5. ASSUME NEW n \in 1..chain[r], n - 1 \in S PROVE n \in S
  <2> DEFINE es(k) == [j \in 1..k |-> EntryLine(r, j)]
             l == EntryLine(r, n)
             st == a[p + 1 + (n - 1)]
  <2>1. p + 1 + n \in 1..Len(Script) /\ (p + 1 + n) - 1 = p + 1 + (n - 1)
    BY <1>1
  <2>2. a[p + 1 + n] = ParseLine(st, l)
    BY <2>1, <1>2
  <2>3. st = AfterEntries(a[p], r, n - 1)
    BY <1>5
  <2> DEFINE f == [a[p].chains EXCEPT ![r] = es(n - 1)]
             d == Append(es(n - 1), l)
             h == [a[p].chains EXCEPT ![r] = es(n)]
  <2>4. d = es(n)
    BY <1>1
  <2>5. f[r] = es(n - 1) /\ [f EXCEPT ![r] = d] = h
    <3>1. a[p].chains \in [Routes -> Seq(Lines)]
      BY <1>3 DEF States
    <3> HIDE DEF es, d
    <3> QED
      BY <3>1, <2>4
  <2>6. st = [active |-> r, seen |-> a[p].seen \union {r}, chains |-> f]
    BY <2>3 DEF AfterEntries
  <2>7. l.kind = "entry"
    BY DEF EntryLine
  <2>8. st.chains[r] = es(n - 1) /\ st.active = r /\ st.chains = f
    BY <2>5, <2>6
  <2>9. ParseLine(st, l) = [st EXCEPT !.chains = [f EXCEPT ![r] = d]]
    <3> HIDE DEF f, es
    <3> QED
      BY <2>7, <2>8, <1>1 DEF ParseLine
  <2>10. [st EXCEPT !.chains = h] = [active |-> r, seen |-> a[p].seen \union {r}, chains |-> h]
    <3> DEFINE sn == a[p].seen \union {r}
    <3>1. st = [active |-> r, seen |-> sn, chains |-> f]
      BY <2>6
    <3>2. [st EXCEPT !.chains = h] = [active |-> r, seen |-> sn, chains |-> h]
      <4> HIDE DEF f, h, sn, st
      <4> QED
        BY <3>1
    <3> QED
      BY <3>2
  <2>11. AfterEntries(a[p], r, n) = [active |-> r, seen |-> a[p].seen \union {r}, chains |-> h]
    BY DEF AfterEntries
  <2>12. a[p + 1 + n] = AfterEntries(a[p], r, n) /\ n \in 0..chain[r]
    <3>1. n \in 0..chain[r]
      BY <1>1
    <3>2. ParseLine(st, l) = [st EXCEPT !.chains = h]
      BY <2>5, <2>9, Zenon
    <3> HIDE DEF f, h, st, d, l, es
    <3> QED
      BY <2>2, <2>10, <2>11, <3>1, <3>2, Zenon
  <2> QED
    BY <2>12
<1>6. 0..chain[r] \subseteq S
  <2> HIDE DEF S
  <2> QED
    BY <1>1, <1>4, <1>5, UpTo
<1> QED
  BY <1>1, <1>6

\* The parser reports what the whole output says: every route, with its chain.
LEMMA ScriptParsed ==
  ASSUME run \in 1..MaxRuns, chain \in Lengths
  PROVE  Parse(Script) = [seen |-> Routes, chains |-> [r \in Routes |-> Entries(r)]]
<1> DEFINE N == Len(ROUTES)
<1>1. N \in Nat /\ DOMAIN ROUTES = 1..N /\ \A j \in 1..N : ROUTES[j] \in Routes
  BY RoutesAssumption
<1>2. PICK g : PrintsUpTo(g)
  BY PrintoutRows
<1>3. Script \in Seq(Printable) /\ Len(Script) = Len(Printout) + 1 /\ Len(Printout) \in Nat
  BY ScriptShape DEF Linked
<1>4. PICK a : Parses(a, Script)
  BY <1>3, ParseRows
<1> DEFINE Done(i) == /\ a[Len(g[i])].seen = {ROUTES[j] : j \in 1..i}
                      /\ \A j \in 1..i : a[Len(g[i])].chains[ROUTES[j]] = Entries(ROUTES[j])
           S == {i \in 0..N : Done(i)}
<1>5. 0 \in S
  <2>1. Len(g[0]) = 0 /\ 1..0 = {}
    BY <1>2 DEF PrintsUpTo
  <2> QED
    BY <2>1, <1>1, <1>4 DEF Parses, Unparsed
<1>6. ASSUME NEW i \in 1..N, i - 1 \in S PROVE i \in S
  <2> DEFINE r == ROUTES[i]
             p == Len(g[i - 1])
             st == a[p]
  <2>1. /\ p \in Nat /\ chain[r] \in Nat /\ Len(g[i]) = p + 1 + chain[r]
        /\ Len(g[i]) <= Len(Printout) /\ Script[p + 1] = Header(r)
        /\ \A n \in 1..chain[r] : Script[p + 1 + n] = EntryLine(r, n)
    BY <1>2, PrintsWithin
  <2>2. r \in Routes /\ p + 1 + chain[r] <= Len(Script) /\ p \in 0..Len(Script)
    BY <2>1, <1>1, <1>3
  <2>3. st.chains \in [Routes -> Seq(Lines)]
    BY <2>2, <1>4 DEF Parses, States
  <2>4. Done(i - 1)
    BY <1>6
  <2> HIDE DEF p, r
  <2>5. a[Len(g[i])] = AfterEntries(st, r, chain[r])
    BY <2>1, <2>2, <1>4, ParseBlock
  <2>6. /\ a[Len(g[i])].seen = st.seen \union {r}
        /\ a[Len(g[i])].chains = [st.chains EXCEPT ![r] = Entries(r)]
    BY <2>5 DEF AfterEntries, Entries
  <2>7. \A j \in 1..i : j = i \/ j \in 1..(i - 1)
    OBVIOUS
  <2>8. a[Len(g[i])].seen = {ROUTES[j] : j \in 1..i}
    BY <2>4, <2>6, <2>7 DEF r, p
  <2>9. ASSUME NEW j \in 1..i PROVE a[Len(g[i])].chains[ROUTES[j]] = Entries(ROUTES[j])
    <3>1. ROUTES[j] \in Routes
      BY <1>1
    <3>2. CASE ROUTES[j] = r
      BY <3>1, <3>2, <2>3, <2>6
    <3>3. CASE ROUTES[j] # r
      <4>1. j \in 1..(i - 1)
        BY <3>3, <2>7 DEF r
      <4> QED
        BY <4>1, <3>1, <3>3, <2>3, <2>4, <2>6 DEF p
    <3> QED
      BY <3>2, <3>3
  <2> QED
    BY <2>8, <2>9
<1>7. Done(N)
  <2>1. 0..N \subseteq S
    <3> HIDE DEF S
    <3> QED
      BY <1>1, <1>5, <1>6, UpTo
  <2> QED
    BY <2>1, <1>1
<1> DEFINE n == Len(Printout)
<1>8. Len(g[N]) = n /\ n \in 0..Len(Script) /\ n + 1 \in 1..Len(Script) /\ (n + 1) - 1 = n
  BY <1>1, <1>2, <1>3 DEF PrintsUpTo
<1>9. a[n].seen = Routes /\ \A r \in Routes : a[n].chains[r] = Entries(r)
  BY <1>1, <1>7, <1>8 DEF Routes, ToSet
<1>10. a[n] \in States /\ a[n + 1] = ParseLine(a[n], Script[n + 1])
  BY <1>4, <1>8 DEF Parses
<1>11. Script[n + 1].kind = "other"
  BY <1>3, <1>8, ScriptShape
<1>12. a[n + 1].seen = a[n].seen /\ a[n + 1].chains = a[n].chains
  BY <1>10, <1>11 DEF ParseLine, States
<1>13. a[n].chains = [r \in Routes |-> Entries(r)]
  <2>1. a[n].chains \in [Routes -> Seq(Lines)]
    BY <1>10 DEF States
  <2> QED
    BY <2>1, <1>9
<1> QED
  BY <1>3, <1>4, <1>9, <1>12, <1>13 DEF Parses

-----------------------------------------------------------------------------
(* The inductive invariant. *)

\* The log consists of blocks, and ends with what this start has printed.
Printing ==
  /\ Linked(log)
  /\ \A i \in 1..printed : i \in 1..Len(Script) /\ log[Len(log) - printed + i] = Script[i]

\* What was read is part of such a log; and as long as the start goes on that
\* the reader saw: it still listens when it did, the request is for exactly its
\* lines when StartedAt was exact, and so is the answer.
Reading ==
  /\ Linked(reader.lines)
  /\ reader.pc \in {"poll", "since", "request"} => reader.taken = 0
  /\ reader.run <= run
  /\ reader.run = run =>
       /\ reader.ready => Listening
       /\ reader.pc = "request" /\ reader.exact => reader.since = Len(log) - printed
       /\ reader.pc = "read" /\ reader.exact =>
            StartsWith(Script, reader.lines) /\ (reader.ready => reader.lines = Script)

IInv == TypeOK /\ Printing /\ Reading /\ NoMixedChain /\ ReportIsPrefix /\ CompleteReport

Readers ==
  [pc : {"poll", "since", "request", "read", "done", "failed"},
   ready : BOOLEAN, run : 0..MaxRuns, exact : BOOLEAN, since : Nat,
   lines : Seq(Lines), taken : Nat,
   report : [seen : SUBSET Routes, chains : [Routes -> Seq(Lines)]]]

\* The output of a start does not change while it runs.
LEMMA ScriptSame ==
  ASSUME UNCHANGED <<run, chain>>
  PROVE  Script' = Script
BY DEF Script, Block, Entries, Header, EntryLine, OtherLine

\* As long as the start goes on and nothing is printed, only the reader counts.
LEMMA OnlyReader ==
  ASSUME IInv, UNCHANGED <<run, chain, log, printed, from, torn>>,
         reader' \in Readers, reader'.taken <= Len(reader'.lines), reader'.pc # "done",
         reader'.pc \in {"poll", "since", "request"} => reader'.taken = 0,
         Linked(reader'.lines), reader'.run <= run,
         reader'.run = run =>
           /\ reader'.ready => Listening
           /\ reader'.pc = "request" /\ reader'.exact => reader'.since = Len(log) - printed
           /\ reader'.pc = "read" /\ reader'.exact =>
                StartsWith(Script, reader'.lines) /\ (reader'.ready => reader'.lines = Script)
  PROVE  IInv'
<1>1. Script' = Script
  BY ScriptSame
<1>2. TypeOK'
  BY DEF IInv, TypeOK, Readers
<1>3. Printing'
  BY <1>1 DEF IInv, Printing
<1>4. Reading'
  BY <1>1 DEF Reading, Listening
<1>5. NoMixedChain' /\ ReportIsPrefix' /\ CompleteReport'
  BY DEF NoMixedChain, ReportIsPrefix, CompleteReport, ReadyReportComplete, AboutThisStart
<1> QED
  BY <1>2, <1>3, <1>4, <1>5 DEF IInv

\* The invariant holds before the first line.
LEMMA InitInv ==
  ASSUME Init
  PROVE  IInv
<1>1. Linked(<<>>)
  BY DEF Linked
<1>2. NoReport \in [seen : SUBSET Routes, chains : [Routes -> Seq(Lines)]]
  BY DEF NoReport
<1>3. 1 \in 1..MaxRuns /\ 0 \in 0..MaxRuns
  BY RunsAssumption
<1>4. TypeOK
  <2> HIDE DEF NoReport
  <2>1. PICK e : e = <<>> /\ e \in Seq(Lines) /\ Len(e) = 0
    BY EmptySeq
  <2>2. reader = [pc |-> "poll", ready |-> FALSE, run |-> 0, exact |-> FALSE, since |-> 0,
                  lines |-> e, taken |-> 0, report |-> NoReport]
    BY <2>1 DEF Init
  <2>3. reader \in Readers /\ reader.lines = e /\ reader.taken = 0
    BY <2>1, <2>2, <1>2, <1>3 DEF Readers
  <2> QED
    <3>1. /\ run \in 1..MaxRuns /\ chain \in Lengths /\ log = e /\ printed = 0 /\ from = 0
          /\ torn \in BOOLEAN
      BY <2>1, <1>3 DEF Init
    <3>2. printed \in 0..Len(log) /\ from \in 0..Len(log) /\ log \in Seq(Lines)
      BY <3>1, <2>1
    <3>3. reader.taken <= Len(reader.lines)
      BY <2>1, <2>3
    <3> QED
      BY <3>1, <3>2, <3>3, <2>3 DEF TypeOK, Readers
<1>5. Printing
  BY <1>1 DEF Init, Printing
<1>6. Reading
  BY <1>1 DEF Init, Reading
<1> QED
  BY <1>4, <1>5, <1>6
     DEF Init, IInv, NoMixedChain, ReportIsPrefix, CompleteReport, ReadyReportComplete,
         AboutThisStart

\* A line more is printed.
LEMMA PrintLineInv ==
  ASSUME IInv, PrintLine
  PROVE  IInv'
<1>1. /\ ~Listening /\ log' = Append(log, Script[printed + 1]) /\ printed' = printed + 1
      /\ UNCHANGED <<run, chain, from, reader, torn>>
  BY DEF PrintLine
<1>2. Script' = Script
  BY <1>1, ScriptSame
<1>3. /\ run \in 1..MaxRuns /\ chain \in Lengths /\ printed \in 0..Len(log) /\ Len(log) \in Nat
      /\ log \in Seq(Lines)
  BY DEF IInv, TypeOK
<1>4. /\ Linked(Script) /\ Len(Script) \in Nat \ {0} /\ Script[1].kind = "header"
      /\ Script \in Seq(Printable)
  BY <1>3, ScriptShape DEF Linked
<1>5. Linked(log) /\ \A i \in 1..printed : i \in 1..Len(Script) /\ log[Len(log) - printed + i] = Script[i]
  BY DEF IInv, Printing
<1>6. printed + 1 \in 1..Len(Script)
  <2>1. printed <= Len(Script)
    <3>1. CASE printed = 0
      BY <3>1, <1>4
    <3>2. CASE printed # 0
      BY <3>2, <1>3, <1>5
    <3> QED
      BY <3>1, <3>2
  <2> QED
    BY <2>1, <1>1, <1>3, <1>4 DEF Listening
<1> DEFINE l == Script[printed + 1]
<1>7. l \in Printable
  BY <1>4, <1>6
<1>8. Len(log) # 0 => Follows(log[Len(log)], l)
  <2>1. CASE printed = 0
    BY <2>1, <1>4 DEF Follows
  <2>2. CASE printed # 0
    <3>1. printed \in 1..printed /\ Len(log) - printed + printed = Len(log)
      BY <2>2, <1>3
    <3>2. log[Len(log)] = Script[printed]
      BY <3>1, <1>5
    <3>3. printed + 1 > 1 /\ (printed + 1) - 1 = printed
      BY <2>2, <1>3
    <3> QED
      BY <3>2, <3>3, <1>4, <1>6 DEF Linked
  <2> QED
    BY <2>1, <2>2
<1>9. /\ Linked(log') /\ Len(log') = Len(log) + 1 /\ log'[Len(log) + 1] = l
      /\ \A i \in 1..Len(log) : log'[i] = log[i]
  BY <1>1, <1>5, <1>7, <1>8, LinkedAppend
<1>10. Printing'
  <2>1. ASSUME NEW i \in 1..(printed + 1)
        PROVE  i \in 1..Len(Script) /\ log'[(Len(log) + 1) - (printed + 1) + i] = Script[i]
    <3>1. CASE i = printed + 1
      <4>1. (Len(log) + 1) - (printed + 1) + i = Len(log) + 1
        BY <3>1, <1>3
      <4> QED
        BY <3>1, <4>1, <1>6, <1>9
    <3>2. CASE i # printed + 1
      <4>1. i \in 1..printed
        BY <3>2, <1>3
      <4>2. /\ (Len(log) + 1) - (printed + 1) + i = Len(log) - printed + i
            /\ Len(log) - printed + i \in 1..Len(log)
        BY <4>1, <1>3
      <4> QED
        BY <4>1, <4>2, <1>5, <1>9
    <3> QED
      BY <3>1, <3>2
  <2> QED
    BY <2>1, <1>1, <1>2, <1>9 DEF Printing
<1>11. Reading'
  <2>1. Len(log') - printed' = Len(log) - printed
    BY <1>1, <1>3, <1>9
  <2> QED
    BY <2>1, <1>1, <1>2 DEF IInv, Reading
<1>12. TypeOK'
  <2>1. log' \in Seq(Lines) /\ printed' \in 0..Len(log') /\ from \in 0..Len(log')
    <3>1. l \in Lines
      BY <1>7 DEF Printable
    <3> QED
      BY <3>1, <1>1, <1>3, <1>9 DEF IInv, TypeOK
  <2> QED
    BY <2>1, <1>1 DEF IInv, TypeOK
<1>13. NoMixedChain' /\ ReportIsPrefix' /\ CompleteReport'
  BY <1>1, <1>2 DEF IInv, NoMixedChain, ReportIsPrefix, CompleteReport, ReadyReportComplete,
                    AboutThisStart, Entries, EntryLine
<1> QED
  BY <1>10, <1>11, <1>12, <1>13 DEF IInv

\* The proxy starts again: the page no longer reads about this start.
LEMMA RestartInv ==
  ASSUME IInv, Restart
  PROVE  IInv'
<1>1. /\ run' = run + 1 /\ run < MaxRuns /\ chain' \in Lengths /\ printed' = 0
      /\ from' \in (Len(log) - printed)..Len(log) /\ UNCHANGED <<log, reader, torn>>
  BY DEF Restart
<1>2. /\ run \in 1..MaxRuns /\ printed \in 0..Len(log) /\ Len(log) \in Nat /\ reader.run \in 0..MaxRuns
      /\ reader.run <= run
  BY DEF IInv, TypeOK, Reading
<1>3. TypeOK'
  <2>1. run' \in 1..MaxRuns /\ printed' \in 0..Len(log) /\ from' \in 0..Len(log)
    BY <1>1, <1>2, RunsAssumption
  <2> QED
    BY <2>1, <1>1 DEF IInv, TypeOK
<1>4. Printing'
  BY <1>1 DEF IInv, Printing
<1>5. reader.run # run' /\ reader.run <= run'
  BY <1>1, <1>2
<1>6. Reading'
  BY <1>1, <1>5 DEF IInv, Reading
<1>7. NoMixedChain' /\ ReportIsPrefix' /\ CompleteReport'
  BY <1>1, <1>5 DEF IInv, NoMixedChain, ReportIsPrefix, CompleteReport, ReadyReportComplete, AboutThisStart
<1> QED
  BY <1>3, <1>4, <1>6, <1>7 DEF IInv

\* The readiness poll.
LEMMA PollInv ==
  ASSUME IInv, Poll
  PROVE  IInv'
<1>1. /\ reader' = [reader EXCEPT !.pc = "since", !.ready = Listening, !.run = run]
      /\ UNCHANGED <<run, chain, log, printed, from, torn>>
  BY DEF Poll
<1>2. PICK b \in BOOLEAN : b = Listening
  BY DEF Listening
<1>3. reader \in Readers /\ run \in 1..MaxRuns /\ reader.taken <= Len(reader.lines)
  BY DEF IInv, TypeOK, Readers
<1>4. reader' = [reader EXCEPT !.pc = "since", !.ready = b, !.run = run]
  BY <1>1, <1>2
<1>5. reader' \in Readers
  <2>1. PICK r \in 0..MaxRuns : r = run
    BY <1>3
  <2>2. reader' = [reader EXCEPT !.pc = "since", !.ready = b, !.run = r]
    BY <2>1, <1>4
  <2> QED
    BY <2>1, <2>2, <1>2, <1>3 DEF Readers
<1>6. /\ reader'.pc = "since" /\ reader'.ready = b /\ reader'.run = run
      /\ reader'.lines = reader.lines /\ reader'.taken = reader.taken
  BY <1>3, <1>4 DEF Readers
<1>7. Linked(reader.lines) /\ reader.taken = 0
  BY DEF IInv, Reading, Poll
<1>8. reader'.run <= run
  BY <1>3, <1>6
<1> QED
  BY <1>1, <1>2, <1>3, <1>5, <1>6, <1>7, <1>8, OnlyReader

\* StartedAt is asked for.
LEMMA SinceInv ==
  ASSUME IInv, Since
  PROVE  IInv'
<1>1. PICK s \in {0, from} :
        reader' = [reader EXCEPT !.pc = "request", !.since = s, !.exact = s = Len(log) - printed]
  BY DEF Since
<1>2. PICK b \in BOOLEAN : b = (s = Len(log) - printed)
  OBVIOUS
<1>3. reader \in Readers /\ from \in Nat /\ reader.taken <= Len(reader.lines)
  BY DEF IInv, TypeOK, Readers
<1>4. reader' = [reader EXCEPT !.pc = "request", !.since = s, !.exact = b]
  BY <1>1, <1>2
<1>5. reader' \in Readers
  <2>1. s \in Nat
    BY <1>3
  <2> QED
    BY <2>1, <1>2, <1>3, <1>4 DEF Readers
<1>6. /\ reader'.pc = "request" /\ reader'.since = s /\ reader'.exact = b
      /\ reader'.run = reader.run /\ reader'.ready = reader.ready
      /\ reader'.lines = reader.lines /\ reader'.taken = reader.taken
  BY <1>3, <1>4 DEF Readers
<1>7. /\ Linked(reader.lines) /\ reader.run <= run /\ reader.taken = 0
      /\ reader.run = run /\ reader.ready => Listening
  BY DEF IInv, Reading, Since
<1>8. UNCHANGED <<run, chain, log, printed, from, torn>>
  BY DEF Since
<1> QED
  BY <1>2, <1>3, <1>5, <1>6, <1>7, <1>8, OnlyReader

\* A request fails.
LEMMA RequestFailsInv ==
  ASSUME IInv, RequestFails
  PROVE  IInv'
<1>1. /\ reader' = [reader EXCEPT !.pc = "failed"]
      /\ UNCHANGED <<run, chain, log, printed, from, torn>>
  BY DEF RequestFails
<1>2. reader \in Readers /\ reader.taken <= Len(reader.lines)
  BY DEF IInv, TypeOK, Readers
<1>3. /\ reader' \in Readers /\ reader'.pc = "failed"
      /\ reader'.run = reader.run /\ reader'.ready = reader.ready
      /\ reader'.lines = reader.lines /\ reader'.taken = reader.taken
  BY <1>1, <1>2 DEF Readers
<1>4. /\ Linked(reader.lines) /\ reader.run <= run
      /\ reader.run = run /\ reader.ready => Listening
  BY DEF IInv, Reading
<1> QED
  BY <1>1, <1>2, <1>3, <1>4, OnlyReader

\* The lines there are now: the whole output, when the proxy was seen ready.
LEMMA RequestInv ==
  ASSUME IInv, Request
  PROVE  IInv'
<1> DEFINE t == SubSeq(log, reader.since + 1, Len(log))
<1>1. /\ reader.pc = "request"
      /\ reader' = [reader EXCEPT !.pc = "read", !.run = IF @ = run THEN @ ELSE 0, !.lines = t]
      /\ UNCHANGED <<run, chain, log, printed, from, torn>>
  BY DEF Request
<1>2. /\ reader \in Readers /\ run \in 1..MaxRuns /\ chain \in Lengths
      /\ printed \in 0..Len(log) /\ Len(log) \in Nat /\ reader.since \in Nat
  BY DEF IInv, TypeOK, Readers
<1>3. /\ Linked(t) /\ Len(t) = IF reader.since + 1 <= Len(log) THEN Len(log) - reader.since ELSE 0
      /\ \A i \in 1..(Len(log) - reader.since) : t[i] = log[reader.since + i]
  <2>1. Linked(log) /\ reader.since + 1 \in Nat \ {0} /\ Len(log) \in 0..Len(log)
    BY <1>2 DEF IInv, Printing
  <2>2. /\ Linked(t)
        /\ Len(t) = IF reader.since + 1 <= Len(log) THEN Len(log) - (reader.since + 1) + 1 ELSE 0
        /\ \A i \in 1..(Len(log) - (reader.since + 1) + 1) : t[i] = log[(reader.since + 1) + i - 1]
    BY <2>1, LinkedSubSeq
  <2> HIDE DEF t
  <2>3. Len(log) - (reader.since + 1) + 1 = Len(log) - reader.since
    BY <1>2
  <2>4. \A i \in 1..(Len(log) - reader.since) : (reader.since + 1) + i - 1 = reader.since + i
    BY <1>2
  <2> QED
    BY <2>2, <2>3, <2>4
<1>4. t \in Seq(Lines)
  <2>1. t \in Seq(Printable) /\ Printable \subseteq Lines
    BY <1>3 DEF Linked, Printable
  <2> QED
    BY <2>1, SeqMonotonic
<1> HIDE DEF t
<1>5. PICK r \in 0..MaxRuns : r = IF reader.run = run THEN reader.run ELSE 0
  <2>1. reader.run \in 0..MaxRuns /\ 0 \in 0..MaxRuns
    BY <1>2, RunsAssumption DEF Readers
  <2> QED
    BY <2>1
<1>6. reader' = [reader EXCEPT !.pc = "read", !.run = r, !.lines = t]
  BY <1>1, <1>5
<1>7. reader' \in Readers
  BY <1>2, <1>4, <1>6 DEF Readers
<1>8. /\ reader'.pc = "read" /\ reader'.run = r /\ reader'.lines = t
      /\ reader'.ready = reader.ready /\ reader'.exact = reader.exact /\ reader'.taken = reader.taken
  BY <1>2, <1>6 DEF Readers
<1>9. reader.taken = 0 /\ Len(t) \in Nat
  BY <1>1, <1>4 DEF IInv, Reading
<1>10. r <= run /\ (r = run => reader.run = run)
  BY <1>2, <1>5
<1>11. ASSUME reader.run = run, reader.exact
       PROVE  StartsWith(Script, t) /\ (reader.ready => t = Script)
  <2>1. reader.since = Len(log) - printed /\ (reader.ready => Listening)
    BY <1>1, <1>11 DEF IInv, Reading
  <2>2. Len(log) - reader.since = printed /\ Len(t) = printed
    BY <2>1, <1>2, <1>3
  <2>3. \A i \in 1..printed : i \in 1..Len(Script) /\ t[i] = Script[i]
    BY <2>1, <2>2, <1>3 DEF IInv, Printing
  <2>4. Script \in Seq(Printable) /\ Len(Script) \in Nat
    BY <1>2, ScriptShape DEF Linked
  <2>5. printed <= Len(Script)
    BY <2>3, <2>4, <1>2
  <2>6. StartsWith(Script, t)
    BY <2>2, <2>3, <2>5 DEF StartsWith
  <2>7. ASSUME reader.ready PROVE t = Script
    <3>1. Len(t) = Len(Script) /\ t \in Seq(Printable)
      BY <2>1, <2>2, <2>7, <1>3 DEF Listening, Linked
    <3> QED
      BY <3>1, <2>2, <2>3, <2>4, SeqEqual
  <2> QED
    BY <2>6, <2>7
<1> QED
  BY <1>1, <1>3, <1>7, <1>8, <1>9, <1>10, <1>11, OnlyReader DEF IInv, Reading

\* The report is what was read up to line k, and all of it when the reader saw
\* the proxy ready and no chunk ended inside a line.
LEMMA Answered ==
  ASSUME IInv, reader.pc = "read", NEW q, Linked(q), NEW k \in 0..Len(reader.lines),
         Parse(q) = Parse(SubSeq(reader.lines, 1, k)),
         reader' = [reader EXCEPT !.pc = "done", !.report = Parse(q)],
         UNCHANGED <<run, chain, log, printed, from>>, torn' \in BOOLEAN,
         ~torn' /\ reader.lines = Script => k = Len(reader.lines)
  PROVE  IInv'
<1>1. reader \in Readers /\ run \in 1..MaxRuns /\ chain \in Lengths
  BY DEF IInv, TypeOK, Readers
<1>2. Parse(q) \in [seen : SUBSET Routes, chains : [Routes -> Seq(Lines)]]
  BY ParseTyped DEF Linked
<1> DEFINE report == Parse(q)
<1> HIDE DEF report
<1>3. reader' = [reader EXCEPT !.pc = "done", !.report = report]
  BY DEF report
<1>4. reader' \in Readers
  <2>1. report \in [seen : SUBSET Routes, chains : [Routes -> Seq(Lines)]]
    BY <1>2 DEF report
  <2> QED
    BY <1>1, <1>3, <2>1 DEF Readers
<1>5. /\ reader'.pc = "done" /\ reader'.report = report
      /\ reader'.run = reader.run /\ reader'.ready = reader.ready /\ reader'.exact = reader.exact
      /\ reader'.lines = reader.lines /\ reader'.taken = reader.taken
  BY <1>1, <1>3 DEF Readers
<1>6. Script' = Script
  BY ScriptSame
<1>7. TypeOK'
  BY <1>4, <1>5 DEF IInv, TypeOK, Readers
<1>8. Printing'
  BY <1>6 DEF IInv, Printing
<1>9. Reading'
  BY <1>5, <1>6 DEF IInv, Reading, Listening
<1>10. NoMixedChain'
  <2>1. \A r \in Routes : Whole(report.chains[r], r)
    BY ParsedWhole DEF report
  <2>2. \A r \in Routes : DOMAIN report.chains[r] = 1..Len(report.chains[r])
    BY <1>2 DEF report
  <2> QED
    BY <2>1, <2>2, <1>5 DEF NoMixedChain, Whole
<1>11. ASSUME reader.run = run, reader.exact
       PROVE  k \in 0..Len(Script) /\ report = Parse(SubSeq(Script, 1, k))
  <2>1. StartsWith(Script, reader.lines)
    BY <1>11 DEF IInv, Reading
  <2>2. Linked(reader.lines) /\ Linked(Script) /\ Len(Script) \in Nat
    BY <1>1, ScriptShape DEF IInv, Reading
  <2>3. Len(reader.lines) \in Nat /\ k \in 0..Len(Script)
    BY <2>1, <2>2 DEF StartsWith, Linked
  <2>4. 1 \in Nat \ {0}
    OBVIOUS
  <2> DEFINE s == SubSeq(reader.lines, 1, k)
             t == SubSeq(Script, 1, k)
  <2>5. /\ Linked(s) /\ Len(s) = k /\ \A i \in 1..k : s[i] = reader.lines[i]
        /\ Linked(t) /\ Len(t) = k /\ \A i \in 1..k : t[i] = Script[i]
    <3>1. /\ Linked(s) /\ Len(s) = IF 1 <= k THEN k - 1 + 1 ELSE 0
          /\ \A i \in 1..(k - 1 + 1) : s[i] = reader.lines[1 + i - 1]
      BY <2>2, <2>4, LinkedSubSeq
    <3>2. /\ Linked(t) /\ Len(t) = IF 1 <= k THEN k - 1 + 1 ELSE 0
          /\ \A i \in 1..(k - 1 + 1) : t[i] = Script[1 + i - 1]
      BY <2>2, <2>3, <2>4, LinkedSubSeq
    <3> HIDE DEF s, t
    <3>3. k - 1 + 1 = k /\ (~(1 <= k) => k = 0) /\ \A i \in 1..k : 1 + i - 1 = i
      BY <2>3
    <3> QED
      BY <3>1, <3>2, <3>3
  <2> HIDE DEF s, t
  <2>6. \A i \in 1..k : s[i] = t[i]
    BY <2>1, <2>3, <2>5 DEF StartsWith
  <2>7. s = t
    BY <2>5, <2>6, SeqEqual DEF Linked
  <2> QED
    BY <2>3, <2>7 DEF s, t, report
<1>12. ReportIsPrefix'
  BY <1>5, <1>6, <1>11 DEF ReportIsPrefix, AboutThisStart
<1>13. CompleteReport'
  <2>1. SUFFICES ASSUME ~torn', reader.run = run, reader.exact, reader.ready
                 PROVE  report = [seen |-> Routes, chains |-> [r \in Routes |-> Entries(r)]]
    BY <1>5, <1>6 DEF CompleteReport, ReadyReportComplete, AboutThisStart, Entries, EntryLine
  <2>2. reader.lines = Script
    BY <2>1 DEF IInv, Reading
  <2>3. k = Len(Script)
    BY <2>1, <2>2
  <2>4. SubSeq(Script, 1, Len(Script)) = Script
    BY <1>1, ScriptShape, SubSeqFull DEF Linked
  <2> QED
    BY <2>1, <2>3, <2>4, <1>1, <1>11, ScriptParsed
<1> QED
  BY <1>7, <1>8, <1>9, <1>10, <1>12, <1>13 DEF IInv

\* The response ends.
LEMMA EndOfLogInv ==
  ASSUME IInv, EndOfLog
  PROVE  IInv'
<1> DEFINE k == Len(reader.lines)
<1>1. Linked(reader.lines) /\ torn \in BOOLEAN
  BY DEF IInv, Reading, TypeOK
<1>2. reader.lines \in Seq(Printable) /\ k \in 0..k
  BY <1>1 DEF Linked
<1>3. SubSeq(reader.lines, 1, k) = reader.lines
  BY <1>2, SubSeqFull
<1> QED
  BY <1>1, <1>2, <1>3, Answered DEF EndOfLog, Answer

\* One chunk: up to line k, with a part of the next one in rest.
LEMMA TakeInv ==
  ASSUME IInv, reader.pc = "read", NEW k \in (reader.taken + 1)..Len(reader.lines), NEW rest,
         Take(k, rest), UNCHANGED <<run, chain, log, printed, from>>, torn' \in BOOLEAN,
         torn => torn',
         \/ rest = <<>>
         \/ /\ torn' /\ k < Len(reader.lines)
            /\ \E f \in Fragments(reader.lines[k + 1]) : rest = <<f>>
  PROVE  IInv'
<1> DEFINE s == SubSeq(reader.lines, 1, k)
           q == s \o rest
<1>1. /\ reader \in Readers /\ reader.taken \in Nat /\ run \in 1..MaxRuns /\ chain \in Lengths
      /\ torn \in BOOLEAN
  BY DEF IInv, TypeOK, Readers
<1>2. Linked(reader.lines) /\ reader.lines \in Seq(Printable) /\ Len(reader.lines) \in Nat
  BY DEF IInv, Reading, Linked
<1>3. k \in Nat \ {0} /\ k \in 0..Len(reader.lines) /\ k <= Len(reader.lines)
  BY <1>1, <1>2
<1>4. Linked(s) /\ Len(s) = k /\ s \in Seq(Printable) /\ \A i \in 1..k : s[i] = reader.lines[i]
  <2>1. /\ Linked(s) /\ Len(s) = IF 1 <= k THEN k - 1 + 1 ELSE 0
        /\ \A i \in 1..(k - 1 + 1) : s[i] = reader.lines[1 + i - 1]
    BY <1>2, <1>3, LinkedSubSeq
  <2> HIDE DEF s
  <2>2. k - 1 + 1 = k /\ 1 <= k /\ \A i \in 1..k : 1 + i - 1 = i
    BY <1>3
  <2> QED
    BY <2>1, <2>2 DEF Linked
<1>5. CASE q # <<>> /\ Complete(q)
  <2>1. reader' = [reader EXCEPT !.pc = "done", !.report = Parse(q)]
    BY <1>5 DEF Take, Answer
  <2> HIDE DEF s
  <2>2. CASE rest = <<>>
    <3>1. q = s
      BY <2>2, <1>4
    <3>2. ASSUME reader.lines = Script PROVE k = Len(reader.lines)
      <4>1. Script[k].kind = "other"
        BY <1>3, <1>4, <1>5, <3>1, <3>2 DEF Complete, Last
      <4> QED
        BY <4>1, <1>1, <1>3, <3>2, ScriptShape
    <3> HIDE DEF q
    <3> QED
      BY <2>1, <3>1, <3>2, <1>3, <1>4, Answered DEF s
  <2>3. CASE rest # <<>>
    <3>1. PICK f \in Fragments(reader.lines[k + 1]) : rest = <<f>>
      BY <2>3
    <3>2. q = Append(s, f) /\ Last(q) = f
      BY <3>1, <1>4 DEF Last
    <3>3. f.kind = "other"
      BY <3>2, <1>5 DEF Complete
    <3>4. reader.lines[k + 1] \in Printable
      BY <1>2, <1>3, <2>3
    <3>5. f \in Printable
      <4>1. f = [reader.lines[k + 1] EXCEPT !.kind = "other"]
            \/ f = [reader.lines[k + 1] EXCEPT !.n = 0]
        BY <3>1 DEF Fragments
      <4> QED
        BY <4>1, <3>3, <3>4 DEF Printable, Lines
    <3>6. Linked(q) /\ Parse(q) = Parse(s)
      BY <3>2, <3>3, <3>5, <1>4, LinkedAppend, ParseOther DEF Follows
    <3> HIDE DEF q
    <3> QED
      BY <2>1, <2>3, <3>6, <1>3, Answered DEF s
  <2> QED
    BY <2>2, <2>3
<1>6. CASE ~(q # <<>> /\ Complete(q))
  <2>1. reader' = [reader EXCEPT !.taken = k]
    BY <1>6 DEF Take
  <2>2. reader' \in Readers
    BY <2>1, <1>1, <1>3 DEF Readers
  <2>3. /\ reader'.pc = "read" /\ reader'.taken = k
        /\ reader'.run = reader.run /\ reader'.ready = reader.ready /\ reader'.exact = reader.exact
        /\ reader'.lines = reader.lines /\ reader'.report = reader.report
    BY <2>1, <1>1 DEF Readers
  <2>4. Script' = Script
    BY ScriptSame
  <2>5. TypeOK'
    BY <2>2, <2>3, <1>3 DEF IInv, TypeOK, Readers
  <2>6. Printing'
    BY <2>4 DEF IInv, Printing
  <2>7. Reading'
    BY <2>3, <2>4 DEF IInv, Reading, Listening
  <2>8. NoMixedChain' /\ ReportIsPrefix' /\ CompleteReport'
    BY <2>3 DEF NoMixedChain, ReportIsPrefix, CompleteReport, ReadyReportComplete, AboutThisStart
  <2> QED
    BY <2>5, <2>6, <2>7, <2>8 DEF IInv
<1> QED
  BY <1>5, <1>6

\* One more chunk, which may end inside a line.
LEMMA ReadChunkInv ==
  ASSUME IInv, ReadChunk
  PROVE  IInv'
<1>1. reader.pc = "read" /\ UNCHANGED <<run, chain, log, printed, from>> /\ torn \in BOOLEAN
  BY DEF ReadChunk, IInv, TypeOK
<1>2. PICK k \in (reader.taken + 1)..Len(reader.lines) :
        \/ Take(k, <<>>) /\ UNCHANGED torn
        \/ /\ k < Len(reader.lines)
           /\ \E f \in Fragments(reader.lines[k + 1]) : Take(k, <<f>>)
           /\ torn' = TRUE
  BY DEF ReadChunk
<1>3. CASE Take(k, <<>>) /\ UNCHANGED torn
  BY <1>1, <1>3, TakeInv
<1>4. CASE /\ k < Len(reader.lines)
           /\ \E f \in Fragments(reader.lines[k + 1]) : Take(k, <<f>>)
           /\ torn' = TRUE
  <2>1. PICK f \in Fragments(reader.lines[k + 1]) : Take(k, <<f>>)
    BY <1>4
  <2> QED
    BY <2>1, <1>1, <1>4, TakeInv
<1> QED
  BY <1>2, <1>3, <1>4

-----------------------------------------------------------------------------
(* Theorems. *)

\* The inductive invariant holds in every state, for every sequence of routes,
\* chain lengths and number of starts.
THEOREM Invariance == Spec => []IInv
<1>1. Init => IInv
  BY InitInv
<1>2. IInv /\ [Next]_vars => IInv'
  <2> SUFFICES ASSUME IInv, [Next]_vars PROVE IInv'
    OBVIOUS
  <2>1. CASE UNCHANGED vars
    <3>1. UNCHANGED <<run, chain, log, printed, from, reader, torn>>
      BY <2>1 DEF vars
    <3>2. Script' = Script
      BY <3>1, ScriptSame
    <3> QED
      BY <3>1, <3>2
         DEF IInv, TypeOK, Printing, Reading, Listening, NoMixedChain, ReportIsPrefix,
             CompleteReport, ReadyReportComplete, AboutThisStart, Entries, EntryLine
  <2> QED
    BY <2>1, PrintLineInv, RestartInv, PollInv, SinceInv, RequestInv, RequestFailsInv,
       ReadChunkInv, EndOfLogInv DEF Next
<1> QED
  BY <1>1, <1>2, PTL DEF Spec

\* ChainLog is type-correct.
THEOREM TypeCorrect == Spec => []TypeOK
BY Invariance, PTL DEF IInv

\* No chain the page reports is put together from two starts, wherever the
\* request and the chunks cut the log.
THEOREM ChainsUnmixed == Spec => []NoMixedChain
BY Invariance, PTL DEF IInv

\* A report about the running start is what a first part of its output says.
THEOREM ReportsArePrefixes == Spec => []ReportIsPrefix
BY Invariance, PTL DEF IInv

\* A report about a start that was seen ready has every route with its whole
\* chain, unless a chunk ended inside a line.
THEOREM ReportsAreComplete == Spec => []CompleteReport
BY Invariance, PTL DEF IInv

=============================================================================

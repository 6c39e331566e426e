------------------------------ MODULE Selection ------------------------------
(***************************************************************************)
(* Filters on sequences, as Python's list comprehensions make them.  They  *)
(* are what SelectSeq computes, as a function that a proof can follow.     *)
(***************************************************************************)
EXTENDS Naturals, SequencesExt

\* [x for x in s if x in W]; kept[n] is what is left of the first n.
Only(s, W) ==
  LET kept[n \in 0..Len(s)] ==
        IF n = 0 THEN <<>>
        ELSE IF s[n] \in W THEN Append(kept[n - 1], s[n]) ELSE kept[n - 1]
  IN  kept[Len(s)]

\* The same with a condition in place of a set.
Filter(s, P(_)) == Only(s, {x \in ToSet(s) : P(x)})

\* Item(1) \o ... \o Item(n)
Concat(n, Item(_)) == FlattenSeq([i \in 1..n |-> Item(i)])

=============================================================================

------------------------------- MODULE Ordering -----------------------------
(***************************************************************************)
(* What the standard library of the language does with arrays: sort and    *)
(* filter.  Both put positions in an order, and have no loop here.         *)
(***************************************************************************)
EXTENDS Integers, FiniteSets

\* The elements of a finite set from first to last, by a strict total order R on it: the
\* n-th is the one that n of them, itself included, do not come after.
InOrder(S, R) ==
  [n \in 1..Cardinality(S) |->
     CHOOSE x \in S : Cardinality({y \in S : y = x \/ <<y, x>> \in R}) = n]

Pairs(S, Before(_, _)) == {pair \in S \X S : Before(pair[1], pair[2])}

Ascending(S) == Pairs(S, <)

\* What a sequence has at some positions, in the order of the positions.
Selected(seq, positions) ==
  LET order == InOrder(positions, Ascending(positions))
  IN [n \in DOMAIN order |-> seq[order[n]]]

\* What a sequence has, with the positions in an order of their own.
Arranged(seq, R) ==
  LET order == InOrder(DOMAIN seq, R)
  IN [n \in DOMAIN order |-> seq[order[n]]]

=============================================================================

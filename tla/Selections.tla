----------------------------- MODULE Selections -----------------------------
(***************************************************************************)
(* List comprehensions.  [x for x in s if ...] keeps the entries of s at   *)
(* some places in their order; SelectSeq says so by recursion, Pick names  *)
(* the places, so that what it returns can be reasoned about.              *)
(***************************************************************************)
EXTENDS Integers, FiniteSets, Sequences

(* The k-th of the places I.                                               *)
Rank(I, i) == Cardinality({j \in I : j <= i})
Kth(I, k)  == CHOOSE i \in I : Rank(I, i) = k

Pick(s, I) == [k \in 1..Cardinality(I) |-> s[Kth(I, k)]]
=============================================================================

----------------------------- MODULE Selection ------------------------------
(***************************************************************************)
(* The part of a sequence that is kept when the rest is dropped, by its    *)
(* result: the recursion of SelectSeq is out of the provers' reach.        *)
(***************************************************************************)
EXTENDS Integers, Sequences, FiniteSets

\* The place i is the how manieth of I.
RankIn(i, I) == Cardinality({j \in I : j <= i})

\* The elements of s at the places I, in order.
ElementsAt(s, I) ==
  [k \in 1 .. Cardinality(I) |-> s[CHOOSE i \in I : RankIn(i, I) = k]]

=============================================================================

------------------------------- MODULE Filters -------------------------------
(***************************************************************************)
(* What a loop over a list collects: the elements at the positions that    *)
(* pass its test, in order.  A set of positions stands for the test.  And  *)
(* a set listed in a strict order, as a sort with a key lists it.          *)
(***************************************************************************)
EXTENDS Naturals, FiniteSets

\* The k-th of a set of positions.
Nth(P, k) == CHOOSE i \in P : Cardinality({j \in P : j <= i}) = k

Filtered(s, P) == [k \in 1..Cardinality(P) |-> s[Nth(P, k)]]

SortedBy(S, Before(_, _)) ==
  CHOOSE s \in [1..Cardinality(S) -> S] : \A k, l \in DOMAIN s : k < l => Before(s[k], s[l])
=============================================================================

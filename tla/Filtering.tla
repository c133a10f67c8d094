----------------------------- MODULE Filtering -----------------------------
(***************************************************************************)
(* filter of an array, without the recursion of SelectSeq: the members of  *)
(* a sequence that are in a set, in order.                                 *)
(***************************************************************************)
EXTENDS Naturals, Sequences, FiniteSets

\* The n-th smallest number of S.
Nth(S, n) == CHOOSE i \in S : Cardinality({j \in S : j <= i}) = n

Places(s, S) == {i \in DOMAIN s : s[i] \in S}

Filtered(s, S) == [n \in 1..Cardinality(Places(s, S)) |-> s[Nth(Places(s, S), n)]]
=============================================================================

------------------------------- MODULE Retain -------------------------------
(***************************************************************************)
(* Vec::retain, which every registry of the runtime removes with: what is  *)
(* left of a list are the entries in S, in their order.                    *)
(***************************************************************************)
EXTENDS Naturals, Sequences, FiniteSets

Kept(list, S) == {i \in DOMAIN list : list[i] \in S}
KeptUpTo(list, S, i) == Cardinality({j \in Kept(list, S) : j <= i})

\* Entry n of the result is the n-th entry of the list that is kept.
Retain(list, S) ==
  [n \in 1..Cardinality(Kept(list, S)) |->
     list[CHOOSE i \in Kept(list, S) : KeptUpTo(list, S, i) = n]]

Without(list, x) == Retain(list, {list[i] : i \in DOMAIN list} \ {x})
=============================================================================

----------------------------- MODULE Selection -----------------------------
(* The elements of a list at some of its positions. *)
EXTENDS Naturals, Sequences, FiniteSets

\* The positions K of a list, in increasing order.
InOrder(K) == CHOOSE f \in [1 .. Cardinality(K) -> K] :
                \A i, j \in DOMAIN f : i < j => f[i] < f[j]

\* The elements of s at the positions K, in their order.
Keep(s, K) == [i \in 1 .. Cardinality(K) |-> s[InOrder(K)[i]]]

============================================================================

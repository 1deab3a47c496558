----------------------------- MODULE Selection ------------------------------
(***************************************************************************)
(* Sequences of which some elements are kept.                              *)
(***************************************************************************)
EXTENDS Naturals, Sequences

Named(list) == {list[i] : i \in DOMAIN list}

Increasing(q) == \A i, j \in DOMAIN q : i < j => q[i] < q[j]

Push(q, x, K) == IF x \in K THEN Append(q, x) ELSE q

\* The elements of q that are in K, in their order.
Only(q, K) ==
    LET kept[i \in 0..Len(q)] == IF i = 0 THEN <<>> ELSE Push(kept[i - 1], q[i], K)
    IN  kept[Len(q)]
=============================================================================

------------------------------ MODULE JobLists ------------------------------
(* Filtering a list without recursion.                                     *)
EXTENDS Integers, Sequences

\* f, of domain 1..n, lists the positions in K in increasing order.
Enumerates(f, n, K) ==
  /\ \A i, k \in 1..n : i < k => f[i] < f[k]
  /\ \A p \in K : \E i \in 1..n : f[i] = p

\* The list that keeps only the positions in K, as a set with one element.
Filtered(list, K) ==
  UNION {{[i \in 1..n |-> list[f[i]]] : f \in {g \in [1..n -> K] : Enumerates(g, n, K)}}
           : n \in 0..Len(list)}
=============================================================================

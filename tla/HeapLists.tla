------------------------------ MODULE HeapLists ------------------------------
(* What the two heaps of the memory manager share: the width of unsigned   *)
(* integers, the bound on calls that break the rules, and lists of nodes.  *)
EXTENDS Integers, Sequences

CONSTANTS
  Word,             \* unsigned integers are kept modulo this (2^32)
  MaxWrong          \* bound on the calls that break the rules

ASSUME HeapListsAssumption == Word \in Nat \ {0} /\ MaxWrong \in Nat

\* The smallest of a set of positions: where a loop over a list stops.
First(I) == CHOOSE i \in I : \A k \in I : i <= k

\* The bytes of the nodes of a list together.
LengthOf(list) ==
  LET sum[k \in 0..Len(list)] == IF k = 0 THEN 0 ELSE sum[k - 1] + list[k].length
  IN sum[Len(list)]

\* The list with its nodes i..j replaced by others.
Replaced(list, i, j, others) == SubSeq(list, 1, i - 1) \o others \o SubSeq(list, j + 1, Len(list))
=============================================================================

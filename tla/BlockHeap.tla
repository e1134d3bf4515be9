------------------------------ MODULE BlockHeap ------------------------------
(***************************************************************************)
(* What the heaps of the memory manager promise, abstractly: blocks that   *)
(* are handed out lie inside the heap and apart from each other, and       *)
(* giving one back disturbs none of the others.  The promise ends with the *)
(* first call that breaks the rules of the interface (kept).               *)
(***************************************************************************)
EXTENDS Integers

CONSTANTS Lo, Hi    \* the heap is Lo..Hi-1

VARIABLES
  blocks,           \* the blocks that are handed out
  kept              \* TRUE while the programs have kept the rules

Apart(b, c) == b.addr + b.size <= c.addr \/ c.addr + c.size <= b.addr

Within(b) == Lo <= b.addr /\ b.addr + b.size <= Hi

Init == blocks = {} /\ kept = TRUE

Alloc ==
  \E b \in blocks' :
    /\ b.addr \in Int /\ b.size \in Nat \ {0}
    /\ Within(b) /\ \A c \in blocks : Apart(b, c)
    /\ blocks' = blocks \cup {b}

Free == \E b \in blocks : blocks' = blocks \ {b}

Reset == blocks' = {}

Misuse == kept' = FALSE

Next == Misuse \/ (kept' = kept /\ (Alloc \/ Free \/ Reset))

Spec == Init /\ [][Next]_<<blocks, kept>>
-----------------------------------------------------------------------------
\* As long as the rules are kept, blocks are inside the heap and disjoint.
BlocksDisjoint ==
  kept => \A b \in blocks : Within(b) /\ \A c \in blocks : b = c \/ Apart(b, c)
=============================================================================

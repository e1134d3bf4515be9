-------------------------------- MODULE MCHeaps --------------------------------
(* Small instances of the three heaps of the user side for TLC.  They share *)
(* no state, so that a behaviour moves one of them (part) and leaves the    *)
(* others alone.                                                            *)
EXTENDS OramHeap, DdrHeap, IaicBoPool

CONSTANT t1   \* a thread

VARIABLE part

\* Kernel BOs that touch, the addresses out of order.
MCBase == <<20, 6, 34>>

\* One product that fits, one that wraps to 0, one that wraps to a small size.
MCCallocs == {<<3, 1>>, <<8, 2>>, <<6, 3>>}

Init == OramInit /\ DdrInit /\ PoolInit /\ part \in {"oram", "ddr", "pool"}

Next ==
  /\ UNCHANGED part
  /\ \/ part = "oram" /\ OramNext /\ UNCHANGED <<ddrVars, poolVars>>
     \/ part = "ddr" /\ DdrNext /\ UNCHANGED <<oramVars, poolVars>>
     \/ part = "pool" /\ PoolNext /\ UNCHANGED <<oramVars, ddrVars>>

Spec == Init /\ [][Next]_<<oramVars, ddrVars, poolVars, part>>
=============================================================================

--------------------------- MODULE MCAipTChannel ---------------------------
(* Small instances of AipTChannel for TLC.                                 *)
EXTENDS AipTChannel, TLC

CONSTANTS t1, t2, t3   \* threads

\* Each thread is a process of its own.
OnePidEach == [t \in Threads |-> t]
=============================================================================

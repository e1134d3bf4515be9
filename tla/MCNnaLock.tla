----------------------------- MODULE MCNnaLock -----------------------------
(* Small instances of NnaLock for TLC.                                     *)
EXTENDS NnaLock, TLC

CONSTANTS t1, t2, t3   \* threads

\* Each thread is a process of its own.
OnePidEach == [t \in Threads |-> t]
=============================================================================

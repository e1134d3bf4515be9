---------------------------- MODULE MCAipChannel ----------------------------
(* Small instances of AipChannel for TLC.                                  *)
EXTENDS AipChannel, TLC

CONSTANTS t1, t2, t3,   \* threads
          p1, p2        \* processes

\* Each thread is a process of its own.
OnePidEach == [t \in Threads |-> t]

\* t1 and t2 are two contexts of one process, t3 is another process.
SharedPid == [t \in Threads |-> IF t = t3 THEN p2 ELSE p1]

\* Threads that differ in nothing but their name.
AllThreads == Permutations({t1, t2})
=============================================================================

---------------------------- MODULE MCAipMemory ----------------------------
(* Small instances of AipMemory for TLC.                                   *)
EXTENDS AipMemory, TLC

CONSTANTS p1, p2   \* processes

\* Processes of the initial pid namespace: both numbers are the same.
HostPid == [p \in Procs |-> IF p = p1 THEN 11 ELSE 12]
=============================================================================

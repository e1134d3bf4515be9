--------------------------- MODULE MCIaicContext ---------------------------
(* Small instances of IaicContext for TLC.                                 *)
EXTENDS IaicContext, TLC

CONSTANTS p1, p2, p3   \* processes

\* Processes differ in nothing but their name.
AllProcs == Permutations(Procs)
=============================================================================

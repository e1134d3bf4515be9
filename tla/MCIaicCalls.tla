---------------------------- MODULE MCIaicCalls ----------------------------
(* A small instance of IaicCalls for TLC.                                  *)
EXTENDS IaicCalls

CONSTANTS t1, t2   \* threads
=============================================================================

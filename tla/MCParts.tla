-------------------------------- MODULE MCParts --------------------------------
(* Small instances for TLC of parts that share no state with each other:   *)
(* the driver's probe and remove, IAIC contexts, the AIP T41 library, the  *)
(* mapping of the devices and DMA transfers.  A behaviour moves one of     *)
(* them (part) and leaves the others alone.                                *)
EXTENDS AipDriver, IaicContext, IngenicAip, AieMmap, Nndma, TLC

CONSTANTS p1, p2, p3, u1, u2   \* processes, users of a library

VARIABLE part

\* Processes and users differ in nothing but their name.
AllActors == Permutations(Procs) \cup Permutations(Users)

\* Below, at and above the limits of the checks; one that is not whole lines.
MCDmaSizes == {32} \cup {64 * n : n \in {0, 1, 4096, 4097, 4098, 131072, 131073, 131074}}

Init ==
  /\ DriverInit /\ CtxInit /\ AipInit /\ MmapInit /\ NndmaInit
  /\ part \in {"driver", "ctx", "aip", "mmap", "nndma"}

Next ==
  /\ UNCHANGED part
  /\ \/ part = "driver" /\ DriverNext /\ UNCHANGED <<ctxVars, aipVars, mmapVars, dmaVars>>
     \/ part = "ctx" /\ CtxNext /\ UNCHANGED <<driverVars, aipVars, mmapVars, dmaVars>>
     \/ part = "aip" /\ AipNext /\ UNCHANGED <<driverVars, ctxVars, mmapVars, dmaVars>>
     \/ part = "mmap" /\ MmapNext /\ UNCHANGED <<driverVars, ctxVars, aipVars, dmaVars>>
     \/ part = "nndma" /\ NndmaNext /\ UNCHANGED <<driverVars, ctxVars, aipVars, mmapVars>>

Spec == Init /\ [][Next]_<<driverVars, ctxVars, aipVars, mmapVars, dmaVars, part>>
=============================================================================

-------------------------------- MODULE AieMmap --------------------------------
(***************************************************************************)
(* __aie_mmap and __aie_munmap: a process opens the devices, maps the      *)
(* register pages, the ORAM and its DDR memory and sets up the DDR heap,   *)
(* with an error path for every step.  __aie_mmap is one step per          *)
(* resource, so that an error at each of them is a behaviour; what an      *)
(* error path or __aie_munmap releases is one step.                        *)
(*                                                                         *)
(* held are the resources of this mapping; the next __aie_mmap overwrites  *)
(* the handles of those that a closed one has left.                        *)
(***************************************************************************)
EXTENDS Integers, Sequences

CONSTANT MaxMaps   \* bound on the calls of __aie_mmap

ASSUME MmapAssumption == MaxMaps \in Nat

VARIABLES
  b_use_rmem,      \* __b_use_rmem
  multiprocess,    \* __multiprocess_choose # 0
  held,            \* what the process has opened, mapped, reserved
  aie,             \* "closed", "open", or the step that __aie_mmap is at
  ended,           \* history: how the last mapping ended
  maps             \* history: calls of __aie_mmap

mmapVars == <<b_use_rmem, multiprocess, held, aie, ended, maps>>

MmapInit ==
  /\ b_use_rmem = FALSE /\ multiprocess = FALSE
  /\ held = {} /\ aie = "closed" /\ ended = "none" /\ maps = 0

\* The step after s.  "info" (get_nmem_info) and "version" only ask; "kmem" is
\* the DDR memory that the kernel reserves, for which one process on its own
\* with the reserved memory of the command line need not ask.
After(s) ==
  [mem |-> "nna", nna |-> IF multiprocess THEN "nnalock" ELSE "l2cache", nnalock |-> "l2cache",
   l2cache |-> "nndma_io", nndma_io |-> "desram", desram |-> "oram", oram |-> "info",
   info |-> IF multiprocess \/ ~b_use_rmem THEN "kmem" ELSE "version", kmem |-> "version",
   version |-> "ddr", ddr |-> "fastio", fastio |-> "heap", heap |-> "open"][s]

\* The labels of the error path from top to bottom, by what each releases, and
\* where the error of a step enters; the label of "version" releases nothing.
Labels == <<"fastio", "ddr", "kmem", "oram", "desram", "nndma_io", "l2cache", "nnalock", "nna",
            "mem">>

EntryNoKmem == \* mutant: an error of the DDR mapping keeps the reserved memory
  [mem |-> 11, nna |-> 10, nnalock |-> 9, nndma_io |-> 7, desram |-> 6, oram |-> 5,
   info |-> 4, kmem |-> 4, version |-> 11, ddr |-> 4, fastio |-> 2, heap |-> 1]

Entry ==
  [mem |-> 11, nna |-> 10, nnalock |-> 9, nndma_io |-> 7, desram |-> 6, oram |-> 5,
   info |-> 4, kmem |-> 4, version |-> 11, ddr |-> 3, fastio |-> 2, heap |-> 1]

\* __aie_mmap is called, in either way.
MmapCall ==
  /\ aie = "closed" /\ maps < MaxMaps
  /\ b_use_rmem' \in BOOLEAN /\ multiprocess' \in BOOLEAN
  /\ held' = {}
  /\ aie' = "mem" /\ maps' = maps + 1 /\ ended' = "none"

\* A step succeeds.
MmapStep ==
  /\ aie \notin {"closed", "open"}
  /\ held' = IF aie \in {"info", "version"} THEN held ELSE held \cup {aie}
  /\ aie' = After(aie)
  /\ UNCHANGED <<b_use_rmem, multiprocess, ended, maps>>

\* A step fails.  (The page with the size of the cache is compared with NULL
\* and read: its error is not handled.)
MmapFails ==
  /\ aie \in DOMAIN Entry
  /\ held' = held \ {Labels[i] : i \in Entry[aie]..Len(Labels)}
  /\ ended' = IF aie = "version" THEN "version" ELSE "failed"
  /\ aie' = "closed"
  /\ UNCHANGED <<b_use_rmem, multiprocess, maps>>

\* What __aie_munmap releases before and after it gives the reserved memory
\* back.  The size of the DDR mapping is that of __ddr_nna_buf, which is set
\* for one process with reserved memory only: otherwise nothing is unmapped.
UnmapFirst ==
  {"heap", "fastio"} \cup (IF b_use_rmem /\ ~multiprocess THEN {"ddr"} ELSE {})
UnmapLast == {"oram", "desram", "nndma_io", "nnalock", "nna", "mem"}

Munmap ==
  /\ aie = "open"
  /\ held' = held \ (UnmapFirst \cup {"kmem"} \cup UnmapLast)
  /\ ended' = "unmapped" /\ aie' = "closed"
  /\ UNCHANGED <<b_use_rmem, multiprocess, maps>>

\* NMEM_UNINIT fails: the rest is left as it is.
MunmapFails ==
  /\ aie = "open" /\ b_use_rmem /\ multiprocess
  /\ held' = held \ UnmapFirst
  /\ ended' = "uninit" /\ aie' = "closed"
  /\ UNCHANGED <<b_use_rmem, multiprocess, maps>>

MmapNext == MmapCall \/ MmapStep \/ MmapFails \/ Munmap \/ MunmapFails

MmapSpec == MmapInit /\ [][MmapNext]_mmapVars
-----------------------------------------------------------------------------
\* Every variable of the mapping keeps its type.
MmapTypeOK ==
  /\ {b_use_rmem, multiprocess} \subseteq BOOLEAN
  /\ held \subseteq {Labels[i] : i \in DOMAIN Labels} \cup {"heap"}
  /\ aie \in DOMAIN Entry \cup {"closed", "l2cache", "open"}
  /\ ended \in {"none", "failed", "version", "unmapped", "uninit"} /\ maps \in 0..MaxMaps

\* Whatever step of __aie_mmap fails, it leaves nothing behind, except when
\* the kernel is too old to know the version call; __aie_munmap leaves the
\* page of the cache size, and the DDR mapping whose size it does not know,
\* and everything only if NMEM_UNINIT fails.  Nothing outlives what it needs:
\* a mapping the device it was made with, the heap the mapping it lies in.
\* The DDR mapping outlives the reservation of its memory only where
\* __aie_munmap could not unmap it.
\* (With it: every variable has its type.)
NothingLeft ==
  /\ MmapTypeOK
  /\ aie = "closed" =>
       /\ ended = "failed" => held = {}
       /\ ended = "unmapped" => held \subseteq {"l2cache", "ddr"}
       /\ "ddr" \in held => ended \in {"version", "uninit"} \/ multiprocess \/ ~b_use_rmem
  /\ held \cap {"nndma_io", "desram", "oram", "fastio"} # {} => {"mem", "nna"} \subseteq held
  /\ "heap" \in held => {"ddr", "fastio"} \subseteq held
  /\ "ddr" \in held /\ (multiprocess \/ ~b_use_rmem) => "kmem" \in held \/ ended = "unmapped"
=============================================================================

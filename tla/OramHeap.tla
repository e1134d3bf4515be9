------------------------------- MODULE OramHeap -------------------------------
(***************************************************************************)
(* The ORAM heap of the AIP memory manager (oram.cc over buf_list.cc): a   *)
(* doubly linked list of nodes, first fit, neighbours merged on free.  A   *)
(* node is found again by the address that was handed out (usr_va), which  *)
(* stays in the node when it is free.                                      *)
(*                                                                         *)
(* The code has no lock: every call is one step, for programs that do not  *)
(* call it from two threads at once.                                       *)
(***************************************************************************)
EXTENDS HeapLists

CONSTANTS
  OramVa, OramPa,   \* where the ORAM is mapped, and where it is
  OramSize,
  MinRest,          \* oram_memalign splits off no smaller rest (1024)
  OramSizes, OramAligns

ASSUME OramAssumption ==
  /\ OramVa \in Nat \ {0} /\ OramPa \in Nat /\ OramSize \in Nat \ {0}
  /\ MinRest \in Nat /\ OramSizes \subseteq Nat /\ OramAligns \subseteq Nat \ {0}
  /\ Word > OramSize

VARIABLES
  nodes,            \* the list; empty before oram_memory_init
  used,             \* mp_memory_used
  held,             \* history: the blocks the program has, [addr, size]
  wrong             \* history: how often a block of size 0 was asked for or
                    \* an address was freed that the program did not have

oramVars == <<nodes, used, held, wrong>>

OramInit == nodes = << >> /\ used = 0 /\ held = {} /\ wrong = 0

-----------------------------------------------------------------------------
(* The list.                                                               *)

SplitAddressed(i, n) == \* mutant: the rest is given its own address as usr_va
  Replaced(nodes, i, i,
    << n, [va |-> n.va + n.length, pa |-> n.pa + n.length, usr_va |-> n.va + n.length,
           offset |-> 0, length |-> nodes[i].length - n.length, status |-> "free"] >>)

\* Node i becomes node n and, behind it, the rest that n leaves of it.
Split(i, n) ==
  Replaced(nodes, i, i,
    << n, [va |-> n.va + n.length, pa |-> n.pa + n.length, usr_va |-> 0, offset |-> 0,
           length |-> nodes[i].length - n.length, status |-> "free"] >>)

\* How far the first aligned address is from the beginning of a node.
Offset(n, align) == IF n.pa % align = 0 THEN 0 ELSE align - (n.pa % align)

\* The free nodes with size bytes from there on.
OramFits(align, size) ==
  {i \in DOMAIN nodes : nodes[i].status = "free" /\ nodes[i].length >= size + Offset(nodes[i], align)}

\* The node as it is handed out.
Busy(n, offset, length) ==
  [n EXCEPT !.status = "busy", !.length = length, !.offset = offset, !.usr_va = n.va + offset]

\* Where usr_va is found; the code takes the first.
buflist_find_node(list, usr_va) == {i \in DOMAIN list : list[i].usr_va = usr_va}

MergeForward(list, i) == \* mutant: free nodes before the node are not looked at
  LET hi == CHOOSE k \in i..Len(list) :
              /\ \A j \in i..k : list[j].status = "free"
              /\ k < Len(list) => list[k + 1].status # "free"
  IN Replaced(list, i, hi, << [list[i] EXCEPT !.length = LengthOf(SubSeq(list, i, hi))] >>)

\* The run of free nodes around node i becomes its first node.
buflist_merge_node(list, i) ==
  LET lo == CHOOSE k \in 1..i : /\ \A j \in k..i : list[j].status = "free"
                                /\ k > 1 => list[k - 1].status # "free"
      hi == CHOOSE k \in i..Len(list) : /\ \A j \in i..k : list[j].status = "free"
                                        /\ k < Len(list) => list[k + 1].status # "free"
  IN Replaced(list, lo, hi, << [list[lo] EXCEPT !.length = LengthOf(SubSeq(list, lo, hi))] >>)

-----------------------------------------------------------------------------
oram_memory_init ==
  /\ nodes = << >>
  /\ nodes' = << [va |-> OramVa, pa |-> OramPa, usr_va |-> OramVa, offset |-> 0,
                  length |-> OramSize, status |-> "free"] >>
  /\ used' = 0
  /\ UNCHANGED <<held, wrong>>

oram_memory_deinit ==
  /\ nodes # << >>
  /\ nodes' = << >> /\ used' = 0 /\ held' = {}
  /\ UNCHANGED wrong

\* The block is handed out; one of size 0 has the address of its neighbour.
Hand(addr, size) ==
  /\ held' = held \cup {[addr |-> addr, size |-> size]}
  /\ IF size = 0 THEN wrong < MaxWrong /\ wrong' = wrong + 1 ELSE UNCHANGED wrong

\* Always splits, so that an exact fit leaves a rest of length 0.
oram_malloc(size) ==
  /\ OramFits(1, size) # {}
  /\ LET i == First(OramFits(1, size))
         n == Busy(nodes[i], 0, size)
     IN /\ nodes' = Split(i, n)
        /\ used' = (used + size) % Word
        /\ Hand(n.usr_va, size)

MemalignLoose(align, size) == \* mutant: the offset is not counted in the fit
  LET I == {i \in DOMAIN nodes : nodes[i].status = "free" /\ nodes[i].length >= size} IN
  /\ I # {}
  /\ LET i      == First(I)
         ofs    == Offset(nodes[i], align)
         length == size + ofs
         whole  == nodes[i].length - length < MinRest
         n      == Busy(nodes[i], ofs, IF whole THEN nodes[i].length ELSE length)
     IN /\ nodes' = IF whole THEN [nodes EXCEPT ![i] = n] ELSE Split(i, n)
        /\ used' = (used + n.length) % Word
        /\ Hand(n.usr_va, size)

oram_memalign(align, size) ==
  /\ OramFits(align, size) # {}
  /\ LET i      == First(OramFits(align, size))
         ofs    == Offset(nodes[i], align)
         length == size + ofs
         whole  == nodes[i].length - length < MinRest
         n      == Busy(nodes[i], ofs, IF whole THEN nodes[i].length ELSE length)
     IN /\ nodes' = IF whole THEN [nodes EXCEPT ![i] = n] ELSE Split(i, n)
        /\ used' = (used + n.length) % Word
        /\ Hand(n.usr_va, size)

\* The first node with this usr_va, busy or not, is freed.
FreeNode(addr) ==
  LET I == buflist_find_node(nodes, addr) IN
  IF I = {} THEN UNCHANGED <<nodes, used>>
  ELSE /\ nodes' = buflist_merge_node([nodes EXCEPT ![First(I)].status = "free"], First(I))
       /\ used' = (used - nodes[First(I)].length) % Word

oram_free(b) ==
  /\ nodes # << >> /\ b \in held
  /\ FreeNode(b.addr)
  /\ held' = held \ {b}
  /\ UNCHANGED wrong

\* An address the program does not have: NULL, or freed before.
WrongFree(addr) ==
  /\ nodes # << >> /\ \A b \in held : b.addr # addr
  /\ buflist_find_node(nodes, addr) # {}
  /\ FreeNode(addr)
  /\ wrong < MaxWrong /\ wrong' = wrong + 1
  /\ UNCHANGED held

OramNext ==
  \/ oram_memory_init \/ oram_memory_deinit
  \/ \E size \in OramSizes : oram_malloc(size)
  \/ \E align \in OramAligns, size \in OramSizes : oram_memalign(align, size)
  \/ \E b \in held : oram_free(b)
  \/ \E addr \in {0} \cup OramVa..OramVa + OramSize - 1 : WrongFree(addr)

OramSpec == OramInit /\ [][OramNext]_oramVars
-----------------------------------------------------------------------------
BusyNodes == {i \in DOMAIN nodes : nodes[i].status = "busy"}

\* Every variable of the ORAM heap keeps its type.
OramTypeOK ==
  /\ nodes \in Seq([va : Nat, pa : Nat, usr_va : Nat, offset : Nat, length : Nat,
                    status : {"free", "busy"}])
  /\ used \in 0..Word - 1 /\ wrong \in 0..MaxWrong
  /\ \A b \in held : b.addr \in Nat /\ b.size \in OramSizes

\* Whatever programs do, wrong frees and empty blocks included, the nodes tile
\* the ORAM with virtual and physical addresses in step, and no two free nodes
\* are neighbours: memory is never lost to the list or left in fragments.
\* (With it: every variable has its type.)
OramTiles ==
  /\ OramTypeOK
  /\ nodes # << >> => LET n == Len(nodes) IN
       /\ nodes[1].va = OramVa /\ nodes[n].va + nodes[n].length = OramVa + OramSize
       /\ \A i \in 1..n : nodes[i].pa - nodes[i].va = OramPa - OramVa
       /\ \A i \in 1..n - 1 : /\ nodes[i + 1].va = nodes[i].va + nodes[i].length
                              /\ nodes[i].status = "busy" \/ nodes[i + 1].status = "busy"

\* A program that keeps the rules finds each of its blocks again by address:
\* no free node with an old usr_va, and no rest, comes before it in the list,
\* and the busy nodes are the blocks of programs, long enough.  What
\* oram_memalign adds to mp_memory_used is what oram_free takes away, although
\* neighbours are merged in between.
OramFindsOwn ==
  wrong = 0 =>
    /\ \A b \in held : LET I == buflist_find_node(nodes, b.addr) IN
         /\ I # {} /\ nodes[First(I)].status = "busy"
         /\ nodes[First(I)].length - nodes[First(I)].offset >= b.size
    /\ \A i \in BusyNodes : \E b \in held : b.addr = nodes[i].usr_va
    /\ used = LengthOf([i \in DOMAIN nodes |->
                 [length |-> IF i \in BusyNodes THEN nodes[i].length ELSE 0]])

OramBlocks == INSTANCE BlockHeap WITH
  Lo <- OramVa, Hi <- OramVa + OramSize, kept <- (wrong = 0),
  blocks <- {[addr |-> nodes[i].usr_va, size |-> nodes[i].length - nodes[i].offset] : i \in BusyNodes}

\* The busy nodes behave as the abstract heap: each call hands out one block
\* apart from all others or takes one back and leaves the others alone.
OramImplementsHeap == OramBlocks!Spec
=============================================================================

-------------------------------- MODULE DdrHeap --------------------------------
(***************************************************************************)
(* The DDR heap of the AIP memory manager (ddr_mem.cc over                 *)
(* imp_alloc_api.c): a list of units, first fit, neighbours merged on      *)
(* free.  A busy unit keeps the address that was handed out and, in        *)
(* offset, how far alignment moved it.  Unit structures come from a        *)
(* manager that grows by chunks.                                           *)
(*                                                                         *)
(* mem_mutex is held for the whole of each call: every call is one step.   *)
(***************************************************************************)
EXTENDS HeapLists

CONSTANTS
  HeapBase, HeapSize, \* what ddr_memory_init is given
  PtrSize,          \* sizeof(alloc), left out at the start of the heap
  IncUnits,         \* unit structures of a chunk (BUF_MANAGER_NODE_CNT)
  MaxChunks,        \* bound on the chunks the manager grows by
  DdrSizes, DdrAligns,
  Callocs           \* pairs <<size, n>> for ddr_calloc

ASSUME DdrAssumption ==
  /\ HeapBase \in Nat \ {0} /\ HeapBase % PtrSize = 0
  /\ PtrSize \in Nat \ {0} /\ HeapSize \in Nat /\ HeapSize > PtrSize /\ HeapSize < Word
  /\ IncUnits \in Nat /\ IncUnits >= 2 /\ MaxChunks \in Nat
  /\ DdrSizes \subseteq Nat /\ DdrAligns \subseteq Nat \ {0} /\ Callocs \subseteq Nat \X Nat

VARIABLES
  units,            \* children of buf_root; empty: the heap is not initialised
  spare, chunks,    \* unit structures in the free list; chunks on memlist
  ddr_used,         \* mp_memory_used
  owned,            \* history: blocks the programs have, [addr, size, asked]
  padded,           \* history: TRUE once ddr_memalign counted padding
  ddr_wrong         \* history: how often an empty block or one that is shorter
                    \* than asked was handed out, or a wrong address freed

ddrVars == <<units, spare, chunks, ddr_used, owned, padded, ddr_wrong>>

DdrInit ==
  /\ units = << >> /\ spare = 0 /\ chunks = 0 /\ ddr_used = 0
  /\ owned = {} /\ padded = FALSE /\ ddr_wrong = 0

Start == HeapBase + PtrSize

-----------------------------------------------------------------------------
\* Two of the first chunk's structures are buf_root and the free unit.
ddr_memory_init ==
  /\ units = << >>
  /\ units' = << [vaddr |-> Start, length |-> HeapSize - PtrSize, offset |-> 0, status |-> "free"] >>
  /\ spare' = IncUnits - 2 /\ chunks' = 0 /\ ddr_used' = 0
  /\ padded' = FALSE
  /\ UNCHANGED <<owned, ddr_wrong>>

\* Frees every structure; mp_memory_used is left to the next init.
ddr_memory_deinit ==
  /\ units # << >>
  /\ units' = << >> /\ spare' = 0 /\ chunks' = 0 /\ owned' = {}
  /\ UNCHANGED <<ddr_used, padded, ddr_wrong>>

\* A structure is taken; an empty free list is refilled, if malloc can.
IMP_alloc_unit ==
  IF spare > 0 THEN spare' = spare - 1 /\ UNCHANGED chunks
  ELSE chunks < MaxChunks /\ chunks' = chunks + 1 /\ spare' = IncUnits - 1

\* How far alignment moves the address of a unit.
Misaligned(u, align) == IF u.vaddr % align = 0 THEN 0 ELSE align - (u.vaddr % align)

\* The free units with size bytes from there on.
DdrFits(align, size) ==
  {i \in DOMAIN units : units[i].status = "free" /\ units[i].length >= size + Misaligned(units[i], align)}

AllocKeepsLength(align, size, i) == \* mutant: the new unit is as long as the old
  LET u    == units[i]
      ofs  == Misaligned(u, align)
      busy == [u EXCEPT !.vaddr = u.vaddr + ofs, !.length = size + ofs, !.offset = ofs,
                        !.status = "busy"]
      new  == [vaddr |-> u.vaddr + size + ofs, length |-> u.length - size, offset |-> 0,
               status |-> "free"]
  IN IF u.length > size + ofs
     THEN IMP_alloc_unit /\ units' = Replaced(units, i, i, <<busy, new>>)
     ELSE units' = Replaced(units, i, i, <<busy>>) /\ UNCHANGED <<spare, chunks>>

\* Unit i is cut; without a structure for the rest nothing is handed out.
alloc_bufunit(align, size, i) ==
  LET u    == units[i]
      ofs  == Misaligned(u, align)
      busy == [u EXCEPT !.vaddr = u.vaddr + ofs, !.length = size + ofs, !.offset = ofs,
                        !.status = "busy"]
      new  == [vaddr |-> u.vaddr + size + ofs, length |-> u.length - size - ofs, offset |-> 0,
               status |-> "free"]
  IN IF u.length > size + ofs
     THEN IMP_alloc_unit /\ units' = Replaced(units, i, i, <<busy, new>>)
     ELSE units' = Replaced(units, i, i, <<busy>>) /\ UNCHANGED <<spare, chunks>>

\* Local_alignAlloc for a caller that asked for `asked' bytes and counts `count'.
Local_alignAlloc(align, size, asked, count) ==
  /\ DdrFits(align, size) # {}
  /\ LET i == First(DdrFits(align, size)) IN
     /\ alloc_bufunit(align, size, i)
     /\ owned' = owned \cup
          {[addr |-> units[i].vaddr + Misaligned(units[i], align), size |-> size, asked |-> asked]}
  /\ ddr_used' = (ddr_used + count) % Word
  /\ IF size = 0 \/ size # asked
     THEN ddr_wrong < MaxWrong /\ ddr_wrong' = ddr_wrong + 1 ELSE UNCHANGED ddr_wrong

ddr_malloc(size) == Local_alignAlloc(1, size, size, size) /\ UNCHANGED padded

\* The product of unsigned integers wraps.
ddr_calloc(size, n) ==
  Local_alignAlloc(1, (size * n) % Word, size * n, (size * n) % Word) /\ UNCHANGED padded

\* Counts the size rounded up to the alignment, which is not what it takes.
ddr_memalign(align, size) ==
  LET pad == IF size % align = 0 THEN 0 ELSE align - (size % align) IN
  /\ Local_alignAlloc(align, size, size, size + pad)
  /\ padded' = (padded \/ pad > 0)

-----------------------------------------------------------------------------
\* Where addr is found; the code takes the first.
find_bufunit_byaddr(addr) == {i \in DOMAIN units : units[i].vaddr = addr}

FreeSkipsPrev(i) == \* mutant: the unit is not merged with the one before
  LET n    == Len(units)
      next == i < n /\ units[i + 1].status = "free"
      self == [units[i] EXCEPT !.status = "free", !.vaddr = @ - units[i].offset,
                 !.length = @ + (IF next THEN units[i + 1].length ELSE 0)]
      hi   == IF next THEN i + 1 ELSE i
  IN /\ units' = Replaced(units, i, hi, <<self>>)
     /\ spare' = spare + hi - i

FreeKeepsAddr(i) == \* mutant: the address is not moved back
  LET n    == Len(units)
      next == i < n /\ units[i + 1].status = "free"
      prev == i > 1 /\ units[i - 1].status = "free"
      self == [units[i] EXCEPT !.status = "free",
                 !.length = @ + (IF next THEN units[i + 1].length ELSE 0)]
      lo   == IF prev THEN i - 1 ELSE i
      hi   == IF next THEN i + 1 ELSE i
  IN /\ units' = Replaced(units, lo, hi,
                   << IF prev THEN [units[i - 1] EXCEPT !.length = @ + self.length] ELSE self >>)
     /\ spare' = spare + hi - lo

\* Merged into it, the next unit; then, merged into the previous one, itself.
free_bufunit(i) ==
  LET n    == Len(units)
      next == i < n /\ units[i + 1].status = "free"
      prev == i > 1 /\ units[i - 1].status = "free"
      self == [units[i] EXCEPT !.status = "free", !.vaddr = @ - units[i].offset,
                 !.length = @ + (IF next THEN units[i + 1].length ELSE 0)]
      lo   == IF prev THEN i - 1 ELSE i
      hi   == IF next THEN i + 1 ELSE i
  IN /\ units' = Replaced(units, lo, hi,
                   << IF prev THEN [units[i - 1] EXCEPT !.length = @ + self.length] ELSE self >>)
     /\ spare' = spare + hi - lo

\* The first unit at this address, busy or not, is freed.
Local_Dealloc(addr) ==
  LET I == find_bufunit_byaddr(addr) IN
  /\ IF I = {} THEN UNCHANGED <<units, spare, ddr_used>>
     ELSE LET i == First(I) IN
       /\ free_bufunit(i)
       /\ ddr_used' = (ddr_used - (units[i].length - units[i].offset)) % Word
  /\ UNCHANGED <<chunks, padded>>

ddr_free(b) ==
  /\ units # << >> /\ b \in owned
  /\ Local_Dealloc(b.addr)
  /\ owned' = owned \ {b}
  /\ UNCHANGED ddr_wrong

\* An address that the program does not have, such as one freed before.
DdrWrongFree(addr) ==
  /\ ddr_wrong < MaxWrong /\ \A b \in owned : b.addr # addr
  /\ find_bufunit_byaddr(addr) # {}
  /\ Local_Dealloc(addr)
  /\ ddr_wrong' = ddr_wrong + 1
  /\ UNCHANGED owned

DdrNext ==
  \/ ddr_memory_init \/ ddr_memory_deinit
  \/ \E size \in DdrSizes : ddr_malloc(size)
  \/ \E c \in Callocs : ddr_calloc(c[1], c[2])
  \/ \E align \in DdrAligns, size \in DdrSizes : ddr_memalign(align, size)
  \/ \E b \in owned : ddr_free(b)
  \/ \E addr \in Start..Start + HeapSize : DdrWrongFree(addr)

DdrSpec == DdrInit /\ [][DdrNext]_ddrVars
-----------------------------------------------------------------------------
BusyUnits == {i \in DOMAIN units : units[i].status = "busy"}

\* Where the memory of a unit begins.
Begin(u) == IF u.status = "busy" THEN u.vaddr - u.offset ELSE u.vaddr

\* Every variable of the DDR heap keeps its type.
DdrTypeOK ==
  /\ units \in Seq([vaddr : Int, length : Nat, offset : Nat, status : {"free", "busy"}])
  /\ spare \in Nat /\ chunks \in 0..MaxChunks /\ ddr_used \in 0..Word - 1
  /\ padded \in BOOLEAN /\ ddr_wrong \in 0..MaxWrong
  /\ \A b \in owned : b.addr \in Int /\ b.size \in Nat /\ b.asked \in Nat

\* For programs that keep the rules, the units tile the heap and no two free
\* units are neighbours, although a unit's address moves with its alignment:
\* freeing everything leaves the one unit of ddr_memory_init.  And whatever
\* they do, no unit structure is lost or in two places: those of buf_root, of
\* the list and of the free list are all that the manager ever made.
\* (With it: every variable has its type.)
DdrTiles ==
  /\ DdrTypeOK
  /\ units # << >> => LET n == Len(units) IN
       /\ 1 + n + spare = IncUnits * (1 + chunks)
       /\ ddr_wrong = 0 =>
            /\ Begin(units[1]) = Start /\ Begin(units[n]) + units[n].length = HeapBase + HeapSize
            /\ \A i \in 1..n - 1 : /\ Begin(units[i + 1]) = Begin(units[i]) + units[i].length
                                   /\ units[i].status = "busy" \/ units[i + 1].status = "busy"

\* A block is found again by its address, and is as long as it was asked for.
\* mp_memory_used is what the programs have, until ddr_memalign is asked for a
\* size that is no multiple of the alignment: it counts the padding, ddr_free
\* does not, and from then on the number only grows away from the truth.
DdrFindsOwn ==
  ddr_wrong = 0 =>
    /\ \A b \in owned : LET I == find_bufunit_byaddr(b.addr) IN
         /\ I # {} /\ units[First(I)].status = "busy"
         /\ units[First(I)].length - units[First(I)].offset = b.asked
    /\ \A i \in BusyUnits : \E b \in owned : b.addr = units[i].vaddr
    /\ ~padded /\ units # << >> =>
         ddr_used = LengthOf([i \in DOMAIN units |->
           [length |-> IF i \in BusyUnits THEN units[i].length - units[i].offset ELSE 0]])

DdrBlocks == INSTANCE BlockHeap WITH
  Lo <- Start, Hi <- HeapBase + HeapSize, kept <- (ddr_wrong = 0),
  blocks <- {[addr |-> units[i].vaddr, size |-> units[i].length - units[i].offset] : i \in BusyUnits}

\* The busy units behave as the abstract heap.
DdrImplementsHeap == DdrBlocks!Spec
=============================================================================

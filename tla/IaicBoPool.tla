----------------------------- MODULE IaicBoPool -----------------------------
(***************************************************************************)
(* The buffer pool of an IAIC context (iaic_fast_alloc_bo and              *)
(* iaic_fast_free_bo): a list of blocks that are cut from one kernel BO,   *)
(* first fit, with neighbours merged when a block is freed, and with       *)
(* another kernel BO added to the list when no block fits.                 *)
(*                                                                         *)
(* What runs under mutex_lock is one step.  The path that adds a BO is not *)
(* protected: it begins by storing 0 in the idle field of the list head,   *)
(* which is the lock word of mutex_lock (iaic_ctx_t has bo_list, thread,   *)
(* mutex_lock; block_t has node, size, idle), so the mutex is open to all  *)
(* from there on.                                                          *)
(*                                                                         *)
(* A size of 0 is legal, and the library asks for it itself: get_img_info  *)
(* knows no IAIC_RGBA2BGRA and leaves iaic_cvt_format with dst_size = 0.   *)
(* A block of size 0 is then cut off at the address of the block behind    *)
(* it, and iaic_fast_free_bo, which looks a block up by its address, may   *)
(* find the wrong one of the two.                                          *)
(***************************************************************************)
EXTENDS Integers, Sequences, FiniteSets

CONSTANTS
  Threads,      \* threads of the program that use the context
  PoolSize,     \* mem_size of iaic_ctx_init
  Granule,      \* sizes are rounded up to multiples of it (64)
  MinRemain,    \* a smaller rest is not split off (0x200)
  SharedSize,   \* size of shared_bo (0x10)
  Sizes,        \* sizes programs ask for
  Grow,         \* whether programs may ask for what no block can satisfy
  MaxBos,       \* bound on the kernel BOs created
  Base          \* Base[k]: the address of kernel BO number k

ASSUME PoolAssumption ==
  /\ PoolSize \in Nat /\ Granule \in Nat \ {0} /\ MinRemain \in Nat \ {0}
  /\ SharedSize \in Nat \ {0} /\ SharedSize + Granule <= PoolSize
  /\ Sizes \subseteq Nat
  /\ Grow \in BOOLEAN /\ MaxBos \in Nat

\* Kernel BOs do not overlap, whatever their sizes.
ASSUME BaseAssumption ==
  /\ Base \in [1..MaxBos -> Nat]
  /\ \A j, k \in 1..MaxBos : j # k =>
       \A s \in Sizes \cup {PoolSize} : Base[j] + s <= Base[k] \/ Base[k] + s <= Base[j]

VARIABLES
  ctx,          \* 1: the context is initialised
  bo_list,      \* the blocks, in list order
  kernel, bos,  \* handles of the kernel BOs that exist; BOs created so far
  pc,           \* where each thread is
  want,         \* the size a thread asks for
  curr,         \* the address of the block a thread is about to destroy
  mine,         \* the buffers a thread has been given
  mapped,       \* the kernel BOs that exist and are mapped from end to end
  zero,         \* history: 1 once a block of size 0 was cut from the pool
  corrupt       \* 1: a list node was used after free; nothing follows

poolVars == <<ctx, bo_list, kernel, bos, pc, want, curr, mine, mapped, zero, corrupt>>

\* A block of the list; live = 0: its memory was freed but it is still linked.
Block(paddr, size, is_bo, handle) ==
  [paddr |-> paddr, size |-> size, idle |-> 1, is_bo |-> is_bo, handle |-> handle, live |-> 1]

PoolInit ==
  /\ ctx = 0 /\ bo_list = << >> /\ kernel = {} /\ bos = 0
  /\ pc = [t \in Threads |-> "idle"] /\ want = [t \in Threads |-> 0]
  /\ curr = [t \in Threads |-> 0] /\ mine = [t \in Threads |-> {}]
  /\ mapped = {} /\ zero = 0 /\ corrupt = 0

Goto(t, l) == pc' = [pc EXCEPT ![t] = l]

Dead(list, I) == \E i \in I \cap DOMAIN list : list[i].live = 0

-----------------------------------------------------------------------------
(* Finding, cutting and merging blocks.                                    *)

align(size) == ((size + Granule - 1) \div Granule) * Granule

Fits(list, size) == {i \in DOMAIN list : list[i].idle = 1 /\ list[i].size >= align(size)}

\* The first block that fits.
FirstFit(list, size) ==
  CHOOSE i \in Fits(list, size) : \A k \in Fits(list, size) : i <= k

CutKeepsSize(list, i, size) == \* mutant: the rest keeps the size of the whole block
  LET n    == align(size)
      rest == Block(list[i].paddr + n, list[i].size, 0, list[i].handle)
  IN SubSeq(list, 1, i - 1)
       \o (IF list[i].size - n < MinRemain
           THEN <<[list[i] EXCEPT !.idle = 0]>>
           ELSE <<[list[i] EXCEPT !.idle = 0, !.size = n], rest>>)
       \o SubSeq(list, i + 1, Len(list))

CutStaysIdle(list, i, size) == \* mutant: a block without a rest is not marked
  LET n    == align(size)
      rest == Block(list[i].paddr + n, list[i].size - n, 0, list[i].handle)
  IN SubSeq(list, 1, i - 1)
       \o (IF list[i].size - n < MinRemain
           THEN <<list[i]>>
           ELSE <<[list[i] EXCEPT !.idle = 0, !.size = n], rest>>)
       \o SubSeq(list, i + 1, Len(list))

\* Block i is taken; a rest that is worth it becomes a block of its own.
Cut(list, i, size) ==
  LET n    == align(size)
      rest == Block(list[i].paddr + n, list[i].size - n, 0, list[i].handle)
  IN SubSeq(list, 1, i - 1)
       \o (IF list[i].size - n < MinRemain
           THEN <<[list[i] EXCEPT !.idle = 0]>>
           ELSE <<[list[i] EXCEPT !.idle = 0, !.size = n], rest>>)
       \o SubSeq(list, i + 1, Len(list))

\* Nothing is asked for, and what remains is worth a block: block i is cut into
\* a block of size 0 and another one at the same address.
CutsNothing(list, i, size) == align(size) = 0 /\ list[i].size >= MinRemain

SumSizes(list) ==
  LET sum[k \in 0..Len(list)] == IF k = 0 THEN 0 ELSE sum[k - 1] + list[k].size
  IN sum[Len(list)]

\* Backwards over idle blocks, but not across the first block of a BO.
Lowest(list, i) ==
  CHOOSE lo \in 1..i :
    /\ \A j \in lo..i - 1 : list[j].idle = 1 /\ list[j + 1].is_bo = 0
    /\ lo > 1 => list[lo - 1].idle = 0 \/ list[lo].is_bo = 1

\* Forwards over idle blocks.
Highest(list, i) ==
  CHOOSE hi \in i..Len(list) :
    /\ \A j \in i + 1..hi : list[j].idle = 1
    /\ hi < Len(list) => list[hi + 1].idle = 0

\* Block i is freed and merged with its idle neighbours.
Merge(list, i) ==
  LET lo == Lowest(list, i)
      hi == Highest(list, i)
  IN SubSeq(list, 1, lo - 1)
       \o <<[list[lo] EXCEPT !.idle = 1, !.size = SumSizes(SubSeq(list, lo, hi))]>>
       \o SubSeq(list, hi + 1, Len(list))

-----------------------------------------------------------------------------
(* iaic_ctx_init and iaic_ctx_destroy, as far as the pool goes.            *)

\* The list over kernel BO k, its first block taken by shared_bo.
NewContext(k) == Cut(<<Block(Base[k], PoolSize, 1, k)>>, 1, SharedSize)

iaic_ctx_init ==
  /\ ctx = 0 /\ corrupt = 0 /\ bos < MaxBos
  /\ ctx' = 1
  /\ bos' = bos + 1 /\ kernel' = {bos + 1}
  /\ bo_list' = NewContext(bos + 1)
  /\ mapped' = {bos + 1} /\ zero' = 0
  /\ UNCHANGED <<pc, want, curr, mine, corrupt>>

\* shared_bo is freed, and with it the kernel BO; closing the device file
\* gives all other BOs back.  The program has freed its buffers before.
iaic_ctx_destroy ==
  /\ ctx = 1 /\ corrupt = 0
  /\ \A t \in Threads : pc[t] = "idle" /\ mine[t] = {}
  /\ ctx' = 0
  /\ kernel' = {} /\ mapped' = {} /\ zero' = 0
  /\ bo_list' = << >>
  /\ corrupt' = IF Dead(bo_list, 1..Highest(bo_list, 1) + 1) THEN 1 ELSE 0
  /\ UNCHANGED <<bos, pc, want, curr, mine>>

-----------------------------------------------------------------------------
(* iaic_fast_alloc_bo                                                      *)

Give(t, b, size) == mine' = [mine EXCEPT ![t] = @ \cup
  {[paddr |-> b.paddr, size |-> size, esize |-> b.size, handle |-> b.handle]}]

\* Scan, cut, mark: all under the mutex.  (Bound: a thread has one buffer of
\* size 0 at a time.)
iaic_fast_alloc_bo(t, size) ==
  /\ ctx = 1 /\ corrupt = 0 /\ pc[t] = "idle"
  /\ Fits(bo_list, size) # {}
  /\ size = 0 => \A b \in mine[t] : b.size # 0
  /\ LET i == FirstFit(bo_list, size)
     IN IF Dead(bo_list, 1..i)
        THEN corrupt' = 1 /\ UNCHANGED <<bo_list, mine, zero>>
        ELSE /\ bo_list' = Cut(bo_list, i, size)
             /\ Give(t, bo_list'[i], size)
             /\ zero' = IF CutsNothing(bo_list, i, size) THEN 1 ELSE zero
             /\ UNCHANGED corrupt
  /\ UNCHANGED <<ctx, kernel, bos, pc, want, curr, mapped>>

\* No block fits: the mutex is lost, a BO is asked for.
Exhausted(t, size) ==
  /\ Grow /\ ctx = 1 /\ corrupt = 0 /\ pc[t] = "idle" /\ bos < MaxBos
  /\ Fits(bo_list, size) = {}
  /\ corrupt' = IF Dead(bo_list, DOMAIN bo_list) THEN 1 ELSE 0
  /\ want' = [want EXCEPT ![t] = size]
  /\ Goto(t, "grow")
  /\ UNCHANGED <<ctx, bo_list, kernel, bos, curr, mine, mapped, zero>>

\* The BO is mapped and linked as an idle block, or the kernel has none (it
\* never has one of 0 bytes).
create_bo_node(t) ==
  /\ corrupt = 0 /\ pc[t] = "grow"
  /\ \/ /\ bos < MaxBos /\ want[t] > 0
        /\ bos' = bos + 1 /\ kernel' = kernel \cup {bos + 1} /\ mapped' = mapped \cup {bos + 1}
        /\ bo_list' = Append(bo_list, Block(Base[bos + 1], want[t], 1, bos + 1))
        /\ Goto(t, "take")
        /\ UNCHANGED want
     \/ /\ Goto(t, "idle") /\ want' = [want EXCEPT ![t] = 0]
        /\ UNCHANGED <<bos, kernel, mapped, bo_list>>
  /\ UNCHANGED <<ctx, curr, mine, zero, corrupt>>

\* Whatever block is last now is taken, without the mutex.
TakeLast(t) ==
  /\ corrupt = 0 /\ pc[t] = "take"
  /\ LET n == Len(bo_list)
     IN IF bo_list[n].live = 0
        THEN corrupt' = 1 /\ UNCHANGED <<bo_list, mine>>
        ELSE /\ bo_list' = [bo_list EXCEPT ![n].idle = 0]
             /\ Give(t, bo_list[n], want[t])
             /\ UNCHANGED corrupt
  /\ Goto(t, "idle") /\ want' = [want EXCEPT ![t] = 0]
  /\ UNCHANGED <<ctx, kernel, bos, curr, mapped, zero>>

-----------------------------------------------------------------------------
(* iaic_fast_free_bo                                                       *)

\* Find, merge, and go on to destroy the BO if the block begins one.
iaic_fast_free_bo(t, b) ==
  /\ ctx = 1 /\ corrupt = 0 /\ pc[t] = "idle" /\ b \in mine[t]
  /\ mine' = [mine EXCEPT ![t] = @ \ {b}]
  /\ IF \A i \in DOMAIN bo_list : bo_list[i].paddr # b.paddr
     THEN UNCHANGED <<bo_list, corrupt, pc, curr>>
     ELSE LET i == CHOOSE k \in DOMAIN bo_list :
                     /\ bo_list[k].paddr = b.paddr
                     /\ \A j \in 1..k - 1 : bo_list[j].paddr # b.paddr
              first == bo_list[Lowest(bo_list, i)]
          IN IF Dead(bo_list, 1..Highest(bo_list, i) + 1)
             THEN corrupt' = 1 /\ UNCHANGED <<bo_list, pc, curr>>
             ELSE /\ bo_list' = Merge(bo_list, i)
                  /\ curr' = [curr EXCEPT ![t] = IF first.is_bo = 1 THEN first.paddr ELSE 0]
                  /\ Goto(t, IF first.is_bo = 1 THEN "destroy" ELSE "idle")
                  /\ UNCHANGED corrupt
  /\ UNCHANGED <<ctx, kernel, bos, want, mapped, zero>>

\* After the unlock: the kernel BO is destroyed, unmapped and the node freed,
\* linked as it is.  If another thread has freed the node before, it is freed
\* twice.  The length of the munmap is that of the pool, not of this BO: if
\* the pool is larger, pages of any other mapping may go with it.
DestroyBo(t) ==
  /\ corrupt = 0 /\ pc[t] = "destroy"
  /\ LET I == {i \in DOMAIN bo_list : bo_list[i].paddr = curr[t] /\ bo_list[i].live = 1}
     IN IF I = {}
        THEN corrupt' = 1 /\ UNCHANGED <<bo_list, kernel, mapped>>
        ELSE LET i == CHOOSE k \in I : TRUE
             IN /\ kernel' = kernel \ {bo_list[i].handle}
                /\ \E hit \in SUBSET mapped :
                     /\ bo_list[i].size >= PoolSize => hit = {}
                     /\ mapped' = mapped \ (hit \cup {bo_list[i].handle})
                /\ bo_list' = [bo_list EXCEPT ![i].live = 0]
                /\ UNCHANGED corrupt
  /\ Goto(t, "idle") /\ curr' = [curr EXCEPT ![t] = 0]
  /\ UNCHANGED <<ctx, bos, want, mine, zero>>

-----------------------------------------------------------------------------
Thread(t) ==
  \/ \E size \in Sizes : iaic_fast_alloc_bo(t, size) \/ Exhausted(t, size)
  \/ create_bo_node(t) \/ TakeLast(t)
  \/ \E b \in mine[t] : iaic_fast_free_bo(t, b)
  \/ DestroyBo(t)

PoolNext == iaic_ctx_init \/ iaic_ctx_destroy \/ \E t \in Threads : Thread(t)

PoolSpec == PoolInit /\ [][PoolNext]_poolVars
-----------------------------------------------------------------------------
Blocks == [paddr : Nat, size : Nat, idle : {0, 1}, is_bo : {0, 1}, handle : 1..MaxBos,
           live : {0, 1}]

Buffers == UNION {mine[t] : t \in Threads}

\* Every variable of the pool keeps its type.
PoolTypeOK ==
  /\ ctx \in {0, 1} /\ corrupt \in {0, 1}
  /\ bo_list \in Seq(Blocks)
  /\ kernel \subseteq 1..MaxBos /\ bos \in 0..MaxBos /\ mapped \subseteq kernel /\ zero \in {0, 1}
  /\ pc \in [Threads -> {"idle", "grow", "take", "destroy"}]
  /\ want \in [Threads -> Sizes \cup {0}] /\ curr \in [Threads -> Nat]
  /\ \A b \in Buffers : b.paddr \in Nat /\ b.size \in Sizes /\ b.esize \in Nat
                        /\ b.handle \in 1..MaxBos

\* The pool still consists of the one kernel BO of iaic_ctx_init.
Ungrown == \A i \in DOMAIN bo_list : bo_list[i].handle = bo_list[1].handle

\* A BO smaller than the pool was destroyed, and unmapped as if it were the pool.
Torn == \E i \in DOMAIN bo_list : bo_list[i].live = 0 /\ bo_list[i].size < PoolSize

\* Until the pool grows, its blocks tile the kernel BO: each begins where the
\* one before ends, from the first byte to the last, whatever sizes were asked
\* for, 0 too.  Freeing everything, in whatever order, restores the pool as
\* iaic_ctx_init made it, unless a block of size 0 was cut: then a block may
\* stay taken that nobody has.  The list leads through freed memory only after
\* the pool has grown: a block the pool grew by is freed without being
\* unlinked, but shared_bo keeps the first block of the pool from being freed.
Tiles ==
  ctx = 1 /\ Ungrown => LET n == Len(bo_list) IN
    /\ corrupt = 0
    /\ bo_list[1].paddr = Base[bo_list[1].handle]
    /\ \A i \in 1..n - 1 : bo_list[i + 1].paddr = bo_list[i].paddr + bo_list[i].size
    /\ bo_list[n].paddr + bo_list[n].size = Base[bo_list[1].handle] + PoolSize
    /\ zero = 0 /\ Buffers = {} => bo_list = NewContext(bo_list[1].handle)

\* No two buffers that programs have overlap, whoever was given them, until a
\* block of size 0 is cut.  Every buffer is as large as was asked and lies in
\* a kernel BO that still exists, although freeing the first block of a BO
\* destroys the BO: shared_bo keeps it.  The BO is mapped from end to end
\* unless iaic_fast_free_bo has unmapped a smaller BO with the length of the
\* pool.  (With it: every variable has its type.)
Disjoint ==
  /\ PoolTypeOK
  /\ zero = 0 =>
       /\ \A t, u \in Threads : t # u => mine[t] \cap mine[u] = {}
       /\ \A b, c \in Buffers : b # c =>
            b.paddr + b.esize <= c.paddr \/ c.paddr + c.esize <= b.paddr
  /\ \A b \in Buffers : b.handle \in kernel /\ b.esize >= b.size /\ (b.handle \in mapped \/ Torn)
=============================================================================

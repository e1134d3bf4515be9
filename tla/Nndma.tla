--------------------------------- MODULE Nndma ---------------------------------
(***************************************************************************)
(* iaic_nndma_start and the macros around it: a program moves 64-byte lines*)
(* between a buffer and the ORAM.  It writes the two words of the one      *)
(* descriptor that all channels share, then the start register of the      *)
(* channel, and waits for the channel.  Nothing in the library keeps two   *)
(* programs from writing the descriptor at the same time: they take the    *)
(* NNA mutex around it.                                                    *)
(*                                                                         *)
(* The words are modelled by their fields: the first is the address of the *)
(* buffer, whose low 6 bits are 0, with size2 in bits 1 to 5; the second   *)
(* has size1 in bits 20 to 31 above the number of the line in the ORAM.    *)
(***************************************************************************)
EXTENDS Integers

CONSTANTS
  DmaUsers, NoDmaUser,
  DmaSizes,       \* sizes in bytes that programs ask for
  BoLines,        \* lines of buffers, and of the ORAM (20 bits)
  OramLines

ASSUME NndmaAssumption ==
  /\ NoDmaUser \notin DmaUsers
  /\ DmaSizes \subseteq Nat
  /\ BoLines \subseteq Nat /\ OramLines \subseteq Nat

Field == 4096     \* dma_size1 has 12 bits
Limit == 131072   \* 0x20000, the largest number of lines less one

VARIABLES
  nna_mutex,      \* the user that has the NNA mutex
  dma_pc,         \* where each user is
  ask,            \* the transfer a user asks for
  desram,         \* the fields of the descriptor
  nndma           \* the transfer the hardware was started with last

dmaVars == <<nna_mutex, dma_pc, ask, desram, nndma>>

\* A transfer of n + 1 lines.
NoTransfer == [bo |-> 0, oram |-> 0, n |-> 0]

NndmaInit ==
  /\ nna_mutex = NoDmaUser /\ dma_pc = [u \in DmaUsers |-> "idle"]
  /\ ask = [u \in DmaUsers |-> NoTransfer]
  /\ desram = [bo |-> 0, size2 |-> 0, size1 |-> 0, oft |-> 0]
  /\ nndma = NoTransfer

DmaGoto(u, l) == dma_pc' = [dma_pc EXCEPT ![u] = l]

iaic_nna_mutex_lock(u) ==
  /\ dma_pc[u] = "idle" /\ nna_mutex = NoDmaUser
  /\ nna_mutex' = u
  /\ DmaGoto(u, "locked")
  /\ UNCHANGED <<ask, desram, nndma>>

iaic_nna_mutex_unlock(u) ==
  /\ dma_pc[u] = "locked"
  /\ nna_mutex' = NoDmaUser
  /\ DmaGoto(u, "idle")
  /\ UNCHANGED <<ask, desram, nndma>>

-----------------------------------------------------------------------------
(* iaic_nndma_start                                                        *)

\* What the checks let through: whole lines, at most 0x20001 of them.  Size 0
\* becomes the largest size_t when 1 is taken away, and is refused.
Accepted(size) == size % 64 = 0 /\ size # 0 /\ size \div 64 - 1 <= Limit

size2Short(n) == IF n > Field THEN (n \div Field) % 16 ELSE 0 \* mutant: masked by 0xf

\* dma_size1, and dma_size2 before its shift by 1.
dma_size1(n) == IF n > Field THEN n % Field ELSE n
dma_size2(n) == IF n > Field THEN (n \div Field) % 32 ELSE 0

\* A transfer that is refused changes nothing; otherwise three writes follow.
\* The third parameter is an address in the ORAM, as its check wants.
iaic_nndma_start(u, size, bo, oram) ==
  /\ dma_pc[u] = "locked" /\ Accepted(size)
  /\ ask' = [ask EXCEPT ![u] = [bo |-> bo, oram |-> oram, n |-> size \div 64 - 1]]
  /\ DmaGoto(u, "word0")
  /\ UNCHANGED <<nna_mutex, desram, nndma>>

\* desram_vbase[0]
Word0(u) ==
  /\ dma_pc[u] = "word0"
  /\ desram' = [desram EXCEPT !.bo = ask[u].bo, !.size2 = dma_size2(ask[u].n)]
  /\ DmaGoto(u, "word1")
  /\ UNCHANGED <<nna_mutex, ask, nndma>>

\* desram_vbase[1]; the shift by 20 keeps 12 bits of dma_size1.
Word1(u) ==
  /\ dma_pc[u] = "word1"
  /\ desram' = [desram EXCEPT !.size1 = dma_size1(ask[u].n) % Field, !.oft = ask[u].oram]
  /\ DmaGoto(u, "go")
  /\ UNCHANGED <<nna_mutex, ask, nndma>>

\* The start register: the hardware reads the descriptor.
Go(u) ==
  /\ dma_pc[u] = "go"
  /\ nndma' = [bo |-> desram.bo, oram |-> desram.oft, n |-> desram.size2 * Field + desram.size1]
  /\ DmaGoto(u, "wait")
  /\ UNCHANGED <<nna_mutex, ask, desram>>

\* rdhwr returns when the channel has finished.
iaic_nndma_wait(u) ==
  /\ dma_pc[u] = "wait"
  /\ DmaGoto(u, "locked")
  /\ UNCHANGED <<nna_mutex, ask, desram, nndma>>

DmaStep(u) ==
  \/ iaic_nna_mutex_lock(u) \/ iaic_nna_mutex_unlock(u)
  \/ \E size \in DmaSizes, bo \in BoLines, oram \in OramLines : iaic_nndma_start(u, size, bo, oram)
  \/ Word0(u) \/ Word1(u) \/ Go(u) \/ iaic_nndma_wait(u)

NndmaNext == \E u \in DmaUsers : DmaStep(u)

NndmaSpec == NndmaInit /\ [][NndmaNext]_dmaVars
-----------------------------------------------------------------------------
Transfers(N) == [bo : BoLines \cup {0}, oram : OramLines \cup {0}, n : N]

\* Every variable of the transfers keeps its type; the fields fit their words.
NndmaTypeOK ==
  /\ nna_mutex \in DmaUsers \cup {NoDmaUser}
  /\ dma_pc \in [DmaUsers -> {"idle", "locked", "word0", "word1", "go", "wait"}]
  /\ ask \in [DmaUsers -> Transfers(0..Limit)]
  /\ desram \in [bo : BoLines \cup {0}, size2 : 0..31, size1 : 0..Field - 1, oft : OramLines \cup {0}]
  /\ nndma \in Transfers(0..Limit - 1)

\* Whoever waits for a transfer waits for the one it asked for: the same
\* buffer, the same lines of the ORAM and as many, except for the two sizes
\* just past a limit that the checks let through (0x1001 and 0x20001 lines):
\* of those only one line is moved.
DmaAsAsked ==
  \A u \in DmaUsers : dma_pc[u] = "wait" =>
    /\ nndma.bo = ask[u].bo /\ nndma.oram = ask[u].oram
    /\ nndma.n = IF ask[u].n \in {Field, Limit} THEN 0 ELSE ask[u].n
=============================================================================

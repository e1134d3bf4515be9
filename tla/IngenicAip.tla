------------------------------ MODULE IngenicAip ------------------------------
(***************************************************************************)
(* The user driver of the AIP of the T41 (ingenic_aip.c, jz_aip_hal.c):    *)
(* ingenic_aip_init and ingenic_aip_deinit with the count of users, and    *)
(* the calls that process boxes.  Each call takes the mutex of its         *)
(* channel, grows an array of nodes that is kept between calls, opens the  *)
(* channel's device and chain buffer the first time, starts the hardware   *)
(* and waits.  A conversion (bs_covert) keeps the mutex between calls.     *)
(*                                                                         *)
(* A user calls between its ingenic_aip_init and ingenic_aip_deinit.       *)
(* Sizes count boxes, as if each filled a page.  harm is the first access  *)
(* to memory or to a file that the driver has given up or never had;       *)
(* nothing follows it.  cause collects the only ways to get there, which   *)
(* the properties name.                                                    *)
(***************************************************************************)
EXTENDS Integers, FiniteSets

CONSTANTS
  Users,       \* threads
  NoUser,
  Used,        \* the calls that the users make
  MaxBoxes,    \* bound on box_num
  MaxBuf,      \* the largest chain buffer, in boxes
  MaxOpens,    \* bound on the initialisations in effect at a time
  MaxCauses,   \* bound on the causes of harm in one behaviour
  CountMod     \* open_cnt is a number modulo CountMod, in the code 2^32

Channels == {"p", "f", "t"}
Arrays   == {"anode", "pnode", "fnode"}

\* The channel of a call and the array of its nodes; a conversion has one
\* node, on the stack.
Calls == {"affine", "perspective", "resize", "covert"}
ChannelOf == [affine |-> "p", perspective |-> "p", resize |-> "f", covert |-> "t"]
ArrayOf   == [affine |-> "anode", perspective |-> "pnode", resize |-> "fnode"]

ASSUME AipAssumption ==
  /\ NoUser \notin Users /\ Used \subseteq Calls
  /\ {MaxBoxes, MaxBuf, MaxOpens, MaxCauses, CountMod} \subseteq Nat
  /\ MaxOpens + 2 < CountMod

VARIABLES
  open_cnt,
  io,              \* the registers: "no", "mapped", or "bad" after an error
  manage,          \* per channel: the struct aip_manage, as below
  chain_buf_size,  \* one for all channels
  nodes,           \* per array: [mem, size]
  mutex,           \* per channel: who has mutex_p, mutex_f, mutex_t
  at,              \* per user: [pc, call, box_num], where in which call
  opened,          \* history: per user, inits that succeeded less deinits
  lost,            \* history: what deinit left behind: a channel's chain buffer,
                   \* which the kernel never got back, or pages of its mapping
  harm, cause      \* history

aipVars == <<open_cnt, io, manage, chain_buf_size, nodes, mutex, at,
             opened, lost, harm, cause>>

Memory == {"null", "live", "freed"}

\* A manager: mem is the pointer to it, size is chainbuf.size, which is 0 when
\* chain_num is, and buf the size of the buffer that was mapped, -1 when the
\* mapping failed.  A descriptor that was never set is no better than closed.
Manager(mem) == [mem |-> mem, fd |-> "no", fd_open_cnt |-> 0, size |-> 0, buf |-> 0]

Idle == [pc |-> "idle", call |-> "none", box_num |-> 0]

AipInit ==
  /\ open_cnt = 0 /\ io = "no" /\ chain_buf_size = 0
  /\ manage = [c \in Channels |-> Manager("null")]
  /\ nodes = [a \in Arrays |-> [mem |-> "null", size |-> 0]]
  /\ mutex = [c \in Channels |-> NoUser]
  /\ at = [u \in Users |-> Idle] /\ opened = [u \in Users |-> 0]
  /\ lost = {} /\ harm = "none" /\ cause = {}

AipGoto(u, l) == at' = [at EXCEPT ![u].pc = l]

\* That a call has fewer boxes than an earlier one is not counted.
Because(c) == cause' = cause \cup c /\ Cardinality(cause' \ {"fewer"}) <= MaxCauses

\* The initialisations in effect.
Inits == {w \in Users \X (1..MaxOpens) : w[2] <= opened[w[1]]}

-----------------------------------------------------------------------------
(* ingenic_aip_init and ingenic_aip_deinit, under mutex_init.              *)

\* aip_mem_init: managers that are not there are allocated, and the counters
\* of all are set to 0.
Allocated ==
  [c \in Channels |->
     [(IF manage[c].mem = "null" THEN Manager("live") ELSE manage[c]) EXCEPT !.fd_open_cnt = 0]]

InitKeepsNodes(u) == \* mutant: the pointers of an earlier use are kept
  /\ at[u].pc = "idle" /\ Cardinality(Inits) < MaxOpens
  /\ open_cnt' = (open_cnt + 1) % CountMod
  /\ opened' = [opened EXCEPT ![u] = @ + 1]
  /\ IF open_cnt' > 1
     THEN UNCHANGED <<manage, io>>
     ELSE /\ manage' = Allocated
          /\ io' = "mapped"
  /\ UNCHANGED <<chain_buf_size, nodes, mutex, at, lost, harm, cause>>

InitOffByOne(u) == \* mutant: the first user is taken for a second one
  /\ at[u].pc = "idle" /\ Cardinality(Inits) < MaxOpens
  /\ open_cnt' = (open_cnt + 1) % CountMod
  /\ opened' = [opened EXCEPT ![u] = @ + 1]
  /\ open_cnt' >= 1
  /\ UNCHANGED <<manage, io, chain_buf_size, nodes, mutex, at, lost, harm, cause>>

\* The first user allocates the managers and maps the registers; an error of
\* the mapping goes unnoticed.
ingenic_aip_init(u) ==
  /\ at[u].pc = "idle" /\ Cardinality(Inits) < MaxOpens
  /\ open_cnt' = (open_cnt + 1) % CountMod
  /\ opened' = [opened EXCEPT ![u] = @ + 1]
  /\ IF open_cnt' > 1
     THEN UNCHANGED <<manage, io, nodes, cause>>
     ELSE /\ manage' = Allocated
          /\ io' \in {"mapped", "bad"}
          /\ Because(IF io' = "bad" THEN {"nomap"} ELSE {})
          /\ nodes' = [a \in Arrays |-> [mem |-> "null", size |-> 0]]
  /\ UNCHANGED <<chain_buf_size, mutex, at, lost, harm>>

\* No memory for one of the managers, which are allocated in the order P, F,
\* T: an error is returned, the count stays raised, and the managers before
\* keep what malloc found in them, in fd_open_cnt as in the descriptor.
InitNoMemory(u) ==
  /\ at[u].pc = "idle" /\ (open_cnt + 1) % CountMod <= 1
  /\ open_cnt' = (open_cnt + 1) % CountMod
  /\ \E got \in {{}, {"p"}, {"p", "f"}}, found \in [{"p", "f"} -> -1..1] :
       /\ \E c \in Channels \ got : manage[c].mem = "null"
       /\ manage' = [c \in Channels |->
            IF c \in got /\ manage[c].mem = "null"
            THEN [Manager("live") EXCEPT !.fd = "closed", !.fd_open_cnt = found[c]]
            ELSE manage[c]]
  /\ Because({"nomem"})
  /\ UNCHANGED <<io, chain_buf_size, nodes, mutex, at, opened, lost, harm>>

\* aip_chainbuf_free: without boxes in the last call the buffer is neither
\* unmapped nor given back; with fewer boxes than the buffer holds only their
\* part of it is unmapped, since aip_x_init overwrites the size.
Opened(c) == manage[c].fd_open_cnt > 0
Kept(c) == Opened(c) /\ manage[c].size = 0 /\ manage[c].buf > 0
Cut(c)  == Opened(c) /\ manage[c].size < manage[c].buf

\* What goes wrong in the cleanup: an array freed before, the missing manager
\* of P dereferenced, a freed manager read, or one freed while a call is in
\* the middle of aip_chainbuf_alloc, a closed descriptor closed, memory
\* unmapped at an address that was never set.
DeinitHarm ==
  CASE \E a \in Arrays : nodes[a].mem = "freed" -> "nodes"
    [] manage["p"].mem = "null" -> "null"
    [] \E c \in Channels : manage[c].mem = "freed" -> "manage"
    [] \E u \in Users : at[u].pc = "check" -> "manage"
    [] \E c \in Channels : Opened(c) /\ manage[c].fd = "closed" -> "fd"
    [] \E c \in Channels : Opened(c) /\ manage[c].fd = "open" /\ manage[c].size > 0 /\ manage[c].buf = 0
         -> "unmap"
    [] OTHER -> "none"

\* The registers are unmapped without a look at whether they were mapped.
Cleanup ==
  /\ \/ harm' = DeinitHarm
     \/ io = "no" /\ manage["p"].mem = "live" /\ harm' = "unmap"
  /\ nodes' = [a \in Arrays |->
       IF nodes[a].mem = "live" THEN [nodes[a] EXCEPT !.mem = "freed"] ELSE nodes[a]]
  /\ io' = "no"
  /\ lost' = lost \cup {<<c, "buffer">> : c \in {d \in Channels : Kept(d)}}
                  \cup {<<c, "mapping">> : c \in {d \in Channels : Cut(d)}}
  /\ manage' = [c \in Channels |-> Manager("null")]

\* The count goes down by one, and by two if more than one is left; at zero or
\* one everything is freed, and the test for a negative count is always false.
ingenic_aip_deinit(u) ==
  /\ at[u].pc = "idle" /\ opened[u] > 0
  /\ opened' = [opened EXCEPT ![u] = @ - 1]
  /\ LET less == (open_cnt - 1) % CountMod IN
     IF less > 1
     THEN open_cnt' = less - 1 /\ UNCHANGED <<manage, io, nodes, lost, harm, cause>>
     ELSE /\ open_cnt' = less
          /\ Cleanup
          /\ Because(IF Cardinality(Inits) > 1 THEN {"nested"} ELSE {})
  /\ UNCHANGED <<chain_buf_size, mutex, at>>

-----------------------------------------------------------------------------
(* ingenic_aip_affine_process, _perspective_process, _resize_process and   *)
(* bs_covert_cfg, bs_covert_step_start, _wait, _exit.                      *)

LockNothing(u, k, n) == \* mutant: the call does not take the channel's mutex
  /\ at[u].pc = "idle" /\ opened[u] > 0
  /\ k = "covert" => n = 1
  /\ mutex' = [mutex EXCEPT ![ChannelOf[k]] = u]
  /\ at' = [at EXCEPT ![u] = [pc |-> IF k = "covert" THEN "init" ELSE "nodes",
                               call |-> k, box_num |-> n]]
  /\ UNCHANGED <<open_cnt, io, manage, chain_buf_size, nodes, opened, lost, harm, cause>>

\* A call begins: it takes the channel's mutex.
AipLock(u, k, n) ==
  /\ at[u].pc = "idle" /\ opened[u] > 0 /\ mutex[ChannelOf[k]] = NoUser
  /\ k = "covert" => n = 1
  /\ mutex' = [mutex EXCEPT ![ChannelOf[k]] = u]
  /\ at' = [at EXCEPT ![u] = [pc |-> IF k = "covert" THEN "init" ELSE "nodes",
                               call |-> k, box_num |-> n]]
  /\ UNCHANGED <<open_cnt, io, manage, chain_buf_size, nodes, opened, lost, harm, cause>>

Chan(u) == ChannelOf[at[u].call]

\* The call ends: it unlocks, whoever locked.
AipReturn(u) == at' = [at EXCEPT ![u] = Idle] /\ mutex' = [mutex EXCEPT ![Chan(u)] = NoUser]

\* The array of nodes grows, or there is no memory for it; then it is filled.
GrowNodes(u) ==
  /\ at[u].pc = "nodes"
  /\ LET a == ArrayOf[at[u].call]
         n == at[u].box_num
         Touched(bad) == harm' = IF bad THEN "nodes" ELSE "none"
     IN \/ /\ n > nodes[a].size
           /\ Touched(nodes[a].mem = "freed")
           /\ nodes' = [nodes EXCEPT ![a] = [mem |-> "live", size |-> n]]
           /\ AipGoto(u, "init") /\ UNCHANGED mutex
        \/ /\ n > nodes[a].size
           /\ Touched(nodes[a].mem = "freed")
           /\ nodes' = [nodes EXCEPT ![a] = [mem |-> "null", size |-> 0]]
           /\ AipReturn(u)
        \/ /\ n <= nodes[a].size
           /\ Touched(n > 0 /\ nodes[a].mem = "freed")
           /\ AipGoto(u, "init") /\ UNCHANGED <<nodes, mutex>>
  /\ UNCHANGED <<open_cnt, io, manage, chain_buf_size, opened, lost, cause>>

\* aip_x_init returns an error; a program that does not look at the result of
\* bs_covert_cfg goes on with its steps, without the mutex.
AipFails(u, why) ==
  \/ AipReturn(u) /\ Because(why)
  \/ /\ at[u].call = "covert" /\ AipGoto(u, "start")
     /\ mutex' = [mutex EXCEPT !["t"] = NoUser] /\ Because(why \cup {"ignored"})

\* No manager, or one that was freed.
InitUnmanaged(u) ==
  /\ at[u].pc = "init" /\ manage[Chan(u)].mem # "live"
  /\ IF manage[Chan(u)].mem = "null"
     THEN AipFails(u, {}) /\ UNCHANGED harm
     ELSE harm' = "manage" /\ UNCHANGED <<at, mutex, cause>>
  /\ UNCHANGED <<open_cnt, io, manage, chain_buf_size, nodes, opened, lost>>

\* aip_chainbuf_alloc, first time: the device cannot be opened, which frees
\* the manager and keeps the pointer; or it has no chain buffer.
OpenFails(u) ==
  /\ at[u].pc = "init"
  /\ manage[Chan(u)].mem = "live" /\ manage[Chan(u)].fd_open_cnt = 0
  /\ \/ /\ manage' = [manage EXCEPT ![Chan(u)] = Manager("freed")]
        /\ AipFails(u, {"noopen"})
     \/ /\ at[u].box_num > 0
        /\ manage' = [manage EXCEPT ![Chan(u)].fd = "closed", ![Chan(u)].size = at[u].box_num]
        /\ AipFails(u, {})
  /\ UNCHANGED <<open_cnt, io, chain_buf_size, nodes, opened, lost, harm>>

\* It is opened; the kernel gives a buffer of at least what was asked.  An
\* error of mmap is compared with 0 and goes unnoticed.  The size is stored
\* for all channels, whose calls this one does not exclude.
OpenDevice(u) ==
  /\ at[u].pc = "init"
  /\ manage[Chan(u)].mem = "live" /\ manage[Chan(u)].fd_open_cnt = 0
  /\ LET c == Chan(u)
         n == at[u].box_num
     IN \E size \in (IF n = 0 THEN {0} ELSE n..MaxBuf) :
        \E buf \in {size} \cup (IF n = 0 THEN {} ELSE {-1}) :
          /\ manage' = [manage EXCEPT ![c] =
               [mem |-> "live", fd |-> "open", fd_open_cnt |-> 1, size |-> size, buf |-> buf]]
          /\ chain_buf_size' = size
          /\ Because((IF buf = -1 THEN {"nommap"} ELSE {}) \cup
                     (IF \E d \in Channels \ {c} : Opened(d) /\ manage[d].buf # size
                      THEN {"sizes"} ELSE {}) \cup (IF n = 0 THEN {"zero"} ELSE {}))
  /\ AipGoto(u, "check")
  /\ UNCHANGED <<open_cnt, io, nodes, mutex, opened, lost, harm>>

\* Later times, or with a counter that says so: the size of the chain takes
\* the place of the buffer's.
ReuseDevice(u) ==
  /\ at[u].pc = "init"
  /\ manage[Chan(u)].mem = "live" /\ manage[Chan(u)].fd_open_cnt # 0
  /\ manage' = [manage EXCEPT ![Chan(u)].size = at[u].box_num]
  /\ Because((IF at[u].box_num = 0 THEN {"zero"} ELSE {}) \cup
             (IF at[u].box_num < manage[Chan(u)].buf THEN {"fewer"} ELSE {}))
  /\ AipGoto(u, "check")
  /\ UNCHANGED <<open_cnt, io, chain_buf_size, nodes, mutex, opened, lost, harm>>

\* Too many boxes for chain_buf_size give the buffer back and close the file,
\* but fd_open_cnt says that it is open.
TooManyBoxes(u) ==
  /\ at[u].pc = "check" /\ manage[Chan(u)].size > chain_buf_size
  /\ manage' = [manage EXCEPT ![Chan(u)].fd = "closed", ![Chan(u)].buf = 0]
  /\ IF manage[Chan(u)].fd = "closed"
     THEN harm' = "fd" /\ UNCHANGED <<at, mutex, cause>>
     ELSE AipFails(u, {"toomany"}) /\ UNCHANGED harm
  /\ UNCHANGED <<open_cnt, io, chain_buf_size, nodes, opened, lost>>

\* Otherwise the registers are set.  The chain is written if there is more
\* than one box: into the buffer that was mapped, whatever chain_buf_size says.
ConfigNodes(u) ==
  /\ at[u].pc = "check" /\ manage[Chan(u)].size <= chain_buf_size
  /\ harm' = CASE io # "mapped" -> "io"
               [] at[u].box_num > 1 /\ at[u].box_num > manage[Chan(u)].buf -> "overflow"
               [] OTHER -> "none"
  /\ AipGoto(u, "start")
  /\ UNCHANGED <<open_cnt, io, manage, chain_buf_size, nodes, mutex, opened, lost, cause>>

\* The manager as aip_x_start and aip_x_wait find it.
ManagerHarm(c) ==
  CASE manage[c].mem = "null" -> "null"
    [] manage[c].mem = "freed" -> "manage"
    [] OTHER -> "none"

\* aip_p_start, aip_f_start, aip_t_start
aip_start(u) ==
  /\ at[u].pc = "start"
  /\ harm' = IF manage[Chan(u)].mem = "live" /\ io # "mapped" THEN "io" ELSE ManagerHarm(Chan(u))
  /\ AipGoto(u, "wait")
  /\ UNCHANGED <<open_cnt, io, manage, chain_buf_size, nodes, mutex, opened, lost,
                 cause>>

\* aip_p_wait, aip_f_wait, aip_t_wait: the wait ends, with or without an
\* error.  A conversion waits for each of its steps.
aip_wait(u) ==
  /\ at[u].pc = "wait"
  /\ harm' = IF manage[Chan(u)].mem = "live" /\ manage[Chan(u)].fd # "open"
             THEN "fd" ELSE ManagerHarm(Chan(u))
  /\ IF at[u].call = "covert" THEN AipGoto(u, "step") /\ UNCHANGED mutex ELSE AipReturn(u)
  /\ UNCHANGED <<open_cnt, io, manage, chain_buf_size, nodes, opened, lost, cause>>

\* The next step of the conversion, or bs_covert_step_exit.
bs_covert_step(u) ==
  /\ at[u].pc = "step"
  /\ \/ AipGoto(u, "start") /\ UNCHANGED mutex
     \/ AipReturn(u)
  /\ UNCHANGED <<open_cnt, io, manage, chain_buf_size, nodes, opened, lost, harm,
                 cause>>

-----------------------------------------------------------------------------
AipStep(u) ==
  \/ ingenic_aip_init(u) \/ InitNoMemory(u) \/ ingenic_aip_deinit(u)
  \/ \E k \in Used, n \in 0..MaxBoxes : AipLock(u, k, n)
  \/ GrowNodes(u) \/ InitUnmanaged(u) \/ OpenFails(u) \/ OpenDevice(u) \/ ReuseDevice(u)
  \/ TooManyBoxes(u) \/ ConfigNodes(u) \/ aip_start(u) \/ aip_wait(u) \/ bs_covert_step(u)

AipNext == harm = "none" /\ \E u \in Users : AipStep(u)

AipSpec == AipInit /\ [][AipNext]_aipVars
-----------------------------------------------------------------------------
\* Every variable of the user driver keeps its type.
AipTypeOK ==
  /\ open_cnt \in 0..CountMod - 1 /\ io \in {"no", "mapped", "bad"}
  /\ manage \in [Channels -> [mem : Memory, fd : {"no", "open", "closed"}, fd_open_cnt : {-1, 0, 1},
                              size : 0..MaxBoxes \cup 0..MaxBuf, buf : -1..MaxBuf]]
  /\ chain_buf_size \in 0..MaxBuf
  /\ nodes \in [Arrays -> [mem : Memory, size : 0..MaxBoxes]]
  /\ mutex \in [Channels -> Users \cup {NoUser}]
  /\ at \in [Users -> [pc : {"idle", "nodes", "init", "check", "start", "wait", "step"},
                        call : Calls \cup {"none"}, box_num : 0..MaxBoxes]]
  /\ opened \in [Users -> 0..MaxOpens] /\ lost \subseteq Channels \X {"buffer", "mapping"}
  /\ harm \in {"none", "nodes", "null", "manage", "fd", "io", "overflow", "unmap"}
  /\ cause \subseteq {"nomap", "nomem", "nested", "ignored", "noopen", "nommap", "sizes", "zero",
                      "fewer", "toomany"}

\* An initialisation that found no memory may do any harm, and so may a deinit
\* that ran while another initialisation was in effect, but for the size of
\* what is unmapped.  Apart from these:
\* nobody uses or frees a manager or an array of nodes that is freed, unless
\* a device could not be opened or its error was ignored.
\* Nobody waits on or closes a descriptor that is closed, unless a call found
\* chain_buf_size, which belongs to all channels, too small for its own size,
\* so that later calls of the channel find it closed, or ignored an error.
\* A chain fits into the buffer of its channel, unless the channels were
\* opened with buffers of different sizes, a mapping failed, the buffer was
\* given back because chain_buf_size was too small, or an error was ignored.
\* The registers are mapped, unless that failed, which init does not report.
\* Nothing is unmapped that was not mapped, unless a device was opened by a
\* call without boxes.
\* And every chain buffer is given back, unless a call had no boxes; all of it
\* is unmapped, unless a call had fewer boxes than the buffer holds.
\* (With it: every variable has its type.)
AipUsesLive ==
  /\ AipTypeOK
  /\ cause \cap {"nomem", "nested"} = {} =>
       /\ harm \in {"nodes", "null", "manage"} => cause \cap {"noopen", "ignored"} # {}
       /\ harm = "fd" => cause \cap {"toomany", "ignored"} # {}
       /\ harm = "overflow" => cause \cap {"sizes", "nommap", "toomany", "ignored"} # {}
       /\ harm = "io" => "nomap" \in cause
       /\ harm = "unmap" => "zero" \in cause
  /\ \A c \in Channels : <<c, "buffer">> \in lost => "zero" \in cause
  /\ \A c \in Channels : <<c, "mapping">> \in lost => "fewer" \in cause

\* Each channel of the hardware has one user at a time, from the set-up of
\* the registers to the end of the wait, unless a program ignored the error
\* of bs_covert_cfg, which has unlocked by then.
ChannelExclusive ==
  "ignored" \in cause \/ \A u, v \in Users :
    at[u].pc # "idle" /\ at[v].pc # "idle" /\ Chan(u) = Chan(v) => u = v

\* After ingenic_aip_init returned 0, and until the matching deinit, the
\* managers and the registers are there, unless another user's deinit took
\* them away (the count goes down by two) or an earlier initialisation failed
\* and left the count.  A manager is also gone after its device could not be
\* opened, and the registers are not there if they could not be mapped, which
\* ingenic_aip_init does not report.
OpenIsReady ==
  Inits # {} /\ cause \cap {"nested", "nomem"} = {} =>
    /\ "noopen" \in cause \/ \A c \in Channels : manage[c].mem = "live"
    /\ "nomap" \in cause \/ io = "mapped"
=============================================================================

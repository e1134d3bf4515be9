----------------------------- MODULE AipMemory -----------------------------
(***************************************************************************)
(* The memory a process owns in the AIP v2.0 driver and how it is given    *)
(* back: buffer objects (BOs) with their handles, the NNA ORAM pool with   *)
(* its handles, the jobs whose chain lies in a BO, and the cleanup that    *)
(* runs when the last reference to an open file goes.  The job channel is  *)
(* the abstract queue of JobFifo.                                          *)
(*                                                                         *)
(* A file is used by one thread at a time.  With BOs programs follow the   *)
(* rules: they pass handles that they got through the same file and have   *)
(* not destroyed, and destroy a BO when no queued job needs it.            *)
(***************************************************************************)
EXTENDS Integers, Sequences, FiniteSets

CONSTANTS
  Procs, Files,  \* processes; files that can be open on the device
  Nr, Vnr,       \* task_tgid_nr and task_tgid_vnr of a process
  NoProc,        \* no process
  Contexts,      \* bound on the files a process has open or is closing
  MaxBos,        \* bound on the BOs created
  MaxJobs,       \* bound on the jobs submitted
  Units          \* 64-byte units of the ORAM pool

ASSUME MemoryAssumption ==
  /\ NoProc \notin Procs
  /\ Contexts \in Nat /\ MaxBos \in Nat /\ MaxJobs \in Nat /\ Units \in Nat

VARIABLES
  refs,                        \* refs[f]: the processes that have f open
  user,                        \* user[f]: the process inside an ioctl or release
  rel,                         \* rel[f]: the next step of the cleanup of f
  bo_handles, bos,             \* [handle, bo, pid] of the idr; BOs created so far
  held,                        \* held[f]: handles the program got through f
  sub,                         \* sub[f]: the BO that a submission found
  queue, submitted, finished,  \* the job channel
  node,                        \* node[s]: the BO with the chain of job s
  oram_handles, oram_pool,     \* [handle, pid, units] of the idr; allocated units
  taken,                       \* taken[f]: units allocated but without a handle yet
  bug,                         \* 1: BUG() of jz_aip_v20_close
  inherited                    \* history, 1: a file was inherited over fork

vars == <<refs, user, rel, bo_handles, bos, held, sub, queue, submitted, finished, node,
          oram_handles, oram_pool, taken, bug, inherited>>
fileVars == <<refs, rel>>
boVars   == <<bo_handles, bos, held>>
jobVars  == <<queue, submitted, finished, node>>
oramVars == <<oram_handles, oram_pool>>

Pids == {Vnr[p] : p \in Procs}

Jobs == INSTANCE JobFifo WITH Owners <- Pids, MaxNumber <- MaxJobs

Init ==
  /\ refs = [f \in Files |-> {}] /\ rel = [f \in Files |-> "none"]
  /\ user = [f \in Files |-> NoProc]
  /\ bo_handles = {} /\ bos = 0 /\ held = [f \in Files |-> {}]
  /\ Jobs!FifoInit /\ sub = [f \in Files |-> 0] /\ node = [s \in 1..MaxJobs |-> 0]
  /\ oram_handles = {} /\ oram_pool = {} /\ taken = [f \in Files |-> {}]
  /\ bug = 0 /\ inherited = 0

\* File f is open in process p, which has no call on it under way.
Ready(p, f) == p \in refs[f] /\ user[f] = NoProc

Enter(p, f) == user' = [user EXCEPT ![f] = p]
Leave(f)    == user' = [user EXCEPT ![f] = NoProc]

\* idr_alloc from start: the lowest number that is not in use.
idr_alloc(start, used) ==
  CHOOSE h \in start..start + Cardinality(used) :
    h \notin used /\ \A k \in start..h - 1 : k \in used

LiveBos == {b.bo : b \in bo_handles}

-----------------------------------------------------------------------------
(* open, and fork as it matters here.                                      *)

open(p, f) ==
  /\ refs[f] = {} /\ rel[f] = "none"
  /\ Cardinality({g \in Files : p \in refs[g] \/ user[g] = p}) < Contexts
  /\ refs' = [refs EXCEPT ![f] = {p}]
  /\ UNCHANGED <<user, rel, boVars, sub, jobVars, oramVars, taken, bug, inherited>>

\* A child shares all files of its parent.
fork(p, q) ==
  /\ \A f \in Files : q \notin refs[f] /\ user[f] # q
  /\ \E f \in Files : p \in refs[f]
  /\ refs' = [f \in Files |-> IF p \in refs[f] THEN refs[f] \cup {q} ELSE refs[f]]
  /\ inherited' = 1
  /\ UNCHANGED <<user, rel, boVars, sub, jobVars, oramVars, taken, bug>>

-----------------------------------------------------------------------------
(* IOCTL_AIP_V20_BO                                                        *)

\* Under bo_mutex.  A failed append (no memory, no number) changes nothing.
bo_append(p, f) ==
  /\ Ready(p, f) /\ bos < MaxBos
  /\ bos' = bos + 1
  /\ LET h == idr_alloc(1, {b.handle : b \in bo_handles})
     IN /\ bo_handles' = bo_handles \cup {[handle |-> h, bo |-> bos + 1, pid |-> Nr[p]]}
        /\ held' = [held EXCEPT ![f] = @ \cup {h}]
  /\ UNCHANGED <<fileVars, user, sub, jobVars, oramVars, taken, bug, inherited>>

\* Whoever owns it, the BO with this handle goes.
bo_destroy(p, f, h) ==
  /\ Ready(p, f) /\ h \in held[f]
  /\ \A b \in bo_handles : b.handle = h =>
       \A i \in DOMAIN queue : node[queue[i].seq] # b.bo
  /\ bo_handles' = {b \in bo_handles : b.handle # h}
  /\ held' = [held EXCEPT ![f] = @ \ {h}]
  /\ UNCHANGED <<fileVars, user, bos, sub, jobVars, oramVars, taken, bug, inherited>>

-----------------------------------------------------------------------------
(* IOCTL_AIP_V20_SUBMIT                                                    *)

\* f_op and p_op look the BO up without bo_mutex and write into it.
SubmitFind(p, f, h) ==
  /\ Ready(p, f) /\ h \in held[f]
  /\ submitted + Cardinality({g \in Files : sub[g] # 0}) < MaxJobs
  /\ \E b \in bo_handles : b.handle = h /\ sub' = [sub EXCEPT ![f] = b.bo]
  /\ Enter(p, f)
  /\ UNCHANGED <<fileVars, boVars, jobVars, oramVars, taken, bug, inherited>>

\* Later they queue the job; the hardware reads the BO when the job runs.
SubmitQueue(f) ==
  /\ sub[f] # 0
  /\ Jobs!FifoSubmit(Vnr[user[f]])
  /\ node' = [node EXCEPT ![submitted + 1] = sub[f]]
  /\ sub' = [sub EXCEPT ![f] = 0]
  /\ Leave(f)
  /\ UNCHANGED <<fileVars, boVars, oramVars, taken, bug, inherited>>

JobDone ==
  /\ Jobs!FifoFinish
  /\ UNCHANGED <<refs, user, rel, boVars, sub, node, oramVars, taken, bug, inherited>>

-----------------------------------------------------------------------------
(* NNA_OP_ORAM_ALLOC and NNA_OP_ORAM_FREE                                  *)

\* The gaps of the pool: the first and the last of units free in a row.
Gaps ==
  {g \in (1..Units) \X (1..Units) :
     /\ g[1] <= g[2] /\ g[1]..g[2] \cap oram_pool = {}
     /\ g[1] - 1 \in oram_pool \cup {0} /\ g[2] + 1 \in oram_pool \cup {Units + 1}}

\* gen_pool_best_fit: the smallest gap that has room for n units, of several
\* the one with the lowest address.
BestFit(g, n) ==
  /\ g[1] + n - 1 <= g[2]
  /\ \A h \in Gaps : h[1] + n - 1 <= h[2] =>
       \/ g[2] - g[1] < h[2] - h[1]
       \/ g[2] - g[1] = h[2] - h[1] /\ g[1] <= h[1]

\* gen_pool_dma_alloc takes n units, before nna_oram_lock is taken.  With too
\* few units, or none in a row, it fails.
OramTake(p, f, n) ==
  /\ Ready(p, f)
  /\ \E g \in Gaps :
       LET units == g[1]..g[1] + n - 1
       IN /\ BestFit(g, n)
          /\ oram_pool' = oram_pool \cup units
          /\ taken' = [taken EXCEPT ![f] = units]
  /\ Enter(p, f)
  /\ UNCHANGED <<fileVars, boVars, sub, jobVars, oram_handles, bug, inherited>>

OramHandleLeaks(f) == \* mutant: without a handle the units are not given back
  /\ taken[f] # {}
  /\ \/ /\ oram_handles' = oram_handles \cup
             {[handle |-> idr_alloc(1, {o.handle : o \in oram_handles}),
               pid |-> Vnr[user[f]], units |-> taken[f]]}
        /\ UNCHANGED oram_pool
     \/ UNCHANGED <<oram_pool, oram_handles>>
  /\ taken' = [taken EXCEPT ![f] = {}]
  /\ Leave(f)
  /\ UNCHANGED <<fileVars, boVars, sub, jobVars, bug, inherited>>

\* Under nna_oram_lock the units get a handle, or go back to the pool (the
\* ioctl then still returns 0).
OramHandle(f) ==
  /\ taken[f] # {}
  /\ \/ /\ oram_handles' = oram_handles \cup
             {[handle |-> idr_alloc(1, {o.handle : o \in oram_handles}),
               pid |-> Vnr[user[f]], units |-> taken[f]]}
        /\ UNCHANGED oram_pool
     \/ oram_pool' = oram_pool \ taken[f] /\ UNCHANGED oram_handles
  /\ taken' = [taken EXCEPT ![f] = {}]
  /\ Leave(f)
  /\ UNCHANGED <<fileVars, boVars, sub, jobVars, bug, inherited>>

\* Any process may free the block of any handle.
OramFree(p, f, o) ==
  /\ Ready(p, f)
  /\ oram_pool' = oram_pool \ o.units
  /\ oram_handles' = oram_handles \ {o}
  /\ UNCHANGED <<fileVars, user, boVars, sub, jobVars, taken, bug, inherited>>

-----------------------------------------------------------------------------
(* jz_aip_v20_release, called when the last reference to the file goes, by *)
(* the process that closes it: jobs, BOs, ORAM, reference count.           *)

close(p, f) ==
  /\ Ready(p, f)
  /\ refs' = [refs EXCEPT ![f] = @ \ {p}]
  /\ IF refs[f] = {p}
     THEN rel' = [rel EXCEPT ![f] = "jobs"] /\ Enter(p, f) /\ held' = [held EXCEPT ![f] = {}]
     ELSE UNCHANGED <<rel, user, held>>
  /\ UNCHANGED <<bo_handles, bos, sub, jobVars, oramVars, taken, bug, inherited>>

Goto(f, l) == rel' = [rel EXCEPT ![f] = l]

\* f_release, p_release and t_release.
ReleaseJobs(f) ==
  /\ rel[f] = "jobs"
  /\ Jobs!FifoCancel(Vnr[user[f]])
  /\ Goto(f, "bos")
  /\ UNCHANGED <<refs, user, boVars, sub, node, oramVars, taken, bug, inherited>>

ReleaseOneBo(f) == \* mutant: the loop stops at the first BO of the process
  /\ rel[f] = "bos"
  /\ LET own == {b \in bo_handles : b.pid = Vnr[user[f]]}
     IN bo_handles' = {b \in bo_handles : ~(b \in own /\ \A c \in own : b.handle <= c.handle)}
  /\ Goto(f, "oram")
  /\ UNCHANGED <<refs, user, bos, held, sub, jobVars, oramVars, taken, bug, inherited>>

ReleaseBosFirst(f) == \* mutant: BOs go before the jobs are cancelled
  /\ rel[f] \in {"jobs", "bos"}
  /\ bo_handles' = {b \in bo_handles : b.pid # Vnr[user[f]]}
  /\ Goto(f, IF rel[f] = "bos" THEN "oram" ELSE "jobs")
  /\ UNCHANGED <<refs, user, bos, held, sub, jobVars, oramVars, taken, bug, inherited>>

bo_release(f) ==
  /\ rel[f] = "bos"
  /\ bo_handles' = {b \in bo_handles : b.pid # Vnr[user[f]]}
  /\ Goto(f, "oram")
  /\ UNCHANGED <<refs, user, bos, held, sub, jobVars, oramVars, taken, bug, inherited>>

\* The second half of jz_nna_v20_release.
oram_release(f) ==
  /\ rel[f] = "oram"
  /\ LET own == {o \in oram_handles : o.pid = Vnr[user[f]]}
     IN /\ oram_handles' = oram_handles \ own
        /\ oram_pool' = oram_pool \ UNION {o.units : o \in own}
  /\ Goto(f, "put")
  /\ UNCHANGED <<refs, user, boVars, sub, jobVars, taken, bug, inherited>>

\* The last file asserts that nothing is left.
put(f) ==
  /\ rel[f] = "put"
  /\ bug' = IF /\ \A g \in Files \ {f} : refs[g] = {} /\ rel[g] = "none"
               /\ queue # << >> \/ bo_handles # {} \/ oram_handles # {}
            THEN 1 ELSE bug
  /\ Goto(f, "none") /\ Leave(f)
  /\ UNCHANGED <<refs, boVars, sub, jobVars, oramVars, taken, inherited>>

-----------------------------------------------------------------------------
Use(p, f) ==
  \/ open(p, f) \/ bo_append(p, f) \/ close(p, f)
  \/ \E h \in held[f] : bo_destroy(p, f, h) \/ SubmitFind(p, f, h)
  \/ \E n \in 1..Units : OramTake(p, f, n)
  \/ \E o \in oram_handles : OramFree(p, f, o)

Finish(f) ==
  SubmitQueue(f) \/ OramHandle(f) \/ ReleaseJobs(f) \/ bo_release(f) \/ oram_release(f) \/ put(f)

Next ==
  \/ \E f \in Files : Finish(f) \/ \E p \in Procs : Use(p, f)
  \/ \E p, q \in Procs : fork(p, q)
  \/ JobDone

Spec == Init /\ [][Next]_vars
-----------------------------------------------------------------------------
\* Every variable keeps its type; a handle is never 0, which the library
\* takes for a failed allocation.
TypeOK ==
  /\ refs \in [Files -> SUBSET Procs] /\ user \in [Files -> Procs \cup {NoProc}]
  /\ rel \in [Files -> {"none", "jobs", "bos", "oram", "put"}]
  /\ bo_handles \subseteq [handle : 1..MaxBos, bo : 1..MaxBos, pid : {Nr[p] : p \in Procs}]
  /\ bos \in 0..MaxBos /\ held \in [Files -> SUBSET (1..MaxBos)]
  /\ sub \in [Files -> 0..MaxBos] /\ node \in [1..MaxJobs -> 0..MaxBos]
  /\ queue \in Seq(Jobs!FifoJobs) /\ submitted \in 0..MaxJobs /\ finished \in 0..MaxJobs
  /\ oram_handles \subseteq [handle : 1..Units, pid : Pids, units : SUBSET (1..Units)]
  /\ oram_pool \subseteq 1..Units /\ taken \in [Files -> SUBSET (1..Units)]
  /\ bug \in {0, 1} /\ inherited \in {0, 1}

\* No job is queued, run or being prepared over freed memory: the cleanup of
\* a dying process cancels its jobs before it frees the BOs they use, and
\* nobody else's cleanup touches them, as long as no file was inherited.
\* And a handle that a program still holds names a BO of its own, although
\* numbers are reused and destroy does not ask who owns a BO.
\* (With it: every variable has its type.)
JobMemory ==
  /\ TypeOK
  /\ inherited = 0 =>
       /\ \A i \in DOMAIN queue : node[queue[i].seq] \in LiveBos
       /\ \A f \in Files :
            /\ sub[f] # 0 => sub[f] \in LiveBos
            /\ \A h \in held[f] :
                 \E b \in bo_handles : b.handle = h /\ \E p \in refs[f] : b.pid = Nr[p]

\* Every allocated ORAM unit belongs to exactly one handle or to one
\* allocation under way: none is lost, none is given out twice.
OramExact ==
  /\ oram_pool = (UNION {o.units : o \in oram_handles}) \cup (UNION {taken[f] : f \in Files})
  /\ \A o1, o2 \in oram_handles : o1 # o2 => o1.units \cap o2.units = {}
  /\ \A o \in oram_handles, f \in Files : o.units \cap taken[f] = {}
  /\ \A f, g \in Files : f # g => taken[f] \cap taken[g] = {}

\* The last close finds no job, BO or ORAM block left ("AIP has unfinish
\* task, but need close it!"), as long as no file was inherited: release
\* cleans up for the process that closes last.
NoBug == bug = 1 => inherited = 1
=============================================================================

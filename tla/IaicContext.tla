---------------------------- MODULE IaicContext ----------------------------
(***************************************************************************)
(* The life of IAIC contexts in several processes: iaic_ctx_init finds or  *)
(* creates the System V segment with the process lock, under the context   *)
(* lock of the driver; iaic_process_lock and iaic_process_unlock use it;   *)
(* iaic_ctx_destroy detaches and removes the segment, without that lock.   *)
(*                                                                         *)
(* A segment that is removed loses its key at once and its memory when the *)
(* last process detaches.  Every process has one context at a time.        *)
(***************************************************************************)
EXTENDS Integers, FiniteSets

CONSTANTS
  Procs,       \* processes
  NoProc,      \* no process
  Polite,      \* whether a context is destroyed only when no other is in use
  MaxSegs      \* bound on the segments created

ASSUME ContextAssumption ==
  /\ NoProc \notin Procs
  /\ Polite \in BOOLEAN /\ MaxSegs \in Nat

VARIABLES
  ctx_lock,     \* the process between AIP_ACTION_CTX_LOCK and _UNLOCK
  key, segs,    \* the segment that the key names, 0: none; segments created
  ready,        \* segments whose mutex_lock was initialised
  owner,        \* owner[s]: the process that has mutex_lock of segment s
  pc,           \* where each process is
  shm_id,       \* the segment of ctx->shm_id
  attached,     \* attached[p]: segments mapped by p
  is_existing,  \* 1: p found the segment
  aip_fd,       \* 1: the context has the device open
  abandoned     \* history: segments whose creator failed before it initialised the mutex

ctxVars == <<ctx_lock, key, segs, ready, owner, pc, shm_id, attached, is_existing, aip_fd, abandoned>>

Segs == 1..MaxSegs

CtxInit ==
  /\ ctx_lock = NoProc /\ key = 0 /\ segs = 0 /\ ready = {}
  /\ owner = [s \in Segs |-> NoProc]
  /\ pc = [p \in Procs |-> "none"] /\ shm_id = [p \in Procs |-> 0]
  /\ attached = [p \in Procs |-> {}] /\ is_existing = [p \in Procs |-> 0]
  /\ aip_fd = [p \in Procs |-> 0] /\ abandoned = {}

Goto(p, l) == pc' = [pc EXCEPT ![p] = l]

\* A segment exists while it has its key or somebody has it mapped.
Exists(s) == s # 0 /\ (key = s \/ \E p \in Procs : s \in attached[p])

-----------------------------------------------------------------------------
(* iaic_ctx_init_internal                                                  *)

InitNoLock(p) == \* mutant: the context lock is not taken
  /\ pc[p] = "none"
  /\ ctx_lock' = p
  /\ aip_fd' = [aip_fd EXCEPT ![p] = 1]
  /\ is_existing' = [is_existing EXCEPT ![p] = 0]
  /\ Goto(p, "excl")
  /\ UNCHANGED <<key, segs, ready, owner, shm_id, attached, abandoned>>

\* open, then AIP_ACTION_CTX_LOCK.
InitLock(p) ==
  /\ pc[p] = "none" /\ ctx_lock = NoProc
  /\ ctx_lock' = p
  /\ aip_fd' = [aip_fd EXCEPT ![p] = 1]
  /\ is_existing' = [is_existing EXCEPT ![p] = 0]
  /\ Goto(p, "excl")
  /\ UNCHANGED <<key, segs, ready, owner, shm_id, attached, abandoned>>

NewSegment(p) ==
  /\ segs < MaxSegs
  /\ segs' = segs + 1 /\ key' = segs + 1
  /\ shm_id' = [shm_id EXCEPT ![p] = segs + 1]

\* shmget with IPC_EXCL: create the segment, or find that there is one.
ShmGetExcl(p) ==
  /\ pc[p] = "excl"
  /\ \/ key = 0 /\ NewSegment(p) /\ Goto(p, "attach")
     \/ key # 0 /\ Goto(p, "get") /\ UNCHANGED <<segs, key, shm_id>>
  /\ UNCHANGED <<ctx_lock, ready, owner, attached, is_existing, aip_fd, abandoned>>

\* shmget without IPC_EXCL: find it, or create it if it was just removed.
ShmGet(p) ==
  /\ pc[p] = "get"
  /\ \/ key = 0 /\ NewSegment(p)
     \/ key # 0 /\ shm_id' = [shm_id EXCEPT ![p] = key] /\ UNCHANGED <<segs, key>>
  /\ is_existing' = [is_existing EXCEPT ![p] = 1]
  /\ Goto(p, "attach")
  /\ UNCHANGED <<ctx_lock, ready, owner, attached, aip_fd, abandoned>>

\* An error before the unlock: unlock, close, return.  A segment that was
\* created or mapped stays.
InitFails(p) ==
  /\ \/ pc[p] \in {"excl", "get", "attach"}
     \/ pc[p] = "mutex" /\ is_existing[p] = 0
  /\ ctx_lock' = NoProc
  /\ aip_fd' = [aip_fd EXCEPT ![p] = 0]
  /\ abandoned' = IF pc[p] \in {"attach", "mutex"} /\ is_existing[p] = 0
                  THEN abandoned \cup {shm_id[p]} ELSE abandoned
  /\ Goto(p, "none")
  /\ UNCHANGED <<key, segs, ready, owner, shm_id, attached, is_existing>>

\* shmat
ShmAt(p) ==
  /\ pc[p] = "attach" /\ Exists(shm_id[p])
  /\ attached' = [attached EXCEPT ![p] = @ \cup {shm_id[p]}]
  /\ Goto(p, "mutex")
  /\ UNCHANGED <<ctx_lock, key, segs, ready, owner, shm_id, is_existing, aip_fd, abandoned>>

MutexInitAlways(p) == \* mutant: everybody initialises the mutex
  /\ pc[p] = "mutex"
  /\ ready' = ready \cup {shm_id[p]}
  /\ owner' = [owner EXCEPT ![shm_id[p]] = NoProc]
  /\ ctx_lock' = NoProc
  /\ Goto(p, "setup")
  /\ UNCHANGED <<key, segs, shm_id, attached, is_existing, aip_fd, abandoned>>

\* The creator initialises the mutex; then AIP_ACTION_CTX_UNLOCK.
MutexInit(p) ==
  /\ pc[p] = "mutex"
  /\ IF is_existing[p] = 0
     THEN /\ ready' = ready \cup {shm_id[p]}
          /\ owner' = [owner EXCEPT ![shm_id[p]] = NoProc]
     ELSE UNCHANGED <<ready, owner>>
  /\ ctx_lock' = NoProc
  /\ Goto(p, "setup")
  /\ UNCHANGED <<key, segs, shm_id, attached, is_existing, aip_fd, abandoned>>

\* The rest of the initialisation succeeds; or the last step, the shared BO,
\* fails and undoes nothing; or another step fails, which closes the device
\* but keeps the segment mapped; or mem_size is too large or create_bo_node
\* fails, which does the same and returns IAIC_CODE_OK.
Setup(p) ==
  /\ pc[p] = "setup"
  /\ \/ Goto(p, "ok") /\ UNCHANGED aip_fd
     \/ Goto(p, "none") /\ UNCHANGED aip_fd
     \/ Goto(p, "none") /\ aip_fd' = [aip_fd EXCEPT ![p] = 0]
     \/ Goto(p, "ok") /\ aip_fd' = [aip_fd EXCEPT ![p] = 0]
  /\ UNCHANGED <<ctx_lock, key, segs, ready, owner, shm_id, attached, is_existing, abandoned>>

-----------------------------------------------------------------------------
(* iaic_process_lock, iaic_process_unlock, iaic_ctx_destroy.               *)

iaic_process_lock(p) ==
  /\ pc[p] = "ok" /\ owner[shm_id[p]] = NoProc
  /\ owner' = [owner EXCEPT ![shm_id[p]] = p]
  /\ Goto(p, "locked")
  /\ UNCHANGED <<ctx_lock, key, segs, ready, shm_id, attached, is_existing, aip_fd, abandoned>>

iaic_process_unlock(p) ==
  /\ pc[p] = "locked"
  /\ owner' = [owner EXCEPT ![shm_id[p]] = NoProc]
  /\ Goto(p, "ok")
  /\ UNCHANGED <<ctx_lock, key, segs, ready, shm_id, attached, is_existing, aip_fd, abandoned>>

\* Detach and remove, if the device is open; the other mappings just go.
iaic_ctx_destroy(p) ==
  /\ pc[p] = "ok"
  /\ Polite => \A q \in Procs \ {p} : pc[q] = "none"
  /\ IF aip_fd[p] = 1
     THEN /\ attached' = [attached EXCEPT ![p] = @ \ {shm_id[p]}]
          /\ key' = IF key = shm_id[p] THEN 0 ELSE key
          /\ aip_fd' = [aip_fd EXCEPT ![p] = 0]
     ELSE UNCHANGED <<attached, key, aip_fd>>
  /\ Goto(p, "none")
  /\ UNCHANGED <<ctx_lock, segs, ready, owner, shm_id, is_existing, abandoned>>

\* The process ends, maybe with the process lock, which nobody gives back.
\* (An end between AIP_ACTION_CTX_LOCK and _UNLOCK is in module NnaLock.)
exit(p) ==
  /\ pc[p] \in {"none", "setup", "ok", "locked"}
  /\ attached' = [attached EXCEPT ![p] = {}]
  /\ aip_fd' = [aip_fd EXCEPT ![p] = 0]
  /\ Goto(p, "none")
  /\ UNCHANGED <<ctx_lock, key, segs, ready, owner, shm_id, is_existing, abandoned>>

-----------------------------------------------------------------------------
Process(p) ==
  \/ InitLock(p) \/ ShmGetExcl(p) \/ ShmGet(p) \/ InitFails(p) \/ ShmAt(p) \/ MutexInit(p)
  \/ Setup(p) \/ iaic_process_lock(p) \/ iaic_process_unlock(p) \/ iaic_ctx_destroy(p) \/ exit(p)

CtxNext == \E p \in Procs : Process(p)

CtxSpec == CtxInit /\ [][CtxNext]_ctxVars
-----------------------------------------------------------------------------
\* Every variable keeps its type.
CtxTypeOK ==
  /\ ctx_lock \in Procs \cup {NoProc} /\ key \in 0..MaxSegs /\ segs \in 0..MaxSegs
  /\ ready \subseteq Segs /\ owner \in [Segs -> Procs \cup {NoProc}]
  /\ pc \in [Procs -> {"none", "excl", "get", "attach", "mutex", "setup", "ok", "locked"}]
  /\ shm_id \in [Procs -> 0..MaxSegs] /\ attached \in [Procs -> SUBSET Segs]
  /\ is_existing \in [Procs -> {0, 1}] /\ aip_fd \in [Procs -> {0, 1}]
  /\ abandoned \subseteq Segs

\* The process lock excludes: no two processes are between their
\* iaic_process_lock and iaic_process_unlock.
ProcessExclusion ==
  \A p, q \in Procs : pc[p] = "locked" /\ pc[q] = "locked" => p = q

\* Whoever can take the process lock finds it mapped and initialised,
\* unless the context that created the segment failed half way: the segment
\* then keeps its key and is found by all later contexts, and none of them
\* initialises the mutex.
LockReady ==
  \A p \in Procs : pc[p] \in {"ok", "locked"} =>
    shm_id[p] \in attached[p] /\ shm_id[p] \in ready \cup abandoned

\* All contexts in use share one segment, the one the key leads to.
OneSegment ==
  \A p \in Procs : pc[p] \in {"mutex", "setup", "ok", "locked"} => shm_id[p] = key
=============================================================================

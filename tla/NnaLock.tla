------------------------------ MODULE NnaLock ------------------------------
(***************************************************************************)
(* The NNA mutex of the AIP v2.0 driver and the life of its device files:  *)
(* lock, trylock and unlock of IOCTL_NNA_V20_OP, the context lock that     *)
(* borrows the same mutex, open with its reference count, and release,     *)
(* which gives the mutex of an exiting process back and, on the last file, *)
(* asserts that nothing is left.                                           *)
(*                                                                         *)
(* Every file has one thread.  A program that follows the rules locks what *)
(* it does not hold and unlocks what it holds; Faults names the ways to    *)
(* break the rules that a run lets happen.                                 *)
(***************************************************************************)
EXTENDS Integers, Sequences, FiniteSets

CONSTANTS
  Threads,   \* user threads; each has a file of its own open on the device
  PidOf,     \* PidOf[t]: the process of thread t
  NoPid,     \* the value of nna_pid before any lock
  Free,      \* the value of nna_job_lock when it is not held
  Faults     \* which of FaultKinds may happen

\* An unlock without a lock, an unlock with force, a trylock, no memory for
\* the exec info, a process killed between the two context-lock calls.
FaultKinds == {"unlock", "force", "trylock", "nomem", "kill"}

ASSUME NnaAssumption ==
  /\ Faults \subseteq FaultKinds
  /\ IsFiniteSet(Threads)
  /\ Free \notin Threads
  /\ NoPid \notin {PidOf[t] : t \in Threads}

Pids == {PidOf[t] : t \in Threads}

\* Where a thread can be.
Labels == {"closed", "idle", "lock", "relock", "alloc", "ctx", "inctx", "unlock",
           "force", "exit", "put", "bug"}

VARIABLES
  nna_mutex,      \* 1: locked
  nna_pid,        \* the process that locked last; never cleared
  nna_job_list,   \* the processes of the queued exec infos
  nna_job_lock,   \* Free, or the thread that returned without releasing it
  is_ok, ref,     \* device in use, reference count of its files
  pc,             \* where each thread is
  holds,          \* history: threads that were told they have the lock
  leaked,         \* history, 1: the mutex was left locked with no holder
  broken          \* history, 1: a fault has happened

vars == <<nna_mutex, nna_pid, nna_job_list, nna_job_lock, is_ok, ref, pc, holds, leaked, broken>>
mutexVars == <<nna_mutex, nna_pid, nna_job_list, nna_job_lock>>
fileVars  == <<is_ok, ref>>

Init ==
  /\ nna_mutex = 0 /\ nna_pid = NoPid
  /\ nna_job_list = << >> /\ nna_job_lock = Free
  /\ is_ok = 0 /\ ref = 0
  /\ pc = [t \in Threads |-> "closed"]
  /\ holds = {} /\ leaked = 0 /\ broken = 0

Goto(t, l) == pc' = [pc EXCEPT ![t] = l]

-----------------------------------------------------------------------------
(* open                                                                    *)

OpenNoInit(t) == \* mutant: a reopened device keeps its old count
  /\ pc[t] = "closed"
  /\ is_ok' = 1
  /\ ref' = IF is_ok = 0 THEN ref ELSE ref + 1
  /\ Goto(t, "idle")
  /\ UNCHANGED <<mutexVars, holds, leaked, broken>>

\* The whole of open runs under struct_mutex.
open(t) ==
  /\ pc[t] = "closed"
  /\ is_ok' = 1
  /\ ref' = IF is_ok = 0 THEN 1 ELSE ref + 1
  /\ Goto(t, "idle")
  /\ UNCHANGED <<mutexVars, holds, leaked, broken>>

-----------------------------------------------------------------------------
(* NNA_OP_MUTEX_LOCK, NNA_OP_MUTEX_TRYLOCK and AIP_ACTION_CTX_LOCK.        *)

LockCall(t) ==
  /\ pc[t] = "idle" /\ t \notin holds
  /\ Goto(t, "lock")
  /\ UNCHANGED <<mutexVars, fileVars, holds, leaked, broken>>

\* mutex_trylock takes the mutex, then jz_nna_lock asks for it again.  A
\* trylock of a locked mutex fails and changes nothing.
TryLock(t) ==
  /\ "trylock" \in Faults /\ pc[t] = "idle" /\ t \notin holds
  /\ nna_mutex = 0
  /\ nna_mutex' = 1 /\ broken' = 1
  /\ Goto(t, "relock")
  /\ UNCHANGED <<nna_pid, nna_job_list, nna_job_lock, fileVars, holds, leaked>>

\* mutex_lock returns.
MutexLock(t) ==
  /\ pc[t] \in {"lock", "relock"} /\ nna_mutex = 0
  /\ nna_mutex' = 1
  /\ Goto(t, "alloc")
  /\ UNCHANGED <<nna_pid, nna_job_list, nna_job_lock, fileVars, holds, leaked, broken>>

\* No memory for the exec info: an error is returned with the mutex locked.
LockNoMemory(t) ==
  /\ "nomem" \in Faults /\ pc[t] = "alloc"
  /\ leaked' = 1 /\ broken' = 1
  /\ Goto(t, "idle")
  /\ UNCHANGED <<mutexVars, fileVars, holds>>

LockNoPid(t) == \* mutant: the new owner is not recorded
  /\ pc[t] = "alloc" /\ nna_job_lock = Free
  /\ nna_job_list' = Append(nna_job_list, PidOf[t])
  /\ holds' = holds \cup {t}
  /\ Goto(t, "idle")
  /\ UNCHANGED <<nna_mutex, nna_pid, nna_job_lock, fileVars, leaked, broken>>

\* The owner and its exec info are recorded under the spin lock.
jz_nna_lock(t) ==
  /\ pc[t] = "alloc" /\ nna_job_lock = Free
  /\ nna_pid' = PidOf[t]
  /\ nna_job_list' = Append(nna_job_list, PidOf[t])
  /\ holds' = holds \cup {t}
  /\ Goto(t, "idle")
  /\ UNCHANGED <<nna_mutex, nna_job_lock, fileVars, leaked, broken>>

CtxCall(t) ==
  /\ pc[t] = "idle" /\ t \notin holds
  /\ Goto(t, "ctx")
  /\ UNCHANGED <<mutexVars, fileVars, holds, leaked, broken>>

CtxLock(t) ==
  /\ pc[t] = "ctx" /\ nna_mutex = 0
  /\ nna_mutex' = 1
  /\ Goto(t, "inctx")
  /\ UNCHANGED <<nna_pid, nna_job_list, nna_job_lock, fileVars, holds, leaked, broken>>

CtxUnlockNothing(t) == \* mutant: the context lock is not given back
  /\ pc[t] = "inctx"
  /\ Goto(t, "idle")
  /\ UNCHANGED <<mutexVars, fileVars, holds, leaked, broken>>

CtxUnlock(t) ==
  /\ pc[t] = "inctx"
  /\ nna_mutex' = 0
  /\ Goto(t, "idle")
  /\ UNCHANGED <<nna_pid, nna_job_list, nna_job_lock, fileVars, holds, leaked, broken>>

\* The process is killed in iaic_ctx_init before it unlocks: release runs,
\* which knows nothing of the context lock.
KilledInCtx(t) ==
  /\ "kill" \in Faults /\ pc[t] = "inctx"
  /\ leaked' = 1 /\ broken' = 1
  /\ Goto(t, "exit")
  /\ UNCHANGED <<mutexVars, fileVars, holds>>

-----------------------------------------------------------------------------
(* NNA_OP_MUTEX_UNLOCK                                                     *)

\* The owner is compared before the spin lock is taken.
UnlockCheck(t) ==
  /\ pc[t] = "idle"
  /\ t \in holds \/ "unlock" \in Faults
  /\ nna_pid = PidOf[t]
  /\ broken' = IF t \in holds THEN broken ELSE 1
  /\ Goto(t, "unlock")
  /\ UNCHANGED <<mutexVars, fileVars, holds, leaked>>

ForceCheck(t) ==
  /\ "force" \in Faults /\ pc[t] = "idle"
  /\ broken' = 1
  /\ Goto(t, "force")
  /\ UNCHANGED <<mutexVars, fileVars, holds, leaked>>

\* nna_job_list without its first exec info of process p.
WithoutFirst(p) ==
  LET first == CHOOSE i \in DOMAIN nna_job_list :
                 nna_job_list[i] = p /\ \A k \in 1..i - 1 : nna_job_list[k] # p
  IN SubSeq(nna_job_list, 1, first - 1) \o SubSeq(nna_job_list, first + 1, Len(nna_job_list))

Listed(p) == \E i \in DOMAIN nna_job_list : nna_job_list[i] = p

\* Locked: the exec info of nna_pid goes and the mutex with it; without one
\* nothing happens.  Not locked: an error, returned with the spin lock held
\* (a forced unlock returns 0 and releases it).
jz_nna_unlock(t) ==
  /\ pc[t] \in {"unlock", "force"} /\ nna_job_lock = Free
  /\ \/ /\ nna_mutex = 1 /\ Listed(nna_pid)
        /\ nna_job_list' = WithoutFirst(nna_pid)
        /\ nna_mutex' = 0
        /\ UNCHANGED nna_job_lock
     \/ /\ nna_mutex = 1 /\ ~Listed(nna_pid)
        /\ UNCHANGED <<nna_mutex, nna_job_list, nna_job_lock>>
     \/ /\ nna_mutex = 0
        /\ nna_job_lock' = IF pc[t] = "unlock" THEN t ELSE Free
        /\ UNCHANGED <<nna_mutex, nna_job_list>>
  /\ holds' = holds \ {t}
  /\ Goto(t, "idle")
  /\ UNCHANGED <<nna_pid, fileVars, leaked, broken>>

-----------------------------------------------------------------------------
(* release                                                                 *)

ReleaseKeepsMutex(t) == \* mutant: close forgets to unlock
  /\ pc[t] \in {"idle", "exit"} /\ nna_job_lock = Free
  /\ IF Listed(PidOf[t])
     THEN nna_job_list' = WithoutFirst(PidOf[t])
     ELSE UNCHANGED nna_job_list
  /\ holds' = holds \ {t}
  /\ Goto(t, "put")
  /\ UNCHANGED <<nna_mutex, nna_pid, nna_job_lock, fileVars, leaked, broken>>

\* jz_nna_v20_release: give back the mutex if the process has an exec info.
jz_nna_release(t) ==
  /\ pc[t] \in {"idle", "exit"} /\ nna_job_lock = Free
  /\ IF Listed(PidOf[t])
     THEN nna_job_list' = WithoutFirst(PidOf[t]) /\ nna_mutex' = 0
     ELSE UNCHANGED <<nna_job_list, nna_mutex>>
  /\ holds' = holds \ {t}
  /\ Goto(t, "put")
  /\ UNCHANGED <<nna_pid, nna_job_lock, fileVars, leaked, broken>>

\* kref_put_mutex: the last file clears is_ok unless jz_aip_v20_close finds
\* the mutex locked and calls BUG().
kref_put(t) ==
  /\ pc[t] = "put"
  /\ ref' = ref - 1
  /\ IF ref > 1
     THEN Goto(t, "closed") /\ UNCHANGED is_ok
     ELSE IF nna_mutex = 1
          THEN Goto(t, "bug") /\ UNCHANGED is_ok
          ELSE Goto(t, "closed") /\ is_ok' = 0
  /\ UNCHANGED <<mutexVars, holds, leaked, broken>>

-----------------------------------------------------------------------------
InIoctl(t) ==
  MutexLock(t) \/ LockNoMemory(t) \/ jz_nna_lock(t) \/ CtxLock(t) \/ CtxUnlock(t)
  \/ KilledInCtx(t) \/ jz_nna_unlock(t) \/ kref_put(t)

Call(t) ==
  open(t) \/ LockCall(t) \/ TryLock(t) \/ CtxCall(t) \/ UnlockCheck(t) \/ ForceCheck(t)
  \/ jz_nna_release(t)

Next == \E t \in Threads : InIoctl(t) \/ Call(t)

\* A thread inside an ioctl runs on, a waiter that sees the mutex free again
\* and again gets it (waiters queue in order), and a program that has the
\* lock ends up unlocking it.
Fairness ==
  \A t \in Threads :
    /\ WF_vars(InIoctl(t))
    /\ SF_vars(MutexLock(t)) /\ SF_vars(CtxLock(t))
    /\ WF_vars(t \in holds /\ UnlockCheck(t))

Spec == Init /\ [][Next]_vars /\ Fairness
-----------------------------------------------------------------------------
\* Every variable of the NNA lock keeps its type.
TypeOK ==
  /\ nna_mutex \in {0, 1} /\ nna_pid \in Pids \cup {NoPid}
  /\ nna_job_list \in Seq(Pids) /\ nna_job_lock \in Threads \cup {Free}
  /\ is_ok \in {0, 1} /\ ref \in 0..Cardinality(Threads)
  /\ pc \in [Threads -> Labels]
  /\ holds \subseteq Threads /\ {leaked, broken} \subseteq {0, 1}

\* Who answers for the locked mutex: exec infos, threads between taking the
\* mutex and recording it, and a lock nobody can release any more.
Claims ==
  {<<"exec", i>> : i \in DOMAIN nna_job_list}
    \cup {<<"task", t>> : t \in {u \in Threads : pc[u] \in {"relock", "alloc", "inctx"}}}
    \cup {<<"leak", i>> : i \in 1..leaked}

\* In every use, also a faulty one, nna_mutex is locked exactly when one
\* claim on it exists: no unlock path frees the mutex of a second claimant,
\* none forgets the mutex while dropping the exec info.
OneClaim ==
  /\ \A a, b \in Claims : a = b
  /\ nna_mutex = 1 <=> Claims # {}

\* As long as programs follow the rules, one file per process, at most one
\* thread was told that it has the NNA, and then the driver has recorded it.
MutualExclusion ==
  broken = 0 =>
    /\ Cardinality(holds) <= 1
    /\ \A t \in holds : /\ nna_mutex = 1 /\ nna_pid = PidOf[t]
                        /\ nna_job_list = <<PidOf[t]>>

\* The BUG() of jz_aip_v20_close ("AIP has unfinish task, but need close
\* it!") is reached only when the mutex was left with no holder that release
\* could find: by a failed lock call or a process killed between the two
\* context-lock calls.  The reference count that decides it is the number of
\* files opened and not put, and the device is in use exactly while one is
\* open, also when an open races the last close.
\* (With it: every variable has its type.)
NoBug ==
  /\ TypeOK
  /\ \A t \in Threads : pc[t] = "bug" => leaked = 1
  /\ ref = Cardinality({t \in Threads : pc[t] \notin {"closed", "bug"}})
  /\ (\A t \in Threads : pc[t] # "bug") => (is_ok = 1 <=> ref > 0)

\* Every thread that asks for the NNA gets it, although context locks and
\* exiting processes compete for the same mutex, unless a fault happened.
LockGranted == \A t \in Threads : pc[t] = "lock" ~> t \in holds \/ broken = 1
=============================================================================

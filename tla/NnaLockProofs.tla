--------------------------- MODULE NnaLockProofs ---------------------------
(***************************************************************************)
(* Proofs about NnaLock for any number of threads and processes, and for   *)
(* every mixture of the faults.                                            *)
(***************************************************************************)
EXTENDS NnaLock, SequenceTheorems, FiniteSetTheorems, TLAPS

\* The claims of threads that have the mutex and have not recorded it yet.
InTask == {"relock", "alloc", "inctx"}

\* OneClaim without tuples: what each kind of claim excludes.
ClaimInv ==
  /\ nna_job_list \in Seq(Pids)
  /\ nna_mutex \in {0, 1} /\ leaked \in {0, 1}
  /\ pc \in [Threads -> Labels]
  /\ Len(nna_job_list) <= 1
  /\ \A t, u \in Threads : pc[t] \in InTask /\ pc[u] \in InTask => t = u
  /\ nna_job_list # << >> => leaked = 0 /\ \A t \in Threads : pc[t] \notin InTask
  /\ leaked = 1 => \A t \in Threads : pc[t] \notin InTask
  /\ nna_mutex = 1 <=> \/ nna_job_list # << >>
                       \/ leaked = 1
                       \/ \E t \in Threads : pc[t] \in InTask

LEMMA ClaimInit == Init => ClaimInv
  <1>1. Init => nna_job_list \in Seq(Pids) /\ Len(nna_job_list) = 0
    BY EmptySeq DEF Init
  <1>2. Init => \A t \in Threads : pc[t] \notin InTask
    BY DEF Init, InTask
  <1>3. Init => pc \in [Threads -> Labels]
    BY DEF Init, Labels
  <1> QED
    BY <1>1, <1>2, <1>3 DEF Init, ClaimInv

\* A list of at most one entry loses it when its first entry of p is cut.
LEMMA CutSingle ==
  ASSUME nna_job_list \in Seq(Pids), Len(nna_job_list) <= 1, NEW p, Listed(p)
  PROVE  nna_job_list # << >> /\ WithoutFirst(p) = << >>
  <1>1. Len(nna_job_list) \in Nat /\ DOMAIN nna_job_list = 1..Len(nna_job_list)
    BY LenProperties
  <1>2. PICK i \in 1..Len(nna_job_list) : nna_job_list[i] = p
    BY <1>1 DEF Listed
  <1>3. Len(nna_job_list) = 1 /\ nna_job_list[1] = p
    BY <1>1, <1>2
  <1> DEFINE first == CHOOSE k \in DOMAIN nna_job_list :
                        nna_job_list[k] = p /\ \A m \in 1..k - 1 : nna_job_list[m] # p
  <1>4. first = 1
    <2>1. DOMAIN nna_job_list = {1}
      BY <1>1, <1>3
    <2>2. \A m \in 1..1 - 1 : nna_job_list[m] # p
      OBVIOUS
    <2> QED
      BY <1>3, <2>1, <2>2
  <1>5. WithoutFirst(p) = SubSeq(nna_job_list, 1, first - 1)
                            \o SubSeq(nna_job_list, first + 1, Len(nna_job_list))
    BY DEF WithoutFirst
  <1> HIDE DEF first
  <1>6. SubSeq(nna_job_list, 1, 0) = << >> /\ SubSeq(nna_job_list, 2, 1) = << >>
    BY SMT
  <1>7. WithoutFirst(p) = << >> \o << >>
    BY <1>3, <1>4, <1>5, <1>6
  <1>8. << >> \o << >> = << >>
    BY SMT
  <1>9. nna_job_list # << >>
    BY <1>3, EmptySeq
  <1> QED
    BY <1>7, <1>8, <1>9

LEMMA ClaimQuiet ==
  ASSUME ClaimInv, NEW t \in Threads, NEW l \in Labels,
         pc[t] \notin InTask, l \notin InTask, pc' = [pc EXCEPT ![t] = l],
         UNCHANGED <<nna_mutex, nna_job_list, leaked>>
  PROVE  ClaimInv'
  <1>1. pc' \in [Threads -> Labels]
    BY DEF ClaimInv
  <1>2. \A u \in Threads : pc'[u] \in InTask <=> pc[u] \in InTask
    BY DEF ClaimInv
  <1> QED
    BY <1>1, <1>2 DEF ClaimInv

\* Taking the free mutex makes its taker the only claimant.
LEMMA ClaimTake ==
  ASSUME ClaimInv, NEW t \in Threads, NEW l \in InTask, nna_mutex = 0, nna_mutex' = 1,
         pc' = [pc EXCEPT ![t] = l], UNCHANGED <<nna_job_list, leaked>>
  PROVE  ClaimInv'
  <1>1. l \in Labels
    BY DEF InTask, Labels
  <1>2. pc' \in [Threads -> Labels]
    BY <1>1 DEF ClaimInv
  <1>3. \A u \in Threads : pc'[u] \in InTask <=> u = t
    BY DEF ClaimInv
  <1> QED
    BY <1>2, <1>3 DEF ClaimInv

\* The claim of a thread ends, or passes to the exec info or the leak.
LEMMA ClaimPass ==
  ASSUME ClaimInv, NEW t \in Threads, NEW l \in Labels, pc[t] \in InTask, l \notin InTask,
         pc' = [pc EXCEPT ![t] = l],
         \/ nna_mutex' = 0 /\ UNCHANGED <<nna_job_list, leaked>>
         \/ leaked' = 1 /\ UNCHANGED <<nna_mutex, nna_job_list>>
         \/ /\ nna_job_list' = Append(nna_job_list, PidOf[t])
            /\ UNCHANGED <<nna_mutex, leaked>>
  PROVE  ClaimInv'
  <1>1. pc' \in [Threads -> Labels]
    BY DEF ClaimInv
  <1>2. \A u \in Threads : pc'[u] \notin InTask
    BY DEF ClaimInv
  <1>3. nna_job_list = << >> /\ leaked = 0 /\ nna_mutex = 1
    BY DEF ClaimInv
  <1>4. CASE nna_job_list' = Append(nna_job_list, PidOf[t]) /\ UNCHANGED <<nna_mutex, leaked>>
    <2>1. PidOf[t] \in Pids
      BY DEF Pids
    <2>2. /\ nna_job_list' \in Seq(Pids) /\ Len(nna_job_list') = Len(nna_job_list) + 1
          /\ nna_job_list' # << >>
      BY <1>4, <2>1, AppendProperties, EmptySeq DEF ClaimInv
    <2>3. Len(nna_job_list') <= 1
      BY <1>3, <2>2, EmptySeq
    <2>4. leaked' = 0 /\ nna_mutex' = 1
      BY <1>3, <1>4
    <2> QED
      BY <1>1, <1>2, <2>2, <2>3, <2>4 DEF ClaimInv
  <1>5. CASE UNCHANGED nna_job_list
    BY <1>1, <1>2, <1>3, <1>5 DEF ClaimInv
  <1> QED
    BY <1>4, <1>5

\* Cutting the exec info gives the mutex back with it.
LEMMA ClaimCut ==
  ASSUME ClaimInv, NEW t \in Threads, NEW l \in Labels, NEW p, Listed(p),
         pc[t] \notin InTask, l \notin InTask, pc' = [pc EXCEPT ![t] = l],
         nna_job_list' = WithoutFirst(p), nna_mutex' = 0, UNCHANGED leaked
  PROVE  ClaimInv'
  <1>1. pc' \in [Threads -> Labels]
    BY DEF ClaimInv
  <1>2. nna_job_list # << >> /\ nna_job_list' = << >>
    BY CutSingle DEF ClaimInv
  <1>3. leaked = 0 /\ \A u \in Threads : pc'[u] \notin InTask
    BY <1>2 DEF ClaimInv
  <1>4. nna_job_list' \in Seq(Pids) /\ Len(nna_job_list') <= 1
    BY <1>2, EmptySeq
  <1> QED
    BY <1>1, <1>2, <1>3, <1>4 DEF ClaimInv

LEMMA ClaimStep ==
  ASSUME ClaimInv, NEW t \in Threads, InIoctl(t) \/ Call(t)
  PROVE  ClaimInv'
  <1> USE DEF Goto, mutexVars
  <1>1. CASE open(t) \/ LockCall(t) \/ CtxCall(t) \/ UnlockCheck(t) \/ ForceCheck(t) \/ kref_put(t)
    <2>1. PICK l \in {"idle", "lock", "ctx", "unlock", "force", "closed", "bug"} :
            pc' = [pc EXCEPT ![t] = l]
      BY <1>1 DEF open, LockCall, CtxCall, UnlockCheck, ForceCheck, kref_put
    <2>2. pc[t] \notin InTask /\ UNCHANGED <<nna_mutex, nna_job_list, leaked>>
      BY <1>1 DEF open, LockCall, CtxCall, UnlockCheck, ForceCheck, kref_put, InTask
    <2>3. l \in Labels /\ l \notin InTask
      BY <2>1 DEF InTask, Labels
    <2> QED
      BY <2>1, <2>2, <2>3, ClaimQuiet
  <1>2. CASE TryLock(t) \/ MutexLock(t) \/ CtxLock(t)
    <2>1. PICK l \in InTask : pc' = [pc EXCEPT ![t] = l]
      BY <1>2 DEF TryLock, MutexLock, CtxLock, InTask
    <2>2. nna_mutex = 0 /\ nna_mutex' = 1 /\ UNCHANGED <<nna_job_list, leaked>>
      BY <1>2 DEF TryLock, MutexLock, CtxLock
    <2> QED
      BY <2>1, <2>2, ClaimTake
  <1>3. CASE LockNoMemory(t) \/ jz_nna_lock(t) \/ CtxUnlock(t) \/ KilledInCtx(t)
    <2>1. PICK l \in {"idle", "exit"} : pc' = [pc EXCEPT ![t] = l]
      BY <1>3 DEF LockNoMemory, jz_nna_lock, CtxUnlock, KilledInCtx
    <2>2. pc[t] \in InTask
      BY <1>3 DEF LockNoMemory, jz_nna_lock, CtxUnlock, KilledInCtx, InTask
    <2>3. \/ nna_mutex' = 0 /\ UNCHANGED <<nna_job_list, leaked>>
          \/ leaked' = 1 /\ UNCHANGED <<nna_mutex, nna_job_list>>
          \/ /\ nna_job_list' = Append(nna_job_list, PidOf[t])
             /\ UNCHANGED <<nna_mutex, leaked>>
      BY <1>3 DEF LockNoMemory, jz_nna_lock, CtxUnlock, KilledInCtx
    <2>4. l \in Labels /\ l \notin InTask
      BY <2>1 DEF InTask, Labels
    <2> QED
      BY <2>1, <2>2, <2>3, <2>4, ClaimPass
  <1>4. CASE jz_nna_unlock(t) \/ jz_nna_release(t)
    <2>1. PICK l \in {"idle", "put"} : pc' = [pc EXCEPT ![t] = l]
      BY <1>4 DEF jz_nna_unlock, jz_nna_release
    <2>2. pc[t] \notin InTask /\ UNCHANGED leaked
      BY <1>4 DEF jz_nna_unlock, jz_nna_release, InTask
    <2>3. \/ UNCHANGED <<nna_mutex, nna_job_list>>
          \/ \E p \in {nna_pid, PidOf[t]} : /\ Listed(p) /\ nna_job_list' = WithoutFirst(p)
                                            /\ nna_mutex' = 0
      BY <1>4 DEF jz_nna_unlock, jz_nna_release
    <2>4. l \in Labels /\ l \notin InTask
      BY <2>1 DEF InTask, Labels
    <2> QED
      BY <2>1, <2>2, <2>3, <2>4, ClaimQuiet, ClaimCut
  <1> QED
    BY <1>1, <1>2, <1>3, <1>4 DEF InIoctl, Call

LEMMA ClaimAlways == Spec => []ClaimInv
  <1>1. ClaimInv /\ [Next]_vars => ClaimInv'
    <2> SUFFICES ASSUME ClaimInv, [Next]_vars PROVE ClaimInv'
      OBVIOUS
    <2>1. CASE UNCHANGED vars
      BY <2>1 DEF vars, ClaimInv
    <2> QED
      BY <2>1, ClaimStep DEF Next
  <1> QED
    BY <1>1, ClaimInit, PTL DEF Spec

\* The NNA mutex is locked exactly when one claim on it exists, whatever
\* locks, trylocks, forced and repeated unlocks, failed allocations, killed
\* processes and closes do, and in whatever order.
THEOREM OneClaimAlways == Spec => []OneClaim
  <1>2. ClaimInv => OneClaim
    <2> SUFFICES ASSUME ClaimInv PROVE OneClaim
      OBVIOUS
    <2>0. nna_job_list \in Seq(Pids) /\ Len(nna_job_list) <= 1
      BY DEF ClaimInv
    <2>1. Len(nna_job_list) \in Nat /\ DOMAIN nna_job_list = 1..Len(nna_job_list)
          /\ (nna_job_list # << >> <=> Len(nna_job_list) = 1)
      <3>1. Len(nna_job_list) \in Nat /\ DOMAIN nna_job_list = 1..Len(nna_job_list)
        BY <2>0, LenProperties
      <3>2. nna_job_list = << >> <=> Len(nna_job_list) = 0
        BY <2>0, EmptySeq
      <3> QED
        BY <2>0, <3>1, <3>2
    <2> DEFINE Execs == {<<"exec", i>> : i \in DOMAIN nna_job_list}
               Tasks == {<<"task", t>> : t \in {u \in Threads : pc[u] \in InTask}}
               Leaks == {<<"leak", i>> : i \in 1..leaked}
    <2>2. Claims = Execs \cup Tasks \cup Leaks
      BY DEF Claims, InTask
    <2>3. Execs = IF nna_job_list # << >> THEN {<<"exec", 1>>} ELSE {}
      <3>1. CASE nna_job_list # << >>
        <4>1. DOMAIN nna_job_list = {1}
          BY <2>1, <3>1
        <4> QED
          BY <3>1, <4>1
      <3>2. CASE nna_job_list = << >>
        <4>1. DOMAIN nna_job_list = {}
          BY <2>0, <2>1, <3>2
        <4> QED
          BY <3>2, <4>1
      <3> QED
        BY <3>1, <3>2
    <2>4. Leaks = IF leaked = 1 THEN {<<"leak", 1>>} ELSE {}
      <3>1. CASE leaked = 1
        <4>1. 1..leaked = {1}
          BY <3>1
        <4> QED
          BY <3>1, <4>1
      <3>2. CASE leaked = 0
        <4>1. 1..leaked = {}
          BY <3>2
        <4> QED
          BY <3>2, <4>1
      <3> QED
        BY <3>1, <3>2 DEF ClaimInv
    <2>5. \A a, b \in Tasks : a = b
      BY DEF ClaimInv
    <2>6. Tasks # {} <=> \E t \in Threads : pc[t] \in InTask
      OBVIOUS
    <2> HIDE DEF Execs, Tasks, Leaks
    <2>7. nna_job_list # << >> => Leaks = {} /\ Tasks = {}
      BY <2>4, <2>6 DEF ClaimInv
    <2>8. leaked = 1 => Execs = {} /\ Tasks = {}
      BY <2>3, <2>6 DEF ClaimInv
    <2>9. \A a, b \in Claims : a = b
      BY <2>2, <2>3, <2>4, <2>5, <2>7, <2>8
    <2>10. nna_mutex = 1 <=> Claims # {}
      BY <2>2, <2>3, <2>4, <2>6 DEF ClaimInv
    <2> QED
      BY <2>9, <2>10 DEF OneClaim
  <1> QED
    BY <1>2, ClaimAlways, PTL

-----------------------------------------------------------------------------
(* Exclusion, while programs follow the rules and have one file each.      *)

OneFileEach == \A t, u \in Threads : PidOf[t] = PidOf[u] => t = u

\* A thread that was told it has the NNA is recorded as the owner, in the exec
\* info too, and nobody is inside a call that only a fault leads to.
HolderInv ==
  broken = 0 =>
    /\ \A t \in holds : /\ nna_pid = PidOf[t] /\ nna_job_list = <<PidOf[t]>>
                        /\ pc[t] \in {"idle", "unlock"}
    /\ \A t \in Threads : /\ pc[t] = "unlock" => t \in holds
                          /\ pc[t] \notin {"force", "relock"}

ExclusionInv == ClaimInv /\ broken \in {0, 1} /\ holds \subseteq Threads /\ HolderInv

LEMMA ExclusionInit == Init => ExclusionInv
  BY ClaimInit DEF Init, ExclusionInv, HolderInv

\* A call that takes or gives back nothing.
LEMMA HolderQuiet ==
  ASSUME ExclusionInv, NEW t \in Threads, NEW l \in Labels, broken' \in {0, 1},
         broken = 1 => broken' = 1,
         pc' = [pc EXCEPT ![t] = l], UNCHANGED <<nna_pid, nna_job_list, holds>>,
         broken' = 0 => /\ t \notin holds \/ l \in {"idle", "unlock"}
                        /\ l = "unlock" => t \in holds
                        /\ l \notin {"force", "relock"}
  PROVE  broken' \in {0, 1} /\ holds' \subseteq Threads /\ HolderInv'
  <1>1. \A u \in Threads : pc'[u] = IF u = t THEN l ELSE pc[u]
    BY DEF ExclusionInv, ClaimInv
  <1> QED
    BY <1>1 DEF ExclusionInv, HolderInv

LEMMA HolderStep ==
  ASSUME OneFileEach, ExclusionInv, NEW t \in Threads, InIoctl(t) \/ Call(t)
  PROVE  broken' \in {0, 1} /\ holds' \subseteq Threads /\ HolderInv'
  <1> USE DEF Goto, mutexVars, fileVars
  <1>0. /\ ClaimInv /\ broken \in {0, 1} /\ holds \subseteq Threads
        /\ pc \in [Threads -> Labels]
    BY DEF ExclusionInv, ClaimInv
  <1>1. CASE open(t) \/ LockCall(t) \/ CtxCall(t) \/ UnlockCheck(t) \/ ForceCheck(t) \/ kref_put(t)
             \/ TryLock(t) \/ MutexLock(t) \/ CtxLock(t) \/ LockNoMemory(t) \/ CtxUnlock(t)
             \/ KilledInCtx(t)
    <2>1. PICK l \in Labels : pc' = [pc EXCEPT ![t] = l]
      BY <1>1 DEF open, LockCall, CtxCall, UnlockCheck, ForceCheck, kref_put, TryLock, MutexLock,
                  CtxLock, LockNoMemory, CtxUnlock, KilledInCtx, Labels
    <2>2. UNCHANGED <<nna_pid, nna_job_list, holds>>
      BY <1>1 DEF open, LockCall, CtxCall, UnlockCheck, ForceCheck, kref_put, TryLock, MutexLock,
                  CtxLock, LockNoMemory, CtxUnlock, KilledInCtx
    <2>3. broken' \in {0, 1} /\ (broken = 1 => broken' = 1)
      BY <1>0, <1>1 DEF open, LockCall, CtxCall, UnlockCheck, ForceCheck, kref_put, TryLock,
                  MutexLock, CtxLock, LockNoMemory, CtxUnlock, KilledInCtx
    <2>4. l = pc'[t]
      BY <1>0, <2>1
    <2>5. ASSUME broken' = 0
          PROVE  /\ t \notin holds \/ l \in {"idle", "unlock"}
                 /\ l = "unlock" => t \in holds
                 /\ l \notin {"force", "relock"}
      <3>1. broken = 0 /\ (t \in holds => pc[t] \in {"idle", "unlock"})
        BY <1>0, <2>3, <2>5 DEF ExclusionInv, HolderInv
      <3> QED
        BY <1>0, <1>1, <2>4, <2>5, <3>1
           DEF open, LockCall, CtxCall, UnlockCheck, ForceCheck, kref_put, TryLock, MutexLock,
               CtxLock, LockNoMemory, CtxUnlock, KilledInCtx
    <2> QED
      BY <2>1, <2>2, <2>3, <2>5, HolderQuiet
  <1>2. CASE jz_nna_lock(t)
    <2>1. /\ pc[t] = "alloc" /\ nna_pid' = PidOf[t] /\ nna_job_list' = Append(nna_job_list, PidOf[t])
          /\ holds' = holds \cup {t} /\ pc' = [pc EXCEPT ![t] = "idle"] /\ UNCHANGED broken
      BY <1>2 DEF jz_nna_lock
    <2>2. nna_job_list = << >>
      BY <1>0, <2>1 DEF ClaimInv, InTask
    <2>3. nna_job_list' = <<PidOf[t]>>
      BY <2>1, <2>2
    <2>4. broken = 0 => holds = {}
      <3>1. \A u \in holds : nna_job_list = <<PidOf[u]>> => FALSE
        BY <2>2
      <3> QED
        BY <3>1 DEF ExclusionInv, HolderInv
    <2>5. \A u \in Threads : pc'[u] = IF u = t THEN "idle" ELSE pc[u]
      BY <1>0, <2>1
    <2>6. broken = 0 => holds' = {t}
      BY <2>1, <2>4
    <2>7. HolderInv'
      BY <2>1, <2>3, <2>4, <2>5, <2>6 DEF ExclusionInv, HolderInv
    <2> QED
      BY <1>0, <2>1, <2>7
  <1>3. CASE jz_nna_unlock(t)
    <2>1. /\ pc[t] \in {"unlock", "force"} /\ holds' = holds \ {t} /\ pc' = [pc EXCEPT ![t] = "idle"]
          /\ UNCHANGED broken
      BY <1>3 DEF jz_nna_unlock
    <2>2. broken = 0 => t \in holds
      BY <2>1 DEF ExclusionInv, HolderInv
    <2>3. broken = 0 => \A u \in holds : u = t
      BY <1>0, <2>2 DEF ExclusionInv, HolderInv, OneFileEach
    <2>4. \A u \in Threads : pc'[u] = IF u = t THEN "idle" ELSE pc[u]
      BY <1>0, <2>1
    <2>5. broken = 0 => holds' = {}
      BY <2>1, <2>3
    <2>6. HolderInv'
      BY <2>1, <2>3, <2>4, <2>5 DEF ExclusionInv, HolderInv
    <2> QED
      BY <1>0, <2>1, <2>6
  <1>4. CASE jz_nna_release(t)
    <2>1. /\ pc[t] \in {"idle", "exit"} /\ holds' = holds \ {t} /\ pc' = [pc EXCEPT ![t] = "put"]
          /\ UNCHANGED <<broken, nna_pid>>
          /\ ~Listed(PidOf[t]) => UNCHANGED nna_job_list
      BY <1>4 DEF jz_nna_release
    <2>2. \A u \in Threads : pc'[u] = IF u = t THEN "put" ELSE pc[u]
      BY <1>0, <2>1
    <2>3. ASSUME broken = 0, NEW u \in holds, u # t PROVE ~Listed(PidOf[t])
      <3>1. nna_job_list = <<PidOf[u]>> /\ PidOf[u] # PidOf[t]
        BY <1>0, <2>3 DEF ExclusionInv, HolderInv, OneFileEach
      <3> QED
        BY <3>1 DEF Listed
    <2>4. broken = 0 => \A u \in holds' : UNCHANGED nna_job_list
      BY <2>1, <2>3
    <2>5. HolderInv'
      BY <1>0, <2>1, <2>2, <2>4 DEF ExclusionInv, HolderInv
    <2> QED
      BY <1>0, <2>1, <2>5
  <1> QED
    BY <1>1, <1>2, <1>3, <1>4 DEF InIoctl, Call

\* Programs that unlock what they hold, and have one file each, exclude each
\* other: between a successful NNA_OP_MUTEX_LOCK and its unlock nobody else is
\* told that it has the NNA, and the driver names the holder, although context
\* locks and closing files use the same mutex.
THEOREM NnaExcludes ==
  ASSUME OneFileEach
  PROVE  Spec => []MutualExclusion
  <1>1. ExclusionInv /\ [Next]_vars => ExclusionInv'
    <2> SUFFICES ASSUME ExclusionInv, [Next]_vars PROVE ExclusionInv'
      OBVIOUS
    <2>1. CASE UNCHANGED vars
      BY <2>1 DEF vars, ExclusionInv, HolderInv, ClaimInv
    <2>2. ASSUME NEW t \in Threads, InIoctl(t) \/ Call(t) PROVE ExclusionInv'
      <3>1. ClaimInv'
        BY <2>2, ClaimStep DEF ExclusionInv
      <3> QED
        BY <2>2, <3>1, HolderStep DEF ExclusionInv
    <2> QED
      BY <2>1, <2>2 DEF Next
  <1>2. ExclusionInv => MutualExclusion
    <2> SUFFICES ASSUME ExclusionInv, broken = 0
                 PROVE  /\ Cardinality(holds) <= 1
                        /\ \A t \in holds : /\ nna_mutex = 1 /\ nna_pid = PidOf[t]
                                            /\ nna_job_list = <<PidOf[t]>>
      BY DEF MutualExclusion
    <2>1. \A t \in holds : nna_pid = PidOf[t] /\ nna_job_list = <<PidOf[t]>>
      BY DEF ExclusionInv, HolderInv
    <2>2. \A t \in holds : nna_mutex = 1
      <3>1. \A t \in holds : nna_job_list # << >>
        BY <2>1
      <3> QED
        BY <3>1 DEF ExclusionInv, ClaimInv
    <2>3. \A t, u \in holds : t = u
      BY <2>1 DEF ExclusionInv, OneFileEach
    <2>4. Cardinality(holds) <= 1
      <3>1. CASE holds = {}
        BY <3>1, FS_EmptySet
      <3>2. CASE holds # {}
        <4>1. PICK t \in holds : TRUE
          BY <3>2
        <4>2. holds = {t}
          BY <2>3, <4>1
        <4> QED
          BY <4>2, FS_Singleton
      <3> QED
        BY <3>1, <3>2
    <2> QED
      BY <2>1, <2>2, <2>4
  <1> QED
    BY <1>1, <1>2, ExclusionInit, PTL DEF Spec

-----------------------------------------------------------------------------
(* The reference count and the BUG() of the last close.                    *)

OpenFiles == {t \in Threads : pc[t] \notin {"closed", "bug"}}

\* A process with an exec info has a file that is not being closed: release
\* cuts the exec info of its process before the file is put.
ListedIsOpen ==
  nna_job_list # << >> =>
    \E t \in Threads : PidOf[t] = nna_job_list[1] /\ pc[t] \notin {"closed", "put", "bug"}

\* The device is in use while files are open; it stays so after a BUG().
RefInv ==
  /\ ref = Cardinality(OpenFiles) /\ is_ok \in {0, 1}
  /\ is_ok = 0 => ref = 0
  /\ is_ok = 1 /\ ref = 0 => \E t \in Threads : pc[t] = "bug"

BugInv ==
  /\ TypeOK /\ ClaimInv /\ ListedIsOpen /\ RefInv
  /\ \A t \in Threads : pc[t] = "bug" => leaked = 1

LEMMA OpenFinite ==
  ASSUME pc \in [Threads -> Labels]
  PROVE  /\ IsFiniteSet(OpenFiles) /\ Cardinality(OpenFiles) \in 0..Cardinality(Threads)
         /\ Cardinality(OpenFiles) = 0 <=> OpenFiles = {}
  <1>1. OpenFiles \in SUBSET Threads
    BY DEF OpenFiles
  <1>2. IsFiniteSet(OpenFiles) /\ Cardinality(OpenFiles) <= Cardinality(Threads)
    BY <1>1, FS_Subset, NnaAssumption
  <1>3. Cardinality(OpenFiles) \in Nat /\ Cardinality(Threads) \in Nat
    BY <1>2, FS_CardinalityType, NnaAssumption
  <1> QED
    BY <1>2, <1>3, FS_EmptySet

LEMMA BugInit == Init => BugInv
  <1> SUFFICES ASSUME Init PROVE BugInv
    OBVIOUS
  <1>1. pc \in [Threads -> Labels] /\ ClaimInv
    BY ClaimInit DEF ClaimInv
  <1>2. OpenFiles = {}
    BY DEF Init, OpenFiles
  <1>3. ref = Cardinality(OpenFiles) /\ Cardinality(OpenFiles) \in 0..Cardinality(Threads)
    BY <1>1, <1>2, OpenFinite DEF Init
  <1>4. TypeOK
    BY <1>1, <1>3 DEF Init, TypeOK, ClaimInv
  <1>5. \A t \in Threads : pc[t] # "bug"
    BY DEF Init
  <1> QED
    BY <1>1, <1>3, <1>4, <1>5 DEF Init, BugInv, RefInv, ListedIsOpen

\* Steps of an open file that stays open and leaves the list alone.
LEMMA BugQuiet ==
  ASSUME BugInv, NEW t \in Threads, NEW l \in Labels \ {"closed", "put", "bug"},
         pc[t] \notin {"closed", "put", "bug"}, pc' = [pc EXCEPT ![t] = l],
         leaked = 1 => leaked' = 1, UNCHANGED <<nna_job_list, is_ok, ref>>
  PROVE  /\ ListedIsOpen' /\ RefInv'
         /\ \A u \in Threads : pc'[u] = "bug" => leaked' = 1
  <1>1. pc \in [Threads -> Labels]
    BY DEF BugInv, TypeOK
  <1>2. \A u \in Threads : pc'[u] = IF u = t THEN l ELSE pc[u]
    BY <1>1
  <1>3. OpenFiles' = OpenFiles
    BY <1>2 DEF OpenFiles
  <1>4. ListedIsOpen'
    BY <1>2 DEF BugInv, ListedIsOpen
  <1>5. \A u \in Threads : pc'[u] = "bug" <=> pc[u] = "bug"
    BY <1>2
  <1> QED
    BY <1>3, <1>4, <1>5 DEF BugInv, RefInv

LEMMA BugStep ==
  ASSUME BugInv, NEW t \in Threads, InIoctl(t) \/ Call(t)
  PROVE  BugInv'
  <1> USE DEF Goto, mutexVars, fileVars
  <1>0. /\ pc \in [Threads -> Labels] /\ ClaimInv /\ ClaimInv' /\ leaked \in {0, 1}
        /\ nna_job_list \in Seq(Pids) /\ PidOf[t] \in Pids
    BY ClaimStep DEF BugInv, ClaimInv, Pids
  <1>1. pc' \in [Threads -> Labels] /\ nna_job_list' \in Seq(Pids)
    BY <1>0 DEF ClaimInv
  <1>2. /\ nna_pid' \in Pids \cup {NoPid} /\ nna_job_lock' \in Threads \cup {Free}
        /\ holds' \subseteq Threads /\ broken' \in {0, 1}
        /\ nna_mutex' \in {0, 1} /\ leaked' \in {0, 1}
    <2>1. /\ nna_pid \in Pids \cup {NoPid} /\ nna_job_lock \in Threads \cup {Free}
          /\ holds \subseteq Threads /\ broken \in {0, 1}
      BY DEF BugInv, TypeOK
    <2>2. nna_pid' \in {nna_pid, PidOf[t]} /\ nna_job_lock' \in {nna_job_lock, t, Free}
          /\ holds' \in {holds, holds \cup {t}, holds \ {t}} /\ broken' \in {broken, 1}
      BY DEF InIoctl, Call, open, LockCall, CtxCall, UnlockCheck, ForceCheck, kref_put, TryLock,
             MutexLock, CtxLock, LockNoMemory, CtxUnlock, KilledInCtx, jz_nna_lock,
             jz_nna_unlock, jz_nna_release
    <2> QED
      BY <1>0, <2>1, <2>2 DEF ClaimInv
  <1>3. ASSUME ListedIsOpen', RefInv', \A u \in Threads : pc'[u] = "bug" => leaked' = 1
        PROVE  BugInv'
    <2>1. OpenFiles' \in SUBSET Threads
      BY DEF OpenFiles
    <2>2. Cardinality(OpenFiles') \in 0..Cardinality(Threads)
      <3>1. IsFiniteSet(OpenFiles') /\ Cardinality(OpenFiles') <= Cardinality(Threads)
        BY <2>1, FS_Subset, NnaAssumption
      <3> QED
        BY <3>1, FS_CardinalityType, NnaAssumption
    <2> QED
      BY <1>0, <1>1, <1>2, <1>3, <2>2 DEF BugInv, TypeOK, RefInv
  <1>4. CASE LockCall(t) \/ CtxCall(t) \/ UnlockCheck(t) \/ ForceCheck(t) \/ TryLock(t)
             \/ MutexLock(t) \/ CtxLock(t) \/ LockNoMemory(t) \/ CtxUnlock(t) \/ KilledInCtx(t)
    <2>1. /\ pc[t] \notin {"closed", "put", "bug"} /\ (leaked = 1 => leaked' = 1)
          /\ UNCHANGED <<nna_job_list, is_ok, ref>>
      BY <1>4 DEF LockCall, CtxCall, UnlockCheck, ForceCheck, TryLock, MutexLock, CtxLock,
                  LockNoMemory, CtxUnlock, KilledInCtx
    <2>2. PICK l \in Labels \ {"closed", "put", "bug"} : pc' = [pc EXCEPT ![t] = l]
      BY <1>4 DEF LockCall, CtxCall, UnlockCheck, ForceCheck, TryLock, MutexLock, CtxLock,
                  LockNoMemory, CtxUnlock, KilledInCtx, Labels
    <2> QED
      BY <1>3, <2>1, <2>2, BugQuiet
  <1>5. CASE open(t)
    <2>1. /\ pc[t] = "closed" /\ is_ok' = 1 /\ ref' = (IF is_ok = 0 THEN 1 ELSE ref + 1)
          /\ pc' = [pc EXCEPT ![t] = "idle"] /\ UNCHANGED <<nna_job_list, leaked>>
      BY <1>5 DEF open
    <2>2. \A u \in Threads : pc'[u] = IF u = t THEN "idle" ELSE pc[u]
      BY <1>0, <2>1
    <2>3. OpenFiles' = OpenFiles \cup {t} /\ t \notin OpenFiles
      BY <2>1, <2>2 DEF OpenFiles
    <2>4. Cardinality(OpenFiles') = Cardinality(OpenFiles) + 1
      BY <1>0, <2>3, OpenFinite, FS_AddElement
    <2>5. ref' = Cardinality(OpenFiles') /\ ref' # 0
      BY <1>0, <2>1, <2>4, OpenFinite DEF BugInv, RefInv
    <2>6. RefInv'
      BY <2>1, <2>5 DEF RefInv
    <2>7. ListedIsOpen'
      BY <2>1, <2>2 DEF BugInv, ListedIsOpen
    <2>8. \A u \in Threads : pc'[u] = "bug" => leaked' = 1
      BY <2>1, <2>2 DEF BugInv
    <2> QED
      BY <1>3, <2>6, <2>7, <2>8
  <1>6. CASE jz_nna_lock(t)
    <2>1. /\ pc[t] = "alloc" /\ nna_job_list' = Append(nna_job_list, PidOf[t])
          /\ pc' = [pc EXCEPT ![t] = "idle"] /\ UNCHANGED <<is_ok, ref, leaked>>
      BY <1>6 DEF jz_nna_lock
    <2>2. \A u \in Threads : pc'[u] = IF u = t THEN "idle" ELSE pc[u]
      BY <1>0, <2>1
    <2>3. OpenFiles' = OpenFiles
      BY <2>1, <2>2 DEF OpenFiles
    <2>4. nna_job_list = << >>
      BY <1>0, <2>1 DEF ClaimInv, InTask
    <2>5. nna_job_list'[1] = PidOf[t]
      BY <2>1, <2>4
    <2>6. ListedIsOpen'
      BY <2>2, <2>5 DEF ListedIsOpen
    <2>7. \A u \in Threads : pc'[u] = "bug" <=> pc[u] = "bug"
      BY <2>1, <2>2
    <2>8. RefInv' /\ \A u \in Threads : pc'[u] = "bug" => leaked' = 1
      BY <2>1, <2>3, <2>7 DEF BugInv, RefInv
    <2> QED
      BY <1>3, <2>6, <2>8
  <1>7. CASE jz_nna_unlock(t) \/ jz_nna_release(t)
    <2>1. PICK l \in {"idle", "put"} : pc' = [pc EXCEPT ![t] = l]
      BY <1>7 DEF jz_nna_unlock, jz_nna_release
    <2>2. /\ pc[t] \in {"idle", "exit", "unlock", "force"} /\ UNCHANGED <<is_ok, ref, leaked>>
          /\ \/ \E p \in {nna_pid, PidOf[t]} : Listed(p) /\ nna_job_list' = WithoutFirst(p)
             \/ UNCHANGED nna_job_list /\ (jz_nna_release(t) => ~Listed(PidOf[t]))
      BY <1>7 DEF jz_nna_unlock, jz_nna_release
    <2>3. \A u \in Threads : pc'[u] = IF u = t THEN l ELSE pc[u]
      BY <1>0, <2>1
    <2>4. OpenFiles' = OpenFiles
      BY <2>2, <2>3 DEF OpenFiles
    <2>5. \A u \in Threads : pc'[u] = "bug" <=> pc[u] = "bug"
      BY <2>2, <2>3
    <2>6. ListedIsOpen'
      <3>1. CASE \E p \in {nna_pid, PidOf[t]} : Listed(p) /\ nna_job_list' = WithoutFirst(p)
        <4>1. nna_job_list' = << >>
          BY <1>0, <3>1, CutSingle DEF ClaimInv
        <4> QED
          BY <4>1 DEF ListedIsOpen
      <3>2. CASE UNCHANGED nna_job_list /\ (jz_nna_release(t) => ~Listed(PidOf[t]))
        <4>1. SUFFICES ASSUME nna_job_list # << >>
                       PROVE  \E u \in Threads : /\ PidOf[u] = nna_job_list[1]
                                                 /\ pc'[u] \notin {"closed", "put", "bug"}
          BY <3>2 DEF ListedIsOpen
        <4>2. PICK u \in Threads : PidOf[u] = nna_job_list[1] /\ pc[u] \notin {"closed", "put", "bug"}
          BY <4>1 DEF BugInv, ListedIsOpen
        <4>3. Len(nna_job_list) # 0 /\ Len(nna_job_list) \in Nat
              /\ DOMAIN nna_job_list = 1..Len(nna_job_list)
          BY <1>0, <4>1, EmptySeq, LenProperties
        <4>4. 1 \in DOMAIN nna_job_list
          BY <4>3
        <4>5. Listed(PidOf[u])
          BY <4>2, <4>4 DEF Listed
        <4>6. CASE u # t
          BY <2>3, <4>2, <4>6
        <4>7. CASE u = t
          <5>1. jz_nna_unlock(t)
            BY <1>7, <3>2, <4>5, <4>7
          <5>2. pc'[t] = "idle"
            BY <1>0, <5>1 DEF jz_nna_unlock
          <5> QED
            BY <4>2, <4>7, <5>2
        <4> QED
          BY <4>6, <4>7
      <3> QED
        BY <2>2, <3>1, <3>2
    <2>7. RefInv' /\ \A u \in Threads : pc'[u] = "bug" => leaked' = 1
      BY <2>2, <2>4, <2>5 DEF BugInv, RefInv
    <2> QED
      BY <1>3, <2>6, <2>7
  <1>8. CASE kref_put(t)
    <2>1. /\ pc[t] = "put" /\ ref' = ref - 1 /\ UNCHANGED <<nna_job_list, leaked, nna_mutex>>
          /\ \/ ref > 1 /\ pc' = [pc EXCEPT ![t] = "closed"] /\ UNCHANGED is_ok
             \/ ~(ref > 1) /\ nna_mutex = 1 /\ pc' = [pc EXCEPT ![t] = "bug"] /\ UNCHANGED is_ok
             \/ ~(ref > 1) /\ nna_mutex # 1 /\ pc' = [pc EXCEPT ![t] = "closed"] /\ is_ok' = 0
      BY <1>8 DEF kref_put
    <2>2. PICK l \in {"closed", "bug"} : pc' = [pc EXCEPT ![t] = l]
      BY <2>1
    <2>3. \A u \in Threads : pc'[u] = IF u = t THEN l ELSE pc[u]
      BY <1>0, <2>2
    <2>4. OpenFiles' = OpenFiles \ {t} /\ t \in OpenFiles
      BY <2>1, <2>3 DEF OpenFiles
    <2>5. Cardinality(OpenFiles') = Cardinality(OpenFiles) - 1
      BY <1>0, <2>4, OpenFinite, FS_RemoveElement
    <2>6. ref \in Nat /\ ref # 0 /\ ref' = Cardinality(OpenFiles')
      BY <1>0, <2>1, <2>4, <2>5, OpenFinite DEF BugInv, RefInv
    <2>7. ListedIsOpen'
      BY <2>1, <2>3 DEF BugInv, ListedIsOpen
    <2>8. CASE ref > 1
      <3>1. is_ok' = is_ok /\ ref' # 0 /\ l = "closed"
        BY <1>0, <2>1, <2>2, <2>6, <2>8
      <3>2. RefInv'
        BY <2>6, <3>1 DEF BugInv, RefInv
      <3>3. \A u \in Threads : pc'[u] = "bug" => leaked' = 1
        BY <2>1, <2>3, <3>1 DEF BugInv
      <3> QED
        BY <1>3, <2>7, <3>2, <3>3
    <2>9. CASE ref = 1 /\ nna_mutex = 1
      <3>1. is_ok' = is_ok /\ ref' = 0 /\ l = "bug"
        BY <1>0, <2>1, <2>2, <2>6, <2>9
      <3>2. OpenFiles' = {}
        <4>1. OpenFiles' \in SUBSET Threads
          BY DEF OpenFiles
        <4>2. IsFiniteSet(OpenFiles')
          BY <4>1, FS_Subset, NnaAssumption
        <4> QED
          BY <2>6, <3>1, <4>2, FS_EmptySet
      <3>3. \A u \in Threads : pc[u] \in {"closed", "bug"} \/ u = t
        BY <2>3, <3>2 DEF OpenFiles
      <3>4. \A u \in Threads : pc[u] \notin InTask
        BY <2>1, <3>3 DEF InTask
      <3>5. nna_job_list = << >>
        BY <2>1, <3>3 DEF BugInv, ListedIsOpen
      <3>6. leaked' = 1
        BY <1>0, <2>1, <2>9, <3>4, <3>5 DEF ClaimInv
      <3>7. RefInv'
        <4>1. pc'[t] = "bug"
          BY <2>3, <3>1
        <4> QED
          BY <1>0, <2>6, <3>1, <4>1 DEF BugInv, RefInv
      <3> QED
        BY <1>3, <2>7, <3>6, <3>7
    <2>10. CASE ref = 1 /\ nna_mutex # 1
      <3>1. is_ok' = 0 /\ ref' = 0 /\ l = "closed"
        BY <1>0, <2>1, <2>2, <2>6, <2>10
      <3>2. RefInv'
        BY <2>6, <3>1 DEF RefInv
      <3>3. \A u \in Threads : pc'[u] = "bug" => leaked' = 1
        BY <2>1, <2>3, <3>1 DEF BugInv
      <3> QED
        BY <1>3, <2>7, <3>2, <3>3
    <2> QED
      BY <2>6, <2>8, <2>9, <2>10
  <1> QED
    BY <1>4, <1>5, <1>6, <1>7, <1>8 DEF InIoctl, Call

\* The count of jz_aip_v20_open and jz_aip_v20_release is the number of open
\* files, the device is in use exactly while there are some, and the last
\* close reaches BUG() only over a mutex left by a lock call that found no
\* memory or by a process killed between the context-lock calls: whatever
\* else programs do, release finds and gives back the mutex of its process.
THEOREM NnaNoBug == Spec => []NoBug
  <1>1. BugInv /\ [Next]_vars => BugInv'
    <2> SUFFICES ASSUME BugInv, [Next]_vars PROVE BugInv'
      OBVIOUS
    <2>1. CASE UNCHANGED vars
      BY <2>1 DEF vars, BugInv, TypeOK, ClaimInv, ListedIsOpen, RefInv, OpenFiles
    <2> QED
      BY <2>1, BugStep DEF Next
  <1>2. BugInv => NoBug
    <2> SUFFICES ASSUME BugInv PROVE NoBug
      OBVIOUS
    <2>1. ref = Cardinality({t \in Threads : pc[t] \notin {"closed", "bug"}})
      BY DEF BugInv, RefInv, OpenFiles
    <2>2. ref \in Nat
      BY OpenFinite DEF BugInv, RefInv, TypeOK
    <2> QED
      BY <2>1, <2>2 DEF BugInv, RefInv, NoBug
  <1> QED
    BY <1>1, <1>2, BugInit, PTL DEF Spec
=============================================================================

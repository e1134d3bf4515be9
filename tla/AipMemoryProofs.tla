-------------------------- MODULE AipMemoryProofs --------------------------
(***************************************************************************)
(* Kernel buffer objects and ORAM, for any number of processes, files and  *)
(* units.  Every allocated ORAM unit has exactly one owner, with files     *)
(* inherited over fork and with any pid namespaces; and if no open file is *)
(* shared between processes, the buffers of a queued job exist and the     *)
(* last close finds nothing left.                                          *)
(***************************************************************************)
EXTENDS AipMemory, ListProofs

\* A file that no call is using has no allocation, submission or cleanup
\* under way, and a file that is used has at most one of the three.
UseInv ==
  /\ user \in [Files -> Procs \cup {NoProc}]
  /\ rel \in [Files -> {"none", "jobs", "bos", "oram", "put"}]
  /\ DOMAIN taken = Files /\ DOMAIN sub = Files
  /\ \A f \in Files :
       /\ user[f] = NoProc => taken[f] = {} /\ sub[f] = 0 /\ rel[f] = "none"
       /\ taken[f] # {} => sub[f] = 0 /\ rel[f] = "none"
       /\ sub[f] # 0 => rel[f] = "none"

\* OramExact, unit by unit.
Covered ==
  /\ \A o \in oram_handles : o.units \subseteq oram_pool
  /\ \A f \in Files : taken[f] \subseteq oram_pool
  /\ \A u \in oram_pool :
       (\E o \in oram_handles : u \in o.units) \/ (\E f \in Files : u \in taken[f])

Apart ==
  /\ \A o1, o2 \in oram_handles : o1 # o2 => o1.units \cap o2.units = {}
  /\ \A o \in oram_handles, f \in Files : o.units \cap taken[f] = {}
  /\ \A f, g \in Files : f # g => taken[f] \cap taken[g] = {}

OramInv == UseInv /\ Covered /\ Apart

\* Nothing changes for ORAM while its variables and the use of files do not.
LEMMA OramStutter ==
  ASSUME Covered, Apart, UNCHANGED <<oramVars, taken>>
  PROVE  Covered' /\ Apart'
BY DEF Covered, Apart, oramVars

\* At the start nothing is allocated.
LEMMA InitInv == Init => OramInv
BY MemoryAssumption DEF Init, OramInv, UseInv, Covered, Apart

\* Every call keeps the use of files in order.
LEMMA UseStep == UseInv /\ [Next]_vars => UseInv'
<1> SUFFICES ASSUME UseInv, [Next]_vars PROVE UseInv'
  OBVIOUS
<1> USE MemoryAssumption DEF UseInv, Ready, Enter, Leave, Goto, fileVars, boVars, jobVars
<1>1. CASE UNCHANGED vars
  BY <1>1 DEF vars
<1>2. CASE JobDone
  BY <1>2 DEF JobDone
<1>3. ASSUME NEW p \in Procs, NEW q \in Procs, fork(p, q) PROVE UseInv'
  BY <1>3 DEF fork
<1>4. ASSUME NEW p \in Procs, NEW f \in Files, Use(p, f) PROVE UseInv'
  <2>1. CASE open(p, f)
    BY <2>1 DEF open
  <2>2. CASE bo_append(p, f)
    BY <2>2 DEF bo_append
  <2>3. CASE close(p, f)
    BY <2>3 DEF close
  <2>4. ASSUME NEW h \in held[f], bo_destroy(p, f, h) PROVE UseInv'
    BY <2>4 DEF bo_destroy
  <2>5. ASSUME NEW h \in held[f], SubmitFind(p, f, h) PROVE UseInv'
    BY <2>5 DEF SubmitFind
  <2>6. ASSUME NEW n \in 1..Units, OramTake(p, f, n) PROVE UseInv'
    BY <2>6 DEF OramTake
  <2>7. ASSUME NEW o \in oram_handles, OramFree(p, f, o) PROVE UseInv'
    BY <2>7 DEF OramFree
  <2> QED
    BY <1>4, <2>1, <2>2, <2>3, <2>4, <2>5, <2>6, <2>7 DEF Use
<1>5. ASSUME NEW f \in Files, Finish(f) PROVE UseInv'
  <2>1. CASE SubmitQueue(f)
    BY <2>1 DEF SubmitQueue
  <2>2. CASE OramHandle(f)
    BY <2>2 DEF OramHandle
  <2>3. CASE ReleaseJobs(f)
    BY <2>3 DEF ReleaseJobs
  <2>4. CASE bo_release(f)
    BY <2>4 DEF bo_release
  <2>5. CASE oram_release(f)
    BY <2>5 DEF oram_release
  <2>6. CASE put(f)
    BY <2>6 DEF put
  <2> QED
    BY <1>5, <2>1, <2>2, <2>3, <2>4, <2>5, <2>6 DEF Finish
<1> QED
  BY <1>1, <1>2, <1>3, <1>4, <1>5 DEF Next

\* What gen_pool_best_fit picks is free and inside the pool.
LEMMA GapTaken ==
  ASSUME NEW p \in Procs, NEW f \in Files, NEW n \in 1..Units, OramTake(p, f, n)
  PROVE  \E U \in SUBSET (1..Units) : /\ U \cap oram_pool = {}
                                     /\ oram_pool' = oram_pool \cup U
                                     /\ taken' = [taken EXCEPT ![f] = U]
<1>1. PICK g \in Gaps : /\ g[1] + n - 1 <= g[2]
                        /\ oram_pool' = oram_pool \cup g[1]..g[1] + n - 1
                        /\ taken' = [taken EXCEPT ![f] = g[1]..g[1] + n - 1]
  BY DEF OramTake, BestFit
<1>2. g[1] \in 1..Units /\ g[2] \in 1..Units /\ g[1]..g[2] \cap oram_pool = {}
  BY <1>1 DEF Gaps
<1>3. g[1]..g[1] + n - 1 \subseteq g[1]..g[2] /\ g[1]..g[2] \subseteq 1..Units
  BY <1>1, <1>2, MemoryAssumption
<1> DEFINE U == g[1]..g[1] + n - 1
<1>4. U \in SUBSET (1..Units) /\ U \cap oram_pool = {}
  BY <1>2, <1>3
<1> QED
  BY <1>1, <1>4

\* An allocation takes units that nobody has.
LEMMA TakeStep ==
  ASSUME NEW p \in Procs, NEW f \in Files, NEW n \in 1..Units, OramInv, OramTake(p, f, n)
  PROVE  Covered' /\ Apart'
<1>1. PICK U : /\ U \cap oram_pool = {}
               /\ oram_pool' = oram_pool \cup U
               /\ taken' = [taken EXCEPT ![f] = U]
  BY GapTaken
<1>2. taken[f] = {} /\ oram_handles' = oram_handles /\ DOMAIN taken = Files
  BY DEF OramTake, OramInv, UseInv, Ready
<1>3. /\ taken'[f] = U
      /\ \A g \in Files \ {f} : taken'[g] = taken[g]
  BY <1>1, <1>2
<1>4. Covered'
  BY <1>1, <1>2, <1>3 DEF OramInv, Covered
<1>5. Apart'
  BY <1>1, <1>2, <1>3 DEF OramInv, Covered, Apart
<1> QED
  BY <1>4, <1>5

\* The units get a handle, or go back.
LEMMA HandleStep ==
  ASSUME NEW f \in Files, OramInv, OramHandle(f)
  PROVE  Covered' /\ Apart'
<1> DEFINE r == [handle |-> idr_alloc(1, {o.handle : o \in oram_handles}),
                 pid |-> Vnr[user[f]], units |-> taken[f]]
<1>1. /\ taken'[f] = {}
      /\ \A g \in Files \ {f} : taken'[g] = taken[g]
  BY DEF OramHandle, OramInv, UseInv
<1>2. r.units = taken[f]
  OBVIOUS
<1>3. \/ oram_handles' = oram_handles \cup {r} /\ oram_pool' = oram_pool
      \/ oram_pool' = oram_pool \ taken[f] /\ oram_handles' = oram_handles
  BY DEF OramHandle
<1> HIDE DEF r
<1>4. CASE oram_pool' = oram_pool \ taken[f] /\ oram_handles' = oram_handles
  BY <1>1, <1>4 DEF OramInv, Covered, Apart
<1>5. CASE oram_handles' = oram_handles \cup {r} /\ oram_pool' = oram_pool
  BY <1>1, <1>2, <1>5 DEF OramInv, Covered, Apart
<1> QED
  BY <1>3, <1>4, <1>5

\* Handles go with exactly their units: one in OramFree, those of a pid in
\* oram_release.
LEMMA FreeStep ==
  ASSUME NEW own \in SUBSET oram_handles, OramInv, UNCHANGED taken,
         oram_handles' = oram_handles \ own,
         oram_pool' = oram_pool \ UNION {o.units : o \in own}
  PROVE  Covered' /\ Apart'
<1>1. Covered'
  BY DEF OramInv, Covered, Apart
<1>2. Apart'
  BY DEF OramInv, Apart
<1> QED
  BY <1>1, <1>2

\* Every step keeps the invariant.
LEMMA OramStep == OramInv /\ [Next]_vars => OramInv'
<1> SUFFICES ASSUME OramInv, [Next]_vars PROVE Covered' /\ Apart'
  BY UseStep DEF OramInv
<1> USE OramStutter DEF OramInv, fileVars, boVars, jobVars, oramVars
<1>1. CASE UNCHANGED vars
  BY <1>1 DEF vars
<1>2. CASE JobDone
  BY <1>2 DEF JobDone
<1>3. ASSUME NEW p \in Procs, NEW q \in Procs, fork(p, q) PROVE Covered' /\ Apart'
  BY <1>3 DEF fork
<1>4. ASSUME NEW p \in Procs, NEW f \in Files, Use(p, f) PROVE Covered' /\ Apart'
  <2>1. CASE open(p, f) \/ bo_append(p, f) \/ close(p, f)
    BY <2>1 DEF open, bo_append, close
  <2>2. ASSUME NEW h \in held[f], bo_destroy(p, f, h) \/ SubmitFind(p, f, h)
        PROVE  Covered' /\ Apart'
    BY <2>2 DEF bo_destroy, SubmitFind
  <2>3. ASSUME NEW n \in 1..Units, OramTake(p, f, n) PROVE Covered' /\ Apart'
    BY <2>3, TakeStep
  <2>4. ASSUME NEW o \in oram_handles, OramFree(p, f, o) PROVE Covered' /\ Apart'
    <3>1. /\ oram_pool' = oram_pool \ UNION {x.units : x \in {o}}
          /\ oram_handles' = oram_handles \ {o} /\ UNCHANGED taken
      BY <2>4 DEF OramFree
    <3> QED
      BY <3>1, FreeStep
  <2> QED
    BY <1>4, <2>1, <2>2, <2>3, <2>4 DEF Use
<1>5. ASSUME NEW f \in Files, Finish(f) PROVE Covered' /\ Apart'
  <2>1. CASE SubmitQueue(f) \/ ReleaseJobs(f) \/ bo_release(f) \/ put(f)
    BY <2>1 DEF SubmitQueue, ReleaseJobs, bo_release, put
  <2>2. CASE OramHandle(f)
    BY <2>2, HandleStep
  <2>3. CASE oram_release(f)
    <3> DEFINE own == {o \in oram_handles : o.pid = Vnr[user[f]]}
    <3>1. /\ oram_pool' = oram_pool \ UNION {o.units : o \in own}
          /\ oram_handles' = oram_handles \ own /\ UNCHANGED taken
      BY <2>3 DEF oram_release
    <3> QED
      BY <3>1, FreeStep
  <2> QED
    BY <1>5, <2>1, <2>2, <2>3 DEF Finish
<1> QED
  BY <1>1, <1>2, <1>3, <1>4, <1>5 DEF Next

\* Every allocated ORAM unit belongs to one handle or to one allocation under
\* way: jz_nna_v20_op and jz_nna_v20_release neither lose units nor give one
\* out twice, whoever calls them in whatever order.
THEOREM OramAccounted == Spec => []OramExact
<1>1. OramInv => OramExact
  <2> SUFFICES ASSUME OramInv
               PROVE  oram_pool = (UNION {o.units : o \in oram_handles})
                                    \cup (UNION {taken[f] : f \in Files})
    BY DEF OramInv, Apart, OramExact
  <2> QED
    BY DEF OramInv, Covered
<1> QED
  BY <1>1, InitInv, OramStep, PTL DEF Spec

-----------------------------------------------------------------------------
(* Types: handles never run out before their bound.                        *)

\* The number that idr_alloc gives is not in use.
LEMMA IdrAlloc ==
  ASSUME NEW used, IsFiniteSet(used)
  PROVE  idr_alloc(1, used) \in 1..1 + Cardinality(used) /\ idr_alloc(1, used) \notin used
<1>1. \E h \in 1..1 + Cardinality(used) : h \notin used /\ \A k \in 1..h - 1 : k \in used
  BY FreeNumber
<1> QED
  BY <1>1 DEF idr_alloc

BoNumbers == {b.handle : b \in bo_handles}
OramNumbers == {o.handle : o \in oram_handles}

\* Handles are unique, at most one per BO created, and every ORAM handle has
\* units.
HandleInv ==
  /\ IsFiniteSet(BoNumbers) /\ Cardinality(BoNumbers) <= bos
  /\ \A b, c \in bo_handles : b.handle = c.handle => b = c
  /\ \A o1, o2 \in oram_handles : o1.handle = o2.handle => o1 = o2
  /\ \A o \in oram_handles : o.units # {}

MemInv == TypeOK /\ OramInv /\ HandleInv

\* While an allocation has units and no handle, fewer handles than units are
\* in use.
LEMMA OramNumberLeft ==
  ASSUME MemInv, NEW f \in Files, taken[f] # {}
  PROVE  /\ IsFiniteSet(OramNumbers)
         /\ Cardinality(OramNumbers) <= Units - 1
<1> DEFINE G(h) == CHOOSE u : \E o \in oram_handles : o.handle = h /\ u \in o.units
           g == [h \in OramNumbers |-> G(h)]
<1>1. PICK x : x \in taken[f]
  OBVIOUS
<1> DEFINE T == (1..Units) \ {x}
<1>2. Units \in Nat /\ x \in 1..Units
  BY <1>1, MemoryAssumption DEF MemInv, TypeOK
<1>3. IsFiniteSet(T) /\ Cardinality(T) = Units - 1
  <2>1. IsFiniteSet(1..Units) /\ Cardinality(1..Units) = Units
    BY <1>2, FS_Interval
  <2> QED
    BY <1>2, <2>1, FS_RemoveElement
<1>4. ASSUME NEW h \in OramNumbers
      PROVE  \E o \in oram_handles : o.handle = h /\ G(h) \in o.units
  <2>1. \E o \in oram_handles : o.handle = h /\ o.units # {}
    BY DEF MemInv, HandleInv, OramNumbers
  <2>2. \E u : \E o \in oram_handles : o.handle = h /\ u \in o.units
    BY <2>1
  <2> QED
    BY <2>2
<1> HIDE DEF G
<1>5. \A o \in oram_handles : o.units \subseteq T
  BY <1>1 DEF MemInv, OramInv, Apart, TypeOK
<1>6. \A h \in OramNumbers : G(h) \in T
  BY <1>4, <1>5
<1>7. \A h, k \in OramNumbers : G(h) = G(k) => h = k
  BY <1>4 DEF MemInv, OramInv, Apart
<1>8. g \in [OramNumbers -> T] /\ \A h, k \in OramNumbers : g[h] = g[k] => h = k
  BY <1>6, <1>7
<1>9. g \in Injection(OramNumbers, T)
  BY <1>8 DEF Injection, IsInjective
<1> HIDE DEF T
<1> QED
  BY <1>3, <1>9, FS_Injection

LEMMA MemInit == Init => MemInv
<1> SUFFICES ASSUME Init PROVE TypeOK /\ HandleInv
  BY InitInv DEF MemInv
<1>1. BoNumbers = {} /\ oram_handles = {} /\ bos = 0
  BY DEF Init, BoNumbers
<1>2. HandleInv
  BY <1>1, FS_EmptySet DEF HandleInv, Init
<1>3. queue = << >> /\ queue \in Seq(Jobs!FifoJobs) /\ submitted = 0 /\ finished = 0
  BY EmptySeq DEF Init, Jobs!FifoInit
<1>4. TypeOK
  BY <1>3, MemoryAssumption DEF Init, TypeOK
<1> QED
  BY <1>2, <1>4

\* Calls of a process on a file.
LEMMA MemUse ==
  ASSUME MemInv, NEW p \in Procs, NEW f \in Files, Use(p, f)
  PROVE  TypeOK' /\ HandleInv'
<1> USE MemoryAssumption DEF fileVars, boVars, jobVars, oramVars, Enter, Leave, Goto
<1>1. CASE open(p, f)
  <2>1. TypeOK'
    BY <1>1 DEF open, MemInv, TypeOK
  <2> QED
    BY <1>1, <2>1 DEF open, MemInv, HandleInv, BoNumbers
<1>2. CASE bo_append(p, f)
  <2> DEFINE h == idr_alloc(1, BoNumbers)
             r == [handle |-> h, bo |-> bos + 1, pid |-> Nr[p]]
  <2>1. /\ bos < MaxBos /\ bos' = bos + 1
        /\ bo_handles' = bo_handles \cup {r} /\ held' = [held EXCEPT ![f] = @ \cup {h}]
        /\ UNCHANGED <<fileVars, user, sub, jobVars, oramVars, taken, bug, inherited>>
    BY <1>2 DEF bo_append, BoNumbers
  <2>2. bos \in 0..MaxBos /\ Cardinality(BoNumbers) \in Nat /\ Cardinality(BoNumbers) <= bos
    BY FS_CardinalityType DEF MemInv, TypeOK, HandleInv
  <2>3. h \in 1..1 + Cardinality(BoNumbers) /\ h \notin BoNumbers
    BY IdrAlloc DEF MemInv, HandleInv
  <2>4. r \in [handle : 1..MaxBos, bo : 1..MaxBos, pid : {Nr[q] : q \in Procs}]
        /\ h \in 1..MaxBos /\ bos + 1 \in 0..MaxBos
    BY <2>1, <2>2, <2>3
  <2>5. r.handle = h
    OBVIOUS
  <2> HIDE DEF h, r
  <2>6. TypeOK'
    BY <2>1, <2>4 DEF MemInv, TypeOK
  <2>7. BoNumbers' = BoNumbers \cup {h}
    BY <2>1, <2>5 DEF BoNumbers
  <2>8. IsFiniteSet(BoNumbers') /\ Cardinality(BoNumbers') = Cardinality(BoNumbers) + 1
    BY <2>3, <2>7, FS_AddElement DEF MemInv, HandleInv
  <2>9. \A b, c \in bo_handles' : b.handle = c.handle => b = c
    BY <2>1, <2>3, <2>5 DEF MemInv, HandleInv, BoNumbers
  <2> QED
    BY <2>1, <2>2, <2>6, <2>8, <2>9 DEF MemInv, HandleInv
<1>3. CASE close(p, f)
  <2>1. TypeOK'
    BY <1>3 DEF close, MemInv, TypeOK
  <2> QED
    BY <1>3, <2>1 DEF close, MemInv, HandleInv, BoNumbers
<1>4. ASSUME NEW h \in held[f], bo_destroy(p, f, h) PROVE TypeOK' /\ HandleInv'
  <2>1. /\ bo_handles' = {b \in bo_handles : b.handle # h}
        /\ held' = [held EXCEPT ![f] = @ \ {h}]
        /\ UNCHANGED <<fileVars, user, bos, sub, jobVars, oramVars, taken, bug, inherited>>
    BY <1>4 DEF bo_destroy
  <2>2. TypeOK'
    BY <2>1 DEF MemInv, TypeOK
  <2>3. BoNumbers' \in SUBSET BoNumbers
    BY <2>1 DEF BoNumbers
  <2>4. IsFiniteSet(BoNumbers') /\ Cardinality(BoNumbers') <= Cardinality(BoNumbers)
        /\ Cardinality(BoNumbers) \in Nat /\ Cardinality(BoNumbers') \in Nat
    BY <2>3, FS_Subset, FS_CardinalityType DEF MemInv, HandleInv
  <2>5. bos \in Int /\ bos' = bos
    BY <2>1 DEF MemInv, TypeOK
  <2>6. Cardinality(BoNumbers') <= bos'
    BY <2>4, <2>5 DEF MemInv, HandleInv
  <2> QED
    BY <2>1, <2>2, <2>4, <2>6 DEF MemInv, HandleInv
<1>5. ASSUME NEW h \in held[f], SubmitFind(p, f, h) PROVE TypeOK' /\ HandleInv'
  <2>1. PICK b \in bo_handles : sub' = [sub EXCEPT ![f] = b.bo]
    BY <1>5 DEF SubmitFind
  <2>2. TypeOK'
    BY <1>5, <2>1 DEF SubmitFind, MemInv, TypeOK
  <2> QED
    BY <1>5, <2>2 DEF SubmitFind, MemInv, HandleInv, BoNumbers
<1>6. ASSUME NEW n \in 1..Units, OramTake(p, f, n) PROVE TypeOK' /\ HandleInv'
  <2>1. PICK U \in SUBSET (1..Units) : /\ oram_pool' = oram_pool \cup U
                                       /\ taken' = [taken EXCEPT ![f] = U]
    BY <1>6, GapTaken
  <2>2. oram_pool' \subseteq 1..Units /\ taken' \in [Files -> SUBSET (1..Units)]
    BY <2>1 DEF MemInv, TypeOK
  <2>3. TypeOK'
    BY <1>6, <2>2 DEF OramTake, MemInv, TypeOK
  <2> QED
    BY <1>6, <2>3 DEF OramTake, MemInv, HandleInv, BoNumbers
<1>7. ASSUME NEW o \in oram_handles, OramFree(p, f, o) PROVE TypeOK' /\ HandleInv'
  <2>1. TypeOK'
    BY <1>7 DEF OramFree, MemInv, TypeOK
  <2> QED
    BY <1>7, <2>1 DEF OramFree, MemInv, HandleInv, BoNumbers
<1> QED
  BY <1>1, <1>2, <1>3, <1>4, <1>5, <1>6, <1>7 DEF Use

\* The queue after close dropped the jobs of a pid: entries of the old one,
\* none of that pid.
LEMMA CancelQueue ==
  ASSUME TypeOK, NEW pid, Jobs!FifoCancel(pid)
  PROVE  /\ queue' \in Seq(Jobs!FifoJobs)
         /\ \A i \in DOMAIN queue' : queue'[i].pid # pid /\ \E k \in DOMAIN queue : queue'[i] = queue[k]
<1> DEFINE K == {i \in DOMAIN queue : queue[i].pid # pid}
<1>1. queue \in Seq(Jobs!FifoJobs) /\ K \in SUBSET DOMAIN queue
  BY DEF TypeOK
<1>2. queue' \in Filtered(queue, K)
  BY DEF Jobs!FifoCancel, Jobs!Filtered, Jobs!Enumerates, Filtered, Enumerates
<1>3. \A i \in K : queue[i].pid # pid /\ i \in DOMAIN queue
  OBVIOUS
<1> HIDE DEF K
<1>4. queue' \in Seq(Jobs!FifoJobs)
  BY <1>1, <1>2, FilteredList
<1>5. PICK f \in [1..Len(queue') -> K] : \A i \in 1..Len(queue') : queue'[i] = queue[f[i]]
  BY <1>1, <1>2, FilteredList
<1>6. DOMAIN queue' = 1..Len(queue')
  BY <1>4, LenProperties
<1> QED
  BY <1>3, <1>4, <1>5, <1>6

\* The queue after a job was reported finished: entries of the old one.
LEMMA FinishQueue ==
  ASSUME TypeOK, Jobs!FifoFinish
  PROVE  /\ queue' \in Seq(Jobs!FifoJobs) /\ finished' \in 0..MaxJobs
         /\ \A i \in DOMAIN queue' : \E k \in DOMAIN queue : queue'[i] = queue[k]
<1>1. /\ queue \in Seq(Jobs!FifoJobs) /\ queue # << >>
      /\ queue' = Tail(queue) /\ finished' = Head(queue).seq
  BY DEF Jobs!FifoFinish, TypeOK
<1>2. /\ queue' \in Seq(Jobs!FifoJobs) /\ Head(queue) \in Jobs!FifoJobs
      /\ Len(queue') = Len(queue) - 1
      /\ \A i \in 1..Len(queue') : queue'[i] = queue[i + 1]
  BY <1>1, HeadTailProperties
<1>3. /\ DOMAIN queue' = 1..Len(queue') /\ DOMAIN queue = 1..Len(queue)
      /\ Len(queue) \in Nat
  BY <1>1, <1>2, LenProperties
<1>4. finished' \in 1..MaxJobs
  BY <1>1, <1>2 DEF Jobs!FifoJobs
<1>5. \A i \in DOMAIN queue' : i + 1 \in DOMAIN queue /\ queue'[i] = queue[i + 1]
  BY <1>2, <1>3
<1> QED
  BY <1>2, <1>4, <1>5, MemoryAssumption

\* The queue after a submission.
LEMMA SubmitAppends ==
  ASSUME TypeOK, NEW pid \in Pids, Jobs!FifoSubmit(pid)
  PROVE  /\ queue' \in Seq(Jobs!FifoJobs) /\ submitted' = submitted + 1 /\ submitted' \in 1..MaxJobs
         /\ \A i \in DOMAIN queue' : \/ \E k \in DOMAIN queue : queue'[i] = queue[k]
                                     \/ queue'[i] = [seq |-> submitted + 1, pid |-> pid]
<1> DEFINE e == [seq |-> submitted + 1, pid |-> pid]
<1>1. /\ queue \in Seq(Jobs!FifoJobs) /\ submitted \in 0..MaxJobs /\ submitted < MaxJobs
      /\ queue' = Append(queue, e) /\ submitted' = submitted + 1
  BY DEF Jobs!FifoSubmit, TypeOK
<1>2. e \in Jobs!FifoJobs /\ submitted' \in 1..MaxJobs
  BY <1>1, MemoryAssumption DEF Jobs!FifoJobs
<1> HIDE DEF e
<1>3. /\ queue' \in Seq(Jobs!FifoJobs) /\ Len(queue') = Len(queue) + 1
      /\ \A i \in 1..Len(queue) : queue'[i] = queue[i]
      /\ queue'[Len(queue) + 1] = e
  BY <1>1, <1>2, AppendProperties
<1>4. /\ DOMAIN queue' = 1..Len(queue) + 1 /\ DOMAIN queue = 1..Len(queue)
      /\ Len(queue) \in Nat
  BY <1>1, <1>3, LenProperties
<1>5. \A i \in DOMAIN queue' : (i \in DOMAIN queue /\ queue'[i] = queue[i]) \/ queue'[i] = e
  BY <1>3, <1>4
<1> QED
  BY <1>1, <1>2, <1>3, <1>5 DEF e

\* The second halves of calls and the steps of release.
LEMMA MemFinish ==
  ASSUME MemInv, NEW f \in Files, Finish(f)
  PROVE  TypeOK' /\ HandleInv'
<1> USE MemoryAssumption DEF fileVars, boVars, jobVars, oramVars, Enter, Leave, Goto
<1>0. TypeOK /\ UseInv
  BY DEF MemInv, OramInv
<1>1. CASE SubmitQueue(f)
  <2>1. /\ sub[f] # 0 /\ Jobs!FifoSubmit(Vnr[user[f]])
        /\ node' = [node EXCEPT ![submitted + 1] = sub[f]]
    BY <1>1 DEF SubmitQueue
  <2>2. user[f] \in Procs /\ Vnr[user[f]] \in Pids
    BY <1>0, <2>1 DEF UseInv, Pids
  <2>3. queue' \in Seq(Jobs!FifoJobs) /\ submitted' \in 1..MaxJobs
    BY <1>0, <2>1, <2>2, SubmitAppends
  <2>4. finished' = finished /\ submitted' \in 0..MaxJobs
    BY <2>1, <2>3 DEF Jobs!FifoSubmit
  <2>5. node' \in [1..MaxJobs -> 0..MaxBos]
    BY <1>0, <2>1 DEF TypeOK
  <2>6. TypeOK'
    BY <1>0, <1>1, <2>3, <2>4, <2>5 DEF SubmitQueue, TypeOK
  <2> QED
    BY <1>1, <2>6 DEF SubmitQueue, MemInv, HandleInv, BoNumbers
<1>2. CASE OramHandle(f)
  <2> DEFINE h == idr_alloc(1, OramNumbers)
             r == [handle |-> h, pid |-> Vnr[user[f]], units |-> taken[f]]
  <2>1. /\ taken[f] # {} /\ taken' = [taken EXCEPT ![f] = {}]
        /\ \/ oram_handles' = oram_handles \cup {r} /\ oram_pool' = oram_pool
           \/ oram_pool' = oram_pool \ taken[f] /\ oram_handles' = oram_handles
        /\ UNCHANGED <<fileVars, boVars, sub, jobVars, bug, inherited>>
        /\ user' = [user EXCEPT ![f] = NoProc]
    BY <1>2 DEF OramHandle, OramNumbers
  <2>2. IsFiniteSet(OramNumbers) /\ Cardinality(OramNumbers) <= Units - 1
    BY <2>1, OramNumberLeft
  <2>3. Cardinality(OramNumbers) \in Nat
    BY <2>2, FS_CardinalityType
  <2>4. h \in 1..1 + Cardinality(OramNumbers) /\ h \notin OramNumbers
    BY <2>2, IdrAlloc
  <2>5. user[f] \in Procs /\ Vnr[user[f]] \in Pids /\ h \in 1..Units
    BY <1>0, <2>1, <2>2, <2>3, <2>4 DEF UseInv, Pids
  <2>6. /\ r \in [handle : 1..Units, pid : Pids, units : SUBSET (1..Units)]
        /\ r.handle = h /\ r.units = taken[f]
    BY <1>0, <2>5 DEF TypeOK
  <2> HIDE DEF r, h
  <2>7. TypeOK'
    BY <1>0, <2>1, <2>6 DEF TypeOK
  <2>8. /\ \A o1, o2 \in oram_handles' : o1.handle = o2.handle => o1 = o2
        /\ \A o \in oram_handles' : o.units # {}
    BY <2>1, <2>4, <2>6 DEF MemInv, HandleInv, OramNumbers
  <2> QED
    BY <2>1, <2>7, <2>8 DEF MemInv, HandleInv, BoNumbers
<1>3. CASE ReleaseJobs(f)
  <2>1. queue' \in Seq(Jobs!FifoJobs) /\ UNCHANGED <<submitted, finished>>
    BY <1>0, <1>3, CancelQueue DEF ReleaseJobs, Jobs!FifoCancel
  <2>2. TypeOK'
    BY <1>0, <1>3, <2>1 DEF ReleaseJobs, TypeOK
  <2> QED
    BY <1>3, <2>2 DEF ReleaseJobs, MemInv, HandleInv, BoNumbers
<1>4. CASE bo_release(f)
  <2>1. TypeOK'
    BY <1>0, <1>4 DEF bo_release, TypeOK
  <2>2. bo_handles' \subseteq bo_handles
    BY <1>4 DEF bo_release
  <2>3. BoNumbers' \in SUBSET BoNumbers
    BY <2>2 DEF BoNumbers
  <2>4. IsFiniteSet(BoNumbers') /\ Cardinality(BoNumbers') <= Cardinality(BoNumbers)
        /\ Cardinality(BoNumbers) \in Nat /\ Cardinality(BoNumbers') \in Nat
    BY <2>3, FS_Subset, FS_CardinalityType DEF MemInv, HandleInv
  <2> QED
    BY <1>0, <1>4, <2>1, <2>2, <2>4 DEF bo_release, MemInv, HandleInv, TypeOK
<1>5. CASE oram_release(f)
  <2>1. TypeOK'
    BY <1>0, <1>5 DEF oram_release, TypeOK
  <2> QED
    BY <1>5, <2>1 DEF oram_release, MemInv, HandleInv, BoNumbers
<1>6. CASE put(f)
  <2>1. TypeOK'
    BY <1>0, <1>6 DEF put, TypeOK
  <2> QED
    BY <1>6, <2>1 DEF put, MemInv, HandleInv, BoNumbers
<1> QED
  BY <1>1, <1>2, <1>3, <1>4, <1>5, <1>6 DEF Finish

LEMMA MemStep == MemInv /\ [Next]_vars => MemInv'
<1> SUFFICES ASSUME MemInv, [Next]_vars PROVE TypeOK' /\ HandleInv'
  BY OramStep DEF MemInv
<1>1. CASE UNCHANGED vars
  BY <1>1 DEF vars, MemInv, TypeOK, HandleInv, BoNumbers
<1>2. CASE JobDone
  <2>1. queue' \in Seq(Jobs!FifoJobs) /\ finished' \in 0..MaxJobs /\ UNCHANGED submitted
    BY <1>2, FinishQueue DEF JobDone, MemInv, Jobs!FifoFinish
  <2>2. TypeOK'
    BY <1>2, <2>1 DEF JobDone, MemInv, TypeOK, boVars, oramVars
  <2> QED
    BY <1>2, <2>2 DEF JobDone, MemInv, HandleInv, BoNumbers, boVars, oramVars
<1>3. ASSUME NEW p \in Procs, NEW q \in Procs, fork(p, q) PROVE TypeOK' /\ HandleInv'
  <2>1. TypeOK'
    BY <1>3 DEF fork, MemInv, TypeOK, boVars, jobVars, oramVars
  <2> QED
    BY <1>3, <2>1 DEF fork, MemInv, HandleInv, BoNumbers, boVars, jobVars, oramVars
<1> QED
  BY <1>1, <1>2, <1>3, MemUse, MemFinish DEF Next

\* Every reachable state is well typed: in particular no handle is 0 or
\* beyond the number of BOs or ORAM units.
THEOREM MemoryTypes == Spec => []TypeOK
<1>1. MemInv => TypeOK
  BY DEF MemInv
<1> QED
  BY <1>1, MemInit, MemStep, PTL DEF Spec

-----------------------------------------------------------------------------
(* Buffers outlive the jobs over them, and the last close finds nothing.   *)

\* What cleanup by process number presupposes: every process has one file,
\* and its number is the same in both namespaces and its own.
OneFileEach ==
  /\ Contexts = 1 /\ IsFiniteSet(Files)
  /\ \A p \in Procs : Nr[p] = Vnr[p]
  /\ \A p, q \in Procs : Nr[p] = Nr[q] => p = q

Owns(p, f) == p \in refs[f] \/ user[f] = p

\* Without inheritance a file has one owner, also while it is released.
OwnerInv ==
  /\ \A f \in Files : \A p, q \in Procs : Owns(p, f) /\ Owns(q, f) => p = q
  /\ \A f, g \in Files : \A p \in Procs : Owns(p, f) /\ Owns(p, g) => f = g
  /\ \A f \in Files : rel[f] # "none" => refs[f] = {}
  /\ \A f \in Files : user[f] # NoProc /\ rel[f] = "none" => user[f] \in refs[f]

\* The BO of a submission, of a handle a program holds and of a queued job
\* is there and belongs to the process concerned.
SubInv ==
  \A f \in Files : sub[f] # 0 => \E b \in bo_handles : b.bo = sub[f] /\ b.pid = Nr[user[f]]

HeldInv ==
  \A f \in Files : \A h \in held[f] :
    \E b \in bo_handles : b.handle = h /\ \E p \in refs[f] : b.pid = Nr[p]

QueueInv ==
  \A i \in DOMAIN queue :
    /\ queue[i].seq <= submitted
    /\ \E b \in bo_handles : b.bo = node[queue[i].seq] /\ b.pid = queue[i].pid

\* Whatever is left has an owner whose cleanup has not come to it yet.
OwnedBy(pid, labels) == \E f \in Files, p \in Procs : Owns(p, f) /\ rel[f] \in labels /\ pid = Vnr[p]

CleanInv ==
  /\ \A i \in DOMAIN queue : OwnedBy(queue[i].pid, {"none", "jobs"})
  /\ \A b \in bo_handles : OwnedBy(b.pid, {"none", "jobs", "bos"})
  /\ \A o \in oram_handles : OwnedBy(o.pid, {"none", "jobs", "bos", "oram"})

PlainInv == OwnerInv /\ SubInv /\ HeldInv /\ QueueInv /\ CleanInv /\ bug = 0

LEMMA PlainInit == Init => PlainInv
<1> SUFFICES ASSUME Init PROVE PlainInv
  OBVIOUS
<1>1. queue = << >> /\ DOMAIN queue = {}
  BY DEF Init, Jobs!FifoInit
<1>2. \A f \in Files : refs[f] = {} /\ user[f] = NoProc /\ rel[f] = "none" /\ sub[f] = 0 /\ held[f] = {}
  BY DEF Init
<1>3. \A p \in Procs, f \in Files : ~Owns(p, f)
  BY <1>2, MemoryAssumption DEF Owns
<1> QED
  BY <1>1, <1>2, <1>3 DEF Init, PlainInv, OwnerInv, SubInv, HeldInv, QueueInv, CleanInv

\* The first call of a process opens a file nobody owns.
LEMMA OpenAlone ==
  ASSUME OneFileEach, NEW p \in Procs, NEW f \in Files, open(p, f)
  PROVE  \A g \in Files : ~Owns(p, g)
<1> DEFINE G == {g \in Files : p \in refs[g] \/ user[g] = p}
<1>1. Cardinality(G) < 1
  BY DEF open, OneFileEach
<1>2. IsFiniteSet(G)
  BY FS_Subset DEF OneFileEach
<1>3. Cardinality(G) \in Nat
  BY <1>2, FS_CardinalityType
<1>4. G = {}
  BY <1>1, <1>2, <1>3, FS_EmptySet
<1> QED
  BY <1>4 DEF Owns

\* How a call changes the owners.
LEMMA OwnerUse ==
  ASSUME OneFileEach, MemInv, OwnerInv, NEW p \in Procs, NEW f \in Files, Use(p, f)
  PROVE  /\ OwnerInv'
         /\ \A q \in Procs, g \in Files : Owns(q, g) => Owns(q, g)'
<1> USE MemoryAssumption DEF fileVars, Enter
<1>0. /\ refs \in [Files -> SUBSET Procs] /\ user \in [Files -> Procs \cup {NoProc}]
      /\ rel \in [Files -> {"none", "jobs", "bos", "oram", "put"}]
      /\ \A g \in Files : user[g] = NoProc => rel[g] = "none"
  BY DEF MemInv, TypeOK, OramInv, UseInv
<1>1. CASE open(p, f)
  <2>1. /\ \A g \in Files : ~Owns(p, g)
        /\ refs[f] = {} /\ rel[f] = "none" /\ refs' = [refs EXCEPT ![f] = {p}]
        /\ UNCHANGED <<user, rel>>
    BY <1>1, OpenAlone DEF open
  <2>2. user[f] = NoProc
    BY <1>0, <2>1 DEF OwnerInv
  <2>3. \A q \in Procs, g \in Files : Owns(q, g)' <=> (IF g = f THEN q = p ELSE Owns(q, g))
    BY <1>0, <2>1, <2>2 DEF Owns
  <2>4. \A q \in Procs : ~Owns(q, f)
    BY <2>1, <2>2 DEF Owns
  <2>5. \A g \in Files : /\ rel'[g] # "none" => refs'[g] = {}
                         /\ user'[g] # NoProc /\ rel'[g] = "none" => user'[g] \in refs'[g]
    BY <1>0, <2>1, <2>2 DEF OwnerInv
  <2> QED
    BY <2>1, <2>3, <2>4, <2>5 DEF OwnerInv
<1>2. CASE close(p, f)
  <2>1. p \in refs[f] /\ user[f] = NoProc /\ rel[f] = "none"
    BY <1>0, <1>2 DEF close, Ready
  <2>2. refs[f] = {p}
    BY <1>0, <2>1 DEF OwnerInv, Owns
  <2>3. /\ refs' = [refs EXCEPT ![f] = {}] /\ rel' = [rel EXCEPT ![f] = "jobs"]
        /\ user' = [user EXCEPT ![f] = p]
    <3>1. /\ refs' = [refs EXCEPT ![f] = @ \ {p}] /\ rel' = [rel EXCEPT ![f] = "jobs"]
          /\ user' = [user EXCEPT ![f] = p]
      BY <1>2, <2>2 DEF close
    <3> QED
      BY <1>0, <2>2, <3>1
  <2>4. \A q \in Procs, g \in Files : Owns(q, g)' <=> Owns(q, g)
    BY <1>0, <2>1, <2>2, <2>3 DEF Owns
  <2>5. \A g \in Files : /\ rel'[g] # "none" => refs'[g] = {}
                         /\ user'[g] # NoProc /\ rel'[g] = "none" => user'[g] \in refs'[g]
    BY <1>0, <2>1, <2>3 DEF OwnerInv
  <2> QED
    BY <2>4, <2>5 DEF OwnerInv
<1>3. CASE \/ \E h \in held[f] : SubmitFind(p, f, h)
           \/ \E n \in 1..Units : OramTake(p, f, n)
  <2>1. /\ p \in refs[f] /\ user[f] = NoProc /\ rel[f] = "none"
        /\ user' = [user EXCEPT ![f] = p] /\ UNCHANGED <<refs, rel>>
    BY <1>0, <1>3 DEF SubmitFind, OramTake, Ready
  <2>2. \A q \in Procs, g \in Files : Owns(q, g)' <=> Owns(q, g)
    BY <1>0, <2>1 DEF Owns, OwnerInv
  <2>3. \A g \in Files : /\ rel'[g] # "none" => refs'[g] = {}
                         /\ user'[g] # NoProc /\ rel'[g] = "none" => user'[g] \in refs'[g]
    BY <1>0, <2>1 DEF OwnerInv
  <2> QED
    BY <2>2, <2>3 DEF OwnerInv
<1>4. CASE \/ bo_append(p, f) \/ \E h \in held[f] : bo_destroy(p, f, h)
           \/ \E o \in oram_handles : OramFree(p, f, o)
  <2>1. UNCHANGED <<refs, rel, user>>
    BY <1>4 DEF bo_append, bo_destroy, OramFree
  <2> QED
    BY <2>1 DEF OwnerInv, Owns
<1> QED
  BY <1>1, <1>2, <1>3, <1>4 DEF Use

LEMMA OwnerFinish ==
  ASSUME MemInv, OwnerInv, NEW f \in Files, Finish(f)
  PROVE  /\ OwnerInv'
         /\ \A q \in Procs, g \in Files : Owns(q, g) => Owns(q, g)' \/ (put(f) /\ g = f)
         /\ \A g \in Files \ {f} : rel'[g] = rel[g] /\ user'[g] = user[g]
<1> USE MemoryAssumption DEF fileVars, Leave, Goto
<1>0. /\ refs \in [Files -> SUBSET Procs] /\ user \in [Files -> Procs \cup {NoProc}]
      /\ rel \in [Files -> {"none", "jobs", "bos", "oram", "put"}] /\ UseInv
  BY DEF MemInv, TypeOK, OramInv
<1>1. CASE SubmitQueue(f) \/ OramHandle(f)
  <2>1. user' = [user EXCEPT ![f] = NoProc] /\ UNCHANGED <<refs, rel>> /\ rel[f] = "none"
    BY <1>0, <1>1 DEF SubmitQueue, OramHandle, UseInv
  <2>2. user[f] # NoProc
    BY <1>0, <1>1 DEF SubmitQueue, OramHandle, UseInv
  <2>3. user[f] \in refs[f]
    BY <2>1, <2>2 DEF OwnerInv
  <2>4. \A q \in Procs, g \in Files : Owns(q, g)' <=> Owns(q, g)
    BY <1>0, <2>1, <2>3 DEF Owns
  <2>5. \A g \in Files : /\ rel'[g] # "none" => refs'[g] = {}
                         /\ user'[g] # NoProc /\ rel'[g] = "none" => user'[g] \in refs'[g]
    BY <1>0, <2>1 DEF OwnerInv
  <2> QED
    BY <1>0, <2>1, <2>4, <2>5 DEF OwnerInv
<1>2. CASE ReleaseJobs(f) \/ bo_release(f) \/ oram_release(f)
  <2>1. PICK l \in {"bos", "oram", "put"} : rel' = [rel EXCEPT ![f] = l]
    BY <1>2 DEF ReleaseJobs, bo_release, oram_release
  <2>2. UNCHANGED <<refs, user>> /\ rel[f] # "none"
    BY <1>2 DEF ReleaseJobs, bo_release, oram_release
  <2>3. \A q \in Procs, g \in Files : Owns(q, g)' <=> Owns(q, g)
    BY <2>2 DEF Owns
  <2>4. \A g \in Files : /\ rel'[g] # "none" => refs'[g] = {}
                         /\ user'[g] # NoProc /\ rel'[g] = "none" => user'[g] \in refs'[g]
    BY <1>0, <2>1, <2>2 DEF OwnerInv
  <2> QED
    BY <1>0, <2>1, <2>2, <2>3, <2>4 DEF OwnerInv
<1>3. CASE put(f)
  <2>1. /\ rel' = [rel EXCEPT ![f] = "none"] /\ user' = [user EXCEPT ![f] = NoProc]
        /\ UNCHANGED refs /\ rel[f] = "put"
    BY <1>3 DEF put
  <2>2. \A q \in Procs, g \in Files : Owns(q, g)' => Owns(q, g)
    BY <1>0, <2>1 DEF Owns
  <2>3. \A q \in Procs, g \in Files : Owns(q, g) => Owns(q, g)' \/ g = f
    BY <1>0, <2>1 DEF Owns
  <2>4. \A g \in Files : /\ rel'[g] # "none" => refs'[g] = {}
                         /\ user'[g] # NoProc /\ rel'[g] = "none" => user'[g] \in refs'[g]
    BY <1>0, <2>1 DEF OwnerInv
  <2> QED
    BY <1>0, <1>3, <2>1, <2>2, <2>3, <2>4 DEF OwnerInv
<1> QED
  BY <1>1, <1>2, <1>3 DEF Finish

\* Nothing new to own, and no owner gone: CleanInv stays.
LEMMA CleanQuiet ==
  ASSUME CleanInv, \A i \in DOMAIN queue' : \E k \in DOMAIN queue : queue'[i] = queue[k],
         bo_handles' \subseteq bo_handles, oram_handles' \subseteq oram_handles,
         \A q \in Procs, g \in Files : Owns(q, g) => Owns(q, g)',
         \A g \in Files : rel'[g] = rel[g] \/ (rel[g] = "none" /\ rel'[g] = "jobs")
  PROVE  CleanInv'
<1>1. \A pid : /\ OwnedBy(pid, {"none", "jobs"}) => OwnedBy(pid, {"none", "jobs"})'
               /\ OwnedBy(pid, {"none", "jobs", "bos"}) => OwnedBy(pid, {"none", "jobs", "bos"})'
               /\ OwnedBy(pid, {"none", "jobs", "bos", "oram"})
                    => OwnedBy(pid, {"none", "jobs", "bos", "oram"})'
  BY DEF OwnedBy
<1>2. \A i \in DOMAIN queue' : OwnedBy(queue[i].pid, {"none", "jobs"})'
  BY <1>1 DEF CleanInv
<1>3. /\ \A b \in bo_handles' : OwnedBy(b.pid, {"none", "jobs", "bos"})'
      /\ \A o \in oram_handles' : OwnedBy(o.pid, {"none", "jobs", "bos", "oram"})'
  BY <1>1 DEF CleanInv
<1> QED
  BY <1>2, <1>3 DEF CleanInv

\* Jobs, submissions and held handles keep their BOs.
LEMMA BoUse ==
  ASSUME OneFileEach, MemInv, PlainInv, NEW p \in Procs, NEW f \in Files, Use(p, f)
  PROVE  SubInv' /\ HeldInv' /\ QueueInv'
<1> USE MemoryAssumption DEF fileVars, boVars, jobVars, Enter
<1>0. /\ refs \in [Files -> SUBSET Procs] /\ user \in [Files -> Procs \cup {NoProc}]
      /\ DOMAIN held = Files /\ DOMAIN sub = Files
      /\ \A g \in Files : user[g] = NoProc => sub[g] = 0
      /\ \A b, c \in bo_handles : b.handle = c.handle => b = c
  BY DEF MemInv, TypeOK, OramInv, UseInv, HandleInv
<1>1. CASE open(p, f)
  <2>1. held[f] = {}
    BY <1>1 DEF open, PlainInv, HeldInv
  <2>2. /\ \A g \in Files \ {f} : refs'[g] = refs[g]
        /\ UNCHANGED <<bo_handles, held, sub, user, queue, node, submitted>>
    BY <1>0, <1>1 DEF open
  <2> QED
    BY <2>1, <2>2 DEF PlainInv, SubInv, HeldInv, QueueInv
<1>2. CASE bo_append(p, f)
  <2>1. PICK h, r : /\ r.handle = h /\ r.pid = Nr[p]
                    /\ bo_handles' = bo_handles \cup {r} /\ held' = [held EXCEPT ![f] = @ \cup {h}]
    <3> DEFINE h == idr_alloc(1, {b.handle : b \in bo_handles})
               r == [handle |-> h, bo |-> bos + 1, pid |-> Nr[p]]
    <3>1. r.handle = h /\ r.pid = Nr[p]
      OBVIOUS
    <3>2. bo_handles' = bo_handles \cup {r} /\ held' = [held EXCEPT ![f] = @ \cup {h}]
      BY <1>2 DEF bo_append
    <3> QED
      BY <3>1, <3>2
  <2>2. p \in refs[f] /\ UNCHANGED <<refs, user, sub, queue, node, submitted>>
    BY <1>2 DEF bo_append, Ready
  <2>3. HeldInv'
    BY <1>0, <2>1, <2>2 DEF PlainInv, HeldInv
  <2> QED
    BY <2>1, <2>2, <2>3 DEF PlainInv, SubInv, QueueInv
<1>3. CASE close(p, f)
  <2>1. p \in refs[f] /\ user[f] = NoProc /\ sub[f] = 0 /\ refs[f] = {p}
    BY <1>0, <1>3 DEF close, Ready, PlainInv, OwnerInv, Owns
  <2>2. /\ held' = [held EXCEPT ![f] = {}] /\ user' = [user EXCEPT ![f] = p]
        /\ refs' = [refs EXCEPT ![f] = @ \ {p}]
        /\ UNCHANGED <<bo_handles, sub, queue, node, submitted>>
    BY <1>3, <2>1 DEF close
  <2>3. /\ \A g \in Files \ {f} : held'[g] = held[g] /\ user'[g] = user[g] /\ refs'[g] = refs[g]
        /\ held'[f] = {}
    BY <1>0, <2>2
  <2> QED
    BY <2>1, <2>2, <2>3 DEF PlainInv, SubInv, HeldInv, QueueInv
<1>4. ASSUME NEW h \in held[f], bo_destroy(p, f, h) PROVE SubInv' /\ HeldInv' /\ QueueInv'
  <2>1. /\ p \in refs[f] /\ user[f] = NoProc
        /\ bo_handles' = {b \in bo_handles : b.handle # h}
        /\ held' = [held EXCEPT ![f] = @ \ {h}]
        /\ UNCHANGED <<refs, user, sub, queue, node, submitted>>
        /\ \A b \in bo_handles : b.handle = h => \A i \in DOMAIN queue : node[queue[i].seq] # b.bo
    BY <1>4 DEF bo_destroy, Ready
  <2>2. \A b \in bo_handles : b.handle = h => b.pid = Nr[p]
    BY <1>0, <1>4, <2>1 DEF PlainInv, HeldInv, OwnerInv, Owns
  <2>3. ASSUME NEW g \in Files, sub[g] # 0
        PROVE  \E b \in bo_handles' : b.bo = sub[g] /\ b.pid = Nr[user[g]]
    <3>1. PICK b \in bo_handles : b.bo = sub[g] /\ b.pid = Nr[user[g]]
      BY <2>3 DEF PlainInv, SubInv
    <3>2. user[g] \in Procs /\ g # f
      BY <1>0, <2>1, <2>3
    <3>3. user[g] # p
      BY <2>1, <3>2 DEF PlainInv, OwnerInv, Owns
    <3>4. b.handle # h
      BY <2>2, <3>1, <3>2, <3>3 DEF OneFileEach
    <3> QED
      BY <2>1, <3>1, <3>4
  <2>4. ASSUME NEW g \in Files, NEW k \in held'[g]
        PROVE  \E b \in bo_handles' : b.handle = k /\ \E q \in refs[g] : b.pid = Nr[q]
    <3>1. k \in held[g] /\ (g = f => k # h)
      BY <1>0, <2>1, <2>4
    <3>2. PICK b \in bo_handles : b.handle = k /\ \E q \in refs[g] : b.pid = Nr[q]
      BY <3>1 DEF PlainInv, HeldInv
    <3>3. PICK q \in refs[g] : b.pid = Nr[q]
      BY <3>2
    <3>4. g # f => q # p /\ q \in Procs
      BY <1>0, <2>1, <3>3 DEF PlainInv, OwnerInv, Owns
    <3>5. b.handle # h
      BY <2>2, <3>1, <3>2, <3>3, <3>4 DEF OneFileEach
    <3> QED
      BY <2>1, <3>2, <3>5
  <2>5. SubInv' /\ HeldInv'
    BY <2>1, <2>3, <2>4 DEF SubInv, HeldInv
  <2>6. QueueInv'
    BY <2>1 DEF PlainInv, QueueInv
  <2> QED
    BY <2>5, <2>6
<1>5. ASSUME NEW h \in held[f], SubmitFind(p, f, h) PROVE SubInv' /\ HeldInv' /\ QueueInv'
  <2>1. /\ p \in refs[f] /\ user' = [user EXCEPT ![f] = p]
        /\ UNCHANGED <<refs, bo_handles, held, queue, node, submitted>>
    BY <1>5 DEF SubmitFind, Ready
  <2>2. PICK b \in bo_handles : b.handle = h /\ sub' = [sub EXCEPT ![f] = b.bo]
    BY <1>5 DEF SubmitFind
  <2>3. b.pid = Nr[p]
    BY <1>0, <1>5, <2>1, <2>2 DEF PlainInv, HeldInv, OwnerInv, Owns
  <2>4. SubInv'
    BY <1>0, <2>1, <2>2, <2>3 DEF PlainInv, SubInv
  <2> QED
    BY <2>1, <2>4 DEF PlainInv, HeldInv, QueueInv
<1>6. ASSUME NEW n \in 1..Units, OramTake(p, f, n) PROVE SubInv' /\ HeldInv' /\ QueueInv'
  <2>1. /\ user[f] = NoProc /\ user' = [user EXCEPT ![f] = p]
        /\ UNCHANGED <<refs, bo_handles, held, sub, queue, node, submitted>>
    BY <1>6 DEF OramTake, Ready
  <2>2. \A g \in Files : sub[g] # 0 => user'[g] = user[g]
    BY <1>0, <2>1
  <2> QED
    BY <2>1, <2>2 DEF PlainInv, SubInv, HeldInv, QueueInv
<1>7. ASSUME NEW o \in oram_handles, OramFree(p, f, o) PROVE SubInv' /\ HeldInv' /\ QueueInv'
  BY <1>7 DEF OramFree, PlainInv, SubInv, HeldInv, QueueInv
<1> QED
  BY <1>1, <1>2, <1>3, <1>4, <1>5, <1>6, <1>7 DEF Use

LEMMA BoFinish ==
  ASSUME OneFileEach, MemInv, PlainInv, NEW f \in Files, Finish(f)
  PROVE  SubInv' /\ HeldInv' /\ QueueInv'
<1> USE MemoryAssumption DEF fileVars, boVars, jobVars, Leave, Goto
<1>0. /\ refs \in [Files -> SUBSET Procs] /\ user \in [Files -> Procs \cup {NoProc}]
      /\ DOMAIN held = Files /\ DOMAIN sub = Files /\ UseInv /\ TypeOK
  BY DEF MemInv, TypeOK, OramInv
<1>1. CASE SubmitQueue(f)
  <2>1. /\ sub[f] # 0 /\ Jobs!FifoSubmit(Vnr[user[f]])
        /\ node' = [node EXCEPT ![submitted + 1] = sub[f]]
        /\ sub' = [sub EXCEPT ![f] = 0] /\ user' = [user EXCEPT ![f] = NoProc]
        /\ UNCHANGED <<refs, bo_handles, held>>
    BY <1>1 DEF SubmitQueue
  <2>2. user[f] \in Procs /\ Vnr[user[f]] \in Pids /\ Vnr[user[f]] = Nr[user[f]]
    BY <1>0, <2>1 DEF UseInv, Pids, OneFileEach
  <2>3. /\ queue' \in Seq(Jobs!FifoJobs) /\ submitted' = submitted + 1 /\ submitted' \in 1..MaxJobs
        /\ \A i \in DOMAIN queue' : \/ \E k \in DOMAIN queue : queue'[i] = queue[k]
                                    \/ queue'[i] = [seq |-> submitted + 1, pid |-> Vnr[user[f]]]
    BY <1>0, <2>1, <2>2, SubmitAppends
  <2>4. SubInv' /\ HeldInv'
    BY <1>0, <2>1 DEF PlainInv, SubInv, HeldInv
  <2>5. /\ DOMAIN node = 1..MaxJobs /\ submitted \in Nat /\ DOMAIN queue = 1..Len(queue)
        /\ \A k \in DOMAIN queue : queue[k].seq \in 1..MaxJobs
    <3>1. queue \in Seq(Jobs!FifoJobs)
      BY <1>0 DEF TypeOK
    <3>2. \A k \in DOMAIN queue : queue[k] \in Jobs!FifoJobs
      BY <3>1, ElementOfSeq, LenProperties
    <3> QED
      BY <1>0, <3>1, <3>2, LenProperties DEF TypeOK, Jobs!FifoJobs
  <2>6. ASSUME NEW i \in DOMAIN queue'
        PROVE  /\ queue'[i].seq <= submitted'
               /\ \E b \in bo_handles : b.bo = node'[queue'[i].seq] /\ b.pid = queue'[i].pid
    <3>1. ASSUME NEW k \in DOMAIN queue, queue'[i] = queue[k]
          PROVE  /\ queue'[i].seq <= submitted'
                 /\ \E b \in bo_handles : b.bo = node'[queue'[i].seq] /\ b.pid = queue'[i].pid
      <4>1. queue[k].seq \in 1..MaxJobs /\ queue[k].seq <= submitted
            /\ \E b \in bo_handles : b.bo = node[queue[k].seq] /\ b.pid = queue[k].pid
        BY <2>5 DEF PlainInv, QueueInv
      <4>2. node'[queue[k].seq] = node[queue[k].seq]
        BY <2>1, <2>5, <4>1
      <4>3. queue[k].seq <= submitted'
        BY <2>3, <2>5, <4>1
      <4> QED
        BY <3>1, <4>1, <4>2, <4>3
    <3>2. ASSUME queue'[i] = [seq |-> submitted + 1, pid |-> Vnr[user[f]]]
          PROVE  /\ queue'[i].seq <= submitted'
                 /\ \E b \in bo_handles : b.bo = node'[queue'[i].seq] /\ b.pid = queue'[i].pid
      <4>1. PICK b \in bo_handles : b.bo = sub[f] /\ b.pid = Nr[user[f]]
        BY <2>1 DEF PlainInv, SubInv
      <4>2. queue'[i].seq = submitted + 1 /\ queue'[i].pid = Vnr[user[f]]
        BY <3>2
      <4>3. node'[submitted + 1] = sub[f]
        BY <2>1, <2>3, <2>5
      <4>4. submitted + 1 <= submitted'
        BY <2>3, <2>5
      <4> QED
        BY <2>2, <4>1, <4>2, <4>3, <4>4
    <3> QED
      BY <2>3, <3>1, <3>2
  <2>7. QueueInv'
    BY <2>1, <2>6 DEF QueueInv
  <2> QED
    BY <2>4, <2>7
<1>2. CASE OramHandle(f) \/ put(f)
  <2>1. /\ sub[f] = 0 /\ user' = [user EXCEPT ![f] = NoProc]
        /\ UNCHANGED <<refs, bo_handles, held, sub, queue, node, submitted>>
    BY <1>0, <1>2 DEF OramHandle, put, UseInv
  <2>2. \A g \in Files : sub[g] # 0 => user'[g] = user[g]
    BY <1>0, <2>1
  <2> QED
    BY <2>1, <2>2 DEF PlainInv, SubInv, HeldInv, QueueInv
<1>3. CASE ReleaseJobs(f)
  <2>1. /\ \A i \in DOMAIN queue' : \E k \in DOMAIN queue : queue'[i] = queue[k]
        /\ UNCHANGED <<refs, user, bo_handles, held, sub, node, submitted>>
    BY <1>0, <1>3, CancelQueue DEF ReleaseJobs, Jobs!FifoCancel
  <2> QED
    BY <2>1 DEF PlainInv, SubInv, HeldInv, QueueInv
<1>4. CASE bo_release(f)
  <2>1. /\ bo_handles' = {b \in bo_handles : b.pid # Vnr[user[f]]} /\ rel[f] = "bos"
        /\ UNCHANGED <<refs, user, held, sub, queue, node, submitted>>
    BY <1>4 DEF bo_release
  <2>2. user[f] \in Procs /\ sub[f] = 0 /\ refs[f] = {} /\ Vnr[user[f]] = Nr[user[f]]
    BY <1>0, <2>1 DEF UseInv, PlainInv, OwnerInv, OneFileEach
  <2>3. \A q \in Procs, g \in Files : Owns(q, g) /\ g # f => Nr[q] # Vnr[user[f]]
    BY <2>2 DEF PlainInv, OwnerInv, Owns, OneFileEach
  <2>4. SubInv'
    <3> SUFFICES ASSUME NEW g \in Files, sub[g] # 0
                 PROVE  \E b \in bo_handles' : b.bo = sub[g] /\ b.pid = Nr[user[g]]
      BY <2>1 DEF SubInv
    <3>1. PICK b \in bo_handles : b.bo = sub[g] /\ b.pid = Nr[user[g]]
      BY DEF PlainInv, SubInv
    <3>2. user[g] \in Procs /\ g # f
      BY <1>0, <2>2 DEF UseInv
    <3> QED
      BY <2>1, <2>3, <3>1, <3>2 DEF Owns
  <2>5. HeldInv'
    <3> SUFFICES ASSUME NEW g \in Files, NEW k \in held[g]
                 PROVE  \E b \in bo_handles' : b.handle = k /\ \E q \in refs[g] : b.pid = Nr[q]
      BY <2>1 DEF HeldInv
    <3>1. PICK b \in bo_handles : b.handle = k /\ \E q \in refs[g] : b.pid = Nr[q]
      BY DEF PlainInv, HeldInv
    <3>2. PICK q \in refs[g] : b.pid = Nr[q]
      BY <3>1
    <3>3. q \in Procs /\ g # f
      BY <1>0, <2>2, <3>2
    <3> QED
      BY <2>1, <2>3, <3>1, <3>2, <3>3 DEF Owns
  <2>6. QueueInv'
    <3>1. ASSUME NEW i \in DOMAIN queue PROVE queue[i].pid # Vnr[user[f]]
      <4>1. PICK g \in Files, q \in Procs :
              Owns(q, g) /\ rel[g] \in {"none", "jobs"} /\ queue[i].pid = Vnr[q]
        BY DEF PlainInv, CleanInv, OwnedBy
      <4>2. g # f /\ Vnr[q] = Nr[q]
        BY <2>1, <4>1 DEF OneFileEach
      <4> QED
        BY <2>3, <4>1, <4>2
    <3> QED
      BY <2>1, <3>1 DEF PlainInv, QueueInv
  <2> QED
    BY <2>4, <2>5, <2>6
<1>5. CASE oram_release(f)
  BY <1>5 DEF oram_release, PlainInv, SubInv, HeldInv, QueueInv
<1> QED
  BY <1>1, <1>2, <1>3, <1>4, <1>5 DEF Finish

\* Whatever is left still has an owner.
LEMMA CleanUse ==
  ASSUME OneFileEach, MemInv, PlainInv, NEW p \in Procs, NEW f \in Files, Use(p, f)
  PROVE  CleanInv' /\ bug' = 0
<1> USE DEF fileVars, boVars, jobVars, oramVars
<1>0. \A q \in Procs, g \in Files : Owns(q, g) => Owns(q, g)'
  BY OwnerUse DEF PlainInv
<1>1. bug' = 0
  BY DEF Use, open, bo_append, close, bo_destroy, SubmitFind, OramTake, OramFree, PlainInv
<1>2. \A g \in Files : rel'[g] = rel[g] \/ (rel[g] = "none" /\ rel'[g] = "jobs")
  <2>1. CASE close(p, f)
    <3>1. rel[f] = "none" /\ (rel' = [rel EXCEPT ![f] = "jobs"] \/ rel' = rel)
      BY <2>1 DEF close, Ready, MemInv, OramInv, UseInv
    <3> QED
      BY <3>1 DEF MemInv, TypeOK
  <2>2. CASE ~close(p, f)
    <3>1. rel' = rel
      BY <2>2 DEF Use, open, bo_append, bo_destroy, SubmitFind, OramTake, OramFree
    <3> QED
      BY <3>1
  <2> QED
    BY <2>1, <2>2
<1>3. queue' = queue /\ oram_handles' \subseteq oram_handles
  BY DEF Use, open, bo_append, close, bo_destroy, SubmitFind, OramTake, OramFree
<1>4. \A i \in DOMAIN queue' : \E k \in DOMAIN queue : queue'[i] = queue[k]
  BY <1>3
<1>5. CASE ~bo_append(p, f)
  <2>1. bo_handles' \subseteq bo_handles
    BY <1>5 DEF Use, open, close, bo_destroy, SubmitFind, OramTake, OramFree
  <2> QED
    BY <1>0, <1>1, <1>2, <1>3, <1>4, <2>1, CleanQuiet DEF PlainInv
<1>6. CASE bo_append(p, f)
  <2>1. PICK r : r.pid = Nr[p] /\ bo_handles' = bo_handles \cup {r}
    <3> DEFINE h == idr_alloc(1, {b.handle : b \in bo_handles})
               r == [handle |-> h, bo |-> bos + 1, pid |-> Nr[p]]
    <3>1. r.pid = Nr[p]
      OBVIOUS
    <3>2. bo_handles' = bo_handles \cup {r}
      BY <1>6 DEF bo_append
    <3> QED
      BY <3>1, <3>2
  <2>2. /\ p \in refs[f] /\ user[f] = NoProc /\ rel[f] = "none"
        /\ UNCHANGED <<refs, user, rel, queue, oram_handles>>
    BY <1>6 DEF bo_append, Ready, MemInv, OramInv, UseInv
  <2>3. OwnedBy(r.pid, {"none", "jobs", "bos"})
    BY <2>1, <2>2 DEF OwnedBy, Owns, OneFileEach
  <2>4. \A b \in bo_handles' : OwnedBy(b.pid, {"none", "jobs", "bos"})
    BY <2>1, <2>3 DEF PlainInv, CleanInv
  <2>5. CleanInv'
    BY <2>2, <2>4 DEF PlainInv, CleanInv, OwnedBy, Owns
  <2> QED
    BY <1>1, <2>5
<1> QED
  BY <1>5, <1>6

LEMMA CleanFinish ==
  ASSUME OneFileEach, MemInv, PlainInv, NEW f \in Files, Finish(f)
  PROVE  CleanInv' /\ bug' = 0
<1> USE MemoryAssumption DEF fileVars, boVars, jobVars, oramVars, Leave, Goto
<1>0. /\ user \in [Files -> Procs \cup {NoProc}] /\ refs \in [Files -> SUBSET Procs]
      /\ rel \in [Files -> {"none", "jobs", "bos", "oram", "put"}]
      /\ UseInv /\ TypeOK
  BY DEF MemInv, TypeOK, OramInv
<1>1. /\ \A q \in Procs, g \in Files : Owns(q, g) => Owns(q, g)' \/ (put(f) /\ g = f)
      /\ \A g \in Files \ {f} : rel'[g] = rel[g]
  BY OwnerFinish DEF PlainInv
<1>2. \A q \in Procs : q = user[f] => Owns(q, f) /\ (user[f] \in Procs)
  BY DEF Owns
<1>3. CASE SubmitQueue(f)
  <2>1. /\ sub[f] # 0 /\ Jobs!FifoSubmit(Vnr[user[f]])
        /\ UNCHANGED <<rel, bo_handles, oram_handles, bug>>
    BY <1>3 DEF SubmitQueue
  <2>2. user[f] \in Procs /\ rel[f] = "none" /\ Vnr[user[f]] \in Pids
    BY <1>0, <2>1 DEF UseInv, Pids
  <2>3. \A i \in DOMAIN queue' : \/ \E k \in DOMAIN queue : queue'[i] = queue[k]
                                 \/ queue'[i] = [seq |-> submitted + 1, pid |-> Vnr[user[f]]]
    BY <1>0, <2>1, <2>2, SubmitAppends
  <2>4. \A i \in DOMAIN queue' : \/ \E k \in DOMAIN queue : queue'[i] = queue[k]
                                 \/ queue'[i].pid = Vnr[user[f]]
    BY <2>3
  <2>5. OwnedBy(Vnr[user[f]], {"none", "jobs"})
    BY <1>2, <2>2 DEF OwnedBy
  <2>6. \A i \in DOMAIN queue' : OwnedBy(queue'[i].pid, {"none", "jobs"})
    BY <2>4, <2>5 DEF PlainInv, CleanInv
  <2>7. \A q \in Procs, g \in Files : Owns(q, g) => Owns(q, g)'
    BY <1>0, <1>1, <2>2 DEF put
  <2>8. \A pid, L : OwnedBy(pid, L) => OwnedBy(pid, L)'
    BY <2>1, <2>7 DEF OwnedBy
  <2>9. \A i \in DOMAIN queue' : OwnedBy(queue[i].pid, {"none", "jobs"})'
    BY <2>6, <2>8
  <2>10. /\ \A b \in bo_handles' : OwnedBy(b.pid, {"none", "jobs", "bos"})'
         /\ \A o \in oram_handles' : OwnedBy(o.pid, {"none", "jobs", "bos", "oram"})'
    BY <2>1, <2>8 DEF PlainInv, CleanInv
  <2>11. CleanInv'
    BY <2>9, <2>10 DEF CleanInv
  <2> QED
    BY <2>1, <2>11 DEF PlainInv
<1>4. CASE OramHandle(f)
  <2>1. PICK r : /\ r.pid = Vnr[user[f]] /\ oram_handles' \subseteq oram_handles \cup {r}
    <3> DEFINE r == [handle |-> idr_alloc(1, {o.handle : o \in oram_handles}),
                     pid |-> Vnr[user[f]], units |-> taken[f]]
    <3>1. r.pid = Vnr[user[f]]
      OBVIOUS
    <3>2. oram_handles' \subseteq oram_handles \cup {r}
      BY <1>4 DEF OramHandle
    <3> QED
      BY <3>1, <3>2
  <2>2. taken[f] # {} /\ UNCHANGED <<rel, bo_handles, queue, bug>>
    BY <1>4 DEF OramHandle
  <2>3. user[f] \in Procs /\ rel[f] = "none"
    BY <1>0, <2>2 DEF UseInv
  <2>4. OwnedBy(r.pid, {"none", "jobs", "bos", "oram"})
    BY <1>2, <2>1, <2>3 DEF OwnedBy
  <2>5. \A q \in Procs, g \in Files : Owns(q, g) => Owns(q, g)'
    BY <1>0, <1>1, <2>3 DEF put
  <2>6. \A pid, L : OwnedBy(pid, L) => OwnedBy(pid, L)'
    BY <2>2, <2>5 DEF OwnedBy
  <2>7. \A o \in oram_handles' : OwnedBy(o.pid, {"none", "jobs", "bos", "oram"})
    BY <2>1, <2>4 DEF PlainInv, CleanInv
  <2>8. \A o \in oram_handles' : OwnedBy(o.pid, {"none", "jobs", "bos", "oram"})'
    BY <2>6, <2>7
  <2>9. \A i \in DOMAIN queue' : OwnedBy(queue[i].pid, {"none", "jobs"})'
    <3>1. \A i \in DOMAIN queue : OwnedBy(queue[i].pid, {"none", "jobs"})
      BY DEF PlainInv, CleanInv
    <3>2. \A i \in DOMAIN queue : OwnedBy(queue'[i].pid, {"none", "jobs"})
      BY <2>2, <3>1
    <3> QED
      BY <2>2, <2>6, <3>2
  <2>10. CleanInv'
    BY <2>2, <2>6, <2>8, <2>9 DEF PlainInv, CleanInv
  <2> QED
    BY <2>2, <2>10 DEF PlainInv
<1>5. CASE ReleaseJobs(f) \/ bo_release(f) \/ oram_release(f)
  <2>1. /\ UNCHANGED <<refs, user, bug>> /\ rel[f] \in {"jobs", "bos", "oram"}
        /\ \A g \in Files \ {f} : rel'[g] = rel[g]
        /\ rel'[f] = IF rel[f] = "jobs" THEN "bos" ELSE IF rel[f] = "bos" THEN "oram" ELSE "put"
    BY <1>0, <1>1, <1>5 DEF ReleaseJobs, bo_release, oram_release
  <2>2. user[f] \in Procs /\ refs[f] = {}
    BY <1>0, <2>1 DEF UseInv, PlainInv, OwnerInv
  <2>3. \A q \in Procs, g \in Files : /\ Owns(q, g)' <=> Owns(q, g)
                                      /\ Owns(q, f) => q = user[f]
    BY <2>1, <2>2 DEF Owns
  <2>4. ASSUME NEW pid, NEW L, OwnedBy(pid, L), pid # Vnr[user[f]] PROVE OwnedBy(pid, L)'
    BY <2>1, <2>3, <2>4 DEF OwnedBy
  <2>5. ASSUME NEW pid, NEW L, OwnedBy(pid, L), rel'[f] \in L PROVE OwnedBy(pid, L)'
    BY <2>1, <2>3, <2>5 DEF OwnedBy
  <2>6. \A i \in DOMAIN queue' : OwnedBy(queue[i].pid, {"none", "jobs"})'
    <3>1. CASE ReleaseJobs(f)
      <4>1. \A i \in DOMAIN queue' : queue'[i].pid # Vnr[user[f]]
                                      /\ \E k \in DOMAIN queue : queue'[i] = queue[k]
        BY <1>0, <3>1, CancelQueue DEF ReleaseJobs
      <4>2. \A i \in DOMAIN queue' : OwnedBy(queue'[i].pid, {"none", "jobs"})
        BY <4>1 DEF PlainInv, CleanInv
      <4> QED
        BY <2>4, <4>1, <4>2
    <3>2. CASE bo_release(f) \/ oram_release(f)
      <4>1. queue' = queue /\ rel[f] \in {"bos", "oram"}
        BY <3>2 DEF bo_release, oram_release
      <4>2. \A i \in DOMAIN queue : OwnedBy(queue[i].pid, {"none", "jobs"})
        BY DEF PlainInv, CleanInv
      <4>3. \A pid : OwnedBy(pid, {"none", "jobs"}) => OwnedBy(pid, {"none", "jobs"})'
        <5> SUFFICES ASSUME NEW pid, OwnedBy(pid, {"none", "jobs"})
                     PROVE  OwnedBy(pid, {"none", "jobs"})'
          OBVIOUS
        <5>1. PICK g \in Files, q \in Procs : Owns(q, g) /\ rel[g] \in {"none", "jobs"} /\ pid = Vnr[q]
          BY DEF OwnedBy
        <5>2. g # f
          BY <4>1, <5>1
        <5> QED
          BY <2>1, <2>3, <5>1, <5>2 DEF OwnedBy
      <4>4. \A i \in DOMAIN queue' : OwnedBy(queue'[i].pid, {"none", "jobs"})
        BY <4>1, <4>2
      <4> QED
        BY <4>3, <4>4
    <3> QED
      BY <1>5, <3>1, <3>2
  <2>7. \A b \in bo_handles' : OwnedBy(b.pid, {"none", "jobs", "bos"})'
    <3>1. CASE ReleaseJobs(f)
      <4>1. bo_handles' = bo_handles /\ rel'[f] = "bos"
        BY <2>1, <3>1 DEF ReleaseJobs
      <4> QED
        BY <2>5, <4>1 DEF PlainInv, CleanInv
    <3>2. CASE bo_release(f)
      <4>1. bo_handles' = {b \in bo_handles : b.pid # Vnr[user[f]]}
        BY <3>2 DEF bo_release
      <4> QED
        BY <2>4, <4>1 DEF PlainInv, CleanInv
    <3>3. CASE oram_release(f)
      <4>1. bo_handles' = bo_handles /\ rel[f] = "oram"
        BY <3>3 DEF oram_release
      <4>2. ASSUME NEW b \in bo_handles PROVE OwnedBy(b.pid, {"none", "jobs", "bos"})'
        <5>1. PICK g \in Files, q \in Procs : Owns(q, g) /\ rel[g] \in {"none", "jobs", "bos"}
                                              /\ b.pid = Vnr[q]
          BY DEF PlainInv, CleanInv, OwnedBy
        <5>2. g # f
          BY <4>1, <5>1
        <5> QED
          BY <2>1, <2>3, <5>1, <5>2 DEF OwnedBy
      <4> QED
        BY <4>1, <4>2
    <3> QED
      BY <1>5, <3>1, <3>2, <3>3
  <2>8. \A o \in oram_handles' : OwnedBy(o.pid, {"none", "jobs", "bos", "oram"})'
    <3>1. CASE ReleaseJobs(f) \/ bo_release(f)
      <4>1. oram_handles' = oram_handles /\ rel'[f] \in {"bos", "oram"}
        BY <1>0, <2>1, <3>1 DEF ReleaseJobs, bo_release
      <4> QED
        BY <2>5, <4>1 DEF PlainInv, CleanInv
    <3>2. CASE oram_release(f)
      <4>1. oram_handles' = oram_handles \ {o \in oram_handles : o.pid = Vnr[user[f]]}
        BY <3>2 DEF oram_release
      <4> QED
        BY <2>4, <4>1 DEF PlainInv, CleanInv
    <3> QED
      BY <1>5, <3>1, <3>2
  <2>9. CleanInv'
    BY <2>6, <2>7, <2>8 DEF CleanInv
  <2> QED
    BY <2>1, <2>9 DEF PlainInv
<1>6. CASE put(f)
  <2>1. /\ rel[f] = "put" /\ UNCHANGED <<refs, bo_handles, oram_handles, queue>>
        /\ \A g \in Files \ {f} : rel'[g] = rel[g] /\ user'[g] = user[g]
    BY <1>0, <1>1, <1>6 DEF put
  <2>2. \A q \in Procs, g \in Files : Owns(q, g) /\ g # f => Owns(q, g)'
    BY <2>1 DEF Owns
  <2>3. ASSUME NEW pid, NEW L, OwnedBy(pid, L), "put" \notin L
        PROVE  OwnedBy(pid, L)' /\ \E g \in Files \ {f}, q \in Procs : Owns(q, g)
    <3>1. PICK g \in Files, q \in Procs : Owns(q, g) /\ rel[g] \in L /\ pid = Vnr[q]
      BY <2>3 DEF OwnedBy
    <3>2. g # f
      BY <2>1, <2>3, <3>1
    <3> QED
      BY <2>1, <2>2, <3>1, <3>2 DEF OwnedBy
  <2>4. CleanInv'
    <3>1. \A i \in DOMAIN queue : OwnedBy(queue[i].pid, {"none", "jobs"})
      BY DEF PlainInv, CleanInv
    <3>2. \A i \in DOMAIN queue' : OwnedBy(queue'[i].pid, {"none", "jobs"})
      BY <2>1, <3>1
    <3>3. \A i \in DOMAIN queue' : OwnedBy(queue[i].pid, {"none", "jobs"})'
      BY <2>3, <3>2
    <3>4. /\ \A b \in bo_handles' : OwnedBy(b.pid, {"none", "jobs", "bos"})'
          /\ \A o \in oram_handles' : OwnedBy(o.pid, {"none", "jobs", "bos", "oram"})'
      BY <2>1, <2>3 DEF PlainInv, CleanInv
    <3> QED
      BY <3>3, <3>4 DEF CleanInv
  <2>5. bug' = 0
    <3> SUFFICES ASSUME \A g \in Files \ {f} : refs[g] = {} /\ rel[g] = "none"
                 PROVE  queue = << >> /\ bo_handles = {} /\ oram_handles = {}
      BY <1>6 DEF put, PlainInv
    <3>1. \A g \in Files \ {f}, q \in Procs : ~Owns(q, g)
      BY <1>0 DEF Owns, PlainInv, OwnerInv
    <3>2. \A b \in bo_handles : FALSE
      BY <2>3, <3>1 DEF PlainInv, CleanInv
    <3>3. \A o \in oram_handles : FALSE
      BY <2>3, <3>1 DEF PlainInv, CleanInv
    <3>4. \A i \in DOMAIN queue : FALSE
      <4>1. \A i \in DOMAIN queue : OwnedBy(queue[i].pid, {"none", "jobs"})
        BY DEF PlainInv, CleanInv
      <4> QED
        BY <2>3, <3>1, <4>1
    <3>5. queue = << >>
      <4>1. queue \in Seq(Jobs!FifoJobs)
        BY <1>0 DEF TypeOK
      <4>2. Len(queue) \in Nat /\ DOMAIN queue = 1..Len(queue)
        BY <4>1, LenProperties
      <4>3. ~(Len(queue) >= 1)
        BY <3>4, <4>2
      <4>4. Len(queue) = 0
        BY <4>2, <4>3
      <4> QED
        BY <4>1, <4>4, EmptySeq
    <3> QED
      BY <3>2, <3>3, <3>5
  <2> QED
    BY <2>4, <2>5
<1> QED
  BY <1>3, <1>4, <1>5, <1>6 DEF Finish

LEMMA PlainStep ==
  ASSUME OneFileEach
  PROVE  MemInv /\ (inherited = 0 => PlainInv) /\ [Next]_vars => (inherited = 0 => PlainInv)'
<1> SUFFICES ASSUME MemInv, inherited = 0 => PlainInv, [Next]_vars, inherited' = 0
             PROVE  PlainInv'
  OBVIOUS
<1>1. \A p, q \in Procs : ~fork(p, q)
  BY DEF fork
<1>2. inherited = 0 /\ PlainInv
  <2>1. ASSUME NEW p \in Procs, NEW f \in Files, Use(p, f) PROVE inherited' = inherited
    BY <2>1 DEF Use, open, bo_append, close, bo_destroy, SubmitFind, OramTake, OramFree
  <2>2. ASSUME NEW f \in Files, Finish(f) PROVE inherited' = inherited
    BY <2>2 DEF Finish, SubmitQueue, OramHandle, ReleaseJobs, bo_release, oram_release, put
  <2>3. inherited' = inherited
    BY <1>1, <2>1, <2>2 DEF Next, vars, JobDone
  <2> QED
    BY <2>3
<1>3. ASSUME NEW p \in Procs, NEW f \in Files, Use(p, f) PROVE PlainInv'
  BY <1>2, <1>3, OwnerUse, BoUse, CleanUse DEF PlainInv
<1>4. ASSUME NEW f \in Files, Finish(f) PROVE PlainInv'
  BY <1>2, <1>4, OwnerFinish, BoFinish, CleanFinish DEF PlainInv
<1>5. CASE JobDone \/ UNCHANGED vars
  <2>1. UNCHANGED <<refs, user, rel, bo_handles, held, sub, node, oram_handles, bug, submitted>>
    BY <1>5 DEF JobDone, vars, boVars, oramVars, Jobs!FifoFinish
  <2>2. \A i \in DOMAIN queue' : \E k \in DOMAIN queue : queue'[i] = queue[k]
    <3>1. CASE JobDone
      BY <3>1, FinishQueue DEF JobDone, MemInv
    <3>2. CASE UNCHANGED vars
      BY <3>2 DEF vars
    <3> QED
      BY <1>5, <3>1, <3>2
  <2>3. OwnerInv' /\ \A q \in Procs, g \in Files : Owns(q, g) => Owns(q, g)'
    BY <1>2, <2>1 DEF PlainInv, OwnerInv, Owns
  <2>4. SubInv' /\ HeldInv' /\ QueueInv'
    BY <1>2, <2>1, <2>2 DEF PlainInv, SubInv, HeldInv, QueueInv
  <2>5. CleanInv'
    BY <1>2, <2>1, <2>2, <2>3, CleanQuiet DEF PlainInv
  <2> QED
    BY <1>2, <2>1, <2>3, <2>4, <2>5 DEF PlainInv
<1> QED
  BY <1>1, <1>3, <1>4, <1>5 DEF Next

\* No job is queued or prepared over a freed BO and no handle that a program
\* holds is dead or another's, whatever the order of submissions, closes and
\* exits, as long as no file is inherited.
THEOREM BuffersOutliveJobs ==
  ASSUME OneFileEach
  PROVE  Spec => []JobMemory
<1>1. MemInv /\ (inherited = 0 => PlainInv) => JobMemory
  BY DEF MemInv, PlainInv, SubInv, HeldInv, QueueInv, JobMemory, LiveBos
<1>2. Init => (inherited = 0 => PlainInv)
  BY PlainInit
<1> QED
  BY <1>1, <1>2, MemInit, MemStep, PlainStep, PTL DEF Spec

\* The last close never meets the BUG() of jz_aip_v20_close: by then the
\* cleanup has freed every job, BO and ORAM block.
THEOREM LastCloseFindsNothing ==
  ASSUME OneFileEach
  PROVE  Spec => []NoBug
<1>1. MemInv /\ (inherited = 0 => PlainInv) => NoBug
  BY DEF MemInv, TypeOK, PlainInv, NoBug
<1>2. Init => (inherited = 0 => PlainInv)
  BY PlainInit
<1> QED
  BY <1>1, <1>2, MemInit, MemStep, PlainStep, PTL DEF Spec
=============================================================================

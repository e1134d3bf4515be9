---------------------------- MODULE IaicCallsProofs ----------------------------
(***************************************************************************)
(* The calls of the IAIC library that process an image, for any number of  *)
(* threads, buffers, calls and closed contexts: until the program has a    *)
(* dangling handle, no call destroys what the hardware uses and a result   *)
(* is complete; and no buffer is ever lost.                                *)
(***************************************************************************)
EXTENDS IaicCalls, FiniteSetTheorems, SequenceTheorems, TLAPS

\* What a thread has in its hands: results and the buffers of its call.
Mine(t) == given[t] \cup Working(t)

\* Which buffers a call has, by its place.
PlaceInv ==
  \A t \in Threads :
    /\ pc[t] = "idle" => dst[t] = 0 /\ node[t] = 0
    /\ pc[t] # "idle" => dst[t] \in Bos
    /\ pc[t] = "node" => node[t] = 0 /\ kind[t] # "cvt"
    /\ pc[t] \in {"submit", "seqno", "wait"} => (node[t] = 0 <=> kind[t] = "cvt")

\* Jobs in the kernel have growing numbers that are not finished.
JobSet == [seqno : Nat, bos : SUBSET Bos]

SeqInv ==
  /\ queue \in [Kinds -> Seq(JobSet)]
  /\ \A k \in Kinds :
       /\ finished[k] <= submitted[k]
       /\ \A i \in 1..Len(queue[k]) :
            /\ finished[k] < queue[k][i].seqno /\ queue[k][i].seqno <= submitted[k]
            /\ \A m \in 1..Len(queue[k]) : m < i => queue[k][m].seqno < queue[k][i].seqno

\* Every call submits at most one job.
Pending(k) == {t \in Threads : pc[t] \in {"node", "submit"} /\ kind[t] = k}

PendInv == \A k \in Kinds : IsFiniteSet(Pending(k)) /\ submitted[k] + Cardinality(Pending(k)) <= calls

\* No buffer is lost.
FoundInv == live \subseteq leaked \cup UNION {Mine(t) : t \in Threads}

\* Every buffer has one owner.
OwnInv ==
  /\ leaked \subseteq live
  /\ \A t \in Threads : /\ Mine(t) \subseteq live /\ Mine(t) \cap leaked = {}
                        /\ given[t] \cap Working(t) = {}
                        /\ dst[t] # 0 => dst[t] # node[t]
  /\ \A t, u \in Threads : t # u => Mine(t) \cap Mine(u) = {}

\* A job in the kernel is the one of a thread that is still to wait for it.
JobOf(t, j) ==
  /\ pc[t] \in {"seqno", "wait"} /\ j.bos = Working(t)
  /\ pc[t] = "wait" => j.seqno <= job_seqno[t] /\ job_seqno[t] <= submitted[kind[t]]

JobInv ==
  \A k \in Kinds : \A i \in 1..Len(queue[k]) :
    \E t \in Threads : kind[t] = k /\ JobOf(t, queue[k][i])

\* A result is complete, or the job that writes it is in the kernel.
Complete(b) == b \in written \cup unsubmitted

DoneInv ==
  \A t \in Threads :
    /\ \A b \in given[t] : Complete(b)
    /\ pc[t] \in {"seqno", "wait"} => \/ Complete(dst[t])
                                      \/ \E i \in 1..Len(queue[kind[t]]) : JobOf(t, queue[kind[t]][i])

\* The types of everything but the jobs.
Typed ==
  /\ pooled \in BOOLEAN /\ dangled \in BOOLEAN
  /\ live \subseteq Bos /\ leaked \subseteq Bos /\ written \cup unsubmitted \subseteq Bos
  /\ submitted \in [Kinds -> Nat] /\ finished \in [Kinds -> Nat]
  /\ kind \in [Threads -> Kinds]
  /\ pc \in [Threads -> {"idle", "node", "submit", "seqno", "wait"}]
  /\ dst \in [Threads -> Bos \cup {0}] /\ node \in [Threads -> Bos \cup {0}]
  /\ job_seqno \in [Threads -> 0..MaxCalls + 1]
  /\ given \in [Threads -> SUBSET Bos] /\ calls \in 0..MaxCalls
  /\ cancelled \in [Kinds -> SUBSET (1..MaxCalls)]

CallsInv ==
  /\ Typed /\ PlaceInv /\ SeqInv /\ PendInv /\ FoundInv
  /\ ~dangled => OwnInv /\ JobInv /\ DoneInv

-----------------------------------------------------------------------------
(* What the invariant says of the properties.                              *)

LEMMA JobsTyped ==
  ASSUME Typed, SeqInv, PendInv
  PROVE  /\ \A j \in Jobs : j.seqno \in 1..MaxCalls /\ j.bos \subseteq Bos
         /\ submitted \in [Kinds -> 0..MaxCalls] /\ finished \in [Kinds -> 0..MaxCalls]
  <1>1. ASSUME NEW k \in Kinds
        PROVE  /\ submitted[k] \in Nat /\ finished[k] \in Nat /\ submitted[k] <= MaxCalls
               /\ Len(queue[k]) \in Nat /\ queue[k] \in Seq(JobSet)
               /\ DOMAIN queue[k] = 1..Len(queue[k])
               /\ finished[k] <= submitted[k]
    <2>1. submitted[k] \in Nat /\ finished[k] \in Nat /\ calls \in 0..MaxCalls /\ MaxCalls \in Nat
      BY CallsAssumption DEF Typed
    <2>2. Cardinality(Pending(k)) \in Nat /\ submitted[k] + Cardinality(Pending(k)) <= calls
      BY FS_CardinalityType DEF PendInv
    <2>3. queue[k] \in Seq(JobSet)
      BY DEF SeqInv
    <2> QED
      BY <2>1, <2>2, <2>3, LenProperties DEF SeqInv
  <1>2. submitted \in [Kinds -> 0..MaxCalls] /\ finished \in [Kinds -> 0..MaxCalls]
    <2>1. MaxCalls \in Nat
      BY CallsAssumption
    <2>2. \A k \in Kinds : submitted[k] \in 0..MaxCalls /\ finished[k] \in 0..MaxCalls
      BY <1>1, <2>1
    <2> QED
      BY <2>2 DEF Typed
  <1>3. ASSUME NEW j \in Jobs PROVE j.seqno \in 1..MaxCalls /\ j.bos \subseteq Bos
    <2>1. PICK k \in Kinds : \E i \in DOMAIN queue[k] : j = queue[k][i]
      BY <1>3 DEF Jobs
    <2>2. PICK i \in 1..Len(queue[k]) : j = queue[k][i]
      BY <1>1, <2>1
    <2>3. j \in JobSet /\ finished[k] < j.seqno /\ j.seqno <= submitted[k]
      BY <1>1, <2>2, ElementOfSeq DEF SeqInv
    <2>4. MaxCalls \in Nat
      BY CallsAssumption
    <2> QED
      BY <1>1, <2>3, <2>4 DEF JobSet
  <1> QED
    BY <1>2, <1>3

LEMMA ZeroIsNoBo == 0 \notin Bos
  BY CallsAssumption

LEMMA CallsInvJobMemory == CallsInv => CallsJobMemory
  <1> SUFFICES ASSUME CallsInv PROVE CallsJobMemory
    OBVIOUS
  <1>1. TypeOK
    <2>1. Typed /\ SeqInv /\ PendInv
      BY DEF CallsInv
    <2> QED
      BY <2>1, JobsTyped DEF Typed, TypeOK
  <1>2. live \subseteq leaked \cup UNION {given[t] \cup Working(t) : t \in Threads}
    BY DEF CallsInv, FoundInv, Mine
  <1>3. ASSUME ~dangled, NEW j \in Jobs PROVE j.bos \subseteq live
    <2>1. PICK k \in Kinds : \E i \in DOMAIN queue[k] : j = queue[k][i]
      BY DEF Jobs
    <2>2. DOMAIN queue[k] = 1..Len(queue[k])
      BY LenProperties DEF CallsInv, SeqInv
    <2>3. PICK t \in Threads : JobOf(t, j)
      BY <1>3, <2>1, <2>2 DEF CallsInv, JobInv
    <2> QED
      BY <1>3, <2>3 DEF CallsInv, OwnInv, JobOf, Mine
  <1> QED
    BY <1>1, <1>2, <1>3 DEF CallsJobMemory

LEMMA CallsInvResult == CallsInv => ResultComplete
  <1> SUFFICES ASSUME CallsInv, ~dangled, NEW t \in Threads, NEW b \in given[t]
               PROVE  b \in live /\ b \in written \cup unsubmitted /\ \A j \in Jobs : b \notin j.bos
    BY DEF ResultComplete
  <1>1. b \in live /\ b \in written \cup unsubmitted
    BY DEF CallsInv, OwnInv, DoneInv, Mine, Complete
  <1>2. ASSUME NEW j \in Jobs PROVE b \notin j.bos
    <2>1. PICK k \in Kinds : \E i \in DOMAIN queue[k] : j = queue[k][i]
      BY DEF Jobs
    <2>2. DOMAIN queue[k] = 1..Len(queue[k])
      BY LenProperties DEF CallsInv, SeqInv
    <2>3. PICK u \in Threads : JobOf(u, j)
      BY <2>1, <2>2 DEF CallsInv, JobInv
    <2>4. j.bos = Working(u) /\ Working(u) \subseteq Mine(u) /\ b \in Mine(t)
      BY <2>3 DEF JobOf, Mine
    <2>5. CASE u = t
      BY <2>4, <2>5 DEF CallsInv, OwnInv
    <2>6. CASE u # t
      BY <2>4, <2>6 DEF CallsInv, OwnInv
    <2> QED
      BY <2>5, <2>6
  <1> QED
    BY <1>1, <1>2

LEMMA CallsStart == CallsInit => CallsInv
  <1> SUFFICES ASSUME CallsInit PROVE CallsInv
    OBVIOUS
  <1>1. Typed
    <2>1. pooled \in BOOLEAN /\ dangled \in BOOLEAN
      BY Zenon DEF CallsInit
    <2>2. 0 \in 0..MaxCalls + 1 /\ 0 \in 0..MaxCalls /\ 0 \in Nat
      BY CallsAssumption
    <2> QED
      BY <2>1, <2>2 DEF CallsInit, Typed, Kinds
  <1>2. \A k \in Kinds : Pending(k) = {} /\ Cardinality(Pending(k)) = 0 /\ IsFiniteSet(Pending(k))
    BY FS_EmptySet DEF CallsInit, Pending
  <1>3. SeqInv
    <2>1. << >> \in Seq(JobSet) /\ Len(<< >>) = 0
      BY EmptySeq
    <2> QED
      BY <2>1 DEF CallsInit, SeqInv
  <1>4. PlaceInv /\ PendInv /\ FoundInv
    BY <1>2, CallsAssumption DEF CallsInit, PlaceInv, PendInv, FoundInv
  <1>5. \A t \in Threads : given[t] = {} /\ Working(t) = {} /\ Mine(t) = {} /\ pc[t] = "idle" /\ dst[t] = 0
    BY DEF CallsInit, Mine, Working
  <1>6. OwnInv /\ DoneInv
    BY <1>5 DEF CallsInit, OwnInv, DoneInv
  <1>7. JobInv
    BY <1>3 DEF CallsInit, JobInv
  <1> QED
    BY <1>1, <1>3, <1>4, <1>6, <1>7 DEF CallsInv

-----------------------------------------------------------------------------
(* What a step of one thread leaves to the others.                         *)

Others(t) ==
  \A u \in Threads : u # t => UNCHANGED <<given[u], dst[u], node[u], pc[u], kind[u], job_seqno[u]>>

LEMMA OthersKeepTheirs ==
  ASSUME NEW t \in Threads, Others(t), NEW u \in Threads, u # t
  PROVE  Mine(u)' = Mine(u) /\ Working(u)' = Working(u) /\ given'[u] = given[u]
  BY DEF Others, Mine, Working

\* The buffers new are created, gone are destroyed, both by t.
LEMMA OwnStep ==
  ASSUME OwnInv, NEW t \in Threads, Others(t), NEW new, NEW gone,
         new \cap live = {}, live' = (live \cup new) \ gone, gone \cap live \subseteq Mine(t),
         Mine(t)' \subseteq Mine(t) \cup new, Mine(t)' \cap gone = {},
         leaked' \subseteq leaked \cup Mine(t), leaked' \cap (gone \cup Mine(t)') = {},
         given'[t] \cap Working(t)' = {}, dst'[t] # 0 => dst'[t] # node'[t]
  PROVE  OwnInv'
  <1>1. \A u \in Threads : u # t => /\ Mine(u)' = Mine(u) /\ Working(u)' = Working(u)
                                   /\ given'[u] = given[u] /\ dst'[u] = dst[u] /\ node'[u] = node[u]
    BY OthersKeepTheirs DEF Others
  <1>2. /\ leaked \subseteq live /\ Mine(t) \subseteq live /\ Mine(t) \cap leaked = {}
        /\ \A u \in Threads : Mine(u) \subseteq live /\ Mine(u) \cap leaked = {}
        /\ \A u \in Threads : u # t => Mine(t) \cap Mine(u) = {}
    BY DEF OwnInv
  <1>3. leaked' \subseteq live' /\ Mine(t)' \subseteq live' /\ Mine(t)' \cap leaked' = {}
    BY <1>2
  <1>4. ASSUME NEW u \in Threads, u # t
        PROVE  /\ Mine(u)' \subseteq live' /\ Mine(u)' \cap leaked' = {} /\ Mine(t)' \cap Mine(u)' = {}
               /\ given'[u] \cap Working(u)' = {} /\ (dst'[u] # 0 => dst'[u] # node'[u])
    <2>1. Mine(u)' = Mine(u) /\ Mine(u) \subseteq live /\ Mine(t) \cap Mine(u) = {} /\ Mine(u) \cap leaked = {}
      BY <1>1, <1>2, <1>4
    <2>2. given[u] \cap Working(u) = {} /\ (dst[u] # 0 => dst[u] # node[u])
      BY DEF OwnInv
    <2> QED
      BY <1>1, <1>4, <2>1, <2>2
  <1>5. ASSUME NEW u \in Threads, NEW v \in Threads, u # v PROVE Mine(u)' \cap Mine(v)' = {}
    <2>1. CASE u = t \/ v = t
      BY <1>4, <1>5, <2>1
    <2>2. CASE u # t /\ v # t
      BY <1>1, <1>5, <2>2 DEF OwnInv
    <2> QED
      BY <2>1, <2>2
  <1>6. ASSUME NEW u \in Threads
        PROVE  /\ Mine(u)' \subseteq live' /\ Mine(u)' \cap leaked' = {}
               /\ given'[u] \cap Working(u)' = {}
               /\ dst'[u] # 0 => dst'[u] # node'[u]
    BY <1>3, <1>4
  <1> QED
    BY <1>3, <1>5, <1>6 DEF OwnInv

LEMMA FoundStep ==
  ASSUME FoundInv, NEW t \in Threads, Others(t), NEW new, live' \subseteq live \cup new,
         \A b \in live' : b \in leaked \cup Mine(t) \cup new => b \in leaked' \cup Mine(t)'
  PROVE  FoundInv'
  <1> SUFFICES ASSUME NEW b \in live' PROVE b \in leaked' \/ \E u \in Threads : b \in Mine(u)'
    BY DEF FoundInv
  <1>1. CASE b \in leaked \cup Mine(t) \cup new
    BY <1>1
  <1>2. CASE b \notin leaked \cup Mine(t) \cup new
    <2>1. PICK u \in Threads : b \in Mine(u) /\ u # t
      BY <1>2 DEF FoundInv
    <2> QED
      BY <2>1, OthersKeepTheirs
  <1> QED
    BY <1>1, <1>2

\* The jobs in the kernel stay what they are.
LEMMA JobsStay ==
  ASSUME JobInv, NEW t \in Threads, Others(t), UNCHANGED <<queue, submitted>>,
         \A k \in Kinds : \A i \in 1..Len(queue[k]) :
            kind[t] = k /\ JobOf(t, queue[k][i]) =>
              kind'[t] = k /\ (JobOf(t, queue[k][i]))'
  PROVE  JobInv'
  <1> SUFFICES ASSUME NEW k \in Kinds, NEW i \in 1..Len(queue[k])
               PROVE  \E u \in Threads : kind'[u] = k /\ (JobOf(u, queue[k][i]))'
    BY DEF JobInv
  <1>1. PICK u \in Threads : kind[u] = k /\ JobOf(u, queue[k][i])
    BY DEF JobInv
  <1>2. CASE u = t
    BY <1>1, <1>2
  <1>3. CASE u # t
    <2>1. Working(u)' = Working(u) /\ UNCHANGED <<pc[u], kind[u], job_seqno[u]>>
      BY <1>3, OthersKeepTheirs DEF Others
    <2> QED
      BY <1>1, <2>1 DEF JobOf
  <1> QED
    BY <1>2, <1>3

LEMMA DoneStay ==
  ASSUME DoneInv, NEW t \in Threads, Others(t), UNCHANGED <<queue, submitted>>,
         \A u \in Threads : u # t => \A b \in Mine(u) \cup {dst[u]} : Complete(b) => Complete(b)',
         \A b \in given'[t] : Complete(b)',
         pc'[t] \in {"seqno", "wait"} => \/ Complete(dst[t])'
                                        \/ \E i \in 1..Len(queue[kind[t]]) :
                                             /\ UNCHANGED kind[t]
                                             /\ (JobOf(t, queue[kind[t]][i]))'
  PROVE  DoneInv'
  <1> SUFFICES ASSUME NEW u \in Threads
               PROVE  /\ \A b \in given'[u] : Complete(b)'
                      /\ pc'[u] \in {"seqno", "wait"} =>
                           \/ Complete(dst[u])'
                           \/ (\E i \in 1..Len(queue[kind[u]]) : JobOf(u, queue[kind[u]][i]))'
    BY DEF DoneInv
  <1>1. CASE u = t
    BY <1>1
  <1>2. CASE u # t
    <2>1. /\ Working(u)' = Working(u) /\ Mine(u)' = Mine(u) /\ given[u] \subseteq Mine(u)
          /\ UNCHANGED <<pc[u], kind[u], job_seqno[u], given[u], dst[u]>>
      BY <1>2, OthersKeepTheirs DEF Others, Mine
    <2>2. \A b \in given'[u] : Complete(b)'
      BY <1>2, <2>1 DEF DoneInv
    <2>3. CASE pc[u] \in {"seqno", "wait"} /\ Complete(dst[u])
      <3>1. Complete(dst[u])'
        BY <1>2, <2>1, <2>3 DEF Complete
      <3> QED
        BY <2>2, <3>1
    <2>4. CASE pc[u] \in {"seqno", "wait"} /\ ~Complete(dst[u])
      <3>1. PICK i \in 1..Len(queue[kind[u]]) : JobOf(u, queue[kind[u]][i])
        BY <2>4 DEF DoneInv
      <3>2. (JobOf(u, queue[kind[u]][i]))'
        BY <2>1, <3>1 DEF JobOf
      <3> QED
        BY <2>1, <2>2, <3>2
    <2>5. CASE pc[u] \notin {"seqno", "wait"}
      BY <2>1, <2>2, <2>5
    <2> QED
      BY <2>3, <2>4, <2>5
  <1> QED
    BY <1>1, <1>2

\* A thread without a job in the kernel.
NoJob(t) == \A k \in Kinds : \A i \in 1..Len(queue[k]) : kind[t] = k => ~JobOf(t, queue[k][i])

LEMMA PendShrinks ==
  ASSUME Typed, PendInv, UNCHANGED submitted, calls' \in Nat, calls <= calls',
         \A k \in Kinds : Pending(k)' \subseteq Pending(k)
  PROVE  PendInv'
  <1> SUFFICES ASSUME NEW k \in Kinds
               PROVE  IsFiniteSet(Pending(k)') /\ submitted'[k] + Cardinality(Pending(k)') <= calls'
    BY DEF PendInv
  <1>1. IsFiniteSet(Pending(k)) /\ submitted[k] + Cardinality(Pending(k)) <= calls
    BY DEF PendInv
  <1>2. IsFiniteSet(Pending(k)') /\ Cardinality(Pending(k)') <= Cardinality(Pending(k))
    BY <1>1, FS_Subset
  <1>3. /\ Cardinality(Pending(k)') \in Nat /\ Cardinality(Pending(k)) \in Nat
        /\ submitted[k] \in Nat /\ calls \in Nat
    BY <1>1, <1>2, FS_CardinalityType, CallsAssumption DEF Typed
  <1> QED
    BY <1>1, <1>2, <1>3

-----------------------------------------------------------------------------
(* The ends of a call.                                                     *)

LEMMA ReturnFacts ==
  ASSUME Typed, PlaceInv, NEW t \in Threads, NEW bo \in Bos, NEW good \in BOOLEAN,
         Return(t, bo, good), UNCHANGED kind
  PROVE  /\ Others(t) /\ PlaceInv'
         /\ pc'[t] = "idle" /\ dst'[t] = 0 /\ Working(t)' = {} /\ Mine(t)' = given'[t]
         /\ given'[t] = IF good \/ pooled THEN given[t] \cup {bo} ELSE given[t]
         /\ dangled' = (dangled \/ (~good /\ pooled)) /\ dangled' \in BOOLEAN
         /\ pc' \in [Threads -> {"idle", "node", "submit", "seqno", "wait"}]
         /\ dst' \in [Threads -> Bos \cup {0}] /\ node' \in [Threads -> Bos \cup {0}]
         /\ job_seqno' \in [Threads -> 0..MaxCalls + 1] /\ given' \in [Threads -> SUBSET Bos]
         /\ \A k \in Kinds : Pending(k)' \subseteq Pending(k)
  <1>1. /\ pc' = [pc EXCEPT ![t] = "idle"] /\ dst' = [dst EXCEPT ![t] = 0]
        /\ node' = [node EXCEPT ![t] = 0] /\ job_seqno' = [job_seqno EXCEPT ![t] = 0]
        /\ given' = [given EXCEPT ![t] = IF good \/ pooled THEN given[t] \cup {bo} ELSE given[t]]
        /\ dangled' = (dangled \/ (~good /\ pooled))
    BY DEF Return, CallsGoto
  <1>2. 0 \in 0..MaxCalls + 1
    BY CallsAssumption
  <1>3. /\ pc' \in [Threads -> {"idle", "node", "submit", "seqno", "wait"}]
        /\ dst' \in [Threads -> Bos \cup {0}] /\ node' \in [Threads -> Bos \cup {0}]
        /\ job_seqno' \in [Threads -> 0..MaxCalls + 1]
    BY <1>1, <1>2 DEF Typed
  <1>4. given' \in [Threads -> SUBSET Bos]
    <2>1. given[t] \in SUBSET Bos /\ given[t] \cup {bo} \in SUBSET Bos
      BY DEF Typed
    <2>2. (IF good \/ pooled THEN given[t] \cup {bo} ELSE given[t]) \in SUBSET Bos
      BY <2>1
    <2> QED
      BY <1>1, <2>2 DEF Typed
  <1>5. /\ pc'[t] = "idle" /\ dst'[t] = 0 /\ node'[t] = 0
        /\ given'[t] = IF good \/ pooled THEN given[t] \cup {bo} ELSE given[t]
    BY <1>1 DEF Typed
  <1>6. Others(t)
    BY <1>1 DEF Typed, Others
  <1>7. Working(t)' = {} /\ Mine(t)' = given'[t]
    BY <1>5 DEF Working, Mine
  <1>8. PlaceInv'
    BY <1>5, <1>6 DEF PlaceInv, Others
  <1>9. \A k \in Kinds : Pending(k)' \subseteq Pending(k)
    BY <1>5, <1>6 DEF Pending, Others
  <1>10. dangled' \in BOOLEAN
    <2>1. dangled' = TRUE \/ dangled' = FALSE
      BY <1>1, Zenon
    <2> QED
      BY <2>1, Zenon
  <1> QED
    BY <1>1, <1>3, <1>4, <1>5, <1>6, <1>7, <1>8, <1>9, <1>10

\* An error: the call's buffers are destroyed; no job needs them.
LEMMA FailReturn ==
  ASSUME CallsInv, NEW t \in Threads, pc[t] # "idle", NEW gone, gone \ {0} = Working(t),
         live' = live \ gone, Forget(gone), Return(t, dst[t], FALSE),
         UNCHANGED <<pooled, cancelled, queue, submitted, finished, kind, calls>>,
         ~dangled => NoJob(t)
  PROVE  CallsInv'
  <1>1. Typed /\ PlaceInv /\ SeqInv /\ PendInv /\ FoundInv
    BY DEF CallsInv
  <1>2. dst[t] \in Bos /\ FALSE \in BOOLEAN
    BY <1>1 DEF PlaceInv
  <1>3. /\ Others(t) /\ PlaceInv'
        /\ pc'[t] = "idle" /\ dst'[t] = 0 /\ Working(t)' = {} /\ Mine(t)' = given'[t]
        /\ given'[t] = IF FALSE \/ pooled THEN given[t] \cup {dst[t]} ELSE given[t]
        /\ dangled' = (dangled \/ (~FALSE /\ pooled)) /\ dangled' \in BOOLEAN
        /\ pc' \in [Threads -> {"idle", "node", "submit", "seqno", "wait"}]
        /\ dst' \in [Threads -> Bos \cup {0}] /\ node' \in [Threads -> Bos \cup {0}]
        /\ job_seqno' \in [Threads -> 0..MaxCalls + 1] /\ given' \in [Threads -> SUBSET Bos]
        /\ \A k \in Kinds : Pending(k)' \subseteq Pending(k)
    BY <1>1, <1>2, ReturnFacts
  <1>4. leaked' = leaked \ gone /\ written' = written \ gone /\ unsubmitted' = unsubmitted \ gone
    BY DEF Forget
  <1>5. Typed'
    BY <1>1, <1>3, <1>4 DEF Typed
  <1>6. SeqInv'
    BY <1>1 DEF SeqInv
  <1>7. PendInv'
    <2>1. calls' \in Nat /\ calls <= calls'
      BY <1>1, CallsAssumption DEF Typed
    <2> QED
      BY <1>1, <1>3, <2>1, PendShrinks
  <1>8. given[t] \subseteq given'[t] /\ 0 \notin live /\ 0 \notin given[t]
    BY <1>1, <1>3, ZeroIsNoBo DEF Typed
  <1>9. FoundInv'
    <2>1. \A b \in live' : b \in leaked \cup Mine(t) \cup {} => b \in leaked' \cup Mine(t)'
      BY <1>3, <1>4, <1>8 DEF Mine
    <2> QED
      BY <1>1, <1>3, <2>1, FoundStep
  <1>10. ASSUME ~dangled' PROVE OwnInv' /\ JobInv' /\ DoneInv'
    <2>1. ~dangled /\ given'[t] = given[t] /\ OwnInv /\ JobInv /\ DoneInv
      BY <1>3, <1>10 DEF CallsInv
    <2>2. /\ Mine(t)' \subseteq Mine(t) \cup {} /\ Mine(t)' \cap gone = {}
          /\ gone \cap live \subseteq Mine(t) /\ Mine(t) \cap leaked = {}
      <3>1. given[t] \cap Working(t) = {} /\ Mine(t) = given[t] \cup Working(t) /\ Mine(t) \cap leaked = {}
        BY <2>1 DEF OwnInv, Mine
      <3> QED
        BY <1>3, <1>8, <2>1, <3>1
    <2>3. OwnInv'
      <3>1. leaked' \subseteq leaked \cup Mine(t) /\ leaked' \cap (gone \cup Mine(t)') = {}
        BY <1>4, <2>2
      <3>2. /\ {} \cap live = {} /\ live' = (live \cup {}) \ gone
            /\ given'[t] \cap Working(t)' = {} /\ (dst'[t] # 0 => dst'[t] # node'[t])
        BY <1>3
      <3> QED
        BY <1>3, <2>1, <2>2, <3>1, <3>2, OwnStep
    <2>4. JobInv'
      BY <1>3, <2>1, JobsStay DEF NoJob
    <2>5. DoneInv'
      <3>1. ASSUME NEW u \in Threads, u # t, NEW b \in Mine(u) \cup {dst[u]}, Complete(b)
            PROVE  Complete(b)'
        <4>1. b \in Bos /\ dst[u] \in Bos \cup {0}
          BY <1>1, <3>1 DEF Complete, Typed
        <4>2. b # 0
          BY <4>1, ZeroIsNoBo
        <4>3. b \in Mine(u)
          BY <3>1, <4>2 DEF Mine, Working
        <4>4. b \notin Mine(t)
          BY <2>1, <3>1, <4>3 DEF OwnInv
        <4>5. b \notin gone
          BY <4>2, <4>4 DEF Mine
        <4> QED
          BY <1>4, <3>1, <4>5 DEF Complete
      <3>2. ASSUME NEW b \in given'[t] PROVE Complete(b)'
        <4>1. Complete(b) /\ b \notin gone
          BY <1>3, <2>1, <2>2, <3>2 DEF DoneInv
        <4> QED
          BY <1>4, <4>1 DEF Complete
      <3> QED
        BY <1>3, <2>1, <3>1, <3>2, DoneStay
    <2> QED
      BY <2>3, <2>4, <2>5
  <1> QED
    BY <1>3, <1>5, <1>6, <1>7, <1>9, <1>10 DEF CallsInv

LEMMA NoJobOutside ==
  ASSUME NEW t, pc[t] \notin {"seqno", "wait"}
  PROVE  NoJob(t)
  BY DEF NoJob, JobOf

\* The jobs in the kernel have numbers above those that are finished.
LEMMA QueuedUnfinished ==
  ASSUME Typed, SeqInv, NEW k \in Kinds, NEW i \in 1..Len(queue[k])
  PROVE  /\ queue[k][i] \in JobSet /\ queue[k][i].seqno \in Nat
         /\ finished[k] < queue[k][i].seqno /\ queue[k][i].seqno <= submitted[k]
         /\ finished[k] \in Nat /\ submitted[k] \in Nat
  <1>1. queue[k] \in Seq(JobSet) /\ Len(queue[k]) \in Nat
    BY LenProperties DEF SeqInv
  <1>2. queue[k][i] \in JobSet
    BY <1>1, ElementOfSeq
  <1>3. finished[k] \in Nat /\ submitted[k] \in Nat
    BY DEF Typed
  <1>4. finished[k] < queue[k][i].seqno /\ queue[k][i].seqno <= submitted[k]
    BY DEF SeqInv
  <1> QED
    BY <1>1, <1>2, <1>3, <1>4 DEF JobSet

LEMMA StepFails ==
  ASSUME CallsInv, NEW t \in Threads, SubmitFails(t) \/ WaitFails(t)
  PROVE  CallsInv'
  <1>1. /\ pc[t] \in {"submit", "wait"} /\ pc[t] # "idle"
        /\ live' = live \ {dst[t], node[t]} /\ Forget({dst[t], node[t]})
        /\ Return(t, dst[t], FALSE) /\ UNCHANGED <<pooled, cancelled, queue, submitted, finished, kind, calls>>
    BY DEF SubmitFails, WaitFails
  <1>2. {dst[t], node[t]} \ {0} = Working(t)
    BY DEF Working
  <1>3. NoJob(t)
    <2>1. CASE pc[t] = "submit"
      BY <2>1, NoJobOutside
    <2>2. CASE pc[t] = "wait"
      <3>1. job_seqno[t] > submitted[kind[t]]
        BY <2>2 DEF SubmitFails, WaitFails
      <3>2. job_seqno[t] \in Nat /\ kind[t] \in Kinds /\ submitted[kind[t]] \in Nat
        BY CallsAssumption DEF CallsInv, Typed
      <3> QED
        BY <2>2, <3>1, <3>2 DEF NoJob, JobOf
    <2> QED
      BY <1>1, <2>1, <2>2
  <1> QED
    BY <1>1, <1>2, <1>3, FailReturn

\* A result: the node is destroyed (gone) or nobody has it any more (lost).
LEMMA GoodReturn ==
  ASSUME CallsInv, NEW t \in Threads, pc[t] # "idle", NEW gone, NEW lost,
         gone \subseteq {node[t]}, lost \subseteq {node[t]} \ {0}, gone \cap lost = {},
         {node[t]} \ {0} \subseteq gone \cup lost,
         live' = live \ gone, leaked' = (leaked \cup lost) \ gone,
         written' \cup unsubmitted' \subseteq Bos,
         \A b : b \notin gone /\ Complete(b) => Complete(b)',
         Return(t, dst[t], TRUE),
         UNCHANGED <<pooled, cancelled, queue, submitted, finished, kind, calls>>,
         ~dangled => NoJob(t) /\ dst[t] \in written' \cup unsubmitted'
  PROVE  CallsInv'
  <1>1. Typed /\ PlaceInv /\ SeqInv /\ PendInv /\ FoundInv
    BY DEF CallsInv
  <1>2. dst[t] \in Bos /\ dst[t] # 0 /\ node[t] \in Bos \cup {0} /\ TRUE \in BOOLEAN
    BY <1>1, ZeroIsNoBo DEF PlaceInv, Typed
  <1>3. /\ Others(t) /\ PlaceInv'
        /\ pc'[t] = "idle" /\ dst'[t] = 0 /\ Working(t)' = {} /\ Mine(t)' = given'[t]
        /\ given'[t] = IF TRUE \/ pooled THEN given[t] \cup {dst[t]} ELSE given[t]
        /\ dangled' = (dangled \/ (~TRUE /\ pooled)) /\ dangled' \in BOOLEAN
        /\ pc' \in [Threads -> {"idle", "node", "submit", "seqno", "wait"}]
        /\ dst' \in [Threads -> Bos \cup {0}] /\ node' \in [Threads -> Bos \cup {0}]
        /\ job_seqno' \in [Threads -> 0..MaxCalls + 1] /\ given' \in [Threads -> SUBSET Bos]
        /\ \A k \in Kinds : Pending(k)' \subseteq Pending(k)
    BY <1>1, <1>2, ReturnFacts
  <1>4. Mine(t)' = given[t] \cup {dst[t]} /\ Mine(t) = given[t] \cup Working(t)
    BY <1>3 DEF Mine
  <1>5. Typed'
    <2>1. live' \subseteq Bos /\ leaked' \subseteq Bos
      BY <1>1, <1>2 DEF Typed
    <2> QED
      BY <1>1, <1>3, <2>1 DEF Typed
  <1>6. SeqInv'
    BY <1>1 DEF SeqInv
  <1>7. PendInv'
    <2>1. calls' \in Nat /\ calls <= calls'
      BY <1>1, CallsAssumption DEF Typed
    <2> QED
      BY <1>1, <1>3, <2>1, PendShrinks
  <1>8. 0 \notin live /\ 0 \notin given[t]
    BY <1>1, ZeroIsNoBo DEF Typed
  <1>9. FoundInv'
    <2>1. ASSUME NEW b \in live', b \in leaked \cup Mine(t) \cup {} PROVE b \in leaked' \cup Mine(t)'
      <3>1. b \in leaked \/ b \in given[t] \/ b = dst[t] \/ (b = node[t] /\ b # 0)
        BY <1>4, <2>1 DEF Working
      <3>2. b \notin gone
        BY <2>1
      <3> QED
        BY <1>4, <3>1, <3>2
    <2>2. live' \subseteq live \cup {}
      OBVIOUS
    <2>3. \A b \in live' : b \in leaked \cup Mine(t) \cup {} => b \in leaked' \cup Mine(t)'
      BY <2>1
    <2> QED
      BY <1>1, <1>3, <2>2, <2>3, FoundStep
  <1>10. ASSUME ~dangled' PROVE OwnInv' /\ JobInv' /\ DoneInv'
    <2>1. ~dangled /\ OwnInv /\ JobInv /\ DoneInv
      BY <1>3, <1>10 DEF CallsInv
    <2>2. /\ given[t] \cap Working(t) = {} /\ Mine(t) \cap leaked = {} /\ dst[t] # node[t]
          /\ dst[t] \in Working(t) /\ lost \subseteq Working(t) /\ gone \ {0} \subseteq Working(t)
      BY <1>2, <2>1 DEF OwnInv, Working
    <2>3. OwnInv'
      <3>1. Mine(t)' \subseteq Mine(t) \cup {} /\ gone \cap live \subseteq Mine(t)
        BY <1>4, <1>8, <2>2
      <3>2. Mine(t)' \cap gone = {} /\ Mine(t)' \cap lost = {}
        BY <1>2, <1>4, <1>8, <2>2
      <3>3. leaked' \subseteq leaked \cup Mine(t) /\ leaked' \cap (gone \cup Mine(t)') = {}
        BY <1>4, <2>2, <3>1, <3>2
      <3>4. /\ {} \cap live = {} /\ live' = (live \cup {}) \ gone
            /\ given'[t] \cap Working(t)' = {} /\ (dst'[t] # 0 => dst'[t] # node'[t])
        BY <1>3
      <3> QED
        BY <1>3, <2>1, <3>1, <3>2, <3>3, <3>4, OwnStep
    <2>4. JobInv'
      BY <1>3, <2>1, JobsStay DEF NoJob
    <2>5. DoneInv'
      <3>1. ASSUME NEW u \in Threads, u # t, NEW b \in Mine(u) \cup {dst[u]}, Complete(b)
            PROVE  Complete(b)'
        <4>1. b \in Bos /\ dst[u] \in Bos \cup {0}
          BY <1>1, <3>1 DEF Complete, Typed
        <4>2. b # 0
          BY <4>1, ZeroIsNoBo
        <4>3. b \in Mine(u)
          BY <3>1, <4>2 DEF Mine, Working
        <4>4. b \notin Mine(t)
          BY <2>1, <3>1, <4>3 DEF OwnInv
        <4>5. b \notin gone
          BY <1>4, <2>2, <4>2, <4>4
        <4> QED
          BY <3>1, <4>5
      <3>2. ASSUME NEW b \in given'[t] PROVE Complete(b)'
        <4>1. CASE b = dst[t]
          BY <2>1, <4>1 DEF Complete
        <4>2. CASE b \in given[t]
          <5>1. Complete(b) /\ b \notin gone
            BY <1>8, <2>1, <2>2, <4>2 DEF DoneInv
          <5> QED
            BY <5>1
        <4> QED
          BY <1>3, <3>2, <4>1, <4>2
      <3> QED
        BY <1>3, <2>1, <3>1, <3>2, DoneStay
    <2> QED
      BY <2>3, <2>4, <2>5
  <1> QED
    BY <1>3, <1>5, <1>6, <1>7, <1>9, <1>10 DEF CallsInv

LEMMA StepCopy ==
  ASSUME CallsInv, NEW t \in Threads, CopyRgba(t)
  PROVE  CallsInv'
  <1>1. /\ pc[t] = "submit" /\ pc[t] # "idle" /\ node[t] = 0 /\ dst[t] \in Bos
        /\ written \cup unsubmitted \subseteq Bos
    BY DEF CallsInv, PlaceInv, Typed, CopyRgba
  <1>2. /\ live' = live \ {} /\ leaked' = (leaked \cup {}) \ {} /\ written' = written \cup {dst[t]}
        /\ unsubmitted' = unsubmitted
        /\ Return(t, dst[t], TRUE) /\ UNCHANGED <<pooled, cancelled, queue, submitted, finished, kind, calls>>
    BY DEF CopyRgba
  <1>3. \A b : b \notin {} /\ Complete(b) => Complete(b)'
    BY <1>2 DEF Complete
  <1>4. NoJob(t)
    BY <1>1, NoJobOutside
  <1>5. {} \subseteq {node[t]} /\ {} \subseteq {node[t]} \ {0} /\ {} \cap {} = {} /\ {node[t]} \ {0} \subseteq {} \cup {}
    BY <1>1
  <1>6. written' \cup unsubmitted' \subseteq Bos /\ dst[t] \in written' \cup unsubmitted'
    BY <1>1, <1>2
  <1> QED
    BY <1>1, <1>2, <1>3, <1>4, <1>5, <1>6, GoodReturn

LEMMA StepDone ==
  ASSUME CallsInv, NEW t \in Threads, WaitDone(t)
  PROVE  CallsInv'
  <1>1. /\ pc[t] = "wait" /\ pc[t] # "idle" /\ dst[t] \in Bos /\ node[t] \in Bos \cup {0}
        /\ (node[t] = 0 <=> kind[t] = "cvt") /\ kind[t] \in Kinds
        /\ written \cup unsubmitted \subseteq Bos
        /\ Return(t, dst[t], TRUE) /\ UNCHANGED <<pooled, cancelled, queue, submitted, finished, kind, calls>>
    BY DEF CallsInv, PlaceInv, Typed, WaitDone
  <1>2. NoJob(t)
    <2> SUFFICES ASSUME NEW i \in 1..Len(queue[kind[t]]), JobOf(t, queue[kind[t]][i]) PROVE FALSE
      BY <1>1 DEF NoJob
    <2>1. job_seqno[t] \in Nat /\ finished[kind[t]] >= job_seqno[t]
      BY CallsAssumption DEF CallsInv, Typed, WaitDone
    <2>2. /\ queue[kind[t]][i].seqno \in Nat /\ finished[kind[t]] < queue[kind[t]][i].seqno
          /\ finished[kind[t]] \in Nat
      BY <1>1, QueuedUnfinished DEF CallsInv
    <2>3. queue[kind[t]][i].seqno <= job_seqno[t]
      BY <1>1 DEF JobOf
    <2> QED
      BY <2>1, <2>2, <2>3
  <1>3. ~dangled => Complete(dst[t]) /\ dst[t] # node[t]
    BY <1>1, <1>2, ZeroIsNoBo DEF CallsInv, DoneInv, NoJob, OwnInv
  <1>4. CASE kind[t] = "perspective"
    <2>1. live' = live \ {} /\ leaked' = (leaked \cup {node[t]}) \ {} /\ UNCHANGED <<written, unsubmitted>>
      BY <1>4 DEF WaitDone
    <2>2. \A b : b \notin {} /\ Complete(b) => Complete(b)'
      BY <2>1 DEF Complete
    <2>3. /\ {} \subseteq {node[t]} /\ {node[t]} \subseteq {node[t]} \ {0} /\ {} \cap {node[t]} = {}
          /\ {node[t]} \ {0} \subseteq {} \cup {node[t]}
      BY <1>1, <1>4
    <2>4. written' \cup unsubmitted' \subseteq Bos /\ (~dangled => dst[t] \in written' \cup unsubmitted')
      BY <1>1, <1>3, <2>1 DEF Complete
    <2> QED
      BY <1>1, <1>2, <2>1, <2>2, <2>3, <2>4, GoodReturn
  <1>5. CASE kind[t] # "perspective"
    <2>1. /\ live' = live \ {node[t]} /\ leaked' = (leaked \cup {}) \ {node[t]}
          /\ written' = written \ {node[t]} /\ unsubmitted' = unsubmitted \ {node[t]}
      BY <1>5 DEF WaitDone, Forget
    <2>2. \A b : b \notin {node[t]} /\ Complete(b) => Complete(b)'
      BY <2>1 DEF Complete
    <2>3. /\ {node[t]} \subseteq {node[t]} /\ {} \subseteq {node[t]} \ {0} /\ {node[t]} \cap {} = {}
          /\ {node[t]} \ {0} \subseteq {node[t]} \cup {}
      OBVIOUS
    <2>4. written' \cup unsubmitted' \subseteq Bos /\ (~dangled => dst[t] \in written' \cup unsubmitted')
      BY <1>1, <1>3, <2>1 DEF Complete
    <2> QED
      BY <1>1, <1>2, <2>1, <2>2, <2>3, <2>4, GoodReturn
  <1> QED
    BY <1>4, <1>5

-----------------------------------------------------------------------------
(* The other steps of a call.                                              *)

\* A call has a new buffer in its hands.
LEMMA Takes ==
  ASSUME CallsInv, NEW t \in Threads, Others(t), NEW b \in Bos, b \notin live,
         live' = live \cup {b}, Working(t)' = Working(t) \cup {b},
         ~dangled => dst'[t] # node'[t],
         pc[t] \notin {"seqno", "wait"}, pc'[t] \notin {"seqno", "wait"},
         UNCHANGED <<queue, submitted, given, leaked, written, unsubmitted, dangled>>
  PROVE  FoundInv' /\ (~dangled' => OwnInv' /\ JobInv' /\ DoneInv')
  <1>1. Mine(t)' = Mine(t) \cup {b} /\ given'[t] = given[t] /\ given[t] \subseteq Mine(t)
    BY DEF Mine
  <1>2. FoundInv'
    BY <1>1, FoundStep DEF CallsInv
  <1>3. ASSUME ~dangled' PROVE OwnInv' /\ JobInv' /\ DoneInv'
    <2>1. ~dangled /\ OwnInv /\ JobInv /\ DoneInv
      BY <1>3 DEF CallsInv
    <2>2. /\ Mine(t) \subseteq live /\ leaked \subseteq live /\ Mine(t) \cap leaked = {}
          /\ given[t] \cap Working(t) = {}
      BY <2>1 DEF OwnInv
    <2>3. OwnInv'
      <3>1. /\ {b} \cap live = {} /\ live' = (live \cup {b}) \ {} /\ {} \cap live \subseteq Mine(t)
            /\ Mine(t)' \subseteq Mine(t) \cup {b} /\ Mine(t)' \cap {} = {}
        BY <1>1
      <3>2. leaked' \subseteq leaked \cup Mine(t) /\ leaked' \cap ({} \cup Mine(t)') = {}
        BY <1>1, <2>2
      <3>3. given'[t] \cap Working(t)' = {}
        BY <1>1, <2>2
      <3>4. dst'[t] # 0 => dst'[t] # node'[t]
        BY <2>1
      <3> QED
        BY <2>1, <3>1, <3>2, <3>3, <3>4, OwnStep
    <2>4. JobInv'
      BY <2>1, JobsStay, NoJobOutside DEF NoJob
    <2>5. \A c : Complete(c) => Complete(c)'
      BY DEF Complete
    <2>6. DoneInv'
      BY <1>1, <2>1, <2>5, DoneStay DEF DoneInv
    <2> QED
      BY <2>3, <2>4, <2>6
  <1> QED
    BY <1>2, <1>3

LEMMA StepCreateDst ==
  ASSUME CallsInv, NEW t \in Threads, NEW k \in Kinds, iaic_create_dst(t, k)
  PROVE  CallsInv'
  <1>1. Typed /\ PlaceInv /\ SeqInv /\ PendInv
    BY DEF CallsInv
  <1>2. PICK b \in Bos : Fresh(b) /\ dst' = [dst EXCEPT ![t] = b] /\ live' = live \cup {b}
    BY DEF iaic_create_dst
  <1>3. PICK l \in {"node", "submit"} : (l = "submit" <=> k = "cvt") /\ pc' = [pc EXCEPT ![t] = l]
    BY DEF iaic_create_dst, CallsGoto
  <1>4. /\ pc[t] = "idle" /\ dst[t] = 0 /\ node[t] = 0 /\ kind' = [kind EXCEPT ![t] = k]
        /\ calls < MaxCalls /\ calls' = calls + 1
        /\ UNCHANGED <<pooled, cancelled, queue, submitted, finished, node, job_seqno, given, leaked,
                       written, unsubmitted, dangled>>
    BY <1>1 DEF iaic_create_dst, PlaceInv
  <1>5. pc'[t] = l /\ dst'[t] = b /\ node'[t] = 0 /\ kind'[t] = k /\ Others(t) /\ b # 0 /\ b \notin live
    BY <1>1, <1>2, <1>3, <1>4, ZeroIsNoBo DEF Typed, Others, Fresh
  <1>6. Typed'
    <2>1. calls' \in 0..MaxCalls
      BY <1>1, <1>4, CallsAssumption DEF Typed
    <2> QED
      BY <1>1, <1>2, <1>3, <1>4, <2>1 DEF Typed
  <1>7. PlaceInv'
    BY <1>1, <1>3, <1>4, <1>5 DEF PlaceInv, Others
  <1>8. SeqInv'
    BY <1>1, <1>4 DEF SeqInv
  <1>9. PendInv'
    <2> SUFFICES ASSUME NEW q \in Kinds
                 PROVE  IsFiniteSet(Pending(q)') /\ submitted'[q] + Cardinality(Pending(q)') <= calls'
      BY DEF PendInv
    <2>1. /\ IsFiniteSet(Pending(q)) /\ submitted[q] + Cardinality(Pending(q)) <= calls
          /\ submitted[q] \in Nat /\ calls \in Nat /\ Cardinality(Pending(q)) \in Nat
      BY <1>1, FS_CardinalityType, CallsAssumption DEF Typed, PendInv
    <2>2. CASE q = k
      <3>1. Pending(q)' = Pending(q) \cup {t} /\ t \notin Pending(q)
        BY <1>3, <1>4, <1>5, <2>2 DEF Pending, Others
      <3>2. IsFiniteSet(Pending(q)') /\ Cardinality(Pending(q)') = Cardinality(Pending(q)) + 1
        BY <2>1, <3>1, FS_AddElement
      <3> QED
        BY <1>4, <2>1, <3>2
    <2>3. CASE q # k
      <3>1. Pending(q)' = Pending(q)
        BY <1>3, <1>4, <1>5, <2>3 DEF Pending, Others
      <3> QED
        BY <1>4, <2>1, <3>1
    <2> QED
      BY <2>2, <2>3
  <1>10. Working(t)' = Working(t) \cup {b}
    BY <1>4, <1>5 DEF Working
  <1>11. FoundInv' /\ (~dangled' => OwnInv' /\ JobInv' /\ DoneInv')
    BY <1>2, <1>3, <1>4, <1>5, <1>10, Takes
  <1> QED
    BY <1>6, <1>7, <1>8, <1>9, <1>11 DEF CallsInv

LEMMA StepCreateNode ==
  ASSUME CallsInv, NEW t \in Threads, iaic_create_node(t)
  PROVE  CallsInv'
  <1>1. Typed /\ PlaceInv /\ SeqInv /\ PendInv
    BY DEF CallsInv
  <1>2. /\ pc[t] = "node" /\ pc[t] # "idle" /\ node[t] = 0 /\ dst[t] \in Bos /\ kind[t] # "cvt"
        /\ UNCHANGED <<pooled, cancelled, queue, submitted, finished, kind, calls>>
    BY <1>1 DEF iaic_create_node, PlaceInv
  <1>3. ASSUME NEW b \in Bos, Fresh(b), node' = [node EXCEPT ![t] = b], live' = live \cup {b},
               CallsGoto(t, "submit"),
               UNCHANGED <<dst, job_seqno, given, leaked, written, unsubmitted, dangled>>
        PROVE  CallsInv'
    <2>1. /\ pc' = [pc EXCEPT ![t] = "submit"] /\ pc'[t] = "submit" /\ node'[t] = b /\ Others(t)
          /\ b # 0 /\ b \notin live
      BY <1>1, <1>2, <1>3, ZeroIsNoBo DEF Typed, Others, Fresh, CallsGoto
    <2>2. Typed'
      BY <1>1, <1>2, <1>3, <2>1 DEF Typed
    <2>3. PlaceInv'
      BY <1>1, <1>2, <1>3, <2>1 DEF PlaceInv, Others
    <2>4. SeqInv'
      BY <1>1, <1>2 DEF SeqInv
    <2>5. PendInv'
      <3>1. \A q \in Kinds : Pending(q)' \subseteq Pending(q)
        BY <1>2, <2>1 DEF Pending, Others
      <3>2. calls' \in Nat /\ calls <= calls'
        BY <1>1, <1>2, CallsAssumption DEF Typed
      <3> QED
        BY <1>1, <1>2, <3>1, <3>2, PendShrinks
    <2>6. Working(t)' = Working(t) \cup {b}
      BY <1>2, <1>3, <2>1 DEF Working
    <2>7. ~dangled => dst'[t] # node'[t]
      <3>1. ~dangled => dst[t] \in live
        BY <1>2, ZeroIsNoBo DEF CallsInv, OwnInv, Mine, Working
      <3> QED
        BY <1>3, <2>1, <3>1
    <2>8. FoundInv' /\ (~dangled' => OwnInv' /\ JobInv' /\ DoneInv')
      BY <1>2, <1>3, <2>1, <2>6, <2>7, Takes
    <2> QED
      BY <2>2, <2>3, <2>4, <2>5, <2>8 DEF CallsInv
  <1>4. ASSUME live' = live \ {dst[t]}, Forget({dst[t]}), Return(t, dst[t], FALSE)
        PROVE  CallsInv'
    <2>1. {dst[t]} \ {0} = Working(t)
      BY <1>2 DEF Working
    <2>2. NoJob(t)
      BY <1>2, NoJobOutside
    <2> QED
      BY <1>2, <1>4, <2>1, <2>2, FailReturn
  <1> QED
    BY <1>3, <1>4 DEF iaic_create_node

\* A thread that is in no call has buffers of results only.
LEMMA IdleHands ==
  ASSUME Typed, PlaceInv, NEW t \in Threads, pc[t] = "idle"
  PROVE  Working(t) = {} /\ Mine(t) = given[t] /\ NoJob(t) /\ 0 \notin given[t]
  <1>1. dst[t] = 0 /\ node[t] = 0 /\ 0 \notin given[t]
    BY ZeroIsNoBo DEF PlaceInv, Typed
  <1> QED
    BY <1>1, NoJobOutside DEF Working, Mine

LEMMA StepImgRead ==
  ASSUME CallsInv, NEW t \in Threads, iaic_img_read(t)
  PROVE  CallsInv'
  <1>1. Typed /\ PlaceInv /\ SeqInv /\ PendInv /\ FoundInv
    BY DEF CallsInv
  <1>2. /\ pc[t] = "idle" /\ calls < MaxCalls /\ calls' = calls + 1
        /\ UNCHANGED <<pooled, cancelled, queue, submitted, finished, kind, pc, dst, node, job_seqno, leaked,
                       unsubmitted>>
    BY DEF iaic_img_read
  <1>3. calls' \in 0..MaxCalls /\ calls' \in Nat /\ calls <= calls'
    BY <1>1, <1>2, CallsAssumption DEF Typed
  <1>4. PlaceInv' /\ SeqInv'
    BY <1>1, <1>2 DEF PlaceInv, SeqInv
  <1>5. PendInv'
    <2>1. \A q \in Kinds : Pending(q)' \subseteq Pending(q)
      BY <1>2 DEF Pending
    <2> QED
      BY <1>1, <1>2, <1>3, <2>1, PendShrinks
  <1>6. /\ Working(t) = {} /\ Mine(t) = given[t] /\ NoJob(t) /\ dst[t] = 0 /\ dst'[t] = 0
        /\ Working(t)' = {} /\ Mine(t)' = given'[t]
    BY <1>1, <1>2, IdleHands DEF Working, Mine, PlaceInv
  <1>7. PICK b \in Bos :
          /\ Fresh(b)
          /\ \/ /\ live' = live \cup {b} /\ written' = written \cup {b}
                /\ given' = [given EXCEPT ![t] = given[t] \cup {b}]
                /\ UNCHANGED dangled
             \/ /\ given' = [given EXCEPT ![t] = IF pooled THEN given[t] \cup {b} ELSE given[t]]
                /\ dangled' = (dangled \/ pooled)
                /\ UNCHANGED <<live, written>>
    BY DEF iaic_img_read
  <1>8. b \notin live /\ given[t] \in SUBSET Bos /\ given[t] \cup {b} \in SUBSET Bos
    BY <1>1, <1>7 DEF Fresh, Typed
  <1>9. CASE /\ live' = live \cup {b} /\ written' = written \cup {b}
             /\ given' = [given EXCEPT ![t] = given[t] \cup {b}]
             /\ UNCHANGED dangled
    <2>1. given'[t] = given[t] \cup {b} /\ Others(t) /\ given' \in [Threads -> SUBSET Bos]
      BY <1>1, <1>2, <1>8, <1>9 DEF Typed, Others
    <2>2. Typed'
      BY <1>1, <1>2, <1>3, <1>9, <2>1 DEF Typed
    <2>3. FoundInv'
      <3>1. \A c \in live' : c \in leaked \cup Mine(t) \cup {b} => c \in leaked' \cup Mine(t)'
        BY <1>2, <1>6, <2>1
      <3> QED
        BY <1>1, <1>9, <2>1, <3>1, FoundStep
    <2>4. ASSUME ~dangled' PROVE OwnInv' /\ JobInv' /\ DoneInv'
      <3>1. ~dangled /\ OwnInv /\ JobInv /\ DoneInv
        BY <1>9, <2>4 DEF CallsInv
      <3>2. OwnInv'
        <4>1. Mine(t) \cap leaked = {} /\ leaked \subseteq live
          BY <3>1 DEF OwnInv
        <4>2. /\ {b} \cap live = {} /\ live' = (live \cup {b}) \ {} /\ {} \cap live \subseteq Mine(t)
              /\ Mine(t)' \subseteq Mine(t) \cup {b} /\ Mine(t)' \cap {} = {}
          BY <1>6, <1>8, <1>9, <2>1
        <4>3. leaked' \subseteq leaked \cup Mine(t) /\ leaked' \cap ({} \cup Mine(t)') = {}
          BY <1>2, <1>6, <1>8, <2>1, <4>1
        <4>4. given'[t] \cap Working(t)' = {} /\ (dst'[t] # 0 => dst'[t] # node'[t])
          BY <1>6
        <4> QED
          BY <2>1, <3>1, <4>2, <4>3, <4>4, OwnStep
      <3>3. JobInv'
        BY <1>2, <1>6, <2>1, <3>1, JobsStay DEF NoJob
      <3>4. \A c : Complete(c) => Complete(c)'
        BY <1>2, <1>9 DEF Complete
      <3>5. \A c \in given'[t] : Complete(c)'
        <4>1. Complete(b)'
          BY <1>9 DEF Complete
        <4> QED
          BY <2>1, <3>1, <3>4, <4>1 DEF DoneInv
      <3>6. DoneInv'
        BY <1>2, <2>1, <3>1, <3>4, <3>5, DoneStay
      <3> QED
        BY <3>2, <3>3, <3>6
    <2> QED
      BY <1>4, <1>5, <2>2, <2>3, <2>4 DEF CallsInv
  <1>10. CASE /\ given' = [given EXCEPT ![t] = IF pooled THEN given[t] \cup {b} ELSE given[t]]
              /\ dangled' = (dangled \/ pooled)
              /\ UNCHANGED <<live, written>>
    <2>1. /\ given'[t] = IF pooled THEN given[t] \cup {b} ELSE given[t]
          /\ Others(t) /\ given' \in [Threads -> SUBSET Bos]
      <3>1. (IF pooled THEN given[t] \cup {b} ELSE given[t]) \in SUBSET Bos
        BY <1>8
      <3> QED
        BY <1>1, <1>2, <1>10, <3>1 DEF Typed, Others
    <2>2. dangled' \in BOOLEAN
      <3>1. dangled' = TRUE \/ dangled' = FALSE
        BY <1>10, Zenon
      <3> QED
        BY <3>1, Zenon
    <2>3. Typed'
      BY <1>1, <1>2, <1>3, <1>10, <2>1, <2>2 DEF Typed
    <2>4. FoundInv'
      <3>1. \A c \in live' : c \in leaked \cup Mine(t) \cup {} => c \in leaked' \cup Mine(t)'
        BY <1>2, <1>6, <2>1
      <3>2. live' \subseteq live \cup {}
        BY <1>10
      <3> QED
        BY <1>1, <2>1, <3>1, <3>2, FoundStep
    <2>5. ASSUME ~dangled' PROVE OwnInv' /\ JobInv' /\ DoneInv'
      <3>1. ~dangled /\ ~pooled /\ OwnInv /\ JobInv /\ DoneInv
        BY <1>10, <2>5 DEF CallsInv
      <3>2. given' = given
        <4>1. \A u \in Threads : given'[u] = given[u]
          BY <2>1, <3>1 DEF Others
        <4> QED
          BY <1>1, <2>1, <4>1 DEF Typed
      <3>3. OwnInv'
        BY <1>2, <1>10, <3>1, <3>2 DEF OwnInv, Mine, Working
      <3>4. JobInv'
        BY <1>2, <1>6, <2>1, <3>1, JobsStay DEF NoJob
      <3>5. \A c : Complete(c) => Complete(c)'
        BY <1>2, <1>10 DEF Complete
      <3>6. \A c \in given'[t] : Complete(c)'
        BY <3>1, <3>2, <3>5 DEF DoneInv
      <3>7. DoneInv'
        BY <1>2, <2>1, <3>1, <3>5, <3>6, DoneStay
      <3> QED
        BY <3>3, <3>4, <3>7
    <2> QED
      BY <1>4, <1>5, <2>3, <2>4, <2>5 DEF CallsInv
  <1> QED
    BY <1>7, <1>9, <1>10

LEMMA StepDestroy ==
  ASSUME CallsInv, NEW t \in Threads, NEW b \in given[t], iaic_destroy_bo(t, b)
  PROVE  CallsInv'
  <1>1. Typed /\ PlaceInv /\ SeqInv /\ PendInv /\ FoundInv
    BY DEF CallsInv
  <1>2. /\ pc[t] = "idle" /\ given' = [given EXCEPT ![t] = given[t] \ {b}] /\ live' = live \ {b}
        /\ leaked' = leaked \ {b} /\ written' = written \ {b} /\ unsubmitted' = unsubmitted \ {b}
        /\ UNCHANGED <<pooled, cancelled, queue, submitted, finished, kind, pc, dst, node, job_seqno, calls, dangled>>
    BY DEF iaic_destroy_bo, Forget
  <1>3. given'[t] = given[t] \ {b} /\ Others(t)
    BY <1>1, <1>2 DEF Typed, Others
  <1>4. /\ Working(t) = {} /\ Mine(t) = given[t] /\ NoJob(t) /\ dst[t] = 0 /\ dst'[t] = 0
        /\ Working(t)' = {} /\ Mine(t)' = given'[t]
    BY <1>1, <1>2, IdleHands DEF Working, Mine, PlaceInv
  <1>5. Typed'
    BY <1>1, <1>2 DEF Typed
  <1>6. PlaceInv' /\ SeqInv'
    BY <1>1, <1>2 DEF PlaceInv, SeqInv
  <1>7. PendInv'
    <2>1. \A q \in Kinds : Pending(q)' \subseteq Pending(q)
      BY <1>2 DEF Pending
    <2>2. calls' \in Nat /\ calls <= calls'
      BY <1>1, <1>2, CallsAssumption DEF Typed
    <2> QED
      BY <1>1, <1>2, <2>1, <2>2, PendShrinks
  <1>8. FoundInv'
    <2>1. \A c \in live' : c \in leaked \cup Mine(t) \cup {} => c \in leaked' \cup Mine(t)'
      BY <1>2, <1>3, <1>4
    <2>2. live' \subseteq live \cup {}
      BY <1>2
    <2> QED
      BY <1>1, <1>3, <2>1, <2>2, FoundStep
  <1>9. ASSUME ~dangled' PROVE OwnInv' /\ JobInv' /\ DoneInv'
    <2>1. ~dangled /\ OwnInv /\ JobInv /\ DoneInv
      BY <1>2, <1>9 DEF CallsInv
    <2>2. OwnInv'
      <3>1. /\ {} \cap live = {} /\ live' = (live \cup {}) \ {b} /\ {b} \cap live \subseteq Mine(t)
            /\ Mine(t)' \subseteq Mine(t) \cup {} /\ Mine(t)' \cap {b} = {}
        BY <1>2, <1>3, <1>4
      <3>2. Mine(t) \cap leaked = {}
        BY <2>1 DEF OwnInv
      <3>3. leaked' \subseteq leaked \cup Mine(t) /\ leaked' \cap ({b} \cup Mine(t)') = {}
        BY <1>2, <1>3, <1>4, <3>2
      <3>4. given'[t] \cap Working(t)' = {} /\ (dst'[t] # 0 => dst'[t] # node'[t])
        BY <1>4
      <3> QED
        BY <1>3, <2>1, <3>1, <3>3, <3>4, OwnStep
    <2>3. JobInv'
      BY <1>2, <1>3, <1>4, <2>1, JobsStay DEF NoJob
    <2>4. \A c : c # b /\ Complete(c) => Complete(c)'
      BY <1>2 DEF Complete
    <2>5. DoneInv'
      <3>1. ASSUME NEW u \in Threads, u # t, NEW c \in Mine(u) \cup {dst[u]}, Complete(c)
            PROVE  Complete(c)'
        <4>1. c \in Bos /\ dst[u] \in Bos \cup {0}
          BY <1>1, <3>1 DEF Complete, Typed
        <4>2. c # 0
          BY <4>1, ZeroIsNoBo
        <4>3. c \in Mine(u)
          BY <3>1, <4>2 DEF Mine, Working
        <4>4. c \notin Mine(t)
          BY <2>1, <3>1, <4>3 DEF OwnInv
        <4> QED
          BY <1>4, <2>4, <3>1, <4>4
      <3>2. \A c \in given'[t] : Complete(c)'
        BY <1>3, <2>1, <2>4 DEF DoneInv
      <3> QED
        BY <1>2, <1>3, <2>1, <3>1, <3>2, DoneStay
    <2> QED
      BY <2>2, <2>3, <2>5
  <1> QED
    BY <1>5, <1>6, <1>7, <1>8, <1>9 DEF CallsInv

\* The buffers stay where they are; the thread moves on in its call.
LEMMA MovesOn ==
  ASSUME CallsInv, NEW t \in Threads, Others(t), UNCHANGED <<live, leaked, given, dst, node, dangled>>
  PROVE  FoundInv' /\ (~dangled' => OwnInv')
  <1>1. \A u \in Threads : Mine(u)' = Mine(u) /\ Working(u)' = Working(u)
    BY DEF Mine, Working
  <1>2. FoundInv'
    BY <1>1 DEF CallsInv, FoundInv
  <1>3. ~dangled' => OwnInv'
    BY <1>1 DEF CallsInv, OwnInv
  <1> QED
    BY <1>2, <1>3

LEMMA StepSeqno ==
  ASSUME CallsInv, NEW t \in Threads, SubmitSeqno(t)
  PROVE  CallsInv'
  <1>1. Typed /\ PlaceInv /\ SeqInv /\ PendInv
    BY DEF CallsInv
  <1>2. /\ pc[t] = "seqno" /\ job_seqno' = [job_seqno EXCEPT ![t] = submitted[kind[t]]]
        /\ pc' = [pc EXCEPT ![t] = "wait"]
        /\ UNCHANGED <<pooled, cancelled, live, queue, submitted, finished, kind, dst, node, given, calls, leaked,
                       written, unsubmitted, dangled>>
    BY DEF SubmitSeqno, CallsGoto
  <1>3. kind[t] \in Kinds /\ submitted[kind[t]] \in Nat /\ submitted[kind[t]] \in 0..MaxCalls + 1
    <2>1. kind[t] \in Kinds /\ submitted[kind[t]] \in 0..MaxCalls
      BY <1>1, JobsTyped DEF Typed
    <2> QED
      BY <2>1, CallsAssumption
  <1>4. pc'[t] = "wait" /\ job_seqno'[t] = submitted[kind[t]] /\ Others(t) /\ Working(t)' = Working(t)
    BY <1>1, <1>2 DEF Typed, Others, Working
  <1>5. Typed' /\ PlaceInv' /\ SeqInv'
    <2>1. Typed'
      BY <1>1, <1>2, <1>3 DEF Typed
    <2>2. PlaceInv'
      BY <1>1, <1>2, <1>4 DEF PlaceInv, Others
    <2>3. SeqInv'
      BY <1>1, <1>2 DEF SeqInv
    <2> QED
      BY <2>1, <2>2, <2>3
  <1>6. PendInv'
    <2>1. \A q \in Kinds : Pending(q)' \subseteq Pending(q)
      BY <1>2, <1>4 DEF Pending, Others
    <2>2. calls' \in Nat /\ calls <= calls'
      BY <1>1, <1>2, CallsAssumption DEF Typed
    <2> QED
      BY <1>1, <1>2, <2>1, <2>2, PendShrinks
  <1>7. FoundInv' /\ (~dangled' => OwnInv')
    BY <1>2, <1>4, MovesOn
  <1>8. ASSUME ~dangled' PROVE JobInv' /\ DoneInv'
    <2>1. ~dangled /\ JobInv /\ DoneInv
      BY <1>2, <1>8 DEF CallsInv
    <2>2. ASSUME NEW i \in 1..Len(queue[kind[t]]), JobOf(t, queue[kind[t]][i])
          PROVE  (JobOf(t, queue[kind[t]][i]))'
      <3>1. queue[kind[t]][i].seqno <= submitted[kind[t]] /\ queue[kind[t]][i].seqno \in Nat
        BY <1>1, <1>3, QueuedUnfinished
      <3> QED
        BY <1>2, <1>3, <1>4, <2>2, <3>1 DEF JobOf
    <2>3. JobInv'
      BY <1>2, <1>4, <2>1, <2>2, JobsStay
    <2>4. \A c : Complete(c) => Complete(c)'
      BY <1>2 DEF Complete
    <2>5. \A c \in given'[t] : Complete(c)'
      BY <1>2, <2>1, <2>4 DEF DoneInv
    <2>6. \/ Complete(dst[t])'
          \/ \E i \in 1..Len(queue[kind[t]]) : UNCHANGED kind[t] /\ (JobOf(t, queue[kind[t]][i]))'
      <3>1. Complete(dst[t]) => Complete(dst[t])'
        BY <1>2 DEF Complete
      <3> QED
        BY <1>2, <2>1, <2>2, <3>1 DEF DoneInv
    <2>7. DoneInv'
      BY <1>2, <1>4, <2>1, <2>4, <2>5, <2>6, DoneStay
    <2> QED
      BY <2>3, <2>7
  <1> QED
    BY <1>5, <1>6, <1>7, <1>8 DEF CallsInv

LEMMA StepCvtFails ==
  ASSUME CallsInv, NEW t \in Threads, CvtSubmitFails(t)
  PROVE  CallsInv'
  <1>1. Typed /\ PlaceInv /\ SeqInv /\ PendInv
    BY DEF CallsInv
  <1>2. PICK n \in {submitted["cvt"]} \cup 0..MaxCalls + 1 : job_seqno' = [job_seqno EXCEPT ![t] = n]
    BY DEF CvtSubmitFails
  <1>3. /\ pc[t] = "submit" /\ pc' = [pc EXCEPT ![t] = "wait"] /\ unsubmitted' = unsubmitted \cup {dst[t]}
        /\ UNCHANGED <<pooled, cancelled, live, queue, submitted, finished, kind, dst, node, given, calls, leaked,
                       written, dangled>>
    BY DEF CvtSubmitFails, CallsGoto
  <1>4. n \in 0..MaxCalls + 1
    <2>1. submitted["cvt"] \in 0..MaxCalls
      BY <1>1, JobsTyped DEF Kinds
    <2>2. submitted["cvt"] \in 0..MaxCalls + 1
      BY <2>1, CallsAssumption
    <2> QED
      BY <1>2, <2>2
  <1>5. pc'[t] = "wait" /\ Others(t) /\ dst[t] \in Bos /\ NoJob(t)
    BY <1>1, <1>2, <1>3, NoJobOutside DEF Typed, Others, PlaceInv
  <1>6. Typed' /\ PlaceInv' /\ SeqInv'
    <2>1. Typed'
      BY <1>1, <1>2, <1>3, <1>4, <1>5 DEF Typed
    <2>2. PlaceInv'
      BY <1>1, <1>3, <1>5 DEF PlaceInv, Others
    <2>3. SeqInv'
      BY <1>1, <1>3 DEF SeqInv
    <2> QED
      BY <2>1, <2>2, <2>3
  <1>7. PendInv'
    <2>1. \A q \in Kinds : Pending(q)' \subseteq Pending(q)
      BY <1>3, <1>5 DEF Pending, Others
    <2>2. calls' \in Nat /\ calls <= calls'
      BY <1>1, <1>3, CallsAssumption DEF Typed
    <2> QED
      BY <1>1, <1>3, <2>1, <2>2, PendShrinks
  <1>8. FoundInv' /\ (~dangled' => OwnInv')
    BY <1>3, <1>5, MovesOn
  <1>9. ASSUME ~dangled' PROVE JobInv' /\ DoneInv'
    <2>1. ~dangled /\ JobInv /\ DoneInv
      BY <1>3, <1>9 DEF CallsInv
    <2>2. JobInv'
      BY <1>3, <1>5, <2>1, JobsStay DEF NoJob
    <2>3. (\A c : Complete(c) => Complete(c)') /\ Complete(dst[t])'
      BY <1>3 DEF Complete
    <2>4. \A c \in given'[t] : Complete(c)'
      BY <1>3, <2>1, <2>3 DEF DoneInv
    <2>5. DoneInv'
      BY <1>3, <1>5, <2>1, <2>3, <2>4, DoneStay
    <2> QED
      BY <2>2, <2>5
  <1> QED
    BY <1>6, <1>7, <1>8, <1>9 DEF CallsInv

\* The job comes last in the kernel, and the thread is the one that waits for it.
LEMMA StepSubmit ==
  ASSUME CallsInv, NEW t \in Threads, SubmitJob(t)
  PROVE  CallsInv'
  <1>1. Typed /\ PlaceInv /\ SeqInv /\ PendInv
    BY DEF CallsInv
  <1>k. PICK k \in Kinds : k = kind[t]
    BY <1>1 DEF Typed
  <1>n. PICK n : n = Len(queue[k])
    OBVIOUS
  <1>j. PICK job : job = [seqno |-> submitted[k] + 1, bos |-> Working(t)]
    OBVIOUS
  <1>2. k \in Kinds /\ submitted[k] \in Nat /\ finished[k] \in Nat
    BY <1>1 DEF Typed
  <1>3. /\ pc[t] = "submit" /\ pc' = [pc EXCEPT ![t] = "seqno"]
        /\ submitted' = [submitted EXCEPT ![k] = submitted[k] + 1]
        /\ UNCHANGED <<pooled, cancelled, live, finished, kind, dst, node, job_seqno, given, calls, leaked,
                       written, unsubmitted, dangled>>
    BY <1>k DEF SubmitJob, CallsGoto
  <1>4. submitted'[k] = submitted[k] + 1 /\ queue' = [queue EXCEPT ![k] = Append(queue[k], job)]
    <2>1. submitted'[k] = submitted[k] + 1
      BY <1>1, <1>2, <1>3 DEF Typed
    <2> QED
      BY <1>k, <1>j, <2>1 DEF SubmitJob, Working
  <1>5. job \in JobSet /\ queue[k] \in Seq(JobSet) /\ n \in Nat
    <2>1. Working(t) \subseteq Bos
      BY <1>1 DEF Typed, Working
    <2>2. queue[k] \in Seq(JobSet)
      BY <1>1, <1>2 DEF SeqInv
    <2> QED
      BY <1>2, <1>n, <1>j, <2>1, <2>2, LenProperties DEF JobSet
  <1>6. job.seqno = submitted[k] + 1 /\ job.bos = Working(t)
    BY <1>j
  <1>7. /\ Append(queue[k], job) \in Seq(JobSet) /\ Len(Append(queue[k], job)) = n + 1
        /\ \A i \in 1..n : Append(queue[k], job)[i] = queue[k][i]
        /\ Append(queue[k], job)[n + 1] = job
    BY <1>n, <1>5, AppendProperties
  <1>8. /\ queue'[k] = Append(queue[k], job) /\ Len(queue'[k]) = n + 1 /\ queue'[k][n + 1] = job
        /\ \A i \in 1..n : queue'[k][i] = queue[k][i]
        /\ \A q \in Kinds : q # k => queue'[q] = queue[q] /\ submitted'[q] = submitted[q]
        /\ queue' \in [Kinds -> Seq(JobSet)] /\ submitted' \in [Kinds -> Nat]
    <2>1. queue \in [Kinds -> Seq(JobSet)] /\ submitted \in [Kinds -> Nat]
      BY <1>1 DEF SeqInv, Typed
    <2>2. queue'[k] = Append(queue[k], job)
      BY <1>4, <2>1
    <2>3. queue' \in [Kinds -> Seq(JobSet)] /\ submitted' \in [Kinds -> Nat]
      BY <1>2, <1>3, <1>4, <1>7, <2>1
    <2>4. \A q \in Kinds : q # k => queue'[q] = queue[q] /\ submitted'[q] = submitted[q]
      BY <1>3, <1>4, <2>1
    <2> QED
      BY <1>7, <2>2, <2>3, <2>4
  <1>9. pc'[t] = "seqno" /\ Others(t) /\ \A u \in Threads : Working(u)' = Working(u)
    BY <1>1, <1>3 DEF Typed, Others, Working
  <1>10. Typed'
    BY <1>1, <1>3, <1>8 DEF Typed
  <1>11. PlaceInv'
    BY <1>1, <1>3, <1>9 DEF PlaceInv, Others
  <1>12. SeqInv'
    <2>1. /\ finished[k] <= submitted[k]
          /\ \A i \in 1..n : /\ queue[k][i].seqno \in Nat
                            /\ finished[k] < queue[k][i].seqno /\ queue[k][i].seqno <= submitted[k]
                            /\ \A m \in 1..n : m < i => queue[k][m].seqno < queue[k][i].seqno
      <3>1. \A i \in 1..n : queue[k][i].seqno \in Nat
        BY <1>1, <1>2, <1>n, QueuedUnfinished
      <3> QED
        BY <1>1, <1>2, <1>n, <3>1 DEF SeqInv
    <2>2. ASSUME NEW i \in 1..n + 1
          PROVE  /\ finished[k] < queue'[k][i].seqno /\ queue'[k][i].seqno <= submitted[k] + 1
                 /\ \A m \in 1..n + 1 : m < i => queue'[k][m].seqno < queue'[k][i].seqno
      <3>1. CASE i = n + 1
        <4>1. queue'[k][i].seqno = submitted[k] + 1
          BY <1>6, <1>8, <3>1
        <4>2. ASSUME NEW m \in 1..n + 1, m < i PROVE queue'[k][m].seqno < submitted[k] + 1
          <5>1. m \in 1..n
            BY <1>5, <3>1, <4>2
          <5>2. queue'[k][m].seqno = queue[k][m].seqno
            BY <1>8, <5>1
          <5> QED
            BY <1>2, <2>1, <5>1, <5>2
        <4> QED
          BY <1>2, <2>1, <4>1, <4>2
      <3>2. CASE i # n + 1
        <4>1. i \in 1..n
          BY <1>5, <3>2
        <4>2. \A m \in 1..n + 1 : m < i => m \in 1..n
          BY <1>5, <4>1
        <4>3. queue'[k][i] = queue[k][i] /\ \A m \in 1..n : queue'[k][m] = queue[k][m]
          BY <1>8, <4>1
        <4> QED
          BY <1>2, <2>1, <4>1, <4>2, <4>3
      <3> QED
        BY <3>1, <3>2
    <2>3. ASSUME NEW q \in Kinds
          PROVE  /\ finished'[q] <= submitted'[q]
                 /\ \A i \in 1..Len(queue'[q]) :
                      /\ finished'[q] < queue'[q][i].seqno /\ queue'[q][i].seqno <= submitted'[q]
                      /\ \A m \in 1..Len(queue'[q]) :
                           m < i => queue'[q][m].seqno < queue'[q][i].seqno
      <3>1. CASE q = k
        <4>1. finished'[k] = finished[k] /\ finished[k] <= submitted'[k]
          BY <1>2, <1>3, <1>4, <2>1
        <4> QED
          BY <1>4, <1>8, <2>2, <3>1, <4>1
      <3>2. CASE q # k
        <4>1. finished'[q] = finished[q] /\ submitted'[q] = submitted[q] /\ queue'[q] = queue[q]
          BY <1>3, <1>8, <3>2
        <4> QED
          BY <1>1, <4>1 DEF SeqInv
      <3> QED
        BY <3>1, <3>2
    <2> QED
      BY <1>8, <2>3 DEF SeqInv
  <1>13. PendInv'
    <2> SUFFICES ASSUME NEW q \in Kinds
                 PROVE  IsFiniteSet(Pending(q)') /\ submitted'[q] + Cardinality(Pending(q)') <= calls'
      BY DEF PendInv
    <2>1. /\ IsFiniteSet(Pending(q)) /\ submitted[q] + Cardinality(Pending(q)) <= calls
          /\ submitted[q] \in Nat /\ calls \in Nat /\ Cardinality(Pending(q)) \in Nat
      BY <1>1, FS_CardinalityType, CallsAssumption DEF Typed, PendInv
    <2>2. CASE q = k
      <3>1. Pending(q)' = Pending(q) \ {t} /\ t \in Pending(q)
        BY <1>k, <1>3, <1>9, <2>2 DEF Pending, Others
      <3>2. IsFiniteSet(Pending(q)') /\ Cardinality(Pending(q)') = Cardinality(Pending(q)) - 1
        BY <2>1, <3>1, FS_RemoveElement
      <3> QED
        BY <1>3, <1>4, <2>1, <2>2, <3>2
    <2>3. CASE q # k
      <3>1. Pending(q)' = Pending(q)
        BY <1>k, <1>3, <1>9, <2>3 DEF Pending, Others
      <3> QED
        BY <1>3, <1>8, <2>1, <2>3, <3>1
    <2> QED
      BY <2>2, <2>3
  <1>14. FoundInv' /\ (~dangled' => OwnInv')
    BY <1>3, <1>9, MovesOn
  <1>15. \A q \in Kinds : submitted[q] \in Nat /\ submitted'[q] \in Nat /\ submitted[q] <= submitted'[q]
    <2>1. submitted'[k] \in Nat /\ submitted[k] <= submitted'[k]
      BY <1>2, <1>4
    <2>2. \A q \in Kinds : submitted[q] \in Nat
      BY <1>1 DEF Typed
    <2> QED
      BY <1>8, <2>1, <2>2
  <1>16. ASSUME NEW u \in Threads, NEW j, u # t, JobOf(u, j) PROVE JobOf(u, j)'
    <2>1. kind[u] \in Kinds /\ job_seqno[u] \in Nat /\ UNCHANGED <<pc[u], kind[u], job_seqno[u]>>
      BY <1>1, <1>9, <1>16, CallsAssumption DEF Typed, Others
    <2>2. j.bos = Working(u)'
      BY <1>9, <1>16 DEF JobOf
    <2>3. pc[u] = "wait" => job_seqno[u] <= submitted'[kind[u]]
      BY <1>15, <1>16, <2>1 DEF JobOf
    <2> QED
      BY <1>16, <2>1, <2>2, <2>3 DEF JobOf
  <1>17. JobOf(t, job)' /\ kind'[t] = k
    BY <1>k, <1>3, <1>6, <1>9 DEF JobOf
  <1>18. ASSUME ~dangled' PROVE JobInv' /\ DoneInv'
    <2>1. ~dangled /\ JobInv /\ DoneInv
      BY <1>3, <1>18 DEF CallsInv
    <2>2. ASSUME NEW q \in Kinds, NEW i \in 1..Len(queue'[q])
          PROVE  \E u \in Threads : kind'[u] = q /\ JobOf(u, queue[q][i])'
      <3>1. CASE q = k /\ i = n + 1
        <4>1. queue'[q][i] = job
          BY <1>8, <3>1
        <4>2. JobOf(t, queue[q][i])'
          BY <1>17, <4>1 DEF JobOf
        <4> QED
          BY <1>17, <3>1, <4>2
      <3>2. CASE ~(q = k /\ i = n + 1)
        <4>1. i \in 1..Len(queue[q]) /\ queue'[q][i] = queue[q][i]
          <5>1. CASE q = k
            <6>1. i \in 1..n /\ n = Len(queue[k])
              BY <1>n, <1>5, <1>8, <3>2, <5>1
            <6> QED
              BY <1>8, <5>1, <6>1
          <5>2. CASE q # k
            BY <1>8, <5>2
          <5> QED
            BY <5>1, <5>2
        <4>2. PICK u \in Threads : kind[u] = q /\ JobOf(u, queue[q][i])
          BY <2>1, <4>1 DEF JobInv
        <4>3. u # t
          BY <1>3, <4>2 DEF JobOf
        <4>4. PICK j : j = queue[q][i]
          OBVIOUS
        <4>5. JobOf(u, j)'
          BY <1>16, <4>2, <4>3, <4>4
        <4>6. JobOf(u, queue[q][i])'
          BY <4>1, <4>4, <4>5 DEF JobOf
        <4> QED
          BY <1>3, <4>2, <4>6
      <3> QED
        BY <3>1, <3>2
    <2>3. JobInv'
      BY <2>2 DEF JobInv
    <2>4. \A c : Complete(c) => Complete(c)'
      BY <1>3 DEF Complete
    <2>5. ASSUME NEW u \in Threads
          PROVE  /\ \A c \in given'[u] : Complete(c)'
                 /\ pc'[u] \in {"seqno", "wait"} =>
                      \/ Complete(dst[u])'
                      \/ (\E i \in 1..Len(queue[kind[u]]) : JobOf(u, queue[kind[u]][i]))'
      <3>1. \A c \in given'[u] : Complete(c)'
        BY <1>3, <2>1, <2>4 DEF DoneInv
      <3>2. CASE u = t
        <4>1. n + 1 \in 1..Len(queue'[k]) /\ queue'[k][n + 1] = job
          BY <1>5, <1>8
        <4>2. (JobOf(t, queue[k][n + 1]))'
          BY <1>17, <4>1 DEF JobOf
        <4> QED
          BY <1>17, <3>1, <3>2, <4>1, <4>2
      <3>3. CASE u # t /\ pc[u] \in {"seqno", "wait"} /\ ~Complete(dst[u])
        <4>1. PICK i \in 1..Len(queue[kind[u]]) : JobOf(u, queue[kind[u]][i])
          BY <2>1, <3>3 DEF DoneInv
        <4>2. kind[u] \in Kinds /\ kind'[u] = kind[u]
          BY <1>1, <1>3 DEF Typed
        <4>3. i \in 1..Len(queue'[kind[u]]) /\ queue'[kind[u]][i] = queue[kind[u]][i]
          <5>1. CASE kind[u] = k
            BY <1>n, <1>5, <1>8, <4>1, <5>1
          <5>2. CASE kind[u] # k
            BY <1>8, <4>1, <4>2, <5>2
          <5> QED
            BY <5>1, <5>2
        <4>4. PICK j : j = queue[kind[u]][i]
          OBVIOUS
        <4>5. JobOf(u, j)'
          BY <1>16, <3>3, <4>1, <4>4
        <4>6. (JobOf(u, queue[kind[u]][i]))'
          BY <4>2, <4>3, <4>4, <4>5 DEF JobOf
        <4> QED
          BY <3>1, <4>2, <4>3, <4>6
      <3>4. CASE u # t /\ Complete(dst[u])
        <4>1. Complete(dst[u])'
          BY <1>3, <3>4 DEF Complete
        <4> QED
          BY <3>1, <4>1
      <3>5. CASE u # t /\ pc[u] \notin {"seqno", "wait"}
        BY <1>9, <3>1, <3>5 DEF Others
      <3> QED
        BY <3>2, <3>3, <3>4, <3>5
    <2>6. DoneInv'
      BY <2>5 DEF DoneInv
    <2> QED
      BY <2>3, <2>6
  <1> QED
    BY <1>10, <1>11, <1>12, <1>13, <1>14, <1>18 DEF CallsInv

\* The kernel finishes the oldest job: its result is written.
LEMMA StepFinish ==
  ASSUME CallsInv, NEW k \in Kinds, FinishJob(k)
  PROVE  CallsInv'
  <1>1. Typed /\ PlaceInv /\ SeqInv /\ PendInv
    BY DEF CallsInv
  <1>n. PICK n : n = Len(queue[k])
    OBVIOUS
  <1>2. /\ queue[k] # << >> /\ finished' = [finished EXCEPT ![k] = Head(queue[k]).seqno]
        /\ queue' = [queue EXCEPT ![k] = Tail(queue[k])]
        /\ written' = written \cup (Head(queue[k]).bos \cap live)
        /\ UNCHANGED <<pooled, cancelled, live, submitted, kind, pc, dst, node, job_seqno, given, calls, leaked,
                       unsubmitted, dangled>>
    BY DEF FinishJob
  <1>3. /\ queue[k] \in Seq(JobSet) /\ n \in Nat /\ n >= 1 /\ Head(queue[k]) = queue[k][1]
        /\ Tail(queue[k]) \in Seq(JobSet) /\ Len(Tail(queue[k])) = n - 1
        /\ \A i \in 1..n - 1 : Tail(queue[k])[i] = queue[k][i + 1]
    <2>1. queue[k] \in Seq(JobSet)
      BY <1>1 DEF SeqInv
    <2>2. n \in Nat /\ n # 0
      BY <1>n, <1>2, <2>1, LenProperties, EmptySeq
    <2>3. Head(queue[k]) = queue[k][1]
      OBVIOUS
    <2>4. /\ Tail(queue[k]) \in Seq(JobSet) /\ Len(Tail(queue[k])) = n - 1
          /\ \A i \in 1..Len(Tail(queue[k])) : Tail(queue[k])[i] = queue[k][i + 1]
      BY <1>n, <1>2, <2>1, HeadTailProperties
    <2> QED
      BY <2>1, <2>2, <2>3, <2>4
  <1>4. /\ finished[k] \in Nat /\ submitted[k] \in Nat
        /\ \A i \in 1..n : /\ queue[k][i] \in JobSet /\ queue[k][i].seqno \in Nat
                          /\ finished[k] < queue[k][i].seqno /\ queue[k][i].seqno <= submitted[k]
                          /\ \A m \in 1..n : m < i => queue[k][m].seqno < queue[k][i].seqno
    <2>1. \A i \in 1..n : /\ queue[k][i] \in JobSet /\ queue[k][i].seqno \in Nat
                         /\ finished[k] < queue[k][i].seqno /\ queue[k][i].seqno <= submitted[k]
      BY <1>n, <1>1, QueuedUnfinished
    <2>2. \A i \in 1..n : \A m \in 1..n : m < i => queue[k][m].seqno < queue[k][i].seqno
      BY <1>n, <1>1 DEF SeqInv
    <2> QED
      BY <1>1, <2>1, <2>2 DEF Typed
  <1>5. 1 \in 1..n /\ queue[k][1] \in JobSet /\ queue[k][1].bos \subseteq Bos
    <2>1. 1 \in 1..n
      BY <1>3
    <2> QED
      BY <1>4, <2>1 DEF JobSet
  <1>6. /\ queue'[k] = Tail(queue[k]) /\ finished'[k] = queue[k][1].seqno
        /\ \A q \in Kinds : q # k => queue'[q] = queue[q] /\ finished'[q] = finished[q]
        /\ queue' \in [Kinds -> Seq(JobSet)] /\ finished' \in [Kinds -> Nat]
    <2>1. queue \in [Kinds -> Seq(JobSet)] /\ finished \in [Kinds -> Nat]
      BY <1>1 DEF SeqInv, Typed
    <2>2. queue'[k] = Tail(queue[k]) /\ finished'[k] = Head(queue[k]).seqno
      BY <1>2, <2>1
    <2>3. \A q \in Kinds : q # k => queue'[q] = queue[q] /\ finished'[q] = finished[q]
      BY <1>2, <2>1
    <2>4. Head(queue[k]).seqno = queue[k][1].seqno
      BY <1>3
    <2>5. Head(queue[k]).seqno \in Nat
      BY <1>4, <1>5, <2>4
    <2>6. queue' \in [Kinds -> Seq(JobSet)] /\ finished' \in [Kinds -> Nat]
      BY <1>2, <1>3, <2>1, <2>5
    <2> QED
      BY <2>2, <2>3, <2>4, <2>6
  <1>7. Len(queue'[k]) = n - 1 /\ \A i \in 1..n - 1 : queue'[k][i] = queue[k][i + 1]
    BY <1>3, <1>6
  <1>8. Typed'
    <2>1. written' \subseteq Bos
      BY <1>1, <1>2 DEF Typed
    <2> QED
      BY <1>1, <1>2, <1>6, <2>1 DEF Typed
  <1>9. PlaceInv'
    BY <1>1, <1>2 DEF PlaceInv
  <1>10. SeqInv'
    <2>1. ASSUME NEW i \in 1..n - 1
          PROVE  /\ queue[k][1].seqno < queue'[k][i].seqno /\ queue'[k][i].seqno <= submitted[k]
                 /\ \A m \in 1..n - 1 : m < i => queue'[k][m].seqno < queue'[k][i].seqno
      <3>1. i + 1 \in 1..n /\ 1 < i + 1 /\ queue'[k][i] = queue[k][i + 1]
        BY <1>3, <1>7
      <3>2. ASSUME NEW m \in 1..n - 1, m < i PROVE queue'[k][m].seqno < queue'[k][i].seqno
        <4>1. m + 1 \in 1..n /\ m + 1 < i + 1 /\ queue'[k][m] = queue[k][m + 1]
          BY <1>3, <1>7, <3>2
        <4> QED
          BY <1>4, <3>1, <4>1
      <3> QED
        BY <1>4, <1>5, <3>1, <3>2
    <2>2. ASSUME NEW q \in Kinds
          PROVE  /\ finished'[q] <= submitted'[q]
                 /\ \A i \in 1..Len(queue'[q]) :
                      /\ finished'[q] < queue'[q][i].seqno /\ queue'[q][i].seqno <= submitted'[q]
                      /\ \A m \in 1..Len(queue'[q]) :
                           m < i => queue'[q][m].seqno < queue'[q][i].seqno
      <3>1. CASE q = k
        <4>1. finished'[k] <= submitted'[k] /\ submitted'[k] = submitted[k]
          BY <1>2, <1>4, <1>5, <1>6
        <4> QED
          BY <1>6, <1>7, <2>1, <3>1, <4>1
      <3>2. CASE q # k
        <4>1. finished'[q] = finished[q] /\ submitted'[q] = submitted[q] /\ queue'[q] = queue[q]
          BY <1>2, <1>6, <3>2
        <4> QED
          BY <1>1, <4>1 DEF SeqInv
      <3> QED
        BY <3>1, <3>2
    <2> QED
      BY <1>6, <2>2 DEF SeqInv
  <1>11. PendInv'
    BY <1>1, <1>2 DEF PendInv, Pending
  <1>12. \A u \in Threads : Mine(u)' = Mine(u) /\ Working(u)' = Working(u)
    BY <1>2 DEF Mine, Working
  <1>13. FoundInv' /\ (~dangled' => OwnInv')
    <2>1. FoundInv'
      BY <1>2, <1>12 DEF CallsInv, FoundInv
    <2>2. ~dangled' => OwnInv'
      BY <1>2, <1>12 DEF CallsInv, OwnInv
    <2> QED
      BY <2>1, <2>2
  <1>14. ASSUME NEW u \in Threads, NEW j, JobOf(u, j) PROVE JobOf(u, j)'
    BY <1>2, <1>12, <1>14 DEF JobOf
  <1>15. ASSUME NEW q \in Kinds, NEW i \in 1..Len(queue[q]), ~(q = k /\ i = 1)
         PROVE  \E m \in 1..Len(queue'[q]) : queue'[q][m] = queue[q][i]
    <2>1. CASE q = k
      <3>1. i - 1 \in 1..n - 1 /\ i \in Int /\ (i - 1) + 1 = i
        BY <1>n, <1>3, <1>15, <2>1
      <3>2. queue'[k][i - 1] = queue[k][i]
        BY <1>7, <3>1
      <3> QED
        BY <1>7, <2>1, <3>1, <3>2
    <2>2. CASE q # k
      BY <1>6, <2>2
    <2> QED
      BY <2>1, <2>2
  <1>16. ASSUME NEW q \in Kinds, NEW m \in 1..Len(queue'[q])
         PROVE  \E i \in 1..Len(queue[q]) : queue'[q][m] = queue[q][i]
    <2>1. CASE q = k
      <3>1. m \in 1..n - 1 /\ m + 1 \in 1..n
        BY <1>3, <1>7, <1>16, <2>1
      <3> QED
        BY <1>n, <1>7, <2>1, <3>1
    <2>2. CASE q # k
      BY <1>6, <2>2
    <2> QED
      BY <2>1, <2>2
  <1>17. ASSUME ~dangled' PROVE JobInv' /\ DoneInv'
    <2>1. ~dangled /\ JobInv /\ DoneInv /\ OwnInv
      BY <1>2, <1>17 DEF CallsInv
    <2>2. JobInv'
      <3> SUFFICES ASSUME NEW q \in Kinds, NEW m \in 1..Len(queue'[q])
                   PROVE  \E u \in Threads : kind'[u] = q /\ JobOf(u, queue[q][m])'
        BY DEF JobInv
      <3>1. PICK i \in 1..Len(queue[q]) : queue'[q][m] = queue[q][i]
        BY <1>16
      <3>2. PICK u \in Threads : kind[u] = q /\ JobOf(u, queue[q][i])
        BY <2>1 DEF JobInv
      <3>3. PICK j : j = queue[q][i]
        OBVIOUS
      <3>4. JobOf(u, j)'
        BY <1>14, <3>2, <3>3
      <3>5. JobOf(u, queue[q][m])'
        BY <3>1, <3>3, <3>4 DEF JobOf
      <3> QED
        BY <1>2, <3>2, <3>5
    <2>3. \A c : Complete(c) => Complete(c)'
      BY <1>2 DEF Complete
    <2>4. ASSUME NEW u \in Threads
          PROVE  /\ \A c \in given'[u] : Complete(c)'
                 /\ pc'[u] \in {"seqno", "wait"} =>
                      \/ Complete(dst[u])'
                      \/ (\E i \in 1..Len(queue[kind[u]]) : JobOf(u, queue[kind[u]][i]))'
      <3>1. \A c \in given'[u] : Complete(c)'
        BY <1>2, <2>1, <2>3 DEF DoneInv
      <3>2. CASE pc[u] \notin {"seqno", "wait"}
        BY <1>2, <3>1, <3>2
      <3>3. CASE Complete(dst[u])
        <4>1. Complete(dst[u])'
          BY <1>2, <3>3 DEF Complete
        <4> QED
          BY <3>1, <4>1
      <3>4. CASE pc[u] \in {"seqno", "wait"} /\ ~Complete(dst[u])
        <4>1. PICK i \in 1..Len(queue[kind[u]]) : JobOf(u, queue[kind[u]][i])
          BY <2>1, <3>4 DEF DoneInv
        <4>2. kind[u] \in Kinds /\ kind'[u] = kind[u] /\ dst[u] \in Bos
          BY <1>1, <1>2, <3>4 DEF Typed, PlaceInv
        <4>3. CASE kind[u] = k /\ i = 1
          <5>1. dst[u] \in Working(u) /\ Working(u) \subseteq live
            BY <2>1, <4>2, ZeroIsNoBo DEF OwnInv, Mine, Working
          <5>2. Head(queue[k]).bos = Working(u)
            BY <1>3, <4>1, <4>3 DEF JobOf
          <5>3. Complete(dst[u])'
            BY <1>2, <5>1, <5>2 DEF Complete
          <5> QED
            BY <3>1, <5>3
        <4>4. CASE ~(kind[u] = k /\ i = 1)
          <5>1. PICK m \in 1..Len(queue'[kind[u]]) : queue'[kind[u]][m] = queue[kind[u]][i]
            BY <1>15, <4>2, <4>4
          <5>2. PICK j : j = queue[kind[u]][i]
            OBVIOUS
          <5>3. JobOf(u, j)'
            BY <1>14, <4>1, <5>2
          <5>4. (JobOf(u, queue[kind[u]][m]))'
            BY <4>2, <5>1, <5>2, <5>3 DEF JobOf
          <5> QED
            BY <3>1, <4>2, <5>1, <5>4
        <4> QED
          BY <4>3, <4>4
      <3> QED
        BY <3>2, <3>3, <3>4
    <2>5. DoneInv'
      BY <2>4 DEF DoneInv
    <2> QED
      BY <2>2, <2>5
  <1> QED
    BY <1>8, <1>9, <1>10, <1>11, <1>13, <1>17 DEF CallsInv

-----------------------------------------------------------------------------
(* What leaves the program with a dangling handle.                         *)

LEMMA StepNoBuffer ==
  ASSUME CallsInv, NEW t \in Threads, NoBuffer(t)
  PROVE  CallsInv'
  <1>1. Typed /\ PlaceInv /\ SeqInv /\ PendInv /\ FoundInv
    BY DEF CallsInv
  <1>2. /\ calls < MaxCalls /\ calls' = calls + 1
        /\ UNCHANGED <<pooled, cancelled, live, queue, submitted, finished, kind, pc, dst, node,
                       job_seqno, leaked, written, unsubmitted>>
        /\ \/ UNCHANGED <<given, dangled>>
           \/ \E b \in Bos : given' = [given EXCEPT ![t] = given[t] \cup {b}] /\ dangled' = TRUE
    BY DEF NoBuffer
  <1>3. calls' \in 0..MaxCalls /\ calls' \in Nat /\ calls <= calls'
    BY <1>1, <1>2, CallsAssumption DEF Typed
  <1>4. PlaceInv' /\ SeqInv'
    BY <1>1, <1>2 DEF PlaceInv, SeqInv
  <1>5. PendInv'
    <2>1. \A q \in Kinds : Pending(q)' \subseteq Pending(q)
      BY <1>2 DEF Pending
    <2> QED
      BY <1>1, <1>2, <1>3, <2>1, PendShrinks
  <1>6. CASE UNCHANGED <<given, dangled>>
    <2>1. Typed'
      BY <1>1, <1>2, <1>3, <1>6 DEF Typed
    <2>2. FoundInv'
      BY <1>1, <1>2, <1>6 DEF FoundInv, Mine, Working
    <2>3. (~dangled => OwnInv) => (~dangled' => OwnInv')
      BY <1>2, <1>6 DEF OwnInv, Mine, Working
    <2>4. (~dangled => JobInv) => (~dangled' => JobInv')
      BY <1>2 , <1>6 DEF JobInv, JobOf, Working
    <2>5. (~dangled => DoneInv) => (~dangled' => DoneInv')
      BY <1>2, <1>6 DEF DoneInv, JobOf, Working, Complete
    <2> QED
      BY <1>4, <1>5, <2>1, <2>2, <2>3, <2>4, <2>5 DEF CallsInv
  <1>7. ASSUME NEW b \in Bos, given' = [given EXCEPT ![t] = given[t] \cup {b}], dangled' = TRUE
        PROVE  CallsInv'
    <2>1. given' \in [Threads -> SUBSET Bos] /\ \A u \in Threads : given[u] \subseteq given'[u]
      <3>1. given[t] \cup {b} \in SUBSET Bos
        BY <1>1 DEF Typed
      <3> QED
        BY <1>1, <1>7, <3>1 DEF Typed
    <2>2. dangled' \in BOOLEAN
      BY <1>7, Zenon
    <2>3. Typed'
      BY <1>1, <1>2, <1>3, <2>1, <2>2 DEF Typed
    <2>4. FoundInv'
      BY <1>1, <1>2, <2>1 DEF FoundInv, Mine, Working
    <2> QED
      BY <1>4, <1>5, <1>7, <2>3, <2>4 DEF CallsInv
  <1> QED
    BY <1>2, <1>6, <1>7

\* Without a pool and without buffers nobody is in a call and nothing dangles.
LEMMA StepClose ==
  ASSUME CallsInv, CloseSibling
  PROVE  CallsInv'
  <1>1. Typed /\ PlaceInv /\ SeqInv /\ PendInv /\ FoundInv
    BY DEF CallsInv
  <1>2. /\ queue' = [k \in Kinds |-> << >>]
        /\ cancelled' = [k \in Kinds |->
             cancelled[k] \cup {queue[k][i].seqno : i \in DOMAIN queue[k]}]
        /\ dangled' = (dangled \/ pooled \/ live # {})
        /\ UNCHANGED <<pooled, submitted, finished, kind, pc, dst, node, job_seqno, given, calls>>
    BY DEF CloseSibling
  <1>3. /\ pooled => UNCHANGED <<live, leaked, written, unsubmitted>>
        /\ ~pooled => /\ live' = {} /\ leaked' = leaked \ live
                      /\ written' = written \ live /\ unsubmitted' = unsubmitted \ live
    BY DEF CloseSibling, Forget
  <1>4. Typed'
    <2>1. cancelled' \in [Kinds -> SUBSET (1..MaxCalls)]
      <3>1. ASSUME NEW k \in Kinds, NEW i \in DOMAIN queue[k] PROVE queue[k][i].seqno \in 1..MaxCalls
        <4>1. queue[k][i] \in Jobs
          BY DEF Jobs
        <4> QED
          BY <1>1, <4>1, JobsTyped
      <3>2. \A k \in Kinds : cancelled[k] \subseteq 1..MaxCalls
        BY <1>1 DEF Typed
      <3> QED
        BY <1>2, <3>1, <3>2
    <2>2. dangled' \in BOOLEAN
      <3>1. dangled' = TRUE \/ dangled' = FALSE
        BY <1>2, Zenon
      <3> QED
        BY <3>1, Zenon
    <2>3. live' \subseteq Bos /\ leaked' \subseteq Bos /\ written' \cup unsubmitted' \subseteq Bos
      BY <1>1, <1>3 DEF Typed
    <2> QED
      BY <1>1, <1>2, <2>1, <2>2, <2>3 DEF Typed
  <1>5. PlaceInv' /\ PendInv'
    BY <1>1, <1>2 DEF PlaceInv, PendInv, Pending
  <1>6. \A k \in Kinds : queue'[k] = << >> /\ Len(queue'[k]) = 0
    BY <1>2
  <1>7. SeqInv'
    <2>1. << >> \in Seq(JobSet)
      BY EmptySeq
    <2>2. queue' \in [Kinds -> Seq(JobSet)]
      BY <1>2, <2>1
    <2> QED
      BY <1>1, <1>2, <1>6, <2>2 DEF SeqInv
  <1>8. FoundInv'
    BY <1>1, <1>2, <1>3 DEF FoundInv, Mine, Working
  <1>9. ASSUME ~dangled' PROVE OwnInv' /\ JobInv' /\ DoneInv'
    <2>1. ~dangled /\ ~pooled /\ live = {} /\ OwnInv /\ DoneInv
      BY <1>2, <1>9 DEF CallsInv
    <2>2. live' = live /\ leaked' = leaked /\ written' = written /\ unsubmitted' = unsubmitted
      BY <1>3, <2>1
    <2>3. OwnInv'
      BY <1>2, <2>1, <2>2 DEF OwnInv, Mine, Working
    <2>4. JobInv'
      BY <1>6 DEF JobInv
    <2>5. \A t \in Threads : pc[t] = "idle" /\ given[t] = {}
      <3> TAKE t \in Threads
      <3>1. given[t] = {} /\ Working(t) = {}
        BY <2>1 DEF OwnInv, Mine
      <3>2. dst[t] = 0
        BY <3>1 DEF Working
      <3> QED
        BY <1>1, <3>1, <3>2, ZeroIsNoBo DEF PlaceInv
    <2>6. DoneInv'
      BY <1>2, <2>5 DEF DoneInv
    <2> QED
      BY <2>3, <2>4, <2>6
  <1> QED
    BY <1>4, <1>5, <1>7, <1>8, <1>9 DEF CallsInv

-----------------------------------------------------------------------------
(* Every step keeps the invariant.                                         *)

LEMMA CallsStutter == ASSUME CallsInv, UNCHANGED callVars PROVE CallsInv'
  <1>1. /\ UNCHANGED <<pooled, cancelled, live, queue, submitted, finished, kind, pc, dst>>
        /\ UNCHANGED <<node, job_seqno, given, calls, leaked, written, unsubmitted, dangled>>
    BY DEF callVars
  <1>2. Typed' /\ PlaceInv' /\ SeqInv' /\ PendInv' /\ FoundInv'
    <2>1. Typed'
      BY <1>1 DEF CallsInv, Typed
    <2>2. PlaceInv' /\ SeqInv'
      BY <1>1 DEF CallsInv, PlaceInv, SeqInv
    <2>3. PendInv' /\ FoundInv'
      BY <1>1 DEF CallsInv, PendInv, Pending, FoundInv, Mine, Working
    <2> QED
      BY <2>1, <2>2, <2>3
  <1>3. ~dangled' => OwnInv' /\ JobInv' /\ DoneInv'
    <2>1. (~dangled => OwnInv) => (~dangled' => OwnInv')
      BY <1>1 DEF OwnInv, Mine, Working
    <2>2. (~dangled => JobInv) => (~dangled' => JobInv')
      BY <1>1 DEF JobInv, JobOf, Working
    <2>3. (~dangled => DoneInv) => (~dangled' => DoneInv')
      BY <1>1 DEF DoneInv, JobOf, Working, Complete
    <2> QED
      BY <2>1, <2>2, <2>3 DEF CallsInv
  <1> QED
    BY <1>2, <1>3 DEF CallsInv

LEMMA CallsStep == CallsInv /\ [CallsNext]_callVars => CallsInv'
  <1> SUFFICES ASSUME CallsInv, [CallsNext]_callVars PROVE CallsInv'
    OBVIOUS
  <1>1. ASSUME NEW t \in Threads, InCall(t) PROVE CallsInv'
    BY <1>1, StepCopy, StepCreateNode, StepSubmit, StepSeqno, StepFails, StepCvtFails, StepDone DEF InCall
  <1>2. ASSUME NEW t \in Threads, NEW k \in Kinds, iaic_create_dst(t, k) PROVE CallsInv'
    BY <1>2, StepCreateDst
  <1>3. ASSUME NEW t \in Threads, iaic_img_read(t) PROVE CallsInv'
    BY <1>3, StepImgRead
  <1>4. ASSUME NEW t \in Threads, NEW b \in given[t], iaic_destroy_bo(t, b) PROVE CallsInv'
    BY <1>4, StepDestroy
  <1>5. ASSUME NEW k \in Kinds, FinishJob(k) PROVE CallsInv'
    BY <1>5, StepFinish
  <1>6. CASE UNCHANGED callVars
    BY <1>6, CallsStutter
  <1>7. ASSUME NEW t \in Threads, NoBuffer(t) PROVE CallsInv'
    BY <1>7, StepNoBuffer
  <1>8. CASE CloseSibling
    BY <1>8, StepClose
  <1> QED
    BY <1>1, <1>2, <1>3, <1>4, <1>5, <1>6, <1>7, <1>8 DEF CallsNext

LEMMA CallsAlways == CallsSpec => []CallsInv
  BY CallsStart, CallsStep, PTL DEF CallsSpec

\* No call of the library destroys a buffer that a job in the kernel reads or
\* writes, on any error path of iaic_img_read, iaic_cvt_format, iaic_resize and
\* iaic_perspective, until the program has a dangling handle (from a stack, of
\* a destroyed buffer, or since another context was closed); and no buffer is
\* ever lost but the nodes of iaic_perspective: for any number of threads,
\* buffers and calls.
THEOREM CallsKeepJobMemory == CallsSpec => []CallsJobMemory
  BY CallsAlways, CallsInvJobMemory, PTL

\* A result that a program has from a call exists, is written by no job any
\* more and has been written, unless iaic_cvt_format lost the error of its
\* submission: the number that jz_aip_v20_submit returns after it has left the
\* channel's lock never ends the wait too early.  This holds until the program
\* has a dangling handle, as above.
THEOREM CallsResultsComplete == CallsSpec => []ResultComplete
  BY CallsAlways, CallsInvResult, PTL
=============================================================================

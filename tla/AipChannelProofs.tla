-------------------------- MODULE AipChannelProofs --------------------------
(***************************************************************************)
(* Proofs about AipChannel for every number of threads, processes and jobs,*)
(* both channels, both chip variants and every behaviour of the reset.     *)
(***************************************************************************)
EXTENDS AipChannel, ListProofs

-----------------------------------------------------------------------------
(* Lists of jobs.                                                          *)

\* Starting the first job of a list changes nothing but its state.
LEMMA StartedList ==
  ASSUME NEW list \in Seq(Jobs)
  PROVE  /\ Started(list) \in Seq(Jobs)
         /\ Len(Started(list)) = Len(list)
         /\ list # << >> => Started(list)[1].state = "RUNNING"
         /\ \A i \in 1..Len(list) :
              /\ Started(list)[i].seq = list[i].seq
              /\ Started(list)[i].pid = list[i].pid
              /\ i > 1 => Started(list)[i].state = list[i].state
  <1>1. CASE list = << >>
    BY <1>1 DEF Started
  <1>2. CASE list # << >>
    <2>1. Len(list) \in Nat /\ Len(list) >= 1 /\ DOMAIN list = 1..Len(list)
      BY <1>2, LenProperties, EmptySeq
    <2>2. \A i \in 1..Len(list) : list[i] \in Jobs
      BY ElementOfSeq
    <2>3. [list[1] EXCEPT !.state = "RUNNING"] \in Jobs
      BY <2>1, <2>2 DEF Jobs
    <2>4. Started(list) = [list EXCEPT ![1] = [list[1] EXCEPT !.state = "RUNNING"]]
      BY <1>2 DEF Started
    <2> QED
      BY <1>2, <2>1, <2>2, <2>3, <2>4, ExceptSeq DEF Jobs
  <1> QED
    BY <1>1, <1>2

LEMMA FirstSeqType ==
  ASSUME NEW list \in Seq(Jobs)
  PROVE  FirstSeq(list) \in Seqnos
  <1>1. CASE list = << >>
    BY <1>1, ChannelAssumption DEF FirstSeq, Seqnos
  <1>2. CASE list # << >>
    <2>1. list[1] \in Jobs
      BY <1>2, ElementOfSeq, EmptySeq, LenProperties
    <2> QED
      BY <1>2, <2>1, ChannelAssumption DEF FirstSeq, Jobs, Seqnos
  <1> QED
    BY <1>1, <1>2

LEMMA RemainingList ==
  ASSUME TypeOK, NEW pid, NEW r \in Remaining(pid)
  PROVE  /\ r \in Seq(Jobs)
         /\ \E f \in [1..Len(r) -> DOMAIN job_list] :
              /\ \A i, k \in 1..Len(r) : i < k => f[i] < f[k]
              /\ \A p \in DOMAIN job_list : job_list[p].pid # pid => \E i \in 1..Len(r) : f[i] = p
              /\ \A i \in 1..Len(r) : r[i] = job_list[f[i]] /\ r[i].pid # pid
  <1> DEFINE K == {i \in DOMAIN job_list : ~IsOf(pid, job_list[i])}
  <1>1. job_list \in Seq(Jobs) /\ K \in SUBSET DOMAIN job_list
    BY DEF TypeOK
  <1>2. r \in Filtered(job_list, K)
    BY DEF Remaining
  <1> HIDE DEF K
  <1>3. r \in Seq(Jobs)
    BY <1>1, <1>2, FilteredList
  <1>4. PICK f \in [1..Len(r) -> K] :
              /\ Enumerates(f, Len(r), K)
              /\ \A i \in 1..Len(r) : r[i] = job_list[f[i]]
    BY <1>1, <1>2, FilteredList
  <1>5. f \in [1..Len(r) -> DOMAIN job_list]
    BY <1>4, <1>1
  <1>6. \A p \in K : job_list[p].pid # pid
    BY DEF K, IsOf
  <1>7. \A p \in DOMAIN job_list : job_list[p].pid # pid => p \in K
    BY DEF K, IsOf
  <1> QED
    BY <1>3, <1>4, <1>5, <1>6, <1>7 DEF Enumerates

-----------------------------------------------------------------------------
(* Type correctness.                                                       *)

LEMMA SeqsOfType ==
  ASSUME TypeOK, NEW pid
  PROVE  SeqsOf(pid) \subseteq 1..MaxJobs
  <1>1. ASSUME NEW i \in DOMAIN job_list PROVE job_list[i].seq \in 1..MaxJobs
    <2>1. job_list \in Seq(Jobs)
      BY DEF TypeOK
    <2>2. job_list[i] \in Jobs
      BY <2>1, <1>1, ElementOfSeq, LenProperties
    <2> QED
      BY <2>2 DEF Jobs
  <1> QED
    BY <1>1 DEF SeqsOf

LEMMA TypeInit == Init => TypeOK
  <1>1. << >> \in Seq(Jobs) /\ << >> \in Seq(1..MaxJobs)
    BY EmptySeq
  <1>2. Init => leaked \in BOOLEAN
    BY DEF Init
  <1> QED
    BY <1>1, <1>2, ChannelAssumption DEF Init, TypeOK, Seqnos, IrqBits

LEMMA TypeThread ==
  ASSUME TypeOK, NEW t \in Threads, Thread(t)
  PROVE  TypeOK'
  <1> USE ChannelAssumption DEF TypeOK, queueVars, hwVars, irqVars, workVars, userVars, Goto
  <1>1. CASE open(t)
    BY <1>1 DEF open, Seqnos
  <1>2. CASE Rejected(t) /\ leaked' \in BOOLEAN
    BY <1>2 DEF Rejected, Seqnos
  <1>3. CASE Enqueue(t)
    <2>1. [seq |-> submited_seqno + 1, pid |-> PidOf[t], state |-> "INITIAL"] \in Jobs
      BY <1>3 DEF Enqueue, Jobs, Pids, Seqnos
    <2>2. job_list' \in Seq(Jobs)
      BY <1>3, <2>1, AppendProperties DEF Enqueue
    <2>3. submited_seqno' \in Seqnos /\ mine' \in [Threads -> Seqnos]
      BY <1>3 DEF Enqueue, Seqnos
    <2>4. job_lock' \in Threads \cup {Free, Irq}
      BY <1>3 DEF Enqueue
    <2>5. pc' = [pc EXCEPT ![t] = "start"] \/ pc' = [pc EXCEPT ![t] = "seqno"]
      BY <1>3 DEF Enqueue
    <2> QED
      BY <1>3, <2>2, <2>3, <2>4, <2>5 DEF Enqueue
  <1>4. CASE NullNode(t)
    BY <1>4 DEF NullNode
  <1>5. CASE StartFirst(t)
    <2>1. job_list' \in Seq(Jobs) /\ hw' \in Seqnos
      BY <1>5, StartedList, FirstSeqType DEF StartFirst, submit_next_job
    <2> QED
      BY <1>5, <2>1 DEF StartFirst, submit_next_job
  <1>6. CASE ReadSeqno(t)
    BY <1>6 DEF ReadSeqno
  <1>7. CASE wait(t)
    <2>1. ASSUME NEW s \in 1..MaxJobs, WaitEnter(t, s) PROVE TypeOK'
      <3>0. wait_seqno' = [wait_seqno EXCEPT ![t] = 0] \/ wait_seqno' = [wait_seqno EXCEPT ![t] = s]
        BY <2>1 DEF WaitEnter, Return
      <3>1. wait_seqno' \in [Threads -> Seqnos]
        <4>1. 0 \in Seqnos /\ s \in Seqnos
          BY <2>1 DEF Seqnos
        <4> QED
          BY <3>0, <4>1
      <3>2. pc' = [pc EXCEPT ![t] = "idle"] \/ pc' = [pc EXCEPT ![t] = "check"]
        BY <2>1 DEF WaitEnter, Return
      <3> QED
        BY <2>1, <3>1, <3>2 DEF WaitEnter
    <2>2. CASE WaitCheck(t)
      <3>0. wait_seqno' = [wait_seqno EXCEPT ![t] = 0] \/ wait_seqno' = wait_seqno
        BY <2>2 DEF WaitCheck, Return
      <3>1. wait_seqno' \in [Threads -> Seqnos]
        <4>1. 0 \in Seqnos
          BY DEF Seqnos
        <4> QED
          BY <3>0, <4>1
      <3>2. pc' = [pc EXCEPT ![t] = "idle"] \/ pc' = [pc EXCEPT ![t] = "sleep"]
        BY <2>2 DEF WaitCheck, Return
      <3> QED
        BY <2>2, <3>1, <3>2 DEF WaitCheck
    <2>3. CASE WaitAbort(t)
      BY <2>3 DEF WaitAbort, Return, Seqnos
    <2> QED
      BY <1>7, <2>1, <2>2, <2>3 DEF wait
  <1>8. CASE release(t)
    <2>1. SeqsOf(PidOf[t]) \subseteq 1..MaxJobs
      BY SeqsOfType
    <2>2. job_list' \in Seq(Jobs)
      BY <1>8, RemainingList DEF release
    <2>3. CASE job_lock' = t /\ Goto(t, "reset") /\ UNCHANGED <<queueVars, hwVars, irqVars, workVars,
                                                               userVars, cancelled, leaked>>
      BY <2>3
    <2>4. CASE RemoveJobs(PidOf[t]) /\ Closed(t) /\ UNCHANGED <<job_lock, hwVars>>
      <3>1. cancelled' \subseteq 1..MaxJobs /\ freed' \subseteq 1..MaxJobs
        BY <2>1, <2>4 DEF RemoveJobs
      <3>2. seqno' \in [Threads -> Seqnos] /\ mine' \in [Threads -> Seqnos]
        BY <2>4 DEF Closed, Seqnos
      <3>3. /\ pc' = [pc EXCEPT ![t] = "closed"]
            /\ UNCHANGED <<submited_seqno, finished_seqno, job_done_list, work_pending, worker,
                            work_exec, irqVars, wait_seqno, leaked>>
        BY <2>4 DEF Closed, RemoveJobs
      <3> QED
        BY <2>2, <2>4, <3>1, <3>2, <3>3
    <2> QED
      BY <1>8, <2>3, <2>4 DEF release
  <1>9. CASE ReleaseReset(t)
    <2>1. SeqsOf(PidOf[t]) \subseteq 1..MaxJobs
      BY SeqsOfType
    <2>2. job_list' \in Seq(Jobs) /\ hw' \in Seqnos
      BY <1>9, RemainingList, StartedList, FirstSeqType DEF ReleaseReset
    <2> QED
      BY <1>9, <2>1, <2>2 DEF ReleaseReset, Closed, RemoveJobs
  <1> QED
    BY <1>1, <1>2, <1>3, <1>4, <1>5, <1>6, <1>7, <1>8, <1>9
    DEF Thread, f_op, p_op, OpFails, ParamFault

LEMMA TypeHandler ==
  ASSUME TypeOK, Handler
  PROVE  TypeOK'
  <1> USE ChannelAssumption DEF TypeOK, queueVars, hwVars, irqVars, workVars, userVars
  <1>1. CASE irq_handler
    BY <1>1 DEF irq_handler
  <1>2. CASE irq_finish_job
    <2>1. CASE job_list # << >> /\ job_list[1].state = "RUNNING"
      <3>1. job_list[1] \in Jobs /\ Tail(job_list) \in Seq(Jobs)
        BY <2>1, ElementOfSeq, EmptySeq, LenProperties, HeadTailProperties
      <3>2. Append(job_done_list, job_list[1].seq) \in Seq(1..MaxJobs)
        BY <3>1, AppendProperties DEF Jobs
      <3> QED
        BY <1>2, <2>1, <3>1, <3>2 DEF irq_finish_job, wake_up_all, schedule_work, Jobs, Seqnos
    <2>2. CASE ~(job_list # << >> /\ job_list[1].state = "RUNNING")
      BY <1>2, <2>2 DEF irq_finish_job, wake_up_all
    <2> QED
      BY <2>1, <2>2
  <1>3. CASE IrqStartNext
    <2>1. job_list' \in Seq(Jobs) /\ hw' \in Seqnos
      BY <1>3, StartedList, FirstSeqType DEF IrqStartNext, submit_next_job
    <2> QED
      BY <1>3, <2>1 DEF IrqStartNext, submit_next_job, wake_up_all, schedule_work
  <1>4. CASE irq_return
    BY <1>4 DEF irq_return
  <1> QED
    BY <1>1, <1>2, <1>3, <1>4 DEF Handler

LEMMA TypeHwWorker ==
  ASSUME TypeOK, HwComplete \/ Worker
  PROVE  TypeOK'
  <1> USE ChannelAssumption DEF TypeOK, queueVars, hwVars, irqVars, workVars, userVars
  <1>1. CASE HwComplete
    BY <1>1 DEF HwComplete, Seqnos, IrqBits
  <1>2. CASE job_done_work
    BY <1>2 DEF job_done_work
  <1>3. CASE TakeCompleted
    <2>1. CASE job_done_list # << >>
      <3>1. Head(job_done_list) \in 1..MaxJobs /\ Tail(job_done_list) \in Seq(1..MaxJobs)
        BY <2>1, HeadTailProperties
      <3>2. work_exec' = Head(job_done_list) /\ job_done_list' = Tail(job_done_list)
              /\ worker' = worker
        BY <1>3, <2>1 DEF TakeCompleted
      <3>3. work_exec' \in Seqnos
        BY <3>1, <3>2 DEF Seqnos
      <3> QED
        BY <1>3, <3>1, <3>2, <3>3 DEF TakeCompleted
    <2> QED
      BY <1>3, <2>1 DEF TakeCompleted
  <1>4. CASE complete_exec
    BY <1>4 DEF complete_exec, Seqnos
  <1> QED
    BY <1>1, <1>2, <1>3, <1>4 DEF Worker

\* Every reachable state of the channel is well typed.
THEOREM TypeCorrect == Spec => []TypeOK
  <1>1. TypeOK /\ [Next]_vars => TypeOK'
    <2> SUFFICES ASSUME TypeOK, [Next]_vars PROVE TypeOK'
      OBVIOUS
    <2>1. CASE UNCHANGED vars
      BY <2>1 DEF vars, TypeOK, queueVars, hwVars, irqVars, workVars, userVars
    <2> QED
      BY <2>1, TypeThread, TypeHandler, TypeHwWorker DEF Next
  <1> QED
    BY <1>1, TypeInit, PTL DEF Spec

-----------------------------------------------------------------------------
(* Queue order, the lock, the running job and the completion on its way.   *)

\* Facts about job_list that every step below starts from.
LEMMA ListFacts ==
  ASSUME TypeOK
  PROVE  /\ job_list \in Seq(Jobs)
         /\ Len(job_list) \in Nat
         /\ DOMAIN job_list = 1..Len(job_list)
         /\ job_list # << >> <=> Len(job_list) >= 1
         /\ \A i \in 1..Len(job_list) : job_list[i] \in Jobs
         /\ \A i \in 1..Len(job_list) : job_list[i].seq \in Nat /\ job_list[i].seq >= 1
  <1>1. job_list \in Seq(Jobs)
    BY DEF TypeOK
  <1>2. \A i \in 1..Len(job_list) : job_list[i] \in Jobs
    BY <1>1, ElementOfSeq
  <1>3. \A i \in 1..Len(job_list) : job_list[i].seq \in Nat /\ job_list[i].seq >= 1
    BY <1>2 DEF Jobs
  <1> QED
    BY <1>1, <1>2, <1>3, LenProperties, EmptySeq

LEMMA InvInit == Init => ChannelInv
  <1>1. Init => LockInv /\ OrderInv /\ HeadInv /\ NoLostCompletion
    BY ChannelAssumption DEF Init, LockInv, OrderInv, HeadInv, NoLostCompletion
  <1> QED
    BY <1>1, TypeInit DEF ChannelInv

\* Steps that leave the queue, the lock, the hardware and the handler alone
\* and move one thread between labels at which it holds no lock.
LEMMA QuietStep ==
  ASSUME ChannelInv,
         UNCHANGED <<submited_seqno, finished_seqno, job_list, job_lock, hw, irq_reg, irqVars>>,
         \A t \in Threads : \/ pc'[t] = pc[t]
                            \/ {pc[t], pc'[t]} \cap {"start", "reset"} = {}
  PROVE  LockInv' /\ OrderInv' /\ HeadInv' /\ NoLostCompletion'
  <1>1. \A t \in Threads : /\ pc'[t] = "start" <=> pc[t] = "start"
                           /\ pc'[t] = "reset" <=> pc[t] = "reset"
    OBVIOUS
  <1>2. LockInv'
    BY <1>1 DEF ChannelInv, LockInv, irqVars
  <1>3. OrderInv' /\ NoLostCompletion'
    BY DEF ChannelInv, OrderInv, NoLostCompletion, irqVars, FinishBits
  <1>4. HeadInv'
    BY <1>1 DEF ChannelInv, HeadInv, irqVars
  <1> QED
    BY <1>2, <1>3, <1>4

LEMMA InvQuietThread ==
  ASSUME ChannelInv, NEW t \in Threads,
         open(t) \/ Rejected(t) \/ NullNode(t) \/ ReadSeqno(t) \/ wait(t)
  PROVE  LockInv' /\ OrderInv' /\ HeadInv' /\ NoLostCompletion'
  <1>1. UNCHANGED <<submited_seqno, finished_seqno, job_list, job_lock, hw, irq_reg, irqVars>>
    BY DEF open, Rejected, NullNode, ReadSeqno, wait, WaitEnter, WaitCheck, WaitAbort,
           queueVars, hwVars, irqVars
  <1>2. \E l \in {"idle", "seqno", "exit", "check", "sleep"} : pc' = [pc EXCEPT ![t] = l]
    BY DEF open, Rejected, NullNode, ReadSeqno, wait, WaitEnter, WaitCheck, WaitAbort, Return, Goto
  <1>3. pc[t] \notin {"start", "reset"}
    BY DEF open, Rejected, NullNode, ReadSeqno, wait, WaitEnter, WaitCheck, WaitAbort
  <1>4. \A u \in Threads : \/ pc'[u] = pc[u]
                           \/ {pc[u], pc'[u]} \cap {"start", "reset"} = {}
    BY <1>2, <1>3 DEF ChannelInv, TypeOK
  <1> QED
    BY <1>1, <1>4, QuietStep

LEMMA InvEnqueue ==
  ASSUME ChannelInv, NEW t \in Threads, Enqueue(t)
  PROVE  LockInv' /\ OrderInv' /\ HeadInv' /\ NoLostCompletion'
  <1> DEFINE job == [seq |-> submited_seqno + 1, pid |-> PidOf[t], state |-> "INITIAL"]
  <1>1. TypeOK /\ job_lock = Free /\ job_list' = Append(job_list, job)
        /\ UNCHANGED <<finished_seqno, hw, irq_reg, irqVars>>
        /\ submited_seqno' = submited_seqno + 1
    BY DEF ChannelInv, Enqueue, hwVars
  <1>2. submited_seqno \in Nat /\ finished_seqno \in Nat
    BY <1>1, ChannelAssumption DEF TypeOK, Seqnos
  <1>3. job \in Jobs
    BY <1>1, <1>2, ChannelAssumption DEF Enqueue, Jobs, Pids, TypeOK, Seqnos
  <1>4. /\ Len(job_list') = Len(job_list) + 1
        /\ DOMAIN job_list' = 1..Len(job_list')
        /\ \A i \in 1..Len(job_list) : job_list'[i] = job_list[i]
        /\ job_list'[Len(job_list) + 1] = job
        /\ job_list' # << >>
    BY <1>1, <1>3, ListFacts, AppendProperties, LenProperties, EmptySeq
  <1>5. job_list'[Len(job_list) + 1].seq = submited_seqno + 1
        /\ job_list'[Len(job_list) + 1].state = "INITIAL"
    BY <1>4
  <1> HIDE DEF job
  <1>6. OrderInv'
    BY <1>1, <1>2, <1>4, <1>5, ListFacts DEF ChannelInv, OrderInv
  <1>7. irq_pc \notin {"start", "restart"} /\ \A u \in Threads : pc[u] \notin {"start", "reset"}
    BY <1>1, ChannelAssumption DEF ChannelInv, LockInv
  <1>8. CASE job_list = << >>
    <2>1. job_lock' = t /\ pc' = [pc EXCEPT ![t] = "start"]
      BY <1>8 DEF Enqueue, Goto
    <2>2. LockInv'
      BY <1>1, <1>7, <2>1, ChannelAssumption DEF ChannelInv, LockInv, TypeOK, irqVars
    <2>3. pc'[t] = "start" /\ Len(job_list) = 0
      BY <1>1, <2>1, <1>8, ListFacts DEF TypeOK
    <2>4. HeadInv'
      BY <1>1, <1>4, <1>5, <1>7, <2>3, ListFacts DEF HeadInv, irqVars
    <2>5. NoLostCompletion'
      BY <1>4, <1>5, <2>3 DEF NoLostCompletion
    <2> QED
      BY <1>6, <2>2, <2>4, <2>5
  <1>9. CASE job_list # << >>
    <2>1. job_lock' = Free /\ pc' = [pc EXCEPT ![t] = "seqno"]
      BY <1>9 DEF Enqueue, Goto
    <2>2. LockInv'
      BY <1>1, <1>7, <2>1, ChannelAssumption DEF ChannelInv, LockInv, TypeOK, irqVars
    <2>3. job_list'[1] = job_list[1] /\ Len(job_list) >= 1
      BY <1>1, <1>4, <1>9, ListFacts
    <2>4. \A u \in Threads : pc'[u] # "start"
      BY <1>1, <1>7, <2>1 DEF TypeOK
    <2>5. HeadInv'
      BY <1>1, <1>4, <1>5, <1>7, <1>9, <2>3, <2>4, ListFacts DEF ChannelInv, HeadInv, irqVars
    <2>6. NoLostCompletion'
      BY <1>1, <1>9, <2>3 DEF ChannelInv, NoLostCompletion, irqVars, FinishBits
    <2> QED
      BY <1>6, <2>2, <2>5, <2>6
  <1> QED
    BY <1>8, <1>9

\* The queue after submit_next_job, whoever calls it with the lock held.
LEMMA StartNext ==
  ASSUME ChannelInv, submit_next_job, job_list # << >>,
         UNCHANGED <<submited_seqno, finished_seqno>>
  PROVE  /\ OrderInv' /\ NoLostCompletion'
         /\ job_list' # << >> /\ job_list'[1].state = "RUNNING"
         /\ \A i \in DOMAIN job_list' : i > 1 => job_list'[i].state = "INITIAL"
  <1>1. TypeOK /\ job_list' = Started(job_list) /\ hw' = FirstSeq(job_list)
    BY DEF ChannelInv, submit_next_job
  <1>2. /\ job_list' \in Seq(Jobs)
        /\ Len(job_list') = Len(job_list)
        /\ job_list'[1].state = "RUNNING"
        /\ \A i \in 1..Len(job_list) :
             /\ job_list'[i].seq = job_list[i].seq
             /\ i > 1 => job_list'[i].state = job_list[i].state
    BY <1>1, ListFacts, StartedList
  <1>3. DOMAIN job_list' = 1..Len(job_list) /\ job_list' # << >> /\ Len(job_list) >= 1
    BY <1>1, <1>2, LenProperties, EmptySeq, ListFacts
  <1>4. OrderInv'
    BY <1>1, <1>2, <1>3, ListFacts DEF ChannelInv, OrderInv
  <1>5. hw' = job_list'[1].seq
    BY <1>1, <1>2, <1>3, ListFacts DEF FirstSeq
  <1>6. \A i \in DOMAIN job_list' : i > 1 => job_list'[i].state = "INITIAL"
    BY <1>1, <1>2, <1>3, ListFacts DEF ChannelInv, HeadInv
  <1> QED
    BY <1>2, <1>3, <1>4, <1>5, <1>6 DEF NoLostCompletion

LEMMA InvStartFirst ==
  ASSUME ChannelInv, NEW t \in Threads, StartFirst(t)
  PROVE  LockInv' /\ OrderInv' /\ HeadInv' /\ NoLostCompletion'
  <1>1. pc[t] = "start" /\ job_lock' = Free /\ pc' = [pc EXCEPT ![t] = "seqno"]
        /\ UNCHANGED irqVars /\ TypeOK
    BY DEF ChannelInv, StartFirst, Goto
  <1>2. job_list # << >>
    BY <1>1 DEF ChannelInv, HeadInv
  <1>3. /\ OrderInv' /\ NoLostCompletion'
        /\ job_list' # << >> /\ job_list'[1].state = "RUNNING"
        /\ \A i \in DOMAIN job_list' : i > 1 => job_list'[i].state = "INITIAL"
    BY <1>2, StartNext DEF StartFirst
  <1>4. job_lock = t /\ irq_pc \notin {"start", "restart"}
        /\ \A u \in Threads : u # t => pc[u] \notin {"start", "reset"}
    BY <1>1, ChannelAssumption DEF ChannelInv, LockInv
  <1>5. \A u \in Threads : pc'[u] \notin {"start", "reset"}
    BY <1>1, <1>4 DEF TypeOK
  <1>6. LockInv'
    BY <1>1, <1>4, <1>5, ChannelAssumption DEF ChannelInv, LockInv, irqVars
  <1>7. HeadInv'
    BY <1>1, <1>3, <1>4, <1>5 DEF HeadInv, irqVars
  <1> QED
    BY <1>3, <1>6, <1>7

\* wake_up_all touches only sleeping threads.
LEMMA WakeUp ==
  ASSUME TypeOK, wake_up_all \/ UNCHANGED pc
  PROVE  \A u \in Threads : /\ pc'[u] = "start" <=> pc[u] = "start"
                            /\ pc'[u] = "reset" <=> pc[u] = "reset"
  BY DEF wake_up_all, TypeOK

LEMMA InvIrqStartNext ==
  ASSUME ChannelInv, IrqStartNext
  PROVE  LockInv' /\ OrderInv' /\ HeadInv' /\ NoLostCompletion'
  <1>1. irq_pc \in {"start", "restart"} /\ job_lock' = Free /\ irq_pc' = "handler"
        /\ UNCHANGED irq_status /\ TypeOK /\ (wake_up_all \/ UNCHANGED pc)
    BY DEF ChannelInv, IrqStartNext
  <1>2. job_list # << >>
    BY <1>1 DEF ChannelInv, HeadInv
  <1>3. /\ OrderInv' /\ NoLostCompletion'
        /\ job_list' # << >> /\ job_list'[1].state = "RUNNING"
        /\ \A i \in DOMAIN job_list' : i > 1 => job_list'[i].state = "INITIAL"
    BY <1>2, StartNext DEF IrqStartNext
  <1>4. \A u \in Threads : pc[u] \notin {"start", "reset"}
    BY <1>1, ChannelAssumption DEF ChannelInv, LockInv
  <1>5. \A u \in Threads : pc'[u] \notin {"start", "reset"}
    BY <1>1, <1>4, WakeUp
  <1>6. LockInv'
    BY <1>1, <1>5, ChannelAssumption DEF LockInv
  <1>7. HeadInv'
    BY <1>1, <1>3, <1>5 DEF HeadInv
  <1> QED
    BY <1>3, <1>6, <1>7

LEMMA InvHwWorker ==
  ASSUME ChannelInv, HwComplete \/ Worker
  PROVE  LockInv' /\ OrderInv' /\ HeadInv' /\ NoLostCompletion'
  <1>1. CASE HwComplete
    <2>1. LockInv' /\ OrderInv' /\ HeadInv'
      BY <1>1 DEF HwComplete, ChannelInv, LockInv, OrderInv, HeadInv, queueVars, irqVars
    <2>2. irq_reg' \cap FinishBits # {}
      BY <1>1, CompletionAssumption DEF HwComplete
    <2> QED
      BY <2>1, <2>2 DEF NoLostCompletion, FinishBits
  <1>2. CASE Worker
    <2>1. UNCHANGED <<submited_seqno, finished_seqno, job_list, job_lock, hw, irq_reg, irqVars, pc>>
      BY <1>2 DEF Worker, job_done_work, TakeCompleted, complete_exec, queueVars, hwVars, irqVars
    <2> QED
      BY <2>1, QuietStep
  <1> QED
    BY <1>1, <1>2

LEMMA InvIrqEnds ==
  ASSUME ChannelInv, irq_handler \/ irq_return
  PROVE  LockInv' /\ OrderInv' /\ HeadInv' /\ NoLostCompletion'
  <1>1. UNCHANGED <<queueVars, job_lock, hw, pc>>
    BY DEF irq_handler, irq_return, hwVars
  <1>2. OrderInv'
    BY <1>1 DEF ChannelInv, OrderInv, queueVars
  <1>3. CASE irq_handler
    <2>1. LockInv' /\ HeadInv' /\ NoLostCompletion'
      BY <1>1, <1>3 DEF irq_handler, ChannelInv, LockInv, HeadInv, NoLostCompletion, queueVars,
                        FinishBits
    <2> QED
      BY <1>2, <2>1
  <1>4. CASE irq_return
    <2>1. LockInv' /\ HeadInv' /\ NoLostCompletion'
      BY <1>1, <1>4 DEF irq_return, ChannelInv, LockInv, HeadInv, NoLostCompletion, queueVars,
                        FinishBits, hwVars
    <2> QED
      BY <1>2, <2>1
  <1> QED
    BY <1>3, <1>4

\* The first job of a free channel runs, so finish_job always retires it.
LEMMA InvFinishJob ==
  ASSUME ChannelInv, irq_finish_job
  PROVE  LockInv' /\ OrderInv' /\ HeadInv' /\ NoLostCompletion'
  <1>1. job_lock = Free /\ irq_pc = "handler" /\ TypeOK
        /\ UNCHANGED <<submited_seqno, hw, irq_reg>>
    BY DEF ChannelInv, irq_finish_job, hwVars
  <1>2. irq_pc \notin {"start", "restart"} /\ \A u \in Threads : pc[u] \notin {"start", "reset"}
    BY <1>1, ChannelAssumption DEF ChannelInv, LockInv
  <1>3. submited_seqno \in Nat /\ finished_seqno \in Nat
    BY <1>1, ChannelAssumption DEF TypeOK, Seqnos
  <1>4. CASE job_list = << >>
    <2>1. UNCHANGED <<job_list, finished_seqno, job_lock, irq_pc, pc>>
      BY <1>1, <1>4 DEF irq_finish_job
    <2> QED
      BY <1>1, <1>2, <1>4, <2>1 DEF ChannelInv, LockInv, OrderInv, HeadInv, NoLostCompletion
  <1>5. CASE job_list # << >>
    <2>1. job_list[1].state = "RUNNING" /\ Len(job_list) >= 1
      BY <1>1, <1>2, <1>5, ListFacts DEF ChannelInv, HeadInv
    <2>2. /\ finished_seqno' = job_list[1].seq
          /\ job_list' = Tail(job_list)
          /\ wake_up_all \/ UNCHANGED pc
      BY <1>5, <2>1 DEF irq_finish_job
    <2>3. /\ job_list' \in Seq(Jobs)
          /\ Len(job_list') = Len(job_list) - 1
          /\ \A i \in 1..Len(job_list') : job_list'[i] = job_list[i + 1]
      BY <1>1, <1>5, <2>2, ListFacts, HeadTailProperties
    <2>4. DOMAIN job_list' = 1..Len(job_list') /\ (job_list' # << >> <=> Len(job_list') >= 1)
      BY <2>3, LenProperties, EmptySeq
    <2>5. \A u \in Threads : pc'[u] \notin {"start", "reset"}
      BY <1>1, <1>2, <2>2, WakeUp
    <2>6. OrderInv'
      <3>1. \A i \in 1..Len(job_list') : /\ i + 1 \in 1..Len(job_list) /\ 1 < i + 1
                                         /\ job_list'[i].seq = job_list[i + 1].seq
        BY <1>1, <2>3, ListFacts
      <3>2. job_list[1].seq <= submited_seqno
        BY <1>1, <1>3, <2>1, ListFacts DEF ChannelInv, OrderInv
      <3>0. /\ \A i, k \in 1..Len(job_list) : i < k => job_list[i].seq < job_list[k].seq
            /\ \A i \in 1..Len(job_list) : job_list[i].seq \in Nat
                                            /\ job_list[i].seq <= submited_seqno
        BY <1>1, <1>3, ListFacts DEF ChannelInv, OrderInv
      <3>3. ASSUME NEW i \in 1..Len(job_list'), NEW k \in 1..Len(job_list'), i < k
            PROVE  job_list'[i].seq < job_list'[k].seq
        <4>1. i + 1 < k + 1
          BY <3>3, <2>3, <2>4
        <4> QED
          BY <4>1, <3>0, <3>1
      <3>4. ASSUME NEW i \in 1..Len(job_list')
            PROVE  job_list[1].seq < job_list'[i].seq /\ job_list'[i].seq <= submited_seqno
                   /\ job_list'[i].seq \in Nat
        <4>1. 1 \in 1..Len(job_list)
          BY <1>1, <2>1, ListFacts
        <4> QED
          BY <4>1, <3>0, <3>1
      <3>5. job_list[1].seq \in Nat
        BY <1>1, <2>1, ListFacts
      <3>6. submited_seqno' = submited_seqno /\ finished_seqno' = job_list[1].seq
        BY <1>1, <2>2
      <3>7. \A i, k \in DOMAIN job_list' : i < k => job_list'[i].seq < job_list'[k].seq
        BY <2>4, <3>3
      <3>8. \A i \in DOMAIN job_list' : job_list'[i].seq \in finished_seqno' + 1 .. submited_seqno'
        BY <1>3, <2>4, <3>4, <3>5, <3>6
      <3>9. finished_seqno' <= submited_seqno'
        BY <3>2, <3>6
      <3> QED
        BY <3>7, <3>8, <3>9 DEF OrderInv
    <2>7. \A i \in 1..Len(job_list') : job_list'[i].state = "INITIAL"
      BY <1>1, <2>3, ListFacts DEF ChannelInv, HeadInv
    <2>8. CASE Len(job_list) > 1
      <3>1. job_lock' = Irq /\ irq_pc' = "start"
        BY <1>5, <2>1, <2>8 DEF irq_finish_job
      <3>2. LockInv'
        BY <2>5, <3>1, ChannelAssumption DEF LockInv
      <3>3. job_list' # << >> /\ job_list'[1].state = "INITIAL"
        BY <1>1, <2>3, <2>4, <2>7, <2>8, ListFacts
      <3>4. HeadInv' /\ NoLostCompletion'
        BY <2>4, <2>7, <3>1, <3>3 DEF HeadInv, NoLostCompletion
      <3> QED
        BY <2>6, <3>2, <3>4
    <2>9. CASE Len(job_list) = 1
      <3>1. job_lock' = Free /\ irq_pc' = "handler"
        BY <1>5, <2>1, <2>9 DEF irq_finish_job
      <3>2. LockInv'
        BY <2>5, <3>1, ChannelAssumption DEF LockInv
      <3>3. job_list' = << >>
        BY <2>3, <2>4, <2>9
      <3>4. HeadInv' /\ NoLostCompletion'
        BY <2>4, <2>5, <3>1, <3>3 DEF HeadInv, NoLostCompletion
      <3> QED
        BY <2>6, <3>2, <3>4
    <2> QED
      BY <1>1, <2>1, <2>8, <2>9, ListFacts
  <1> QED
    BY <1>4, <1>5

\* Filtering the queue keeps its order, and jobs behind the first are idle.
LEMMA RemainingOrder ==
  ASSUME ChannelInv, NEW pid, NEW r \in Remaining(pid)
  PROVE  /\ r \in Seq(Jobs)
         /\ \A i, k \in 1..Len(r) : i < k => r[i].seq < r[k].seq
         /\ \A i \in 1..Len(r) : r[i].seq \in finished_seqno + 1 .. submited_seqno
         /\ \A i \in 1..Len(r) : i > 1 => r[i].state = "INITIAL"
         /\ \A i \in 1..Len(r) : r[i].pid # pid
         /\ job_list # << >> /\ job_list[1].pid # pid => r # << >> /\ r[1] = job_list[1]
  <1>1. TypeOK
    BY DEF ChannelInv
  <1>2. r \in Seq(Jobs)
    BY <1>1, RemainingList
  <1>3. PICK f \in [1..Len(r) -> DOMAIN job_list] :
              /\ \A i, k \in 1..Len(r) : i < k => f[i] < f[k]
              /\ \A p \in DOMAIN job_list : job_list[p].pid # pid => \E i \in 1..Len(r) : f[i] = p
              /\ \A i \in 1..Len(r) : r[i] = job_list[f[i]] /\ r[i].pid # pid
    BY <1>1, RemainingList
  <1>4. Len(r) \in Nat /\ \A i \in 1..Len(r) : f[i] \in 1..Len(job_list)
    BY <1>1, <1>2, <1>3, ListFacts, LenProperties
  <1>5. \A i, k \in 1..Len(r) : i < k => r[i].seq < r[k].seq
    BY <1>1, <1>3, <1>4, ListFacts DEF ChannelInv, OrderInv
  <1>6. \A i \in 1..Len(r) : r[i].seq \in finished_seqno + 1 .. submited_seqno
    BY <1>1, <1>3, <1>4, ListFacts DEF ChannelInv, OrderInv
  <1>7. \A i \in 1..Len(r) : i > 1 => f[i] > 1
    BY <1>1, <1>3, <1>4, ListFacts
  <1>8. \A i \in 1..Len(r) : i > 1 => r[i].state = "INITIAL"
    BY <1>1, <1>3, <1>4, <1>7, ListFacts DEF ChannelInv, HeadInv
  <1>9. ASSUME job_list # << >>, job_list[1].pid # pid PROVE r # << >> /\ r[1] = job_list[1]
    <2>1. PICK i \in 1..Len(r) : f[i] = 1
      BY <1>1, <1>3, <1>9, ListFacts
    <2>2. i = 1
      BY <1>4, <1>7, <2>1
    <2> QED
      BY <1>2, <1>3, <1>4, <2>1, <2>2, EmptySeq
  <1> QED
    BY <1>2, <1>3, <1>5, <1>6, <1>8, <1>9

LEMMA InvRelease ==
  ASSUME ChannelInv, NEW t \in Threads, release(t)
  PROVE  LockInv' /\ OrderInv' /\ HeadInv' /\ NoLostCompletion'
  <1> DEFINE pid == PidOf[t]
  <1>1. job_lock = Free /\ TypeOK /\ pc[t] \in {"idle", "exit"}
        /\ UNCHANGED <<submited_seqno, finished_seqno, hw, irq_reg, irqVars>>
    BY DEF ChannelInv, release, Closed, RemoveJobs, hwVars, queueVars, irqVars
  <1>2. irq_pc \notin {"start", "restart"} /\ \A u \in Threads : pc[u] \notin {"start", "reset"}
    BY <1>1, ChannelAssumption DEF ChannelInv, LockInv
  <1>3. CASE job_lock' = t /\ Goto(t, "reset") /\ UNCHANGED queueVars
    <2>1. pc' = [pc EXCEPT ![t] = "reset"] /\ job_list' = job_list
      BY <1>3 DEF Goto, queueVars
    <2>2. LockInv'
      BY <1>1, <1>2, <1>3, <2>1, ChannelAssumption DEF ChannelInv, LockInv, TypeOK, irqVars
    <2>3. \A u \in Threads : pc'[u] # "start"
      BY <1>1, <1>2, <2>1 DEF TypeOK
    <2>4. OrderInv' /\ HeadInv' /\ NoLostCompletion'
      BY <1>1, <1>2, <2>1, <2>3 DEF ChannelInv, OrderInv, HeadInv, NoLostCompletion, irqVars,
                                    FinishBits
    <2> QED
      BY <2>2, <2>4
  <1>4. CASE /\ \A i \in DOMAIN job_list : IsOf(pid, job_list[i]) => job_list[i].state # "RUNNING"
             /\ job_list' \in Remaining(pid)
             /\ Goto(t, "closed")
             /\ UNCHANGED job_lock
    <2>1. pc' = [pc EXCEPT ![t] = "closed"]
      BY <1>4 DEF Goto
    <2>2. \A u \in Threads : pc'[u] \notin {"start", "reset"}
      BY <1>1, <1>2, <2>1 DEF TypeOK
    <2>3. LockInv'
      BY <1>1, <1>2, <1>4, <2>2, ChannelAssumption DEF ChannelInv, LockInv, irqVars
    <2>4. job_list # << >> => job_list[1].state = "RUNNING" /\ job_list[1].pid # pid
      BY <1>1, <1>2, <1>4, ListFacts DEF ChannelInv, HeadInv, IsOf
    <2> HIDE DEF pid
    <2>5. /\ job_list' \in Seq(Jobs)
          /\ \A i, k \in 1..Len(job_list') : i < k => job_list'[i].seq < job_list'[k].seq
          /\ \A i \in 1..Len(job_list') : job_list'[i].seq \in finished_seqno + 1 .. submited_seqno
          /\ \A i \in 1..Len(job_list') : i > 1 => job_list'[i].state = "INITIAL"
          /\ job_list # << >> => job_list' # << >> /\ job_list'[1] = job_list[1]
      BY <1>4, <2>4, RemainingOrder
    <2>6. DOMAIN job_list' = 1..Len(job_list')
      BY <2>5, LenProperties
    <2>7. job_list = << >> => job_list' = << >>
      <3>1. SUFFICES ASSUME job_list = << >> PROVE job_list' = << >>
        OBVIOUS
      <3>2. PICK f \in [1..Len(job_list') -> DOMAIN job_list] : TRUE
        BY <1>1, <1>4, RemainingList
      <3>3. DOMAIN job_list = {}
        BY <1>1, <3>1, ListFacts
      <3>4. 1..Len(job_list') = {}
        BY <3>2, <3>3
      <3> QED
        BY <2>5, <3>4, LenProperties, EmptySeq
    <2>8. OrderInv'
      BY <1>1, <2>5, <2>6 DEF ChannelInv, OrderInv
    <2>9. HeadInv'
      BY <1>1, <1>2, <2>2, <2>4, <2>5, <2>6, <2>7 DEF HeadInv, irqVars
    <2>10. NoLostCompletion'
      BY <1>1, <2>4, <2>5, <2>7 DEF ChannelInv, NoLostCompletion, irqVars, FinishBits
    <2> QED
      BY <2>3, <2>8, <2>9, <2>10
  <1> QED
    BY <1>1, <1>3, <1>4 DEF release, Closed

LEMMA InvReleaseReset ==
  ASSUME ChannelInv, NEW t \in Threads, ReleaseReset(t)
  PROVE  LockInv' /\ OrderInv' /\ HeadInv' /\ NoLostCompletion'
  <1> DEFINE pid == PidOf[t]
  <1>1. pc[t] = "reset" /\ TypeOK /\ job_lock' = Free /\ pc' = [pc EXCEPT ![t] = "closed"]
        /\ UNCHANGED <<submited_seqno, finished_seqno, irqVars>>
    BY DEF ChannelInv, ReleaseReset, Closed, RemoveJobs, Goto
  <1>2. PICK rest \in Remaining(pid) : job_list' = Started(rest) /\ hw' = FirstSeq(rest)
    BY DEF ReleaseReset, Closed
  <1>3. job_lock = t /\ irq_pc \notin {"start", "restart"}
        /\ \A u \in Threads : u # t => pc[u] \notin {"start", "reset"}
    BY <1>1, ChannelAssumption DEF ChannelInv, LockInv
  <1>4. \A u \in Threads : pc'[u] \notin {"start", "reset"}
    BY <1>1, <1>3 DEF TypeOK
  <1>5. LockInv'
    BY <1>1, <1>3, <1>4, ChannelAssumption DEF ChannelInv, LockInv, irqVars
  <1> HIDE DEF pid
  <1>6. /\ rest \in Seq(Jobs)
        /\ \A i, k \in 1..Len(rest) : i < k => rest[i].seq < rest[k].seq
        /\ \A i \in 1..Len(rest) : rest[i].seq \in finished_seqno + 1 .. submited_seqno
        /\ \A i \in 1..Len(rest) : i > 1 => rest[i].state = "INITIAL"
    BY <1>2, RemainingOrder
  <1>7. /\ job_list' \in Seq(Jobs)
        /\ Len(job_list') = Len(rest)
        /\ rest # << >> => job_list'[1].state = "RUNNING"
        /\ \A i \in 1..Len(rest) :
             /\ job_list'[i].seq = rest[i].seq
             /\ i > 1 => job_list'[i].state = rest[i].state
    BY <1>2, <1>6, StartedList
  <1>8. DOMAIN job_list' = 1..Len(rest) /\ (rest # << >> <=> job_list' # << >>)
        /\ (rest # << >> => Len(rest) >= 1)
    BY <1>6, <1>7, LenProperties, EmptySeq
  <1>9. OrderInv'
    BY <1>1, <1>6, <1>7, <1>8 DEF ChannelInv, OrderInv
  <1>10. HeadInv'
    BY <1>1, <1>3, <1>4, <1>6, <1>7, <1>8 DEF HeadInv, irqVars
  <1>11. rest # << >> => hw' = job_list'[1].seq
    <2>1. rest # << >> => 1 \in 1..Len(rest)
      BY <1>6, <1>8, LenProperties
    <2> QED
      BY <1>2, <1>7, <2>1 DEF FirstSeq
  <1>12. NoLostCompletion'
    BY <1>8, <1>11 DEF NoLostCompletion
  <1> QED
    BY <1>5, <1>9, <1>10, <1>12

\* ChannelInv holds initially and every step keeps it.
THEOREM ChannelInvariant == Spec => []ChannelInv
  <1>1. ChannelInv /\ [Next]_vars => ChannelInv'
    <2> SUFFICES ASSUME ChannelInv, [Next]_vars PROVE ChannelInv'
      OBVIOUS
    <2>1. TypeOK'
      <3>1. TypeOK
        BY DEF ChannelInv
      <3>2. CASE UNCHANGED vars
        BY <3>1, <3>2 DEF vars, TypeOK, queueVars, hwVars, irqVars, workVars, userVars
      <3> QED
        BY <3>1, <3>2, TypeThread, TypeHandler, TypeHwWorker DEF Next
    <2>2. ASSUME NEW t \in Threads, Thread(t)
          PROVE  LockInv' /\ OrderInv' /\ HeadInv' /\ NoLostCompletion'
      BY <2>2, InvQuietThread, InvEnqueue, InvStartFirst, InvRelease, InvReleaseReset
         DEF Thread, f_op, p_op, OpFails, ParamFault
    <2>3. CASE Handler
      BY <2>1, <2>3, InvIrqEnds, InvFinishJob, InvIrqStartNext DEF Handler, ChannelInv
    <2>4. CASE HwComplete \/ Worker
      BY <2>1, <2>4, InvHwWorker DEF ChannelInv
    <2>5. CASE UNCHANGED vars
      <3>1. UNCHANGED <<submited_seqno, finished_seqno, job_list, job_lock, hw, irq_reg, irqVars, pc>>
        BY <2>5 DEF vars, queueVars, hwVars, irqVars
      <3> QED
        BY <2>1, <3>1, QuietStep DEF ChannelInv
    <2> QED
      BY <2>1, <2>2, <2>3, <2>4, <2>5 DEF ChannelInv, Next
  <1> QED
    BY <1>1, InvInit, PTL DEF Spec

\* The queue is ordered and its first job, and only it, runs whenever the
\* lock is free; finish_job never meets a first job that does not run.
THEOREM QueueIsShaped == Spec => []QueueShape
  <1>1. ChannelInv => QueueShape
    <2> SUFFICES ASSUME ChannelInv PROVE QueueShape
      OBVIOUS
    <2>1. job_lock = Free => ~(irq_pc = "start" \/ \E t \in Threads : pc[t] = "start")
      BY ChannelAssumption DEF ChannelInv, LockInv
    <2> QED
      BY <2>1 DEF ChannelInv, OrderInv, HeadInv, QueueShape
  <1> QED
    BY <1>1, ChannelInvariant, PTL

\* A running job is on the hardware or its completion is on its way.
THEOREM CompletionNeverLost == Spec => []NoLostCompletion
  <1>1. ChannelInv => NoLostCompletion
    BY DEF ChannelInv
  <1> QED
    BY <1>1, ChannelInvariant, PTL

-----------------------------------------------------------------------------
(* What the channel promises its users, proved from ChannelInvariant:      *)
(*  - on one CPU, with a soft reset that drops latched status bits and one *)
(*    status bit per completion, a job counts as finished only after the   *)
(*    hardware ran it to its end (FinishedOnlyWhenDone);                   *)
(*  - every job structure is freed exactly once (FreedExactlyOnce);        *)
(*  - a wait on the number a submit returned covers the own job            *)
(*    (WaitCoversOwnJob);                                                  *)
(*  - the channel implements the abstract queue JobFifo (ChannelIsFifo).   *)

OneCpu ==
  /\ ~Smp
  /\ ResetClearsIrq
  /\ \E b \in FinishBits : CompletionBits \cap FinishBits = {b}

LEMMA DoneInit == Init => OneCpuInv
  BY ChannelAssumption DEF Init, OneCpuInv

\* Steps that change neither the queue, the hardware, the handler nor the
\* history keep OneCpuInv, provided the lock is not handed over.
LEMMA DoneQuiet ==
  ASSUME OneCpuInv,
         UNCHANGED <<submited_seqno, job_list, hwVars, irqVars, cancelled>>,
         job_lock' = job_lock \/ job_lock' \notin Threads \/ irq_pc = "idle"
  PROVE  OneCpuInv'
  BY DEF OneCpuInv, hwVars, irqVars, FinishBits, Queued

LEMMA DoneQuietThread ==
  ASSUME OneCpuInv, NEW t \in Threads,
         open(t) \/ Rejected(t) \/ NullNode(t) \/ ReadSeqno(t) \/ wait(t)
  PROVE  OneCpuInv'
  <1>1. UNCHANGED <<submited_seqno, job_list, job_lock, hwVars, irqVars, cancelled>>
    BY DEF open, Rejected, NullNode, ReadSeqno, wait, WaitEnter, WaitCheck, WaitAbort,
           queueVars, hwVars, irqVars
  <1> QED
    BY <1>1, DoneQuiet

LEMMA DoneEnqueue ==
  ASSUME OneCpu, ChannelInv, OneCpuInv, NEW t \in Threads, Enqueue(t)
  PROVE  OneCpuInv'
  <1> DEFINE job == [seq |-> submited_seqno + 1, pid |-> PidOf[t], state |-> "INITIAL"]
  <1>1. TypeOK /\ irq_pc = "idle" /\ irq_status = {} /\ job_list' = Append(job_list, job)
        /\ UNCHANGED <<hwVars, irqVars, cancelled>> /\ submited_seqno' = submited_seqno + 1
    BY DEF ChannelInv, LockInv, Enqueue, OnCpu, OneCpu
  <1>2. submited_seqno \in Nat
    BY <1>1, ChannelAssumption DEF TypeOK, Seqnos
  <1>3. job \in Jobs
    BY <1>1, <1>2, ChannelAssumption DEF Enqueue, Jobs, Pids, TypeOK, Seqnos
  <1>4. /\ Len(job_list') = Len(job_list) + 1
        /\ DOMAIN job_list' = 1..Len(job_list')
        /\ \A i \in 1..Len(job_list) : job_list'[i] = job_list[i]
        /\ job_list'[Len(job_list) + 1] = job
        /\ job_list' # << >>
    BY <1>1, <1>3, ListFacts, AppendProperties, LenProperties, EmptySeq
  <1>5. job_list # << >> => job_list'[1] = job_list[1]
    BY <1>1, <1>4, ListFacts
  <1>6. Queued \cup {submited_seqno + 1} \subseteq Queued'
    <2>1. Queued \subseteq Queued'
      BY <1>1, <1>4, ListFacts DEF Queued
    <2>2. submited_seqno + 1 \in Queued'
      BY <1>1, <1>4, ListFacts DEF Queued
    <2> QED
      BY <2>1, <2>2
  <1>7. \A s \in 1..submited_seqno' : s \in hw_done \/ s \in cancelled \/ s \in Queued'
    BY <1>1, <1>2, <1>6 DEF OneCpuInv
  <1>8. \/ hw = 0 /\ irq_reg \cap FinishBits = {}
        \/ job_list # << >>
    BY DEF OneCpuInv
  <1> QED
    BY <1>1, <1>4, <1>5, <1>7, <1>8 DEF OneCpuInv, hwVars, irqVars, FinishBits

\* After submit_next_job: the hardware has the first job, no bit is latched.
LEMMA DoneStart ==
  ASSUME OneCpu, ChannelInv, OneCpuInv, submit_next_job, job_list # << >>,
         job_list[1].state = "INITIAL", UNCHANGED <<submited_seqno, irq_status, cancelled>>,
         job_lock' = Free
  PROVE  OneCpuInv'
  <1>1. /\ TypeOK /\ job_list' = Started(job_list) /\ hw' = FirstSeq(job_list)
        /\ irq_reg' = {} /\ UNCHANGED hw_done
    BY DEF ChannelInv, submit_next_job, OneCpu
  <1>2. irq_status \cap FinishBits = {}
    BY DEF OneCpuInv
  <1>3. /\ job_list' \in Seq(Jobs)
        /\ Len(job_list') = Len(job_list)
        /\ job_list'[1].state = "RUNNING"
        /\ \A i \in 1..Len(job_list) : job_list'[i].seq = job_list[i].seq
    BY <1>1, ListFacts, StartedList
  <1>4. DOMAIN job_list' = 1..Len(job_list) /\ job_list' # << >> /\ 1 \in 1..Len(job_list)
    BY <1>1, <1>3, LenProperties, EmptySeq, ListFacts
  <1>5. Queued' = Queued
    BY <1>1, <1>3, <1>4, ListFacts DEF Queued
  <1>6. hw' = job_list'[1].seq
    BY <1>1, <1>3, <1>4 DEF FirstSeq
  <1> QED
    BY <1>1, <1>2, <1>3, <1>4, <1>5, <1>6, ChannelAssumption DEF OneCpuInv, FinishBits

LEMMA DoneHandler ==
  ASSUME OneCpu, ChannelInv, OneCpuInv, Handler
  PROVE  OneCpuInv'
  <1>1. CASE irq_handler
    <2>1. irq_status = {} /\ job_lock \notin Threads
      BY <1>1, ChannelAssumption DEF irq_handler, ChannelInv, LockInv, OneCpu
    <2> QED
      BY <1>1, <2>1 DEF irq_handler, OneCpuInv, queueVars, FinishBits, Queued
  <1>2. CASE irq_return
    BY <1>2 DEF irq_return, OneCpuInv, queueVars, hwVars, FinishBits, Queued
  <1>3. CASE IrqStartNext
    <2>1. irq_pc = "start" /\ job_list # << >> /\ job_list[1].state = "INITIAL"
      BY <1>3 DEF IrqStartNext, ChannelInv, HeadInv
    <2> QED
      BY <1>3, <2>1, DoneStart DEF IrqStartNext
  <1>4. CASE irq_finish_job
    <2>1. /\ TypeOK /\ irq_status \cap FinishBits # {}
          /\ UNCHANGED <<submited_seqno, hw, irq_reg, hw_done, cancelled>>
          /\ irq_status' = irq_status \ (IF "CHAIN" \in irq_status THEN {"CHAIN"} ELSE {"TIMEOUT"})
      BY <1>4 DEF irq_finish_job, ChannelInv, hwVars
    <2>2. /\ hw = 0 /\ job_list # << >> /\ job_list[1].state = "RUNNING"
          /\ job_list[1].seq \in hw_done
      BY <2>1 DEF OneCpuInv
    <2>3. job_list' = Tail(job_list) /\ job_lock' \notin Threads
      BY <1>4, <2>2, ChannelAssumption DEF irq_finish_job
    <2>4. /\ Len(job_list') = Len(job_list) - 1
          /\ DOMAIN job_list' = 1..Len(job_list')
          /\ \A i \in 1..Len(job_list') : job_list'[i] = job_list[i + 1]
      BY <2>1, <2>2, <2>3, ListFacts, HeadTailProperties, LenProperties
    <2>5. \A s \in Queued : s = job_list[1].seq \/ s \in Queued'
      <3>1. ASSUME NEW i \in 1..Len(job_list), i # 1 PROVE job_list[i].seq \in Queued'
        <4>1. i - 1 \in 1..Len(job_list') /\ job_list'[i - 1] = job_list[i]
          BY <2>1, <2>4, <3>1, ListFacts
        <4> QED
          BY <2>4, <4>1 DEF Queued
      <3> QED
        BY <2>1, <3>1, ListFacts DEF Queued
    <2>6. irq_status' \cap FinishBits = {}
      <3>1. PICK b \in FinishBits : CompletionBits \cap FinishBits = {b}
        BY DEF OneCpu
      <3>2. b \in {"CHAIN", "TIMEOUT"}
        BY DEF FinishBits
      <3>3. irq_status \cap FinishBits = {b}
        BY <2>1, <3>1 DEF OneCpuInv
      <3>4. "CHAIN" \in FinishBits
        BY DEF FinishBits
      <3> QED
        BY <2>1, <3>2, <3>3, <3>4
    <2>7. irq_reg \cap FinishBits = {}
      BY <2>1 DEF OneCpuInv
    <2> QED
      BY <2>1, <2>2, <2>3, <2>5, <2>6, <2>7 DEF OneCpuInv, FinishBits
  <1> QED
    BY <1>1, <1>2, <1>3, <1>4 DEF Handler

LEMMA DoneHwWorker ==
  ASSUME OneCpu, ChannelInv, OneCpuInv, HwComplete \/ Worker
  PROVE  OneCpuInv'
  <1>1. CASE HwComplete
    <2>1. /\ hw # 0 /\ hw' = 0 /\ hw_done' = hw_done \cup {hw}
          /\ irq_reg' = irq_reg \cup CompletionBits
          /\ UNCHANGED <<submited_seqno, job_list, job_lock, irq_pc, irq_status, cancelled>>
      BY <1>1 DEF HwComplete, queueVars, irqVars
    <2>2. /\ job_list # << >> /\ hw = job_list[1].seq /\ job_list[1].state = "RUNNING"
          /\ irq_status \cap FinishBits = {}
      BY <2>1 DEF OneCpuInv
    <2> QED
      BY <2>1, <2>2 DEF OneCpuInv, FinishBits, Queued
  <1>2. CASE Worker
    <2>1. UNCHANGED <<submited_seqno, job_list, job_lock, hwVars, irqVars, cancelled>>
      BY <1>2 DEF Worker, job_done_work, TakeCompleted, complete_exec, queueVars
    <2> QED
      BY <2>1, DoneQuiet
  <1> QED
    BY <1>1, <1>2

LEMMA DoneStartFirst ==
  ASSUME OneCpu, ChannelInv, OneCpuInv, NEW t \in Threads, StartFirst(t)
  PROVE  OneCpuInv'
  <1>1. pc[t] = "start" /\ submit_next_job /\ job_lock' = Free
        /\ UNCHANGED <<submited_seqno, irq_status, cancelled>>
    BY DEF StartFirst, irqVars
  <1>2. job_list # << >> /\ job_list[1].state = "INITIAL"
    BY <1>1 DEF ChannelInv, HeadInv
  <1> QED
    BY <1>1, <1>2, DoneStart

\* A job that close drops from the queue is a job of the closing process.
LEMMA DroppedIsCancelled ==
  ASSUME TypeOK, NEW pid, NEW r \in Remaining(pid), NEW s \in Queued
  PROVE  s \in SeqsOf(pid) \/ \E i \in 1..Len(r) : r[i].seq = s
  <1>1. PICK f \in [1..Len(r) -> DOMAIN job_list] :
              /\ \A p \in DOMAIN job_list : job_list[p].pid # pid => \E i \in 1..Len(r) : f[i] = p
              /\ \A i \in 1..Len(r) : r[i] = job_list[f[i]]
    BY RemainingList
  <1>2. PICK p \in DOMAIN job_list : job_list[p].seq = s
    BY DEF Queued
  <1>3. CASE job_list[p].pid = pid
    BY <1>2, <1>3 DEF SeqsOf, IsOf
  <1>4. CASE job_list[p].pid # pid
    BY <1>1, <1>2, <1>4
  <1> QED
    BY <1>3, <1>4

LEMMA DoneRelease ==
  ASSUME OneCpu, ChannelInv, OneCpuInv, NEW t \in Threads, release(t)
  PROVE  OneCpuInv'
  <1> DEFINE pid == PidOf[t]
  <1>1. job_lock = Free /\ TypeOK /\ irq_pc = "idle" /\ irq_status = {}
        /\ UNCHANGED <<submited_seqno, hwVars, irqVars>>
    BY ChannelAssumption DEF ChannelInv, LockInv, release, Closed, OnCpu, OneCpu, RemoveJobs, queueVars
  <1>2. CASE job_lock' = t /\ UNCHANGED <<queueVars, cancelled>>
    BY <1>1, <1>2, DoneQuiet DEF queueVars
  <1>3. CASE /\ \A i \in DOMAIN job_list : IsOf(pid, job_list[i]) => job_list[i].state # "RUNNING"
             /\ job_list' \in Remaining(pid)
             /\ RemoveJobs(pid)
             /\ UNCHANGED job_lock
    <2>1. cancelled' = cancelled \cup SeqsOf(pid)
      BY <1>3 DEF RemoveJobs
    <2>2. irq_pc # "start" /\ \A u \in Threads : pc[u] # "start"
      BY <1>1, ChannelAssumption DEF ChannelInv, LockInv
    <2>3. job_list # << >> => job_list[1].state = "RUNNING" /\ job_list[1].pid # pid
      BY <1>1, <1>3, <2>2, ListFacts DEF ChannelInv, HeadInv, IsOf
    <2> HIDE DEF pid
    <2>4. /\ job_list' \in Seq(Jobs)
          /\ job_list # << >> => job_list' # << >> /\ job_list'[1] = job_list[1]
      BY <1>3, <2>3, RemainingOrder
    <2>5. DOMAIN job_list' = 1..Len(job_list')
      BY <2>4, LenProperties
    <2>6. \A s \in Queued : s \in cancelled' \/ s \in Queued'
      BY <1>1, <1>3, <2>1, <2>5, DroppedIsCancelled DEF Queued
    <2>7. \A s \in 1..submited_seqno' : s \in hw_done' \/ s \in cancelled' \/ s \in Queued'
      BY <1>1, <2>1, <2>6 DEF OneCpuInv, hwVars
    <2> QED
      BY <1>1, <1>3, <2>4, <2>7 DEF OneCpuInv, hwVars, irqVars, FinishBits
  <1> QED
    BY <1>1, <1>2, <1>3 DEF release, Closed

LEMMA DoneReleaseReset ==
  ASSUME OneCpu, ChannelInv, OneCpuInv, NEW t \in Threads, ReleaseReset(t)
  PROVE  OneCpuInv'
  <1> DEFINE pid == PidOf[t]
  <1>1. pc[t] = "reset" /\ TypeOK /\ job_lock' = Free /\ irq_reg' = {}
        /\ UNCHANGED <<submited_seqno, hw_done, irqVars>>
        /\ cancelled' = cancelled \cup SeqsOf(pid)
    BY DEF ChannelInv, ReleaseReset, Closed, RemoveJobs, OneCpu
  <1>2. PICK rest \in Remaining(pid) : job_list' = Started(rest) /\ hw' = FirstSeq(rest)
    BY DEF ReleaseReset, Closed
  <1>3. irq_pc = "idle" /\ irq_status = {}
    BY <1>1 DEF ChannelInv, LockInv, OneCpuInv
  <1> HIDE DEF pid
  <1>4. rest \in Seq(Jobs)
    BY <1>2, RemainingOrder
  <1>5. /\ job_list' \in Seq(Jobs)
        /\ Len(job_list') = Len(rest)
        /\ rest # << >> => job_list'[1].state = "RUNNING"
        /\ \A i \in 1..Len(rest) : job_list'[i].seq = rest[i].seq
    BY <1>2, <1>4, StartedList
  <1>6. DOMAIN job_list' = 1..Len(rest) /\ (rest # << >> <=> job_list' # << >>)
        /\ (rest # << >> => 1 \in 1..Len(rest))
    BY <1>4, <1>5, LenProperties, EmptySeq
  <1>7. hw' # 0 => job_list' # << >> /\ hw' = job_list'[1].seq /\ job_list'[1].state = "RUNNING"
    BY <1>2, <1>5, <1>6 DEF FirstSeq
  <1>8. \A s \in Queued : s \in cancelled' \/ s \in Queued'
    BY <1>1, <1>2, <1>5, <1>6, DroppedIsCancelled DEF Queued
  <1>9. \A s \in 1..submited_seqno' : s \in hw_done' \/ s \in cancelled' \/ s \in Queued'
    BY <1>1, <1>8 DEF OneCpuInv
  <1> QED
    BY <1>1, <1>3, <1>7, <1>9, ChannelAssumption DEF OneCpuInv, irqVars, FinishBits

\* On one CPU, f_reset and p_reset run with the interrupt masked and the
\* latched completion of a cancelled job dropped: finished_seqno passes a
\* job only when the hardware ran it to its end or close cancelled it.
THEOREM FinishedOnlyWhenDone ==
  ASSUME OneCpu
  PROVE  Spec => []FinishedIsDone
  <1>1. ChannelInv /\ OneCpuInv /\ [Next]_vars => OneCpuInv'
    <2> SUFFICES ASSUME ChannelInv, OneCpuInv, [Next]_vars PROVE OneCpuInv'
      OBVIOUS
    <2>1. ASSUME NEW t \in Threads, Thread(t) PROVE OneCpuInv'
      BY <2>1, DoneQuietThread, DoneEnqueue, DoneStartFirst, DoneRelease, DoneReleaseReset
         DEF Thread, f_op, p_op, OpFails, ParamFault
    <2>2. CASE UNCHANGED vars
      BY <2>2, DoneQuiet DEF vars, queueVars
    <2> QED
      BY <2>1, <2>2, DoneHandler, DoneHwWorker DEF Next
  <1>2. ChannelInv /\ OneCpuInv => FinishedIsDone
    <2> SUFFICES ASSUME ChannelInv, OneCpuInv, NEW s \in 1..finished_seqno
                 PROVE  s \in hw_done \/ s \in cancelled
      BY DEF FinishedIsDone
    <2>1. submited_seqno \in Nat /\ finished_seqno \in Nat /\ finished_seqno <= submited_seqno
      BY ChannelAssumption DEF ChannelInv, TypeOK, Seqnos, OrderInv
    <2>2. s \notin Queued
      <3>1. \A i \in DOMAIN job_list : job_list[i].seq > finished_seqno
        BY <2>1 DEF ChannelInv, OrderInv
      <3> QED
        BY <2>1, <3>1 DEF Queued
    <2> QED
      BY <2>1, <2>2 DEF OneCpuInv
  <1> QED
    BY <1>1, <1>2, DoneInit, ChannelInvariant, PTL DEF Spec

-----------------------------------------------------------------------------
(* What the steps do to the set of queued numbers.                         *)

LEMMA QueuedType ==
  ASSUME ChannelInv
  PROVE  /\ submited_seqno \in Nat /\ finished_seqno \in Nat
         /\ finished_seqno <= submited_seqno
         /\ Queued \subseteq finished_seqno + 1 .. submited_seqno
         /\ Queued = {job_list[i].seq : i \in 1..Len(job_list)}
  <1>1. submited_seqno \in Nat /\ finished_seqno \in Nat
    BY ChannelAssumption DEF ChannelInv, TypeOK, Seqnos
  <1> QED
    BY <1>1, ListFacts DEF ChannelInv, OrderInv, Queued

LEMMA QueuedEnqueue ==
  ASSUME ChannelInv, NEW t \in Threads, Enqueue(t)
  PROVE  Queued' = Queued \cup {submited_seqno + 1}
  <1> DEFINE job == [seq |-> submited_seqno + 1, pid |-> PidOf[t], state |-> "INITIAL"]
  <1>1. TypeOK /\ job_list' = Append(job_list, job) /\ submited_seqno < MaxJobs
    BY DEF ChannelInv, Enqueue
  <1>2. job \in Jobs
    BY <1>1, QueuedType, ChannelAssumption DEF Jobs, Pids
  <1>3. job.seq = submited_seqno + 1
    OBVIOUS
  <1> HIDE DEF job
  <1>4. /\ Len(job_list') = Len(job_list) + 1
        /\ DOMAIN job_list' = 1..Len(job_list')
        /\ \A i \in 1..Len(job_list) : job_list'[i] = job_list[i]
        /\ job_list'[Len(job_list) + 1] = job
    BY <1>1, <1>2, ListFacts, AppendProperties, LenProperties
  <1>5. Len(job_list) \in Nat /\ DOMAIN job_list = 1..Len(job_list)
    BY <1>1, ListFacts
  <1>6. DOMAIN job_list' = DOMAIN job_list \cup {Len(job_list) + 1}
    BY <1>4, <1>5
  <1> QED
    BY <1>3, <1>4, <1>5, <1>6 DEF Queued

LEMMA QueuedStarted ==
  ASSUME NEW list \in Seq(Jobs), job_list' = Started(list)
  PROVE  Queued' = {list[i].seq : i \in 1..Len(list)}
  <1>1. /\ job_list' \in Seq(Jobs)
        /\ Len(job_list') = Len(list)
        /\ \A i \in 1..Len(list) : job_list'[i].seq = list[i].seq
    BY StartedList
  <1>2. DOMAIN job_list' = 1..Len(list)
    BY <1>1, LenProperties
  <1> QED
    BY <1>1, <1>2 DEF Queued

\* The number of the first job leaves the queue with it.
LEMMA QueuedTail ==
  ASSUME ChannelInv, job_list # << >>, job_list' = Tail(job_list)
  PROVE  Queued' = Queued \ {job_list[1].seq} /\ job_list[1].seq \in Queued
  <1>1. /\ Len(job_list') = Len(job_list) - 1
        /\ DOMAIN job_list' = 1..Len(job_list')
        /\ \A i \in 1..Len(job_list') : job_list'[i] = job_list[i + 1]
    BY ListFacts, HeadTailProperties, LenProperties DEF ChannelInv
  <1>2. /\ Len(job_list) \in Nat /\ Len(job_list) >= 1 /\ DOMAIN job_list = 1..Len(job_list)
        /\ \A i \in 1..Len(job_list) : job_list[i].seq \in Nat
    BY ListFacts DEF ChannelInv
  <1>3. \A i \in 2..Len(job_list) : job_list[1].seq < job_list[i].seq
    BY <1>2 DEF ChannelInv, OrderInv
  <1>4. ASSUME NEW s \in Queued' PROVE s \in Queued \ {job_list[1].seq}
    <2>1. PICK i \in 1..Len(job_list') : s = job_list[i + 1].seq
      BY <1>1, <1>4 DEF Queued
    <2>2. i + 1 \in 2..Len(job_list)
      BY <1>1, <1>2, <2>1
    <2>3. s # job_list[1].seq
      BY <1>2, <1>3, <2>1, <2>2
    <2> QED
      BY <1>2, <2>1, <2>2, <2>3 DEF Queued
  <1>5. ASSUME NEW s \in Queued, s # job_list[1].seq PROVE s \in Queued'
    <2>1. PICK i \in 1..Len(job_list) : s = job_list[i].seq
      BY <1>2 DEF Queued
    <2>2. i - 1 \in 1..Len(job_list') /\ job_list'[i - 1] = job_list[i]
      BY <1>1, <1>2, <1>5, <2>1
    <2> QED
      BY <1>1, <2>1, <2>2 DEF Queued
  <1>6. job_list[1].seq \in Queued
    BY <1>2 DEF Queued
  <1> QED
    BY <1>4, <1>5, <1>6

\* close drops exactly the numbers of the closing process.
LEMMA RemainingSeqs ==
  ASSUME ChannelInv, NEW pid, NEW r \in Remaining(pid)
  PROVE  {r[i].seq : i \in 1..Len(r)} = Queued \ SeqsOf(pid)
  <1>1. TypeOK
    BY DEF ChannelInv
  <1>2. PICK f \in [1..Len(r) -> DOMAIN job_list] :
              /\ \A p \in DOMAIN job_list : job_list[p].pid # pid => \E i \in 1..Len(r) : f[i] = p
              /\ \A i \in 1..Len(r) : r[i] = job_list[f[i]] /\ r[i].pid # pid
    BY <1>1, RemainingList
  <1>3. ASSUME NEW p \in DOMAIN job_list, NEW q \in DOMAIN job_list,
               job_list[p].seq = job_list[q].seq
        PROVE  p = q
    <2>1. p \in Nat /\ q \in Nat /\ job_list[p].seq \in Nat
      BY <1>1, ListFacts
    <2>2. ~(p < q) /\ ~(q < p)
      BY <1>3, <2>1 DEF ChannelInv, OrderInv
    <2> QED
      BY <2>1, <2>2
  <1>4. ASSUME NEW i \in 1..Len(r) PROVE r[i].seq \in Queued \ SeqsOf(pid)
    <2>1. f[i] \in DOMAIN job_list /\ r[i] = job_list[f[i]] /\ r[i].pid # pid
      BY <1>2
    <2>2. r[i].seq \in Queued
      BY <2>1 DEF Queued
    <2>3. ASSUME NEW p \in DOMAIN job_list, IsOf(pid, job_list[p]) PROVE job_list[p].seq # r[i].seq
      BY <1>3, <2>1, <2>3 DEF IsOf
    <2> QED
      BY <2>2, <2>3 DEF SeqsOf
  <1>5. \A s \in Queued : s \in SeqsOf(pid) \/ \E i \in 1..Len(r) : r[i].seq = s
    BY <1>1, DroppedIsCancelled
  <1> QED
    BY <1>4, <1>5

-----------------------------------------------------------------------------
(* Every job structure is in exactly one place.                            *)

Done == {job_done_list[i] : i \in DOMAIN job_done_list}

\* Where a numbered job is: the four places are disjoint, together they are
\* all numbers handed out, and no number is twice on the done list.
PlaceInv ==
  /\ \A i, k \in DOMAIN job_done_list : i # k => job_done_list[i] # job_done_list[k]
  /\ Done \subseteq 1..finished_seqno
  /\ work_exec \in 0..finished_seqno /\ work_exec \notin Done
  /\ freed \subseteq 1..submited_seqno
  /\ freed \cap (Queued \cup Done \cup {work_exec}) = {}
  /\ 1..submited_seqno \subseteq Queued \cup Done \cup {work_exec} \cup freed

LEMMA PlaceInit == Init => PlaceInv
  BY DEF Init, PlaceInv, Done, Queued

LEMMA PlaceQuiet ==
  ASSUME PlaceInv, Queued' = Queued,
         UNCHANGED <<submited_seqno, finished_seqno, job_done_list, work_exec, freed>>
  PROVE  PlaceInv'
  BY DEF PlaceInv, Done

LEMMA PlaceEnqueue ==
  ASSUME ChannelInv, PlaceInv, NEW t \in Threads, Enqueue(t)
  PROVE  PlaceInv'
  <1>1. /\ submited_seqno' = submited_seqno + 1
        /\ UNCHANGED <<finished_seqno, job_done_list, work_exec, freed>>
    BY DEF Enqueue, workVars
  <1>2. Queued' = Queued \cup {submited_seqno + 1}
    BY QueuedEnqueue
  <1>3. Done' = Done
    BY <1>1 DEF Done
  <1>4. submited_seqno + 1 \notin freed
    BY QueuedType DEF PlaceInv
  <1> QED
    BY <1>1, <1>2, <1>3, <1>4, QueuedType DEF PlaceInv

LEMMA PlaceFinish ==
  ASSUME ChannelInv, PlaceInv, irq_finish_job
  PROVE  PlaceInv'
  <1>1. UNCHANGED <<submited_seqno, work_exec, freed>>
    BY DEF irq_finish_job
  <1>2. CASE ~(job_list # << >> /\ job_list[1].state = "RUNNING")
    <2>1. UNCHANGED <<job_list, job_done_list, finished_seqno>>
      BY <1>2 DEF irq_finish_job
    <2> QED
      BY <1>1, <2>1, PlaceQuiet DEF Queued
  <1>3. CASE job_list # << >> /\ job_list[1].state = "RUNNING"
    <2> DEFINE h == job_list[1].seq
    <2>1. /\ job_list' = Tail(job_list) /\ finished_seqno' = h
          /\ job_done_list' = Append(job_done_list, h)
      BY <1>3 DEF irq_finish_job
    <2>2. Queued' = Queued \ {h} /\ h \in Queued
      BY <1>3, <2>1, QueuedTail
    <2>3. h \in Nat /\ h > finished_seqno /\ h <= submited_seqno
      BY <2>2, QueuedType
    <2>4. job_done_list \in Seq(1..MaxJobs) /\ h \in 1..MaxJobs
      BY <2>3, QueuedType, ChannelAssumption DEF ChannelInv, TypeOK, Seqnos
    <2> HIDE DEF h
    <2>5. /\ Len(job_done_list) \in Nat /\ DOMAIN job_done_list = 1..Len(job_done_list)
          /\ DOMAIN job_done_list' = 1..Len(job_done_list) + 1
          /\ \A i \in 1..Len(job_done_list) : job_done_list'[i] = job_done_list[i]
          /\ job_done_list'[Len(job_done_list) + 1] = h
      BY <2>1, <2>4, AppendProperties, LenProperties
    <2>6. DOMAIN job_done_list' = DOMAIN job_done_list \cup {Len(job_done_list) + 1}
      BY <2>5
    <2>7. Done' = Done \cup {h}
      BY <2>5, <2>6 DEF Done
    <2>8. h \notin Done /\ h # work_exec /\ h \notin freed
      BY <2>2, <2>3, QueuedType DEF PlaceInv
    <2>9. \A i, k \in DOMAIN job_done_list' : i # k => job_done_list'[i] # job_done_list'[k]
      <3>1. \A i \in DOMAIN job_done_list : job_done_list[i] # h
        BY <2>8 DEF Done
      <3> QED
        BY <2>5, <2>6, <3>1 DEF PlaceInv
    <2>10. Done' \subseteq 1..finished_seqno' /\ work_exec' \in 0..finished_seqno'
      BY <1>1, <2>1, <2>3, <2>7, QueuedType DEF PlaceInv
    <2> QED
      BY <1>1, <2>2, <2>7, <2>8, <2>9, <2>10 DEF PlaceInv
  <1> QED
    BY <1>2, <1>3

LEMMA PlaceRemove ==
  ASSUME ChannelInv, PlaceInv, NEW pid, RemoveJobs(pid), Queued' = Queued \ SeqsOf(pid)
  PROVE  PlaceInv'
  <1>1. /\ freed' = freed \cup SeqsOf(pid)
        /\ UNCHANGED <<submited_seqno, finished_seqno, job_done_list, work_exec>>
    BY DEF RemoveJobs
  <1>2. SeqsOf(pid) \subseteq Queued
    BY DEF SeqsOf, Queued
  <1>3. SeqsOf(pid) \cap (Done \cup {work_exec}) = {} /\ SeqsOf(pid) \subseteq 1..submited_seqno
    BY <1>2, QueuedType DEF PlaceInv
  <1>4. Done' = Done
    BY <1>1 DEF Done
  <1> QED
    BY <1>1, <1>2, <1>3, <1>4 DEF PlaceInv

LEMMA PlaceThread ==
  ASSUME ChannelInv, PlaceInv, NEW t \in Threads, Thread(t)
  PROVE  PlaceInv'
  <1>1. CASE open(t) \/ Rejected(t) \/ NullNode(t) \/ ReadSeqno(t) \/ wait(t)
    <2>1. UNCHANGED <<submited_seqno, finished_seqno, job_list, job_done_list, work_exec, freed>>
      BY <1>1 DEF open, Rejected, NullNode, ReadSeqno, wait, WaitEnter, WaitCheck, WaitAbort,
                  queueVars, workVars
    <2> QED
      BY <2>1, PlaceQuiet DEF Queued
  <1>2. CASE StartFirst(t)
    <2>1. UNCHANGED <<submited_seqno, finished_seqno, job_done_list, work_exec, freed>>
          /\ job_list' = Started(job_list) /\ job_list \in Seq(Jobs)
      BY <1>2 DEF StartFirst, submit_next_job, workVars, ChannelInv, TypeOK
    <2> QED
      BY <2>1, QueuedStarted, QueuedType, PlaceQuiet
  <1>3. CASE release(t)
    <2>1. CASE UNCHANGED <<queueVars, workVars>>
      BY <2>1, PlaceQuiet DEF Queued, queueVars, workVars
    <2>2. CASE job_list' \in Remaining(PidOf[t]) /\ RemoveJobs(PidOf[t])
      <3>1. job_list' \in Seq(Jobs)
        BY <2>2, RemainingOrder
      <3>2. Queued' = {job_list'[i].seq : i \in 1..Len(job_list')}
        BY <3>1, LenProperties DEF Queued
      <3> QED
        BY <2>2, <3>2, RemainingSeqs, PlaceRemove
    <2> QED
      BY <1>3, <2>1, <2>2 DEF release
  <1>4. CASE ReleaseReset(t)
    <2>1. RemoveJobs(PidOf[t])
      BY <1>4 DEF ReleaseReset
    <2>2. PICK rest \in Remaining(PidOf[t]) : job_list' = Started(rest)
      BY <1>4 DEF ReleaseReset
    <2>3. rest \in Seq(Jobs)
      BY <2>2, RemainingOrder
    <2> QED
      BY <2>1, <2>2, <2>3, QueuedStarted, RemainingSeqs, PlaceRemove
  <1> QED
    BY <1>1, <1>2, <1>3, <1>4, PlaceEnqueue DEF Thread, f_op, p_op, OpFails, ParamFault

LEMMA PlaceWorker ==
  ASSUME ChannelInv, PlaceInv, Worker
  PROVE  PlaceInv'
  <1>1. UNCHANGED <<submited_seqno, finished_seqno, job_list>> /\ Queued' = Queued
    BY DEF Worker, job_done_work, TakeCompleted, complete_exec, queueVars, Queued
  <1>2. CASE job_done_work \/ (TakeCompleted /\ job_done_list = << >>)
    <2>1. UNCHANGED <<job_done_list, work_exec, freed>>
      BY <1>2 DEF job_done_work, TakeCompleted, queueVars
    <2> QED
      BY <1>1, <2>1, PlaceQuiet
  <1>3. CASE TakeCompleted /\ job_done_list # << >>
    <2>1. /\ work_exec = 0 /\ work_exec' = Head(job_done_list)
          /\ job_done_list' = Tail(job_done_list) /\ UNCHANGED freed
      BY <1>3 DEF TakeCompleted
    <2>2. job_done_list \in Seq(1..MaxJobs)
      BY DEF ChannelInv, TypeOK
    <2>3. /\ Len(job_done_list) \in Nat /\ Len(job_done_list) >= 1
          /\ DOMAIN job_done_list = 1..Len(job_done_list)
          /\ DOMAIN job_done_list' = 1..Len(job_done_list) - 1
          /\ \A i \in 1..Len(job_done_list) - 1 : job_done_list'[i] = job_done_list[i + 1]
          /\ work_exec' = job_done_list[1]
      BY <1>3, <2>1, <2>2, HeadTailProperties, LenProperties, EmptySeq
    <2>4. Done' \subseteq Done \ {work_exec'}
      <3>1. ASSUME NEW i \in DOMAIN job_done_list' PROVE job_done_list'[i] \in Done \ {work_exec'}
        <4>1. job_done_list'[i] = job_done_list[i + 1] /\ i + 1 \in DOMAIN job_done_list
              /\ 1 \in DOMAIN job_done_list /\ i + 1 # 1
          BY <2>3, <3>1
        <4> QED
          BY <2>3, <4>1 DEF PlaceInv, Done
      <3> QED
        BY <3>1 DEF Done
    <2>5. Done \subseteq Done' \cup {work_exec'} /\ work_exec' \in Done
      <3>1. ASSUME NEW i \in DOMAIN job_done_list, i # 1 PROVE job_done_list[i] \in Done'
        <4>1. i - 1 \in DOMAIN job_done_list' /\ job_done_list'[i - 1] = job_done_list[i]
          BY <2>3, <3>1
        <4> QED
          BY <4>1 DEF Done
      <3> QED
        BY <2>3, <3>1 DEF Done
    <2>6. \A i, k \in DOMAIN job_done_list' : i # k => job_done_list'[i] # job_done_list'[k]
      <3> SUFFICES ASSUME NEW i \in DOMAIN job_done_list', NEW k \in DOMAIN job_done_list', i # k
                   PROVE  job_done_list'[i] # job_done_list'[k]
        OBVIOUS
      <3>1. i + 1 \in DOMAIN job_done_list /\ k + 1 \in DOMAIN job_done_list /\ i + 1 # k + 1
        BY <2>3
      <3> QED
        BY <2>3, <3>1 DEF PlaceInv
    <2>7. 0 \notin 1..submited_seqno
      BY QueuedType
    <2>8. work_exec' \in 0..finished_seqno
      BY <2>5, QueuedType DEF PlaceInv
    <2> QED
      BY <1>1, <2>1, <2>4, <2>5, <2>6, <2>7, <2>8 DEF PlaceInv
  <1>4. CASE complete_exec
    <2>1. /\ work_exec # 0 /\ work_exec' = 0 /\ freed' = freed \cup {work_exec}
          /\ UNCHANGED job_done_list /\ Done' = Done
      BY <1>4 DEF complete_exec, queueVars, Done
    <2>2. /\ work_exec \in 1..submited_seqno /\ work_exec \notin Queued
          /\ 0 \notin Done /\ 0 \notin Queued /\ 0 \notin freed /\ 0 \in 0..finished_seqno
      BY <2>1, QueuedType DEF PlaceInv
    <2> QED
      BY <1>1, <2>1, <2>2 DEF PlaceInv
  <1> QED
    BY <1>2, <1>3, <1>4 DEF Worker

\* Only p_op loses a job structure before it is queued.
LeakInv == leaked => Channel = "P"

LEMMA LeakStep == LeakInv /\ [Next]_vars => LeakInv'
  <1> SUFFICES ASSUME LeakInv, [Next]_vars PROVE LeakInv'
    OBVIOUS
  <1>1. ASSUME NEW t \in Threads, Thread(t) PROVE UNCHANGED leaked \/ Channel = "P"
    <2>1. CASE p_op(t)
      BY <2>1 DEF p_op
    <2>2. CASE f_op(t)
      BY <2>2 DEF f_op, OpFails, Enqueue
    <2>3. CASE open(t) \/ StartFirst(t) \/ ReadSeqno(t) \/ wait(t)
      BY <2>3 DEF open, StartFirst, ReadSeqno, wait, WaitEnter, WaitCheck, WaitAbort
    <2>4. CASE release(t) \/ ReleaseReset(t)
      BY <2>4 DEF release, ReleaseReset, RemoveJobs
    <2> QED
      BY <1>1, <2>1, <2>2, <2>3, <2>4 DEF Thread
  <1>2. CASE HwComplete \/ Handler \/ Worker \/ UNCHANGED vars
    BY <1>2 DEF HwComplete, Handler, irq_handler, irq_finish_job, IrqStartNext, irq_return,
                Worker, job_done_work, TakeCompleted, complete_exec, vars, LeakInv
  <1> QED
    BY <1>1, <1>2 DEF Next, LeakInv

\* Every job structure that f_op or p_op queued is in exactly one place: on
\* the queue, on the done list, with the work item, or freed once; one lost
\* before it is queued is one of p_op.
THEOREM FreedExactlyOnce == Spec => []ExecOnce
  <1>1. ChannelInv /\ PlaceInv /\ [Next]_vars => PlaceInv'
    <2> SUFFICES ASSUME ChannelInv, PlaceInv, [Next]_vars PROVE PlaceInv'
      OBVIOUS
    <2>1. CASE HwComplete \/ irq_handler \/ irq_return \/ UNCHANGED vars
      <3>1. UNCHANGED <<submited_seqno, finished_seqno, job_list, job_done_list, work_exec, freed>>
        BY <2>1 DEF HwComplete, irq_handler, irq_return, vars, queueVars, workVars
      <3> QED
        BY <3>1, PlaceQuiet DEF Queued
    <2>2. CASE IrqStartNext
      <3>1. UNCHANGED <<submited_seqno, finished_seqno, job_done_list, work_exec, freed>>
            /\ job_list' = Started(job_list) /\ job_list \in Seq(Jobs)
        BY <2>2 DEF IrqStartNext, submit_next_job, ChannelInv, TypeOK
      <3> QED
        BY <3>1, QueuedStarted, QueuedType, PlaceQuiet
    <2> QED
      BY <2>1, <2>2, PlaceThread, PlaceFinish, PlaceWorker DEF Next, Handler
  <1>2. ChannelInv /\ PlaceInv /\ LeakInv => ExecOnce
    <2> SUFFICES ASSUME ChannelInv, PlaceInv, LeakInv PROVE ExecOnce
      OBVIOUS
    <2>1. {Queued, Done, {work_exec} \ {0}, freed} \subseteq SUBSET (1..submited_seqno)
      BY QueuedType DEF PlaceInv
    <2>2. ASSUME NEW s \in 1..submited_seqno
          PROVE  Cardinality({i \in DOMAIN job_list : job_list[i].seq = s})
                   + Cardinality({i \in DOMAIN job_done_list : job_done_list[i] = s})
                   + (IF work_exec = s THEN 1 ELSE 0) + (IF s \in freed THEN 1 ELSE 0) = 1
      <3> DEFINE Q == {i \in DOMAIN job_list : job_list[i].seq = s}
                 D == {i \in DOMAIN job_done_list : job_done_list[i] = s}
      <3>1. IF s \in Queued THEN Cardinality(Q) = 1 ELSE Cardinality(Q) = 0
        <4>1. CASE s \in Queued
          <5>1. PICK p \in DOMAIN job_list : job_list[p].seq = s
            BY <4>1 DEF Queued
          <5>2. ASSUME NEW q \in DOMAIN job_list, job_list[q].seq = s PROVE q = p
            <6>1. p \in Nat /\ q \in Nat /\ job_list[p].seq \in Nat
              BY <5>1, ListFacts DEF ChannelInv
            <6>2. ~(p < q) /\ ~(q < p)
              BY <5>1, <5>2, <6>1 DEF ChannelInv, OrderInv
            <6> QED
              BY <6>1, <6>2
          <5>3. Q = {p}
            BY <5>1, <5>2
          <5> QED
            BY <4>1, <5>3, FS_Singleton
        <4>2. CASE s \notin Queued
          <5>1. Q = {}
            BY <4>2 DEF Queued
          <5> QED
            BY <4>2, <5>1, FS_EmptySet
        <4> QED
          BY <4>1, <4>2
      <3>2. IF s \in Done THEN Cardinality(D) = 1 ELSE Cardinality(D) = 0
        <4>1. CASE s \in Done
          <5>1. PICK p \in DOMAIN job_done_list : job_done_list[p] = s
            BY <4>1 DEF Done
          <5>2. D = {p}
            BY <5>1 DEF PlaceInv
          <5> QED
            BY <4>1, <5>2, FS_Singleton
        <4>2. CASE s \notin Done
          <5>1. D = {}
            BY <4>2 DEF Done
          <5> QED
            BY <4>2, <5>1, FS_EmptySet
        <4> QED
          BY <4>1, <4>2
      <3>3. s \in Queued => s \notin Done /\ s # work_exec /\ s \notin freed
        BY QueuedType DEF PlaceInv
      <3>4. s \in Queued \/ s \in Done \/ s = work_exec \/ s \in freed
        BY DEF PlaceInv
      <3>5. (s \in Done => s # work_exec /\ s \notin freed) /\ (s = work_exec => s \notin freed)
        BY DEF PlaceInv
      <3> HIDE DEF Q, D
      <3>6. Cardinality(Q) + Cardinality(D)
              + (IF work_exec = s THEN 1 ELSE 0) + (IF s \in freed THEN 1 ELSE 0) = 1
        BY <3>1, <3>2, <3>3, <3>4, <3>5
      <3> QED
        BY <3>6 DEF Q, D
    <2> QED
      BY <2>1, <2>2 DEF ExecOnce, Done, LeakInv
  <1>3. Init => LeakInv
    BY DEF Init, LeakInv
  <1> QED
    BY <1>1, <1>2, <1>3, LeakStep, PlaceInit, ChannelInvariant, PTL DEF Spec

-----------------------------------------------------------------------------
(* The number that the submit ioctl returns.                               *)

\* A thread's last job has a number handed out, and once the ioctl is over
\* the number it returned, read outside the lock, is not a smaller one.
OwnInv ==
  \A t \in Threads :
    /\ mine[t] <= submited_seqno
    /\ pc[t] = "closed" => mine[t] = 0
    /\ pc[t] \in {"idle", "check", "sleep"} => mine[t] <= seqno[t]

\* Steps of anybody that leave seqno and mine alone, and bring no thread
\* out of the submit ioctl.
LEMMA OwnQuiet ==
  ASSUME ChannelInv, ChannelInv', OwnInv, UNCHANGED <<seqno, mine>>,
         submited_seqno <= submited_seqno',
         \A t \in Threads : /\ pc'[t] \in {"idle", "check", "sleep"}
                              => pc[t] \in {"idle", "check", "sleep"}
                            /\ pc'[t] = "closed" => pc[t] = "closed"
  PROVE  OwnInv'
  <1>1. /\ submited_seqno \in Nat /\ submited_seqno' \in Nat
        /\ \A t \in Threads : mine[t] \in Nat
    BY ChannelAssumption DEF ChannelInv, TypeOK, Seqnos
  <1> QED
    BY <1>1 DEF OwnInv

LEMMA OwnThread ==
  ASSUME ChannelInv, ChannelInv', OwnInv, NEW t \in Threads, Thread(t)
  PROVE  OwnInv'
  <1>0. /\ submited_seqno \in Nat
        /\ DOMAIN mine = Threads /\ DOMAIN seqno = Threads /\ DOMAIN pc = Threads
        /\ \A u \in Threads : mine[u] \in Nat /\ seqno[u] \in Nat
    BY ChannelAssumption DEF ChannelInv, TypeOK, Seqnos
  <1> USE DEF Goto
  <1>1. CASE Closed(t) /\ UNCHANGED submited_seqno
    <2>1. /\ pc' = [pc EXCEPT ![t] = "closed"] /\ UNCHANGED submited_seqno
          /\ seqno' = [seqno EXCEPT ![t] = 0] /\ mine' = [mine EXCEPT ![t] = 0]
      BY <1>1 DEF Closed
    <2> QED
      BY <1>0, <2>1 DEF OwnInv
  <1>2. CASE Rejected(t)
    <2>1. /\ pc' = [pc EXCEPT ![t] = "seqno"] /\ UNCHANGED <<submited_seqno, seqno>>
          /\ mine' = [mine EXCEPT ![t] = 0]
      BY <1>2 DEF Rejected, queueVars
    <2> QED
      BY <1>0, <2>1 DEF OwnInv
  <1>3. CASE Enqueue(t)
    <2>1. /\ submited_seqno' = submited_seqno + 1 /\ UNCHANGED seqno
          /\ mine' = [mine EXCEPT ![t] = submited_seqno + 1]
          /\ pc' = [pc EXCEPT ![t] = "start"] \/ pc' = [pc EXCEPT ![t] = "seqno"]
      BY <1>3 DEF Enqueue
    <2> QED
      BY <1>0, <2>1 DEF OwnInv
  <1>4. CASE ReadSeqno(t)
    <2>1. /\ pc' = [pc EXCEPT ![t] = "idle"] /\ UNCHANGED <<submited_seqno, mine>>
          /\ seqno' = [seqno EXCEPT ![t] = submited_seqno]
      BY <1>4 DEF ReadSeqno, queueVars
    <2> QED
      BY <1>0, <2>1 DEF OwnInv
  <1>5. CASE NullNode(t) \/ StartFirst(t) \/ (release(t) /\ ~Closed(t))
    <2>1. UNCHANGED <<submited_seqno, seqno, mine>>
      BY <1>5 DEF NullNode, StartFirst, release, RemoveJobs, queueVars, userVars
    <2>2. PICK l \in {"exit", "seqno", "reset"} : pc' = [pc EXCEPT ![t] = l]
      BY <1>5 DEF NullNode, StartFirst, release
    <2>3. \A u \in Threads : /\ pc'[u] \in {"idle", "check", "sleep"}
                               => pc[u] \in {"idle", "check", "sleep"}
                             /\ pc'[u] = "closed" => pc[u] = "closed"
      BY <1>0, <2>2
    <2> QED
      BY <1>0, <2>1, <2>3, OwnQuiet
  <1>6. CASE wait(t)
    <2>1. UNCHANGED <<submited_seqno, seqno, mine>> /\ pc[t] \in {"idle", "check", "sleep"}
      BY <1>6 DEF wait, WaitEnter, WaitCheck, WaitAbort, queueVars
    <2>2. PICK l \in {"idle", "check", "sleep"} : pc' = [pc EXCEPT ![t] = l]
      BY <1>6 DEF wait, WaitEnter, WaitCheck, WaitAbort, Return
    <2>3. \A u \in Threads : /\ pc'[u] \in {"idle", "check", "sleep"}
                               => pc[u] \in {"idle", "check", "sleep"}
                             /\ pc'[u] = "closed" => pc[u] = "closed"
      BY <1>0, <2>1, <2>2
    <2> QED
      BY <1>0, <2>1, <2>3, OwnQuiet
  <1>7. CASE open(t)
    <2>1. /\ pc' = [pc EXCEPT ![t] = "idle"] /\ UNCHANGED <<submited_seqno, seqno, mine>>
          /\ pc[t] = "closed" /\ mine[t] = 0
      BY <1>7 DEF open, queueVars, userVars, OwnInv
    <2> QED
      BY <1>0, <2>1 DEF OwnInv
  <1>8. CASE release(t) \/ ReleaseReset(t)
    <2>1. ~Closed(t) => release(t)
      BY <1>8 DEF ReleaseReset
    <2>2. Closed(t) => UNCHANGED submited_seqno
      BY <1>8 DEF release, ReleaseReset, RemoveJobs, queueVars
    <2> QED
      BY <1>1, <1>5, <2>1, <2>2
  <1> QED
    BY <1>2, <1>3, <1>4, <1>5, <1>6, <1>7, <1>8 DEF Thread, f_op, p_op, OpFails, ParamFault

\* jz_aip_v20_submit reads the counter without the lock and may return the
\* number of a later job; a wait on it never returns before the own job is
\* out of the queue.
THEOREM WaitCoversOwnJob == Spec => []OwnJobOut
  <1>1. ChannelInv /\ ChannelInv' /\ OwnInv /\ [Next]_vars => OwnInv'
    <2> SUFFICES ASSUME ChannelInv, ChannelInv', OwnInv, [Next]_vars PROVE OwnInv'
      OBVIOUS
    <2>1. CASE HwComplete \/ Handler \/ Worker \/ UNCHANGED vars
      <3>1. UNCHANGED <<submited_seqno, seqno, mine>>
        BY <2>1 DEF HwComplete, Handler, irq_handler, irq_finish_job, IrqStartNext, irq_return,
                    Worker, job_done_work, TakeCompleted, complete_exec, vars, queueVars, userVars
      <3>2. UNCHANGED pc \/ wake_up_all
        BY <2>1 DEF HwComplete, Handler, irq_handler, irq_finish_job, IrqStartNext, irq_return,
                    Worker, job_done_work, TakeCompleted, complete_exec, vars
      <3>3. \A t \in Threads : /\ pc'[t] \in {"idle", "check", "sleep"}
                                 => pc[t] \in {"idle", "check", "sleep"}
                               /\ pc'[t] = "closed" => pc[t] = "closed"
        BY <3>2 DEF wake_up_all
      <3>4. submited_seqno <= submited_seqno'
        BY <3>1, QueuedType
      <3> QED
        BY <3>1, <3>3, <3>4, OwnQuiet
    <2> QED
      BY <2>1, OwnThread DEF Next
  <1>2. ChannelInv /\ OwnInv => OwnJobOut
    <2> SUFFICES ASSUME ChannelInv, OwnInv, NEW t \in Threads,
                        pc[t] \in {"idle", "check", "sleep"}, finished_seqno >= seqno[t]
                 PROVE  mine[t] \notin Queued
      BY DEF OwnJobOut
    <2>1. mine[t] \in Nat /\ seqno[t] \in Nat /\ mine[t] <= seqno[t]
      BY ChannelAssumption DEF ChannelInv, TypeOK, Seqnos, OwnInv
    <2> QED
      BY <2>1, QueuedType
  <1>3. Init => OwnInv
    BY DEF Init, OwnInv
  <1> QED
    BY <1>1, <1>2, <1>3, ChannelInvariant, PTL DEF Spec

-----------------------------------------------------------------------------
(* The channel implements the abstract queue.                              *)

LEMMA ViewStarted ==
  ASSUME NEW list \in Seq(Jobs)
  PROVE  View(Started(list)) = View(list)
  <1>1. /\ Started(list) \in Seq(Jobs)
        /\ Len(Started(list)) = Len(list)
        /\ \A i \in 1..Len(list) : /\ Started(list)[i].seq = list[i].seq
                                   /\ Started(list)[i].pid = list[i].pid
    BY StartedList
  <1>2. DOMAIN Started(list) = 1..Len(list) /\ DOMAIN list = 1..Len(list)
    BY <1>1, LenProperties
  <1> QED
    BY <1>1, <1>2 DEF View

\* Dropping jobs of a process from the list drops them from the view.
LEMMA ViewRemaining ==
  ASSUME TypeOK, NEW pid, NEW r \in Remaining(pid)
  PROVE  View(r) \in Filtered(View(job_list), {i \in DOMAIN View(job_list) : View(job_list)[i].pid # pid})
  <1> DEFINE K == {i \in DOMAIN job_list : job_list[i].pid # pid}
  <1>1. job_list \in Seq(Jobs) /\ r \in Filtered(job_list, K)
    BY DEF TypeOK, Remaining, IsOf
  <1> QED
    BY <1>1, ViewFiltered

\* The safety part of JobFifo.
FifoSafety == Fifo!FifoInit /\ [][Fifo!FifoNext]_(Fifo!fifoVars)

LEMMA FifoStutter ==
  ASSUME UNCHANGED <<job_list, submited_seqno, finished_seqno>>
  PROVE  UNCHANGED Fifo!fifoVars
  BY DEF Fifo!fifoVars

LEMMA FifoCancels ==
  ASSUME TypeOK, NEW t \in Threads, NEW r \in Remaining(PidOf[t]), View(job_list') = View(r),
         UNCHANGED <<submited_seqno, finished_seqno>>
  PROVE  Fifo!FifoNext
  <1>1. View(job_list') \in Filtered(View(job_list),
                 {i \in DOMAIN View(job_list) : View(job_list)[i].pid # PidOf[t]})
    BY ViewRemaining
  <1>2. Fifo!FifoCancel(PidOf[t])
    BY <1>1 DEF Fifo!FifoCancel, Fifo!Filtered, Fifo!Enumerates, Filtered, Enumerates, View
  <1> QED
    BY <1>2 DEF Fifo!FifoNext, Pids

\* Every step of the channel is a step of the abstract queue or invisible
\* to it: numbers are handed out in queue order, only the oldest job is
\* reported finished, close drops exactly the jobs of its process.
THEOREM ChannelIsFifo == Spec => FifoSafety
  <1>1. Init => Fifo!FifoInit
    BY DEF Init, Fifo!FifoInit
  <1>2. ChannelInv /\ [Next]_vars => [Fifo!FifoNext]_(Fifo!fifoVars)
    <2> SUFFICES ASSUME ChannelInv, [Next]_vars
                 PROVE  Fifo!FifoNext \/ UNCHANGED Fifo!fifoVars
      OBVIOUS
    <2>0. TypeOK /\ job_list \in Seq(Jobs)
      BY DEF ChannelInv, TypeOK
    <2>1. ASSUME NEW t \in Threads, Enqueue(t) PROVE Fifo!FifoNext
      <3> DEFINE job == [seq |-> submited_seqno + 1, pid |-> PidOf[t], state |-> "INITIAL"]
      <3>1. /\ submited_seqno < MaxJobs /\ submited_seqno' = submited_seqno + 1
            /\ job_list' = Append(job_list, job) /\ UNCHANGED finished_seqno
        BY <2>1 DEF Enqueue
      <3>2. job \in Jobs
        BY <2>1, <3>1, QueuedType, ChannelAssumption DEF Jobs, Pids
      <3>3. job.seq = submited_seqno + 1 /\ job.pid = PidOf[t]
        OBVIOUS
      <3> HIDE DEF job
      <3>4. View(job_list') = Append(View(job_list), [seq |-> submited_seqno + 1, pid |-> PidOf[t]])
        BY <2>0, <3>1, <3>2, <3>3, ViewAppend
      <3>5. Fifo!FifoSubmit(PidOf[t])
        BY <3>1, <3>4 DEF Fifo!FifoSubmit, View
      <3> QED
        BY <3>5 DEF Fifo!FifoNext, Pids
    <2>2. ASSUME NEW t \in Threads, release(t) PROVE Fifo!FifoNext \/ UNCHANGED Fifo!fifoVars
      <3>1. CASE UNCHANGED queueVars
        BY <3>1, FifoStutter DEF queueVars
      <3>2. CASE job_list' \in Remaining(PidOf[t]) /\ RemoveJobs(PidOf[t])
        BY <2>0, <3>2, FifoCancels DEF RemoveJobs
      <3> QED
        BY <2>2, <3>1, <3>2 DEF release
    <2>3. ASSUME NEW t \in Threads, ReleaseReset(t) PROVE Fifo!FifoNext
      <3>1. PICK rest \in Remaining(PidOf[t]) : job_list' = Started(rest)
        BY <2>3 DEF ReleaseReset
      <3>2. rest \in Seq(Jobs)
        BY <3>1, RemainingOrder
      <3>3. View(job_list') = View(rest)
        BY <3>1, <3>2, ViewStarted
      <3> QED
        BY <2>0, <2>3, <3>3, FifoCancels DEF ReleaseReset, RemoveJobs
    <2>4. CASE submit_next_job /\ UNCHANGED <<submited_seqno, finished_seqno>>
      <3>1. View(job_list') = View(job_list)
        BY <2>0, <2>4, ViewStarted DEF submit_next_job
      <3> QED
        BY <2>4, <3>1 DEF Fifo!fifoVars, View
    <2>5. CASE irq_finish_job
      <3>1. CASE job_list # << >> /\ job_list[1].state = "RUNNING"
        <4>1. /\ job_list' = Tail(job_list) /\ finished_seqno' = job_list[1].seq
              /\ UNCHANGED submited_seqno
          BY <2>5, <3>1 DEF irq_finish_job
        <4>2. /\ View(job_list) # << >> /\ Head(View(job_list)).seq = job_list[1].seq
              /\ View(job_list') = Tail(View(job_list))
          BY <2>0, <3>1, <4>1, ViewTail
        <4>3. Fifo!FifoFinish
          BY <4>1, <4>2 DEF Fifo!FifoFinish, View
        <4> QED
          BY <4>3 DEF Fifo!FifoNext
      <3>2. CASE ~(job_list # << >> /\ job_list[1].state = "RUNNING")
        <4>1. UNCHANGED <<job_list, finished_seqno, submited_seqno>>
          BY <2>5, <3>2 DEF irq_finish_job
        <4> QED
          BY <4>1, FifoStutter
      <3> QED
        BY <3>1, <3>2
    <2>6. ASSUME NEW t \in Threads,
                 open(t) \/ Rejected(t) \/ NullNode(t) \/ ReadSeqno(t) \/ wait(t)
          PROVE  UNCHANGED Fifo!fifoVars
      <3>1. UNCHANGED <<job_list, submited_seqno, finished_seqno>>
        BY <2>6 DEF open, Rejected, NullNode, ReadSeqno, wait, WaitEnter, WaitCheck, WaitAbort,
                    queueVars
      <3> QED
        BY <3>1, FifoStutter
    <2>7. CASE HwComplete \/ irq_handler \/ irq_return \/ Worker \/ UNCHANGED vars
      <3>1. UNCHANGED <<job_list, submited_seqno, finished_seqno>>
        BY <2>7 DEF HwComplete, irq_handler, irq_return, Worker, job_done_work, TakeCompleted,
                    complete_exec, vars, queueVars
      <3> QED
        BY <3>1, FifoStutter
    <2>8. ASSUME NEW t \in Threads, StartFirst(t) PROVE Fifo!FifoNext \/ UNCHANGED Fifo!fifoVars
      BY <2>4, <2>8 DEF StartFirst
    <2>9. CASE IrqStartNext
      BY <2>4, <2>9 DEF IrqStartNext
    <2> QED
      BY <2>1, <2>2, <2>3, <2>5, <2>6, <2>7, <2>8, <2>9
      DEF Next, Thread, f_op, p_op, OpFails, ParamFault, Handler
  <1> QED
    BY <1>1, <1>2, ChannelInvariant, PTL DEF Spec, FifoSafety
=============================================================================

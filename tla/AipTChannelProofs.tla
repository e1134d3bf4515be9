------------------------- MODULE AipTChannelProofs -------------------------
(***************************************************************************)
(* Proofs about AipTChannel for the two ways of using the T channel that   *)
(* do not interfere, with any number of threads and execs:                 *)
(*  - with T jobs only, the first job always runs and the channel          *)
(*    implements the abstract queue JobFifo;                               *)
(*  - with T_TASK sessions only, of one thread per process, every session  *)
(*    has the channel for itself.                                          *)
(***************************************************************************)
EXTENDS AipTChannel, ListProofs

-----------------------------------------------------------------------------
(* T jobs only.                                                            *)

JobsOnly == TaskThreads = {}

\* Numbers and ids agree, nobody is inside a session, only the first job has
\* been started, and it is on the hardware or its interrupt is on the way.
JobsInv ==
  /\ TypeOK
  /\ t_submited_seqno = ids
  /\ \A t \in Threads : pc[t] \in {"closed", "idle", "check", "sleep"}
  /\ hw_task = 0
  /\ \A i \in DOMAIN t_job_list : i > 1 => t_job_list[i].state = "INITIAL"
  /\ t_job_list # << >> => /\ t_job_list[1].state = "RUNNING"
                           /\ hw = t_job_list[1].id \/ irq_reg = 1 \/ irq_pc = 1

\* The list with its first exec started.
Started(l) == [l EXCEPT ![1].state = "RUNNING"]

LEMMA StartedList ==
  ASSUME NEW l \in Seq(Execs), l # << >>
  PROVE  /\ Started(l) \in Seq(Execs) /\ Started(l) # << >>
         /\ Len(Started(l)) = Len(l)
         /\ Started(l)[1].state = "RUNNING" /\ Started(l)[1].id = l[1].id
         /\ l[1] \in Execs
         /\ \A i \in 1..Len(l) : /\ Started(l)[i].seq = l[i].seq
                                 /\ Started(l)[i].pid = l[i].pid
                                 /\ i > 1 => Started(l)[i].state = l[i].state
  <1>1. Len(l) \in Nat /\ Len(l) >= 1 /\ DOMAIN l = 1..Len(l)
    BY LenProperties, EmptySeq
  <1>2. \A i \in 1..Len(l) : l[i] \in Execs
    BY ElementOfSeq
  <1> DEFINE e == [l[1] EXCEPT !.state = "RUNNING"]
  <1>3. /\ e \in Execs /\ e.state = "RUNNING" /\ e.id = l[1].id
        /\ e.seq = l[1].seq /\ e.pid = l[1].pid
    <2>1. l[1] \in Execs
      BY <1>1, <1>2
    <2>2. \A x \in Execs : /\ [x EXCEPT !.state = "RUNNING"] \in Execs
                           /\ [x EXCEPT !.state = "RUNNING"].state = "RUNNING"
                           /\ [x EXCEPT !.state = "RUNNING"].id = x.id
                           /\ [x EXCEPT !.state = "RUNNING"].seq = x.seq
                           /\ [x EXCEPT !.state = "RUNNING"].pid = x.pid
      BY DEF Execs
    <2> QED
      BY <2>1, <2>2
  <1>4. Started(l) = [l EXCEPT ![1] = e]
    BY DEF Started
  <1> HIDE DEF e
  <1>5. Started(l) \in Seq(Execs) /\ Len(Started(l)) = Len(l)
    BY <1>1, <1>3, <1>4, ExceptSeq
  <1>6. \A i \in 1..Len(l) : Started(l)[i] = IF i = 1 THEN e ELSE l[i]
    BY <1>1, <1>4
  <1>7. Started(l) # << >>
    BY <1>1, <1>5, EmptySeq
  <1> QED
    BY <1>1, <1>2, <1>3, <1>5, <1>6, <1>7

\* What submit_next_t_job leaves behind.
LEMMA SubmitNext ==
  ASSUME NEW l \in Seq(Execs), \A i \in 1..Len(l) : i > 1 => l[i].state = "INITIAL",
         submit_next_t_job(l), hw_task = 0, irq_reg \in {0, 1}, hw \in 0..MaxJobs
  PROVE  /\ t_job_list' \in Seq(Execs) /\ hw' \in 0..MaxJobs /\ irq_reg' \in {0, 1}
         /\ hw_task' = 0
         /\ \A i \in DOMAIN t_job_list' : i > 1 => t_job_list'[i].state = "INITIAL"
         /\ t_job_list' # << >> => t_job_list'[1].state = "RUNNING" /\ hw' = t_job_list'[1].id
         /\ View(t_job_list') = View(l)
  <1>1. CASE l = << >>
    BY <1>1 DEF submit_next_t_job
  <1>2. CASE l # << >>
    <2>1. /\ t_job_list' = Started(l) /\ hw' = l[1].id /\ hw_task' = 0
          /\ irq_reg' \in {0, 1}
      BY <1>2 DEF submit_next_t_job, Started, irq_reg_after_reset
    <2>2. /\ t_job_list' \in Seq(Execs) /\ t_job_list' # << >> /\ Len(t_job_list') = Len(l)
          /\ t_job_list'[1].state = "RUNNING" /\ t_job_list'[1].id = l[1].id
          /\ l[1] \in Execs
          /\ \A i \in 1..Len(l) : /\ t_job_list'[i].seq = l[i].seq
                                  /\ t_job_list'[i].pid = l[i].pid
                                  /\ i > 1 => t_job_list'[i].state = l[i].state
      BY <1>2, <2>1, StartedList
    <2>3. DOMAIN t_job_list' = 1..Len(l) /\ DOMAIN l = 1..Len(l)
      BY <2>2, LenProperties
    <2>4. View(t_job_list') = View(l)
      BY <2>2, <2>3 DEF View
    <2>5. hw' \in 0..MaxJobs
      BY <2>1, <2>2, TAssumption DEF Execs
    <2> QED
      BY <2>1, <2>2, <2>3, <2>4, <2>5
  <1> QED
    BY <1>1, <1>2

LEMMA JobsInit == Init => JobsInv
  <1>1. << >> \in Seq(Execs) /\ << >> \in Seq(1..MaxJobs)
    BY EmptySeq
  <1> QED
    BY <1>1, TAssumption DEF Init, JobsInv, TypeOK

\* The list facts the steps below start from.
LEMMA TListFacts ==
  ASSUME TypeOK
  PROVE  /\ t_job_list \in Seq(Execs) /\ Len(t_job_list) \in Nat
         /\ DOMAIN t_job_list = 1..Len(t_job_list)
         /\ t_job_list # << >> <=> Len(t_job_list) >= 1
         /\ \A i \in 1..Len(t_job_list) : t_job_list[i] \in Execs
  BY LenProperties, EmptySeq, ElementOfSeq DEF TypeOK

\* Steps that leave the list and the counters alone and lose no interrupt.
LEMMA JobsQuiet ==
  ASSUME JobsInv, TypeOK',
         UNCHANGED <<t_submited_seqno, t_job_list, ids, hw_task>>,
         \A t \in Threads : pc'[t] \in {"closed", "idle", "check", "sleep"},
         \/ UNCHANGED <<hw, irq_reg, irq_pc>>
         \/ irq_reg' = 1 \/ irq_pc' = 1
  PROVE  JobsInv'
  BY DEF JobsInv

LEMMA JobsOp ==
  ASSUME JobsOnly, JobsInv, NEW t \in Threads, t_op(t)
  PROVE  /\ JobsInv'
         /\ TFifo!FifoSubmit(PidOf[t])
  <1> DEFINE e == [id |-> ids + 1, seq |-> t_submited_seqno + 1, pid |-> PidOf[t],
                   kind |-> "T", state |-> "INITIAL"]
  <1>1. /\ ids < MaxJobs /\ ids' = ids + 1 /\ t_submited_seqno' = t_submited_seqno + 1
        /\ IF t_job_list = << >> THEN submit_next_t_job(<<e>>)
           ELSE t_job_list' = Append(t_job_list, e) /\ UNCHANGED <<hw, hw_task, irq_reg>>
        /\ UNCHANGED <<t_finished_seqno, t_job_done_list, freed, t_job_mutex, tmp, exec, leaked,
                       hw_done, irq_pc, pc, wait_seqno, cancelled>>
    BY DEF t_op, doneVars, taskVars
  <1>2. /\ ids \in 0..MaxJobs /\ t_submited_seqno = ids /\ hw_task = 0 /\ hw \in 0..MaxJobs
        /\ irq_reg \in {0, 1} /\ TypeOK
    BY DEF JobsInv, TypeOK
  <1>3. e \in Execs /\ e.seq = ids + 1 /\ e.pid = PidOf[t] /\ e.state = "INITIAL"
    BY <1>1, <1>2, TAssumption DEF Execs, Pids
  <1> HIDE DEF e
  <1>4. Append(<< >>, e) = <<e>> /\ <<e>> \in Seq(Execs) /\ Len(<<e>>) = 1 /\ <<e>>[1] = e
    BY <1>3
  <1>5. /\ t_job_list' \in Seq(Execs) /\ hw' \in 0..MaxJobs /\ irq_reg' \in {0, 1} /\ hw_task' = 0
        /\ \A i \in DOMAIN t_job_list' : i > 1 => t_job_list'[i].state = "INITIAL"
        /\ t_job_list' # << >> => /\ t_job_list'[1].state = "RUNNING"
                                  /\ hw' = t_job_list'[1].id \/ irq_reg' = 1 \/ irq_pc' = 1
        /\ View(t_job_list') = View(Append(t_job_list, e))
    <2>1. CASE t_job_list = << >>
      <3>1. submit_next_t_job(<<e>>) /\ \A i \in 1..Len(<<e>>) : i > 1 => <<e>>[i].state = "INITIAL"
        BY <1>1, <1>4, <2>1
      <3> QED
        BY <1>2, <1>4, <2>1, <3>1, SubmitNext
    <2>2. CASE t_job_list # << >>
      <3>1. t_job_list' = Append(t_job_list, e) /\ UNCHANGED <<hw, hw_task, irq_reg, irq_pc>>
        BY <1>1, <2>2
      <3>2. /\ t_job_list' \in Seq(Execs) /\ Len(t_job_list') = Len(t_job_list) + 1
            /\ \A i \in 1..Len(t_job_list) : t_job_list'[i] = t_job_list[i]
            /\ t_job_list'[Len(t_job_list) + 1] = e
        BY <1>2, <1>3, <3>1, TListFacts, AppendProperties
      <3>3. /\ DOMAIN t_job_list' = 1..Len(t_job_list) + 1 /\ Len(t_job_list) \in Nat
            /\ Len(t_job_list) >= 1 /\ DOMAIN t_job_list = 1..Len(t_job_list)
        BY <1>2, <2>2, <3>2, LenProperties, TListFacts
      <3>4. \A i \in DOMAIN t_job_list' : i > 1 => t_job_list'[i].state = "INITIAL"
        BY <1>3, <3>2, <3>3 DEF JobsInv
      <3>5. t_job_list'[1] = t_job_list[1]
        BY <3>2, <3>3
      <3> QED
        BY <1>2, <2>2, <3>1, <3>2, <3>4, <3>5 DEF JobsInv
    <2> QED
      BY <2>1, <2>2
  <1>6. TypeOK' /\ t_submited_seqno' = ids'
    <2>1. ids' \in 0..MaxJobs /\ t_submited_seqno' \in 0..MaxJobs + 1 /\ t_submited_seqno' = ids'
      BY <1>1, <1>2, TAssumption
    <2> QED
      BY <1>1, <1>2, <1>5, <2>1 DEF TypeOK
  <1>7. JobsInv'
    BY <1>1, <1>5, <1>6 DEF JobsInv
  <1>8. View(t_job_list') = Append(View(t_job_list), [seq |-> t_submited_seqno + 1, pid |-> PidOf[t]])
    BY <1>2, <1>3, <1>5, TListFacts, ViewAppend
  <1>9. TFifo!FifoSubmit(PidOf[t])
    BY <1>1, <1>2, <1>8 DEF TFifo!FifoSubmit, View
  <1> QED
    BY <1>7, <1>9

LEMMA JobsFinish ==
  ASSUME JobsOnly, JobsInv, t_irq_finish_job
  PROVE  /\ JobsInv'
         /\ TFifo!FifoFinish \/ UNCHANGED <<t_job_list, t_submited_seqno, t_finished_seqno>>
  <1>1. /\ irq_pc' = 0
        /\ UNCHANGED <<t_submited_seqno, freed, t_job_mutex, tmp, exec, leaked, hw_done,
                       wait_seqno, ids, cancelled>>
    BY DEF t_irq_finish_job, taskVars
  <1>2. /\ hw_task = 0 /\ hw \in 0..MaxJobs /\ irq_reg \in {0, 1} /\ TypeOK
    BY DEF JobsInv, TypeOK
  <1>3. CASE t_job_list = << >>
    <2>1. UNCHANGED <<t_finished_seqno, t_job_done_list, t_job_list, hw, hw_task, irq_reg, pc>>
      BY <1>3 DEF t_irq_finish_job
    <2>2. TypeOK'
      BY <1>1, <1>2, <2>1 DEF TypeOK
    <2> QED
      BY <1>1, <1>3, <2>1, <2>2 DEF JobsInv
  <1>4. CASE t_job_list # << >>
    <2>1. /\ t_finished_seqno' = t_job_list[1].seq
          /\ t_job_done_list' = Append(t_job_done_list, t_job_list[1].id)
          /\ submit_next_t_job(Tail(t_job_list))
          /\ pc' = [t \in Threads |-> IF pc[t] = "sleep" THEN "check" ELSE pc[t]]
      BY <1>4 DEF t_irq_finish_job
    <2>2. /\ Tail(t_job_list) \in Seq(Execs) /\ Len(Tail(t_job_list)) = Len(t_job_list) - 1
          /\ \A i \in 1..Len(Tail(t_job_list)) : Tail(t_job_list)[i] = t_job_list[i + 1]
      BY <1>2, <1>4, TListFacts, HeadTailProperties
    <2>3. \A i \in 1..Len(Tail(t_job_list)) : i > 1 => Tail(t_job_list)[i].state = "INITIAL"
      <3> SUFFICES ASSUME NEW i \in 1..Len(Tail(t_job_list)) PROVE Tail(t_job_list)[i].state = "INITIAL"
        OBVIOUS
      <3>1. i + 1 \in DOMAIN t_job_list /\ i + 1 > 1
        BY <1>2, <2>2, TListFacts
      <3> QED
        BY <2>2, <3>1 DEF JobsInv
    <2>4. /\ t_job_list' \in Seq(Execs) /\ hw' \in 0..MaxJobs /\ irq_reg' \in {0, 1}
          /\ hw_task' = 0
          /\ \A i \in DOMAIN t_job_list' : i > 1 => t_job_list'[i].state = "INITIAL"
          /\ t_job_list' # << >> => t_job_list'[1].state = "RUNNING" /\ hw' = t_job_list'[1].id
          /\ View(t_job_list') = View(Tail(t_job_list))
      BY <1>2, <2>1, <2>2, <2>3, SubmitNext
    <2>5. t_job_list[1] \in Execs
      BY <1>2, <1>4, TListFacts
    <2>6. t_finished_seqno' \in 0..MaxJobs /\ t_job_done_list' \in Seq(1..MaxJobs)
      <3>1. t_job_list[1].seq \in 0..MaxJobs /\ t_job_list[1].id \in 1..MaxJobs
        BY <2>5 DEF Execs
      <3> QED
        BY <1>2, <2>1, <3>1, AppendProperties DEF TypeOK
    <2>7. TypeOK'
      BY <1>1, <1>2, <2>1, <2>4, <2>6 DEF TypeOK
    <2>8. \A t \in Threads : pc'[t] \in {"closed", "idle", "check", "sleep"}
      BY <2>1 DEF JobsInv
    <2>9. JobsInv'
      BY <1>1, <2>4, <2>7, <2>8 DEF JobsInv
    <2>10. /\ View(t_job_list) # << >> /\ Head(View(t_job_list)).seq = t_job_list[1].seq
           /\ View(t_job_list') = Tail(View(t_job_list))
      BY <1>2, <1>4, <2>4, TListFacts, ViewTail
    <2>11. TFifo!FifoFinish
      BY <1>1, <2>1, <2>10 DEF TFifo!FifoFinish, View
    <2> QED
      BY <2>9, <2>11
  <1> QED
    BY <1>3, <1>4

\* Jobs of other processes survive a close in their order, the running one
\* of another process as it is.
LEMMA RestList ==
  ASSUME JobsInv, NEW pid,
         NEW rest \in Filtered(t_job_list, {i \in DOMAIN t_job_list : ~IsOf(pid, t_job_list[i])})
  PROVE  /\ rest \in Seq(Execs)
         /\ \A i \in 1..Len(rest) : i > 1 => rest[i].state = "INITIAL"
         /\ t_job_list # << >> /\ t_job_list[1].pid # pid => rest # << >> /\ rest[1] = t_job_list[1]
         /\ t_job_list = << >> => rest = << >>
  <1> DEFINE K == {i \in DOMAIN t_job_list : ~IsOf(pid, t_job_list[i])}
  <1>1. TypeOK /\ t_job_list \in Seq(Execs) /\ K \in SUBSET DOMAIN t_job_list
    BY DEF JobsInv, TypeOK
  <1>2. 1 \in DOMAIN t_job_list /\ t_job_list[1].pid # pid => 1 \in K
    BY DEF IsOf
  <1>3. t_job_list = << >> => K = {}
    OBVIOUS
  <1> HIDE DEF K
  <1>4. rest \in Filtered(t_job_list, K)
    BY DEF K
  <1>5. rest \in Seq(Execs)
    BY <1>1, <1>4, FilteredList
  <1>6. PICK f \in [1..Len(rest) -> K] :
              /\ Enumerates(f, Len(rest), K)
              /\ \A i \in 1..Len(rest) : rest[i] = t_job_list[f[i]]
    BY <1>1, <1>4, FilteredList
  <1>7. /\ Len(rest) \in Nat /\ \A i \in 1..Len(rest) : f[i] \in 1..Len(t_job_list)
        /\ Len(t_job_list) \in Nat /\ DOMAIN t_job_list = 1..Len(t_job_list)
    BY <1>1, <1>5, <1>6, TListFacts, LenProperties
  <1>8. \A i \in 1..Len(rest) : i > 1 => f[i] > 1
    <2> SUFFICES ASSUME NEW i \in 1..Len(rest), i > 1 PROVE f[i] > 1
      OBVIOUS
    <2>1. 1 \in 1..Len(rest) /\ 1 < i
      BY <1>7
    <2>2. f[1] < f[i]
      BY <1>6, <2>1 DEF Enumerates
    <2>3. f[1] \in Nat /\ f[1] >= 1 /\ f[i] \in Nat
      BY <1>7, <2>1
    <2> QED
      BY <2>2, <2>3
  <1>9. \A i \in 1..Len(rest) : i > 1 => rest[i].state = "INITIAL"
    BY <1>6, <1>7, <1>8 DEF JobsInv
  <1>10. ASSUME t_job_list # << >>, t_job_list[1].pid # pid
         PROVE  rest # << >> /\ rest[1] = t_job_list[1]
    <2>1. 1 \in K
      BY <1>1, <1>2, <1>10, TListFacts
    <2>2. PICK i \in 1..Len(rest) : f[i] = 1
      BY <1>6, <2>1 DEF Enumerates
    <2>3. i = 1
      BY <1>7, <1>8, <2>2
    <2> QED
      BY <1>5, <1>6, <1>7, <2>2, <2>3, EmptySeq
  <1>11. t_job_list = << >> => rest = << >>
    BY <1>1, <1>3, <1>4, FilteredNone
  <1> QED
    BY <1>5, <1>9, <1>10, <1>11

LEMMA JobsRelease ==
  ASSUME JobsOnly, JobsInv, NEW t \in Threads, t_release(t)
  PROVE  /\ JobsInv'
         /\ TFifo!FifoCancel(PidOf[t])
  <1> DEFINE pid  == PidOf[t]
             gone == {t_job_list[i].id : i \in {k \in DOMAIN t_job_list : IsOf(pid, t_job_list[k])}}
             ran  == \E i \in DOMAIN t_job_list :
                       IsOf(pid, t_job_list[i]) /\ t_job_list[i].state = "RUNNING"
             K == {i \in DOMAIN t_job_list : ~IsOf(pid, t_job_list[i])}
  <1>1. PICK rest \in Filtered(t_job_list, K) :
          /\ cancelled' = cancelled \cup gone /\ freed' = freed \cup gone
          /\ IF ran /\ rest # << >>
             THEN submit_next_t_job(rest)
             ELSE /\ t_job_list' = rest
                  /\ hw' = IF ran THEN 0 ELSE hw
                  /\ hw_task' = IF ran THEN 0 ELSE hw_task
                  /\ irq_reg' = IF ran THEN irq_reg_after_reset ELSE irq_reg
    BY DEF t_release
  <1>2. /\ pc' = [pc EXCEPT ![t] = "closed"] /\ leaked' \in {leaked, 1}
        /\ UNCHANGED <<t_submited_seqno, t_finished_seqno, t_job_done_list, t_job_mutex, tmp, exec,
                       hw_done, irq_pc, wait_seqno, ids>>
    BY DEF t_release, Goto
  <1>3. /\ TypeOK /\ hw_task = 0 /\ hw \in 0..MaxJobs /\ irq_reg \in {0, 1} /\ 0 \in 0..MaxJobs
    BY TAssumption DEF JobsInv, TypeOK
  <1>4. gone \subseteq 1..MaxJobs
    BY <1>3, TListFacts DEF Execs
  <1>5. t_job_list # << >> => t_job_list[1].state = "RUNNING" /\ 1 \in DOMAIN t_job_list
    BY <1>3, TListFacts DEF JobsInv
  <1>6. ~ran /\ t_job_list # << >> => t_job_list[1].pid # pid
    BY <1>5 DEF IsOf
  <1> HIDE DEF ran, gone, pid
  <1>7. /\ rest \in Seq(Execs)
        /\ \A i \in 1..Len(rest) : i > 1 => rest[i].state = "INITIAL"
        /\ t_job_list # << >> /\ t_job_list[1].pid # pid => rest # << >> /\ rest[1] = t_job_list[1]
        /\ t_job_list = << >> => rest = << >>
    BY RestList
  <1>8. DOMAIN rest = 1..Len(rest)
    BY <1>7, LenProperties
  <1>9. /\ t_job_list' \in Seq(Execs) /\ hw' \in 0..MaxJobs /\ irq_reg' \in {0, 1} /\ hw_task' = 0
        /\ \A i \in DOMAIN t_job_list' : i > 1 => t_job_list'[i].state = "INITIAL"
        /\ t_job_list' # << >> => /\ t_job_list'[1].state = "RUNNING"
                                  /\ hw' = t_job_list'[1].id \/ irq_reg' = 1 \/ irq_pc' = 1
        /\ View(t_job_list') = View(rest)
    <2>1. CASE ran /\ rest # << >>
      BY <1>1, <1>3, <1>7, <2>1, SubmitNext
    <2>2. CASE ran /\ rest = << >>
      BY <1>1, <1>3, <1>7, <1>8, <2>2 DEF irq_reg_after_reset
    <2>3. CASE ~ran
      <3>1. t_job_list' = rest /\ UNCHANGED <<hw, hw_task, irq_reg>>
        BY <1>1, <2>3
      <3>2. rest # << >> => rest[1] = t_job_list[1] /\ t_job_list # << >>
        BY <1>6, <1>7, <2>3
      <3> QED
        BY <1>2, <1>3, <1>7, <1>8, <3>1, <3>2 DEF JobsInv
    <2> QED
      BY <2>1, <2>2, <2>3
  <1>10. TypeOK'
    <2>1. pc' \in [Threads -> {"closed", "idle", "check", "sleep", "mutex", "count", "empty", "add",
                               "task", "del", "oops"}]
      BY <1>2, <1>3 DEF TypeOK
    <2>2. hw_done' \cup cancelled' \cup freed' \subseteq 1..MaxJobs
      BY <1>1, <1>2, <1>3, <1>4 DEF TypeOK
    <2>3. {t_job_mutex', hw_task', irq_reg', irq_pc', leaked'} \subseteq {0, 1}
      BY <1>2, <1>3, <1>9 DEF TypeOK
    <2> QED
      BY <1>2, <1>3, <1>9, <2>1, <2>2, <2>3 DEF TypeOK
  <1>11. JobsInv'
    <2>1. \A u \in Threads : pc'[u] \in {"closed", "idle", "check", "sleep"}
      BY <1>2, <1>3 DEF JobsInv, TypeOK
    <2> QED
      BY <1>2, <1>9, <1>10, <2>1 DEF JobsInv
  <1>12. View(t_job_list') \in Filtered(View(t_job_list),
                 {i \in DOMAIN View(t_job_list) : View(t_job_list)[i].pid # pid})
    <2>1. rest \in Filtered(t_job_list, {i \in DOMAIN t_job_list : t_job_list[i].pid # pid})
      BY DEF IsOf
    <2>2. t_job_list \in Seq(Execs)
      BY <1>3, TListFacts
    <2>3. View(rest) \in Filtered(View(t_job_list),
                 {i \in DOMAIN View(t_job_list) : View(t_job_list)[i].pid # pid})
      BY <2>1, <2>2, ViewFiltered
    <2> QED
      BY <1>9, <2>3
  <1>13. TFifo!FifoCancel(pid)
    BY <1>2, <1>12
       DEF TFifo!FifoCancel, TFifo!Filtered, TFifo!Enumerates, Filtered, Enumerates, View
  <1> QED
    BY <1>11, <1>13 DEF pid

\* Every other step leaves the queue alone.
LEMMA JobsOther ==
  ASSUME JobsOnly, JobsInv,
         \/ \E t \in Threads : \/ open(t) \/ (\E s \in 1..MaxJobs : WaitEnter(t, s))
                               \/ WaitCheck(t) \/ WaitAbort(t)
         \/ HwComplete \/ irq_handler \/ t_job_done_work \/ UNCHANGED vars
  PROVE  JobsInv' /\ UNCHANGED <<t_job_list, t_submited_seqno, t_finished_seqno>>
  <1> USE TAssumption DEF doneVars, taskVars, hwVars, Goto
  <1>0. TypeOK
    BY DEF JobsInv
  <1>1. ASSUME NEW t \in Threads, open(t) \/ WaitAbort(t) \/ WaitCheck(t)
        PROVE  JobsInv' /\ UNCHANGED <<t_job_list, t_submited_seqno, t_finished_seqno>>
    <2>1. /\ UNCHANGED <<t_submited_seqno, t_finished_seqno, t_job_list, t_job_done_list, freed,
                         t_job_mutex, tmp, exec, leaked, hw, hw_task, irq_reg, hw_done, irq_pc, ids,
                         cancelled>>
          /\ wait_seqno' = [wait_seqno EXCEPT ![t] = 0] \/ wait_seqno' = wait_seqno
      BY <1>1 DEF open, WaitAbort, WaitCheck
    <2>2. PICK l \in {"idle", "sleep"} : pc' = [pc EXCEPT ![t] = l]
      BY <1>1 DEF open, WaitAbort, WaitCheck
    <2>3. wait_seqno' \in [Threads -> 0..MaxJobs]
      <3>1. 0 \in 0..MaxJobs /\ wait_seqno \in [Threads -> 0..MaxJobs]
        BY <1>0 DEF TypeOK
      <3> QED
        BY <2>1, <3>1
    <2>4. TypeOK' /\ \A u \in Threads : pc'[u] \in {"closed", "idle", "check", "sleep"}
      BY <1>0, <2>1, <2>2, <2>3 DEF TypeOK, JobsInv
    <2> QED
      BY <2>1, <2>4, JobsQuiet
  <1>2. ASSUME NEW t \in Threads, NEW s \in 1..MaxJobs, WaitEnter(t, s)
        PROVE  JobsInv' /\ UNCHANGED <<t_job_list, t_submited_seqno, t_finished_seqno>>
    <2>1. /\ UNCHANGED <<t_submited_seqno, t_finished_seqno, t_job_list, t_job_done_list, freed,
                         t_job_mutex, tmp, exec, leaked, hw, hw_task, irq_reg, hw_done, irq_pc, ids,
                         cancelled>>
          /\ wait_seqno' = [wait_seqno EXCEPT ![t] = s] /\ pc' = [pc EXCEPT ![t] = "check"]
      BY <1>2 DEF WaitEnter
    <2>2. wait_seqno' \in [Threads -> 0..MaxJobs]
      BY <1>0, <2>1 DEF TypeOK
    <2>3. TypeOK' /\ \A u \in Threads : pc'[u] \in {"closed", "idle", "check", "sleep"}
      BY <1>0, <2>1, <2>2 DEF TypeOK, JobsInv
    <2> QED
      BY <2>1, <2>3, JobsQuiet
  <1>3. CASE HwComplete
    <2>1. TypeOK'
      BY <1>0, <1>3 DEF HwComplete, TypeOK
    <2> QED
      BY <1>3, <2>1, JobsQuiet DEF HwComplete, JobsInv
  <1>4. CASE irq_handler
    <2>1. TypeOK'
      BY <1>0, <1>4 DEF irq_handler, TypeOK
    <2> QED
      BY <1>4, <2>1, JobsQuiet DEF irq_handler, JobsInv
  <1>5. CASE t_job_done_work
    <2>1. Head(t_job_done_list) \in 1..MaxJobs /\ Tail(t_job_done_list) \in Seq(1..MaxJobs)
      BY <1>0, <1>5, HeadTailProperties DEF t_job_done_work, TypeOK
    <2>2. TypeOK'
      BY <1>0, <1>5, <2>1 DEF t_job_done_work, TypeOK
    <2> QED
      BY <1>5, <2>2, JobsQuiet DEF t_job_done_work, JobsInv
  <1>6. CASE UNCHANGED vars
    <2>1. TypeOK'
      BY <1>0, <1>6 DEF vars, TypeOK
    <2> QED
      BY <1>6, <2>1, JobsQuiet DEF vars, JobsInv
  <1> QED
    BY <1>1, <1>2, <1>3, <1>4, <1>5, <1>6

\* Without task threads no step of a session is taken.
LEMMA JobsNext ==
  ASSUME JobsOnly, JobsInv, [Next]_vars
  PROVE  \/ \E t \in Threads : t_op(t) \/ t_release(t)
         \/ t_irq_finish_job
         \/ \E t \in Threads : \/ open(t) \/ (\E s \in 1..MaxJobs : WaitEnter(t, s))
                               \/ WaitCheck(t) \/ WaitAbort(t)
         \/ HwComplete \/ irq_handler \/ t_job_done_work \/ UNCHANGED vars
  <1>1. \A t \in Threads : ~TaskCall(t) /\ ~Task(t)
    BY DEF JobsOnly, JobsInv, TaskCall, Task, TaskLock, TaskCount, TaskEmpty, t_task_op, TaskFirst,
           t_task_wait
  <1> QED
    BY <1>1 DEF Next, Thread, Handler

LEMMA JobsStep ==
  ASSUME JobsOnly
  PROVE  JobsInv /\ [Next]_vars => JobsInv'
  BY JobsNext, JobsOp, JobsRelease, JobsFinish, JobsOther

\* Used for T jobs only, the channel never stalls: its first job is on the
\* hardware or its interrupt on the way, whoever closes and resets it.
THEOREM FirstJobRuns ==
  ASSUME JobsOnly
  PROVE  Spec => []TFirstRuns
  <1>1. JobsInv => TFirstRuns
    BY DEF JobsInv, TFirstRuns
  <1> QED
    BY <1>1, JobsInit, JobsStep, PTL DEF Spec

\* The safety part of JobFifo for the T channel.
TFifoSafety == TFifo!FifoInit /\ [][TFifo!FifoNext]_(TFifo!fifoVars)

\* Used for T jobs only, every step of the T channel is a step of the
\* abstract queue or invisible to it.
THEOREM TChannelIsFifo ==
  ASSUME JobsOnly
  PROVE  Spec => TFifoSafety
  <1>1. Init => TFifo!FifoInit
    BY DEF Init, TFifo!FifoInit
  <1>2. JobsInv /\ [Next]_vars => [TFifo!FifoNext]_(TFifo!fifoVars)
    <2> SUFFICES ASSUME JobsInv, [Next]_vars
                 PROVE  TFifo!FifoNext \/ UNCHANGED TFifo!fifoVars
      OBVIOUS
    <2>1. ASSUME UNCHANGED <<t_job_list, t_submited_seqno, t_finished_seqno>>
          PROVE  UNCHANGED TFifo!fifoVars
      BY <2>1 DEF TFifo!fifoVars
    <2>2. ASSUME NEW t \in Threads, t_op(t) PROVE TFifo!FifoNext
      BY <2>2, JobsOp DEF TFifo!FifoNext, Pids
    <2>3. ASSUME NEW t \in Threads, t_release(t) PROVE TFifo!FifoNext
      BY <2>3, JobsRelease DEF TFifo!FifoNext, Pids
    <2>4. CASE t_irq_finish_job
      BY <2>1, <2>4, JobsFinish DEF TFifo!FifoNext
    <2> QED
      BY <2>1, <2>2, <2>3, <2>4, JobsNext, JobsOther
  <1> QED
    BY <1>1, <1>2, JobsInit, JobsStep, PTL DEF Spec, TFifoSafety
-----------------------------------------------------------------------------
(* Sessions only, one thread per process: t_release drops by process, so a *)
(* second thread of the process that closes its file would take the exec   *)
(* of the session away.                                                    *)

SessionsOnly ==
  /\ JobThreads = {}
  /\ \A t, u \in Threads : PidOf[t] = PidOf[u] => t = u

HasExec(t) == pc[t] \in {"task", "del"}

\* What the list, the hardware and the thread know of the exec of a session.
SessionExec(t, e) ==
  /\ t_job_list = <<e>>
  /\ e.kind = "TASK" /\ e.state = "RUNNING" /\ e.pid = PidOf[t] /\ e.id \in Nat
  /\ pc[t] = "task" => hw = e.id
  /\ pc[t] = "del" => exec[t] = e.id

\* No interrupt is ever on its way, the mutex is held by the one session that
\* is open, and the list is that session's exec or empty.
SessionInv ==
  /\ ids \in Nat /\ exec \in [Threads -> Nat]
  /\ irq_reg = 0 /\ irq_pc = 0 /\ (hw # 0 => hw_task = 1)
  /\ pc \in [Threads -> {"closed", "idle", "mutex", "count", "empty", "add", "task", "del"}]
  /\ \A t \in Threads : InSession(t) =>
       t_job_mutex = 1 /\ \A u \in Threads : InSession(u) => u = t
  /\ (\A t \in Threads : ~HasExec(t)) => t_job_list = << >>
  /\ \A t \in Threads : HasExec(t) => \E e : SessionExec(t, e)

LEMMA SessionInit == Init => SessionInv
  BY DEF Init, SessionInv, InSession, HasExec

\* Steps before the exec exists: one thread moves on, outside a session or
\* inside the one it has just entered.
LEMMA SessionMoves ==
  ASSUME SessionInv, NEW t \in Threads, NEW l \in {"idle", "mutex", "count", "empty", "add"},
         ~HasExec(t), pc' = [pc EXCEPT ![t] = l],
         UNCHANGED <<t_job_list, hw, hw_task, irq_reg, irq_pc, exec, ids>>,
         l \in {"idle", "mutex"} => ~InSession(t) /\ UNCHANGED t_job_mutex,
         l \in {"count", "empty", "add"} =>
           \/ InSession(t) /\ UNCHANGED t_job_mutex
           \/ t_job_mutex = 0 /\ t_job_mutex' = 1
  PROVE  SessionInv'
  <1>1. /\ pc'[t] = l /\ \A u \in Threads : u # t => pc'[u] = pc[u]
        /\ pc' \in [Threads -> {"closed", "idle", "mutex", "count", "empty", "add", "task", "del"}]
    BY DEF SessionInv
  <1>2. \A u \in Threads : HasExec(u)' <=> HasExec(u)
    BY <1>1 DEF HasExec
  <1>3. \A u \in Threads : InSession(u)' => InSession(u) \/ (u = t /\ l \in {"count", "empty", "add"})
    BY <1>1 DEF InSession
  <1>4. ASSUME NEW u \in Threads, InSession(u)'
        PROVE  t_job_mutex' = 1 /\ \A v \in Threads : InSession(v)' => v = u
    BY <1>3, <1>4 DEF SessionInv
  <1>5. ASSUME NEW u \in Threads, HasExec(u)' PROVE \E e : SessionExec(u, e)'
    <2>1. HasExec(u) /\ u # t /\ pc'[u] = pc[u]
      BY <1>1, <1>2, <1>5
    <2>2. PICK e : SessionExec(u, e)
      BY <2>1 DEF SessionInv
    <2>3. SessionExec(u, e)'
      BY <2>1, <2>2 DEF SessionExec
    <2> QED
      BY <2>3
  <1>6. (\A u \in Threads : ~HasExec(u)') => t_job_list' = << >>
    BY <1>2 DEF SessionInv
  <1> QED
    BY <1>1, <1>4, <1>5, <1>6 DEF SessionInv

LEMMA SessionMove ==
  ASSUME SessionInv, NEW t \in Threads,
         open(t) \/ TaskCall(t) \/ TaskLock(t) \/ TaskCount(t) \/ TaskEmpty(t)
  PROVE  SessionInv'
  <1>0. UNCHANGED <<t_job_list, hw, hw_task, irq_reg, irq_pc, exec, ids>>
    BY DEF open, TaskCall, TaskLock, TaskCount, TaskEmpty, hwVars, taskVars
  <1>1. CASE open(t) \/ TaskCall(t)
    <2>1. PICK l \in {"idle", "mutex"} : pc' = [pc EXCEPT ![t] = l]
      BY <1>1 DEF open, TaskCall, Goto
    <2>2. ~HasExec(t) /\ ~InSession(t) /\ UNCHANGED t_job_mutex
      BY <1>1 DEF open, TaskCall, HasExec, InSession, taskVars
    <2> QED
      BY <1>0, <2>1, <2>2, SessionMoves
  <1>2. CASE TaskLock(t)
    <2>1. /\ ~HasExec(t) /\ pc' = [pc EXCEPT ![t] = "count"]
          /\ t_job_mutex = 0 /\ t_job_mutex' = 1
      BY <1>2 DEF TaskLock, HasExec, Goto
    <2> QED
      BY <1>0, <2>1, SessionMoves
  <1>3. CASE TaskCount(t) \/ TaskEmpty(t)
    <2>1. PICK l \in {"empty", "add"} : pc' = [pc EXCEPT ![t] = l]
      BY <1>3 DEF TaskCount, TaskEmpty, Goto
    <2>2. ~HasExec(t) /\ InSession(t) /\ UNCHANGED t_job_mutex
      BY <1>3 DEF TaskCount, TaskEmpty, HasExec, InSession, taskVars
    <2> QED
      BY <1>0, <2>1, <2>2, SessionMoves
  <1> QED
    BY <1>1, <1>2, <1>3

\* The session's exec is created: the list was empty.
LEMMA SessionOp ==
  ASSUME SessionInv, NEW t \in Threads, t_task_op(t)
  PROVE  SessionInv'
  <1> DEFINE e == [id |-> ids + 1, seq |-> tmp[t] + 1, pid |-> PidOf[t],
                   kind |-> "TASK", state |-> "RUNNING"]
  <1>1. /\ pc[t] = "add" /\ pc' = [pc EXCEPT ![t] = "task"]
        /\ ids' = ids + 1 /\ t_job_list' = Append(t_job_list, e)
        /\ hw' = ids + 1 /\ hw_task' = 1 /\ irq_reg' = 0
        /\ UNCHANGED <<t_job_mutex, exec, irq_pc>>
    BY DEF t_task_op, Goto, taskVars, irq_reg_after_reset, SessionInv
  <1>2. /\ e.kind = "TASK" /\ e.state = "RUNNING" /\ e.pid = PidOf[t] /\ e.id = ids + 1
        /\ ids + 1 \in Nat
    BY DEF SessionInv
  <1> HIDE DEF e
  <1>3. InSession(t) /\ t_job_mutex = 1 /\ \A u \in Threads : u # t => ~InSession(u)
    BY <1>1 DEF SessionInv, InSession
  <1>4. \A u \in Threads : ~HasExec(u)
    BY <1>1, <1>3 DEF InSession, HasExec
  <1>5. t_job_list' = <<e>>
    <2>1. t_job_list = << >>
      BY <1>4 DEF SessionInv
    <2> QED
      BY <1>1, <2>1
  <1>6. /\ pc'[t] = "task" /\ \A u \in Threads : u # t => pc'[u] = pc[u]
        /\ pc' \in [Threads -> {"closed", "idle", "mutex", "count", "empty", "add", "task", "del"}]
    BY <1>1 DEF SessionInv
  <1>7. \A u \in Threads : (InSession(u)' <=> u = t) /\ (HasExec(u)' <=> u = t)
    BY <1>3, <1>6 DEF InSession, HasExec
  <1>8. \E x : SessionExec(t, x)'
    <2>1. PICK x : x = e
      OBVIOUS
    <2>2. SessionExec(t, x)'
      BY <1>1, <1>2, <1>5, <1>6, <2>1 DEF SessionExec
    <2> QED
      BY <2>2
  <1> QED
    BY <1>1, <1>2, <1>3, <1>6, <1>7, <1>8 DEF SessionInv

\* A session that has its exec is the only one.
LEMMA SessionAlone ==
  ASSUME SessionInv, NEW t \in Threads, HasExec(t)
  PROVE  /\ t_job_mutex = 1
         /\ \A u \in Threads : u # t => ~InSession(u) /\ ~HasExec(u)
         /\ \E e : SessionExec(t, e)
  BY DEF SessionInv, InSession, HasExec

\* The wait finds its own exec, never an empty list.
LEMMA SessionFirst ==
  ASSUME SessionInv, NEW t \in Threads, TaskFirst(t)
  PROVE  SessionInv'
  <1>1. pc[t] = "task" /\ HasExec(t)
    BY DEF TaskFirst, HasExec
  <1>2. PICK e : SessionExec(t, e)
    BY <1>1, SessionAlone
  <1>3. /\ t_job_list = <<e>> /\ t_job_list # << >> /\ t_job_list[1] = e /\ e.id \in Nat
        /\ e.kind = "TASK" /\ e.state = "RUNNING" /\ e.pid = PidOf[t]
    BY <1>2 DEF SessionExec
  <1>4. /\ exec' = [exec EXCEPT ![t] = e.id] /\ hw' = 0 /\ irq_reg' = 0
        /\ pc' = [pc EXCEPT ![t] = "del"]
        /\ UNCHANGED <<t_job_list, t_job_mutex, irq_pc, ids>>
    BY <1>3 DEF TaskFirst, Goto, irq_reg_after_reset, SessionInv
  <1>5. /\ pc'[t] = "del" /\ exec'[t] = e.id /\ \A u \in Threads : u # t => pc'[u] = pc[u]
        /\ pc' \in [Threads -> {"closed", "idle", "mutex", "count", "empty", "add", "task", "del"}]
        /\ exec' \in [Threads -> Nat]
    BY <1>3, <1>4 DEF SessionInv
  <1>6. \A u \in Threads : (InSession(u)' <=> u = t) /\ (HasExec(u)' <=> u = t)
    BY <1>1, <1>5, SessionAlone DEF InSession, HasExec
  <1>7. SessionExec(t, e)'
    BY <1>3, <1>4, <1>5 DEF SessionExec
  <1>8. t_job_mutex' = 1
    BY <1>1, <1>4, SessionAlone
  <1> QED
    BY <1>4, <1>5, <1>6, <1>7, <1>8 DEF SessionInv

\* The end of a session: its exec leaves the list, which is empty again.
LEMMA SessionEnd ==
  ASSUME SessionInv, NEW t \in Threads, t_task_wait(t)
  PROVE  SessionInv'
  <1>1. pc[t] = "del" /\ HasExec(t)
    BY DEF t_task_wait, HasExec
  <1>2. PICK e : SessionExec(t, e)
    BY <1>1, SessionAlone
  <1>3. /\ t_job_list = <<e>> /\ DOMAIN t_job_list = {1} /\ t_job_list[1] = e /\ e.id = exec[t]
    BY <1>1, <1>2 DEF SessionExec
  <1>4. {i \in DOMAIN t_job_list : t_job_list[i].id # exec[t]} = {}
    BY <1>3
  <1>5. t_job_list' \in Filtered(t_job_list, {})
    BY <1>4 DEF t_task_wait
  <1>6. t_job_list' = << >>
    <2>1. t_job_list \in Seq({e})
      BY <1>3
    <2> QED
      BY <1>5, <2>1, FilteredNone
  <1>7. /\ exec' = [exec EXCEPT ![t] = 0] /\ pc' = [pc EXCEPT ![t] = "idle"]
        /\ UNCHANGED <<hw, hw_task, irq_reg, irq_pc, ids>>
    BY DEF t_task_wait, Goto, hwVars
  <1>8. /\ pc'[t] = "idle" /\ \A u \in Threads : u # t => pc'[u] = pc[u]
        /\ pc' \in [Threads -> {"closed", "idle", "mutex", "count", "empty", "add", "task", "del"}]
        /\ exec' \in [Threads -> Nat]
    BY <1>7 DEF SessionInv
  <1>9. \A u \in Threads : ~InSession(u)' /\ ~HasExec(u)'
    BY <1>1, <1>8, SessionAlone DEF InSession, HasExec
  <1> QED
    BY <1>6, <1>7, <1>8, <1>9 DEF SessionInv

\* close or exit, between sessions or in the thread's own: in a session of
\* another process nothing is dropped and nothing restarted.
LEMMA SessionRelease ==
  ASSUME SessionsOnly, SessionInv, NEW t \in Threads, t_release(t)
  PROVE  SessionInv'
  <1> DEFINE mine == {i \in DOMAIN t_job_list : IsOf(PidOf[t], t_job_list[i])}
             kept == {i \in DOMAIN t_job_list : ~IsOf(PidOf[t], t_job_list[i])}
             ran  == \E i \in DOMAIN t_job_list :
                       IsOf(PidOf[t], t_job_list[i]) /\ t_job_list[i].state = "RUNNING"
  <1>1. PICK rest \in Filtered(t_job_list, kept) :
          IF ran /\ rest # << >>
          THEN submit_next_t_job(rest)
          ELSE /\ t_job_list' = rest
               /\ hw' = IF ran THEN 0 ELSE hw
               /\ hw_task' = IF ran THEN 0 ELSE hw_task
               /\ irq_reg' = IF ran THEN irq_reg_after_reset ELSE irq_reg
    BY DEF t_release
  <1>2. /\ pc[t] \in {"idle", "task"} /\ pc' = [pc EXCEPT ![t] = "closed"]
        /\ UNCHANGED <<t_job_mutex, exec, irq_pc, ids>>
    BY DEF t_release, Goto
  <1>3. /\ pc'[t] = "closed" /\ \A u \in Threads : u # t => pc'[u] = pc[u]
        /\ pc' \in [Threads -> {"closed", "idle", "mutex", "count", "empty", "add", "task", "del"}]
    BY <1>2 DEF SessionInv
  <1>4. \A u \in Threads : InSession(u)' => InSession(u)
    BY <1>3 DEF InSession
  <1>5. CASE \A u \in Threads : u # t => ~HasExec(u)
    <2>1. \A u \in Threads : ~HasExec(u)'
      BY <1>3, <1>5 DEF HasExec
    <2>2. rest = << >>
      <3>1. CASE pc[t] = "task"
        <4>1. PICK e : SessionExec(t, e)
          BY <3>1, SessionAlone DEF HasExec
        <4>2. t_job_list = <<e>> /\ kept = {} /\ t_job_list \in Seq({e})
          BY <4>1 DEF SessionExec, IsOf
        <4> QED
          BY <4>2, FilteredNone
      <3>2. CASE pc[t] # "task"
        <4>0. \A u \in Threads : ~HasExec(u)
          BY <1>2, <1>5, <3>2 DEF HasExec
        <4>1. t_job_list = << >>
          BY <4>0 DEF SessionInv
        <4>2. kept = {} /\ t_job_list \in Seq({1})
          BY <4>1
        <4> QED
          BY <4>2, FilteredNone
      <3> QED
        BY <3>1, <3>2
    <2>3. t_job_list' = << >> /\ irq_reg' = 0 /\ (hw' # 0 => hw_task' = 1)
      <3>1. CASE ran
        BY <1>1, <2>2, <3>1 DEF SessionInv, irq_reg_after_reset
      <3>2. CASE ~ran
        BY <1>1, <2>2, <3>2 DEF SessionInv
      <3> QED
        BY <3>1, <3>2
    <2> QED
      BY <1>2, <1>3, <1>4, <2>1, <2>3 DEF SessionInv
  <1>6. CASE \E u \in Threads : u # t /\ HasExec(u)
    <2>1. PICK u \in Threads : u # t /\ HasExec(u)
      BY <1>6
    <2>2. PICK e : SessionExec(u, e)
      BY <2>1, SessionAlone
    <2>3. /\ t_job_list = <<e>> /\ DOMAIN t_job_list = {1} /\ t_job_list[1] = e
          /\ e.pid # PidOf[t]
      BY <2>1, <2>2 DEF SessionExec, SessionsOnly
    <2>4. kept = {1} /\ ~ran
      BY <2>3 DEF IsOf
    <2>5. rest = <<e>>
      BY <2>3, <2>4, FilteredOne
    <2>6. UNCHANGED <<t_job_list, hw, hw_task, irq_reg>>
      BY <1>1, <2>3, <2>4, <2>5
    <2>7. SessionExec(u, e)' /\ HasExec(u)'
      BY <1>2, <1>3, <2>1, <2>2, <2>6 DEF SessionExec, HasExec
    <2>8. \A v \in Threads : HasExec(v)' => v = u
      BY <1>3, <2>1, SessionAlone DEF HasExec
    <2> QED
      BY <1>2, <1>3, <1>4, <2>6, <2>7, <2>8 DEF SessionInv
  <1> QED
    BY <1>5, <1>6

LEMMA SessionStep ==
  ASSUME SessionsOnly
  PROVE  SessionInv /\ [Next]_vars => SessionInv'
  <1> SUFFICES ASSUME SessionInv, [Next]_vars
               PROVE  SessionInv'
    OBVIOUS
  <1>1. ASSUME NEW t \in Threads
        PROVE  /\ ~t_op(t) /\ ~WaitCheck(t) /\ ~WaitAbort(t)
               /\ \A s \in 1..MaxJobs : ~WaitEnter(t, s)
    BY <1>1 DEF SessionsOnly, SessionInv, t_op, WaitCheck, WaitAbort, WaitEnter
  <1>2. ~HwComplete /\ ~irq_handler /\ ~t_irq_finish_job
    BY DEF SessionInv, HwComplete, irq_handler, t_irq_finish_job
  <1>3. ASSUME NEW t \in Threads, Thread(t) PROVE SessionInv'
    BY <1>1, <1>3, SessionMove, SessionOp, SessionFirst, SessionEnd, SessionRelease
       DEF Thread, Task
  <1>4. CASE t_job_done_work \/ UNCHANGED vars
    <2>1. UNCHANGED <<t_job_list, t_job_mutex, exec, hw, hw_task, irq_reg, irq_pc, pc, ids>>
      BY <1>4 DEF t_job_done_work, vars, taskVars, hwVars
    <2> QED
      BY <2>1 DEF SessionInv, InSession, HasExec, SessionExec
  <1> QED
    BY <1>2, <1>3, <1>4 DEF Next, Handler

\* While a T_TASK session lasts the channel is its own: one session at a
\* time, whose exec alone is on the list and the hardware, so that the wait,
\* which takes whatever is first, takes it and never meets an empty list.
THEOREM SessionsExclude ==
  ASSUME SessionsOnly
  PROVE  Spec => []SessionExclusive
  <1>1. SessionInv => SessionExclusive
    <2> SUFFICES ASSUME SessionInv, NEW t \in Threads
                 PROVE  /\ pc[t] # "oops"
                        /\ InSession(t) =>
                             /\ t_job_mutex = 1
                             /\ \A u \in Threads : InSession(u) => u = t
                             /\ pc[t] = "task" =>
                                  /\ Len(t_job_list) = 1 /\ t_job_list[1].kind = "TASK"
                                  /\ t_job_list[1].pid = PidOf[t] /\ hw = t_job_list[1].id
      BY DEF SessionExclusive
    <2>1. pc[t] = "task" => \E e : SessionExec(t, e)
      BY DEF SessionInv, HasExec
    <2>2. pc[t] = "task" => /\ Len(t_job_list) = 1 /\ t_job_list[1].kind = "TASK"
                            /\ t_job_list[1].pid = PidOf[t] /\ hw = t_job_list[1].id
      BY <2>1 DEF SessionExec
    <2> QED
      BY <2>2 DEF SessionInv
  <1> QED
    BY <1>1, SessionInit, SessionStep, PTL DEF Spec
=============================================================================

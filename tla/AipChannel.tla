----------------------------- MODULE AipChannel -----------------------------
(***************************************************************************)
(* One DMA-chain channel (F: resize, or P: perspective) of the AIP v2.0    *)
(* kernel driver: the submit and wait ioctls, the interrupt handler, the   *)
(* work item that frees finished jobs and the cleanup on close.  The F and *)
(* P copies of the code differ only in how a submission fails (f_op, p_op).*)
(*                                                                         *)
(* The spin lock job_lock is held over several steps exactly where its     *)
(* holder spins in f_reset / p_reset until the hardware is idle; every     *)
(* other critical section is one step.                                     *)
(***************************************************************************)
EXTENDS Integers, Sequences, FiniteSets, JobLists

CONSTANTS
  Threads,        \* user threads; each has a file of its own open on the device
  PidOf,          \* PidOf[t]: the process of thread t
  Channel,        \* "F" or "P"
  RepairA1,       \* CONFIG_AIP_V20_REPAIR_A1
  CompletionBits, \* status bits that one completed chain latches
  ResetClearsIrq, \* whether a soft reset drops latched status bits
  Smp,            \* whether the handler may run while another CPU has the lock
  MaxJobs,        \* bound on the sequence numbers handed out
  Waiters,        \* bound: the threads that use the wait ioctl
  Free, Irq       \* values of job_lock: not held, held by the handler

ASSUME ChannelAssumption ==
  /\ Channel \in {"F", "P"}
  /\ RepairA1 \in BOOLEAN
  /\ ResetClearsIrq \in BOOLEAN
  /\ Smp \in BOOLEAN
  /\ MaxJobs \in Nat
  /\ CompletionBits \subseteq {"IRQ", "CHAIN", "TIMEOUT"}
  /\ Free # Irq /\ Free \notin Threads /\ Irq \notin Threads

Pids == {PidOf[t] : t \in Threads}
Seqnos == 0..MaxJobs
Jobs == [seq : 1..MaxJobs, pid : Pids, state : {"INITIAL", "RUNNING"}]
IrqBits == {"IRQ", "CHAIN", "TIMEOUT"}

VARIABLES
  submited_seqno, finished_seqno,   \* counters of struct jz_aip_v20_dev
  job_list, job_done_list,          \* queued jobs; numbers of finished jobs
  job_lock,                         \* Free, Irq or the holding thread
  hw,                               \* number of the job the hardware runs, 0: idle
  irq_reg,                          \* latched bits of the IRQ status register
  irq_pc, irq_status,               \* the handler and its copy of the status
  work_pending, worker, work_exec,  \* the done work and the job it is freeing
  pc,                               \* where each thread is
  seqno,                            \* number the last submit returned to a thread
  wait_seqno,                       \* number a thread in the wait ioctl waits for
  mine,                             \* history: number of the thread's last job
  hw_done, cancelled, freed,        \* history: numbers run to the end, dropped, freed
  leaked                            \* history: a job structure was lost before it was queued

queueVars == <<submited_seqno, finished_seqno, job_list, job_done_list>>
hwVars    == <<hw, irq_reg, hw_done>>
irqVars   == <<irq_pc, irq_status>>
workVars  == <<work_pending, worker, work_exec, freed>>
userVars  == <<seqno, wait_seqno, mine>>
vars == <<queueVars, job_lock, hwVars, irqVars, workVars, pc, userVars, cancelled, leaked>>

Init ==
  /\ submited_seqno = 0 /\ finished_seqno = 0
  /\ job_list = << >> /\ job_done_list = << >>
  /\ job_lock = Free
  /\ hw = 0 /\ irq_reg = {} /\ hw_done = {}
  /\ irq_pc = "idle" /\ irq_status = {}
  /\ work_pending = 0 /\ worker = "idle" /\ work_exec = 0 /\ freed = {}
  /\ pc = [t \in Threads |-> "closed"]
  /\ seqno = [t \in Threads |-> 0] /\ mine = [t \in Threads |-> 0]
  /\ wait_seqno = [t \in Threads |-> 0]
  /\ cancelled = {} /\ leaked = FALSE

-----------------------------------------------------------------------------
(* Helpers.                                                                *)

Goto(t, l) == pc' = [pc EXCEPT ![t] = l]

\* On one CPU a thread runs only when the handler does not and no other
\* thread has interrupts off; with several CPUs it can always take a step.
OnCpu(t) == Smp \/ (irq_pc = "idle" /\ job_lock \in {Free, t})

AnyJob(pid, job) == TRUE \* mutant: close forgets to compare the pid

IsOf(pid, job) == job.pid = pid

FirstSeq(list) == IF list = << >> THEN 0 ELSE list[1].seq

Started(list) == IF list = << >> THEN list ELSE [list EXCEPT ![1].state = "RUNNING"]

\* submit_next_f_job / submit_next_p_job on a queue that is not empty, once
\* the reset loop has seen the hardware idle: soft reset, start the first job.
submit_next_job ==
  /\ hw = 0
  /\ irq_reg' = IF ResetClearsIrq THEN {} ELSE irq_reg
  /\ hw' = FirstSeq(job_list)
  /\ job_list' = Started(job_list)
  /\ UNCHANGED hw_done

-----------------------------------------------------------------------------
(* open and the submit ioctl.                                              *)

open(t) ==
  /\ OnCpu(t) /\ pc[t] = "closed"
  /\ Goto(t, "idle")
  /\ UNCHANGED <<queueVars, job_lock, hwVars, irqVars, workVars, userVars, cancelled, leaked>>

\* A submission fails before it is queued; submit still reads a number.
Rejected(t) ==
  /\ OnCpu(t) /\ pc[t] = "idle"
  /\ Goto(t, "seqno")
  /\ mine' = [mine EXCEPT ![t] = 0]
  /\ UNCHANGED <<queueVars, job_lock, hwVars, irqVars, workVars, seqno,
                 wait_seqno, cancelled>>

\* kcalloc fails, or (F only) the node buffer is unknown, on which the job
\* structure is freed.
OpFails(t) == Rejected(t) /\ UNCHANGED leaked

\* p_op returns without freeing the job structure when copy_from_user fails.
ParamFault(t) == Rejected(t) /\ leaked' = TRUE

\* The locked part of an accepted submission.
Enqueue(t) ==
  /\ OnCpu(t) /\ pc[t] = "idle"
  /\ job_lock = Free
  /\ submited_seqno < MaxJobs
  /\ submited_seqno' = submited_seqno + 1
  /\ job_list' = Append(job_list, [seq |-> submited_seqno + 1,
                                   pid |-> PidOf[t], state |-> "INITIAL"])
  /\ mine' = [mine EXCEPT ![t] = submited_seqno + 1]
  /\ IF job_list = << >>
     THEN job_lock' = t /\ Goto(t, "start")
     ELSE job_lock' = Free /\ Goto(t, "seqno")
  /\ UNCHANGED <<finished_seqno, job_done_list, hwVars, irqVars, workVars,
                 seqno, wait_seqno, cancelled, leaked>>

f_op(t) == Channel = "F" /\ (OpFails(t) \/ Enqueue(t))

\* p_op tests its node with "< 0", which a NULL pointer passes: an unknown
\* buffer is dereferenced, and the faulting task goes on to close its files,
\* its job structure lost.
NullNode(t) ==
  /\ OnCpu(t) /\ pc[t] = "idle"
  /\ Goto(t, "exit")
  /\ leaked' = TRUE
  /\ UNCHANGED <<queueVars, job_lock, hwVars, irqVars, workVars, userVars, cancelled>>

p_op(t) == Channel = "P" /\ (OpFails(t) \/ ParamFault(t) \/ Enqueue(t) \/ NullNode(t))

\* The submitter of the first job starts it, still under the lock.
StartFirst(t) ==
  /\ pc[t] = "start"
  /\ submit_next_job
  /\ job_lock' = Free
  /\ Goto(t, "seqno")
  /\ UNCHANGED <<submited_seqno, finished_seqno, job_done_list, irqVars,
                 workVars, userVars, cancelled, leaked>>

ReadFinished(t) == \* mutant: the other counter of the channel is returned
  /\ OnCpu(t) /\ pc[t] = "seqno"
  /\ seqno' = [seqno EXCEPT ![t] = finished_seqno]
  /\ Goto(t, "idle")
  /\ UNCHANGED <<queueVars, job_lock, hwVars, irqVars, workVars, wait_seqno,
                 mine, cancelled, leaked>>

\* jz_aip_v20_submit reads the shared counter after f_op dropped the lock.
ReadSeqno(t) ==
  /\ OnCpu(t) /\ pc[t] = "seqno"
  /\ seqno' = [seqno EXCEPT ![t] = submited_seqno]
  /\ Goto(t, "idle")
  /\ UNCHANGED <<queueVars, job_lock, hwVars, irqVars, workVars, wait_seqno,
                 mine, cancelled, leaked>>

-----------------------------------------------------------------------------
(* The wait ioctl.                                                         *)

\* A caller sees which answer it got (0, -1, -ETIME or -ERESTARTSYS); the
\* channel's state is the same after each, so the answer is not recorded.
Return(t) ==
  /\ Goto(t, "idle")
  /\ wait_seqno' = [wait_seqno EXCEPT ![t] = 0]

\* The checks before the loop: the number was not handed out yet (-1), is
\* finished (0), or the timeout is zero (-ETIME); otherwise enter the loop.
WaitEnter(t, s) ==
  /\ OnCpu(t) /\ pc[t] = "idle"
  /\ t \in Waiters
  /\ \/ Return(t)
     \/ /\ s <= submited_seqno /\ finished_seqno < s
        /\ Goto(t, "check")
        /\ wait_seqno' = [wait_seqno EXCEPT ![t] = s]
  /\ UNCHANGED <<queueVars, job_lock, hwVars, irqVars, workVars, seqno, mine,
                 cancelled, leaked>>

\* prepare_to_wait, then look at finished_seqno, then sleep.
WaitCheck(t) ==
  /\ OnCpu(t) /\ pc[t] = "check"
  /\ \/ finished_seqno >= wait_seqno[t] /\ Return(t)
     \/ finished_seqno < wait_seqno[t] /\ Goto(t, "sleep") /\ UNCHANGED wait_seqno
  /\ UNCHANGED <<queueVars, job_lock, hwVars, irqVars, workVars, seqno, mine,
                 cancelled, leaked>>

\* A signal ends the wait at once, a timeout after finished_seqno has been
\* looked at.  A wait without timeout (~0ull) is one that never takes the
\* second disjunct: the fairness assumed below never requires it.
WaitAbort(t) ==
  /\ OnCpu(t) /\ pc[t] \in {"check", "sleep"}
  /\ Return(t)
  /\ UNCHANGED <<queueVars, job_lock, hwVars, irqVars, workVars, seqno, mine,
                 cancelled, leaked>>

wait(t) == (\E s \in 1..MaxJobs : WaitEnter(t, s)) \/ WaitCheck(t) \/ WaitAbort(t)

-----------------------------------------------------------------------------
(* The hardware and its interrupt.                                         *)

\* The chain that runs ends and latches its status bits.
HwComplete ==
  /\ hw # 0
  /\ hw' = 0
  /\ hw_done' = hw_done \cup {hw}
  /\ irq_reg' = irq_reg \cup CompletionBits
  /\ UNCHANGED <<queueVars, job_lock, irqVars, workVars, pc, userVars, cancelled, leaked>>

\* Status bits on which the handler calls finish_job.
FinishBits == {"CHAIN"} \cup (IF RepairA1 THEN {"TIMEOUT"} ELSE {})

ASSUME CompletionAssumption == CompletionBits \cap FinishBits # {}

\* The handler reads and clears the status before it takes the lock.
irq_handler ==
  /\ irq_pc = "idle" /\ irq_reg # {}
  /\ Smp \/ job_lock = Free
  /\ irq_pc' = "handler"
  /\ irq_status' = irq_reg
  /\ irq_reg' = {}
  /\ UNCHANGED <<queueVars, job_lock, hw, hw_done, workVars, pc, userVars, cancelled, leaked>>

NoWake == UNCHANGED pc \* mutant: wake_up_all is forgotten

wake_up_all == pc' = [t \in Threads |-> IF pc[t] = "sleep" THEN "check" ELSE pc[t]]

NoSchedule == UNCHANGED work_pending \* mutant: schedule_work is forgotten

schedule_work == work_pending' = 1

\* f_irq_finish_job / p_irq_finish_job for one bit, CHAIN first, up to the
\* call of submit_next_job, which spins when another job is queued.
irq_finish_job ==
  /\ irq_pc = "handler" /\ irq_status \cap FinishBits # {}
  /\ job_lock = Free
  /\ irq_status' = irq_status \ (IF "CHAIN" \in irq_status THEN {"CHAIN"} ELSE {"TIMEOUT"})
  /\ LET live    == job_list # << >>
         running == live /\ job_list[1].state = "RUNNING"
         more    == live /\ (running => Len(job_list) > 1)
     IN /\ finished_seqno' = IF running THEN job_list[1].seq ELSE finished_seqno
        /\ job_done_list' = IF running THEN Append(job_done_list, job_list[1].seq)
                            ELSE job_done_list
        /\ job_list' = IF running THEN Tail(job_list) ELSE job_list
        /\ job_lock' = IF more THEN Irq ELSE Free
        /\ irq_pc' = IF more THEN (IF running THEN "start" ELSE "restart") ELSE "handler"
        /\ IF running /\ ~more
           THEN wake_up_all /\ schedule_work
           ELSE UNCHANGED <<pc, work_pending>>
  /\ UNCHANGED <<submited_seqno, hwVars, worker, work_exec, freed, userVars, cancelled, leaked>>

\* The handler starts the next job; after a finished one it also wakes the
\* waiters and schedules the work that frees the finished job.
IrqStartNext ==
  /\ irq_pc \in {"start", "restart"}
  /\ submit_next_job
  /\ job_lock' = Free
  /\ irq_pc' = "handler"
  /\ IF irq_pc = "start"
     THEN wake_up_all /\ schedule_work
     ELSE UNCHANGED <<pc, work_pending>>
  /\ UNCHANGED <<submited_seqno, finished_seqno, job_done_list, irq_status,
                 worker, work_exec, freed, userVars, cancelled, leaked>>

AckAtReturn == \* mutant: the status is cleared again when the handler is through
  /\ irq_pc = "handler" /\ irq_status \cap FinishBits = {}
  /\ irq_pc' = "idle" /\ irq_status' = {} /\ irq_reg' = {}
  /\ UNCHANGED <<queueVars, job_lock, hw, hw_done, workVars, pc, userVars, cancelled, leaked>>

irq_return ==
  /\ irq_pc = "handler" /\ irq_status \cap FinishBits = {}
  /\ irq_pc' = "idle" /\ irq_status' = {}
  /\ UNCHANGED <<queueVars, job_lock, hwVars, workVars, pc, userVars, cancelled, leaked>>

-----------------------------------------------------------------------------
(* The work item: job_handle_completed.                                    *)

WorkerOnCpu == Smp \/ (irq_pc = "idle" /\ job_lock = Free)

job_done_work ==
  /\ WorkerOnCpu /\ worker = "idle" /\ work_pending = 1
  /\ worker' = "loop" /\ work_pending' = 0
  /\ UNCHANGED <<queueVars, job_lock, hwVars, irqVars, work_exec, freed, pc,
                 userVars, cancelled, leaked>>

TakeKeepsLinked == \* mutant: the finished job is freed but never unlinked
  /\ WorkerOnCpu /\ worker = "loop" /\ work_exec = 0
  /\ job_lock = Free
  /\ IF job_done_list # << >>
     THEN work_exec' = Head(job_done_list) /\ UNCHANGED worker
     ELSE worker' = "idle" /\ UNCHANGED work_exec
  /\ UNCHANGED <<queueVars, job_lock, hwVars, irqVars, work_pending, freed, pc,
                 userVars, cancelled, leaked>>

\* One turn of the loop: unlink under the lock, or leave the empty list.
TakeCompleted ==
  /\ WorkerOnCpu /\ worker = "loop" /\ work_exec = 0
  /\ job_lock = Free
  /\ IF job_done_list # << >>
     THEN /\ work_exec' = Head(job_done_list)
          /\ job_done_list' = Tail(job_done_list)
          /\ UNCHANGED worker
     ELSE worker' = "idle" /\ UNCHANGED <<work_exec, job_done_list>>
  /\ UNCHANGED <<submited_seqno, finished_seqno, job_list, job_lock, hwVars,
                 irqVars, work_pending, freed, pc, userVars, cancelled, leaked>>

\* The job is freed with the lock dropped.
complete_exec ==
  /\ WorkerOnCpu /\ work_exec # 0
  /\ freed' = freed \cup {work_exec}
  /\ work_exec' = 0
  /\ UNCHANGED <<queueVars, job_lock, hwVars, irqVars, work_pending, worker, pc,
                 userVars, cancelled, leaked>>

-----------------------------------------------------------------------------
(* close: f_release / p_release of the closing process.                    *)

\* job_list without the jobs of a process.
Remaining(pid) == Filtered(job_list, {i \in DOMAIN job_list : ~IsOf(pid, job_list[i])})

SeqsOf(pid) == {job_list[i].seq : i \in {k \in DOMAIN job_list : IsOf(pid, job_list[k])}}

RemoveJobs(pid) ==
  /\ cancelled' = cancelled \cup SeqsOf(pid)
  /\ freed' = freed \cup SeqsOf(pid)
  /\ UNCHANGED <<submited_seqno, finished_seqno, job_done_list, work_pending,
                 worker, work_exec, irqVars, leaked>>

\* The file is closed, and what its thread knew of its jobs is forgotten.
Closed(t) ==
  /\ Goto(t, "closed")
  /\ seqno' = [seqno EXCEPT ![t] = 0] /\ mine' = [mine EXCEPT ![t] = 0]
  /\ UNCHANGED wait_seqno

\* Without a running job of the process the queue is filtered in one go;
\* with one, the lock is kept while the reset waits for the hardware.
release(t) ==
  /\ OnCpu(t) /\ pc[t] \in {"idle", "exit"}
  /\ job_lock = Free
  /\ LET pid == PidOf[t]
     IN \/ /\ \E i \in DOMAIN job_list : IsOf(pid, job_list[i]) /\ job_list[i].state = "RUNNING"
           /\ job_lock' = t
           /\ Goto(t, "reset")
           /\ UNCHANGED <<queueVars, hwVars, irqVars, workVars, userVars, cancelled, leaked>>
        \/ /\ \A i \in DOMAIN job_list : IsOf(pid, job_list[i]) => job_list[i].state # "RUNNING"
           /\ job_list' \in Remaining(pid)
           /\ RemoveJobs(pid)
           /\ Closed(t)
           /\ UNCHANGED <<job_lock, hwVars>>

ReleaseNoRestart(t) == \* mutant: re_submit is never set
  /\ pc[t] = "reset" /\ hw = 0
  /\ job_list' \in Remaining(PidOf[t])
  /\ irq_reg' = IF ResetClearsIrq THEN {} ELSE irq_reg
  /\ RemoveJobs(PidOf[t])
  /\ job_lock' = Free
  /\ Closed(t)
  /\ UNCHANGED <<hw, hw_done>>

ReleaseNoReset(t) == \* mutant: close does not reset the channel
  /\ pc[t] = "reset" /\ hw = 0
  /\ \E rest \in Remaining(PidOf[t]) : job_list' = Started(rest) /\ hw' = FirstSeq(rest)
  /\ RemoveJobs(PidOf[t])
  /\ job_lock' = Free
  /\ Closed(t)
  /\ UNCHANGED <<irq_reg, hw_done>>

\* The hardware is idle: drop the jobs of the process, start the next one.
ReleaseReset(t) ==
  /\ pc[t] = "reset" /\ hw = 0
  /\ \E rest \in Remaining(PidOf[t]) : job_list' = Started(rest) /\ hw' = FirstSeq(rest)
  /\ irq_reg' = IF ResetClearsIrq THEN {} ELSE irq_reg
  /\ RemoveJobs(PidOf[t])
  /\ job_lock' = Free
  /\ Closed(t)
  /\ UNCHANGED hw_done

-----------------------------------------------------------------------------
Thread(t) ==
  \/ open(t) \/ f_op(t) \/ p_op(t) \/ StartFirst(t) \/ ReadSeqno(t)
  \/ wait(t) \/ release(t) \/ ReleaseReset(t)

Handler == irq_handler \/ irq_finish_job \/ IrqStartNext \/ irq_return

Worker == job_done_work \/ TakeCompleted \/ complete_exec

Next == (\E t \in Threads : Thread(t)) \/ HwComplete \/ Handler \/ Worker

\* A started chain ends, a latched interrupt is delivered, the handler, the
\* work queue and a thread inside an ioctl are scheduled.  No thread has to
\* open, submit, wait or close.
Fairness ==
  /\ WF_vars(HwComplete) /\ WF_vars(Handler) /\ WF_vars(Worker)
  /\ \A t \in Threads : WF_vars(StartFirst(t) \/ ReadSeqno(t) \/ WaitCheck(t)
                                \/ ReleaseReset(t))

Spec == Init /\ [][Next]_vars /\ Fairness
-----------------------------------------------------------------------------
(* Properties.                                                             *)

\* Every variable of the channel keeps its type; the counters stay within
\* the numbers handed out by f_op and p_op.
TypeOK ==
  /\ submited_seqno \in Seqnos /\ finished_seqno \in Seqnos
  /\ job_list \in Seq(Jobs) /\ job_done_list \in Seq(1..MaxJobs)
  /\ job_lock \in Threads \cup {Free, Irq}
  /\ hw \in Seqnos /\ irq_reg \subseteq IrqBits
  /\ irq_pc \in {"idle", "handler", "start", "restart"} /\ irq_status \subseteq IrqBits
  /\ work_pending \in {0, 1} /\ worker \in {"idle", "loop"} /\ work_exec \in Seqnos
  /\ pc \in [Threads -> {"closed", "idle", "start", "seqno", "check", "sleep",
                          "reset", "exit"}]
  /\ seqno \in [Threads -> Seqnos] /\ mine \in [Threads -> Seqnos]
  /\ wait_seqno \in [Threads -> Seqnos]
  /\ hw_done \subseteq 1..MaxJobs /\ cancelled \subseteq 1..MaxJobs
  /\ freed \subseteq 1..MaxJobs /\ leaked \in BOOLEAN

Queued == {job_list[i].seq : i \in DOMAIN job_list}

\* Whoever interrupts, submits or closes: queued jobs are in submission
\* order, all younger than finished_seqno, and when nobody holds the lock
\* exactly the first one has been given to the hardware.  Hence the branch
\* of f_irq_finish_job for a first job that does not run is never taken.
QueueShape ==
  /\ \A i, k \in DOMAIN job_list : i < k => job_list[i].seq < job_list[k].seq
  /\ \A i \in DOMAIN job_list : job_list[i].seq \in finished_seqno + 1 .. submited_seqno
  /\ \A i \in DOMAIN job_list : i > 1 => job_list[i].state = "INITIAL"
  /\ job_lock = Free /\ job_list # << >> => job_list[1].state = "RUNNING"
  /\ irq_pc # "restart"

\* The channel cannot stall: while a job is marked running, either the
\* hardware works on it or a completion is still on its way to finish_job,
\* although resets drop latched interrupts and one interrupt may stand for
\* two completions.
NoLostCompletion ==
  job_list # << >> /\ job_list[1].state = "RUNNING" =>
    \/ hw = job_list[1].seq
    \/ irq_reg \cap FinishBits # {}
    \/ irq_status \cap FinishBits # {}

\* Every job structure that was queued is in exactly one place (the queue, the
\* done list, the hands of the work item, or freed): none is lost or freed
\* twice by the work item racing with close.  Job structures that were never
\* queued are freed by f_op; p_op loses those whose parameters cannot be
\* copied or whose node buffer is unknown (leaked).
ExecOnce ==
  /\ {Queued, {job_done_list[i] : i \in DOMAIN job_done_list}, {work_exec} \ {0}, freed}
       \subseteq SUBSET (1..submited_seqno)
  /\ \A s \in 1..submited_seqno :
       Cardinality({i \in DOMAIN job_list : job_list[i].seq = s})
         + Cardinality({i \in DOMAIN job_done_list : job_done_list[i] = s})
         + (IF work_exec = s THEN 1 ELSE 0) + (IF s \in freed THEN 1 ELSE 0) = 1
  /\ leaked => Channel = "P"

\* jz_aip_v20_submit returns a number read outside the lock, maybe that of
\* a later job; still, once that number counts as finished the thread's own
\* job has left the queue, so a wait on it never returns too early.
OwnJobOut ==
  \A t \in Threads :
    pc[t] \in {"idle", "check", "sleep"} /\ mine[t] # 0 /\ finished_seqno >= seqno[t]
      => mine[t] \notin Queued

\* What a wait that returned 0 means to its caller: every job up to
\* finished_seqno that was not cancelled has been run to its end.
FinishedIsDone == \A s \in 1..finished_seqno : s \in hw_done \/ s \in cancelled

-----------------------------------------------------------------------------
(* The inductive invariants behind the theorems of AipChannelProofs.       *)

\* The lock names exactly the actor that spins in a reset.
LockInv ==
  /\ \A t \in Threads : job_lock = t <=> pc[t] \in {"start", "reset"}
  /\ job_lock = Irq <=> irq_pc \in {"start", "restart"}
  /\ irq_pc = "idle" => irq_status = {}

OrderInv ==
  /\ \A i, k \in DOMAIN job_list : i < k => job_list[i].seq < job_list[k].seq
  /\ \A i \in DOMAIN job_list : job_list[i].seq \in finished_seqno + 1 .. submited_seqno
  /\ finished_seqno <= submited_seqno

\* The first job runs unless the lock holder is about to start it.
HeadInv ==
  /\ \A i \in DOMAIN job_list : i > 1 => job_list[i].state = "INITIAL"
  /\ (irq_pc = "start" \/ \E t \in Threads : pc[t] = "start")
       => job_list # << >> /\ job_list[1].state = "INITIAL"
  /\ ~(irq_pc = "start" \/ \E t \in Threads : pc[t] = "start")
       => (job_list # << >> => job_list[1].state = "RUNNING")
  /\ irq_pc # "restart"

ChannelInv == TypeOK /\ LockInv /\ OrderInv /\ HeadInv /\ NoLostCompletion

\* On one CPU, with a reset that drops latched bits: a completion on its
\* way always is that of the first job, and what left the queue is done.
OneCpuInv ==
  /\ hw # 0 => job_list # << >> /\ hw = job_list[1].seq /\ job_list[1].state = "RUNNING"
  /\ irq_reg \cap FinishBits # {} \/ irq_status \cap FinishBits # {}
       => /\ hw = 0 /\ job_list # << >> /\ job_list[1].state = "RUNNING"
          /\ job_list[1].seq \in hw_done
  /\ irq_reg \cap FinishBits # {} => irq_status \cap FinishBits = {}
  /\ irq_reg \subseteq CompletionBits /\ irq_status \subseteq CompletionBits
  /\ job_lock \in Threads => irq_pc = "idle"
  /\ \A s \in 1..submited_seqno : s \in hw_done \/ s \in cancelled \/ s \in Queued

-----------------------------------------------------------------------------
Waiting(t) == pc[t] \in {"check", "sleep"}

\* A thread waiting for a number that close did not cancel gets its answer:
\* no wake-up is lost between looking at finished_seqno and sleeping.
WaitReturns ==
  \A t \in Threads : \A s \in 1..MaxJobs :
    Waiting(t) /\ wait_seqno[t] = s ~> ~Waiting(t) \/ s \in cancelled

\* Every finished job structure is eventually freed by the work item, also
\* when the interrupt reschedules it while it runs.
DoneIsFreed ==
  \A s \in 1..MaxJobs :
    (\E i \in DOMAIN job_done_list : job_done_list[i] = s) ~> s \in freed

Fifo == INSTANCE JobFifo WITH
  Owners <- Pids, MaxNumber <- MaxJobs,
  queue <- [i \in DOMAIN job_list |-> [seq |-> job_list[i].seq, pid |-> job_list[i].pid]],
  submitted <- submited_seqno, finished <- finished_seqno

\* The channel implements the abstract queue: jobs are reported finished in
\* the order of their numbers, close drops exactly the jobs of its process,
\* and the queue never stalls.
ImplementsFifo == Fifo!FifoSpec
=============================================================================

---------------------------- MODULE AipTChannel ----------------------------
(***************************************************************************)
(* The T (colour conversion) channel of the AIP v2.0 driver.  It has two   *)
(* kinds of user: T jobs, queued and reported finished by interrupt like F *)
(* and P jobs, and T_TASK sessions, in which a program keeps t_job_mutex   *)
(* from its submit to its wait ioctl and drives the hardware itself.       *)
(*                                                                         *)
(* t_reset waits only for the bus, not for the job: it aborts the job that *)
(* runs.  Sections under t_job_lock are therefore single steps; what       *)
(* t_task_op and the T_TASK wait do without that lock is split into steps. *)
(* List operations are atomic: a list torn by an unlocked list_add is not  *)
(* modelled.                                                               *)
(***************************************************************************)
EXTENDS Integers, Sequences, FiniteSets, JobLists

CONSTANTS
  JobThreads,     \* threads that submit T jobs and wait for them
  TaskThreads,    \* threads that run T_TASK sessions
  PidOf,          \* PidOf[t]: the process of thread t
  ResetClearsIrq, \* whether a soft reset drops a latched TASK interrupt
  MaxJobs         \* bound on the execs created

Threads == JobThreads \cup TaskThreads
Pids == {PidOf[t] : t \in Threads}

ASSUME TAssumption ==
  /\ JobThreads \cap TaskThreads = {}
  /\ ResetClearsIrq \in BOOLEAN
  /\ MaxJobs \in Nat

Execs == [id : 1..MaxJobs, seq : 0..MaxJobs, pid : Pids, kind : {"T", "TASK"},
          state : {"INITIAL", "RUNNING"}]

VARIABLES
  t_submited_seqno, t_finished_seqno,
  t_job_list, t_job_done_list,   \* queued execs; ids of finished ones
  t_job_mutex,                   \* 1: locked
  hw,                            \* id of the exec the hardware has, 0: none
  hw_task,                       \* 1: it has a task, whose interrupt is masked
  irq_reg, irq_pc,               \* 1: TASK bit latched; 1: handler has read it
  pc, tmp, exec,                 \* per thread: location, read counter, exec id
  wait_seqno,                    \* number a thread in the wait ioctl waits for
  ids, hw_done, cancelled, freed,\* history: execs created, run, dropped, freed
  leaked                         \* history, 1: t_job_mutex lost by an exit

vars == <<t_submited_seqno, t_finished_seqno, t_job_list, t_job_done_list, t_job_mutex,
          hw, hw_task, irq_reg, irq_pc, pc, tmp, exec, wait_seqno, ids, hw_done,
          cancelled, freed, leaked>>
hwVars   == <<hw, hw_task, irq_reg, hw_done>>
doneVars == <<t_job_done_list, freed>>
taskVars == <<t_job_mutex, tmp, exec, leaked>>

Init ==
  /\ t_submited_seqno = 0 /\ t_finished_seqno = 0
  /\ t_job_list = << >> /\ t_job_done_list = << >>
  /\ t_job_mutex = 0 /\ leaked = 0
  /\ hw = 0 /\ hw_task = 0 /\ irq_reg = 0 /\ irq_pc = 0
  /\ pc = [t \in Threads |-> "closed"]
  /\ tmp = [t \in Threads |-> 0] /\ exec = [t \in Threads |-> 0]
  /\ wait_seqno = [t \in Threads |-> 0]
  /\ ids = 0 /\ hw_done = {} /\ cancelled = {} /\ freed = {}

Goto(t, l) == pc' = [pc EXCEPT ![t] = l]

IsOf(pid, e) == e.pid = pid

\* t_reset: whatever runs is aborted.
irq_reg_after_reset == IF ResetClearsIrq THEN 0 ELSE irq_reg

\* submit_next_t_job on the list l: reset, then start its first exec, if any,
\* as a job that interrupts.
submit_next_t_job(l) ==
  IF l = << >>
  THEN t_job_list' = l /\ UNCHANGED <<hw, hw_task, irq_reg>>
  ELSE /\ t_job_list' = [l EXCEPT ![1].state = "RUNNING"]
       /\ hw' = l[1].id /\ hw_task' = 0
       /\ irq_reg' = irq_reg_after_reset

-----------------------------------------------------------------------------
(* open, T jobs and waiting for them.                                      *)

open(t) ==
  /\ pc[t] = "closed"
  /\ Goto(t, "idle")
  /\ UNCHANGED <<t_submited_seqno, t_finished_seqno, t_job_list, doneVars, taskVars,
                 hwVars, irq_pc, wait_seqno, ids, cancelled>>

TOpNoStart(t) == \* mutant: an idle channel is not started
  /\ t \in JobThreads /\ pc[t] = "idle" /\ ids < MaxJobs
  /\ t_submited_seqno' = t_submited_seqno + 1
  /\ ids' = ids + 1
  /\ t_job_list' = Append(t_job_list, [id |-> ids + 1, seq |-> t_submited_seqno + 1,
                                       pid |-> PidOf[t], kind |-> "T", state |-> "INITIAL"])
  /\ UNCHANGED <<hw, hw_task, irq_reg, t_finished_seqno, doneVars, taskVars, hw_done, irq_pc,
                 pc, wait_seqno, cancelled>>

\* The locked section of t_op (a failed t_op changes nothing).
t_op(t) ==
  /\ t \in JobThreads /\ pc[t] = "idle" /\ ids < MaxJobs
  /\ t_submited_seqno' = t_submited_seqno + 1
  /\ ids' = ids + 1
  /\ LET e == [id |-> ids + 1, seq |-> t_submited_seqno + 1, pid |-> PidOf[t],
               kind |-> "T", state |-> "INITIAL"]
     IN IF t_job_list = << >>
        THEN submit_next_t_job(<<e>>)
        ELSE t_job_list' = Append(t_job_list, e) /\ UNCHANGED <<hw, hw_task, irq_reg>>
  /\ UNCHANGED <<t_finished_seqno, doneVars, taskVars, hw_done, irq_pc, pc, wait_seqno,
                 cancelled>>

\* wait_for_seqno: checks, then the loop of prepare_to_wait, look and sleep.
\* The number is any one handed out so far, which covers what submit returns
\* (t_submited_seqno, read after t_op dropped the lock).  A call that the
\* checks answer at once changes nothing.
WaitEnter(t, s) ==
  /\ t \in JobThreads /\ pc[t] = "idle"
  /\ s <= t_submited_seqno /\ t_finished_seqno < s
  /\ Goto(t, "check")
  /\ wait_seqno' = [wait_seqno EXCEPT ![t] = s]
  /\ UNCHANGED <<t_submited_seqno, t_finished_seqno, t_job_list, doneVars, taskVars,
                 hwVars, irq_pc, ids, cancelled>>

WaitCheck(t) ==
  /\ pc[t] = "check"
  /\ IF t_finished_seqno >= wait_seqno[t]
     THEN Goto(t, "idle") /\ wait_seqno' = [wait_seqno EXCEPT ![t] = 0]
     ELSE Goto(t, "sleep") /\ UNCHANGED wait_seqno
  /\ UNCHANGED <<t_submited_seqno, t_finished_seqno, t_job_list, doneVars, taskVars,
                 hwVars, irq_pc, ids, cancelled>>

\* A signal or the timeout ends the wait.
WaitAbort(t) ==
  /\ pc[t] \in {"check", "sleep"}
  /\ Goto(t, "idle") /\ wait_seqno' = [wait_seqno EXCEPT ![t] = 0]
  /\ UNCHANGED <<t_submited_seqno, t_finished_seqno, t_job_list, doneVars, taskVars,
                 hwVars, irq_pc, ids, cancelled>>

-----------------------------------------------------------------------------
(* T_TASK: submit keeps t_job_mutex, wait gives it back.                   *)

TaskCall(t) ==
  /\ t \in TaskThreads /\ pc[t] = "idle"
  /\ Goto(t, "mutex")
  /\ UNCHANGED <<t_submited_seqno, t_finished_seqno, t_job_list, doneVars, taskVars,
                 hwVars, irq_pc, wait_seqno, ids, cancelled>>

TaskNoMutex(t) == \* mutant: the session does not take the mutex
  /\ pc[t] = "mutex"
  /\ t_job_mutex' = 1
  /\ tmp' = [tmp EXCEPT ![t] = t_submited_seqno]
  /\ Goto(t, "count")
  /\ UNCHANGED <<t_submited_seqno, t_finished_seqno, t_job_list, doneVars, exec, leaked,
                 hwVars, irq_pc, wait_seqno, ids, cancelled>>

\* mutex_lock returns; t_submited_seqno++ begins with a read ...
TaskLock(t) ==
  /\ pc[t] = "mutex" /\ t_job_mutex = 0
  /\ t_job_mutex' = 1
  /\ tmp' = [tmp EXCEPT ![t] = t_submited_seqno]
  /\ Goto(t, "count")
  /\ UNCHANGED <<t_submited_seqno, t_finished_seqno, t_job_list, doneVars, exec, leaked,
                 hwVars, irq_pc, wait_seqno, ids, cancelled>>

\* ... and ends with a write that t_job_lock does not protect.
TaskCount(t) ==
  /\ pc[t] = "count"
  /\ t_submited_seqno' = tmp[t] + 1
  /\ Goto(t, "empty")
  /\ UNCHANGED <<t_finished_seqno, t_job_list, doneVars, taskVars, hwVars, irq_pc,
                 wait_seqno, ids, cancelled>>

\* The loop that spins until the list is empty.
TaskEmpty(t) ==
  /\ pc[t] = "empty" /\ t_job_list = << >>
  /\ Goto(t, "add")
  /\ UNCHANGED <<t_submited_seqno, t_finished_seqno, t_job_list, doneVars, taskVars,
                 hwVars, irq_pc, wait_seqno, ids, cancelled>>

\* list_add_tail without the lock, reset, start with interrupts masked.
t_task_op(t) ==
  /\ pc[t] = "add" /\ ids < MaxJobs
  /\ ids' = ids + 1
  /\ t_job_list' = Append(t_job_list, [id |-> ids + 1, seq |-> tmp[t] + 1, pid |-> PidOf[t],
                                       kind |-> "TASK", state |-> "RUNNING"])
  /\ hw' = ids + 1 /\ hw_task' = 1
  /\ irq_reg' = irq_reg_after_reset
  /\ Goto(t, "task")
  /\ UNCHANGED <<t_submited_seqno, t_finished_seqno, doneVars, taskVars, hw_done, irq_pc,
                 wait_seqno, cancelled>>

\* The T_TASK wait takes the first exec, whoever owns it, and resets; on an
\* empty list it reads through a NULL pointer.
TaskFirst(t) ==
  /\ pc[t] = "task"
  /\ IF t_job_list = << >>
     THEN Goto(t, "oops") /\ UNCHANGED <<exec, hw, hw_task, irq_reg>>
     ELSE /\ exec' = [exec EXCEPT ![t] = t_job_list[1].id]
          /\ hw' = 0 /\ hw_task' = 0 /\ irq_reg' = irq_reg_after_reset
          /\ Goto(t, "del")
  /\ UNCHANGED <<t_submited_seqno, t_finished_seqno, t_job_list, doneVars, t_job_mutex, tmp,
                 leaked, hw_done, irq_pc, wait_seqno, ids, cancelled>>

TaskKeepsMutex(t) == \* mutant: the mutex is not given back
  /\ pc[t] = "del"
  /\ t_job_list' \in Filtered(t_job_list, {i \in DOMAIN t_job_list : t_job_list[i].id # exec[t]})
  /\ freed' = freed \cup {exec[t]}
  /\ exec' = [exec EXCEPT ![t] = 0]
  /\ Goto(t, "idle")
  /\ UNCHANGED <<t_submited_seqno, t_finished_seqno, t_job_done_list, t_job_mutex, tmp, leaked,
                 hwVars, irq_pc, wait_seqno, ids, cancelled>>

\* list_del, kfree, mutex_unlock.  The next exec is not started, and
\* t_finished_seqno stays where it is.
t_task_wait(t) ==
  /\ pc[t] = "del"
  /\ t_job_list' \in Filtered(t_job_list, {i \in DOMAIN t_job_list : t_job_list[i].id # exec[t]})
  /\ freed' = freed \cup {exec[t]}
  /\ exec' = [exec EXCEPT ![t] = 0]
  /\ t_job_mutex' = 0
  /\ Goto(t, "idle")
  /\ UNCHANGED <<t_submited_seqno, t_finished_seqno, t_job_done_list, tmp, leaked, hwVars,
                 irq_pc, wait_seqno, ids, cancelled>>

-----------------------------------------------------------------------------
(* The hardware, its interrupt and the done work.                          *)

\* A T job ends and latches the TASK bit; a task does so with the bit masked.
HwComplete ==
  /\ hw # 0 /\ hw_task = 0
  /\ hw' = 0
  /\ irq_reg' = 1
  /\ hw_done' = hw_done \cup {hw}
  /\ UNCHANGED <<t_submited_seqno, t_finished_seqno, t_job_list, doneVars, taskVars, hw_task,
                 irq_pc, pc, wait_seqno, ids, cancelled>>

irq_handler ==
  /\ irq_pc = 0 /\ irq_reg = 1
  /\ irq_pc' = 1 /\ irq_reg' = 0
  /\ UNCHANGED <<t_submited_seqno, t_finished_seqno, t_job_list, doneVars, taskVars, hw,
                 hw_task, hw_done, pc, wait_seqno, ids, cancelled>>

FinishNoWake == \* mutant: the waiters are not woken
  /\ irq_pc = 1
  /\ irq_pc' = 0
  /\ IF t_job_list = << >>
     THEN UNCHANGED <<t_finished_seqno, t_job_done_list, t_job_list, hw, hw_task, irq_reg>>
     ELSE /\ t_finished_seqno' = t_job_list[1].seq
          /\ t_job_done_list' = Append(t_job_done_list, t_job_list[1].id)
          /\ submit_next_t_job(Tail(t_job_list))
  /\ UNCHANGED <<t_submited_seqno, freed, taskVars, hw_done, pc, wait_seqno, ids, cancelled>>

FinishNoNext == \* mutant: the next job is not started
  /\ irq_pc = 1
  /\ irq_pc' = 0
  /\ IF t_job_list = << >>
     THEN UNCHANGED <<t_finished_seqno, t_job_done_list, t_job_list, hw, hw_task, irq_reg, pc>>
     ELSE /\ t_finished_seqno' = t_job_list[1].seq
          /\ t_job_done_list' = Append(t_job_done_list, t_job_list[1].id)
          /\ t_job_list' = Tail(t_job_list)
          /\ pc' = [t \in Threads |-> IF pc[t] = "sleep" THEN "check" ELSE pc[t]]
          /\ UNCHANGED <<hw, hw_task, irq_reg>>
  /\ UNCHANGED <<t_submited_seqno, freed, taskVars, hw_done, wait_seqno, ids, cancelled>>

\* The first exec is finished whatever its state; the next one starts.
t_irq_finish_job ==
  /\ irq_pc = 1
  /\ irq_pc' = 0
  /\ IF t_job_list = << >>
     THEN UNCHANGED <<t_finished_seqno, t_job_done_list, t_job_list, hw, hw_task, irq_reg, pc>>
     ELSE /\ t_finished_seqno' = t_job_list[1].seq
          /\ t_job_done_list' = Append(t_job_done_list, t_job_list[1].id)
          /\ submit_next_t_job(Tail(t_job_list))
          /\ pc' = [t \in Threads |-> IF pc[t] = "sleep" THEN "check" ELSE pc[t]]
  /\ UNCHANGED <<t_submited_seqno, freed, taskVars, hw_done, wait_seqno, ids, cancelled>>

\* The scheduled work unlinks and frees finished execs one by one.
t_job_done_work ==
  /\ t_job_done_list # << >>
  /\ freed' = freed \cup {Head(t_job_done_list)}
  /\ t_job_done_list' = Tail(t_job_done_list)
  /\ UNCHANGED <<t_submited_seqno, t_finished_seqno, t_job_list, taskVars, hwVars, irq_pc, pc,
                 wait_seqno, ids, cancelled>>

-----------------------------------------------------------------------------
\* close or exit: t_release drops the execs of the process and, if one ran,
\* starts the next.  A process that exits in a session leaves t_job_mutex
\* locked.
t_release(t) ==
  /\ pc[t] \in {"idle", "task"}
  /\ LET pid  == PidOf[t]
         gone == {t_job_list[i].id : i \in {k \in DOMAIN t_job_list : IsOf(pid, t_job_list[k])}}
         ran  == \E i \in DOMAIN t_job_list :
                   IsOf(pid, t_job_list[i]) /\ t_job_list[i].state = "RUNNING"
     IN \E rest \in Filtered(t_job_list, {i \in DOMAIN t_job_list : ~IsOf(pid, t_job_list[i])}) :
          /\ cancelled' = cancelled \cup gone /\ freed' = freed \cup gone
          /\ IF ran /\ rest # << >>
             THEN submit_next_t_job(rest)
             ELSE /\ t_job_list' = rest
                  /\ hw' = IF ran THEN 0 ELSE hw
                  /\ hw_task' = IF ran THEN 0 ELSE hw_task
                  /\ irq_reg' = IF ran THEN irq_reg_after_reset ELSE irq_reg
  /\ leaked' = IF pc[t] = "task" THEN 1 ELSE leaked
  /\ Goto(t, "closed")
  /\ UNCHANGED <<t_submited_seqno, t_finished_seqno, t_job_done_list, t_job_mutex, tmp, exec,
                 hw_done, irq_pc, wait_seqno, ids>>

-----------------------------------------------------------------------------
Task(t) == TaskLock(t) \/ TaskCount(t) \/ TaskEmpty(t) \/ t_task_op(t) \/ TaskFirst(t)
           \/ t_task_wait(t)

Thread(t) ==
  \/ open(t) \/ t_op(t) \/ (\E s \in 1..MaxJobs : WaitEnter(t, s))
  \/ WaitCheck(t) \/ WaitAbort(t) \/ TaskCall(t) \/ Task(t) \/ t_release(t)

Handler == irq_handler \/ t_irq_finish_job

Next == (\E t \in Threads : Thread(t)) \/ HwComplete \/ Handler \/ t_job_done_work

\* The hardware ends its job, the interrupt and the work run, a thread in
\* the kernel runs on, a waiter for the mutex gets it when it is free often
\* enough, and a session is ended by its owner or by the owner's exit.
Fairness ==
  /\ WF_vars(HwComplete) /\ WF_vars(Handler) /\ WF_vars(t_job_done_work)
  /\ \A t \in Threads : WF_vars(WaitCheck(t)) /\ WF_vars(Task(t)) /\ SF_vars(TaskLock(t))

Spec == Init /\ [][Next]_vars /\ Fairness
-----------------------------------------------------------------------------
\* Every variable of the T channel keeps its type.
TypeOK ==
  /\ t_submited_seqno \in 0..MaxJobs + 1 /\ t_finished_seqno \in 0..MaxJobs
  /\ t_job_list \in Seq(Execs) /\ t_job_done_list \in Seq(1..MaxJobs)
  /\ {t_job_mutex, hw_task, irq_reg, irq_pc, leaked} \subseteq {0, 1}
  /\ hw \in 0..MaxJobs /\ ids \in 0..MaxJobs
  /\ pc \in [Threads -> {"closed", "idle", "check", "sleep", "mutex", "count", "empty", "add",
                         "task", "del", "oops"}]
  /\ tmp \in [Threads -> 0..MaxJobs] /\ exec \in [Threads -> 0..MaxJobs]
  /\ wait_seqno \in [Threads -> 0..MaxJobs]
  /\ hw_done \cup cancelled \cup freed \subseteq 1..MaxJobs

\* A channel that is used for T jobs only never stalls: its first job runs,
\* on the hardware or with its interrupt on the way, although t_reset aborts
\* what runs and close resets the channel under other processes.
\* (With it: every variable has its type.)
TFirstRuns ==
  /\ TypeOK
  /\ t_job_list # << >> =>
       /\ t_job_list[1].state = "RUNNING"
       /\ hw = t_job_list[1].id \/ irq_reg = 1 \/ irq_pc = 1

\* Threads between taking t_job_mutex and giving it back.
InSession(t) == pc[t] \in {"count", "empty", "add", "task", "del"}

\* One session at a time, and while it lasts the channel is its own: the
\* list holds nothing but its exec, the hardware nothing but its task, and
\* the T_TASK wait, which takes whatever is first, never meets an empty list.
SessionExclusive ==
  \A t \in Threads :
    /\ pc[t] # "oops"
    /\ InSession(t) =>
         /\ t_job_mutex = 1
         /\ \A u \in Threads : InSession(u) => u = t
         /\ pc[t] = "task" => /\ Len(t_job_list) = 1 /\ t_job_list[1].kind = "TASK"
                              /\ t_job_list[1].pid = PidOf[t] /\ hw = t_job_list[1].id

\* A thread that waits for a T job that close did not cancel gets its answer
\* (numbers and ids agree on a channel used for T jobs only).
TWaitReturns ==
  \A t \in JobThreads : \A s \in 1..MaxJobs :
    pc[t] \in {"check", "sleep"} /\ wait_seqno[t] = s ~>
      pc[t] \notin {"check", "sleep"} \/ s \in cancelled

QueuedT(j) == \E i \in DOMAIN t_job_list : t_job_list[i].id = j /\ t_job_list[i].kind = "T"

\* A T job queued behind an exec that runs ("Having job running.") gets its
\* turn: it is finished or dropped by close.
TJobLeaves == \A j \in 1..MaxJobs : QueuedT(j) ~> ~QueuedT(j)

\* A submitted session starts, unless a process exited inside its own: then
\* t_job_mutex stays locked.
SessionStarts ==
  \A t \in TaskThreads : pc[t] = "mutex" ~> pc[t] = "task" \/ leaked = 1 \/ ids = MaxJobs

TFifo == INSTANCE JobFifo WITH
  Owners <- Pids, MaxNumber <- MaxJobs,
  queue <- [i \in DOMAIN t_job_list |-> [seq |-> t_job_list[i].seq, pid |-> t_job_list[i].pid]],
  submitted <- t_submited_seqno, finished <- t_finished_seqno

\* Used for T jobs only, the channel is the same abstract queue as F and P.
TImplementsFifo == TFifo!FifoSpec
=============================================================================

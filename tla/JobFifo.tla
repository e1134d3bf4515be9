------------------------------ MODULE JobFifo ------------------------------
(***************************************************************************)
(* What a job channel of the AIP driver promises its users, without locks, *)
(* interrupts or hardware: jobs are numbered in the order they are queued, *)
(* the oldest queued job is the only one that can be reported finished,    *)
(* and closing a file drops every queued job of the closing process.       *)
(***************************************************************************)
EXTENDS Integers, Sequences, JobLists

CONSTANTS
  Owners,       \* the processes that submit jobs
  MaxNumber     \* bound on the job numbers handed out

VARIABLES
  queue,        \* queued jobs, oldest first
  submitted,    \* the number of the youngest job ever queued
  finished      \* the number of the job last reported finished

fifoVars == <<queue, submitted, finished>>

FifoJobs == [seq : 1..MaxNumber, pid : Owners]

FifoInit ==
  /\ queue = << >>
  /\ submitted = 0
  /\ finished = 0

\* A process queues a job under the next number.
FifoSubmit(p) ==
  /\ submitted < MaxNumber
  /\ submitted' = submitted + 1
  /\ queue' = Append(queue, [seq |-> submitted + 1, pid |-> p])
  /\ UNCHANGED finished

\* The oldest job is reported finished; no other job can be.
FifoFinish ==
  /\ queue # << >>
  /\ finished' = Head(queue).seq
  /\ queue' = Tail(queue)
  /\ UNCHANGED submitted

\* All queued jobs of a closing process disappear, the rest keep their order.
FifoCancel(p) ==
  /\ queue' \in Filtered(queue, {i \in DOMAIN queue : queue[i].pid # p})
  /\ UNCHANGED <<submitted, finished>>

FifoNext ==
  \/ \E p \in Owners : FifoSubmit(p) \/ FifoCancel(p)
  \/ FifoFinish

\* A queue never stalls: its head is reported finished or dropped.
FifoFairness == WF_fifoVars(FifoFinish)

FifoSpec == FifoInit /\ [][FifoNext]_fifoVars /\ FifoFairness
=============================================================================

------------------------------- MODULE IaicCalls -------------------------------
(***************************************************************************)
(* The calls of the IAIC library that process an image from beginning to   *)
(* end: iaic_cvt_format, iaic_resize and iaic_perspective create the       *)
(* buffer of the result and one for the chain node, submit a job, wait for *)
(* it without a timeout and destroy what is not returned.                  *)
(*                                                                         *)
(* Below them are iaic_create_bo and iaic_destroy_bo, with the pool of the *)
(* context (pooled) or with one kernel buffer each; iaic_ioctl, which      *)
(* repeats a call that a signal interrupted; and the job queue of the      *)
(* kernel, here as its abstract specification JobFifo describes it.  The   *)
(* threads belong to one process, which may close another context.         *)
(***************************************************************************)
EXTENDS Integers, Sequences, FiniteSets

CONSTANTS
  Threads,
  Bos,              \* buffers that can exist at once, as numbers
  MaxCalls          \* bound on the calls that are made

ASSUME CallsAssumption == Bos \subseteq Nat \ {0} /\ MaxCalls \in Nat

Kinds == {"cvt", "resize", "perspective"}

VARIABLES
  pooled,           \* ctx->max_mem_size > 1; never changes
  live,             \* the buffers that exist
  queue, submitted, finished, \* per kind: jobs in the kernel, [seqno, bos]; counters
  kind, pc,         \* what a thread is doing, and where
  dst, node,        \* dst_bo and node_bo of the call; 0: no handle
  job_seqno,
  given,            \* history: buffers with a handle that calls returned
  calls,            \* history: number of calls made
  leaked,           \* history: node buffers that nobody can destroy any more
  written,          \* history: buffers that a job or the processor has written
  unsubmitted,      \* history: results whose job was never queued
  cancelled,        \* history: per kind, the numbers of jobs that a close dropped
  dangled           \* history: TRUE once the program has a handle that is not
                    \* one of its buffers, or a buffer without memory

callVars == <<pooled, live, queue, submitted, finished, kind, pc, dst, node, job_seqno,
              given, calls, leaked, written, unsubmitted, cancelled, dangled>>

CallsInit ==
  /\ pooled \in BOOLEAN
  /\ live = {} /\ queue = [k \in Kinds |-> << >>]
  /\ submitted = [k \in Kinds |-> 0] /\ finished = [k \in Kinds |-> 0]
  /\ kind = [t \in Threads |-> "cvt"] /\ pc = [t \in Threads |-> "idle"]
  /\ dst = [t \in Threads |-> 0] /\ node = [t \in Threads |-> 0]
  /\ job_seqno = [t \in Threads |-> 0]
  /\ given = [t \in Threads |-> {}] /\ calls = 0
  /\ leaked = {} /\ written = {} /\ unsubmitted = {}
  /\ cancelled = [k \in Kinds |-> {}] /\ dangled = FALSE

CallsGoto(t, l) == pc' = [pc EXCEPT ![t] = l]

\* Handles and addresses are used again: the lowest that is free.
Fresh(b) == b \in Bos \ live /\ \A c \in Bos \ live : b <= c

\* What the history says of buffers that exist no more.
Forget(gone) ==
  leaked' = leaked \ gone /\ written' = written \ gone /\ unsubmitted' = unsubmitted \ gone

\* The call returns its result: a good one, or one that was destroyed; from
\* a buffer of the pool the handle is not cleared.
Return(t, bo, good) ==
  /\ CallsGoto(t, "idle")
  /\ dst' = [dst EXCEPT ![t] = 0] /\ node' = [node EXCEPT ![t] = 0]
  /\ job_seqno' = [job_seqno EXCEPT ![t] = 0]
  /\ given' = [given EXCEPT ![t] = IF good \/ pooled THEN @ \cup {bo} ELSE @]
  /\ dangled' = (dangled \/ (~good /\ pooled))

-----------------------------------------------------------------------------
\* iaic_create_bo fails: every call then returns what was on its stack, whose
\* handle is nobody's or any buffer's.
NoBuffer(t) ==
  /\ pc[t] = "idle" /\ calls < MaxCalls
  /\ \/ UNCHANGED <<given, dangled>>
     \/ \E b \in Bos : given' = [given EXCEPT ![t] = @ \cup {b}] /\ dangled' = TRUE
  /\ calls' = calls + 1
  /\ UNCHANGED <<pooled, cancelled, live, queue, submitted, finished, kind, pc, dst, node,
                 job_seqno, leaked, written, unsubmitted>>

\* The result's buffer is created.
iaic_create_dst(t, k) ==
  /\ pc[t] = "idle" /\ calls < MaxCalls
  /\ \E b \in Bos : Fresh(b) /\ dst' = [dst EXCEPT ![t] = b] /\ live' = live \cup {b}
  /\ kind' = [kind EXCEPT ![t] = k]
  /\ CallsGoto(t, IF k = "cvt" THEN "submit" ELSE "node")
  /\ calls' = calls + 1
  /\ UNCHANGED <<pooled, cancelled, queue, submitted, finished, node, job_seqno, given, leaked,
                 written, unsubmitted, dangled>>

\* iaic_cvt_format of RGBA to BGRA: the processor copies, no job.  The buffer
\* has size 0, as IaicBoPool explains, so that only a pool can give it, and the
\* copy goes on into the memory behind it; contents are not modelled.
CopyRgba(t) ==
  /\ pc[t] = "submit" /\ kind[t] = "cvt" /\ pooled
  /\ written' = written \cup {dst[t]}
  /\ Return(t, dst[t], TRUE)
  /\ UNCHANGED <<pooled, cancelled, live, queue, submitted, finished, kind, calls, leaked,
                 unsubmitted>>

\* iaic_img_read: the file is read into a new buffer; if it cannot be opened
\* or closed the buffer is destroyed.  No job, and no other call in between.
iaic_img_read(t) ==
  /\ pc[t] = "idle" /\ calls < MaxCalls
  /\ \E b \in Bos :
       /\ Fresh(b)
       /\ \/ /\ live' = live \cup {b} /\ written' = written \cup {b}
             /\ given' = [given EXCEPT ![t] = @ \cup {b}]
             /\ UNCHANGED dangled
          \/ /\ given' = [given EXCEPT ![t] = IF pooled THEN @ \cup {b} ELSE @]
             /\ dangled' = (dangled \/ pooled)
             /\ UNCHANGED <<live, written>>
  /\ calls' = calls + 1
  /\ UNCHANGED <<pooled, cancelled, queue, submitted, finished, kind, pc, dst, node, job_seqno,
                 leaked, unsubmitted>>

\* The node's buffer; without one the result's is destroyed.
iaic_create_node(t) ==
  /\ pc[t] = "node"
  /\ \/ /\ \E b \in Bos : Fresh(b) /\ node' = [node EXCEPT ![t] = b] /\ live' = live \cup {b}
        /\ CallsGoto(t, "submit")
        /\ UNCHANGED <<dst, job_seqno, given, leaked, written, unsubmitted, dangled>>
     \/ /\ live' = live \ {dst[t]}
        /\ Forget({dst[t]})
        /\ Return(t, dst[t], FALSE)
  /\ UNCHANGED <<pooled, cancelled, queue, submitted, finished, kind, calls>>

\* The job is queued in the kernel; the number is read afterwards.
SubmitJob(t) ==
  /\ pc[t] = "submit"
  /\ LET k == kind[t] IN
     /\ submitted' = [submitted EXCEPT ![k] = @ + 1]
     /\ queue' = [queue EXCEPT ![k] =
          Append(@, [seqno |-> submitted'[k], bos |-> {dst[t], node[t]} \ {0}])]
  /\ CallsGoto(t, "seqno")
  /\ UNCHANGED <<pooled, cancelled, live, finished, kind, dst, node, job_seqno, given, calls,
                 leaked, written, unsubmitted, dangled>>

SeqnoOfFinished(t) == \* mutant: the number of the job that finished last
  /\ pc[t] = "seqno"
  /\ job_seqno' = [job_seqno EXCEPT ![t] = finished[kind[t]]]
  /\ CallsGoto(t, "wait")
  /\ UNCHANGED <<pooled, cancelled, live, queue, submitted, finished, kind, dst, node, given,
                 calls, leaked, written, unsubmitted, dangled>>

\* What jz_aip_v20_submit copies to the caller after the channel's lock is free.
SubmitSeqno(t) ==
  /\ pc[t] = "seqno"
  /\ job_seqno' = [job_seqno EXCEPT ![t] = submitted[kind[t]]]
  /\ CallsGoto(t, "wait")
  /\ UNCHANGED <<pooled, cancelled, live, queue, submitted, finished, kind, dst, node, given,
                 calls, leaked, written, unsubmitted, dangled>>

\* A failed submission of iaic_resize and iaic_perspective.
SubmitFails(t) ==
  /\ pc[t] = "submit" /\ kind[t] # "cvt"
  /\ live' = live \ {dst[t], node[t]}
  /\ Forget({dst[t], node[t]})
  /\ Return(t, dst[t], FALSE)
  /\ UNCHANGED <<pooled, cancelled, queue, submitted, finished, kind, calls>>

\* A failed submission of iaic_cvt_format goes unnoticed: ret is not set.  The
\* kernel gives the number of the last job; if iaic_aip_t_submit refuses the
\* height, job_seqno is whatever the stack held.
CvtSubmitFails(t) ==
  /\ pc[t] = "submit" /\ kind[t] = "cvt"
  /\ \E n \in {submitted["cvt"]} \cup 0..MaxCalls + 1 :
       job_seqno' = [job_seqno EXCEPT ![t] = n]
  /\ unsubmitted' = unsubmitted \cup {dst[t]}
  /\ CallsGoto(t, "wait")
  /\ UNCHANGED <<pooled, cancelled, live, queue, submitted, finished, kind, dst, node, given,
                 calls, leaked, written, dangled>>

OverflowWaits(t) == \* mutant: the kernel does not refuse numbers not handed out
  pc[t] = "wait" /\ FALSE /\ UNCHANGED callVars

IoctlOnce(t) == \* mutant: iaic_ioctl does not repeat an interrupted wait
  /\ pc[t] = "wait"
  /\ live' = live \ {dst[t], node[t]}
  /\ Forget({dst[t], node[t]})
  /\ Return(t, dst[t], FALSE)
  /\ UNCHANGED <<pooled, cancelled, queue, submitted, finished, kind, calls>>

\* The kernel refuses a number that it has not handed out: the only way the
\* wait can fail, as iaic_ioctl repeats what a signal interrupted.
WaitFails(t) ==
  /\ pc[t] = "wait" /\ job_seqno[t] > submitted[kind[t]]
  /\ live' = live \ {dst[t], node[t]}
  /\ Forget({dst[t], node[t]})
  /\ Return(t, dst[t], FALSE)
  /\ UNCHANGED <<pooled, cancelled, queue, submitted, finished, kind, calls>>

\* The job is done.  iaic_resize destroys its node, iaic_perspective does not.
WaitDone(t) ==
  /\ pc[t] = "wait" /\ finished[kind[t]] >= job_seqno[t]
  /\ IF kind[t] = "perspective"
     THEN leaked' = leaked \cup {node[t]} /\ UNCHANGED <<live, written, unsubmitted>>
     ELSE live' = live \ {node[t]} /\ Forget({node[t]})
  /\ Return(t, dst[t], TRUE)
  /\ UNCHANGED <<pooled, cancelled, queue, submitted, finished, kind, calls>>

\* The program destroys a result.
iaic_destroy_bo(t, b) ==
  /\ pc[t] = "idle" /\ b \in given[t]
  /\ given' = [given EXCEPT ![t] = @ \ {b}]
  /\ live' = live \ {b} /\ Forget({b})
  /\ UNCHANGED <<pooled, cancelled, queue, submitted, finished, kind, pc, dst, node, job_seqno,
                 calls, dangled>>

\* The kernel finishes the oldest job of a channel.
FinishJob(k) ==
  /\ queue[k] # << >>
  /\ finished' = [finished EXCEPT ![k] = Head(queue[k]).seqno]
  /\ queue' = [queue EXCEPT ![k] = Tail(@)]
  /\ written' = written \cup (Head(queue[k]).bos \cap live)
  /\ UNCHANGED <<pooled, cancelled, live, submitted, kind, pc, dst, node, job_seqno, given,
                 calls, leaked, unsubmitted, dangled>>

\* The process closes another of its contexts: the kernel drops the jobs and
\* gives back the buffers of the whole process, while this context keeps its
\* handles and, pooled, the list of blocks in a kernel buffer that is gone.
CloseSibling ==
  /\ queue' = [k \in Kinds |-> << >>]
  /\ cancelled' = [k \in Kinds |->
       cancelled[k] \cup {queue[k][i].seqno : i \in DOMAIN queue[k]}]
  /\ dangled' = (dangled \/ pooled \/ live # {})
  /\ IF pooled THEN UNCHANGED <<live, leaked, written, unsubmitted>>
     ELSE live' = {} /\ Forget(live)
  /\ UNCHANGED <<pooled, submitted, finished, kind, pc, dst, node, job_seqno, given, calls>>

InCall(t) ==
  \/ CopyRgba(t) \/ iaic_create_node(t) \/ SubmitJob(t) \/ SubmitSeqno(t) \/ SubmitFails(t)
  \/ CvtSubmitFails(t) \/ WaitFails(t) \/ WaitDone(t)

CallsNext ==
  \/ \E t \in Threads : \/ InCall(t)
                        \/ \E k \in Kinds : iaic_create_dst(t, k)
                        \/ NoBuffer(t)
                        \/ iaic_img_read(t)
                        \/ \E b \in given[t] : iaic_destroy_bo(t, b)
  \/ \E k \in Kinds : FinishJob(k)
  \/ CloseSibling

\* The hardware finishes the job it runs, and a thread in a call is scheduled.
CallsFairness ==
  /\ \A k \in Kinds : WF_callVars(FinishJob(k))
  /\ \A t \in Threads : WF_callVars(InCall(t))

CallsSpec == CallsInit /\ [][CallsNext]_callVars /\ CallsFairness
-----------------------------------------------------------------------------
Jobs == UNION {{queue[k][i] : i \in DOMAIN queue[k]} : k \in Kinds}

Working(t) == {dst[t], node[t]} \ {0}

\* Every variable of the calls keeps its type.
TypeOK ==
  /\ pooled \in BOOLEAN /\ dangled \in BOOLEAN
  /\ live \subseteq Bos /\ leaked \subseteq Bos /\ written \cup unsubmitted \subseteq Bos
  /\ \A j \in Jobs : j.seqno \in 1..MaxCalls /\ j.bos \subseteq Bos
  /\ submitted \in [Kinds -> 0..MaxCalls] /\ finished \in [Kinds -> 0..MaxCalls]
  /\ kind \in [Threads -> Kinds]
  /\ pc \in [Threads -> {"idle", "node", "submit", "seqno", "wait"}]
  /\ dst \in [Threads -> Bos \cup {0}] /\ node \in [Threads -> Bos \cup {0}]
  /\ job_seqno \in [Threads -> 0..MaxCalls + 1]
  /\ given \in [Threads -> SUBSET Bos] /\ calls \in 0..MaxCalls
  /\ cancelled \in [Kinds -> SUBSET (1..MaxCalls)]

\* A job in the kernel has its buffers: no call destroys what the hardware
\* still reads and writes, on any of its error paths.  This ends when the
\* program can destroy what is not its own, because a call returned a handle
\* from its stack or a destroyed buffer with its handle, or when it closed
\* another context, which takes the memory of all.
\* And no buffer is lost: each belongs to the program, to a call in progress
\* or is a node of an iaic_perspective that succeeded, the one path that
\* destroys nothing.
\* (With it: every variable has its type.)
CallsJobMemory ==
  /\ TypeOK
  /\ ~dangled => \A j \in Jobs : j.bos \subseteq live
  /\ live \subseteq leaked \cup UNION {given[t] \cup Working(t) : t \in Threads}

\* A result in the hands of a program is complete: it exists, no job still
\* writes it, and one has, unless iaic_cvt_format lost the error of its
\* submission.  This ends as above: after the close of another context a call
\* whose job was dropped returns its result, never written, as soon as a later
\* job is finished.
ResultComplete ==
  ~dangled => \A t \in Threads : \A b \in given[t] :
    b \in live /\ b \in written \cup unsubmitted /\ \A j \in Jobs : b \notin j.bos

\* Every call returns, unless the close of another context dropped the job it
\* waits for.  Even a wait for a number from the stack ends, because the kernel
\* refuses what it has not handed out.
CallReturns ==
  \A t \in Threads : pc[t] # "idle" ~> pc[t] = "idle" \/ job_seqno[t] \in cancelled[kind[t]]
=============================================================================

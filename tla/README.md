# A TLA+ verification project for the Ingenic AIP v2.0 stack

The repository holds the software around Ingenic's AIP v2.0 image-processing
accelerator: a Linux driver, user libraries, and the programs that exercise
them. This directory keeps TLA+ models of the parts that keep state (job
channels, locks, buffers, heaps, contexts, the order of set-up and tear-down),
the TLC configurations that check them, and TLAPS proofs about them.

`PROJECT.json` is the machine-readable index: components, runs, mutants,
the definition-to-source map, findings, hazards and theorems.

## 1. Inventory

| Component | State | Operations | Where it is hard |
|---|---|---|---|
| **F and P job channels** `src/drive/jz_aip_v20_core.c`, `_irq.c`, `_drv.c` | per channel: `submited_seqno`, `finished_seqno`, `job_list`, `job_done_list`, spin lock, wait queue, work item | `f_op`/`p_op`, `submit`, `wait_for_seqno`, interrupt handler, `job_done_work`, `f_release`/`p_release` | a reset spins with the lock held; status read before the lock; close restarts the queue under other processes; numbers read after unlock; sleeping and waking |
| **T job channel, T_TASK sessions** same files | the same for T, and `t_job_mutex` | `t_op`, `t_task_op`, the T_TASK branch of `wait`, `t_irq_finish_job`, `t_release` | two kinds of user on one list, one of which does not take the lock; a mutex held between two ioctls |
| **NNA mutex, context lock, device files** `jz_nna_v20_core.c`, `_core.c`, `_drv.c` | `nna_mutex`, `nna_pid`, `nna_job_list`, `nna_job_lock`; `is_ok` and the kref | lock, trylock, unlock, forced unlock, `AIP_ACTION_CTX_*`, open, release | a mutex held across ioctls by a process that may die; owner compared outside the lock; the same mutex with two protocols; `BUG()` at the last close |
| **Kernel buffer objects** `jz_aip_v20_bo.c` | an idr of buffers with owner pids | create, append, destroy, release by pid | a buffer destroyed while a queued job refers to it |
| **NNA ORAM pool** `jz_nna_v20_core.c` | gen_pool and idr | alloc, free, release by pid | failure half way; cleanup by pid |
| **IAIC context life cycle** `src/lib/src/iaic_api.c` | the context, System V segment, process-shared lock | `iaic_ctx_init`, `iaic_ctx_destroy` | initialised once by several processes; removed by any of them |
| **IAIC buffer pool** `src/lib/src/iaic_bo.c` | block list over kernel buffers | fast alloc / free, splitting, merging | merging across buffers; the pool mutex taken twice |
| **IAIC image calls** `src/lib/src/iaic_api.c`, `iaic_bo.c`, `iaic_core.c` | buffers of a call, its job number | `iaic_cvt_format`, `iaic_resize`, `iaic_perspective`, `iaic_img_read`, create and destroy of buffers | error paths over two buffers and a queued job; waits that signals interrupt |
| **NNDMA** `src/lib/src/iaic_api.c`, `iaic.h` | one descriptor in the DESRAM, start registers | `iaic_nndma_start`, wait | a size split over two bit fields; one descriptor for all channels and processes |
| **Driver probe, remove, power management** `_drv.c`, `_irq.c` | what is registered, what is initialised, the clock | probe, remove, suspend, resume, open, close, interrupts | interrupts and opens before probe has initialised what they use; managed memory |
| **AIP T41 user driver** `src/aip/aip_t41/src` | open count, a manager per channel, node arrays, chain buffers, descriptors, channel mutexes | init, deinit, affine, resize, perspective and conversion calls | state kept between calls; errors that undo half; init and deinit of several users |
| **AIE device mapping** `src/aip/driver/src/drivers/aie_mmap.c` | devices, mappings, reserved memory, the DDR heap | `__aie_mmap`, `__aie_munmap` | an error path of labels for ten resources |
| **AIP memory manager** `src/aip/driver/src/mem_manager` | an ORAM heap and a DDR heap: lists of nodes, counters of used bytes | malloc, calloc, memalign, free, init, deinit | alignment offsets, merging in any order, rests of length 0, wrapping products |
| mmap and trace; A1 user driver; T40 copies; `src/testsuite`; `src/risc-v` | - | - | section 7 |

How they interact: a program opens `/dev/jzaip_v20` (usually through
`iaic_ctx_init`), allocates buffers, submits F, P or T jobs whose chain nodes
lie in those buffers, gets back a sequence number, and waits for it. Jobs of
all processes share the three channels; the first job of each runs on the
hardware, whose interrupt finishes it, starts the next and wakes the waiters;
a work item frees finished jobs. Closing a file cleans up **by process**:
jobs on the three channels, buffers, the NNA mutex and ORAM.

What makes each component correct:

- a channel: jobs finish in order of their numbers; it never stalls; a number
  counts as finished only if the job ran or was cancelled; every queued job
  structure is freed exactly once; a wait returns; close affects only its own process;
- T_TASK: sessions exclude each other and everybody else; jobs behind a session
  still run;
- the NNA mutex: one owner, given back when the owner exits, nobody else can
  take it away, every request is granted, the last close finds it free;
- buffers and heaps: blocks do not overlap, a block in use keeps its backing
  memory, everything of a dead process is returned;
- contexts: every context that is open shares one process lock;
- image calls: a job's buffers outlive the job, nothing leaks on an error path, a
  result is complete, every call returns;
- NNDMA: the hardware moves what was asked;
- probe: nothing is used before it is initialised or after it is freed; a failed
  probe leaves nothing registered;
- the T41 driver: nobody uses memory or a descriptor that was given up; a channel
  has one user; after a successful init the driver is there;
- device mapping: a failure leaves nothing behind.

The hazards, each at its line with the properties that cover it, are in
`PROJECT.json`.

## 2. Plan

Done, in this order: `AipChannel` with `JobFifo`; `NnaLock`; `AipTChannel`;
`AipMemory` over the abstract queue of `JobFifo`; `IaicBoPool`; `IaicContext`;
`BlockHeap` with `OramHeap` and `DdrHeap`; `IngenicAip`; `Nndma`; `AipDriver`;
`AieMmap`; `IaicCalls`; and the proofs of all these.

Left, modules:

1. `AipSystem`: `AipMemory` over the detailed channel instead of the abstract
   queue, with the wait ioctl.
2. An abstract specification of the buffer pool, refined by `IaicBoPool` as long
   as the pool does not grow.
3. The A1 variant of the T41 user driver, as constants of `IngenicAip`.

Theorems: every safety property of a passing run is proved (section 6). Left: the
same for the modules above, once they are written.

## 3. Modules

| Module | Models |
|---|---|
| `JobLists` | `Filtered`: `list_for_each_entry_safe` with `list_del` as an order-preserving filter, without recursion |
| `JobFifo` | abstract: numbered queue; submit, finish the oldest, cancel by process; it does not stall |
| `AipChannel` | one F or P channel in detail, instance of `JobFifo` through `Fifo` |
| `AipTChannel` | the T channel with sessions, instance of `JobFifo` through `TFifo` |
| `NnaLock` | NNA mutex, context lock, open files |
| `AipMemory` | buffers, ORAM, and the cleanup of a closing file, over `JobFifo` |
| `IaicBoPool` | the library's block list in kernel buffers |
| `IaicContext` | shared segment and process lock of contexts in several processes |
| `IaicCalls` | image calls of the library over buffers and the job queue |
| `Nndma` | the DMA descriptor, its fields, and the NNA mutex around a transfer |
| `AipDriver` | probe, remove, suspend, resume, open and close with interrupts at every point |
| `IngenicAip` | the T41 user driver |
| `AieMmap` | mapping and unmapping the devices, with every error |
| `BlockHeap` | abstract: disjoint blocks inside a heap |
| `HeapLists` | what the two heaps share: lists of nodes, the width of integers |
| `OramHeap`, `DdrHeap` | the two heaps in detail, instances of `BlockHeap` |
| `MCAipChannel`, `MCAipTChannel`, `MCNnaLock`, `MCAipMemory`, `MCIaicContext`, `MCIaicCalls` | instances for TLC |
| `MCHeaps`, `MCParts` | instances for TLC of modules that share no state: a behaviour chooses one (`part`, which never changes) and leaves the others alone |
| `ListProofs`, `AipChannelProofs`, `AipTChannelProofs`, `NnaLockProofs`, `AipMemoryProofs`, `IaicCallsProofs`, `PartsProofs` (`AipDriver`, `IaicContext`, `Nndma`, `AieMmap`, `IngenicAip`), `HeapProofs` (`BlockHeap`, `OramHeap`, `DdrHeap`, `IaicBoPool`) | theorems |

Modules that are instantiated together prefix their names: `CtxInit`, `CtxNext` and
`CtxSpec` are `Init`, `Next` and `Spec` of `IaicContext`, and so on.

### AipChannel

The code has two copies (F and P) of the same channel; the module is one copy
with a constant `Channel`. They differ in how a submission fails: `f_op`
refuses an unknown node buffer, `p_op` tests the pointer with `< 0`, so a NULL
pointer passes and is dereferenced (`NullNode`). `p_op` also copies parameters
from the program, and when that fails it returns without freeing its exec
(`ParamFault`); the other errors free it (`OpFails`). `leaked` records that an exec
was lost in one of these two ways; `ExecOnce` names it.

A critical section of the spin lock is one step, except where its holder spins
inside `f_reset`/`p_reset` until the hardware is idle: `StartFirst` (submitter of
the first job), `IrqStartNext` (handler) and `ReleaseReset` (close) hold
`job_lock` from one step to the next. Reads outside the lock are steps of their
own: `irq_handler` (read and clear the status), `ReadSeqno` (`submit` copies the
counter after `f_op` unlocked), `WaitEnter`, `WaitCheck`. The work item unlinks a
job under the lock (`TakeCompleted`) and frees it outside (`complete_exec`).

What the source leaves to the platform is a constant:

- `Smp`: may the handler or another thread run while a thread has the lock with
  interrupts off. With `FALSE`, `OnCpu` serialises them; a thread that has the
  lock is not preempted.
- `ResetClearsIrq`: does a soft reset drop latched status bits. The driver does
  not say, so both values are checked.
- `RepairA1`, `CompletionBits`: on A1 (`CONFIG_AIP_V20_REPAIR_A1`) a completed
  chain may show up as a timeout interrupt.

`mine`, `hw_done`, `cancelled`, `freed` and `leaked` are history variables. The contents of
chain nodes, the BO lookup, register values, timestamps and traces are abstracted.
`MaxJobs` bounds the numbers handed out. `Waiters` are the threads that use the wait
ioctl: all of them, but in `channel_p_smp`, whose properties no wait can touch, one. The 64-bit counters do not wrap.

### AipTChannel

`t_reset` does not wait for the job but aborts it, so sections under
`t_job_lock` are single steps. What sessions do without that lock is split:
`TaskLock` and `TaskCount` are the read and the write of `t_submited_seqno++`;
`TaskEmpty` is the loop that spins until the list is empty; `t_task_op` appends,
resets and starts; `TaskFirst` and `t_task_wait` are the two halves of the T_TASK
branch of the wait ioctl. List operations stay atomic: a list torn by two
unlocked `list_add_tail` is not modelled. The handler part of a T interrupt runs
in two steps (read status; locked section).

### NnaLock

Each thread has its own file; `PidOf` says which process it belongs to. `pc` is
where it is in an ioctl. `holds` is what user code was told: it called lock and
has not unlocked. `Faults` lists what a run allows beyond the protocol: an unlock
without lock, a forced unlock, trylock, allocation failure inside lock, a process
killed between the two context-lock calls of `iaic_ctx_init_internal`. `leaked`
records a mutex left locked by a caller that cannot unlock it any more, `broken`
that any fault has happened: `MutualExclusion` and `LockGranted` are claimed up to the
first fault, `OneClaim` and the reference count in `NoBug` whatever happens. A thread
that waits in `mutex_lock` cannot be killed (the wait is uninterruptible).
CPU affinity and tracing are left out; files inherited over fork are in
`AipMemory`.

### AipMemory

A file (`Files`) is open in one or, after `fork`, several processes (`refs`).
`user` is the process inside a call on it. Submission looks the buffer up in one
step and queues the job in another (`SubmitFind`, `SubmitQueue`), because
`f_op` and `p_op` do not keep `bo_mutex`; ORAM is taken from the pool in one step
and gets its handle in another (`OramTake`, `OramHandle`); the pool gives the
smallest gap that has room (`BestFit`). The release of a file
is five steps in the order of `jz_aip_v20_release` (`rel`): jobs, buffers, ORAM,
reference count. The NNA mutex, which is released between buffers and ORAM, is
in `NnaLock`. The channels are one abstract queue, used through
`Jobs == INSTANCE JobFifo`. `Nr` and `Vnr` are the two process numbers the driver
uses. With buffers programs follow the rules in the module's header; without
them the driver protects nothing (no owner check, no reference count). ORAM
handles may be freed by anybody. `inherited` records that a file was inherited
over `fork`; cleanup by process is correct only as long as that did not happen,
so `JobMemory` and `NoBug` are claimed up to then.

### IaicBoPool

Sizes may be 0: `iaic_cvt_format` itself asks for 0 bytes for `IAIC_RGBA2BGRA`, which
`get_img_info` does not know. Such a block is cut off at the address of the block
behind it (`CutsNothing`), and `iaic_fast_free_bo`, which searches by address, finds the
first of the two. `zero` records that this has happened: from then on a block may stay
busy for ever or be free while a program has it, so that `Tiles` (freeing everything
restores the pool) and `Disjoint` (no two buffers overlap) claim less.

`bo_list` is the list in order; a block has its address, size, `idle`, `is_bo` and
handle, and `live`, which says whether its node is allocated. What runs under
the pool mutex is one step. Growing is three (`Exhausted`, `create_bo_node`,
`TakeLast`), because the store at `iaic_bo.c:62` hits the lock word of the mutex:
`block_t.idle` of the list head has the same offset as `mutex_lock` in
`iaic_ctx_t` on the 32-bit target. The destruction of a kernel buffer after the
unlock is a step of its own (`DestroyBo`), and so is its unmapping, whose length is that
of the pool whatever the buffer's: `mapped` are the buffers that are mapped from end
to end, of which a `munmap` that is too long may hit any (`Torn`). A walk over a freed node sets `corrupt`,
and nothing follows. `Ungrown` says that the pool still is the one kernel buffer
of `iaic_ctx_init`; `Tiles` is claimed for such a pool, `Disjoint` for a grown one
too. Buffers of contexts without a pool are in `IaicCalls`. `Base` gives every
kernel buffer its address: any addresses at which buffers do not overlap
(`BaseAssumption`); in the run they touch and come out of order. The address of a
destroyed buffer is not given to a later one: the node of the destroyed buffer stays in
the list in front of any later node, so a walk that could confuse the two
reaches freed memory first and ends the behaviour. Sizes are small numbers with the code's proportions: granule 64 is `Granule`,
the smallest rest 0x200 is `MinRemain`.

### IaicContext

`iaic_ctx_init_internal` is one step per system call up to the unlock of the
context lock (`InitLock`, `ShmGetExcl`, `ShmGet`, `ShmAt`, `MutexInit`), with its
error path (`InitFails`), then one step for the mappings (`Setup`) with its four
outcomes: success, failure of the last step that undoes nothing, failure, and
the failure that returns `IAIC_CODE_OK`. Segments are numbered; `key` is the one
that `shmget` finds. `Polite` restricts `iaic_ctx_destroy` to times when no
other context is in use. `abandoned` records the segments whose creator failed in
`shmat` or `pthread_mutex_init`: such a segment keeps its key and is found as
existing by the next context, with a mutex nobody initialised. A process may end
anywhere except between the two context-lock calls, which `NnaLock` covers
(the fault `kill`).

### IaicCalls

A call is the steps of the library function: create the result
(`iaic_create_dst`), create the node, submit, wait, and return or clean up; each
may fail where the code tests for it. When the first buffer cannot be created the call
returns what its stack held as a handle (`NoBuffer`): nobody's, or that of any buffer.
`pooled` is `max_mem_size > 1`: then destroying a buffer does not
clear its handle (`iaic_bo.c:87`), so that a failed call returns a destroyed buffer
with a handle. The threads belong to one process, which may have other contexts:
`CloseSibling` is the close of one, which drops the jobs and gives back the buffers of
the whole process. `dangled` records that the program has got a handle in one of these
three ways; `CallsJobMemory` (its first half) and `ResultComplete` are claimed until then.
`cancelled` are the numbers that such a close dropped. `iaic_cvt_format` drops the
result of its submission (`CvtSubmitFails`): its number then is whatever the stack held,
so the model chooses any, and the result is recorded in `unsubmitted`. A wait that a
signal interrupts is repeated by `iaic_ioctl`, without a change of state. The kernel's
queues are those of `JobFifo`, one per kind of call: submit, finish the oldest, and
cancel, here of all jobs, as they are all of one process. Image formats, node contents
and matrices are left out; so is `iaic_img_show`, which only writes a file. `leaked` are
nodes of `iaic_perspective` calls that succeeded.

### Nndma

The two words of the descriptor are records of their fields, with the code's
widths: `dma_size1` is the low 12 bits, `dma_size2` what is left above them, and
the check in `iaic_nndma_start` limits the sum. Writing word 0, writing word 1,
starting and waiting are steps, between which another user could come if it did not need
the NNA mutex; `DmaAsAsked` is claimed for users that take it, as the test programs
do. Sizes are real byte counts (the run has those around both limits).

### AipDriver

`dev` is the step probe or remove is at; `inited` what is initialised; `irqs`, `misc`
what is registered. Interrupts and opens may come as soon as they can: from the
registration on. An access to something not initialised, or to the device
structure after `kfree`, is recorded in `misuse` with the step at which it happened, and ends the
behaviour. Managed resources are released when probe fails or remove has returned
(`Devres`). Errors that probe does not report have their outcomes: `NoGateClock` (on an A1
probe returns `PTR_ERR` of a pointer that is still NULL, which is 0, and the device is
bound with nothing set up), `NnaUnknownOram`, and `PoolCreate`, which leaves an error
pointer in `oram_pool` that the ORAM calls take for a pool. The clock is switched by the first open, the last close, suspend and
resume.

### IngenicAip

`open_cnt`, a manager per channel (is it allocated, its descriptor, `fd_open_cnt`,
`chain_num`, its chain buffer), the one `chain_buf_size`, node arrays, and the
channel mutexes. A call is: lock and nodes, init of the channel (open or reuse the
device: `OpenDevice`, `ReuseDevice`), the test of the chain's size against the common
`chain_buf_size` (a step of its own, `check`: another channel may store its size in
between), start, wait; a conversion keeps its mutex between the calls of its
interface. All sizes count boxes. `harm` is the first access to something that was
given up; nothing follows it. `cause` collects the events that may lead there:
`nested` (a deinit beside another initialisation), `nomem`, `noopen`, `nommap`,
`nomap` (errors of the system), `toomany`, `zero`, `fewer`, `sizes` (box counts) and
`ignored` (the program went on after an error). After `nomem` the managers that were
allocated have whatever malloc found in `fd_open_cnt`. `lost` is what a deinit leaves
behind: a buffer never given back (`zero`), or pages of its mapping (`fewer`), because
each `aip_x_init` overwrites the size that is unmapped in the end. The properties say which harm needs which
cause: without any cause there is none. `MaxCauses` bounds the causes of one
behaviour, so that the run shows for each single cause what it can and cannot do
(`fewer` is not counted: it is the normal use). `Cleanup` also unmaps the registers
without a look at whether they were mapped. Register and node contents and the timing
statistics are left out, and so is `get_box_info`: it opens the device itself, asks for a
chain buffer (`IOCTL_AIP_MALLOC`) to learn its size, and closes the device without giving
the buffer back (`jz_aip_hal.c:785-823`); it shares no state with the calls.

### AieMmap

`__aie_mmap` is one step per resource in the order of the code, with the label
where its error path enters (`Entry`); what the labels from there on release is one
step. `held` is what the process has. `__aie_lock` and the cache operations are single calls
without state and left out.

### OramHeap, DdrHeap, BlockHeap

Every call is one step: the DDR heap holds `mem_mutex`, and the ORAM heap has no
lock, so programs that call it from two threads are out of scope. The lists are
sequences of nodes with the code's fields; searching by address finds the first
node with it, free or not, as in the code. Counters and products are kept modulo
`Word`. `wrong` and `ddr_wrong` count the calls that break the rules (a wrong
address freed; a block of size 0; a product that wraps), bounded by `MaxWrong`; what holds anyway
and what only until then is in the properties. `padded` records that
`ddr_memalign` counted padding, after which `mp_memory_used` is off.

`BlockHeap` has blocks that come and go inside `Lo..Hi-1`; `kept` ends its
promise. Both heaps implement it with the busy nodes as blocks
(`OramImplementsHeap`, `DdrImplementsHeap`).

## 4. Runs

| Run | Instance | Shows |
|---|---|---|
| `channel_p_smp` | P on A1, SMP, reset keeps bits, 3 threads, 2 of one process, 1 that waits, 2 jobs | `QueueShape`, `NoLostCompletion`, `ExecOnce`, `OwnJobOut`, also when close removes a sibling's jobs |
| `channel_f_up` | F, 1 CPU, reset drops bits, 2 processes, 2 jobs, fairness | `FinishedIsDone`, `ImplementsFifo`, `WaitReturns`, `DoneIsFreed` |
| `channel_stale_irq` | F, SMP | **violates** `FinishedIsDone` |
| `t_jobs` | T jobs only, 2 processes, 3 jobs, fairness | `TFirstRuns`, `TImplementsFifo`, `TWaitReturns` |
| `t_tasks` | sessions only, 3 processes, 4 sessions, exits, fairness | `SessionExclusive`, `SessionStarts` |
| `t_mixed` | one of each, 3 execs, fairness | **violates** `TJobLeaves` |
| `nna` | 3 processes, all faults, fairness | `OneClaim`, `MutualExclusion`, `NoBug`, `LockGranted` |
| `mem` | 2 processes, 1 file each, fork, 2 BOs, 2 jobs, 2 units of ORAM | `JobMemory`, `OramExact`, `NoBug` |
| `ctx_rmid` | 3 processes, destroy at any time | **violates** `ProcessExclusion` |
| `heaps` | ORAM of 6, DDR heap of 8 with 3 to 9 unit structures, pool of 14 that grows to 3 BOs, sizes 0, 3 and 6, 1 thread | `OramTiles`, `OramFindsOwn`, `OramImplementsHeap`; `DdrTiles`, `DdrFindsOwn`, `DdrImplementsHeap`; `Tiles`, `Disjoint` |
| `parts` | driver: A1, 2 files, 2 probes; contexts: 3 processes, 2 segments, polite; T41: 2 users, 2 boxes, perspective calls and conversions, 1 cause; mappings: 3; DMA: 2 users, 9 sizes | `MisusedOnlyEarly`, `ClockFollowsFiles`; `ProcessExclusion`, `LockReady`; `AipUsesLive`, `ChannelExclusive`, `OpenIsReady`; `NothingLeft`; `DmaAsAsked` |
| `calls` | 2 threads, 4 buffers, 2 calls, pooled or not, closes of another context, fairness | `CallsJobMemory`, `ResultComplete`, `CallReturns` |

The type invariant of a module is a conjunct of one of its properties, or proved
(`AipChannel`, `IaicContext`, `AipDriver`, `Nndma`).

Why the bounds are enough to be interesting. Two processes and two jobs already
give a running job, one queued behind it, an interrupt of the first on its way,
and a close of either process at every point; three threads with a shared pid add
the close of a sibling. Everything that only SMP makes possible is in
`channel_p_smp`; liveness and the refinement are checked on one CPU
(`channel_f_up`). For the NNA mutex, three threads give a holder, a waiter, and
one that opens, closes, or unlocks out of turn; nothing else is bounded there.
Two buffers and two jobs give a handle that is freed by one process and reused by
the other, which has a job queued; two units of ORAM give the case in which one
process waits for what the other frees. The pool's sizes give a block of size 0,
an exact fit, a rest too small to split and a proper rest; seven granules hold enough
blocks for merging on both sides. A thread has one buffer of size 0 at a time, which
bounds the list. Three processes give a holder of the process lock, a context that
is destroyed and one that is created. The heaps' sizes give exact fits, rests below
and above the smallest, alignments that move a block and ones that do not, empty blocks, and one wrong
free; the DDR heap's unit structures run out in the middle of an allocation. Two
users of the T41 driver give a call that finds what another left, an init and a
deinit beside it; two boxes give calls below, at and above the size of a chain
buffer. Affine and resize calls take the same steps over arrays and channels of their
own; the theorems cover them. Two image calls, of two threads or of one, on three queues give a job of one
thread queued behind the other's, an error at every step of one while the other's job
runs, a close that drops the job of one, and a program that destroys what it was given;
four buffers are what two calls need.
Deadlock is checked except where the system really may stop: `t_tasks` and
`t_mixed` (a lost `t_job_mutex`, the bound on execs), `nna` (a self-deadlock
by trylock, a spin lock left held), `heaps`, `parts` and `calls` (the bounds on
calls and buffers; a corrupted list, a misuse or a harm ends a behaviour).

Symmetry is used only in runs without liveness, over threads or processes that
are treated alike (in `channel_p_smp` the two threads of one process; in `parts`
processes, and users).

Fairness, and what in the code or the platform justifies it:

- weak fairness of `HwComplete`: a chain that was started ends (the hardware
  has a timeout interrupt of its own);
- weak fairness of the handler and the work item: latched interrupts are
  delivered, scheduled work runs;
- weak fairness of threads inside an ioctl: the scheduler runs a runnable
  task; nobody is required to open, submit, wait or close;
- no fairness for timeouts and signals of a wait (`WaitAbort`), so
  `WaitReturns` and `TWaitReturns` also hold for waits without a timeout;
- strong fairness of `MutexLock`, `CtxLock` and `TaskLock`: kernel mutexes queue
  their waiters;
- `t_tasks` and `t_mixed`: a session is ended by its owner (weak fairness of the
  T_TASK wait); `nna`: a program that holds the lock unlocks it;
- `calls`: weak fairness of each queue's `FinishJob` (what `WaitReturns` and
  `ImplementsFifo` show of the channels) and of a thread inside a call; nobody
  is required to call.

`WaitReturns` and `TWaitReturns` say "or the number was cancelled": close of a
sibling context cancels jobs without advancing `finished_seqno`, and a wait for
such a number lasts until its timeout. `CallReturns` says the same of the library,
which waits without one. `SessionStarts` says "or a process exited
in its session" (`leaked`), because `t_release` does not give `t_job_mutex` back.

## 5. Findings

- **Interrupt of a cancelled job** (`channel_stale_irq`). The handler reads the
  status before it takes the lock. On SMP, close may cancel the running job and
  start the next between the two; the handler then finishes the next job, which
  has just been started. `jz_aip_v20_irq.c:26` intends to ignore such an
  interrupt, but detects it only by an empty queue. On one CPU with a reset
  that drops latched bits it cannot happen: that is `FinishedOnlyWhenDone`.
- **T job behind a session** (`t_mixed`). The T_TASK wait unlinks its exec and
  starts nothing, so a T job queued meanwhile stays INITIAL for ever.
- **Removed segment** (`ctx_rmid`). `iaic_ctx_destroy` removes the segment for
  everybody; contexts created later have another process lock.

The models also reach the following, which the properties of the passing runs
name as their exceptions:

- **Leaked exec** (`leaked` in `ExecOnce`): `p_op` returns without freeing its exec
  when it cannot copy the parameters (`jz_aip_v20_core.c:406-408`).
- **Trylock locks twice** (the fault `trylock` in `LockGranted`): `NNA_OP_MUTEX_TRYLOCK` takes
  `nna_mutex` and then calls `jz_nna_lock`, which takes it again: the caller waits for
  itself for ever and keeps everybody else out (`jz_nna_v20_core.c:207`).
- **Unlock compares the owner too early** (the fault `unlock` in
  `MutualExclusion`). A repeated unlock that passed the comparison while the
  caller's pid was still in `nna_pid` releases the lock of the process that locked
  in between.

- **Context lock of a killed process** (`leaked` in `NoBug` of `NnaLock`).
  `AIP_ACTION_CTX_LOCK` leaves no exec info, so release cannot give the mutex
  back and the last close reaches `BUG()`. A lock call that finds no memory for
  its exec info has the same effect.
- **Release by another process** (`inherited` in `AipMemory`). Cleanup uses the
  pid of whoever closes last, while buffers carry the pid of the process that
  allocated them: a file inherited by a child leaves buffers behind, and the last
  close reaches `BUG()`. The two pids are also read in different numberings
  (`task_tgid_vnr` and `task_tgid_nr`); in a pid namespace `Nr` and `Vnr` differ, with
  the same effect.
- **Freed block stays linked** (`Ungrown` in `Tiles`). A block that begins
  a kernel buffer is freed without `aip_list_del`. `shared_bo` protects the first
  buffer until the context is destroyed; a buffer the pool grew by is hit at its
  first free.
- **Growth is unprotected.** The store to the `idle` field of the list head opens
  the mutex; two threads that grow the pool at once get the same block. `heaps` has
  one thread for this reason; with `Threads = {t1, t2}` TLC refutes `Disjoint`
  and, because a merge then runs into the new buffer, `Tiles`.
- **Uninitialised process lock** (`abandoned` in `LockReady`).
- **`IAIC_CODE_OK` for a closed context** is an outcome of `Setup`, taken when
  `mem_size` is too large or the first kernel buffer cannot be created.
- **Blocks of size 0** (`zero` in `Tiles` and `Disjoint`): `IAIC_RGBA2BGRA` gets a result
  of 0 bytes, into which `iaic_cvt_format` copies all `src_bo.size` bytes of its source;
  freeing a block by its address may find its neighbour.
- **Length of the munmap** (`Torn` in `Disjoint`): a destroyed kernel buffer is unmapped
  with the length of the pool (`iaic_bo.c:151`), and takes what lies behind it along.
- **Two DMA sizes** (`DmaAsAsked`): the upper field is used for more than 0x1000
  lines less one, and the limit is 0x20000: 0x1001 and 0x20001 lines move one line.
- **Probe order** (`MisusedOnlyEarly`): handlers and device are registered before
  their locks and lists are initialised; the result of `jz_nna_v20_core_init` is
  ignored, so that after an unknown ORAM configuration the NNA part is never
  initialised; a pool that cannot be created stays an error pointer
  (`jz_nna_v20_core.c:76`) and is used by the next ORAM call; without its gate clock an A1 is
  bound with nothing set up, as `PTR_ERR(aip->io_regs)` is 0 there
  (`jz_aip_v20_drv.c:336`); remove frees managed memory while the handlers are registered.
- **Clock after resume** (`ClockFollowsFiles`): resume switches the clock on
  although no file is open.
- **Lost error** (`unsubmitted` in `ResultComplete`): a conversion whose submission failed
  returns an unwritten image as its result.
- **Leaked node** (`leaked` in `CallsJobMemory`): `iaic_perspective` that succeeds.
- **Dangling handles** (`dangled` in `CallsJobMemory` and `ResultComplete`): a failed call
  returns the handle of a destroyed pool buffer, or, without its first buffer, whatever
  its `iaic_bo_t` on the stack held (`iaic_api.c:852`, `915`, `986`, `1081`).
- **Cancelled wait** (`cancelled` in `CallReturns`): when the process closes another of its
  contexts, a wait of the library for a job that was dropped never returns, or, once
  a later job is finished, returns an image that was never written.
- **T41 driver** (`AipUsesLive`, `OpenIsReady`, `ChannelExclusive`): a deinit beside
  another user lowers the count twice; an init that finds no memory leaves the count
  raised and `fd_open_cnt` of the managers it did allocate unset, so that a later
  call may take its device for open (`jz_aip_hal.c:417-443`); an init whose registers
  cannot be mapped returns 0 (`jz_aip_hal.c:60-71`); `chain_buf_size` is shared by the
  channels and stored and tested without a lock (`jz_aip_hal.c:127`, `129`), so that a
  correct open of one may fail over the smaller buffer of another; after too many boxes
  the descriptor is closed and `fd_open_cnt` kept; the size that is unmapped is that of
  the last call (`jz_aip_hal.c:156`), so that part of the mapping stays; a device that
  cannot be opened frees a manager that is still referenced; a failed mapping is compared
  with 0; `bs_covert_cfg` unlocks on its error; no boxes make deinit skip the chain buffer;
  `get_box_info` leaks a chain buffer of the kernel at every call (not modelled).
- **Device mapping** (`NothingLeft`): the error of the version call releases
  nothing; `__aie_munmap` does not know the size of the DDR mapping in two of three
  configurations and leaves the page of the cache size mapped.
- **Heaps** (`OramFindsOwn`, `DdrFindsOwn`, `DdrTiles`): a second free of an aligned DDR block
  moves its unit below its neighbour; `ddr_calloc` multiplies without a check;
  `ddr_memalign` counts padding that `ddr_free` does not; the ORAM heap subtracts a
  length again when an address is freed twice.

## 6. Proofs

The theorems hold for any set of threads, any assignment of processes, any
number of jobs, files, buffers or blocks, heaps of any size, and every value of
the platform constants, from the named assumptions on the constants
(`ChannelAssumption`, `CompletionAssumption`, `NnaAssumption`, `MemoryAssumption`,
`ContextAssumption`, `DriverAssumption`, `NndmaAssumption`, `OramAssumption`,
`DdrAssumption`, `PoolAssumption`, `BaseAssumption` and so on): their types, that lock values differ from threads,
that a completion latches at least one bit on which the handler acts, and that a
heap is smaller than the range of its integers. TLC evaluates them in the runs.
Where a theorem has a hypothesis of its own (`OneCpu`, `OneFileEach`, `JobsOnly`,
`SessionsOnly`, `Polite`, `SoleGrower`), it is named below with what goes wrong without it.

`AipChannelProofs`

- `TypeCorrect`: `Spec => []TypeOK`.
- `ChannelInvariant`: `Spec => []ChannelInv`. `QueueShape` alone is not
  inductive: that the first job is RUNNING when the lock is free depends on who
  spins in a reset. `ChannelInv` adds `LockInv` (the lock names exactly the actor
  inside a reset), `OrderInv` (increasing numbers between the two counters) and
  `HeadInv` (only the first job runs, and it does not only while its starter has
  the lock). `NoLostCompletion` is inductive together with these: a reset that
  drops bits happens only when the first job is about to be started or is
  itself being cancelled, so it never drops the bits a running job needs.
- `QueueIsShaped`, `CompletionNeverLost`: the two invariants that follow. A
  consequence of the first: the branch of `f_irq_finish_job` for a first job
  that is not running (`restart`) is dead code.
- `FinishedOnlyWhenDone`: assuming `OneCpu` (no SMP, a reset drops latched bits,
  one finishing bit per completion), `Spec => []FinishedIsDone`. The invariant
  `OneCpuInv` says that the hardware and any completion on its way belong to the
  first job, that at most one completion is on its way, and that every number
  handed out is done, cancelled or queued. `channel_stale_irq` shows that the
  assumption on CPUs cannot be dropped.
- `FreedExactlyOnce`: `Spec => []ExecOnce`. `PlaceInv` says that queue, done list,
  the work item's hands and the freed jobs are disjoint and together all numbers
  handed out, and that the done list has no number twice: needed because the
  work item unlinks under the lock and frees outside it. That no exec is lost before
  it is queued, but in `p_op` of the P channel, is inductive by itself.
- `WaitCoversOwnJob`: `Spec => []OwnJobOut`. The ioctl returns a counter that it
  reads outside the lock; `OwnInv` says that it is never below the own number.
- `ChannelIsFifo`: `Spec => FifoSafety`, the initial state and the steps of
  `ImplementsFifo`: each step of the channel is one of `JobFifo` or a stutter. Submit and finish
  follow from `ChannelInv`; that close is one `Cancel` needs the facts on `Filtered`.

`AipTChannelProofs`

- `FirstJobRuns`, `TChannelIsFifo`: assuming `JobsOnly` (no T_TASK session, the
  instance of `t_jobs`), `Spec` implies `[]TFirstRuns` and the safety part of
  `TImplementsFifo`. `JobsInv` ties numbers to ids and says that the first job alone was started
  and is on the hardware or has its interrupt on the way. With sessions in
  between neither property is meant: a session takes the hardware away from the list.
- `SessionsExclude`: assuming `SessionsOnly` (no T jobs, one thread per process),
  `Spec => []SessionExclusive`. `SessionInv` says that the mutex belongs to the one
  open session and that the list is its exec or empty. A second thread of the
  process could close the file and drop the exec by process number.

`NnaLockProofs`

- `OneClaimAlways`: `Spec => []OneClaim` with any set of faults. `ClaimInv` adds
  that the list of exec infos has at most one element and that a claimant which
  is inside lock, trylock or the context lock excludes every other claim.
- `NnaExcludes`: assuming `OneFileEach` (no two threads of one process: the driver
  knows owners by process number only), `Spec => []MutualExclusion`. `HolderInv`
  says that a holder is recorded in `nna_pid` and in the exec info, and that
  nobody is inside a call that only a fault leads to.
- `NnaNoBug`: `Spec => []NoBug`, for any processes and faults. `BugInv` adds that
  the reference count is the number of open files (`RefInv`), and that whoever
  the list names still has a file to close, so that its release gives the mutex back.

`AipMemoryProofs`

- `OramAccounted`: `Spec => []OramExact`, with fork, any pids and any caller of
  free. `OramInv` adds `UseInv`: a file that no call is using has no allocation
  under way, so that an allocation never overwrites another one's units; and it
  splits `OramExact` into `Covered` and `Apart`, which say it unit by unit.
- `MemoryTypes`: `Spec => []TypeOK`. That handles fit needs counting: `HandleInv`
  says that they are unique and that every ORAM handle has units, so there are no
  more of them than BOs or units, and the smallest free number is in range.
- `BuffersOutliveJobs`, `LastCloseFindsNothing`: assuming `OneFileEach` (a process
  opens the device once, and has the same number in every namespace and no
  other's), `Spec` implies `[]JobMemory` and `[]NoBug`. Both properties speak of
  behaviours in which no file is inherited; there `PlainInv` gives every file one
  owner, puts the BO of every submission, handle and queued job in the BO list
  under that owner's number, and says that whatever is left has an owner whose
  cleanup has not come to it yet. Cleanup by process number presupposes
  `OneFileEach`: with two files of one process the first close cancels the jobs
  of the second.

`IaicCallsProofs`

- `CallsKeepJobMemory`, `CallsResultsComplete`: `CallsSpec` implies
  `[]CallsJobMemory` and `[]ResultComplete`. `CallsInv` says which buffers a call has at
  each label (`PlaceInv`), that every buffer has one owner and none is lost
  (`OwnInv`, `FoundInv`), that the jobs in the kernel have growing numbers that
  are not finished and each belongs to a call that has not passed its wait (`SeqInv`, `JobInv`),
  that the wait's number is not below the own job's, and that a result is written
  or its job still in the kernel (`DoneInv`). `PendInv` bounds the jobs by the calls.
  Who owns what, and what is written, is claimed until the program has a dangling
  handle; that no buffer is lost, and the numbers, always.

`PartsProofs`

- `ContextTypes`, `SegmentIsShared`, `ProcessLockExcludes`: assuming `Polite`,
  `CtxSpec` implies `[]CtxTypeOK`, `[]OneSegment` and `[]ProcessExclusion`. `ContextInv` says who has
  the context lock, that every user's segment is the key's, that nobody uses the
  mutex while its creator is about to initialise it, and that the holder owns
  it. `ctx_rmid` shows that `Polite` cannot be dropped.
- `ProcessLockReady`: assuming `Polite`, `CtxSpec => []LockReady`: the mutex of every
  open context is mapped and initialised, except in a segment whose creator
  failed before initialising it (`abandoned`).
- `DriverTypes`, `DriverMisusedOnlyEarly`, `DriverProbeAllOrNothing`, `DriverClock`:
  `DriverSpec` implies `[]DriverTypeOK`, `[]MisusedOnlyEarly`, `[]ProbeAllOrNothing` (a probe that failed
  leaves no handler and no device, a bound driver has them all, or is an A1 without gate
  clock and has nothing) and
  `[]ClockFollowsFiles`. The inductive invariant `DriverInv` adds `StepInv`, what is
  registered at each step of probe, and `InitedInv`, what is initialised there:
  `MisusedOnlyEarly` looks back at the step of a misuse, so it needs to know what
  a step implies.
- `DmaFieldsFit`, `DmaMovesWhatWasAsked`: `NndmaSpec` implies `[]NndmaTypeOK` and
  `[]DmaAsAsked`, for every size and address. `DmaInv` adds that the user inside a
  transfer has the NNA mutex and that the words written so far are those of its
  request.
- `MmapLeavesNothing`: `MmapSpec => []NothingLeft`. `GotInv` says what the process
  has at each step: exactly the resources that come before it in the chosen way
  of mapping, so that every error label releases exactly what was made.
- `AipUsesOnlyLive`, `AipChannelExclusive`, `AipOpenIsReady`: `AipSpec` implies
  `[]AipUsesLive`, `[]ChannelExclusive` and `[]OpenIsReady`, for any users and boxes.
  Each conjunct of `AipInv` holds as long as the causes it names have not
  happened: `CountInv` relates the open count to the initialisations in effect,
  `CallInv` gives who is in a call the mutex of its channel, `NodesInv`,
  `ManagersInv`, `RegsInv`, `FilesInv` and `BuffersInv` say that memory, registers,
  descriptors and chain buffers are what the driver believes (`Truthful`: what a
  counter says of a descriptor; `Accounted`: what will be given back and unmapped), and
  `CheckInv` what a call has between its opening and its look at `chain_buf_size`.

`HeapProofs`

- `OramTilesAlways`, `OramFindsOwnAlways`, `OramRefinesHeap`: `OramSpec` implies
  `[]OramTiles`, `[]OramFindsOwn` and `OramImplementsHeap`. `OInv` says that the list
  is a chain (`OChain`: it tiles the ORAM with no two free neighbours), and, while
  the rules are kept, that the address of a busy node is inside it and so is the
  old address that a free node may have kept (`OGood`), that `used` is the sum
  of the busy lengths (`OUsed`), and that busy nodes and blocks of programs
  correspond (`OHeld`). `OGood` is why a search by address that does not look at
  the status finds the right node: in a tiling an address is inside one node only.
- `DdrTilesAlways`, `DdrFindsOwnAlways`, `DdrRefinesHeap`: the same for the DDR
  heap. `DInv` counts the unit structures (`DCount`) whatever programs do; while
  the rules are kept the units are a chain in which no unit is empty (`DChain`),
  blocks have exactly the size asked for (`DHeld`), and `ddr_used` is their sum
  until padding was counted (`DUsed`).
- `HeapKeepsApart`: `Spec => []BlocksDisjoint`: blocks of the abstract heap are
  disjoint and inside it while `kept`; by the refinements above, so are those of
  the two heaps.

- `PoolTilesAlways`, `PoolKeepsApart`: assuming `SoleGrower` (the pool may grow
  only where one thread uses it), `PoolSpec` implies `[]Tiles` and `[]Disjoint`, for
  kernel buffers of every size at any addresses that do not overlap. Neither
  property is inductive. `PoolInv` says of a context's list that some first `m`
  blocks tile the context's kernel buffer, with the busy `shared_bo` in front and no two
  idle neighbours, and that every block behind them is a kernel buffer of its own
  by which the pool grew (`PoolChain`); that, until a block of size 0 is cut, no block is
  empty (`Solid`) and the memory of the busy blocks is the memory of the buffers programs
  hold, each of them once (`BufferInv`, `PoolKept`), of which afterwards only the buffers
  the pool grew by remain (`Sure`), while the others stay inside the pool (`Sized`); that
  a live kernel buffer is mapped end to end or a smaller one was unmapped (`GrownInv`);
  and that the buffers the pool grew by are handed out or destroyed, except for one,
  which the thread in the middle of a call has just made or is about to destroy (`Loose`,
  `CallInv`). Merging stays inside the first `m` blocks or meets a block that begins
  a kernel buffer; the other way, `shared_bo` is never idle, so the context's own kernel
  buffer is never destroyed, whichever of two blocks at one address is freed. After a walk over a freed node (`corrupt`) nothing
  follows, and the invariant keeps what was true before. `CallInv` is where
  `SoleGrower` is needed: with two threads that grow the pool there are two such
  blocks and `TakeLast` hands one of them out twice.

  The heaps and the pool are lists of which a call replaces one to three neighbours by one or
  two (`Replaced`). `ReplacedList` says where each element of the new list comes
  from; on it rest lemmas, shared by all three, that such a replacement keeps a
  tiling, changes the set of blocks and changes a sum by what was replaced. A sum is a fold,
  which cannot be unfolded for a list of unknown length; the proofs use a
  function of partial sums (`Sums`), and that two such functions agree is shown
  by looking at the least position at which they would differ.

The filtering of lists by close is what most lemmas of `ListProofs` are about:
`FilteredList`, `RemainingList` and `RemainingOrder` say that `Filtered` returns one
list, of the same type, in the same order, with exactly the jobs of other processes.

Only model-checked, because the prover handles neither fairness nor ENABLED, is
all liveness: `WaitReturns`, `DoneIsFreed`,
`TWaitReturns`, `SessionStarts`, `LockGranted`, `CallReturns` and the fairness part of
`ImplementsFifo` and `TImplementsFifo`. The refinements of `BlockHeap` have no
fairness and are proved whole. That violated properties are violated is TLC's.

Mutants: every property of a passing run has a mutated operator, defined next to
the one it replaces and marked `mutant`, that stands for a plausible bug of that
code and breaks the property.

## 7. Not modelled

- The share of the repository. Most of its lines are not the program: vendored
  headers (`stb_image.h` in many copies) and GNU tools under `src/risc-v`, golden
  models and hardware tests of three chip generations, and whole copies of the
  same sources. The models are of the driver (`src/drive`), the IAIC library
  (`src/lib`), and of `src/aip` the T41 user driver, the device mapping and the
  memory manager.
- The A1 user driver (`src/aip/aip_a1/src`): a variant of the T41 one, with a count
  of managers in place of the open count and one more buffer.
- The T40 library (`src/aip/aip_t40`): the API of an older chip generation. It keeps
  a lock from start to wait as the T41 conversions do; the rest is register set-up.
- Two threads inside the ORAM heap, which has no lock: list writes interleave below
  the level of the model.
- `nmem_memory`, compiled in for debugging only; `mmap`, register tables and trace.
- Kernel mutexes and futexes below their specification (waiters that a
  `pthread_mutex_init` or the opened pool mutex would strand).
- Torn lists and other memory-level effects of unlocked list access.
- Register contents, chain formats, image formats, timestamps, tracing, CPU
  affinity: no effect on the control modelled here.
- Golden models, test programs, the RISC-V tree: hardware tests, build output and
  vendored code.

## 8. Running

    tlc -workers 2 -config channel_p_smp.cfg MCAipChannel
    tlapm AipChannelProofs.tla

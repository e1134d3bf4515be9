------------------------------ MODULE PartsProofs ------------------------------
(***************************************************************************)
(* Proofs about the parts that share no state with each other, for any     *)
(* number of processes, users, files and calls:                            *)
(*  - what probe, remove, suspend and resume leave behind;                 *)
(*  - the process lock of the IAIC library, as long as a context is        *)
(*    destroyed only when no other is in use (Polite);                     *)
(*  - iaic_nndma_start moves what it was asked to move;                    *)
(*  - what a failed __aie_mmap and __aie_munmap leave;                     *)
(*  - the user driver of the AIP uses nothing that was freed and has each  *)
(*    channel to itself.                                                   *)
(***************************************************************************)
EXTENDS AipDriver, IaicContext, IngenicAip, AieMmap, Nndma, FiniteSetTheorems, TLAPS

-----------------------------------------------------------------------------
(* The driver: probe, remove, suspend and resume.                          *)

\* The steps at which the device is registered, and all handlers are.
Registered == Parts \cup {"pool", "pool_add", "bound"}
Handled    == Registered \cup {"misc", "kfree", "devres"}

\* Handlers and device, step by step; who sleeps has a bound driver.
StepInv ==
  /\ dev \in {"none", "gate", "regs", "t_irq"} => irqs = {}
  /\ dev \in {"f_irq", "p_irq", "irq_ret"} /\ irq_ret = 0 => "t_irq" \in irqs
  /\ dev \in {"p_irq", "irq_ret"} /\ irq_ret = 0 => "f_irq" \in irqs
  /\ dev = "irq_ret" /\ irq_ret = 0 => "p_irq" \in irqs
  /\ dev \in Handled /\ gateless = 0 => irqs = Irqs
  /\ misc = 1 <=> dev \in Registered /\ gateless = 0
  /\ files > 0 => misc = 1
  /\ awake = 0 => dev = "bound"

\* What is initialised and what is freed, step by step.
InitedInv ==
  /\ dev = "gate" => inited = {} /\ oram_pool = "null"
  /\ gateless = 0 =>
       /\ dev \in (Registered \ {"struct_mutex"}) \cup {"kfree", "devres"} => "struct_mutex" \in inited
       /\ dev \in {"core", "nna", "pool", "pool_add", "bound"} => "bo" \in inited
       /\ dev \in {"nna", "pool", "pool_add", "bound", "kfree", "devres"} => "core" \in inited
  /\ dev \in {"pool", "pool_add"} \/ oram_pool # "null" => "nna" \in inited
  /\ oram_pool = "error" => dev \in {"none", "bound", "kfree", "devres"}
  /\ kfreed = 0 \/ (dev = "devres" /\ kfreed = 1) \/ dev = "none"

\* Without gate clock nothing happens after probe, and remove ends the run.
GatelessInv ==
  gateless = 1 =>
    /\ irqs = {} /\ inited = {}
    /\ dev = "bound" \/ (dev = "kfree" /\ misuse # {})

DriverInv ==
  DriverTypeOK /\ StepInv /\ InitedInv /\ GatelessInv /\ MisusedOnlyEarly /\ ClockFollowsFiles

\* The driver is not there at the start.
LEMMA DriverStart == DriverInit => DriverInv
BY DriverAssumption
   DEF DriverInit, DriverInv, DriverTypeOK, StepInv, InitedInv, GatelessInv, MisusedOnlyEarly,
       ClockFollowsFiles, Registered, Handled, Parts, Irqs, DevSteps

\* The steps of probe and remove keep the invariant.
LEMMA ProbeKeeps ==
  ASSUME DriverInv, misuse = {}, awake = 1,
         \/ ProbeAlloc \/ GateClock \/ NoGateClock \/ ProbeRegs \/ ProbeFails
         \/ jz_aip_v20_irq_init \/ IrqInitDone \/ misc_register
         \/ ProbeLocks \/ jz_aip_v20_core_init \/ jz_nna_v20_core_init
         \/ RemoveFirst \/ RemoveFree \/ RemoveDone
  PROVE  DriverInv'
<1> USE DriverAssumption
    DEF DriverInv, DriverTypeOK, StepInv, InitedInv, GatelessInv, MisusedOnlyEarly,
        ClockFollowsFiles, Registered, Handled, Parts, Irqs, DevSteps, fileVars, bindVars
<1>1. CASE ProbeAlloc
  BY <1>1 DEF ProbeAlloc
<1>2. CASE GateClock \/ NoGateClock \/ ProbeRegs
  <2>1. CASE GateClock
    BY <2>1 DEF GateClock
  <2>2. CASE NoGateClock
    <3>1. /\ dev' = "bound" /\ gateless' = 1 /\ irqs' = {} /\ misc' = 0 /\ files' = 0 /\ awake' = 1
      BY <2>2 DEF NoGateClock
    <3>2. inited' = {} /\ oram_pool' = "null" /\ misuse' = {}
      BY <2>2 DEF NoGateClock
    <3>3. kfreed' = kfreed /\ kfreed = 0
      BY <2>2 DEF NoGateClock
    <3>4. DriverTypeOK' /\ ClockFollowsFiles'
      BY <2>2 DEF NoGateClock
    <3>5. StepInv'
      BY <3>1
    <3>6. InitedInv'
      BY <3>1, <3>2, <3>3
    <3>7. GatelessInv'
      BY <3>1, <3>2
    <3>8. MisusedOnlyEarly'
      BY <3>2
    <3> QED
      BY <3>4, <3>5, <3>6, <3>7, <3>8
  <2>3. CASE ProbeRegs
    BY <2>3 DEF ProbeRegs
  <2> QED
    BY <1>2, <2>1, <2>2, <2>3
<1>3. CASE ProbeFails
  BY <1>3 DEF ProbeFails, Devres
<1>4. CASE jz_aip_v20_irq_init
  <2>1. CASE IrqInit("t_irq", "f_irq")
    BY <2>1 DEF IrqInit
  <2>2. CASE IrqInit("f_irq", "p_irq")
    BY <2>2 DEF IrqInit
  <2>3. CASE IrqInit("p_irq", "irq_ret")
    BY <2>3 DEF IrqInit
  <2> QED
    BY <1>4, <2>1, <2>2, <2>3 DEF jz_aip_v20_irq_init
<1>5. CASE IrqInitDone
  <2>1. CASE irq_ret = 0
    <3>1. irqs = Irqs
      BY <1>5, <2>1 DEF IrqInitDone
    <3> QED
      BY <1>5, <2>1, <3>1 DEF IrqInitDone
  <2>2. CASE irq_ret # 0
    BY <1>5, <2>2 DEF IrqInitDone, Devres
  <2> QED
    BY <2>1, <2>2
<1>6. CASE misc_register
  <2>1. gateless = 0 /\ irqs' = Irqs /\ dev' = "struct_mutex" /\ misc' = 1
    BY <1>6 DEF misc_register
  <2> QED
    BY <1>6, <2>1 DEF misc_register
<1>7. CASE ProbeLocks \/ jz_aip_v20_core_init \/ NnaLocks
  <2>1. ASSUME NEW what \in Parts, NEW next \in DevSteps, Initialised(what, next),
               <<what, next>> \in {<<"struct_mutex", "bo">>, <<"bo", "core">>, <<"core", "nna">>,
                                   <<"nna", "bound">>, <<"nna", "pool">>}
        PROVE  DriverInv'
    BY <2>1 DEF Initialised
  <2> QED
    BY <1>7, <2>1 DEF ProbeLocks, jz_aip_v20_core_init, NnaLocks
<1>8. CASE NnaUnknownOram \/ PoolCreate \/ PoolAdd
  <2>1. CASE NnaUnknownOram
    BY <2>1 DEF NnaUnknownOram
  <2>2. CASE PoolCreate
    BY <2>2 DEF PoolCreate
  <2>3. CASE PoolAdd
    BY <2>3 DEF PoolAdd
  <2> QED
    BY <1>8, <2>1, <2>2, <2>3
<1>9. CASE RemoveFirst
  <2>1. CASE gateless = 0
    <3>1. misuse' = {}
      BY <1>9, <2>1 DEF RemoveFirst, Uses
    <3> QED
      BY <1>9, <2>1, <3>1 DEF RemoveFirst
  <2>2. CASE gateless = 1
    <3>1. misuse' = {<<"bo", "bound">>, <<"misc", "bound">>}
      BY <1>9, <2>2 DEF RemoveFirst, Uses
    <3> QED
      BY <1>9, <2>2, <3>1 DEF RemoveFirst
  <2> QED
    BY <2>1, <2>2
<1>10. CASE RemoveFree
  BY <1>10 DEF RemoveFree
<1>11. CASE RemoveDone
  BY <1>11 DEF RemoveDone, Devres
<1> QED
  BY <1>1, <1>2, <1>3, <1>4, <1>5, <1>6, <1>7, <1>8, <1>9, <1>10, <1>11 DEF jz_nna_v20_core_init

\* What a step that finds all it uses misuses: nothing that it should not.
LEMMA UsesIsEarly ==
  ASSUME DriverInv, NEW what \in SUBSET (Parts \cup {"pool"}), Uses(what),
         UNCHANGED <<dev, oram_pool, gateless>>,
         dev \notin {"none", "gate", "regs"}, gateless = 0,
         "pool" \in what => oram_pool = "error",
         dev \in {"kfree", "devres"} => what \subseteq {"core"}
  PROVE  MisusedOnlyEarly' /\ misuse' \subseteq (Parts \cup {"memory", "misc", "pool"}) \X DevSteps
<1>1. dev = "bound" => what \ inited \subseteq {"nna", "pool"}
  BY DEF DriverInv, InitedInv, Parts, Registered
<1>2. dev \in {"kfree", "devres"} => what \ inited = {}
  BY DEF DriverInv, InitedInv
<1>3. kfreed > 0 => dev = "devres"
  BY DEF DriverInv, InitedInv
<1>4. \A h \in misuse' : h[2] = dev /\ (h[1] \in what \ inited \/ (h[1] = "memory" /\ kfreed > 0))
  BY DEF Uses
<1>5. \A h \in misuse' : h = <<h[1], h[2]>>
  BY DEF Uses
<1>6. dev \in DevSteps
  BY DEF DriverInv, DriverTypeOK
<1>7. "pool" \in what => dev = "bound" /\ oram_pool = "error"
  BY DEF DriverInv, InitedInv
<1>8. MisusedOnlyEarly'
  <2> SUFFICES ASSUME NEW h \in misuse'
               PROVE  \/ h[1] \in Parts /\ h[2] \notin {"none", "gate", "regs", "bound", "kfree", "devres"}
                      \/ h = <<"nna", "bound">>
                      \/ h = <<"pool", "bound">> /\ oram_pool' = "error"
                      \/ h = <<"memory", "devres">>
    BY DEF MisusedOnlyEarly
  <2>1. CASE h[1] = "pool"
    BY <1>4, <1>5, <1>7, <2>1
  <2>2. CASE h[1] # "pool"
    BY <1>1, <1>2, <1>3, <1>4, <1>5, <2>2
  <2> QED
    BY <2>1, <2>2
<1>9. misuse' \subseteq (Parts \cup {"memory", "misc", "pool"}) \X DevSteps
  BY <1>4, <1>5, <1>6 DEF Uses
<1> QED
  BY <1>8, <1>9

\* Interrupts, files and the sleep of the system keep the invariant.
LEMMA OthersKeep ==
  ASSUME DriverInv, misuse = {},
         \/ \E irq \in Irqs : irq_handler(irq)
         \/ jz_aip_v20_open \/ jz_aip_v20_ioctl \/ jz_aip_v20_release
         \/ jz_aip_v20_suspend \/ jz_aip_v20_resume
  PROVE  DriverInv'
<1> USE DriverAssumption
    DEF DriverInv, DriverTypeOK, StepInv, InitedInv, GatelessInv, ClockFollowsFiles, fileVars, bindVars
<1>1. CASE \E irq \in Irqs : irq_handler(irq)
  <2>1. PICK irq \in Irqs, what \in {{}, {"core"}} : irq_handler(irq) /\ Uses(what)
    BY <1>1 DEF irq_handler
  <2>2. /\ dev \notin {"none", "gate", "regs"} /\ gateless = 0
        /\ what \in SUBSET Parts /\ UNCHANGED <<dev, oram_pool, gateless>>
    BY <2>1 DEF irq_handler, Parts
  <2>3. MisusedOnlyEarly' /\ misuse' \subseteq (Parts \cup {"memory", "misc", "pool"}) \X DevSteps
    BY <2>1, <2>2, UsesIsEarly
  <2> QED
    BY <2>1, <2>3 DEF irq_handler
<1>2. CASE jz_aip_v20_open
  <2>1. dev \in Registered /\ gateless = 0 /\ UNCHANGED <<dev, oram_pool, gateless>>
    BY <1>2 DEF jz_aip_v20_open
  <2>2. MisusedOnlyEarly' /\ misuse' \subseteq (Parts \cup {"memory", "misc", "pool"}) \X DevSteps
    BY <1>2, <2>1, UsesIsEarly DEF jz_aip_v20_open, Registered, Parts
  <2> QED
    BY <1>2, <2>2 DEF jz_aip_v20_open
<1>3. CASE jz_aip_v20_ioctl
  <2>1. dev \in Registered /\ gateless = 0 /\ UNCHANGED <<dev, oram_pool, gateless>>
    BY <1>3 DEF jz_aip_v20_ioctl
  <2>2. PICK what \in SUBSET (Parts \cup {"pool"}) :
                Uses(what) /\ ("pool" \in what => oram_pool = "error")
    BY <1>3 DEF jz_aip_v20_ioctl, Parts, OramUses
  <2>3. MisusedOnlyEarly' /\ misuse' \subseteq (Parts \cup {"memory", "misc", "pool"}) \X DevSteps
    BY <2>1, <2>2, UsesIsEarly DEF Registered, Parts
  <2> QED
    BY <1>3, <2>3 DEF jz_aip_v20_ioctl
<1>4. CASE jz_aip_v20_release
  <2>1. dev \in Registered /\ gateless = 0 /\ UNCHANGED <<dev, oram_pool, gateless>>
    BY <1>4 DEF jz_aip_v20_release
  <2>2. MisusedOnlyEarly' /\ misuse' \subseteq (Parts \cup {"memory", "misc", "pool"}) \X DevSteps
    BY <1>4, <2>1, UsesIsEarly DEF jz_aip_v20_release, Registered, Parts
  <2> QED
    BY <1>4, <2>2 DEF jz_aip_v20_release
<1>5. CASE jz_aip_v20_suspend
  BY <1>5 DEF jz_aip_v20_suspend, MisusedOnlyEarly
<1>6. CASE jz_aip_v20_resume
  BY <1>6 DEF jz_aip_v20_resume, MisusedOnlyEarly
<1> QED
  BY <1>1, <1>2, <1>3, <1>4, <1>5, <1>6

\* The invariant holds always.
LEMMA DriverAlways == DriverSpec => []DriverInv
<1>1. DriverInv /\ UNCHANGED driverVars => DriverInv'
  BY DEF driverVars, DriverInv, DriverTypeOK, StepInv, InitedInv, GatelessInv, MisusedOnlyEarly,
         ClockFollowsFiles
<1>2. DriverInv /\ DriverNext => DriverInv'
  BY ProbeKeeps, OthersKeep DEF DriverNext
<1> QED
  BY <1>1, <1>2, DriverStart, PTL DEF DriverSpec

\* Every variable of the driver keeps its type, also across probes.
THEOREM DriverTypes == DriverSpec => []DriverTypeOK
BY DriverAlways, PTL DEF DriverInv

\* Locks and lists are used before they are initialised only while probe has
\* not returned; later only the NNA's if the ORAM configuration is unknown, an
\* ORAM pool that could not be created, and what remove tears down on an A1
\* without gate clock.  Freed memory is used only by an interrupt between kfree
\* and the managed release.
THEOREM DriverMisusedOnlyEarly == DriverSpec => []MisusedOnlyEarly
BY DriverAlways, PTL DEF DriverInv

\* jz_aip_v20_probe succeeds with all handlers, the device and its locks, or
\* leaves no handler and no device; bound without gate clock, it has nothing.
THEOREM DriverProbeAllOrNothing == DriverSpec => []ProbeAllOrNothing
<1>1. DriverInv => ProbeAllOrNothing
  BY DEF DriverInv, DriverTypeOK, StepInv, InitedInv, GatelessInv, ProbeAllOrNothing,
         Registered, Handled, Parts
<1> QED
  BY <1>1, DriverAlways, PTL

\* The clock is on for every open file of a system that is awake, and for
\* nobody only after jz_aip_v20_resume.
THEOREM DriverClock == DriverSpec => []ClockFollowsFiles
BY DriverAlways, PTL DEF DriverInv
-----------------------------------------------------------------------------
(* IAIC contexts and the process lock.                                     *)

\* Where a process has the context lock, and where it uses a segment.
Inside == {"excl", "get", "attach", "mutex"}
Using  == {"attach", "mutex", "setup", "ok", "locked"}

CtxLabels == {"none", "excl", "get", "attach", "mutex", "setup", "ok", "locked"}

\* The context lock is held by whoever is inside.
CtxInv == \A p \in Procs : pc[p] \in Inside => ctx_lock = p

\* Whoever uses a segment uses the one the key names, and from "found" on
\* there is one.
KeyInv ==
  \A p \in Procs :
    /\ pc[p] = "get" => key # 0
    /\ pc[p] \in Using => key # 0 /\ shm_id[p] = key

\* While the creator is about to initialise the mutex nobody else can use it.
FreshInv ==
  \A p, q \in Procs :
    /\ pc[p] = "excl" => is_existing[p] = 0
    /\ pc[p] \in {"attach", "mutex"} /\ is_existing[p] = 0 /\ q # p
         => pc[q] \notin {"setup", "ok", "locked"}

\* The holder of the process lock is the owner of the one mutex.
HeldInv == \A p \in Procs : pc[p] = "locked" => owner[key] = p

ContextInv == CtxTypeOK /\ CtxInv /\ KeyInv /\ FreshInv /\ HeldInv

\* The processes have no context at the start.
LEMMA ContextInit == CtxInit => ContextInv
BY ContextAssumption
   DEF CtxInit, ContextInv, CtxTypeOK, CtxInv, KeyInv, FreshInv, HeldInv, Segs, Inside, Using

\* One step of one process keeps the invariant.
LEMMA ContextStep ==
  ASSUME Polite, ContextInv, NEW p \in Procs, Process(p)
  PROVE  ContextInv'
<1> USE ContextAssumption
    DEF ContextInv, CtxTypeOK, CtxInv, KeyInv, FreshInv, HeldInv, Inside, Using, Goto
<1>1. CASE InitLock(p)
  BY <1>1 DEF InitLock
<1>2. CASE ShmGetExcl(p)
  <2>1. CtxTypeOK'
    <3>1. CASE key = 0
      <4>1. segs + 1 \in 0..MaxSegs
        BY <1>2, <3>1 DEF ShmGetExcl, NewSegment
      <4>2. shm_id' \in [Procs -> 0..MaxSegs]
        BY <1>2, <3>1, <4>1 DEF ShmGetExcl, NewSegment
      <4>3. pc' \in [Procs -> CtxLabels]
        BY <1>2, <3>1 DEF ShmGetExcl, CtxLabels
      <4> QED
        BY <1>2, <3>1, <4>1, <4>2, <4>3 DEF ShmGetExcl, NewSegment, CtxLabels
    <3>2. CASE key # 0
      BY <1>2, <3>2 DEF ShmGetExcl
    <3> QED
      BY <3>1, <3>2
  <2>2. CtxInv'
    BY <1>2 DEF ShmGetExcl, NewSegment
  <2>3. KeyInv'
    BY <1>2 DEF ShmGetExcl, NewSegment
  <2>4. FreshInv'
    BY <1>2 DEF ShmGetExcl, NewSegment
  <2>5. HeldInv'
    BY <1>2 DEF ShmGetExcl, NewSegment
  <2> QED
    BY <2>1, <2>2, <2>3, <2>4, <2>5
<1>3. CASE ShmGet(p)
  BY <1>3 DEF ShmGet, NewSegment
<1>4. CASE InitFails(p)
  <2>1. pc[p] \in {"attach", "mutex"} => shm_id[p] \in Segs
    BY DEF Segs
  <2>2. abandoned' \subseteq Segs
    BY <1>4, <2>1 DEF InitFails
  <2>3. pc' \in [Procs -> CtxLabels] /\ aip_fd' \in [Procs -> {0, 1}]
    BY <1>4 DEF InitFails, CtxLabels
  <2>4. CtxTypeOK'
    BY <1>4, <2>2, <2>3 DEF InitFails, CtxLabels
  <2>5. CtxInv' /\ KeyInv' /\ FreshInv' /\ HeldInv'
    BY <1>4 DEF InitFails
  <2> QED
    BY <2>4, <2>5
<1>5. CASE ShmAt(p)
  BY <1>5 DEF ShmAt, Exists, Segs
<1>6. CASE MutexInit(p)
  <2>1. CtxTypeOK'
    <3>1. CASE is_existing[p] = 0
      <4>1. shm_id[p] \in Segs
        BY <1>6 DEF MutexInit, Segs
      <4>2. ready' \subseteq Segs
        BY <1>6, <3>1, <4>1 DEF MutexInit
      <4>3. owner' \in [Segs -> Procs \cup {NoProc}]
        BY <1>6, <3>1, <4>1 DEF MutexInit
      <4>4. pc' \in [Procs -> CtxLabels]
        BY <1>6 DEF MutexInit, CtxLabels
      <4> QED
        BY <1>6, <4>2, <4>3, <4>4 DEF MutexInit, CtxLabels
    <3>2. CASE is_existing[p] # 0
      BY <1>6, <3>2 DEF MutexInit
    <3> QED
      BY <3>1, <3>2
  <2>2. CtxInv'
    BY <1>6 DEF MutexInit
  <2>3. KeyInv'
    BY <1>6 DEF MutexInit
  <2>4. FreshInv'
    BY <1>6 DEF MutexInit
  <2>5. HeldInv'
    BY <1>6 DEF MutexInit
  <2> QED
    BY <2>1, <2>2, <2>3, <2>4, <2>5
<1>7. CASE Setup(p)
  BY <1>7 DEF Setup
<1>8. CASE iaic_process_lock(p)
  BY <1>8 DEF iaic_process_lock, Segs
<1>9. CASE iaic_process_unlock(p)
  BY <1>9 DEF iaic_process_unlock
<1>10. CASE iaic_ctx_destroy(p)
  <2>1. CtxTypeOK'
    <3>1. CASE aip_fd[p] = 1
      <4>1. attached' \in [Procs -> SUBSET Segs]
        BY <1>10, <3>1 DEF iaic_ctx_destroy
      <4>2. key' \in 0..MaxSegs
        BY <1>10, <3>1 DEF iaic_ctx_destroy
      <4>3. aip_fd' \in [Procs -> {0, 1}]
        BY <1>10, <3>1 DEF iaic_ctx_destroy
      <4>4. pc' \in [Procs -> CtxLabels]
        BY <1>10 DEF iaic_ctx_destroy, CtxLabels
      <4> QED
        BY <1>10, <4>1, <4>2, <4>3, <4>4 DEF iaic_ctx_destroy, CtxLabels
    <3>2. CASE aip_fd[p] # 1
      BY <1>10, <3>2 DEF iaic_ctx_destroy
    <3> QED
      BY <3>1, <3>2
  <2>2. CtxInv'
    BY <1>10 DEF iaic_ctx_destroy
  <2>3. KeyInv'
    BY <1>10 DEF iaic_ctx_destroy
  <2>4. FreshInv'
    BY <1>10 DEF iaic_ctx_destroy
  <2>5. HeldInv'
    BY <1>10 DEF iaic_ctx_destroy
  <2> QED
    BY <2>1, <2>2, <2>3, <2>4, <2>5
<1>11. CASE exit(p)
  BY <1>11 DEF exit
<1> QED
  BY <1>1, <1>2, <1>3, <1>4, <1>5, <1>6, <1>7, <1>8, <1>9, <1>10, <1>11 DEF Process

\* Contexts keep the segment they mapped, and the segment of the key is
\* initialised or abandoned unless its creator is still about to do it.
ReadyInv ==
  /\ \A p \in Procs :
       pc[p] \in {"mutex", "setup", "ok", "locked"} => shm_id[p] \in attached[p]
  /\ key # 0 /\ (\A p \in Procs : pc[p] \in {"attach", "mutex"} => is_existing[p] = 1)
       => key \in ready \cup abandoned

\* One step of one process keeps ReadyInv.
LEMMA ReadyStep ==
  ASSUME Polite, ContextInv, ReadyInv, NEW p \in Procs, Process(p)
  PROVE  ReadyInv'
<1> USE ContextAssumption
    DEF ContextInv, CtxTypeOK, CtxInv, KeyInv, FreshInv, ReadyInv, Segs, Inside, Using, Goto
<1>1. CASE InitLock(p)
  BY <1>1 DEF InitLock
<1>2. CASE ShmGetExcl(p)
  BY <1>2 DEF ShmGetExcl, NewSegment
<1>3. CASE ShmGet(p)
  BY <1>3 DEF ShmGet, NewSegment
<1>4. CASE InitFails(p)
  BY <1>4 DEF InitFails
<1>5. CASE ShmAt(p)
  BY <1>5 DEF ShmAt, Exists
<1>6. CASE MutexInit(p)
  BY <1>6 DEF MutexInit
<1>7. CASE Setup(p)
  BY <1>7 DEF Setup
<1>8. CASE iaic_process_lock(p)
  BY <1>8 DEF iaic_process_lock
<1>9. CASE iaic_process_unlock(p)
  BY <1>9 DEF iaic_process_unlock
<1>10. CASE iaic_ctx_destroy(p)
  BY <1>10 DEF iaic_ctx_destroy
<1>11. CASE exit(p)
  BY <1>11 DEF exit
<1> QED
  BY <1>1, <1>2, <1>3, <1>4, <1>5, <1>6, <1>7, <1>8, <1>9, <1>10, <1>11 DEF Process

\* The invariant holds always, when contexts are destroyed politely.
LEMMA ContextAlways ==
  ASSUME Polite
  PROVE  CtxSpec => []ContextInv
<1>1. ContextInv /\ UNCHANGED ctxVars => ContextInv'
  BY DEF ctxVars, ContextInv, CtxTypeOK, CtxInv, KeyInv, FreshInv, HeldInv
<1>2. ContextInv /\ [CtxNext]_ctxVars => ContextInv'
  BY <1>1, ContextStep DEF CtxNext
<1> QED
  BY <1>2, ContextInit, PTL DEF CtxSpec

\* Every variable keeps its type; above all, the numbers of segments stay
\* within the segments that were created, whatever fails or dies when.
THEOREM ContextTypes ==
  ASSUME Polite
  PROVE  CtxSpec => []CtxTypeOK
<1>1. ContextInv => CtxTypeOK
  BY DEF ContextInv
<1> QED
  BY <1>1, ContextAlways, PTL

\* Contexts that are destroyed politely share one segment: what ftok names is
\* what every context between its shmat and its shmdt has mapped.
THEOREM SegmentIsShared ==
  ASSUME Polite
  PROVE  CtxSpec => []OneSegment
<1>1. ContextInv => OneSegment
  BY DEF ContextInv, KeyInv, OneSegment, Using
<1> QED
  BY <1>1, ContextAlways, PTL

\* Then iaic_process_lock excludes, also when processes die or contexts fail
\* to initialise at any point.
THEOREM ProcessLockExcludes ==
  ASSUME Polite
  PROVE  CtxSpec => []ProcessExclusion
<1>1. ContextInv => ProcessExclusion
  BY DEF ContextInv, HeldInv, ProcessExclusion
<1> QED
  BY <1>1, ContextAlways, PTL

\* And iaic_ctx_init returns with an initialised process lock, unless the
\* context that created the segment failed before it initialised the lock.
THEOREM ProcessLockReady ==
  ASSUME Polite
  PROVE  CtxSpec => []LockReady
<1>1. CtxInit => ReadyInv
  BY DEF CtxInit, ReadyInv
<1>2. ReadyInv /\ UNCHANGED ctxVars => ReadyInv'
  BY DEF ctxVars, ReadyInv
<1>3. ContextInv /\ ReadyInv /\ [CtxNext]_ctxVars => ReadyInv'
  BY <1>2, ReadyStep DEF CtxNext
<1>4. ContextInv /\ ReadyInv => LockReady
  <2> SUFFICES ASSUME ContextInv, ReadyInv, NEW p \in Procs, pc[p] \in {"ok", "locked"}
               PROVE  shm_id[p] \in ready \cup abandoned /\ shm_id[p] \in attached[p]
    BY DEF LockReady
  <2>1. \A q \in Procs : pc[q] \in {"attach", "mutex"} => is_existing[q] = 1
    BY DEF ContextInv, FreshInv, CtxTypeOK
  <2> QED
    BY <2>1 DEF ContextInv, KeyInv, ReadyInv, Using
<1> QED
  BY <1>1, <1>3, <1>4, ContextAlways, PTL DEF CtxSpec
-----------------------------------------------------------------------------
(* NNDMA.                                                                  *)

\* The bounds are numbers.
LEMMA Bounds == Limit \in Nat /\ Field \in Nat /\ 0 < Field /\ Field < Limit
BY DEF Field, Limit

\* A size of whole lines that is not 0 is at least one line.
LEMMA WholeLines ==
  ASSUME NEW size \in Nat, size # 0, size % 64 = 0
  PROVE  size \div 64 - 1 \in Nat
OBVIOUS

\* Facts about quotients and remainders by the size of the field.
LEMMA FieldDivision ==
  ASSUME NEW n \in Nat, n <= Limit
  PROVE  /\ (n % Field) \in 0..Field - 1
         /\ n = (n \div Field) * Field + (n % Field)
         /\ n \div Field \in 0..32
         /\ n < Limit => n \div Field < 32
         /\ Limit \div Field = 32 /\ Limit % Field = 0 /\ Field % Field = 0
BY DEF Field, Limit

\* The two fields of the descriptor fit.
LEMMA SplitFits ==
  ASSUME NEW n \in Nat, n <= Limit
  PROVE  dma_size1(n) % Field \in 0..Field - 1 /\ dma_size2(n) \in 0..31
<1>1. dma_size1(n) \in Nat /\ dma_size1(n) <= Limit
  BY FieldDivision DEF dma_size1, Field, Limit
<1>2. dma_size1(n) % Field \in 0..Field - 1
  BY <1>1, FieldDivision
<1>3. dma_size2(n) \in 0..31
  BY FieldDivision DEF dma_size2
<1> QED
  BY <1>2, <1>3

\* They stand for the size, but for the two sizes just past a limit.
LEMMA SplitIsExact ==
  ASSUME NEW n \in Nat, n <= Limit
  PROVE  dma_size2(n) * Field + (dma_size1(n) % Field) = IF n \in {Field, Limit} THEN 0 ELSE n
<1>1. CASE n > Field /\ n < Limit
  <2>1. dma_size2(n) = n \div Field
    BY <1>1, FieldDivision DEF dma_size2
  <2>2. dma_size1(n) % Field = n % Field
    BY <1>1 DEF dma_size1, Field
  <2> QED
    BY <1>1, <2>1, <2>2, FieldDivision DEF Field
<1>2. CASE n = Limit
  BY <1>2 DEF dma_size1, dma_size2, Field, Limit
<1>3. CASE n <= Field
  BY <1>3 DEF dma_size1, dma_size2, Field, Limit
<1> QED
  BY <1>1, <1>2, <1>3 DEF Field, Limit

\* Whoever is past the lock has it, and the descriptor is what it has written.
DmaInv ==
  /\ NndmaTypeOK
  /\ \A u \in DmaUsers :
       /\ dma_pc[u] # "idle" => nna_mutex = u
       /\ dma_pc[u] \in {"word1", "go"} =>
            desram.bo = ask[u].bo /\ desram.size2 = dma_size2(ask[u].n)
       /\ dma_pc[u] = "go" =>
            desram.oft = ask[u].oram /\ desram.size1 = dma_size1(ask[u].n) % Field
  /\ DmaAsAsked

\* One step of one user keeps the invariant.
LEMMA DmaStepKeeps ==
  ASSUME DmaInv, NEW u \in DmaUsers, DmaStep(u)
  PROVE  DmaInv'
<1> USE NndmaAssumption DEF DmaInv, NndmaTypeOK, Transfers, DmaGoto
<1>1. CASE iaic_nna_mutex_lock(u)
  BY <1>1 DEF iaic_nna_mutex_lock, DmaAsAsked
<1>2. CASE iaic_nna_mutex_unlock(u)
  BY <1>2 DEF iaic_nna_mutex_unlock, DmaAsAsked
<1>3. ASSUME NEW size \in DmaSizes, NEW bo \in BoLines, NEW oram \in OramLines,
             iaic_nndma_start(u, size, bo, oram)
      PROVE  DmaInv'
  <2>1. size \div 64 - 1 \in 0..Limit
    <3>1. size \in Nat /\ size # 0 /\ size % 64 = 0 /\ size \div 64 - 1 <= Limit
      BY <1>3 DEF iaic_nndma_start, Accepted
    <3> QED
      BY <3>1, WholeLines, Bounds
  <2>2. NndmaTypeOK'
    BY <1>3, <2>1 DEF iaic_nndma_start
  <2> QED
    BY <1>3, <2>2 DEF iaic_nndma_start, DmaAsAsked
<1>4. CASE Word0(u)
  <2>1. dma_size2(ask[u].n) \in 0..31
    <3>1. ask[u].n \in Nat /\ ask[u].n <= Limit
      BY Bounds
    <3> QED
      BY <3>1, SplitFits
  <2> QED
    BY <1>4, <2>1 DEF Word0, DmaAsAsked
<1>5. CASE Word1(u)
  <2>1. dma_size1(ask[u].n) % Field \in 0..Field - 1
    <3>1. ask[u].n \in Nat /\ ask[u].n <= Limit
      BY Bounds
    <3> QED
      BY <3>1, SplitFits
  <2> QED
    BY <1>5, <2>1 DEF Word1, DmaAsAsked
<1>6. CASE Go(u)
  <2>1. ask[u].n \in Nat /\ ask[u].n <= Limit
    BY Bounds
  <2>2. nndma'.n = IF ask[u].n \in {Field, Limit} THEN 0 ELSE ask[u].n
    <3>1. nndma'.n = dma_size2(ask[u].n) * Field + (dma_size1(ask[u].n) % Field)
      BY <1>6 DEF Go
    <3> QED
      BY <3>1, <2>1, SplitIsExact
  <2>3. nndma'.bo = ask[u].bo /\ nndma'.oram = ask[u].oram
    BY <1>6 DEF Go
  <2>4. NndmaTypeOK'
    <3>1. CASE ask[u].n \in {Field, Limit}
      BY <1>6, <2>2, <3>1, Bounds DEF Go
    <3>2. CASE ask[u].n \notin {Field, Limit}
      <4>1. ask[u].n \in 0..Limit - 1
        <5>1. \A n \in Nat : n <= Limit /\ n # Limit => n \in 0..Limit - 1
          BY Bounds
        <5> QED
          BY <2>1, <3>2, <5>1
      <4> QED
        BY <1>6, <2>2, <3>2, <4>1 DEF Go
    <3> QED
      BY <3>1, <3>2
  <2>5. \A v \in DmaUsers : v # u => dma_pc'[v] # "wait"
    BY <1>6 DEF Go
  <2>6. DmaAsAsked'
    BY <1>6, <2>2, <2>3, <2>5 DEF DmaAsAsked, Go
  <2> QED
    BY <1>6, <2>4, <2>6 DEF Go
<1>7. CASE iaic_nndma_wait(u)
  BY <1>7 DEF iaic_nndma_wait, DmaAsAsked
<1> QED
  BY <1>1, <1>2, <1>3, <1>4, <1>5, <1>6, <1>7 DEF DmaStep

\* The invariant holds always.
LEMMA DmaAlways == NndmaSpec => []DmaInv
<1>1. NndmaInit => DmaInv
  BY NndmaAssumption, Bounds DEF NndmaInit, NoTransfer, DmaInv, NndmaTypeOK, Transfers, DmaAsAsked
<1>2. DmaInv /\ UNCHANGED dmaVars => DmaInv'
  BY DEF dmaVars, DmaInv, NndmaTypeOK, Transfers, DmaAsAsked
<1>3. DmaInv /\ [NndmaNext]_dmaVars => DmaInv'
  BY <1>2, DmaStepKeeps DEF NndmaNext
<1> QED
  BY <1>1, <1>3, PTL DEF NndmaSpec

\* The fields of the descriptor fit their words for every size that
\* iaic_nndma_start lets through.
THEOREM DmaFieldsFit == NndmaSpec => []NndmaTypeOK
BY DmaAlways, PTL DEF DmaInv

\* The hardware is started with what the program asked for, except for the
\* sizes 0x1001 and 0x20001 lines, of which it moves one.
THEOREM DmaMovesWhatWasAsked == NndmaSpec => []DmaAsAsked
BY DmaAlways, PTL DEF DmaInv

-----------------------------------------------------------------------------
(* The mapping of the devices: __aie_mmap has at each step exactly what    *)
(* the steps before it got.                                                *)

Resources == {"mem", "nna", "nnalock", "l2cache", "nndma_io", "desram", "oram", "kmem", "ddr",
              "fastio", "heap"}

\* The place of a step in the order.
Rank == [mem |-> 1, nna |-> 2, nnalock |-> 3, l2cache |-> 4, nndma_io |-> 5, desram |-> 6,
         oram |-> 7, info |-> 8, kmem |-> 9, version |-> 10, ddr |-> 11, fastio |-> 12,
         heap |-> 13, open |-> 14]

\* The steps that are taken in this way of mapping.
Taken(s) == (s = "nnalock" => multiprocess) /\ (s = "kmem" => multiprocess \/ ~b_use_rmem)

GotInv ==
  aie # "closed" =>
    /\ ended = "none" /\ Taken(aie)
    /\ held = {r \in Resources : Taken(r) /\ Rank[r] < Rank[aie]}

MmapInv == NothingLeft /\ GotInv

LEMMA MmapStarts == MmapInit => MmapInv
  <1>1. MmapInit => MmapTypeOK
    <2>1. MmapInit => b_use_rmem \in BOOLEAN /\ multiprocess \in BOOLEAN
      BY Zenon DEF MmapInit
    <2>2. MmapInit => {b_use_rmem, multiprocess} \subseteq BOOLEAN
      BY <2>1, Zenon
    <2> QED
      BY <2>2, MmapAssumption DEF MmapInit, MmapTypeOK
  <1> QED
    BY <1>1 DEF MmapInit, MmapInv, NothingLeft, GotInv

\* What the error path releases from each of its labels on.
LEMMA LabelSets ==
  /\ DOMAIN Labels = 1..10 /\ Len(Labels) = 10
  /\ {Labels[i] : i \in DOMAIN Labels} \cup {"heap"} = Resources
  /\ {Labels[i] : i \in 1..10} = Resources \ {"heap"}
  /\ {Labels[i] : i \in 2..10} = Resources \ {"heap", "fastio"}
  /\ {Labels[i] : i \in 3..10} = Resources \ {"heap", "fastio", "ddr"}
  /\ {Labels[i] : i \in 4..10} = Resources \ {"heap", "fastio", "ddr", "kmem"}
  /\ {Labels[i] : i \in 5..10} = {"desram", "nndma_io", "l2cache", "nnalock", "nna", "mem"}
  /\ {Labels[i] : i \in 6..10} = {"nndma_io", "l2cache", "nnalock", "nna", "mem"}
  /\ {Labels[i] : i \in 7..10} = {"l2cache", "nnalock", "nna", "mem"}
  /\ {Labels[i] : i \in 9..10} = {"nna", "mem"}
  /\ {Labels[i] : i \in 10..10} = {"mem"}
  /\ {Labels[i] : i \in 11..10} = {}
  <1>1. DOMAIN Labels = 1..10 /\ Len(Labels) = 10
    BY DEF Labels
  <1>2. /\ Labels[1] = "fastio" /\ Labels[2] = "ddr" /\ Labels[3] = "kmem" /\ Labels[4] = "oram"
        /\ Labels[5] = "desram" /\ Labels[6] = "nndma_io" /\ Labels[7] = "l2cache"
        /\ Labels[8] = "nnalock" /\ Labels[9] = "nna" /\ Labels[10] = "mem"
    BY DEF Labels
  <1> QED
    BY <1>1, <1>2 DEF Resources

\* The step after s is taken, and what was got before it is what was got
\* before s and s.
LEMMA AfterStep ==
  ASSUME NEW s \in DOMAIN Rank \ {"open"}, Taken(s)
  PROVE  /\ After(s) \in DOMAIN Rank /\ Taken(After(s))
         /\ \A r \in Resources : Taken(r) =>
              (Rank[r] < Rank[After(s)] <=> Rank[r] < Rank[s] \/ r = s)
  <1>1. s \in {"mem", "nna", "nnalock", "l2cache", "nndma_io", "desram", "oram", "info", "kmem",
               "version", "ddr", "fastio", "heap"}
    BY DEF Rank
  <1> USE DEF Rank, Taken, Resources, After
  <1>2. CASE s \in {"mem", "nna", "nnalock"}
    BY <1>2
  <1>3. CASE s \in {"l2cache", "nndma_io", "desram", "oram"}
    BY <1>3
  <1>4. CASE s \in {"info", "kmem"}
    BY <1>4
  <1>5. CASE s \in {"version", "ddr", "fastio", "heap"}
    BY <1>5
  <1> QED
    BY <1>1, <1>2, <1>3, <1>4, <1>5

\* While __aie_mmap is on its way, nothing is there without what it needs.
LEMMA GotNeeds ==
  ASSUME aie \in DOMAIN Rank, GotInv
  PROVE  /\ held \cap {"nndma_io", "desram", "oram", "fastio"} # {} => {"mem", "nna"} \subseteq held
         /\ "heap" \in held => {"ddr", "fastio"} \subseteq held
         /\ "ddr" \in held /\ (multiprocess \/ ~b_use_rmem) => "kmem" \in held
  <1>1. aie # "closed" /\ Rank[aie] \in 1..14
    BY DEF Rank
  <1>2. \A r : r \in held <=> r \in Resources /\ Taken(r) /\ Rank[r] < Rank[aie]
    BY <1>1 DEF GotInv
  <1>3. /\ Rank["mem"] = 1 /\ Rank["nna"] = 2 /\ Rank["nndma_io"] = 5 /\ Rank["desram"] = 6
        /\ Rank["oram"] = 7 /\ Rank["fastio"] = 12 /\ Rank["heap"] = 13 /\ Rank["ddr"] = 11
        /\ Rank["kmem"] = 9
    BY DEF Rank
  <1> QED
    BY <1>1, <1>2, <1>3 DEF Resources, Taken

LEMMA MmapKeeps == MmapInv /\ [MmapNext]_mmapVars => MmapInv'
  <1> SUFFICES ASSUME MmapInv, [MmapNext]_mmapVars
               PROVE  MmapInv'
    OBVIOUS
  <1>0. MmapTypeOK
    BY DEF MmapInv, NothingLeft
  <1>1. CASE MmapCall
    <2>1. maps' \in 0..MaxMaps
      BY <1>1, MmapAssumption DEF MmapCall, MmapInv, NothingLeft, MmapTypeOK
    <2>2. Taken("mem")' /\ \A r \in Resources : ~(Rank[r] < Rank["mem"])
      BY DEF Taken, Rank, Resources
    <2>3. held' = {r \in Resources : Taken(r)' /\ Rank[r] < Rank["mem"]}
      BY <1>1, <2>2 DEF MmapCall
    <2>4. aie' = "mem" /\ "mem" \in DOMAIN Entry
      BY <1>1 DEF MmapCall, Entry
    <2>5. GotInv'
      BY <1>1, <2>2, <2>3, <2>4 DEF MmapCall, GotInv
    <2>6. NothingLeft'
      BY <1>1, <2>1, <2>4 DEF MmapCall, NothingLeft, MmapTypeOK
    <2> QED
      BY <2>5, <2>6 DEF MmapInv
  <1>2. CASE MmapStep
    <2>1. /\ aie \in DOMAIN Rank \ {"open"} /\ aie # "closed"
          /\ UNCHANGED <<b_use_rmem, multiprocess, ended, maps>> /\ aie' = After(aie)
          /\ held' = IF aie \in {"info", "version"} THEN held ELSE held \cup {aie}
      BY <1>0, <1>2 DEF MmapStep, MmapTypeOK, Rank, Entry
    <2>2. /\ ended = "none" /\ Taken(aie)
          /\ held = {r \in Resources : Taken(r) /\ Rank[r] < Rank[aie]}
      BY <2>1 DEF MmapInv, GotInv
    <2>3. /\ aie' \in DOMAIN Rank /\ Taken(aie')
          /\ \A r \in Resources : Taken(r) => (Rank[r] < Rank[aie'] <=> Rank[r] < Rank[aie] \/ r = aie)
      BY <2>1, <2>2, AfterStep
    <2>4. \A r \in Resources : r # "info" /\ r # "version"
      BY DEF Resources
    <2>5. aie \in {"info", "version"} \/ aie \in Resources
      BY <2>1 DEF Rank, Resources
    <2>6. held' = {r \in Resources : Taken(r) /\ Rank[r] < Rank[aie']}
      <3>1. CASE aie \in {"info", "version"}
        BY <2>1, <2>2, <2>3, <2>4, <3>1
      <3>2. CASE aie \notin {"info", "version"}
        BY <2>1, <2>2, <2>3, <2>5, <3>2
      <3> QED
        BY <3>1, <3>2
    <2>7. aie' # "closed" /\ aie' \in DOMAIN Entry \cup {"closed", "l2cache", "open"}
      BY <2>3 DEF Rank, Entry
    <2>8. GotInv'
      BY <2>1, <2>2, <2>3, <2>6 DEF GotInv, Taken
    <2>9. MmapTypeOK'
      BY <1>0, <2>1, <2>6, <2>7, LabelSets DEF MmapTypeOK
    <2>10. /\ held' \cap {"nndma_io", "desram", "oram", "fastio"} # {} => {"mem", "nna"} \subseteq held'
           /\ "heap" \in held' => {"ddr", "fastio"} \subseteq held'
           /\ "ddr" \in held' /\ (multiprocess' \/ ~b_use_rmem') => "kmem" \in held'
      <3>1. (aie \in DOMAIN Rank)'
        BY <2>3 DEF Rank
      <3>2. (aie \in DOMAIN Rank /\ GotInv =>
               /\ held \cap {"nndma_io", "desram", "oram", "fastio"} # {} => {"mem", "nna"} \subseteq held
               /\ "heap" \in held => {"ddr", "fastio"} \subseteq held
               /\ "ddr" \in held /\ (multiprocess \/ ~b_use_rmem) => "kmem" \in held)'
        BY GotNeeds, PTL
      <3> QED
        BY <2>8, <3>1, <3>2
    <2> QED
      BY <2>7, <2>8, <2>9, <2>10 DEF MmapInv, NothingLeft
  <1>3. CASE MmapFails
    <2>1. /\ aie \in DOMAIN Rank \ {"open", "l2cache"} /\ aie # "closed"
          /\ UNCHANGED <<b_use_rmem, multiprocess, maps>> /\ aie' = "closed"
          /\ held' = held \ {Labels[i] : i \in Entry[aie]..10}
          /\ ended' = IF aie = "version" THEN "version" ELSE "failed"
      BY <1>3, LabelSets DEF MmapFails, Rank, Entry
    <2>2. \A r : r \in held <=> r \in Resources /\ Taken(r) /\ Rank[r] < Rank[aie]
      BY <2>1 DEF MmapInv, GotInv
    <2>3. CASE aie = "version"
      <3>1. held' = held
        BY <2>1, <2>3, LabelSets DEF Entry
      <3> QED
        BY <1>0, <2>1, <2>3, <3>1 DEF MmapInv, NothingLeft, GotInv, MmapTypeOK
    <2>4. CASE aie # "version"
      <3>1. held' = {}
        <4> USE LabelSets DEF Rank, Entry, Resources, Taken
        <4>1. CASE aie \in {"mem", "nna", "nnalock", "nndma_io"}
          BY <2>1, <2>2, <4>1
        <4>2. CASE aie \in {"desram", "oram", "info", "kmem"}
          BY <2>1, <2>2, <4>2
        <4>3. CASE aie \in {"ddr", "fastio", "heap"}
          BY <2>1, <2>2, <4>3
        <4> QED
          BY <2>1, <2>4, <4>1, <4>2, <4>3
      <3> QED
        BY <1>0, <2>1, <2>4, <3>1 DEF MmapInv, NothingLeft, GotInv, MmapTypeOK
    <2> QED
      BY <2>3, <2>4
  <1>4. CASE Munmap
    <2>1. /\ aie = "open" /\ aie' = "closed" /\ ended' = "unmapped"
          /\ UNCHANGED <<b_use_rmem, multiprocess, maps>>
          /\ held' = held \ (UnmapFirst \cup {"kmem"} \cup UnmapLast)
      BY <1>4 DEF Munmap
    <2>2. held \subseteq Resources
      BY <2>1 DEF MmapInv, GotInv
    <2>3. /\ held' \subseteq {"l2cache", "ddr"} /\ held' \subseteq held
          /\ "ddr" \in held' => multiprocess \/ ~b_use_rmem
      BY <2>1, <2>2 DEF UnmapFirst, UnmapLast, Resources
    <2> QED
      BY <1>0, <2>1, <2>3 DEF MmapInv, NothingLeft, GotInv, MmapTypeOK
  <1>5. CASE MunmapFails
    <2>1. /\ aie = "open" /\ aie' = "closed" /\ ended' = "uninit"
          /\ UNCHANGED <<b_use_rmem, multiprocess, maps>>
          /\ held' = held \ {"heap", "fastio"}
      BY <1>5 DEF MunmapFails, UnmapFirst
    <2>2. MmapTypeOK'
      BY <1>0, <2>1 DEF MmapTypeOK
    <2> QED
      BY <2>1, <2>2 DEF MmapInv, NothingLeft, GotInv
  <1>6. CASE UNCHANGED mmapVars
    BY <1>6 DEF mmapVars, MmapInv, GotInv, Taken, NothingLeft, MmapTypeOK
  <1> QED
    BY <1>1, <1>2, <1>3, <1>4, <1>5, <1>6 DEF MmapNext

\* Whatever step of __aie_mmap fails it leaves nothing behind, except a lost
\* version call; nothing outlives what it was made with.
THEOREM MmapLeavesNothing == MmapSpec => []NothingLeft
  <1>1. MmapInv => NothingLeft
    BY DEF MmapInv
  <1> QED
    BY <1>1, MmapStarts, MmapKeeps, PTL DEF MmapSpec

-----------------------------------------------------------------------------
(* The user driver of the AIP: ingenic_aip_init, ingenic_aip_deinit and    *)
(* the calls that process boxes.                                           *)

\* The count and the initialisations in effect, as long as no deinit ran
\* among several: a failed initialisation may leave the count one too high.
InitsInv == IsFiniteSet(Inits) /\ Cardinality(Inits) <= MaxOpens

CountInv ==
  "nested" \notin cause =>
    /\ open_cnt <= Cardinality(Inits) + 1
    /\ open_cnt = 0 => Inits = {}
    /\ "nomem" \notin cause => open_cnt <= Cardinality(Inits)

\* Who is in a call has an initialisation and, unless an error was ignored,
\* the mutex of the channel.
CallInv ==
  \A u \in Users : at[u].pc # "idle" =>
    /\ opened[u] > 0 /\ at[u].call \in Calls
    /\ at[u].pc = "nodes" => at[u].call # "covert"
    /\ "ignored" \notin cause => mutex[Chan(u)] = u

\* No array of nodes is freed while an initialisation is in effect.
NodesInv ==
  cause \cap {"nested", "nomem"} = {} /\ Inits # {} => \A a \in Arrays : nodes[a].mem # "freed"

\* Only a device that cannot be opened frees a manager and keeps the pointer.
ManagersInv == "noopen" \notin cause => \A c \in Channels : manage[c].mem # "freed"

\* The registers were mapped, or that failed.
RegsInv == Inits # {} /\ cause \cap {"nested", "nomem"} = {} => io # "no"

ManagerSet == [mem : Memory, fd : {"no", "open", "closed"}, fd_open_cnt : {-1, 0, 1},
               size : 0..MaxBoxes \cup 0..MaxBuf, buf : -1..MaxBuf]

Running == {"check", "start", "wait", "step"}

AtSet == [pc : Running \cup {"idle", "nodes", "init"}, call : Calls \cup {"none"},
          box_num : 0..MaxBoxes]

\* fd_open_cnt tells the truth.
Truthful(m, why) == m.fd_open_cnt # 0 => m.fd = "open" \/ why \cap {"toomany", "nomem"} # {}

\* A call that got past the opening has the file of its channel, and before
\* it looks at chain_buf_size the size of its chain.
FilesInv ==
  /\ \A c \in Channels : Truthful(manage[c], cause)
  /\ cause \cap {"nested", "toomany", "ignored", "nomem"} = {} =>
       \A u \in Users : at[u].pc \in Running /\ manage[Chan(u)].mem = "live" =>
         manage[Chan(u)].fd = "open"

Ready(m, n) == m.mem = "live" /\ m.fd_open_cnt # 0 /\ n <= m.size

CheckInv ==
  cause \cap {"nested", "ignored"} = {} =>
    \A u \in Users : at[u].pc = "check" => Ready(manage[Chan(u)], at[u].box_num)

\* What will be given back and unmapped.
Accounted(m, why) ==
  /\ m.fd_open_cnt < 0 => "nomem" \in why
  /\ m.fd_open_cnt > 0 =>
    /\ m.buf > 0 /\ m.size = 0 => "zero" \in why
    /\ m.size < m.buf => "fewer" \in why
    /\ m.buf = 0 /\ m.fd # "closed" => "zero" \in why

\* chain_buf_size is the size of every mapped chain buffer, and only a call
\* with no or with fewer boxes makes the driver forget a buffer or a part.
BufferCauses == {"sizes", "nommap", "toomany", "nomem"}

BuffersInv ==
  /\ cause \cap BufferCauses = {} =>
       \A c \in Channels : manage[c].fd_open_cnt # 0 => manage[c].buf = chain_buf_size
  /\ \A c \in Channels : Accounted(manage[c], cause)

AipInv ==
  /\ AipUsesLive /\ OpenIsReady /\ InitsInv /\ CountInv /\ CallInv /\ NodesInv
  /\ ManagersInv /\ RegsInv /\ FilesInv /\ CheckInv /\ BuffersInv

LEMMA AipStarts == AipInit => AipInv
  <1> SUFFICES ASSUME AipInit PROVE AipInv
    OBVIOUS
  <1> USE AipAssumption DEF AipInit
  <1>1. Inits = {}
    BY DEF Inits
  <1>2. Cardinality(Inits) = 0 /\ IsFiniteSet(Inits)
    BY <1>1, FS_EmptySet
  <1>3. AipTypeOK
    <2>1. Manager("null") \in ManagerSet
      BY DEF Manager, ManagerSet, Memory
    <2> QED
      BY <2>1 DEF AipTypeOK, ManagerSet, Memory, Idle
  <1>4. \A c \in Channels : manage[c].fd_open_cnt = 0
    BY DEF Manager
  <1>5. \A u \in Users : at[u].pc = "idle"
    BY DEF Idle
  <1> QED
    BY <1>1, <1>2, <1>3, <1>4, <1>5
       DEF AipInv, AipUsesLive, OpenIsReady, InitsInv, CountInv, CallInv, NodesInv, ManagersInv,
           RegsInv, FilesInv, Truthful, CheckInv, BuffersInv, Accounted, Running, Manager

-----------------------------------------------------------------------------
(* Counting the initialisations.                                           *)

\* A user's own initialisations are among all.
LEMMA OwnInits ==
  ASSUME AipTypeOK, InitsInv, NEW u \in Users
  PROVE  /\ opened[u] <= Cardinality(Inits)
         /\ opened[u] > 0 => Inits # {} /\ Cardinality(Inits) >= 1
  <1>1. opened[u] \in 0..MaxOpens /\ MaxOpens \in Nat
    BY AipAssumption DEF AipTypeOK
  <1> DEFINE own == 1..opened[u]
             f == [i \in own |-> <<u, i>>]
  <1>2. IsFiniteSet(own) /\ Cardinality(own) = opened[u]
    <2>1. opened[u] \in Int /\ 1 \in Int
      BY <1>1
    <2>2. /\ IsFiniteSet(1..opened[u])
          /\ Cardinality(1..opened[u]) = IF 1 > opened[u] THEN 0 ELSE opened[u] - 1 + 1
      BY <2>1, FS_Interval
    <2> QED
      BY <1>1, <2>2
  <1>3. \A i \in own : <<u, i>> \in Inits
    BY <1>1 DEF Inits
  <1>4. f \in Injection(own, Inits)
    BY <1>3 DEF Injection, IsInjective
  <1>5. Cardinality(own) <= Cardinality(Inits)
    BY <1>4, FS_Injection DEF InitsInv
  <1>6. Cardinality(Inits) \in Nat
    BY FS_CardinalityType DEF InitsInv
  <1>7. opened[u] > 0 => Inits # {}
    <2>1. opened[u] > 0 => 1 \in own
      BY <1>1
    <2> QED
      BY <1>3, <2>1
  <1> QED
    BY <1>1, <1>2, <1>5, <1>6, <1>7

\* One more initialisation.
LEMMA InitsUp ==
  ASSUME AipTypeOK, InitsInv, NEW u \in Users, Cardinality(Inits) < MaxOpens,
         opened' = [opened EXCEPT ![u] = @ + 1]
  PROVE  /\ Cardinality(Inits') = Cardinality(Inits) + 1 /\ InitsInv'
         /\ opened' \in [Users -> 0..MaxOpens] /\ \A v \in Users : opened[v] <= opened'[v]
  <1>0. /\ MaxOpens \in Nat /\ opened \in [Users -> 0..MaxOpens] /\ Cardinality(Inits) \in Nat
        /\ IsFiniteSet(Inits)
    BY AipAssumption, FS_CardinalityType DEF AipTypeOK, InitsInv
  <1>1. opened[u] + 1 \in 1..MaxOpens
    BY <1>0, OwnInits
  <1>2. /\ opened' \in [Users -> 0..MaxOpens] /\ \A v \in Users : opened[v] <= opened'[v]
        /\ opened'[u] = opened[u] + 1 /\ \A v \in Users : v # u => opened'[v] = opened[v]
    BY <1>0, <1>1
  <1> DEFINE w == <<u, opened[u] + 1>>
  <1>3. w \in Users \X (1..MaxOpens) /\ w \notin Inits
    BY <1>0, <1>1 DEF Inits
  <1>4. Inits' = Inits \cup {w}
    <2>1. \A x \in Users \X (1..MaxOpens) : x[2] <= opened'[x[1]] <=> x[2] <= opened[x[1]] \/ x = w
      <3> SUFFICES ASSUME NEW v \in Users, NEW i \in 1..MaxOpens
                   PROVE  i <= opened'[v] <=> i <= opened[v] \/ <<v, i>> = w
        OBVIOUS
      <3>1. opened[v] \in 0..MaxOpens /\ MaxOpens \in Nat
        BY <1>0
      <3>2. CASE v = u
        BY <1>2, <3>1, <3>2
      <3>3. CASE v # u
        BY <1>2, <3>1, <3>3
      <3> QED
        BY <3>2, <3>3
    <2> QED
      BY <1>3, <2>1 DEF Inits
  <1> HIDE DEF w
  <1>5. IsFiniteSet(Inits \cup {w}) /\ Cardinality(Inits \cup {w}) = Cardinality(Inits) + 1
    BY <1>0, <1>3, FS_AddElement
  <1> QED
    BY <1>0, <1>2, <1>4, <1>5 DEF InitsInv

\* One less.
LEMMA InitsDown ==
  ASSUME AipTypeOK, InitsInv, NEW u \in Users, opened[u] > 0,
         opened' = [opened EXCEPT ![u] = @ - 1]
  PROVE  /\ Cardinality(Inits') = Cardinality(Inits) - 1 /\ InitsInv'
         /\ opened' \in [Users -> 0..MaxOpens] /\ \A v \in Users : v # u => opened'[v] = opened[v]
  <1>0. /\ MaxOpens \in Nat /\ opened \in [Users -> 0..MaxOpens] /\ Cardinality(Inits) \in Nat
        /\ IsFiniteSet(Inits)
    BY AipAssumption, FS_CardinalityType DEF AipTypeOK, InitsInv
  <1>1. opened[u] \in 1..MaxOpens
    BY <1>0
  <1>2. /\ opened' \in [Users -> 0..MaxOpens]
        /\ opened'[u] = opened[u] - 1 /\ \A v \in Users : v # u => opened'[v] = opened[v]
    BY <1>0, <1>1
  <1> DEFINE w == <<u, opened[u]>>
  <1>3. w \in Inits
    BY <1>0, <1>1 DEF Inits
  <1>4. Inits' = Inits \ {w}
    <2>1. \A x \in Users \X (1..MaxOpens) : x[2] <= opened'[x[1]] <=> x[2] <= opened[x[1]] /\ x # w
      <3> SUFFICES ASSUME NEW v \in Users, NEW i \in 1..MaxOpens
                   PROVE  i <= opened'[v] <=> i <= opened[v] /\ <<v, i>> # w
        OBVIOUS
      <3>1. opened[v] \in 0..MaxOpens /\ MaxOpens \in Nat
        BY <1>0
      <3>2. CASE v = u
        BY <1>2, <3>1, <3>2
      <3>3. CASE v # u
        BY <1>2, <3>1, <3>3
      <3> QED
        BY <3>2, <3>3
    <2> QED
      BY <1>3, <2>1 DEF Inits
  <1> HIDE DEF w
  <1>5. IsFiniteSet(Inits \ {w}) /\ Cardinality(Inits \ {w}) = Cardinality(Inits) - 1
    BY <1>0, <1>3, FS_RemoveElement
  <1> QED
    BY <1>0, <1>2, <1>4, <1>5 DEF InitsInv

\* With an initialisation in effect the count is not zero, and the count does
\* not reach its width.
LEMMA CountFacts ==
  ASSUME AipTypeOK, InitsInv, CountInv, "nested" \notin cause
  PROVE  /\ Cardinality(Inits) \in Nat /\ open_cnt \in Nat
         /\ open_cnt <= Cardinality(Inits) + 1 /\ open_cnt + 1 < CountMod
         /\ (open_cnt + 1) % CountMod = open_cnt + 1
         /\ open_cnt = 0 => Inits = {} /\ \A u \in Users : opened[u] = 0
         /\ open_cnt > 0 => (open_cnt - 1) % CountMod = open_cnt - 1
         /\ "nomem" \notin cause => open_cnt <= Cardinality(Inits) /\ (open_cnt > 0 => Inits # {})
  <1>1. /\ Cardinality(Inits) \in Nat /\ open_cnt \in Nat /\ MaxOpens \in Nat /\ CountMod \in Nat
        /\ MaxOpens + 2 < CountMod /\ Cardinality(Inits) <= MaxOpens
    BY FS_CardinalityType, AipAssumption DEF AipTypeOK, InitsInv
  <1>2. open_cnt <= Cardinality(Inits) + 1 /\ open_cnt + 1 < CountMod
    BY <1>1 DEF CountInv
  <1>3. open_cnt = 0 => Inits = {} /\ \A u \in Users : opened[u] = 0
    <2>1. \A u \in Users : opened[u] \in 0..MaxOpens
      BY DEF AipTypeOK
    <2> QED
      BY <1>1, <2>1, OwnInits DEF CountInv
  <1>4. "nomem" \notin cause => open_cnt <= Cardinality(Inits) /\ (open_cnt > 0 => Inits # {})
    <2>1. Inits = {} => Cardinality(Inits) = 0
      BY FS_EmptySet
    <2> QED
      BY <1>1, <2>1 DEF CountInv
  <1>5. \A a \in Nat : a < CountMod => a % CountMod = a
    BY <1>1
  <1> QED
    BY <1>1, <1>2, <1>3, <1>4, <1>5

\* ingenic_aip_init, by a user that is not the first.
LEMMA StepInitMore ==
  ASSUME AipInv, NEW u \in Users, ingenic_aip_init(u), open_cnt' > 1
  PROVE  AipInv'
  <1>0. /\ AipTypeOK /\ InitsInv /\ CountInv
    BY DEF AipInv, AipUsesLive
  <1>1. /\ open_cnt' = (open_cnt + 1) % CountMod /\ opened' = [opened EXCEPT ![u] = @ + 1]
        /\ Cardinality(Inits) < MaxOpens
        /\ UNCHANGED <<manage, io, nodes, cause, chain_buf_size, mutex, at, lost, harm>>
    BY DEF ingenic_aip_init
  <1>2. /\ Cardinality(Inits') = Cardinality(Inits) + 1 /\ InitsInv'
        /\ opened' \in [Users -> 0..MaxOpens] /\ \A v \in Users : opened[v] <= opened'[v]
    BY <1>0, <1>1, InitsUp
  <1>3. open_cnt' \in 0..CountMod - 1
    BY <1>0, <1>1, AipAssumption DEF AipTypeOK
  <1>4. AipUsesLive'
    BY <1>1, <1>2, <1>3 DEF AipInv, AipUsesLive, AipTypeOK
  <1>5. CountInv' /\ ("nested" \notin cause => open_cnt > 0)
    BY <1>0, <1>1, <1>2, CountFacts DEF CountInv
  <1>6. cause \cap {"nested", "nomem"} = {} => Inits # {}
    BY <1>0, <1>5, CountFacts
  <1>7. OpenIsReady' /\ NodesInv' /\ RegsInv'
    BY <1>1, <1>6 DEF AipInv, OpenIsReady, NodesInv, RegsInv
  <1>8. CallInv'
    <2>1. \A v \in Users : opened[v] \in Nat /\ opened'[v] \in Nat
      BY <1>0, <1>2, AipAssumption DEF AipTypeOK
    <2> QED
      BY <1>1, <1>2, <2>1 DEF AipInv, CallInv, Chan
  <1>9. ManagersInv' /\ FilesInv' /\ CheckInv' /\ BuffersInv'
    BY <1>1 DEF AipInv, ManagersInv, FilesInv, CheckInv, BuffersInv, Chan
  <1> QED
    BY <1>2, <1>4, <1>5, <1>7, <1>8, <1>9 DEF AipInv

\* ingenic_aip_init, by the first user.
LEMMA StepInitFirst ==
  ASSUME AipInv, NEW u \in Users, ingenic_aip_init(u), ~(open_cnt' > 1)
  PROVE  AipInv'
  <1>0. /\ AipTypeOK /\ InitsInv /\ CountInv
    BY DEF AipInv, AipUsesLive
  <1>1. /\ open_cnt' = (open_cnt + 1) % CountMod /\ opened' = [opened EXCEPT ![u] = @ + 1]
        /\ Cardinality(Inits) < MaxOpens
        /\ manage' = Allocated
        /\ io' \in {"mapped", "bad"}
        /\ nodes' = [a \in Arrays |-> [mem |-> "null", size |-> 0]]
        /\ cause' \in {cause, cause \cup {"nomap"}} /\ (io' = "bad" => "nomap" \in cause')
        /\ UNCHANGED <<chain_buf_size, mutex, at, lost, harm>>
    BY DEF ingenic_aip_init, Because
  <1>2. /\ Cardinality(Inits') = Cardinality(Inits) + 1 /\ InitsInv'
        /\ opened' \in [Users -> 0..MaxOpens] /\ \A v \in Users : opened[v] <= opened'[v]
    BY <1>0, <1>1, InitsUp
  <1>3. open_cnt' \in 0..CountMod - 1
    BY <1>0, <1>1, AipAssumption DEF AipTypeOK
  <1>4. \A c \in Channels :
          /\ manage'[c].mem = (IF manage[c].mem = "null" THEN "live" ELSE manage[c].mem)
          /\ manage'[c].fd_open_cnt = 0 /\ manage'[c] \in ManagerSet
    <2> SUFFICES ASSUME NEW c \in Channels
                 PROVE  /\ manage'[c].mem = (IF manage[c].mem = "null" THEN "live" ELSE manage[c].mem)
                        /\ manage'[c].fd_open_cnt = 0 /\ manage'[c] \in ManagerSet
      OBVIOUS
    <2>1. manage'[c] = [(IF manage[c].mem = "null" THEN Manager("live") ELSE manage[c])
                                 EXCEPT !.fd_open_cnt = 0]
      BY <1>1 DEF Allocated
    <2>2. manage[c] \in ManagerSet
      BY <1>0 DEF AipTypeOK, ManagerSet
    <2>3. Manager("live") \in ManagerSet /\ Manager("live").mem = "live"
      BY AipAssumption DEF Manager, ManagerSet, Memory
    <2>4. \A m \in ManagerSet : /\ [m EXCEPT !.fd_open_cnt = 0] \in ManagerSet
                                /\ [m EXCEPT !.fd_open_cnt = 0].fd_open_cnt = 0
                                /\ [m EXCEPT !.fd_open_cnt = 0].mem = m.mem
      BY DEF ManagerSet
    <2>5. CASE manage[c].mem = "null"
      BY <2>1, <2>3, <2>4, <2>5
    <2>6. CASE manage[c].mem # "null"
      BY <2>1, <2>2, <2>4, <2>6
    <2> QED
      BY <2>5, <2>6
  <1>5. DOMAIN manage' = Channels /\ manage' = [c \in Channels |-> manage'[c]]
    BY <1>1 DEF Allocated
  <1>6. AipTypeOK'
    <2>1. nodes' \in [Arrays -> [mem : Memory, size : 0..MaxBoxes]]
      BY <1>1, AipAssumption DEF Memory
    <2>2. manage' \in [Channels -> ManagerSet]
      BY <1>4, <1>5
    <2> QED
      BY <1>0, <1>1, <1>2, <1>3, <2>1, <2>2 DEF AipTypeOK, ManagerSet
  <1>7. AipUsesLive'
    BY <1>1, <1>6 DEF AipInv, AipUsesLive
  <1>8. CountInv' /\ ("nested" \notin cause => open_cnt = 0)
    BY <1>0, <1>1, <1>2, CountFacts DEF CountInv
  <1>9. ManagersInv' /\ BuffersInv'
    BY <1>1, <1>4 DEF AipInv, ManagersInv, BuffersInv, Accounted
  <1>10. OpenIsReady' /\ RegsInv'
    <2>1. \A c \in Channels : manage'[c].mem \in Memory
      BY <1>4 DEF ManagerSet
    <2> QED
      BY <1>1, <1>4, <1>9, <2>1 DEF ManagersInv, OpenIsReady, RegsInv, Memory
  <1>11. NodesInv'
    BY <1>1 DEF NodesInv
  <1>12. CallInv'
    <2>1. \A v \in Users : opened[v] \in Nat /\ opened'[v] \in Nat
      BY <1>0, <1>2, AipAssumption DEF AipTypeOK
    <2> QED
      BY <1>1, <1>2, <2>1 DEF AipInv, CallInv, Chan
  <1>13. FilesInv' /\ CheckInv'
    <2>1. "nested" \notin cause => \A v \in Users : at[v].pc = "idle"
      BY <1>0, <1>8, CountFacts DEF AipInv, CallInv
    <2> QED
      BY <1>1, <1>4, <2>1 DEF FilesInv, CheckInv, Truthful, Running
  <1> QED
    BY <1>2, <1>7, <1>8, <1>9, <1>10, <1>11, <1>12, <1>13 DEF AipInv

LEMMA StepInitNoMemory ==
  ASSUME AipInv, NEW u \in Users, InitNoMemory(u)
  PROVE  AipInv'
  <1>0. /\ AipTypeOK /\ InitsInv /\ CountInv
    BY DEF AipInv, AipUsesLive
  <1>1. /\ (open_cnt + 1) % CountMod <= 1 /\ open_cnt' = (open_cnt + 1) % CountMod
        /\ cause' = cause \cup {"nomem"}
        /\ UNCHANGED <<io, chain_buf_size, nodes, mutex, at, opened, lost, harm>>
    BY DEF InitNoMemory, Because
  <1>2. PICK got \in SUBSET {"p", "f"}, found \in [{"p", "f"} -> -1..1] :
          manage' = [c \in Channels |->
            IF c \in got /\ manage[c].mem = "null"
            THEN [Manager("live") EXCEPT !.fd = "closed", !.fd_open_cnt = found[c]]
            ELSE manage[c]]
    BY DEF InitNoMemory
  <1> DEFINE Garbage == {m \in ManagerSet : m.mem = "live" /\ m.fd = "closed" /\ m.buf = 0 /\ m.size = 0}
  <1>3. \A c \in Channels : manage'[c] = manage[c] \/ manage'[c] \in Garbage
    <2>1. ASSUME NEW k \in -1..1
          PROVE  [Manager("live") EXCEPT !.fd = "closed", !.fd_open_cnt = k] \in Garbage
      <3>1. 0 \in 0..MaxBoxes /\ 0 \in -1..MaxBuf /\ k \in {-1, 0, 1}
        BY AipAssumption
      <3> QED
        BY <3>1 DEF Manager, ManagerSet, Memory
    <2>2. \A c \in got : found[c] \in -1..1
      BY <1>2
    <2> QED
      BY <1>2, <2>1, <2>2
  <1>5. AipUsesLive'
    <2>1. open_cnt' \in 0..CountMod - 1
      BY <1>0, <1>1, AipAssumption DEF AipTypeOK
    <2>2. manage' \in [Channels -> ManagerSet]
      <3>1. manage' = [c \in Channels |-> manage'[c]]
        BY <1>2
      <3>2. \A c \in Channels : manage[c] \in ManagerSet
        BY <1>0 DEF AipTypeOK, ManagerSet
      <3> QED
        BY <1>3, <3>1, <3>2
    <2>3. AipTypeOK'
      BY <1>0, <1>1, <2>1, <2>2 DEF AipTypeOK, ManagerSet
    <2> QED
      BY <1>1, <2>3 DEF AipInv, AipUsesLive
  <1>6. Inits' = Inits
    BY <1>1 DEF Inits
  <1>7. InitsInv' /\ CountInv' /\ ("nested" \notin cause => open_cnt = 0)
    BY <1>0, <1>1, <1>6, CountFacts DEF InitsInv, CountInv
  <1>8. CallInv' /\ NodesInv' /\ OpenIsReady' /\ RegsInv'
    BY <1>1 DEF AipInv, CallInv, NodesInv, OpenIsReady, RegsInv, Chan
  <1>9. ManagersInv' /\ BuffersInv'
    BY <1>1, <1>3 DEF AipInv, ManagersInv, BuffersInv, BufferCauses, Accounted
  <1>10. FilesInv' /\ CheckInv'
    <2>1. "nested" \notin cause => \A v \in Users : at[v].pc = "idle"
      BY <1>0, <1>7, CountFacts DEF AipInv, CallInv
    <2> QED
      BY <1>1, <2>1 DEF FilesInv, CheckInv, Truthful, Running
  <1> QED
    BY <1>5, <1>7, <1>8, <1>9, <1>10 DEF AipInv

\* ingenic_aip_deinit, by a user that is not the last.
LEMMA StepDeinitMore ==
  ASSUME AipInv, NEW u \in Users, ingenic_aip_deinit(u), (open_cnt - 1) % CountMod > 1
  PROVE  AipInv'
  <1>0. /\ AipTypeOK /\ InitsInv /\ CountInv
    BY DEF AipInv, AipUsesLive
  <1>1. /\ at[u].pc = "idle" /\ opened[u] > 0
        /\ open_cnt' = ((open_cnt - 1) % CountMod) - 1 /\ opened' = [opened EXCEPT ![u] = @ - 1]
        /\ UNCHANGED <<manage, io, nodes, cause, chain_buf_size, mutex, at, lost, harm>>
    BY DEF ingenic_aip_deinit
  <1>2. /\ Cardinality(Inits') = Cardinality(Inits) - 1 /\ InitsInv'
        /\ opened' \in [Users -> 0..MaxOpens] /\ \A v \in Users : v # u => opened'[v] = opened[v]
    BY <1>0, <1>1, InitsDown
  <1>3. open_cnt' \in 0..CountMod - 1
    BY <1>0, <1>1, AipAssumption DEF AipTypeOK
  <1>4. AipUsesLive'
    BY <1>1, <1>2, <1>3 DEF AipInv, AipUsesLive, AipTypeOK
  <1>5. Inits # {}
    BY <1>0, <1>1, OwnInits
  <1>6. CountInv'
    <2>1. "nested" \notin cause => open_cnt > 0 /\ open_cnt' = open_cnt - 2 /\ open_cnt' > 0
      BY <1>0, <1>1, <1>5, CountFacts
    <2> QED
      BY <1>0, <1>1, <1>2, <2>1, CountFacts DEF CountInv
  <1>7. OpenIsReady' /\ NodesInv' /\ RegsInv'
    BY <1>1, <1>5 DEF AipInv, OpenIsReady, NodesInv, RegsInv
  <1>8. CallInv'
    BY <1>1, <1>2 DEF AipInv, CallInv, Chan
  <1>9. ManagersInv' /\ FilesInv' /\ CheckInv' /\ BuffersInv'
    BY <1>1 DEF AipInv, ManagersInv, FilesInv, CheckInv, BuffersInv, Chan
  <1> QED
    BY <1>2, <1>4, <1>6, <1>7, <1>8, <1>9 DEF AipInv

\* ingenic_aip_deinit that cleans up.
LEMMA StepDeinitLast ==
  ASSUME AipInv, NEW u \in Users, ingenic_aip_deinit(u), ~((open_cnt - 1) % CountMod > 1)
  PROVE  AipInv'
  <1>0. /\ AipTypeOK /\ InitsInv /\ CountInv
    BY DEF AipInv, AipUsesLive
  <1>1. /\ at[u].pc = "idle" /\ opened[u] > 0
        /\ open_cnt' = (open_cnt - 1) % CountMod /\ opened' = [opened EXCEPT ![u] = @ - 1]
        /\ cause' = cause \cup (IF Cardinality(Inits) > 1 THEN {"nested"} ELSE {})
        /\ UNCHANGED <<chain_buf_size, mutex, at>>
        /\ (harm' = DeinitHarm \/ (io = "no" /\ manage["p"].mem = "live" /\ harm' = "unmap"))
        /\ io' = "no"
        /\ lost' = lost \cup {<<c, "buffer">> : c \in {d \in Channels : Kept(d)}}
                        \cup {<<c, "mapping">> : c \in {d \in Channels : Cut(d)}}
        /\ manage' = [c \in Channels |-> Manager("null")]
        /\ nodes' = [a \in Arrays |->
              IF nodes[a].mem = "live" THEN [nodes[a] EXCEPT !.mem = "freed"] ELSE nodes[a]]
    BY DEF ingenic_aip_deinit, Cleanup, Because
  <1>2. /\ Cardinality(Inits') = Cardinality(Inits) - 1 /\ InitsInv'
        /\ opened' \in [Users -> 0..MaxOpens] /\ \A v \in Users : v # u => opened'[v] = opened[v]
    BY <1>0, <1>1, InitsDown
  <1>3. Inits # {} /\ Cardinality(Inits) \in Nat /\ Cardinality(Inits) >= 1
    BY <1>0, <1>1, OwnInits, FS_CardinalityType DEF InitsInv
  <1>4. "nested" \notin cause' =>
           /\ "nested" \notin cause /\ Cardinality(Inits) = 1 /\ Inits' = {}
           /\ \A v \in Users : at[v].pc = "idle"
    <2> SUFFICES ASSUME "nested" \notin cause'
                 PROVE  /\ "nested" \notin cause /\ Cardinality(Inits) = 1 /\ Inits' = {}
                        /\ \A v \in Users : at[v].pc = "idle"
      OBVIOUS
    <2>1. "nested" \notin cause /\ Cardinality(Inits) = 1
      BY <1>1, <1>3
    <2>2. IsFiniteSet(Inits') /\ Cardinality(Inits') = 0
      BY <1>2, <2>1 DEF InitsInv
    <2>3. Inits' = {}
      BY <2>2, FS_EmptySet
    <2>4. \A v \in Users : opened'[v] = 0
      <3> SUFFICES ASSUME NEW v \in Users, opened'[v] # 0 PROVE FALSE
        OBVIOUS
      <3>1. opened'[v] \in 1..MaxOpens /\ 1 \in 1..MaxOpens
        BY <1>2, AipAssumption
      <3>2. <<v, 1>> \in Inits'
        BY <3>1 DEF Inits
      <3> QED
        BY <2>3, <3>2
    <2>5. \A v \in Users : v # u => opened[v] = 0
      BY <1>2, <2>4
    <2> QED
      BY <1>1, <2>1, <2>3, <2>5 DEF AipInv, CallInv
  <1>5. DeinitHarm \in {"none", "nodes", "null", "manage", "fd", "unmap"}
    BY DEF DeinitHarm
  <1>6. AipTypeOK'
    <2>1. open_cnt' \in 0..CountMod - 1
      BY <1>0, <1>1, AipAssumption DEF AipTypeOK
    <2>2. manage' \in [Channels -> ManagerSet]
      <3>1. Manager("null") \in ManagerSet
        BY AipAssumption DEF Manager, ManagerSet, Memory
      <3> QED
        BY <1>1, <3>1
    <2>3. nodes' \in [Arrays -> [mem : Memory, size : 0..MaxBoxes]]
      BY <1>0, <1>1 DEF AipTypeOK, Memory
    <2>4. lost' \subseteq Channels \X {"buffer", "mapping"}
      BY <1>0, <1>1 DEF AipTypeOK
    <2> QED
      BY <1>0, <1>1, <1>2, <1>5, <2>1, <2>2, <2>3, <2>4 DEF AipTypeOK, ManagerSet
  <1>7. /\ DeinitHarm = "fd" => cause \cap {"toomany", "nomem"} # {}
        /\ DeinitHarm = "unmap" => "zero" \in cause
    <2>1. DeinitHarm = "fd" => \E c \in Channels : manage[c].fd_open_cnt > 0 /\ manage[c].fd = "closed"
      BY DEF DeinitHarm, Opened
    <2>2. DeinitHarm = "unmap" =>
            \E c \in Channels : manage[c].fd_open_cnt > 0 /\ manage[c].fd = "open" /\ manage[c].buf = 0
      BY DEF DeinitHarm, Opened
    <2> QED
      BY <2>1, <2>2 DEF AipInv, FilesInv, Truthful, BuffersInv, Accounted
  <1>8. /\ DeinitHarm \in {"nodes", "null", "manage"} => cause' \cap {"nested", "noopen", "nomem"} # {}
        /\ io = "no" => cause \cap {"nested", "nomem"} # {}
    <2>1. DeinitHarm \in {"nodes", "null", "manage"} =>
            \/ \E a \in Arrays : nodes[a].mem = "freed"
            \/ \E c \in Channels : manage[c].mem \in {"null", "freed"}
            \/ \E v \in Users : at[v].pc = "check"
      BY DEF DeinitHarm, Channels
    <2>2. (\E v \in Users : at[v].pc = "check") => "nested" \in cause'
      BY <1>4
    <2> QED
      BY <1>1, <1>3, <2>1, <2>2 DEF AipInv, NodesInv, OpenIsReady, RegsInv
  <1>9. \A c \in Channels : /\ <<c, "buffer">> \in lost' => "zero" \in cause
                            /\ <<c, "mapping">> \in lost' => "fewer" \in cause
    <2> SUFFICES ASSUME NEW c \in Channels
                 PROVE  /\ <<c, "buffer">> \in lost' => "zero" \in cause
                        /\ <<c, "mapping">> \in lost' => "fewer" \in cause
      OBVIOUS
    <2>1. /\ <<c, "buffer">> \in lost' => <<c, "buffer">> \in lost \/ Kept(c)
          /\ <<c, "mapping">> \in lost' => <<c, "mapping">> \in lost \/ Cut(c)
      BY <1>1
    <2>2. /\ <<c, "buffer">> \in lost => "zero" \in cause
          /\ <<c, "mapping">> \in lost => "fewer" \in cause
      BY DEF AipInv, AipUsesLive
    <2>3. (Kept(c) => "zero" \in cause) /\ (Cut(c) => "fewer" \in cause)
      BY DEF AipInv, BuffersInv, Accounted, Kept, Cut, Opened
    <2> QED
      BY <2>1, <2>2, <2>3
  <1>10. AipUsesLive'
    <2>1. cause \subseteq cause' /\ (cause' \cap {"nomem", "nested"} = {} => cause \cap {"nomem", "nested"} = {})
      BY <1>1
    <2>2. cause' \cap {"nomem", "nested"} = {} =>
            /\ harm' \in {"nodes", "null", "manage"} => cause' \cap {"noopen", "ignored"} # {}
            /\ harm' = "fd" => cause' \cap {"toomany", "ignored"} # {}
            /\ harm' = "unmap" => "zero" \in cause'
            /\ harm' \notin {"overflow", "io"}
      BY <1>1, <1>5, <1>7, <1>8, <2>1
    <2>3. \A c \in Channels : /\ <<c, "buffer">> \in lost' => "zero" \in cause'
                              /\ <<c, "mapping">> \in lost' => "fewer" \in cause'
      BY <1>9, <2>1
    <2> QED
      BY <1>6, <2>2, <2>3 DEF AipUsesLive
  <1>11. CountInv'
    <2>1. "nested" \notin cause' => Cardinality(Inits') = 0 /\ open_cnt > 0 /\ open_cnt' = open_cnt - 1
      BY <1>0, <1>1, <1>2, <1>3, <1>4, CountFacts
    <2> QED
      BY <1>0, <1>1, <1>4, <2>1, CountFacts DEF CountInv
  <1>12. OpenIsReady' /\ NodesInv' /\ RegsInv'
    BY <1>4 DEF OpenIsReady, NodesInv, RegsInv
  <1>13. CallInv'
    BY <1>1, <1>2 DEF AipInv, CallInv, Chan
  <1>14. ManagersInv' /\ BuffersInv'
    BY <1>1 DEF ManagersInv, BuffersInv, Accounted, Manager
  <1>15. FilesInv' /\ CheckInv'
    <2>1. \A c \in Channels : manage'[c].fd_open_cnt = 0
      BY <1>1 DEF Manager
    <2>2. "nested" \notin cause' => \A v \in Users : at'[v].pc = "idle"
      BY <1>1, <1>4
    <2> QED
      BY <2>1, <2>2 DEF FilesInv, CheckInv, Truthful, Running
  <1> QED
    BY <1>2, <1>10, <1>11, <1>12, <1>13, <1>14, <1>15 DEF AipInv

-----------------------------------------------------------------------------
(* The calls.                                                              *)

\* What a call in progress can rely on.
LEMMA InCallFacts ==
  ASSUME AipInv, NEW u \in Users, at[u].pc # "idle"
  PROVE  /\ AipTypeOK /\ at[u] \in AtSet /\ at[u].call \in Calls /\ Chan(u) \in Channels
         /\ manage[Chan(u)] \in ManagerSet /\ opened[u] > 0 /\ Inits # {}
         /\ "ignored" \notin cause =>
              /\ mutex[Chan(u)] = u
              /\ \A v \in Users : v # u /\ at[v].pc # "idle" => Chan(v) # Chan(u)
  <1>1. AipTypeOK /\ InitsInv
    BY DEF AipInv, AipUsesLive
  <1>2. at[u] \in AtSet /\ at[u].call \in Calls /\ opened[u] > 0
    BY <1>1 DEF AipInv, CallInv, AipTypeOK, AtSet, Running
  <1>3. Chan(u) \in Channels
    BY <1>2 DEF Chan, Calls, ChannelOf, Channels
  <1>4. Inits # {}
    BY <1>1, <1>2, OwnInits
  <1>5. manage[Chan(u)] \in ManagerSet
    BY <1>1, <1>3 DEF AipTypeOK, ManagerSet
  <1>6. "ignored" \notin cause => /\ mutex[Chan(u)] = u
              /\ \A v \in Users : v # u /\ at[v].pc # "idle" => Chan(v) # Chan(u)
    BY DEF AipInv, CallInv
  <1> QED
    BY <1>1, <1>2, <1>3, <1>4, <1>5, <1>6

\* Steps that leave the count alone.
LEMMA CountStays ==
  ASSUME AipInv, UNCHANGED <<open_cnt, opened>>, cause \subseteq cause'
  PROVE  Inits' = Inits /\ InitsInv' /\ CountInv' /\ (UNCHANGED nodes => NodesInv')
  <1>1. Inits' = Inits
    BY DEF Inits
  <1> QED
    BY <1>1 DEF AipInv, InitsInv, CountInv, NodesInv

\* A call goes on with the mutex, ends and unlocks, or goes on without the
\* mutex after an error that the program ignored.
LEMMA CallStays ==
  ASSUME AipInv, NEW u \in Users, at[u].pc # "idle", NEW x \in AtSet,
         at' = [at EXCEPT ![u] = x], UNCHANGED opened, cause \subseteq cause',
         \/ x.pc # "nodes" /\ x.call = at[u].call /\ UNCHANGED mutex
         \/ x.pc = "idle" /\ mutex' = [mutex EXCEPT ![Chan(u)] = NoUser]
         \/ x.pc # "nodes" /\ x.call = at[u].call /\ "ignored" \in cause'
  PROVE  CallInv'
  <1>1. /\ AipTypeOK /\ at[u].call \in Calls /\ opened[u] > 0
        /\ "ignored" \notin cause =>
              /\ mutex[Chan(u)] = u
              /\ \A v \in Users : v # u /\ at[v].pc # "idle" => Chan(v) # Chan(u)
    BY InCallFacts
  <1>2. at'[u] = x /\ \A v \in Users : v # u => at'[v] = at[v]
    BY <1>1 DEF AipTypeOK
  <1>3. \A v \in Users : v # u => Chan(v)' = Chan(v)
    BY <1>2 DEF Chan
  <1>4. x.call = at[u].call => Chan(u)' = Chan(u)
    BY <1>2 DEF Chan
  <1>5. ASSUME NEW v \in Users, at'[v].pc # "idle"
        PROVE  /\ opened'[v] > 0 /\ at'[v].call \in Calls
               /\ at'[v].pc = "nodes" => at'[v].call # "covert"
               /\ "ignored" \notin cause' => mutex'[Chan(v)'] = v
    <2>1. CASE v = u
      BY <1>1, <1>2, <1>4, <1>5, <2>1
    <2>2. CASE v # u
      <3>1. at'[v] = at[v] /\ at[v].pc # "idle" /\ Chan(v)' = Chan(v)
        BY <1>2, <1>3, <1>5, <2>2
      <3>2. /\ opened'[v] > 0 /\ at'[v].call \in Calls
            /\ at'[v].pc = "nodes" => at'[v].call # "covert"
            /\ "ignored" \notin cause => mutex[Chan(v)] = v
        BY <3>1 DEF AipInv, CallInv
      <3>3. "ignored" \notin cause' => mutex'[Chan(v)] = v
        <4>1. Chan(v) \in Channels /\ mutex \in [Channels -> Users \cup {NoUser}]
          BY <1>1, <3>1, InCallFacts DEF AipTypeOK
        <4> QED
          BY <1>1, <2>2, <3>1, <3>2, <4>1
      <3> QED
        BY <3>1, <3>2, <3>3
    <2> QED
      BY <2>1, <2>2
  <1> QED
    BY <1>5 DEF CallInv

\* Steps that leave the managers alone.
LEMMA ManagersStay ==
  ASSUME AipInv, NEW u \in Users, NEW x \in AtSet,
         at' = [at EXCEPT ![u] = x], UNCHANGED <<open_cnt, io, opened, manage, chain_buf_size>>,
         cause \subseteq cause', x.pc # "check",
         \/ x.pc \notin Running
         \/ at[u].pc \in Running /\ x.call = at[u].call
         \/ "ignored" \in cause'
  PROVE  ManagersInv' /\ RegsInv' /\ FilesInv' /\ CheckInv' /\ BuffersInv' /\ OpenIsReady'
  <1>1. AipTypeOK
    BY DEF AipInv, AipUsesLive
  <1>2. at'[u] = x /\ \A v \in Users : v # u => at'[v] = at[v]
    BY <1>1 DEF AipTypeOK
  <1>3. \A v \in Users : v # u => Chan(v)' = Chan(v)
    BY <1>2 DEF Chan
  <1>4. x.call = at[u].call => Chan(u)' = Chan(u)
    BY <1>2 DEF Chan
  <1>5. ManagersInv' /\ RegsInv' /\ OpenIsReady'
    BY CountStays DEF AipInv, ManagersInv, RegsInv, OpenIsReady
  <1>6. BuffersInv' /\ \A c \in Channels : Truthful(manage[c], cause)'
    BY DEF AipInv, BuffersInv, FilesInv, Accounted, Truthful
  <1>7. FilesInv'
    <2>1. ASSUME cause' \cap {"nested", "toomany", "ignored", "nomem"} = {}, NEW v \in Users,
                 at'[v].pc \in Running
          PROVE  at[v].pc \in Running /\ Chan(v)' = Chan(v)
      BY <1>2, <1>3, <1>4, <2>1
    <2>2. cause' \cap {"nested", "toomany", "ignored", "nomem"} = {} =>
            cause \cap {"nested", "toomany", "ignored", "nomem"} = {}
      OBVIOUS
    <2> QED
      BY <1>6, <2>1, <2>2 DEF AipInv, FilesInv
  <1>8. CheckInv'
    BY <1>2, <1>3 DEF AipInv, CheckInv
  <1> QED
    BY <1>5, <1>6, <1>7, <1>8

\* Steps that give the call's channel a new manager m.
LEMMA ManagerChanges ==
  ASSUME AipInv, NEW u \in Users, at[u].pc # "idle", NEW x \in AtSet, NEW m \in ManagerSet,
         at' = [at EXCEPT ![u] = x], manage' = [manage EXCEPT ![Chan(u)] = m],
         UNCHANGED <<open_cnt, io, opened>>, cause \subseteq cause',
         x.pc # "idle" => x.call = at[u].call,
         m.mem \in {"live", manage[Chan(u)].mem} \/ "noopen" \in cause',
         Truthful(m, cause'), Accounted(m, cause'),
         x.pc = "check" => cause' \cap {"nested", "ignored"} # {} \/ Ready(m, x.box_num),
         \/ x.pc = "idle" \/ m.mem # "live" \/ m.fd = "open"
         \/ cause' \cap {"nested", "toomany", "ignored", "nomem"} # {}
  PROVE  /\ ManagersInv' /\ RegsInv' /\ FilesInv' /\ CheckInv' /\ OpenIsReady'
         /\ \A c \in Channels : Accounted(manage'[c], cause')
         /\ manage'[Chan(u)] = m /\ \A c \in Channels : c # Chan(u) => manage'[c] = manage[c]
         /\ manage' \in [Channels -> ManagerSet]
  <1>1. /\ AipTypeOK /\ Chan(u) \in Channels
        /\ "ignored" \notin cause =>
             \A v \in Users : v # u /\ at[v].pc # "idle" => Chan(v) # Chan(u)
    BY InCallFacts
  <1>2. at'[u] = x /\ \A v \in Users : v # u => at'[v] = at[v]
    BY <1>1 DEF AipTypeOK
  <1>3. \A v \in Users : v # u => Chan(v)' = Chan(v)
    BY <1>2 DEF Chan
  <1>4. x.call = at[u].call => Chan(u)' = Chan(u)
    BY <1>2 DEF Chan
  <1>5. /\ manage' \in [Channels -> ManagerSet]
        /\ manage'[Chan(u)] = m /\ \A c \in Channels : c # Chan(u) => manage'[c] = manage[c]
    BY <1>1 DEF AipTypeOK, ManagerSet
  <1>6. ManagersInv' /\ RegsInv'
    BY <1>1, <1>5, CountStays DEF AipInv, ManagersInv, RegsInv
  <1>7. OpenIsReady'
    BY <1>1, <1>5, CountStays DEF AipInv, OpenIsReady
  <1>8. \A c \in Channels : Accounted(manage'[c], cause')
    BY <1>5 DEF AipInv, BuffersInv, Accounted
  <1>9. \A c \in Channels : Truthful(manage'[c], cause')
    BY <1>5 DEF AipInv, FilesInv, Truthful
  <1>10. ASSUME cause' \cap {"nested", "toomany", "ignored", "nomem"} = {}, NEW v \in Users,
                at'[v].pc \in Running, manage'[Chan(v)'].mem = "live"
         PROVE  manage'[Chan(v)'].fd = "open"
    <2>1. CASE v = u
      <3>1. Chan(v)' = Chan(u) /\ x.pc # "idle"
        BY <1>2, <1>4, <1>10, <2>1 DEF Running
      <3> QED
        BY <1>5, <1>10, <3>1
    <2>2. CASE v # u
      <3>1. /\ at[v].pc \in Running /\ at[v].pc # "idle" /\ Chan(v)' = Chan(v)
            /\ cause \cap {"nested", "toomany", "ignored", "nomem"} = {}
        BY <1>2, <1>3, <1>10, <2>2 DEF Running
      <3>2. Chan(v) # Chan(u) /\ Chan(v) \in Channels
        BY <1>1, <2>2, <3>1, InCallFacts
      <3> QED
        BY <1>5, <1>10, <3>1, <3>2 DEF AipInv, FilesInv
    <2> QED
      BY <2>1, <2>2
  <1>11. FilesInv'
    BY <1>9, <1>10 DEF FilesInv
  <1>12. ASSUME cause' \cap {"nested", "ignored"} = {}, NEW v \in Users, at'[v].pc = "check"
         PROVE  Ready(manage'[Chan(v)'], at'[v].box_num)
    <2>1. CASE v = u
      <3>1. Chan(v)' = Chan(u) /\ x.pc = "check" /\ at'[v] = x
        BY <1>2, <1>4, <1>12, <2>1
      <3> QED
        BY <1>5, <1>12, <3>1
    <2>2. CASE v # u
      <3>1. /\ at'[v] = at[v] /\ at[v].pc = "check" /\ at[v].pc # "idle" /\ Chan(v)' = Chan(v)
            /\ cause \cap {"nested", "ignored"} = {} /\ "ignored" \notin cause
        BY <1>2, <1>3, <1>12, <2>2
      <3>2. Chan(v) # Chan(u) /\ Chan(v) \in Channels
        BY <1>1, <2>2, <3>1, InCallFacts
      <3>3. Ready(manage[Chan(v)], at[v].box_num)
        BY <3>1 DEF AipInv, CheckInv
      <3> QED
        BY <1>5, <3>1, <3>2, <3>3
    <2> QED
      BY <2>1, <2>2
  <1>13. CheckInv'
    BY <1>12 DEF CheckInv
  <1> QED
    BY <1>5, <1>6, <1>7, <1>8, <1>11, <1>13

Harms  == {"none", "nodes", "null", "manage", "fd", "io", "overflow", "unmap"}
Causes == {"nomap", "nomem", "nested", "ignored", "noopen", "nommap", "sizes", "zero", "fewer",
           "toomany"}

\* A user's next place in its call.
LEMMA GotoForm ==
  ASSUME AipInv, NEW u \in Users, NEW l \in Running \cup {"idle", "nodes", "init"},
         AipGoto(u, l)
  PROVE  \E x \in AtSet : /\ at' = [at EXCEPT ![u] = x] /\ x.pc = l /\ x.call = at[u].call
                          /\ x.box_num = at[u].box_num
  <1>1. at \in [Users -> AtSet]
    BY DEF AipInv, AipUsesLive, AipTypeOK, AtSet, Running
  <1>2. at[u] \in AtSet
    BY <1>1
  <1>3. /\ [at[u] EXCEPT !.pc = l] \in AtSet /\ [at[u] EXCEPT !.pc = l].pc = l
        /\ [at[u] EXCEPT !.pc = l].call = at[u].call
        /\ [at[u] EXCEPT !.pc = l].box_num = at[u].box_num
    BY <1>2 DEF AtSet
  <1>4. at' = [at EXCEPT ![u] = [at[u] EXCEPT !.pc = l]]
    BY DEF AipGoto
  <1> QED
    BY <1>3, <1>4

LEMMA ReturnForm ==
  ASSUME AipInv, NEW u \in Users, AipReturn(u)
  PROVE  /\ \E x \in AtSet : at' = [at EXCEPT ![u] = x] /\ x.pc = "idle"
         /\ mutex' = [mutex EXCEPT ![Chan(u)] = NoUser]
         /\ mutex' \in [Channels -> Users \cup {NoUser}]
  <1>1. Idle \in AtSet /\ Idle.pc = "idle"
    BY AipAssumption DEF Idle, AtSet
  <1>2. mutex \in [Channels -> Users \cup {NoUser}]
    BY DEF AipInv, AipUsesLive, AipTypeOK
  <1> QED
    BY <1>1, <1>2 DEF AipReturn

LEMMA FailsForm ==
  ASSUME AipInv, NEW u \in Users, NEW why \in SUBSET Causes, AipFails(u, why)
  PROVE  \E x \in AtSet :
           /\ at' = [at EXCEPT ![u] = x] /\ mutex' \in [Channels -> Users \cup {NoUser}]
           /\ cause \subseteq cause' /\ why \subseteq cause' /\ cause' \subseteq Causes
           /\ \/ x.pc = "idle" /\ mutex' = [mutex EXCEPT ![Chan(u)] = NoUser]
              \/ x.pc = "start" /\ x.call = at[u].call /\ "ignored" \in cause'
  <1>1. cause \subseteq Causes /\ mutex \in [Channels -> Users \cup {NoUser}]
    BY DEF AipInv, AipUsesLive, AipTypeOK, Causes
  <1>2. CASE AipReturn(u) /\ Because(why)
    <2>1. cause' = cause \cup why
      BY <1>2 DEF Because
    <2> QED
      BY <1>1, <1>2, <2>1, ReturnForm
  <1>3. CASE /\ AipGoto(u, "start") /\ mutex' = [mutex EXCEPT !["t"] = NoUser]
             /\ Because(why \cup {"ignored"})
    <2>1. cause' = cause \cup why \cup {"ignored"} /\ "ignored" \in Causes
      BY <1>3 DEF Because, Causes
    <2>2. mutex' \in [Channels -> Users \cup {NoUser}]
      BY <1>1, <1>3
    <2>3. PICK x \in AtSet : at' = [at EXCEPT ![u] = x] /\ x.pc = "start" /\ x.call = at[u].call
      BY <1>3, GotoForm DEF Running
    <2>4. cause \subseteq cause' /\ why \subseteq cause' /\ cause' \subseteq Causes /\ "ignored" \in cause'
      BY <1>1, <2>1
    <2> QED
      BY <2>2, <2>3, <2>4
  <1> QED
    BY <1>2, <1>3 DEF AipFails

\* The types after a step of a call.
LEMMA CallTypes ==
  ASSUME AipInv, NEW u \in Users, NEW x \in AtSet, at' = [at EXCEPT ![u] = x],
         UNCHANGED <<open_cnt, io, opened, lost>>, manage' \in [Channels -> ManagerSet],
         chain_buf_size' \in 0..MaxBuf, nodes' \in [Arrays -> [mem : Memory, size : 0..MaxBoxes]],
         mutex' \in [Channels -> Users \cup {NoUser}], harm' \in Harms, cause' \subseteq Causes
  PROVE  AipTypeOK'
  <1>1. AipTypeOK
    BY DEF AipInv, AipUsesLive
  <1>2. at' \in [Users -> AtSet]
    BY <1>1 DEF AipTypeOK, AtSet, Running
  <1> QED
    BY <1>1, <1>2 DEF AipTypeOK, AtSet, Running, ManagerSet, Harms, Causes

LEMMA TypedVars ==
  ASSUME AipInv
  PROVE  /\ manage \in [Channels -> ManagerSet] /\ chain_buf_size \in 0..MaxBuf
         /\ nodes \in [Arrays -> [mem : Memory, size : 0..MaxBoxes]]
         /\ mutex \in [Channels -> Users \cup {NoUser}] /\ harm \in Harms /\ cause \subseteq Causes
  BY DEF AipInv, AipUsesLive, AipTypeOK, ManagerSet, Harms, Causes

\* The harm that a step of a call does is excused by its causes.
Excused ==
  cause \cap {"nomem", "nested"} = {} =>
    /\ harm \in {"nodes", "null", "manage"} => cause \cap {"noopen", "ignored"} # {}
    /\ harm = "fd" => cause \cap {"toomany", "ignored"} # {}
    /\ harm = "overflow" => cause \cap {"sizes", "nommap", "toomany", "ignored"} # {}
    /\ harm = "io" => "nomap" \in cause
    /\ harm # "unmap"

LEMMA UsesStay ==
  ASSUME AipInv, AipTypeOK', UNCHANGED lost, cause \subseteq cause', Excused' \/ UNCHANGED harm
  PROVE  AipUsesLive'
  BY DEF AipInv, AipUsesLive, Excused

LEMMA StepLock ==
  ASSUME AipInv, NEW u \in Users, NEW k \in Used, NEW n \in 0..MaxBoxes, AipLock(u, k, n)
  PROVE  AipInv'
  <1> DEFINE x == [pc |-> IF k = "covert" THEN "init" ELSE "nodes", call |-> k, box_num |-> n]
  <1>1. /\ at[u].pc = "idle" /\ opened[u] > 0 /\ mutex[ChannelOf[k]] = NoUser
        /\ mutex' = [mutex EXCEPT ![ChannelOf[k]] = u] /\ at' = [at EXCEPT ![u] = x]
        /\ UNCHANGED <<open_cnt, io, manage, chain_buf_size, nodes, opened, lost, harm, cause>>
    BY DEF AipLock
  <1>2. k \in Calls /\ ChannelOf[k] \in Channels
    BY AipAssumption DEF Calls, ChannelOf, Channels
  <1>3. /\ x \in AtSet /\ x.pc \in {"init", "nodes"} /\ x.call = k
        /\ x.pc = "nodes" => k # "covert"
    BY <1>2 DEF AtSet
  <1> HIDE DEF x
  <1>4. mutex' \in [Channels -> Users \cup {NoUser}]
    BY <1>1, TypedVars
  <1>5. AipUsesLive'
    BY <1>1, <1>3, <1>4, TypedVars, CallTypes, UsesStay
  <1>6. InitsInv' /\ CountInv' /\ NodesInv'
    BY <1>1, CountStays
  <1>7. ManagersInv' /\ RegsInv' /\ FilesInv' /\ CheckInv' /\ BuffersInv' /\ OpenIsReady'
    BY <1>1, <1>3, ManagersStay DEF Running
  <1>8. CallInv'
    <2>1. at'[u] = x /\ \A v \in Users : v # u => at'[v] = at[v]
      BY <1>1 DEF AipInv, AipUsesLive, AipTypeOK
    <2>2. Chan(u)' = ChannelOf[k] /\ \A v \in Users : v # u => Chan(v)' = Chan(v)
      BY <1>3, <2>1 DEF Chan
    <2>3. mutex'[ChannelOf[k]] = u
      BY <1>1, <1>2, TypedVars
    <2>4. ASSUME NEW v \in Users, v # u, at[v].pc # "idle", "ignored" \notin cause
          PROVE  mutex'[Chan(v)] = v
      <3>1. mutex[Chan(v)] = v /\ Chan(v) \in Channels /\ v # NoUser
        BY <2>4, InCallFacts, AipAssumption
      <3> QED
        BY <1>1, <1>2, <3>1, TypedVars
    <2> QED
      BY <1>1, <1>2, <1>3, <2>1, <2>2, <2>3, <2>4 DEF AipInv, CallInv
  <1> QED
    BY <1>5, <1>6, <1>7, <1>8 DEF AipInv

\* The array of nodes grows: it is no freed one.
LEMMA StepGrow ==
  ASSUME AipInv, NEW u \in Users, GrowNodes(u)
  PROVE  AipInv'
  <1> DEFINE a == ArrayOf[at[u].call]
  <1>1. /\ at[u].pc = "nodes"
        /\ UNCHANGED <<open_cnt, io, manage, chain_buf_size, opened, lost, cause>>
    BY DEF GrowNodes
  <1>2. /\ harm' \in {"none", "nodes"} /\ (harm' = "nodes" => nodes[a].mem = "freed")
        /\ \/ nodes' = nodes
           \/ nodes' = [nodes EXCEPT ![a] = [mem |-> "live", size |-> at[u].box_num]]
           \/ nodes' = [nodes EXCEPT ![a] = [mem |-> "null", size |-> 0]]
        /\ (AipGoto(u, "init") /\ UNCHANGED mutex) \/ AipReturn(u)
    BY DEF GrowNodes
  <1>3. at[u].pc # "idle" /\ at[u] \in AtSet /\ at[u].call \in Calls \ {"covert"} /\ Inits # {}
    BY <1>1, InCallFacts DEF AipInv, CallInv
  <1>4. a \in Arrays /\ at[u].box_num \in 0..MaxBoxes /\ 0 \in 0..MaxBoxes
    BY <1>3, AipAssumption DEF ArrayOf, Arrays, Calls, AtSet
  <1> HIDE DEF a
  <1>5. PICK x \in AtSet :
          /\ at' = [at EXCEPT ![u] = x] /\ x.pc \in {"idle", "init"}
          /\ \/ x.pc # "nodes" /\ x.call = at[u].call /\ UNCHANGED mutex
             \/ x.pc = "idle" /\ mutex' = [mutex EXCEPT ![Chan(u)] = NoUser]
          /\ mutex' \in [Channels -> Users \cup {NoUser}]
    <2>1. CASE AipGoto(u, "init") /\ UNCHANGED mutex
      BY <2>1, GotoForm, TypedVars
    <2>2. CASE AipReturn(u)
      BY <2>2, ReturnForm
    <2> QED
      BY <1>2, <2>1, <2>2
  <1>6. /\ nodes' \in [Arrays -> [mem : Memory, size : 0..MaxBoxes]]
        /\ \A b \in Arrays : nodes'[b].mem = "freed" => nodes[b].mem = "freed"
    BY <1>2, <1>4, TypedVars DEF Memory
  <1>7. NodesInv'
    BY <1>1, <1>6, CountStays DEF AipInv, NodesInv
  <1>8. harm' = "nodes" => cause \cap {"nested", "nomem"} # {}
    BY <1>2, <1>3, <1>4 DEF AipInv, NodesInv
  <1>9. AipUsesLive'
    <2>1. Excused' /\ harm' \in Harms
      BY <1>1, <1>2, <1>8 DEF Excused, Harms
    <2>2. AipTypeOK'
      BY <1>1, <1>5, <1>6, <2>1, TypedVars, CallTypes
    <2> QED
      BY <1>1, <2>1, <2>2, UsesStay
  <1>10. CallInv'
    BY <1>1, <1>3, <1>5, CallStays
  <1>11. ManagersInv' /\ RegsInv' /\ FilesInv' /\ CheckInv' /\ BuffersInv' /\ OpenIsReady'
    BY <1>1, <1>5, ManagersStay DEF Running
  <1> QED
    BY <1>1, <1>7, <1>9, <1>10, <1>11, CountStays DEF AipInv

LEMMA StepUnmanaged ==
  ASSUME AipInv, NEW u \in Users, InitUnmanaged(u)
  PROVE  AipInv'
  <1>1. /\ at[u].pc = "init" /\ manage[Chan(u)].mem # "live"
        /\ UNCHANGED <<open_cnt, io, manage, chain_buf_size, nodes, opened, lost>>
    BY DEF InitUnmanaged
  <1>2. manage[Chan(u)] \in ManagerSet /\ Chan(u) \in Channels
    BY <1>1, InCallFacts
  <1>3. CASE manage[Chan(u)].mem = "null"
    <2>1. AipFails(u, {}) /\ UNCHANGED harm /\ {} \in SUBSET Causes
      BY <1>3 DEF InitUnmanaged
    <2>2. PICK x \in AtSet :
           /\ at' = [at EXCEPT ![u] = x] /\ mutex' \in [Channels -> Users \cup {NoUser}]
           /\ cause \subseteq cause' /\ cause' \subseteq Causes
           /\ \/ x.pc = "idle" /\ mutex' = [mutex EXCEPT ![Chan(u)] = NoUser]
              \/ x.pc = "start" /\ x.call = at[u].call /\ "ignored" \in cause'
      BY <2>1, FailsForm
    <2>3. AipUsesLive'
      <3>1. AipTypeOK'
        BY <1>1, <2>1, <2>2, TypedVars, CallTypes
      <3> QED
        BY <1>1, <2>1, <2>2, <3>1, UsesStay
    <2>4. CallInv'
      BY <1>1, <2>2, CallStays
    <2>5. ManagersInv' /\ RegsInv' /\ FilesInv' /\ CheckInv' /\ BuffersInv' /\ OpenIsReady'
      BY <1>1, <2>2, ManagersStay DEF Running
    <2> QED
      BY <1>1, <2>2, <2>3, <2>4, <2>5, CountStays DEF AipInv
  <1>4. CASE manage[Chan(u)].mem # "null"
    <2>1. harm' = "manage" /\ UNCHANGED <<at, mutex, cause>>
      BY <1>4 DEF InitUnmanaged
    <2>2. "noopen" \in cause
      BY <1>1, <1>2, <1>4 DEF AipInv, ManagersInv, ManagerSet, Memory
    <2>3. AipUsesLive'
      BY <1>1, <2>1, <2>2 DEF AipInv, AipUsesLive, AipTypeOK
    <2> QED
      BY <1>1, <2>1, <2>3, CountStays
         DEF AipInv, CallInv, ManagersInv, RegsInv, FilesInv, CheckInv, BuffersInv, OpenIsReady, Chan
  <1> QED
    BY <1>3, <1>4

\* The rest of aip_x_init: the call's channel gets the manager m.
LEMMA StepManager ==
  ASSUME AipInv, NEW u \in Users, at[u].pc # "idle", NEW x \in AtSet, NEW m \in ManagerSet,
         at' = [at EXCEPT ![u] = x], manage' = [manage EXCEPT ![Chan(u)] = m],
         UNCHANGED <<open_cnt, io, nodes, opened, lost>>, cause \subseteq cause', cause' \subseteq Causes,
         chain_buf_size' \in 0..MaxBuf, mutex' \in [Channels -> Users \cup {NoUser}],
         \/ x.pc = "check" /\ x.call = at[u].call /\ UNCHANGED mutex
         \/ x.pc = "idle" /\ mutex' = [mutex EXCEPT ![Chan(u)] = NoUser]
         \/ x.pc = "start" /\ x.call = at[u].call /\ "ignored" \in cause',
         m.mem \in {"live", manage[Chan(u)].mem} \/ "noopen" \in cause',
         Truthful(m, cause'), Accounted(m, cause'),
         x.pc = "check" => Ready(m, x.box_num),
         x.pc = "idle" \/ m.fd = "open" \/ cause' \cap {"toomany", "ignored", "nomem"} # {},
         cause' \cap BufferCauses = {} =>
           /\ m.fd_open_cnt # 0 => m.buf = chain_buf_size'
           /\ \A c \in Channels : c # Chan(u) /\ manage[c].fd_open_cnt # 0 =>
                                   manage[c].buf = chain_buf_size',
         UNCHANGED harm
  PROVE  AipInv'
  <1>1. /\ ManagersInv' /\ RegsInv' /\ FilesInv' /\ CheckInv' /\ OpenIsReady'
        /\ \A c \in Channels : Accounted(manage'[c], cause')
        /\ manage'[Chan(u)] = m /\ \A c \in Channels : c # Chan(u) => manage'[c] = manage[c]
        /\ manage' \in [Channels -> ManagerSet]
    <2>1. x.pc # "idle" => x.call = at[u].call
      OBVIOUS
    <2>2. \/ x.pc = "idle" \/ m.mem # "live" \/ m.fd = "open"
          \/ cause' \cap {"nested", "toomany", "ignored", "nomem"} # {}
      OBVIOUS
    <2> QED
      BY <2>1, <2>2, ManagerChanges
  <1>2. BuffersInv'
    <2>1. (\A c \in Channels : Accounted(manage[c], cause))'
      BY <1>1 DEF Accounted
    <2> QED
      BY <1>1, <2>1 DEF BuffersInv
  <1>3. CallInv'
    BY CallStays
  <1>4. AipTypeOK'
    <2>1. harm' \in Harms
      BY TypedVars
    <2> QED
      BY <1>1, <2>1, TypedVars, CallTypes
  <1>5. AipUsesLive'
    BY <1>4, UsesStay
  <1> QED
    BY <1>1, <1>2, <1>3, <1>5, CountStays DEF AipInv

\* Managers with some fields changed are managers.
LEMMA ManagerFields ==
  ASSUME NEW m \in ManagerSet, NEW n \in 0..MaxBoxes
  PROVE  /\ [m EXCEPT !.fd = "closed", !.size = n] \in ManagerSet
         /\ [m EXCEPT !.fd = "closed", !.buf = 0] \in ManagerSet
         /\ [m EXCEPT !.size = n] \in ManagerSet
         /\ Manager("freed") \in ManagerSet
  <1>1. 0 \in -1..MaxBuf /\ 0 \in 0..MaxBoxes
    BY AipAssumption
  <1> QED
    BY <1>1 DEF ManagerSet, Manager, Memory

LEMMA StepOpenFails ==
  ASSUME AipInv, NEW u \in Users, OpenFails(u)
  PROVE  AipInv'
  <1>1. /\ at[u].pc = "init" /\ manage[Chan(u)].mem = "live" /\ manage[Chan(u)].fd_open_cnt = 0
        /\ UNCHANGED <<open_cnt, io, chain_buf_size, nodes, opened, lost, harm>>
    BY DEF OpenFails
  <1>2. /\ at[u] \in AtSet /\ Chan(u) \in Channels /\ manage[Chan(u)] \in ManagerSet
        /\ at[u].box_num \in 0..MaxBoxes
    BY <1>1, InCallFacts DEF AtSet
  <1>3. cause \cap BufferCauses = {} =>
          \A c \in Channels : manage[c].fd_open_cnt # 0 => manage[c].buf = chain_buf_size
    BY DEF AipInv, BuffersInv
  <1>4. PICK m \in ManagerSet, why \in SUBSET Causes :
          /\ manage' = [manage EXCEPT ![Chan(u)] = m] /\ AipFails(u, why)
          /\ m.fd_open_cnt = 0 /\ (m.mem = "live" \/ "noopen" \in why)
    <2>1. CASE manage' = [manage EXCEPT ![Chan(u)] = Manager("freed")] /\ AipFails(u, {"noopen"})
      <3>1. {"noopen"} \in SUBSET Causes
        BY DEF Causes
      <3>2. Manager("freed") \in ManagerSet /\ Manager("freed").fd_open_cnt = 0
        BY <1>2, ManagerFields DEF Manager
      <3> QED
        BY <2>1, <3>1, <3>2
    <2>2. CASE /\ AipFails(u, {})
               /\ manage' = [manage EXCEPT ![Chan(u)].fd = "closed", ![Chan(u)].size = at[u].box_num]
      <3> DEFINE m == [manage[Chan(u)] EXCEPT !.fd = "closed", !.size = at[u].box_num]
      <3>1. m \in ManagerSet
        BY <1>2, ManagerFields
      <3>2. m.fd_open_cnt = 0 /\ m.mem = "live"
        BY <1>1, <1>2 DEF ManagerSet
      <3>3. manage' = [manage EXCEPT ![Chan(u)] = m]
        BY <1>2, <2>2, TypedVars
      <3>4. {} \in SUBSET Causes
        OBVIOUS
      <3> HIDE DEF m
      <3> QED
        BY <2>2, <3>1, <3>2, <3>3, <3>4
    <2> QED
      BY <2>1, <2>2 DEF OpenFails
  <1>5. PICK x \in AtSet :
           /\ at' = [at EXCEPT ![u] = x] /\ mutex' \in [Channels -> Users \cup {NoUser}]
           /\ cause \subseteq cause' /\ why \subseteq cause' /\ cause' \subseteq Causes
           /\ \/ x.pc = "idle" /\ mutex' = [mutex EXCEPT ![Chan(u)] = NoUser]
              \/ x.pc = "start" /\ x.call = at[u].call /\ "ignored" \in cause'
    BY <1>4, FailsForm
  <1>6. m.mem \in {"live", manage[Chan(u)].mem} \/ "noopen" \in cause'
    BY <1>4, <1>5
  <1>7. m.fd_open_cnt = 0 /\ Truthful(m, cause') /\ Accounted(m, cause')
    BY <1>4 DEF Truthful, Accounted
  <1>8. chain_buf_size' \in 0..MaxBuf /\ x.pc # "check"
    BY <1>1, <1>5, TypedVars
  <1>9. x.pc = "idle" \/ cause' \cap {"toomany", "ignored", "nomem"} # {}
    BY <1>5
  <1>10. cause' \cap BufferCauses = {} =>
           \A c \in Channels : manage[c].fd_open_cnt # 0 => manage[c].buf = chain_buf_size'
    BY <1>1, <1>3, <1>5
  <1> QED
    BY <1>1, <1>4, <1>5, <1>6, <1>7, <1>8, <1>9, <1>10, StepManager

\* The buffers of the other channels have the size that chain_buf_size gets,
\* or the cause says so.
LEMMA StepOpenDevice ==
  ASSUME AipInv, NEW u \in Users, OpenDevice(u)
  PROVE  AipInv'
  <1> DEFINE c == Chan(u)
             n == at[u].box_num
  <1>1. /\ at[u].pc = "init" /\ AipGoto(u, "check")
        /\ UNCHANGED <<open_cnt, io, nodes, mutex, opened, lost, harm>>
    BY DEF OpenDevice
  <1>2. /\ at[u] \in AtSet /\ c \in Channels /\ manage[c] \in ManagerSet
        /\ n \in 0..MaxBoxes /\ at[u].pc # "idle"
    BY <1>1, InCallFacts DEF AtSet
  <1>3. PICK size \in (IF n = 0 THEN {0} ELSE n..MaxBuf) :
          \E buf \in {size} \cup (IF n = 0 THEN {} ELSE {-1}) :
            /\ manage' = [manage EXCEPT ![c] =
                 [mem |-> "live", fd |-> "open", fd_open_cnt |-> 1, size |-> size, buf |-> buf]]
            /\ chain_buf_size' = size
            /\ Because((IF buf = -1 THEN {"nommap"} ELSE {}) \cup
                       (IF \E d \in Channels \ {c} : Opened(d) /\ manage[d].buf # size
                        THEN {"sizes"} ELSE {}) \cup (IF n = 0 THEN {"zero"} ELSE {}))
    BY DEF OpenDevice
  <1>4. PICK buf \in {size} \cup (IF n = 0 THEN {} ELSE {-1}) :
            /\ manage' = [manage EXCEPT ![c] =
                 [mem |-> "live", fd |-> "open", fd_open_cnt |-> 1, size |-> size, buf |-> buf]]
            /\ chain_buf_size' = size
            /\ Because((IF buf = -1 THEN {"nommap"} ELSE {}) \cup
                       (IF \E d \in Channels \ {c} : Opened(d) /\ manage[d].buf # size
                        THEN {"sizes"} ELSE {}) \cup (IF n = 0 THEN {"zero"} ELSE {}))
    BY <1>3
  <1> DEFINE m == [mem |-> "live", fd |-> "open", fd_open_cnt |-> 1, size |-> size, buf |-> buf]
  <1>5. /\ size \in 0..MaxBuf /\ n <= size /\ (size = 0 => n = 0)
        /\ buf \in -1..MaxBuf /\ buf \in {size, -1} /\ (n = 0 => buf = size)
    BY <1>2, <1>4, AipAssumption
  <1>6. /\ m \in ManagerSet /\ m.mem = "live" /\ m.fd = "open" /\ m.size = size /\ m.buf = buf
        /\ m.fd_open_cnt = 1
    BY <1>5 DEF ManagerSet, Memory
  <1>7. /\ cause \subseteq cause' /\ cause' \subseteq Causes
        /\ "nommap" \notin cause' => buf = size
        /\ "sizes" \notin cause' => \A d \in Channels : d # c /\ Opened(d) => manage[d].buf = size
        /\ n = 0 => "zero" \in cause'
    <2> DEFINE other == \E d \in Channels \ {c} : Opened(d) /\ manage[d].buf # size
    <2>1. cause' = cause \cup ((IF buf = -1 THEN {"nommap"} ELSE {}) \cup
                     (IF other THEN {"sizes"} ELSE {}) \cup (IF n = 0 THEN {"zero"} ELSE {}))
      BY <1>4 DEF Because
    <2>2. ~other => \A d \in Channels : d # c /\ Opened(d) => manage[d].buf = size
      OBVIOUS
    <2>3. buf # -1 => buf = size
      BY <1>5
    <2> HIDE DEF other, n
    <2>4. cause \subseteq Causes /\ {"nommap", "sizes", "zero"} \subseteq Causes
      BY TypedVars DEF Causes
    <2>5. cause \subseteq cause' /\ cause' \subseteq Causes
      BY <2>1, <2>4
    <2>6. /\ "nommap" \notin cause' => buf # -1
          /\ "sizes" \notin cause' => ~other
          /\ n = 0 => "zero" \in cause'
      BY <2>1
    <2> QED
      BY <2>2, <2>3, <2>5, <2>6
  <1>8. manage' = [manage EXCEPT ![c] = m] /\ chain_buf_size' = size
    BY <1>4
  <1>9. PICK x \in AtSet : /\ at' = [at EXCEPT ![u] = x] /\ x.pc = "check" /\ x.call = at[u].call
                           /\ x.box_num = n
    BY <1>1, GotoForm DEF Running
  <1> HIDE DEF m
  <1>10. Truthful(m, cause') /\ Ready(m, x.box_num)
    BY <1>5, <1>6, <1>9 DEF Truthful, Ready
  <1>11. Accounted(m, cause')
    BY <1>5, <1>6, <1>7 DEF Accounted
  <1>12. cause' \cap BufferCauses = {} =>
           /\ m.fd_open_cnt # 0 => m.buf = chain_buf_size'
           /\ \A d \in Channels : d # Chan(u) /\ manage[d].fd_open_cnt # 0 =>
                                   manage[d].buf = chain_buf_size'
    <2> SUFFICES ASSUME cause' \cap BufferCauses = {}
                 PROVE  /\ m.buf = size
                        /\ \A d \in Channels : d # c /\ manage[d].fd_open_cnt # 0 => manage[d].buf = size
      BY <1>8
    <2>1. {"nommap", "sizes"} \cap cause' = {} /\ cause \cap BufferCauses = {}
      BY <1>7 DEF BufferCauses
    <2>2. \A d \in Channels : manage[d].fd_open_cnt # 0 => Opened(d)
      <3>1. \A d \in Channels : manage[d].fd_open_cnt \in {-1, 0, 1}
        BY TypedVars DEF ManagerSet
      <3>2. \A d \in Channels : ~(manage[d].fd_open_cnt < 0)
        BY <2>1 DEF AipInv, BuffersInv, Accounted, BufferCauses
      <3> QED
        BY <3>1, <3>2 DEF Opened
    <2> QED
      BY <1>6, <1>7, <2>1, <2>2
  <1>13. chain_buf_size' \in 0..MaxBuf /\ mutex' \in [Channels -> Users \cup {NoUser}]
    BY <1>1, <1>5, <1>8, TypedVars
  <1> QED
    BY <1>1, <1>2, <1>6, <1>7, <1>8, <1>9, <1>10, <1>11, <1>12, <1>13, StepManager

LEMMA StepReuse ==
  ASSUME AipInv, NEW u \in Users, ReuseDevice(u)
  PROVE  AipInv'
  <1> DEFINE c == Chan(u)
             n == at[u].box_num
             m == [manage[c] EXCEPT !.size = n]
  <1>1. /\ at[u].pc = "init" /\ at[u].pc # "idle"
        /\ manage[c].mem = "live" /\ manage[c].fd_open_cnt # 0
        /\ AipGoto(u, "check")
        /\ cause' = cause \cup ((IF n = 0 THEN {"zero"} ELSE {}) \cup
                                (IF n < manage[c].buf THEN {"fewer"} ELSE {}))
        /\ UNCHANGED <<open_cnt, io, chain_buf_size, nodes, mutex, opened, lost, harm>>
    BY DEF ReuseDevice, Because
  <1>2. /\ at[u] \in AtSet /\ c \in Channels /\ manage[c] \in ManagerSet
        /\ n \in 0..MaxBoxes
    BY <1>1, InCallFacts DEF AtSet
  <1>3. /\ m \in ManagerSet /\ m.mem = "live" /\ m.fd_open_cnt = manage[c].fd_open_cnt
        /\ m.fd = manage[c].fd /\ m.buf = manage[c].buf /\ m.size = n
    <2>1. m \in ManagerSet
      BY <1>2, ManagerFields
    <2> QED
      BY <1>1, <1>2, <2>1 DEF ManagerSet
  <1>4. manage' = [manage EXCEPT ![c] = m]
    <2>1. manage' = [manage EXCEPT ![c].size = n]
      BY DEF ReuseDevice
    <2> QED
      BY <1>2, <2>1, TypedVars
  <1> HIDE DEF m
  <1>5. /\ cause \subseteq cause' /\ cause' \subseteq Causes /\ (n = 0 => "zero" \in cause')
        /\ n < m.buf => "fewer" \in cause'
    <2>1. cause \subseteq Causes /\ {"zero", "fewer"} \subseteq Causes
      BY TypedVars DEF Causes
    <2> QED
      BY <1>1, <1>3, <2>1
  <1>6. PICK x \in AtSet : /\ at' = [at EXCEPT ![u] = x] /\ x.pc = "check" /\ x.call = at[u].call
                           /\ x.box_num = n
    BY <1>1, GotoForm DEF Running
  <1>7. /\ Truthful(manage[c], cause) /\ Accounted(manage[c], cause)
        /\ cause \cap BufferCauses = {} =>
             \A d \in Channels : manage[d].fd_open_cnt # 0 => manage[d].buf = chain_buf_size
    BY <1>2 DEF AipInv, FilesInv, BuffersInv
  <1>8. Truthful(m, cause') /\ Ready(m, x.box_num) /\ (m.fd = "open" \/ cause' \cap {"toomany", "nomem"} # {})
    BY <1>1, <1>2, <1>3, <1>5, <1>6, <1>7 DEF Truthful, Ready
  <1>9. Accounted(m, cause')
    BY <1>3, <1>5, <1>7 DEF Accounted
  <1>10. cause' \cap BufferCauses = {} =>
           /\ m.fd_open_cnt # 0 => m.buf = chain_buf_size'
           /\ \A d \in Channels : d # Chan(u) /\ manage[d].fd_open_cnt # 0 =>
                                   manage[d].buf = chain_buf_size'
    BY <1>1, <1>2, <1>3, <1>5, <1>7
  <1>11. chain_buf_size' \in 0..MaxBuf /\ mutex' \in [Channels -> Users \cup {NoUser}]
    BY <1>1, TypedVars
  <1>12. m.fd = "open" \/ cause' \cap {"toomany", "ignored", "nomem"} # {}
    BY <1>8
  <1> QED
    BY <1>1, <1>3, <1>4, <1>5, <1>6, <1>8, <1>9, <1>10, <1>11, <1>12, StepManager

LEMMA StepTooMany ==
  ASSUME AipInv, NEW u \in Users, TooManyBoxes(u)
  PROVE  AipInv'
  <1> DEFINE c == Chan(u)
             m == [manage[c] EXCEPT !.fd = "closed", !.buf = 0]
  <1>1. /\ at[u].pc = "check" /\ at[u].pc # "idle" /\ manage[c].size > chain_buf_size
        /\ UNCHANGED <<open_cnt, io, chain_buf_size, nodes, opened, lost>>
    BY DEF TooManyBoxes
  <1>2. at[u] \in AtSet /\ c \in Channels /\ manage[c] \in ManagerSet /\ 0 \in 0..MaxBoxes
    BY <1>1, InCallFacts, AipAssumption DEF AtSet
  <1>3. /\ m \in ManagerSet /\ m.mem = manage[c].mem /\ m.fd_open_cnt = manage[c].fd_open_cnt
        /\ m.size = manage[c].size /\ m.buf = 0 /\ m.fd = "closed"
    <2>1. m \in ManagerSet
      BY <1>2, ManagerFields
    <2> QED
      BY <1>1, <1>2, <2>1 DEF ManagerSet
  <1>4. manage' = [manage EXCEPT ![c] = m]
    <2>1. manage' = [manage EXCEPT ![c].fd = "closed", ![c].buf = 0]
      BY DEF TooManyBoxes
    <2> QED
      BY <1>2, <2>1, TypedVars
  <1>5. Accounted(m, cause')
    <2>1. m.size > 0 /\ m.size \in Int
      BY <1>1, <1>2, <1>3, TypedVars, AipAssumption DEF ManagerSet
    <2>2. m.fd_open_cnt < 0 => "nomem" \in cause'
      <3>1. cause \subseteq cause'
        BY DEF TooManyBoxes, AipFails, Because
      <3>2. manage[c].fd_open_cnt < 0 => "nomem" \in cause
        BY <1>2 DEF AipInv, BuffersInv, Accounted
      <3> QED
        BY <1>3, <3>1, <3>2
    <2>3. m.buf = 0 /\ m.fd = "closed"
      BY <1>3
    <2> HIDE DEF m
    <2> QED
      BY <2>1, <2>2, <2>3 DEF Accounted
  <1> HIDE DEF m
  <1>6. CASE manage[c].fd = "closed"
    <2>1. harm' = "fd" /\ UNCHANGED <<at, mutex, cause>>
      BY <1>6 DEF TooManyBoxes
    <2>2. Truthful(m, cause') /\ Truthful(manage[c], cause)
      BY <1>2, <1>3, <1>6, <2>1 DEF AipInv, FilesInv, Truthful
    <2>3. at' = [at EXCEPT ![u] = at[u]]
      BY <2>1 DEF AipInv, AipUsesLive, AipTypeOK
    <2>4. cause' \cap {"nested", "ignored"} # {} \/ Ready(m, at[u].box_num)
      BY <1>1, <1>3, <2>1 DEF AipInv, CheckInv, Ready
    <2>5. cause' \cap {"nested", "toomany", "ignored", "nomem"} # {}
      <3>1. CASE cause \cap {"nested", "ignored"} = {}
        BY <1>1, <1>6, <2>1, <2>2, <3>1 DEF AipInv, CheckInv, Ready, Truthful
      <3> QED
        BY <2>1, <3>1
    <2>6. /\ ManagersInv' /\ RegsInv' /\ FilesInv' /\ CheckInv' /\ OpenIsReady'
          /\ \A d \in Channels : Accounted(manage'[d], cause')
          /\ manage'[c] = m /\ \A d \in Channels : d # c => manage'[d] = manage[d]
          /\ manage' \in [Channels -> ManagerSet]
      BY <1>1, <1>2, <1>3, <1>4, <1>5, <2>1, <2>2, <2>3, <2>4, <2>5, ManagerChanges
    <2>7. BuffersInv'
      <3>1. (\A d \in Channels : Accounted(manage[d], cause))'
        BY <2>6 DEF Accounted
      <3>2. m.fd_open_cnt # 0 => cause \cap BufferCauses # {}
        BY <1>3, <1>6, <2>2 DEF Truthful, BufferCauses
      <3> QED
        BY <1>1, <2>1, <2>6, <3>1, <3>2 DEF AipInv, BuffersInv
    <2>8. harm' \in Harms /\ Excused'
      BY <2>1, <2>5 DEF Harms, Excused
    <2>9. AipTypeOK'
      BY <1>1, <1>2, <2>1, <2>3, <2>6, <2>8, TypedVars, CallTypes
    <2>10. AipUsesLive'
      BY <1>1, <2>1, <2>8, <2>9, UsesStay
    <2>11. CallInv'
      BY <1>1, <2>1 DEF AipInv, CallInv, Chan
    <2> QED
      BY <1>1, <2>1, <2>6, <2>7, <2>10, <2>11, CountStays DEF AipInv
  <1>7. CASE manage[c].fd # "closed"
    <2>1. AipFails(u, {"toomany"}) /\ UNCHANGED harm /\ {"toomany"} \in SUBSET Causes
      BY <1>7 DEF TooManyBoxes, Causes
    <2>2. PICK x \in AtSet :
           /\ at' = [at EXCEPT ![u] = x] /\ mutex' \in [Channels -> Users \cup {NoUser}]
           /\ cause \subseteq cause' /\ {"toomany"} \subseteq cause' /\ cause' \subseteq Causes
           /\ \/ x.pc = "idle" /\ mutex' = [mutex EXCEPT ![Chan(u)] = NoUser]
              \/ x.pc = "start" /\ x.call = at[u].call /\ "ignored" \in cause'
      BY <2>1, FailsForm
    <2>3. /\ "toomany" \in cause' /\ cause' \cap {"toomany", "ignored", "nomem"} # {} /\ x.pc # "check"
          /\ cause' \cap BufferCauses # {}
      BY <2>2 DEF BufferCauses
    <2>4. chain_buf_size' \in 0..MaxBuf /\ Truthful(m, cause')
      BY <1>1, <2>3, TypedVars DEF Truthful
    <2>5. m.mem \in {"live", manage[c].mem}
      BY <1>3
    <2> QED
      BY <1>1, <1>3, <1>4, <1>5, <2>1, <2>2, <2>3, <2>4, <2>5, StepManager
  <1> QED
    BY <1>6, <1>7

\* A step of a call that is past aip_x_init.
LEMMA StepRunning ==
  ASSUME AipInv, NEW u \in Users, at[u].pc \in Running, NEW x \in AtSet,
         at' = [at EXCEPT ![u] = x], x.pc # "check",
         UNCHANGED <<open_cnt, io, manage, chain_buf_size, nodes, opened, lost, cause>>,
         mutex' \in [Channels -> Users \cup {NoUser}],
         \/ x.pc # "nodes" /\ x.call = at[u].call /\ UNCHANGED mutex
         \/ x.pc = "idle" /\ mutex' = [mutex EXCEPT ![Chan(u)] = NoUser],
         harm' \in Harms, Excused' \/ UNCHANGED harm
  PROVE  AipInv'
  <1>0. at[u].pc # "idle"
    BY DEF Running
  <1>1. AipTypeOK'
    BY TypedVars, CallTypes
  <1>2. AipUsesLive'
    BY <1>1, UsesStay
  <1>3. CallInv'
    BY <1>0, CallStays
  <1>4. ManagersInv' /\ RegsInv' /\ FilesInv' /\ CheckInv' /\ BuffersInv' /\ OpenIsReady'
    BY ManagersStay DEF Running
  <1> QED
    BY <1>2, <1>3, <1>4, CountStays DEF AipInv

LEMMA ManagerHarms ==
  ASSUME AipInv, NEW u \in Users, at[u].pc # "idle"
  PROVE  /\ ManagerHarm(Chan(u)) \in {"null", "manage", "none"}
         /\ ManagerHarm(Chan(u)) # "none" => cause \cap {"nested", "noopen", "nomem"} # {}
         /\ io # "mapped" => cause \cap {"nested", "nomap", "nomem"} # {}
  <1>1. Inits # {} /\ Chan(u) \in Channels
    BY InCallFacts
  <1>2. manage[Chan(u)].mem = "live" => ManagerHarm(Chan(u)) = "none"
    BY DEF ManagerHarm
  <1>3. ManagerHarm(Chan(u)) \in {"null", "manage", "none"}
    BY DEF ManagerHarm
  <1> QED
    BY <1>1, <1>2, <1>3 DEF AipInv, OpenIsReady

\* A chain that passed the test fits.
LEMMA StepConfig ==
  ASSUME AipInv, NEW u \in Users, ConfigNodes(u)
  PROVE  AipInv'
  <1>1. /\ at[u].pc = "check" /\ AipGoto(u, "start") /\ manage[Chan(u)].size <= chain_buf_size
        /\ UNCHANGED <<open_cnt, io, manage, chain_buf_size, nodes, mutex, opened, lost, cause>>
        /\ harm' \in {"io", "overflow", "none"} /\ (harm' = "io" => io # "mapped")
        /\ harm' = "overflow" => at[u].box_num > manage[Chan(u)].buf
    BY DEF ConfigNodes
  <1>2. PICK x \in AtSet : at' = [at EXCEPT ![u] = x] /\ x.pc = "start" /\ x.call = at[u].call
    BY <1>1, GotoForm DEF Running
  <1>3. /\ at[u].box_num \in Int /\ manage[Chan(u)].buf \in Int /\ manage[Chan(u)].size \in Int
        /\ chain_buf_size \in Int /\ Chan(u) \in Channels
    BY <1>1, InCallFacts, TypedVars, AipAssumption DEF AtSet, ManagerSet
  <1>4. harm' = "overflow" => cause \cap {"nested", "ignored"} # {} \/ cause \cap BufferCauses # {}
    <2> SUFFICES ASSUME harm' = "overflow", cause \cap {"nested", "ignored"} = {}, cause \cap BufferCauses = {}
                 PROVE  FALSE
      OBVIOUS
    <2>1. manage[Chan(u)].fd_open_cnt # 0 /\ at[u].box_num <= manage[Chan(u)].size
      BY <1>1 DEF AipInv, CheckInv, Ready
    <2>2. manage[Chan(u)].buf = chain_buf_size
      BY <1>3, <2>1 DEF AipInv, BuffersInv
    <2> QED
      BY <1>1, <1>3, <2>1, <2>2
  <1>5. harm' \in Harms /\ Excused'
    <2>1. harm' = "io" => cause \cap {"nested", "nomap", "nomem"} # {}
      BY <1>1, ManagerHarms
    <2> QED
      BY <1>1, <1>4, <2>1 DEF Harms, Excused, BufferCauses
  <1>6. mutex' \in [Channels -> Users \cup {NoUser}]
    BY <1>1, TypedVars
  <1> QED
    BY <1>1, <1>2, <1>5, <1>6, StepRunning DEF Running

LEMMA StepStart ==
  ASSUME AipInv, NEW u \in Users, aip_start(u)
  PROVE  AipInv'
  <1>1. /\ at[u].pc = "start" /\ AipGoto(u, "wait")
        /\ UNCHANGED <<open_cnt, io, manage, chain_buf_size, nodes, mutex, opened, lost, cause>>
        /\ harm' = IF manage[Chan(u)].mem = "live" /\ io # "mapped"
                   THEN "io" ELSE ManagerHarm(Chan(u))
    BY DEF aip_start
  <1>2. PICK x \in AtSet : at' = [at EXCEPT ![u] = x] /\ x.pc = "wait" /\ x.call = at[u].call
    BY <1>1, GotoForm DEF Running
  <1>3. harm' \in Harms /\ Excused'
    BY <1>1, ManagerHarms DEF Harms, Excused
  <1>4. mutex' \in [Channels -> Users \cup {NoUser}]
    BY <1>1, TypedVars
  <1> QED
    BY <1>1, <1>2, <1>3, <1>4, StepRunning DEF Running

LEMMA StepWait ==
  ASSUME AipInv, NEW u \in Users, aip_wait(u)
  PROVE  AipInv'
  <1>1. /\ at[u].pc = "wait"
        /\ (AipGoto(u, "step") /\ UNCHANGED mutex) \/ AipReturn(u)
        /\ UNCHANGED <<open_cnt, io, manage, chain_buf_size, nodes, opened, lost, cause>>
        /\ harm' = IF manage[Chan(u)].mem = "live" /\ manage[Chan(u)].fd # "open"
                   THEN "fd" ELSE ManagerHarm(Chan(u))
    BY DEF aip_wait
  <1>2. PICK x \in AtSet :
          /\ at' = [at EXCEPT ![u] = x] /\ mutex' \in [Channels -> Users \cup {NoUser}] /\ x.pc # "check"
          /\ \/ x.pc # "nodes" /\ x.call = at[u].call /\ UNCHANGED mutex
             \/ x.pc = "idle" /\ mutex' = [mutex EXCEPT ![Chan(u)] = NoUser]
    <2>1. CASE AipGoto(u, "step") /\ UNCHANGED mutex
      BY <2>1, GotoForm, TypedVars DEF Running
    <2>2. CASE AipReturn(u)
      BY <2>2, ReturnForm
    <2> QED
      BY <1>1, <2>1, <2>2
  <1>3. harm' = "fd" => cause \cap {"nested", "toomany", "ignored", "nomem"} # {}
    <2>1. harm' = "fd" => manage[Chan(u)].mem = "live" /\ manage[Chan(u)].fd # "open"
      BY <1>1, ManagerHarms
    <2> QED
      BY <1>1, <2>1 DEF AipInv, FilesInv, Running
  <1>4. harm' \in Harms /\ Excused'
    <2>1. harm' \in {"fd", ManagerHarm(Chan(u))}
      BY <1>1
    <2> QED
      BY <1>1, <1>3, <2>1, ManagerHarms DEF Harms, Excused
  <1> QED
    BY <1>1, <1>2, <1>4, StepRunning DEF Running

LEMMA StepCovert ==
  ASSUME AipInv, NEW u \in Users, bs_covert_step(u)
  PROVE  AipInv'
  <1>1. /\ at[u].pc = "step"
        /\ (AipGoto(u, "start") /\ UNCHANGED mutex) \/ AipReturn(u)
        /\ UNCHANGED <<open_cnt, io, manage, chain_buf_size, nodes, opened, lost, harm, cause>>
    BY DEF bs_covert_step
  <1>2. PICK x \in AtSet :
          /\ at' = [at EXCEPT ![u] = x] /\ mutex' \in [Channels -> Users \cup {NoUser}] /\ x.pc # "check"
          /\ \/ x.pc # "nodes" /\ x.call = at[u].call /\ UNCHANGED mutex
             \/ x.pc = "idle" /\ mutex' = [mutex EXCEPT ![Chan(u)] = NoUser]
    <2>1. CASE AipGoto(u, "start") /\ UNCHANGED mutex
      BY <2>1, GotoForm, TypedVars DEF Running
    <2>2. CASE AipReturn(u)
      BY <2>2, ReturnForm
    <2> QED
      BY <1>1, <2>1, <2>2
  <1>3. harm' \in Harms
    BY <1>1, TypedVars
  <1> QED
    BY <1>1, <1>2, <1>3, StepRunning DEF Running

LEMMA AipKeeps == AipInv /\ [AipNext]_aipVars => AipInv'
  <1> SUFFICES ASSUME AipInv, [AipNext]_aipVars
               PROVE  AipInv'
    OBVIOUS
  <1>1. ASSUME NEW u \in Users, AipStep(u) PROVE AipInv'
    <2>1. CASE ingenic_aip_init(u)
      BY <2>1, StepInitMore, StepInitFirst
    <2>2. CASE ingenic_aip_deinit(u)
      BY <2>2, StepDeinitMore, StepDeinitLast
    <2>3. CASE \E k \in Used, n \in 0..MaxBoxes : AipLock(u, k, n)
      BY <2>3, StepLock
    <2>4. CASE GrowNodes(u) \/ InitUnmanaged(u) \/ InitNoMemory(u)
      BY <2>4, StepGrow, StepUnmanaged, StepInitNoMemory
    <2>5. CASE OpenFails(u) \/ OpenDevice(u) \/ TooManyBoxes(u) \/ ReuseDevice(u)
      BY <2>5, StepOpenFails, StepOpenDevice, StepTooMany, StepReuse
    <2>6. CASE ConfigNodes(u) \/ aip_start(u) \/ aip_wait(u) \/ bs_covert_step(u)
      BY <2>6, StepConfig, StepStart, StepWait, StepCovert
    <2> QED
      BY <1>1, <2>1, <2>2, <2>3, <2>4, <2>5, <2>6 DEF AipStep
  <1>2. CASE UNCHANGED aipVars
    <2>1. AipTypeOK'
      BY <1>2 DEF aipVars, AipInv, AipUsesLive, AipTypeOK
    <2>2. Inits' = Inits
      BY <1>2 DEF aipVars, Inits
    <2> QED
      BY <1>2, <2>1, <2>2
         DEF aipVars, AipInv, AipUsesLive, OpenIsReady, InitsInv, CountInv, CallInv, NodesInv,
             ManagersInv, RegsInv, FilesInv, CheckInv, BuffersInv, Chan
  <1> QED
    BY <1>1, <1>2 DEF AipNext

LEMMA AipAlways == AipSpec => []AipInv
  BY AipStarts, AipKeeps, PTL DEF AipSpec

\* What the driver uses is there: memory, registers, descriptors and chain
\* buffers, and it gives back and unmaps what it took, except after one of the
\* named errors.
THEOREM AipUsesOnlyLive == AipSpec => []AipUsesLive
  <1>1. AipInv => AipUsesLive
    BY DEF AipInv
  <1> QED
    BY <1>1, AipAlways, PTL

\* One user at a time has a channel of the AIP, from the set-up to the end of
\* the wait, unless the error of bs_covert_cfg was ignored.
THEOREM AipChannelExclusive == AipSpec => []ChannelExclusive
  <1>1. AipInv => ChannelExclusive
    BY DEF AipInv, CallInv, ChannelExclusive
  <1> QED
    BY <1>1, AipAlways, PTL

\* Between an ingenic_aip_init that returned 0 and its deinit the managers
\* and the registers are there, unless another deinit or a failed
\* initialisation interfered; a device that cannot be opened takes a manager,
\* and registers that cannot be mapped are not reported.
THEOREM AipOpenIsReady == AipSpec => []OpenIsReady
  <1>1. AipInv => OpenIsReady
    BY DEF AipInv
  <1> QED
    BY <1>1, AipAlways, PTL
=============================================================================

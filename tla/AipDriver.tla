------------------------------- MODULE AipDriver -------------------------------
(***************************************************************************)
(* The driver as a whole comes and goes: jz_aip_v20_probe registers the    *)
(* interrupt handlers and the device and then initialises what they use,   *)
(* one step each, while processes open the device and interrupts arrive;   *)
(* jz_aip_v20_remove; suspend and resume, and the clock that they and the  *)
(* first open and the last close switch.                                   *)
(*                                                                         *)
(* Whatever uses a lock or list that is not initialised, or the device     *)
(* structure after it was freed, ends the behaviour (misuse).  The module    *)
(* cannot be unloaded while a file is open (fops.owner).                   *)
(***************************************************************************)
EXTENDS Integers, FiniteSets

CONSTANTS
  RepairA1,        \* CONFIG_AIP_V20_REPAIR_A1
  MaxFiles,        \* bound on the files open at once
  MaxProbes        \* bound on the probes

ASSUME DriverAssumption == RepairA1 \in BOOLEAN /\ MaxFiles \in Nat /\ MaxProbes \in Nat

Irqs == {"t_irq", "f_irq", "p_irq"}

VARIABLES
  dev,             \* "none", "bound", or the step that probe or remove is at
  inited,          \* what is initialised
  irqs,            \* the handlers that are registered
  oram_pool,       \* "null", "error" (an error pointer), "empty" or "ready"
  irq_ret,         \* 0, or the error that jz_aip_v20_irq_init will return
  misc,            \* 1: the misc device is registered
  kfreed,          \* how often the memory of this device was freed
  files,           \* open files
  clk,             \* 1: the clock is on
  awake,           \* 0: the system sleeps
  probes,          \* history: number of probes
  resumed,         \* history: 1: the clock was switched on by resume
  gateless,        \* history: 1: probe found no gate clock and returned 0
  misuse           \* history: what was misused, at which step

driverVars == <<dev, inited, oram_pool, irqs, irq_ret, misc, kfreed, files, clk, awake, probes,
                resumed, gateless, misuse>>
fileVars == <<files, clk, awake, resumed>>
bindVars == <<probes, gateless>>

DriverInit ==
  /\ dev = "none" /\ inited = {} /\ oram_pool = "null"
  /\ irqs = {} /\ irq_ret = 0 /\ misc = 0 /\ kfreed = 0
  /\ files = 0 /\ clk = 0 /\ awake = 1
  /\ probes = 0 /\ resumed = 0 /\ gateless = 0 /\ misuse = {}

-----------------------------------------------------------------------------
(* jz_aip_v20_probe                                                        *)

\* devm_kzalloc: the memory is new and zero.
ProbeAlloc ==
  /\ dev = "none" /\ probes < MaxProbes
  /\ dev' = IF RepairA1 THEN "gate" ELSE "regs"
  /\ probes' = probes + 1
  /\ kfreed' = 0 /\ inited' = {} /\ oram_pool' = "null" /\ irq_ret' = 0 /\ gateless' = 0
  /\ UNCHANGED <<irqs, misc, fileVars, misuse>>

\* On the A1 the gate clock is switched on, for good.
GateClock ==
  /\ dev = "gate" /\ dev' = "regs"
  /\ UNCHANGED <<inited, oram_pool, irqs, irq_ret, misc, kfreed, fileVars, bindVars, misuse>>

\* Without a gate clock probe returns the error of io_regs, which is not set
\* yet: PTR_ERR(NULL) is 0, and the device is bound with nothing behind it.
NoGateClock ==
  /\ dev = "gate" /\ dev' = "bound" /\ gateless' = 1
  /\ UNCHANGED <<inited, oram_pool, irqs, irq_ret, misc, kfreed, fileVars, probes, misuse>>

ProbeRegs ==
  /\ dev = "regs" /\ dev' = "t_irq"
  /\ UNCHANGED <<inited, oram_pool, irqs, irq_ret, misc, kfreed, fileVars, bindVars, misuse>>

\* The managed resources go with the device: handlers, memory.
Devres == irqs' = {} /\ kfreed' = kfreed + 1 /\ dev' = "none"

\* The registers cannot be mapped, the device cannot be registered.
ProbeFails ==
  /\ dev \in {"regs", "misc"}
  /\ Devres
  /\ UNCHANGED <<inited, oram_pool, irq_ret, misc, fileVars, bindVars, misuse>>

\* All three handlers are tried, whatever becomes of the others.
IrqInit(irq, next) ==
  /\ dev = irq
  /\ \/ irqs' = irqs \cup {irq} /\ UNCHANGED irq_ret
     \/ irqs' = irqs /\ irq_ret' = 1
  /\ dev' = next
  /\ UNCHANGED <<inited, oram_pool, misc, kfreed, fileVars, bindVars, misuse>>

jz_aip_v20_irq_init ==
  \/ IrqInit("t_irq", "f_irq") \/ IrqInit("f_irq", "p_irq") \/ IrqInit("p_irq", "irq_ret")

IrqInitDone ==
  /\ dev = "irq_ret"
  /\ IF irq_ret = 0 THEN dev' = "misc" /\ UNCHANGED <<irqs, kfreed>> ELSE Devres
  /\ UNCHANGED <<inited, oram_pool, irq_ret, misc, fileVars, bindVars, misuse>>

misc_register ==
  /\ dev = "misc" /\ dev' = "struct_mutex" /\ misc' = 1
  /\ UNCHANGED <<inited, oram_pool, irqs, irq_ret, kfreed, fileVars, bindVars, misuse>>

Initialised(what, next) ==
  /\ dev = what /\ dev' = next
  /\ inited' = inited \cup {what}
  /\ UNCHANGED <<oram_pool, irqs, irq_ret, misc, kfreed, fileVars, bindVars, misuse>>

LocksThenNna == Initialised("struct_mutex", "bo") \/ Initialised("bo", "nna") \* mutant: core_init is forgotten

ProbeLocks == Initialised("struct_mutex", "bo") \/ Initialised("bo", "core")

jz_aip_v20_core_init == Initialised("core", "nna")

\* An unknown ORAM configuration returns before anything is initialised, and
\* probe does not look at the result.
NnaUnknownOram ==
  /\ dev = "nna" /\ dev' = "bound"
  /\ UNCHANGED <<inited, oram_pool, irqs, irq_ret, misc, kfreed, fileVars, bindVars, misuse>>

\* The NNA's locks and lists; with all of the L2 memory used as cache there is
\* no ORAM.
NnaLocks == Initialised("nna", "bound") \/ Initialised("nna", "pool")

\* When the pool cannot be created the error pointer stays in oram_pool.
PoolCreate ==
  /\ dev = "pool"
  /\ \/ oram_pool' = "error" /\ dev' = "bound"
     \/ oram_pool' = "empty" /\ dev' = "pool_add"
  /\ UNCHANGED <<inited, irqs, irq_ret, misc, kfreed, fileVars, bindVars, misuse>>

\* gen_pool_add_virt, which may fail.  (devm_ioremap_wc before it returns NULL
\* when it fails, never an error pointer: its test never hits, and the pool
\* then starts at address 0, which the driver does not access.)
PoolAdd ==
  /\ dev = "pool_add" /\ dev' = "bound"
  /\ oram_pool' \in {"empty", "ready"}
  /\ UNCHANGED <<inited, irqs, irq_ret, misc, kfreed, fileVars, bindVars, misuse>>

jz_nna_v20_core_init == NnaUnknownOram \/ NnaLocks \/ PoolCreate \/ PoolAdd

-----------------------------------------------------------------------------
(* jz_aip_v20_remove, when the module is unloaded.                         *)

\* A call uses parts of the device, at the step that probe or remove is at.
Uses(what) ==
  misuse' = {<<w, dev>> : w \in (what \ inited) \cup (IF kfreed > 0 THEN {"memory"} ELSE {})}

\* The idr of the buffers and the device file go, as if probe had made them.
RemoveFirst ==
  /\ dev = "bound" /\ files = 0
  /\ Uses({"bo"} \cup (IF misc = 0 THEN {"misc"} ELSE {}))
  /\ misc' = 0 /\ inited' = inited \ {"bo"} /\ dev' = "kfree"
  /\ UNCHANGED <<oram_pool, irqs, irq_ret, kfreed, fileVars, bindVars>>

\* kfree of memory that is managed, with the handlers still registered ...
RemoveFree ==
  /\ dev = "kfree"
  /\ kfreed' = kfreed + 1 /\ dev' = "devres"
  /\ UNCHANGED <<inited, oram_pool, irqs, irq_ret, misc, fileVars, bindVars, misuse>>

\* ... and the managed resources afterwards: the memory is freed twice.
RemoveDone ==
  /\ dev = "devres"
  /\ Devres
  /\ UNCHANGED <<inited, oram_pool, irq_ret, misc, fileVars, bindVars, misuse>>

-----------------------------------------------------------------------------
(* What others do meanwhile.                                               *)

\* An interrupt on the line, which may be shared: with a status that ends a
\* job the handler uses the job list, otherwise the registers only.
irq_handler(irq) ==
  /\ irq \in irqs
  /\ \E what \in {{}, {"core"}} : Uses(what)
  /\ UNCHANGED <<dev, inited, oram_pool, irqs, irq_ret, misc, kfreed, fileVars, bindVars>>

jz_aip_v20_open ==
  /\ misc = 1 /\ awake = 1 /\ files < MaxFiles
  /\ Uses({"struct_mutex"})
  /\ files' = files + 1
  /\ IF files = 0 THEN clk' = 1 /\ resumed' = 0 ELSE UNCHANGED <<clk, resumed>>
  /\ UNCHANGED <<dev, inited, oram_pool, irqs, irq_ret, misc, kfreed, awake, bindVars>>

\* ORAM is asked of any pool that is not NULL, and only a pool that has
\* units gets to the lock.
OramUses == IF oram_pool = "error" THEN {"pool"} ELSE IF oram_pool = "ready" THEN {"nna"} ELSE {}

\* Submit and wait, buffers, the NNA lock and ORAM.
jz_aip_v20_ioctl ==
  /\ files > 0 /\ awake = 1
  /\ \E what \in {{"core", "bo"}, {"core"}, {"bo"}, {"nna"}, OramUses} : Uses(what)
  /\ UNCHANGED <<dev, inited, oram_pool, irqs, irq_ret, misc, kfreed, fileVars, bindVars>>

ReleaseNoClock == \* mutant: the last close leaves the clock on
  /\ files > 0 /\ awake = 1
  /\ Uses({"core", "bo", "nna", "struct_mutex"})
  /\ files' = files - 1
  /\ UNCHANGED <<dev, inited, oram_pool, irqs, irq_ret, misc, kfreed, clk, awake, bindVars, resumed>>

\* Every close goes through all lists; the last one switches the clock off.
jz_aip_v20_release ==
  /\ files > 0 /\ awake = 1
  /\ Uses({"core", "bo", "nna", "struct_mutex"})
  /\ files' = files - 1
  /\ clk' = IF files = 1 THEN 0 ELSE clk
  /\ UNCHANGED <<dev, inited, oram_pool, irqs, irq_ret, misc, kfreed, awake, bindVars, resumed>>

\* Processes sleep; the clock goes off whoever has a file open.
jz_aip_v20_suspend ==
  /\ dev = "bound" /\ awake = 1
  /\ clk' = 0 /\ awake' = 0
  /\ UNCHANGED <<dev, inited, oram_pool, irqs, irq_ret, misc, kfreed, files, bindVars, resumed, misuse>>

\* The clock goes on, whether or not a file is open.
jz_aip_v20_resume ==
  /\ dev = "bound" /\ awake = 0
  /\ clk' = 1 /\ awake' = 1 /\ resumed' = 1
  /\ UNCHANGED <<dev, inited, oram_pool, irqs, irq_ret, misc, kfreed, files, bindVars, misuse>>

DriverNext ==
  /\ misuse = {}
  /\ \/ awake = 1 /\ \/ ProbeAlloc \/ GateClock \/ NoGateClock \/ ProbeRegs \/ ProbeFails
                     \/ jz_aip_v20_irq_init \/ IrqInitDone \/ misc_register
                     \/ ProbeLocks \/ jz_aip_v20_core_init \/ jz_nna_v20_core_init
                     \/ RemoveFirst \/ RemoveFree \/ RemoveDone
     \/ \E irq \in Irqs : irq_handler(irq)
     \/ jz_aip_v20_open \/ jz_aip_v20_ioctl \/ jz_aip_v20_release
     \/ jz_aip_v20_suspend \/ jz_aip_v20_resume

DriverSpec == DriverInit /\ [][DriverNext]_driverVars
-----------------------------------------------------------------------------
Parts == {"struct_mutex", "bo", "core", "nna"}
DevSteps == Irqs \cup Parts \cup {"none", "gate", "regs", "irq_ret", "misc", "pool", "pool_add",
                                 "bound", "kfree", "devres"}

\* Every variable of the driver keeps its type.
DriverTypeOK ==
  /\ dev \in DevSteps /\ inited \subseteq Parts /\ irqs \subseteq Irqs
  /\ oram_pool \in {"null", "error", "empty", "ready"}
  /\ {irq_ret, misc, clk, awake, resumed, gateless} \subseteq {0, 1}
  /\ kfreed \in 0..2 /\ files \in 0..MaxFiles /\ probes \in 0..MaxProbes
  /\ misuse \subseteq (Parts \cup {"memory", "misc", "pool"}) \X DevSteps

\* What can be misused, and when: something that is not initialised yet only
\* between the registration of the first handler and the end of probe; freed
\* memory only by an interrupt while remove runs.  In a bound driver all is
\* safe but what the errors of probe that it does not report leave behind: the
\* NNA's part after an unknown ORAM configuration, the ORAM pool that could
\* not be created, and on an A1 without gate clock the tear-down of what was
\* never set up.
MisusedOnlyEarly ==
  \A h \in misuse :
    \/ h[1] \in Parts /\ h[2] \notin {"none", "gate", "regs", "bound", "kfree", "devres"}
    \/ h = <<"nna", "bound">>
    \/ h = <<"pool", "bound">> /\ oram_pool = "error"
    \/ h[1] \in {"bo", "misc"} /\ h[2] = "bound" /\ gateless = 1
    \/ h = <<"memory", "devres">>

\* A probe that fails leaves no handler and no device behind.  A bound driver
\* has all its handlers, its device and its locks, unless it is bound to an
\* A1 without gate clock: then it has nothing at all.
ProbeAllOrNothing ==
  /\ dev = "none" => irqs = {} /\ misc = 0
  /\ dev = "bound" =>
       IF gateless = 1 THEN irqs = {} /\ misc = 0 /\ inited = {}
       ELSE irqs = Irqs /\ misc = 1 /\ {"struct_mutex", "bo", "core"} \subseteq inited

\* The clock is on while a file is open and the system awake, whatever opens,
\* closes, suspends and resumes came before; it is on for nobody only after
\* resume has switched it on.
ClockFollowsFiles ==
  awake = 1 => /\ files > 0 => clk = 1
               /\ clk = 1 => files > 0 \/ resumed = 1
=============================================================================

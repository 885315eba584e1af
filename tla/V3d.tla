---------------------------------- MODULE V3d ----------------------------------
(***************************************************************************)
(* The VideoCore service (src/pi5-v3d): a kernel file owns a session, for  *)
(* which the driver leases the clock and the reset gate, wakes the core,   *)
(* allocates the page table and eight fixed buffers and starts the MMU.    *)
(* A memory session maps further buffers; jobs run one at a time.          *)
(* Anything uncertain is a Fault: it lasts for the boot and keeps          *)
(* everything the GPU might still reach.                                   *)
(*                                                                         *)
(* Handlers hold the wait lock.  "at" is the step the running one is at,   *)
(* so the GPU's own steps interleave with it; a handler that only fails or *)
(* succeeds as a whole is one action.  Memory, translations and allocation *)
(* are sets of slots, as in module Iommu.                                  *)
(***************************************************************************)
EXTENDS Naturals

CONSTANTS
  Files,           \* file objects of kernel clients
  NoFile,          \* c->Owner == NULL
  NumSlots,        \* PI5_V3D_BUFFER_LIMIT
  Root,            \* stands for Table, Trap and the other six fixed buffers
  MaxJobs,         \* bound on the submissions of a behaviour
  MarkerFailures   \* bound: how often the registry marker cannot be created

Slots == 0..(NumSlots - 1)

VARIABLES
  pnp,         \* "absent", "prepared" or "d0"
  regs,        \* c->Registers are mapped
  online,      \* c->Status.Online
  bootFault,   \* static BootFault of the loaded driver
  marker,      \* the volatile registry key Pi5V3dFault exists
  lost,        \* history: markers that could not be created
  pinned,      \* static stop and remove are disallowed
  owner,       \* c->Owner
  memSession,  \* c->MemorySession
  clock, pm,   \* c->Clock and c->Pm: "closed", "open", or "leased" (ClockLease, PmLease)
  powered, claimed, woke,   \* of the context
  irqLive,     \* c->IrqLive, of both interrupts
  clean,       \* c->GuardsClean
  slot,        \* slot[s]: "none", "own" or "import" (ImportedMdl)
  submitted, completed,     \* fences: MemorySubmitted and MemoryCompleted
  at,          \* step of the handler that holds the lock, "idle" if none does
  wants,       \* the running Begin is MEMORY_BEGIN
  bin,         \* the job that runs is the binning half of a command list
  memory,      \* buffers the driver has not given back (common buffers, importers' pages)
  clockHeld, pmHeld,        \* external: the providers count a lease of this driver
  asleep,      \* external: the power domain of the core sleeps
  ptes,        \* external: slots mapped by the page table
  tlb,         \* external: slots whose translation the GPU may still use
  mmuOn,       \* external: the GPU translates through the table
  job,         \* external: "none", "running", or "done" with writes in its caches
  corrupt,     \* external: a guard page was overwritten
  found        \* history: the core slept when it was first looked at

latch    == <<bootFault, marker, lost, pinned>>
life     == <<pnp, regs, online>>
session  == <<owner, memSession>>
targets  == <<clock, pm, clockHeld, pmHeld>>
core     == <<powered, claimed, woke, asleep>>
buffers  == <<memory, slot, ptes>>
gpu      == <<tlb, mmuOn, job>>
fences   == <<submitted, completed>>
progress == <<wants, bin>>
vars == <<latch, life, session, targets, core, irqLive, clean, buffers, gpu,
          corrupt, fences, progress, at, found>>

Steps == {"idle", "open", "clock", "pm", "power", "wake", "identify", "allocate",
          "reset", "mmu", "clear", "wait",
          "end", "check", "sleep", "free", "dropPm", "dropClock", "close"}

TypeOK ==
  /\ pnp \in {"absent", "prepared", "d0"} /\ regs \in BOOLEAN /\ online \in BOOLEAN
  /\ bootFault \in BOOLEAN /\ marker \in BOOLEAN /\ lost \in 0..MarkerFailures
  /\ pinned \in BOOLEAN /\ owner \in Files \union {NoFile} /\ memSession \in BOOLEAN
  /\ clock \in {"closed", "open", "leased"} /\ pm \in {"closed", "open", "leased"}
  /\ powered \in BOOLEAN /\ claimed \in BOOLEAN /\ woke \in BOOLEAN
  /\ irqLive \in BOOLEAN /\ clean \in BOOLEAN
  /\ slot \in [Slots -> {"none", "own", "import"}]
  /\ submitted \in 0..MaxJobs /\ completed \in 0..submitted
  /\ at \in Steps /\ wants \in BOOLEAN /\ bin \in BOOLEAN
  /\ memory \subseteq Slots \union {Root}
  /\ ptes \subseteq Slots \union {Root} /\ tlb \subseteq Slots \union {Root}
  /\ clockHeld \in BOOLEAN /\ pmHeld \in BOOLEAN /\ asleep \in BOOLEAN
  /\ mmuOn \in BOOLEAN /\ job \in {"none", "running", "done"}
  /\ corrupt \in BOOLEAN /\ found \in BOOLEAN

-------------------------------------------------------------------------------
(* Outcomes of a step.                                                      *)

\* The handler goes on at step l.
GoOn(l) == at' = l /\ UNCHANGED latch

\* Fault: latched in the driver, the registry (unless it refuses) and the PnP state.
Fault ==
  /\ at' = "idle" /\ bootFault' = TRUE /\ pinned' = TRUE
  /\ \/ marker' = TRUE /\ lost' = lost
     \/ ~marker /\ lost < MarkerFailures /\ marker' = FALSE /\ lost' = lost + 1

\* Guards: the pages before and behind each buffer, unless nothing can have changed
\* since they were last compared.
GuardsPass == (clean \/ ~corrupt) /\ clean' = TRUE

\* V3dMmuFlush: done, or a poll ran out before or after the TLB was cleared.
Flushed == tlb' = {}
FlushFails == tlb' \in {tlb, {}}

\* A reset of the core that failed may have happened.
PulseFails ==
  \/ UNCHANGED gpu
  \/ mmuOn' = FALSE /\ tlb' = {} /\ job' = "none"

Ready == at = "idle" /\ pnp = "d0" /\ online /\ ~bootFault
Serves(f) == Ready /\ owner = f

-------------------------------------------------------------------------------
(* Begin and MemoryBegin.                                                   *)

Begin(f, memoryWanted) ==
  /\ Ready /\ owner = NoFile
  /\ owner' = f /\ pinned' = TRUE
  /\ at' = "open" /\ wants' = memoryWanted
  /\ UNCHANGED <<bootFault, marker, lost, life, memSession, targets, core, irqLive,
                 clean, buffers, gpu, corrupt, fences, bin, found>>

\* A refusal before any Fault goes through End.
Refuse == GoOn("end") /\ wants' = FALSE

\* Graph and the two Opens.
OpenProviders ==
  /\ at = "open"
  /\ \/ clock' = "open" /\ pm' = "open" /\ GoOn("clock") /\ UNCHANGED wants
     \/ clock' \in {"closed", "open"} /\ UNCHANGED pm /\ Refuse
  /\ UNCHANGED <<life, session, clockHeld, pmHeld, core, irqLive, clean, buffers, gpu,
                 corrupt, fences, bin, found>>

\* A lease whose answer is lost counts with the provider and not here.
AcquireClock ==
  /\ at = "clock"
  /\ \/ clock' = "leased" /\ clockHeld' = TRUE /\ GoOn("pm") /\ UNCHANGED wants
     \/ UNCHANGED clock /\ clockHeld' \in BOOLEAN /\ Refuse
  /\ UNCHANGED <<life, session, pm, pmHeld, core, irqLive, clean, buffers, gpu,
                 corrupt, fences, bin, found>>

AcquirePm ==
  /\ at = "pm"
  /\ \/ pm' = "leased" /\ pmHeld' = TRUE /\ GoOn("power") /\ UNCHANGED wants
     \/ UNCHANGED pm /\ pmHeld' \in BOOLEAN /\ Refuse
  /\ UNCHANGED <<life, session, clock, clockHeld, core, irqLive, clean, buffers, gpu,
                 corrupt, fences, bin, found>>

\* SET_STATE, and SET_RATE to the maximum.
PowerUp ==
  /\ at = "power"
  /\ \/ powered' = TRUE /\ found' = asleep /\ GoOn("wake") /\ UNCHANGED wants
     \/ Refuse /\ UNCHANGED <<powered, found>>
  /\ UNCHANGED <<life, session, targets, claimed, woke, asleep, irqLive, clean, buffers,
                 gpu, corrupt, fences, bin>>

\* Another mode or a lock of the power domain is never changed.
Wake ==
  /\ at = "wake"
  /\ \/ Refuse /\ UNCHANGED core
     \/ ~asleep /\ GoOn("identify") /\ UNCHANGED <<core, wants>>
     \/ /\ asleep /\ woke' = TRUE /\ UNCHANGED <<powered, claimed>>
        /\ \/ asleep' = FALSE /\ GoOn("identify") /\ UNCHANGED wants
           \/ asleep' \in BOOLEAN /\ Fault /\ wants' = FALSE
  /\ UNCHANGED <<life, session, targets, irqLive, clean, buffers, gpu, corrupt, fences,
                 bin, found>>

\* A core that is unknown or in use is refused.
Identify ==
  /\ at = "identify"
  /\ \/ Refuse /\ UNCHANGED claimed
     \/ job = "none" /\ ~mmuOn /\ claimed' = TRUE /\ GoOn("allocate") /\ UNCHANGED wants
  /\ UNCHANGED <<life, session, targets, powered, woke, asleep, irqLive, clean, buffers,
                 gpu, corrupt, fences, bin, found>>

\* Some of the eight buffers may be there when one cannot be had.
AllocateFixed ==
  /\ at = "allocate" /\ clean' = FALSE
  /\ \/ memory' = memory \union {Root} /\ ptes' = {Root} /\ GoOn("reset") /\ UNCHANGED wants
     \/ memory' \in {memory, memory \union {Root}} /\ UNCHANGED ptes /\ Refuse
  /\ UNCHANGED <<life, session, targets, core, irqLive, slot, gpu, corrupt, fences, bin, found>>

\* MemoryBegin drops the mappings of the fixed buffers.
ClearTable ==
  /\ at = "clear" /\ wants' = FALSE
  /\ \/ Fault /\ UNCHANGED <<memSession, ptes, tlb>>
     \/ Fault /\ FlushFails /\ ptes' = {} /\ UNCHANGED memSession
     \/ GoOn("idle") /\ Flushed /\ ptes' = {} /\ memSession' = TRUE
  /\ UNCHANGED <<life, owner, targets, core, irqLive, clean, memory, slot, mmuOn, job,
                 corrupt, fences, bin, found>>

-------------------------------------------------------------------------------
(* Reset, of a session or as the last part of Begin.                        *)

ResetSession(f) ==
  /\ Serves(f) /\ GoOn("reset")
  /\ UNCHANGED <<life, session, targets, core, irqLive, clean, buffers, gpu, corrupt,
                 fences, progress, found>>

\* Mask, V3dDrain, V3dSmsReset and the provider's pulse: a core that does not become
\* idle is not reset.
ResetCore ==
  /\ at = "reset"
  /\ clean' = FALSE /\ irqLive' = FALSE
  /\ \/ /\ job # "running" /\ GoOn("mmu") /\ UNCHANGED wants
        /\ job' = "none" /\ mmuOn' = FALSE /\ tlb' = {}
     \/ UNCHANGED gpu /\ Fault /\ wants' = FALSE
     \/ job # "running" /\ PulseFails /\ Fault /\ wants' = FALSE
  /\ UNCHANGED <<life, session, targets, core, buffers, corrupt, fences, bin, found>>

\* V3dMmuStart, then the interrupts.
StartMmu ==
  /\ at = "mmu"
  /\ \/ /\ mmuOn' = TRUE /\ Flushed /\ irqLive' = TRUE
        /\ GoOn(IF wants THEN "clear" ELSE "idle") /\ UNCHANGED wants
     \/ Fault /\ wants' = FALSE /\ mmuOn' \in BOOLEAN /\ FlushFails /\ UNCHANGED irqLive
  /\ UNCHANGED <<life, session, targets, core, clean, buffers, job, corrupt, fences, bin, found>>

-------------------------------------------------------------------------------
(* Buffers of a memory session.                                             *)

ServesMemory(f) == Serves(f) /\ memSession

\* V3dDrain ran out or a guard was overwritten.
CheckFails ==
  /\ Fault
  /\ UNCHANGED <<life, session, targets, core, irqLive, clean, buffers, gpu, corrupt,
                 fences, progress, found>>

\* ObjectCreate and ObjectImport into the first free slot; the page is counted and
\* mapped before the flush.
Place(f, s, kind) ==
  /\ ServesMemory(f) /\ slot[s] = "none" /\ \A r \in Slots : r < s => slot[r] # "none"
  /\ clean \/ ~corrupt
  /\ slot' = [slot EXCEPT ![s] = kind]
  /\ memory' = memory \union {s} /\ ptes' = ptes \union {s}
  /\ clean' = (kind = "import")
  /\ \/ Flushed /\ GoOn("idle")
     \/ FlushFails /\ Fault
  /\ UNCHANGED <<life, session, targets, core, irqLive, mmuOn, job, corrupt, fences,
                 progress, found>>

\* No common buffer is to be had.
CreateRefused(f) ==
  /\ ServesMemory(f) /\ (clean \/ ~corrupt) /\ \E s \in Slots : slot[s] = "none"
  /\ clean' = FALSE
  /\ UNCHANGED <<latch, life, session, targets, core, irqLive, buffers, gpu, corrupt,
                 fences, progress, at, found>>

\* ObjectDestroy: unmapped, flushed and the caches invalidated before it is given back.
Destroy(f, s) ==
  /\ ServesMemory(f) /\ slot[s] # "none" /\ (clean \/ ~corrupt)
  /\ ptes' = ptes \ {s}
  /\ \/ /\ Flushed /\ GoOn("idle") /\ clean' = FALSE
        /\ slot' = [slot EXCEPT ![s] = "none"] /\ memory' = memory \ {s}
     \/ /\ FlushFails /\ Fault /\ clean' = TRUE /\ UNCHANGED <<slot, memory>>
  /\ UNCHANGED <<life, session, targets, core, irqLive, mmuOn, job, corrupt, fences,
                 progress, found>>

\* ObjectTransfer, and the checks that open every request about buffers.
TransferOrCheck(f) ==
  /\ ServesMemory(f)
  /\ \/ CheckFails
     \/ /\ GuardsPass
        /\ UNCHANGED <<latch, life, session, targets, core, irqLive, buffers, gpu, corrupt,
                       fences, progress, at, found>>

-------------------------------------------------------------------------------
(* Jobs: Copy, Compute, Render of a plain session, ObjectTfu and            *)
(* ObjectSubmit of a memory session.                                        *)
\* Arm.  A job of a plain session may overwrite guards, one of a memory session
\* only reaches payload pages.
Arm == irqLive' = TRUE /\ clean' = memSession

Submit(f) ==
  /\ Serves(f)
  /\ \/ CheckFails
     \/ /\ submitted < MaxJobs /\ (clean \/ ~corrupt) /\ job # "running"
        /\ Arm /\ GoOn("wait")
        /\ submitted' = submitted + 1 /\ job' = "running" /\ bin' \in BOOLEAN
        /\ UNCHANGED <<life, session, targets, core, buffers, tlb, mmuOn, corrupt,
                       completed, wants, found>>
\* The deadline, an MMU fault, or an interrupt nobody asked for.
WaitFails ==
  /\ at = "wait" /\ irqLive' = FALSE
  /\ Fault /\ bin' = FALSE
  /\ UNCHANGED <<life, session, targets, core, clean, buffers, gpu, corrupt, fences,
                 wants, found>>

\* V3dDrain, the exact interrupts or a guard did not check after the completion.
CompletionFails ==
  /\ at = "wait" /\ job = "done"
  /\ Fault /\ bin' = FALSE
  /\ UNCHANGED <<life, session, targets, core, irqLive, clean, buffers, gpu, corrupt,
                 fences, wants, found>>
\* The rendering half starts when the binning half is drained.
StartRender ==
  /\ at = "wait" /\ job = "done" /\ bin
  /\ Arm /\ job' = "running" /\ bin' = FALSE
  /\ UNCHANGED <<latch, life, session, targets, core, buffers, tlb, mmuOn, corrupt, fences,
                 wants, at, found>>

\* The fence is given out when the engine is done, drained and the guards are intact.
Complete ==
  /\ at = "wait" /\ job = "done" /\ ~bin
  /\ GuardsPass /\ GoOn("idle")
  /\ job' = "none" /\ completed' = submitted
  /\ UNCHANGED <<life, session, targets, core, irqLive, buffers, tlb, mmuOn, corrupt,
                 submitted, progress, found>>

\* The self-test of the interrupts: no job runs.
InterruptCheck(f) ==
  /\ Serves(f) /\ irqLive' = TRUE /\ clean' = (clean /\ memSession)
  /\ GoOn("idle") \/ Fault
  /\ UNCHANGED <<life, session, targets, core, buffers, gpu, corrupt, fences, progress, found>>

\* QUERY compares all guards, for any file.
Query ==
  /\ at = "idle" /\ pnp = "d0" /\ claimed /\ ~bootFault
  /\ IF corrupt THEN Fault /\ clean' = FALSE ELSE GoOn("idle") /\ clean' = TRUE
  /\ UNCHANGED <<life, session, targets, core, irqLive, buffers, gpu, corrupt, fences,
                 progress, found>>

-------------------------------------------------------------------------------
(* End: by its request, by Cleanup of the owner's file, by leaving D0.      *)

EndSession(f) ==
  /\ Serves(f) /\ GoOn("end")
  /\ UNCHANGED <<life, session, targets, core, irqLive, clean, buffers, gpu, corrupt,
                 fences, progress, found>>

Cleanup(f) ==
  /\ at = "idle" /\ owner = f /\ ~bootFault /\ GoOn("end")
  /\ UNCHANGED <<life, session, targets, core, irqLive, clean, buffers, gpu, corrupt,
                 fences, progress, found>>
\* Mutant: End resets a core that did not drain.
EndCore_IgnoresDrain ==
  /\ at = "end" /\ clean' = FALSE
  /\ \/ ~claimed /\ GoOn("sleep") /\ UNCHANGED <<irqLive, gpu>>
     \/ claimed /\ irqLive' = FALSE /\ GoOn("check") /\ UNCHANGED gpu
  /\ UNCHANGED <<life, session, targets, core, buffers, corrupt, fences, progress, found>>

\* A core that was claimed is drained and reset first.
EndCore ==
  /\ at = "end" /\ clean' = FALSE
  /\ \/ ~claimed /\ GoOn("sleep") /\ UNCHANGED <<irqLive, gpu>>
     \/ /\ claimed /\ irqLive' = FALSE
        /\ \/ /\ job # "running" /\ GoOn("check")
              /\ job' = "none" /\ mmuOn' = FALSE /\ tlb' = {}
           \/ UNCHANGED gpu /\ Fault
           \/ job # "running" /\ PulseFails /\ Fault
  /\ UNCHANGED <<life, session, targets, core, buffers, corrupt, fences, progress, found>>
\* Idle, with the MMU's registers at zero and all guards intact.
EndCheck ==
  /\ at = "check"
  /\ \/ ~corrupt /\ clean' = TRUE /\ claimed' = FALSE /\ GoOn("sleep")
     \/ Fault /\ UNCHANGED <<clean, claimed>>
  /\ UNCHANGED <<life, session, targets, powered, woke, asleep, irqLive, buffers, gpu,
                 corrupt, fences, progress, found>>
\* A core this session woke goes back to sleep.
EndSleep ==
  /\ at = "sleep"
  /\ \/ ~woke /\ powered' = FALSE /\ GoOn("free") /\ UNCHANGED <<woke, asleep>>
     \/ woke /\ woke' = FALSE /\ asleep' = TRUE /\ powered' = FALSE /\ GoOn("free")
     \/ woke /\ asleep' \in BOOLEAN /\ Fault /\ UNCHANGED <<woke, powered>>
  /\ UNCHANGED <<life, session, targets, claimed, irqLive, clean, buffers, gpu, corrupt,
                 fences, progress, found>>

EndFree ==
  /\ at = "free" /\ GoOn("dropPm")
  /\ memory' = {} /\ ptes' = {} /\ slot' = [s \in Slots |-> "none"]
  /\ memSession' = FALSE /\ clean' = FALSE /\ corrupt' = FALSE
  /\ UNCHANGED <<life, owner, targets, core, irqLive, gpu, fences, progress, found>>

\* DropProviders: the gate before the clock; what cannot be returned is kept.
DropPm ==
  /\ at = "dropPm"
  /\ \/ pm # "leased" /\ GoOn("dropClock") /\ UNCHANGED <<pm, pmHeld>>
     \/ pm = "leased" /\ pm' = "open" /\ pmHeld' = FALSE /\ GoOn("dropClock")
     \/ pm = "leased" /\ pmHeld' \in BOOLEAN /\ Fault /\ UNCHANGED pm
  /\ UNCHANGED <<life, session, clock, clockHeld, core, irqLive, clean, buffers, gpu,
                 corrupt, fences, progress, found>>

DropClock ==
  /\ at = "dropClock"
  /\ \/ clock # "leased" /\ GoOn("close") /\ UNCHANGED <<clock, clockHeld>>
     \/ clock = "leased" /\ clock' = "open" /\ clockHeld' = FALSE /\ GoOn("close")
     \/ clock = "leased" /\ clockHeld' \in BOOLEAN /\ Fault /\ UNCHANGED clock
  /\ UNCHANGED <<life, session, pm, pmHeld, core, irqLive, clean, buffers, gpu,
                 corrupt, fences, progress, found>>

\* A provider ends what a closed file still held.
CloseProviders ==
  /\ at = "close" /\ at' = "idle"
  /\ clock' = "closed" /\ pm' = "closed" /\ clockHeld' = FALSE /\ pmHeld' = FALSE
  /\ owner' = NoFile /\ pinned' = FALSE
  /\ UNCHANGED <<bootFault, marker, lost, life, memSession, core, irqLive, clean, buffers,
                 gpu, corrupt, fences, progress, found>>

-------------------------------------------------------------------------------
(* The device's life.                                                       *)

Prepare ==
  /\ pnp = "absent" /\ at = "idle" /\ ~bootFault /\ ~marker
  /\ pnp' = "prepared" /\ regs' = TRUE
  /\ UNCHANGED <<latch, online, session, targets, core, irqLive, clean, buffers, gpu,
                 corrupt, fences, progress, at, found>>

Entry ==
  /\ pnp = "prepared" /\ regs /\ at = "idle" /\ ~bootFault
  /\ pnp' = "d0" /\ online' = TRUE
  /\ UNCHANGED <<latch, regs, session, targets, core, irqLive, clean, buffers, gpu,
                 corrupt, fences, progress, at, found>>

\* InterruptDisable, then Exit: an owner's session is ended, not kept.
Exit ==
  /\ pnp = "d0" /\ at = "idle"
  /\ pnp' = "prepared" /\ online' = FALSE /\ irqLive' = FALSE
  /\ GoOn(IF owner # NoFile /\ ~bootFault THEN "end" ELSE "idle")
  /\ UNCHANGED <<regs, session, targets, core, clean, buffers, gpu, corrupt, fences,
                 progress, found>>

ReleaseHardware ==
  /\ pnp = "prepared" /\ regs /\ at = "idle"
  /\ regs' = FALSE /\ online' = FALSE
  /\ IF owner # NoFile THEN Fault ELSE GoOn("idle")
  /\ UNCHANGED <<pnp, session, targets, core, irqLive, clean, buffers, gpu, corrupt,
                 fences, progress, found>>

\* The context goes with the device, the providers' files too; memory that was not
\* freed stays allocated.
Remove ==
  /\ pnp = "prepared" /\ ~regs /\ at = "idle"
  /\ pnp' = "absent" /\ pinned' = FALSE
  /\ owner' = NoFile /\ memSession' = FALSE /\ clean' = FALSE
  /\ clock' = "closed" /\ pm' = "closed" /\ clockHeld' = FALSE /\ pmHeld' = FALSE
  /\ powered' = FALSE /\ claimed' = FALSE /\ woke' = FALSE
  /\ slot' = [s \in Slots |-> "none"] /\ submitted' = 0 /\ completed' = 0
  /\ UNCHANGED <<bootFault, marker, lost, regs, online, asleep, irqLive, memory, ptes,
                 gpu, corrupt, progress, at, found>>

Unload ==
  /\ pnp = "absent" /\ bootFault /\ bootFault' = FALSE
  /\ UNCHANGED <<marker, lost, pinned, life, session, targets, core, irqLive, clean, buffers,
                 gpu, corrupt, fences, progress, at, found>>

-------------------------------------------------------------------------------
(* External: the GPU.                                                       *)

JobEnds ==
  /\ job = "running" /\ job' = "done"
  /\ UNCHANGED <<latch, life, session, targets, core, irqLive, clean, buffers, tlb, mmuOn,
                 corrupt, fences, progress, at, found>>

Translate ==
  /\ job = "running" /\ mmuOn
  /\ \E p \in ptes : tlb' = tlb \union {p}
  /\ UNCHANGED <<latch, life, session, targets, core, irqLive, clean, buffers, mmuOn, job,
                 corrupt, fences, progress, at, found>>

\* Only the mappings of a plain session are not bounded by unmapped guard pages.
Overrun ==
  /\ job = "running" /\ ~memSession /\ at = "wait" /\ corrupt' = TRUE
  /\ UNCHANGED <<latch, life, session, targets, core, irqLive, clean, buffers, gpu, fences,
                 progress, at, found>>

-------------------------------------------------------------------------------
Init ==
  /\ pnp = "absent" /\ regs = FALSE /\ online = FALSE
  /\ bootFault = FALSE /\ marker = FALSE /\ lost = 0 /\ pinned = FALSE
  /\ owner = NoFile /\ memSession = FALSE
  /\ clock = "closed" /\ pm = "closed" /\ clockHeld = FALSE /\ pmHeld = FALSE
  /\ powered = FALSE /\ claimed = FALSE /\ woke = FALSE /\ asleep \in BOOLEAN
  /\ irqLive = FALSE /\ clean = FALSE /\ corrupt = FALSE
  /\ slot = [s \in Slots |-> "none"] /\ memory = {} /\ ptes = {}
  /\ tlb = {} /\ mmuOn = FALSE /\ job = "none"
  /\ submitted = 0 /\ completed = 0 /\ wants = FALSE /\ bin = FALSE
  /\ at = "idle" /\ found = asleep

Request(f) ==
  \/ \E m \in BOOLEAN : Begin(f, m)
  \/ ResetSession(f) \/ EndSession(f) \/ Cleanup(f)
  \/ CreateRefused(f) \/ TransferOrCheck(f)
  \/ \E s \in Slots : Destroy(f, s) \/ \E kind \in {"own", "import"} : Place(f, s, kind)
  \/ Submit(f) \/ InterruptCheck(f)

\* The steps of the handler that holds the lock.
Continue ==
  \/ OpenProviders \/ AcquireClock \/ AcquirePm \/ PowerUp \/ Wake \/ Identify
  \/ AllocateFixed \/ ResetCore \/ StartMmu \/ ClearTable
  \/ WaitFails \/ CompletionFails \/ StartRender \/ Complete
  \/ EndCore \/ EndCheck \/ EndSleep \/ EndFree \/ DropPm \/ DropClock \/ CloseProviders

Next ==
  \/ \E f \in Files : Request(f)
  \/ Continue \/ Query
  \/ Prepare \/ Entry \/ Exit \/ ReleaseHardware \/ Remove \/ Unload
  \/ JobEnds \/ Translate \/ Overrun

Spec == Init /\ [][Next]_vars

-------------------------------------------------------------------------------
(* Properties.                                                              *)

\* The GPU never keeps an address of memory that was given back (ObjectDestroy and
\* End free only behind a flush or a reset), whatever failed before.
NothingDangles ==
  /\ ptes \union tlb \subseteq memory
  /\ mmuOn => Root \in memory

\* As long as a GPU that was claimed can run or translate, its clock and reset gate
\* stay leased: also after any Fault, until the device itself is torn down.
GpuKeepsProviders ==
  pnp # "absent" /\ (job # "none" \/ mmuOn \/ claimed) =>
    powered /\ clock = "leased" /\ clockHeld /\ pm = "leased" /\ pmHeld

\* An interrupt the ISR would serve finds mapped registers of a clocked, awake core.
InterruptsFindTheCore ==
  irqLive => regs /\ powered /\ clockHeld /\ claimed /\ (~bootFault => ~asleep)

\* Between two requests there is a whole session or none: every failure of Begin,
\* Reset and End either unwinds completely, to the core's power state it found too,
\* or latches the fault.
SessionIsAll ==
  at = "idle" /\ ~bootFault /\ ~marker =>
    /\ owner = NoFile =>
         /\ memory = {} /\ tlb = {} /\ ~mmuOn /\ ~memSession
         /\ ~powered /\ ~claimed /\ ~woke /\ ~irqLive /\ ~pinned
         /\ clock = "closed" /\ pm = "closed" /\ ~clockHeld /\ ~pmHeld
         /\ asleep = found
    /\ owner # NoFile =>
         /\ pinned /\ powered /\ claimed /\ mmuOn /\ irqLive /\ job = "none"
         /\ memory = {s \in Slots : slot[s] # "none"} \union {Root}

\* A fence is given out once, in order, and only for a job that left the engine and
\* its caches.
FenceIsHonest ==
  [][completed' > completed =>
       completed' = completed + 1 /\ job = "done" /\ job' = "none" /\ ~corrupt]_vars

\* After a fault no file ever owns a session again in this boot, across removal of
\* the device and reload of the driver, if the marker can be created once.
BlocksReuseUntilReboot ==
  [][bootFault \/ marker \/ lost > 0 => owner' \in {owner, NoFile}]_vars
===============================================================================

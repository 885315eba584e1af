--------------------------------- MODULE Iommu ---------------------------------
(***************************************************************************)
(* The IOMMU provider (src/pi5-iommu): one kernel file owns a session with *)
(* a page table of NumSlots buffers; translation is on only inside the     *)
(* synchronous window of Execute, between the consumer's callbacks.        *)
(* Anything uncertain quarantines the device until reboot.                 *)
(*                                                                         *)
(* Handlers hold the wait lock, so a handler is one action, except Execute: *)
(* its callbacks and the DMA they start run concurrently with the rest of  *)
(* the machine, so its stages are steps and "at" is the one it reached.    *)
(* A page table entry, a cached translation and an allocation are members  *)
(* of sets of slots; how a slot's words are encoded is left out.           *)
(***************************************************************************)
EXTENDS Naturals

CONSTANTS
  Files,           \* file objects of kernel consumers
  NoFile,          \* c->Owner == NULL
  NumSlots,        \* MMU_SLOTS
  Root,            \* stands for the Root, L2 and Trap pages, allocated together
  MarkerFailures   \* bound: how often the registry marker cannot be created

Slots == 0..(NumSlots - 1)

ASSUME IommuAssumption ==
  /\ NoFile \notin Files
  /\ NumSlots \in Nat \ {0}
  /\ Root \notin Slots
  /\ MarkerFailures \in Nat

VARIABLES
  pnp,        \* "absent", "prepared" or "d0"
  bootFault,  \* static BootFault of the loaded driver
  marker,     \* the volatile registry key Pi5IommuFault exists
  lost,       \* history: markers that could not be created
  regs,       \* c->Registers are mapped
  online,     \* c->Status.Online
  owner,      \* c->Owner
  staged,     \* c->Hw.Staged
  active,     \* c->Hw.Active
  hwFault,    \* c->Hw.Fault
  buf,        \* buf[s]: "none", "mapped" (Cpu and Mapped) or "retired" (Cpu only)
  at,         \* stage of Execute, "idle" outside it
  memory,     \* common buffers the adapter has not got back
  ptes,       \* external: slots with valid entries in the L2 page
  tlb,        \* external: slots whose translation the hardware may still use
  hwBase,     \* external: unit 4 points to our tables
  hwOn,       \* external: unit 4 translates
  drift,      \* external: somebody else changed a register
  dma,        \* external: the consumer's masters are running
  corrupt     \* external: slots whose guard words were overwritten

boot    == <<bootFault, marker, lost>>
life    == <<pnp, regs, online>>
hw      == <<staged, active, hwFault>>
session == <<owner, buf, memory>>
units   == <<ptes, tlb, hwBase, hwOn>>
world   == <<drift, dma, corrupt>>
vars    == <<boot, life, hw, session, units, world, at>>

TypeOK ==
  /\ pnp \in {"absent", "prepared", "d0"}
  /\ bootFault \in BOOLEAN /\ marker \in BOOLEAN /\ lost \in 0..MarkerFailures
  /\ regs \in BOOLEAN /\ online \in BOOLEAN
  /\ owner \in Files \union {NoFile}
  /\ staged \in BOOLEAN /\ active \in BOOLEAN /\ hwFault \in BOOLEAN
  /\ buf \in [Slots -> {"none", "mapped", "retired"}]
  /\ at \in {"idle", "activate", "transfer", "quiesce"}
  /\ memory \subseteq Slots \union {Root}
  /\ ptes \subseteq Slots /\ tlb \subseteq Slots /\ corrupt \subseteq Slots
  /\ hwBase \in BOOLEAN /\ hwOn \in BOOLEAN /\ drift \in BOOLEAN /\ dma \in BOOLEAN

Allocated == {s \in Slots : buf[s] # "none"}    \* Buffers[s].Cpu != NULL

-------------------------------------------------------------------------------
(* Outcomes.                                                                *)

\* The marker is created unless the registry refuses; nobody looks.
Quarantine ==
  /\ bootFault' = TRUE /\ hwFault' = TRUE
  /\ \/ marker' = TRUE /\ lost' = lost
     \/ ~marker /\ lost < MarkerFailures /\ marker' = FALSE /\ lost' = lost + 1

NoQuarantine == UNCHANGED <<boot, hwFault>>

\* Mutant: the registers are checked but nothing is flushed.
Invalidated_NoFlush == ~drift /\ UNCHANGED tlb

\* MmuInvalidate: the registers are checked, shared cache and TLB are flushed.
\* It fails on drift or when a poll runs out, before or after the flush.
Invalidated == ~drift /\ tlb' = {}
InvalidateFails == tlb' \in {tlb, {}}

\* Guards: the words before and behind the buffers in S are as they were written.
Intact(S) == S \intersect corrupt = {}

\* A request of the file that owns the session; f opens one with Begin.
Ready == at = "idle" /\ online /\ ~bootFault
Serves(f) == Ready /\ owner = f

\* MmuCheck alone failed: nothing but the latch changed.
CheckFails ==
  /\ drift
  /\ Quarantine
  /\ UNCHANGED <<life, staged, active, session, units, world, at>>

-------------------------------------------------------------------------------
(* Sessions and buffers.                                                    *)

\* Refusals before the first register write change nothing and are left out.
Begin(f) ==
  /\ Ready /\ owner = NoFile
  /\ memory' = memory \union {Root}
  /\ staged' = TRUE
  /\ \/ /\ Invalidated /\ NoQuarantine
        /\ owner' = f /\ hwBase' = TRUE
     \/ /\ InvalidateFails /\ Quarantine
        /\ owner' = owner /\ hwBase' \in BOOLEAN
  /\ UNCHANGED <<life, active, buf, ptes, hwOn, world, at>>

\* The first free slot; the buffer is counted before the flush.
Allocate(f) ==
  /\ Serves(f)
  /\ \/ CheckFails
     \/ \E s \in Slots :
          /\ buf[s] = "none" /\ \A r \in Slots : r < s => buf[r] # "none"
          /\ buf' = [buf EXCEPT ![s] = "mapped"]
          /\ memory' = memory \union {s}
          /\ ptes' = ptes \union {s}
          /\ corrupt' = corrupt \ {s}
          /\ \/ Invalidated /\ NoQuarantine
             \/ InvalidateFails /\ Quarantine
          /\ UNCHANGED <<life, owner, staged, active, hwBase, hwOn, drift, dma, at>>

\* Retire with or without release (Free): the guards are checked first, and the
\* memory goes back only after the unmapped slot was flushed.
Retire(f, s, release) ==
  /\ Serves(f) /\ buf[s] # "none"
  /\ \/ CheckFails
     \/ /\ ~Intact({s}) /\ Quarantine
        /\ UNCHANGED <<life, staged, active, session, units, world, at>>
     \/ /\ Intact({s}) /\ ~drift
        /\ release \/ buf[s] = "mapped"
        /\ \/ /\ buf[s] = "retired" /\ NoQuarantine
              /\ UNCHANGED <<ptes, tlb>>
              /\ buf' = [buf EXCEPT ![s] = "none"] /\ memory' = memory \ {s}
           \/ /\ buf[s] = "mapped" /\ Invalidated /\ NoQuarantine
              /\ ptes' = ptes \ {s}
              /\ buf' = [buf EXCEPT ![s] = IF release THEN "none" ELSE "retired"]
              /\ memory' = IF release THEN memory \ {s} ELSE memory
           \/ /\ buf[s] = "mapped" /\ InvalidateFails /\ Quarantine
              /\ ptes' = ptes \ {s}
              /\ UNCHANGED <<buf, memory>>
        /\ UNCHANGED <<life, owner, staged, active, hwBase, hwOn, world, at>>

Sync(f) ==
  /\ Serves(f)
  /\ \/ Invalidated /\ NoQuarantine
     \/ InvalidateFails /\ Quarantine
  /\ UNCHANGED <<life, staged, active, session, ptes, hwBase, hwOn, world, at>>

\* MmuWalk reads the table only after a register check.
Walk(f) == Serves(f) /\ CheckFails

\* MmuEnd restores the unit's registers between two flushes.
EndFails ==
  /\ InvalidateFails /\ Quarantine
  /\ hwBase' \in BOOLEAN /\ staged' = staged

End(f) ==
  /\ Serves(f) /\ Allocated = {}
  /\ \/ /\ Invalidated /\ NoQuarantine
        /\ hwBase' = FALSE /\ staged' = FALSE
        /\ memory' = memory \ {Root} /\ owner' = NoFile
     \/ EndFails /\ UNCHANGED <<memory, owner>>
  /\ UNCHANGED <<life, active, buf, ptes, hwOn, world, at>>

\* Cleanup frees the buffers in slot order and ends the session; the first failure
\* quarantines the rest.  The file's ownership ends in any case.
Cleanup(f) ==
  /\ at = "idle" /\ owner = f /\ owner' = NoFile
  /\ \/ /\ bootFault
        /\ UNCHANGED <<boot, hw, buf, memory, units>>
     \/ /\ ~bootFault /\ Invalidated /\ NoQuarantine /\ Intact(Allocated)
        /\ buf' = [s \in Slots |-> "none"] /\ memory' = memory \ (Allocated \union {Root})
        /\ ptes' = {} /\ hwBase' = FALSE /\ staged' = FALSE
        /\ UNCHANGED <<active, hwOn>>
     \/ \E s \in Allocated :
          LET done == {r \in Allocated : r < s} IN
          /\ ~bootFault /\ Quarantine
          /\ Intact(done) /\ (drift => done = {})
          /\ buf' = [r \in Slots |-> IF r \in done THEN "none" ELSE buf[r]]
          /\ memory' = memory \ done
          /\ ptes' \in {ptes \ done, ptes \ (done \union {s})}
          /\ tlb' \in {tlb \ done, {}}
          /\ UNCHANGED <<staged, active, hwBase, hwOn>>
     \/ /\ ~bootFault /\ Intact(Allocated) /\ (drift => Allocated = {})
        /\ EndFails
        /\ buf' = [s \in Slots |-> "none"] /\ memory' = memory \ Allocated
        /\ ptes' = {} /\ UNCHANGED <<active, hwOn>>
  /\ UNCHANGED <<life, world, at>>

-------------------------------------------------------------------------------
(* Execute.                                                                 *)

\* Up to the consumer's Prepare callback; when that fails nothing happened.
ExecutePrepare(f) ==
  /\ Serves(f)
  /\ \/ CheckFails
     \/ /\ ~drift /\ Allocated # {}
        /\ at' = "activate"
        /\ UNCHANGED <<boot, life, hw, session, units, world>>

\* MmuActivate.  A failed flush leaves translation off, a failed read-back leaves
\* it as written; the consumer's Quiesce is called in both cases.
Activate ==
  /\ at = "activate"
  /\ \/ /\ Invalidated /\ NoQuarantine
        /\ active' = TRUE /\ hwOn' = TRUE /\ at' = "transfer"
     \/ /\ Invalidated /\ Quarantine
        /\ active' = TRUE /\ hwOn' = TRUE /\ at' = "quiesce"
     \/ /\ InvalidateFails /\ Quarantine
        /\ UNCHANGED <<active, hwOn>> /\ at' = "quiesce"
  /\ UNCHANGED <<life, staged, session, ptes, hwBase, world>>

\* The consumer's Transfer callback, whatever it returns.
Transfer ==
  /\ at = "transfer" /\ at' = "quiesce"
  /\ dma' \in BOOLEAN
  /\ UNCHANGED <<boot, life, hw, session, units, drift, corrupt>>

\* Mutant: translation goes off under running masters.
QuiesceFails_SwitchesOff ==
  /\ at = "quiesce" /\ at' = "idle"
  /\ Quarantine /\ hwOn' = FALSE
  /\ UNCHANGED <<life, staged, active, session, ptes, tlb, hwBase, world>>

\* The consumer could not prove that its masters stopped: nothing is switched off.
QuiesceFails ==
  /\ at = "quiesce" /\ at' = "idle"
  /\ Quarantine
  /\ UNCHANGED <<life, staged, active, session, units, world>>

\* The masters stopped.  MmuDeactivate disables translation only on a unit it
\* recognises, and every doubt on the way quarantines; then the guards are checked.
QuiesceOk ==
  /\ at = "quiesce" /\ at' = "idle"
  /\ dma' = FALSE
  /\ \/ /\ ~active \/ hwFault \/ drift
        /\ Quarantine /\ UNCHANGED <<active, hwOn, tlb>>
     \/ /\ active /\ ~hwFault
        /\ hwOn' = FALSE /\ active' \in BOOLEAN
        /\ InvalidateFails /\ Quarantine
     \/ /\ active /\ ~hwFault
        /\ hwOn' = FALSE /\ active' = FALSE
        /\ Invalidated
        /\ IF Intact(Allocated) THEN NoQuarantine ELSE Quarantine
  /\ UNCHANGED <<life, staged, session, ptes, hwBase, drift, corrupt>>

-------------------------------------------------------------------------------
(* PnP, power and the life of the driver.                                   *)

\* Mutant: only the driver's own variable is looked at.
Prepare_NoMarkerCheck ==
  /\ pnp = "absent" /\ at = "idle" /\ ~bootFault
  /\ pnp' = "prepared" /\ regs' = TRUE
  /\ UNCHANGED <<boot, online, hw, session, units, world, at>>

\* A quarantined boot refuses the device; the marker outlives the driver.
Prepare ==
  /\ pnp = "absent" /\ at = "idle"
  /\ IF bootFault \/ marker
       THEN bootFault' = TRUE /\ UNCHANGED <<pnp, regs, marker, lost>>
       ELSE pnp' = "prepared" /\ regs' = TRUE /\ UNCHANGED boot
  /\ UNCHANGED <<online, hw, session, units, world, at>>

D0Entry ==
  /\ pnp = "prepared" /\ regs /\ at = "idle" /\ ~bootFault
  /\ pnp' = "d0" /\ online' = TRUE
  /\ UNCHANGED <<boot, regs, hw, session, units, world, at>>

QuarantineIfOwned ==
  IF owner # NoFile \/ staged THEN Quarantine ELSE NoQuarantine

D0Exit ==
  /\ pnp = "d0" /\ at = "idle"
  /\ pnp' = "prepared" /\ online' = FALSE
  /\ QuarantineIfOwned
  /\ UNCHANGED <<regs, staged, active, session, units, world, at>>

ReleaseHardware ==
  /\ pnp = "prepared" /\ at = "idle" /\ regs
  /\ QuarantineIfOwned
  /\ online' = FALSE /\ regs' = FALSE
  /\ UNCHANGED <<pnp, staged, active, session, units, world, at>>

\* The device object goes when its last file is closed; its context is forgotten,
\* memory that was not freed is not.
Remove ==
  /\ pnp = "prepared" /\ ~regs /\ owner = NoFile /\ at = "idle"
  /\ pnp' = "absent"
  /\ staged' = FALSE /\ active' = FALSE /\ hwFault' = FALSE
  /\ buf' = [s \in Slots |-> "none"]
  /\ UNCHANGED <<boot, regs, online, owner, memory, units, world, at>>

Unload ==
  /\ pnp = "absent" /\ bootFault
  /\ bootFault' = FALSE
  /\ UNCHANGED <<marker, lost, life, hw, session, units, world, at>>

-------------------------------------------------------------------------------
(* External: the consumer's masters and CPU, and other users of the units.  *)

TlbFill ==
  /\ dma /\ hwOn
  /\ \E s \in ptes : tlb' = tlb \union {s}
  /\ UNCHANGED <<boot, life, hw, session, ptes, hwBase, hwOn, world, at>>

Overrun ==
  /\ \E s \in Allocated : corrupt' = corrupt \union {s}
  /\ UNCHANGED <<boot, life, hw, session, units, drift, dma, at>>

RegisterDrift ==
  /\ drift' = TRUE
  /\ UNCHANGED <<boot, life, hw, session, units, dma, corrupt, at>>

-------------------------------------------------------------------------------
Init ==
  /\ pnp = "absent" /\ regs = FALSE /\ online = FALSE
  /\ bootFault = FALSE /\ marker = FALSE /\ lost = 0
  /\ staged = FALSE /\ active = FALSE /\ hwFault = FALSE
  /\ owner = NoFile /\ buf = [s \in Slots |-> "none"] /\ memory = {}
  /\ ptes = {} /\ tlb = {} /\ hwBase = FALSE /\ hwOn = FALSE
  /\ drift = FALSE /\ dma = FALSE /\ corrupt = {}
  /\ at = "idle"

Request(f) ==
  \/ Begin(f) \/ Allocate(f) \/ Sync(f) \/ Walk(f) \/ End(f)
  \/ \E s \in Slots, release \in BOOLEAN : Retire(f, s, release)
  \/ Cleanup(f) \/ ExecutePrepare(f)

Next ==
  \/ \E f \in Files : Request(f)
  \/ Activate \/ Transfer \/ QuiesceFails \/ QuiesceOk
  \/ Prepare \/ D0Entry \/ D0Exit \/ ReleaseHardware \/ Remove \/ Unload
  \/ TlbFill \/ Overrun \/ RegisterDrift

Spec == Init /\ [][Next]_vars

-------------------------------------------------------------------------------
(* Properties.                                                              *)

\* The hardware never keeps an address of memory that was given back: neither a
\* table entry, a cached translation nor the table base (Retire, End, Cleanup free
\* only after the flush succeeded).
NothingDangles ==
  /\ ptes \union tlb \subseteq memory
  /\ hwBase => Root \in memory

\* A master that still runs keeps its translation and its pages, however the
\* window ended (Execute never switches off without the consumer's Quiesce).
DmaKeepsTranslation == dma => hwOn /\ hwBase /\ Root \in memory

\* Outside the window of Execute translation is off and nothing is cached, unless
\* the device is quarantined (the contract of pi5-iommu.h).
TranslationOnlyInWindow ==
  at = "idle" /\ ~bootFault /\ ~marker => ~hwOn /\ ~dma /\ tlb = {}

\* Without a session nothing is left behind: no memory, no staged register, no
\* live pointer; an owner always has the registers its cleanup will touch.
SessionIsAll ==
  ~bootFault /\ ~marker =>
    /\ owner = NoFile => memory = {} /\ ~staged /\ ~hwBase /\ ptes = {}
    /\ owner # NoFile => regs /\ memory = Allocated \union {Root}

\* Quarantine lasts until reboot: after a fault no file ever owns a session again,
\* across removal of the device and reload of the driver.
BlocksReuseUntilReboot ==
  [][bootFault \/ marker \/ lost > 0 => owner' \in {owner, NoFile}]_vars
===============================================================================

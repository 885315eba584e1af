----------------------------- MODULE IommuProofs -----------------------------
(***************************************************************************)
(* Proofs about module Iommu, for any number of files and slots, as long   *)
(* as the quarantine marker can be created (NoMarkerLost).                 *)
(***************************************************************************)
EXTENDS Iommu, TLAPS

NoMarkerLost == MarkerFailures = 0

\* The quarantine is known to the driver or to the registry, and to the latter
\* only while no device is there.
Latches ==
  /\ lost = 0
  /\ bootFault => marker
  /\ hwFault => marker
  /\ marker /\ ~bootFault => pnp = "absent"
  /\ online => pnp = "d0" /\ regs
  /\ pnp = "absent" => owner = NoFile

\* Without quarantine, the session determines everything the driver and the
\* hardware hold.
SessionInv ==
  ~marker =>
    /\ owner = NoFile => /\ memory = {} /\ ~staged /\ ~hwBase /\ ptes = {}
                         /\ \A s \in Slots : buf[s] = "none"
    /\ owner # NoFile => /\ regs /\ online /\ staged /\ hwBase
                         /\ memory = Allocated \union {Root}
                         /\ ptes = {s \in Slots : buf[s] = "mapped"}

\* Without quarantine, the stage of Execute determines what translates.
WindowInv ==
  ~marker =>
    /\ at \in {"idle", "activate"} => ~hwOn /\ ~dma /\ tlb = {} /\ ~active
    /\ at \in {"transfer", "quiesce"} => hwOn /\ active
    /\ at = "transfer" => ~dma
    /\ at # "idle" => owner # NoFile

\* What the hardware can reach, quarantined or not.
ReachInv ==
  /\ NothingDangles
  /\ dma => hwOn
  /\ hwOn => hwBase

\* In quarantine a window can only be at its last stage.
StageInv == marker /\ at # "idle" => at = "quiesce"

IInv == TypeOK /\ Latches /\ SessionInv /\ WindowInv /\ ReachInv /\ StageInv

\* What Quarantine does when the marker can be created.
LEMMA QuarantineFacts ==
  ASSUME NoMarkerLost, TypeOK, Quarantine
  PROVE  bootFault' = TRUE /\ hwFault' = TRUE /\ marker' = TRUE /\ lost' = lost
  <1>1. lost = 0
    BY DEF NoMarkerLost, TypeOK
  <1> QED
    BY <1>1 DEF NoMarkerLost, Quarantine, TypeOK

\* The initial states satisfy the inductive invariant.
LEMMA InitInvariant == ASSUME NoMarkerLost PROVE Init => IInv
  <1> SUFFICES ASSUME Init PROVE IInv
    OBVIOUS
  <1>1. buf \in [Slots -> {"none", "mapped", "retired"}]
    BY DEF Init
  <1>2. 0 \in 0..MarkerFailures
    BY DEF NoMarkerLost
  <1>3. TypeOK
    BY <1>1, <1>2 DEF Init, TypeOK
  <1>4. \A s \in Slots : buf[s] = "none"
    BY DEF Init
  <1> QED
    BY <1>3, <1>4 DEF Init, IInv, Latches, SessionInv, WindowInv, ReachInv, StageInv,
                      NothingDangles

\* A request is served only by a device that is not quarantined, and between two
\* windows: nothing translates.
LEMMA ReadyIsClean ==
  ASSUME IInv, at = "idle", ~bootFault, online \/ owner # NoFile
  PROVE  /\ marker = FALSE /\ hwFault = FALSE /\ lost = 0
         /\ hwOn = FALSE /\ dma = FALSE /\ active = FALSE /\ tlb = {}
  BY DEF IInv, TypeOK, Latches, WindowInv

\* A step that quarantines keeps the invariant if what the hardware can reach
\* stays allocated.
LEMMA QuarantinedStep ==
  ASSUME NoMarkerLost, IInv, Quarantine, TypeOK',
         pnp' = pnp \/ (pnp # "absent" /\ pnp' # "absent"),
         online' => pnp' = "d0" /\ regs',
         owner' \in {owner, NoFile},
         at' \in {"idle", "quiesce"},
         ptes' \union tlb' \subseteq memory',
         hwBase' => Root \in memory',
         dma' => hwOn',
         hwOn' => hwBase'
  PROVE  IInv'
  <1>1. bootFault' = TRUE /\ hwFault' = TRUE /\ marker' = TRUE /\ lost' = 0
    BY QuarantineFacts DEF IInv, Latches
  <1> QED
    BY <1>1 DEF IInv, Latches, SessionInv, WindowInv, ReachInv, StageInv, NothingDangles

\* A register check that fails disturbs nothing else.
LEMMA CheckFailsStep ==
  ASSUME NoMarkerLost, IInv, CheckFails, at = "idle"
  PROVE  IInv'
  <1>1. TypeOK'
    BY QuarantineFacts DEF IInv, TypeOK, CheckFails, life, session, units, world
  <1> QED
    BY <1>1, QuarantinedStep
    DEF IInv, Latches, ReachInv, NothingDangles, CheckFails, life, session, units, world

\* A new session (Begin) keeps the invariant, whichever step of it fails.
LEMMA BeginStep ==
  ASSUME NoMarkerLost, IInv, NEW f \in Files, Begin(f)
  PROVE  IInv'
  <1>0. /\ marker = FALSE /\ hwFault = FALSE /\ lost = 0
        /\ hwOn = FALSE /\ dma = FALSE /\ active = FALSE /\ tlb = {}
    BY ReadyIsClean DEF Begin, Ready
  <1>1. CASE InvalidateFails /\ Quarantine /\ owner' = owner /\ hwBase' \in BOOLEAN
    <2>1. TypeOK'
      BY <1>1, QuarantineFacts
      DEF IInv, TypeOK, Begin, InvalidateFails, life, world
    <2> QED
      BY <1>0, <1>1, <2>1, QuarantinedStep
      DEF IInv, Latches, ReachInv, NothingDangles, Begin, Ready, InvalidateFails, life, world
  <1>2. CASE Invalidated /\ NoQuarantine /\ owner' = f /\ hwBase' = TRUE
    <2>1. TypeOK'
      BY <1>2 DEF IInv, TypeOK, Begin, Invalidated, NoQuarantine, boot, life, world
    <2>2. /\ memory = {} /\ ptes = {} /\ \A s \in Slots : buf[s] = "none"
      BY <1>0 DEF IInv, SessionInv, Begin
    <2>3. regs' /\ online' /\ staged'
      BY DEF IInv, Latches, Begin, Ready, life
    <2>4. Allocated' = {} /\ ptes' = {s \in Slots : buf'[s] = "mapped"}
      BY <2>2 DEF Allocated, Begin
    <2>5. owner' # NoFile /\ memory' = {Root} /\ hwBase'
      BY <1>2, <2>2, IommuAssumption DEF Begin
    <2>6. SessionInv'
      BY <2>3, <2>4, <2>5 DEF SessionInv
    <2> QED
      BY <1>0, <1>2, <2>1, <2>2, <2>6
      DEF IInv, Latches, WindowInv, ReachInv, StageInv, NothingDangles, Begin, Ready,
          Invalidated, NoQuarantine, boot, life, world
  <1> QED
    BY <1>1, <1>2 DEF Begin

\* Allocate keeps the invariant: a buffer is mapped only in an intact session.
LEMMA AllocateStep ==
  ASSUME NoMarkerLost, IInv, NEW f \in Files, Allocate(f)
  PROVE  IInv'
  <1>0. /\ marker = FALSE /\ hwFault = FALSE /\ lost = 0 /\ at = "idle"
        /\ hwOn = FALSE /\ dma = FALSE /\ active = FALSE /\ tlb = {}
    BY ReadyIsClean DEF Allocate, Serves, Ready
  <1>1. CASE CheckFails
    BY <1>0, <1>1, CheckFailsStep
  <1>2. ASSUME NEW s \in Slots,
               buf[s] = "none",
               buf' = [buf EXCEPT ![s] = "mapped"],
               memory' = memory \union {s}, ptes' = ptes \union {s},
               corrupt' = corrupt \ {s},
               (Invalidated /\ NoQuarantine) \/ (InvalidateFails /\ Quarantine),
               UNCHANGED <<life, owner, staged, active, hwBase, hwOn, drift, dma, at>>
        PROVE  IInv'
    <2>1. CASE InvalidateFails /\ Quarantine
      <3>0. bootFault' = TRUE /\ hwFault' = TRUE /\ marker' = TRUE /\ lost' = lost
        BY <2>1, QuarantineFacts DEF IInv
      <3>1. TypeOK'
        BY <1>2, <2>1, <3>0 DEF IInv, TypeOK, InvalidateFails, life
      <3> QED
        BY <1>0, <1>2, <2>1, <3>1, QuarantinedStep
        DEF IInv, Latches, ReachInv, NothingDangles, InvalidateFails, life
    <2>2. CASE Invalidated /\ NoQuarantine
      <3>1. TypeOK'
        BY <1>2, <2>2 DEF IInv, TypeOK, Invalidated, NoQuarantine, boot, life
      <3>2. /\ owner # NoFile /\ regs /\ online /\ staged /\ hwBase
            /\ memory = Allocated \union {Root}
            /\ ptes = {r \in Slots : buf[r] = "mapped"}
        BY <1>0, IommuAssumption DEF IInv, SessionInv, Allocate, Serves
      <3>3. \A r \in Slots : buf'[r] = IF r = s THEN "mapped" ELSE buf[r]
        BY <1>2 DEF IInv, TypeOK
      <3>4. memory' = Allocated' \union {Root}
        BY <1>2, <3>2, <3>3 DEF Allocated
      <3>5. ptes' = {r \in Slots : buf'[r] = "mapped"}
        BY <1>2, <3>2, <3>3
      <3>6. SessionInv'
        BY <1>2, <3>2, <3>4, <3>5 DEF SessionInv, life
      <3> QED
        BY <1>0, <1>2, <2>2, <3>1, <3>2, <3>6
        DEF IInv, Latches, WindowInv, ReachInv, StageInv, NothingDangles,
            Invalidated, NoQuarantine, boot, life
    <2> QED BY <1>2, <2>1, <2>2
  <1> QED
    BY <1>1, <1>2 DEF Allocate

\* Retire keeps the invariant: memory is freed after its entries are out of the unit.
LEMMA RetireStep ==
  ASSUME NoMarkerLost, IInv,
         NEW f \in Files, NEW s \in Slots, NEW release \in BOOLEAN, Retire(f, s, release)
  PROVE  IInv'
  <1>0. /\ marker = FALSE /\ hwFault = FALSE /\ lost = 0 /\ at = "idle"
        /\ hwOn = FALSE /\ dma = FALSE /\ active = FALSE /\ tlb = {}
    BY ReadyIsClean DEF Retire, Serves, Ready
  <1>s. /\ owner # NoFile /\ regs /\ online /\ staged /\ hwBase
        /\ memory = Allocated \union {Root}
        /\ ptes = {r \in Slots : buf[r] = "mapped"}
    BY <1>0, IommuAssumption DEF IInv, SessionInv, Retire, Serves
  <1>1. CASE CheckFails
    BY <1>0, <1>1, CheckFailsStep
  <1>2. CASE /\ Quarantine
             /\ UNCHANGED <<life, staged, active, session, units, world, at>>
    <2>0. bootFault' = TRUE /\ hwFault' = TRUE /\ marker' = TRUE /\ lost' = lost
      BY <1>2, QuarantineFacts DEF IInv
    <2>1. TypeOK'
      BY <1>2, <2>0 DEF IInv, TypeOK, life, session, units, world
    <2> QED
      BY <1>0, <1>2, <2>1, QuarantinedStep
      DEF IInv, Latches, ReachInv, NothingDangles, life, session, units, world
  <1>3. CASE /\ InvalidateFails /\ Quarantine
             /\ ptes' = ptes \ {s}
             /\ UNCHANGED <<buf, memory>>
             /\ UNCHANGED <<life, owner, staged, active, hwBase, hwOn, world, at>>
    <2>0. bootFault' = TRUE /\ hwFault' = TRUE /\ marker' = TRUE /\ lost' = lost
      BY <1>3, QuarantineFacts DEF IInv
    <2>1. TypeOK'
      BY <1>3, <2>0 DEF IInv, TypeOK, InvalidateFails, life, world
    <2> QED
      BY <1>0, <1>3, <2>1, QuarantinedStep
      DEF IInv, Latches, ReachInv, NothingDangles, InvalidateFails, life, world
  <1>4. ASSUME NEW b \in {"none", "retired"},
               buf' = [buf EXCEPT ![s] = b],
               memory' = IF b = "none" THEN memory \ {s} ELSE memory,
               ptes' = ptes \ {s}, tlb' = {}, NoQuarantine,
               buf[s] # "none",
               UNCHANGED <<life, owner, staged, active, hwBase, hwOn, world, at>>
        PROVE  IInv'
    <2>1. TypeOK'
      BY <1>4 DEF IInv, TypeOK, NoQuarantine, boot, life, world
    <2>2. \A r \in Slots : buf'[r] = IF r = s THEN b ELSE buf[r]
      BY <1>4 DEF IInv, TypeOK
    <2>3. memory' = Allocated' \union {Root}
      BY <1>s, <1>4, <2>2, IommuAssumption DEF Allocated
    <2>4. ptes' = {r \in Slots : buf'[r] = "mapped"}
      BY <1>s, <1>4, <2>2
    <2>5. SessionInv'
      BY <1>s, <1>4, <2>3, <2>4 DEF SessionInv, life
    <2>6. ptes' \subseteq memory'
      BY <2>3, <2>4 DEF Allocated
    <2> QED
      BY <1>0, <1>s, <1>4, <2>1, <2>3, <2>5, <2>6
      DEF IInv, Latches, WindowInv, ReachInv, StageInv, NothingDangles,
          NoQuarantine, boot, life, world
  <1>5. CASE /\ buf[s] = "retired" /\ NoQuarantine
             /\ UNCHANGED <<ptes, tlb>>
             /\ buf' = [buf EXCEPT ![s] = "none"] /\ memory' = memory \ {s}
             /\ UNCHANGED <<life, owner, staged, active, hwBase, hwOn, world, at>>
    <2>1. ptes' = ptes \ {s}
      BY <1>s, <1>5
    <2> QED
      BY <1>0, <1>4, <1>5, <2>1
  <1>6. CASE /\ buf[s] = "mapped" /\ Invalidated /\ NoQuarantine
             /\ ptes' = ptes \ {s}
             /\ buf' = [buf EXCEPT ![s] = IF release THEN "none" ELSE "retired"]
             /\ memory' = IF release THEN memory \ {s} ELSE memory
             /\ UNCHANGED <<life, owner, staged, active, hwBase, hwOn, world, at>>
    <2>1. CASE release
      BY <1>4, <1>6, <2>1 DEF Invalidated
    <2>2. CASE ~release
      BY <1>4, <1>6, <2>2 DEF Invalidated
    <2> QED BY <2>1, <2>2
  <1> QED
    BY <1>1, <1>2, <1>3, <1>5, <1>6 DEF Retire

\* Sync keeps the invariant: only the tables reach the unit.
LEMMA SyncStep ==
  ASSUME NoMarkerLost, IInv, NEW f \in Files, Sync(f)
  PROVE  IInv'
  <1>0. /\ marker = FALSE /\ hwFault = FALSE /\ lost = 0 /\ at = "idle"
        /\ hwOn = FALSE /\ dma = FALSE /\ active = FALSE /\ tlb = {}
    BY ReadyIsClean DEF Sync, Serves, Ready
  <1>1. tlb' = {}
    BY <1>0 DEF Sync, Invalidated, InvalidateFails
  <1>2. CASE Invalidated /\ NoQuarantine
    BY <1>0, <1>1, <1>2
    DEF IInv, TypeOK, Latches, SessionInv, WindowInv, ReachInv, StageInv, NothingDangles,
        Allocated, Sync, NoQuarantine, boot, life, session, world
  <1>3. CASE InvalidateFails /\ Quarantine
    <2>0. bootFault' = TRUE /\ hwFault' = TRUE /\ marker' = TRUE /\ lost' = lost
      BY <1>3, QuarantineFacts DEF IInv
    <2>1. TypeOK'
      BY <1>1, <2>0 DEF IInv, TypeOK, Sync, life, session, world
    <2> QED
      BY <1>0, <1>1, <1>3, <2>1, QuarantinedStep
      DEF IInv, Latches, ReachInv, NothingDangles, Sync, life, session, world
  <1> QED
    BY <1>2, <1>3 DEF Sync

\* A table walk of the unit loads what the tables hold.
LEMMA WalkStep ==
  ASSUME NoMarkerLost, IInv, NEW f \in Files, Walk(f)
  PROVE  IInv'
  BY CheckFailsStep DEF Walk, Serves, Ready

\* End keeps the invariant: everything is out of the unit before the memory goes.
LEMMA EndStep ==
  ASSUME NoMarkerLost, IInv, NEW f \in Files, End(f)
  PROVE  IInv'
  <1>0. /\ marker = FALSE /\ hwFault = FALSE /\ lost = 0 /\ at = "idle"
        /\ hwOn = FALSE /\ dma = FALSE /\ active = FALSE /\ tlb = {}
    BY ReadyIsClean DEF End, Serves, Ready
  <1>s. /\ owner # NoFile /\ memory = {Root} /\ ptes = {}
        /\ \A s \in Slots : buf[s] = "none"
    BY <1>0, IommuAssumption DEF IInv, SessionInv, End, Serves, Allocated
  <1>1. tlb' = {}
    BY <1>0 DEF End, Invalidated, EndFails, InvalidateFails
  <1>2. CASE /\ Invalidated /\ NoQuarantine
             /\ hwBase' = FALSE /\ staged' = FALSE
             /\ memory' = memory \ {Root} /\ owner' = NoFile
    <2>1. memory' = {} /\ ptes' = {} /\ \A s \in Slots : buf'[s] = "none"
      BY <1>s, <1>2 DEF End
    <2> QED
      BY <1>0, <1>1, <1>2, <2>1
      DEF IInv, TypeOK, Latches, SessionInv, WindowInv, ReachInv, StageInv, NothingDangles,
          End, NoQuarantine, boot, life, world
  <1>3. CASE EndFails /\ UNCHANGED <<memory, owner>>
    <2>0. bootFault' = TRUE /\ hwFault' = TRUE /\ marker' = TRUE /\ lost' = lost
      BY <1>3, QuarantineFacts DEF IInv, EndFails
    <2>1. TypeOK'
      BY <1>1, <1>3, <2>0 DEF IInv, TypeOK, End, EndFails, life, world
    <2> QED
      BY <1>0, <1>1, <1>s, <1>3, <2>1, QuarantinedStep
      DEF IInv, Latches, ReachInv, NothingDangles, End, EndFails, life, world
  <1> QED
    BY <1>2, <1>3 DEF End

\* In quarantine the file's ownership ends and nothing else happens; otherwise
\* everything goes back, or a prefix of the buffers and then nothing more.
LEMMA CleanupStep ==
  ASSUME NoMarkerLost, IInv, NEW f \in Files, Cleanup(f)
  PROVE  IInv'
  <1>1. CASE /\ bootFault
             /\ UNCHANGED <<boot, hw, buf, memory, units>>
    BY <1>1
    DEF IInv, TypeOK, Latches, SessionInv, WindowInv, ReachInv, StageInv, NothingDangles,
        Cleanup, boot, hw, units, life, world
  <1>2. ASSUME ~bootFault
        PROVE  /\ marker = FALSE /\ hwFault = FALSE /\ lost = 0
               /\ hwOn = FALSE /\ dma = FALSE /\ active = FALSE /\ tlb = {}
               /\ memory = Allocated \union {Root}
               /\ ptes = {s \in Slots : buf[s] = "mapped"}
               /\ regs /\ online /\ pnp = "d0"
    BY <1>2, ReadyIsClean, IommuAssumption
    DEF IInv, SessionInv, Latches, Cleanup
  <1>3. CASE /\ ~bootFault /\ Invalidated /\ NoQuarantine
             /\ buf' = [s \in Slots |-> "none"]
             /\ memory' = memory \ (Allocated \union {Root})
             /\ ptes' = {} /\ hwBase' = FALSE /\ staged' = FALSE
             /\ UNCHANGED <<active, hwOn>>
    <2>1. memory' = {} /\ \A s \in Slots : buf'[s] = "none"
      BY <1>2, <1>3
    <2>2. buf' \in [Slots -> {"none", "mapped", "retired"}]
      BY <1>3
    <2> QED
      BY <1>2, <1>3, <2>1, <2>2
      DEF IInv, TypeOK, Latches, SessionInv, WindowInv, ReachInv, StageInv, NothingDangles,
          Cleanup, Invalidated, NoQuarantine, boot, life, world
  <1>4. ASSUME NEW done \in SUBSET Allocated, ~bootFault, Quarantine,
               buf' = [r \in Slots |-> IF r \in done THEN "none" ELSE buf[r]],
               memory' = memory \ done,
               ptes' \subseteq ptes \ done, tlb' \subseteq tlb,
               hwBase' \in BOOLEAN,
               UNCHANGED <<staged, active, hwOn>>
        PROVE  IInv'
    <2>0. bootFault' = TRUE /\ hwFault' = TRUE /\ marker' = TRUE /\ lost' = lost
      BY <1>4, QuarantineFacts DEF IInv
    <2>1. buf' \in [Slots -> {"none", "mapped", "retired"}]
      BY <1>4 DEF IInv, TypeOK
    <2>2. done \subseteq Slots /\ Root \notin done
      BY <1>4, IommuAssumption DEF Allocated
    <2>3. Root \in memory' /\ ptes' \union tlb' \subseteq memory'
      BY <1>2, <1>4, <2>2 DEF Allocated
    <2>4. TypeOK'
      BY <1>4, <2>0, <2>1, <2>2 DEF IInv, TypeOK, Cleanup, life, world
    <2> QED
      BY <1>2, <1>4, <2>3, <2>4, QuarantinedStep
      DEF IInv, Latches, Cleanup, life, world
  <1>5. ASSUME NEW s \in Allocated,
               ~bootFault, Quarantine,
               buf' = [r \in Slots |-> IF r \in {q \in Allocated : q < s} THEN "none" ELSE buf[r]],
               memory' = memory \ {q \in Allocated : q < s},
               ptes' \in {ptes \ {q \in Allocated : q < s},
                          ptes \ ({q \in Allocated : q < s} \union {s})},
               tlb' \in {tlb \ {q \in Allocated : q < s}, {}},
               UNCHANGED <<staged, active, hwBase, hwOn>>
        PROVE  IInv'
    <2> DEFINE done == {q \in Allocated : q < s}
    <2>1. done \in SUBSET Allocated
      OBVIOUS
    <2>2. ptes' \subseteq ptes \ done /\ tlb' \subseteq tlb
      BY <1>5
    <2>3. hwBase' \in BOOLEAN
      BY <1>5 DEF IInv, TypeOK
    <2> QED
      BY <1>4, <1>5, <2>1, <2>2, <2>3
  <1>6. CASE /\ ~bootFault /\ EndFails
             /\ buf' = [s \in Slots |-> "none"] /\ memory' = memory \ Allocated
             /\ ptes' = {} /\ UNCHANGED <<active, hwOn>>
    <2>1. buf' = [r \in Slots |-> IF r \in Allocated THEN "none" ELSE buf[r]]
      BY <1>6 DEF Allocated
    <2>2. tlb' \subseteq tlb
      BY <1>6 DEF EndFails, InvalidateFails
    <2> QED
      BY <1>4, <1>6, <2>1, <2>2 DEF EndFails
  <1> QED
    BY <1>1, <1>3, <1>5, <1>6 DEF Cleanup

\* Preparing a window (Execute) keeps the invariant.
LEMMA ExecutePrepareStep ==
  ASSUME NoMarkerLost, IInv, NEW f \in Files, ExecutePrepare(f)
  PROVE  IInv'
  <1>0. marker = FALSE /\ at = "idle" /\ owner # NoFile
    BY ReadyIsClean, IommuAssumption DEF ExecutePrepare, Serves, Ready
  <1>1. CASE CheckFails
    BY <1>0, <1>1, CheckFailsStep
  <1>2. CASE at' = "activate" /\ UNCHANGED <<boot, life, hw, session, units, world>>
    BY <1>0, <1>2
    DEF IInv, TypeOK, Latches, SessionInv, WindowInv, ReachInv, StageInv, NothingDangles,
        Allocated, boot, life, hw, session, units, world
  <1> QED
    BY <1>1, <1>2 DEF ExecutePrepare

\* Switching translation on for a window keeps the invariant.
LEMMA ActivateStep ==
  ASSUME NoMarkerLost, IInv, Activate
  PROVE  IInv'
  <1>0. /\ marker = FALSE /\ owner # NoFile /\ hwBase = TRUE
        /\ hwOn = FALSE /\ dma = FALSE /\ active = FALSE /\ tlb = {}
        /\ ptes \subseteq memory /\ Root \in memory
    BY DEF IInv, TypeOK, StageInv, WindowInv, SessionInv, ReachInv, NothingDangles, Activate
  <1>1. tlb' = {}
    BY <1>0 DEF Activate, Invalidated, InvalidateFails
  <1>2. /\ UNCHANGED <<pnp, regs, online, staged, owner, buf, memory, ptes, hwBase>>
        /\ UNCHANGED <<drift, dma, corrupt>>
    BY DEF Activate, life, session, world
  <1>3. CASE /\ NoQuarantine
             /\ active' = TRUE /\ hwOn' = TRUE /\ at' = "transfer"
    BY <1>0, <1>1, <1>2, <1>3
    DEF IInv, TypeOK, Latches, SessionInv, WindowInv, ReachInv, StageInv, NothingDangles,
        Allocated, NoQuarantine, boot
  <1>4. CASE /\ Quarantine /\ at' = "quiesce"
             /\ active' = hwOn' /\ hwOn' \in BOOLEAN
    <2>0. bootFault' = TRUE /\ hwFault' = TRUE /\ marker' = TRUE /\ lost' = lost
      BY <1>4, QuarantineFacts DEF IInv
    <2>1. TypeOK'
      BY <1>1, <1>2, <1>4, <2>0 DEF IInv, TypeOK
    <2> QED
      BY <1>0, <1>1, <1>2, <1>4, <2>1, QuarantinedStep DEF IInv, Latches
  <1> QED
    BY <1>0, <1>3, <1>4 DEF Activate

\* A transfer of the master keeps the invariant.
LEMMA TransferStep ==
  ASSUME NoMarkerLost, IInv, Transfer
  PROVE  IInv'
  BY DEF IInv, TypeOK, Latches, SessionInv, WindowInv, ReachInv, StageInv, NothingDangles,
         Allocated, Transfer, boot, life, hw, session, units

\* A master that does not come to rest is quarantined with its translation.
LEMMA QuiesceFailsStep ==
  ASSUME NoMarkerLost, IInv, QuiesceFails
  PROVE  IInv'
  <1>0. bootFault' = TRUE /\ hwFault' = TRUE /\ marker' = TRUE /\ lost' = lost
    BY QuarantineFacts DEF IInv, QuiesceFails
  <1>1. TypeOK'
    BY <1>0 DEF IInv, TypeOK, QuiesceFails, life, session, units, world
  <1> QED
    BY <1>1, QuarantinedStep
    DEF IInv, Latches, ReachInv, NothingDangles, QuiesceFails, life, session, units, world

\* A master at rest loses its translation and keeps nothing.
LEMMA QuiesceOkStep ==
  ASSUME NoMarkerLost, IInv, QuiesceOk
  PROVE  IInv'
  <1>1. /\ UNCHANGED <<pnp, regs, online, staged, owner, buf, memory, ptes, hwBase>>
        /\ UNCHANGED <<drift, corrupt>>
        /\ at = "quiesce" /\ at' = "idle" /\ dma' = FALSE
    BY DEF QuiesceOk, life, session
  <1>2. tlb' \subseteq tlb /\ hwOn' \in {hwOn, FALSE} /\ active' \in BOOLEAN
    BY DEF QuiesceOk, Invalidated, InvalidateFails, IInv, TypeOK
  <1>3. CASE Quarantine
    <2>0. bootFault' = TRUE /\ hwFault' = TRUE /\ marker' = TRUE /\ lost' = lost
      BY <1>3, QuarantineFacts DEF IInv
    <2>1. TypeOK'
      BY <1>1, <1>2, <2>0 DEF IInv, TypeOK
    <2>2. ptes' \union tlb' \subseteq memory' /\ (hwBase' => Root \in memory')
      BY <1>1, <1>2 DEF IInv, ReachInv, NothingDangles
    <2>3. hwOn' => hwBase'
      BY <1>1, <1>2 DEF IInv, ReachInv
    <2>4. online' => pnp' = "d0" /\ regs'
      BY <1>1 DEF IInv, Latches
    <2> QED
      BY <1>1, <1>3, <2>1, <2>2, <2>3, <2>4, QuarantinedStep
  <1>4. CASE NoQuarantine /\ hwOn' = FALSE /\ active' = FALSE /\ Invalidated
    BY <1>1, <1>4
    DEF IInv, TypeOK, Latches, SessionInv, WindowInv, ReachInv, StageInv, NothingDangles,
        Allocated, NoQuarantine, Invalidated, boot
  <1> QED
    BY <1>3, <1>4 DEF QuiesceOk

\* D0Exit keeps the invariant: an open session is quarantined.
LEMMA PowerDownStep ==
  ASSUME NoMarkerLost, IInv, D0Exit \/ ReleaseHardware
  PROVE  IInv'
  <1>1. /\ UNCHANGED <<staged, active, session, units, world, at>>
        /\ pnp' = "prepared" /\ pnp # "absent" /\ online' = FALSE
        /\ regs' \in BOOLEAN /\ at = "idle"
    BY DEF D0Exit, ReleaseHardware, IInv, TypeOK
  <1>2. CASE Quarantine
    <2>0. bootFault' = TRUE /\ hwFault' = TRUE /\ marker' = TRUE /\ lost' = lost
      BY <1>2, QuarantineFacts DEF IInv
    <2>1. TypeOK'
      BY <1>1, <2>0 DEF IInv, TypeOK, session, units, world
    <2> QED
      BY <1>1, <1>2, <2>1, QuarantinedStep
      DEF IInv, Latches, ReachInv, NothingDangles, session, units, world
  <1>3. CASE NoQuarantine /\ owner = NoFile /\ ~staged
    BY <1>1, <1>3
    DEF IInv, TypeOK, Latches, SessionInv, WindowInv, ReachInv, StageInv, NothingDangles,
        Allocated, NoQuarantine, boot, session, units, world
  <1> QED
    BY <1>2, <1>3 DEF D0Exit, ReleaseHardware, QuarantineIfOwned

\* D0Entry and PrepareHardware keep the invariant.
LEMMA PowerUpStep ==
  ASSUME NoMarkerLost, IInv, Prepare \/ D0Entry
  PROVE  IInv'
  <1>1. CASE Prepare
    BY <1>1
    DEF IInv, TypeOK, Latches, SessionInv, WindowInv, ReachInv, StageInv, NothingDangles,
        Allocated, Prepare, boot, hw, session, units, world
  <1>2. CASE D0Entry
    BY <1>2
    DEF IInv, TypeOK, Latches, SessionInv, WindowInv, ReachInv, StageInv, NothingDangles,
        Allocated, D0Entry, boot, hw, session, units, world
  <1> QED BY <1>1, <1>2

\* What forgets the device context keeps the invariant.
LEMMA ForgetStep ==
  ASSUME NoMarkerLost, IInv, Remove \/ Unload
  PROVE  IInv'
  <1>1. CASE Remove
    <2>1. TypeOK'
      BY <1>1 DEF IInv, TypeOK, Remove, boot, units, world
    <2>2. \A s \in Slots : buf'[s] = "none"
      BY <1>1 DEF Remove
    <2> QED
      BY <1>1, <2>1, <2>2
      DEF IInv, TypeOK, Latches, SessionInv, WindowInv, ReachInv, StageInv, NothingDangles,
          Remove, boot, units, world
  <1>2. CASE Unload
    <2>0. bootFault' \in BOOLEAN /\ UNCHANGED <<marker, lost>>
      BY <1>2 DEF Unload
    <2>u. UNCHANGED <<pnp, regs, online, staged, active, hwFault, owner, buf, memory,
                      ptes, tlb, hwBase, hwOn, drift, dma, corrupt, at>>
      BY <1>2 DEF Unload, life, hw, session, units, world
    <2>1. TypeOK'
      BY <2>0, <2>u DEF IInv, TypeOK
    <2> QED
      BY <1>2, <2>0, <2>u, <2>1
      DEF IInv, TypeOK, Latches, SessionInv, WindowInv, ReachInv, StageInv, NothingDangles,
          Unload, life, hw, session, units, world
  <1> QED BY <1>1, <1>2

\* Removal, reload and reboot keep the invariant.
LEMMA WorldStep ==
  ASSUME NoMarkerLost, IInv, TlbFill \/ Overrun \/ RegisterDrift \/ UNCHANGED vars
  PROVE  IInv'
  <1>1. CASE TlbFill
    BY <1>1
    DEF IInv, TypeOK, Latches, SessionInv, WindowInv, ReachInv, StageInv, NothingDangles,
        Allocated, TlbFill, boot, life, hw, session, world
  <1>2. CASE Overrun
    <2>1. UNCHANGED <<boot, life, hw, session, units, drift, dma, at>>
      BY <1>2 DEF Overrun
    <2>2. corrupt' \subseteq Slots
      BY <1>2 DEF IInv, TypeOK, Overrun, Allocated
    <2> QED
      BY <2>1, <2>2
      DEF IInv, TypeOK, Latches, SessionInv, WindowInv, ReachInv, StageInv, NothingDangles,
          Allocated, boot, life, hw, session, units
  <1>3. CASE RegisterDrift \/ UNCHANGED vars
    <2>1. drift' \in BOOLEAN
      BY <1>3 DEF IInv, TypeOK, RegisterDrift, vars, world
    <2>2. UNCHANGED <<boot, life, hw, session, units, dma, corrupt, at>>
      BY <1>3 DEF RegisterDrift, vars, world
    <2> QED
      BY <2>1, <2>2
      DEF IInv, TypeOK, Latches, SessionInv, WindowInv, ReachInv, StageInv, NothingDangles,
          Allocated, boot, life, hw, session, units
  <1> QED BY <1>1, <1>2, <1>3

\* Every step keeps the inductive invariant.
LEMMA StepInvariant == ASSUME NoMarkerLost PROVE IInv /\ [Next]_vars => IInv'
  <1> SUFFICES ASSUME IInv, [Next]_vars PROVE IInv'
    OBVIOUS
  <1>1. CASE \E f \in Files : Request(f)
    BY <1>1, BeginStep, AllocateStep, RetireStep, SyncStep, WalkStep, EndStep, CleanupStep,
       ExecutePrepareStep
    DEF Request
  <1> QED
    BY <1>1, ActivateStep, TransferStep, QuiesceFailsStep, QuiesceOkStep, PowerDownStep,
       PowerUpStep, ForgetStep, WorldStep
    DEF Next

\* The invariant holds in every behaviour whose quarantines leave their marker.
THEOREM Invariance == ASSUME NoMarkerLost PROVE Spec => []IInv
  BY InitInvariant, StepInvariant, PTL DEF Spec

\* Whatever the outcome of any flush, the hardware keeps no address of memory the
\* driver has given back (Retire, End, Cleanup).
THEOREM NothingDanglesHolds == ASSUME NoMarkerLost PROVE Spec => []NothingDangles
  <1>1. IInv => NothingDangles
    BY DEF IInv, ReachInv
  <1> QED
    BY <1>1, Invariance, PTL

\* A running master keeps its translation and the tables it walks (Execute).
THEOREM DmaKeepsTranslationHolds == ASSUME NoMarkerLost PROVE Spec => []DmaKeepsTranslation
  <1>1. IInv => DmaKeepsTranslation
    BY DEF IInv, ReachInv, NothingDangles, DmaKeepsTranslation
  <1> QED
    BY <1>1, Invariance, PTL

\* Between windows a device that is not quarantined translates nothing.
THEOREM TranslationOnlyInWindowHolds ==
  ASSUME NoMarkerLost PROVE Spec => []TranslationOnlyInWindow
  <1>1. IInv => TranslationOnlyInWindow
    BY DEF IInv, WindowInv, TranslationOnlyInWindow
  <1> QED
    BY <1>1, Invariance, PTL

\* A session accounts for everything, and its end leaves nothing (End, Cleanup).
THEOREM SessionIsAllHolds == ASSUME NoMarkerLost PROVE Spec => []SessionIsAll
  <1>1. IInv => SessionIsAll
    BY DEF IInv, SessionInv, SessionIsAll
  <1> QED
    BY <1>1, Invariance, PTL

\* A quarantine blocks every later session until reboot (Prepare, FaultMarker).
THEOREM BlocksReuseUntilRebootHolds ==
  ASSUME NoMarkerLost PROVE Spec => BlocksReuseUntilReboot
  <1>1. IInv /\ [Next]_vars =>
          [bootFault \/ marker \/ lost > 0 => owner' \in {owner, NoFile}]_vars
    <2> SUFFICES ASSUME IInv, [Next]_vars, bootFault \/ marker \/ lost > 0
                 PROVE  owner' \in {owner, NoFile}
      OBVIOUS
    <2>1. marker /\ ~Ready
      BY DEF IInv, Latches, Ready
    <2>2. ~(\E f \in Files : Begin(f))
      BY <2>1 DEF Begin
    <2> QED
      BY <2>1, <2>2
      DEF Next, Request, Allocate, Retire, Sync, Walk, End, Cleanup, ExecutePrepare, Serves,
          Activate, Transfer, QuiesceFails, QuiesceOk, Prepare, D0Entry, D0Exit,
          ReleaseHardware, Remove, Unload, TlbFill, Overrun, RegisterDrift, session, vars
  <1> QED
    BY <1>1, Invariance, PTL DEF Spec, BlocksReuseUntilReboot
==============================================================================

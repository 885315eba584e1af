-------------------------------- MODULE Rp1Dma --------------------------------
(***************************************************************************)
(* RP1's copy engine (src/rp1-dma) as a client of the interrupt router and *)
(* of the clocks, among other clients.  One thread at a time runs the PnP  *)
(* callbacks and the requests of the device; the interrupt handler, its    *)
(* DPC, the engine, the other clients and the PnP callbacks of the two     *)
(* providers run between any of its steps.                                 *)
(***************************************************************************)
EXTENDS Rp1Service, Rp1Clocks

CONSTANTS
  Dma,         \* the file objects of this driver
  DmaSource,   \* its interrupt source
  BufIds,      \* common buffers; one that was given back may be allocated again
  NoBuf,       \* no buffer, or one of the firmware
  BootClocks   \* clock registers that the firmware may leave

ASSUME DmaAssumption ==
  /\ Dma \in Clients /\ DmaSource \in Leasable
  /\ NoBuf \notin BufIds
  /\ BootClocks \subseteq [Clocks -> Setting]

VARIABLES
  at,        \* where the thread of the device is
  buf,       \* DMA_CONTEXT.Buffer
  unsafe,    \* Unsafe
  owned,     \* Owned
  online,    \* Online
  saved,     \* Saved
  pending,   \* Pending
  wake,      \* Wake is set
  dpc,       \* the DPC is queued
  status,    \* status of the request that runs
  answer,    \* status of the last request
  alloc,     \* the buffers that are allocated
  config,    \* the registers of SavedOffsets, as "boot", "driver" or "off"
  signal,    \* DMA_CH_INT_SIGNAL
  irq,       \* DMA_CH_INT_STATUS
  engine,    \* channel 0 is enabled
  engineBuf, \* the buffer its descriptor is in
  copied     \* history: the bytes of the last transfer were copied

ctxVars == <<buf, unsafe, owned, saved>>
irqVars == <<online, pending, wake, dpc>>
reqVars == <<status, answer>>
hwVars == <<config, signal, irq, engine, engineBuf, copied>>
dmaVars == <<at, ctxVars, irqVars, reqVars, alloc, hwVars>>
vars == <<routeVars, clockVars, dmaVars>>
providers == <<routeVars, clockVars>>

Bits == {"done", "error"}

DmaTypeOK ==
  /\ at \in {"released", "down", "probe", "route", "unclock", "connect", "idle", "check",
             "wait", "mask", "halt", "reset", "unroute"}
  /\ buf \in BufIds \cup {NoBuf} /\ engineBuf \in BufIds \cup {NoBuf}
  /\ alloc \subseteq BufIds /\ pending \subseteq Bits /\ irq \subseteq Bits
  /\ config \in {"boot", "driver", "off"} /\ saved \in {"boot", "driver", "off"}
  /\ unsafe \in BOOLEAN /\ owned \in BOOLEAN /\ online \in BOOLEAN /\ wake \in BOOLEAN
  /\ dpc \in BOOLEAN /\ signal \in BOOLEAN /\ engine \in BOOLEAN /\ copied \in BOOLEAN
  /\ status \in {"none", "ok", "busy", "timeout", "error"}
  /\ answer \in {"none", "ok", "busy", "timeout", "error"}

TypeOK == RoutesTypeOK /\ ClocksTypeOK /\ DmaTypeOK

Init ==
  /\ RoutesInit /\ bootClock \in BootClocks /\ ClocksInit
  /\ at = "released" /\ buf = NoBuf /\ alloc = {}
  /\ unsafe = FALSE /\ owned = FALSE /\ saved = "boot"
  /\ online = FALSE /\ wake = FALSE /\ dpc = FALSE /\ pending = {}
  /\ status = "none" /\ answer = "none"
  /\ config = "boot" /\ signal = FALSE /\ irq = {} /\ copied = FALSE
  /\ engine \in BOOLEAN /\ engineBuf = NoBuf

-------------------------------------------------------------------------------
\* DmaPrepare, of this device object or of a new one after a removal.
DmaPrepare ==
  /\ at = "released" /\ at' = "down"
  /\ \E b \in BufIds \ alloc : buf' = b /\ alloc' = alloc \cup {b}
  /\ \/ UNCHANGED <<unsafe, owned, saved, irqVars>>
     \/ /\ unsafe' = FALSE /\ owned' = FALSE /\ saved' = "boot"
        /\ online' = FALSE /\ wake' = FALSE /\ dpc' = FALSE /\ pending' = {}
  /\ UNCHANGED <<providers, reqVars, hwVars>>

\* Mutant: the buffer is always given back.
DmaRelease_Frees ==
  /\ at = "down" /\ at' = "released"
  /\ alloc' = alloc \ {buf} /\ buf' = NoBuf
  /\ UNCHANGED <<providers, unsafe, owned, saved, irqVars, reqVars, hwVars>>

\* DmaRelease.
DmaRelease ==
  /\ at = "down" /\ at' = "released"
  /\ alloc' = IF unsafe THEN alloc ELSE alloc \ {buf}
  /\ buf' = NoBuf
  /\ UNCHANGED <<providers, unsafe, owned, saved, irqVars, reqVars, hwVars>>

\* DmaStart begins: OpenClock, whose target is closed again if the lease fails, or is
\* one that the driver does not accept ("unclock").  A provider that is
\* stopped refuses, and nothing changes.
StartClock ==
  /\ at = "down" /\ ~unsafe /\ clocksOnline
  /\ RequestClock(Dma, "dma")
  /\ at' \in IF ClockGranted("dma") THEN {"probe", "unclock"} ELSE {"down"}
  /\ UNCHANGED <<routeVars, ctxVars, irqVars, reqVars, alloc, hwVars>>

\* The controller is not the expected one, or somebody uses one of its channels; or it
\* is ours and its registers are saved.
StartProbe ==
  /\ at = "probe"
  /\ \/ at' = "unclock" /\ UNCHANGED <<owned, saved, hwVars>>
     \/ /\ ~engine /\ at' = "route"
        /\ owned' = TRUE /\ saved' = config /\ config' = "driver"
        /\ signal' = FALSE /\ irq' = {}
        /\ UNCHANGED <<engine, engineBuf, copied>>
  /\ UNCHANGED <<providers, buf, unsafe, irqVars, reqVars, alloc>>

StartRoute ==
  /\ at = "route"
  /\ \/ /\ AcquireRoute(Dma, DmaSource) /\ at' = "connect"
        /\ UNCHANGED <<owned, config>>
     \/ \* The service refuses, or its target cannot be opened.
        /\ config' = saved /\ owned' = FALSE /\ at' = "unclock"
        /\ UNCHANGED routeVars
  /\ UNCHANGED <<clockVars, buf, unsafe, saved, irqVars, reqVars, alloc,
                 signal, irq, engine, engineBuf, copied>>

\* The end of DmaStop, and of a DmaStart that failed.
CloseClock ==
  /\ at = "unclock" /\ at' = "down"
  /\ CloseClocks(Dma)
  /\ UNCHANGED <<routeVars, ctxVars, irqVars, reqVars, alloc, hwVars>>

\* DmaInterruptEnable.
Connect ==
  /\ at = "connect" /\ at' = "idle" /\ online' = TRUE
  /\ UNCHANGED <<providers, ctxVars, pending, wake, dpc, reqVars, alloc, hwVars>>

\* DmaInterruptDisable, once no request runs; DmaStop goes on with DmaHalt.
Disconnect ==
  /\ at = "idle" /\ at' = "halt" /\ online' = FALSE /\ signal' = FALSE
  /\ UNCHANGED <<providers, ctxVars, pending, wake, dpc, reqVars, alloc,
                 config, irq, engine, engineBuf, copied>>

CloseRoute ==
  /\ at = "unroute" /\ at' = "unclock"
  /\ CloseRoutes(Dma)
  /\ UNCHANGED <<clockVars, ctxVars, irqVars, reqVars, alloc, hwVars>>

-------------------------------------------------------------------------------
DmaBegin ==
  /\ engine' = TRUE /\ engineBuf' = buf /\ copied' = FALSE
  /\ irq' = {} /\ signal' = TRUE
  /\ UNCHANGED config

\* Mutant: an interrupt of the previous transfer is left pending.
CopyBegin_Stale ==
  /\ at = "idle" /\ ~unsafe /\ ~engine
  /\ answer' = "none" /\ wake' = FALSE
  /\ at' = "check" /\ status' = "none" /\ DmaBegin
  /\ UNCHANGED <<providers, ctxVars, pending, online, dpc, alloc>>

\* Copy up to the first release of the interrupt lock.  An unsafe device refuses.
CopyBegin ==
  /\ at = "idle" /\ ~unsafe
  /\ answer' = "none" /\ wake' = FALSE /\ pending' = {}
  /\ IF engine
     THEN /\ at' = "mask" /\ status' = "busy"
          /\ UNCHANGED hwVars
     ELSE at' = "check" /\ status' = "none" /\ DmaBegin
  /\ UNCHANGED <<providers, ctxVars, online, dpc, alloc>>

Verdict(bits) == IF bits = {"done"} THEN "ok" ELSE "error"

\* One turn of the loop: the interrupt's bits are read, under its lock.
CopyCheck ==
  /\ at = "check" /\ wake' = FALSE
  /\ \/ pending # {} /\ at' = "mask" /\ status' = Verdict(pending)
     \/ pending = {} /\ at' = "wait" /\ UNCHANGED status
     \/ pending = {} /\ at' = "mask" /\ status' = "timeout"
  /\ UNCHANGED <<providers, ctxVars, online, pending, dpc, answer, alloc, hwVars>>

CopyWait ==
  /\ at = "wait"
  /\ \/ wake /\ at' = "check" /\ UNCHANGED status
     \/ at' = "mask" /\ status' = "timeout"
  /\ UNCHANGED <<providers, ctxVars, irqVars, answer, alloc, hwVars>>

CopyMask ==
  /\ at = "mask" /\ at' = "halt" /\ signal' = FALSE
  /\ UNCHANGED <<providers, ctxVars, irqVars, reqVars, alloc, config, irq, engine, engineBuf, copied>>

-------------------------------------------------------------------------------
\* DmaHalt returned to Copy, or to DmaStop.
CopyHalted(safe) ==
  /\ at' = "idle" /\ status' = "none"
  /\ answer' = IF safe THEN status ELSE "error"
  /\ unsafe' = ~safe
  /\ config' = IF safe THEN "driver" ELSE config
  /\ UNCHANGED owned

StopHalted(safe) ==
  /\ at' = "unroute" /\ owned' = FALSE
  /\ unsafe' = ~safe
  /\ config' = IF safe THEN saved ELSE "off"
  /\ UNCHANGED reqVars

Halted(safe) == IF online THEN CopyHalted(safe) ELSE StopHalted(safe)

\* Channel 0 is disabled; an engine without its clock does not follow.
Halt ==
  /\ at = "halt" /\ signal' = FALSE
  /\ \/ /\ engine => clock["dma"].on
        /\ engine' = FALSE /\ Halted(TRUE)
     \/ /\ engine /\ at' = "reset"
        /\ UNCHANGED <<unsafe, owned, reqVars, engine, config>>
  /\ UNCHANGED <<providers, buf, saved, irqVars, alloc, irq, engineBuf, copied>>

Reset ==
  /\ at = "reset"
  /\ \/ /\ engine => clock["dma"].on
        /\ engine' = FALSE /\ irq' = {} /\ Halted(TRUE)
     \/ Halted(FALSE) /\ UNCHANGED <<engine, irq>>
  /\ UNCHANGED <<providers, buf, saved, irqVars, alloc, signal, engineBuf, copied>>

-------------------------------------------------------------------------------
\* The transfer ends, well or not, if it has a clock.
EngineEnds ==
  /\ engine /\ clock["dma"].on /\ engine' = FALSE
  /\ \/ irq' = irq \cup {"done"} /\ copied' = TRUE
     \/ irq' = irq \cup {"error"} /\ UNCHANGED copied
  /\ UNCHANGED <<providers, at, ctxVars, irqVars, reqVars, alloc, config, signal, engineBuf>>

\* The line is shared: the handler also runs when this device does not signal.
DmaIsr ==
  /\ online /\ irq # {}
  /\ pending' = pending \cup irq /\ irq' = {} /\ signal' = FALSE /\ dpc' = TRUE
  /\ UNCHANGED <<providers, at, ctxVars, online, wake, reqVars, alloc, config, engine, engineBuf, copied>>

DmaDpc ==
  /\ dpc /\ dpc' = FALSE /\ wake' = TRUE
  /\ UNCHANGED <<providers, at, ctxVars, online, pending, reqVars, alloc, hwVars>>

\* The drivers of I2C, SPI, UARTs, Ethernet and GPIO are such clients.
OtherClient ==
  /\ \E f \in Clients \ {Dma} :
       \/ \E k \in Clocks : RequestClock(f, k) /\ UNCHANGED routeVars
       \/ \E s \in Sources : AcquireRoute(f, s) /\ UNCHANGED clockVars
       \/ CloseClocks(f) /\ UNCHANGED routeVars
       \/ CloseRoutes(f) /\ UNCHANGED clockVars
  /\ UNCHANGED dmaVars

ProvidersPnp ==
  /\ \/ RoutesPnp /\ UNCHANGED clockVars
     \/ ClocksPnp /\ UNCHANGED routeVars
  /\ UNCHANGED dmaVars

DmaPnp ==
  DmaPrepare \/ DmaRelease \/ StartClock \/ StartProbe \/ StartRoute \/ Connect
    \/ Disconnect \/ CloseRoute \/ CloseClock

Copy == CopyBegin \/ CopyCheck \/ CopyWait \/ CopyMask

Next ==
  \/ DmaPnp \/ Copy \/ Halt \/ Reset
  \/ EngineEnds \/ DmaIsr \/ DmaDpc
  \/ OtherClient \/ ProvidersPnp

Spec == Init /\ [][Next]_vars

-------------------------------------------------------------------------------
\* A buffer is never given back while the engine works on it, over failing halts and
\* resets, lost clocks and new device objects (DmaStop, DmaRelease, DmaStart).
EngineKeepsBuffer == engine /\ engineBuf # NoBuf => engineBuf \in alloc

\* A copy that was reported as done took place: no interrupt, event or DPC of an earlier
\* transfer is taken for its own (Copy, DmaBegin, DmaIsr, DmaDpc).
CopyIsHonest == answer = "ok" => copied

\* A device that is not started, however it got there, holds no route and no clock, and
\* its registers are not the driver's (DmaStart, DmaStop).
LeasesReturned ==
  at \in {"released", "down"} =>
    fileRoutes[Dma] = {} /\ fileClocks[Dma] = {} /\ ~owned /\ config # "driver"
===============================================================================

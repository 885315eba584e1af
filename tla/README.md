# TLA+ models of the Raspberry Pi 5 Windows ARM64 drivers

This directory specifies, model-checks and proves properties of the kernel drivers of
this repository. It is read next to the source: every definition names the behaviour it
stands for, and `PROJECT.json` ("map") names the lines.

- [The system](#the-system)
- [Modules](#modules)
- [How the models are built](#how-the-models-are-built)
- [Runs](#runs)
- [Fairness](#fairness)
- [Proofs](#proofs)
- [Findings](#findings)
- [What is not modelled](#what-is-not-modelled)

## The system

The drivers are KMDF drivers, one per hardware block. Some of them are *providers*: they
own a shared block and lease parts of it to other kernel drivers, which open the
provider's device as a remote I/O target and send it control requests. A lease belongs to
the file object; when the client closes or disappears, `EvtFileCleanup` runs. All
providers share one discipline, and most of what can go wrong is in it:

* a handler runs under the device's wait lock, but PnP and power callbacks, cleanups,
  interrupts and the hardware run between handlers (and, where a handler waits or calls
  another driver, within one);
* what was changed for a client is put back before the lease ends, and the hardware is
  read again to prove it;
* whatever is *uncertain* (a write that does not stick, an answer that never came, a
  client that vanished with hardware running) is not repaired. It is latched, for the life
  of the device, of the driver or of the boot, and everything the hardware might still
  reach is kept.

### Inventory

| Component | State | Operations | Interacts with | Hard behaviour | Correct means |
| --- | --- | --- | --- | --- | --- |
| `pi5-pm` V3D reset gate | owner, value of `PM_V3D` as last seen, `BootUnsafe` | acquire, release/assert/pulse reset, release lease, cleanup | leased by pi5-v3d; firmware writes the register too | stale cached value, half a pulse, power loss under a lease | gate is left as found; a doubt latches for the boot, nothing is written afterwards |
| `pi5-mailbox` | boot claim, DMA buffer, transport latch, two clock leases with baselines | property exchange, clock claim/set/release, queries, cleanup | firmware through two FIFOs and a shared buffer; pi5-fclk; UEFI/ACPI handoff | late replies that look like current ones, memory the firmware may still write, vanished controllers | own answer only; buffer never freed while in use; abandoned clocks left alone |
| `pi5-fclk` clock provider | users per clock, leases per file, V3D baseline, ARM clock, pin | acquire, set, release, cleanup, ARM timer, start, stop | controller of pi5-mailbox; leased by pi5-v3d | each handler is a sequence of requests whose answers may be lost | agrees with the mailbox on who holds what, or knows that it does not |
| `pi5-iommu` | session owner, page table, 64 buffers, quarantine, registry marker | begin, allocate, free, sync, execute, end, cleanup | multimedia masters of kernel clients (callbacks) | failures between unmapping, flushing and freeing; reload of the driver | no address of freed memory in the unit; quarantine until reboot |
| `pi5-v3d` GPU service | session, 8 fixed buffers, 256 objects, page table, fences, leases of clock and gate | begin, memory begin, create/import/destroy/copy/tile, submit, reset, end, cleanup | pi5-fclk, pi5-pm, two interrupts, pi5-graphics | unwinding, lost wakeups, stale completions, cached translations | no dangling address; a fence only for a finished job; a session is whole or gone |
| `rp1-service` | owned interrupt routes, per file and in total | acquire, query, cleanup, start, stop | all RP1 drivers | the service stops and starts under its clients | a route is on exactly while leased and started; others untouched |
| `rp1-clocks` | counted leases of UART and DMA clock, saved registers | UART, DMA, query, cleanup, start, stop | rp1-uart, rp1-dma | last user restores what the first one saved, across stops | gate as found when nobody uses it |
| `rp1-dma` copy engine | one channel, common buffer, pending interrupt, `Unsafe` | copy, self-test, start, stop, ISR, DPC | rp1-clocks, rp1-service | old DPC, deadline against completion, halt that fails | data only of this transfer; buffer kept if the engine may run |
| `pi5-nvram` | snapshot, two image files, saved sequence | timer save, flush, shutdown save | firmware variable store, volumes | crash between or within writes, store changes meanwhile | one image is always valid; a flush is durable |
| `pi5-board` | pin targets, LED and driver leases per file, levels | set, release, cleanup, start, stop | GPIO connections of bcm2712-gpio; cyw-bluetooth and others | writes that time out after they took effect, sleep under a lease, a wake that fails half way | supplies on; a leased pin at its owner's level; others as the firmware left them |
| `rp1-fan` | duty, tachometer, temperature sample, manual lease | set, cleanup, watchdog and temperature timers, start, stop | WMI temperature of bcm2712-platform | slow or missing answers outside the lock, stalls, a client that vanishes | slow only for a reason that still holds |
| `rp1-i2c`, `rp1-spi` | current request, FIFO position, event, deadline | begin, worker, cancel, ISR, DPC, start, stop; chip select of SPI | SpbCx, rp1-service, rp1-clocks, rp1-gpio | cancel against completion against power-off; lost wakeups | a request completes once and whole; no register access without the clock, or through a mapping that is gone |
| `rp1-uart`, `bcm2712-uart` | ring, armed and pending notifications, drain and purge, flow control, erratum timer | open, close, PIO ready/cancel/drain, purge, ISR, DPC, timers | SerCx2, rp1-clocks, cyw-bluetooth | notification against cancel on another processor, timers against close, dummy read against a byte | a notification is answered once; the peer is held while it may not send |
| `rp1-gpio`, `bcm2712-gpio` | owners of pins, settings at boot and at sleep, interrupt enables | connect, enable, mask, reconfigure, write, start, stop | GpioClx, firmware broker | shared pins, settings across power loss, broker writes that fail half way, live supplies | a pin nobody has is as found; a lent one as asked; no supply lapses |
| `rp1-ethernet` | TX/RX rings, lifecycle mutex, interrupt state, DPC state | send, ISR, DPC, maintenance, pause, restart, power, halt, surprise removal | NDIS, the MAC's DMA | stop against DPC against MAC, yield and rearm, recovery | a list completes once; rings touched only when quiet; no frame waits for an interrupt that is masked |
| `cyw-bluetooth` | start-up stage, controller, read pump, lists and queues | prepare, D0, download and launch of the patch, read pump, HCI reads | bcm2712-uart, bcm2712-gpio, BthMini | lost answers and a break during the launch, synchronous and asynchronous completions | the controller runs its patch before it is used; packets and requests meet; one user of the buffer |
| `pi5-graph` | immutable graph | lookup | all | | pure lookup |
| `bcm2712-platform` | none | temperature, random bytes | | | |
| `pi5-graphics` | contexts, fences, shadow surfaces | submit, preempt, page, present | pi5-v3d | preemption against completion | fences in order |
| `nvme`, scripts | | | | build time | |

## Modules

| Module | Stands for | State and actions |
| --- | --- | --- |
| `Pm` | `pi5-pm` | Registers as records of the bits that matter; one action per handler and PnP callback; `FirmwareDrift` is the firmware. `base` and `initial` are the gate before and at the acquire. |
| `Mailbox` | `pi5-mailbox/driver.c` | One action per handler; an exchange inside it succeeds, is refused or fails fatally (`Status`). |
| `MbxTransport` | `MbxTransfer` in `mailbox.c` | One exchange against a firmware that works in the buffer concurrently. |
| `ClockLease` | (abstract) | What users of the V3D clock are promised. |
| `Fclk` | `pi5-fclk`, on top of `Mailbox` | `EXTENDS Mailbox`; a handler is a sequence of steps, one per mailbox request; `at` is the next one. Other controllers, and the mailbox's own start and end, are the action `Elsewhere`. |
| `Iommu` | `pi5-iommu` | One action per handler; `Execute` in stages; memory, table entries and cached translations are sets of slots. |
| `V3d` | `pi5-v3d`: sessions, memory, jobs, PnP | Long handlers (Begin, End, a job) in steps, so that the GPU's own steps interleave. |
| `V3dWait` | `pi5-v3d`: Arm, Wait, Mask, Isr, Dpc | Every access to what thread, ISRs, DPCs and engines share is a step. |
| `V3dObjects` | `pi5-v3d`: ObjectPlacement and the table of objects | The loop, one object per step. |
| `DurableStore` | (abstract) | A store with a current and a durable revision. |
| `Nvram` | `pi5-nvram` | Save as a sequence of calls (`pc`), its three callers, the two files as they read back (`disk`) and as they are when power is lost (`media`). |
| `Rp1Files` | what `rp1-service` and `rp1-clocks` share | The clients' file objects and the PnP states. |
| `Rp1Service` | `rp1-service` | Sets of sources: enabled, leased, leased per file. Operators per request and cleanup, actions per PnP callback; no `Next`. |
| `Rp1Clocks` | `rp1-clocks` | A register per clock (gate and class of rate), users, what was saved; as `Rp1Service`. |
| `Rp1Dma` | `rp1-dma`, on top of both providers | The thread of the device (`at`) from DmaPrepare to DmaRelease and through one Copy; ISR, DPC and engine between its steps; other clients and the providers' PnP as `OtherClient` and `ProvidersPnp`. |
| `Spb` | `rp1-i2c` and `rp1-spi` | One request at a time: Begin, worker, cancel routine, ISR, DPC and the PnP callbacks at every step that another of them can see; `mapped` says of the copy of `c->Registers` that Begin made whether it is still mapped; the engine is a transmit FIFO, a byte under way, a receive FIFO. `bus` says which of the two drivers it is. |
| `SerCx2` | what both UARTs share | Armed, pending and committed notifications, the queued DPCs, and operators to enable, cancel, commit and announce; no `Next`. |
| `Uart` | `rp1-uart` | SerCx2's callbacks, ISR, DPC on any processor, drain and purge with their timer, ring and FIFOs as counts. |
| `BcmUart` | `bcm2712-uart` | As `Uart`, with flow control by the rest of the ring, the erratum (a receive timeout without a byte), and the timer that ends it. |
| `Gem` | `rp1-ethernet` | The lifecycle mutex as the operation that holds it and its step (`op`), the DPC's step (`dpc`), the rings as a sequence of slots and a number of frames, the MAC's own steps. |
| `Gpio` | `rp1-gpio` | GpioClx's callbacks on sets of pins; a pin is its function, direction, level and events. `floated` are the pins a step stops driving on its way. |
| `BcmGpio` | `bcm2712-gpio` | As `Gpio`, with writes of brokered pins that fail, and the second-level interrupt mask. |
| `Board` | `pi5-board` | Pins with an open target, their leases per file, the levels written, wanted and on the wire. |
| `Fan` | `rp1-fan` | Watchdog, temperature timer, programs and a clock that counts periods. |
| `Bluetooth` | `cyw-bluetooth` | One action per command of the start-up, with the controller's answer; the pump of every thread (`pc`), the pairing of packets and requests. |
| `MailboxProofs`, `FclkProofs`, `IommuProofs`, `GpuProofs`, `NvramProofs`, `Rp1Proofs`, `TransferProofs`, `DevicesProofs` | | Theorems about the module each one extends (`Rp1Proofs`: `Rp1Dma`, and with it both providers; `GpuProofs`, `TransferProofs` and `DevicesProofs`: the parts of `MCGpu`, `MCTransfers` and `MCDevices`). |
| `MCFclk`, `MCRp1` | | Symmetry, and the clocks that the firmware may leave, for TLC only. |
| `MCGpu`, `MCDevices`, `MCTransfers` | | Bundles: `part` says which of several modules a behaviour is of; the others stay in their initial states. They give each shared question one run, and state the properties that are the same question asked of several drivers. |

`Fclk` is composed with `Mailbox` by extension: FCLK's file object is one of the mailbox's
controllers, and a request of FCLK conjoins the mailbox's own handler action, after which
the answer may be lost. The mailbox's whole life goes on meanwhile: other controllers claim,
set and release, the firmware changes a clock, and the mailbox starts, fails and is removed.
The mailbox's invariants are therefore checked in the composition, and `Mailbox` has no run
of its own. `ClockLease` is implemented by `Fclk` (`LeaseIsKept`), seen from the clients of
FCLK, and `DurableStore` by `Nvram` (`StoreIsDurable`). `Rp1Dma` is composed with the
two providers of RP1 the same way: its `StartClock`, `StartRoute`, `CloseRoute` and
`CloseClock` conjoin the provider's operator for its own file object, other clients call
the same operators, and either provider is prepared, started, stopped and released at any
time in between. `V3dWait` and `V3dObjects` refine two things that `V3d` takes as one
step: the wait for a job, and the choice of an address. `Uart` and `BcmUart` both extend
`SerCx2`.

The bundles are not compositions. The drivers in one of them share no state, so the product
of their behaviours would only repeat each of them; `part` is chosen in the initial state and
never changes, and a property of one module is conditional on it where it would not hold, or
not be meant, in the initial state of the others. The fairness of a bundle is each module's
own, for the part that runs.

## How the models are built

*One handler, one action.* A handler holds the wait lock from its first test to its
return, so nothing the model can see happens inside it, unless it calls another driver,
runs a client's callback, or starts hardware that acts by itself. Those handlers are
sequences of steps, with `at` or `pc` for the position. A handler's early returns are the
guards of its action, and a request that is refused without effect is left out.

*Hardware that may fail.* Register accesses that are checked can succeed, fail, or (where
the register is shared with the firmware) find a foreign value. Polls succeed or time out.
Both are disjuncts; nothing assumes that hardware is well.

*Latches.* `BootUnsafe`, `BootFault`, `BootClaim` are C statics: they survive the device
and, for `BootUnsafe` and `BootClaim`, the model never unloads the driver, since nothing in
the code relies on more. `Iommu` and `V3d` do reload the driver, because their registry
markers exist for that; a marker may fail to be created `MarkerFailures` times.

*Files.* An image is a header and a block of data, each told apart by the sequence number
it belongs to; an image is valid when both agree. A part that was written but not flushed is
old, new or torn after a loss of power. A failing write leaves the old part or a torn one,
and with `WholeMayFail` also the whole new one.

*PnP.* `Prepare`, `D0Entry`, `D0Exit`, `ReleaseHardware`, surprise removal, re-enumeration
are actions with the framework's order as guards. A device that is pinned
(`WdfDeviceSetStaticStopRemove`) or whose QueryStop refuses can still be removed by
surprise or lose its power with the system.

*RP1.* The queue of `rp1-dma` is sequential and power-managed, so the PnP callbacks and the
request handler never overlap and are one thread; DmaStart, DmaStop and Copy are steps of it,
split where they call a provider, release the interrupt lock, wait or touch the engine. The
interrupt line is shared, so the handler may run although this device does not signal. A
provider that stops does not ask its clients: the engine may lose its clock in the middle of
a transfer, and then neither ends nor halts until the clock is back. A file is closed only
by the driver that opened it. Firmware may have left any route enabled, and the clocks in the
states of `MCBootClocks`.

*Serial controllers.* SerCx2, SpbCx, GpioClx and NDIS are modelled by what they may call and
when: SpbCx hands over one request at a time through a power-managed queue, which KMDF starts
in D0 and stops before the device leaves it, waiting for a Begin that runs but not for the worker
(`Spb!NoCallback`, a guard of `InterruptEnable` and `InterruptDisable`); SerCx2 calls the I/O callbacks only in D0 and enables a notification again only when the
last one was answered or cancelled; the framework flushes the DPC before D0Exit, waits in
`WdfTimerStop(TRUE)` for the callback and runs one callback of a timer at a time; GpioClx
stops without saving only when no pin is lent, writes only pins it has lent before (the driver
would write any), and unmasks, reconfigures and disables only
enabled interrupts; NDIS changes power only of a paused miniport; `WdfIoTargetStop` waits for
the read and for its completion routine. An interrupt that was queued to a processor before a
stop may run after it, and a DPC may be queued on one processor while it runs on another.

The guarantee of the queue is needed, and the driver alone does not give it. Begin copies
`c->Registers` into the request before it takes the lock and looks at `Online`
(`rp1-i2c/driver.c:320`, `rp1-spi/driver.c:372`), and the worker uses that copy; the flush of
D0Exit waits for a worker that is queued, not for a Begin that is about to queue one. If
`InterruptDisable` does not wait for it, TLC finds a Begin that has seen `Online`, waits through the
flush of D0Exit and then queues the worker, which finds the device online again after Release,
Prepare and D0Entry and uses a copy that is unmapped; if `InterruptEnable` does not either, a Begin
that copied no address and then finds the device online. The
model is weaker than the framework otherwise: Begin may be called in any state of power, so that
its own check is exercised, and the PnP callbacks other than the two of the interrupt may run
beside it.

*Data.* Addresses count pages or are members of a set of slots. A register is a record of
the bits the code tells apart, the rest one bit that is only compared. A clock rate is one
of two. A byte is its place in the transfer, bytes in a FIFO of a UART are counted, a
temperature is one of three (cool, warm, hot), a frame is a slot. No
property depends on more.

*History variables* are marked "history" where they are declared; no guard of a
driver action reads them.

## Runs

| Run | Module / configuration | Asks | Bounds | States |
| --- | --- | --- | --- | --- |
| `fclk_mailbox` | `MCFclk` / `FclkMailbox` | do client, provider and firmware agree on every clock, whatever answer is lost | 2 clients (symmetric), a second controller, 3 clocks, 1 rate besides the baseline, 1 attempt | 1.7e6 |
| `fclk_arm` | `MCFclk` / `FclkArm` | does the retried start of the ARM clock come to an end, and an orderly stop leave nothing | no client, 2 rates, 1 change by firmware, 3 attempts | 2e5 |
| `iommu_session` | `Iommu` | can the unit reach memory that was given back | 2 files, 2 slots, 1 lost marker | 9.8e3 |
| `iommu_marker_lost` | `Iommu` / `IommuMarkerLost` | expects a violation | 1 slot, 2 lost markers | |
| `rp1_dma` | `MCRp1` / `Rp1` | do the copy engine and its two providers keep their leases, data and buffers | 2 clients (the engine and another), 3 sources of which 2 may be leased, 2 buffers, 10 settings of the clocks at boot | 3.2e6 |
| `nvram_store` | `Nvram` | is a pair of files a durable store | 4 sequence numbers, 2 failing calls | 2.4e5 |
| `nvram_late_failure` | `Nvram` / `NvramLateFailure` | expects a violation | 3 sequence numbers, 1 failure of a write whose data the file has | |
| `gpu` | `MCGpu` / `Gpu` | is a GPU client kept apart from others, told the truth and answered (`V3dObjects`, `V3d`, `V3dWait`, `MbxTransport`) | 3 objects, 11 pages, sizes 1 and 2, 5 handles; 2 files, 2 buffers, 2 jobs, 1 lost marker; 2 interrupting units; 3 exchanges, 1 foreign word | 9.2e4 |
| `devices` | `MCDevices` / `Devices` | do the drivers at the edge leave the board and their clients as promised (`Pm`, `Board`, `Fan`, `Gpio`, `BcmGpio`, `Gem`, `Bluetooth`) | 2 files and 2 changes by firmware; 3 pins and 2 files; 3 temperatures and 1 program; 2 pins per controller, one of them brokered or of the board; 2 lists of at most 2 fragments, 2 slots, batches of 1, 2 processors; 2 threads, 1 reader, 2 requests | 2.3e6 |
| `transfers` | `MCTransfers` / `Transfers` | is every transfer and notification of the serial buses answered once, whole and in time (`Spb`, `Uart`, `BcmUart`) | 2 requests of 3 reads, or of a write and a read, FIFOs of 2; rings and FIFOs of 2 (`BcmUart`: a FIFO of 1), 2 processors (`BcmUart`: 1) | 5.8e5 |
| `uart_purge` | `Uart` / `UartPurge` | expects a violation | 1 processor, ring and FIFO of 2 | |
| `bt_pump` | `Bluetooth` / `BluetoothPump` | expects a violation | 3 threads | |

Why the bounds are enough to be interesting: two files (clients, controllers) are the
least with a second one that is refused or gets what the first one left; two slots let a
buffer live while another is freed; two jobs, or two requests on a bus, let an interrupt or a
late cancel of the first reach the second; a second RP1 client can hold a clock that the copy
engine also uses, or the interrupt it wants, and a second buffer lets a new device run while
the engine still works in the abandoned one; three objects of two sizes in eleven pages force
the placement to jump, to fill a hole and to fail. Four sequence numbers let a save be
overtaken by changes, fail, be repeated over a half-written copy, and be followed by one that
overwrites the other copy; a crash may come at any of these points. `fclk_mailbox` keeps one
rate, since rates are only compared, and leaves changes of rate and the retries of the ARM
clock to `fclk_arm`. One lost marker is healed by a later quarantine of the same episode, two
are not (see the finding). Three read bytes in FIFOs of two make the worker count what it has
asked for and not yet got, and sleep in the middle. A ring of two in a UART fills, pauses the
peer and drains. Two slots of a transmit ring hold a list of two fragments half sent, a batch
of one makes the DPC yield with more to do, and two processors let a queued DPC wait while
another runs, and a reader of Bluetooth packets look for one while the pump queues it.
Two pins are the least that a client asks for together and one of which another
client shares. The counters that only bound the state space (`MaxDrift`, `MaxJobs`,
`MaxRequests`, `MarkerFailures`, `MaxForeign`, `MaxSequence`, `MaxFailures`, `Waiting`,
`Limit`) are constants and appear in the guards of the actions of the environment, and of
`StartJob` and `Begin`, where a job or a request is a client's choice. `Attempts`, `Ring`,
`Depth`, `Fifo`, `Batch`, the periods of the fan and the limits of `V3dObjects` are constants of
the code or of the hardware with smaller values.

What the runs show is stated above each property. The main points:

* **`pi5-pm`**: whatever is written, fails or drifts, a lease that ends with no fault
  leaves the register as before the lease, and after the latch no step of the driver
  writes it, in any later life of the device in the boot.
* **`pi5-mailbox`**: the code cannot tell replies apart, and still never takes one for
  another, because an exchange that is given up is fatal; the buffer is then kept, an
  abandoned clock is left alone and a clean end is at the baseline (`ProviderKeepsItsWord`).
* **`pi5-fclk`**: with any answer lost, FCLK's idea of who holds a clock equals the
  mailbox's or is marked uncertain; an orderly stop leaves nothing behind.
* **`pi5-iommu`, `pi5-v3d`**: no sequence of failures frees memory that the unit can
  still translate to, or gives back the clock, gate or registers of a GPU that may run
  (`GpuKeepsWhatItUses`); no fault is forgotten within the boot, up to the finding; no client is
  told of an end that is not its own (`NobodyIsMisled`).
* **`pi5-nvram`**: with changes, failures and crashes anywhere, the pair of files is a
  durable store, and what was reported as saved is found by the next start, as long as a
  write that is reported as failed did not take place whole (see the findings).
* **RP1 core**: whatever the providers, the other clients and the hardware do, a route is on
  exactly while it is leased and its provider runs, a clock without users is as the firmware
  left it, a copy that is reported as done was done, and no buffer is given back while the
  engine works in it.
* **I2C, SPI**: Begin, worker and cancel routine complete a request once and let go of it; the
  clock outlives every access, which goes through a mapping that still exists; the FIFO cannot overrun; the periodic timeout of the wait
  hides no lost wakeup (but for the end of an SPI transfer, where the code polls).
* **UARTs**: each notification has one answerer, also between cancel and DPC on two
  processors; on the Bluetooth UART, RTS and the receive interrupt follow the three reasons
  to hold the peer, whichever handler writes last, and the dummy read of the erratum swallows
  no byte of its own session. Draining, purging and announcing come to an end.
* **pins**: a pin nobody has is as the firmware left it, unless its client asked to keep it;
  shared pins, stops with pins lent and broker writes that fail half way included; a supply
  that is driven before and after a step is driven throughout.
* **board, fan**: leases, targets and levels agree through sleep and failed writes; the fan is
  slow only while a recent temperature, a turning rotor or an unexpired lease says so.
* **Ethernet**: a list is completed once, by MAC, DPC, pause, recovery or halt; rings are
  rebuilt and freed only when DPC and MAC are out of them; no frame waits behind a masked
  interrupt without a DPC to come.
* **Bluetooth**: requests reach the controller only when it runs its patch with its address
  at the UART's rate, whatever a failed start left; packets and requests meet.
* **waiting** (`WaitEnds`): an exchange, a placement, a job that has ended, a transfer on a
  bus, a drain and an announcement of received bytes all end.

Deadlock is not checked where the system may stop for good: `Iommu` and `V3d` (a faulted
device refuses to start until reboot), and in the bundles, where a part ends when its exchanges,
jobs or requests are used up, or its device has failed for good.

## Fairness

| Specification | Fairness | Why |
| --- | --- | --- |
| `Fclk!FairFclkSpec` | weak on the running handler, strong on the ARM timer | a handler waits for synchronous calls that return or time out; an expired timer gets the wait lock although other handlers take it in between |
| `Nvram!FairSpec` | weak on the calls of Save, on the end of the timer's callback and on its start | calls return; an expired timer whose callback is kept from the lock for ever is not assumed to get it, since whoever keeps it away saves |
| `MCGpu!AllSpec` | weak on the steps of `MbxTransfer`, on the search of `V3dObjects`, and on thread, ISRs and DPCs of `V3dWait` | threads run and the processor serves interrupts; nothing is assumed of firmware, engines or clients. `WaitEnds` asks for a job's end only when the job has ended, so it does not lean on the deadline |
| `MCTransfers!AllSpec` | weak on Begin, cancel routine, worker, the timeout of its wait and the passing of its deadline (`Spb`); on ISR, DPCs, timers and the transmitter (`Uart`); on ISR, DPC, timer and the arrival of what the peer has sent (`BcmUart`) | threads run and timers expire; neither engine nor interrupts of the buses are fair, so that the deadline is what ends a transfer; SerCx2, peers and clients owe nothing |
| `Uart!FairSpec` | weak on ISR, DPCs, timers, the receive timeout and the transmitter | as above; `uart_purge` is violated although every interrupt is served |

Safety properties use no fairness.

## Proofs

Theorems hold for all values of the constants that satisfy the named assumptions; TLAPS
checks them to the last leaf.

* **`MailboxProofs`** (any clocks, rates, controllers). `IInv` says in addition that no
  handoff happens before the claim and that an abandoned clock has no holder. Types,
  `UnansweredBufferKept`, `OneHandoff`, and the action properties `AbandonedForever`,
  `ReleaseAtBaseline`, `FaultIsFinal`; `ProviderKeepsItsWord`, the conjunction that
  `fclk_mailbox` checks in the composition.
* **`FclkProofs`** (any clients, controllers, read-only clocks and attempts; `FclkAssumption`:
  a clock is at most one of V3D, ARM and read-only, there is a fastest rate, clients are
  finitely many). Every request of FCLK is shown to be a step that the mailbox's own `Next`
  allows a controller (`AskingIsAStep`), so that the composition is still the mailbox of its
  specification (`MailboxStillHolds`) and keeps the provider's word. `FclkInv` adds to the
  mailbox's invariant: the use counts and the single user of V3D (`LeaseInv`); what each place of
  a handler means, down to the values it will write (`JobInv`); the agreement of FCLK's flags with
  the mailbox's holder while nothing is in doubt (`ClaimInv`, which also has to say that before
  the boot claim nobody holds anything); and what each power state leaves of ARM timer and handler
  (`PowerInv`). `Agreement`, `OrderlyStopIsClean`, the action property `UncertainHandsOff`, and
  the refinement `LeaseIsKept`.
* **`IommuProofs`** (any files and slots, under `NoMarkerLost`, that is
  `MarkerFailures = 0`; the finding shows why an assumption is needed). `IInv` has four
  parts: `Latches` (which latch implies which), `SessionInv` (without quarantine the owner
  determines memory, registers, table), `WindowInv` (the stage of Execute determines what
  translates) and `ReachInv` (what the unit can reach, quarantined or not, which is what
  makes `NothingDangles` hold after a failure). `NothingDangles`, `DmaKeepsTranslation`,
  `TranslationOnlyInWindow`, `SessionIsAll`, `BlocksReuseUntilReboot`.
* **`NvramProofs`** (any number of changes and failures, under `FailedIsNotWhole`, that is
  `~WholeMayFail`; the finding shows why). `FilesInv` says that one copy is good (on the
  media as it reads back, and valid) and that the headers of the other are older, except for
  the target of the commit under way, for which it says what each step has reached;
  `OrderInv` orders the numbers that Save works with, and `PromiseInv` is the property. What
  a torn or mixed copy is worth after a crash follows from its header being older.
  `PromiseKept`, and `StoreIsDurable`: every step is a step of `DurableStore` or a stutter.
* **`Rp1Proofs`** (any finite set of clients, any sources and buffers, any clocks at boot).
  Each provider has an inductive invariant of its own, kept by each of its operations
  whoever calls it: `RoutesInv`, and `ClocksInv`, which adds to `ClocksAsFound` what the
  provider remembers (`ClockMemory`: a clock that was changed has its setting of boot saved,
  one that was not still has it). `HoldersCount` relates the users of a clock to its files.
  The driver's part says what it holds at each place of its thread (`LeaseInv`), why the
  engine cannot work in its buffer elsewhere (`EngineInv`), and that each completion which
  interrupt status, `Pending` or a verdict remembers is of the last transfer (`HonestInv`).
  Types, `RoutesFollowLeases`, `ClocksAsFound`, `EngineKeepsBuffer`, `CopyIsHonest`,
  `LeasesReturned`.
* **`GpuProofs`** (each part of `MCGpu` for any values of its constants; like `DevicesProofs`):
  * *Objects* (any table, sizes and limits). The loop invariant `SearchInv` says that objects
    below `i` do not overlap the candidate; `JumpPassesOverlaps` that a jump passes only addresses
    that overlap. `Apart`, `InRange`, `NoneSkipped`, `HandlesAreUnique`, and the action properties
    `RefusedRightly` and `HandlesNotReused`. `BudgetInv` adds to `BudgetsAreExact` that the object
    being placed still fits, so that no budget is exceeded when it is entered. `BudgetsAreExact`.
  * *The session* (`SessionAssumption`: no file object is the absence of one, the buffers and bounds
    are natural numbers and the table's root is no buffer). `GpuKeepsWhatItUses` is not inductive:
    it names what the core needs but not what a handler knows between two of its steps.
    `LatchInv` has the device's life, the two latches and who holds the lock; `CoreInv` what the
    core needs whatever has failed; `SessionInv` what a device that is not latched holds at each
    step of its handlers, forwards (`Bare`, `Leased`, `Claimed`, `Exact`) and back (`Off`, `Returned`,
    `Closed`). The hypothesis is `MarkerLostOnce` (MarkerFailures <= 1), as in `IommuProofs` and
    for the reason given under Findings.
  * *The wait and the exchange* run beside the session: their steps leave it alone, and their types
    are invariants for any jobs, units, threads and requests. `FenceInv`: a memory session and a
    device that is live and free are intact, and one fence is outstanding exactly while a handler
    waits for the core. `ArmInv`: before a job the units fall silent one after another, so no
    completion of an earlier job gets past `Arm`. `AnswerInv`: never more than one word of the
    driver's is out, and a transfer that ends with its word still out latches the transport.
  `GpuKeepsWhatItUses` and `NobodyIsMisled`, as theorems of `AllSpec`.
* **`TransferProofs`** (each part of `MCTransfers`; `SizesAssumption`: ring and FIFOs have a natural
  number of entries):
  * *The SpbCx controllers* (any plans, depth of the FIFOs and number of requests, both buses).
    `HandoffInv` says who still owns a request that is not completed: Begin, then the worker
    until it gives up the slot, then whoever of worker and cancel routine comes last; the bits of
    `completion` and the framework's `cancelable` follow from that. `HandoffIsExact` alone is not
    inductive: it does not say that a worker at its last step knows of the cancel routine.
    `ClockInv` relates the steps of Begin and of the worker to the place of the PnP thread: D0Exit
    takes the clock only after it has waited for the worker, and a Begin that found the device
    online keeps it there until the worker is queued, so the address it copied is mapped as long as
    the worker uses it. It rests on `HandoffInv` (nobody else is at work when Begin starts) and on
    the queue's guarantee, `NoCallback`. The bytes need four parts: `FifoInv` counts what is in the FIFOs, in the shift register
    and read, against what was sent, so that nothing overflows; `OrderInv` says that what came back
    are wanted bytes in order and that none of them is still under way; `PhaseInv` has what the
    worker knows at each step (the end of an I2C transfer is announced by STOP); `OkInv` what a
    status of success has seen. `TransferIsWhole` then follows because as many distinct wanted bytes
    came back as are wanted. `WakeInv` says of cancel, stop and work each who will wake a worker that is
    about to sleep. `HandoffIsExact`, `EngineIsClocked`, `TransferIsWhole`, `WokenWithoutTimer`.
  * *The UARTs* (the header UART for any processors, ring and FIFO; the Bluetooth UART as `MCTransfers`
    has it, with one processor for the DPC and FIFOs of one byte, for any ring and low-water mark).
    `OneAnswerer` is `AnsweredOnce` without the counting: whoever holds a notification holds one that
    SerCx2 waits for, no two hold the same, and one that is waited for is held. It is kept by the
    four operations of `SerCx2` for both drivers (`NotificationEnabled`, `NotificationCancelled`,
    `NotificationTaken`, `NotificationAnnounced`). `UartInv` and `BcmInv` add what is left when the
    file is closed or the power is going, without which a file could be opened, or the power put out,
    with a notification owed. `QuirkInv` follows the dummy read through its places, flag, DPC and
    timer: while no session was closed with it under way it is due in one of them at most, the
    peer is held off until then, and the timer does not fire before the byte on the wire has landed.
    `AnsweredOnce`, which also has the types of all three controllers, and `FlowControlHolds`, as
    theorems of `AllSpec`.
* **`DevicesProofs`** (each part of `MCDevices` for any values of its constants; `AllSpec` takes one
  part's step at a time, so an invariant of a part is kept by its own steps):
  * *The reset gate* (`Pm`, any set of files, any drift). `GateInv` adds to the types what a live
    lease knows: while nothing is latched, an owner pins an online device in D0 and
    `initial = base`; without an owner the register *is* `base`. `GateRestored` is not
    inductive without the first part, since the value that release writes is computed from
    `initial`. Types, `GateRestored`, `NoHalfPulse`, `LostLeaseIsLatched`, and the action
    property `HandsOffAfterFault`.
  * *The board* (`BoardAssumption`: no file is both a driver's and a user's, since the access check
    of the file object decides once). `ControlsInv` has the leases per file and in total, `PinInv`
    says which pins are open, `LevelInv` what level each one has; closing and opening pins, which
    every handler does, are lemmas (`Closed`, `LeaseTaken`, `LeaseGiven`). `LeasesHold`.
  * *The fan* (`FanAssumption`: times are natural numbers and temperatures integers, and no file object is
    the absence of one). `FanInv` adds to the property that a stopped driver has no lease, that a
    lease has an owner and that a sample's age is the number the watchdog recorded; the rest is
    that every step either asks for full speed or decides by the policy. `LowDutyIsJustified`.
  * *The Ethernet miniport* (any lists, processors, ring and batch). `GemOpInv` says who may hold the
    lifecycle mutex in which state, `GemStopInv` what each step of such an operation has brought to
    rest, `GemLifeInv` what is left of that between operations (a paused adapter is quiet because
    only a running one begins a DPC, sends, or is recovered), `GemRingInv` that the MAC hands slots
    back in order, and `GemWakeInv` that a running adapter with a link will look at its rings
    again. `MemoryIsQuiet`, `NoFrameForgotten`. For the lists (`GemAssumption`: the ring has
    descriptors and a batch is a number), `GemListInv` says that the marked slots, the DPC's
    collection and the operation's partition the accepted lists, `GemIdleInv` that nobody but the
    step that completes them holds a collection and that only a running adapter has lists at all.
    `SendsAreReturned`, which also has the types of every part: this is where `BoardTypes`,
    `GemRoomInv` and the other type lemmas are used.
  * *The pins* (`PinsAssumption`: what the firmware leaves in a pin is a state of a pin). `GpioInv`
    and `BcmInv` add to `PinsAsFound` and `OwnersExclude` where the settings of lent pins are
    while the controller is stopped with its context saved: in `resume`, as they were in the registers
    (`GpioLentInv`, `BcmLentInv`, of either). `PinsAsFound`, and the action property
    `SuppliesHold`, from what the three operations on registers do (`GpioHeld`; on the other
    controller `lapsed` stays empty).
  * *Bluetooth* (`BluetoothAssumption`: finitely many threads, lists with a limit). `BtStartInv` has
    what each command of a start knows of the chip from the commands before it (patched, then
    named, then at the host's rate), and that the driver's word `ready` is taken back before any
    step that touches the chip again. Packets and requests wait together for no longer than a
    thread that queued one has yet to look for its pair, which is inductive as it stands once such
    threads are counted (`BtLateCounts`). `ControllerIsReady`, `NoneStranded`.

Some theorems state properties that are not checked by a run of their own: the parts of
`ProviderKeepsItsWord`; `LostLeaseIsLatched`, `TranslationOnlyInWindow`, `SessionIsAll` of
`Iommu` and `LeasesReturned`; and `NoHalfPulse`, `OneHandoff`, `FaultIsFinal`, `InRange`,
`NoneSkipped` and `HandlesAreUnique`.

Only model-checked: every liveness property (`ArmSettles`, `ChangesAreSaved`, `WaitEnds`),
which TLAPS does not reach.

## Findings

`iommu_marker_lost`: `Quarantine` (`pi5-iommu/driver.c:88`) ignores whether the registry
marker could be created. The comment above it says that losing a devnode must never make
uncertain DMA memory reusable and that the marker is what survives driver reload. One
refused creation is harmless, since D0Exit and ReleaseHardware quarantine again and try
again. Two are not: the driver is unloaded, `BootFault` is a new static of the reloaded
driver, Prepare finds no marker and a session begins in the same boot.
`pi5-v3d/driver.c:129` has the same shape.

`nvram_late_failure`: `Commit` (`pi5-nvram/driver.c:207-218`) takes what it reads back for what
is on the media. If the header of a new image is written and its flush fails
(`driver.c:186`), Save reports the failure, but the file reads back as the new image. The next
save of the same contents finds it equal and reports success without a flush
(`driver.c:214-216`); the next save of newer contents overwrites the other file, which is the
only one on the media, and power lost at that point leaves no valid file. The driver's
README promises redundant files. `StoreIsDurable` is refuted with `WholeMayFail = TRUE`, and
proved with `FALSE`.

`uart_purge`: `UartPurge` (`rp1-uart/driver.c:405-418`) captures what has arrived into the ring
(409) and clears the interrupt (415), but, unlike `UartRxEnable` and `UartIsr`, does not look
whether a receive notification is armed. When only the transmitter is purged, the bytes stay in
the ring and SerCx2 is told of them only when another byte comes. The Bluetooth UART's
`UartPurge` does not capture and is not affected.

`bt_pump`: the sender of a read (`cyw-bluetooth/io.c:444-476`) decides by a compare-and-swap
after `WdfRequestSend` whether its read completed synchronously. A read that completes on another
processor in between looks synchronous to both sides: the completion routine, which then leaves
the next read to the sender, goes on parsing the buffer that the sender already gives to the next
read.

Two observations that no run states: requests are completed after the lock of their queue is
released, so two of them may complete out of the "sequential order" that `Fdo.c:1194` and
`Fdo.c:1218` mean to preserve; and a pump whose next read fails after an asynchronous completion
ends without a trace.

## What is not modelled

Components without a module are listed in `PROJECT.json` with the reason: `pi5-graph` and
`bcm2712-platform` (no state that changes), `pi5-graphics` (what it must do is dxgkrnl's to say,
and its compiler is data), command line tools and test clients, and what runs at build time.

Within the modelled ones: diagnostics, registry snapshots, status queries beyond what a
property needs, the layout of requests, resource parsing in Prepare (it succeeds or fails), the
encoding of page table entries and addresses, the register sequences of the V3D self-tests, and
the contents of jobs. `V3d` keeps the leases of clock and gate as flags rather than composing
`Fclk` and `Pm`; what those promise their clients is checked there. The arithmetic of
`ObjectCopy`, `ObjectTile` and `TextureLayout` is left out: dimensions are at most 4096 and sizes
at most those of an object, so that no 32-bit sum overflows.

* `Spb`: timing, addresses, speeds and the layout of transfer lists; QueryRemove and QueryStop.
* `Uart`, `BcmUart`: wait masks and events, modem lines, line settings beyond what restarts the
  receiver, counters and tracing. In `BcmUart` a callback of the erratum's timer, or its DPC,
  that outlives Close may meet the next session and read its dummy byte too early;
  `DummyReadIsSafe` is about a session's own read and excludes that case on purpose.
* `Gem`: CancelSend (it changes statuses only), statistics, filters, addresses, the PHY, OIDs other
  than power, the probe-only mode, the shutdown of a crash, and the branch that finds a published
  slot without a list, which is not reachable. A stuck MAC is assumed to touch only the buffer
  that is retained for it. A DPC that was queued before a stop may run after the restart and meet
  a bus error of the old life in `irqPending`; no property is about the recovery it then asks for.
* `Gpio`, `BcmGpio`: pulls and drive strengths follow the other settings of a pin;
  the service of interrupts is the controller's class extension's.
* `Fan`: the watchdog timer is on time; the wording of WMI blocks.
* `Board`: QueryRemove and QueryStop, which only answer.
* `Bluetooth`: writes, version and capability requests, the PDO and its idle references, the
  reset handler, which nothing calls, and rebalancing.

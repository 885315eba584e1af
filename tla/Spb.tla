---------------------------------- MODULE Spb ----------------------------------
(***************************************************************************)
(* The two SpbCx controllers, src/rp1-i2c and src/rp1-spi.  They share     *)
(* their frame: Begin takes a request and queues the worker, the worker    *)
(* feeds the FIFOs and sleeps on an event that the DPC sets, Cancel and    *)
(* the worker hand the completion to each other, and D0Exit waits for the  *)
(* worker.  They differ in the engine, and SPI drives its chip select      *)
(* through a GPIO driver.  bus says which of them is looked at.            *)
(*                                                                         *)
(* A request is the sequence of its bytes, TRUE for one that is read; a    *)
(* byte is known by its place.  Layout of transfers, speeds and addresses  *)
(* are left out: they are valid or the request is refused.                 *)
(***************************************************************************)
EXTENDS Integers, Sequences, FiniteSets

CONSTANTS
  Plans,        \* the requests of clients: sequences of BOOLEAN
  Depth,        \* entries of the transmit and of the receive FIFO
  MaxRequests   \* bound on the requests of a behaviour

ASSUME SpbAssumption ==
  /\ Plans \subseteq Seq(BOOLEAN) /\ \A p \in Plans : p # <<>>
  /\ Depth \in Nat /\ Depth >= 2 /\ MaxRequests \in Nat

VARIABLES
  bus,         \* "i2c" or "spi"
  pnp,         \* the PnP thread: where it is in Prepare, Start, Stop, Release
  lease,       \* the provider files that are open: "clock", "route"
  online,      \* c->Online
  pins,        \* SPI: the target's GPIO file is open
  slot,        \* c->Request is set
  starter,     \* Begin: its next step, or "none"
  worker,      \* the work item: its next step, or "idle"
  canceler,    \* I2cCancel: its next step, or "none"
  plan,        \* the request's bytes
  asked,       \* the client has asked to cancel it
  cancelable,  \* the framework may call, or has called, the cancel routine
  cancelled,   \* r->Cancelled
  completion,  \* r->Completion, the set of its bits
  status,      \* r->Status and the worker's status
  ended,       \* history: how often the request was completed
  count,       \* history: requests so far
  mapped,      \* e->Registers, the copy of c->Registers, is a mapping that exists
  sent,        \* e->TxIndex, Queued: bytes written to the FIFO
  inbox,       \* e->RxIndex, Received: bytes read from it
  stopped,     \* e->Stopped
  late,        \* the deadline of the transfer has passed
  wake,        \* c->Wake is signalled
  dpc,         \* the DPC is queued
  locked,      \* the worker holds the interrupt lock
  mask,        \* external: the interrupts that are enabled
  enabled,     \* external: the engine is on
  txf, shift, rxf, \* external: FIFOs, and the byte under way or 0
  raw,         \* external: latched conditions, "stop", "abort", "error"
  select       \* external: the chip select pin is active

device  == <<pnp, lease, online>>
request == <<plan, asked, cancelable, cancelled, completion, status, ended, count>>
progress == <<mapped, sent, inbox, stopped, late>>
fifos   == <<enabled, txf, shift, rxf, raw>>
hw      == <<fifos, mask, select>>
vars    == <<bus, device, pins, slot, starter, worker, canceler, request, progress,
             wake, dpc, locked, hw>>

Irqs == {"errors", "stop", "rx", "tx"}

\* The bytes that come back: on I2C those of read commands, on SPI every frame.
Reads(k) == bus = "spi" \/ plan[k]
Wanted(n) == {k \in 1..n : Reads(k)}
Missing(n) == Cardinality(Wanted(n)) - Len(inbox)
Outstanding == Missing(sent)

\* What the engine reports, by the thresholds the worker programs.
Pending ==
  (IF raw \intersect {"abort", "error"} # {} THEN {"errors"} ELSE {})
    \union (IF "stop" \in raw THEN {"stop"} ELSE {})
    \union (IF rxf # <<>> THEN {"rx"} ELSE {})
    \union (IF enabled /\ Len(txf) <= (Depth \div 2) - 1 THEN {"tx"} ELSE {})

Busy == txf # <<>> \/ shift # 0

\* The engine is disabled: its FIFOs are flushed.
Off == enabled' = FALSE /\ txf' = <<>> /\ shift' = 0 /\ rxf' = <<>>

\* I2C aborts what is under way first, and then may not come to rest.
DisableFails ==
  /\ bus = "i2c" /\ enabled
  /\ txf' = <<>> /\ shift' = 0 /\ UNCHANGED <<enabled, rxf>>

Complete(s) == status' = s /\ ended' = ended + 1

-------------------------------------------------------------------------------
(* Begin, in the order of its calls.  SpbCx gives one request at a time.     *)

\* Begin copies the address of the registers before it looks at the slot and at Online,
\* and the worker uses the copy: Disable(e), I2cWrite(e), I2cPump(e).
Begin(p) ==
  /\ starter = "none" /\ ended = 1 /\ count < MaxRequests
  /\ bus = "spi" => pins
  /\ plan' = p /\ count' = count + 1
  /\ asked' = FALSE /\ cancelable' = "no" /\ cancelled' = FALSE /\ completion' = {}
  /\ mapped' = (pnp # "out")
  /\ sent' = 0 /\ inbox' = <<>> /\ stopped' = FALSE /\ late' = FALSE
  /\ status' = "none" /\ ended' = 0 /\ starter' = "check"
  /\ UNCHANGED <<bus, device, pins, slot, worker, canceler, wake, dpc, locked, hw>>

BeginCheck ==
  /\ starter = "check"
  /\ IF slot \/ ~online
       THEN starter' = "none" /\ Complete("not ready") /\ UNCHANGED slot
       ELSE starter' = "mark" /\ slot' = TRUE /\ UNCHANGED <<status, ended>>
  /\ UNCHANGED <<bus, device, pins, worker, canceler, plan, asked, cancelable, cancelled,
                 completion, count, progress, wake, dpc, locked, hw>>

\* A request that is already cancelled is not marked; Begin completes it itself.
BeginMark ==
  /\ starter = "mark"
  /\ IF asked
       THEN /\ slot' = FALSE /\ starter' = "none" /\ Complete("cancelled")
            /\ UNCHANGED cancelable
       ELSE /\ cancelable' = "yes" /\ starter' = "enqueue"
            /\ UNCHANGED <<slot, status, ended>>
  /\ UNCHANGED <<bus, device, pins, worker, canceler, plan, asked, cancelled, completion,
                 count, progress, wake, dpc, locked, hw>>

BeginEnqueue ==
  /\ starter = "enqueue" /\ starter' = "none" /\ worker' = "entry"
  /\ UNCHANGED <<bus, device, pins, slot, canceler, request, progress, wake, dpc, locked, hw>>

-------------------------------------------------------------------------------
(* The framework and I2cCancel.                                              *)

AskCancel ==
  /\ ended = 0 /\ ~asked /\ asked' = TRUE
  /\ IF cancelable = "yes"
       THEN cancelable' = "called" /\ canceler' = "flag"
       ELSE UNCHANGED <<cancelable, canceler>>
  /\ UNCHANGED <<bus, device, pins, slot, starter, worker, plan, cancelled, completion,
                 status, ended, count, progress, wake, dpc, locked, hw>>

CancelFlag ==
  /\ canceler = "flag" /\ canceler' = "wake" /\ cancelled' = TRUE
  /\ UNCHANGED <<bus, device, pins, slot, starter, worker, plan, asked, cancelable,
                 completion, status, ended, count, progress, wake, dpc, locked, hw>>

CancelWake ==
  /\ canceler = "wake" /\ canceler' = "handoff" /\ wake' = TRUE
  /\ UNCHANGED <<bus, device, pins, slot, starter, worker, request, progress, dpc, locked, hw>>

\* Mutant: the cancel routine completes whatever the worker does.
CancelHandoff_Completes ==
  /\ canceler = "handoff" /\ canceler' = "none"
  /\ completion' = completion \union {1} /\ Complete("cancelled")
  /\ UNCHANGED <<bus, device, pins, slot, starter, worker, plan, asked, cancelable, cancelled,
                 count, progress, wake, dpc, locked, hw>>

\* Whoever comes second completes.
CancelHandoff ==
  /\ canceler = "handoff" /\ canceler' = "none"
  /\ completion' = completion \union {1}
  /\ IF 2 \in completion THEN Complete("cancelled") ELSE UNCHANGED <<status, ended>>
  /\ UNCHANGED <<bus, device, pins, slot, starter, worker, plan, asked, cancelable, cancelled,
                 count, progress, wake, dpc, locked, hw>>

-------------------------------------------------------------------------------
(* The worker.                                                               *)

Goto(l) == worker' = l
Other == UNCHANGED <<bus, device, pins, slot, starter, canceler, plan, asked, cancelable,
                     cancelled, completion, ended, count>>

\* CopyBuffers of what is to be written may fail, or the speed not be reachable.
WorkerEntry ==
  /\ worker = "entry"
  /\ \/ Goto("check") /\ UNCHANGED status
     \/ Goto("publish") /\ status' = "error"
  /\ Other /\ UNCHANGED <<progress, wake, dpc, locked, hw>>

WorkerCheck ==
  /\ worker = "check"
  /\ \/ cancelled /\ Goto("publish") /\ status' = "cancelled"
     \/ ~cancelled /\ ~online /\ Goto("publish") /\ status' = "power"
     \/ ~cancelled /\ online /\ Goto("prepare") /\ UNCHANGED status
  /\ Other /\ UNCHANGED <<progress, wake, dpc, locked, hw>>

MaskAll(l) ==
  /\ ~locked /\ mask' = {} /\ Goto(l)
  /\ Other /\ UNCHANGED <<status, progress, wake, dpc, locked, fifos, select>>

WorkerPrepare == worker = "prepare" /\ MaskAll("disable")

\* Nothing acts between Disable and the write to ENABLE: I2C configures and starts.
WorkerDisable ==
  /\ worker = "disable"
  /\ \/ DisableFails /\ Goto("quiet") /\ status' = "timeout" /\ UNCHANGED raw
     \/ /\ Goto(IF bus = "i2c" THEN "clear" ELSE "select")
        /\ enabled' = (bus = "i2c") /\ txf' = <<>> /\ shift' = 0 /\ rxf' = <<>> /\ raw' = {}
        /\ UNCHANGED status
  /\ Other /\ UNCHANGED <<progress, wake, dpc, locked, mask, select>>

\* SPI: the GPIO write may fail with or without effect.
WorkerSelect ==
  /\ worker = "select"
  /\ \/ /\ Goto("clear") /\ select' = TRUE /\ enabled' = TRUE /\ UNCHANGED status
     \/ /\ Goto("quiet") /\ status' = "error" /\ select' \in BOOLEAN /\ UNCHANGED enabled
  /\ Other /\ UNCHANGED <<progress, wake, dpc, locked, txf, shift, rxf, raw, mask>>

LoopClear ==
  /\ worker = "clear" /\ Goto("check in loop") /\ wake' = FALSE
  /\ Other /\ UNCHANGED <<status, progress, dpc, locked, hw>>

\* Mutant: a request without a deadline.
LoopCheck_NoDeadline ==
  /\ worker = "check in loop"
  /\ \/ cancelled /\ Goto("quiet") /\ status' = "cancelled"
     \/ ~cancelled /\ ~online /\ Goto("quiet") /\ status' = "power"
     \/ ~cancelled /\ online /\ Goto("lock") /\ UNCHANGED status
  /\ Other /\ UNCHANGED <<progress, wake, dpc, locked, hw>>

LoopCheck ==
  /\ worker = "check in loop"
  /\ \/ cancelled /\ Goto("quiet") /\ status' = "cancelled"
     \/ ~cancelled /\ ~online /\ Goto("quiet") /\ status' = "power"
     \/ ~cancelled /\ online /\ late /\ Goto("quiet") /\ status' = "timeout"
     \/ ~cancelled /\ online /\ ~late /\ Goto("lock") /\ UNCHANGED status
  /\ Other /\ UNCHANGED <<progress, wake, dpc, locked, hw>>

\* Online is looked at again under the interrupt lock.
LoopLock ==
  /\ worker = "lock"
  /\ \/ ~online /\ Goto("quiet") /\ status' = "power" /\ UNCHANGED locked
     \/ online /\ Goto("raw") /\ locked' = TRUE /\ UNCHANGED status
  /\ Other /\ UNCHANGED <<progress, wake, dpc, hw>>

\* The end of a pump: the mask is written and the lock is given back.
Unlock(l, s, irqs) == Goto(l) /\ status' = s /\ mask' = irqs /\ locked' = FALSE
Goes(l) == Goto(l) /\ UNCHANGED <<status, mask, locked>>

PumpRaw ==
  /\ worker = "raw"
  /\ IF raw \intersect {"abort", "error"} # {}
       THEN Unlock("quiet", "error", {}) /\ UNCHANGED stopped
       ELSE Goes("drain") /\ stopped' = (stopped \/ "stop" \in raw)
  /\ raw' = raw \ {"abort", "stop"}
  /\ Other /\ UNCHANGED <<mapped, sent, inbox, late, wake, dpc, enabled, txf, shift, rxf, select>>

\* What was received is checked against what was asked for, then read.  I2C is done on
\* a STOP that comes last, SPI when every frame is back and the shifter is at rest;
\* only that wait for rest relies on the timer.
PumpDrain ==
  /\ worker = "drain"
  /\ IF Len(rxf) > Outstanding
       THEN Unlock("quiet", "error", {}) /\ UNCHANGED <<inbox, rxf>>
       ELSE /\ inbox' = inbox \o rxf /\ rxf' = <<>>
            /\ \/ /\ bus = "i2c" /\ ~stopped /\ Goes("fill")
               \/ /\ bus = "i2c" /\ stopped
                  /\ IF sent = Len(plan) /\ Outstanding = Len(rxf)
                       THEN Unlock("quiet", "ok", {}) ELSE Unlock("quiet", "error", {})
               \/ /\ bus = "spi" /\ Len(inbox') < Len(plan) /\ Goes("fill")
               \/ /\ bus = "spi" /\ Len(inbox') = Len(plan)
                  /\ IF Busy THEN Unlock("sleep", status, {}) ELSE Unlock("quiet", "ok", {})
  /\ Other
  /\ UNCHANGED <<mapped, sent, stopped, late, wake, dpc, enabled, txf, shift, raw, select>>

\* Mutant: the room of the receive FIFO is not looked at.
Fits_Ignored(n) == sent + n <= Len(plan) /\ Len(txf) + n <= Depth

\* n more bytes fit: into the transmit FIFO, and, with every byte that will come back
\* and was not read, into the receive FIFO.
Fits(n) ==
  /\ sent + n <= Len(plan) /\ Len(txf) + n <= Depth
  /\ Missing(sent + n) <= Depth

\* Interrupts worth waiting for: TX only while there is a byte the FIFOs could take.
Rearm(n) ==
  {"errors"} \union (IF bus = "i2c" THEN {"stop"} ELSE {"rx"})
    \union (IF Missing(n) > 0 THEN {"rx"} ELSE {})
    \union (IF n < Len(plan) /\ (Missing(n) < Depth \/ ~Reads(n + 1)) THEN {"tx"} ELSE {})

\* Mutant: the event is cleared when the sleep begins, after the registers were read.
PumpFill_ClearsEvent ==
  /\ worker = "fill"
  /\ \E n \in 0..Depth :
       /\ Fits(n) /\ ~Fits(n + 1)
       /\ sent' = sent + n
       /\ txf' = txf \o [k \in 1..n |-> sent + k]
       /\ Unlock("sleep", status, Rearm(sent + n))
  /\ wake' = FALSE
  /\ Other /\ UNCHANGED <<mapped, inbox, stopped, late, dpc, enabled, shift, rxf, raw, select>>

PumpFill ==
  /\ worker = "fill"
  /\ \E n \in 0..Depth :
       /\ Fits(n) /\ ~Fits(n + 1)
       /\ sent' = sent + n
       /\ txf' = txf \o [k \in 1..n |-> sent + k]
       /\ Unlock("sleep", status, Rearm(sent + n))
  /\ Other
  /\ UNCHANGED <<mapped, inbox, stopped, late, wake, dpc, enabled, shift, rxf, raw, select>>

LoopWoken ==
  /\ worker = "sleep" /\ wake /\ Goto("clear")
  /\ Other /\ UNCHANGED <<status, progress, wake, dpc, locked, hw>>

LoopTimeout ==
  /\ worker = "sleep" /\ ~wake /\ Goto("clear")
  /\ Other /\ UNCHANGED <<status, progress, wake, dpc, locked, hw>>

FinishMask == worker = "quiet" /\ MaskAll("down")

FinishDisable ==
  /\ worker = "down" /\ Goto(IF bus = "spi" THEN "deselect" ELSE "copy")
  /\ \/ DisableFails /\ status' = (IF status = "ok" THEN "timeout" ELSE status)
     \/ Off /\ UNCHANGED status
  /\ raw' = {}
  /\ Other /\ UNCHANGED <<progress, wake, dpc, locked, mask, select>>

FinishDeselect ==
  /\ worker = "deselect" /\ Goto("copy")
  /\ \/ select' = FALSE /\ UNCHANGED status
     \/ select' \in {select, FALSE} /\ status' = (IF status = "ok" THEN "error" ELSE status)
  /\ Other /\ UNCHANGED <<progress, wake, dpc, locked, fifos, mask>>

\* CopyBuffers of what was read may fail too.
FinishCopy ==
  /\ worker = "copy" /\ Goto("publish")
  /\ \/ UNCHANGED status
     \/ status = "ok" /\ status' = "error"
  /\ Other /\ UNCHANGED <<progress, wake, dpc, locked, hw>>

Publish ==
  /\ worker = "publish" /\ Goto("unmark") /\ slot' = FALSE
  /\ UNCHANGED <<bus, device, pins, starter, canceler, request, progress, wake, dpc, locked, hw>>

\* WdfRequestUnmarkCancelable tells whether the cancel routine is, or will be, called.
Unmark ==
  /\ worker = "unmark"
  /\ IF cancelable = "called"
       THEN Goto("handoff") /\ UNCHANGED <<cancelable, status, ended>>
       ELSE Goto("idle") /\ cancelable' = "no" /\ Complete(status)
  /\ UNCHANGED <<bus, device, pins, slot, starter, canceler, plan, asked, cancelled, completion,
                 count, progress, wake, dpc, locked, hw>>

Handoff ==
  /\ worker = "handoff" /\ Goto("idle")
  /\ completion' = completion \union {2}
  /\ IF 1 \in completion THEN Complete("cancelled") ELSE UNCHANGED <<status, ended>>
  /\ UNCHANGED <<bus, device, pins, slot, starter, canceler, plan, asked, cancelable, cancelled,
                 count, progress, wake, dpc, locked, hw>>

-------------------------------------------------------------------------------
(* Interrupts.                                                               *)

\* I2cIsr runs under the interrupt lock, on a line that is shared.
Isr ==
  /\ online /\ ~locked /\ Pending \intersect mask # {}
  /\ mask' = {} /\ dpc' = TRUE
  /\ UNCHANGED <<bus, device, pins, slot, starter, worker, canceler, request, progress, wake,
                 locked, fifos, select>>

Dpc ==
  /\ dpc /\ dpc' = FALSE /\ wake' = TRUE
  /\ UNCHANGED <<bus, device, pins, slot, starter, worker, canceler, request, progress, locked, hw>>

-------------------------------------------------------------------------------
(* PnP and power.                                                            *)

Rest == UNCHANGED <<bus, slot, starter, worker, canceler, request, progress, locked>>

\* External, KMDF: the queue that calls Begin is power-managed.  It is started once the
\* device is in D0 and stopped before the device leaves it, and the stop waits for a
\* callback that runs, though not for a request that the worker has.
NoCallback == starter = "none"

Prepare ==
  /\ pnp = "out" /\ pnp' = "idle"
  /\ Rest /\ UNCHANGED <<lease, online, pins, wake, dpc, hw>>

\* The registers are unmapped; another Prepare maps them anew, and no copy follows.
Release ==
  /\ pnp = "idle" /\ pnp' = "out" /\ mapped' = FALSE
  /\ UNCHANGED <<bus, slot, starter, worker, canceler, request, sent, inbox, stopped, late,
                 locked, lease, online, pins, wake, dpc, hw>>

\* The clock, all interrupts masked, then the route; without a route all is put back.
StartClock ==
  /\ pnp = "idle" /\ pnp' = "clocked"
  /\ lease' = {"clock"} /\ mask' = {}
  /\ Rest /\ UNCHANGED <<online, pins, wake, dpc, fifos, select>>

StartRoute ==
  /\ pnp = "clocked"
  /\ \/ pnp' = "started" /\ lease' = {"clock", "route"} /\ UNCHANGED mask
     \/ pnp' = "idle" /\ lease' = {} /\ mask' = Irqs
  /\ Rest /\ UNCHANGED <<online, pins, wake, dpc, fifos, select>>

InterruptEnable ==
  /\ pnp = "started" /\ NoCallback /\ pnp' = "running" /\ online' = TRUE
  /\ Rest /\ UNCHANGED <<lease, pins, wake, dpc, hw>>

InterruptDisable ==
  /\ pnp = "running" /\ NoCallback /\ ~locked /\ pnp' = "stopping"
  /\ online' = FALSE /\ mask' = {} /\ dpc' = TRUE
  /\ Rest /\ UNCHANGED <<lease, pins, wake, fifos, select>>

StopWake ==
  /\ pnp = "stopping" /\ pnp' = "flushing"
  /\ online' = FALSE /\ wake' = TRUE
  /\ Rest /\ UNCHANGED <<lease, pins, dpc, hw>>

\* Mutant: the work item is not waited for.
Flushed_Always == TRUE

\* WdfWorkItemFlush.
Flushed == worker = "idle"

\* Interrupts off, the engine off (or, on I2C, not), firmware's registers back; the
\* firmware's own mask only after the route is closed.
StopEngine ==
  /\ pnp = "flushing" /\ Flushed /\ pnp' = "unroute"
  /\ mask' = {}
  /\ Off \/ DisableFails
  /\ Rest /\ UNCHANGED <<lease, online, pins, wake, dpc, raw, select>>

StopRoute ==
  /\ pnp = "unroute" /\ pnp' = "unclock"
  /\ lease' = {"clock"} /\ mask' = Irqs
  /\ Rest /\ UNCHANGED <<online, pins, wake, dpc, fifos, select>>

StopClock ==
  /\ pnp = "unclock" /\ pnp' = "idle" /\ lease' = {}
  /\ Rest /\ UNCHANGED <<online, pins, wake, dpc, hw>>

\* SPI: a target opens its chip select and drives it inactive, and again at its end.
SpiConnect ==
  /\ bus = "spi" /\ ~pins /\ pins' = TRUE /\ select' = FALSE
  /\ Rest /\ UNCHANGED <<device, wake, dpc, fifos, mask>>

SpiDisconnect ==
  /\ pins /\ ended = 1 /\ pins' = FALSE /\ select' \in {select, FALSE}
  /\ Rest /\ UNCHANGED <<device, wake, dpc, fifos, mask>>

-------------------------------------------------------------------------------
(* External: the engines and the time.                                       *)

Outside == UNCHANGED <<bus, device, pins, slot, starter, worker, canceler, request, mapped,
                       sent, inbox, stopped, wake, dpc, locked, mask, select>>

ShiftIn ==
  /\ enabled /\ shift = 0 /\ txf # <<>>
  /\ shift' = Head(txf) /\ txf' = Tail(txf)
  /\ Outside /\ UNCHANGED <<late, enabled, rxf, raw>>

\* A byte that finds the receive FIFO full is lost.  I2C sends STOP after the last one.
ShiftOut ==
  /\ enabled /\ shift # 0 /\ shift' = 0
  /\ rxf' = IF Reads(shift) /\ Len(rxf) < Depth THEN Append(rxf, shift) ELSE rxf
  /\ raw' = raw \union (IF Reads(shift) /\ Len(rxf) = Depth THEN {"error"} ELSE {})
                \union (IF bus = "i2c" /\ shift = Len(plan) THEN {"stop"} ELSE {})
  /\ Outside /\ UNCHANGED <<late, enabled, txf>>

\* Nobody acknowledges, or the bus is lost: I2C flushes the FIFO and STOP follows.
EngineFails ==
  /\ enabled /\ shift # 0
  /\ \/ bus = "i2c" /\ shift' = 0 /\ txf' = <<>> /\ raw' = raw \union {"abort", "stop"}
     \/ bus = "spi" /\ raw' = raw \union {"error"} /\ UNCHANGED <<shift, txf>>
  /\ Outside /\ UNCHANGED <<late, enabled, rxf>>

DeadlinePasses ==
  /\ ended = 0 /\ ~late /\ late' = TRUE
  /\ Outside /\ UNCHANGED fifos

-------------------------------------------------------------------------------
Init ==
  /\ bus \in {"i2c", "spi"}
  /\ pnp = "out" /\ lease = {} /\ online = FALSE /\ pins = FALSE
  /\ slot = FALSE /\ starter = "none" /\ worker = "idle" /\ canceler = "none"
  /\ plan = <<>> /\ asked = FALSE /\ cancelable = "no" /\ cancelled = FALSE
  /\ completion = {} /\ status = "none" /\ ended = 1 /\ count = 0
  /\ mapped = FALSE /\ sent = 0 /\ inbox = <<>> /\ stopped = FALSE /\ late = FALSE
  /\ wake = FALSE /\ dpc = FALSE /\ locked = FALSE /\ mask = Irqs /\ enabled = FALSE
  /\ txf = <<>> /\ shift = 0 /\ rxf = <<>> /\ raw = {} /\ select = FALSE

Starter  == BeginCheck \/ BeginMark \/ BeginEnqueue
Canceler == CancelFlag \/ CancelWake \/ CancelHandoff
Pump     == PumpRaw \/ PumpDrain \/ PumpFill
Loop     == LoopClear \/ LoopCheck \/ LoopLock \/ Pump \/ LoopWoken
Finish   == FinishMask \/ FinishDisable \/ FinishDeselect \/ FinishCopy \/ Publish \/ Unmark \/ Handoff
Worker   == WorkerEntry \/ WorkerCheck \/ WorkerPrepare \/ WorkerDisable \/ WorkerSelect \/ Loop \/ Finish
Start    == Prepare \/ Release \/ StartClock \/ StartRoute \/ InterruptEnable
Stop     == InterruptDisable \/ StopWake \/ StopEngine \/ StopRoute \/ StopClock
Engine   == ShiftIn \/ ShiftOut \/ EngineFails

Next ==
  \/ \E p \in Plans : Begin(p)
  \/ Starter \/ AskCancel \/ Canceler \/ Worker \/ LoopTimeout
  \/ Isr \/ Dpc \/ Start \/ Stop \/ SpiConnect \/ SpiDisconnect \/ Engine \/ DeadlinePasses

\* Threads run, a wait with a timeout ends, and the clock goes on.  Neither the engine,
\* nor its interrupts, nor anything that another driver decides is fair.
Fairness ==
  /\ WF_vars(Starter) /\ WF_vars(Canceler) /\ WF_vars(Worker)
  /\ WF_vars(LoopTimeout) /\ WF_vars(DeadlinePasses)

Spec == Init /\ [][Next]_vars /\ Fairness

-------------------------------------------------------------------------------
(* Properties.                                                               *)

TypeOK ==
  /\ bus \in {"i2c", "spi"}
  /\ pnp \in {"out", "idle", "clocked", "started", "running", "stopping", "flushing",
              "unroute", "unclock"}
  /\ lease \subseteq {"clock", "route"} /\ online \in BOOLEAN /\ pins \in BOOLEAN
  /\ slot \in BOOLEAN /\ starter \in {"none", "check", "mark", "enqueue"}
  /\ worker \in {"idle", "entry", "check", "prepare", "disable", "select", "clear",
                 "check in loop", "lock", "raw", "drain", "fill", "sleep", "quiet", "down",
                 "deselect", "copy", "publish", "unmark", "handoff"}
  /\ canceler \in {"none", "flag", "wake", "handoff"}
  /\ plan \in Plans \union {<<>>} /\ asked \in BOOLEAN /\ cancelable \in {"no", "yes", "called"}
  /\ cancelled \in BOOLEAN /\ completion \subseteq {1, 2}
  /\ status \in {"none", "ok", "error", "cancelled", "power", "timeout", "not ready"}
  /\ ended \in Nat /\ count \in 0..MaxRequests
  /\ mapped \in BOOLEAN /\ sent \in Nat /\ inbox \in Seq(Nat)
  /\ stopped \in BOOLEAN /\ late \in BOOLEAN
  /\ wake \in BOOLEAN /\ dpc \in BOOLEAN /\ locked \in BOOLEAN /\ mask \subseteq Irqs
  /\ enabled \in BOOLEAN /\ txf \in Seq(Nat) /\ shift \in Nat /\ rxf \in Seq(Nat)
  /\ raw \subseteq {"stop", "abort", "error"} /\ select \in BOOLEAN

\* Begin, the worker and the cancel routine agree on who completes a request: it is
\* completed once, and then nobody of them will touch its context, which is freed.
HandoffIsExact ==
  /\ ended <= 1
  /\ ended = 1 => starter = "none" /\ worker = "idle" /\ canceler = "none" /\ ~slot

\* The worker touches the engine only under the clock, and through an address that is
\* still mapped.  Begin copied that address, and D0Exit, Release, another Prepare and
\* D0Entry may come at any moment of a transfer; the stop of the queue and the flush of
\* the worker keep a Release from coming between the copy and its last use.
EngineIsClocked ==
  worker \in {"prepare", "disable", "select", "clear", "check in loop", "lock", "raw", "drain",
              "fill", "sleep", "quiet", "down", "deselect"}
    => "clock" \in lease /\ pnp # "out" /\ mapped

Elements(s) == {s[k] : k \in 1..Len(s)}
InOrder(s) == \A j, k \in 1..Len(s) : j < k => s[j] < s[k]

\* The bytes in the engine that will come back.
Coming == {k \in Elements(txf) \union {shift} : k # 0 /\ Reads(k)}

\* A request that succeeds has sent all its bytes and got every byte it asked for, in
\* order; nothing that comes back ever finds the receive FIFO full; the chip select of
\* a transfer that succeeded is inactive.
TransferIsWhole ==
  /\ ended = 1 /\ status = "ok" =>
       /\ sent = Len(plan) /\ ~select
       /\ InOrder(inbox) /\ Elements(inbox) = Wanted(Len(plan))
  /\ Len(rxf) + Cardinality(Coming) <= Depth

\* The periodic timer is not needed: when the worker sleeps, the event is signalled or
\* will be, or the engine still works, or an enabled interrupt waits to be served (but
\* SPI polls its shifter at the end); and it does not sleep through a cancellation or
\* the end of power.
WokenWithoutTimer ==
  worker = "sleep" =>
    /\ \/ wake \/ dpc \/ Busy \/ Pending \intersect mask # {}
       \/ bus = "spi" /\ Len(inbox) = Len(plan)
    /\ cancelled => wake \/ canceler = "wake"
    /\ ~online => wake \/ dpc \/ pnp = "stopping"
================================================================================

---------------------------------- MODULE Gem ----------------------------------
(***************************************************************************)
(* rp1-ethernet: the NDIS miniport of the RP1's Cadence GEM.               *)
(*                                                                         *)
(* Actors: NDIS's control path (initialise, restart, pause, power, halt),  *)
(* the senders, the maintenance thread, the interrupt, its DPC on several  *)
(* processors, and the MAC, which reads and writes the rings by DMA.  The  *)
(* lifecycle mutex is op: the operation that holds it and how far it is.   *)
(* The send lock makes each section under it one step.  A frame is a slot  *)
(* of the transmit ring or a unit of rx, the frames in the receive ring    *)
(* that the driver owns.  Statistics, filters, addresses, the statuses of  *)
(* frames (CancelSend sets nothing else) and probe-only mode are left out. *)
(***************************************************************************)
EXTENDS Naturals, SequencesExt

CONSTANTS
  Nbls,    \* net buffer lists of the senders, each used again once it is back
  Cpus,    \* processors that take the interrupt and run its DPC
  Ring,    \* GEM_RING_SIZE
  Batch    \* RX_BATCH_SIZE

VARIABLES
  life,        \* NDIS's state of the adapter
  op,          \* who holds the lifecycle mutex, its step, the speed it will start
  thread,      \* the maintenance thread exists and has not been told to end
  run,         \* running
  speed,       \* 0 without a link
  powered, fault,
  touched,     \* dmaTouched
  retain,      \* retainDma
  gone,        \* surpriseRemoved
  recovery,    \* recoveryRequested
  irqRunning, deferred, suppressed,
  irqPending,  \* what the ISR left for the DPC; it acts on a bus error only
  dpc,         \* the step of the active DPC; "none" is dpcIdle
  dpcCpu,      \* its processor
  looked, received, limit,  \* its counters and NDIS's limit on indications
  queued,      \* processors with a queued DPC
  tx,          \* the published slots from txTail to txHead
  owned,       \* lists the miniport accepted and has not completed
  done,        \* lists taken out of the ring and about to be completed, by whom
  rx,          \* receive descriptors that hold a frame
  isr, imr,    \* the MAC's latched events, and whether they are unmasked
  mac,         \* NCR enables receive and transmit
  txgo,        \* TSR's TX_GO: "idle", "go", or "stuck" when it never falls again
  inflight,    \* a transaction to the rings is on the bus
  memory       \* the common buffer: "none", "held", "retained"

nic   == <<life, op, thread, powered, fault, touched, retain, gone, memory>>
link  == <<run, speed, recovery>>
irq   == <<irqRunning, deferred, suppressed, irqPending>>
dpcs  == <<dpc, dpcCpu, looked, received, limit, queued>>
lists == <<tx, owned, done>>
gem   == <<rx, isr, imr, mac, txgo, inflight>>
vars  == <<nic, link, irq, dpcs, lists, gem>>

All    == Batch + 1      \* NDIS_INDICATE_ALL_NBLS
Events == {"frame", "fatal"}   \* a frame received or sent, or an overrun; a bus error
None   == [by |-> "none", at |-> "none", speed |-> 0]
Doing(by, at, s) == [by |-> by, at |-> at, speed |-> s]

\* Mutant: a list ends with each of its slots, not with its last.
Ended_EverySlot(n) == {tx[i].nbl : i \in 1..n}

\* The lists whose last slot is among the first n slots of the ring.
Ended(n) == {tx[i].nbl : i \in {j \in 1..n : tx[j].last}}

\* The slots the MAC has handed back: a prefix of the ring.
Sent == Cardinality({i \in DOMAIN tx : tx[i].used})

Init ==
  /\ life = "halted" /\ op = None /\ thread = FALSE
  /\ powered = TRUE /\ fault = FALSE /\ touched = FALSE /\ retain = FALSE /\ gone = FALSE
  /\ memory = "none" /\ run = FALSE /\ speed = 0 /\ recovery = FALSE
  /\ irqRunning = FALSE /\ deferred = FALSE /\ suppressed = FALSE /\ irqPending = {}
  /\ dpc = "none" /\ dpcCpu \in Cpus /\ looked = 0 /\ received = 0 /\ limit = All
  /\ queued = {} /\ tx = <<>> /\ owned = {} /\ done = [dpc |-> {}, op |-> {}]
  /\ rx = 0 /\ isr = {} /\ imr = FALSE /\ mac \in BOOLEAN /\ txgo = "idle" /\ inflight = FALSE

TypeOK ==
  /\ life \in {"halted", "paused", "running", "off"}
  /\ op.by \in {"none", "pause", "recover", "link", "halt", "shutdown", "gone"}
  /\ op.at \in {"none", "check", "idle", "drain", "collect", "complete", "start", "free"}
  /\ op.speed \in 0..1 /\ speed \in 0..1
  /\ {thread, run, powered, fault, touched, retain, gone, recovery} \subseteq BOOLEAN
  /\ {irqRunning, deferred, suppressed, imr, mac, inflight} \subseteq BOOLEAN
  /\ irqPending \subseteq Events /\ isr \subseteq Events
  /\ dpc \in {"none", "transmit", "complete", "receive", "end"} /\ dpcCpu \in Cpus
  /\ looked \in 0..Batch /\ received \in 0..Batch /\ limit \in {1, All} /\ queued \subseteq Cpus
  /\ tx \in Seq([nbl : Nbls, last : BOOLEAN, used : BOOLEAN]) /\ Len(tx) < Ring
  /\ owned \subseteq Nbls /\ \A a \in {"dpc", "op"} : done[a] \subseteq Nbls
  /\ rx \in 0..Ring /\ txgo \in {"idle", "go", "stuck"}
  /\ memory \in {"none", "held", "retained"}
--------------------------------------------------------------------------------
(* The interrupt's state, under the interrupt lock. *)

StopInterrupts ==
  /\ irqRunning' = FALSE /\ deferred' = FALSE /\ irqPending' = {}
  /\ imr' = (imr /\ gone)

DisableInterrupt ==
  /\ life # "halted" /\ ~suppressed /\ suppressed' = TRUE /\ imr' = (imr /\ gone)
  /\ UNCHANGED <<nic, link, irqRunning, deferred, irqPending, dpcs, lists, rx, isr, mac, txgo,
                 inflight>>

EnableInterrupt ==
  /\ suppressed /\ suppressed' = FALSE
  /\ imr' = (imr \/ (irqRunning /\ ~deferred /\ ~gone))
  /\ UNCHANGED <<nic, link, irqRunning, deferred, irqPending, dpcs, lists, rx, isr, mac, txgo,
                 inflight>>

\* The ISR takes and clears the events, masks them and leaves the rest to the DPC.
Interrupt(cpu) ==
  /\ imr /\ isr # {} /\ irqRunning /\ ~deferred /\ ~suppressed /\ ~gone
  /\ isr' = {} /\ imr' = FALSE /\ deferred' = TRUE 
  /\ irqPending' = irqPending \union (isr \ {"frame"})
  /\ queued' = queued \union {cpu}
  /\ UNCHANGED <<nic, link, irqRunning, suppressed, dpc, dpcCpu, looked, received, limit, lists,
                 rx, mac, txgo, inflight>>

\* RearmInterrupts acknowledges nothing: what came while masked fires again.
RearmInterrupts ==
  /\ deferred' = FALSE
  /\ imr' = (imr \/ (irqRunning /\ ~suppressed /\ ~gone))
--------------------------------------------------------------------------------
(* The DPC. *)

Serves == run /\ speed > 0 /\ ~gone /\ dpc = "none"

\* TakeInterrupts: what the ISR left and what has been latched since.
Taken == irqPending \union (IF irqRunning /\ ~gone THEN isr ELSE {})

DpcRefused(cpu) ==
  /\ cpu \in queued /\ ~(dpc # "none" /\ dpcCpu = cpu) /\ ~Serves
  /\ queued' = queued \ {cpu}
  /\ UNCHANGED <<nic, link, irq, dpc, dpcCpu, looked, received, limit, lists, gem>>

DpcBegin(cpu, l) ==
  /\ cpu \in queued /\ Serves
  /\ queued' = queued \ {cpu} /\ dpc' = "transmit" /\ dpcCpu' = cpu
  /\ looked' = 0 /\ received' = 0 /\ limit' = l
  /\ isr' = (IF irqRunning THEN {} ELSE isr)
  /\ IF "fatal" \in Taken
       THEN run' = FALSE /\ recovery' = TRUE /\ StopInterrupts
       ELSE irqPending' = {} /\ UNCHANGED <<run, recovery, irqRunning, deferred, imr>>
  /\ UNCHANGED <<nic, speed, suppressed, lists, rx, mac, txgo, inflight>>

\* CompleteTransmit, under the lock: the slots the MAC has handed back leave the ring.
CompleteTransmit ==
  /\ dpc = "transmit" /\ dpc' = "complete"
  /\ LET n == IF run THEN Sent ELSE 0 IN
       tx' = SubSeq(tx, n + 1, Len(tx)) /\ done' = [done EXCEPT !["dpc"] = Ended(n)]
  /\ UNCHANGED <<nic, link, irq, dpcCpu, looked, received, limit, queued, owned, gem>>

DpcCompletes ==
  /\ dpc = "complete" /\ dpc' = "receive"
  /\ owned' = owned \ done["dpc"] /\ done' = [done EXCEPT !["dpc"] = {}]
  /\ UNCHANGED <<nic, link, irq, dpcCpu, looked, received, limit, queued, tx, gem>>

\* Receive takes frame after frame, each under the lock, recycles its descriptor and
\* keeps a copy of those that NDIS's filter accepts.
MoreToReceive == run /\ rx > 0 /\ looked < Batch /\ received < limit

Receive(accept) ==
  /\ dpc = "receive" /\ MoreToReceive
  /\ rx' = rx - 1 /\ looked' = looked + 1
  /\ received' = received + (IF accept THEN 1 ELSE 0)
  /\ UNCHANGED <<nic, link, irq, dpc, dpcCpu, limit, queued, lists, isr, imr, mac, txgo, inflight>>

\* The copies are the stack's until the indication returns.
Indicate ==
  /\ dpc = "receive" /\ ~MoreToReceive /\ dpc' = "end"
  /\ UNCHANGED <<nic, link, irq, dpcCpu, looked, received, limit, queued, lists, gem>>

\* More to do: NDIS continues when its limit was met, else the DPC queues itself on its
\* own processor; it rearms the interrupt only after it found nothing.
More_SentOnly == tx # <<>> /\ Head(tx).used   \* mutant: frames past the batch are not seen

More == rx > 0 \/ (tx # <<>> /\ Head(tx).used)

DpcEnd ==
  /\ dpc = "end" /\ dpc' = "none"
  /\ looked' = 0 /\ received' = 0 /\ limit' = All
  /\ CASE ~run \/ gone -> UNCHANGED <<queued, deferred, imr>>
       [] run /\ ~gone /\ More  -> queued' = queued \union {dpcCpu} /\ UNCHANGED <<deferred, imr>>
       [] run /\ ~gone /\ ~More -> RearmInterrupts /\ UNCHANGED queued
  /\ UNCHANGED <<nic, link, irqRunning, suppressed, irqPending, dpcCpu, lists, rx, isr, mac, txgo,
                 inflight>>
--------------------------------------------------------------------------------
(* StopHardware and StartHardware, whose caller holds the mutex. *)

\* Submission and DMA stop first, under the lock.
StopHardware(by, s) ==
  /\ op' = Doing(by, "idle", s)
  /\ run' = FALSE /\ speed' = 0 /\ recovery' = FALSE
  /\ StopInterrupts /\ mac' = (mac /\ gone)
  /\ UNCHANGED <<suppressed, dpcs, lists, rx, isr, txgo, inflight>>

\* Mutant: a stop does not wait for dpcIdle.
StopWaits_AtOnce ==
  /\ op.at = "idle"
  /\ op' = IF op.by = "gone" THEN None ELSE [op EXCEPT !.at = "drain"]
  /\ UNCHANGED <<life, thread, powered, fault, touched, retain, gone, memory, link, irq, dpcs,
                 lists, gem>>

\* Then the active DPC ends.  Surprise removal waits for nothing else.
StopWaits ==
  /\ op.at = "idle" /\ dpc = "none"
  /\ op' = IF op.by = "gone" THEN None ELSE [op EXCEPT !.at = "drain"]
  /\ UNCHANGED <<life, thread, powered, fault, touched, retain, gone, memory, link, irq, dpcs,
                 lists, gem>>

\* Then the MAC's transactions: the poll of TX_GO gives up on a stuck engine.
StopDrains ==
  /\ op.at = "drain" /\ op' = [op EXCEPT !.at = "collect"]
  /\ IF touched /\ ~gone
       THEN /\ retain' = (retain \/ txgo = "stuck") /\ fault' = (fault \/ txgo = "stuck")
            /\ txgo' = (IF txgo = "go" THEN "idle" ELSE txgo) /\ inflight' = FALSE
       ELSE UNCHANGED <<retain, fault, txgo, inflight>>
  /\ UNCHANGED <<life, thread, powered, touched, gone, memory, link, irq, dpcs, lists, rx, isr,
                 imr, mac>>

\* Then the lists still in the ring leave it, and are completed without the lock.
StopCollects ==
  /\ op.at = "collect" /\ op' = [op EXCEPT !.at = "complete"]
  /\ done' = [done EXCEPT !["op"] = Ended(Len(tx))] /\ tx' = <<>>
  /\ UNCHANGED <<life, thread, powered, fault, touched, retain, gone, memory, link, irq, dpcs,
                 owned, gem>>

StopCompletes ==
  /\ op.at = "complete"
  /\ owned' = owned \ done["op"] /\ done' = [done EXCEPT !["op"] = {}]
  /\ life' = CASE op.by = "pause" -> "paused" [] op.by = "shutdown" -> "off" [] OTHER -> life
  /\ op' = CASE op.by \in {"pause", "shutdown"} -> None
             [] op.by = "halt" -> [op EXCEPT !.at = "free"]
             [] op.by \in {"recover", "link"} /\ ~fault -> [op EXCEPT !.at = "start"]
             [] OTHER -> None
  /\ UNCHANGED <<thread, powered, fault, touched, retain, gone, memory, link, irq, dpcs, tx, gem>>

\* The rings are built anew and the MAC configured; it runs only with a link, after
\* the stale events were cleared.
StartHardware(s) ==
  /\ rx' = 0 /\ speed' = s /\ run' = TRUE /\ touched' = (touched \/ s > 0)
  /\ IF s > 0
       THEN /\ irqPending' = {} /\ deferred' = FALSE /\ isr' = {} /\ irqRunning' = TRUE
            /\ imr' = ~suppressed /\ mac' = TRUE
       ELSE imr' = FALSE /\ mac' = FALSE /\ UNCHANGED <<irqPending, deferred, isr, irqRunning>>
  /\ UNCHANGED <<powered, fault, retain, gone, memory, recovery, suppressed, dpcs, lists, txgo,
                 inflight>>
--------------------------------------------------------------------------------
(* The maintenance thread: woken by the DPC or every second. *)

\* A transmit that hangs for five seconds asks for the same recovery as a fatal event.
Recover ==
  /\ thread /\ op = None /\ (recovery \/ (run /\ tx # <<>>)) /\ powered /\ ~gone
  /\ StopHardware("recover", speed)
  /\ UNCHANGED <<life, thread, powered, fault, touched, retain, gone, memory>>

\* Without a reason to recover the thread goes on to the link.
NoRecovery ==
  /\ thread /\ op = None /\ (~recovery \/ ~powered \/ gone)
  /\ recovery' = FALSE /\ op' = Doing("link", "check", 0)
  /\ UNCHANGED <<life, thread, powered, fault, touched, retain, gone, memory, run, speed, irq,
                 dpcs, lists, gem>>

LinkChanged(s) ==
  /\ op.at = "check" /\ run /\ ~gone /\ s # speed
  /\ StopHardware("link", s)
  /\ UNCHANGED <<life, thread, powered, fault, touched, retain, gone, memory>>

LinkSame ==
  /\ op.at = "check" /\ op' = None
  /\ UNCHANGED <<life, thread, powered, fault, touched, retain, gone, memory, link, irq, dpcs,
                 lists, gem>>

\* A recovery starts at the speed it found and then looks at the link.
Start ==
  /\ op.at = "start" /\ StartHardware(op.speed)
  /\ op' = IF op.by = "recover" THEN Doing("link", "check", 0) ELSE None
  /\ UNCHANGED <<life, thread>>
--------------------------------------------------------------------------------
(* NDIS: senders and the control path. *)

\* A list is staged while every descriptor is the driver's, then published whole; one
\* descriptor stays unused.  A list that does not pass is completed at once.
Send(n, count) ==
  /\ life = "running" /\ n \notin owned /\ run /\ ~gone /\ speed > 0
  /\ count <= Ring - 1 - Len(tx)
  /\ tx' = tx \o [i \in 1..count |-> [nbl |-> n, last |-> i = count, used |-> FALSE]]
  /\ owned' = owned \union {n}
  /\ mac' = TRUE /\ txgo' = (IF txgo = "stuck" THEN txgo ELSE "go")
  /\ UNCHANGED <<nic, link, irq, dpcs, done, rx, isr, imr, inflight>>

\* Initialize refuses a MAC that somebody already runs.
Initialize ==
  /\ life = "halted" /\ op = None /\ ~gone /\ ~mac
  /\ life' = "paused" /\ thread' = TRUE /\ memory' = "held"
  /\ imr' = FALSE /\ isr' = {} /\ txgo' = "idle"
  /\ UNCHANGED <<op, powered, fault, touched, retain, gone, link, irq, dpcs, lists, rx, mac,
                 inflight>>

Restart ==
  /\ life = "paused" /\ op = None /\ ~fault /\ ~gone /\ powered
  /\ life' = "running" /\ StartHardware(0) /\ UNCHANGED <<op, thread>>

Pause ==
  /\ life = "running" /\ op = None /\ StopHardware("pause", 0)
  /\ UNCHANGED <<life, thread, powered, fault, touched, retain, gone, memory>>

\* OID_PNP_SET_POWER, which NDIS sends to a paused miniport.
SetPower(on) ==
  /\ life = "paused" /\ ~run /\ powered' = on
  /\ UNCHANGED <<life, op, thread, fault, touched, retain, gone, memory, link, irq, dpcs, lists,
                 gem>>

\* Halt ends the thread, which must not hold the mutex, before anything else.
Halt ==
  /\ life = "paused" /\ op = None /\ thread /\ thread' = FALSE
  /\ IF touched
       THEN StopHardware("halt", 0)
       ELSE /\ op' = Doing("halt", "free", 0)
            /\ imr' = (imr /\ gone) /\ mac' = (mac /\ gone)
            /\ UNCHANGED <<link, irq, dpcs, lists, rx, isr, txgo, inflight>>
  /\ UNCHANGED <<life, powered, fault, touched, retain, gone, memory>>

\* Disconnecting the interrupt waits for the queued DPCs; then memory is freed.
Cleanup ==
  /\ op.at = "free" /\ queued = {} /\ dpc = "none"
  /\ op' = None /\ life' = "halted" /\ irqPending' = {} /\ suppressed' = FALSE
  /\ memory' = (IF retain THEN "retained" ELSE "none")
  /\ powered' = TRUE /\ fault' = FALSE /\ touched' = FALSE /\ retain' = FALSE
  /\ UNCHANGED <<thread, gone, link, irqRunning, deferred, dpcs, lists, gem>>

Shutdown ==
  /\ life \in {"paused", "running"} /\ op = None /\ thread' = FALSE
  /\ StopHardware("shutdown", 0)
  /\ UNCHANGED <<life, powered, fault, touched, retain, gone, memory>>

SurpriseRemoved ==
  /\ life \in {"paused", "running"} /\ op = None /\ ~gone
  /\ gone' = TRUE /\ irqRunning' = FALSE /\ retain' = TRUE /\ run' = FALSE
  /\ op' = Doing("gone", "idle", 0)
  /\ UNCHANGED <<life, thread, powered, fault, touched, memory, speed, recovery, deferred,
                 suppressed, irqPending, dpcs, lists, gem>>
--------------------------------------------------------------------------------
(* The MAC. *)

MacTransmits ==
  /\ mac /\ txgo = "go" /\ Sent < Len(tx)
  /\ tx' = [tx EXCEPT ![Sent + 1].used = TRUE] /\ isr' = isr \union {"frame"}
  /\ txgo' = (IF Sent + 1 < Len(tx) THEN "go" ELSE "idle")
  /\ UNCHANGED <<nic, link, irq, dpcs, owned, done, rx, imr, mac, inflight>>

MacSticks ==
  /\ mac /\ txgo = "go" /\ txgo' = "stuck"
  /\ UNCHANGED <<nic, link, irq, dpcs, lists, rx, isr, imr, mac, inflight>>

\* A frame arrives in two steps, and the second may come after receive was disabled.
MacReceives ==
  /\ mac /\ ~inflight /\ rx < Ring /\ inflight' = TRUE
  /\ UNCHANGED <<nic, link, irq, dpcs, lists, rx, isr, imr, mac, txgo>>

MacRetires ==
  /\ inflight /\ rx < Ring /\ inflight' = FALSE
  /\ rx' = rx + 1 /\ isr' = isr \union {"frame"}
  /\ UNCHANGED <<nic, link, irq, dpcs, lists, imr, mac, txgo>>

MacFails ==
  /\ mac /\ "fatal" \notin isr /\ isr' = isr \union {"fatal"}
  /\ UNCHANGED <<nic, link, irq, dpcs, lists, rx, imr, mac, txgo, inflight>>

Next ==
  \/ DisableInterrupt \/ EnableInterrupt \/ CompleteTransmit \/ DpcCompletes
  \/ Indicate \/ DpcEnd \/ StopWaits \/ StopDrains \/ StopCollects \/ StopCompletes
  \/ Recover \/ NoRecovery \/ LinkSame \/ Start
  \/ Initialize \/ Restart \/ Pause \/ Halt \/ Cleanup \/ Shutdown \/ SurpriseRemoved
  \/ MacTransmits \/ MacSticks \/ MacReceives \/ MacRetires \/ MacFails
  \/ \E cpu \in Cpus : Interrupt(cpu) \/ DpcRefused(cpu) \/ \E l \in {1, All} : DpcBegin(cpu, l)
  \/ \E b \in BOOLEAN : Receive(b) \/ SetPower(b)
  \/ \E s \in 0..1 : LinkChanged(s)
  \/ \E n \in Nbls, count \in 1..2 : Send(n, count)

Spec == Init /\ [][Next]_vars
--------------------------------------------------------------------------------
\* The places a list is in: its last slot in the ring, and the lists to be completed.
Places(n) ==
  Cardinality({i \in DOMAIN tx : tx[i].nbl = n /\ tx[i].last})
    + (IF n \in done["dpc"] THEN 1 ELSE 0) + (IF n \in done["op"] THEN 1 ELSE 0)

\* Every accepted list is in one place until it is completed, and no other list is in
\* any: completed once, whether the MAC sends it, the link falls, a recovery or a
\* pause takes it out half sent, or the adapter halts.  A paused adapter has none.
SendsAreReturned ==
  /\ \A n \in Nbls : Places(n) = (IF n \in owned THEN 1 ELSE 0)
  /\ life \in {"paused", "halted", "off"} => owned = {}

Quiet == ~inflight /\ ~mac /\ txgo = "idle"

\* The rings are rebuilt, and their memory freed, only when no DPC walks them and no
\* transaction of the MAC is under way; the memory of a stuck or lost MAC is kept, and
\* a recovery that raced with the pause does not start the MAC of a paused adapter.
MemoryIsQuiet ==
  /\ op.at \in {"drain", "collect", "complete", "start", "free"} => dpc = "none"
  /\ op.at = "start" => Quiet
  /\ op.at = "free" => Quiet \/ retain
  /\ life \in {"paused", "off"} /\ op = None => ~run /\ dpc = "none" /\ (Quiet \/ fault \/ gone)

\* A frame the driver must handle is never forgotten: while the adapter runs with a
\* link, a DPC is active or queued, or an event is latched that will interrupt once
\* NDIS allows it.
NoFrameForgotten ==
  run /\ speed > 0 /\ ~gone /\ (rx > 0 \/ Sent > 0) =>
    \/ dpc # "none" \/ queued # {}
    \/ isr # {} /\ irqRunning /\ ~deferred /\ (imr \/ suppressed)
===============================================================================

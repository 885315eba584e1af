-------------------------------- MODULE BcmUart --------------------------------
(***************************************************************************)
(* The UART of the Bluetooth radio (src/bcm2712-uart): an 8250 behind      *)
(* SerCx2 with hardware flow control.  RTS holds the peer off while the    *)
(* ring is nearly full, and around the chip's erratum: a receive timeout   *)
(* with an empty FIFO, which only a dummy read clears.  The ISR stops the  *)
(* peer and the DPC starts a timer that does the read when a byte that was *)
(* on the wire has landed.  The frame is that of Uart.tla; there is no     *)
(* drain.                                                                  *)
(***************************************************************************)
EXTENDS SerCx2

CONSTANTS
  High, Low,   \* UART_HIGH_WATER and UART_LOW_WATER of the ring
  Fifo         \* entries of the receive and of the transmit FIFO

VARIABLES
  power,     \* as in Uart
  held,      \* the client keeps RTS off (c->Control without UART_RTS)
  ring,      \* c->Count
  paused,    \* c->RxPaused
  quirk,     \* c->Quirk
  quirkDue,  \* c->QuirkPending
  timer,     \* the quirk timer: "off", "due" or "fired" (waits for the lock)
  wait,      \* the byte on the wire when the timer was started
  rts, rxmask, txmask, \* external: MCR and IER
  rxf, txf,  \* external: bytes in the receive and in the transmit FIFO
  wire,      \* external: a byte of the peer is on the wire
  empty,     \* external: the erratum's interrupt is asserted
  thri,      \* external: the transmitter-empty interrupt is latched
  stale,     \* history: a session was closed with the dummy read under way
  lost       \* history: a byte was lost to a dummy read, "own" or "stale"

flow   == <<held, ring, paused>>
erratum == <<quirk, quirkDue, timer, wait, stale, lost>>
regs   == <<rts, rxmask, txmask>>
line   == <<rxf, wire, empty>>
txhw   == <<txf, thri>>
device == <<power, online, open>>
vars   == <<sercx, device, flow, erratum, regs, line, txhw>>

TypeOK ==
  /\ SerCxTypeOK /\ power \in {"gone", "off", "ready", "on", "quiet", "stopping"}
  /\ held \in BOOLEAN /\ ring \in 0..High /\ paused \in BOOLEAN
  /\ quirk \in BOOLEAN /\ quirkDue \in BOOLEAN /\ wait \in BOOLEAN
  /\ timer \in {"off", "due", "fired"}
  /\ rts \in BOOLEAN /\ rxmask \in BOOLEAN /\ txmask \in BOOLEAN
  /\ rxf \in 0..Fifo /\ txf \in 0..Fifo /\ wire \in BOOLEAN
  /\ empty \in BOOLEAN /\ thri \in BOOLEAN
  /\ stale \in BOOLEAN /\ lost \in {"none", "own", "stale"}

Live == online /\ open
Less(a, b) == IF a < b THEN a ELSE b

\* UartInterruptMask: MCR and IER follow the flags.  Enabling the transmit
\* interrupt with an empty transmitter raises it.
InterruptMask ==
  /\ rts' = (open' /\ ~held' /\ ~paused' /\ ~quirk')
  /\ rxmask' = (open' /\ online' /\ ~paused' /\ ~quirk')
  /\ txmask' = (open' /\ online' /\ "tx" \in armed')
  /\ thri' = (thri \/ (txmask' /\ ~txmask /\ txf' = 0))

\* UartCapture: the FIFO is read up to the high-water mark, where the peer is
\* paused.
Captured == ring + Less(rxf, High - ring)
Left     == rxf - Less(rxf, High - ring)
Full     == Captured = High

-------------------------------------------------------------------------------
(* Power.                                                                   *)

Prepare ==
  /\ power = "gone" /\ power' = "off"
  /\ UNCHANGED <<sercx, online, open, flow, erratum, regs, line, txhw>>

Release ==
  /\ power = "off" /\ power' = "gone"
  /\ UNCHANGED <<sercx, online, open, flow, erratum, regs, line, txhw>>

\* The FIFOs are reset and the line is programmed.
Start ==
  /\ power = "off" /\ power' = "ready"
  /\ rxf' = 0 /\ txf' = 0 /\ empty' = FALSE
  /\ UNCHANGED <<sercx, online, open, flow, erratum, wire>> /\ InterruptMask

InterruptEnable ==
  /\ power = "ready" /\ power' = "on" /\ online' = TRUE
  /\ UNCHANGED <<sercx, open, flow, erratum, line, txf>> /\ InterruptMask

\* SerCx2 has every notification back before the device leaves D0.
InterruptDisable ==
  /\ power = "on" /\ owed = {} /\ power' = "quiet" /\ online' = FALSE
  /\ rxmask' = FALSE /\ txmask' = FALSE
  /\ UNCHANGED <<sercx, open, flow, erratum, rts, line, txhw>>

Stop ==
  /\ power = "quiet" /\ Flushed /\ power' = "stopping"
  /\ online' = FALSE /\ quirk' = FALSE /\ quirkDue' = FALSE
  /\ rts' = FALSE /\ rxmask' = FALSE /\ txmask' = FALSE
  /\ UNCHANGED <<sercx, open, flow, timer, wait, stale, lost, line, txhw>>

\* The timer is stopped, its callback included, and the registers put back.
TimerIsOut == timer # "fired"
StopRestore ==
  /\ power = "stopping" /\ TimerIsOut /\ power' = "off"
  /\ timer' = "off" /\ wait' = FALSE /\ rxf' = 0 /\ txf' = 0
  /\ UNCHANGED <<sercx, online, open, flow, quirk, quirkDue, stale, lost, regs, wire, empty,
                 thri>>

-------------------------------------------------------------------------------
(* The file.                                                                *)

Open ==
  /\ online /\ ~open /\ open' = TRUE /\ Forget
  /\ held' = FALSE /\ ring' = 0 /\ paused' = FALSE
  /\ quirk' = FALSE /\ quirkDue' = FALSE
  /\ rxf' = 0 /\ txf' = 0 /\ empty' = FALSE
  /\ UNCHANGED <<power, online, timer, wait, stale, lost, wire>>
  /\ InterruptMask

\* A timer callback that already waits for the lock outlives the session.
Close ==
  /\ open /\ owed = {} /\ open' = FALSE
  /\ quirk' = FALSE /\ quirkDue' = FALSE /\ ring' = 0
  /\ timer' = IF timer = "due" THEN "off" ELSE timer
  /\ wait' = FALSE
  /\ stale' = (stale \/ timer = "fired" \/ \E cpu \in Cpus : "quirk" \in committed[cpu])
  /\ UNCHANGED <<sercx, power, online, held, paused, lost, line, txf>>
  /\ InterruptMask

\* SET_HANDFLOW moves RTS; the descriptor of the connection and the line
\* IOCTLs reprogram an idle line and recompute the mask.
Control ==
  /\ Live /\ held' \in BOOLEAN
  /\ UNCHANGED <<sercx, device, ring, paused, erratum, line, txf>> /\ InterruptMask

Apply ==
  /\ open /\ held' = FALSE
  /\ UNCHANGED <<sercx, device, ring, paused, erratum, line, txf>> /\ InterruptMask

-------------------------------------------------------------------------------
(* Interrupt, DPC, timers.                                                  *)

\* The erratum: stop the peer and leave the read to the timer.
IsrQuirk ==
  /\ Live /\ rxmask /\ empty /\ rxf = 0
  /\ quirk' = TRUE /\ quirkDue' = TRUE
  /\ pending' = pending \union (IF ring > 0 THEN armed \intersect {"rx"} ELSE {})
  /\ queued' = TRUE
  /\ UNCHANGED <<owed, armed, committed, device, flow, timer, wait, stale, lost, line, txf>>
  /\ InterruptMask

\* Received bytes first, then the empty transmitter.  A capture that pauses the peer
\* writes the whole mask again, and enabling the transmit interrupt with an empty
\* transmitter raises it, to be served at once.
Isr ==
  LET pauses == ~paused /\ paused'
      asks   == IF pauses THEN "tx" \in armed ELSE txmask
      raised == thri \/ (asks /\ ~txmask /\ txf = 0)
  IN
  /\ Live /\ ((rxmask /\ rxf > 0) \/ (txmask /\ thri)) /\ ~(rxmask /\ empty /\ rxf = 0)
  /\ IF rxmask /\ rxf > 0
     THEN ring' = Captured /\ rxf' = Left /\ empty' = FALSE
     ELSE UNCHANGED <<ring, rxf, empty>>
  /\ paused' = (paused \/ ring' = High)
  /\ pending' = pending \union (IF ring' > 0 THEN armed \intersect {"rx"} ELSE {})
                        \union (IF asks /\ raised THEN armed \intersect {"tx"} ELSE {})
  /\ queued' = (queued \/ pending' # {})
  /\ txmask' = (asks /\ ~raised) /\ thri' = (raised /\ ~asks)
  /\ rts' = (rts /\ ~paused') /\ rxmask' = (rxmask /\ ~paused')
  /\ UNCHANGED <<owed, armed, committed, device, held, erratum, wire, txf>>

Dpc(cpu) ==
  /\ Commit(cpu, quirkDue) /\ quirkDue' = FALSE
  /\ UNCHANGED <<device, flow, quirk, timer, wait, stale, lost, regs, line, txhw>>

\* Mutant: the timer does not wait for the byte on the wire.
StartQuirk_NoWait(cpu) ==
  /\ "quirk" \in committed[cpu]
  /\ committed' = [committed EXCEPT ![cpu] = @ \ {"quirk"}]
  /\ timer' = (IF timer = "fired" THEN "fired" ELSE "due") /\ wait' = FALSE
  /\ UNCHANGED <<owed, armed, pending, queued, device, flow, quirk, quirkDue, stale, lost,
                 regs, line, txhw>>

\* After the lock: the quirk timer, 30 bit times, then the notifications.
StartQuirk(cpu) ==
  /\ "quirk" \in committed[cpu]
  /\ committed' = [committed EXCEPT ![cpu] = @ \ {"quirk"}]
  /\ timer' = (IF timer = "fired" THEN "fired" ELSE "due") /\ wait' = wire
  /\ UNCHANGED <<owed, armed, pending, queued, device, flow, quirk, quirkDue, stale, lost,
                 regs, line, txhw>>

DpcAnnounces(cpu) ==
  /\ \/ \E k \in Kinds : Announce(cpu, k)
     \/ DpcEnds(cpu)
  /\ UNCHANGED <<device, flow, erratum, regs, line, txhw>>

QuirkFires ==
  /\ timer = "due" /\ ~wait /\ timer' = "fired"
  /\ UNCHANGED <<sercx, device, flow, quirk, quirkDue, wait, stale, lost, regs, line, txhw>>

\* The callback under the lock.  A byte that lands between its two reads is
\* gone with the dummy.
QuirkTimer ==
  /\ timer = "fired" /\ timer' = "off"
  /\ IF Live /\ quirk
     THEN /\ quirk' = FALSE /\ empty' = FALSE
          /\ IF rxf = 0
             THEN /\ lost' = IF wire THEN IF stale THEN "stale" ELSE "own" ELSE lost
                  /\ wire' = FALSE /\ UNCHANGED <<ring, paused, rxf>>
             ELSE /\ ring' = Captured /\ rxf' = Left /\ paused' = (paused \/ Full)
                  /\ UNCHANGED <<wire, lost>>
          /\ UNCHANGED <<owed, armed, committed, device, held, quirkDue, wait, stale, txf>>
          /\ InterruptMask
          /\ LET rx == "rx" \in armed /\ ring' > 0
             IN  /\ pending' = IF rx THEN pending \union {"rx"} ELSE pending
                 /\ queued' = (queued \/ rx)
     ELSE UNCHANGED <<sercx, device, flow, quirk, quirkDue, wait, stale, lost, regs, line, txhw>>

-------------------------------------------------------------------------------
(* Receive and transmit.                                                    *)

\* Reading below the low-water mark lets the peer go on.
Receive ==
  /\ Live /\ "rx" \notin owed
  /\ \E n \in 1..High :
       /\ ring' = Captured - Less(n, Captured)
       /\ paused' = ((paused \/ Full) /\ ring' >= Low)
  /\ rxf' = Left /\ empty' = (empty /\ rxf = 0)
  /\ UNCHANGED <<sercx, device, held, erratum, wire, txf>>
  /\ IF paused' # paused \/ Full THEN InterruptMask ELSE UNCHANGED <<regs, thri>>

Transmit ==
  /\ Live /\ "tx" \notin owed /\ txf = 0
  /\ \E n \in 1..Fifo : txf' = n
  /\ thri' = FALSE
  /\ UNCHANGED <<sercx, device, flow, erratum, regs, line>>

RxEnable == Enable("rx", ring > 0) /\ UNCHANGED <<device, flow, erratum, regs, line, txhw>>
RxCancel == Cancel("rx") /\ UNCHANGED <<device, flow, erratum, regs, line, txhw>>

TxEnable ==
  /\ Enable("tx", txf = 0) /\ UNCHANGED <<device, flow, erratum, line, txf>>
  /\ IF txf = 0 THEN UNCHANGED <<regs, thri>> ELSE InterruptMask

TxCancel ==
  /\ Cancel("tx") /\ UNCHANGED <<device, flow, erratum, line, txf>> /\ InterruptMask

\* Purge of either direction, or both.
Purge ==
  /\ open /\ online
  /\ \E rx, tx \in BOOLEAN :
       /\ IF rx THEN ring' = 0 /\ paused' = FALSE /\ rxf' = 0 /\ empty' = FALSE
                ELSE UNCHANGED <<ring, paused, rxf, empty>>
       /\ txf' = IF tx THEN 0 ELSE txf
  /\ UNCHANGED <<sercx, device, held, erratum, wire>> /\ InterruptMask

-------------------------------------------------------------------------------
(* The chip and its peer, which obeys RTS and the FIFO's own threshold.     *)

PeerSends ==
  /\ Live /\ rts /\ rxf < Fifo /\ ~wire /\ wire' = TRUE
  /\ UNCHANGED <<sercx, device, flow, erratum, regs, rxf, empty, txhw>>

Lands ==
  /\ wire /\ wire' = FALSE /\ wait' = FALSE
  /\ rxf' = IF Live THEN Less(rxf + 1, Fifo) ELSE rxf
  /\ UNCHANGED <<sercx, device, flow, quirk, quirkDue, timer, stale, lost, regs, empty, txhw>>

Erratum ==
  /\ Live /\ rxf = 0 /\ ~empty /\ empty' = TRUE
  /\ UNCHANGED <<sercx, device, flow, erratum, regs, rxf, wire, txhw>>

Shift ==
  /\ Live /\ txf > 0 /\ txf' = txf - 1 /\ thri' = (thri \/ txf' = 0)
  /\ UNCHANGED <<sercx, device, flow, erratum, regs, line>>

-------------------------------------------------------------------------------

Init ==
  /\ SerCxInit /\ power = "gone"
  /\ held = FALSE /\ ring = 0 /\ paused = FALSE
  /\ quirk = FALSE /\ quirkDue = FALSE /\ timer = "off" /\ wait = FALSE
  /\ stale = FALSE /\ lost = "none"
  /\ rts = FALSE /\ rxmask = FALSE /\ txmask = FALSE
  /\ rxf = 0 /\ txf = 0 /\ wire = FALSE /\ empty = FALSE /\ thri = FALSE

Next ==
  \/ Prepare \/ Release \/ Start \/ InterruptEnable \/ InterruptDisable
  \/ Stop \/ StopRestore \/ Open \/ Close \/ Control \/ Apply
  \/ IsrQuirk \/ Isr \/ \E cpu \in Cpus : Dpc(cpu) \/ StartQuirk(cpu) \/ DpcAnnounces(cpu)
  \/ QuirkFires \/ QuirkTimer
  \/ Receive \/ Transmit \/ RxEnable \/ RxCancel \/ TxEnable \/ TxCancel \/ Purge
  \/ PeerSends \/ Lands \/ Erratum \/ Shift

Spec == Init /\ [][Next]_vars

\* Interrupts, DPCs, the timer and the wires make progress.
Fairness ==
  /\ WF_vars(IsrQuirk \/ Isr)
  /\ \A cpu \in Cpus : WF_vars(Dpc(cpu) \/ StartQuirk(cpu) \/ DpcAnnounces(cpu))
  /\ WF_vars(QuirkFires) /\ WF_vars(QuirkTimer) /\ WF_vars(Lands) /\ WF_vars(Shift)

FairSpec == Spec /\ Fairness

-------------------------------------------------------------------------------
(* Properties.                                                              *)

\* As in Uart: each notification SerCx2 waits for has one answerer.
AnsweredOnce == \A k \in Kinds : Holders(k) = IF k \in owed THEN 1 ELSE 0

\* Off is off: Release unmaps the registers, and no timer callback is left.
OffIsQuiet == power \in {"off", "gone"} => timer = "off"

\* The peer is stopped before the dummy read: a byte that was on the wire is
\* in the FIFO by then, so the read cannot swallow it.  Only when a session
\* was closed with the read under way may a callback of it come too early.
DummyReadIsSafe == lost # "own"

\* RTS and the receive interrupt are what RxPaused, Quirk and the client's
\* setting say, whichever of the handlers wrote them last.
FlowFollowsFlags ==
  Live => /\ rts <=> ~held /\ ~paused /\ ~quirk
          /\ rxmask <=> ~paused /\ ~quirk
===============================================================================

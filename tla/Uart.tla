---------------------------------- MODULE Uart ---------------------------------
(***************************************************************************)
(* The RP1 header UART (src/rp1-uart): a PL011 behind SerCx2.  The ISR     *)
(* moves bytes from the receive FIFO into the driver's ring, the DPC       *)
(* announces that there is something to read or room to write, and a timer *)
(* polls the end of a drain or purge.  The interrupt lock covers the ISR   *)
(* and every callback; what a callback does after the lock is a step of    *)
(* its own.  Bytes are counted, not told apart; wait masks, modem lines    *)
(* and error bits are left out.                                            *)
(***************************************************************************)
EXTENDS SerCx2

CONSTANTS
  Ring,    \* UART_RING_SIZE
  Fifo     \* entries of the receive and of the transmit FIFO

VARIABLES
  power,     \* "gone", "off" (prepared), "ready" (D0Entry done), "on" (interrupt
             \* connected), "quiet" (disconnected), "stopping"
  clock,     \* the baud clock lease and the route are held
  setup,     \* the registers hold the "boot", the "default" or a "client" setup
  draining, purging,  \* c->Draining, c->Purging
  timer,     \* the drain timer is "off" or "due"
  expired,   \* the timer callback after its lock: "no", "again", "drain", "purge"
  canceling, \* DrainCancel has to stop the timer yet
  ring,      \* c->Count
  txmask,    \* the transmit interrupt is enabled
  rxf, txf,  \* external: bytes in the receive and in the transmit FIFO
  rxi, txi   \* external: the receive and the transmit interrupt are latched

drain == <<draining, purging, timer, expired, canceling>>
rxhw  == <<ring, rxf, rxi>>
txhw  == <<txmask, txf, txi>>
device == <<power, clock, setup, online, open>>
vars  == <<sercx, device, drain, rxhw, txhw>>

TypeOK ==
  /\ SerCxTypeOK
  /\ power \in {"gone", "off", "ready", "on", "quiet", "stopping"}
  /\ clock \in BOOLEAN /\ setup \in {"boot", "default", "client"}
  /\ draining \in BOOLEAN /\ purging \in BOOLEAN /\ canceling \in BOOLEAN
  /\ timer \in {"off", "due"} /\ expired \in {"no", "again", "drain", "purge"}
  /\ ring \in 0..Ring /\ rxf \in 0..Fifo /\ txf \in 0..Fifo
  /\ rxi \in BOOLEAN /\ txi \in BOOLEAN /\ txmask \in BOOLEAN

Live == online /\ open
Less(a, b) == IF a < b THEN a ELSE b

-------------------------------------------------------------------------------
(* Power.  SerCx2 has every notification back before the device leaves D0. *)

\* The registers are mapped and saved; a UART that is already on is refused.
Prepare ==
  /\ power = "gone" /\ power' = "off"
  /\ UNCHANGED <<sercx, clock, setup, online, open, drain, rxhw, txhw>>

Release ==
  /\ power = "off" /\ power' = "gone"
  /\ UNCHANGED <<sercx, clock, setup, online, open, drain, rxhw, txhw>>

Start ==
  /\ power = "off" /\ power' = "ready" /\ clock' = TRUE /\ setup' = "default"
  /\ rxi' = FALSE /\ txi' = FALSE /\ txmask' = FALSE
  /\ UNCHANGED <<sercx, online, open, drain, ring, rxf, txf>>

\* The lease is given up when the divisor or the route fails.
StartFails ==
  /\ power = "off" /\ setup' \in {"boot", "default"}
  /\ UNCHANGED <<sercx, power, clock, online, open, drain, rxhw, txhw>>

InterruptEnable ==
  /\ power = "ready" /\ power' = "on"
  /\ online' = TRUE /\ txmask' = (open /\ "tx" \in armed)
  /\ UNCHANGED <<sercx, clock, setup, open, drain, rxhw, txf, txi>>

InterruptDisable ==
  /\ power = "on" /\ owed = {} /\ ~canceling /\ power' = "quiet"
  /\ online' = FALSE /\ txmask' = FALSE
  /\ UNCHANGED <<sercx, clock, setup, open, drain, rxhw, txf, txi>>

\* D0Exit under the lock: the transmitter stops with what it holds.
Stop ==
  /\ power = "quiet" /\ Flushed /\ power' = "stopping"
  /\ online' = FALSE /\ draining' = FALSE /\ purging' = FALSE
  /\ txmask' = FALSE /\ txf' = 0 /\ txi' = FALSE
  /\ UNCHANGED <<sercx, clock, setup, open, timer, expired, canceling, rxhw>>

\* It waits for the timer, puts the registers back and gives up the leases.
TimerIsOut == expired = "no"
StopRestore ==
  /\ power = "stopping" /\ TimerIsOut /\ power' = "off"
  /\ timer' = "off" /\ setup' = "boot" /\ clock' = FALSE
  /\ UNCHANGED <<sercx, online, open, draining, purging, expired, canceling, rxhw, txhw>>

-------------------------------------------------------------------------------
(* The file.                                                                *)

Open ==
  /\ online /\ ~open /\ open' = TRUE /\ Forget
  /\ setup' = "default" /\ ring' = 0 /\ rxf' = 0 /\ rxi' = FALSE
  /\ txf' = 0 /\ txi' = FALSE /\ txmask' = FALSE
  /\ draining' = FALSE /\ purging' = FALSE
  /\ UNCHANGED <<power, clock, online, timer, expired, canceling>>

Close ==
  /\ open /\ owed = {} /\ ~canceling /\ open' = FALSE
  /\ draining' = FALSE /\ purging' = FALSE /\ timer' = "off"
  /\ ring' = 0 /\ txmask' = FALSE
  /\ UNCHANGED <<sercx, power, clock, setup, online, expired, canceling, rxf, rxi, txf, txi>>

\* The IOCTLs that reprogram the line refuse a busy transmitter; the others
\* change modem lines, the break bit or nothing.
Control ==
  /\ Live /\ txf = 0 /\ setup' = "client"
  /\ UNCHANGED <<sercx, power, clock, online, open, drain, rxhw, txhw>>

-------------------------------------------------------------------------------
(* Receive and transmit.                                                    *)

\* The FIFO is emptied into the ring; what does not fit is dropped.
Capture == ring' = Less(ring + rxf, Ring) /\ rxf' = 0

Isr ==
  /\ Live /\ (rxi \/ (txi /\ txmask))
  /\ IF rxi THEN Capture ELSE UNCHANGED <<ring, rxf>>
  /\ rxi' = FALSE /\ txi' = (txi /\ ~txmask)
  /\ LET rx == "rx" \in armed /\ ring' > 0
         tx == "tx" \in armed /\ txf < Fifo
     IN  /\ pending' = pending \union (IF rx THEN {"rx"} ELSE {})
                               \union (IF tx THEN {"tx"} ELSE {})
         /\ txmask' = (txmask /\ ~tx)
  /\ queued' = (queued \/ pending' # {})
  /\ UNCHANGED <<owed, armed, committed, device, drain, txf>>

Dpc(cpu) ==
  /\ Commit(cpu, FALSE) /\ UNCHANGED <<device, drain, rxhw, txhw>>

DpcAnnounces(cpu) ==
  /\ \/ \E k \in Kinds : Announce(cpu, k)
     \/ DpcEnds(cpu)
  /\ UNCHANGED <<device, drain, rxhw, txhw>>

Receive ==
  /\ Live /\ "rx" \notin owed
  /\ \E n \in 1..Ring :
       /\ ring' = Less(ring + rxf, Ring) - Less(n, Less(ring + rxf, Ring))
       /\ rxf' = 0 /\ rxi' = FALSE
  /\ UNCHANGED <<sercx, device, drain, txhw>>

\* Transmission starts only when the last drain or purge is over.
Transmit ==
  /\ Live /\ owed \intersect {"tx", "drain", "purge"} = {}
  /\ \E n \in 1..Fifo : txf' = Less(txf + n, Fifo)
  /\ txi' = FALSE
  /\ UNCHANGED <<sercx, device, drain, rxhw, txmask>>

RxEnable == Enable("rx", ring > 0) /\ UNCHANGED <<device, drain, rxhw, txhw>>
RxCancel == Cancel("rx") /\ UNCHANGED <<device, drain, rxhw, txhw>>

TxEnable ==
  /\ owed \intersect {"drain", "purge"} = {} /\ Enable("tx", txf < Fifo)
  /\ txmask' = IF txf < Fifo THEN txmask ELSE online
  /\ UNCHANGED <<device, drain, rxhw, txf, txi>>

TxCancel ==
  /\ Cancel("tx") /\ txmask' = FALSE
  /\ UNCHANGED <<device, drain, rxhw, txf, txi>>

\* Purge of the software and hardware FIFOs.  Every latched interrupt is
\* cleared; nothing is marked pending and no DPC is queued.
Purge ==
  /\ open /\ online
  /\ \E rx, tx \in BOOLEAN :
       /\ ring' = IF rx THEN 0 ELSE Less(ring + rxf, Ring)
       /\ txf' = IF tx THEN 0 ELSE txf
  /\ rxf' = 0 /\ rxi' = FALSE /\ txi' = FALSE
  /\ UNCHANGED <<sercx, device, drain, txmask>>

-------------------------------------------------------------------------------
(* Drain and purge of the transmitter.                                      *)

Busy == txf > 0

DrainAsked ==
  /\ Live /\ owed \intersect {"tx", "drain", "purge"} = {} /\ ~canceling
Drain ==
  /\ DrainAsked /\ owed' = owed \union {"drain"} /\ draining' = TRUE /\ timer' = "due"
  /\ UNCHANGED <<armed, pending, queued, committed, device, purging, expired, canceling,
                 rxhw, txhw>>

TxPurge ==
  /\ DrainAsked /\ owed' = owed \union {"purge"} /\ purging' = TRUE /\ timer' = "due"
  /\ UNCHANGED <<armed, pending, queued, committed, device, draining, expired, canceling,
                 rxhw, txhw>>

\* TRUE takes the drain back; the timer is stopped after the lock.
DrainCancel ==
  /\ "drain" \in owed /\ ~canceling /\ canceling' = TRUE
  /\ owed' = IF draining THEN owed \ {"drain"} ELSE owed
  /\ draining' = FALSE
  /\ UNCHANGED <<armed, pending, queued, committed, device, purging, timer, expired,
                 rxhw, txhw>>

DrainCancelStops ==
  /\ canceling /\ canceling' = FALSE /\ timer' = "off"
  /\ UNCHANGED <<sercx, device, draining, purging, expired, rxhw, txhw>>

\* The timer callback under the lock.
DrainTimer ==
  /\ timer = "due" /\ expired = "no" /\ timer' = "off"
  /\ IF (draining \/ purging) /\ online /\ ~Busy
     THEN /\ expired' = IF purging THEN "purge" ELSE "drain"
          /\ draining' = FALSE /\ purging' = FALSE
     ELSE /\ expired' = IF (draining \/ purging) /\ online THEN "again" ELSE "no"
          /\ UNCHANGED <<draining, purging>>
  /\ UNCHANGED <<sercx, device, canceling, rxhw, txhw>>

\* And after it: the timer is started again, or SerCx2 is told.
DrainTimerEnds ==
  /\ expired # "no" /\ expired' = "no"
  /\ timer' = IF expired = "again" THEN "due" ELSE timer
  /\ owed' = IF expired = "again" THEN owed ELSE owed \ {expired}
  /\ UNCHANGED <<armed, pending, queued, committed, device, draining, purging, canceling,
                 rxhw, txhw>>

-------------------------------------------------------------------------------
(* The PL011.                                                               *)

\* A byte arrives; a full FIFO loses it.  The interrupt is latched at the
\* threshold, or by the receive timeout.
Arrive ==
  /\ Live /\ rxf < Fifo /\ rxf' = rxf + 1 /\ rxi' = (rxi \/ rxf' = Fifo)
  /\ UNCHANGED <<sercx, device, drain, ring, txhw>>

RxTimeout ==
  /\ Live /\ rxf > 0 /\ ~rxi /\ rxi' = TRUE
  /\ UNCHANGED <<sercx, device, drain, ring, rxf, txhw>>

Shift ==
  /\ Live /\ txf > 0 /\ txf' = txf - 1 /\ txi' = (txi \/ txf' = 0)
  /\ UNCHANGED <<sercx, device, drain, rxhw, txmask>>

-------------------------------------------------------------------------------

Init ==
  /\ SerCxInit /\ power = "gone" /\ clock = FALSE /\ setup = "boot"
  /\ draining = FALSE /\ purging = FALSE /\ timer = "off" /\ expired = "no"
  /\ canceling = FALSE /\ ring = 0 /\ rxf = 0 /\ rxi = FALSE
  /\ txmask = FALSE /\ txf = 0 /\ txi = FALSE

Next ==
  \/ Prepare \/ Release \/ Start \/ StartFails \/ InterruptEnable
  \/ InterruptDisable \/ Stop \/ StopRestore
  \/ Open \/ Close \/ Control
  \/ Isr \/ \E cpu \in Cpus : Dpc(cpu) \/ DpcAnnounces(cpu)
  \/ Receive \/ Transmit \/ RxEnable \/ RxCancel \/ TxEnable \/ TxCancel \/ Purge
  \/ Drain \/ TxPurge \/ DrainCancel \/ DrainCancelStops \/ DrainTimer \/ DrainTimerEnds
  \/ Arrive \/ RxTimeout \/ Shift

Spec == Init /\ [][Next]_vars

\* Interrupts, DPCs, timers and the line make progress; SerCx2 and its
\* clients owe nothing.
Fairness ==
  /\ WF_vars(Isr) /\ \A cpu \in Cpus : WF_vars(Dpc(cpu) \/ DpcAnnounces(cpu))
  /\ WF_vars(DrainTimer) /\ WF_vars(DrainTimerEnds) /\ WF_vars(DrainCancelStops)
  /\ WF_vars(RxTimeout) /\ WF_vars(Shift)

FairSpec == Spec /\ Fairness

-------------------------------------------------------------------------------
(* Properties.                                                              *)

\* Every notification SerCx2 waits for is held by exactly one answerer: the
\* armed flag, one DPC, or the timer callback.  A cancel that returns TRUE is
\* never followed by the call, and one that returns FALSE always is.
AnsweredOnce ==
  /\ \A k \in Kinds : Holders(k) = IF k \in owed THEN 1 ELSE 0
  /\ ("drain" \in owed) <=> (draining \/ expired = "drain")
  /\ ("purge" \in owed) <=> (purging \/ expired = "purge")

\* D0Exit waits for the drain timer: once the device is off, and Release may
\* unmap the registers, neither the timer nor its callback is left.
OffIsQuiet == power \in {"off", "gone"} => timer = "off" /\ expired = "no"

\* An armed receive notification is answered once the ring has bytes,
\* unless they are purged.
ReadyArrives == ("rx" \in armed /\ ring > 0) ~> ("rx" \notin armed \/ ring = 0)
===============================================================================

------------------------------- MODULE MCTransfers -----------------------------
(***************************************************************************)
(* The controllers of the serial buses for TLC: I2C and SPI (Spb), the     *)
(* header UART (Uart) and the Bluetooth UART (BcmUart).  They share no     *)
(* state, so a behaviour is one of one of them: part says of which, and    *)
(* the others stay in their initial states.                                *)
(***************************************************************************)
EXTENDS Spb

CONSTANTS Cpus, Cpu, Ring, High, Low, Fifo

\* The rings and the FIFOs have sizes.
ASSUME SizesAssumption == Ring \in Nat /\ High \in Nat /\ Fifo \in Nat

VARIABLES
  part,
  u_online, u_open, u_owed, u_armed, u_pending, u_queued, u_committed, u_power, u_clock,
  u_setup, draining, purging, u_timer, expired, canceling, u_ring, u_txmask, u_rxf, u_txf,
  rxi, txi,
  b_online, b_open, b_owed, b_armed, b_pending, b_queued, b_committed, b_power, held, b_ring,
  paused, quirk, quirkDue, b_timer, wait, rts, rxmask, b_txmask, b_rxf, b_txf, wire, empty,
  thri, stale, lost

U == INSTANCE Uart WITH
  online <- u_online, open <- u_open, owed <- u_owed, armed <- u_armed, pending <- u_pending,
  queued <- u_queued, committed <- u_committed, power <- u_power, clock <- u_clock,
  setup <- u_setup, timer <- u_timer, ring <- u_ring, txmask <- u_txmask, rxf <- u_rxf,
  txf <- u_txf

B == INSTANCE BcmUart WITH
  Cpus <- {Cpu}, Fifo <- 1,
  online <- b_online, open <- b_open, owed <- b_owed, armed <- b_armed, pending <- b_pending,
  queued <- b_queued, committed <- b_committed, power <- b_power, ring <- b_ring,
  timer <- b_timer, txmask <- b_txmask, rxf <- b_rxf, txf <- b_txf

uart == <<u_online, u_open, u_owed, u_armed, u_pending, u_queued, u_committed, u_power,
          u_clock, u_setup, draining, purging, u_timer, expired, canceling, u_ring, u_txmask,
          u_rxf, u_txf, rxi, txi>>
bcm  == <<b_online, b_open, b_owed, b_armed, b_pending, b_queued, b_committed, b_power, held,
          b_ring, paused, quirk, quirkDue, b_timer, wait, rts, rxmask, b_txmask, b_rxf, b_txf,
          wire, empty, thri, stale, lost>>

MCPlans == {<<TRUE, TRUE, TRUE>>, <<FALSE, TRUE>>}

AllInit ==
  /\ part \in {"spb", "uart", "bcm"}
  /\ Init /\ (part # "spb" => bus = "i2c") /\ U!Init /\ B!Init

AllNext ==
  \/ part = "spb"  /\ Next   /\ UNCHANGED <<part, uart, bcm>>
  \/ part = "uart" /\ U!Next /\ UNCHANGED <<part, vars, bcm>>
  \/ part = "bcm"  /\ B!Next /\ UNCHANGED <<part, vars, uart>>

\* The fairness of the part that runs, as its module states it.
AllFairness ==
  /\ WF_vars(part = "spb" /\ Starter) /\ WF_vars(part = "spb" /\ Canceler)
  /\ WF_vars(part = "spb" /\ Worker)
  /\ WF_vars(part = "spb" /\ LoopTimeout) /\ WF_vars(part = "spb" /\ DeadlinePasses)
  /\ WF_uart(part = "uart" /\ U!Isr)
  /\ \A cpu \in Cpus : WF_uart(part = "uart" /\ (U!Dpc(cpu) \/ U!DpcAnnounces(cpu)))
  /\ WF_uart(part = "uart" /\ U!DrainTimer) /\ WF_uart(part = "uart" /\ U!DrainTimerEnds)
  /\ WF_uart(part = "uart" /\ U!Shift)
  /\ WF_bcm(part = "bcm" /\ (B!IsrQuirk \/ B!Isr))
  /\ WF_bcm(part = "bcm" /\ (B!Dpc(Cpu) \/ B!StartQuirk(Cpu) \/ B!DpcAnnounces(Cpu)))
  /\ WF_bcm(part = "bcm" /\ B!QuirkFires) /\ WF_bcm(part = "bcm" /\ B!QuirkTimer)
  /\ WF_bcm(part = "bcm" /\ B!Lands)

AllSpec == AllInit /\ [][AllNext]_<<part, vars, uart, bcm>> /\ AllFairness

\* Everything the variables of the part that runs may hold (TypeOK of each module).
WellTyped ==
  CASE part = "spb" -> TypeOK [] part = "uart" -> U!TypeOK [] part = "bcm" -> B!TypeOK

\* Both UARTs: every notification has one answerer, and no timer outlives D0.
AnsweredOnce ==
  /\ U!AnsweredOnce /\ U!OffIsQuiet /\ B!AnsweredOnce /\ B!OffIsQuiet
  /\ WellTyped

\* The Bluetooth UART: flow control follows the flags of every handler, and the
\* dummy read of the erratum swallows no byte.
FlowControlHolds == B!FlowFollowsFlags /\ B!DummyReadIsSafe

\* Somebody waits: for the completion of a transfer that was taken, for the drain
\* or purge of the header UART's transmitter, or, on the Bluetooth UART, for the
\* announcement of bytes that have arrived.
Waiting ==
  CASE part = "spb"  -> ended = 0
    [] part = "uart" -> u_owed \intersect {"drain", "purge"} # {}
    [] part = "bcm"  -> "rx" \in b_armed /\ b_ring + b_rxf > 0

\* And does not wait for ever, whatever the engine, the cancel routines, the timers
\* and the flow control do.
WaitEnds == Waiting ~> ~Waiting
===============================================================================

------------------------------- MODULE Rp1Clocks -------------------------------
(***************************************************************************)
(* The clocks of RP1's UARTs and DMA engine (src/rp1-clocks): counted      *)
(* leases.  A clock that is off is switched to the crystal for its first   *)
(* user, and put back for the last one and while the provider is stopped;  *)
(* one that is on is only used.  A clock is told apart by its gate and by  *)
(* what rates.c computes from its source, divider and PLL.  The module has *)
(* no Next of its own: its clients extend it.                              *)
(***************************************************************************)
EXTENDS Rp1Files

VARIABLES
  clock,        \* the clocks' registers
  clockUsers,   \* CLOCK_CONTEXT.Users and DmaUsers
  clockSaved,   \* SavedControl, SavedDivider, DmaSavedControl, DmaSavedDivider
  clockChanged, \* Changed and DmaChanged
  fileClocks,   \* CLOCK_FILE
  clocksOnline, \* CLOCK_CONTEXT.Online
  clocksPnp,    \* one of PnpStates
  bootClock     \* the registers as the firmware left them

clockVars == <<clock, clockUsers, clockSaved, clockChanged, fileClocks, clocksOnline,
               clocksPnp, bootClock>>

Clocks == {"uart", "dma"}

\* Rates: none that can be computed, at most 100 MHz, above.
Setting == [on : BOOLEAN, rate : {"none", "slow", "fast"}]
Crystal == [on |-> TRUE, rate |-> "slow"]

ClocksTypeOK ==
  /\ {clock, clockSaved, bootClock} \subseteq [Clocks -> Setting]
  /\ clockUsers \in [Clocks -> 0..Cardinality(Clients)]
  /\ clockChanged \in [Clocks -> BOOLEAN]
  /\ fileClocks \in [Clients -> SUBSET Clocks]
  /\ clocksOnline \in BOOLEAN
  /\ clocksPnp \in PnpStates

ClocksInit ==
  /\ clock = bootClock /\ clockSaved = bootClock
  /\ clockUsers = [k \in Clocks |-> 0] /\ clockChanged = [k \in Clocks |-> FALSE]
  /\ fileClocks = [f \in Clients |-> {}]
  /\ clocksOnline = FALSE /\ clocksPnp = "released"

\* Rp1ClockRate and Rp1DmaClockRate are good enough for a lease.
Usable(k, setting) == setting.on /\ setting.rate \in (IF k = "dma" THEN {"slow"} ELSE {"slow", "fast"})

\* Restore and RestoreDma.
Restored(k) == IF clockChanged[k] THEN clockSaved[k] ELSE clock[k]

\* As for the routes: no new context while a file holds a clock.
ClockPrepare ==
  /\ clocksPnp = "released" /\ \A k \in Clocks : clockUsers[k] = 0
  /\ clocksPnp' = "prepared"
  /\ UNCHANGED <<clock, clockUsers, clockSaved, clockChanged, fileClocks, clocksOnline, bootClock>>

ClockRelease ==
  /\ clocksPnp = "prepared" /\ clocksPnp' = "released"
  /\ UNCHANGED <<clock, clockUsers, clockSaved, clockChanged, fileClocks, clocksOnline, bootClock>>

\* D0Entry.
ClockStart ==
  /\ clocksPnp = "prepared" /\ clocksPnp' = "d0"
  /\ clock' = [k \in Clocks |-> IF clockUsers[k] > 0 /\ clockChanged[k] THEN Crystal ELSE clock[k]]
  /\ clocksOnline' = TRUE
  /\ UNCHANGED <<clockUsers, clockSaved, clockChanged, fileClocks, bootClock>>

\* D0Exit.
ClockStop ==
  /\ clocksPnp = "d0" /\ clocksPnp' = "prepared"
  /\ clock' = [k \in Clocks |-> Restored(k)]
  /\ clocksOnline' = FALSE
  /\ UNCHANGED <<clockUsers, clockSaved, clockChanged, fileClocks, bootClock>>

\* What the clock is while the request is served.
Offered(k) == IF clockUsers[k] = 0 /\ ~clock[k].on THEN Crystal ELSE clock[k]

ClockGranted(k) == clocksOnline /\ Usable(k, Offered(k))

\* IOCTL_RP1_CLOCK_UART and IOCTL_RP1_CLOCK_DMA of a file that has no lease yet.  A clock
\* that cannot be used is put back.
RequestClock(f, k) ==
  /\ clocksOnline /\ k \notin fileClocks[f]
  /\ clockSaved' = IF clockUsers[k] = 0 THEN [clockSaved EXCEPT ![k] = clock[k]] ELSE clockSaved
  /\ IF Usable(k, Offered(k))
     THEN /\ clock' = [clock EXCEPT ![k] = Offered(k)]
          /\ clockUsers' = [clockUsers EXCEPT ![k] = @ + 1]
          /\ clockChanged' = [clockChanged EXCEPT
                               ![k] = IF clockUsers[k] = 0 THEN ~clock[k].on ELSE @]
          /\ fileClocks' = [fileClocks EXCEPT ![f] = @ \cup {k}]
     ELSE /\ clockChanged' = [clockChanged EXCEPT ![k] = @ /\ clockUsers[k] > 0]
          /\ UNCHANGED <<clock, clockUsers, fileClocks>>
  /\ UNCHANGED <<clocksOnline, clocksPnp, bootClock>>

Last(f, k) == k \in fileClocks[f] /\ clockUsers[k] = 1

\* Mutant: what was changed is forgotten, as after a stop, with the clock still on.
CloseClocks_Forgets(f) ==
  /\ clock' = clock
  /\ clockUsers' = [k \in Clocks |-> clockUsers[k] - (IF k \in fileClocks[f] THEN 1 ELSE 0)]
  /\ clockChanged' = [k \in Clocks |-> clockChanged[k] /\ ~Last(f, k)]
  /\ fileClocks' = [fileClocks EXCEPT ![f] = {}]
  /\ UNCHANGED <<clockSaved, clocksOnline, clocksPnp, bootClock>>

\* ClockCleanup.
CloseClocks(f) ==
  /\ clock' = [k \in Clocks |-> IF Last(f, k) /\ clocksOnline THEN Restored(k) ELSE clock[k]]
  /\ clockUsers' = [k \in Clocks |-> clockUsers[k] - (IF k \in fileClocks[f] THEN 1 ELSE 0)]
  /\ clockChanged' = [k \in Clocks |-> clockChanged[k] /\ ~Last(f, k)]
  /\ fileClocks' = [fileClocks EXCEPT ![f] = {}]
  /\ UNCHANGED <<clockSaved, clocksOnline, clocksPnp, bootClock>>

ClocksPnp == ClockPrepare \/ ClockRelease \/ ClockStart \/ ClockStop

-------------------------------------------------------------------------------
\* A clock without users, or with the provider stopped, is as the firmware left it; one
\* with users runs at a rate they can use; the users are counted right, over any number
\* of stops (ClockStart, ClockStop, ClockCleanup, ClockIo, DmaClockIo).
ClocksAsFound ==
  \A k \in Clocks :
    /\ clockUsers[k] = Cardinality({f \in Clients : k \in fileClocks[f]})
    /\ ~clocksOnline \/ clockUsers[k] = 0 => clock[k] = bootClock[k]
    /\ clocksOnline /\ clockUsers[k] > 0 => Usable(k, clock[k])
===============================================================================

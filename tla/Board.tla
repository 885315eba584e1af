---------------------------------- MODULE Board --------------------------------
(***************************************************************************)
(* pi5-board: the pins of the board (regulators, radios, the SD card and   *)
(* the LEDs), opened as GPIO connections of the BCM2712 controllers.  The  *)
(* supplies of Wi-Fi, SD card and network stay on; any other pin is        *)
(* leased by one file, LEDs by a user's, the rest by a driver's only.  A   *)
(* pin that is closed goes back to the level the firmware left it at.  The *)
(* I/O and the power callbacks hold the lock throughout, so that each is   *)
(* one step; a write of a pin may fail, or time out after it took effect.  *)
(***************************************************************************)
EXTENDS Naturals, FiniteSets

CONSTANTS
  AlwaysOn, Leds, Drivers,  \* pins: PI5_BOARD_ALWAYS_ON, PI5_BOARD_LEDS and the rest
  KernelFiles, UserFiles    \* open files of drivers and of administrators

\* A handle is a driver's or a program's, and the mode of its requests follows.
ASSUME BoardAssumption == KernelFiles \intersect UserFiles = {}

VARIABLES
  boardPower,  \* "off", "on", "failed" when the start failed
  boardOnline, configured, leased, levels,  \* Online, Configured, Leased, Levels
  opened,      \* pins with an I/O target
  held,        \* Leased of each file
  firmware,    \* level of each pin as the firmware left it
  wire,        \* level of each pin
  asked,       \* the level the owner of a leased pin got last
  doubt        \* pins whose last write timed out

boardVars == <<boardPower, boardOnline, configured, leased, levels, opened, held, firmware,
               wire, asked, doubt>>

Holders == KernelFiles \union UserFiles
Pins    == AlwaysOn \union Leds \union Drivers

BoardInit ==
  /\ boardPower = "off" /\ boardOnline = FALSE /\ configured = {} /\ leased = {} /\ opened = {}
  /\ levels = [p \in Pins |-> FALSE] /\ held = [f \in Holders |-> {}]
  /\ firmware \in [Pins -> BOOLEAN] /\ wire = firmware
  /\ asked = levels /\ doubt = {}

BoardTypeOK ==
  /\ boardPower \in {"off", "on", "failed"} /\ boardOnline \in BOOLEAN
  /\ configured \subseteq Pins /\ leased \subseteq Pins /\ opened \subseteq Pins
  /\ doubt \subseteq Pins /\ held \in [Holders -> SUBSET Pins]
  /\ levels \in [Pins -> BOOLEAN] /\ firmware \in [Pins -> BOOLEAN]
  /\ wire \in [Pins -> BOOLEAN] /\ asked \in [Pins -> BOOLEAN]
--------------------------------------------------------------------------------
With(f, S, g) == [p \in Pins |-> IF p \in S THEN g[p] ELSE f[p]]

\* ClosePin of every pin of S.
Close(S) ==
  /\ opened' = opened \ S /\ configured' = configured \ S /\ doubt' = doubt \ S
  /\ wire' = With(wire, S, firmware)

CloseAll == Close(Pins)

\* SetPin that succeeds: the pin is open, and remembered with its level.
SetPin(p, value) ==
  /\ opened' = opened \union {p} /\ configured' = configured \union {p}
  /\ levels' = [levels EXCEPT ![p] = value] /\ wire' = [wire EXCEPT ![p] = value]
  /\ doubt' = doubt \ {p}

\* SetPin that fails: a target it opened is closed again.
SetPinFails(p, value) ==
  /\ IF p \in opened
       THEN /\ UNCHANGED <<opened, configured>>
            /\ \/ UNCHANGED <<wire, doubt>>
               \/ wire' = [wire EXCEPT ![p] = value] /\ doubt' = doubt \union {p}
       ELSE Close({p})
  /\ UNCHANGED levels

\* The pins a start sets.
Wanted == AlwaysOn \union leased

Level(p) == p \in AlwaysOn \/ levels[p]
--------------------------------------------------------------------------------
BoardStart ==
  /\ boardPower = "off" /\ boardPower' = "on" /\ boardOnline' = TRUE
  /\ opened' = opened \union Wanted /\ configured' = configured \union Wanted
  /\ levels' = [p \in Pins |-> IF p \in Wanted THEN Level(p) ELSE levels[p]]
  /\ wire' = With(wire, Wanted, levels') /\ doubt' = doubt \ Wanted
  /\ UNCHANGED <<leased, held, firmware, asked>>

\* The pins before the one that failed were set, and are closed with it.
BoardStartFails ==
  /\ boardPower = "off" /\ boardPower' = "failed" /\ CloseAll
  /\ \E p \in Wanted : \E done \in SUBSET (Wanted \ {p}) :
       levels' = [q \in Pins |-> IF q \in done THEN Level(q) ELSE levels[q]]
  /\ UNCHANGED <<boardOnline, leased, held, firmware, asked>>

BoardStop ==
  /\ boardPower = "on" /\ boardPower' = "off" /\ boardOnline' = FALSE /\ CloseAll
  /\ UNCHANGED <<leased, levels, held, firmware, asked>>

\* A file that is closed gives its pins back, at any time.
BoardCleanup(f) ==
  /\ Close(held[f]) /\ leased' = leased \ held[f] /\ held' = [held EXCEPT ![f] = {}]
  /\ UNCHANGED <<boardPower, boardOnline, levels, firmware, asked>>

\* Mutant: a pin of another file may be taken.
MayLease_Shared(f, p) == p \notin AlwaysOn /\ (p \in Leds \/ f \in KernelFiles)

\* IOCTL_PI5_BOARD_SET and RELEASE refuse everything else.
MayLease(f, p) ==
  /\ p \notin AlwaysOn /\ (p \in Leds \/ f \in KernelFiles)
  /\ p \in leased => p \in held[f]

BoardRelease(f, p) ==
  /\ boardOnline /\ MayLease(f, p)
  /\ IF p \in held[f] THEN Close({p}) ELSE UNCHANGED <<opened, configured, doubt, wire>>
  /\ held' = [held EXCEPT ![f] = @ \ {p}] /\ leased' = leased \ {p}
  /\ UNCHANGED <<boardPower, boardOnline, levels, firmware, asked>>

\* An LED is lit by a low level.
BoardSet(f, p, asserted) ==
  /\ boardOnline /\ MayLease(f, p) /\ SetPin(p, (p \in Leds) # asserted)
  /\ held' = [held EXCEPT ![f] = @ \union {p}] /\ leased' = leased \union {p}
  /\ asked' = [asked EXCEPT ![p] = (p \in Leds) # asserted]
  /\ UNCHANGED <<boardPower, boardOnline, firmware>>

BoardSetFails(f, p, asserted) ==
  /\ boardOnline /\ MayLease(f, p) /\ SetPinFails(p, (p \in Leds) # asserted)
  /\ UNCHANGED <<boardPower, boardOnline, leased, held, firmware, asked>>

BoardNext ==
  \/ BoardStart \/ BoardStartFails \/ BoardStop
  \/ \E f \in Holders :
       \/ BoardCleanup(f)
       \/ \E p \in Pins :
            \/ BoardRelease(f, p)
            \/ \E asserted \in BOOLEAN : BoardSet(f, p, asserted) \/ BoardSetFails(f, p, asserted)

BoardSpec == BoardInit /\ [][BoardNext]_boardVars
--------------------------------------------------------------------------------
\* The driver's leases are those of its files, each of one; while it is online, and
\* again after a sleep, every supply is on and a leased pin is at the level its owner
\* got last, unless a later write timed out.  Whatever is not leased is as the firmware
\* left it.
LeasesHold ==
  /\ leased = UNION {held[f] : f \in Holders}
  /\ \A f, g \in Holders : f # g => held[f] \intersect held[g] = {}
  /\ \A f \in UserFiles : held[f] \subseteq Leds
  /\ boardOnline =>
       /\ configured = AlwaysOn \union leased
       /\ \A p \in AlwaysOn : wire[p]
       /\ \A p \in leased \ doubt : wire[p] = asked[p]
  /\ \A p \in Pins \ opened : wire[p] = firmware[p]
  /\ ~boardOnline => opened = {}
===============================================================================

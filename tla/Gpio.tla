---------------------------------- MODULE Gpio ---------------------------------
(***************************************************************************)
(* rp1-gpio: the pins of the RP1 under GpioClx.  A pin is its function, a  *)
(* drive (output enabled and the pad not disabled), a latch and the events *)
(* that interrupt.  The driver lends pins to clients as inputs or outputs, *)
(* as interrupts or as peripheral functions, and gives every pin back as   *)
(* the firmware left it.  A write of several registers is one step here;   *)
(* floated is the set of pins that it leaves undriven on the way.  Pulls,  *)
(* drive strengths, reads and the latched events are left out.             *)
(***************************************************************************)
EXTENDS Naturals, FiniteSets

CONSTANTS
  Header,  \* pins of the header
  Board,   \* pins of the board, outputs such as the reset of the Ethernet PHY
  Found    \* states the firmware may leave a pin in

VARIABLES
  phase,      \* "off", "prepared", "started"
  route,      \* the lease of the interrupt route
  pin,        \* the registers of each pin
  inte,       \* pins whose interrupt is enabled
  boot, resume, resumeInte,  \* saved states
  touched, io, output, irq, function,  \* Touched, and the pins lent as what
  saved,      \* GpioClx has had the context saved and will ask for it
  preserved,  \* pins a client gave back to be left as they are
  floated     \* pins the last step left undriven for a moment

own  == <<io, output, irq, function>>
vars == <<phase, route, pin, inte, boot, resume, resumeInte, touched, own, saved, preserved,
          floated>>

Pins   == Header \union Board
States == [fn : {"gpio", "none", "alt"}, drive : BOOLEAN, out : BOOLEAN,
           events : {"none", "rise", "fall"}]
Owned  == io \union irq \union function

Driven(r) == r.fn = "gpio" /\ r.drive

Init ==
  /\ phase = "off" /\ route = FALSE /\ pin \in [Pins -> Found] /\ inte = {}
  /\ boot = pin /\ resume = pin /\ resumeInte = {} /\ touched = {}
  /\ io = {} /\ output = {} /\ irq = {} /\ function = {}
  /\ saved = FALSE /\ preserved = {} /\ floated = {}

TypeOK ==
  /\ phase \in {"off", "prepared", "started"} /\ route \in BOOLEAN /\ saved \in BOOLEAN
  /\ pin \in [Pins -> States] /\ boot \in [Pins -> States] /\ resume \in [Pins -> States]
  /\ inte \subseteq Header /\ resumeInte \subseteq Header
  /\ touched \subseteq Pins /\ io \subseteq Pins /\ output \subseteq io /\ irq \subseteq Header
  /\ function \subseteq Header /\ preserved \subseteq Pins /\ floated \subseteq Pins
--------------------------------------------------------------------------------
(* The registers of a pin. *)

\* GpioRestore holds a board output that is driven and stays driven.
RestoreHolds(p, s) == p \in Board /\ Driven(s) /\ Driven(pin[p])

GpioRestore(S, s) ==
  /\ pin' = [p \in Pins |-> IF p \in S THEN s[p] ELSE pin[p]]
  /\ floated' = {p \in S : ~RestoreHolds(p, s[p])}

\* GpioConfigure: the events of a pin lent as an interrupt stay.
ConfigureHolds_RestoreOnly(p, fn, drives) == FALSE   \* mutant: only GpioRestore holds

ConfigureHolds(p, fn, drives) == p \in Board /\ drives /\ fn = "gpio" /\ Driven(pin[p])

Configured(p, fn, drives) ==
  [pin[p] EXCEPT !.fn = fn, !.drive = drives, !.events = IF p \in irq THEN @ ELSE "none"]

GpioConfigure(S, fn, drives) ==
  /\ pin' = [p \in Pins |-> IF p \in S THEN Configured(p, fn, drives) ELSE pin[p]]
  /\ floated' = {p \in S : ~ConfigureHolds(p, fn, drives)}
  /\ touched' = touched \union S

\* RestoreUnowned, of the pins that nobody has under another title.
RestoreUnowned(S, i, q, f) ==
  LET free == S \ (i \union q \union f) IN GpioRestore(free, boot) /\ touched' = touched \ free

\* GpioCanClaim: firmware's peripheral functions are not handed over.
GpioCanClaim(S) == phase = "started" /\ \A p \in S : boot[p].fn \in {"gpio", "none"}
--------------------------------------------------------------------------------
(* The controller. *)

\* Refused when the firmware left an interrupt enabled.
GpioPrepare ==
  /\ phase = "off" /\ inte = {} /\ phase' = "prepared" /\ boot' = pin /\ floated' = {}
  /\ UNCHANGED <<route, pin, inte, resume, resumeInte, touched, own, saved, preserved>>

GpioRelease ==
  /\ phase = "prepared" /\ Owned = {} /\ phase' = "off" /\ route' = FALSE /\ floated' = {}
  /\ UNCHANGED <<pin, inte, boot, resume, resumeInte, touched, own, saved, preserved>>

\* Without the route the controller stays as it is.
GpioStart ==
  /\ phase = "prepared" /\ phase' = "started" /\ route' = TRUE /\ saved' = FALSE
  /\ IF saved
       THEN GpioRestore(touched, resume) /\ inte' = inte \union resumeInte
       ELSE floated' = {} /\ UNCHANGED <<pin, inte>>
  /\ UNCHANGED <<boot, resume, resumeInte, touched, own, preserved>>

\* Every touched pin goes back to its boot state, lent or not; what was lent comes back
\* with the context.  GpioClx stops without saving only when nothing is lent.
GpioStop(save) ==
  /\ phase = "started" /\ (save \/ Owned = {})
  /\ phase' = "prepared" /\ route' = FALSE /\ saved' = save
  /\ resume' = (IF save THEN [p \in Pins |-> IF p \in touched THEN pin[p] ELSE resume[p]]
                        ELSE resume)
  /\ resumeInte' = (IF save THEN inte \intersect irq ELSE resumeInte)
  /\ inte' = inte \ irq /\ GpioRestore(touched, boot)
  /\ UNCHANGED <<boot, touched, own, preserved>>
--------------------------------------------------------------------------------
(* Lending pins. *)

GpioConnectInput(S) ==
  /\ GpioCanClaim(S) /\ S \intersect Board = {} /\ S \intersect (io \union function) = {}
  /\ io' = io \union S /\ GpioConfigure(S, "gpio", FALSE)
  /\ preserved' = preserved \ S
  /\ UNCHANGED <<phase, route, inte, boot, resume, resumeInte, output, irq, function, saved>>

GpioConnectOutput(S) ==
  /\ GpioCanClaim(S) /\ S \intersect (io \union function \union irq) = {}
  /\ io' = io \union S /\ output' = output \union S /\ GpioConfigure(S, "gpio", TRUE)
  /\ preserved' = preserved \ S
  /\ UNCHANGED <<phase, route, inte, boot, resume, resumeInte, irq, function, saved>>

GpioDisconnect(S, keep) ==
  /\ phase = "started" /\ S \subseteq io /\ io' = io \ S /\ output' = output \ S
  /\ IF keep THEN floated' = {} /\ preserved' = preserved \union S /\ UNCHANGED <<pin, touched>>
             ELSE RestoreUnowned(S, io', irq, function) /\ UNCHANGED preserved
  /\ UNCHANGED <<phase, route, inte, boot, resume, resumeInte, irq, function, saved>>

\* The latch of a pin, whatever it is lent as: which client may write is arbitrated by
\* GpioClx.  That it writes no pin that was never lent is taken from it.
GpioWritePins(p, value) ==
  /\ phase = "started" /\ p \in touched /\ pin' = [pin EXCEPT ![p].out = value] /\ floated' = {}
  /\ UNCHANGED <<phase, route, inte, boot, resume, resumeInte, touched, own, saved, preserved>>

GpioConnectFunction(S) ==
  /\ GpioCanClaim(S) /\ S \intersect Board = {} /\ S \intersect Owned = {}
  /\ function' = function \union S /\ GpioConfigure(S, "alt", FALSE)
  /\ preserved' = preserved \ S
  /\ UNCHANGED <<phase, route, inte, boot, resume, resumeInte, io, output, irq, saved>>

GpioDisconnectFunction(S) ==
  /\ phase = "started" /\ S \subseteq function /\ function' = function \ S
  /\ RestoreUnowned(S, io, irq, function')
  /\ UNCHANGED <<phase, route, inte, boot, resume, resumeInte, io, output, irq, saved, preserved>>
--------------------------------------------------------------------------------
(* Interrupts. *)

GpioEnableInterrupt(p, trigger) ==
  /\ GpioCanClaim({p}) /\ p \notin function \union output \union irq
  /\ irq' = irq \union {p} /\ inte' = inte \union {p}
  /\ pin' = [pin EXCEPT ![p] = [Configured(p, "gpio", FALSE) EXCEPT !.events = trigger]]
  /\ floated' = {p} /\ touched' = touched \union {p} /\ preserved' = preserved \ {p}
  /\ UNCHANGED <<phase, route, boot, resume, resumeInte, io, output, function, saved>>

GpioDisableInterrupt(p) ==
  /\ phase = "started" /\ p \in irq /\ irq' = irq \ {p} /\ inte' = inte \ {p}
  /\ IF p \in io \union function
       THEN pin' = [pin EXCEPT ![p].events = "none"] /\ floated' = {} /\ UNCHANGED touched
       ELSE RestoreUnowned({p}, io, irq', function)
  /\ UNCHANGED <<phase, route, boot, resume, resumeInte, io, output, function, saved, preserved>>

GpioMaskInterrupts(S) ==
  /\ phase # "off" /\ inte' = inte \ S /\ floated' = {}
  /\ UNCHANGED <<phase, route, pin, boot, resume, resumeInte, touched, own, saved, preserved>>

GpioUnmaskInterrupt(p) ==
  /\ phase = "started" /\ p \in irq /\ inte' = inte \union {p} /\ floated' = {}
  /\ UNCHANGED <<phase, route, pin, boot, resume, resumeInte, touched, own, saved, preserved>>

\* GpioClx flips the edge to emulate both; the enable bit is as before.
GpioReconfigureInterrupt(p, trigger) ==
  /\ phase = "started" /\ p \in irq /\ pin' = [pin EXCEPT ![p].events = trigger] /\ floated' = {}
  /\ UNCHANGED <<phase, route, inte, boot, resume, resumeInte, touched, own, saved, preserved>>

Some == SUBSET Pins \ {{}}

Next ==
  \/ GpioPrepare \/ GpioRelease \/ GpioStart
  \/ \E save \in BOOLEAN : GpioStop(save)
  \/ \E S \in Some :
       \/ GpioConnectInput(S) \/ GpioConnectOutput(S) \/ GpioConnectFunction(S)
       \/ GpioDisconnectFunction(S)
       \/ \E keep \in BOOLEAN : GpioDisconnect(S, keep)
  \/ \E S \in SUBSET Header \ {{}} : GpioMaskInterrupts(S)
  \/ \E p \in Pins, value \in BOOLEAN : GpioWritePins(p, value)
  \/ \E p \in Header :
       \/ GpioDisableInterrupt(p) \/ GpioUnmaskInterrupt(p)
       \/ \E t \in {"rise", "fall"} : GpioEnableInterrupt(p, t) \/ GpioReconfigureInterrupt(p, t)

Spec == Init /\ [][Next]_vars
--------------------------------------------------------------------------------
\* A pin that differs from its boot state is remembered as touched, every lent pin is,
\* and a pin that nobody has is as the firmware left it unless its client asked to
\* keep it.  A stopped controller leaves no trace, whatever is lent and comes back.
PinsAsFound ==
  /\ \A p \in Pins : p \notin touched => pin[p] = boot[p]
  /\ Owned \subseteq touched
  /\ phase = "started" => touched \subseteq Owned \union preserved
  /\ phase # "started" => pin = boot /\ inte = {}

\* A pin has one use: a function excludes all others, an output excludes an interrupt;
\* an enabled interrupt is somebody's, and a lent pin is configured for its use, also
\* after a stop and a start, or when one of its two clients has left.
OwnersExclude ==
  /\ function \intersect (io \union irq) = {} /\ output \intersect irq = {}
  /\ inte \subseteq irq
  /\ phase = "started" =>
       /\ \A p \in io \union irq : pin[p].fn = "gpio" /\ pin[p].drive = (p \in output)
       /\ \A p \in function : pin[p].fn = "alt"
       /\ \A p \in Header \ preserved : p \in touched => (p \in irq <=> pin[p].events # "none")

\* A board output that is driven before and after a step is driven throughout it.
SuppliesHold == [][\A p \in floated' \intersect Board : ~(Driven(pin[p]) /\ Driven(pin'[p]))]_vars
===============================================================================

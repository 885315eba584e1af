--------------------------------- MODULE BcmGpio -------------------------------
(***************************************************************************)
(* bcm2712-gpio: the two controllers of the BCM2712 under GpioClx.  The    *)
(* main controller is memory mapped and has interrupts; the always-on one  *)
(* (aon) has none, and the data of its first bank belongs to the firmware: *)
(* it is read and written through an ACPI broker, which may fail between   *)
(* two register writes of the driver.  A pin is its mux, its direction,    *)
(* its latch and its trigger.  Pulls, reads, the latched events and the    *)
(* telemetry timer, which only reads, are left out.                        *)
(***************************************************************************)
EXTENDS Naturals, FiniteSets

CONSTANTS
  BcmPins,   \* pins of the controller
  Brokered,  \* of the always-on controller, those of the first bank
  BcmFound   \* states the firmware may leave a pin in

VARIABLES
  aon,        \* _UID: the always-on controller
  phase,      \* "off", "prepared", "started", or "failed" when a callback failed
  pin,        \* the registers of each pin
  mask,       \* pins whose interrupt is enabled
  l2, l2WasMasked,  \* the aggregate in the level 2 controller is masked, and was
  boot, resume, resumeMask,
  touched, io, output, irq, function,
  saved, preserved,
  lapsed      \* pins driven before and after a step, but not throughout it

own  == <<io, output, irq, function>>
line == <<mask, l2, l2WasMasked, resumeMask>>
vars == <<aon, phase, pin, line, boot, resume, touched, own, saved, preserved, lapsed>>

Muxes  == {"gpio", "f1"}
States == [mux : Muxes, input : BOOLEAN, out : BOOLEAN, trigger : {"none", "edge", "level"}]
Owned  == io \union irq \union function

Driven(r) == r.mux = "gpio" /\ ~r.input

Init ==
  /\ aon \in BOOLEAN /\ phase = "off" /\ pin \in [BcmPins -> BcmFound] /\ mask = {}
  /\ l2 \in BOOLEAN /\ l2WasMasked = FALSE
  /\ boot = pin /\ resume = pin /\ resumeMask = {} /\ touched = {}
  /\ io = {} /\ output = {} /\ irq = {} /\ function = {}
  /\ saved = FALSE /\ preserved = {} /\ lapsed = {}

TypeOK ==
  /\ aon \in BOOLEAN /\ phase \in {"off", "prepared", "started", "failed"}
  /\ pin \in [BcmPins -> States] /\ boot \in [BcmPins -> States] /\ resume \in [BcmPins -> States]
  /\ mask \subseteq BcmPins /\ resumeMask \subseteq BcmPins
  /\ l2 \in BOOLEAN /\ l2WasMasked \in BOOLEAN /\ saved \in BOOLEAN
  /\ touched \subseteq BcmPins /\ io \subseteq BcmPins /\ output \subseteq io
  /\ irq \subseteq BcmPins /\ function \subseteq BcmPins
  /\ preserved \subseteq BcmPins /\ lapsed \subseteq BcmPins
--------------------------------------------------------------------------------
(* The registers of a pin. *)

\* BcmRestore keeps an output driven, and gives up at the broker with the pin an input.
RestoreHolds(p, s) == Driven(s) /\ Driven(pin[p])

Halfway(p, s) == IF RestoreHolds(p, s) THEN pin[p] ELSE [pin[p] EXCEPT !.input = TRUE]

\* The pins whose restoring fails are among those whose data the broker writes.
MayFail(S) == IF aon THEN S \intersect Brokered ELSE {}

BcmRestore(S, bad, s) ==
  /\ pin' = [p \in BcmPins |-> IF p \in bad THEN Halfway(p, s[p])
                               ELSE IF p \in S THEN s[p] ELSE pin[p]]
  /\ lapsed' = {p \in S : Driven(pin[p]) /\ Driven(pin'[p]) /\ ~RestoreHolds(p, s[p])}

ConfigureHolds(p, mux, drives) == drives /\ mux = "gpio" /\ Driven(pin[p])

BcmConfigured(p, mux, drives) == [pin[p] EXCEPT !.mux = mux, !.input = ~drives]

BcmConfigure(S, mux, drives) ==
  /\ pin' = [p \in BcmPins |-> IF p \in S THEN BcmConfigured(p, mux, drives) ELSE pin[p]]
  /\ lapsed' = {p \in S : Driven(pin[p]) /\ Driven(pin'[p]) /\ ~ConfigureHolds(p, mux, drives)}
  /\ touched' = touched \union S

\* Mutant: a pin counts as restored before it is.
RestoreFree_ForgetsFirst(S, i, q, f) ==
  LET free == S \ (i \union q \union f) IN
    /\ touched' = touched \ free
    /\ \/ BcmRestore(free, {}, boot)
       \/ \E p \in MayFail(free) : BcmRestore({p}, {p}, boot)

\* RestoreFree goes from pin to pin and stops at the first that fails: the pins before
\* it are forgotten, it and those after it stay touched.
RestoreFree(S, i, q, f) ==
  LET free == S \ (i \union q \union f) IN
    \/ BcmRestore(free, {}, boot) /\ touched' = touched \ free
    \/ \E p \in MayFail(free) : \E done \in SUBSET (free \ {p}) :
         BcmRestore(done \union {p}, {p}, boot) /\ touched' = touched \ done

\* CanClaim: a pin the firmware uses for a function is lent for that function only.
CanClaim(S, mux) == phase = "started" /\ \A p \in S : boot[p].mux \in {"gpio", mux}
--------------------------------------------------------------------------------
(* The controller. *)

\* BcmPrepare refuses enabled interrupts, and fails with the broker.
BcmPrepare ==
  /\ phase = "off" /\ (aon \/ mask = {}) /\ phase' = "prepared" /\ boot' = pin
  /\ resume' = pin /\ lapsed' = {}
  /\ UNCHANGED <<aon, pin, line, touched, own, saved, preserved>>

BcmRelease ==
  /\ phase = "prepared" /\ Owned = {} /\ phase' = "off" /\ lapsed' = {}
  /\ UNCHANGED <<aon, pin, line, boot, resume, touched, own, saved, preserved>>

\* A pin that cannot be restored fails the start, with the pins before it restored.
BcmStart ==
  /\ phase = "prepared" /\ phase' = "started" /\ saved' = FALSE
  /\ IF saved
       THEN BcmRestore(touched, {}, resume)
       ELSE lapsed' = {} /\ UNCHANGED pin
  /\ resume' = boot /\ resumeMask' = {}  \* dead until the next save
  /\ mask' = (IF saved /\ ~aon THEN (mask \ irq) \union resumeMask ELSE mask)
  /\ IF aon THEN UNCHANGED <<l2, l2WasMasked>> ELSE l2WasMasked' = l2 /\ l2' = FALSE
  /\ UNCHANGED <<aon, boot, touched, own, preserved>>

BcmStartFails ==
  /\ phase = "prepared" /\ saved /\ phase' = "failed"
  /\ \E p \in MayFail(touched) : \E done \in SUBSET (touched \ {p}) :
       BcmRestore(done \union {p}, {p}, resume)
  /\ UNCHANGED <<aon, line, boot, resume, touched, own, saved, preserved>>

\* A stop restores every touched pin it can; it fails, and restores none, when it must
\* save the context and cannot read it.
BcmStop(save) ==
  /\ phase = "started" /\ (save \/ Owned = {}) /\ saved' = save
  /\ resume' = (IF save THEN [p \in BcmPins |-> IF p \in touched THEN pin[p] ELSE resume[p]]
                        ELSE resume)
  /\ resumeMask' = (IF save /\ ~aon THEN mask \intersect irq ELSE resumeMask)
  /\ mask' = (IF aon THEN mask ELSE mask \ irq)
  /\ l2' = (l2 \/ (~aon /\ l2WasMasked))
  /\ \E bad \in SUBSET MayFail(touched) :
       BcmRestore(touched, bad, boot) /\ phase' = (IF bad = {} THEN "prepared" ELSE "failed")
  /\ UNCHANGED <<aon, l2WasMasked, boot, touched, own, preserved>>

BcmStopFails ==
  /\ phase = "started" /\ aon /\ phase' = "failed" /\ lapsed' = {}
  /\ UNCHANGED <<aon, pin, line, boot, resume, touched, own, saved, preserved>>
--------------------------------------------------------------------------------
(* Lending pins. *)

BcmConnectInput(S) ==
  /\ CanClaim(S, "gpio") /\ S \intersect (io \union function) = {}
  /\ io' = io \union S /\ BcmConfigure(S, "gpio", FALSE) /\ preserved' = preserved \ S
  /\ UNCHANGED <<aon, phase, line, boot, resume, output, irq, function, saved>>

BcmConnectOutput(S) ==
  /\ CanClaim(S, "gpio") /\ S \intersect (io \union function \union irq) = {}
  /\ io' = io \union S /\ output' = output \union S /\ BcmConfigure(S, "gpio", TRUE)
  /\ preserved' = preserved \ S
  /\ UNCHANGED <<aon, phase, line, boot, resume, irq, function, saved>>

BcmDisconnect(S, keep) ==
  /\ phase = "started" /\ S \subseteq io /\ io' = io \ S /\ output' = output \ S
  /\ IF keep
       THEN lapsed' = {} /\ preserved' = preserved \union S /\ UNCHANGED <<pin, touched>>
       ELSE RestoreFree(S, io', irq, function) /\ UNCHANGED preserved
  /\ UNCHANGED <<aon, phase, line, boot, resume, irq, function, saved>>

\* The broker's failure leaves the latch as it was.
BcmWritePins(p, value) ==
  /\ phase = "started" /\ p \in output /\ pin' = [pin EXCEPT ![p].out = value] /\ lapsed' = {}
  /\ UNCHANGED <<aon, phase, line, boot, resume, touched, own, saved, preserved>>

BcmConnectFunction(S, mux) ==
  /\ mux # "gpio" /\ CanClaim(S, mux) /\ S \intersect Owned = {}
  /\ function' = function \union S /\ BcmConfigure(S, mux, FALSE) /\ preserved' = preserved \ S
  /\ UNCHANGED <<aon, phase, line, boot, resume, io, output, irq, saved>>

BcmDisconnectFunction(S) ==
  /\ phase = "started" /\ S \subseteq function /\ function' = function \ S
  /\ RestoreFree(S, io, irq, function')
  /\ UNCHANGED <<aon, phase, line, boot, resume, io, output, irq, saved, preserved>>
--------------------------------------------------------------------------------
(* Interrupts, of the main controller. *)

BcmEnableInterrupt(p, trigger) ==
  /\ ~aon /\ CanClaim({p}, "gpio") /\ p \notin function \union output \union irq
  /\ irq' = irq \union {p} /\ mask' = mask \union {p}
  /\ pin' = [pin EXCEPT ![p] = [BcmConfigured(p, "gpio", FALSE) EXCEPT !.trigger = trigger]]
  /\ touched' = touched \union {p} /\ preserved' = preserved \ {p}
  /\ lapsed' = {}
  /\ UNCHANGED <<aon, phase, l2, l2WasMasked, resumeMask, boot, resume, io, output, function,
                 saved>>

BcmDisableInterrupt(p) ==
  /\ ~aon /\ phase = "started" /\ p \in irq /\ irq' = irq \ {p} /\ mask' = mask \ {p}
  /\ RestoreFree({p}, io, irq', function)
  /\ UNCHANGED <<aon, phase, l2, l2WasMasked, resumeMask, boot, resume, io, output, function,
                 saved, preserved>>

BcmMaskInterrupts(S) ==
  /\ ~aon /\ phase # "off" /\ mask' = mask \ S /\ lapsed' = {}
  /\ UNCHANGED <<aon, phase, pin, l2, l2WasMasked, resumeMask, boot, resume, touched, own, saved,
                 preserved>>

BcmUnmaskInterrupt(p) ==
  /\ ~aon /\ phase = "started" /\ p \in irq /\ mask' = mask \union {p} /\ lapsed' = {}
  /\ UNCHANGED <<aon, phase, pin, l2, l2WasMasked, resumeMask, boot, resume, touched, own, saved,
                 preserved>>

BcmReconfigureInterrupt(p, trigger) ==
  /\ ~aon /\ phase = "started" /\ p \in irq
  /\ pin' = [pin EXCEPT ![p].trigger = trigger] /\ lapsed' = {}
  /\ UNCHANGED <<aon, phase, line, boot, resume, touched, own, saved, preserved>>

Some == SUBSET BcmPins \ {{}}

Next ==
  \/ BcmPrepare \/ BcmRelease \/ BcmStart \/ BcmStartFails \/ BcmStopFails
  \/ \E save \in BOOLEAN : BcmStop(save)
  \/ \E S \in Some :
       \/ BcmConnectInput(S) \/ BcmConnectOutput(S) \/ BcmDisconnectFunction(S)
       \/ BcmMaskInterrupts(S)
       \/ \E mux \in Muxes : BcmConnectFunction(S, mux)
       \/ \E keep \in BOOLEAN : BcmDisconnect(S, keep)
  \/ \E p \in BcmPins :
       \/ BcmDisableInterrupt(p) \/ BcmUnmaskInterrupt(p)
       \/ \E value \in BOOLEAN : BcmWritePins(p, value)
       \/ \E t \in {"edge", "level"} : BcmEnableInterrupt(p, t) \/ BcmReconfigureInterrupt(p, t)

Spec == Init /\ [][Next]_vars
--------------------------------------------------------------------------------
\* A pin that differs from its boot state is remembered as touched, also when the
\* broker failed while it was restored, so that the next stop tries again; a pin that
\* nobody has is as the firmware left it unless a client kept it or a broker failed.
\* A stop that succeeded leaves no trace of what was lent, in the level 2 controller
\* neither.
PinsAsFound ==
  /\ \A p \in BcmPins : p \notin touched => pin[p] = boot[p]
  /\ Owned \subseteq touched
  /\ phase = "started" /\ ~aon => touched \ Owned \subseteq preserved
  /\ phase = "prepared" => pin = boot /\ (~aon => mask = {}) /\ (l2WasMasked => l2)

\* A pin has one use, and the pin of a client is configured for it.
OwnersExclude ==
  /\ function \intersect (io \union irq) = {} /\ output \intersect irq = {}
  /\ mask \subseteq irq /\ (aon => irq = {})
  /\ phase = "started" =>
       /\ \A p \in io \union irq : pin[p].mux = "gpio" /\ pin[p].input = (p \notin output)
       /\ \A p \in function : pin[p].mux # "gpio"

\* A pin that is driven before and after a call is driven throughout it: a supply of
\* the board does not fail while it is taken over, given back, saved or restored.
SuppliesHold == lapsed = {}
===============================================================================

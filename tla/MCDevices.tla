------------------------------- MODULE MCDevices -------------------------------
(***************************************************************************)
(* Seven drivers for TLC: the reset gate (Pm), the board's control leases  *)
(* (Board), the fan (Fan), the two pin controllers (Gpio, BcmGpio), the    *)
(* Ethernet miniport (Gem) and the Bluetooth transport (Bluetooth).  They  *)
(* share no state here, so a behaviour is one of one of them: part says of *)
(* which, and the others stay in their initial states.                     *)
(***************************************************************************)
EXTENDS Pm, Board, Integers, TLC

CONSTANTS
  Users, Asks, Temps, MaxLease, Spinup, RpmPeriod, MaxAge,
  Header, Board, Found, BcmPins, Brokered, BcmFound,
  Nbls, Cpus, Ring, Batch,
  Threads, Pnp, Readers, Waiting, Limit

\* The fan's: file objects are not NULL, temperatures are 32-bit, times are unsigned.
ASSUME FanAssumption ==
  /\ NoFile \notin Users /\ Temps \subseteq Int
  /\ MaxLease \in Nat /\ Spinup \in Nat /\ RpmPeriod \in Nat /\ MaxAge \in Nat

\* The transmit ring has descriptors, and a batch is a number of frames.
ASSUME GemAssumption == Ring \in Nat \ {0} /\ Batch \in Nat

\* BthMini has finitely many threads, and both lists of the driver have a limit.
ASSUME BluetoothAssumption == IsFiniteSet(Readers) /\ Waiting \in Nat /\ Limit \in Nat

VARIABLES
  part,
  f_power, f_running, failed, lease, f_owner, requested, spin, previous, rpmIn, stalls,
  sample, news, query, sensor, due, duty, refused,
  g_phase, route, g_pin, inte, g_boot, g_resume, resumeInte, g_touched, g_io, g_output,
  g_irq, g_function, g_saved, g_preserved, floated,
  aon, n_phase, n_pin, mask, l2, l2WasMasked, n_boot, n_resume, resumeMask, n_touched, n_io,
  n_output, n_irq, n_function, n_saved, n_preserved, lapsed,
  life, op, thread, run, speed, powered, fault, e_touched, retain, gone, recovery,
  irqRunning, deferred, suppressed, irqPending, dpc, dpcCpu, looked, received, limit,
  queued, tx, owned, done, rx, isr, imr, mac, txgo, inflight, memory,
  call, step, init, ready, doomed, child, rts, host, chip, build, target, read, pc, prev,
  nested, state, status, t_running, reader, list, queue

Fn == INSTANCE Fan WITH
  power <- f_power, running <- f_running, owner <- f_owner

Gp == INSTANCE Gpio WITH
  phase <- g_phase, pin <- g_pin, boot <- g_boot, resume <- g_resume, touched <- g_touched,
  io <- g_io, output <- g_output, irq <- g_irq, function <- g_function, saved <- g_saved,
  preserved <- g_preserved

Bg == INSTANCE BcmGpio WITH
  phase <- n_phase, pin <- n_pin, boot <- n_boot, resume <- n_resume, touched <- n_touched,
  io <- n_io, output <- n_output, irq <- n_irq, function <- n_function, saved <- n_saved,
  preserved <- n_preserved

Ge == INSTANCE Gem WITH
  touched <- e_touched

Bt == INSTANCE Bluetooth WITH
  running <- t_running

fan   == <<f_power, f_running, failed, lease, f_owner, requested, spin, previous, rpmIn,
           stalls, sample, news, query, sensor, due, duty, refused>>
gpio  == <<g_phase, route, g_pin, inte, g_boot, g_resume, resumeInte, g_touched, g_io,
           g_output, g_irq, g_function, g_saved, g_preserved, floated>>
bcm   == <<aon, n_phase, n_pin, mask, l2, l2WasMasked, n_boot, n_resume, resumeMask,
           n_touched, n_io, n_output, n_irq, n_function, n_saved, n_preserved, lapsed>>
gem   == <<life, op, thread, run, speed, powered, fault, e_touched, retain, gone, recovery,
           irqRunning, deferred, suppressed, irqPending, dpc, dpcCpu, looked, received,
           limit, queued, tx, owned, done, rx, isr, imr, mac, txgo, inflight, memory>>
bt    == <<call, step, init, ready, doomed, child, rts, host, chip, build, target, read,
           pc, prev, nested, state, status, t_running, reader, list, queue>>

\* What the firmware leaves in a pin is a state of the pin.
ASSUME PinsAssumption == Found \subseteq Gp!States /\ BcmFound \subseteq Bg!States

\* What the firmware may leave in the pins of either controller: an output, an input,
\* and a pin that another function uses.
MCFound == {[fn |-> "gpio", drive |-> TRUE, out |-> FALSE, events |-> "none"],
            [fn |-> "none", drive |-> FALSE, out |-> FALSE, events |-> "none"],
            [fn |-> "alt", drive |-> FALSE, out |-> FALSE, events |-> "none"]}

MCBcmFound == {[mux |-> "gpio", input |-> FALSE, out |-> TRUE, trigger |-> "none"],
               [mux |-> "gpio", input |-> TRUE, out |-> FALSE, trigger |-> "none"],
               [mux |-> "f1", input |-> TRUE, out |-> FALSE, trigger |-> "none"]}

\* A part that does not run has one initial state: one of the firmware's choices.
AllInit ==
  /\ part \in {"pm", "board", "fan", "gpio", "bcm", "gem", "bt"}
  /\ Init /\ (part # "pm" => v3d = Zero /\ graf = Zero)
  /\ BoardInit /\ (part # "board" => \A p \in Pins : firmware[p] = FALSE)
  /\ Fn!Init /\ (part # "fan" => duty = 100)
  /\ Gp!Init /\ (part # "gpio" => \A p \in Gp!Pins : g_pin[p].fn = "none")
  /\ Bg!Init 
  /\ (part # "bcm" => aon = FALSE /\ l2 = FALSE /\ \A p \in BcmPins : n_pin[p].mux = "f1")
  /\ Ge!Init /\ (part # "gem" => mac = FALSE) /\ dpcCpu = CHOOSE cpu \in Cpus : TRUE
  /\ Bt!Init

AllNext ==
  \/ part = "pm"    /\ Next      /\ UNCHANGED <<part, boardVars, fan, gpio, bcm, gem, bt>>
  \/ part = "board" /\ BoardNext /\ UNCHANGED <<part, vars, fan, gpio, bcm, gem, bt>>
  \/ part = "fan"   /\ Fn!Next   /\ UNCHANGED <<part, vars, boardVars, gpio, bcm, gem, bt>>
  \/ part = "gpio"  /\ Gp!Next   /\ UNCHANGED <<part, vars, boardVars, fan, bcm, gem, bt>>
  \/ part = "bcm"   /\ Bg!Next   /\ UNCHANGED <<part, vars, boardVars, fan, gpio, gem, bt>>
  \/ part = "gem"   /\ Ge!Next   /\ UNCHANGED <<part, vars, boardVars, fan, gpio, bcm, bt>>
  \/ part = "bt"    /\ Bt!Next   /\ UNCHANGED <<part, vars, boardVars, fan, gpio, bcm, gem>>

\* The senders' lists are alike.
Symmetry == Permutations(Nbls)

AllSpec == AllInit /\ [][AllNext]_<<part, vars, boardVars, fan, gpio, bcm, gem, bt>>

\* Everything the variables of the part that runs may hold (TypeOK of each module).
WellTyped ==
  CASE part = "pm"   -> TypeOK     [] part = "board" -> BoardTypeOK [] part = "fan" -> Fn!TypeOK
    [] part = "gpio" -> Gp!TypeOK  [] part = "bcm"   -> Bg!TypeOK [] part = "gem" -> Ge!TypeOK
    [] part = "bt"   -> Bt!TypeOK

\* The fan is slower than full speed only for a reason that still holds (Fan).
LowDutyIsJustified == part = "fan" => Fn!LowDutyIsJustified

\* The pins of both controllers are as the firmware left them unless somebody has
\* them, and a pin has one use, for which it is configured (Gpio, BcmGpio).
PinsAsFound ==
  /\ part = "gpio" => Gp!PinsAsFound /\ Gp!OwnersExclude
  /\ part = "bcm"  => Bg!PinsAsFound /\ Bg!OwnersExclude

\* No supply of the board that is driven before and after a step lapses in between,
\* whichever controller's pin it is (Gpio, BcmGpio).
SuppliesHold == Gp!SuppliesHold /\ []Bg!SuppliesHold

\* Every list NDIS sends is completed once (Gem); and every part keeps its types.
SendsAreReturned == WellTyped /\ (part = "gem" => Ge!SendsAreReturned)

\* The rings are touched only when neither a DPC nor the MAC uses them (Gem).
MemoryIsQuiet == part = "gem" => Ge!MemoryIsQuiet

\* A frame that waits has a DPC or an interrupt that will come (Gem).
NoFrameForgotten == part = "gem" => Ge!NoFrameForgotten

\* The controller runs its patch, with its address and baud rate, or is not used
\* (Bluetooth).
ControllerIsReady == part = "bt" => Bt!ControllerIsReady

\* No packet and no request of BthMini wait for each other (Bluetooth).
NoneStranded == part = "bt" => Bt!NoneStranded
================================================================================

---------------------------------- MODULE Pm ----------------------------------
(***************************************************************************)
(* The V3D reset gate of the BCM2712 (src/pi5-pm).  One driver owns the    *)
(* power-manager register PM_V3D and leases its reset bit to one kernel    *)
(* consumer (a file object) at a time.  The register is also visible to    *)
(* the firmware, so every transition first compares it with the value the  *)
(* driver last left there; any disagreement, a write that does not stick,  *)
(* a handle that disappears and a device that loses power under a lease    *)
(* latch BootUnsafe, a driver-global flag that nothing clears.             *)
(*                                                                         *)
(* Every handler runs under the device's wait lock, so a handler is one    *)
(* action.  PnP and power callbacks interleave with the handlers.          *)
(***************************************************************************)
EXTENDS Naturals

CONSTANTS
  Files,      \* file objects kernel consumers may have open
  NoFile,     \* c->Owner == NULL
  MaxDrift    \* bound: how often the firmware changes a register by itself

ASSUME PmAssumption == NoFile \notin Files /\ MaxDrift \in Nat

\* The data of a PM register: PM_HW_V3D_ENAB, PM_HW_V3DRSTN (TRUE = the V3D core is
\* out of reset) and the other bits, which are only compared and kept.
Reg == [enab : BOOLEAN, rstn : BOOLEAN, rest : BOOLEAN]

Ops     == {"release", "assert", "pulse"}      \* PI5_PM_TRANSITION.Operation
Results == {"ok", "notReady", "fault", "invalid"}

\* The same register with the reset bit set to b.
WithReset(r, b) == [enab |-> r.enab, rstn |-> b, rest |-> r.rest]

VARIABLES
  v3d,        \* the hardware register at PM_HW_V3D
  graf,       \* the hardware register at PM_HW_GRAFX (never written)
  bootUnsafe, \* static BootUnsafe: survives the device object
  power,      \* where the PnP manager has the device
  mapped,     \* c->Registers != NULL
  online,     \* c->Status.Online
  owner,      \* c->Owner
  pinned,     \* c->Pinned, the argument of the last SetStaticStopRemove
  legacy,     \* c->Hw.LegacyParent
  initial,    \* c->Hw.InitialV3d
  expected,   \* c->Hw.ExpectedV3d
  unsafe,     \* c->Hw.Unsafe
  lastOp,     \* c->Status.LastOperation ("none" for operation 0)
  base,       \* history: PM_V3D as the firmware left it, before any lease
  drifts      \* history: how often the firmware changed a register

hw       == <<legacy, initial, expected, unsafe>>
context  == <<mapped, online, owner, pinned, hw, lastOp>>
hardware == <<v3d, graf>>
vars     == <<hardware, bootUnsafe, power, context, base, drifts>>

TypeOK ==
  /\ v3d \in Reg /\ graf \in Reg /\ base \in Reg
  /\ power \in {"none", "prepared", "d0"}
  /\ bootUnsafe \in BOOLEAN /\ mapped \in BOOLEAN
  /\ online \in BOOLEAN /\ pinned \in BOOLEAN
  /\ owner \in Files \union {NoFile}
  /\ legacy \in Reg /\ initial \in Reg /\ expected \in Reg /\ unsafe \in BOOLEAN
  /\ lastOp \in Ops \union {"none"}
  /\ drifts \in 0..MaxDrift

-------------------------------------------------------------------------------
(* Hardware access: hardware.c.  "taken" says whether a register write is   *)
(* seen by the read-back that follows it.                                   *)

\* The driver's view of the gate is the gate: v is the register, e the value
\* the driver last left in it.
Trusted(v, e) == graf = legacy /\ v = e /\ v.enab

\* PmHwSetV3dReset on register v with ExpectedV3d = e and Unsafe = u.
SetV3dReset(v, e, u, release, taken) ==
  IF u THEN [reg |-> v, exp |-> e, unsafe |-> u, res |-> "invalid"]
  ELSE IF Trusted(v, e) /\ v.rstn = release
  THEN [reg |-> v, exp |-> e, unsafe |-> u, res |-> "ok"]
  ELSE IF Trusted(v, e) /\ taken
  THEN [reg |-> WithReset(v, release), exp |-> WithReset(v, release),
        unsafe |-> u, res |-> "ok"]
  ELSE [reg |-> v, exp |-> e, unsafe |-> TRUE, res |-> "fault"]

\* Pi5PmV3dPulseReset: assert, then release only if the first half succeeded.
Pulse(taken1, taken2) ==
  LET half == SetV3dReset(v3d, expected, unsafe, FALSE, taken1)
  IN  IF half.res # "ok" THEN half
      ELSE SetV3dReset(half.reg, half.exp, half.unsafe, TRUE, taken2)

\* Mutant: the lease ends without putting the gate back.
HwRelease_NoRestore(taken) ==
  [reg |-> v3d, exp |-> expected, unsafe |-> unsafe, res |-> IF unsafe THEN "fault" ELSE "ok"]

\* PmHwRelease: put the reset bit back, then compare the whole register.
HwRelease(taken) ==
  LET back == SetV3dReset(v3d, expected, unsafe, initial.rstn, taken)
  IN  IF back.res = "ok" /\ ~(graf = legacy /\ back.reg = initial)
      THEN [reg |-> back.reg, exp |-> back.exp, unsafe |-> TRUE, res |-> "fault"]
      ELSE back

\* PmFault: latch the boot-wide flag and pin the device.
PmFault(op) ==
  /\ bootUnsafe' = TRUE
  /\ pinned' = TRUE
  /\ lastOp' = op

-------------------------------------------------------------------------------
(* IOCTLs (PmControl).  Every one needs the mapped, online device.          *)

Reachable == power = "d0" /\ mapped /\ online

\* PmAcquire: PmHwAcquire records the gate's state before the lease starts.
Acquire(f) ==
  /\ Reachable /\ ~bootUnsafe /\ owner = NoFile
  /\ ~unsafe /\ v3d.enab /\ v3d # graf
  /\ legacy' = graf /\ initial' = v3d /\ expected' = v3d
  /\ owner' = f
  /\ pinned' = TRUE
  /\ lastOp' = "none"
  /\ UNCHANGED <<hardware, unsafe, bootUnsafe, power, mapped, online, base, drifts>>

\* What one transition request does to the register and to c->Hw.
Outcome(op, taken1, taken2) ==
  IF op = "pulse" THEN Pulse(taken1, taken2)
  ELSE SetV3dReset(v3d, expected, unsafe, op = "release", taken1)

\* PmTransition and PmResult: only a fault latches anything.
Transition(f, op, taken1, taken2) ==
  /\ Reachable /\ ~bootUnsafe /\ owner = f
  /\ op = "pulse" => expected.rstn
  /\ LET o == Outcome(op, taken1, taken2)
     IN  /\ v3d' = o.reg
         /\ expected' = o.exp /\ unsafe' = o.unsafe
         /\ \/ /\ o.res = "ok"
               /\ lastOp' = op
               /\ UNCHANGED <<bootUnsafe, pinned>>
            \/ o.res = "fault" /\ PmFault(op)
  /\ UNCHANGED <<graf, legacy, initial, power, mapped, online, owner, base, drifts>>

\* PmDropLease: the lease ends only if the gate is proved to be back.
DropLease(f, taken) ==
  /\ Reachable /\ ~bootUnsafe /\ owner = f
  /\ LET o == HwRelease(taken)
     IN  /\ v3d' = o.reg
         /\ expected' = o.exp /\ unsafe' = o.unsafe
         /\ \/ /\ o.res = "ok"
               /\ owner' = NoFile
               /\ pinned' = FALSE
               /\ lastOp' = "none"
               /\ UNCHANGED bootUnsafe
            \/ o.res = "fault" /\ PmFault("none") /\ UNCHANGED owner
  /\ UNCHANGED <<graf, legacy, initial, power, mapped, online, base, drifts>>

\* PmFileCleanup: the consumer vanished without releasing; the gate is left alone.
FileCleanup(f) ==
  /\ owner = f
  /\ PmFault("none")
  /\ owner' = NoFile
  /\ UNCHANGED <<hardware, power, mapped, online, hw, base, drifts>>

-------------------------------------------------------------------------------
(* PnP and power callbacks.                                                 *)

\* PmPrepare: maps the registers, refused after an unsafe event of this boot.
Prepare ==
  /\ power = "none" /\ ~bootUnsafe
  /\ power' = "prepared"
  /\ mapped' = TRUE
  /\ UNCHANGED <<hardware, bootUnsafe, online, owner, pinned, hw, lastOp,
                 base, drifts>>

\* PmD0Entry: a failed entry leaves the device to PmReleaseHardware.
D0Entry ==
  /\ power = "prepared"
  /\ online' = (mapped /\ ~bootUnsafe)
  /\ power' = IF bootUnsafe THEN "prepared" ELSE "d0"
  /\ UNCHANGED <<hardware, bootUnsafe, mapped, owner, pinned, hw, lastOp,
                 base, drifts>>

\* A callback that finds a lease on hardware it is about to lose.
FaultIfOwned ==
  \/ owner # NoFile /\ PmFault("none")
  \/ owner = NoFile /\ UNCHANGED <<bootUnsafe, pinned, lastOp>>

\* PmD0Exit: sleep, stop, removal.  PmQueryStop refuses an orderly stop under a
\* lease, but a lease taken after the query, a sleep or a surprise removal gets
\* here all the same.
D0Exit ==
  /\ power = "d0"
  /\ power' = "prepared"
  /\ online' = FALSE
  /\ FaultIfOwned
  /\ UNCHANGED <<hardware, mapped, owner, hw, base, drifts>>

\* PmReleaseHardware.
ReleaseHardware ==
  /\ power = "prepared"
  /\ power' = "none"
  /\ online' = FALSE
  /\ mapped' = FALSE
  /\ FaultIfOwned
  /\ UNCHANGED <<hardware, owner, hw, base, drifts>>

\* The registers of a zeroed PM_HW_STATE.
Zero == [enab |-> FALSE, rstn |-> FALSE, rest |-> FALSE]

\* Mutant: BootUnsafe lives in the device context.
ReAdd_ClearsLatch ==
  /\ power = "none" /\ bootUnsafe' = FALSE
  /\ owner' = NoFile /\ pinned' = FALSE /\ online' = FALSE /\ mapped' = FALSE
  /\ legacy' = Zero /\ initial' = Zero /\ expected' = Zero /\ unsafe' = FALSE
  /\ lastOp' = "none" /\ UNCHANGED <<hardware, power, base, drifts>>

\* PmAdd: the device node comes back with a zeroed context; BootUnsafe is a
\* variable of the driver image and stays.
ReAdd ==
  /\ power = "none"
  /\ owner' = NoFile /\ pinned' = FALSE
  /\ online' = FALSE /\ mapped' = FALSE
  /\ legacy' = Zero /\ initial' = Zero /\ expected' = Zero /\ unsafe' = FALSE
  /\ lastOp' = "none"
  /\ UNCHANGED <<hardware, bootUnsafe, power, base, drifts>>

\* External: the firmware or another agent changes one of the two registers.
FirmwareDrift ==
  /\ drifts < MaxDrift
  /\ drifts' = drifts + 1
  /\ \/ \E r \in Reg : v3d' = r /\ UNCHANGED graf
     \/ \E r \in Reg : graf' = r /\ UNCHANGED v3d
  /\ base' = IF owner = NoFile /\ ~bootUnsafe THEN v3d' ELSE base
  /\ UNCHANGED <<bootUnsafe, power, context>>

-------------------------------------------------------------------------------
Init ==
  /\ v3d \in Reg /\ graf \in Reg
  /\ base = v3d /\ drifts = 0
  /\ bootUnsafe = FALSE /\ power = "none"
  /\ mapped = FALSE /\ online = FALSE
  /\ owner = NoFile /\ pinned = FALSE
  /\ legacy = Zero /\ initial = Zero /\ expected = Zero /\ unsafe = FALSE
  /\ lastOp = "none"

Request(f) ==
  \/ Acquire(f)
  \/ \E op \in Ops, taken1, taken2 \in BOOLEAN : Transition(f, op, taken1, taken2)
  \/ \E taken \in BOOLEAN : DropLease(f, taken)
  \/ FileCleanup(f)

Next ==
  \/ \E f \in Files : Request(f)
  \/ Prepare \/ D0Entry \/ D0Exit \/ ReleaseHardware \/ ReAdd
  \/ FirmwareDrift

Spec == Init /\ [][Next]_vars

-------------------------------------------------------------------------------
(* Properties.                                                              *)

\* A lease that ended cleanly leaves the gate exactly as the firmware had it:
\* whatever resets, pulses and failed writes happened in between, with no owner
\* and no latched fault PM_V3D holds its pre-lease value (PmHwRelease).
GateRestored == owner = NoFile /\ ~bootUnsafe => v3d = base

\* A reset pulse is never left half done on a device that still answers: after
\* a pulse that was not reported as a fault the core is out of reset.
NoHalfPulse == lastOp = "pulse" /\ ~bootUnsafe => expected.rstn

\* A leased gate that loses its registers or its power has latched the fault
\* before anybody can open the device again (PmD0Exit, PmReleaseHardware).
LostLeaseIsLatched == owner # NoFile /\ ~online => bootUnsafe

\* Once unsafe, hands off: after the latch no driver step writes the gate or
\* grants a lease, through re-enumeration of the device too; only the firmware
\* (which drifts) still changes the register.
HandsOffAfterFault ==
  [][bootUnsafe => /\ bootUnsafe'
                   /\ v3d' = v3d \/ drifts' # drifts
                   /\ owner' \in {owner, NoFile}]_vars
===============================================================================

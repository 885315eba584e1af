----------------------------- MODULE DevicesProofs ----------------------------
(***************************************************************************)
(* Proofs about the drivers that module MCDevices runs side by side, each  *)
(* for any values of its constants: the reset gate (Pm), the leases of the *)
(* board's controls (Board), the fan (Fan), the Ethernet miniport (Gem),   *)
(* the pins of both GPIO controllers (Gpio, BcmGpio), and the Bluetooth    *)
(* controller (Bluetooth).                                                 *)
(***************************************************************************)
EXTENDS MCDevices, FiniteSetTheorems, SequenceTheorems, TLAPS

-------------------------------------------------------------------------------
(* The V3D reset gate (Pm).                                                *)
(*                                                                         *)
(* The argument: while nothing is latched, a lease pins an online device,  *)
(* initial is the gate as the firmware left it (base) and expected differs *)
(* from it in the reset bit only; without a lease the register itself is   *)
(* that memory.  A fault makes all of this vacuous, and no step leaves the *)
(* latched state.                                                          *)

\* What a live, unlatched lease knows about the device and the gate.
GateLeaseInv ==
  owner # NoFile /\ ~bootUnsafe =>
    pinned /\ online /\ power = "d0" /\ initial = base

\* What holds between leases.
GateFreeInv == owner = NoFile /\ ~bootUnsafe => ~pinned /\ v3d = base

GateInv == TypeOK /\ GateLeaseInv /\ GateFreeInv /\ NoHalfPulse

\* The bits of a register determine it.
LEMMA RegEq ==
  ASSUME NEW r \in Reg, NEW b \in BOOLEAN
  PROVE  WithReset(r, b) \in Reg /\ WithReset(r, b).rstn = b
BY DEF Reg, WithReset

\* What an access to the gate returns.
Outcomes == [reg : Reg, exp : Reg, unsafe : BOOLEAN, res : Results]

\* PmHwSetV3dReset: types, and what success says.
LEMMA SetV3dResetFacts ==
  ASSUME NEW v \in Reg, NEW e \in Reg, NEW u \in BOOLEAN,
         NEW release \in BOOLEAN, NEW taken \in BOOLEAN
  PROVE  /\ SetV3dReset(v, e, u, release, taken) \in Outcomes
         /\ SetV3dReset(v, e, u, release, taken).res = "ok" =>
              SetV3dReset(v, e, u, release, taken).exp.rstn = release
BY RegEq DEF SetV3dReset, Trusted, Results, Outcomes

\* A transition request: types, and a pulse that succeeds did both halves.
LEMMA OutcomeFacts ==
  ASSUME NEW tr \in Ops, NEW taken1 \in BOOLEAN, NEW taken2 \in BOOLEAN, TypeOK
  PROVE  /\ Outcome(tr, taken1, taken2) \in Outcomes
         /\ Outcome(tr, taken1, taken2).res = "ok" /\ tr = "pulse" =>
              Outcome(tr, taken1, taken2).exp.rstn = TRUE
<1> USE DEF TypeOK
<1>1. CASE tr # "pulse"
  BY <1>1, SetV3dResetFacts DEF Outcome
<1>2. CASE tr = "pulse"
  <2> DEFINE half == SetV3dReset(v3d, expected, unsafe, FALSE, taken1)
             full == SetV3dReset(half.reg, half.exp, half.unsafe, TRUE, taken2)
  <2>1. Outcome(tr, taken1, taken2) = IF half.res # "ok" THEN half ELSE full
    BY <1>2 DEF Outcome, Pulse
  <2>2. half \in Outcomes
    BY SetV3dResetFacts
  <2>3. full \in Outcomes /\ (full.res = "ok" => full.exp.rstn = TRUE)
    <3> HIDE DEF half
    <3> QED BY <2>2, RegEq DEF Outcomes, SetV3dReset, Trusted, Results
  <2> HIDE DEF half, full
  <2> QED BY <2>1, <2>2, <2>3
<1> QED BY <1>1, <1>2

\* PmHwRelease: success proves that the register is back at its initial value.
LEMMA HwReleaseFacts ==
  ASSUME NEW taken \in BOOLEAN, TypeOK
  PROVE  /\ HwRelease(taken) \in Outcomes
         /\ HwRelease(taken).res = "ok" => HwRelease(taken).reg = initial
<1> USE DEF TypeOK
<1> DEFINE back == SetV3dReset(v3d, expected, unsafe, initial.rstn, taken)
<1>1. initial.rstn \in BOOLEAN
  BY DEF Reg
<1>2. back \in Outcomes
  BY <1>1, SetV3dResetFacts
<1>3. HwRelease(taken) =
        IF back.res = "ok" /\ ~(graf = legacy /\ back.reg = initial)
        THEN [reg |-> back.reg, exp |-> back.exp, unsafe |-> TRUE, res |-> "fault"]
        ELSE back
  BY DEF HwRelease
<1> HIDE DEF back
<1> QED BY <1>2, <1>3 DEF Outcomes, Results

\* The state after any step is well typed.
LEMMA GateTypeStep == TypeOK /\ [Next]_vars => TypeOK'
<1> SUFFICES ASSUME TypeOK, [Next]_vars PROVE TypeOK'
  OBVIOUS
<1> USE DEF TypeOK, hardware, hw
<1>1. ASSUME NEW f \in Files, Acquire(f) PROVE TypeOK'
  BY <1>1 DEF Acquire
<1>2. ASSUME NEW f \in Files, NEW tr \in Ops,
             NEW taken1 \in BOOLEAN, NEW taken2 \in BOOLEAN,
             Transition(f, tr, taken1, taken2)
      PROVE  TypeOK'
  BY <1>2, OutcomeFacts DEF Transition, PmFault, Outcomes
<1>3. ASSUME NEW f \in Files, NEW taken \in BOOLEAN, DropLease(f, taken)
      PROVE  TypeOK'
  BY <1>3, HwReleaseFacts DEF DropLease, PmFault, Outcomes
<1>4. ASSUME NEW f \in Files, FileCleanup(f) PROVE TypeOK'
  BY <1>4 DEF FileCleanup, PmFault
<1>5. CASE Prepare
  BY <1>5 DEF Prepare
<1>6. CASE D0Entry
  BY <1>6 DEF D0Entry
<1>7. CASE D0Exit
  BY <1>7 DEF D0Exit, FaultIfOwned, PmFault
<1>8. CASE ReleaseHardware
  BY <1>8 DEF ReleaseHardware, FaultIfOwned, PmFault
<1>9. CASE ReAdd
  BY <1>9 DEF ReAdd, Zero, Reg
<1>10. CASE FirmwareDrift
  BY <1>10, PmAssumption DEF FirmwareDrift, context
<1>11. CASE UNCHANGED vars
  BY <1>11 DEF vars, context
<1> QED
  BY <1>1, <1>2, <1>3, <1>4, <1>5, <1>6, <1>7, <1>8, <1>9, <1>10, <1>11
     DEF Next, Request

\* The initial states are well typed.
LEMMA GateInitType == Init => TypeOK
<1> SUFFICES ASSUME Init PROVE TypeOK
  OBVIOUS
<1>1. Zero \in Reg
  BY DEF Zero, Reg
<1>2. drifts \in 0..MaxDrift
  BY PmAssumption DEF Init
<1> QED BY <1>1, <1>2 DEF Init, TypeOK

\* Every reachable state is well typed.
THEOREM GateTypeCorrect == Spec => []TypeOK
<1>1. Init => TypeOK
  BY GateInitType
<1> QED BY <1>1, GateTypeStep, PTL DEF Spec

\* The invariant is inductive: one step per handler and callback.
LEMMA GateInductive ==
  ASSUME GateInv, [Next]_vars
  PROVE  GateLeaseInv' /\ GateFreeInv' /\ NoHalfPulse'
<1> USE PmAssumption DEF GateInv, GateLeaseInv, GateFreeInv, NoHalfPulse, hardware, hw
<1>0. TypeOK
  OBVIOUS
<1>1. ASSUME NEW f \in Files, Acquire(f)
      PROVE  GateLeaseInv' /\ GateFreeInv' /\ NoHalfPulse'
  BY <1>1 DEF Acquire, Reachable
<1>2. ASSUME NEW f \in Files, NEW tr \in Ops,
             NEW taken1 \in BOOLEAN, NEW taken2 \in BOOLEAN,
             Transition(f, tr, taken1, taken2)
      PROVE  GateLeaseInv' /\ GateFreeInv' /\ NoHalfPulse'
  <2> DEFINE o == Outcome(tr, taken1, taken2)
  <2>1. /\ ~bootUnsafe /\ owner = f /\ owner' = owner
        /\ UNCHANGED <<power, online, initial, base>>
        /\ expected' = o.exp
        /\ \/ o.res = "ok" /\ lastOp' = tr /\ UNCHANGED <<bootUnsafe, pinned>>
           \/ bootUnsafe' = TRUE
    BY <1>2 DEF Transition, PmFault
  <2>2. o.res = "ok" /\ tr = "pulse" => o.exp.rstn = TRUE
    BY OutcomeFacts, <1>0
  <2> HIDE DEF o
  <2> QED BY <2>1, <2>2
<1>3. ASSUME NEW f \in Files, NEW taken \in BOOLEAN, DropLease(f, taken)
      PROVE  GateLeaseInv' /\ GateFreeInv' /\ NoHalfPulse'
  <2> DEFINE o == HwRelease(taken)
  <2>1. /\ ~bootUnsafe /\ owner = f /\ UNCHANGED <<initial, base>>
        /\ v3d' = o.reg
        /\ \/ /\ o.res = "ok" /\ owner' = NoFile /\ pinned' = FALSE
              /\ lastOp' = "none"
           \/ bootUnsafe' = TRUE
    BY <1>3 DEF DropLease, PmFault
  <2>2. o.res = "ok" => o.reg = initial
    BY HwReleaseFacts, <1>0
  <2> HIDE DEF o
  <2> QED BY <2>1, <2>2
<1>4. ASSUME NEW f \in Files, FileCleanup(f)
      PROVE  GateLeaseInv' /\ GateFreeInv' /\ NoHalfPulse'
  BY <1>4 DEF FileCleanup, PmFault
<1>5. CASE Prepare
  BY <1>5 DEF Prepare
<1>6. CASE D0Entry
  BY <1>6 DEF D0Entry
<1>7. CASE D0Exit
  BY <1>7 DEF D0Exit, FaultIfOwned, PmFault
<1>8. CASE ReleaseHardware
  BY <1>8 DEF ReleaseHardware, FaultIfOwned, PmFault
<1>9. CASE ReAdd
  BY <1>9 DEF ReAdd, Zero
<1>10. CASE FirmwareDrift
  BY <1>10 DEF FirmwareDrift, context
<1>11. CASE UNCHANGED vars
  BY <1>11 DEF vars, context
<1>12. Next => \/ \E f \in Files : Acquire(f) \/ FileCleanup(f)
               \/ \E f \in Files, tr \in Ops, taken1, taken2 \in BOOLEAN :
                    Transition(f, tr, taken1, taken2)
               \/ \E f \in Files, taken \in BOOLEAN : DropLease(f, taken)
               \/ Prepare \/ D0Entry \/ D0Exit \/ ReleaseHardware \/ ReAdd
               \/ FirmwareDrift
  BY DEF Next, Request
<1> HIDE DEF GateLeaseInv, GateFreeInv, NoHalfPulse, GateInv
<1> QED
  BY <1>1, <1>2, <1>3, <1>4, <1>5, <1>6, <1>7, <1>8, <1>9, <1>10, <1>11, <1>12

\* The inductive invariant holds in every reachable state.
THEOREM GateInvariance == Spec => []GateInv
<1>1. Init => GateInv
  BY GateInitType DEF Init, GateInv, GateLeaseInv, GateFreeInv, NoHalfPulse
<1>2. GateInv /\ [Next]_vars => GateInv'
  BY GateInductive, GateTypeStep DEF GateInv
<1> QED BY <1>1, <1>2, PTL DEF Spec

\* A lease that ended cleanly leaves the gate as the firmware had it
\* (PmDropLease, PmHwRelease).
THEOREM GateRestoredHolds == Spec => []GateRestored
<1>1. GateInv => GateRestored
  BY DEF GateInv, GateFreeInv, GateRestored
<1> QED BY <1>1, GateInvariance, PTL

\* A reset pulse is never left half done on a device that still answers.
THEOREM NoHalfPulseHolds == Spec => []NoHalfPulse
<1>1. GateInv => NoHalfPulse
  BY DEF GateInv
<1> QED BY <1>1, GateInvariance, PTL

\* A lease whose device lost power or registers has latched the fault.
THEOREM LostLeaseIsLatchedHolds == Spec => []LostLeaseIsLatched
<1>1. GateInv => LostLeaseIsLatched
  BY DEF GateInv, GateLeaseInv, LostLeaseIsLatched
<1> QED BY <1>1, GateInvariance, PTL

\* After the latch no driver step writes the gate or grants a lease.
THEOREM HandsOffAfterFaultHolds == Spec => HandsOffAfterFault
<1> DEFINE HandsOff == bootUnsafe => /\ bootUnsafe'
                                     /\ v3d' = v3d \/ drifts' # drifts
                                     /\ owner' \in {owner, NoFile}
<1>1. TypeOK /\ [Next]_vars => [HandsOff]_vars
  <2> SUFFICES ASSUME TypeOK, [Next]_vars, bootUnsafe PROVE HandsOff
    OBVIOUS
  <2> USE DEF hardware, hw
  <2>1. ASSUME NEW f \in Files, Request(f) PROVE HandsOff
    BY <2>1 DEF Request, Acquire, Transition, DropLease, FileCleanup, PmFault
  <2>2. CASE Prepare \/ D0Entry
    BY <2>2 DEF Prepare, D0Entry
  <2>3. CASE D0Exit \/ ReleaseHardware
    BY <2>3 DEF D0Exit, ReleaseHardware, FaultIfOwned, PmFault
  <2>4. CASE ReAdd
    BY <2>4 DEF ReAdd
  <2>5. CASE FirmwareDrift
    BY <2>5 DEF FirmwareDrift, context, TypeOK
  <2>6. CASE UNCHANGED vars
    BY <2>6 DEF vars, context
  <2> QED BY <2>1, <2>2, <2>3, <2>4, <2>5, <2>6 DEF Next
<1> QED BY <1>1, GateTypeCorrect, PTL DEF Spec, HandsOffAfterFault
-------------------------------------------------------------------------------
(* The leases of the board's controls (Board), over any number of starts,  *)
(* stops and failed writes.                                                *)

\* The leases: the driver's are the files', each pin is one file's, a user's are LEDs.
ControlsInv ==
  /\ held \in [Holders -> SUBSET Pins] /\ leased \subseteq Pins
  /\ \A p \in Pins : p \in leased <=> \E f \in Holders : p \in held[f]
  /\ \A f, g \in Holders : \A p \in Pins : p \in held[f] /\ p \in held[g] => f = g
  /\ \A f \in UserFiles : held[f] \subseteq Leds
  /\ \A p \in leased : p \notin AlwaysOn

\* The pins: those that are open are the supplies and the leased ones, while online.
PinInv ==
  /\ boardPower = "on" <=> boardOnline
  /\ opened \subseteq Pins
  /\ \A p \in Pins : p \in opened <=> boardOnline /\ p \in Wanted
  /\ configured = opened

\* The levels: of a closed pin the firmware's, of an open one what was written last.
LevelInv ==
  /\ levels \in [Pins -> BOOLEAN] /\ firmware \in [Pins -> BOOLEAN]
  /\ wire \in [Pins -> BOOLEAN] /\ asked \in [Pins -> BOOLEAN]
  /\ \A p \in leased : levels[p] = asked[p]
  /\ \A p \in Pins : p \notin opened => wire[p] = firmware[p]
  /\ \A p \in opened : p \in AlwaysOn => wire[p] = TRUE
  /\ \A p \in opened \ doubt : p \in leased => wire[p] = asked[p]

BoardInv == ControlsInv /\ PinInv /\ LevelInv

LEMMA BoardInitInv == BoardInit => BoardInv
  <1> SUFFICES ASSUME BoardInit PROVE BoardInv
    OBVIOUS
  <1> USE DEF BoardInit
  <1>1. ControlsInv
    BY DEF ControlsInv, Holders
  <1>2. PinInv
    BY DEF PinInv
  <1>3. LevelInv
    BY DEF LevelInv
  <1> QED BY <1>1, <1>2, <1>3 DEF BoardInv

-------------------------------------------------------------------------------
(* The leases: Set takes one, Release and the end of a file give them back.  *)

LEMMA LeaseKept == ASSUME ControlsInv, UNCHANGED <<leased, held>> PROVE ControlsInv'
  BY DEF ControlsInv

LEMMA LeaseTaken ==
  ASSUME ControlsInv, NEW f \in Holders, NEW p \in Pins, MayLease(f, p),
         held' = [held EXCEPT ![f] = @ \union {p}], leased' = leased \union {p}
  PROVE  ControlsInv'
  <1> USE DEF ControlsInv, MayLease
  <1>1. held' \in [Holders -> SUBSET Pins] /\ leased' \subseteq Pins
    OBVIOUS
  <1>2. \A g \in Holders : held'[g] = IF g = f THEN held[g] \union {p} ELSE held[g]
    OBVIOUS
  <1>3. \A q \in Pins : q \in leased' <=> \E g \in Holders : q \in held'[g]
    BY <1>2
  <1>4. \A g \in Holders : p \in held[g] => g = f
    OBVIOUS
  <1>5. \A g, h \in Holders : \A q \in Pins : q \in held'[g] /\ q \in held'[h] => g = h
    BY <1>2, <1>4
  <1>6. \A g \in UserFiles : held'[g] \subseteq Leds
    BY <1>2, BoardAssumption DEF Holders
  <1>7. \A q \in leased' : q \notin AlwaysOn
    OBVIOUS
  <1> QED BY <1>1, <1>3, <1>5, <1>6, <1>7

\* A file gives S back, and has all of S or none of it is leased.
LEMMA LeaseGiven ==
  ASSUME ControlsInv, NEW f \in Holders, NEW S \in SUBSET Pins,
         \A p \in S : p \in leased => p \in held[f],
         held' = [held EXCEPT ![f] = @ \ S], leased' = leased \ S
  PROVE  ControlsInv'
  <1> USE DEF ControlsInv
  <1>1. held' \in [Holders -> SUBSET Pins] /\ leased' \subseteq Pins
    OBVIOUS
  <1>2. \A g \in Holders : held'[g] = IF g = f THEN held[g] \ S ELSE held[g]
    OBVIOUS
  <1>3. \A q \in Pins : q \in leased' <=> \E g \in Holders : q \in held'[g]
    BY <1>2
  <1>5. \A g, h \in Holders : \A q \in Pins : q \in held'[g] /\ q \in held'[h] => g = h
    BY <1>2
  <1>6. \A g \in UserFiles : held'[g] \subseteq Leds
    BY <1>2 DEF Holders
  <1>7. \A q \in leased' : q \notin AlwaysOn
    OBVIOUS
  <1> QED BY <1>1, <1>3, <1>5, <1>6, <1>7

-------------------------------------------------------------------------------
(* The pins and their levels.                                                *)

\* ClosePin of pins that are no supplies and are not leased any more, or of all.
LEMMA PinsClosed ==
  ASSUME BoardInv, NEW S \in SUBSET Pins, Close(S), UNCHANGED <<firmware, asked>>,
         levels' \in [Pins -> BOOLEAN], \A p \in leased' : levels'[p] = asked[p],
         leased' \subseteq leased, boardPower' = "on" <=> boardOnline',
         \A p \in Pins \ S : p \in opened => (boardOnline' /\ p \in AlwaysOn \union leased'),
         \A p \in Pins : boardOnline' /\ p \in AlwaysOn \union leased' => p \in opened \ S
  PROVE  PinInv' /\ LevelInv'
  <1> USE DEF BoardInv, PinInv, LevelInv, ControlsInv
  <1>1. opened' = opened \ S /\ configured' = opened' /\ doubt' = doubt \ S
    BY DEF Close
  <1>2. wire' = [p \in Pins |-> IF p \in S THEN firmware[p] ELSE wire[p]]
    BY DEF Close, With
  <1>3. PinInv'
    BY <1>1 DEF Wanted
  <1>4. /\ levels' \in [Pins -> BOOLEAN] /\ firmware' \in [Pins -> BOOLEAN]
        /\ wire' \in [Pins -> BOOLEAN] /\ asked' \in [Pins -> BOOLEAN]
    BY <1>2
  <1>5. \A p \in Pins : wire'[p] = IF p \in S THEN firmware[p] ELSE wire[p]
    BY <1>2
  <1>6. \A p \in leased' : levels'[p] = asked'[p]
    OBVIOUS
  <1>7. \A p \in Pins : p \notin opened' => wire'[p] = firmware'[p]
    BY <1>1, <1>5
  <1>8. \A p \in opened' : p \in AlwaysOn => wire'[p] = TRUE
    BY <1>1, <1>5
  <1>9. \A p \in opened' \ doubt' : p \in leased' => wire'[p] = asked'[p]
    BY <1>1, <1>5
  <1> QED BY <1>3, <1>4, <1>6, <1>7, <1>8, <1>9

\* D0Entry: every supply and every leased pin is set; the level of a leased pin is the
\* one its owner asked for last, from before the sleep.
LEMMA Started == ASSUME BoardInv, BoardStart PROVE BoardInv'
  <1> DEFINE pins == AlwaysOn \union leased
  <1>1. /\ opened' = opened \union pins /\ configured' = configured \union pins
        /\ doubt' = doubt \ pins /\ boardPower' = "on" /\ boardOnline' = TRUE
        /\ UNCHANGED <<leased, held, firmware, asked>>
    BY DEF BoardStart, Wanted
  <1>2. levels' = [p \in Pins |-> IF p \in pins THEN p \in AlwaysOn \/ levels[p]
                                               ELSE levels[p]]
    BY DEF BoardStart, Wanted, Level
  <1>3. wire' = [p \in Pins |-> IF p \in pins THEN levels'[p] ELSE wire[p]]
    BY DEF BoardStart, Wanted, With
  <1>4. pins \in SUBSET Pins /\ AlwaysOn \in SUBSET pins /\ leased \in SUBSET pins
    BY DEF BoardInv, ControlsInv, Pins
  <1>5. opened = {} /\ configured = {}
    BY DEF BoardStart, BoardInv, PinInv
  <1>6. /\ levels \in [Pins -> BOOLEAN] /\ wire \in [Pins -> BOOLEAN]
        /\ firmware' \in [Pins -> BOOLEAN] /\ asked' \in [Pins -> BOOLEAN]
        /\ \A p \in leased : levels[p] = asked[p] /\ p \notin AlwaysOn
    BY <1>1 DEF BoardInv, LevelInv, ControlsInv
  <1>7. \A p \in Pins : wire[p] = firmware[p]
    BY <1>5 DEF BoardInv, LevelInv
  <1>8. Wanted' = pins
    BY <1>1 DEF Wanted
  <1>9. ControlsInv'
    BY <1>1, LeaseKept DEF BoardInv
  <1> HIDE DEF pins
  <1>10. PinInv'
    BY <1>1, <1>4, <1>5, <1>8 DEF PinInv
  <1>11. levels' \in [Pins -> BOOLEAN]
    BY <1>2, <1>6
  <1>12. wire' \in [Pins -> BOOLEAN]
    BY <1>3, <1>6, <1>11
  <1>13. opened' = pins
    BY <1>1, <1>5
  <1>14. \A p \in leased : levels'[p] = asked[p]
    BY <1>2, <1>4, <1>6
  <1>15. \A p \in pins : wire'[p] = levels'[p]
    BY <1>3, <1>4
  <1>16. \A p \in Pins : p \notin opened' => wire'[p] = firmware'[p]
    BY <1>1, <1>3, <1>7, <1>13
  <1>17. \A p \in AlwaysOn : levels'[p] = TRUE
    BY <1>2, <1>4
  <1>18. \A p \in opened' : p \in AlwaysOn => wire'[p] = TRUE
    BY <1>4, <1>15, <1>17
  <1>19. \A p \in opened' \ doubt' : p \in leased' => wire'[p] = asked'[p]
    BY <1>1, <1>4, <1>14, <1>15
  <1>20. \A p \in leased' : levels'[p] = asked'[p]
    BY <1>1, <1>14
  <1>21. LevelInv'
    BY <1>6, <1>11, <1>12, <1>16, <1>18, <1>19, <1>20 DEF LevelInv
  <1> QED BY <1>9, <1>10, <1>21 DEF BoardInv

\* A start that fails, and D0Exit, close everything.
LEMMA Stopped == ASSUME BoardInv, BoardStartFails \/ BoardStop PROVE BoardInv'
  <1>1. UNCHANGED <<leased, held, firmware, asked>> /\ Close(Pins)
    BY DEF BoardStartFails, BoardStop, CloseAll
  <1>2. ControlsInv'
    BY <1>1, LeaseKept DEF BoardInv
  <1>3. ~boardOnline' /\ boardPower' # "on"
    BY DEF BoardStartFails, BoardStop, BoardInv, PinInv
  <1>4. levels' \in [Pins -> BOOLEAN] /\ \A p \in leased : levels'[p] = asked[p]
    <2> USE DEF BoardInv, ControlsInv, LevelInv
    <2>1. CASE BoardStop
      BY <2>1 DEF BoardStop
    <2>2. CASE BoardStartFails
      <3>1. PICK released \in SUBSET Pins :
              levels' = [q \in Pins |-> IF q \in released THEN Level(q) ELSE levels[q]]
        BY <2>2 DEF BoardStartFails, Wanted, Pins
      <3> QED BY <3>1 DEF Level
    <2> QED BY <2>1, <2>2
  <1>5. PinInv' /\ LevelInv'
    BY <1>1, <1>3, <1>4, PinsClosed DEF BoardInv, PinInv
  <1> QED BY <1>2, <1>5 DEF BoardInv

\* The end of a file, and IOCTL_PI5_BOARD_RELEASE.
LEMMA Cleaned == ASSUME BoardInv, NEW f \in Holders, BoardCleanup(f) PROVE BoardInv'
  <1> USE DEF BoardCleanup, BoardInv
  <1>1. held[f] \in SUBSET Pins /\ \A p \in held[f] : p \in leased /\ p \notin AlwaysOn
    BY DEF ControlsInv
  <1>2. held' = [held EXCEPT ![f] = @ \ held[f]] /\ leased' = leased \ held[f]
    BY DEF ControlsInv
  <1>3. ControlsInv'
    BY <1>1, <1>2, LeaseGiven
  <1>4. PinInv' /\ LevelInv'
    BY <1>1, <1>2, PinsClosed DEF PinInv, LevelInv, Wanted
  <1> QED BY <1>3, <1>4

LEMMA Released ==
  ASSUME BoardInv, NEW f \in Holders, NEW p \in Pins, BoardRelease(f, p) PROVE BoardInv'
  <1> USE DEF BoardRelease, MayLease, BoardInv
  <1>1. held' = [held EXCEPT ![f] = @ \ {p}] /\ leased' = leased \ {p}
    OBVIOUS
  <1>2. ControlsInv'
    <2>1. /\ {p} \in SUBSET Pins /\ ControlsInv
          /\ \A q \in {p} : q \in leased => q \in held[f]
      OBVIOUS
    <2> HIDE DEF BoardRelease, MayLease, BoardInv
    <2> QED BY <1>1, <2>1, LeaseGiven
  <1>3. CASE p \in held[f]
    <2>1. p \in leased /\ p \notin AlwaysOn
      BY <1>3 DEF ControlsInv
    <2>2. PinInv' /\ LevelInv'
      BY <1>1, <1>3, <2>1, PinsClosed DEF PinInv, LevelInv, Wanted
    <2> QED BY <1>2, <2>2
  <1>4. CASE p \notin held[f]
    <2>1. leased' = leased
      BY <1>4, <1>1
    <2>2. PinInv' /\ LevelInv'
      BY <1>4, <2>1 DEF PinInv, LevelInv, Wanted
    <2> QED BY <1>2, <2>2
  <1> QED BY <1>3, <1>4

\* IOCTL_PI5_BOARD_SET, and a write that fails, with or without effect.
LEMMA Written ==
  ASSUME BoardInv, NEW f \in Holders, NEW p \in Pins, NEW asserted \in BOOLEAN,
         BoardSet(f, p, asserted)
  PROVE  BoardInv'
  <1> DEFINE value == (p \in Leds) # asserted
  <1>1. /\ boardOnline /\ MayLease(f, p) /\ UNCHANGED <<boardPower, boardOnline, firmware>>
        /\ held' = [held EXCEPT ![f] = @ \union {p}] /\ leased' = leased \union {p}
        /\ asked' = [asked EXCEPT ![p] = value]
        /\ opened' = opened \union {p} /\ configured' = configured \union {p}
        /\ levels' = [levels EXCEPT ![p] = value] /\ wire' = [wire EXCEPT ![p] = value]
        /\ doubt' = doubt \ {p}
    BY DEF BoardSet, SetPin
  <1>2. value \in BOOLEAN
    OBVIOUS
  <1> HIDE DEF value
  <1>3. ControlsInv'
    BY <1>1, LeaseTaken DEF BoardInv
  <1>4. PinInv'
    BY <1>1 DEF BoardInv, PinInv, Wanted
  <1>5. p \notin AlwaysOn
    BY <1>1 DEF MayLease
  <1>6. LevelInv'
    <2> USE DEF BoardInv, LevelInv
    <2>1. /\ levels' \in [Pins -> BOOLEAN] /\ firmware' \in [Pins -> BOOLEAN]
          /\ wire' \in [Pins -> BOOLEAN] /\ asked' \in [Pins -> BOOLEAN]
      BY <1>1, <1>2
    <2>2. levels'[p] = value /\ wire'[p] = value /\ asked'[p] = value
      BY <1>1
    <2>3. \A q \in Pins \ {p} : levels'[q] = levels[q] /\ wire'[q] = wire[q] /\ asked'[q] = asked[q]
      BY <1>1
    <2>4. leased \subseteq Pins /\ opened \subseteq Pins
      BY DEF ControlsInv, PinInv
    <2>5. \A q \in leased' : levels'[q] = asked'[q]
      BY <1>1, <2>2, <2>3, <2>4
    <2>6. \A q \in Pins : q \notin opened' => wire'[q] = firmware'[q]
      BY <1>1, <2>3
    <2>7. \A q \in opened' : q \in AlwaysOn => wire'[q] = TRUE
      BY <1>1, <1>5, <2>3, <2>4
    <2>8. \A q \in opened' \ doubt' : q \in leased' => wire'[q] = asked'[q]
      BY <1>1, <2>2, <2>3, <2>4
    <2> QED BY <2>1, <2>5, <2>6, <2>7, <2>8
  <1> QED BY <1>3, <1>4, <1>6 DEF BoardInv

LEMMA WriteFailed ==
  ASSUME BoardInv, NEW f \in Holders, NEW p \in Pins, NEW asserted \in BOOLEAN,
         BoardSetFails(f, p, asserted)
  PROVE  BoardInv'
  <1> DEFINE value == (p \in Leds) # asserted
  <1>1. /\ boardOnline /\ MayLease(f, p) /\ SetPinFails(p, value)
        /\ UNCHANGED <<boardPower, boardOnline, leased, held, firmware, asked, levels>>
    BY DEF BoardSetFails, SetPinFails
  <1>2. value \in BOOLEAN
    OBVIOUS
  <1> HIDE DEF value
  <1>3. ControlsInv'
    BY <1>1, LeaseKept DEF BoardInv
  <1>4. CASE p \notin opened
    <2>1. Close({p})
      BY <1>1, <1>4 DEF SetPinFails
    <2>2. PinInv' /\ LevelInv'
      BY <1>1, <1>4, <2>1, PinsClosed DEF BoardInv, PinInv, LevelInv, Wanted
    <2> QED BY <1>3, <2>2 DEF BoardInv
  <1>5. CASE p \in opened
    <2>1. UNCHANGED <<opened, configured>>
      BY <1>1, <1>5 DEF SetPinFails
    <2>2. PinInv'
      BY <1>1, <2>1 DEF BoardInv, PinInv, Wanted
    <2>3. \/ UNCHANGED <<wire, doubt>>
          \/ wire' = [wire EXCEPT ![p] = value] /\ doubt' = doubt \union {p}
      BY <1>1, <1>5 DEF SetPinFails
    <2>4. LevelInv'
      BY <1>1, <1>2, <1>5, <2>1, <2>3 DEF BoardInv, LevelInv, PinInv, ControlsInv, MayLease
    <2> QED BY <1>3, <2>2, <2>4 DEF BoardInv
  <1> QED BY <1>4, <1>5

LEMMA BoardStep == BoardInv /\ [BoardNext]_boardVars => BoardInv'
  <1> SUFFICES ASSUME BoardInv, [BoardNext]_boardVars PROVE BoardInv'
    OBVIOUS
  <1>1. CASE BoardStart
    BY <1>1, Started
  <1>2. CASE BoardStartFails \/ BoardStop
    BY <1>2, Stopped
  <1>3. ASSUME NEW f \in Holders, BoardCleanup(f) PROVE BoardInv'
    BY <1>3, Cleaned
  <1>4. ASSUME NEW f \in Holders, NEW p \in Pins, BoardRelease(f, p) PROVE BoardInv'
    BY <1>4, Released
  <1>5. ASSUME NEW f \in Holders, NEW p \in Pins, NEW asserted \in BOOLEAN,
               BoardSet(f, p, asserted) \/ BoardSetFails(f, p, asserted)
        PROVE  BoardInv'
    BY <1>5, Written, WriteFailed
  <1>6. CASE UNCHANGED boardVars
    BY <1>6 DEF boardVars, BoardInv, ControlsInv, PinInv, LevelInv, Wanted
  <1> QED
    BY <1>1, <1>2, <1>3, <1>4, <1>5, <1>6 DEF BoardNext

\* If no file is both a driver's and an administrator's: the leases of the driver are those
\* of its files, each pin is one file's, and every pin is at the level it should have
\* (BoardStart, BoardSet, BoardRelease, BoardCleanup).
THEOREM LeasesHoldHolds == BoardSpec => []LeasesHold
  <1>1. BoardInv => LeasesHold
    <2> SUFFICES ASSUME BoardInv PROVE LeasesHold
      OBVIOUS
    <2> USE DEF BoardInv, ControlsInv, PinInv, LevelInv
    <2>1. leased = UNION {held[f] : f \in Holders}
      OBVIOUS
    <2>2. \A f, g \in Holders : f # g => held[f] \intersect held[g] = {}
      OBVIOUS
    <2>3. \A f \in UserFiles : held[f] \subseteq Leds
      OBVIOUS
    <2>4. ASSUME boardOnline
          PROVE  /\ configured = AlwaysOn \union leased
                 /\ \A p \in AlwaysOn : wire[p]
                 /\ \A p \in leased \ doubt : wire[p] = asked[p]
      BY <2>4 DEF Wanted, Pins
    <2>5. \A p \in Pins \ opened : wire[p] = firmware[p]
      OBVIOUS
    <2>6. ~boardOnline => opened = {}
      OBVIOUS
    <2> QED BY <2>1, <2>2, <2>3, <2>4, <2>5, <2>6 DEF LeasesHold
  <1>2. BoardInv /\ [BoardNext]_boardVars => BoardInv'
    BY BoardStep
  <1> QED
    BY <1>1, <1>2, BoardInitInv, PTL DEF BoardSpec

-------------------------------------------------------------------------------
(* The fan (Fan).                                                          *)
(*                                                                         *)
(* What makes a low duty right is decided in one place, fan_policy_target, *)
(* from the sample, the spin-up, the stalls and the lease; every other     *)
(* step either asks for full speed, announces a new sample, or lets a      *)
(* period pass, which the watchdog then has to notice.                     *)

FanInv ==
  /\ Fn!TypeOK
  /\ f_running => f_power = "on"
  /\ ~f_running => f_owner = NoFile
  /\ f_running /\ ~failed => (lease # -1 <=> f_owner # NoFile)
  /\ sample.age = sample.recorded
  /\ Fn!LowDutyIsJustified

\* What the types are made of.
LEMMA FanTypes ==
  ASSUME Fn!TypeOK
  PROVE  /\ sample.temp \in Int /\ sample.age \in Nat /\ sample.recorded \in Nat
         /\ sample = [temp |-> sample.temp, age |-> sample.age, recorded |-> sample.recorded]
         /\ lease \in Int /\ (lease = -1 \/ lease \in Nat)
         /\ spin \in Nat /\ stalls \in Nat /\ MaxAge \in Nat
  <1>1. /\ MaxAge \in Nat /\ MaxLease \in Nat /\ Spinup \in Nat
        /\ \A t \in Temps \union {-1000} : t \in Int
    BY FanAssumption
  <1>2. /\ sample \in [temp : Temps \union {-1000}, age : 0 .. (MaxAge + 2),
                     recorded : 0 .. (MaxAge + 2)]
        /\ lease \in {-1} \union 0 .. MaxLease /\ spin \in 0 .. Spinup /\ stalls \in 0 .. 3
    BY DEF Fn!TypeOK, Fn!NoTemp, Fn!Old, Fn!None
  <1>3. /\ sample.temp \in Temps \union {-1000} /\ sample.age \in 0 .. (MaxAge + 2)
        /\ sample.recorded \in 0 .. (MaxAge + 2)
        /\ sample = [temp |-> sample.temp, age |-> sample.age, recorded |-> sample.recorded]
    BY <1>2
  <1>4. sample.temp \in Int
    BY <1>1, <1>3
  <1>5. /\ sample.age \in Nat /\ sample.recorded \in Nat /\ spin \in Nat /\ stalls \in Nat
        /\ lease \in Int /\ (lease = -1 \/ lease \in Nat)
    BY <1>1, <1>2, <1>3
  <1> QED BY <1>1, <1>3, <1>4, <1>5

\* The curve: hysteresis only ever makes the fan faster.
LEMMA CurveFacts ==
  ASSUME NEW t, NEW p
  PROVE  /\ Fn!fan_curve(t, p) \in {35, 50, 70, 100}
         /\ Fn!fan_curve(t, p) >= Fn!fan_curve(t, 35)
  BY DEF Fn!fan_curve

\* What the policy's target says of the state it is computed in.
LEMMA TargetFacts ==
  ASSUME Fn!TypeOK, NEW turning \in BOOLEAN, NEW spinning, NEW p, NEW manual,
         NEW ask \in Asks \union {100}, NEW aim,
         aim = Fn!fan_policy_target(turning, spinning, p, manual, ask)
  PROVE  /\ aim \in Fn!Duties
         /\ aim # 100 =>
              /\ ~spinning /\ sample.temp # -1000 /\ sample.recorded <= MaxAge
              /\ Fn!Stalls(turning) \in 0..2 /\ sample.temp < 75
              /\ ~manual => aim >= Fn!fan_curve(sample.temp, 35)
  <1>1. Fn!Stalls(turning) \in 0..3
    BY DEF Fn!TypeOK, Fn!Stalls
  <1>2. sample.temp \in Int /\ sample.recorded \in Nat /\ MaxAge \in Nat
    BY FanTypes
  <1>3. CASE spinning \/ sample.temp = -1000 \/ sample.recorded > MaxAge \/ Fn!Stalls(turning) = 3
             \/ sample.temp >= 75
    <2>1. aim = 100
      BY <1>3 DEF Fn!fan_policy_target, Fn!NoTemp
    <2> QED BY <2>1 DEF Fn!Duties
  <1>4. CASE ~(spinning \/ sample.temp = -1000 \/ sample.recorded > MaxAge
               \/ Fn!Stalls(turning) = 3 \/ sample.temp >= 75)
    <2>1. aim = IF manual THEN ask ELSE Fn!fan_curve(sample.temp, p)
      BY <1>4 DEF Fn!fan_policy_target, Fn!NoTemp
    <2>2. /\ ~spinning /\ sample.temp # -1000 /\ sample.recorded <= MaxAge
          /\ Fn!Stalls(turning) \in 0..2 /\ sample.temp < 75
      BY <1>1, <1>2, <1>4
    <2>3. aim \in Fn!Duties /\ (~manual => aim >= Fn!fan_curve(sample.temp, 35))
      BY <2>1, CurveFacts DEF Fn!Duties
    <2> QED BY <2>2, <2>3
  <1> QED BY <1>3, <1>4

\* What fan_adjust leaves behind: the duty it was asked for, or a failure.
LEMMA Adjusted ==
  ASSUME FanInv, f_running, f_running', NEW percent \in Fn!Duties,
         NEW left \in {-1} \union 0 .. MaxLease, Fn!fan_adjust(percent, left)
  PROVE  /\ duty' \in Fn!Duties /\ lease' \in {-1} \union 0 .. MaxLease
         /\ refused' \in BOOLEAN /\ failed' \in BOOLEAN
         /\ \/ ~failed /\ ~failed' /\ duty' = percent /\ lease' = left
            \/ failed' /\ ~(duty' < 100 /\ ~refused')
  <1>0. /\ duty \in Fn!Duties /\ lease \in {-1} \union 0 .. MaxLease
        /\ refused \in BOOLEAN /\ failed \in BOOLEAN /\ 100 \in Fn!Duties
    BY DEF FanInv, Fn!TypeOK, Fn!Duties, Fn!None
  <1>1. CASE failed
    <2>1. ~(duty < 100 /\ ~refused)
      BY <1>1 DEF FanInv, Fn!LowDutyIsJustified
    <2>2. UNCHANGED <<lease, duty, refused, failed>>
      BY <1>1 DEF Fn!fan_adjust
    <2> QED BY <1>0, <1>1, <2>1, <2>2
  <1>2. CASE ~failed
    <2>1. CASE duty' = percent /\ lease' = left /\ UNCHANGED <<refused, failed>>
      <3>1. refused' \in BOOLEAN /\ failed' \in BOOLEAN /\ ~failed'
        BY <1>0, <1>2, <2>1
      <3> QED BY <1>2, <2>1, <3>1
    <2>2. CASE failed' = TRUE /\ lease' = -1 /\ duty' = 100 /\ refused' = FALSE
      <3>1. refused' \in BOOLEAN /\ failed' \in BOOLEAN /\ failed'
        BY <2>2
      <3>2. duty' \in Fn!Duties /\ ~(duty' < 100)
        BY <1>0, <2>2
      <3> QED BY <2>2, <3>1, <3>2
    <2>3. CASE failed' = TRUE /\ lease' = -1 /\ duty' \in {duty, percent, 100} /\ refused' = TRUE
      <3>1. refused' \in BOOLEAN /\ failed' \in BOOLEAN /\ failed' /\ refused'
        BY <2>3
      <3>2. duty' \in Fn!Duties
        BY <1>0, <2>3
      <3> QED BY <2>3, <3>1, <3>2
    <2>4. \/ duty' = percent /\ lease' = left /\ UNCHANGED <<refused, failed>>
          \/ failed' = TRUE /\ lease' = -1 /\ duty' = 100 /\ refused' = FALSE
          \/ failed' = TRUE /\ lease' = -1 /\ duty' \in {duty, percent, 100} /\ refused' = TRUE
      BY <1>2 DEF Fn!fan_adjust, Fn!None
    <2> QED BY <2>1, <2>2, <2>3, <2>4
  <1> QED BY <1>1, <1>2

LEMMA FullSpeed ==
  ASSUME FanInv, Fn!fan_full
  PROVE  /\ duty' \in Fn!Duties /\ lease' = -1 /\ refused' \in BOOLEAN /\ failed' \in BOOLEAN
         /\ ~(duty' < 100 /\ ~refused')
  <1>0. duty \in Fn!Duties /\ failed \in BOOLEAN /\ 100 \in Fn!Duties
    BY DEF FanInv, Fn!TypeOK, Fn!Duties
  <1>1. lease' = -1 /\ (duty' = 100 \/ (refused' = TRUE /\ duty' = duty))
    BY DEF Fn!fan_full, Fn!None
  <1>2. refused' \in BOOLEAN /\ failed' \in BOOLEAN
    BY <1>0 DEF Fn!fan_full
  <1> QED BY <1>0, <1>1, <1>2

\* A justified duty, part by part.
LEMMA Justified ==
  ASSUME f_running /\ duty < 100 /\ ~refused =>
           /\ ~failed /\ spin = 0 /\ stalls < 3
           /\ sample.temp # -1000 \/ news
           /\ sample.age <= MaxAge + (IF due THEN 1 ELSE 0) \/ news
           /\ sample.temp = -1000 \/ sample.temp < 75 \/ news
           /\ lease = -1 /\ ~news => duty >= Fn!fan_curve(sample.temp, 35)
           /\ lease = 0 => due
           /\ (lease # -1) <=> (f_owner # NoFile)
  PROVE  Fn!LowDutyIsJustified
  BY DEF Fn!LowDutyIsJustified, Fn!NoTemp, Fn!None

LEMMA WatchdogKeeps ==
  ASSUME FanInv, NEW turning \in BOOLEAN, Fn!FanWatchdog(turning)
  PROVE  FanInv'
  <1> DEFINE ran    == lease = 0
             last   == IF ran THEN 100 ELSE previous
             manual == lease # -1 /\ ~ran
             aim    == Fn!fan_policy_target(turning, ran \/ spin > 0, last, manual, requested)
             left   == IF ran THEN -1 ELSE lease
  <1>0. Fn!TypeOK
    BY DEF FanInv
  <1>1. /\ f_running /\ f_running' = f_running /\ due' = FALSE /\ news' = FALSE
        /\ Fn!ReadTachometer(turning) /\ Fn!fan_adjust(aim, left)
        /\ f_owner' = (IF ran THEN NoFile ELSE f_owner)
        /\ spin' = (IF ran THEN Spinup ELSE spin)
        /\ previous' = (IF manual THEN previous ELSE aim)
        /\ UNCHANGED <<f_power, requested, sample, query, sensor>>
    BY DEF Fn!FanWatchdog, Fn!None
  <1>2. stalls' = Fn!Stalls(turning) /\ rpmIn' \in 0 .. RpmPeriod /\ stalls' \in 0 .. 3
    <2>1. stalls' = Fn!Stalls(turning) /\ rpmIn' = (IF rpmIn > 0 THEN rpmIn ELSE RpmPeriod)
      BY <1>1 DEF Fn!ReadTachometer
    <2>2. RpmPeriod \in Nat
      BY FanAssumption
    <2> QED BY <1>0, <2>1, <2>2 DEF Fn!TypeOK, Fn!Stalls
  <1>3. /\ aim \in Fn!Duties
        /\ aim # 100 =>
             /\ ~ran /\ ~(spin > 0) /\ sample.temp # -1000 /\ sample.recorded <= MaxAge
             /\ Fn!Stalls(turning) \in 0..2 /\ sample.temp < 75
             /\ ~manual => aim >= Fn!fan_curve(sample.temp, 35)
    <2> DEFINE spinning == ran \/ spin > 0
    <2>1. requested \in Asks \union {100}
      BY <1>0 DEF Fn!TypeOK
    <2>2. aim = Fn!fan_policy_target(turning, spinning, last, manual, requested)
      OBVIOUS
    <2>3. spinning = (ran \/ spin > 0)
      OBVIOUS
    <2> HIDE DEF spinning, aim, last, manual, ran
    <2>4. /\ aim \in Fn!Duties
          /\ aim # 100 =>
               /\ ~spinning /\ sample.temp # -1000 /\ sample.recorded <= MaxAge
               /\ Fn!Stalls(turning) \in 0..2 /\ sample.temp < 75
               /\ ~manual => aim >= Fn!fan_curve(sample.temp, 35)
      BY <1>0, <2>1, <2>2, TargetFacts
    <2> QED BY <2>3, <2>4
  <1>4. left \in {-1} \union 0 .. MaxLease /\ left # 0 /\ (lease = -1 => left = -1)
    BY <1>0 DEF Fn!TypeOK, Fn!None
  <1> HIDE DEF aim, left
  <1>5. /\ duty' \in Fn!Duties /\ lease' \in {-1} \union 0 .. MaxLease
        /\ refused' \in BOOLEAN /\ failed' \in BOOLEAN
        /\ \/ ~failed /\ ~failed' /\ duty' = aim /\ lease' = left
           \/ failed' /\ ~(duty' < 100 /\ ~refused')
    BY <1>1, <1>3, <1>4, Adjusted
  <1>6. Fn!TypeOK'
    <2>1. Spinup \in Nat
      BY FanAssumption
    <2>2. spin' \in 0 .. Spinup
      BY <1>0, <1>1, <2>1 DEF Fn!TypeOK
    <2>3. previous' \in Fn!Duties /\ f_owner' \in {NoFile} \union Users
      BY <1>0, <1>1, <1>3 DEF Fn!TypeOK
    <2>4. due' \in BOOLEAN /\ news' \in BOOLEAN /\ f_running' \in BOOLEAN
      BY <1>0, <1>1 DEF Fn!TypeOK
    <2> QED BY <1>0, <1>1, <1>2, <1>5, <2>2, <2>3, <2>4 DEF Fn!TypeOK, Fn!None
  <1>7. f_running' /\ f_power' = "on" /\ sample' = sample /\ sample.age = sample.recorded
    BY <1>1 DEF FanInv
  <1>8. ~failed' => (lease' # -1 <=> f_owner' # NoFile)
    <2>1. ~failed' => ~failed /\ lease' = left
      BY <1>5
    <2>2. ~failed => (lease # -1 <=> f_owner # NoFile)
      BY <1>1 DEF FanInv
    <2> QED BY <1>1, <2>1, <2>2 DEF left
  <1>9. Fn!LowDutyIsJustified'
    <2> SUFFICES ASSUME duty' < 100, ~refused'
                 PROVE  /\ ~failed' /\ spin' = 0 /\ stalls' < 3
                        /\ sample'.temp # -1000 \/ news'
                        /\ sample'.age <= MaxAge + (IF due' THEN 1 ELSE 0) \/ news'
                        /\ sample'.temp = -1000 \/ sample'.temp < 75 \/ news'
                        /\ lease' = -1 /\ ~news' => duty' >= Fn!fan_curve(sample'.temp, 35)
                        /\ lease' = 0 => due'
                        /\ (lease' # -1) <=> (f_owner' # NoFile)
      BY DEF Fn!LowDutyIsJustified, Fn!NoTemp, Fn!None
    <2>1. ~failed' /\ duty' = aim /\ lease' = left /\ aim # 100
      BY <1>5
    <2>2. spin' = 0 /\ stalls' < 3 /\ ~ran
      <3>1. spin \in Nat
        BY <1>0, FanTypes
      <3> QED BY <1>1, <1>2, <1>3, <2>1, <3>1
    <2>3. sample'.temp # -1000 /\ sample'.age <= MaxAge /\ sample'.temp < 75
      BY <1>3, <1>7, <2>1
    <2>4. lease' # 0
      BY <1>4, <2>1
    <2>5. lease' = -1 => duty' >= Fn!fan_curve(sample'.temp, 35)
      <3>1. lease' = -1 => ~manual
        BY <2>1, <2>2 DEF left
      <3> QED BY <1>3, <1>7, <2>1, <3>1
    <2>6. sample'.age <= MaxAge + (IF due' THEN 1 ELSE 0)
      <3>1. (IF due' THEN 1 ELSE 0) = 0
        BY <1>1
      <3>2. sample'.age <= MaxAge + 0
        <4>1. sample.age \in Nat /\ MaxAge \in Nat
          BY <1>0, FanTypes
        <4> QED BY <1>7, <2>3, <4>1
      <3> QED BY <3>1, <3>2
    <2> QED BY <1>8, <2>1, <2>2, <2>3, <2>4, <2>5, <2>6
  <1> QED BY <1>6, <1>7, <1>8, <1>9 DEF FanInv

LEMMA SetKeeps ==
  ASSUME FanInv, NEW file \in Users, NEW percent \in Asks, NEW left \in 1 .. MaxLease,
         NEW turning \in BOOLEAN, Fn!FanSet(file, percent, left, turning)
  PROVE  FanInv'
  <1> DEFINE spinning == spin > 0
             manual   == TRUE
             aim    == Fn!fan_policy_target(turning, spinning, previous, manual, percent)
  <1>0. Fn!TypeOK
    BY DEF FanInv
  <1>1. /\ f_running /\ f_running' = f_running
        /\ Fn!ReadTachometer(turning) /\ Fn!fan_adjust(aim, left)
        /\ IF failed' THEN UNCHANGED <<f_owner, requested>>
           ELSE f_owner' = file /\ requested' = percent
        /\ UNCHANGED <<f_power, spin, previous, sample, news, query, sensor, due>>
    BY DEF Fn!FanSet
  <1>2. stalls' = Fn!Stalls(turning) /\ rpmIn' \in 0 .. RpmPeriod /\ stalls' \in 0 .. 3
    <2>1. stalls' = Fn!Stalls(turning) /\ rpmIn' = (IF rpmIn > 0 THEN rpmIn ELSE RpmPeriod)
      BY <1>1 DEF Fn!ReadTachometer
    <2>2. RpmPeriod \in Nat
      BY FanAssumption
    <2> QED BY <1>0, <2>1, <2>2 DEF Fn!TypeOK, Fn!Stalls
  <1>3. /\ aim \in Fn!Duties
        /\ aim # 100 =>
             /\ ~(spin > 0) /\ sample.temp # -1000 /\ sample.recorded <= MaxAge
             /\ Fn!Stalls(turning) \in 0..2 /\ sample.temp < 75
    <2>1. aim = Fn!fan_policy_target(turning, spinning, previous, manual, percent)
      OBVIOUS
    <2>2. spinning = (spin > 0) /\ percent \in Asks \union {100}
      OBVIOUS
    <2> HIDE DEF spinning, aim, manual
    <2>3. /\ aim \in Fn!Duties
          /\ aim # 100 =>
               /\ ~spinning /\ sample.temp # -1000 /\ sample.recorded <= MaxAge
               /\ Fn!Stalls(turning) \in 0..2 /\ sample.temp < 75
      BY <1>0, <2>1, <2>2, TargetFacts
    <2> QED BY <2>2, <2>3
  <1>4. left \in {-1} \union 0 .. MaxLease /\ left # 0 /\ left # -1
    BY FanAssumption
  <1> HIDE DEF aim
  <1>5. /\ duty' \in Fn!Duties /\ lease' \in {-1} \union 0 .. MaxLease
        /\ refused' \in BOOLEAN /\ failed' \in BOOLEAN
        /\ \/ ~failed /\ ~failed' /\ duty' = aim /\ lease' = left
           \/ failed' /\ ~(duty' < 100 /\ ~refused')
    BY <1>1, <1>3, <1>4, Adjusted
  <1>6. Fn!TypeOK'
    <2>1. f_owner' \in {NoFile} \union Users /\ requested' \in Asks \union {100}
      BY <1>0, <1>1 DEF Fn!TypeOK
    <2> QED BY <1>0, <1>1, <1>2, <1>5, <2>1 DEF Fn!TypeOK, Fn!None
  <1>7. f_running' /\ f_power' = "on" /\ sample' = sample /\ sample.age = sample.recorded
    BY <1>1 DEF FanInv
  <1>8. ~failed' => lease' # -1 /\ lease' # 0 /\ f_owner' # NoFile
    BY <1>1, <1>4, <1>5, FanAssumption
  <1>9. Fn!LowDutyIsJustified'
    <2> SUFFICES ASSUME duty' < 100, ~refused'
                 PROVE  /\ ~failed' /\ spin' = 0 /\ stalls' < 3
                        /\ sample'.temp # -1000 \/ news'
                        /\ sample'.age <= MaxAge + (IF due' THEN 1 ELSE 0) \/ news'
                        /\ sample'.temp = -1000 \/ sample'.temp < 75 \/ news'
                        /\ lease' = -1 /\ ~news' => duty' >= Fn!fan_curve(sample'.temp, 35)
                        /\ lease' = 0 => due'
                        /\ (lease' # -1) <=> (f_owner' # NoFile)
      BY DEF Fn!LowDutyIsJustified, Fn!NoTemp, Fn!None
    <2>1. ~failed' /\ duty' = aim /\ aim # 100
      BY <1>5
    <2>2. spin' = 0 /\ stalls' < 3
      <3>1. spin \in Nat
        BY <1>0, FanTypes
      <3> QED BY <1>1, <1>2, <1>3, <2>1, <3>1
    <2>3. sample'.temp # -1000 /\ sample'.age <= MaxAge /\ sample'.temp < 75
      BY <1>3, <1>7, <2>1
    <2>4. sample'.age <= MaxAge + (IF due' THEN 1 ELSE 0)
      <3>1. sample.age \in Nat /\ MaxAge \in Nat
        BY <1>0, FanTypes
      <3>2. (IF due' THEN 1 ELSE 0) \in {0, 1}
        OBVIOUS
      <3> QED BY <1>7, <2>3, <3>1, <3>2
    <2> QED BY <1>8, <2>1, <2>2, <2>3, <2>4
  <1> QED BY <1>6, <1>7, <1>8, <1>9 DEF FanInv

\* A step that leaves the fan at full speed, or not running, has nothing to justify.
LEMMA NothingToJustify ==
  ASSUME ~(f_running' /\ duty' < 100 /\ ~refused')
  PROVE  Fn!LowDutyIsJustified'
  BY DEF Fn!LowDutyIsJustified

LEMMA CleanupKeeps ==
  ASSUME FanInv, NEW file \in Users, Fn!FanCleanup(file)
  PROVE  FanInv'
  <1>0. Fn!TypeOK /\ Spinup \in Nat /\ 100 \in Fn!Duties
    BY FanAssumption DEF FanInv, Fn!Duties
  <1>1. /\ f_owner = file /\ f_owner' = NoFile
        /\ UNCHANGED <<f_power, f_running, requested, rpmIn, stalls, sample, news, query,
                       sensor, due>>
    BY DEF Fn!FanCleanup
  <1>2. f_running
    BY <1>1, FanAssumption DEF FanInv
  <1>3. Fn!fan_full /\ spin' = Spinup /\ previous' = 100
    BY <1>2 DEF Fn!FanCleanup
  <1>4. /\ duty' \in Fn!Duties /\ lease' = -1 /\ refused' \in BOOLEAN /\ failed' \in BOOLEAN
        /\ ~(duty' < 100 /\ ~refused')
    BY <1>3, FullSpeed
  <1>5. Fn!TypeOK'
    BY <1>0, <1>1, <1>3, <1>4 DEF Fn!TypeOK, Fn!None
  <1>6. Fn!LowDutyIsJustified'
    BY <1>4, NothingToJustify
  <1> QED BY <1>1, <1>2, <1>4, <1>5, <1>6 DEF FanInv

LEMMA D0EntryKeeps ==
  ASSUME FanInv, Fn!FanD0Entry
  PROVE  FanInv'
  <1>0. /\ Fn!TypeOK /\ Spinup \in Nat /\ RpmPeriod \in Nat /\ MaxAge \in Nat
        /\ 100 \in Fn!Duties /\ ~f_running /\ f_owner = NoFile
    BY FanAssumption DEF FanInv, Fn!Duties, Fn!FanD0Entry
  <1>1. /\ lease' = -1 /\ requested' = 100 /\ spin' = Spinup /\ previous' = 100 /\ rpmIn' = 0
        /\ stalls' = 0 /\ news' = FALSE /\ UNCHANGED <<f_owner, query, due>>
        /\ sample' = [temp |-> -1000, age |-> 0, recorded |-> 0]
    BY DEF Fn!FanD0Entry, Fn!None, Fn!NoSample, Fn!NoTemp
  <1>2. sample' \in [temp : Temps \union {Fn!NoTemp}, age : 0 .. Fn!Old, recorded : 0 .. Fn!Old]
    BY <1>0, <1>1 DEF Fn!NoTemp, Fn!Old
  <1>3. sample'.age = sample'.recorded
    BY <1>1
  <1>6. /\ news' \in BOOLEAN /\ due' \in BOOLEAN /\ f_owner' \in {NoFile} \union Users
        /\ query' \in {Fn!NoQuery} \union [temp : Temps \union {Fn!NoTemp}, age : 0 .. Fn!Old]
    BY <1>0, <1>1 DEF Fn!TypeOK
  <1>4. CASE /\ f_power' = "on" /\ f_running' = TRUE /\ failed' = FALSE /\ sensor' = TRUE
             /\ duty' = 100 /\ refused' = FALSE
    <2>1. Fn!TypeOK'
      <3>1. /\ f_running' \in BOOLEAN /\ failed' \in BOOLEAN /\ sensor' \in BOOLEAN
            /\ refused' \in BOOLEAN /\ f_power' \in {"released", "off", "on", "stopping", "failed"}
        BY <1>4
      <3>2. duty' \in Fn!Duties
        BY <1>0, <1>4
      <3> QED BY <1>0, <1>1, <1>2, <1>6, <3>1, <3>2 DEF Fn!TypeOK, Fn!None
    <2>2. Fn!LowDutyIsJustified'
      BY <1>4, NothingToJustify
    <2> QED BY <1>0, <1>1, <1>3, <1>4, <2>1, <2>2 DEF FanInv
  <1>5. CASE /\ f_power' = "failed" /\ failed' = TRUE /\ duty' \in {duty, 100} /\ refused' = TRUE
             /\ UNCHANGED <<f_running, sensor>>
    <2>1. duty' \in Fn!Duties
      BY <1>0, <1>5 DEF Fn!TypeOK
    <2>2. Fn!TypeOK'
      <3>1. /\ failed' \in BOOLEAN /\ refused' \in BOOLEAN
            /\ f_power' \in {"released", "off", "on", "stopping", "failed"}
        BY <1>5
      <3>2. f_running' \in BOOLEAN /\ sensor' \in BOOLEAN
        BY <1>0, <1>5 DEF Fn!TypeOK
      <3> QED BY <1>0, <1>1, <1>2, <1>6, <2>1, <3>1, <3>2 DEF Fn!TypeOK, Fn!None
    <2>3. Fn!LowDutyIsJustified'
      BY <1>5, NothingToJustify
    <2> QED BY <1>0, <1>1, <1>3, <1>5, <2>2, <2>3 DEF FanInv
  <1> QED BY <1>4, <1>5 DEF Fn!FanD0Entry

LEMMA D0ExitKeeps ==
  ASSUME FanInv, Fn!FanD0Exit
  PROVE  FanInv'
  <1>0. Fn!TypeOK
    BY DEF FanInv
  <1>1. /\ f_power' = "stopping" /\ f_running' = FALSE /\ Fn!fan_full /\ f_owner' = NoFile
        /\ due' = FALSE /\ sensor' = FALSE
        /\ UNCHANGED <<requested, spin, previous, rpmIn, stalls, sample, news, query>>
    BY DEF Fn!FanD0Exit, Fn!policy
  <1>2. duty' \in Fn!Duties /\ lease' = -1 /\ refused' \in BOOLEAN /\ failed' \in BOOLEAN
    BY <1>1, FullSpeed
  <1>3. Fn!TypeOK'
    BY <1>0, <1>1, <1>2 DEF Fn!TypeOK, Fn!None
  <1>4. Fn!LowDutyIsJustified'
    BY <1>1, NothingToJustify
  <1> QED BY <1>1, <1>3, <1>4 DEF FanInv

\* The preparation, the release and the end of the exit: the fan does not run.
LEMMA AtRestKeeps ==
  ASSUME FanInv, Fn!FanPrepare \/ Fn!FanRelease \/ Fn!FanExited
  PROVE  FanInv'
  <1>0. Fn!TypeOK /\ ~f_running /\ f_owner = NoFile
    BY DEF FanInv, Fn!FanPrepare, Fn!FanRelease, Fn!FanExited
  <1>1. /\ f_power' \in {"released", "off"} /\ ~f_running'
        /\ f_owner' = NoFile
        /\ UNCHANGED <<failed, lease, requested, spin, previous, rpmIn, stalls, sample, news,
                       query, duty, refused>>
    BY <1>0 DEF Fn!FanPrepare, Fn!FanRelease, Fn!FanExited, Fn!policy
  <1>4. f_running' \in BOOLEAN /\ sensor' \in BOOLEAN /\ due' \in BOOLEAN
    <2>1. CASE Fn!FanRelease
      BY <2>1 DEF Fn!FanRelease
    <2>2. CASE Fn!FanPrepare \/ Fn!FanExited
      <3>1. UNCHANGED <<f_running, sensor, due>>
        BY <2>2 DEF Fn!FanPrepare, Fn!FanExited
      <3> QED BY <1>0, <3>1 DEF Fn!TypeOK
    <2> QED BY <2>1, <2>2
  <1>2. Fn!TypeOK'
    BY <1>0, <1>1, <1>4 DEF Fn!TypeOK
  <1>3. Fn!LowDutyIsJustified'
    BY <1>1, NothingToJustify
  <1> QED BY <1>0, <1>1, <1>2, <1>3 DEF FanInv

LEMMA TemperatureKeeps ==
  ASSUME FanInv, NEW temp \in Temps \union {Fn!NoTemp}, Fn!FanTemperature(temp)
  PROVE  FanInv'
  <1>0. Fn!TypeOK /\ MaxAge \in Nat
    BY FanAssumption DEF FanInv
  <1>1. /\ sensor' = FALSE /\ query' = [temp |-> temp, age |-> 0]
        /\ UNCHANGED <<f_power, f_running, failed, lease, f_owner, requested, spin, previous,
                       rpmIn, stalls, sample, news, due, duty, refused>>
    BY DEF Fn!FanTemperature, Fn!policy
  <1>2. query' \in [temp : Temps \union {Fn!NoTemp}, age : 0 .. Fn!Old]
    BY <1>0, <1>1 DEF Fn!Old
  <1>3. Fn!TypeOK'
    <2>1. sensor' \in BOOLEAN
      BY <1>1
    <2>2. query' \in {Fn!NoQuery} \union [temp : Temps \union {Fn!NoTemp}, age : 0 .. Fn!Old]
      BY <1>2
    <2> QED BY <1>0, <1>1, <2>1, <2>2 DEF Fn!TypeOK
  <1>4. Fn!LowDutyIsJustified'
    BY <1>1 DEF FanInv, Fn!LowDutyIsJustified
  <1> QED BY <1>1, <1>3, <1>4 DEF FanInv

LEMMA TemperatureReadKeeps ==
  ASSUME FanInv, Fn!FanTemperatureRead
  PROVE  FanInv'
  <1>0. Fn!TypeOK /\ MaxAge \in Nat
    BY FanAssumption DEF FanInv
  <1>1. /\ query # Fn!NoQuery /\ query' = Fn!NoQuery
        /\ UNCHANGED <<f_power, f_running, failed, lease, f_owner, requested, spin, previous,
                       rpmIn, stalls, due, duty, refused>>
    BY DEF Fn!FanTemperatureRead, Fn!policy
  <1>2. query \in [temp : Temps \union {Fn!NoTemp}, age : 0 .. Fn!Old]
    BY <1>0, <1>1 DEF Fn!TypeOK
  <1>3. CASE f_running
    <2>1. /\ sample' = [temp |-> query.temp, age |-> query.age, recorded |-> query.age]
          /\ news' /\ news' \in BOOLEAN /\ sensor' \in BOOLEAN
      BY <1>3 DEF Fn!FanTemperatureRead, Fn!SampleAge
    <2>2. Fn!TypeOK'
      <3>1. sample' \in [temp : Temps \union {Fn!NoTemp}, age : 0 .. Fn!Old, recorded : 0 .. Fn!Old]
        BY <1>2, <2>1
      <3>2. query' \in {Fn!NoQuery} \union [temp : Temps \union {Fn!NoTemp}, age : 0 .. Fn!Old]
        BY <1>1
      <3> QED BY <1>0, <1>1, <2>1, <3>1, <3>2 DEF Fn!TypeOK
    <2>3. Fn!LowDutyIsJustified'
      <3>1. (f_running /\ duty < 100 /\ ~refused) =>
              /\ ~failed /\ spin = 0 /\ stalls < 3
              /\ lease = 0 => due
              /\ (lease # -1) = (f_owner # NoFile)
        BY DEF FanInv, Fn!LowDutyIsJustified, Fn!None
      <3> QED BY <1>1, <2>1, <3>1 DEF Fn!LowDutyIsJustified, Fn!None
    <2>4. sample'.age = sample'.recorded
      BY <2>1
    <2> QED BY <1>1, <2>2, <2>3, <2>4 DEF FanInv
  <1>4. CASE ~f_running
    <2>1. UNCHANGED <<sample, news, sensor>>
      BY <1>4 DEF Fn!FanTemperatureRead
    <2>2. Fn!TypeOK'
      BY <1>0, <1>1, <2>1 DEF Fn!TypeOK
    <2>3. Fn!LowDutyIsJustified'
      BY <1>1, <1>4, NothingToJustify
    <2> QED BY <1>1, <2>1, <2>2, <2>3 DEF FanInv
  <1> QED BY <1>3, <1>4

\* What a period takes away, and what it adds.
LEMMA PeriodFacts ==
  ASSUME NEW n \in Nat, MaxAge \in Nat
  PROVE  /\ Fn!Less(n) \in 0 .. n /\ (n = 0 => Fn!Less(n) = 0)
         /\ n \in 0 .. Fn!Old => Fn!More(n) \in 0 .. Fn!Old /\ Fn!More(n) <= n + 1
  BY DEF Fn!Less, Fn!More, Fn!Old

LEMMA TickKeeps ==
  ASSUME FanInv, Fn!Tick
  PROVE  FanInv'
  <1>0. /\ Fn!TypeOK /\ MaxAge \in Nat /\ MaxLease \in Nat /\ Spinup \in Nat /\ RpmPeriod \in Nat
    BY FanAssumption DEF FanInv
  <1>1. /\ ~due /\ due' = f_running
        /\ lease' = (IF lease = -1 THEN -1 ELSE Fn!Less(lease))
        /\ spin' = Fn!Less(spin) /\ rpmIn' = Fn!Less(rpmIn)
        /\ sample' = (IF sample.temp = -1000 THEN sample
                      ELSE [sample EXCEPT !.age = Fn!More(sample.age),
                                          !.recorded = Fn!More(sample.recorded)])
        /\ query' = (IF query = Fn!NoQuery THEN Fn!NoQuery
                     ELSE [query EXCEPT !.age = Fn!More(query.age)])
        /\ UNCHANGED <<f_power, f_running, failed, f_owner, requested, previous, stalls, news,
                       sensor, duty, refused>>
    BY DEF Fn!Tick, Fn!None, Fn!NoTemp
  <1>2. /\ lease' \in {-1} \union 0 .. MaxLease /\ (lease' = -1 <=> lease = -1)
        /\ spin' \in 0 .. Spinup /\ (spin = 0 => spin' = 0) /\ rpmIn' \in 0 .. RpmPeriod
    <2>1. /\ lease \in {-1} \union 0 .. MaxLease /\ spin \in 0 .. Spinup
          /\ rpmIn \in 0 .. RpmPeriod
      BY <1>0 DEF Fn!TypeOK, Fn!None
    <2>2. lease # -1 => Fn!Less(lease) \in 0 .. lease /\ lease \in 0 .. MaxLease
      BY <1>0, <2>1, PeriodFacts
    <2>3. Fn!Less(spin) \in 0 .. spin /\ Fn!Less(rpmIn) \in 0 .. rpmIn
          /\ (spin = 0 => Fn!Less(spin) = 0)
      BY <1>0, <2>1, PeriodFacts
    <2> QED BY <1>0, <1>1, <2>1, <2>2, <2>3
  <1>3. /\ sample' \in [temp : Temps \union {Fn!NoTemp}, age : 0 .. Fn!Old, recorded : 0 .. Fn!Old]
        /\ sample'.temp = sample.temp /\ sample'.age = sample'.recorded
        /\ sample'.age <= sample.age + 1
    <2>1. /\ sample \in [temp : Temps \union {Fn!NoTemp}, age : 0 .. Fn!Old, recorded : 0 .. Fn!Old]
          /\ sample.age = sample.recorded
      BY <1>0 DEF FanInv, Fn!TypeOK
    <2>2. sample.age \in 0 .. Fn!Old /\ sample.age \in Nat
      BY <1>0, <2>1 DEF Fn!Old
    <2>3. Fn!More(sample.age) \in 0 .. Fn!Old /\ Fn!More(sample.age) <= sample.age + 1
      BY <1>0, <2>2, PeriodFacts
    <2>4. CASE sample.temp = -1000
      BY <1>1, <2>1, <2>2, <2>4
    <2>5. CASE sample.temp # -1000
      BY <1>1, <2>1, <2>3, <2>5
    <2> QED BY <2>4, <2>5
  <1>4. query' \in {Fn!NoQuery} \union [temp : Temps \union {Fn!NoTemp}, age : 0 .. Fn!Old]
    <2>1. CASE query = Fn!NoQuery
      BY <1>1, <2>1
    <2>2. CASE query # Fn!NoQuery
      <3>1. query \in [temp : Temps \union {Fn!NoTemp}, age : 0 .. Fn!Old]
        BY <1>0, <2>2 DEF Fn!TypeOK
      <3>2. query.age \in 0 .. Fn!Old /\ query.age \in Nat
        BY <1>0, <3>1 DEF Fn!Old
      <3>3. Fn!More(query.age) \in 0 .. Fn!Old
        BY <1>0, <3>2, PeriodFacts
      <3> QED BY <1>1, <2>2, <3>1, <3>3
    <2> QED BY <2>1, <2>2
  <1>5. Fn!TypeOK'
    <2>1. due' \in BOOLEAN
      BY <1>0, <1>1 DEF Fn!TypeOK
    <2> QED BY <1>0, <1>1, <1>2, <1>3, <1>4, <2>1 DEF Fn!TypeOK, Fn!None
  <1>6. Fn!LowDutyIsJustified'
    <2> SUFFICES ASSUME f_running', duty' < 100, ~refused'
                 PROVE  /\ ~failed' /\ spin' = 0 /\ stalls' < 3
                        /\ sample'.temp # -1000 \/ news'
                        /\ sample'.age <= MaxAge + (IF due' THEN 1 ELSE 0) \/ news'
                        /\ sample'.temp = -1000 \/ sample'.temp < 75 \/ news'
                        /\ lease' = -1 /\ ~news' => duty' >= Fn!fan_curve(sample'.temp, 35)
                        /\ lease' = 0 => due'
                        /\ (lease' # -1) <=> (f_owner' # NoFile)
      BY DEF Fn!LowDutyIsJustified, Fn!NoTemp, Fn!None
    <2>1. /\ ~failed /\ spin = 0 /\ stalls < 3
          /\ sample.temp # -1000 \/ news
          /\ sample.age <= MaxAge + (IF due THEN 1 ELSE 0) \/ news
          /\ sample.temp = -1000 \/ sample.temp < 75 \/ news
          /\ lease = -1 /\ ~news => duty >= Fn!fan_curve(sample.temp, 35)
          /\ (lease # -1) <=> (f_owner # NoFile)
      BY <1>1 DEF FanInv, Fn!LowDutyIsJustified, Fn!NoTemp, Fn!None
    <2>2. due'
      BY <1>1
    <2>3. sample'.age <= MaxAge + (IF due' THEN 1 ELSE 0) \/ news'
      <3>1. (IF due THEN 1 ELSE 0) = 0 /\ (IF due' THEN 1 ELSE 0) = 1
        BY <1>1, <2>2
      <3>2. sample.age \in Nat /\ sample'.age \in Nat
        BY <1>0, <1>5, <1>3, FanTypes DEF Fn!Old
      <3>3. sample.age <= MaxAge \/ news
        BY <1>0, <2>1, <3>1, <3>2
      <3>4. CASE sample.age <= MaxAge
        BY <1>0, <1>3, <3>1, <3>2, <3>4
      <3>5. CASE news
        BY <1>1, <3>5
      <3> QED BY <3>3, <3>4, <3>5
    <2> QED BY <1>1, <1>2, <1>3, <2>1, <2>2, <2>3
  <1> QED BY <1>1, <1>2, <1>3, <1>5, <1>6 DEF FanInv

LEMMA FanInitInv == Fn!Init => FanInv
  <1> SUFFICES ASSUME Fn!Init
               PROVE  FanInv
    OBVIOUS
  <1>1. /\ MaxLease \in Nat /\ Spinup \in Nat /\ RpmPeriod \in Nat /\ MaxAge \in Nat
    BY FanAssumption
  <1>2. sample \in [temp : Temps \union {Fn!NoTemp}, age : 0 .. Fn!Old, recorded : 0 .. Fn!Old]
    BY <1>1 DEF Fn!Init, Fn!NoSample, Fn!NoTemp, Fn!Old
  <1>3. Fn!TypeOK
    <2>1. /\ f_running \in BOOLEAN /\ failed \in BOOLEAN /\ news \in BOOLEAN
          /\ sensor \in BOOLEAN /\ due \in BOOLEAN /\ refused \in BOOLEAN
      BY DEF Fn!Init
    <2>2. /\ f_power \in {"released", "off", "on", "stopping", "failed"}
          /\ requested \in Asks \union {100} /\ previous \in Fn!Duties /\ duty \in Fn!Duties
          /\ f_owner \in {NoFile} \union Users
      BY DEF Fn!Init, Fn!Duties
    <2>3. /\ lease \in {-1} \union 0 .. MaxLease /\ spin \in 0 .. Spinup
          /\ rpmIn \in 0 .. RpmPeriod /\ stalls \in 0 .. 3
      BY <1>1 DEF Fn!Init, Fn!None
    <2>4. query \in {Fn!NoQuery} \union [temp : Temps \union {Fn!NoTemp}, age : 0 .. Fn!Old]
      BY DEF Fn!Init
    <2> QED BY <1>2, <2>1, <2>2, <2>3, <2>4 DEF Fn!TypeOK, Fn!None
  <1>4. Fn!LowDutyIsJustified
    BY DEF Fn!Init, Fn!LowDutyIsJustified
  <1>5. sample.age = sample.recorded
    BY DEF Fn!Init, Fn!NoSample
  <1> QED BY <1>3, <1>4, <1>5 DEF Fn!Init, FanInv

LEMMA FanStep == FanInv /\ (Fn!Next \/ UNCHANGED fan) => FanInv'
  <1> SUFFICES ASSUME FanInv, Fn!Next \/ UNCHANGED fan
               PROVE  FanInv'
    OBVIOUS
  <1>1. CASE UNCHANGED fan
    BY <1>1 DEF fan, FanInv, Fn!TypeOK, Fn!LowDutyIsJustified
  <1>2. CASE Fn!FanPrepare \/ Fn!FanRelease \/ Fn!FanExited
    BY <1>2, AtRestKeeps
  <1>3. CASE Fn!FanD0Entry
    BY <1>3, D0EntryKeeps
  <1>4. CASE Fn!FanD0Exit
    BY <1>4, D0ExitKeeps
  <1>5. CASE Fn!FanTemperatureRead
    BY <1>5, TemperatureReadKeeps
  <1>6. CASE Fn!Tick
    BY <1>6, TickKeeps
  <1>7. CASE \E turning \in BOOLEAN : Fn!FanWatchdog(turning)
    BY <1>7, WatchdogKeeps
  <1>8. CASE \E temp \in Temps \union {Fn!NoTemp} : Fn!FanTemperature(temp)
    BY <1>8, TemperatureKeeps
  <1>9. ASSUME NEW file \in Users, Fn!FanCleanup(file)
        PROVE  FanInv'
    BY <1>9, CleanupKeeps
  <1>10. ASSUME NEW file \in Users, NEW percent \in Asks, NEW left \in 1 .. MaxLease,
                NEW turning \in BOOLEAN, Fn!FanSet(file, percent, left, turning)
         PROVE  FanInv'
    BY <1>10, SetKeeps
  <1> QED BY <1>1, <1>2, <1>3, <1>4, <1>5, <1>6, <1>7, <1>8, <1>9, <1>10 DEF Fn!Next

\* The fan turns slower than full speed only for a reason that still holds: nothing
\* failed, it is past its spin-up, it turns, the reading is recent and cool, and a lease
\* of a program has not run out longer than a period ago (rp1-fan, fan_policy_target and
\* every step that may leave its answer behind).
THEOREM LowDutyIsJustifiedHolds == AllSpec => []LowDutyIsJustified
  <1>1. AllInit => FanInv
    BY FanInitInv DEF AllInit
  <1>2. FanInv /\ [AllNext]_<<part, vars, boardVars, fan, gpio, bcm, gem, bt>> => FanInv'
    <2>1. [AllNext]_<<part, vars, boardVars, fan, gpio, bcm, gem, bt>>
            => Fn!Next \/ UNCHANGED fan
      BY DEF AllNext
    <2> QED BY <2>1, FanStep
  <1>3. FanInv => LowDutyIsJustified
    BY DEF FanInv, LowDutyIsJustified
  <1> QED BY <1>1, <1>2, <1>3, PTL DEF AllSpec

-------------------------------------------------------------------------------
(* The Ethernet miniport (Gem).                                            *)
(*                                                                         *)
(* An operation that holds the lifecycle mutex first stops submission and  *)
(* DMA (idle), then waits for the DPC (drain) and for the MAC's            *)
(* transactions (collect); from then on the rings are at rest.  What keeps *)
(* them so is that only a running adapter begins a DPC or sends, that only *)
(* Start and Restart run it, and that the flag a DPC leaves for the        *)
(* maintenance thread is gone before the adapter may be paused.            *)

Stopping == {"idle", "drain", "collect", "complete", "start", "free"}
Emptied  == Stopping \ {"idle"}

\* Who holds the mutex, and in which state of the adapter.
GemOpInv ==
  /\ op \in [by : {"none", "pause", "recover", "link", "halt", "shutdown", "gone"},
             at : Stopping \union {"none", "check"}, speed : 0 .. 1]
  /\ op.at = "none" => op = Ge!None
  /\ op.at = "check" => op.by = "link"
  /\ op.at = "start" => op.by \in {"recover", "link"}
  /\ op.at = "free" => op.by = "halt"
  /\ op.by = "halt" => ~thread
  /\ op.by = "gone" => op.at = "idle" /\ gone
  /\ op.by \in {"recover", "link"} /\ op.at # "check" => ~gone /\ life = "running"
  /\ op.at # "none" => life # "halted"
  /\ thread => life # "halted"
  /\ life \in {"halted", "paused", "running", "off"} /\ speed \in 0 .. 1

\* What an operation has brought to rest, by its step.
GemStopInv ==
  /\ op.at \in Stopping => ~run
  /\ op.at \in Emptied => dpc = "none"
  /\ op.at \in Stopping /\ ~gone => ~mac /\ ~recovery
  /\ op.at \in Stopping /\ op.by # "gone" => speed = 0
  /\ op.at \in {"collect", "complete"} => Ge!Quiet \/ fault \/ gone
  /\ op.at = "start" => Ge!Quiet
  /\ op.at = "free" => Ge!Quiet \/ retain
  /\ op.at \in {"complete", "start"} => tx = <<>>

\* What the state of the adapter says between operations.
GemLifeInv ==
  /\ run => life = "running"
  /\ dpc # "none" => life = "running"
  /\ recovery /\ ~gone => life = "running"
  /\ life \in {"paused", "off"} /\ op.at \in {"none", "check"} => Ge!Quiet \/ fault \/ gone
  /\ inflight /\ ~gone => mac \/ op.at \in {"idle", "drain"}
  /\ ~e_touched /\ life # "halted" /\ ~gone => Ge!Quiet
  /\ speed > 0 => e_touched
  /\ fault => e_touched /\ retain
  /\ gone /\ life # "halted" => retain
  /\ txgo \in {"idle", "go", "stuck"}

\* What the MAC has handed back is a prefix of the ring.
GemRingInv ==
  /\ tx \in Seq([nbl : Nbls, last : BOOLEAN, used : BOOLEAN])
  /\ \E k \in 0 .. Len(tx) : \A i \in 1 .. Len(tx) : tx[i].used <=> i <= k
  /\ rx \in Int

\* The first slot of the ring has been handed back.
Handed == tx # <<>> /\ tx[1].used

\* An adapter that runs with a link looks at its rings, will look at them, or is
\* interrupted by the next event, which has been latched if there is something to see.
GemWakeInv ==
  run /\ speed > 0 /\ ~gone =>
    /\ irqRunning
    /\ dpc # "none" \/ queued # {} \/ (~deferred /\ (imr \/ suppressed))
    /\ rx > 0 \/ Handed => dpc # "none" \/ queued # {} \/ isr # {}

GemInv == GemOpInv /\ GemStopInv /\ GemLifeInv /\ GemRingInv /\ GemWakeInv

\* The slots a list is given are a sequence of slots.
LEMMA NewSlots ==
  ASSUME NEW n \in Nbls, NEW count \in 1 .. 2
  PROVE  LET new == [i \in 1 .. count |-> [nbl |-> n, last |-> i = count, used |-> FALSE]] IN
           new \in Seq([nbl : Nbls, last : BOOLEAN, used : BOOLEAN]) /\ Len(new) = count
  <1> DEFINE Slots == [nbl : Nbls, last : BOOLEAN, used : BOOLEAN]
             new == [i \in 1 .. count |-> [nbl |-> n, last |-> i = count, used |-> FALSE]]
  <1>1. \A i \in 1 .. count : new[i] \in Slots
    OBVIOUS
  <1>2. count \in Nat /\ new \in [1 .. count -> Slots] /\ DOMAIN new = 1 .. count
    BY <1>1
  <1>3. new \in Seq(Slots)
    <2> HIDE DEF new, Slots
    <2> QED BY <1>2, SeqDef
  <1> QED BY <1>2, <1>3

\* StopHardware, as the invariant sees it.
LEMMA GemStops ==
  ASSUME NEW who, NEW later, Ge!StopHardware(who, later)
  PROVE  /\ op' = [by |-> who, at |-> "idle", speed |-> later]
         /\ ~run' /\ speed' = 0 /\ ~recovery' /\ ~irqRunning'
         /\ (mac' => mac /\ gone)
         /\ UNCHANGED <<suppressed, dpc, queued, tx, owned, done, rx, txgo, inflight>>
  BY DEF Ge!StopHardware, Ge!StopInterrupts, Ge!Doing, Ge!dpcs, Ge!lists

\* Who holds the mutex, step by step.
LEMMA GemOpStep ==
  ASSUME GemOpInv, GemStopInv, GemLifeInv, Ge!Next
  PROVE  GemOpInv'
  <1> USE DEF GemOpInv, GemStopInv, GemLifeInv, Ge!None, Stopping, Emptied, Ge!nic, Ge!link,
     Ge!irq, Ge!dpcs, Ge!lists, Ge!gem
  <1>1. CASE Ge!MacTransmits \/ Ge!MacSticks \/ Ge!MacReceives \/ Ge!MacRetires \/ Ge!MacFails
    BY <1>1 DEF Ge!MacTransmits, Ge!MacSticks, Ge!MacReceives, Ge!MacRetires, Ge!MacFails
  <1>2. CASE Ge!DisableInterrupt
    BY <1>2 DEF Ge!DisableInterrupt
  <1>3. CASE Ge!EnableInterrupt
    BY <1>3 DEF Ge!EnableInterrupt
  <1>4. CASE Ge!CompleteTransmit
    BY <1>4 DEF Ge!CompleteTransmit
  <1>5. CASE Ge!DpcCompletes
    BY <1>5 DEF Ge!DpcCompletes
  <1>6. CASE Ge!Indicate
    BY <1>6 DEF Ge!Indicate
  <1>7. CASE Ge!DpcEnd
    BY <1>7 DEF Ge!DpcEnd, Ge!RearmInterrupts, Ge!More
  <1>8. CASE Ge!StopWaits
    BY <1>8 DEF Ge!StopWaits
  <1>9. CASE Ge!StopDrains
    BY <1>9 DEF Ge!StopDrains
  <1>10. CASE Ge!StopCollects
    BY <1>10 DEF Ge!StopCollects
  <1>11. CASE Ge!StopCompletes
    BY <1>11 DEF Ge!StopCompletes
  <1>12. CASE Ge!Recover
    <2>1. thread /\ (recovery \/ run) /\ ~gone /\ UNCHANGED <<life, thread>>
      BY <1>12 DEF Ge!Recover
    <2>2. UNCHANGED <<fault, e_touched, retain, gone, powered, memory>>
      BY <1>12 DEF Ge!Recover
    <2>3. Ge!StopHardware("recover", speed)
      BY <1>12 DEF Ge!Recover
    <2> QED BY <2>1, <2>2, <2>3, GemStops
  <1>13. CASE Ge!NoRecovery
    BY <1>13 DEF Ge!NoRecovery, Ge!Doing
  <1>14. CASE Ge!LinkSame
    BY <1>14 DEF Ge!LinkSame
  <1>15. CASE Ge!Start
    BY <1>15 DEF Ge!Start, Ge!StartHardware, Ge!Doing
  <1>16. CASE Ge!Initialize
    BY <1>16 DEF Ge!Initialize
  <1>17. CASE Ge!Restart
    BY <1>17 DEF Ge!Restart, Ge!StartHardware
  <1>18. CASE Ge!Pause
    <2>1. life = "running" /\ UNCHANGED <<life, thread>>
      BY <1>18 DEF Ge!Pause
    <2>2. UNCHANGED <<fault, e_touched, retain, gone, powered, memory>>
      BY <1>18 DEF Ge!Pause
    <2>3. Ge!StopHardware("pause", 0)
      BY <1>18 DEF Ge!Pause
    <2> QED BY <2>1, <2>2, <2>3, GemStops
  <1>19. CASE Ge!Halt
    BY <1>19 DEF Ge!Halt, Ge!StopHardware, Ge!StopInterrupts, Ge!Doing
  <1>20. CASE Ge!Cleanup
    BY <1>20 DEF Ge!Cleanup
  <1>21. CASE Ge!Shutdown
    <2>1. life \in {"paused", "running"} /\ op = Ge!None /\ ~thread' /\ life' = life
      BY <1>21 DEF Ge!Shutdown
    <2>2. UNCHANGED <<fault, e_touched, retain, gone, powered, memory>>
      BY <1>21 DEF Ge!Shutdown
    <2>3. Ge!StopHardware("shutdown", 0)
      BY <1>21 DEF Ge!Shutdown
    <2> QED BY <2>1, <2>2, <2>3, GemStops
  <1>22. CASE Ge!SurpriseRemoved
    BY <1>22 DEF Ge!SurpriseRemoved, Ge!Doing
  <1>23. ASSUME NEW cpu \in Cpus, Ge!Interrupt(cpu)
        PROVE  GemOpInv'
    BY <1>23 DEF Ge!Interrupt
  <1>24. ASSUME NEW cpu \in Cpus, Ge!DpcRefused(cpu)
        PROVE  GemOpInv'
    BY <1>24 DEF Ge!DpcRefused, Ge!Serves
  <1>25. ASSUME NEW cpu \in Cpus, NEW most \in {1, Ge!All}, Ge!DpcBegin(cpu, most)
        PROVE  GemOpInv'
    BY <1>25 DEF Ge!DpcBegin, Ge!StopInterrupts, Ge!Serves
  <1>26. ASSUME NEW accept \in BOOLEAN, Ge!Receive(accept)
        PROVE  GemOpInv'
    BY <1>26 DEF Ge!Receive
  <1>27. ASSUME NEW accept \in BOOLEAN, Ge!SetPower(accept)
        PROVE  GemOpInv'
    BY <1>27 DEF Ge!SetPower
  <1>28. ASSUME NEW fast \in 0 .. 1, Ge!LinkChanged(fast)
        PROVE  GemOpInv'
    <2>1. run /\ ~gone /\ op.at = "check" /\ UNCHANGED <<life, thread>>
      BY <1>28 DEF Ge!LinkChanged
    <2>2. UNCHANGED <<fault, e_touched, retain, gone, powered, memory>>
      BY <1>28 DEF Ge!LinkChanged
    <2>3. Ge!StopHardware("link", fast)
      BY <1>28 DEF Ge!LinkChanged
    <2> QED BY <2>1, <2>2, <2>3, GemStops
  <1>29. ASSUME NEW n \in Nbls, NEW count \in 1 .. 2, Ge!Send(n, count)
        PROVE  GemOpInv'
    BY <1>29 DEF Ge!Send
  <1> QED BY <1>1, <1>2, <1>3, <1>4, <1>5, <1>6, <1>7, <1>8, <1>9, <1>10, <1>11, <1>12, <1>13,
     <1>14, <1>15, <1>16, <1>17, <1>18, <1>19, <1>20, <1>21, <1>22, <1>23, <1>24, <1>25, <1>26,
     <1>27, <1>28, <1>29 DEF Ge!Next

\* What has come to rest stays so until the mutex is given up or the adapter starts.
LEMMA GemStopStep ==
  ASSUME GemOpInv, GemStopInv, GemLifeInv, Ge!Next
  PROVE  GemStopInv'
  <1> USE DEF GemOpInv, GemStopInv, GemLifeInv, Ge!None, Stopping, Emptied, Ge!Quiet, Ge!nic,
     Ge!link, Ge!irq, Ge!dpcs, Ge!lists, Ge!gem
  <1>1. CASE Ge!MacTransmits \/ Ge!MacSticks \/ Ge!MacReceives \/ Ge!MacRetires \/ Ge!MacFails
    BY <1>1 DEF Ge!MacTransmits, Ge!MacSticks, Ge!MacReceives, Ge!MacRetires, Ge!MacFails
  <1>2. CASE Ge!DisableInterrupt
    BY <1>2 DEF Ge!DisableInterrupt
  <1>3. CASE Ge!EnableInterrupt
    BY <1>3 DEF Ge!EnableInterrupt
  <1>4. CASE Ge!CompleteTransmit
    BY <1>4 DEF Ge!CompleteTransmit
  <1>5. CASE Ge!DpcCompletes
    BY <1>5 DEF Ge!DpcCompletes
  <1>6. CASE Ge!Indicate
    BY <1>6 DEF Ge!Indicate
  <1>7. CASE Ge!DpcEnd
    BY <1>7 DEF Ge!DpcEnd, Ge!RearmInterrupts, Ge!More
  <1>8. CASE Ge!StopWaits
    BY <1>8 DEF Ge!StopWaits
  <1>9. CASE Ge!StopDrains
    <2>1. /\ op.at = "drain" /\ op' = [op EXCEPT !.at = "collect"]
          /\ op' \in [by : {op.by}, at : {"collect"}, speed : {op.speed}]
          /\ UNCHANGED <<life, thread, e_touched, gone, run, speed, recovery, dpc, tx, mac>>
      BY <1>9 DEF Ge!StopDrains, Ge!link, Ge!dpcs, Ge!lists, GemOpInv
    <2>2. (retain => retain') /\ (fault => fault')
      BY <1>9 DEF Ge!StopDrains
    <2>3. CASE e_touched /\ ~gone
      <3>1. /\ ~inflight' /\ (txgo' = "idle" \/ (fault' /\ retain'))
            /\ (fault' => fault \/ retain')
        <4>1. /\ retain' = (retain \/ txgo = "stuck") /\ fault' = (fault \/ txgo = "stuck")
              /\ txgo' = (IF txgo = "go" THEN "idle" ELSE txgo) /\ ~inflight'
              /\ txgo \in {"idle", "go", "stuck"}
          BY <1>9, <2>3 DEF Ge!StopDrains, GemLifeInv
        <4> QED BY <4>1
      <3> QED BY <2>1, <2>2, <2>3, <3>1
    <2>4. CASE ~(e_touched /\ ~gone)
      <3>1. UNCHANGED <<retain, fault, txgo, inflight>>
        BY <1>9, <2>4 DEF Ge!StopDrains
      <3> QED BY <2>1, <2>4, <3>1
    <2> QED BY <2>3, <2>4
  <1>10. CASE Ge!StopCollects
    BY <1>10 DEF Ge!StopCollects
  <1>11. CASE Ge!StopCompletes
    BY <1>11 DEF Ge!StopCompletes
  <1>12. CASE Ge!Recover
    <2>1. thread /\ (recovery \/ run) /\ ~gone /\ UNCHANGED <<life, thread>>
      BY <1>12 DEF Ge!Recover
    <2>2. UNCHANGED <<fault, e_touched, retain, gone, powered, memory>>
      BY <1>12 DEF Ge!Recover
    <2>3. Ge!StopHardware("recover", speed)
      BY <1>12 DEF Ge!Recover
    <2> QED BY <2>1, <2>2, <2>3, GemStops
  <1>13. CASE Ge!NoRecovery
    BY <1>13 DEF Ge!NoRecovery, Ge!Doing
  <1>14. CASE Ge!LinkSame
    BY <1>14 DEF Ge!LinkSame
  <1>15. CASE Ge!Start
    BY <1>15 DEF Ge!Start, Ge!StartHardware, Ge!Doing
  <1>16. CASE Ge!Initialize
    BY <1>16 DEF Ge!Initialize
  <1>17. CASE Ge!Restart
    BY <1>17 DEF Ge!Restart, Ge!StartHardware
  <1>18. CASE Ge!Pause
    <2>1. life = "running" /\ UNCHANGED <<life, thread>>
      BY <1>18 DEF Ge!Pause
    <2>2. UNCHANGED <<fault, e_touched, retain, gone, powered, memory>>
      BY <1>18 DEF Ge!Pause
    <2>3. Ge!StopHardware("pause", 0)
      BY <1>18 DEF Ge!Pause
    <2> QED BY <2>1, <2>2, <2>3, GemStops
  <1>19. CASE Ge!Halt
    <2>1. life = "paused" /\ op = Ge!None /\ thread /\ ~thread' /\ life' = life
      BY <1>19 DEF Ge!Halt
    <2>2. UNCHANGED <<fault, e_touched, retain, gone, powered, memory>>
      BY <1>19 DEF Ge!Halt
    <2>3. CASE e_touched
      <3>1. Ge!StopHardware("halt", 0)
        BY <1>19, <2>3 DEF Ge!Halt
      <3> QED BY <2>1, <2>2, <3>1, GemStops
    <2>4. CASE ~e_touched
      <3>1. /\ op' = [by |-> "halt", at |-> "free", speed |-> 0] /\ (mac' => mac /\ gone)
            /\ UNCHANGED <<run, speed, recovery, dpc, tx, txgo, inflight>>
        BY <1>19, <2>4 DEF Ge!Halt, Ge!Doing, Ge!link, Ge!dpcs, Ge!lists
      <3>2. Ge!Quiet \/ gone
        BY <2>1, <2>4 DEF GemLifeInv
      <3>3. Ge!Quiet' \/ gone
        BY <3>1, <3>2 DEF Ge!Quiet
      <3> QED BY <2>1, <2>2, <2>4, <3>1, <3>3
    <2> QED BY <2>3, <2>4
  <1>20. CASE Ge!Cleanup
    BY <1>20 DEF Ge!Cleanup
  <1>21. CASE Ge!Shutdown
    <2>1. life \in {"paused", "running"} /\ op = Ge!None /\ ~thread' /\ life' = life
      BY <1>21 DEF Ge!Shutdown
    <2>2. UNCHANGED <<fault, e_touched, retain, gone, powered, memory>>
      BY <1>21 DEF Ge!Shutdown
    <2>3. Ge!StopHardware("shutdown", 0)
      BY <1>21 DEF Ge!Shutdown
    <2> QED BY <2>1, <2>2, <2>3, GemStops
  <1>22. CASE Ge!SurpriseRemoved
    BY <1>22 DEF Ge!SurpriseRemoved, Ge!Doing
  <1>23. ASSUME NEW cpu \in Cpus, Ge!Interrupt(cpu)
        PROVE  GemStopInv'
    BY <1>23 DEF Ge!Interrupt
  <1>24. ASSUME NEW cpu \in Cpus, Ge!DpcRefused(cpu)
        PROVE  GemStopInv'
    BY <1>24 DEF Ge!DpcRefused, Ge!Serves
  <1>25. ASSUME NEW cpu \in Cpus, NEW most \in {1, Ge!All}, Ge!DpcBegin(cpu, most)
        PROVE  GemStopInv'
    BY <1>25 DEF Ge!DpcBegin, Ge!StopInterrupts, Ge!Serves
  <1>26. ASSUME NEW accept \in BOOLEAN, Ge!Receive(accept)
        PROVE  GemStopInv'
    BY <1>26 DEF Ge!Receive
  <1>27. ASSUME NEW accept \in BOOLEAN, Ge!SetPower(accept)
        PROVE  GemStopInv'
    BY <1>27 DEF Ge!SetPower
  <1>28. ASSUME NEW fast \in 0 .. 1, Ge!LinkChanged(fast)
        PROVE  GemStopInv'
    <2>1. run /\ ~gone /\ op.at = "check" /\ UNCHANGED <<life, thread>>
      BY <1>28 DEF Ge!LinkChanged
    <2>2. UNCHANGED <<fault, e_touched, retain, gone, powered, memory>>
      BY <1>28 DEF Ge!LinkChanged
    <2>3. Ge!StopHardware("link", fast)
      BY <1>28 DEF Ge!LinkChanged
    <2> QED BY <2>1, <2>2, <2>3, GemStops
  <1>29. ASSUME NEW n \in Nbls, NEW count \in 1 .. 2, Ge!Send(n, count)
        PROVE  GemStopInv'
    BY <1>29 DEF Ge!Send
  <1> QED BY <1>1, <1>2, <1>3, <1>4, <1>5, <1>6, <1>7, <1>8, <1>9, <1>10, <1>11, <1>12, <1>13,
     <1>14, <1>15, <1>16, <1>17, <1>18, <1>19, <1>20, <1>21, <1>22, <1>23, <1>24, <1>25, <1>26,
     <1>27, <1>28, <1>29 DEF Ge!Next

\* Between operations.
LEMMA GemLifeStep ==
  ASSUME GemOpInv, GemStopInv, GemLifeInv, Ge!Next
  PROVE  GemLifeInv'
  <1> USE DEF GemOpInv, GemStopInv, GemLifeInv, Ge!None, Stopping, Emptied, Ge!Quiet, Ge!nic,
     Ge!link, Ge!irq, Ge!dpcs, Ge!lists, Ge!gem
  <1>1. CASE Ge!MacTransmits \/ Ge!MacSticks \/ Ge!MacReceives \/ Ge!MacRetires \/ Ge!MacFails
    BY <1>1 DEF Ge!MacTransmits, Ge!MacSticks, Ge!MacReceives, Ge!MacRetires, Ge!MacFails
  <1>2. CASE Ge!DisableInterrupt
    BY <1>2 DEF Ge!DisableInterrupt
  <1>3. CASE Ge!EnableInterrupt
    BY <1>3 DEF Ge!EnableInterrupt
  <1>4. CASE Ge!CompleteTransmit
    BY <1>4 DEF Ge!CompleteTransmit
  <1>5. CASE Ge!DpcCompletes
    BY <1>5 DEF Ge!DpcCompletes
  <1>6. CASE Ge!Indicate
    BY <1>6 DEF Ge!Indicate
  <1>7. CASE Ge!DpcEnd
    BY <1>7 DEF Ge!DpcEnd, Ge!RearmInterrupts, Ge!More
  <1>8. CASE Ge!StopWaits
    BY <1>8 DEF Ge!StopWaits
  <1>9. CASE Ge!StopDrains
    BY <1>9 DEF Ge!StopDrains
  <1>10. CASE Ge!StopCollects
    BY <1>10 DEF Ge!StopCollects
  <1>11. CASE Ge!StopCompletes
    BY <1>11 DEF Ge!StopCompletes
  <1>12. CASE Ge!Recover
    <2>1. thread /\ (recovery \/ run) /\ ~gone /\ UNCHANGED <<life, thread>>
      BY <1>12 DEF Ge!Recover
    <2>2. UNCHANGED <<fault, e_touched, retain, gone, powered, memory>>
      BY <1>12 DEF Ge!Recover
    <2>3. Ge!StopHardware("recover", speed)
      BY <1>12 DEF Ge!Recover
    <2> QED BY <2>1, <2>2, <2>3, GemStops
  <1>13. CASE Ge!NoRecovery
    BY <1>13 DEF Ge!NoRecovery, Ge!Doing
  <1>14. CASE Ge!LinkSame
    BY <1>14 DEF Ge!LinkSame
  <1>15. CASE Ge!Start
    BY <1>15 DEF Ge!Start, Ge!StartHardware, Ge!Doing
  <1>16. CASE Ge!Initialize
    BY <1>16 DEF Ge!Initialize
  <1>17. CASE Ge!Restart
    BY <1>17 DEF Ge!Restart, Ge!StartHardware
  <1>18. CASE Ge!Pause
    <2>1. life = "running" /\ UNCHANGED <<life, thread>>
      BY <1>18 DEF Ge!Pause
    <2>2. UNCHANGED <<fault, e_touched, retain, gone, powered, memory>>
      BY <1>18 DEF Ge!Pause
    <2>3. Ge!StopHardware("pause", 0)
      BY <1>18 DEF Ge!Pause
    <2> QED BY <2>1, <2>2, <2>3, GemStops
  <1>19. CASE Ge!Halt
    <2>1. life = "paused" /\ op = Ge!None /\ thread /\ ~thread' /\ life' = life
      BY <1>19 DEF Ge!Halt
    <2>2. UNCHANGED <<fault, e_touched, retain, gone, powered, memory>>
      BY <1>19 DEF Ge!Halt
    <2>3. CASE e_touched
      <3>1. Ge!StopHardware("halt", 0)
        BY <1>19, <2>3 DEF Ge!Halt
      <3> QED BY <2>1, <2>2, <3>1, GemStops
    <2>4. CASE ~e_touched
      <3>1. /\ op' = [by |-> "halt", at |-> "free", speed |-> 0] /\ (mac' => mac /\ gone)
            /\ UNCHANGED <<run, speed, recovery, dpc, tx, txgo, inflight>>
        BY <1>19, <2>4 DEF Ge!Halt, Ge!Doing, Ge!link, Ge!dpcs, Ge!lists
      <3>2. Ge!Quiet \/ gone
        BY <2>1, <2>4 DEF GemLifeInv
      <3>3. Ge!Quiet' \/ gone
        BY <3>1, <3>2 DEF Ge!Quiet
      <3> QED BY <2>1, <2>2, <2>4, <3>1, <3>3
    <2> QED BY <2>3, <2>4
  <1>20. CASE Ge!Cleanup
    BY <1>20 DEF Ge!Cleanup
  <1>21. CASE Ge!Shutdown
    <2>1. life \in {"paused", "running"} /\ op = Ge!None /\ ~thread' /\ life' = life
      BY <1>21 DEF Ge!Shutdown
    <2>2. UNCHANGED <<fault, e_touched, retain, gone, powered, memory>>
      BY <1>21 DEF Ge!Shutdown
    <2>3. Ge!StopHardware("shutdown", 0)
      BY <1>21 DEF Ge!Shutdown
    <2> QED BY <2>1, <2>2, <2>3, GemStops
  <1>22. CASE Ge!SurpriseRemoved
    BY <1>22 DEF Ge!SurpriseRemoved, Ge!Doing
  <1>23. ASSUME NEW cpu \in Cpus, Ge!Interrupt(cpu)
        PROVE  GemLifeInv'
    BY <1>23 DEF Ge!Interrupt
  <1>24. ASSUME NEW cpu \in Cpus, Ge!DpcRefused(cpu)
        PROVE  GemLifeInv'
    BY <1>24 DEF Ge!DpcRefused, Ge!Serves
  <1>25. ASSUME NEW cpu \in Cpus, NEW most \in {1, Ge!All}, Ge!DpcBegin(cpu, most)
        PROVE  GemLifeInv'
    BY <1>25 DEF Ge!DpcBegin, Ge!StopInterrupts, Ge!Serves
  <1>26. ASSUME NEW accept \in BOOLEAN, Ge!Receive(accept)
        PROVE  GemLifeInv'
    BY <1>26 DEF Ge!Receive
  <1>27. ASSUME NEW accept \in BOOLEAN, Ge!SetPower(accept)
        PROVE  GemLifeInv'
    BY <1>27 DEF Ge!SetPower
  <1>28. ASSUME NEW fast \in 0 .. 1, Ge!LinkChanged(fast)
        PROVE  GemLifeInv'
    <2>1. run /\ ~gone /\ op.at = "check" /\ UNCHANGED <<life, thread>>
      BY <1>28 DEF Ge!LinkChanged
    <2>2. UNCHANGED <<fault, e_touched, retain, gone, powered, memory>>
      BY <1>28 DEF Ge!LinkChanged
    <2>3. Ge!StopHardware("link", fast)
      BY <1>28 DEF Ge!LinkChanged
    <2> QED BY <2>1, <2>2, <2>3, GemStops
  <1>29. ASSUME NEW n \in Nbls, NEW count \in 1 .. 2, Ge!Send(n, count)
        PROVE  GemLifeInv'
    BY <1>29 DEF Ge!Send
  <1> QED BY <1>1, <1>2, <1>3, <1>4, <1>5, <1>6, <1>7, <1>8, <1>9, <1>10, <1>11, <1>12, <1>13,
     <1>14, <1>15, <1>16, <1>17, <1>18, <1>19, <1>20, <1>21, <1>22, <1>23, <1>24, <1>25, <1>26,
     <1>27, <1>28, <1>29 DEF Ge!Next

\* The MAC has handed back the first k slots, and no other.
Prefix(slots, k) == \A i \in 1 .. Len(slots) : slots[i].used <=> i <= k

\* The instance's Cardinality is the one the library speaks of.
LEMMA GemCardinality == \A S : Ge!Cardinality(S) = Cardinality(S)
  BY DEF Ge!Cardinality, Cardinality

\* Sent counts the prefix.
LEMMA GemSent ==
  ASSUME GemRingInv
  PROVE  Ge!Sent \in 0 .. Len(tx) /\ Prefix(tx, Ge!Sent)
  <1>1. /\ tx \in Seq([nbl : Nbls, last : BOOLEAN, used : BOOLEAN])
        /\ \E k \in 0 .. Len(tx) : Prefix(tx, k)
    BY DEF GemRingInv, Prefix
  <1>2. PICK k \in 0 .. Len(tx) : Prefix(tx, k)
    BY <1>1
  <1>3. DOMAIN tx = 1 .. Len(tx) /\ Len(tx) \in Nat /\ k \in Nat
    BY <1>1
  <1>4. {i \in DOMAIN tx : tx[i].used} = 1 .. k
    BY <1>2, <1>3 DEF Prefix
  <1>5. Cardinality(1 .. k) = k
    BY <1>3, FS_Interval
  <1>6. Ge!Sent = k
    BY <1>4, <1>5, GemCardinality DEF Ge!Sent
  <1> QED BY <1>2, <1>6

GemSlots == [nbl : Nbls, last : BOOLEAN, used : BOOLEAN]

\* What CompleteTransmit takes out is a prefix of the ring.
LEMMA GemTakesOut ==
  ASSUME GemRingInv, Ge!CompleteTransmit
  PROVE  \E n \in 0 .. Len(tx) :
           /\ n = 0 \/ n = Ge!Sent
           /\ done' = [done EXCEPT !["dpc"] = Ge!Ended(n)]
           /\ tx' \in Seq(GemSlots) /\ Len(tx') = Len(tx) - n
           /\ \A i \in 1 .. Len(tx') : tx'[i] = tx[i + n]
  <1> DEFINE n == IF run THEN Ge!Sent ELSE 0
  <1>0. tx \in Seq(GemSlots) /\ Len(tx) \in Nat /\ Ge!Sent \in 0 .. Len(tx)
    BY GemSent DEF GemRingInv, GemSlots
  <1>1. /\ n \in 0 .. Len(tx) /\ n \in Nat /\ (n = 0 \/ n = Ge!Sent)
        /\ tx' = SubSeq(tx, n + 1, Len(tx)) /\ done' = [done EXCEPT !["dpc"] = Ge!Ended(n)]
    BY <1>0 DEF Ge!CompleteTransmit
  <1> HIDE DEF n
  <1>2. \A i \in n + 1 .. Len(tx) : tx[i] \in GemSlots
    BY <1>0, <1>1, ElementOfSeq
  <1>3. n + 1 \in Int /\ Len(tx) \in Int
    BY <1>0, <1>1
  <1>4. /\ tx' \in Seq(GemSlots)
        /\ Len(tx') = IF n + 1 <= Len(tx) THEN Len(tx) - (n + 1) + 1 ELSE 0
        /\ \A i \in 1 .. Len(tx) - (n + 1) + 1 : tx'[i] = tx[(n + 1) + i - 1]
    BY <1>1, <1>2, <1>3, SubSeqProperties
  <1>5. Len(tx') = Len(tx) - n
    BY <1>0, <1>1, <1>4
  <1>6. ASSUME NEW i \in 1 .. Len(tx')
        PROVE  tx'[i] = tx[i + n]
    <2>1. i \in 1 .. Len(tx) - (n + 1) + 1 /\ (n + 1) + i - 1 = i + n
      BY <1>0, <1>1, <1>5
    <2> QED BY <1>4, <2>1
  <1> QED BY <1>1, <1>4, <1>5, <1>6

\* A send publishes the slots of its list behind the others, the last one marked.
LEMMA GemPublishes ==
  ASSUME GemRingInv, NEW n \in Nbls, NEW count \in 1 .. 2, Ge!Send(n, count)
  PROVE  /\ tx' \in Seq(GemSlots) /\ Len(tx') = Len(tx) + count /\ rx' = rx
         /\ \A i \in 1 .. Len(tx) : tx'[i] = tx[i]
         /\ \A i \in Len(tx) + 1 .. Len(tx') :
              tx'[i].nbl = n /\ ~tx'[i].used /\ (tx'[i].last <=> i = Len(tx'))
  <1> DEFINE new == [i \in 1 .. count |-> [nbl |-> n, last |-> i = count, used |-> FALSE]]
  <1>0. tx \in Seq(GemSlots) /\ Len(tx) \in Nat
    BY DEF GemRingInv, GemSlots
  <1>1. tx' = tx \o new /\ rx' = rx
    BY DEF Ge!Send
  <1>2. new \in Seq(GemSlots) /\ Len(new) = count
    BY NewSlots DEF GemSlots
  <1>3. ASSUME NEW i \in 1 .. count
        PROVE  new[i].nbl = n /\ ~new[i].used /\ (new[i].last <=> i = count)
    <2>1. new[i].used = FALSE /\ new[i].nbl = n
      OBVIOUS
    <2>2. new[i].last <=> i = count
      OBVIOUS
    <2> QED BY <2>1, <2>2
  <1> HIDE DEF new
  <1>4. /\ tx' \in Seq(GemSlots) /\ Len(tx') = Len(tx) + count
        /\ \A i \in 1 .. Len(tx) : tx'[i] = tx[i]
        /\ \A i \in Len(tx) + 1 .. Len(tx') : tx'[i] = new[i - Len(tx)]
    BY <1>0, <1>1, <1>2
  <1>5. ASSUME NEW i \in Len(tx) + 1 .. Len(tx')
        PROVE  tx'[i].nbl = n /\ ~tx'[i].used /\ (tx'[i].last <=> i = Len(tx'))
    <2>1. i - Len(tx) \in 1 .. count /\ tx'[i] = new[i - Len(tx)]
      BY <1>0, <1>4
    <2>2. i - Len(tx) = count <=> i = Len(tx')
      BY <1>0, <1>4
    <2> QED BY <1>3, <2>1, <2>2
  <1> QED BY <1>1, <1>4, <1>5

\* The MAC hands back the slot after those it has handed back.
LEMMA GemHandsBack ==
  ASSUME GemRingInv, Ge!MacTransmits
  PROVE  /\ Ge!Sent + 1 \in 1 .. Len(tx) /\ Len(tx') = Len(tx) /\ rx' = rx
         /\ tx' \in Seq(GemSlots) /\ tx'[Ge!Sent + 1].used
         /\ \A i \in 1 .. Len(tx) : /\ tx'[i].nbl = tx[i].nbl /\ (tx'[i].last <=> tx[i].last)
                                    /\ i # Ge!Sent + 1 => tx'[i] = tx[i]
  <1> DEFINE k == Ge!Sent
  <1>0. tx \in Seq(GemSlots) /\ Len(tx) \in Nat /\ k \in 0 .. Len(tx)
    BY GemSent DEF GemRingInv, GemSlots
  <1>1. k < Len(tx) /\ tx' = [tx EXCEPT ![k + 1].used = TRUE] /\ rx' = rx
    BY DEF Ge!MacTransmits
  <1> HIDE DEF k
  <1>2. k \in Nat /\ k + 1 \in 1 .. Len(tx)
    BY <1>0, <1>1
  <1>3. tx \in [1 .. Len(tx) -> GemSlots] /\ tx[k + 1] \in GemSlots
    <2>1. tx \in [1 .. Len(tx) -> GemSlots]
      BY <1>0, LenProperties
    <2> QED BY <1>2, <2>1
  <1>4. [tx[k + 1] EXCEPT !.used = TRUE] \in GemSlots
    BY <1>3 DEF GemSlots
  <1>5. tx' = [tx EXCEPT ![k + 1] = [tx[k + 1] EXCEPT !.used = TRUE]]
    BY <1>1
  <1>6. tx' \in Seq(GemSlots) /\ Len(tx') = Len(tx)
    BY <1>0, <1>2, <1>4, <1>5
  <1>7. \A i \in 1 .. Len(tx) : i # k + 1 => tx'[i] = tx[i]
    BY <1>2, <1>3, <1>5
  <1>8. tx'[k + 1] = [tx[k + 1] EXCEPT !.used = TRUE]
    BY <1>2, <1>3, <1>5
  <1>9. tx'[k + 1].used = TRUE
    BY <1>3, <1>8 DEF GemSlots
  <1>10. tx'[k + 1].nbl = tx[k + 1].nbl /\ tx'[k + 1].last = tx[k + 1].last
    BY <1>3, <1>8 DEF GemSlots
  <1> QED BY <1>1, <1>2, <1>6, <1>7, <1>9, <1>10 DEF k

\* A step extends the ring, hands a slot back or takes a prefix out.
LEMMA GemRingStep ==
  ASSUME GemOpInv, GemStopInv, GemLifeInv, GemRingInv, Ge!Next
  PROVE  GemRingInv'
  <1> DEFINE Slots == [nbl : Nbls, last : BOOLEAN, used : BOOLEAN]
  <1>0. /\ tx \in Seq(Slots) /\ rx \in Int /\ Len(tx) \in Nat
        /\ Ge!Sent \in 0 .. Len(tx) /\ Prefix(tx, Ge!Sent) /\ Ge!Sent \in Nat
    BY GemSent DEF GemRingInv
  <1> SUFFICES /\ tx' \in Seq(Slots) /\ rx' \in Int
               /\ \E k \in 0 .. Len(tx') : Prefix(tx', k)
    BY DEF GemRingInv, Prefix
  <1>u. ASSUME tx' = tx, rx' \in Int
        PROVE  tx' \in Seq(Slots) /\ rx' \in Int /\ \E k \in 0 .. Len(tx') : Prefix(tx', k)
    BY <1>0, <1>u DEF Prefix
  <1>e. ASSUME tx' = <<>>, rx' \in Int
        PROVE  tx' \in Seq(Slots) /\ rx' \in Int /\ \E k \in 0 .. Len(tx') : Prefix(tx', k)
    <2>1. Len(tx') = 0 /\ tx' \in Seq(Slots)
      BY <1>e
    <2>2. Prefix(tx', 0)
      BY <2>1 DEF Prefix
    <2> QED BY <1>e, <2>1, <2>2
  <1>1. CASE Ge!CompleteTransmit
    <2>1. PICK n \in 0 .. Len(tx) : /\ n = 0 \/ n = Ge!Sent
                                  /\ tx' \in Seq(Slots) /\ Len(tx') = Len(tx) - n
                                  /\ \A i \in 1 .. Len(tx') : tx'[i] = tx[i + n]
      BY <1>1, GemTakesOut DEF GemSlots
    <2>2. rx' = rx
      BY <1>1 DEF Ge!CompleteTransmit, Ge!gem
    <2> DEFINE k == Ge!Sent - n
    <2>3. k \in 0 .. Len(tx') /\ (n = 0 => k = Ge!Sent) /\ k + n = Ge!Sent
      BY <1>0, <2>1
    <2> HIDE DEF k
    <2>4. Prefix(tx', k)
      <3> SUFFICES ASSUME NEW i \in 1 .. Len(tx')
                   PROVE  tx'[i].used <=> i <= k
        BY DEF Prefix
      <3>1. i + n \in 1 .. Len(tx) /\ tx'[i] = tx[i + n]
        BY <1>0, <2>1
      <3>2. tx[i + n].used <=> i + n <= Ge!Sent
        BY <1>0, <3>1 DEF Prefix
      <3>3. i + n <= Ge!Sent <=> i <= k
        BY <1>0, <2>1, <2>3
      <3> QED BY <3>1, <3>2, <3>3
    <2> QED BY <1>0, <2>1, <2>2, <2>3, <2>4
  <1>2. CASE Ge!StopCollects
    BY <1>0, <1>2, <1>e DEF Ge!StopCollects, Ge!gem
  <1>3. ASSUME NEW n \in Nbls, NEW count \in 1 .. 2, Ge!Send(n, count)
        PROVE  tx' \in Seq(Slots) /\ rx' \in Int /\ \E k \in 0 .. Len(tx') : Prefix(tx', k)
    <2> DEFINE k == Ge!Sent
    <2> HIDE DEF k
    <2>1. /\ tx' \in Seq(Slots) /\ Len(tx') = Len(tx) + count /\ rx' = rx
          /\ \A i \in 1 .. Len(tx) : tx'[i] = tx[i]
          /\ \A i \in Len(tx) + 1 .. Len(tx') : ~tx'[i].used
      BY <1>3, GemPublishes DEF GemSlots
    <2>2. ASSUME NEW i \in 1 .. Len(tx')
          PROVE  tx'[i].used <=> i <= k
      <3>1. CASE i <= Len(tx)
        BY <1>0, <2>1, <3>1 DEF Prefix, k
      <3>2. CASE i > Len(tx)
        BY <1>0, <2>1, <3>2 DEF k
      <3> QED BY <1>0, <3>1, <3>2
    <2>3. Prefix(tx', k) /\ k \in 0 .. Len(tx')
      BY <1>0, <2>1, <2>2 DEF Prefix, k
    <2> QED BY <1>0, <2>1, <2>3
  <1>4. CASE Ge!MacTransmits
    <2> DEFINE k == Ge!Sent
    <2>1. /\ k + 1 \in 1 .. Len(tx) /\ Len(tx') = Len(tx) /\ rx' = rx /\ tx' \in Seq(Slots)
          /\ tx'[k + 1].used /\ \A i \in 1 .. Len(tx) : i # k + 1 => tx'[i] = tx[i]
      BY <1>4, GemHandsBack DEF GemSlots
    <2>0. k \in Nat /\ Prefix(tx, k)
      BY <1>0
    <2> HIDE DEF k
    <2>2. ASSUME NEW i \in 1 .. Len(tx')
          PROVE  tx'[i].used <=> i <= k + 1
      <3>1. CASE i = k + 1
        BY <2>0, <2>1, <3>1
      <3>2. CASE i # k + 1
        <4>1. tx'[i] = tx[i] /\ (tx[i].used <=> i <= k)
          BY <2>0, <2>1, <3>2 DEF Prefix
        <4> QED BY <2>0, <3>2, <4>1
      <3> QED BY <3>1, <3>2
    <2>3. Prefix(tx', k + 1) /\ k + 1 \in 0 .. Len(tx')
      BY <2>0, <2>1, <2>2 DEF Prefix
    <2> QED BY <1>0, <2>1, <2>3
  <1>5. (tx' = tx /\ rx' \in Int) \/ Ge!CompleteTransmit \/ Ge!StopCollects \/ Ge!MacTransmits
        \/ \E n \in Nbls, count \in 1 .. 2 : Ge!Send(n, count)
    <2> USE DEF Ge!nic, Ge!link, Ge!irq, Ge!dpcs, Ge!lists, Ge!gem
    <2>1. CASE Ge!DisableInterrupt
      BY <1>0, <2>1 DEF Ge!DisableInterrupt
    <2>2. CASE Ge!EnableInterrupt
      BY <1>0, <2>2 DEF Ge!EnableInterrupt
    <2>3. CASE Ge!DpcCompletes
      BY <1>0, <2>3 DEF Ge!DpcCompletes
    <2>4. CASE Ge!Indicate
      BY <1>0, <2>4 DEF Ge!Indicate
    <2>5. CASE Ge!DpcEnd
      BY <1>0, <2>5 DEF Ge!DpcEnd, Ge!RearmInterrupts, Ge!More
    <2>6. CASE Ge!StopWaits
      BY <1>0, <2>6 DEF Ge!StopWaits
    <2>7. CASE Ge!StopDrains
      BY <1>0, <2>7 DEF Ge!StopDrains
    <2>8. CASE Ge!StopCompletes
      BY <1>0, <2>8 DEF Ge!StopCompletes
    <2>9. CASE Ge!Recover
      BY <1>0, <2>9 DEF Ge!Recover, Ge!StopHardware, Ge!StopInterrupts, Ge!Doing
    <2>10. CASE Ge!NoRecovery
      BY <1>0, <2>10 DEF Ge!NoRecovery, Ge!Doing
    <2>11. CASE Ge!LinkSame
      BY <1>0, <2>11 DEF Ge!LinkSame
    <2>12. CASE Ge!Start
      BY <1>0, <2>12 DEF Ge!Start, Ge!StartHardware, Ge!Doing
    <2>13. CASE Ge!Initialize
      BY <1>0, <2>13 DEF Ge!Initialize
    <2>14. CASE Ge!Restart
      BY <1>0, <2>14 DEF Ge!Restart, Ge!StartHardware
    <2>15. CASE Ge!Pause
      BY <1>0, <2>15 DEF Ge!Pause, Ge!StopHardware, Ge!StopInterrupts, Ge!Doing
    <2>16. CASE Ge!Halt
      BY <1>0, <2>16 DEF Ge!Halt, Ge!StopHardware, Ge!StopInterrupts, Ge!Doing
    <2>17. CASE Ge!Cleanup
      BY <1>0, <2>17 DEF Ge!Cleanup
    <2>18. CASE Ge!Shutdown
      BY <1>0, <2>18 DEF Ge!Shutdown, Ge!StopHardware, Ge!StopInterrupts, Ge!Doing
    <2>19. CASE Ge!SurpriseRemoved
      BY <1>0, <2>19 DEF Ge!SurpriseRemoved, Ge!Doing
    <2>20. CASE Ge!MacSticks
      BY <1>0, <2>20 DEF Ge!MacSticks
    <2>21. CASE Ge!MacReceives
      BY <1>0, <2>21 DEF Ge!MacReceives
    <2>22. CASE Ge!MacRetires
      BY <1>0, <2>22 DEF Ge!MacRetires
    <2>23. CASE Ge!MacFails
      BY <1>0, <2>23 DEF Ge!MacFails
    <2>24. ASSUME NEW cpu \in Cpus, Ge!Interrupt(cpu)
          PROVE  tx' = tx /\ rx' \in Int
      BY <1>0, <2>24 DEF Ge!Interrupt
    <2>25. ASSUME NEW cpu \in Cpus, Ge!DpcRefused(cpu)
          PROVE  tx' = tx /\ rx' \in Int
      BY <1>0, <2>25 DEF Ge!DpcRefused, Ge!Serves
    <2>26. ASSUME NEW cpu \in Cpus, NEW most \in {1, Ge!All}, Ge!DpcBegin(cpu, most)
          PROVE  tx' = tx /\ rx' \in Int
      BY <1>0, <2>26 DEF Ge!DpcBegin, Ge!StopInterrupts, Ge!Serves
    <2>27. ASSUME NEW accept \in BOOLEAN, Ge!Receive(accept)
          PROVE  tx' = tx /\ rx' \in Int
      BY <1>0, <2>27 DEF Ge!Receive
    <2>28. ASSUME NEW accept \in BOOLEAN, Ge!SetPower(accept)
          PROVE  tx' = tx /\ rx' \in Int
      BY <1>0, <2>28 DEF Ge!SetPower
    <2>29. ASSUME NEW fast \in 0 .. 1, Ge!LinkChanged(fast)
          PROVE  tx' = tx /\ rx' \in Int
      BY <1>0, <2>29 DEF Ge!LinkChanged, Ge!StopHardware, Ge!StopInterrupts, Ge!Doing
    <2> QED BY <2>1, <2>2, <2>3, <2>4, <2>5, <2>6, <2>7, <2>8, <2>9, <2>10, <2>11, <2>12, <2>13,
       <2>14, <2>15, <2>16, <2>17, <2>18, <2>19, <2>20, <2>21, <2>22, <2>23, <2>24, <2>25, <2>26,
       <2>27, <2>28, <2>29 DEF Ge!Next
  <1> QED BY <1>1, <1>2, <1>3, <1>4, <1>5, <1>u

\* No step that leaves something in the rings takes away what will look at it.
LEMMA GemWakeStep ==
  ASSUME GemOpInv, GemStopInv, GemLifeInv, GemRingInv, GemWakeInv, Ge!Next
  PROVE  GemWakeInv'
  <1>0. tx \in Seq([nbl : Nbls, last : BOOLEAN, used : BOOLEAN]) /\ rx \in Int
    BY DEF GemRingInv
  <1> USE DEF GemWakeInv, GemOpInv, GemStopInv, GemLifeInv, Stopping, Emptied, Handed, Ge!nic,
     Ge!link, Ge!irq, Ge!dpcs, Ge!lists, Ge!gem
  <1>1. CASE Ge!DisableInterrupt
    BY <1>0, <1>1 DEF Ge!DisableInterrupt
  <1>2. CASE Ge!EnableInterrupt
    BY <1>0, <1>2 DEF Ge!EnableInterrupt
  <1>3. CASE Ge!CompleteTransmit
    BY <1>3 DEF Ge!CompleteTransmit, Ge!nic, Ge!link, Ge!irq
  <1>4. CASE Ge!DpcCompletes
    BY <1>0, <1>4 DEF Ge!DpcCompletes
  <1>5. CASE Ge!Indicate
    BY <1>0, <1>5 DEF Ge!Indicate
  <1>6. CASE Ge!DpcEnd
    <2>1. UNCHANGED <<run, speed, gone, irqRunning, suppressed, rx, tx, isr>>
      BY <1>6 DEF Ge!DpcEnd, Ge!nic, Ge!link, Ge!lists
    <2>2. CASE ~run \/ gone
      BY <2>1, <2>2
    <2>3. CASE run /\ ~gone /\ Ge!More
      <3>1. queued' = queued \union {dpcCpu} /\ UNCHANGED <<deferred, imr>>
        BY <1>6, <2>3 DEF Ge!DpcEnd
      <3>2. queued' # {}
        BY <3>1
      <3> QED BY <2>1, <3>2
    <2>4. CASE run /\ ~gone /\ ~Ge!More
      <3>1. Ge!RearmInterrupts
        BY <1>6, <2>4 DEF Ge!DpcEnd
      <3>2. ~deferred' /\ (irqRunning => imr' \/ suppressed)
        BY <2>4, <3>1 DEF Ge!RearmInterrupts
      <3>3. ~(rx > 0 \/ Handed)
        BY <1>0, <2>4 DEF Ge!More, Handed
      <3>4. Handed' = Handed
        BY <2>1 DEF Handed
      <3> QED BY <2>1, <3>2, <3>3, <3>4
    <2> QED BY <2>2, <2>3, <2>4
  <1>7. CASE Ge!StopWaits
    BY <1>0, <1>7 DEF Ge!StopWaits
  <1>8. CASE Ge!StopDrains
    BY <1>0, <1>8 DEF Ge!StopDrains
  <1>9. CASE Ge!StopCollects
    BY <1>0, <1>9 DEF Ge!StopCollects
  <1>10. CASE Ge!StopCompletes
    BY <1>0, <1>10 DEF Ge!StopCompletes
  <1>11. CASE Ge!Recover
    BY <1>11 DEF Ge!Recover, Ge!StopHardware
  <1>12. CASE Ge!NoRecovery
    BY <1>0, <1>12 DEF Ge!NoRecovery, Ge!Doing
  <1>13. CASE Ge!LinkSame
    BY <1>0, <1>13 DEF Ge!LinkSame
  <1>14. CASE Ge!Start
    <2>1. tx = <<>> /\ tx' = tx /\ rx' = 0 /\ queued' = queued /\ suppressed' = suppressed
      BY <1>14 DEF Ge!Start, Ge!StartHardware, Ge!lists, Ge!dpcs, GemStopInv
    <2>2. speed' > 0 => irqRunning' /\ ~deferred' /\ (imr' \/ suppressed)
      BY <1>14 DEF Ge!Start, Ge!StartHardware
    <2> QED BY <2>1, <2>2
  <1>15. CASE Ge!Initialize
    BY <1>0, <1>15 DEF Ge!Initialize
  <1>16. CASE Ge!Restart
    <2>1. speed' = 0
      BY <1>16 DEF Ge!Restart, Ge!StartHardware
    <2> QED BY <2>1
  <1>17. CASE Ge!Pause
    BY <1>17 DEF Ge!Pause, Ge!StopHardware
  <1>18. CASE Ge!Halt
    BY <1>18, <1>0 DEF Ge!Halt, Ge!StopHardware, Ge!link
  <1>19. CASE Ge!Cleanup
    BY <1>0, <1>19 DEF Ge!Cleanup
  <1>20. CASE Ge!Shutdown
    BY <1>20 DEF Ge!Shutdown, Ge!StopHardware
  <1>21. CASE Ge!SurpriseRemoved
    BY <1>0, <1>21 DEF Ge!SurpriseRemoved, Ge!Doing
  <1>22. CASE Ge!MacTransmits
    BY <1>0, <1>22 DEF Ge!MacTransmits
  <1>23. CASE Ge!MacSticks
    BY <1>0, <1>23 DEF Ge!MacSticks
  <1>24. CASE Ge!MacReceives
    BY <1>0, <1>24 DEF Ge!MacReceives
  <1>25. CASE Ge!MacRetires
    BY <1>0, <1>25 DEF Ge!MacRetires
  <1>26. CASE Ge!MacFails
    BY <1>0, <1>26 DEF Ge!MacFails
  <1>27. ASSUME NEW cpu \in Cpus, Ge!Interrupt(cpu)
        PROVE  GemWakeInv'
    BY <1>0, <1>27 DEF Ge!Interrupt
  <1>28. ASSUME NEW cpu \in Cpus, Ge!DpcRefused(cpu)
        PROVE  GemWakeInv'
    BY <1>0, <1>28 DEF Ge!DpcRefused, Ge!Serves
  <1>29. ASSUME NEW cpu \in Cpus, NEW most \in {1, Ge!All}, Ge!DpcBegin(cpu, most)
        PROVE  GemWakeInv'
    BY <1>0, <1>29 DEF Ge!DpcBegin, Ge!StopInterrupts, Ge!Serves
  <1>30. ASSUME NEW accept \in BOOLEAN, Ge!Receive(accept)
        PROVE  GemWakeInv'
    BY <1>0, <1>30 DEF Ge!Receive
  <1>31. ASSUME NEW accept \in BOOLEAN, Ge!SetPower(accept)
        PROVE  GemWakeInv'
    BY <1>0, <1>31 DEF Ge!SetPower
  <1>32. ASSUME NEW fast \in 0 .. 1, Ge!LinkChanged(fast)
        PROVE  GemWakeInv'
    BY <1>32 DEF Ge!LinkChanged, Ge!StopHardware
  <1>33. ASSUME NEW n \in Nbls, NEW count \in 1 .. 2, Ge!Send(n, count)
        PROVE  GemWakeInv'
    <2> DEFINE new == [i \in 1 .. count |-> [nbl |-> n, last |-> i = count, used |-> FALSE]]
    <2>1. /\ tx' = tx \o new
          /\ UNCHANGED <<run, speed, gone, irqRunning, deferred, suppressed, dpc, queued, rx,
                         isr, imr>>
      BY <1>33 DEF Ge!Send, Ge!nic, Ge!link, Ge!irq, Ge!dpcs
    <2>2. Handed' => Handed
      <3>1. count \in Nat /\ count >= 1 /\ new[1].used = FALSE
        OBVIOUS
      <3>2. new \in Seq([nbl : Nbls, last : BOOLEAN, used : BOOLEAN]) /\ Len(new) = count
        BY <1>33, NewSlots
      <3> HIDE DEF new
      <3>3. CASE tx = <<>>
        BY <2>1, <3>1, <3>2, <3>3 DEF Handed
      <3>4. CASE tx # <<>>
        <4>1. tx'[1] = tx[1]
          BY <1>0, <2>1, <3>2, <3>4
        <4> QED BY <3>4, <4>1 DEF Handed
      <3> QED BY <3>3, <3>4
    <2> HIDE DEF new
    <2> QED BY <2>1, <2>2
  <1> QED BY <1>1, <1>2, <1>3, <1>4, <1>5, <1>6, <1>7, <1>8, <1>9, <1>10, <1>11, <1>12, <1>13,
     <1>14, <1>15, <1>16, <1>17, <1>18, <1>19, <1>20, <1>21, <1>22, <1>23, <1>24, <1>25, <1>26,
     <1>27, <1>28, <1>29, <1>30, <1>31, <1>32, <1>33 DEF Ge!Next

LEMMA GemInitInv == Ge!Init => GemInv
  <1> SUFFICES ASSUME Ge!Init
               PROVE  GemInv
    OBVIOUS
  <1>1. GemOpInv
    BY DEF Ge!Init, Ge!None, GemOpInv, Stopping
  <1>2. GemStopInv
    BY DEF Ge!Init, Ge!None, GemStopInv, Stopping, Emptied
  <1>3. GemLifeInv
    BY DEF Ge!Init, Ge!None, GemLifeInv
  <1>4. GemRingInv
    <2>1. tx = <<>> /\ rx = 0
      BY DEF Ge!Init
    <2>2. Len(tx) = 0 /\ tx \in Seq([nbl : Nbls, last : BOOLEAN, used : BOOLEAN])
      BY <2>1
    <2> QED BY <2>1, <2>2 DEF GemRingInv
  <1>5. GemWakeInv
    BY DEF Ge!Init, GemWakeInv
  <1> QED BY <1>1, <1>2, <1>3, <1>4, <1>5 DEF GemInv

LEMMA GemStep == GemInv /\ (Ge!Next \/ UNCHANGED gem) => GemInv'
  <1> SUFFICES ASSUME GemInv, Ge!Next \/ UNCHANGED gem
               PROVE  GemInv'
    OBVIOUS
  <1>1. CASE UNCHANGED gem
    BY <1>1 DEF gem, GemInv, GemOpInv, GemStopInv, GemLifeInv, GemRingInv, GemWakeInv, Ge!Quiet,
       Ge!None, Handed
  <1>2. CASE Ge!Next
    BY <1>2, GemOpStep, GemStopStep, GemLifeStep, GemRingStep, GemWakeStep DEF GemInv
  <1> QED BY <1>1, <1>2

LEMMA GemAlways == AllSpec => []GemInv
  <1>1. AllInit => GemInv
    BY GemInitInv DEF AllInit
  <1>2. GemInv /\ [AllNext]_<<part, vars, boardVars, fan, gpio, bcm, gem, bt>> => GemInv'
    <2>1. [AllNext]_<<part, vars, boardVars, fan, gpio, bcm, gem, bt>>
            => Ge!Next \/ UNCHANGED gem
      BY DEF AllNext
    <2> QED BY <2>1, GemStep
  <1> QED BY <1>1, <1>2, PTL DEF AllSpec

\* The rings are rebuilt, and their memory freed, only when no DPC walks them and no
\* transaction of the MAC is under way; a paused adapter is at rest (rp1-ethernet,
\* StopHardware and StartHardware under the lifecycle mutex, and the maintenance
\* thread that recovers while NDIS pauses).
THEOREM MemoryIsQuietHolds == AllSpec => []MemoryIsQuiet
  <1>1. GemInv => MemoryIsQuiet
    BY DEF GemInv, GemOpInv, GemStopInv, GemLifeInv, Stopping, Emptied, Ge!None, MemoryIsQuiet,
       Ge!MemoryIsQuiet
  <1> QED BY <1>1, GemAlways, PTL

\* A frame the driver must handle is never forgotten: a DPC is active or queued, or an
\* event is latched that will interrupt (rp1-ethernet, the DPC that looks at the rings
\* again before it rearms the interrupt).
THEOREM NoFrameForgottenHolds == AllSpec => []NoFrameForgotten
  <1>1. GemInv => NoFrameForgotten
    <2> SUFFICES ASSUME GemInv, run, speed > 0, ~gone, rx > 0 \/ Ge!Sent > 0
                 PROVE  \/ dpc # "none" \/ queued # {}
                        \/ isr # {} /\ irqRunning /\ ~deferred /\ (imr \/ suppressed)
      BY DEF NoFrameForgotten, Ge!NoFrameForgotten
    <2>1. Ge!Sent > 0 => Handed
      <3>1. Ge!Sent \in 0 .. Len(tx) /\ Prefix(tx, Ge!Sent) /\ Len(tx) \in Nat
        BY GemSent DEF GemInv, GemRingInv
      <3> HIDE DEF Ge!Sent
      <3>2. Ge!Sent > 0 => 1 \in 1 .. Len(tx) /\ 1 <= Ge!Sent
        BY <3>1
      <3> QED BY <3>1, <3>2 DEF Prefix, Handed
    <2> QED BY <2>1 DEF GemInv, GemWakeInv
  <1> QED BY <1>1, GemAlways, PTL

\* What Ge!TypeOK says of the flags, of the interrupt, of the DPC and of the descriptors.
GemFlagTypes ==
  /\ thread \in BOOLEAN /\ powered \in BOOLEAN /\ fault \in BOOLEAN /\ e_touched \in BOOLEAN
  /\ retain \in BOOLEAN /\ gone \in BOOLEAN /\ run \in BOOLEAN /\ recovery \in BOOLEAN
  /\ memory \in {"none", "held", "retained"}

GemIrqTypes ==
  /\ irqRunning \in BOOLEAN /\ deferred \in BOOLEAN /\ suppressed \in BOOLEAN
  /\ imr \in BOOLEAN /\ mac \in BOOLEAN /\ inflight \in BOOLEAN
  /\ irqPending \subseteq Ge!Events /\ isr \subseteq Ge!Events

\* NDIS's limit bounds what is indicated, and the batch what is looked at.
GemDpcTypes ==
  /\ dpc \in {"none", "transmit", "complete", "receive", "end"}
  /\ dpcCpu \in Cpus /\ queued \subseteq Cpus /\ limit \in {1, Ge!All}
  /\ looked \in 0 .. Batch /\ received \in 0 .. looked

LEMMA GemFlagStep ==
  ASSUME GemFlagTypes, Ge!Next
  PROVE  GemFlagTypes'
  <1> USE DEF Ge!nic, Ge!link, Ge!irq, Ge!dpcs, Ge!lists, Ge!gem
  <1>u. ASSUME UNCHANGED <<thread, powered, fault, e_touched, retain, gone, run, recovery, memory>>
        PROVE  GemFlagTypes'
    BY <1>u DEF GemFlagTypes
  <1>1. CASE Ge!DisableInterrupt \/ Ge!EnableInterrupt \/ Ge!CompleteTransmit
          \/ Ge!DpcCompletes \/ Ge!Indicate \/ Ge!DpcEnd \/ Ge!StopWaits \/ Ge!StopCollects
          \/ Ge!StopCompletes \/ Ge!LinkSame \/ Ge!MacTransmits \/ Ge!MacSticks
          \/ Ge!MacReceives \/ Ge!MacRetires \/ Ge!MacFails
    BY <1>1, <1>u DEF Ge!DisableInterrupt, Ge!EnableInterrupt, Ge!CompleteTransmit,
       Ge!DpcCompletes, Ge!Indicate, Ge!DpcEnd, Ge!RearmInterrupts, Ge!More, Ge!StopWaits,
       Ge!StopCollects, Ge!StopCompletes, Ge!LinkSame, Ge!MacTransmits, Ge!MacSticks,
       Ge!MacReceives, Ge!MacRetires, Ge!MacFails
  <1>2. CASE Ge!StopDrains
    BY <1>2 DEF Ge!StopDrains, GemFlagTypes
  <1>3. CASE Ge!Recover
    BY <1>3 DEF Ge!Recover, Ge!StopHardware, Ge!StopInterrupts, Ge!Doing, GemFlagTypes
  <1>4. CASE Ge!NoRecovery
    BY <1>4 DEF Ge!NoRecovery, Ge!Doing, GemFlagTypes
  <1>5. CASE Ge!Start
    BY <1>5 DEF Ge!Start, Ge!StartHardware, Ge!Doing, GemFlagTypes
  <1>6. CASE Ge!Initialize
    BY <1>6 DEF Ge!Initialize, GemFlagTypes
  <1>7. CASE Ge!Restart
    BY <1>7 DEF Ge!Restart, Ge!StartHardware, GemFlagTypes
  <1>8. CASE Ge!Pause
    BY <1>8 DEF Ge!Pause, Ge!StopHardware, Ge!StopInterrupts, Ge!Doing, GemFlagTypes
  <1>9. CASE Ge!Halt
    BY <1>9 DEF Ge!Halt, Ge!StopHardware, Ge!StopInterrupts, Ge!Doing, GemFlagTypes
  <1>10. CASE Ge!Cleanup
    BY <1>10 DEF Ge!Cleanup, GemFlagTypes
  <1>11. CASE Ge!Shutdown
    BY <1>11 DEF Ge!Shutdown, Ge!StopHardware, Ge!StopInterrupts, Ge!Doing, GemFlagTypes
  <1>12. CASE Ge!SurpriseRemoved
    BY <1>12 DEF Ge!SurpriseRemoved, Ge!Doing, GemFlagTypes
  <1>13. ASSUME NEW cpu \in Cpus, Ge!Interrupt(cpu)
        PROVE  GemFlagTypes'
    BY <1>13, <1>u DEF Ge!Interrupt
  <1>14. ASSUME NEW cpu \in Cpus, Ge!DpcRefused(cpu)
        PROVE  GemFlagTypes'
    BY <1>14, <1>u DEF Ge!DpcRefused, Ge!Serves
  <1>15. ASSUME NEW cpu \in Cpus, NEW most \in {1, Ge!All}, Ge!DpcBegin(cpu, most)
        PROVE  GemFlagTypes'
    BY <1>15 DEF Ge!DpcBegin, Ge!StopInterrupts, Ge!Serves, GemFlagTypes
  <1>16. ASSUME NEW accept \in BOOLEAN, Ge!Receive(accept)
        PROVE  GemFlagTypes'
    BY <1>16, <1>u DEF Ge!Receive
  <1>17. ASSUME NEW accept \in BOOLEAN, Ge!SetPower(accept)
        PROVE  GemFlagTypes'
    BY <1>17 DEF Ge!SetPower, GemFlagTypes
  <1>18. ASSUME NEW fast \in 0 .. 1, Ge!LinkChanged(fast)
        PROVE  GemFlagTypes'
    BY <1>18 DEF Ge!LinkChanged, Ge!StopHardware, Ge!StopInterrupts, Ge!Doing, GemFlagTypes
  <1>19. ASSUME NEW n \in Nbls, NEW count \in 1 .. 2, Ge!Send(n, count)
        PROVE  GemFlagTypes'
    BY <1>19, <1>u DEF Ge!Send
  <1> QED BY <1>1, <1>2, <1>3, <1>4, <1>5, <1>6, <1>7, <1>8, <1>9, <1>10, <1>11, <1>12, <1>13,
             <1>14, <1>15, <1>16, <1>17, <1>18, <1>19 DEF Ge!Next

LEMMA GemIrqStep ==
  ASSUME GemIrqTypes, Ge!Next
  PROVE  GemIrqTypes'
  <1> USE DEF Ge!nic, Ge!link, Ge!irq, Ge!dpcs, Ge!lists, Ge!gem
  <1>u. ASSUME UNCHANGED <<irqRunning, deferred, suppressed, irqPending, isr, imr, mac, inflight>>
        PROVE  GemIrqTypes'
    BY <1>u DEF GemIrqTypes
  <1>1. CASE Ge!CompleteTransmit \/ Ge!DpcCompletes \/ Ge!Indicate \/ Ge!StopWaits
          \/ Ge!StopCollects \/ Ge!StopCompletes \/ Ge!NoRecovery \/ Ge!LinkSame
          \/ Ge!MacSticks
    BY <1>1, <1>u DEF Ge!CompleteTransmit, Ge!DpcCompletes, Ge!Indicate, Ge!StopWaits,
       Ge!StopCollects, Ge!StopCompletes, Ge!NoRecovery, Ge!Doing, Ge!LinkSame, Ge!MacSticks
  <1>2. CASE Ge!DisableInterrupt
    BY <1>2 DEF Ge!DisableInterrupt, Ge!Events, GemIrqTypes
  <1>3. CASE Ge!EnableInterrupt
    BY <1>3 DEF Ge!EnableInterrupt, Ge!Events, GemIrqTypes
  <1>4. CASE Ge!DpcEnd
    BY <1>4 DEF Ge!DpcEnd, Ge!RearmInterrupts, Ge!More, Ge!Events, GemIrqTypes
  <1>5. CASE Ge!StopDrains
    BY <1>5 DEF Ge!StopDrains, Ge!Events, GemIrqTypes
  <1>6. CASE Ge!Recover
    BY <1>6 DEF Ge!Recover, Ge!StopHardware, Ge!StopInterrupts, Ge!Doing, Ge!Events, GemIrqTypes
  <1>7. CASE Ge!Start
    BY <1>7 DEF Ge!Start, Ge!StartHardware, Ge!Doing, Ge!Events, GemIrqTypes
  <1>8. CASE Ge!Initialize
    BY <1>8 DEF Ge!Initialize, Ge!Events, GemIrqTypes
  <1>9. CASE Ge!Restart
    BY <1>9 DEF Ge!Restart, Ge!StartHardware, Ge!Events, GemIrqTypes
  <1>10. CASE Ge!Pause
    BY <1>10 DEF Ge!Pause, Ge!StopHardware, Ge!StopInterrupts, Ge!Doing, Ge!Events, GemIrqTypes
  <1>11. CASE Ge!Halt
    BY <1>11 DEF Ge!Halt, Ge!StopHardware, Ge!StopInterrupts, Ge!Doing, Ge!Events, GemIrqTypes
  <1>12. CASE Ge!Cleanup
    BY <1>12 DEF Ge!Cleanup, Ge!Events, GemIrqTypes
  <1>13. CASE Ge!Shutdown
    BY <1>13 DEF Ge!Shutdown, Ge!StopHardware, Ge!StopInterrupts, Ge!Doing, Ge!Events,
       GemIrqTypes
  <1>14. CASE Ge!SurpriseRemoved
    BY <1>14 DEF Ge!SurpriseRemoved, Ge!Doing, Ge!Events, GemIrqTypes
  <1>15. CASE Ge!MacTransmits
    BY <1>15 DEF Ge!MacTransmits, Ge!Events, GemIrqTypes
  <1>16. CASE Ge!MacReceives
    BY <1>16 DEF Ge!MacReceives, Ge!Events, GemIrqTypes
  <1>17. CASE Ge!MacRetires
    BY <1>17 DEF Ge!MacRetires, Ge!Events, GemIrqTypes
  <1>18. CASE Ge!MacFails
    BY <1>18 DEF Ge!MacFails, Ge!Events, GemIrqTypes
  <1>19. ASSUME NEW cpu \in Cpus, Ge!Interrupt(cpu)
        PROVE  GemIrqTypes'
    BY <1>19 DEF Ge!Interrupt, Ge!Events, GemIrqTypes
  <1>20. ASSUME NEW cpu \in Cpus, Ge!DpcRefused(cpu)
        PROVE  GemIrqTypes'
    BY <1>20, <1>u DEF Ge!DpcRefused, Ge!Serves
  <1>21. ASSUME NEW cpu \in Cpus, NEW most \in {1, Ge!All}, Ge!DpcBegin(cpu, most)
        PROVE  GemIrqTypes'
    BY <1>21 DEF Ge!DpcBegin, Ge!StopInterrupts, Ge!Serves, Ge!Events, GemIrqTypes
  <1>22. ASSUME NEW accept \in BOOLEAN, Ge!Receive(accept)
        PROVE  GemIrqTypes'
    BY <1>22, <1>u DEF Ge!Receive
  <1>23. ASSUME NEW accept \in BOOLEAN, Ge!SetPower(accept)
        PROVE  GemIrqTypes'
    BY <1>23, <1>u DEF Ge!SetPower
  <1>24. ASSUME NEW fast \in 0 .. 1, Ge!LinkChanged(fast)
        PROVE  GemIrqTypes'
    BY <1>24 DEF Ge!LinkChanged, Ge!StopHardware, Ge!StopInterrupts, Ge!Doing, Ge!Events,
       GemIrqTypes
  <1>25. ASSUME NEW n \in Nbls, NEW count \in 1 .. 2, Ge!Send(n, count)
        PROVE  GemIrqTypes'
    BY <1>25 DEF Ge!Send, Ge!Events, GemIrqTypes
  <1> QED BY <1>1, <1>2, <1>3, <1>4, <1>5, <1>6, <1>7, <1>8, <1>9, <1>10, <1>11, <1>12, <1>13,
             <1>14, <1>15, <1>16, <1>17, <1>18, <1>19, <1>20, <1>21, <1>22, <1>23, <1>24, <1>25
     DEF Ge!Next

LEMMA GemDpcStep ==
  ASSUME GemDpcTypes, Ge!Next
  PROVE  GemDpcTypes'
  <1> USE DEF Ge!nic, Ge!link, Ge!irq, Ge!dpcs, Ge!lists, Ge!gem
  <1>u. ASSUME UNCHANGED <<dpc, dpcCpu, looked, received, limit, queued>>
        PROVE  GemDpcTypes'
    BY <1>u DEF GemDpcTypes
  <1>1. CASE Ge!DisableInterrupt \/ Ge!EnableInterrupt \/ Ge!StopWaits \/ Ge!StopDrains
          \/ Ge!StopCollects \/ Ge!StopCompletes \/ Ge!Recover \/ Ge!NoRecovery
          \/ Ge!LinkSame \/ Ge!Start \/ Ge!Initialize \/ Ge!Restart \/ Ge!Pause \/ Ge!Halt
          \/ Ge!Cleanup \/ Ge!Shutdown \/ Ge!SurpriseRemoved \/ Ge!MacTransmits
          \/ Ge!MacSticks \/ Ge!MacReceives \/ Ge!MacRetires \/ Ge!MacFails
    BY <1>1, <1>u DEF Ge!DisableInterrupt, Ge!EnableInterrupt, Ge!StopWaits, Ge!StopDrains,
       Ge!StopCollects, Ge!StopCompletes, Ge!Recover, Ge!StopHardware, Ge!StopInterrupts,
       Ge!Doing, Ge!NoRecovery, Ge!LinkSame, Ge!Start, Ge!StartHardware, Ge!Initialize,
       Ge!Restart, Ge!Pause, Ge!Halt, Ge!Cleanup, Ge!Shutdown, Ge!SurpriseRemoved,
       Ge!MacTransmits, Ge!MacSticks, Ge!MacReceives, Ge!MacRetires, Ge!MacFails
  <1>2. CASE Ge!CompleteTransmit
    BY <1>2, GemAssumption DEF Ge!CompleteTransmit, Ge!All, Ge!MoreToReceive, GemDpcTypes
  <1>3. CASE Ge!DpcCompletes
    BY <1>3, GemAssumption DEF Ge!DpcCompletes, Ge!All, Ge!MoreToReceive, GemDpcTypes
  <1>4. CASE Ge!Indicate
    BY <1>4, GemAssumption DEF Ge!Indicate, Ge!All, Ge!MoreToReceive, GemDpcTypes
  <1>5. CASE Ge!DpcEnd
    <2>1. dpc' = "none" /\ dpcCpu' = dpcCpu /\ limit' = Ge!All /\ looked' = 0 /\ received' = 0
      BY <1>5 DEF Ge!DpcEnd
    <2>2. queued' = queued \/ queued' = queued \union {dpcCpu}
      BY <1>5 DEF Ge!DpcEnd, Ge!RearmInterrupts, Ge!More
    <2> QED BY <2>1, <2>2, GemAssumption DEF GemDpcTypes
  <1>6. ASSUME NEW cpu \in Cpus, Ge!Interrupt(cpu)
        PROVE  GemDpcTypes'
    BY <1>6, GemAssumption DEF Ge!Interrupt, Ge!All, Ge!MoreToReceive, GemDpcTypes
  <1>7. ASSUME NEW cpu \in Cpus, Ge!DpcRefused(cpu)
        PROVE  GemDpcTypes'
    BY <1>7, GemAssumption DEF Ge!DpcRefused, Ge!Serves, Ge!All, Ge!MoreToReceive, GemDpcTypes
  <1>8. ASSUME NEW cpu \in Cpus, NEW most \in {1, Ge!All}, Ge!DpcBegin(cpu, most)
        PROVE  GemDpcTypes'
    BY <1>8, GemAssumption DEF Ge!DpcBegin, Ge!StopInterrupts, Ge!Serves, Ge!All,
       Ge!MoreToReceive, GemDpcTypes
  <1>9. ASSUME NEW accept \in BOOLEAN, Ge!Receive(accept)
        PROVE  GemDpcTypes'
    BY <1>9, GemAssumption DEF Ge!Receive, Ge!All, Ge!MoreToReceive, GemDpcTypes
  <1>10. ASSUME NEW accept \in BOOLEAN, Ge!SetPower(accept)
        PROVE  GemDpcTypes'
    BY <1>10, <1>u DEF Ge!SetPower
  <1>11. ASSUME NEW fast \in 0 .. 1, Ge!LinkChanged(fast)
        PROVE  GemDpcTypes'
    BY <1>11, <1>u DEF Ge!LinkChanged, Ge!StopHardware, Ge!StopInterrupts, Ge!Doing
  <1>12. ASSUME NEW n \in Nbls, NEW count \in 1 .. 2, Ge!Send(n, count)
        PROVE  GemDpcTypes'
    BY <1>12, <1>u DEF Ge!Send
  <1> QED BY <1>1, <1>2, <1>3, <1>4, <1>5, <1>6, <1>7, <1>8, <1>9, <1>10, <1>11, <1>12 DEF Ge!Next

\* The last slot of a list is in the ring.
InRing(n) == \E i \in 1 .. Len(tx) : tx[i].last /\ tx[i].nbl = n

\* An accepted list is in one place: the ring, with one last slot, or one of the two
\* collections that are about to be completed.
GemListInv ==
  /\ owned \subseteq Nbls /\ done \in [dpc : SUBSET Nbls, op : SUBSET Nbls]
  /\ \A i, j \in 1 .. Len(tx) :
       tx[i].last /\ tx[j].last /\ tx[i].nbl = tx[j].nbl => i = j
  /\ \A n \in Nbls : InRing(n) => n \in owned /\ n \notin done.dpc /\ n \notin done.op
  /\ \A n \in Nbls : n \in done.dpc => n \in owned /\ n \notin done.op
  /\ done.op \subseteq owned
  /\ \A n \in owned : InRing(n) \/ n \in done.dpc \/ n \in done.op

\* Only the step that collects lists leaves any to the next, and only a running adapter
\* has lists of the senders.
GemIdleInv ==
  /\ dpc # "complete" => done.dpc = {}
  /\ op.at # "complete" => done.op = {}
  /\ life # "running" => owned = {}
  /\ op.by = "halt" => life = "paused"

\* The ring keeps its slots and what they say but for the MAC's mark.
LEMMA GemListsKept ==
  ASSUME GemListInv, UNCHANGED <<owned, done>>, Len(tx') = Len(tx), Len(tx) \in Nat,
         \A i \in 1 .. Len(tx) : tx'[i].nbl = tx[i].nbl /\ (tx'[i].last <=> tx[i].last)
  PROVE  GemListInv'
  <1>1. ASSUME NEW n \in Nbls
        PROVE  InRing(n)' <=> InRing(n)
    BY DEF InRing
  <1>2. \A i, j \in 1 .. Len(tx') :
          tx'[i].last /\ tx'[j].last /\ tx'[i].nbl = tx'[j].nbl => i = j
    BY DEF GemListInv
  <1> QED BY <1>1, <1>2 DEF GemListInv

\* The lists of a prefix of the ring.
LEMMA GemEnded ==
  ASSUME GemRingInv, NEW k \in 0 .. Len(tx)
  PROVE  /\ Ge!Ended(k) \subseteq Nbls
         /\ \A n : n \in Ge!Ended(k) <=> \E i \in 1 .. k : tx[i].last /\ tx[i].nbl = n
  <1>1. \A i \in 1 .. k : i \in 1 .. Len(tx) /\ tx[i] \in GemSlots
    <2>1. tx \in Seq(GemSlots) /\ Len(tx) \in Nat
      BY DEF GemRingInv, GemSlots
    <2> QED BY <2>1, ElementOfSeq
  <1> QED BY <1>1 DEF Ge!Ended, GemSlots

LEMMA GemListStep ==
  ASSUME GemRingInv, GemListInv, GemIdleInv, GemStopInv, GemOpInv, Ge!Next
  PROVE  GemListInv'
  <1>0. tx \in Seq(GemSlots) /\ Len(tx) \in Nat
    BY DEF GemRingInv, GemSlots
  <1>u. ASSUME UNCHANGED <<tx, owned, done>>
        PROVE  GemListInv'
    BY <1>0, <1>u, GemListsKept
  <1>1. CASE Ge!CompleteTransmit
    <2>1. PICK k \in 0 .. Len(tx) :
            /\ done' = [done EXCEPT !["dpc"] = Ge!Ended(k)]
            /\ tx' \in Seq(GemSlots) /\ Len(tx') = Len(tx) - k
            /\ \A i \in 1 .. Len(tx') : tx'[i] = tx[i + k]
      BY <1>1, GemTakesOut
    <2>2. owned' = owned /\ done.dpc = {}
      BY <1>1 DEF Ge!CompleteTransmit, GemIdleInv
    <2>3. /\ Ge!Ended(k) \subseteq Nbls
          /\ \A n : n \in Ge!Ended(k) <=> \E i \in 1 .. k : tx[i].last /\ tx[i].nbl = n
      BY GemEnded
    <2>4. /\ done' \in [dpc : SUBSET Nbls, op : SUBSET Nbls]
          /\ done'.dpc = Ge!Ended(k) /\ done'.op = done.op
      BY <2>1, <2>3 DEF GemListInv
    <2>5. \A i \in 1 .. Len(tx') : i + k \in 1 .. Len(tx) /\ i + k > k
      BY <1>0, <2>1
    <2>6. \A i, j \in 1 .. Len(tx') :
            tx'[i].last /\ tx'[j].last /\ tx'[i].nbl = tx'[j].nbl => i = j
      <3> SUFFICES ASSUME NEW i \in 1 .. Len(tx'), NEW j \in 1 .. Len(tx'), tx'[i].last,
                          tx'[j].last, tx'[i].nbl = tx'[j].nbl
                   PROVE  i = j
        OBVIOUS
      <3>1. i + k = j + k
        BY <2>1, <2>5 DEF GemListInv
      <3> QED BY <3>1, <2>1
    <2>7. ASSUME NEW n \in Nbls
          PROVE  /\ InRing(n) <=> InRing(n)' \/ n \in done'.dpc
                 /\ ~(InRing(n)' /\ n \in done'.dpc)
      <3>1. ASSUME NEW i \in 1 .. Len(tx), tx[i].last, tx[i].nbl = n
            PROVE  InRing(n)' \/ n \in done'.dpc
        <4>1. CASE i <= k
          BY <1>0, <2>3, <2>4, <3>1, <4>1
        <4>2. CASE i > k
          <5>1. i - k \in 1 .. Len(tx') /\ (i - k) + k = i
            BY <1>0, <2>1, <4>2
          <5>2. tx'[i - k] = tx[i]
            BY <2>1, <5>1
          <5> QED BY <3>1, <5>1, <5>2 DEF InRing
        <4> QED BY <1>0, <4>1, <4>2
      <3>2. n \in done'.dpc => \E i \in 1 .. k : tx[i].last /\ tx[i].nbl = n
        BY <2>3, <2>4
      <3>3. \A i \in 1 .. k : i \in 1 .. Len(tx)
        BY <1>0
      <3>4. InRing(n)' => \E i \in 1 .. Len(tx) : i > k /\ tx[i].last /\ tx[i].nbl = n
        BY <2>1, <2>5 DEF InRing
      <3>5. ASSUME NEW i \in 1 .. Len(tx), NEW j \in 1 .. k, i > k, tx[i].last, tx[j].last,
                   tx[i].nbl = tx[j].nbl
            PROVE  FALSE
        <4>1. i = j
          BY <3>3, <3>5 DEF GemListInv
        <4> QED BY <3>5, <4>1
      <3>6. ~(InRing(n)' /\ n \in done'.dpc)
        BY <3>2, <3>4, <3>5
      <3> QED BY <3>1, <3>2, <3>3, <3>4, <3>6 DEF InRing
    <2> QED BY <2>2, <2>4, <2>6, <2>7 DEF GemListInv
  <1>2. CASE Ge!StopCollects
    <2>1. /\ owned' = owned /\ tx' = <<>> /\ Len(tx') = 0 /\ done.op = {}
          /\ done' = [done EXCEPT !["op"] = Ge!Ended(Len(tx))]
      BY <1>2 DEF Ge!StopCollects, GemIdleInv
    <2>2. /\ Ge!Ended(Len(tx)) \subseteq Nbls
          /\ \A n : n \in Ge!Ended(Len(tx)) <=> InRing(n)
      BY <1>0, GemEnded DEF InRing
    <2>3. /\ done' \in [dpc : SUBSET Nbls, op : SUBSET Nbls]
          /\ done'.op = Ge!Ended(Len(tx)) /\ done'.dpc = done.dpc
      BY <2>1, <2>2 DEF GemListInv
    <2>4. \A n \in Nbls : ~InRing(n)'
      BY <2>1 DEF InRing
    <2> QED BY <2>1, <2>2, <2>3, <2>4 DEF GemListInv
  <1>3. ASSUME NEW n \in Nbls, NEW count \in 1 .. 2, Ge!Send(n, count)
        PROVE  GemListInv'
    <2>1. /\ n \notin owned /\ owned' = owned \union {n} /\ done' = done
      BY <1>3 DEF Ge!Send
    <2>2. /\ Len(tx') = Len(tx) + count /\ Len(tx') \in Nat
          /\ \A i \in 1 .. Len(tx) : tx'[i] = tx[i]
          /\ \A i \in Len(tx) + 1 .. Len(tx') :
               tx'[i].nbl = n /\ ~tx'[i].used /\ (tx'[i].last <=> i = Len(tx'))
      BY <1>0, <1>3, GemPublishes
    <2>3. ~InRing(n) /\ n \notin done.dpc /\ n \notin done.op
      BY <2>1 DEF GemListInv
    <2>4. ASSUME NEW i \in 1 .. Len(tx'), tx'[i].last
          PROVE  \/ i \in 1 .. Len(tx) /\ tx[i].last /\ tx'[i].nbl = tx[i].nbl /\ tx'[i].nbl # n
                 \/ i = Len(tx') /\ tx'[i].nbl = n
      <3>1. CASE i <= Len(tx)
        BY <1>0, <2>2, <2>3, <2>4, <3>1 DEF InRing
      <3>2. CASE i > Len(tx)
        BY <1>0, <2>2, <2>4, <3>2
      <3> QED BY <1>0, <2>2, <3>1, <3>2
    <2>5. \A i, j \in 1 .. Len(tx') :
            tx'[i].last /\ tx'[j].last /\ tx'[i].nbl = tx'[j].nbl => i = j
      BY <2>4 DEF GemListInv
    <2>6. ASSUME NEW m \in Nbls
          PROVE  InRing(m)' <=> InRing(m) \/ m = n
      <3>1. InRing(m)' => InRing(m) \/ m = n
        BY <2>4 DEF InRing
      <3>2. InRing(m) => InRing(m)'
        <4>1. \A i \in 1 .. Len(tx) : i \in 1 .. Len(tx') /\ tx'[i] = tx[i]
          BY <1>0, <2>2
        <4> QED BY <4>1 DEF InRing
      <3>3. InRing(n)'
        <4>1. /\ Len(tx') \in Len(tx) + 1 .. Len(tx') /\ Len(tx') \in 1 .. Len(tx')
          BY <1>0, <2>2
        <4> QED BY <2>2, <4>1 DEF InRing
      <3> QED BY <3>1, <3>2, <3>3
    <2> QED BY <2>1, <2>3, <2>5, <2>6 DEF GemListInv
  <1>4. CASE Ge!MacTransmits
    <2>1. UNCHANGED <<owned, done>>
      BY <1>4 DEF Ge!MacTransmits
    <2> QED BY <1>0, <1>4, <2>1, GemHandsBack, GemListsKept
  <1>5. CASE Ge!DpcCompletes
    <2>1. /\ tx' = tx /\ owned' = owned \ done.dpc
          /\ done' \in [dpc : SUBSET Nbls, op : SUBSET Nbls]
          /\ done'.dpc = {} /\ done'.op = done.op
      BY <1>5 DEF Ge!DpcCompletes, GemListInv
    <2>2. \A n \in Nbls : InRing(n)' <=> InRing(n)
      BY <2>1 DEF InRing
    <2> QED BY <2>1, <2>2 DEF GemListInv
  <1>6. CASE Ge!StopCompletes
    <2>1. /\ tx' = tx /\ owned' = owned \ done.op
          /\ done' \in [dpc : SUBSET Nbls, op : SUBSET Nbls]
          /\ done'.op = {} /\ done'.dpc = done.dpc
      BY <1>6 DEF Ge!StopCompletes, GemListInv
    <2>2. \A n \in Nbls : InRing(n)' <=> InRing(n)
      BY <2>1 DEF InRing
    <2> QED BY <2>1, <2>2 DEF GemListInv
  <1>7. CASE Ge!DisableInterrupt \/ Ge!EnableInterrupt \/ Ge!Indicate \/ Ge!DpcEnd
          \/ Ge!StopWaits \/ Ge!StopDrains \/ Ge!Recover \/ Ge!NoRecovery \/ Ge!LinkSame
          \/ Ge!Start \/ Ge!Initialize \/ Ge!Restart \/ Ge!Pause \/ Ge!Halt \/ Ge!Cleanup
          \/ Ge!Shutdown \/ Ge!SurpriseRemoved \/ Ge!MacSticks \/ Ge!MacReceives
          \/ Ge!MacRetires \/ Ge!MacFails
    BY <1>7, <1>u DEF Ge!DisableInterrupt, Ge!EnableInterrupt, Ge!Indicate, Ge!DpcEnd,
       Ge!RearmInterrupts, Ge!More, Ge!StopWaits, Ge!StopDrains, Ge!Recover, Ge!StopHardware,
       Ge!StopInterrupts, Ge!Doing, Ge!NoRecovery, Ge!LinkSame, Ge!Start, Ge!StartHardware,
       Ge!Initialize, Ge!Restart, Ge!Pause, Ge!Halt, Ge!Cleanup, Ge!Shutdown,
       Ge!SurpriseRemoved, Ge!MacSticks, Ge!MacReceives, Ge!MacRetires, Ge!MacFails, Ge!nic,
       Ge!link, Ge!irq, Ge!dpcs, Ge!lists, Ge!gem
  <1>8. ASSUME NEW cpu \in Cpus, Ge!Interrupt(cpu)
        PROVE  GemListInv'
    BY <1>8, <1>u DEF Ge!Interrupt, Ge!nic, Ge!link, Ge!irq, Ge!dpcs, Ge!lists, Ge!gem
  <1>9. ASSUME NEW cpu \in Cpus, Ge!DpcRefused(cpu)
        PROVE  GemListInv'
    BY <1>9, <1>u DEF Ge!DpcRefused, Ge!Serves, Ge!nic, Ge!link, Ge!irq, Ge!dpcs, Ge!lists,
       Ge!gem
  <1>10. ASSUME NEW cpu \in Cpus, NEW most \in {1, Ge!All}, Ge!DpcBegin(cpu, most)
        PROVE  GemListInv'
    BY <1>10, <1>u DEF Ge!DpcBegin, Ge!StopInterrupts, Ge!Serves, Ge!nic, Ge!link, Ge!irq,
       Ge!dpcs, Ge!lists, Ge!gem
  <1>11. ASSUME NEW accept \in BOOLEAN, Ge!Receive(accept)
        PROVE  GemListInv'
    BY <1>11, <1>u DEF Ge!Receive, Ge!nic, Ge!link, Ge!irq, Ge!dpcs, Ge!lists, Ge!gem
  <1>12. ASSUME NEW accept \in BOOLEAN, Ge!SetPower(accept)
        PROVE  GemListInv'
    BY <1>12, <1>u DEF Ge!SetPower, Ge!nic, Ge!link, Ge!irq, Ge!dpcs, Ge!lists, Ge!gem
  <1>13. ASSUME NEW fast \in 0 .. 1, Ge!LinkChanged(fast)
        PROVE  GemListInv'
    BY <1>13, <1>u DEF Ge!LinkChanged, Ge!StopHardware, Ge!StopInterrupts, Ge!Doing, Ge!nic,
       Ge!link, Ge!irq, Ge!dpcs, Ge!lists, Ge!gem
  <1> QED BY <1>1, <1>2, <1>3, <1>4, <1>5, <1>6, <1>7, <1>8, <1>9, <1>10, <1>11, <1>12, <1>13
     DEF Ge!Next

\* Who may have lists, and who may be about to complete some, step by step.
LEMMA GemIdleStep ==
  ASSUME GemOpInv, GemStopInv, GemLifeInv, GemRingInv, GemListInv, GemIdleInv, Ge!Next
  PROVE  GemIdleInv'
  <1> USE DEF Ge!nic, Ge!link, Ge!irq, Ge!dpcs, Ge!lists, Ge!gem
  <1>u. ASSUME UNCHANGED <<dpc, op, life, done, owned>>
        PROVE  GemIdleInv'
    BY <1>u DEF GemIdleInv
  <1>1. CASE Ge!DisableInterrupt \/ Ge!EnableInterrupt \/ Ge!MacTransmits \/ Ge!MacSticks
          \/ Ge!MacReceives \/ Ge!MacRetires \/ Ge!MacFails
    BY <1>1, <1>u DEF Ge!DisableInterrupt, Ge!EnableInterrupt, Ge!MacTransmits, Ge!MacSticks,
       Ge!MacReceives, Ge!MacRetires, Ge!MacFails
  <1>2. CASE Ge!CompleteTransmit
    BY <1>2 DEF Ge!CompleteTransmit, GemOpInv, GemStopInv, GemLifeInv, GemListInv, Stopping,
       Emptied, Ge!None, GemIdleInv
  <1>3. CASE Ge!DpcCompletes
    BY <1>3 DEF Ge!DpcCompletes, GemOpInv, GemStopInv, GemLifeInv, GemListInv, Stopping,
       Emptied, Ge!None, GemIdleInv
  <1>4. CASE Ge!Indicate
    BY <1>4 DEF Ge!Indicate, GemOpInv, GemStopInv, GemLifeInv, GemListInv, Stopping, Emptied,
       Ge!None, GemIdleInv
  <1>5. CASE Ge!DpcEnd
    BY <1>5 DEF Ge!DpcEnd, Ge!RearmInterrupts, Ge!More, GemOpInv, GemStopInv, GemLifeInv,
       GemListInv, Stopping, Emptied, Ge!None, GemIdleInv
  <1>6. CASE Ge!StopWaits
    BY <1>6 DEF Ge!StopWaits, GemOpInv, GemStopInv, GemLifeInv, GemListInv, Stopping, Emptied,
       Ge!None, GemIdleInv
  <1>7. CASE Ge!StopDrains
    BY <1>7 DEF Ge!StopDrains, GemOpInv, GemStopInv, GemLifeInv, GemListInv, Stopping, Emptied,
       Ge!None, GemIdleInv
  <1>8. CASE Ge!StopCollects
    BY <1>8 DEF Ge!StopCollects, GemOpInv, GemStopInv, GemLifeInv, GemListInv, Stopping,
       Emptied, Ge!None, GemIdleInv
  <1>9. CASE Ge!StopCompletes
    <2>1. /\ op.at = "complete" /\ owned' = owned \ done.op /\ dpc' = dpc /\ life # "halted"
          /\ done' = [done EXCEPT !["op"] = {}] /\ dpc = "none" /\ tx = <<>> /\ done.dpc = {}
      BY <1>9 DEF Ge!StopCompletes, GemOpInv, GemStopInv, GemIdleInv, Emptied, Stopping
    <2>2. done'.op = {} /\ done'.dpc = {}
      BY <2>1 DEF GemListInv
    <2>3. owned' = {}
      <3>1. Len(tx) = 0
        BY <2>1
      <3>2. \A n : ~InRing(n)
        BY <3>1 DEF InRing
      <3> QED BY <2>1, <3>2 DEF GemListInv
    <2>4. op'.by = "halt" => op.by = "halt" /\ life' = life
      BY <1>9, <2>1 DEF Ge!StopCompletes, GemOpInv, Ge!None
    <2> QED BY <2>2, <2>3, <2>4 DEF GemIdleInv
  <1>10. CASE Ge!Recover
    BY <1>10 DEF Ge!Recover, Ge!StopHardware, Ge!StopInterrupts, Ge!Doing, GemOpInv, GemStopInv,
       GemLifeInv, GemListInv, Stopping, Emptied, Ge!None, GemIdleInv
  <1>11. CASE Ge!NoRecovery
    BY <1>11 DEF Ge!NoRecovery, Ge!Doing, GemOpInv, GemStopInv, GemLifeInv, GemListInv,
       Stopping, Emptied, Ge!None, GemIdleInv
  <1>12. CASE Ge!LinkSame
    BY <1>12 DEF Ge!LinkSame, GemOpInv, GemStopInv, GemLifeInv, GemListInv, Stopping, Emptied,
       Ge!None, GemIdleInv
  <1>13. CASE Ge!Start
    BY <1>13 DEF Ge!Start, Ge!StartHardware, Ge!Doing, GemOpInv, GemStopInv, GemLifeInv,
       GemListInv, Stopping, Emptied, Ge!None, GemIdleInv
  <1>14. CASE Ge!Initialize
    BY <1>14 DEF Ge!Initialize, GemOpInv, GemStopInv, GemLifeInv, GemListInv, Stopping, Emptied,
       Ge!None, GemIdleInv
  <1>15. CASE Ge!Restart
    BY <1>15 DEF Ge!Restart, Ge!StartHardware, GemOpInv, GemStopInv, GemLifeInv, GemListInv,
       Stopping, Emptied, Ge!None, GemIdleInv
  <1>16. CASE Ge!Pause
    BY <1>16 DEF Ge!Pause, Ge!StopHardware, Ge!StopInterrupts, Ge!Doing, GemOpInv, GemStopInv,
       GemLifeInv, GemListInv, Stopping, Emptied, Ge!None, GemIdleInv
  <1>17. CASE Ge!Halt
    BY <1>17 DEF Ge!Halt, Ge!StopHardware, Ge!StopInterrupts, Ge!Doing, GemOpInv, GemStopInv,
       GemLifeInv, GemListInv, Stopping, Emptied, Ge!None, GemIdleInv
  <1>18. CASE Ge!Cleanup
    BY <1>18 DEF Ge!Cleanup, GemOpInv, GemStopInv, GemLifeInv, GemListInv, Stopping, Emptied,
       Ge!None, GemIdleInv
  <1>19. CASE Ge!Shutdown
    BY <1>19 DEF Ge!Shutdown, Ge!StopHardware, Ge!StopInterrupts, Ge!Doing, GemOpInv,
       GemStopInv, GemLifeInv, GemListInv, Stopping, Emptied, Ge!None, GemIdleInv
  <1>20. CASE Ge!SurpriseRemoved
    BY <1>20 DEF Ge!SurpriseRemoved, Ge!Doing, GemOpInv, GemStopInv, GemLifeInv, GemListInv,
       Stopping, Emptied, Ge!None, GemIdleInv
  <1>21. ASSUME NEW cpu \in Cpus, Ge!Interrupt(cpu)
        PROVE  GemIdleInv'
    BY <1>21, <1>u DEF Ge!Interrupt
  <1>22. ASSUME NEW cpu \in Cpus, Ge!DpcRefused(cpu)
        PROVE  GemIdleInv'
    BY <1>22, <1>u DEF Ge!DpcRefused, Ge!Serves
  <1>23. ASSUME NEW cpu \in Cpus, NEW most \in {1, Ge!All}, Ge!DpcBegin(cpu, most)
        PROVE  GemIdleInv'
    BY <1>23 DEF Ge!DpcBegin, Ge!StopInterrupts, Ge!Serves, GemOpInv, GemStopInv, GemLifeInv,
       GemListInv, Stopping, Emptied, Ge!None, GemIdleInv
  <1>24. ASSUME NEW accept \in BOOLEAN, Ge!Receive(accept)
        PROVE  GemIdleInv'
    BY <1>24, <1>u DEF Ge!Receive
  <1>25. ASSUME NEW accept \in BOOLEAN, Ge!SetPower(accept)
        PROVE  GemIdleInv'
    BY <1>25 DEF Ge!SetPower, GemOpInv, GemStopInv, GemLifeInv, GemListInv, Stopping, Emptied,
       Ge!None, GemIdleInv
  <1>26. ASSUME NEW fast \in 0 .. 1, Ge!LinkChanged(fast)
        PROVE  GemIdleInv'
    BY <1>26 DEF Ge!LinkChanged, Ge!StopHardware, Ge!StopInterrupts, Ge!Doing, GemOpInv,
       GemStopInv, GemLifeInv, GemListInv, Stopping, Emptied, Ge!None, GemIdleInv
  <1>27. ASSUME NEW n \in Nbls, NEW count \in 1 .. 2, Ge!Send(n, count)
        PROVE  GemIdleInv'
    BY <1>27 DEF Ge!Send, GemOpInv, GemStopInv, GemLifeInv, GemListInv, Stopping, Emptied,
       Ge!None, GemIdleInv
  <1> QED BY <1>1, <1>2, <1>3, <1>4, <1>5, <1>6, <1>7, <1>8, <1>9, <1>10, <1>11, <1>12, <1>13,
             <1>14, <1>15, <1>16, <1>17, <1>18, <1>19, <1>20, <1>21, <1>22, <1>23, <1>24, <1>25,
             <1>26, <1>27 DEF Ge!Next

\* The ring has a free descriptor, and no more frames wait than it has.
GemRoomInv == Len(tx) < Ring /\ rx \in 0 .. Ring

LEMMA GemRoomStep ==
  ASSUME GemRingInv, GemRoomInv, Ge!Next
  PROVE  GemRoomInv'
  <1> USE DEF Ge!nic, Ge!link, Ge!irq, Ge!dpcs, Ge!lists, Ge!gem
  <1>0. Len(tx) \in Nat
    BY DEF GemRingInv
  <1>u. ASSUME UNCHANGED <<tx, rx>>
        PROVE  GemRoomInv'
    BY <1>u DEF GemRoomInv
  <1>1. CASE Ge!DisableInterrupt \/ Ge!EnableInterrupt \/ Ge!DpcCompletes \/ Ge!Indicate
          \/ Ge!DpcEnd \/ Ge!StopWaits \/ Ge!StopDrains \/ Ge!StopCompletes \/ Ge!Recover
          \/ Ge!NoRecovery \/ Ge!LinkSame \/ Ge!Initialize \/ Ge!Pause \/ Ge!Halt
          \/ Ge!Cleanup \/ Ge!Shutdown \/ Ge!SurpriseRemoved \/ Ge!MacSticks
          \/ Ge!MacReceives \/ Ge!MacFails
    BY <1>1, <1>u DEF Ge!DisableInterrupt, Ge!EnableInterrupt, Ge!DpcCompletes, Ge!Indicate,
       Ge!DpcEnd, Ge!RearmInterrupts, Ge!More, Ge!StopWaits, Ge!StopDrains, Ge!StopCompletes,
       Ge!Recover, Ge!StopHardware, Ge!StopInterrupts, Ge!Doing, Ge!NoRecovery, Ge!LinkSame,
       Ge!Initialize, Ge!Pause, Ge!Halt, Ge!Cleanup, Ge!Shutdown, Ge!SurpriseRemoved,
       Ge!MacSticks, Ge!MacReceives, Ge!MacFails
  <1>2. CASE Ge!CompleteTransmit
    <2>1. rx' = rx /\ \E k \in 0 .. Len(tx) : Len(tx') = Len(tx) - k
      BY <1>2, GemTakesOut DEF Ge!CompleteTransmit
    <2> QED BY <1>0, <2>1, GemAssumption DEF GemRoomInv
  <1>3. CASE Ge!StopCollects
    <2>1. Len(tx') = 0 /\ rx' = rx
      BY <1>3 DEF Ge!StopCollects
    <2> QED BY <1>0, <2>1, GemAssumption DEF GemRoomInv
  <1>4. CASE Ge!Start
    <2>1. tx' = tx /\ rx' = 0
      BY <1>4 DEF Ge!Start, Ge!StartHardware
    <2> QED BY <1>0, <2>1, GemAssumption DEF GemRoomInv
  <1>5. CASE Ge!Restart
    <2>1. tx' = tx /\ rx' = 0
      BY <1>5 DEF Ge!Restart, Ge!StartHardware
    <2> QED BY <1>0, <2>1, GemAssumption DEF GemRoomInv
  <1>6. CASE Ge!MacTransmits
    BY <1>0, <1>6, GemHandsBack DEF GemRoomInv
  <1>7. CASE Ge!MacRetires
    BY <1>7, <1>0, GemAssumption DEF Ge!MacRetires, GemRoomInv
  <1>8. ASSUME NEW cpu \in Cpus, Ge!Interrupt(cpu)
        PROVE  GemRoomInv'
    BY <1>8, <1>u DEF Ge!Interrupt
  <1>9. ASSUME NEW cpu \in Cpus, Ge!DpcRefused(cpu)
        PROVE  GemRoomInv'
    BY <1>9, <1>u DEF Ge!DpcRefused, Ge!Serves
  <1>10. ASSUME NEW cpu \in Cpus, NEW most \in {1, Ge!All}, Ge!DpcBegin(cpu, most)
        PROVE  GemRoomInv'
    BY <1>10, <1>u DEF Ge!DpcBegin, Ge!StopInterrupts, Ge!Serves
  <1>11. ASSUME NEW accept \in BOOLEAN, Ge!Receive(accept)
        PROVE  GemRoomInv'
    BY <1>11, <1>0, GemAssumption DEF Ge!Receive, Ge!MoreToReceive, GemRoomInv
  <1>12. ASSUME NEW accept \in BOOLEAN, Ge!SetPower(accept)
        PROVE  GemRoomInv'
    BY <1>12, <1>u DEF Ge!SetPower
  <1>13. ASSUME NEW fast \in 0 .. 1, Ge!LinkChanged(fast)
        PROVE  GemRoomInv'
    BY <1>13, <1>u DEF Ge!LinkChanged, Ge!StopHardware, Ge!StopInterrupts, Ge!Doing
  <1>14. ASSUME NEW n \in Nbls, NEW count \in 1 .. 2, Ge!Send(n, count)
        PROVE  GemRoomInv'
    BY <1>0, <1>14, GemPublishes, GemAssumption DEF Ge!Send, GemRoomInv
  <1> QED BY <1>1, <1>2, <1>3, <1>4, <1>5, <1>6, <1>7, <1>8, <1>9, <1>10, <1>11, <1>12, <1>13,
             <1>14 DEF Ge!Next

\* Every part of the miniport's types, and the places of its lists.
GemSendInv ==
  /\ GemListInv /\ GemIdleInv /\ GemRoomInv /\ GemFlagTypes /\ GemIrqTypes /\ GemDpcTypes

LEMMA GemSendInit == Ge!Init => GemSendInv
  <1> SUFFICES ASSUME Ge!Init
               PROVE  GemSendInv
    OBVIOUS
  <1>1. tx = <<>> /\ Len(tx) = 0 /\ owned = {} /\ done = [dpc |-> {}, op |-> {}]
    BY DEF Ge!Init
  <1>2. GemListInv
    <2>1. done \in [dpc : SUBSET Nbls, op : SUBSET Nbls] /\ done.dpc = {} /\ done.op = {}
      BY <1>1
    <2>2. \A n : ~InRing(n)
      BY <1>1 DEF InRing
    <2> QED BY <1>1, <2>1, <2>2 DEF GemListInv
  <1>3. GemIdleInv
    BY <1>1 DEF Ge!Init, Ge!None, GemIdleInv
  <1>4. GemRoomInv
    BY <1>1, GemAssumption DEF Ge!Init, GemRoomInv
  <1>5. GemFlagTypes
    BY DEF Ge!Init, GemFlagTypes
  <1>6. GemIrqTypes
    BY DEF Ge!Init, GemIrqTypes
  <1>7. GemDpcTypes
    BY GemAssumption DEF Ge!Init, GemDpcTypes
  <1> QED BY <1>2, <1>3, <1>4, <1>5, <1>6, <1>7 DEF GemSendInv

LEMMA GemSendStep == GemInv /\ GemSendInv /\ (Ge!Next \/ UNCHANGED gem) => GemSendInv'
  <1> SUFFICES ASSUME GemInv, GemSendInv, Ge!Next \/ UNCHANGED gem
               PROVE  GemSendInv'
    OBVIOUS
  <1>1. CASE UNCHANGED gem
    <2> USE <1>1 DEF gem, GemInv, GemRingInv
    <2>1. GemListInv'
      BY GemListsKept DEF GemSendInv
    <2>2. GemIdleInv' /\ GemRoomInv'
      BY DEF GemSendInv, GemIdleInv, GemRoomInv
    <2>3. GemFlagTypes' /\ GemIrqTypes' /\ GemDpcTypes'
      BY DEF GemSendInv, GemFlagTypes, GemIrqTypes, GemDpcTypes, Ge!Events, Ge!All
    <2> QED BY <2>1, <2>2, <2>3 DEF GemSendInv
  <1>2. CASE Ge!Next
    BY <1>2, GemListStep, GemIdleStep, GemRoomStep, GemFlagStep, GemIrqStep, GemDpcStep
       DEF GemInv, GemSendInv
  <1> QED BY <1>1, <1>2

LEMMA GemSendAlways == AllSpec => [](GemInv /\ GemSendInv)
  <1>1. AllInit => GemSendInv
    BY GemSendInit DEF AllInit
  <1>2. GemInv /\ GemSendInv /\ [AllNext]_<<part, vars, boardVars, fan, gpio, bcm, gem, bt>>
          => GemSendInv'
    <2>1. [AllNext]_<<part, vars, boardVars, fan, gpio, bcm, gem, bt>>
            => Ge!Next \/ UNCHANGED gem
      BY DEF AllNext
    <2> QED BY <2>1, GemSendStep
  <1> QED BY <1>1, <1>2, GemAlways, PTL DEF AllSpec

LEMMA GemWellTyped == GemInv /\ GemSendInv => Ge!TypeOK
  <1> SUFFICES ASSUME GemInv, GemSendInv
               PROVE  Ge!TypeOK
    OBVIOUS
  <1>1. /\ life \in {"halted", "paused", "running", "off"}
        /\ op.by \in {"none", "pause", "recover", "link", "halt", "shutdown", "gone"}
        /\ op.at \in {"none", "check", "idle", "drain", "collect", "complete", "start", "free"}
        /\ op.speed \in 0 .. 1 /\ speed \in 0 .. 1
    BY DEF GemInv, GemOpInv, Stopping
  <1>2. {thread, run, powered, fault, e_touched, retain, gone, recovery} \subseteq BOOLEAN
    BY DEF GemSendInv, GemFlagTypes
  <1>3. {irqRunning, deferred, suppressed, imr, mac, inflight} \subseteq BOOLEAN
    BY DEF GemSendInv, GemIrqTypes
  <1>4. irqPending \subseteq Ge!Events /\ isr \subseteq Ge!Events
    BY DEF GemSendInv, GemIrqTypes
  <1>5. /\ dpc \in {"none", "transmit", "complete", "receive", "end"} /\ dpcCpu \in Cpus
        /\ looked \in 0 .. Batch /\ received \in 0 .. Batch /\ limit \in {1, Ge!All}
        /\ queued \subseteq Cpus
    BY GemAssumption DEF GemSendInv, GemDpcTypes
  <1>6. tx \in Seq([nbl : Nbls, last : BOOLEAN, used : BOOLEAN]) /\ Len(tx) < Ring
    BY DEF GemInv, GemRingInv, GemSendInv, GemRoomInv
  <1>7. owned \subseteq Nbls /\ \A a \in {"dpc", "op"} : done[a] \subseteq Nbls
    BY DEF GemSendInv, GemListInv
  <1>8. rx \in 0 .. Ring /\ txgo \in {"idle", "go", "stuck"}
    BY DEF GemInv, GemLifeInv, GemSendInv, GemRoomInv
  <1>9. memory \in {"none", "held", "retained"}
    BY DEF GemSendInv, GemFlagTypes
  <1> QED BY <1>1, <1>2, <1>3, <1>4, <1>5, <1>6, <1>7, <1>8, <1>9 DEF Ge!TypeOK

\* The number of places the property speaks of.
LEMMA GemPlaces ==
  ASSUME GemInv, GemSendInv, NEW n \in Nbls
  PROVE  Ge!Places(n) = IF n \in owned THEN 1 ELSE 0
  <1> DEFINE Ends == {i \in DOMAIN tx : tx[i].nbl = n /\ tx[i].last}
  <1>1. DOMAIN tx = 1 .. Len(tx)
    BY DEF GemInv, GemRingInv
  <1>2. InRing(n) <=> Ends # {}
    BY <1>1 DEF InRing
  <1>3. \A i, j \in Ends : i = j
    BY <1>1 DEF GemSendInv, GemListInv
  <1> HIDE DEF Ends
  <1>4. Cardinality(Ends) = IF InRing(n) THEN 1 ELSE 0
    <2>1. CASE Ends = {}
      BY <1>2, <2>1, FS_EmptySet
    <2>2. CASE Ends # {}
      <3>1. PICK i \in Ends : TRUE
        BY <2>2
      <3>2. Ends = {i}
        BY <1>3, <3>1
      <3> QED BY <1>2, <2>2, <3>2, FS_Singleton
    <2> QED BY <2>1, <2>2
  <1>5. Ge!Places(n) = (IF InRing(n) THEN 1 ELSE 0)
                         + (IF n \in done.dpc THEN 1 ELSE 0) + (IF n \in done.op THEN 1 ELSE 0)
    BY <1>4, GemCardinality DEF Ge!Places, Ends
  <1>6. /\ InRing(n) => n \in owned /\ n \notin done.dpc /\ n \notin done.op
        /\ n \in done.dpc => n \in owned /\ n \notin done.op
        /\ n \in done.op => n \in owned
        /\ n \in owned => InRing(n) \/ n \in done.dpc \/ n \in done.op
    BY DEF GemSendInv, GemListInv
  <1> QED BY <1>5, <1>6

-------------------------------------------------------------------------------
(* The pins (Gpio, BcmGpio).                                               *)
(*                                                                         *)
(* Between a stop that saved the context and the start that brings it back *)
(* every pin is as the firmware left it although clients have it: what the *)
(* pins will be is in resume.  A controller that is not to resume has lent *)
(* nothing.                                                                *)

\* The pins of a client, in the registers or in the saved context.
GpioLentInv(regs) ==
  /\ \A p \in g_io \union g_irq : regs[p].fn = "gpio" /\ (regs[p].drive <=> p \in g_output)
  /\ \A p \in g_function : regs[p].fn = "alt"
  /\ \A p \in g_irq : regs[p].events # "none"
  /\ \A p \in g_touched \ (g_irq \union g_preserved) : regs[p].events = "none"

GpioInv ==
  /\ Gp!TypeOK
  /\ \A p \in Gp!Pins : p \notin g_touched => g_pin[p] = g_boot[p]
  /\ Gp!Owned \subseteq g_touched /\ g_touched \subseteq Gp!Owned \union g_preserved
  /\ g_phase # "started" => g_pin = g_boot /\ inte = {}
  /\ g_phase # "started" /\ ~g_saved => Gp!Owned = {}
  /\ g_function \intersect (g_io \union g_irq) = {} /\ g_output \intersect g_irq = {}
  /\ inte \subseteq g_irq
  /\ g_phase = "started" => GpioLentInv(g_pin)
  /\ g_phase # "started" /\ g_saved => GpioLentInv(g_resume) /\ resumeInte \subseteq g_irq

BcmLentInv(regs) ==
  /\ \A p \in n_io \union n_irq : regs[p].mux = "gpio" /\ (regs[p].input <=> p \notin n_output)
  /\ \A p \in n_function : regs[p].mux # "gpio"

BcmInv ==
  /\ Bg!TypeOK
  /\ \A p \in BcmPins : p \notin n_touched => n_pin[p] = n_boot[p]
  /\ Bg!Owned \subseteq n_touched
  /\ n_phase # "failed" /\ ~aon => n_touched \ Bg!Owned \subseteq n_preserved
  /\ n_phase = "prepared" => n_pin = n_boot
  /\ lapsed = {}
  /\ n_phase \in {"off", "prepared"} => (~aon => mask = {}) /\ (l2WasMasked => l2)
  /\ n_phase \in {"off", "prepared"} /\ ~n_saved => Bg!Owned = {}
  /\ n_phase = "off" => Bg!Owned = {}
  /\ n_function \intersect (n_io \union n_irq) = {} /\ n_output \intersect n_irq = {}
  /\ mask \subseteq n_irq /\ (aon => n_irq = {} /\ resumeMask = {} /\ ~l2WasMasked)
  /\ n_phase = "started" => BcmLentInv(n_pin)
  /\ n_phase \in {"off", "prepared"} /\ n_saved =>
       BcmLentInv(n_resume) /\ resumeMask \subseteq n_irq

\* GpioRestore writes the saved states of some pins and nothing else.
LEMMA GpioRestored ==
  ASSUME Gp!TypeOK, NEW S \in SUBSET Gp!Pins, NEW saved \in [Gp!Pins -> Gp!States],
         Gp!GpioRestore(S, saved)
  PROVE  /\ g_pin' \in [Gp!Pins -> Gp!States] /\ floated' \subseteq Gp!Pins
         /\ \A p \in S : g_pin'[p] = saved[p]
         /\ \A p \in Gp!Pins \ S : g_pin'[p] = g_pin[p]
  <1>1. g_pin \in [Gp!Pins -> Gp!States]
    BY DEF Gp!TypeOK
  <1> HIDE DEF Gp!Pins, Gp!States
  <1> QED BY <1>1 DEF Gp!GpioRestore

\* GpioConfigure sets function and drive, and keeps the events of interrupts only.
LEMMA GpioConfigured ==
  ASSUME Gp!TypeOK, NEW S \in SUBSET Gp!Pins, NEW fn \in {"gpio", "none", "alt"},
         NEW drives \in BOOLEAN, Gp!GpioConfigure(S, fn, drives)
  PROVE  /\ g_pin' \in [Gp!Pins -> Gp!States] /\ floated' \subseteq Gp!Pins
         /\ \A p \in S : /\ g_pin'[p].fn = fn /\ (g_pin'[p].drive <=> drives)
                         /\ (p \in g_irq => g_pin'[p].events = g_pin[p].events)
                         /\ (p \notin g_irq => g_pin'[p].events = "none")
         /\ \A p \in Gp!Pins \ S : g_pin'[p] = g_pin[p]
         /\ g_touched' = g_touched \union S
  <1>1. g_pin \in [Gp!Pins -> Gp!States]
    BY DEF Gp!TypeOK
  <1>2. /\ g_pin' = [p \in Gp!Pins |-> IF p \in S THEN Gp!Configured(p, fn, drives) ELSE g_pin[p]]
        /\ floated' \subseteq S /\ g_touched' = g_touched \union S
    BY DEF Gp!GpioConfigure
  <1>3. ASSUME NEW p \in Gp!Pins
        PROVE  /\ Gp!Configured(p, fn, drives) \in Gp!States
               /\ Gp!Configured(p, fn, drives).fn = fn
               /\ Gp!Configured(p, fn, drives).drive = drives
               /\ (p \in g_irq => Gp!Configured(p, fn, drives).events = g_pin[p].events)
               /\ (p \notin g_irq => Gp!Configured(p, fn, drives).events = "none")
    <2>1. g_pin[p] \in Gp!States
      BY <1>1
    <2> QED BY <2>1 DEF Gp!Configured, Gp!States
  <1> HIDE DEF Gp!Pins, Gp!States
  <1> QED BY <1>1, <1>2, <1>3

\* The pins that are given back are in their boot state, and remembered no more.
LEMMA GpioUnowned ==
  ASSUME Gp!TypeOK, NEW S \in SUBSET Gp!Pins, NEW i, NEW q, NEW f, NEW free,
         free = S \ (i \union q \union f), Gp!RestoreUnowned(S, i, q, f)
  PROVE  /\ g_pin' \in [Gp!Pins -> Gp!States] /\ floated' \subseteq Gp!Pins
         /\ \A p \in free : g_pin'[p] = g_boot[p]
         /\ \A p \in Gp!Pins \ free : g_pin'[p] = g_pin[p]
         /\ g_touched' = g_touched \ free
  <1>1. Gp!GpioRestore(free, g_boot) /\ g_touched' = g_touched \ free /\ free \in SUBSET Gp!Pins
    BY DEF Gp!RestoreUnowned
  <1>2. g_boot \in [Gp!Pins -> Gp!States]
    BY DEF Gp!TypeOK
  <1> QED BY <1>1, <1>2, GpioRestored

LEMMA GpioStep ==
  ASSUME GpioInv, Gp!Next
  PROVE  GpioInv'
  <1>0. Gp!TypeOK
    BY DEF GpioInv
  <1>1. CASE Gp!GpioPrepare
    BY <1>1 DEF GpioInv, Gp!TypeOK, GpioLentInv, Gp!Owned, Gp!own, Gp!GpioPrepare
  <1>2. CASE Gp!GpioRelease
    BY <1>2 DEF GpioInv, Gp!TypeOK, GpioLentInv, Gp!Owned, Gp!own, Gp!GpioRelease
  <1>3. CASE Gp!GpioStart
    <2>0. /\ g_phase = "prepared" /\ g_phase' = "started" /\ ~g_saved'
          /\ UNCHANGED <<g_boot, g_resume, resumeInte, g_touched, g_io, g_output, g_irq,
                         g_function, g_preserved>>
      BY <1>3 DEF Gp!GpioStart, Gp!own
    <2>3. route' \in BOOLEAN /\ g_saved' \in BOOLEAN
      BY <1>3 DEF Gp!GpioStart
    <2>1. CASE g_saved
      <3>1. Gp!GpioRestore(g_touched, g_resume)
        BY <1>3, <2>1 DEF Gp!GpioStart
      <3>2. /\ g_pin' \in [Gp!Pins -> Gp!States] /\ floated' \subseteq Gp!Pins
            /\ \A p \in g_touched : g_pin'[p] = g_resume[p]
            /\ \A p \in Gp!Pins \ g_touched : g_pin'[p] = g_pin[p]
        BY <1>0, <3>1, GpioRestored DEF Gp!TypeOK
      <3>3. inte' = inte \union resumeInte
        BY <1>3, <2>1 DEF Gp!GpioStart
      <3>4. Gp!TypeOK'
        BY <2>0, <2>3, <3>2, <3>3 DEF GpioInv, Gp!TypeOK
      <3> QED BY <2>0, <2>1, <3>2, <3>3, <3>4 DEF GpioInv, GpioLentInv, Gp!Owned, Gp!TypeOK
    <2>2. CASE ~g_saved
      <3>1. floated' = {} /\ UNCHANGED <<g_pin, inte>> /\ Gp!Owned = {}
        BY <1>3, <2>2 DEF Gp!GpioStart, GpioInv
      <3>2. Gp!TypeOK'
        BY <2>0, <2>3, <3>1 DEF GpioInv, Gp!TypeOK
      <3>3. g_touched \subseteq g_preserved /\ g_io = {} /\ g_irq = {} /\ g_function = {}
        BY <3>1 DEF GpioInv, Gp!Owned
      <3> QED BY <2>0, <2>2, <3>1, <3>2, <3>3 DEF GpioInv, GpioLentInv, Gp!Owned
    <2> QED BY <2>1, <2>2
  <1>4. ASSUME NEW save \in BOOLEAN, Gp!GpioStop(save)
        PROVE  GpioInv'
    <2>1. Gp!GpioRestore(g_touched, g_boot)
      BY <1>4 DEF Gp!GpioStop
    <2>2. /\ g_pin' \in [Gp!Pins -> Gp!States] /\ floated' \subseteq Gp!Pins
          /\ \A p \in g_touched : g_pin'[p] = g_boot[p]
          /\ \A p \in Gp!Pins \ g_touched : g_pin'[p] = g_pin[p]
      BY <1>0, <2>1, GpioRestored DEF Gp!TypeOK
    <2>3. g_pin' = g_boot
      BY <1>0, <2>2 DEF GpioInv, Gp!TypeOK
    <2> QED BY <1>4, <2>2, <2>3 DEF GpioInv, Gp!TypeOK, GpioLentInv, Gp!Owned, Gp!own, Gp!GpioStop
  <1>5. ASSUME NEW S \in Gp!Some, Gp!GpioConnectInput(S)
        PROVE  GpioInv'
    <2>1. S \in SUBSET Gp!Pins /\ Gp!GpioConfigure(S, "gpio", FALSE)
      BY <1>5 DEF Gp!Some, Gp!GpioConnectInput
    <2>2. /\ g_pin' \in [Gp!Pins -> Gp!States] /\ floated' \subseteq Gp!Pins
          /\ \A p \in S : /\ g_pin'[p].fn = "gpio" /\ (g_pin'[p].drive <=> FALSE)
                          /\ (p \in g_irq => g_pin'[p].events = g_pin[p].events)
                          /\ (p \notin g_irq => g_pin'[p].events = "none")
          /\ \A p \in Gp!Pins \ S : g_pin'[p] = g_pin[p]
          /\ g_touched' = g_touched \union S
      BY <1>0, <2>1, GpioConfigured
    <2> QED BY <1>5, <2>1, <2>2 DEF GpioInv, Gp!TypeOK, GpioLentInv, Gp!Owned, Gp!own,
        Gp!GpioConnectInput, Gp!GpioCanClaim
  <1>6. ASSUME NEW S \in Gp!Some, Gp!GpioConnectOutput(S)
        PROVE  GpioInv'
    <2>1. S \in SUBSET Gp!Pins /\ Gp!GpioConfigure(S, "gpio", TRUE)
      BY <1>6 DEF Gp!Some, Gp!GpioConnectOutput
    <2>2. /\ g_pin' \in [Gp!Pins -> Gp!States] /\ floated' \subseteq Gp!Pins
          /\ \A p \in S : /\ g_pin'[p].fn = "gpio" /\ (g_pin'[p].drive <=> TRUE)
                          /\ (p \in g_irq => g_pin'[p].events = g_pin[p].events)
                          /\ (p \notin g_irq => g_pin'[p].events = "none")
          /\ \A p \in Gp!Pins \ S : g_pin'[p] = g_pin[p]
          /\ g_touched' = g_touched \union S
      BY <1>0, <2>1, GpioConfigured
    <2> QED BY <1>6, <2>1, <2>2 DEF GpioInv, Gp!TypeOK, GpioLentInv, Gp!Owned, Gp!own,
        Gp!GpioConnectOutput, Gp!GpioCanClaim
  <1>7. ASSUME NEW S \in Gp!Some, Gp!GpioConnectFunction(S)
        PROVE  GpioInv'
    <2>1. S \in SUBSET Gp!Pins /\ Gp!GpioConfigure(S, "alt", FALSE)
      BY <1>7 DEF Gp!Some, Gp!GpioConnectFunction
    <2>2. /\ g_pin' \in [Gp!Pins -> Gp!States] /\ floated' \subseteq Gp!Pins
          /\ \A p \in S : /\ g_pin'[p].fn = "alt" /\ (g_pin'[p].drive <=> FALSE)
                          /\ (p \in g_irq => g_pin'[p].events = g_pin[p].events)
                          /\ (p \notin g_irq => g_pin'[p].events = "none")
          /\ \A p \in Gp!Pins \ S : g_pin'[p] = g_pin[p]
          /\ g_touched' = g_touched \union S
      BY <1>0, <2>1, GpioConfigured
    <2>3. /\ g_phase = "started" /\ S \intersect Board = {} /\ S \intersect Gp!Owned = {}
          /\ g_function' = g_function \union S /\ g_preserved' = g_preserved \ S
          /\ UNCHANGED <<g_phase, route, inte, g_boot, g_resume, resumeInte, g_io, g_output,
                         g_irq, g_saved>>
      BY <1>7 DEF Gp!GpioConnectFunction, Gp!GpioCanClaim
    <2>4. Gp!TypeOK'
      <3>1. S \subseteq Header
        BY <2>1, <2>3 DEF Gp!Pins
      <3> QED BY <2>1, <2>2, <2>3, <3>1 DEF GpioInv, Gp!TypeOK
    <2>5. GpioLentInv(g_pin)'
      BY <2>1, <2>2, <2>3 DEF GpioInv, Gp!TypeOK, GpioLentInv, Gp!Owned
    <2> QED BY <2>1, <2>2, <2>3, <2>4, <2>5 DEF GpioInv, Gp!Owned
  <1>8. ASSUME NEW S \in Gp!Some, Gp!GpioDisconnectFunction(S)
        PROVE  GpioInv'
    <2> DEFINE free == S \ (g_io \union g_irq \union g_function')
    <2>1. /\ S \in SUBSET Gp!Pins /\ g_phase = "started" /\ S \subseteq g_function
          /\ g_function' = g_function \ S /\ Gp!RestoreUnowned(S, g_io, g_irq, g_function')
          /\ UNCHANGED <<g_phase, route, inte, g_boot, g_resume, resumeInte, g_io, g_output,
                         g_irq, g_saved, g_preserved>>
      BY <1>8 DEF Gp!Some, Gp!GpioDisconnectFunction
    <2>2. /\ g_pin' \in [Gp!Pins -> Gp!States] /\ floated' \subseteq Gp!Pins
          /\ \A p \in free : g_pin'[p] = g_boot[p]
          /\ \A p \in Gp!Pins \ free : g_pin'[p] = g_pin[p]
          /\ g_touched' = g_touched \ free
      BY <1>0, <2>1, GpioUnowned
    <2> QED BY <2>1, <2>2 DEF GpioInv, Gp!TypeOK, GpioLentInv, Gp!Owned, Gp!own
  <1>9. ASSUME NEW S \in Gp!Some, NEW keep \in BOOLEAN, Gp!GpioDisconnect(S, keep)
        PROVE  GpioInv'
    <2> DEFINE free == S \ (g_io' \union g_irq \union g_function)
    <2>1. /\ S \in SUBSET Gp!Pins /\ g_phase = "started" /\ S \subseteq g_io
          /\ g_io' = g_io \ S /\ g_output' = g_output \ S
          /\ UNCHANGED <<g_phase, route, inte, g_boot, g_resume, resumeInte, g_irq, g_function,
                         g_saved>>
      BY <1>9 DEF Gp!Some, Gp!GpioDisconnect
    <2>2. CASE keep
      <3>1. floated' = {} /\ g_preserved' = g_preserved \union S /\ UNCHANGED <<g_pin, g_touched>>
        BY <1>9, <2>2 DEF Gp!GpioDisconnect
      <3> QED BY <2>1, <3>1 DEF GpioInv, Gp!TypeOK, GpioLentInv, Gp!Owned, Gp!own
    <2>3. CASE ~keep
      <3>1. Gp!RestoreUnowned(S, g_io', g_irq, g_function) /\ g_preserved' = g_preserved
        BY <1>9, <2>3 DEF Gp!GpioDisconnect
      <3>2. /\ g_pin' \in [Gp!Pins -> Gp!States] /\ floated' \subseteq Gp!Pins
            /\ \A p \in free : g_pin'[p] = g_boot[p]
            /\ \A p \in Gp!Pins \ free : g_pin'[p] = g_pin[p]
            /\ g_touched' = g_touched \ free
        BY <1>0, <2>1, <3>1, GpioUnowned
      <3> QED BY <2>1, <3>1, <3>2 DEF GpioInv, Gp!TypeOK, GpioLentInv, Gp!Owned, Gp!own
    <2> QED BY <2>2, <2>3
  <1>10. ASSUME NEW S \in SUBSET Header \ {{}}, Gp!GpioMaskInterrupts(S)
        PROVE  GpioInv'
    BY <1>10 DEF GpioInv, Gp!TypeOK, GpioLentInv, Gp!Owned, Gp!own, Gp!GpioMaskInterrupts
  <1>11. ASSUME NEW p \in Gp!Pins, NEW value \in BOOLEAN, Gp!GpioWritePins(p, value)
        PROVE  GpioInv'
    BY <1>11 DEF GpioInv, Gp!TypeOK, GpioLentInv, Gp!Owned, Gp!own, Gp!GpioWritePins, Gp!States
  <1>12. ASSUME NEW p \in Header, Gp!GpioDisableInterrupt(p)
        PROVE  GpioInv'
    <2> DEFINE free == {p} \ (g_io \union g_irq' \union g_function)
    <2>1. /\ p \in Gp!Pins /\ g_phase = "started" /\ p \in g_irq /\ g_irq' = g_irq \ {p}
          /\ inte' = inte \ {p}
          /\ UNCHANGED <<g_phase, route, g_boot, g_resume, resumeInte, g_io, g_output, g_function,
                         g_saved, g_preserved>>
      BY <1>12 DEF Gp!Pins, Gp!GpioDisableInterrupt
    <2>2. CASE p \in g_io \union g_function
      <3>1. g_pin' = [g_pin EXCEPT ![p].events = "none"] /\ floated' = {} /\ g_touched' = g_touched
        BY <1>12, <2>2 DEF Gp!GpioDisableInterrupt
      <3> QED BY <2>1, <2>2, <3>1 DEF GpioInv, Gp!TypeOK, GpioLentInv, Gp!Owned, Gp!own, Gp!States
    <2>3. CASE p \notin g_io \union g_function
      <3>1. Gp!RestoreUnowned({p}, g_io, g_irq', g_function)
        BY <1>12, <2>3 DEF Gp!GpioDisableInterrupt
      <3>2. /\ g_pin' \in [Gp!Pins -> Gp!States] /\ floated' \subseteq Gp!Pins
            /\ \A r \in free : g_pin'[r] = g_boot[r]
            /\ \A r \in Gp!Pins \ free : g_pin'[r] = g_pin[r]
            /\ g_touched' = g_touched \ free
        BY <1>0, <2>1, <3>1, GpioUnowned
      <3> QED BY <2>1, <2>3, <3>2 DEF GpioInv, Gp!TypeOK, GpioLentInv, Gp!Owned, Gp!own
    <2> QED BY <2>2, <2>3
  <1>13. ASSUME NEW p \in Header, Gp!GpioUnmaskInterrupt(p)
        PROVE  GpioInv'
    BY <1>13 DEF GpioInv, Gp!TypeOK, GpioLentInv, Gp!Owned, Gp!own, Gp!GpioUnmaskInterrupt
  <1>14. ASSUME NEW p \in Header, NEW t \in {"rise", "fall"}, Gp!GpioEnableInterrupt(p, t)
        PROVE  GpioInv'
    <2>1. /\ p \in Gp!Pins /\ g_phase = "started"
          /\ p \notin g_function \union g_output \union g_irq
          /\ g_irq' = g_irq \union {p} /\ inte' = inte \union {p}
          /\ g_pin' = [g_pin EXCEPT ![p] = [Gp!Configured(p, "gpio", FALSE) EXCEPT !.events = t]]
          /\ floated' = {p} /\ g_touched' = g_touched \union {p}
          /\ g_preserved' = g_preserved \ {p}
          /\ UNCHANGED <<g_phase, route, g_boot, g_resume, resumeInte, g_io, g_output, g_function,
                         g_saved>>
      BY <1>14 DEF Gp!GpioEnableInterrupt, Gp!GpioCanClaim, Gp!Pins
    <2> DEFINE new == [Gp!Configured(p, "gpio", FALSE) EXCEPT !.events = t]
    <2>2. /\ new \in Gp!States /\ new.fn = "gpio" /\ ~new.drive /\ new.events = t
          /\ t # "none" /\ p \in Header
      <3>1. g_pin[p] \in Gp!States
        BY <1>0, <2>1 DEF Gp!TypeOK
      <3> QED BY <1>14, <3>1 DEF Gp!Configured, Gp!States
    <2>3. g_pin' = [g_pin EXCEPT ![p] = new]
      BY <2>1
    <2> HIDE DEF new
    <2>4. /\ g_pin' \in [Gp!Pins -> Gp!States] /\ g_pin'[p] = new
          /\ \A r \in Gp!Pins \ {p} : g_pin'[r] = g_pin[r]
      BY <1>0, <2>1, <2>2, <2>3 DEF Gp!TypeOK
    <2>5. Gp!TypeOK'
      BY <2>1, <2>2, <2>4 DEF GpioInv, Gp!TypeOK
    <2>6. GpioLentInv(g_pin)'
      <3>0. /\ GpioLentInv(g_pin) /\ Header \subseteq Gp!Pins
            /\ g_io \subseteq Gp!Pins /\ g_irq \subseteq Gp!Pins /\ g_function \subseteq Gp!Pins
            /\ g_touched \subseteq Gp!Pins
        BY <1>0, <2>1 DEF GpioInv, Gp!TypeOK, Gp!Pins
      <3>1. \A r \in g_io' \union g_irq' :
               g_pin'[r].fn = "gpio" /\ (g_pin'[r].drive <=> r \in g_output')
        BY <2>1, <2>2, <2>4, <3>0 DEF GpioLentInv
      <3>2. \A r \in g_function' : g_pin'[r].fn = "alt"
        BY <2>1, <2>4, <3>0 DEF GpioLentInv
      <3>3. /\ \A r \in g_irq' : g_pin'[r].events # "none"
            /\ \A r \in g_touched' \ (g_irq' \union g_preserved') : g_pin'[r].events = "none"
        BY <2>1, <2>2, <2>4, <3>0 DEF GpioLentInv
      <3> QED BY <3>1, <3>2, <3>3 DEF GpioLentInv
    <2> QED BY <2>1, <2>4, <2>5, <2>6 DEF GpioInv, Gp!Owned
  <1>15. ASSUME NEW p \in Header, NEW t \in {"rise", "fall"}, Gp!GpioReconfigureInterrupt(p, t)
        PROVE  GpioInv'
    BY <1>15 DEF GpioInv, Gp!TypeOK, GpioLentInv, Gp!Owned, Gp!own,
       Gp!GpioReconfigureInterrupt, Gp!States, Gp!Pins
  <1> QED BY <1>1, <1>2, <1>3, <1>4, <1>5, <1>6, <1>7, <1>8, <1>9, <1>10, <1>11, <1>12, <1>13,
             <1>14, <1>15 DEF Gp!Next


\* GpioRestore, GpioConfigure and RestoreUnowned let no driven board output float.
GpioHeld ==
  \A p \in floated' \intersect Board : ~(Gp!Driven(g_pin[p]) /\ Gp!Driven(g_pin'[p]))

LEMMA GpioRestoreHeld ==
  ASSUME Gp!TypeOK, NEW S \in SUBSET Gp!Pins, NEW saved, Gp!GpioRestore(S, saved)
  PROVE  GpioHeld
  <1>1. ASSUME NEW p \in floated' \intersect Board, Gp!Driven(g_pin[p]), Gp!Driven(g_pin'[p])
        PROVE  FALSE
    <2>1. p \in S /\ p \in Gp!Pins /\ ~Gp!RestoreHolds(p, saved[p])
      BY <1>1 DEF Gp!GpioRestore
    <2>2. g_pin'[p] = saved[p]
      BY <2>1 DEF Gp!GpioRestore
    <2> QED BY <1>1, <2>1, <2>2 DEF Gp!RestoreHolds
  <1> QED BY <1>1 DEF GpioHeld

LEMMA GpioConfigureHeld ==
  ASSUME Gp!TypeOK, NEW S \in SUBSET Gp!Pins, NEW fn \in {"gpio", "none", "alt"},
         NEW drives \in BOOLEAN, Gp!GpioConfigure(S, fn, drives)
  PROVE  GpioHeld
  <1>1. ASSUME NEW p \in floated' \intersect Board, Gp!Driven(g_pin[p]), Gp!Driven(g_pin'[p])
        PROVE  FALSE
    <2>1. p \in S /\ p \in Gp!Pins /\ ~Gp!ConfigureHolds(p, fn, drives)
      BY <1>1 DEF Gp!GpioConfigure
    <2>3. g_pin'[p] = Gp!Configured(p, fn, drives)
      BY <2>1 DEF Gp!GpioConfigure
    <2>4. g_pin[p] \in Gp!States
      BY <2>1 DEF Gp!TypeOK
    <2>2. g_pin'[p].fn = fn /\ (g_pin'[p].drive <=> drives)
      BY <2>3, <2>4 DEF Gp!Configured, Gp!States
    <2> QED BY <1>1, <2>1, <2>2 DEF Gp!ConfigureHolds, Gp!Driven
  <1> QED BY <1>1 DEF GpioHeld

LEMMA GpioUnownedHeld ==
  ASSUME Gp!TypeOK, NEW S \in SUBSET Gp!Pins, NEW i, NEW q, NEW f, Gp!RestoreUnowned(S, i, q, f)
  PROVE  GpioHeld
  <1> DEFINE free == S \ (i \union q \union f)
  <1>1. Gp!GpioRestore(free, g_boot) /\ free \in SUBSET Gp!Pins
    BY DEF Gp!RestoreUnowned
  <1> HIDE DEF free
  <1> QED BY <1>1, GpioRestoreHeld

LEMMA GpioHolds ==
  ASSUME GpioInv, Gp!Next
  PROVE  GpioHeld
  <1>0. Gp!TypeOK
    BY DEF GpioInv
  <1>1. CASE Gp!GpioPrepare \/ Gp!GpioRelease
    BY <1>1 DEF Gp!GpioPrepare, Gp!GpioRelease, GpioHeld
  <1>2. CASE Gp!GpioStart
    <2>1. g_touched \in SUBSET Gp!Pins
      BY <1>0 DEF Gp!TypeOK
    <2>2. CASE g_saved
      BY <1>0, <1>2, <2>1, <2>2, GpioRestoreHeld DEF Gp!GpioStart
    <2>3. CASE ~g_saved
      BY <1>2, <2>3 DEF Gp!GpioStart, GpioHeld
    <2> QED BY <2>2, <2>3
  <1>3. ASSUME NEW save \in BOOLEAN, Gp!GpioStop(save)
        PROVE  GpioHeld
    <2>1. g_touched \in SUBSET Gp!Pins /\ Gp!GpioRestore(g_touched, g_boot)
      BY <1>0, <1>3 DEF Gp!TypeOK, Gp!GpioStop
    <2> QED BY <1>0, <2>1, GpioRestoreHeld
  <1>4. ASSUME NEW S \in Gp!Some,
               \/ Gp!GpioConnectInput(S) \/ Gp!GpioConnectOutput(S) \/ Gp!GpioConnectFunction(S)
        PROVE  GpioHeld
    <2>1. S \in SUBSET Gp!Pins
      BY DEF Gp!Some
    <2>2. \E fn \in {"gpio", "none", "alt"}, drives \in BOOLEAN : Gp!GpioConfigure(S, fn, drives)
      BY <1>4 DEF Gp!GpioConnectInput, Gp!GpioConnectOutput, Gp!GpioConnectFunction
    <2> QED BY <1>0, <2>1, <2>2, GpioConfigureHeld
  <1>5. ASSUME NEW S \in Gp!Some, Gp!GpioDisconnectFunction(S)
        PROVE  GpioHeld
    <2>1. S \in SUBSET Gp!Pins /\ Gp!RestoreUnowned(S, g_io, g_irq, g_function')
      BY <1>5 DEF Gp!Some, Gp!GpioDisconnectFunction
    <2> QED BY <1>0, <2>1, GpioUnownedHeld
  <1>6. ASSUME NEW S \in Gp!Some, NEW keep \in BOOLEAN, Gp!GpioDisconnect(S, keep)
        PROVE  GpioHeld
    <2>1. S \in SUBSET Gp!Pins
      BY DEF Gp!Some
    <2>2. CASE keep
      BY <1>6, <2>2 DEF Gp!GpioDisconnect, GpioHeld
    <2>3. CASE ~keep
      <3>1. Gp!RestoreUnowned(S, g_io', g_irq, g_function)
        BY <1>6, <2>3 DEF Gp!GpioDisconnect
      <3> QED BY <1>0, <2>1, <3>1, GpioUnownedHeld
    <2> QED BY <2>2, <2>3
  <1>7. ASSUME NEW S \in SUBSET Header \ {{}}, Gp!GpioMaskInterrupts(S)
        PROVE  GpioHeld
    BY <1>7 DEF Gp!GpioMaskInterrupts, GpioHeld
  <1>8. ASSUME NEW p \in Gp!Pins, NEW value \in BOOLEAN, Gp!GpioWritePins(p, value)
        PROVE  GpioHeld
    BY <1>8 DEF Gp!GpioWritePins, GpioHeld
  <1>9. ASSUME NEW p \in Header, Gp!GpioDisableInterrupt(p)
        PROVE  GpioHeld
    <2>1. CASE p \in g_io \union g_function
      BY <1>9, <2>1 DEF Gp!GpioDisableInterrupt, GpioHeld
    <2>2. CASE p \notin g_io \union g_function
      <3>1. Gp!RestoreUnowned({p}, g_io, g_irq', g_function) /\ {p} \in SUBSET Gp!Pins
        BY <1>9, <2>2 DEF Gp!GpioDisableInterrupt, Gp!Pins
      <3> QED BY <1>0, <3>1, GpioUnownedHeld
    <2> QED BY <2>1, <2>2
  <1>10. ASSUME NEW p \in Header, Gp!GpioUnmaskInterrupt(p)
         PROVE  GpioHeld
    BY <1>10 DEF Gp!GpioUnmaskInterrupt, GpioHeld
  <1>11. ASSUME NEW p \in Header, NEW t \in {"rise", "fall"}, Gp!GpioEnableInterrupt(p, t)
         PROVE  GpioHeld
    <2> DEFINE off == FALSE
    <2>1. floated' = {p} /\ p \in Gp!Pins /\ p \notin g_irq
          /\ g_pin' = [g_pin EXCEPT ![p] = [Gp!Configured(p, "gpio", off) EXCEPT !.events = t]]
      BY <1>11 DEF Gp!GpioEnableInterrupt, Gp!Pins
    <2>2. ~off
      OBVIOUS
    <2> HIDE DEF off
    <2>3. g_pin[p] \in Gp!States /\ g_pin \in [Gp!Pins -> Gp!States]
      BY <1>0, <2>1 DEF Gp!TypeOK
    <2>4. ~Gp!Driven(g_pin'[p])
      BY <2>1, <2>2, <2>3 DEF Gp!Configured, Gp!States, Gp!Driven
    <2> QED BY <2>1, <2>4 DEF GpioHeld
  <1>12. ASSUME NEW p \in Header, NEW t \in {"rise", "fall"}, Gp!GpioReconfigureInterrupt(p, t)
         PROVE  GpioHeld
    BY <1>12 DEF Gp!GpioReconfigureInterrupt, GpioHeld
  <1> QED BY <1>1, <1>2, <1>3, <1>4, <1>5, <1>6, <1>7, <1>8, <1>9, <1>10, <1>11, <1>12
      DEF Gp!Next
\* BcmRestore writes the saved states of some pins, gives up at bad ones with the pin an
\* input, and never lets a pin lapse that is driven before and after.
LEMMA BcmRestored ==
  ASSUME Bg!TypeOK, NEW S \in SUBSET BcmPins, NEW bad \in SUBSET S,
         NEW saved \in [BcmPins -> Bg!States], Bg!BcmRestore(S, bad, saved)
  PROVE  /\ n_pin' \in [BcmPins -> Bg!States] /\ lapsed' = {}
         /\ \A p \in S \ bad : n_pin'[p] = saved[p]
         /\ \A p \in BcmPins \ S : n_pin'[p] = n_pin[p]
  <1>1. n_pin \in [BcmPins -> Bg!States]
    BY DEF Bg!TypeOK
  <1>2. /\ n_pin' = [p \in BcmPins |-> IF p \in bad THEN Bg!Halfway(p, saved[p])
                                       ELSE IF p \in S THEN saved[p] ELSE n_pin[p]]
        /\ lapsed' = {p \in S : /\ Bg!Driven(n_pin[p]) /\ Bg!Driven(n_pin'[p])
                                /\ ~Bg!RestoreHolds(p, saved[p])}
    BY DEF Bg!BcmRestore
  <1>3. ASSUME NEW p \in BcmPins
        PROVE  /\ Bg!Halfway(p, saved[p]) \in Bg!States
               /\ Bg!Driven(Bg!Halfway(p, saved[p])) => Bg!RestoreHolds(p, saved[p])
    <2>1. n_pin[p] \in Bg!States
      BY <1>1
    <2> QED BY <2>1 DEF Bg!Halfway, Bg!States, Bg!Driven
  <1>4. ASSUME NEW p \in S, Bg!Driven(n_pin[p]), Bg!Driven(n_pin'[p])
        PROVE  Bg!RestoreHolds(p, saved[p])
    <2>1. CASE p \in bad
      BY <1>2, <1>3, <1>4, <2>1
    <2>2. CASE p \notin bad
      BY <1>2, <1>4, <2>2 DEF Bg!RestoreHolds
    <2> QED BY <2>1, <2>2
  <1> HIDE DEF Bg!States
  <1> QED BY <1>1, <1>2, <1>3, <1>4

\* A configured pin keeps its latch and its trigger.
LEMMA BcmConfiguredState ==
  ASSUME Bg!TypeOK, NEW p \in BcmPins, NEW mux \in Bg!Muxes, NEW drives \in BOOLEAN
  PROVE  /\ Bg!BcmConfigured(p, mux, drives) \in Bg!States
         /\ Bg!BcmConfigured(p, mux, drives).mux = mux
         /\ Bg!BcmConfigured(p, mux, drives).input <=> ~drives
  <1>1. n_pin[p] \in Bg!States
    BY DEF Bg!TypeOK
  <1> QED BY <1>1 DEF Bg!BcmConfigured, Bg!States

\* BcmConfigure sets mux and direction.
LEMMA BcmConfiguredPins ==
  ASSUME Bg!TypeOK, NEW S \in SUBSET BcmPins, NEW mux \in Bg!Muxes, NEW drives \in BOOLEAN,
         Bg!BcmConfigure(S, mux, drives)
  PROVE  /\ n_pin' \in [BcmPins -> Bg!States] /\ lapsed' = {}
         /\ \A p \in S : n_pin'[p].mux = mux /\ (n_pin'[p].input <=> ~drives)
         /\ \A p \in BcmPins \ S : n_pin'[p] = n_pin[p]
         /\ n_touched' = n_touched \union S
  <1>1. n_pin \in [BcmPins -> Bg!States]
    BY DEF Bg!TypeOK
  <1>2. /\ n_pin' = [p \in BcmPins |-> IF p \in S THEN Bg!BcmConfigured(p, mux, drives)
                                       ELSE n_pin[p]]
        /\ lapsed' = {p \in S : /\ Bg!Driven(n_pin[p]) /\ Bg!Driven(n_pin'[p])
                                /\ ~Bg!ConfigureHolds(p, mux, drives)}
        /\ n_touched' = n_touched \union S
    BY DEF Bg!BcmConfigure
  <1>3. ASSUME NEW p \in BcmPins
        PROVE  /\ Bg!BcmConfigured(p, mux, drives) \in Bg!States
               /\ Bg!BcmConfigured(p, mux, drives).mux = mux
               /\ Bg!BcmConfigured(p, mux, drives).input <=> ~drives
    BY BcmConfiguredState
  <1>4. \A p \in S : /\ n_pin'[p] = Bg!BcmConfigured(p, mux, drives)
                     /\ n_pin'[p].mux = mux /\ (n_pin'[p].input <=> ~drives)
    BY <1>2, <1>3
  <1>5. ASSUME NEW p \in S, Bg!Driven(n_pin[p]), Bg!Driven(n_pin'[p])
        PROVE  Bg!ConfigureHolds(p, mux, drives)
    BY <1>4, <1>5 DEF Bg!Driven, Bg!ConfigureHolds
  <1>6. lapsed' = {}
    BY <1>2, <1>5
  <1>7. n_pin' \in [BcmPins -> Bg!States] /\ \A p \in BcmPins \ S : n_pin'[p] = n_pin[p]
    <2> HIDE DEF Bg!States
    <2> QED BY <1>1, <1>2, <1>3
  <1> QED BY <1>2, <1>4, <1>6, <1>7

BcmFree(S, i, q, f) == S \ (i \union q \union f)

\* RestoreFree forgets only pins that it has restored; the always-on controller's may be
\* left half way, and are not forgotten then.
LEMMA BcmFreed ==
  ASSUME Bg!TypeOK, NEW S \in SUBSET BcmPins, NEW i, NEW q, NEW f, Bg!RestoreFree(S, i, q, f)
  PROVE  /\ n_pin' \in [BcmPins -> Bg!States] /\ lapsed' = {}
         /\ \A p \in BcmPins \ BcmFree(S, i, q, f) : n_pin'[p] = n_pin[p]
         /\ n_touched' \subseteq n_touched /\ n_touched \ n_touched' \subseteq BcmFree(S, i, q, f)
         /\ \A p \in BcmFree(S, i, q, f) :
              p \notin n_touched' => n_pin'[p] = n_boot[p] \/ p \notin n_touched
         /\ ~aon => n_touched' = n_touched \ BcmFree(S, i, q, f)
  <1> DEFINE free == BcmFree(S, i, q, f)
  <1>0. n_boot \in [BcmPins -> Bg!States] /\ free \in SUBSET BcmPins
    BY DEF Bg!TypeOK, BcmFree
  <1>3. free = S \ (i \union q \union f)
    BY DEF BcmFree
  <1> HIDE DEF free
  <1>1. CASE Bg!BcmRestore(free, {}, n_boot) /\ n_touched' = n_touched \ free
    <2>1. {} \in SUBSET free
      OBVIOUS
    <2>2. /\ n_pin' \in [BcmPins -> Bg!States] /\ lapsed' = {}
          /\ \A p \in free \ {} : n_pin'[p] = n_boot[p]
          /\ \A p \in BcmPins \ free : n_pin'[p] = n_pin[p]
      BY <1>0, <1>1, <2>1, BcmRestored
    <2> QED BY <1>1, <2>2 DEF free
  <1>2. ASSUME NEW p \in Bg!MayFail(free), NEW before \in SUBSET (free \ {p}),
               Bg!BcmRestore(before \union {p}, {p}, n_boot), n_touched' = n_touched \ before
        PROVE  /\ n_pin' \in [BcmPins -> Bg!States] /\ lapsed' = {}
               /\ \A r \in BcmPins \ free : n_pin'[r] = n_pin[r]
               /\ n_touched' \subseteq n_touched /\ n_touched \ n_touched' \subseteq free
               /\ \A r \in free : r \notin n_touched' => n_pin'[r] = n_boot[r] \/ r \notin n_touched
               /\ aon
    <2>1. aon /\ p \in free
      BY <1>2 DEF Bg!MayFail
    <2> DEFINE some == before \union {p}
    <2>2. some \in SUBSET BcmPins /\ {p} \in SUBSET some /\ some \subseteq free
      BY <1>0, <2>1
    <2>3. Bg!BcmRestore(some, {p}, n_boot)
      BY <1>2
    <2>4. some \ {p} = before
      OBVIOUS
    <2> HIDE DEF some
    <2>5. /\ n_pin' \in [BcmPins -> Bg!States] /\ lapsed' = {}
          /\ \A r \in some \ {p} : n_pin'[r] = n_boot[r]
          /\ \A r \in BcmPins \ some : n_pin'[r] = n_pin[r]
      BY <1>0, <2>2, <2>3, BcmRestored
    <2> QED BY <1>2, <2>1, <2>2, <2>4, <2>5
  <1> QED BY <1>1, <1>2, <1>3 DEF Bg!RestoreFree, free


LEMMA BcmStep ==
  ASSUME BcmInv, Bg!Next
  PROVE  BcmInv'
  <1>0. Bg!TypeOK
    BY DEF BcmInv
  <1>1. CASE Bg!BcmPrepare
    BY <1>1 DEF BcmInv, Bg!TypeOK, BcmLentInv, Bg!Owned, Bg!own, Bg!line, Bg!BcmPrepare
  <1>2. CASE Bg!BcmRelease
    BY <1>2 DEF BcmInv, Bg!TypeOK, BcmLentInv, Bg!Owned, Bg!own, Bg!line, Bg!BcmRelease
  <1>3. CASE Bg!BcmStart
    <2>0. /\ n_phase = "prepared" /\ n_phase' = "started" /\ ~n_saved' /\ n_saved' \in BOOLEAN
          /\ n_resume' = n_boot /\ resumeMask' = {}
          /\ UNCHANGED <<aon, n_boot, n_touched, n_io, n_output, n_irq, n_function, n_preserved>>
      BY <1>3 DEF Bg!BcmStart, Bg!own
    <2>3. /\ mask' \subseteq n_irq /\ mask' \subseteq BcmPins
          /\ l2' \in BOOLEAN /\ l2WasMasked' \in BOOLEAN
          /\ aon => ~l2WasMasked'
      BY <1>3, <2>0 DEF Bg!BcmStart, BcmInv, Bg!TypeOK
    <2>1. CASE n_saved
      <3>1. Bg!BcmRestore(n_touched, {}, n_resume)
        BY <1>3, <2>1 DEF Bg!BcmStart
      <3>2. /\ n_pin' \in [BcmPins -> Bg!States] /\ lapsed' = {}
            /\ \A p \in n_touched \ {} : n_pin'[p] = n_resume[p]
            /\ \A p \in BcmPins \ n_touched : n_pin'[p] = n_pin[p]
        <4>1. {} \in SUBSET n_touched
          OBVIOUS
        <4> QED BY <1>0, <3>1, <4>1, BcmRestored DEF Bg!TypeOK
      <3>4. Bg!TypeOK'
        BY <2>0, <2>3, <3>2 DEF BcmInv, Bg!TypeOK
      <3>5. BcmLentInv(n_pin)'
        BY <2>0, <2>1, <3>2 DEF BcmInv, BcmLentInv, Bg!Owned, Bg!TypeOK
      <3> QED BY <2>0, <2>1, <2>3, <3>2, <3>4, <3>5 DEF BcmInv, Bg!Owned, Bg!TypeOK
    <2>2. CASE ~n_saved
      <3>1. lapsed' = {} /\ UNCHANGED n_pin /\ Bg!Owned = {}
        BY <1>3, <2>0, <2>2 DEF Bg!BcmStart, BcmInv
      <3>2. Bg!TypeOK'
        BY <2>0, <2>3, <3>1 DEF BcmInv, Bg!TypeOK
      <3> QED BY <2>0, <2>2, <2>3, <3>1, <3>2 DEF BcmInv, BcmLentInv, Bg!Owned
    <2> QED BY <2>1, <2>2
  <1>4. CASE Bg!BcmStartFails
    <2>1. PICK p \in Bg!MayFail(n_touched) : \E sofar \in SUBSET (n_touched \ {p}) :
            Bg!BcmRestore(sofar \union {p}, {p}, n_resume)
      BY <1>4 DEF Bg!BcmStartFails
    <2>2. PICK sofar \in SUBSET (n_touched \ {p}) : Bg!BcmRestore(sofar \union {p}, {p}, n_resume)
      BY <2>1
    <2> DEFINE some == sofar \union {p}
    <2>3. /\ p \in n_touched /\ some \in SUBSET BcmPins /\ {p} \in SUBSET some
          /\ some \subseteq n_touched
      BY <1>0, <2>1 DEF Bg!MayFail, Bg!TypeOK
    <2>4. Bg!BcmRestore(some, {p}, n_resume)
      BY <2>2
    <2> HIDE DEF some
    <2>5. /\ n_pin' \in [BcmPins -> Bg!States] /\ lapsed' = {}
          /\ \A r \in BcmPins \ some : n_pin'[r] = n_pin[r]
      BY <1>0, <2>3, <2>4, BcmRestored DEF Bg!TypeOK
    <2>6. /\ n_phase' = "failed"
          /\ UNCHANGED <<aon, mask, l2, l2WasMasked, resumeMask, n_boot, n_resume, n_touched,
                         n_io, n_output, n_irq, n_function, n_saved, n_preserved>>
      BY <1>4 DEF Bg!BcmStartFails, Bg!own, Bg!line
    <2> QED BY <2>3, <2>5, <2>6 DEF BcmInv, Bg!Owned, Bg!TypeOK
  <1>5. CASE Bg!BcmStopFails
    BY <1>5 DEF BcmInv, Bg!TypeOK, BcmLentInv, Bg!Owned, Bg!own, Bg!line, Bg!BcmStopFails
  <1>6. ASSUME NEW save \in BOOLEAN, Bg!BcmStop(save)
        PROVE  BcmInv'
    <2>1. PICK bad \in SUBSET Bg!MayFail(n_touched) :
            /\ Bg!BcmRestore(n_touched, bad, n_boot)
            /\ n_phase' = IF bad = {} THEN "prepared" ELSE "failed"
      BY <1>6 DEF Bg!BcmStop
    <2>2. bad \in SUBSET n_touched
      BY <2>1 DEF Bg!MayFail
    <2>3. /\ n_pin' \in [BcmPins -> Bg!States] /\ lapsed' = {}
          /\ \A p \in n_touched \ bad : n_pin'[p] = n_boot[p]
          /\ \A p \in BcmPins \ n_touched : n_pin'[p] = n_pin[p]
      BY <1>0, <2>1, <2>2, BcmRestored DEF Bg!TypeOK
    <2>4. \A p \in BcmPins : p \notin bad => n_pin'[p] = n_boot[p]
      BY <1>0, <2>3 DEF BcmInv
    <2>5. bad = {} => n_pin' = n_boot
      BY <1>0, <2>3, <2>4 DEF Bg!TypeOK
    <2>6. /\ n_phase = "started" /\ (save \/ Bg!Owned = {}) /\ n_saved' = save
          /\ n_resume' = IF save THEN [p \in BcmPins |-> IF p \in n_touched THEN n_pin[p]
                                                         ELSE n_resume[p]]
                                 ELSE n_resume
          /\ resumeMask' = IF save /\ ~aon THEN mask \intersect n_irq ELSE resumeMask
          /\ mask' = IF aon THEN mask ELSE mask \ n_irq
          /\ l2' = (l2 \/ (~aon /\ l2WasMasked))
          /\ UNCHANGED <<aon, l2WasMasked, n_boot, n_touched, n_io, n_output, n_irq, n_function,
                         n_preserved>>
      BY <1>6 DEF Bg!BcmStop, Bg!own
    <2>7. Bg!TypeOK'
      <3>1. n_resume' \in [BcmPins -> Bg!States]
        BY <1>0, <2>6 DEF Bg!TypeOK
      <3>2. l2' \in BOOLEAN /\ n_saved' \in BOOLEAN
        BY <2>6
      <3> QED BY <1>0, <2>1, <2>3, <2>6, <3>1, <3>2 DEF Bg!TypeOK
    <2>8. mask' \subseteq n_irq /\ (~aon => mask' = {}) /\ (l2WasMasked => l2')
      BY <2>6 DEF BcmInv
    <2>9. n_saved' => BcmLentInv(n_resume)' /\ resumeMask' \subseteq n_irq
      <3>1. CASE save
        <4>1. \A p \in n_touched : n_resume'[p] = n_pin[p]
          BY <1>0, <2>6, <3>1 DEF Bg!TypeOK
        <4> QED BY <2>6, <2>8, <3>1, <4>1 DEF BcmInv, BcmLentInv, Bg!Owned
      <3> QED BY <2>6, <3>1
    <2>10. ~n_saved' => Bg!Owned' = {}
      BY <2>6 DEF Bg!Owned
    <2> QED BY <2>1, <2>2, <2>3, <2>4, <2>5, <2>6, <2>7, <2>8, <2>9, <2>10
         DEF BcmInv, Bg!Owned
  <1>7. ASSUME NEW S \in Bg!Some, Bg!BcmConnectInput(S)
        PROVE  BcmInv'
    <2>1. /\ S \in SUBSET BcmPins /\ Bg!BcmConfigure(S, "gpio", FALSE)
          /\ n_phase = "started" /\ S \intersect (n_io \union n_function) = {}
          /\ n_io' = n_io \union S /\ n_preserved' = n_preserved \ S
          /\ UNCHANGED <<aon, n_phase, mask, l2, l2WasMasked, resumeMask, n_boot, n_resume,
                         n_output, n_irq, n_function, n_saved>>
      BY <1>7 DEF Bg!Some, Bg!BcmConnectInput, Bg!CanClaim, Bg!line
    <2>2. /\ n_pin' \in [BcmPins -> Bg!States] /\ lapsed' = {}
          /\ \A p \in S : n_pin'[p].mux = "gpio" /\ (n_pin'[p].input <=> ~FALSE)
          /\ \A p \in BcmPins \ S : n_pin'[p] = n_pin[p]
          /\ n_touched' = n_touched \union S
      BY <1>0, <2>1, BcmConfiguredPins DEF Bg!Muxes
    <2>3. Bg!TypeOK'
      BY <2>1, <2>2 DEF BcmInv, Bg!TypeOK
    <2>4. BcmLentInv(n_pin)'
      BY <2>1, <2>2 DEF BcmInv, Bg!TypeOK, BcmLentInv
    <2> QED BY <2>1, <2>2, <2>3, <2>4 DEF BcmInv, Bg!Owned
  <1>8. ASSUME NEW S \in Bg!Some, Bg!BcmConnectOutput(S)
        PROVE  BcmInv'
    <2>1. /\ S \in SUBSET BcmPins /\ Bg!BcmConfigure(S, "gpio", TRUE)
          /\ n_phase = "started" /\ S \intersect (n_io \union n_function \union n_irq) = {}
          /\ n_io' = n_io \union S /\ n_output' = n_output \union S
          /\ n_preserved' = n_preserved \ S
          /\ UNCHANGED <<aon, n_phase, mask, l2, l2WasMasked, resumeMask, n_boot, n_resume,
                         n_irq, n_function, n_saved>>
      BY <1>8 DEF Bg!Some, Bg!BcmConnectOutput, Bg!CanClaim, Bg!line
    <2>2. /\ n_pin' \in [BcmPins -> Bg!States] /\ lapsed' = {}
          /\ \A p \in S : n_pin'[p].mux = "gpio" /\ (n_pin'[p].input <=> ~TRUE)
          /\ \A p \in BcmPins \ S : n_pin'[p] = n_pin[p]
          /\ n_touched' = n_touched \union S
      BY <1>0, <2>1, BcmConfiguredPins DEF Bg!Muxes
    <2>3. Bg!TypeOK'
      BY <2>1, <2>2 DEF BcmInv, Bg!TypeOK
    <2>4. BcmLentInv(n_pin)'
      BY <2>1, <2>2 DEF BcmInv, Bg!TypeOK, BcmLentInv
    <2> QED BY <2>1, <2>2, <2>3, <2>4 DEF BcmInv, Bg!Owned
  <1>9. ASSUME NEW S \in Bg!Some, NEW mux \in Bg!Muxes, Bg!BcmConnectFunction(S, mux)
        PROVE  BcmInv'
    <2>1. /\ S \in SUBSET BcmPins /\ Bg!BcmConfigure(S, mux, FALSE) /\ mux # "gpio"
          /\ n_phase = "started" /\ S \intersect Bg!Owned = {}
          /\ n_function' = n_function \union S /\ n_preserved' = n_preserved \ S
          /\ UNCHANGED <<aon, n_phase, mask, l2, l2WasMasked, resumeMask, n_boot, n_resume,
                         n_io, n_output, n_irq, n_saved>>
      BY <1>9 DEF Bg!Some, Bg!BcmConnectFunction, Bg!CanClaim, Bg!line
    <2>2. /\ n_pin' \in [BcmPins -> Bg!States] /\ lapsed' = {}
          /\ \A p \in S : n_pin'[p].mux = mux /\ (n_pin'[p].input <=> ~FALSE)
          /\ \A p \in BcmPins \ S : n_pin'[p] = n_pin[p]
          /\ n_touched' = n_touched \union S
      BY <1>0, <2>1, BcmConfiguredPins
    <2>3. Bg!TypeOK'
      BY <2>1, <2>2 DEF BcmInv, Bg!TypeOK
    <2>4. BcmLentInv(n_pin)'
      BY <2>1, <2>2 DEF BcmInv, Bg!TypeOK, BcmLentInv, Bg!Owned
    <2> QED BY <2>1, <2>2, <2>3, <2>4 DEF BcmInv, Bg!Owned
  <1>10. ASSUME NEW S \in Bg!Some, Bg!BcmDisconnectFunction(S)
         PROVE  BcmInv'
    <2> DEFINE free == BcmFree(S, n_io, n_irq, n_function')
    <2>1. /\ S \in SUBSET BcmPins /\ n_phase = "started" /\ S \subseteq n_function
          /\ n_function' = n_function \ S /\ Bg!RestoreFree(S, n_io, n_irq, n_function')
          /\ UNCHANGED <<aon, n_phase, mask, l2, l2WasMasked, resumeMask, n_boot, n_resume,
                         n_io, n_output, n_irq, n_saved, n_preserved>>
      BY <1>10 DEF Bg!Some, Bg!BcmDisconnectFunction, Bg!line
    <2>2. /\ n_pin' \in [BcmPins -> Bg!States] /\ lapsed' = {}
          /\ \A p \in BcmPins \ free : n_pin'[p] = n_pin[p]
          /\ n_touched' \subseteq n_touched /\ n_touched \ n_touched' \subseteq free
          /\ \A p \in free : p \notin n_touched' => n_pin'[p] = n_boot[p] \/ p \notin n_touched
          /\ ~aon => n_touched' = n_touched \ free
      <3>1. S \in SUBSET BcmPins /\ Bg!RestoreFree(S, n_io, n_irq, n_function')
        BY <2>1
      <3> QED BY <1>0, <3>1, BcmFreed
    <2>3. Bg!TypeOK'
      BY <2>1, <2>2 DEF BcmInv, Bg!TypeOK, BcmFree
    <2>4. BcmLentInv(n_pin)'
      BY <2>1, <2>2 DEF BcmInv, Bg!TypeOK, BcmLentInv, BcmFree
    <2>5. /\ S \subseteq n_touched /\ free \subseteq S
          /\ \A p \in BcmPins : p \notin n_touched' => n_pin'[p] = n_boot[p]
      BY <2>1, <2>2 DEF BcmInv, Bg!Owned, BcmFree
    <2> QED BY <2>1, <2>2, <2>3, <2>4, <2>5 DEF BcmInv, Bg!Owned, BcmFree
  <1>11. ASSUME NEW S \in Bg!Some, NEW keep \in BOOLEAN, Bg!BcmDisconnect(S, keep)
         PROVE  BcmInv'
    <2> DEFINE free == BcmFree(S, n_io', n_irq, n_function)
    <2>1. /\ S \in SUBSET BcmPins /\ n_phase = "started" /\ S \subseteq n_io
          /\ n_io' = n_io \ S /\ n_output' = n_output \ S
          /\ UNCHANGED <<aon, n_phase, mask, l2, l2WasMasked, resumeMask, n_boot, n_resume,
                         n_irq, n_function, n_saved>>
      BY <1>11 DEF Bg!Some, Bg!BcmDisconnect, Bg!line
    <2>2. CASE keep
      <3>1. lapsed' = {} /\ n_preserved' = n_preserved \union S /\ UNCHANGED <<n_pin, n_touched>>
        BY <1>11, <2>2 DEF Bg!BcmDisconnect
      <3>2. Bg!TypeOK'
        BY <2>1, <3>1 DEF BcmInv, Bg!TypeOK, BcmFree
      <3> QED BY <2>1, <3>1, <3>2 DEF BcmInv, BcmLentInv, Bg!Owned
    <2>3. CASE ~keep
      <3>1. Bg!RestoreFree(S, n_io', n_irq, n_function) /\ n_preserved' = n_preserved
        BY <1>11, <2>3 DEF Bg!BcmDisconnect
      <3>2. /\ n_pin' \in [BcmPins -> Bg!States] /\ lapsed' = {}
            /\ \A p \in BcmPins \ free : n_pin'[p] = n_pin[p]
            /\ n_touched' \subseteq n_touched /\ n_touched \ n_touched' \subseteq free
            /\ \A p \in free : p \notin n_touched' => n_pin'[p] = n_boot[p] \/ p \notin n_touched
            /\ ~aon => n_touched' = n_touched \ free
        <4>1. S \in SUBSET BcmPins /\ Bg!RestoreFree(S, n_io', n_irq, n_function)
          BY <2>1, <3>1
        <4> QED BY <1>0, <4>1, BcmFreed
      <3>3. Bg!TypeOK'
        BY <2>1, <3>1, <3>2 DEF BcmInv, Bg!TypeOK, BcmFree
      <3>4. BcmLentInv(n_pin)'
        BY <2>1, <3>2 DEF BcmInv, Bg!TypeOK, BcmLentInv, BcmFree
      <3>5. /\ S \subseteq n_touched /\ free \subseteq S
            /\ \A p \in BcmPins : p \notin n_touched' => n_pin'[p] = n_boot[p]
        BY <2>1, <3>2 DEF BcmInv, Bg!Owned, BcmFree
      <3> QED BY <2>1, <3>1, <3>2, <3>3, <3>4, <3>5 DEF BcmInv, Bg!Owned, BcmFree
    <2> QED BY <2>2, <2>3
  <1>12. ASSUME NEW S \in Bg!Some, Bg!BcmMaskInterrupts(S)
         PROVE  BcmInv'
    BY <1>12 DEF BcmInv, Bg!TypeOK, BcmLentInv, Bg!Owned, Bg!own, Bg!BcmMaskInterrupts
  <1>13. ASSUME NEW p \in BcmPins, NEW value \in BOOLEAN, Bg!BcmWritePins(p, value)
         PROVE  BcmInv'
    <2>1. /\ n_pin' \in [BcmPins -> Bg!States] /\ p \in n_touched
          /\ \A r \in BcmPins : /\ n_pin'[r].mux = n_pin[r].mux
                                /\ n_pin'[r].input = n_pin[r].input
                                /\ (r # p => n_pin'[r] = n_pin[r])
      BY <1>0, <1>13 DEF Bg!BcmWritePins, Bg!TypeOK, Bg!States, BcmInv, Bg!Owned
    <2>2. /\ n_phase = "started" /\ lapsed' = {}
          /\ UNCHANGED <<aon, n_phase, mask, l2, l2WasMasked, resumeMask, n_boot, n_resume,
                         n_touched, n_io, n_output, n_irq, n_function, n_saved, n_preserved>>
      BY <1>13 DEF Bg!BcmWritePins, Bg!own, Bg!line
    <2>3. Bg!TypeOK'
      BY <1>0, <2>1, <2>2 DEF Bg!TypeOK
    <2> QED BY <2>1, <2>2, <2>3 DEF BcmInv, Bg!TypeOK, BcmLentInv, Bg!Owned
  <1>14. ASSUME NEW p \in BcmPins, Bg!BcmDisableInterrupt(p)
         PROVE  BcmInv'
    <2> DEFINE free == BcmFree({p}, n_io, n_irq', n_function)
    <2>1. /\ ~aon /\ n_phase = "started" /\ p \in n_irq /\ n_irq' = n_irq \ {p}
          /\ mask' = mask \ {p} /\ Bg!RestoreFree({p}, n_io, n_irq', n_function)
          /\ UNCHANGED <<aon, n_phase, l2, l2WasMasked, resumeMask, n_boot, n_resume, n_io,
                         n_output, n_function, n_saved, n_preserved>>
      BY <1>14 DEF Bg!BcmDisableInterrupt
    <2>2. /\ n_pin' \in [BcmPins -> Bg!States] /\ lapsed' = {}
          /\ \A r \in BcmPins \ free : n_pin'[r] = n_pin[r]
          /\ n_touched' \subseteq n_touched /\ n_touched \ n_touched' \subseteq free
          /\ \A r \in free : r \notin n_touched' => n_pin'[r] = n_boot[r] \/ r \notin n_touched
          /\ ~aon => n_touched' = n_touched \ free
      <3>1. {p} \in SUBSET BcmPins /\ Bg!RestoreFree({p}, n_io, n_irq', n_function)
        BY <2>1
      <3> QED BY <1>0, <3>1, BcmFreed
    <2>3. Bg!TypeOK'
      BY <2>1, <2>2 DEF BcmInv, Bg!TypeOK, BcmFree
    <2>4. BcmLentInv(n_pin)'
      BY <2>1, <2>2 DEF BcmInv, Bg!TypeOK, BcmLentInv, BcmFree
    <2>5. /\ p \in n_touched /\ free \subseteq {p}
          /\ \A r \in BcmPins : r \notin n_touched' => n_pin'[r] = n_boot[r]
      BY <2>1, <2>2 DEF BcmInv, Bg!Owned, BcmFree
    <2> QED BY <2>1, <2>2, <2>3, <2>4, <2>5 DEF BcmInv, Bg!Owned, BcmFree
  <1>15. ASSUME NEW p \in BcmPins, Bg!BcmUnmaskInterrupt(p)
         PROVE  BcmInv'
    BY <1>15 DEF BcmInv, Bg!TypeOK, BcmLentInv, Bg!Owned, Bg!own, Bg!BcmUnmaskInterrupt
  <1>16. ASSUME NEW p \in BcmPins, NEW t \in {"edge", "level"}, Bg!BcmEnableInterrupt(p, t)
         PROVE  BcmInv'
    <2> DEFINE new == [Bg!BcmConfigured(p, "gpio", FALSE) EXCEPT !.trigger = t]
    <2>1. /\ ~aon /\ n_phase = "started" /\ p \notin n_function \union n_output \union n_irq
          /\ n_irq' = n_irq \union {p} /\ mask' = mask \union {p} /\ lapsed' = {}
          /\ n_touched' = n_touched \union {p} /\ n_preserved' = n_preserved \ {p}
          /\ n_pin' = [n_pin EXCEPT ![p] = new]
          /\ UNCHANGED <<aon, n_phase, l2, l2WasMasked, resumeMask, n_boot, n_resume, n_io,
                         n_output, n_function, n_saved>>
      BY <1>16 DEF Bg!BcmEnableInterrupt, Bg!CanClaim
    <2>2. new \in Bg!States /\ new.mux = "gpio" /\ new.input
      <3> DEFINE lent == Bg!BcmConfigured(p, "gpio", FALSE)
      <3>1. lent \in Bg!States /\ lent.mux = "gpio" /\ lent.input
        <4> DEFINE no == FALSE
        <4>1. no \in BOOLEAN /\ ~no /\ "gpio" \in Bg!Muxes
          BY DEF Bg!Muxes
        <4> HIDE DEF no
        <4>2. LET r == Bg!BcmConfigured(p, "gpio", no)
              IN  r \in Bg!States /\ r.mux = "gpio" /\ r.input
          BY <1>0, <4>1, BcmConfiguredState
        <4> QED BY <4>2 DEF no
      <3>2. new = [lent EXCEPT !.trigger = t]
        OBVIOUS
      <3> HIDE DEF lent
      <3> QED BY <1>16, <3>1, <3>2 DEF Bg!States
    <2> HIDE DEF new
    <2>3. /\ n_pin' \in [BcmPins -> Bg!States] /\ n_pin'[p] = new
          /\ \A r \in BcmPins \ {p} : n_pin'[r] = n_pin[r]
      BY <1>0, <2>1, <2>2 DEF Bg!TypeOK
    <2>4. Bg!TypeOK'
      BY <2>1, <2>3 DEF BcmInv, Bg!TypeOK
    <2>5. BcmLentInv(n_pin)'
      BY <2>1, <2>2, <2>3 DEF BcmInv, Bg!TypeOK, BcmLentInv
    <2> QED BY <2>1, <2>3, <2>4, <2>5 DEF BcmInv, Bg!Owned
  <1>17. ASSUME NEW p \in BcmPins, NEW t \in {"edge", "level"}, Bg!BcmReconfigureInterrupt(p, t)
         PROVE  BcmInv'
    <2>1. /\ n_pin' \in [BcmPins -> Bg!States] /\ p \in n_touched
          /\ \A r \in BcmPins : /\ n_pin'[r].mux = n_pin[r].mux
                                /\ n_pin'[r].input = n_pin[r].input
                                /\ (r # p => n_pin'[r] = n_pin[r])
      BY <1>0, <1>17 DEF Bg!BcmReconfigureInterrupt, Bg!TypeOK, Bg!States, BcmInv, Bg!Owned
    <2>2. /\ n_phase = "started" /\ lapsed' = {}
          /\ UNCHANGED <<aon, n_phase, mask, l2, l2WasMasked, resumeMask, n_boot, n_resume,
                         n_touched, n_io, n_output, n_irq, n_function, n_saved, n_preserved>>
      BY <1>17 DEF Bg!BcmReconfigureInterrupt, Bg!own, Bg!line
    <2>3. Bg!TypeOK'
      BY <1>0, <2>1, <2>2 DEF Bg!TypeOK
    <2> QED BY <2>1, <2>2, <2>3 DEF BcmInv, Bg!TypeOK, BcmLentInv, Bg!Owned
  <1> QED BY <1>1, <1>2, <1>3, <1>4, <1>5, <1>6, <1>7, <1>8, <1>9, <1>10, <1>11, <1>12, <1>13,
             <1>14, <1>15, <1>16, <1>17 DEF Bg!Next

LEMMA PinsAlways == AllSpec => [](GpioInv /\ BcmInv)
  <1>1. ASSUME Gp!Init, Bg!Init
        PROVE  GpioInv /\ BcmInv
    <2>1. /\ g_pin \in [Gp!Pins -> Gp!States] /\ g_boot = g_pin /\ g_resume = g_pin
          /\ n_pin \in [BcmPins -> Bg!States] /\ n_boot = n_pin /\ n_resume = n_pin
      <3> HIDE DEF Gp!States, Bg!States, Gp!Pins
      <3> QED BY <1>1, PinsAssumption DEF Gp!Init, Bg!Init
    <2>2. GpioInv
      BY <1>1, <2>1 DEF Gp!Init, GpioInv, Gp!TypeOK, GpioLentInv, Gp!Owned
    <2>3. BcmInv
      BY <1>1, <2>1 DEF Bg!Init, BcmInv, Bg!TypeOK, BcmLentInv, Bg!Owned
    <2> QED BY <2>2, <2>3
  <1>2. AllInit => GpioInv /\ BcmInv
    BY <1>1 DEF AllInit
  <1>3. ASSUME GpioInv, Gp!Next \/ UNCHANGED gpio
        PROVE  GpioInv'
    <2>1. CASE UNCHANGED gpio
      <3>1. UNCHANGED <<g_phase, route, g_pin, inte, g_boot, g_resume, resumeInte, g_touched,
                        g_io, g_output, g_irq, g_function, g_saved, g_preserved, floated>>
        BY <2>1 DEF gpio
      <3>2. Gp!TypeOK' /\ Gp!Owned' = Gp!Owned
        BY <1>3, <3>1 DEF GpioInv, Gp!TypeOK, Gp!Owned
      <3>3. /\ GpioLentInv(g_pin) => GpioLentInv(g_pin)'
            /\ GpioLentInv(g_resume) => GpioLentInv(g_resume)'
        BY <3>1 DEF GpioLentInv
      <3> QED BY <1>3, <3>1, <3>2, <3>3 DEF GpioInv
    <2> QED BY <1>3, <2>1, GpioStep
  <1>4. ASSUME BcmInv, Bg!Next \/ UNCHANGED bcm
        PROVE  BcmInv'
    <2>1. CASE UNCHANGED bcm
      <3>1. UNCHANGED <<aon, n_phase, n_pin, mask, l2, l2WasMasked, n_boot, n_resume, resumeMask,
                        n_touched, n_io, n_output, n_irq, n_function, n_saved, n_preserved,
                        lapsed>>
        BY <2>1 DEF bcm
      <3>2. Bg!TypeOK' /\ Bg!Owned' = Bg!Owned
        BY <1>4, <3>1 DEF BcmInv, Bg!TypeOK, Bg!Owned
      <3>3. /\ BcmLentInv(n_pin) => BcmLentInv(n_pin)'
            /\ BcmLentInv(n_resume) => BcmLentInv(n_resume)'
        BY <3>1 DEF BcmLentInv
      <3> QED BY <1>4, <3>1, <3>2, <3>3 DEF BcmInv
    <2> QED BY <1>4, <2>1, BcmStep
  <1>5. GpioInv /\ BcmInv /\ [AllNext]_<<part, vars, boardVars, fan, gpio, bcm, gem, bt>>
          => (GpioInv /\ BcmInv)'
    <2>1. [AllNext]_<<part, vars, boardVars, fan, gpio, bcm, gem, bt>>
            => (Gp!Next \/ UNCHANGED gpio) /\ (Bg!Next \/ UNCHANGED bcm)
      BY DEF AllNext
    <2> QED BY <1>3, <1>4, <2>1
  <1> QED BY <1>2, <1>5, PTL DEF AllSpec

\* A pin that nobody has is as the firmware left it, unless its client asked to keep it
\* or the broker failed while it was restored; a stopped controller leaves no trace; and
\* a lent pin has one use and is configured for it (rp1-gpio and bcm2712-gpio:
\* RestoreUnowned, the start and the stop with a saved context).
THEOREM PinsAsFoundHolds == AllSpec => []PinsAsFound
  <1>1. GpioInv => Gp!PinsAsFound
    BY DEF GpioInv, Gp!PinsAsFound
  <1>2. GpioInv => Gp!OwnersExclude
    <2> SUFFICES ASSUME GpioInv
                 PROVE  Gp!OwnersExclude
      OBVIOUS
    <2>1. ASSUME NEW p \in g_io \union g_irq, g_phase = "started"
          PROVE  g_pin[p].fn = "gpio" /\ g_pin[p].drive = (p \in g_output)
      <3>1. g_pin[p] \in Gp!States
        BY DEF GpioInv, Gp!TypeOK, Gp!Pins
      <3>2. g_pin[p].drive \in BOOLEAN
        BY <3>1 DEF Gp!States
      <3>3. g_pin[p].fn = "gpio" /\ (g_pin[p].drive <=> p \in g_output)
        BY <2>1 DEF GpioInv, GpioLentInv
      <3> QED BY <3>2, <3>3
    <2>2. g_phase = "started" =>
            /\ \A p \in g_function : g_pin[p].fn = "alt"
            /\ \A p \in Header \ g_preserved :
                 p \in g_touched => (p \in g_irq <=> g_pin[p].events # "none")
      BY DEF GpioInv, GpioLentInv
    <2> QED BY <2>1, <2>2 DEF GpioInv, Gp!OwnersExclude
  <1>3. BcmInv => Bg!PinsAsFound
    BY DEF BcmInv, Bg!PinsAsFound
  <1>4. BcmInv => Bg!OwnersExclude
    <2> SUFFICES ASSUME BcmInv
                 PROVE  Bg!OwnersExclude
      OBVIOUS
    <2>1. ASSUME NEW p \in n_io \union n_irq, n_phase = "started"
          PROVE  n_pin[p].mux = "gpio" /\ n_pin[p].input = (p \notin n_output)
      <3>1. n_pin[p] \in Bg!States
        BY DEF BcmInv, Bg!TypeOK
      <3>2. n_pin[p].input \in BOOLEAN
        BY <3>1 DEF Bg!States
      <3>3. n_pin[p].mux = "gpio" /\ (n_pin[p].input <=> p \notin n_output)
        BY <2>1 DEF BcmInv, BcmLentInv
      <3> QED BY <3>2, <3>3
    <2>2. n_phase = "started" => \A p \in n_function : n_pin[p].mux # "gpio"
      BY DEF BcmInv, BcmLentInv
    <2> QED BY <2>1, <2>2 DEF BcmInv, Bg!OwnersExclude
  <1>5. GpioInv /\ BcmInv => PinsAsFound
    BY <1>1, <1>2, <1>3, <1>4 DEF PinsAsFound
  <1> QED BY <1>5, PinsAlways, PTL

\* No supply of the board that is driven before and after a step lapses in between
\* (rp1-gpio, HoldDriven on the board's outputs; bcm2712-gpio, the same for every pin).
THEOREM SuppliesHoldHolds == AllSpec => SuppliesHold
  <1>1. GpioInv /\ [AllNext]_<<part, vars, boardVars, fan, gpio, bcm, gem, bt>>
          => [GpioHeld]_(Gp!vars)
    <2>1. [AllNext]_<<part, vars, boardVars, fan, gpio, bcm, gem, bt>>
            => Gp!Next \/ UNCHANGED gpio
      BY DEF AllNext
    <2>2. UNCHANGED gpio => UNCHANGED Gp!vars
      BY DEF gpio, Gp!vars, Gp!own
    <2> QED BY <2>1, <2>2, GpioHolds
  <1>2. BcmInv => Bg!SuppliesHold
    BY DEF BcmInv, Bg!SuppliesHold
  <1>3. AllSpec => [][GpioHeld]_(Gp!vars)
    BY <1>1, PinsAlways, PTL DEF AllSpec
  <1>4. AllSpec => []Bg!SuppliesHold
    BY <1>2, PinsAlways, PTL
  <1> QED BY <1>3, <1>4 DEF SuppliesHold, Gp!SuppliesHold, GpioHeld

-------------------------------------------------------------------------------
(* The Bluetooth controller (Bluetooth).                                   *)
(*                                                                         *)
(* The driver's word on the controller, DeviceInitialized, is given at the *)
(* last step of a start, each step of which knows what the earlier ones    *)
(* have made of the chip; and it is taken back before the chip is touched  *)
(* again.  A thread that queues a request looks for a pair later, under    *)
(* the lock; so does the pump for a packet, at once.                       *)

BtStarting == {"flow", "low", "high", "rts", "identity", "serial", "reset", "verbose", "name",
               "download", "launch", "address", "baud", "switch", "verify"}

BtStartInv ==
  /\ step \in BtStarting \ {"low"} => call \in {"prepare", "entry"}
  /\ step \in BtStarting \/ call \in {"removed", "dx", "exit"} => ~ready
  /\ step \in {"low", "high"} /\ call \in {"prepare", "entry"} => ~rts
  /\ step = "name" => (build <=> chip.patched)
  /\ step \in {"address", "baud", "switch", "verify"} => chip.patched
  /\ step \in {"baud", "switch", "verify"} => chip.named
  /\ chip.mode # "recovery"
  /\ ready => chip.patched /\ chip.named /\ (chip.fast <=> host)

\* The threads that have queued a request and have yet to look for a pair.
BtLate == {r \in Readers : reader[r] = "match"}

LEMMA BtCardinality == \A S : Bt!Cardinality(S) = Cardinality(S)
  BY DEF Bt!Cardinality, Cardinality

LEMMA BtLateCounts ==
  /\ Cardinality(BtLate) \in Nat
  /\ \A r \in Readers : reader[r] # "match" /\ reader'[r] = "match"
                          /\ (\A u \in Readers \ {r} : reader'[u] = reader[u])
                        => Cardinality(BtLate') = Cardinality(BtLate) + 1
  /\ \A r \in Readers : reader[r] = "match" /\ reader'[r] # "match"
                          /\ (\A u \in Readers \ {r} : reader'[u] = reader[u])
                        => Cardinality(BtLate') = Cardinality(BtLate) - 1
  <1>1. IsFiniteSet(BtLate) /\ IsFiniteSet(BtLate')
    BY BluetoothAssumption, FS_Subset DEF BtLate
  <1>2. Cardinality(BtLate) \in Nat
    BY <1>1, FS_CardinalityType
  <1>3. ASSUME NEW r \in Readers, reader[r] # "match", reader'[r] = "match",
               \A u \in Readers \ {r} : reader'[u] = reader[u]
        PROVE  Cardinality(BtLate') = Cardinality(BtLate) + 1
    <2>1. BtLate' = BtLate \union {r} /\ r \notin BtLate
      BY <1>3 DEF BtLate
    <2> QED BY <1>1, <2>1, FS_AddElement
  <1>4. ASSUME NEW r \in Readers, reader[r] = "match", reader'[r] # "match",
               \A u \in Readers \ {r} : reader'[u] = reader[u]
        PROVE  Cardinality(BtLate') = Cardinality(BtLate) - 1
    <2>1. BtLate' = BtLate \ {r} /\ r \in BtLate
      BY <1>4 DEF BtLate
    <2> QED BY <1>1, <2>1, FS_RemoveElement
  <1> QED BY <1>2, <1>3, <1>4

\* What Bt!TypeOK says, in four parts.
BtCallTypes ==
  /\ call \in {"removed", "prepare", "prepared", "entry", "init", "d0", "exit", "dx", "release"}
  /\ step \in Bt!Steps /\ init \in BOOLEAN /\ doomed \in BOOLEAN

BtChipTypes ==
  /\ ready \in BOOLEAN /\ child \in BOOLEAN
  /\ rts \in BOOLEAN /\ host \in BOOLEAN /\ build \in BOOLEAN
  /\ chip \in [mode : {"off", "recovery", "ok"}, patched : BOOLEAN, fast : BOOLEAN,
               named : BOOLEAN]

BtPumpTypes ==
  /\ target \in {"closed", "started", "stopped"} /\ read \in {"none", "held", "pended"}
  /\ pc \in [Threads -> {"idle", "failed", "check", "send", "cas", "parse", "answer", "after"}]
  /\ prev \in [Threads -> {"SENT", "PENDING", "COMPLETE"}] /\ nested \subseteq Threads
  /\ state \in {"SENT", "PENDING", "COMPLETE"} /\ status \in BOOLEAN /\ t_running \in BOOLEAN

BtListTypes ==
  /\ reader \in [Readers -> {"idle", "match", "answer"}]
  /\ list \in 0 .. Limit /\ queue \in 0 .. Waiting

LEMMA BtCallStep ==
  ASSUME Bt!TypeOK, Bt!Next
  PROVE  BtCallTypes'
  <1>0. BtCallTypes
    BY DEF Bt!TypeOK, BtCallTypes
  <1>1. ASSUME UNCHANGED <<call, step, init, doomed>>
        PROVE  BtCallTypes'
    BY <1>0, <1>1 DEF BtCallTypes
  <1>2. CASE Bt!CancelRead
    BY <1>1, <1>2 DEF Bt!CancelRead, Bt!Go, Bt!startup, Bt!pump, Bt!hci
  <1>3. CASE Bt!EnableFlow
    BY <1>0, <1>3 DEF Bt!EnableFlow, Bt!Go, Bt!At, Bt!Steps, BtCallTypes
  <1>4. CASE Bt!EnableLow
    BY <1>0, <1>4 DEF Bt!EnableLow, Bt!Go, Bt!At, Bt!Steps, BtCallTypes
  <1>5. CASE Bt!EnableHigh
    BY <1>0, <1>5 DEF Bt!EnableHigh, Bt!Go, Bt!At, Bt!Steps, BtCallTypes
  <1>6. CASE Bt!EnableRts
    BY <1>0, <1>6 DEF Bt!EnableRts, Bt!Go, Bt!At, Bt!Steps, BtCallTypes
  <1>7. CASE Bt!Identity
    BY <1>0, <1>7 DEF Bt!Identity, Bt!Go, Bt!At, Bt!Steps, BtCallTypes
  <1>8. CASE Bt!Serial
    BY <1>0, <1>8 DEF Bt!Serial, Bt!Go, Bt!At, Bt!Steps, BtCallTypes
  <1>9. CASE Bt!Reset
    BY <1>0, <1>9 DEF Bt!Reset, Bt!Go, Bt!At, Bt!Steps, BtCallTypes
  <1>10. CASE Bt!Verbose
    BY <1>0, <1>10 DEF Bt!Verbose, Bt!Go, Bt!At, Bt!Steps, BtCallTypes
  <1>11. CASE Bt!Name
    BY <1>0, <1>11 DEF Bt!Name, Bt!Go, Bt!At, Bt!Steps, BtCallTypes
  <1>12. CASE Bt!Download
    BY <1>0, <1>12 DEF Bt!Download, Bt!Go, Bt!At, Bt!Steps, BtCallTypes
  <1>13. CASE Bt!Launch
    BY <1>0, <1>13 DEF Bt!Launch, Bt!Go, Bt!At, Bt!Steps, BtCallTypes
  <1>14. CASE Bt!Address
    BY <1>0, <1>14 DEF Bt!Address, Bt!Go, Bt!At, Bt!Steps, BtCallTypes
  <1>15. CASE Bt!Baud
    BY <1>0, <1>15 DEF Bt!Baud, Bt!Go, Bt!At, Bt!Steps, BtCallTypes
  <1>16. CASE Bt!Switch
    BY <1>0, <1>16 DEF Bt!Switch, Bt!Go, Bt!At, Bt!Steps, BtCallTypes
  <1>17. CASE Bt!Verify
    BY <1>0, <1>17 DEF Bt!Verify, Bt!Go, Bt!At, Bt!Steps, BtCallTypes
  <1>18. CASE Bt!FdoDevPrepareHardware
    BY <1>0, <1>18 DEF Bt!FdoDevPrepareHardware, Bt!Go, Bt!At, Bt!Steps, BtCallTypes
  <1>19. CASE Bt!FdoCreateAllChildren
    BY <1>0, <1>19 DEF Bt!FdoCreateAllChildren, Bt!Go, Bt!At, Bt!Steps, BtCallTypes
  <1>20. CASE Bt!FdoDevD0Entry
    BY <1>0, <1>20 DEF Bt!FdoDevD0Entry, Bt!Go, Bt!At, Bt!Steps, BtCallTypes
  <1>21. CASE Bt!StartPump
    BY <1>0, <1>21 DEF Bt!StartPump, Bt!Go, Bt!At, Bt!Steps, BtCallTypes
  <1>22. CASE Bt!PumpStarted
    BY <1>0, <1>22 DEF Bt!PumpStarted, Bt!Go, Bt!At, Bt!Steps, BtCallTypes
  <1>23. CASE Bt!FdoDevD0Exit
    BY <1>0, <1>23 DEF Bt!FdoDevD0Exit, Bt!Go, Bt!At, Bt!Steps, BtCallTypes
  <1>24. CASE Bt!TargetStopped
    BY <1>0, <1>24 DEF Bt!TargetStopped, Bt!Go, Bt!At, Bt!Steps, BtCallTypes
  <1>25. CASE Bt!FdoDevReleaseHardware
    BY <1>0, <1>25 DEF Bt!FdoDevReleaseHardware, Bt!Go, Bt!At, Bt!Steps, BtCallTypes
  <1>26. CASE Bt!CallFails
    BY <1>0, <1>26 DEF Bt!CallFails, Bt!Go, Bt!At, Bt!Steps, BtCallTypes
  <1>27. CASE Bt!PinFails
    BY <1>0, <1>27 DEF Bt!PinFails, Bt!Go, Bt!At, Bt!Steps, BtCallTypes
  <1>28. ASSUME NEW t \in Threads, Bt!ReadH4Packet(t) \/ Bt!Send(t) \/ Bt!Answer(t) \/ Bt!After(t)
               \/ Bt!Sent(t)
        PROVE  BtCallTypes'
    BY <1>1, <1>28 DEF Bt!ReadH4Packet, Bt!Send, Bt!Answer, Bt!After, Bt!Sent, Bt!Go, Bt!startup,
       Bt!pump, Bt!hci
  <1>29. ASSUME NEW t \in Threads, Bt!ReadH4PacketCompletionRoutine(t)
        PROVE  BtCallTypes'
    BY <1>0, <1>29 DEF Bt!ReadH4PacketCompletionRoutine, Bt!Go, Bt!At, Bt!Steps, BtCallTypes
  <1>30. ASSUME NEW t \in Threads, Bt!Parse(t)
        PROVE  BtCallTypes'
    BY <1>0, <1>30 DEF Bt!Parse, Bt!Go, Bt!At, Bt!Steps, BtCallTypes
  <1>31. ASSUME NEW r \in Readers, Bt!ReadHci(r) \/ Bt!Match(r) \/ Bt!AnswerReader(r)
        PROVE  BtCallTypes'
    BY <1>1, <1>31 DEF Bt!ReadHci, Bt!Match, Bt!AnswerReader, Bt!Go, Bt!startup, Bt!pump, Bt!hci
  <1> QED BY <1>2, <1>3, <1>4, <1>5, <1>6, <1>7, <1>8, <1>9, <1>10, <1>11, <1>12, <1>13, <1>14,
             <1>15, <1>16, <1>17, <1>18, <1>19, <1>20, <1>21, <1>22, <1>23, <1>24, <1>25, <1>26,
             <1>27, <1>28, <1>29, <1>30, <1>31 DEF Bt!Next

LEMMA BtChipStep ==
  ASSUME Bt!TypeOK, Bt!Next
  PROVE  BtChipTypes'
  <1>0. BtChipTypes
    BY DEF Bt!TypeOK, BtChipTypes
  <1>1. ASSUME UNCHANGED <<ready, child, rts, host, build, chip>>
        PROVE  BtChipTypes'
    BY <1>0, <1>1 DEF BtChipTypes
  <1>2. CASE Bt!Identity \/ Bt!Reset \/ Bt!Name \/ Bt!FdoDevPrepareHardware \/ Bt!FdoDevD0Entry
          \/ Bt!StartPump \/ Bt!PumpStarted \/ Bt!TargetStopped \/ Bt!CallFails \/ Bt!PinFails
          \/ Bt!CancelRead
    BY <1>1, <1>2 DEF Bt!Identity, Bt!Reset, Bt!Name, Bt!FdoDevPrepareHardware, Bt!FdoDevD0Entry,
       Bt!StartPump, Bt!PumpStarted, Bt!TargetStopped, Bt!CallFails, Bt!PinFails, Bt!CancelRead,
       Bt!Go, Bt!startup, Bt!pump, Bt!hci
  <1>3. CASE Bt!EnableFlow
    BY <1>0, <1>3 DEF Bt!EnableFlow, Bt!OffChip, BtChipTypes
  <1>4. CASE Bt!EnableLow
    BY <1>0, <1>4 DEF Bt!EnableLow, Bt!OffChip, BtChipTypes
  <1>5. CASE Bt!EnableHigh
    BY <1>0, <1>5 DEF Bt!EnableHigh, Bt!OffChip, BtChipTypes
  <1>6. CASE Bt!EnableRts
    BY <1>0, <1>6 DEF Bt!EnableRts, Bt!OffChip, BtChipTypes
  <1>7. CASE Bt!Serial
    BY <1>0, <1>7 DEF Bt!Serial, Bt!OffChip, BtChipTypes
  <1>8. CASE Bt!Verbose
    BY <1>0, <1>8 DEF Bt!Verbose, Bt!OffChip, BtChipTypes
  <1>9. CASE Bt!Download
    BY <1>0, <1>9 DEF Bt!Download, Bt!OffChip, BtChipTypes
  <1>10. CASE Bt!Launch
    BY <1>0, <1>10 DEF Bt!Launch, Bt!OffChip, BtChipTypes
  <1>11. CASE Bt!Address
    BY <1>0, <1>11 DEF Bt!Address, Bt!OffChip, BtChipTypes
  <1>12. CASE Bt!Baud
    BY <1>0, <1>12 DEF Bt!Baud, Bt!OffChip, BtChipTypes
  <1>13. CASE Bt!Switch
    BY <1>0, <1>13 DEF Bt!Switch, Bt!OffChip, BtChipTypes
  <1>14. CASE Bt!Verify
    BY <1>0, <1>14 DEF Bt!Verify, Bt!OffChip, BtChipTypes
  <1>15. CASE Bt!FdoCreateAllChildren
    BY <1>0, <1>15 DEF Bt!FdoCreateAllChildren, Bt!OffChip, BtChipTypes
  <1>16. CASE Bt!FdoDevD0Exit
    BY <1>0, <1>16 DEF Bt!FdoDevD0Exit, Bt!OffChip, BtChipTypes
  <1>17. CASE Bt!FdoDevReleaseHardware
    BY <1>0, <1>17 DEF Bt!FdoDevReleaseHardware, Bt!OffChip, BtChipTypes
  <1>18. ASSUME NEW t \in Threads, Bt!ReadH4Packet(t) \/ Bt!Send(t)
               \/ Bt!ReadH4PacketCompletionRoutine(t) \/ Bt!Parse(t) \/ Bt!Answer(t)
               \/ Bt!After(t) \/ Bt!Sent(t)
        PROVE  BtChipTypes'
    BY <1>1, <1>18 DEF Bt!ReadH4Packet, Bt!Send, Bt!ReadH4PacketCompletionRoutine, Bt!Parse,
       Bt!Answer, Bt!After, Bt!Sent, Bt!Go, Bt!startup, Bt!pump, Bt!hci
  <1>19. ASSUME NEW r \in Readers, Bt!ReadHci(r) \/ Bt!Match(r) \/ Bt!AnswerReader(r)
        PROVE  BtChipTypes'
    BY <1>1, <1>19 DEF Bt!ReadHci, Bt!Match, Bt!AnswerReader, Bt!Go, Bt!startup, Bt!pump, Bt!hci
  <1> QED BY <1>2, <1>3, <1>4, <1>5, <1>6, <1>7, <1>8, <1>9, <1>10, <1>11, <1>12, <1>13, <1>14,
             <1>15, <1>16, <1>17, <1>18, <1>19 DEF Bt!Next

LEMMA BtPumpStep ==
  ASSUME Bt!TypeOK, Bt!Next
  PROVE  BtPumpTypes'
  <1>0. BtPumpTypes
    BY DEF Bt!TypeOK, BtPumpTypes
  <1>1. ASSUME UNCHANGED <<target, read, pc, prev, nested, state, status, t_running>>
        PROVE  BtPumpTypes'
    BY <1>0, <1>1 DEF BtPumpTypes
  <1>2. CASE Bt!EnableFlow \/ Bt!EnableLow \/ Bt!EnableHigh \/ Bt!EnableRts \/ Bt!Identity
          \/ Bt!Serial \/ Bt!Reset \/ Bt!Verbose \/ Bt!Name \/ Bt!Download \/ Bt!Launch
          \/ Bt!Address \/ Bt!Baud \/ Bt!Switch \/ Bt!Verify \/ Bt!FdoCreateAllChildren
          \/ Bt!TargetStopped \/ Bt!CallFails \/ Bt!PinFails \/ Bt!CancelRead
    BY <1>1, <1>2 DEF Bt!EnableFlow, Bt!EnableLow, Bt!EnableHigh, Bt!EnableRts, Bt!Identity,
       Bt!Serial, Bt!Reset, Bt!Verbose, Bt!Name, Bt!Download, Bt!Launch, Bt!Address, Bt!Baud,
       Bt!Switch, Bt!Verify, Bt!FdoCreateAllChildren, Bt!TargetStopped, Bt!CallFails, Bt!PinFails,
       Bt!CancelRead, Bt!Go, Bt!startup, Bt!pump, Bt!hci
  <1>3. CASE Bt!FdoDevPrepareHardware
    BY <1>0, <1>3 DEF Bt!FdoDevPrepareHardware, Bt!Move, Bt!Stops, BtPumpTypes
  <1>4. CASE Bt!FdoDevD0Entry
    BY <1>0, <1>4 DEF Bt!FdoDevD0Entry, Bt!Move, Bt!Stops, BtPumpTypes
  <1>5. CASE Bt!StartPump
    BY <1>0, <1>5 DEF Bt!StartPump, Bt!Move, Bt!Stops, BtPumpTypes
  <1>6. CASE Bt!PumpStarted
    BY <1>0, <1>6 DEF Bt!PumpStarted, Bt!Move, Bt!Stops, BtPumpTypes
  <1>7. CASE Bt!FdoDevD0Exit
    BY <1>0, <1>7 DEF Bt!FdoDevD0Exit, Bt!Move, Bt!Stops, BtPumpTypes
  <1>8. CASE Bt!FdoDevReleaseHardware
    BY <1>0, <1>8 DEF Bt!FdoDevReleaseHardware, Bt!Move, Bt!Stops, BtPumpTypes
  <1>9. ASSUME NEW t \in Threads, Bt!ReadH4Packet(t)
        PROVE  BtPumpTypes'
    BY <1>0, <1>9 DEF Bt!ReadH4Packet, Bt!Move, Bt!Stops, BtPumpTypes
  <1>10. ASSUME NEW t \in Threads, Bt!Send(t)
        PROVE  BtPumpTypes'
    BY <1>0, <1>10 DEF Bt!Send, Bt!Move, Bt!Stops, BtPumpTypes
  <1>11. ASSUME NEW t \in Threads, Bt!ReadH4PacketCompletionRoutine(t)
        PROVE  BtPumpTypes'
    BY <1>0, <1>11 DEF Bt!ReadH4PacketCompletionRoutine, Bt!Move, Bt!Stops, BtPumpTypes
  <1>12. ASSUME NEW t \in Threads, Bt!Parse(t)
        PROVE  BtPumpTypes'
    BY <1>0, <1>12 DEF Bt!Parse, Bt!Move, Bt!Stops, BtPumpTypes
  <1>13. ASSUME NEW t \in Threads, Bt!Answer(t)
        PROVE  BtPumpTypes'
    BY <1>0, <1>13 DEF Bt!Answer, Bt!Move, Bt!Stops, BtPumpTypes
  <1>14. ASSUME NEW t \in Threads, Bt!After(t)
        PROVE  BtPumpTypes'
    BY <1>0, <1>14 DEF Bt!After, Bt!Move, Bt!Stops, BtPumpTypes
  <1>15. ASSUME NEW t \in Threads, Bt!Sent(t)
        PROVE  BtPumpTypes'
    BY <1>0, <1>15 DEF Bt!Sent, Bt!Move, Bt!Stops, BtPumpTypes
  <1>16. ASSUME NEW r \in Readers, Bt!ReadHci(r) \/ Bt!Match(r) \/ Bt!AnswerReader(r)
        PROVE  BtPumpTypes'
    BY <1>1, <1>16 DEF Bt!ReadHci, Bt!Match, Bt!AnswerReader, Bt!Go, Bt!startup, Bt!pump, Bt!hci
  <1> QED BY <1>2, <1>3, <1>4, <1>5, <1>6, <1>7, <1>8, <1>9, <1>10, <1>11, <1>12, <1>13, <1>14,
             <1>15, <1>16 DEF Bt!Next

LEMMA BtListStep ==
  ASSUME Bt!TypeOK, Bt!Next
  PROVE  BtListTypes'
  <1>0. BtListTypes
    BY DEF Bt!TypeOK, BtListTypes
  <1>1. ASSUME UNCHANGED <<reader, list, queue>>
        PROVE  BtListTypes'
    BY <1>0, <1>1 DEF BtListTypes
  <1>2. CASE Bt!EnableFlow \/ Bt!EnableHigh \/ Bt!EnableRts \/ Bt!Identity \/ Bt!Serial
          \/ Bt!Reset \/ Bt!Verbose \/ Bt!Name \/ Bt!Download \/ Bt!Launch \/ Bt!Address
          \/ Bt!Baud \/ Bt!Switch \/ Bt!Verify \/ Bt!FdoDevPrepareHardware
          \/ Bt!FdoCreateAllChildren \/ Bt!FdoDevD0Entry \/ Bt!PumpStarted \/ Bt!FdoDevD0Exit
          \/ Bt!TargetStopped \/ Bt!FdoDevReleaseHardware \/ Bt!CallFails
    BY <1>1, <1>2 DEF Bt!EnableFlow, Bt!EnableHigh, Bt!EnableRts, Bt!Identity, Bt!Serial,
       Bt!Reset, Bt!Verbose, Bt!Name, Bt!Download, Bt!Launch, Bt!Address, Bt!Baud, Bt!Switch,
       Bt!Verify, Bt!FdoDevPrepareHardware, Bt!FdoCreateAllChildren, Bt!FdoDevD0Entry,
       Bt!PumpStarted, Bt!FdoDevD0Exit, Bt!TargetStopped, Bt!FdoDevReleaseHardware, Bt!CallFails,
       Bt!Go, Bt!startup, Bt!pump, Bt!hci
  <1>3. CASE Bt!EnableLow
    BY <1>0, <1>3, BluetoothAssumption DEF Bt!EnableLow, Bt!Pairs, BtListTypes
  <1>4. CASE Bt!StartPump
    BY <1>0, <1>4, BluetoothAssumption DEF Bt!StartPump, Bt!Pairs, BtListTypes
  <1>5. CASE Bt!PinFails
    BY <1>0, <1>5, BluetoothAssumption DEF Bt!PinFails, Bt!Pairs, BtListTypes
  <1>6. CASE Bt!CancelRead
    BY <1>0, <1>6, BluetoothAssumption DEF Bt!CancelRead, Bt!Pairs, BtListTypes
  <1>7. ASSUME NEW t \in Threads, Bt!ReadH4Packet(t) \/ Bt!Send(t)
               \/ Bt!ReadH4PacketCompletionRoutine(t) \/ Bt!Answer(t) \/ Bt!After(t) \/ Bt!Sent(t)
        PROVE  BtListTypes'
    BY <1>1, <1>7 DEF Bt!ReadH4Packet, Bt!Send, Bt!ReadH4PacketCompletionRoutine, Bt!Answer,
       Bt!After, Bt!Sent, Bt!Go, Bt!startup, Bt!pump, Bt!hci
  <1>8. ASSUME NEW t \in Threads, Bt!Parse(t)
        PROVE  BtListTypes'
    BY <1>0, <1>8, BluetoothAssumption DEF Bt!Parse, Bt!Pairs, BtListTypes
  <1>9. ASSUME NEW r \in Readers, Bt!ReadHci(r)
        PROVE  BtListTypes'
    BY <1>0, <1>9, BluetoothAssumption DEF Bt!ReadHci, Bt!Pairs, BtListTypes
  <1>10. ASSUME NEW r \in Readers, Bt!Match(r)
        PROVE  BtListTypes'
    BY <1>0, <1>10, BluetoothAssumption DEF Bt!Match, Bt!Pairs, BtListTypes
  <1>11. ASSUME NEW r \in Readers, Bt!AnswerReader(r)
        PROVE  BtListTypes'
    BY <1>0, <1>11, BluetoothAssumption DEF Bt!AnswerReader, Bt!Pairs, BtListTypes
  <1> QED BY <1>2, <1>3, <1>4, <1>5, <1>6, <1>7, <1>8, <1>9, <1>10, <1>11 DEF Bt!Next

LEMMA BtTypeStep ==
  ASSUME Bt!TypeOK, Bt!Next
  PROVE  Bt!TypeOK'
  <1>1. BtCallTypes' /\ BtChipTypes' /\ BtPumpTypes' /\ BtListTypes'
    BY BtCallStep, BtChipStep, BtPumpStep, BtListStep
  <1> QED BY <1>1 DEF BtCallTypes, BtChipTypes, BtPumpTypes, BtListTypes, Bt!TypeOK

BtPaired == list <= Cardinality(BtLate) \/ queue <= Cardinality(BtLate)

LEMMA BtStartStep ==
  ASSUME Bt!TypeOK, BtStartInv, Bt!Next
  PROVE  BtStartInv'
  <1>1. CASE Bt!EnableFlow \/ Bt!EnableLow \/ Bt!EnableRts
    BY <1>1 DEF Bt!EnableFlow, Bt!EnableLow, Bt!EnableRts, Bt!Go, Bt!OffChip, BtStartInv, BtStarting
  <1>13. CASE Bt!EnableHigh
    <2>1. ~rts /\ step = "high" /\ step' = "rts" /\ UNCHANGED <<call, rts, host, build, ready>>
      BY <1>13 DEF Bt!EnableHigh, Bt!Go, BtStartInv, BtStarting
    <2>2. chip'.mode = "ok"
      BY <1>13, <2>1 DEF Bt!EnableHigh, Bt!OffChip
    <2> QED BY <2>1, <2>2 DEF BtStartInv, BtStarting
  <1>2. CASE Bt!Identity \/ Bt!Serial \/ Bt!Reset \/ Bt!Verbose \/ Bt!Name
    BY <1>2 DEF Bt!Identity, Bt!Serial, Bt!Reset, Bt!Verbose, Bt!Name, Bt!Go, Bt!startup,
       BtStartInv, BtStarting
  <1>3. CASE Bt!Download \/ Bt!Launch \/ Bt!Address \/ Bt!Baud
    BY <1>3 DEF Bt!Download, Bt!Launch, Bt!Launched, Bt!Address, Bt!Baud, Bt!TypeOK, Bt!Go,
       BtStartInv, BtStarting
  <1>4. CASE Bt!Switch \/ Bt!Verify
    BY <1>4 DEF Bt!Switch, Bt!Verify, Bt!Answers, Bt!TypeOK, Bt!Go, BtStartInv, BtStarting
  <1>5. CASE Bt!FdoDevPrepareHardware \/ Bt!FdoCreateAllChildren \/ Bt!FdoDevD0Entry
    BY <1>5 DEF Bt!FdoDevPrepareHardware, Bt!FdoCreateAllChildren, Bt!FdoDevD0Entry, Bt!At,
       Bt!startup, BtStartInv, BtStarting
  <1>6. CASE Bt!StartPump \/ Bt!PumpStarted
    BY <1>6 DEF Bt!StartPump, Bt!PumpStarted, Bt!At, Bt!startup, BtStartInv, BtStarting
  <1>7. CASE Bt!FdoDevD0Exit \/ Bt!TargetStopped \/ Bt!FdoDevReleaseHardware
    BY <1>7 DEF Bt!FdoDevD0Exit, Bt!TargetStopped, Bt!FdoDevReleaseHardware, Bt!At, Bt!Go,
       Bt!startup, BtStartInv, BtStarting
  <1>8. CASE Bt!CallFails \/ Bt!PinFails
    BY <1>8 DEF Bt!CallFails, Bt!PinFails, Bt!startup, BtStartInv, BtStarting
  <1>9. ASSUME UNCHANGED <<call, step, rts, host, chip, build, ready>>
        PROVE  BtStartInv'
    BY <1>9 DEF BtStartInv, BtStarting
  <1>10. CASE Bt!CancelRead
    BY <1>9, <1>10 DEF Bt!CancelRead, Bt!startup
  <1>11. CASE \E t \in Threads :
           \/ Bt!ReadH4Packet(t) \/ Bt!Send(t) \/ Bt!ReadH4PacketCompletionRoutine(t)
           \/ Bt!Parse(t) \/ Bt!Answer(t) \/ Bt!After(t) \/ Bt!Sent(t)
    BY <1>9, <1>11 DEF Bt!ReadH4Packet, Bt!Send, Bt!ReadH4PacketCompletionRoutine, Bt!Parse,
       Bt!Answer, Bt!After, Bt!Sent, Bt!startup
  <1>12. CASE \E r \in Readers : Bt!ReadHci(r) \/ Bt!Match(r) \/ Bt!AnswerReader(r)
    BY <1>9, <1>12 DEF Bt!ReadHci, Bt!Match, Bt!AnswerReader, Bt!startup
  <1> QED BY <1>1, <1>2, <1>3, <1>4, <1>5, <1>6, <1>7, <1>8, <1>10, <1>11, <1>12,
             <1>13 DEF Bt!Next

LEMMA BtPairStep ==
  ASSUME Bt!TypeOK, BtPaired, Bt!Next
  PROVE  BtPaired'
  <1>0. /\ list \in Nat /\ queue \in Nat /\ reader \in [Readers -> {"idle", "match", "answer"}]
        /\ Cardinality(BtLate) \in Nat /\ Cardinality(BtLate)' = Cardinality(BtLate')
    BY BluetoothAssumption, BtLateCounts DEF Bt!TypeOK
  <1>1. ASSUME UNCHANGED <<list, queue, reader>>
        PROVE  BtPaired'
    BY <1>1 DEF BtPaired, BtLate
  <1>2. ASSUME list' = 0 \/ queue' = 0, BtLate' = BtLate
        PROVE  BtPaired'
    BY <1>0, <1>2 DEF BtPaired
  <1>3. ASSUME list' \in {list, 0}, queue' \in {queue, queue - 1}, UNCHANGED reader
        PROVE  BtPaired'
    <2>1. BtLate' = BtLate
      BY <1>3 DEF BtLate
    <2> QED BY <1>0, <1>3, <2>1 DEF BtPaired
  <1>4. CASE \/ Bt!EnableFlow \/ Bt!EnableHigh \/ Bt!EnableRts
             \/ Bt!Identity \/ Bt!Serial \/ Bt!Reset \/ Bt!Verbose \/ Bt!Name \/ Bt!Download
             \/ Bt!Launch \/ Bt!Address \/ Bt!Baud \/ Bt!Switch \/ Bt!Verify
    BY <1>1, <1>4 DEF Bt!EnableFlow, Bt!EnableHigh, Bt!EnableRts, Bt!Identity, Bt!Serial,
       Bt!Reset, Bt!Verbose, Bt!Name, Bt!Download, Bt!Launch, Bt!Address, Bt!Baud, Bt!Switch,
       Bt!Verify, Bt!hci
  <1>5. CASE \/ Bt!FdoDevPrepareHardware \/ Bt!FdoCreateAllChildren \/ Bt!FdoDevD0Entry
             \/ Bt!PumpStarted \/ Bt!FdoDevD0Exit \/ Bt!TargetStopped
             \/ Bt!FdoDevReleaseHardware \/ Bt!CallFails
    BY <1>1, <1>5 DEF Bt!FdoDevPrepareHardware, Bt!FdoCreateAllChildren, Bt!FdoDevD0Entry,
       Bt!PumpStarted, Bt!FdoDevD0Exit, Bt!TargetStopped, Bt!FdoDevReleaseHardware,
       Bt!CallFails, Bt!hci
  <1>6. CASE Bt!EnableLow \/ Bt!PinFails
    <2>1. UNCHANGED reader /\ (list' = 0 \/ UNCHANGED <<list, queue>>)
      BY <1>6 DEF Bt!EnableLow, Bt!PinFails
    <2>2. BtLate' = BtLate
      BY <2>1 DEF BtLate
    <2> QED BY <1>1, <1>2, <2>1, <2>2
  <1>7. CASE Bt!StartPump
    BY <1>3, <1>7 DEF Bt!StartPump
  <1>8. CASE Bt!CancelRead
    BY <1>3, <1>8 DEF Bt!CancelRead
  <1>9. ASSUME NEW t \in Threads,
               \/ Bt!ReadH4Packet(t) \/ Bt!Send(t) \/ Bt!ReadH4PacketCompletionRoutine(t)
               \/ Bt!Answer(t) \/ Bt!After(t) \/ Bt!Sent(t)
        PROVE  BtPaired'
    BY <1>1, <1>9 DEF Bt!ReadH4Packet, Bt!Send, Bt!ReadH4PacketCompletionRoutine,
       Bt!Answer, Bt!After, Bt!Sent, Bt!hci
  <1>10. ASSUME NEW t \in Threads, Bt!Parse(t)
         PROVE  BtPaired'
    <2>1. /\ UNCHANGED reader
          /\ \/ list' = list /\ queue' \in {queue, queue - 1}
             \/ list' = list + 1 /\ queue' = queue /\ ~(queue > 0)
      BY <1>10 DEF Bt!Parse
    <2>2. BtLate' = BtLate
      BY <2>1 DEF BtLate
    <2>3. CASE list' = list + 1 /\ queue' = queue /\ ~(queue > 0)
      BY <1>0, <1>2, <2>2, <2>3
    <2> QED BY <1>3, <2>1, <2>3
  <1>11. ASSUME NEW r \in Readers, Bt!ReadHci(r)
         PROVE  BtPaired'
    <2>1. /\ reader[r] # "match" /\ reader'[r] = "match"
          /\ \A u \in Readers \ {r} : reader'[u] = reader[u]
          /\ queue' = queue + 1 /\ list' = list
      BY <1>0, <1>11 DEF Bt!ReadHci
    <2>2. Cardinality(BtLate') = Cardinality(BtLate) + 1
      BY <2>1, BtLateCounts
    <2> QED BY <1>0, <2>1, <2>2 DEF BtPaired
  <1>12. ASSUME NEW r \in Readers, Bt!Match(r)
         PROVE  BtPaired'
    <2>1. /\ reader[r] = "match" /\ reader'[r] # "match"
          /\ \A u \in Readers \ {r} : reader'[u] = reader[u]
      BY <1>0, <1>12 DEF Bt!Match
    <2>2. Cardinality(BtLate') = Cardinality(BtLate) - 1 /\ Cardinality(BtLate') \in Nat
      <3>1. Cardinality(BtLate') = Cardinality(BtLate) - 1
        BY <2>1, BtLateCounts
      <3>2. IsFiniteSet(BtLate')
        BY BluetoothAssumption, FS_Subset DEF BtLate
      <3> QED BY <3>1, <3>2, FS_CardinalityType
    <2>3. CASE Bt!Pairs
      <3>1. list' = list - 1 /\ queue' = queue - 1
        BY <1>12, <2>3 DEF Bt!Match
      <3> QED BY <1>0, <2>2, <3>1 DEF BtPaired
    <2>4. CASE ~Bt!Pairs
      <3>1. list' = list /\ queue' = queue /\ (list = 0 \/ queue = 0)
        BY <1>0, <1>12, <2>4 DEF Bt!Match, Bt!Pairs
      <3> QED BY <1>0, <2>2, <3>1 DEF BtPaired
    <2> QED BY <2>3, <2>4
  <1>13. ASSUME NEW r \in Readers, Bt!AnswerReader(r)
         PROVE  BtPaired'
    <2>1. UNCHANGED <<list, queue>> /\ BtLate' = BtLate
      BY <1>0, <1>13 DEF Bt!AnswerReader, BtLate
    <2> QED BY <1>0, <2>1 DEF BtPaired
  <1> QED BY <1>4, <1>5, <1>6, <1>7, <1>8, <1>9, <1>10, <1>11, <1>12, <1>13 DEF Bt!Next

BtInv == Bt!TypeOK /\ BtStartInv /\ BtPaired

LEMMA BtAlways == AllSpec => []BtInv
  <1>1. AllInit => BtInv
    <2> SUFFICES ASSUME Bt!Init
                 PROVE  BtInv
      BY DEF AllInit
    <2>1. Bt!TypeOK
      <3>1. BtCallTypes /\ BtChipTypes
        BY DEF Bt!Init, BtCallTypes, BtChipTypes, Bt!Steps, Bt!OffChip
      <3>2. BtPumpTypes
        <4>1. target = "closed" /\ read = "none" /\ nested = {} /\ state = "COMPLETE"
          BY DEF Bt!Init
        <4>2. status = TRUE /\ t_running = FALSE
          BY Zenon DEF Bt!Init
        <4>3. pc \in [Threads -> {"idle", "failed", "check", "send", "cas", "parse", "answer",
                                 "after"}]
          BY DEF Bt!Init
        <4>4. prev \in [Threads -> {"SENT", "PENDING", "COMPLETE"}]
          BY DEF Bt!Init
        <4>5. status \in BOOLEAN /\ t_running \in BOOLEAN
          BY <4>2, Zenon
        <4> QED BY <4>1, <4>3, <4>4, <4>5 DEF BtPumpTypes
      <3>3. BtListTypes
        <4>1. reader \in [Readers -> {"idle", "match", "answer"}]
          BY DEF Bt!Init
        <4>2. list = 0 /\ queue = 0
          BY DEF Bt!Init
        <4>3. 0 \in 0 .. Limit /\ 0 \in 0 .. Waiting
          BY BluetoothAssumption
        <4> QED BY <4>1, <4>2, <4>3 DEF BtListTypes
      <3> QED BY <3>1, <3>2, <3>3 DEF BtCallTypes, BtChipTypes, BtPumpTypes, BtListTypes, Bt!TypeOK
    <2>2. BtStartInv
      BY DEF Bt!Init, Bt!OffChip, BtStartInv, BtStarting
    <2>3. BtPaired
      <3>1. list = 0 /\ Cardinality(BtLate) \in Nat
        BY BtLateCounts DEF Bt!Init
      <3> QED BY <3>1 DEF BtPaired
    <2> QED BY <2>1, <2>2, <2>3 DEF BtInv
  <1>2. BtInv /\ [AllNext]_<<part, vars, boardVars, fan, gpio, bcm, gem, bt>> => BtInv'
    <2>1. [AllNext]_<<part, vars, boardVars, fan, gpio, bcm, gem, bt>> => Bt!Next \/ UNCHANGED bt
      BY DEF AllNext
    <2>2. ASSUME BtInv, UNCHANGED bt
          PROVE  BtInv'
      <3>1. UNCHANGED <<call, step, init, ready, doomed, child, rts, host, chip, build, target,
                        read, pc, prev, nested, state, status, t_running, reader, list, queue>>
        BY <2>2 DEF bt
      <3>2. Bt!TypeOK'
        BY <2>2, <3>1 DEF BtInv, Bt!TypeOK
      <3>3. BtStartInv' /\ BtPaired'
        BY <2>2, <3>1 DEF BtInv, BtStartInv, BtStarting, BtPaired, BtLate
      <3> QED BY <3>2, <3>3 DEF BtInv
    <2>3. ASSUME BtInv, Bt!Next
          PROVE  BtInv'
      BY <2>3, BtTypeStep, BtStartStep, BtPairStep DEF BtInv
    <2> QED BY <2>1, <2>2, <2>3
  <1> QED BY <1>1, <1>2, PTL DEF AllSpec

\* While requests may use the controller it runs the patched image, carries the address of
\* the board's firmware and speaks the UART's baud rate, and it never starts in the
\* recovery mode (cyw-bluetooth, DeviceEnable and DeviceInitialize, whichever of their
\* commands failed in this start or an earlier one).
THEOREM ControllerIsReadyHolds == AllSpec => []ControllerIsReady
  <1>1. BtInv => ControllerIsReady
    <2> SUFFICES ASSUME BtInv
                 PROVE  Bt!ControllerIsReady
      BY DEF ControllerIsReady
    <2>1. host \in BOOLEAN /\ chip.fast \in BOOLEAN
      BY DEF BtInv, Bt!TypeOK
    <2>2. ready => chip.patched /\ chip.named /\ (chip.fast <=> host)
      BY DEF BtInv, BtStartInv
    <2> QED BY <2>1, <2>2 DEF BtInv, BtStartInv, Bt!ControllerIsReady
  <1> QED BY <1>1, BtAlways, PTL

\* A packet and a request wait for each other only while a thread that queued a request has
\* yet to look for a pair (cyw-bluetooth, ReadRequestComplete and its two callers).
THEOREM NoneStrandedHolds == AllSpec => []NoneStranded
  <1>1. BtInv => NoneStranded
    BY BtCardinality DEF BtInv, BtPaired, BtLate, NoneStranded, Bt!NoneStranded
  <1> QED BY <1>1, BtAlways, PTL

-------------------------------------------------------------------------------
(* The types of every part, and the lists of the Ethernet miniport.        *)

\* What the leases' invariant leaves out of the board's types.
BoardTypes ==
  boardPower \in {"off", "on", "failed"} /\ boardOnline \in BOOLEAN /\ doubt \subseteq Pins

LEMMA BoardTypeStep == BoardTypes /\ BoardInv /\ [BoardNext]_boardVars => BoardTypes'
  <1> SUFFICES ASSUME BoardTypes, BoardInv, [BoardNext]_boardVars
               PROVE  BoardTypes'
    OBVIOUS
  <1> USE DEF BoardTypes
  <1>1. CASE BoardStart
    BY <1>1 DEF BoardStart
  <1>2. CASE BoardStartFails \/ BoardStop
    BY <1>2 DEF BoardStartFails, BoardStop, CloseAll, Close
  <1>3. ASSUME NEW f \in Holders, BoardCleanup(f)
        PROVE  BoardTypes'
    BY <1>3 DEF BoardCleanup, Close
  <1>4. ASSUME NEW f \in Holders, NEW p \in Pins, BoardRelease(f, p)
        PROVE  BoardTypes'
    BY <1>4 DEF BoardRelease, Close
  <1>5. ASSUME NEW f \in Holders, NEW p \in Pins, NEW asserted \in BOOLEAN,
               BoardSet(f, p, asserted)
        PROVE  BoardTypes'
    BY <1>5 DEF BoardSet, SetPin
  <1>6. ASSUME NEW f \in Holders, NEW p \in Pins, NEW asserted \in BOOLEAN,
               BoardSetFails(f, p, asserted)
        PROVE  BoardTypes'
    BY <1>6 DEF BoardSetFails, SetPinFails, Close
  <1>7. CASE UNCHANGED boardVars
    BY <1>7 DEF boardVars
  <1> QED BY <1>1, <1>2, <1>3, <1>4, <1>5, <1>6, <1>7 DEF BoardNext

LEMMA BoardWellTyped == BoardInv /\ BoardTypes => BoardTypeOK
  BY DEF BoardInv, ControlsInv, PinInv, LevelInv, BoardTypes, BoardTypeOK

\* The parts of the run.
PartKnown == part \in {"pm", "board", "fan", "gpio", "bcm", "gem", "bt"}

\* Every part of the run keeps its types; and an accepted list of the Ethernet miniport
\* is in one place until it is completed, once, and a paused adapter has none
\* (rp1-ethernet, Send, CompleteTransmit and StopHardware).
THEOREM SendsAreReturnedHolds == AllSpec => []SendsAreReturned
  <1>1. AllInit => TypeOK /\ BoardInv /\ BoardTypes /\ FanInv
    BY GateInitType, BoardInitInv, FanInitInv DEF AllInit, BoardInit, BoardTypes
  <1>2. TypeOK /\ BoardInv /\ BoardTypes /\ FanInv
          /\ [AllNext]_<<part, vars, boardVars, fan, gpio, bcm, gem, bt>>
            => TypeOK' /\ BoardInv' /\ BoardTypes' /\ FanInv'
    <2>1. [AllNext]_<<part, vars, boardVars, fan, gpio, bcm, gem, bt>>
            => [Next]_vars /\ [BoardNext]_boardVars /\ (Fn!Next \/ UNCHANGED fan)
      BY DEF AllNext
    <2> QED BY <2>1, GateTypeStep, BoardStep, BoardTypeStep, FanStep
  <1>3. AllInit => PartKnown
    BY DEF AllInit, PartKnown
  <1>4. PartKnown /\ [AllNext]_<<part, vars, boardVars, fan, gpio, bcm, gem, bt>>
          => PartKnown'
    BY DEF AllNext, PartKnown
  <1>5. ASSUME PartKnown, TypeOK, BoardInv, BoardTypes, FanInv, GpioInv, BcmInv,
               GemInv, GemSendInv, BtInv
        PROVE  SendsAreReturned
    <2>1. /\ BoardTypeOK /\ Fn!TypeOK /\ Gp!TypeOK /\ Bg!TypeOK /\ Ge!TypeOK /\ Bt!TypeOK
      BY <1>5, BoardWellTyped, GemWellTyped DEF FanInv, GpioInv, BcmInv, BtInv
    <2>2. WellTyped
      BY <1>5, <2>1 DEF WellTyped, PartKnown
    <2>3. \A n \in Nbls : Ge!Places(n) = IF n \in owned THEN 1 ELSE 0
      BY <1>5, GemPlaces
    <2>4. life \in {"paused", "halted", "off"} => owned = {}
      BY <1>5 DEF GemSendInv, GemIdleInv
    <2> QED BY <2>2, <2>3, <2>4 DEF SendsAreReturned, Ge!SendsAreReturned
  <1>6. AllSpec => [](TypeOK /\ BoardInv /\ BoardTypes /\ FanInv)
    BY <1>1, <1>2, PTL DEF AllSpec
  <1>7. AllSpec => []PartKnown
    BY <1>3, <1>4, PTL DEF AllSpec
  <1> QED BY <1>5, <1>6, <1>7, PinsAlways, GemSendAlways, BtAlways, PTL
===============================================================================

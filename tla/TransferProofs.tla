----------------------------- MODULE TransferProofs ----------------------------
(***************************************************************************)
(* Proofs about the controllers of the serial buses (MCTransfers).  The    *)
(* SpbCx controllers, for any requests, any depth of the FIFOs and any     *)
(* number of requests: a request is completed once, by the one of Begin,   *)
(* worker and cancel routine that comes last, the worker touches the       *)
(* engine only under the clock, and a transfer that succeeds is whole.     *)
(* The UARTs, for any sizes and any processors: each notification has one  *)
(* answerer, and flow control follows the flags.                           *)
(***************************************************************************)
EXTENDS MCTransfers, FiniteSetTheorems, TLAPS

\* The steps at which the worker has the hardware.
AtEngine == {"prepare", "disable", "select", "clear", "check in loop", "lock", "raw", "drain",
             "fill", "sleep", "quiet", "down", "deselect"}

\* And those from which it may still come to it.
Taken == AtEngine \union {"entry", "check"}

\* The steps at which it has not published yet that the slot is free.
Working == AtEngine \union {"entry", "check", "copy", "publish"}

-------------------------------------------------------------------------------
(* The handing over of the completion.                                       *)

HandoffTypes ==
  /\ ended \in {0, 1} /\ slot \in BOOLEAN
  /\ starter \in {"none", "check", "mark", "enqueue"}
  /\ worker \in Working \union {"idle", "unmark", "handoff"}
  /\ canceler \in {"none", "flag", "wake", "handoff"}
  /\ cancelable \in {"no", "yes", "called"} /\ completion \subseteq {1, 2}

\* A request that is not completed is Begin's, then the worker's, then nobody's but the
\* cancel routine's; whoever gives it up first leaves his bit.
HandoffInv ==
  /\ HandoffTypes
  /\ ended = 1 => starter = "none" /\ worker = "idle" /\ canceler = "none" /\ ~slot
  /\ ended = 0 =>
       /\ slot <=> starter \in {"mark", "enqueue"} \/ worker \in Working
       /\ starter # "none" => worker = "idle" /\ 2 \notin completion
       /\ starter \in {"check", "mark"} <=> cancelable = "no"
       /\ cancelable = "called" <=> canceler # "none" \/ 1 \in completion
       /\ canceler # "none" => 1 \notin completion
       /\ worker = "handoff" => cancelable = "called"
       /\ 2 \in completion => worker = "idle" /\ canceler # "none"
       /\ starter = "none" /\ worker = "idle" => 2 \in completion

handoff == <<ended, slot, starter, worker, canceler, cancelable, completion>>

\* What is not about the handing over leaves it alone.
LEMMA HandoffUnchanged == ASSUME HandoffInv, UNCHANGED handoff PROVE HandoffInv'
  BY DEF HandoffInv, HandoffTypes, handoff

\* The worker goes from one of its steps to another, and nobody else moves.
LEMMA WorkerMoves ==
  ASSUME HandoffInv, worker \in Working, worker' \in Working,
         UNCHANGED <<ended, slot, starter, canceler, cancelable, completion>>
  PROVE  HandoffInv'
  BY DEF HandoffInv, HandoffTypes, Working, AtEngine

LEMMA HandoffInit == Init => HandoffInv
  <1> SUFFICES ASSUME Init PROVE HandoffInv
    OBVIOUS
  <1>1. completion \subseteq {1, 2} /\ slot \in BOOLEAN
    BY DEF Init
  <1>2. ended = 1 /\ starter = "none" /\ worker = "idle" /\ canceler = "none" /\ ~slot
        /\ cancelable = "no"
    BY DEF Init
  <1> QED
    BY <1>1, <1>2 DEF HandoffInv, HandoffTypes, Working, AtEngine

\* Begin and the framework (SpbBegin, I2cCancel).
LEMMA HandoffOthers ==
  ASSUME HandoffInv, (\E p \in Plans : Begin(p)) \/ Starter \/ AskCancel \/ Canceler
  PROVE  HandoffInv'
  <1> USE DEF HandoffInv, HandoffTypes, Complete
  <1>1. CASE \E p \in Plans : Begin(p)
    BY <1>1 DEF Begin, Working, AtEngine
  <1>8. CASE BeginCheck
    <2>1. starter = "check" /\ ended = 0 /\ slot = FALSE /\ worker = "idle"
      BY <1>8 DEF BeginCheck, Working, AtEngine
    <2>4. cancelable = "no" /\ canceler = "none"
      BY <2>1
    <2>2. CASE ~online
      <3>2. /\ ended' = ended + 1 /\ starter' = "none" /\ slot' = slot
            /\ UNCHANGED <<worker, canceler, cancelable, completion>>
        BY <1>8, <2>2 DEF BeginCheck
      <3>1. ended' = 1 /\ slot' = FALSE
        BY <2>1, <3>2
      <3> QED BY <2>1, <2>4, <3>1, <3>2 DEF Working, AtEngine
    <2>3. CASE online
      <3>1. /\ ended' = 0 /\ starter' = "mark" /\ slot' = TRUE
            /\ UNCHANGED <<worker, canceler, cancelable, completion>>
        BY <1>8, <2>1, <2>3 DEF BeginCheck
      <3> QED BY <2>1, <3>1 DEF Working, AtEngine
    <2> QED BY <2>2, <2>3
  <1>2. CASE BeginMark
    <2>1. starter = "mark" /\ ended = 0
      BY <1>2 DEF BeginMark
    <2>2. CASE asked
      <3>1. /\ ended' = 1 /\ starter' = "none" /\ slot' = FALSE
            /\ UNCHANGED <<worker, canceler, cancelable, completion>>
        BY <1>2, <2>1, <2>2 DEF BeginMark
      <3> QED BY <2>1, <3>1 DEF Working, AtEngine
    <2>3. CASE ~asked
      BY <1>2, <2>1, <2>3 DEF BeginMark, Working, AtEngine
    <2> QED BY <2>2, <2>3
  <1>3. CASE BeginEnqueue
    BY <1>3 DEF BeginEnqueue, request, Working, AtEngine
  <1>4. CASE AskCancel
    BY <1>4 DEF AskCancel
  <1>5. CASE CancelFlag
    BY <1>5 DEF CancelFlag
  <1>6. CASE CancelWake
    BY <1>6 DEF CancelWake, request
  <1>7. CASE CancelHandoff
    <2>1. /\ completion' \subseteq {1, 2} /\ 1 \in completion'
          /\ 2 \in completion' <=> 2 \in completion
      BY <1>7 DEF CancelHandoff
    <2>2. canceler = "handoff" /\ canceler' = "none"
          /\ UNCHANGED <<slot, starter, worker, cancelable>>
      BY <1>7 DEF CancelHandoff
    <2>3. ended = 0
      BY <2>2
    <2>4. CASE 2 \in completion
      <3>1. ended' = 1
        BY <1>7, <2>3, <2>4 DEF CancelHandoff
      <3> QED BY <2>1, <2>2, <2>3, <2>4, <3>1 DEF Working, AtEngine
    <2>5. CASE 2 \notin completion
      <3>1. ended' = 0
        BY <1>7, <2>3, <2>5 DEF CancelHandoff
      <3> QED BY <2>1, <2>2, <2>3, <2>5, <3>1 DEF Working, AtEngine
    <2> QED BY <2>4, <2>5
  <1> QED
    BY <1>1, <1>2, <1>3, <1>4, <1>5, <1>6, <1>7, <1>8 DEF Starter, Canceler

\* The worker, up to the step that frees the slot.
LEMMA WorkerSteps ==
  ASSUME WorkerEntry \/ WorkerCheck \/ WorkerPrepare \/ WorkerDisable \/ WorkerSelect \/ Loop
         \/ FinishMask \/ FinishDisable \/ FinishDeselect \/ FinishCopy \/ LoopTimeout
  PROVE  /\ worker \in Working /\ worker' \in Working
         /\ worker' \in Taken => worker \in Taken
         /\ UNCHANGED <<bus, device, pins, ended, slot, starter, canceler, cancelable, completion,
                        mapped>>
  <1> USE DEF Goto, Other, Working, AtEngine, Taken, progress
  <1>1. CASE WorkerEntry \/ WorkerCheck \/ WorkerPrepare \/ WorkerDisable \/ WorkerSelect
    BY <1>1 DEF WorkerEntry, WorkerCheck, WorkerPrepare, WorkerDisable, WorkerSelect, MaskAll
  <1>2. CASE LoopClear \/ LoopCheck \/ LoopLock \/ LoopWoken \/ LoopTimeout
    BY <1>2 DEF LoopClear, LoopCheck, LoopLock, LoopWoken, LoopTimeout
  <1>3. CASE PumpRaw
    BY <1>3 DEF PumpRaw, Unlock, Goes
  <1>4. CASE PumpDrain
    BY <1>4 DEF PumpDrain, Unlock, Goes
  <1>5. CASE PumpFill
    BY <1>5 DEF PumpFill, Unlock
  <1>6. CASE FinishMask \/ FinishDisable \/ FinishDeselect \/ FinishCopy
    BY <1>6 DEF FinishMask, FinishDisable, FinishDeselect, FinishCopy, MaskAll
  <1> QED
    BY <1>1, <1>2, <1>3, <1>4, <1>5, <1>6 DEF Loop, Pump

\* The end of the worker (I2cWorker, SpiWorker).
LEMMA HandoffEnds ==
  ASSUME HandoffInv, Publish \/ Unmark \/ Handoff
  PROVE  HandoffInv'
  <1> USE DEF HandoffInv, HandoffTypes, Goto, Complete, Working, AtEngine
  <1>1. CASE Publish
    BY <1>1 DEF Publish, request
  <1>2. CASE Unmark
    <2>1. CASE cancelable = "called"
      BY <1>2, <2>1 DEF Unmark
    <2>2. CASE cancelable # "called"
      BY <1>2, <2>2 DEF Unmark
    <2> QED BY <2>1, <2>2
  <1>3. CASE Handoff
    <2>1. CASE 1 \in completion
      BY <1>3, <2>1 DEF Handoff
    <2>2. CASE 1 \notin completion
      BY <1>3, <2>2 DEF Handoff
    <2> QED BY <2>1, <2>2
  <1> QED BY <1>1, <1>2, <1>3

\* Interrupts, power and the engine have no part in it.
LEMMA OutsideSteps ==
  ASSUME Isr \/ Dpc \/ Start \/ Stop \/ SpiConnect \/ SpiDisconnect \/ Engine \/ DeadlinePasses
  PROVE  UNCHANGED handoff
  <1> USE DEF handoff, Rest, Outside, request
  <1>1. CASE Isr \/ Dpc
    BY <1>1 DEF Isr, Dpc
  <1>2. CASE Start
    BY <1>2 DEF Start, Prepare, Release, StartClock, StartRoute, InterruptEnable
  <1>3. CASE Stop
    BY <1>3 DEF Stop, InterruptDisable, StopWake, StopEngine, StopRoute, StopClock
  <1>4. CASE SpiConnect \/ SpiDisconnect
    BY <1>4 DEF SpiConnect, SpiDisconnect
  <1>5. CASE Engine \/ DeadlinePasses
    BY <1>5 DEF Engine, ShiftIn, ShiftOut, EngineFails, DeadlinePasses
  <1> QED BY <1>1, <1>2, <1>3, <1>4, <1>5

LEMMA HandoffStep == HandoffInv /\ [Next]_vars => HandoffInv'
  <1> SUFFICES ASSUME HandoffInv, [Next]_vars PROVE HandoffInv'
    OBVIOUS
  <1>1. CASE (\E p \in Plans : Begin(p)) \/ Starter \/ AskCancel \/ Canceler
    BY <1>1, HandoffOthers
  <1>2. CASE Worker \/ LoopTimeout
    <2>1. CASE Publish \/ Unmark \/ Handoff
      BY <2>1, HandoffEnds
    <2>2. CASE ~(Publish \/ Unmark \/ Handoff)
      BY <1>2, <2>2, WorkerSteps, WorkerMoves DEF Worker, Finish
    <2> QED BY <2>1, <2>2
  <1>3. CASE Isr \/ Dpc \/ Start \/ Stop \/ SpiConnect \/ SpiDisconnect \/ Engine
             \/ DeadlinePasses
    BY <1>3, OutsideSteps, HandoffUnchanged
  <1>4. CASE UNCHANGED vars
    BY <1>4, HandoffUnchanged DEF vars, request, handoff
  <1> QED
    BY <1>1, <1>2, <1>3, <1>4 DEF Next

\* Whatever cancel routine, worker and Begin do at the same time, a request is completed
\* once, and then none of them will touch it (I2cCancel, SpbFinish, SpiCancel).
THEOREM HandoffIsExactHolds == Spec => []HandoffIsExact
  <1>1. HandoffInv => HandoffIsExact
    BY DEF HandoffInv, HandoffTypes, HandoffIsExact
  <1> QED
    BY <1>1, HandoffInit, HandoffStep, PTL DEF Spec

-------------------------------------------------------------------------------
(* The clock and the mapping of the engine.                                  *)

\* While the worker may be at the engine, or come to it, the device has not got past the
\* flush of the work item; until then, and while it is online, it has its clock.  The
\* worker's copy of the address is good as long: Begin made it in the D0 in which it
\* enqueues the worker, or finds the device offline.
ClockInv ==
  /\ pnp \in {"out", "idle", "clocked", "started", "running", "stopping", "flushing",
             "unroute", "unclock"}
  /\ online <=> pnp = "running"
  /\ pnp \notin {"out", "idle"} => "clock" \in lease
  /\ starter \in {"mark", "enqueue"} => online
  /\ starter # "none" /\ online => mapped
  /\ worker \in Taken => mapped /\ pnp \in {"running", "stopping", "flushing"}

\* What neither starts nor stops the device, nor brings the worker to the engine.
LEMMA ClockUnchanged ==
  ASSUME ClockInv, UNCHANGED <<device, starter, mapped>>, worker' \in Taken => worker \in Taken
  PROVE  ClockInv'
  BY DEF ClockInv, device

LEMMA ClockInit == Init => ClockInv
  BY DEF Init, ClockInv, AtEngine, Taken

\* Begin and its queue (SpbCx).
LEMMA ClockBegins ==
  ASSUME ClockInv, HandoffInv, (\E p \in Plans : Begin(p)) \/ Starter
  PROVE  ClockInv'
  <1> USE DEF ClockInv, device, AtEngine, Taken
  <1>1. CASE \E p \in Plans : Begin(p)
    <2>1. /\ worker = "idle" /\ starter' = "check" /\ mapped' = (pnp # "out")
          /\ UNCHANGED <<device, worker>>
      BY <1>1 DEF Begin, HandoffInv
    <2>2. online' => mapped'
      BY <2>1
    <2> QED BY <2>1, <2>2
  <1>2. CASE BeginCheck
    <2>1. /\ starter = "check" /\ starter' \in {"none", "mark"} /\ (starter' = "mark" => online)
          /\ UNCHANGED <<device, worker, mapped>>
      BY <1>2 DEF BeginCheck, progress
    <2> QED BY <2>1
  <1>3. CASE BeginMark
    <2>1. /\ starter = "mark" /\ starter' \in {"none", "enqueue"}
          /\ UNCHANGED <<device, worker, mapped>>
      BY <1>3 DEF BeginMark, progress
    <2> QED BY <2>1
  <1>4. CASE BeginEnqueue
    <2>1. /\ starter = "enqueue" /\ starter' = "none" /\ worker' = "entry"
          /\ UNCHANGED <<device, mapped>>
      BY <1>4 DEF BeginEnqueue, progress
    <2> QED BY <2>1
  <1> QED BY <1>1, <1>2, <1>3, <1>4 DEF Starter

\* The framework and the end of the worker.
LEMMA ClockRequests ==
  ASSUME AskCancel \/ Canceler \/ Publish \/ Unmark \/ Handoff
  PROVE  UNCHANGED <<device, starter, mapped>> /\ (worker' \in Taken => worker \in Taken)
  <1> USE DEF device, AtEngine, Taken, progress
  <1>1. CASE AskCancel
    BY <1>1 DEF AskCancel
  <1>2. CASE Canceler
    BY <1>2 DEF Canceler, CancelFlag, CancelWake, CancelHandoff
  <1>3. CASE Publish \/ Unmark \/ Handoff
    BY <1>3 DEF Publish, Unmark, Handoff, Goto
  <1> QED BY <1>1, <1>2, <1>3

\* Prepare, D0Entry, the interrupt's callbacks, D0Exit and Release.
LEMMA ClockPower == ASSUME ClockInv, Start \/ Stop PROVE ClockInv'
  <1> USE DEF ClockInv, Rest, AtEngine, Taken, progress
  <1>1. CASE Start
    <2>1. CASE Prepare \/ Release
      <3>1. /\ pnp \in {"out", "idle"} /\ pnp' \in {"out", "idle"}
            /\ UNCHANGED <<lease, online, worker, starter>>
        BY <2>1 DEF Prepare, Release
      <3>2. (online' <=> online) /\ ~online
        BY <3>1
      <3> QED BY <3>1, <3>2
    <2>4. CASE InterruptEnable
      <3>1. /\ pnp = "started" /\ pnp' = "running" /\ online' = TRUE
            /\ starter = "none" /\ UNCHANGED <<lease, worker, starter>>
        BY <2>4 DEF InterruptEnable, NoCallback
      <3> QED BY <3>1
    <2>2. CASE StartClock
      <3>1. /\ "clock" \in lease' /\ pnp = "idle" /\ pnp' = "clocked"
            /\ UNCHANGED <<online, worker, starter, mapped>>
        BY <2>2 DEF StartClock
      <3> QED BY <3>1
    <2>3. CASE StartRoute
      <3>1. /\ pnp = "clocked" /\ pnp' \in {"started", "idle"}
            /\ UNCHANGED <<online, worker, starter, mapped>>
            /\ pnp' = "started" => "clock" \in lease'
        BY <2>3 DEF StartRoute
      <3> QED BY <3>1
    <2> QED BY <1>1, <2>1, <2>2, <2>3, <2>4 DEF Start
  <1>2. CASE InterruptDisable \/ StopWake
    BY <1>2 DEF InterruptDisable, StopWake, NoCallback
  <1>3. CASE StopEngine
    BY <1>3 DEF StopEngine, Flushed
  <1>4. CASE StopRoute
    <2>1. /\ "clock" \in lease' /\ pnp = "unroute" /\ pnp' = "unclock"
          /\ UNCHANGED <<online, worker, starter, mapped>>
      BY <1>4 DEF StopRoute
    <2> QED BY <2>1
  <1>5. CASE StopClock
    <2>1. /\ pnp = "unclock" /\ pnp' = "idle"
          /\ UNCHANGED <<online, worker, starter, mapped>>
      BY <1>5 DEF StopClock
    <2> QED BY <2>1
  <1> QED BY <1>1, <1>2, <1>3, <1>4, <1>5 DEF Stop

\* The interrupt, the targets, the engine and the time.
LEMMA ClockOutside ==
  ASSUME Isr \/ Dpc \/ SpiConnect \/ SpiDisconnect \/ Engine \/ DeadlinePasses
  PROVE  UNCHANGED <<device, worker, starter, mapped>>
  <1> USE DEF device, Rest, Outside, progress
  <1>1. CASE Isr \/ Dpc \/ SpiConnect \/ SpiDisconnect
    BY <1>1 DEF Isr, Dpc, SpiConnect, SpiDisconnect
  <1>2. CASE Engine \/ DeadlinePasses
    BY <1>2 DEF Engine, ShiftIn, ShiftOut, EngineFails, DeadlinePasses
  <1> QED BY <1>1, <1>2

LEMMA ClockStep == ClockInv /\ HandoffInv /\ [Next]_vars => ClockInv'
  <1> SUFFICES ASSUME ClockInv, HandoffInv, [Next]_vars PROVE ClockInv'
    OBVIOUS
  <1>6. CASE (\E p \in Plans : Begin(p)) \/ Starter
    BY <1>6, ClockBegins
  <1>1. CASE AskCancel \/ Canceler \/ Publish \/ Unmark \/ Handoff
    BY <1>1, ClockRequests, ClockUnchanged
  <1>2. CASE (Worker \/ LoopTimeout) /\ ~(Publish \/ Unmark \/ Handoff)
    BY <1>2, WorkerSteps, ClockUnchanged DEF Worker, Finish
  <1>3. CASE Start \/ Stop
    BY <1>3, ClockPower
  <1>4. CASE Isr \/ Dpc \/ SpiConnect \/ SpiDisconnect \/ Engine \/ DeadlinePasses
    BY <1>4, ClockOutside, ClockUnchanged
  <1>5. CASE UNCHANGED vars
    BY <1>5, ClockUnchanged DEF vars, progress
  <1> QED
    BY <1>1, <1>2, <1>3, <1>4, <1>5, <1>6 DEF Next, Worker, Finish

\* The worker is at the engine only while the clock is on, and the address that Begin copied
\* is still that of a mapping, wherever Release, Prepare, D0Entry and D0Exit come (I2cStop's
\* flush of the work item, the check of Online in Begin; external: the stop of the queue).
THEOREM EngineIsClockedHolds == Spec => []EngineIsClocked
  <1>1. ClockInv => EngineIsClocked
    BY DEF ClockInv, EngineIsClocked, AtEngine, Taken
  <1>2. Init => ClockInv /\ HandoffInv
    BY ClockInit, HandoffInit
  <1>3. ClockInv /\ HandoffInv /\ [Next]_vars => (ClockInv /\ HandoffInv)'
    BY ClockStep, HandoffStep
  <1> QED
    BY <1>1, <1>2, <1>3, PTL DEF Spec
-------------------------------------------------------------------------------
(* What is in the FIFOs.                                                     *)

\* The loop in which the worker feeds the FIFOs and sleeps, and the steps at which it may
\* have left the engine at work.
Looping == {"clear", "check in loop", "lock", "raw", "drain", "fill", "sleep"}
Feeding == Looping \union {"quiet", "down"}

\* What comes before it.
Ahead == {"entry", "check", "prepare", "disable", "select"}

\* The first byte in the engine: the one under way, or the next one.
First == sent - Len(txf) + (IF shift = 0 THEN 1 ELSE 0)

\* The bytes in the engine are the last ones sent, in order.
InLine ==
  /\ bus \in {"i2c", "spi"} /\ plan \in Seq(BOOLEAN)
  /\ sent \in Nat /\ inbox \in Seq(Nat) /\ txf \in Seq(Nat) /\ rxf \in Seq(Nat) /\ shift \in Nat
  /\ sent <= Len(plan) /\ Len(txf) <= sent
  /\ \A k \in 1..Len(txf) : txf[k] = sent - Len(txf) + k
  /\ shift # 0 => shift = sent - Len(txf)

\* Every byte that comes back is counted where it is, unless I2C flushed it.
Seen == Len(inbox) + Len(rxf) + Cardinality(Coming)

Counted ==
  /\ Seen <= Cardinality(Wanted(sent))
  /\ "abort" \notin raw => Seen = Cardinality(Wanted(sent))

\* There is room for all that come back; an engine that is off, or that nobody feeds, has
\* nothing to send; and while it is fed it is on, and no byte is forgotten.
FifoInv ==
  /\ InLine
  /\ ~enabled => txf = <<>> /\ shift = 0 /\ rxf = <<>>
  /\ worker \notin Feeding => txf = <<>> /\ shift = 0
  /\ starter # "none" \/ worker \in Ahead => sent = 0 /\ inbox = <<>>
  /\ worker = "select" => bus = "spi" /\ ~enabled
  /\ Len(rxf) + Cardinality(Coming) <= Depth
  /\ worker \in Looping => enabled /\ Counted

\* The bytes of an interval that come back; they are finitely many, and those of the
\* first part of an interval and those of its rest are all of them.
WantedIn(m, n) == {k \in m..n : Reads(k)}

LEMMA WantedIsFinite ==
  ASSUME NEW m \in Int, NEW n \in Int
  PROVE  IsFiniteSet(WantedIn(m, n)) /\ Cardinality(WantedIn(m, n)) \in Nat
  BY FS_Interval, FS_Subset, FS_CardinalityType DEF WantedIn

LEMMA WantedMore ==
  ASSUME NEW l \in Int, NEW m \in Int, NEW n \in Int, l <= m + 1, m <= n
  PROVE  Cardinality(WantedIn(l, n))
           = Cardinality(WantedIn(l, m)) + Cardinality(WantedIn(m + 1, n))
  <1> DEFINE S == WantedIn(l, m)
             T == WantedIn(m + 1, n)
             ST == WantedIn(l, n)
  <1>1. IsFiniteSet(S) /\ IsFiniteSet(T) /\ Cardinality(S) \in Nat /\ Cardinality(T) \in Nat
    BY WantedIsFinite
  <1>2. S \intersect T = {}
    BY DEF WantedIn
  <1>3. S \union T = ST
    BY DEF WantedIn
  <1> HIDE DEF S, T, ST
  <1>4. Cardinality(S \union T)
          = Cardinality(S) + Cardinality(T) - Cardinality(S \intersect T)
    BY <1>1, FS_Union
  <1>5. Cardinality(S \intersect T) = 0
    BY <1>2, FS_EmptySet
  <1>6. Cardinality(ST) = Cardinality(S \union T)
    BY <1>3
  <1>7. Cardinality(S \union T) = Cardinality(S) + Cardinality(T) - 0
    BY <1>4, <1>5
  <1>8. Cardinality(ST) = Cardinality(S) + Cardinality(T)
    BY <1>1, <1>6, <1>7
  <1> QED
    BY <1>8 DEF S, T, ST

\* So what will come back is an interval's part.
ComesInLine ==
  /\ First \in 1..(sent + 1) /\ Len(txf) \in Nat
  /\ Coming = WantedIn(First, sent)

LEMMA ComingIsInLine == InLine => ComesInLine
  <1> SUFFICES ASSUME InLine PROVE ComesInLine
    OBVIOUS
  <1>1. /\ sent \in Nat /\ txf \in Seq(Nat) /\ Len(txf) \in Nat /\ Len(txf) <= sent
        /\ shift \in Nat /\ (shift # 0 => shift = sent - Len(txf))
    BY DEF InLine
  <1>2. First \in 1..(sent + 1)
    BY <1>1 DEF First
  <1>3. Elements(txf) = (sent - Len(txf) + 1)..sent
    <2>1. ASSUME NEW x \in Elements(txf) PROVE x \in (sent - Len(txf) + 1)..sent
      BY <1>1, <2>1 DEF InLine, Elements
    <2>2. ASSUME NEW x \in (sent - Len(txf) + 1)..sent PROVE x \in Elements(txf)
      <3> DEFINE i == x - (sent - Len(txf))
      <3>1. i \in 1..Len(txf) /\ x = sent - Len(txf) + i
        BY <1>1
      <3>2. txf[i] = sent - Len(txf) + i
        BY <3>1 DEF InLine
      <3> QED BY <3>1, <3>2 DEF Elements
    <2> QED BY <2>1, <2>2
  <1>4. {k \in Elements(txf) \union {shift} : k # 0} = First..sent
    <2>1. CASE shift = 0
      BY <1>1, <1>3, <2>1 DEF First
    <2>2. CASE shift # 0
      <3>1. {shift} \union ((shift + 1)..sent) = shift..sent
        BY <1>1, <2>2
      <3> QED BY <1>1, <1>3, <2>2, <3>1 DEF First
    <2> QED BY <2>1, <2>2
  <1>5. Coming = WantedIn(First, sent)
    BY <1>4 DEF Coming, WantedIn
  <1> QED BY <1>1, <1>2, <1>5 DEF ComesInLine

fifoData == <<bus, plan, sent, inbox, enabled, txf, shift, rxf>>

\* Who leaves the FIFOs and the progress alone keeps the invariant, unless he begins to
\* feed the engine or stops before it has nothing to send.
LEMMA FifoUnchanged ==
  ASSUME FifoInv, UNCHANGED fifoData,
         worker' \in Feeding \/ worker \notin Feeding,
         worker' \in Looping => worker \in Looping /\ ("abort" \in raw => "abort" \in raw'),
         starter' # "none" \/ worker' \in Ahead => starter # "none" \/ worker \in Ahead,
         worker' = "select" => worker = "select"
  PROVE  FifoInv'
  <1>1. Coming' = Coming /\ Wanted(sent)' = Wanted(sent)
    BY DEF fifoData, Coming, Elements, Wanted, Reads
  <1>2. InLine'
    BY DEF FifoInv, InLine, fifoData
  <1>3. Seen' = Seen /\ (worker' \in Looping => enabled' /\ Counted')
    BY <1>1 DEF FifoInv, fifoData, Seen, Counted
  <1> QED
    BY <1>1, <1>2, <1>3 DEF FifoInv, fifoData

LEMMA FifoInit == Init => FifoInv
  <1> SUFFICES ASSUME Init PROVE FifoInv
    OBVIOUS
  <1>1. InLine
    BY DEF Init, InLine
  <1>2. Coming = {}
    BY DEF Init, Coming, Elements
  <1>3. Len(rxf) = 0 /\ Cardinality(Coming) = 0 /\ 0 <= Depth
    BY <1>2, FS_EmptySet, SpbAssumption DEF Init
  <1> QED
    BY <1>1, <1>3 DEF Init, FifoInv, Feeding, Looping, Ahead

\* A FIFO that is empty has nothing to come, whatever the request is.
LEMMA NothingComes ==
  ASSUME txf = <<>>, shift = 0
  PROVE  Coming = {} /\ Cardinality(Coming) = 0
  BY FS_EmptySet DEF Coming, Elements

LEMMA NothingWillCome ==
  ASSUME txf' = <<>>, shift' = 0
  PROVE  Coming' = {} /\ Cardinality(Coming') = 0
  BY FS_EmptySet DEF Coming, Elements

\* Flushing the engine leaves room (Disable).
LEMMA FifoFlushed ==
  ASSUME FifoInv, txf' = <<>>, shift' = 0, Len(rxf') <= Depth, rxf' \in Seq(Nat),
         UNCHANGED <<bus, plan, sent, inbox, starter>>,
         ~enabled' => rxf' = <<>>,
         worker' \in Looping => worker \in Ahead /\ enabled' = TRUE /\ rxf' = <<>>,
         worker' \in Ahead => worker \in Ahead,
         worker' = "select" => bus = "spi" /\ ~enabled'
  PROVE  FifoInv'
  <1>1. Cardinality(Coming') = 0
    BY NothingWillCome
  <1>2. InLine'
    BY DEF FifoInv, InLine
  <1>3. ASSUME worker' \in Looping PROVE Counted'
    <2>1. sent = 0 /\ inbox = <<>> /\ sent' = 0 /\ inbox' = <<>> /\ rxf' = <<>>
      BY <1>3 DEF FifoInv
    <2>2. Wanted(sent)' = {}
      BY <2>1 DEF Wanted
    <2>3. Cardinality(Wanted(sent)') = 0
      BY <2>2, FS_EmptySet
    <2>4. Seen' = 0
      BY <1>1, <2>1 DEF Seen
    <2> QED BY <2>3, <2>4 DEF Counted
  <1> QED
    BY <1>1, <1>2, <1>3 DEF FifoInv

\* A request begins while nobody feeds the engine (SpbBegin).
LEMMA FifoBegins ==
  ASSUME FifoInv, HandoffInv, NEW p \in Plans, Begin(p)
  PROVE  FifoInv'
  <1>1. worker = "idle" /\ txf = <<>> /\ shift = 0
    BY DEF Begin, HandoffInv, FifoInv, Feeding, Looping
  <1>2. /\ plan' = p /\ sent' = 0 /\ inbox' = <<>>
        /\ UNCHANGED <<bus, worker, enabled, txf, shift, rxf>>
    BY DEF Begin, hw, fifos
  <1>3. Cardinality(Coming') = 0 /\ Cardinality(Coming) = 0
    BY <1>1, <1>2, NothingWillCome, NothingComes
  <1>4. p \in Seq(BOOLEAN)
    BY SpbAssumption
  <1>5. InLine'
    BY <1>1, <1>2, <1>4 DEF FifoInv, InLine
  <1>6. worker' \notin Looping /\ worker' # "select"
    BY <1>1, <1>2 DEF Looping
  <1> QED
    BY <1>1, <1>2, <1>3, <1>5, <1>6 DEF FifoInv

\* A byte enters the shifter (the engine).
LEMMA FifoShiftsIn == ASSUME FifoInv, ShiftIn PROVE FifoInv'
  <1>1. /\ shift = 0 /\ txf # <<>> /\ shift' = Head(txf) /\ txf' = Tail(txf) /\ enabled
        /\ UNCHANGED <<bus, plan, sent, inbox, enabled, rxf, raw, worker, starter>>
    BY DEF ShiftIn, Outside, request
  <1>2. /\ shift' = txf[1] /\ shift' = sent - Len(txf) + 1 /\ Len(txf') = Len(txf) - 1
        /\ Len(txf) \in Nat /\ Len(txf) > 0 /\ txf' \in Seq(Nat)
        /\ \A k \in 1..Len(txf') : txf'[k] = txf[k + 1]
    BY <1>1 DEF FifoInv, InLine
  <1>3. InLine'
    <2>1. \A k \in 1..Len(txf') : txf'[k] = sent' - Len(txf') + k
      BY <1>1, <1>2 DEF FifoInv, InLine
    <2>2. shift' \in Nat /\ shift' = sent' - Len(txf') /\ Len(txf') <= sent'
      BY <1>1, <1>2 DEF FifoInv, InLine
    <2> QED BY <1>1, <1>2, <2>1, <2>2 DEF FifoInv, InLine
  <1>4. First' = First
    BY <1>1, <1>2 DEF First, FifoInv, InLine
  <1>5. Coming' = Coming /\ Wanted(sent)' = Wanted(sent)
    <2>1. InLine' => ComesInLine'
      BY ComingIsInLine, PTL
    <2>2. ComesInLine
      BY ComingIsInLine DEF FifoInv
    <2> QED BY <1>1, <1>3, <1>4, <2>1, <2>2 DEF ComesInLine, WantedIn, Reads, Wanted
  <1>6. Seen' = Seen /\ (Counted => Counted')
    BY <1>1, <1>5 DEF Seen, Counted
  <1>7. worker \in Feeding
    BY <1>1 DEF FifoInv
  <1> QED
    BY <1>1, <1>3, <1>5, <1>6, <1>7 DEF FifoInv

\* The counts are numbers.
CountsAreNumbers ==
  /\ IsFiniteSet(Coming) /\ Cardinality(Coming) \in Nat
  /\ IsFiniteSet(Wanted(sent)) /\ Cardinality(Wanted(sent)) \in Nat
  /\ Len(inbox) \in Nat /\ Len(rxf) \in Nat

LEMMA Counts == InLine => CountsAreNumbers
  <1> SUFFICES ASSUME InLine PROVE CountsAreNumbers
    OBVIOUS
  <1>1. sent \in Int /\ First \in Int /\ Len(inbox) \in Nat /\ Len(rxf) \in Nat
    BY ComingIsInLine DEF InLine, ComesInLine
  <1>2. IsFiniteSet(Coming) /\ Cardinality(Coming) \in Nat
    BY <1>1, WantedIsFinite, ComingIsInLine DEF ComesInLine
  <1>3. IsFiniteSet(Wanted(sent)) /\ Cardinality(Wanted(sent)) \in Nat
    BY <1>1, WantedIsFinite DEF Wanted, WantedIn
  <1> QED BY <1>1, <1>2, <1>3 DEF CountsAreNumbers

\* A byte leaves the shifter, and finds room when it comes back.
LEMMA FifoShiftsOut == ASSUME FifoInv, ShiftOut PROVE FifoInv'
  <1>1. /\ enabled /\ shift # 0 /\ shift' = 0
        /\ UNCHANGED <<bus, plan, sent, inbox, enabled, txf, worker, starter>>
        /\ rxf' = IF Reads(shift) /\ Len(rxf) < Depth THEN Append(rxf, shift) ELSE rxf
        /\ "abort" \in raw' <=> "abort" \in raw
    BY DEF ShiftOut, Outside, request
  <1>2. InLine /\ shift \in Nat /\ sent \in Nat /\ Len(txf) \in Nat /\ shift = sent - Len(txf)
    BY <1>1 DEF FifoInv, InLine
  <1>3. First = shift /\ First' = shift + 1
    BY <1>1, <1>2 DEF First
  <1>4. InLine'
    BY <1>1, <1>2 DEF InLine
  <1>5. ComesInLine /\ ComesInLine' /\ CountsAreNumbers /\ CountsAreNumbers'
    BY <1>2, <1>4, ComingIsInLine, Counts, PTL
  <1>6. Coming = {k \in shift..sent : Reads(k)} /\ Coming' = {k \in (shift + 1)..sent : Reads(k)}
        /\ Wanted(sent)' = Wanted(sent)
    BY <1>1, <1>3, <1>5 DEF ComesInLine, WantedIn, Reads, Wanted
  <1>7. Coming' = Coming \ {shift} /\ (shift \in Coming <=> Reads(shift))
    BY <1>1, <1>2, <1>6
  <1>8. Cardinality(Coming') = Cardinality(Coming) - (IF Reads(shift) THEN 1 ELSE 0)
    BY <1>5, <1>7, FS_RemoveElement DEF CountsAreNumbers
  <1>9. Reads(shift) => Len(rxf) < Depth
    BY <1>5, <1>8, SpbAssumption DEF CountsAreNumbers, FifoInv
  <1>10. Len(rxf') = Len(rxf) + (IF Reads(shift) THEN 1 ELSE 0)
    BY <1>1, <1>2, <1>9 DEF InLine
  <1>11. Len(rxf') + Cardinality(Coming') = Len(rxf) + Cardinality(Coming) /\ Seen' = Seen
    <2>1. /\ Cardinality(Coming) \in Nat /\ Cardinality(Coming') \in Nat
          /\ Len(inbox) \in Nat /\ Len(rxf) \in Nat /\ Len(rxf') \in Nat
      BY <1>5 DEF CountsAreNumbers
    <2>2. Len(rxf') + Cardinality(Coming') = Len(rxf) + Cardinality(Coming)
      BY <1>8, <1>10, <2>1
    <2> QED
      BY <1>1, <2>1, <2>2 DEF Seen
  <1>12. Counted => Counted'
    BY <1>1, <1>6, <1>11 DEF Counted
  <1>13. worker \in Feeding
    BY <1>1 DEF FifoInv
  <1> QED
    BY <1>1, <1>4, <1>11, <1>12, <1>13 DEF FifoInv

\* Nobody answers, or the receiver overruns: what I2C flushes is not waited for any more.
LEMMA FifoFails == ASSUME FifoInv, EngineFails PROVE FifoInv'
  <1>1. /\ enabled /\ shift # 0
        /\ UNCHANGED <<bus, plan, sent, inbox, enabled, rxf, worker, starter>>
    BY DEF EngineFails, Outside, request
  <1>2. worker \in Feeding
    BY <1>1 DEF FifoInv
  <1>3. CASE UNCHANGED <<shift, txf>> /\ raw' = raw \union {"error"}
    <2>1. UNCHANGED fifoData /\ ("abort" \in raw => "abort" \in raw')
      BY <1>1, <1>3 DEF fifoData
    <2>2. worker' = worker /\ starter' = starter
      BY <1>1
    <2> QED
      BY <1>2, <2>1, <2>2, FifoUnchanged
  <1>4. CASE shift' = 0 /\ txf' = <<>> /\ raw' = raw \union {"abort", "stop"}
    <2>1. Cardinality(Coming') = 0
      BY <1>4, NothingWillCome
    <2>2. InLine'
      BY <1>1, <1>4 DEF FifoInv, InLine
    <2>3. CountsAreNumbers /\ CountsAreNumbers'
      BY <2>2, Counts, PTL DEF FifoInv
    <2>4. Wanted(sent)' = Wanted(sent)
      BY <1>1 DEF Wanted, Reads
    <2>5. Seen' <= Seen /\ Len(rxf') + Cardinality(Coming') <= Len(rxf) + Cardinality(Coming)
      BY <1>1, <2>1, <2>3 DEF Seen, CountsAreNumbers
    <2>6. "abort" \in raw'
      BY <1>4
    <2>7. Counted => Counted'
      BY <2>3, <2>4, <2>5, <2>6, <2>1, <1>1 DEF Counted, Seen, CountsAreNumbers
    <2>8. Len(rxf') + Cardinality(Coming') <= Depth
      BY <2>1, <2>3, <2>5, SpbAssumption DEF FifoInv, CountsAreNumbers
    <2> QED
      BY <1>1, <1>2, <1>4, <2>2, <2>7, <2>8 DEF FifoInv
  <1> QED
    BY <1>3, <1>4 DEF EngineFails

\* The receive FIFO is read (I2cPump, SpiPump).
LEMMA FifoDrains == ASSUME FifoInv, HandoffInv, PumpDrain PROVE FifoInv'
  <1>1. /\ worker = "drain" /\ worker' \in {"quiet", "fill", "sleep"}
        /\ UNCHANGED <<bus, plan, sent, enabled, txf, shift, raw, starter>>
        /\ \/ inbox' = inbox /\ rxf' = rxf /\ worker' = "quiet"
           \/ inbox' = inbox \o rxf /\ rxf' = <<>>
    BY DEF PumpDrain, Unlock, Goes, Goto, Other
  <1>2. worker \in Looping /\ worker' \in Feeding /\ worker' \notin Ahead /\ starter' = "none"
    BY <1>1 DEF Looping, Feeding, Ahead, HandoffInv, HandoffTypes
  <1>3. CASE inbox' = inbox /\ rxf' = rxf /\ worker' = "quiet"
    <2>1. UNCHANGED fifoData
      BY <1>1, <1>3 DEF fifoData
    <2>2. worker' # "select"
      BY <1>3
    <2> QED
      BY <1>1, <1>2, <2>1, <2>2, FifoUnchanged
  <1>4. CASE inbox' = inbox \o rxf /\ rxf' = <<>>
    <2>1. InLine'
      BY <1>1, <1>4 DEF FifoInv, InLine
    <2>2. Coming' = Coming /\ Wanted(sent)' = Wanted(sent)
      BY <1>1 DEF Coming, Elements, Wanted, Reads
    <2>3. Len(inbox') = Len(inbox) + Len(rxf) /\ Len(rxf') = 0
      BY <1>4 DEF FifoInv, InLine
    <2>4. CountsAreNumbers
      BY Counts DEF FifoInv
    <2>5. Seen' = Seen
      BY <2>2, <2>3, <2>4 DEF Seen, CountsAreNumbers
    <2>6. Counted'
      BY <1>1, <1>2, <2>2, <2>5 DEF FifoInv, Counted
    <2>7. Len(rxf') + Cardinality(Coming') <= Depth
      BY <2>2, <2>3, <2>4, SpbAssumption DEF FifoInv, CountsAreNumbers
    <2>8. worker' # "select" /\ enabled'
      BY <1>1, <1>2 DEF FifoInv
    <2> QED
      BY <1>1, <1>2, <2>1, <2>6, <2>7, <2>8 DEF FifoInv
  <1> QED BY <1>1, <1>3, <1>4

\* Bytes are sent as far as both FIFOs have room (I2cPump, SpiPump).
LEMMA FifoFills == ASSUME FifoInv, HandoffInv, PumpFill PROVE FifoInv'
  <1>1. PICK n \in 0..Depth : Fits(n) /\ sent' = sent + n
                              /\ txf' = txf \o [k \in 1..n |-> sent + k]
    BY DEF PumpFill
  <1>2. /\ worker = "fill" /\ worker' = "sleep"
        /\ UNCHANGED <<bus, plan, inbox, enabled, rxf, shift, raw, starter>>
    BY DEF PumpFill, Unlock, Goto, Other
  <1>3. worker \in Looping /\ worker' \in Feeding /\ worker' \notin Ahead /\ starter' = "none"
    BY <1>2 DEF Looping, Feeding, Ahead, HandoffInv, HandoffTypes
  <1>4. n \in Nat /\ sent \in Nat /\ Len(txf) \in Nat /\ txf \in Seq(Nat)
    BY SpbAssumption DEF FifoInv, InLine
  <1>5. InLine' /\ First' = First
    <2>1. txf' \in Seq(Nat) /\ Len(txf') = Len(txf) + n
      BY <1>1, <1>4
    <2>2. ASSUME NEW k \in 1..Len(txf') PROVE txf'[k] = sent' - Len(txf') + k
      <3>1. CASE k <= Len(txf)
        <4>1. txf'[k] = txf[k] /\ k \in 1..Len(txf)
          BY <1>1, <1>4, <2>1, <3>1
        <4> QED BY <1>1, <1>4, <2>1, <4>1 DEF FifoInv, InLine
      <3>2. CASE k > Len(txf)
        <4>1. k - Len(txf) \in 1..n
          BY <1>4, <2>1, <3>2
        <4>2. txf'[k] = sent + (k - Len(txf))
          BY <1>1, <1>4, <2>1, <3>2, <4>1
        <4> QED BY <1>1, <1>4, <2>1, <4>2
      <3> QED BY <1>4, <2>1, <3>1, <3>2
    <2>3. sent' <= Len(plan') /\ Len(txf') <= sent' /\ sent' - Len(txf') = sent - Len(txf)
      BY <1>1, <1>2, <1>4, <2>1 DEF Fits, FifoInv, InLine
    <2>4. /\ bus' \in {"i2c", "spi"} /\ plan' \in Seq(BOOLEAN)
          /\ sent' \in Nat /\ inbox' \in Seq(Nat) /\ rxf' \in Seq(Nat) /\ shift' \in Nat
      BY <1>1, <1>2, <1>4 DEF FifoInv, InLine
    <2>5. shift' # 0 => shift' = sent' - Len(txf')
      BY <1>2, <2>3 DEF FifoInv, InLine
    <2>6. InLine'
      BY <2>1, <2>2, <2>3, <2>4, <2>5 DEF InLine
    <2>7. First' = First
      BY <1>2, <2>3 DEF First
    <2> QED BY <2>6, <2>7
  <1>6. ComesInLine /\ ComesInLine' /\ CountsAreNumbers /\ CountsAreNumbers'
    BY <1>5, ComingIsInLine, Counts, PTL DEF FifoInv
  <1> DEFINE new == Cardinality(WantedIn(sent + 1, sent + n))
  <1>7. sent + 1 \in Int /\ sent + n \in Int /\ new \in Nat
    <2>1. sent + 1 \in Int /\ sent + n \in Int
      BY <1>4
    <2> QED BY <2>1, WantedIsFinite
  <1>8. Cardinality(Coming') = Cardinality(Coming) + new
    <2>1. Coming' = WantedIn(First, sent + n)
      BY <1>1, <1>2, <1>5, <1>6 DEF ComesInLine, WantedIn, Reads
    <2>2. First \in Int /\ First <= sent + 1 /\ sent <= sent + n
      BY <1>4, <1>6 DEF ComesInLine
    <2>3. Cardinality(WantedIn(First, sent + n)) = Cardinality(WantedIn(First, sent)) + new
      BY <1>4, <1>7, <2>2, WantedMore
    <2> QED BY <1>6, <2>1, <2>3 DEF ComesInLine
  <1>9. Cardinality(Wanted(sent + n)) = Cardinality(Wanted(sent)) + new
    <2>1. 1 <= sent + 1 /\ sent <= sent + n
      BY <1>4
    <2>2. Cardinality(WantedIn(1, sent + n)) = Cardinality(WantedIn(1, sent)) + new
      BY <1>4, <1>7, <2>1, WantedMore
    <2> QED BY <2>2 DEF Wanted, WantedIn
  <1>10. Wanted(sent)' = Wanted(sent + n)
    BY <1>1, <1>2 DEF Wanted, Reads
  <1> HIDE DEF new
  <1>11. Seen' = Seen + new
    BY <1>2, <1>6, <1>7, <1>8 DEF Seen, CountsAreNumbers
  <1>12. Counted'
    <2>1. Counted
      BY <1>3 DEF FifoInv
    <2>2. Seen \in Nat /\ Cardinality(Wanted(sent)) \in Nat
      BY <1>6 DEF Seen, CountsAreNumbers
    <2> QED BY <1>2, <1>7, <1>9, <1>10, <1>11, <2>1, <2>2 DEF Counted
  <1>13. Len(rxf') + Cardinality(Coming') <= Depth
    <2>1. Cardinality(Wanted(sent + n)) - Len(inbox) <= Depth
      BY <1>1 DEF Fits, Missing
    <2>2. Len(inbox) + Len(rxf) + Cardinality(Coming) <= Cardinality(Wanted(sent))
      BY <1>3 DEF FifoInv, Counted, Seen
    <2>3. /\ Len(inbox) \in Nat /\ Len(rxf) \in Nat /\ Cardinality(Coming) \in Nat
          /\ Cardinality(Wanted(sent)) \in Nat /\ Depth \in Nat
      BY <1>6, SpbAssumption DEF CountsAreNumbers
    <2> QED BY <1>2, <1>7, <1>8, <1>9, <2>1, <2>2, <2>3
  <1>14. worker' # "select" /\ enabled'
    BY <1>2, <1>3 DEF FifoInv
  <1> QED
    BY <1>2, <1>3, <1>5, <1>12, <1>13, <1>14 DEF FifoInv

LEMMA RoomKept ==
  ASSUME FifoInv, rxf' = rxf \/ rxf' = <<>>
  PROVE  Len(rxf') <= Depth /\ rxf' \in Seq(Nat)
  <1>1. CASE rxf' = rxf
    <2>1. CountsAreNumbers /\ rxf \in Seq(Nat)
      BY Counts DEF FifoInv, InLine
    <2> QED BY <1>1, <2>1, SpbAssumption DEF FifoInv, CountsAreNumbers
  <1>2. CASE rxf' = <<>>
    BY <1>2, SpbAssumption
  <1> QED BY <1>1, <1>2

\* The engine is switched on and off.
LEMMA FifoSwitches ==
  ASSUME FifoInv, HandoffInv, WorkerDisable \/ WorkerSelect \/ FinishDisable \/ StopEngine
  PROVE  FifoInv'
  <1> USE DEF Goto, Other
  <1>1. CASE WorkerDisable
    <2>1. /\ worker = "disable" /\ txf' = <<>> /\ shift' = 0
          /\ UNCHANGED <<bus, plan, sent, inbox, starter>>
          /\ \/ rxf' = rxf /\ enabled /\ enabled' = enabled /\ worker' = "quiet"
             \/ /\ rxf' = <<>> /\ worker' = (IF bus = "i2c" THEN "clear" ELSE "select")
                /\ enabled' = (bus = "i2c")
      BY <1>1 DEF WorkerDisable, DisableFails, progress
    <2>2. bus \in {"i2c", "spi"}
      BY DEF FifoInv, InLine
    <2>3. (rxf' = rxf \/ rxf' = <<>>) /\ (~enabled' => rxf' = <<>>)
      BY <2>1, <2>2
    <2>4. /\ worker' \in Looping => worker \in Ahead /\ enabled' = TRUE /\ rxf' = <<>>
          /\ worker' \in Ahead => worker \in Ahead
          /\ worker' = "select" => bus = "spi" /\ ~enabled'
      BY <2>1, <2>2 DEF Looping, Ahead
    <2>5. txf' = <<>> /\ shift' = 0 /\ UNCHANGED <<bus, plan, sent, inbox, starter>>
      BY <2>1, <2>2
    <2> QED BY <2>3, <2>4, <2>5, RoomKept, FifoFlushed
  <1>2. CASE WorkerSelect
    <2>1. /\ worker = "select" /\ UNCHANGED <<bus, plan, sent, inbox, starter, txf, shift, rxf>>
          /\ \/ worker' = "clear" /\ enabled' = TRUE
             \/ worker' = "quiet" /\ enabled' = enabled
      BY <1>2 DEF WorkerSelect, progress
    <2>2. txf = <<>> /\ shift = 0 /\ rxf = <<>>
      BY <2>1 DEF FifoInv
    <2>3. (rxf' = rxf \/ rxf' = <<>>) /\ (~enabled' => rxf' = <<>>)
      BY <2>1, <2>2
    <2>4. /\ worker' \in Looping => worker \in Ahead /\ enabled' = TRUE /\ rxf' = <<>>
          /\ worker' \in Ahead => worker \in Ahead
          /\ worker' = "select" => bus = "spi" /\ ~enabled'
      BY <2>1, <2>2 DEF Looping, Ahead
    <2>5. txf' = <<>> /\ shift' = 0 /\ UNCHANGED <<bus, plan, sent, inbox, starter>>
      BY <2>1, <2>2
    <2> QED BY <2>3, <2>4, <2>5, RoomKept, FifoFlushed
  <1>3. CASE FinishDisable
    <2>1. /\ worker = "down" /\ txf' = <<>> /\ shift' = 0
          /\ UNCHANGED <<bus, plan, sent, inbox, starter>>
          /\ worker' \in {"deselect", "copy"}
          /\ \/ rxf' = rxf /\ enabled /\ enabled' = enabled
             \/ rxf' = <<>> /\ enabled' = FALSE
      BY <1>3 DEF FinishDisable, DisableFails, Off, progress
    <2>3. (rxf' = rxf \/ rxf' = <<>>) /\ (~enabled' => rxf' = <<>>)
      BY <2>1
    <2>4. /\ worker' \in Looping => worker \in Ahead /\ enabled' = TRUE /\ rxf' = <<>>
          /\ worker' \in Ahead => worker \in Ahead
          /\ worker' = "select" => bus = "spi" /\ ~enabled'
      BY <2>1 DEF Looping, Ahead
    <2>5. txf' = <<>> /\ shift' = 0 /\ UNCHANGED <<bus, plan, sent, inbox, starter>>
      BY <2>1
    <2> QED BY <2>3, <2>4, <2>5, RoomKept, FifoFlushed
  <1>4. CASE StopEngine
    <2>1. /\ worker = "idle" /\ worker' = "idle" /\ txf' = <<>> /\ shift' = 0
          /\ UNCHANGED <<bus, plan, sent, inbox, starter>>
          /\ \/ rxf' = rxf /\ enabled /\ enabled' = enabled
             \/ rxf' = <<>> /\ enabled' = FALSE
      BY <1>4 DEF StopEngine, Flushed, DisableFails, Off, progress, Rest, request
    <2>3. (rxf' = rxf \/ rxf' = <<>>) /\ (~enabled' => rxf' = <<>>)
      BY <2>1
    <2>4. /\ worker' \in Looping => worker \in Ahead /\ enabled' = TRUE /\ rxf' = <<>>
          /\ worker' \in Ahead => worker \in Ahead
          /\ worker' = "select" => bus = "spi" /\ ~enabled'
      BY <2>1 DEF Looping, Ahead
    <2>5. txf' = <<>> /\ shift' = 0 /\ UNCHANGED <<bus, plan, sent, inbox, starter>>
      BY <2>1
    <2> QED BY <2>3, <2>4, <2>5, RoomKept, FifoFlushed
  <1> QED BY <1>1, <1>2, <1>3, <1>4

\* Whoever else moves does not touch them, nor their place in the transfer.
LEMMA FifoQuiet ==
  ASSUME HandoffInv,
         \/ Starter \/ AskCancel \/ Canceler
         \/ WorkerEntry \/ WorkerCheck \/ WorkerPrepare
         \/ LoopClear \/ LoopCheck \/ LoopLock \/ PumpRaw \/ LoopWoken \/ LoopTimeout
         \/ FinishMask \/ FinishDeselect \/ FinishCopy \/ Publish \/ Unmark \/ Handoff
         \/ Isr \/ Dpc \/ Start \/ (Stop /\ ~StopEngine) \/ SpiConnect \/ SpiDisconnect
         \/ DeadlinePasses \/ UNCHANGED vars
  PROVE  /\ UNCHANGED fifoData
         /\ worker' \in Feeding \/ worker \notin Feeding
         /\ worker' \in Looping => worker \in Looping /\ ("abort" \in raw => "abort" \in raw')
         /\ starter' # "none" \/ worker' \in Ahead => starter # "none" \/ worker \in Ahead
         /\ worker' = "select" => worker = "select"
  <1> USE DEF fifoData, Looping, Feeding, Ahead, request, progress, hw, fifos
  <1>1. CASE Starter
    <2>1. CASE BeginCheck \/ BeginMark
      BY <2>1 DEF BeginCheck, BeginMark
    <2>2. CASE BeginEnqueue
      <3>1. worker = "idle"
        BY <2>2 DEF BeginEnqueue, HandoffInv, HandoffTypes
      <3> QED BY <2>2, <3>1 DEF BeginEnqueue
    <2> QED BY <1>1, <2>1, <2>2 DEF Starter
  <1>2. CASE AskCancel \/ Canceler
    BY <1>2 DEF AskCancel, Canceler, CancelFlag, CancelWake, CancelHandoff
  <1>3. CASE WorkerEntry \/ WorkerCheck \/ WorkerPrepare
    BY <1>3 DEF WorkerEntry, WorkerCheck, WorkerPrepare, MaskAll, Goto, Other
  <1>4. CASE LoopClear \/ LoopCheck \/ LoopLock \/ LoopWoken \/ LoopTimeout
    BY <1>4 DEF LoopClear, LoopCheck, LoopLock, LoopWoken, LoopTimeout, Goto, Other
  <1>5. CASE PumpRaw
    <2>1. /\ UNCHANGED fifoData /\ worker = "raw" /\ worker' \in {"quiet", "drain"}
          /\ starter' = starter /\ (worker' = "drain" => "abort" \notin raw)
      BY <1>5 DEF PumpRaw, Unlock, Goes, Goto, Other
    <2> QED BY <2>1
  <1>6. CASE FinishMask \/ FinishDeselect \/ FinishCopy \/ Publish \/ Unmark \/ Handoff
    BY <1>6 DEF FinishMask, FinishDeselect, FinishCopy, Publish, Unmark, Handoff, MaskAll,
                Goto, Other
  <1>7. CASE Isr \/ Dpc \/ SpiConnect \/ SpiDisconnect \/ DeadlinePasses \/ UNCHANGED vars
    BY <1>7 DEF Isr, Dpc, SpiConnect, SpiDisconnect, DeadlinePasses, vars, Rest, Outside
  <1>8. CASE Start \/ (Stop /\ ~StopEngine)
    BY <1>8 DEF Start, Prepare, Release, StartClock, StartRoute, InterruptEnable,
                Stop, InterruptDisable, StopWake, StopRoute, StopClock, Rest
  <1> QED
    BY <1>1, <1>2, <1>3, <1>4, <1>5, <1>6, <1>7, <1>8

LEMMA FifoStep == FifoInv /\ HandoffInv /\ [Next]_vars => FifoInv'
  <1> SUFFICES ASSUME FifoInv, HandoffInv, [Next]_vars PROVE FifoInv'
    OBVIOUS
  <1>1. CASE \E p \in Plans : Begin(p)
    BY <1>1, FifoBegins
  <1>2. CASE WorkerDisable \/ WorkerSelect \/ FinishDisable \/ StopEngine
    BY <1>2, FifoSwitches
  <1>3. CASE PumpDrain
    BY <1>3, FifoDrains
  <1>4. CASE PumpFill
    BY <1>4, FifoFills
  <1>5. CASE Engine
    BY <1>5, FifoShiftsIn, FifoShiftsOut, FifoFails DEF Engine
  <1>6. CASE \/ Starter \/ AskCancel \/ Canceler
             \/ WorkerEntry \/ WorkerCheck \/ WorkerPrepare
             \/ LoopClear \/ LoopCheck \/ LoopLock \/ PumpRaw \/ LoopWoken \/ LoopTimeout
             \/ FinishMask \/ FinishDeselect \/ FinishCopy \/ Publish \/ Unmark \/ Handoff
             \/ Isr \/ Dpc \/ Start \/ (Stop /\ ~StopEngine) \/ SpiConnect \/ SpiDisconnect
             \/ DeadlinePasses \/ UNCHANGED vars
    BY <1>6, FifoQuiet, FifoUnchanged
  <1> QED
    BY <1>1, <1>2, <1>3, <1>4, <1>5, <1>6 DEF Next, Worker, Loop, Pump, Finish

-------------------------------------------------------------------------------
(* What came back is in order.                                               *)

\* What the engine has received, read or not yet read.
Received == inbox \o rxf

\* They are wanted bytes, in order, and none is in the engine any more.
OrderInv ==
  worker \in Looping =>
    /\ InOrder(Received)
    /\ \A k \in 1..Len(Received) :
         /\ Received[k] \in 1..(sent - Len(txf)) /\ Received[k] # shift
         /\ Reads(Received[k])

LEMMA OrderUnchanged ==
  ASSUME OrderInv, UNCHANGED fifoData, worker' \in Looping => worker \in Looping
  PROVE  OrderInv'
  <1>1. Received' = Received /\ UNCHANGED <<sent, txf, shift, bus, plan>>
    BY DEF fifoData, Received
  <1> QED
    BY <1>1 DEF OrderInv, InOrder, Reads

\* The transfer begins with nothing received (Disable and the checks before it).
LEMMA OrderBegins ==
  ASSUME FifoInv, WorkerDisable \/ WorkerSelect
  PROVE  OrderInv'
  <1>1. CASE worker' \notin Looping
    BY <1>1 DEF OrderInv
  <1>2. CASE worker' \in Looping
    <2>1. inbox' = <<>> /\ rxf' = <<>>
      <3>1. CASE WorkerDisable
        BY <1>2, <3>1 DEF WorkerDisable, DisableFails, FifoInv, Ahead, Looping, progress, Goto
      <3>2. CASE WorkerSelect
        BY <1>2, <3>2 DEF WorkerSelect, FifoInv, Ahead, Looping, progress, Goto
      <3> QED BY <3>1, <3>2
    <2>2. Received' = <<>>
      BY <2>1 DEF Received
    <2>3. Len(Received') = 0
      BY <2>2
    <2> QED
      BY <2>3 DEF OrderInv, InOrder
  <1> QED BY <1>1, <1>2

\* A byte that goes on its way, is flushed, or is read from the FIFO keeps the order.
LEMMA OrderMoves ==
  ASSUME FifoInv, HandoffInv, OrderInv,
         ShiftIn \/ EngineFails \/ PumpDrain \/ PumpFill
  PROVE  OrderInv'
  <1> SUFFICES ASSUME worker' \in Looping PROVE OrderInv'
    BY DEF OrderInv
  <1>1. /\ sent \in Nat /\ Len(txf) \in Nat /\ Len(txf) <= sent /\ shift \in Nat
        /\ txf \in Seq(Nat) /\ inbox \in Seq(Nat) /\ rxf \in Seq(Nat)
        /\ \A k \in 1..Len(txf) : txf[k] = sent - Len(txf) + k
    BY DEF FifoInv, InLine
  <1>2. /\ worker \in Looping /\ Received' = Received /\ UNCHANGED <<bus, plan>>
        /\ sent' - Len(txf') >= sent - Len(txf)
        /\ shift' \in {0, shift, sent - Len(txf) + 1}
    <2>1. CASE ShiftIn
      <3>1. /\ shift' = Head(txf) /\ txf' = Tail(txf) /\ txf # <<>>
            /\ UNCHANGED <<bus, plan, sent, inbox, rxf, worker>>
        BY <2>1 DEF ShiftIn, Outside, request
      <3>2. shift' = sent - Len(txf) + 1 /\ Len(txf') = Len(txf) - 1
        BY <1>1, <3>1
      <3> QED BY <1>1, <3>1, <3>2 DEF Received
    <2>2. CASE EngineFails
      <3>1. /\ shift' \in {0, shift} /\ (txf' = txf \/ txf' = <<>>)
            /\ UNCHANGED <<bus, plan, sent, inbox, rxf, worker>>
        BY <2>2 DEF EngineFails, Outside, request
      <3>2. Len(txf') <= Len(txf) /\ Len(txf') \in Nat
        BY <1>1, <3>1
      <3> QED BY <1>1, <3>1, <3>2 DEF Received
    <2>3. CASE PumpDrain
      <3>1. /\ worker = "drain" /\ UNCHANGED <<bus, plan, sent, txf, shift>>
            /\ inbox' = inbox \o rxf /\ rxf' = <<>>
        BY <2>3 DEF PumpDrain, Unlock, Goes, Goto, Other, Looping
      <3>2. Received' = Received
        BY <1>1, <3>1 DEF Received
      <3>3. sent' - Len(txf') >= sent - Len(txf) /\ shift' = shift
        BY <1>1, <3>1
      <3> QED BY <3>1, <3>2, <3>3 DEF Looping
    <2>4. CASE PumpFill
      <3>1. PICK n \in 0..Depth : sent' = sent + n /\ txf' = txf \o [k \in 1..n |-> sent + k]
        BY <2>4 DEF PumpFill
      <3>2. worker = "fill" /\ UNCHANGED <<bus, plan, inbox, rxf, shift>>
        BY <2>4 DEF PumpFill, Other
      <3>3. Len(txf') = Len(txf) + n /\ n \in Nat
        BY <1>1, <3>1, SpbAssumption
      <3>4. sent' - Len(txf') >= sent - Len(txf)
        BY <1>1, <3>1, <3>3
      <3> QED BY <3>2, <3>4 DEF Received, Looping
    <2> QED BY <2>1, <2>2, <2>3, <2>4
  <1>3. InOrder(Received)'
    BY <1>2 DEF OrderInv, InOrder
  <1>4. ASSUME NEW k \in 1..Len(Received')
        PROVE  /\ Received'[k] \in 1..(sent' - Len(txf')) /\ Received'[k] # shift'
               /\ Reads(Received[k])'
    <2>1. /\ Received[k] \in 1..(sent - Len(txf)) /\ Received[k] # shift
          /\ Reads(Received[k])
      BY <1>2 DEF OrderInv
    <2>2. Reads(Received[k])'
      BY <1>2, <2>1 DEF Reads
    <2>3. sent' \in Nat /\ Len(txf') \in Nat
      BY FifoStep, FifoDrains, FifoFills, FifoShiftsIn, FifoFails DEF FifoInv, InLine
    <2> QED BY <1>1, <1>2, <2>1, <2>2, <2>3
  <1> QED
    BY <1>3, <1>4 DEF OrderInv

\* A byte that comes back is later than all before it.
LEMMA OrderGrows == ASSUME FifoInv, OrderInv, ShiftOut PROVE OrderInv'
  <1> SUFFICES ASSUME worker' \in Looping PROVE OrderInv'
    BY DEF OrderInv
  <1>1. /\ shift # 0 /\ shift' = 0 /\ UNCHANGED <<bus, plan, sent, inbox, txf, worker>>
        /\ \/ rxf' = Append(rxf, shift) /\ Reads(shift)
           \/ rxf' = rxf
    BY DEF ShiftOut, Outside, request
  <1>2. /\ sent \in Nat /\ Len(txf) \in Nat /\ Len(txf) <= sent /\ shift \in Nat
        /\ inbox \in Seq(Nat) /\ rxf \in Seq(Nat) /\ shift = sent - Len(txf)
    BY <1>1 DEF FifoInv, InLine
  <1>3. worker \in Looping
    BY <1>1
  <1>4. Received \in Seq(Nat) /\ Len(Received) \in Nat
    BY <1>2 DEF Received
  <1>5. CASE rxf' = rxf
    <2>1. Received' = Received /\ \A k : Reads(k)' = Reads(k)
      BY <1>1, <1>5 DEF Received, Reads
    <2>2. ASSUME NEW k \in 1..Len(Received') PROVE Received'[k] # shift'
      BY <1>1, <1>2, <1>3, <2>1 DEF OrderInv
    <2> QED BY <1>1, <1>3, <2>1, <2>2 DEF OrderInv, InOrder
  <1>6. CASE rxf' = Append(rxf, shift) /\ Reads(shift)
    <2>1. Received' = Append(Received, shift)
      BY <1>1, <1>2, <1>6 DEF Received
    <2>2. Len(Received') = Len(Received) + 1
      BY <1>4, <2>1
    <2>3. ASSUME NEW k \in 1..Len(Received')
          PROVE  IF k <= Len(Received) THEN Received'[k] = Received[k] ELSE Received'[k] = shift
      BY <1>2, <1>4, <2>1, <2>2
    <2>4. ASSUME NEW k \in 1..Len(Received)
          PROVE  Received[k] \in 1..(sent - Len(txf)) /\ Received[k] < shift /\ Reads(Received[k])
      <3>1. Received[k] \in 1..(sent - Len(txf)) /\ Received[k] # shift /\ Reads(Received[k])
        BY <1>3, <2>4 DEF OrderInv
      <3> DEFINE r == Received[k]
      <3>2. r \in 1..shift /\ r # shift
        BY <1>2, <3>1
      <3>3. shift \in Nat
        BY <1>2
      <3> HIDE DEF r
      <3>4. r < shift
        BY <3>2, <3>3
      <3> QED BY <3>1, <3>4 DEF r
    <2>5. InOrder(Received)'
      <3>1. InOrder(Received)
        BY <1>3 DEF OrderInv
      <3> SUFFICES ASSUME NEW j \in 1..Len(Received'), NEW k \in 1..Len(Received'), j < k
                   PROVE  Received'[j] < Received'[k]
        BY DEF InOrder
      <3>2. j \in 1..Len(Received) /\ Received'[j] = Received[j]
        BY <1>4, <2>2, <2>3
      <3>3. CASE k <= Len(Received)
        <4>1. k \in 1..Len(Received) /\ Received'[k] = Received[k]
          BY <1>4, <2>2, <2>3, <3>3
        <4> QED BY <3>1, <3>2, <4>1 DEF InOrder
      <3>4. CASE k > Len(Received)
        <4>1. Received'[k] = shift
          BY <1>4, <2>2, <2>3, <3>4
        <4> QED BY <2>4, <3>2, <4>1
      <3> QED BY <1>4, <2>2, <3>3, <3>4
    <2>6. ASSUME NEW k \in 1..Len(Received')
          PROVE  /\ Received'[k] \in 1..(sent' - Len(txf')) /\ Received'[k] # shift'
                 /\ Reads(Received[k])'
      <3>1. CASE k <= Len(Received)
        <4>1. k \in 1..Len(Received) /\ Received'[k] = Received[k]
          BY <1>4, <2>2, <2>3, <3>1
        <4>2. Reads(Received[k])'
          BY <1>1, <2>4, <4>1 DEF Reads
        <4> QED BY <1>1, <1>2, <2>4, <4>1, <4>2
      <3>2. CASE k > Len(Received)
        <4>1. Received'[k] = shift
          BY <1>4, <2>2, <2>3, <3>2
        <4>2. Reads(Received[k])'
          BY <1>1, <1>6, <4>1 DEF Reads
        <4> QED BY <1>1, <1>2, <4>1, <4>2
      <3> QED BY <1>4, <2>2, <3>1, <3>2
    <2> QED
      BY <2>5, <2>6 DEF OrderInv
  <1> QED BY <1>1, <1>5, <1>6

LEMMA OrderInit == Init => OrderInv
  BY DEF Init, OrderInv, Looping

LEMMA OrderStep == OrderInv /\ FifoInv /\ HandoffInv /\ [Next]_vars => OrderInv'
  <1> SUFFICES ASSUME OrderInv, FifoInv, HandoffInv, [Next]_vars PROVE OrderInv'
    OBVIOUS
  <1>1. CASE (\E p \in Plans : Begin(p)) \/ FinishDisable \/ StopEngine
    <2>1. worker' \notin Looping
      <3>1. CASE \E p \in Plans : Begin(p)
        BY <3>1 DEF Begin, HandoffInv, Looping
      <3>2. CASE FinishDisable
        BY <3>2 DEF FinishDisable, Goto, Looping
      <3>3. CASE StopEngine
        BY <3>3 DEF StopEngine, Flushed, Rest, Looping
      <3> QED BY <1>1, <3>1, <3>2, <3>3
    <2> QED BY <2>1 DEF OrderInv
  <1>2. CASE WorkerDisable \/ WorkerSelect
    BY <1>2, OrderBegins
  <1>3. CASE PumpDrain \/ PumpFill \/ ShiftIn \/ EngineFails
    BY <1>3, OrderMoves
  <1>4. CASE ShiftOut
    BY <1>4, OrderGrows
  <1>5. CASE \/ Starter \/ AskCancel \/ Canceler
             \/ WorkerEntry \/ WorkerCheck \/ WorkerPrepare
             \/ LoopClear \/ LoopCheck \/ LoopLock \/ PumpRaw \/ LoopWoken \/ LoopTimeout
             \/ FinishMask \/ FinishDeselect \/ FinishCopy \/ Publish \/ Unmark \/ Handoff
             \/ Isr \/ Dpc \/ Start \/ (Stop /\ ~StopEngine) \/ SpiConnect \/ SpiDisconnect
             \/ DeadlinePasses \/ UNCHANGED vars
    BY <1>5, FifoQuiet, OrderUnchanged
  <1> QED
    BY <1>1, <1>2, <1>3, <1>4, <1>5 DEF Next, Worker, Loop, Pump, Finish, Engine

-------------------------------------------------------------------------------
(* A transfer that succeeds.                                                 *)

\* As many wanted bytes in order as there are wanted bytes are all of them.
LEMMA AllAreThere ==
  ASSUME NEW n \in Nat, NEW s \in Seq(Nat), InOrder(s),
         \A k \in 1..Len(s) : s[k] \in WantedIn(1, n),
         Len(s) = Cardinality(WantedIn(1, n))
  PROVE  Elements(s) = WantedIn(1, n)
  <1> DEFINE T == WantedIn(1, n)
  <1>1. IsFiniteSet(T)
    BY WantedIsFinite
  <1> HIDE DEF T
  <1>2. s \in [1..Len(s) -> T] /\ Len(s) \in Nat
    BY DEF T
  <1>3. ASSUME NEW j \in 1..Len(s), NEW k \in 1..Len(s), s[j] = s[k] PROVE j = k
    <2>1. s[j] \in Nat /\ s[k] \in Nat
      OBVIOUS
    <2>2. ~(j < k) /\ ~(k < j)
      BY <1>3, <2>1 DEF InOrder
    <2> QED BY <1>2, <2>2
  <1>4. s \in Injection(1..Len(s), T)
    BY <1>2, <1>3 DEF Injection, IsInjective
  <1>5. Cardinality(1..Len(s)) = Len(s)
    BY <1>2, FS_Interval
  <1>6. Cardinality(1..Len(s)) = Cardinality(T)
    BY <1>5 DEF T
  <1>7. s \in Surjection(1..Len(s), T)
    BY <1>1, <1>4, <1>6, FS_Injection
  <1>8. Elements(s) = T
    BY <1>2, <1>7 DEF Surjection, Elements
  <1> QED
    BY <1>8 DEF T

\* What the worker knows at its steps: before the transfer nothing has happened; in the
\* loop the end of an I2C transfer is announced by STOP, and SPI has not got all.
PhaseInv ==
  /\ starter # "none" \/ worker \in Ahead => ~stopped
  /\ starter # "none" \/ worker \in Ahead \union Looping => status = "none" /\ plan # <<>>
  /\ worker = "select" => raw = {}
  /\ worker = "deselect" => bus = "spi"
  /\ worker \in Looping =>
       /\ bus = "spi" => "abort" \notin raw
       /\ bus = "i2c" /\ "abort" \notin raw /\ sent = Len(plan) /\ ~Busy =>
            "stop" \in raw \/ stopped
       /\ bus = "i2c" /\ worker # "drain" => ~stopped
       /\ bus = "spi" /\ worker = "fill" => Len(inbox) < Len(plan)

LEMMA PhaseInit == Init => PhaseInv
  BY DEF Init, PhaseInv, Ahead, Looping

\* Begin (SpbBegin) and the way to the transfer.
LEMMA PhaseBegins ==
  ASSUME FifoInv, HandoffInv, PhaseInv,
         \/ \E p \in Plans : Begin(p)
         \/ Starter \/ WorkerEntry \/ WorkerCheck \/ WorkerPrepare \/ WorkerDisable \/ WorkerSelect
  PROVE  PhaseInv'
  <1>1. CASE \E p \in Plans : Begin(p)
    <2>1. PICK p \in Plans : Begin(p)
      BY <1>1
    <2>2. p # <<>> /\ worker = "idle"
      BY <2>1, SpbAssumption DEF Begin, HandoffInv
    <2>3. /\ starter' = "check" /\ plan' = p /\ stopped' = FALSE /\ worker' = worker
          /\ status' = "none"
      BY <2>1, <2>2 DEF Begin, HandoffInv
    <2> QED BY <2>2, <2>3 DEF PhaseInv, Ahead, Looping
  <1>2. CASE Starter
    <2>1. /\ starter # "none" /\ worker = "idle" /\ starter' \in {"none", "mark", "enqueue"}
          /\ worker' \in {"idle", "entry"} /\ plan' = plan /\ stopped' = stopped
          /\ starter' # "none" \/ worker' = "entry" => status' = status
      BY <1>2 DEF Starter, BeginCheck, BeginMark, BeginEnqueue, HandoffInv, HandoffTypes,
                  progress, Complete, request
    <2> QED BY <2>1 DEF PhaseInv, Ahead, Looping
  <1>3. CASE WorkerEntry \/ WorkerCheck \/ WorkerPrepare
    <2>1. /\ worker \in {"entry", "check", "prepare"}
          /\ worker' \in {"check", "prepare", "disable", "publish"}
          /\ starter' = starter /\ UNCHANGED <<plan, stopped>> /\ starter = "none"
          /\ worker' # "publish" => status' = status
      BY <1>3 DEF WorkerEntry, WorkerCheck, WorkerPrepare, MaskAll, Goto, Other, HandoffInv,
                  HandoffTypes, progress
    <2> QED BY <2>1 DEF PhaseInv, Ahead, Looping
  <1>4. CASE WorkerDisable \/ WorkerSelect
    <2>1. /\ worker \in {"disable", "select"} /\ starter' = "none"
          /\ plan' = plan /\ plan # <<>> /\ stopped' = stopped /\ stopped = FALSE
          /\ worker' \in {"quiet", "clear", "select"} /\ bus' = bus
          /\ worker' = "select" => bus = "spi"
      <3>1. /\ worker \in {"disable", "select"}
            /\ starter' = starter /\ UNCHANGED <<plan, stopped, bus>>
            /\ worker' \in {"quiet", "clear", "select"} /\ (worker' = "select" => bus # "i2c")
        BY <1>4 DEF WorkerDisable, WorkerSelect, Goto, Other, progress
      <3>2. bus \in {"i2c", "spi"}
        BY DEF FifoInv, InLine
      <3> QED BY <3>1, <3>2 DEF PhaseInv, Ahead, HandoffInv, HandoffTypes
    <2>2. sent' = 0 /\ Len(plan) # 0
      <3>1. sent' = sent /\ sent = 0
        BY <1>4, <2>1 DEF WorkerDisable, WorkerSelect, progress, FifoInv, Ahead
      <3>2. plan \in Seq(BOOLEAN)
        BY DEF FifoInv, InLine
      <3> QED BY <2>1, <3>1, <3>2
    <2>3. worker' # "quiet" => status' = "none" /\ raw' = {}
      BY <1>4 DEF WorkerDisable, WorkerSelect, Goto, Other, progress, PhaseInv, Ahead
    <2> QED BY <2>1, <2>2, <2>3 DEF PhaseInv, Ahead, Looping
  <1> QED BY <1>1, <1>2, <1>3, <1>4

\* Nothing is added only when there is nothing to add.
LEMMA NothingAdded ==
  ASSUME NEW s \in Seq(Nat), NEW i \in Nat, NEW n \in Nat, s \o [k \in 1..n |-> i + k] = <<>>
  PROVE  s = <<>> /\ i + n = i
  <1>1. Len(s \o [k \in 1..n |-> i + k]) = Len(s) + n /\ Len(s) \in Nat
    OBVIOUS
  <1>2. Len(s) = 0 /\ n = 0
    BY <1>1
  <1> QED BY <1>2

\* The loop.
LEMMA PhaseLoops ==
  ASSUME FifoInv, HandoffInv, PhaseInv, Loop \/ LoopTimeout
  PROVE  PhaseInv'
  <1>0. worker \in Looping /\ starter = "none" /\ starter' = "none"
        /\ bus' = bus /\ plan' = plan /\ plan # <<>> /\ bus \in {"i2c", "spi"}
    <2>1. /\ worker \in Looping /\ starter' = starter /\ UNCHANGED <<bus, plan>>
      BY DEF Loop, LoopClear, LoopCheck, LoopLock, LoopWoken, LoopTimeout, Pump, PumpRaw,
             PumpDrain, PumpFill, Looping, Other
    <2>2. bus \in {"i2c", "spi"}
      BY DEF FifoInv, InLine
    <2> QED BY <2>1, <2>2 DEF PhaseInv, HandoffInv, HandoffTypes, Looping
  <1>1. CASE LoopClear \/ LoopCheck \/ LoopLock \/ LoopWoken \/ LoopTimeout
    <2>1. /\ UNCHANGED <<sent, inbox, stopped, txf, shift, raw>>
          /\ worker # "drain" /\ worker' \in {"clear", "check in loop", "quiet", "lock", "raw"}
          /\ worker' # "quiet" => status' = status
      BY <1>1 DEF LoopClear, LoopCheck, LoopLock, LoopWoken, LoopTimeout, progress, hw, fifos,
                  Goto, Other
    <2> QED BY <1>0, <2>1 DEF PhaseInv, Ahead, Looping, Busy
  <1>2. CASE PumpRaw
    <2>1. /\ worker = "raw" /\ worker' \in {"quiet", "drain"}
          /\ UNCHANGED <<sent, inbox, txf, shift>>
          /\ raw' = raw \ {"abort", "stop"}
          /\ worker' = "drain" => /\ "abort" \notin raw /\ status' = status
                                  /\ stopped' = (stopped \/ "stop" \in raw)
      BY <1>2 DEF PumpRaw, Unlock, Goes, Goto, Other
    <2>2. CASE worker' = "quiet"
      BY <1>0, <2>1, <2>2 DEF PhaseInv, Ahead, Looping
    <2>3. CASE worker' = "drain"
      <3>1. bus = "i2c" /\ sent' = Len(plan') /\ ~Busy' => stopped'
        BY <1>0, <2>1, <2>3 DEF PhaseInv, Looping, Busy
      <3>2. "abort" \notin raw' /\ status' = "none"
        BY <1>0, <2>1, <2>3 DEF PhaseInv, Looping
      <3> QED BY <1>0, <2>1, <2>3, <3>1, <3>2 DEF PhaseInv, Ahead, Looping
    <2> QED BY <2>1, <2>2, <2>3
  <1>3. CASE PumpDrain
    <2>1. /\ worker = "drain" /\ worker' \in {"quiet", "fill", "sleep"}
          /\ UNCHANGED <<sent, stopped, txf, shift, raw>>
          /\ worker' # "quiet" => /\ status' = status /\ (bus = "i2c" => ~stopped)
                                  /\ (bus = "spi" /\ worker' = "fill" => Len(inbox') < Len(plan))
      BY <1>3 DEF PumpDrain, Unlock, Goes, Goto, Other
    <2> QED BY <1>0, <2>1 DEF PhaseInv, Ahead, Looping, Busy
  <1>4. CASE PumpFill
    <2>1. PICK n \in 0..Depth : sent' = sent + n /\ txf' = txf \o [k \in 1..n |-> sent + k]
      BY <1>4 DEF PumpFill
    <2>2. /\ worker = "fill" /\ worker' = "sleep"
          /\ UNCHANGED <<inbox, stopped, shift, raw, status>>
      BY <1>4 DEF PumpFill, Unlock, Goto, Other
    <2>3. txf' = <<>> => txf = <<>> /\ sent' = sent
      <3>1. txf \in Seq(Nat) /\ sent \in Nat /\ n \in Nat
        BY SpbAssumption DEF FifoInv, InLine
      <3> SUFFICES ASSUME txf' = <<>> PROVE txf = <<>> /\ sent' = sent
        OBVIOUS
      <3>2. txf \o [k \in 1..n |-> sent + k] = <<>>
        BY <2>1
      <3>3. txf = <<>> /\ sent + n = sent
        BY <3>1, <3>2, NothingAdded
      <3> QED BY <2>1, <3>3
    <2>4. ~Busy' => ~Busy /\ sent' = sent
      BY <2>2, <2>3 DEF Busy
    <2> QED BY <1>0, <2>2, <2>4 DEF PhaseInv, Ahead, Looping
  <1> QED BY <1>1, <1>2, <1>3, <1>4 DEF Loop, Pump

\* The end of the worker.
LEMMA PhaseEnds ==
  ASSUME FifoInv, HandoffInv, PhaseInv, Finish
  PROVE  PhaseInv'
  <1>1. /\ worker \in {"quiet", "down", "deselect", "copy", "publish", "unmark", "handoff"}
        /\ worker' \in {"down", "deselect", "copy", "publish", "unmark", "handoff", "idle"}
        /\ starter' = starter /\ (worker' = "deselect" => bus' = "spi")
    BY DEF Finish, FinishMask, FinishDisable, FinishDeselect, FinishCopy, Publish, Unmark, Handoff,
           MaskAll, Goto, Other
  <1>2. starter = "none"
    BY <1>1 DEF HandoffInv, HandoffTypes
  <1> QED
    BY <1>1, <1>2 DEF PhaseInv, Ahead, Looping

\* The engine.
LEMMA PhaseEngine ==
  ASSUME FifoInv, PhaseInv, Engine
  PROVE  PhaseInv'
  <1> USE DEF Outside, request
  <1>0. /\ UNCHANGED <<bus, plan, sent, inbox, stopped, status, starter, worker>>
        /\ worker = "select" => raw' = {}
        /\ bus \in {"i2c", "spi"}
    <2>1. UNCHANGED <<bus, plan, sent, inbox, stopped, status, starter, worker>> /\ enabled
      BY DEF Engine, ShiftIn, ShiftOut, EngineFails
    <2>2. worker # "select" /\ bus \in {"i2c", "spi"}
      BY <2>1 DEF FifoInv, InLine
    <2> QED BY <2>1, <2>2
  <1>1. CASE ShiftIn
    <2>1. shift' = Head(txf) /\ txf # <<>> /\ raw' = raw
      BY <1>1 DEF ShiftIn
    <2>2. txf \in Seq(Nat) /\ txf[1] = sent - Len(txf) + 1 /\ Len(txf) <= sent /\ sent \in Nat
          /\ Len(txf) \in Nat
      BY <2>1 DEF FifoInv, InLine
    <2>3. shift' # 0
      BY <2>1, <2>2
    <2> QED BY <1>0, <2>1, <2>3 DEF PhaseInv, Busy
  <1>2. CASE ShiftOut
    <2>1. /\ shift # 0 /\ shift' = 0 /\ txf' = txf
          /\ ("abort" \in raw' <=> "abort" \in raw)
          /\ "stop" \in raw => "stop" \in raw'
          /\ bus = "i2c" /\ shift = Len(plan) => "stop" \in raw'
      BY <1>2 DEF ShiftOut
    <2>2. shift = sent - Len(txf) /\ sent \in Nat
      BY <2>1 DEF FifoInv, InLine
    <2>3. ~Busy' => shift = sent
      BY <2>1, <2>2 DEF Busy
    <2> QED BY <1>0, <2>1, <2>3 DEF PhaseInv, Looping
  <1>3. CASE EngineFails
    <2>1. \/ bus = "i2c" /\ "abort" \in raw'
          \/ bus = "spi" /\ raw' = raw \union {"error"} /\ UNCHANGED <<shift, txf>>
      BY <1>3 DEF EngineFails
    <2> QED BY <1>0, <2>1 DEF PhaseInv
  <1> QED BY <1>1, <1>2, <1>3 DEF Engine

\* Nobody else.
LEMMA PhaseOthers ==
  ASSUME HandoffInv, PhaseInv,
         \/ AskCancel \/ Canceler \/ Isr \/ Dpc \/ Start \/ Stop \/ SpiConnect \/ SpiDisconnect
         \/ DeadlinePasses \/ UNCHANGED vars
  PROVE  PhaseInv'
  <1> DEFINE same == <<starter, worker, stopped, bus, plan, raw, sent, inbox>>
  <1> USE DEF request, progress, hw, fifos
  <1>1. CASE \/ AskCancel \/ CancelFlag \/ CancelWake \/ Isr \/ Dpc \/ SpiConnect \/ SpiDisconnect
             \/ DeadlinePasses \/ UNCHANGED vars
    <2>1. UNCHANGED same /\ UNCHANGED <<txf, shift, status>>
      BY <1>1 DEF AskCancel, CancelFlag, CancelWake, Isr, Dpc, SpiConnect, SpiDisconnect,
                  DeadlinePasses, vars, Rest, Outside
    <2> QED BY <2>1 DEF PhaseInv, Busy
  <1>2. CASE CancelHandoff
    <2>1. UNCHANGED same /\ UNCHANGED <<txf, shift>>
      BY <1>2 DEF CancelHandoff
    <2>2. status' = status \/ (starter = "none" /\ worker = "idle")
      <3>1. ended \in {0, 1} /\ canceler = "handoff"
        BY <1>2 DEF HandoffInv, HandoffTypes, CancelHandoff
      <3>2. 2 \in completion => starter = "none" /\ worker = "idle"
        BY <3>1 DEF HandoffInv
      <3> QED BY <1>2, <3>2 DEF CancelHandoff
    <2> QED BY <2>1, <2>2 DEF PhaseInv, Busy, Looping, Ahead
  <1>3. CASE Start \/ (Stop /\ ~StopEngine)
    <2>1. UNCHANGED same /\ UNCHANGED <<txf, shift, status>>
      BY <1>3 DEF Start, Prepare, Release, StartClock, StartRoute, InterruptEnable,
                  Stop, InterruptDisable, StopWake, StopRoute, StopClock, Rest
    <2> QED BY <2>1 DEF PhaseInv, Busy
  <1>4. CASE StopEngine
    <2>1. UNCHANGED same /\ status' = status /\ worker = "idle"
      BY <1>4 DEF StopEngine, Flushed, Rest
    <2> QED BY <2>1 DEF PhaseInv, Looping, Ahead
  <1> QED BY <1>1, <1>2, <1>3, <1>4 DEF Canceler

LEMMA PhaseStep == PhaseInv /\ FifoInv /\ HandoffInv /\ [Next]_vars => PhaseInv'
  <1> SUFFICES ASSUME PhaseInv, FifoInv, HandoffInv, [Next]_vars PROVE PhaseInv'
    OBVIOUS
  <1> QED
    BY PhaseBegins, PhaseLoops, PhaseEnds, PhaseEngine, PhaseOthers DEF Next, Worker

\* The steps of a worker whose transfer has ended.
Ending == {"quiet", "down", "deselect", "copy", "publish", "unmark", "handoff", "idle"}

Whole == sent = Len(plan) /\ InOrder(inbox) /\ Elements(inbox) = Wanted(Len(plan))

\* Only I2C knows no chip select.  A transfer is said to have succeeded when it is whole,
\* and no longer so when its chip select could not be made inactive.
OkInv ==
  /\ bus = "i2c" => ~select
  /\ status = "ok" =>
       /\ starter = "none" /\ worker \in Ending /\ Whole
       /\ worker \notin {"quiet", "down", "deselect"} => ~select

\* The test that ends a transfer with success (I2cPump, SpiPump).
LEMMA DrainIsWhole ==
  ASSUME FifoInv, HandoffInv, OrderInv, PumpDrain, status' = "ok", status # "ok"
  PROVE  Whole' /\ starter' = "none" /\ worker' = "quiet" /\ UNCHANGED <<bus, select>>
  <1>1. /\ worker = "drain" /\ inbox' = inbox \o rxf
        /\ UNCHANGED <<bus, plan, sent, starter, select>> /\ worker' = "quiet"
        /\ \/ sent = Len(plan) /\ Outstanding = Len(rxf)
           \/ Len(inbox') = Len(plan)
    BY DEF PumpDrain, Unlock, Goes, Goto, Other
  <1>2. /\ sent \in Nat /\ sent <= Len(plan) /\ Len(plan) \in Nat /\ Len(txf) \in Nat
        /\ inbox \in Seq(Nat) /\ rxf \in Seq(Nat) /\ Len(inbox) \in Nat /\ Len(rxf) \in Nat
    BY DEF FifoInv, InLine
  <1>3. Received \in Seq(Nat) /\ Len(Received) = Len(inbox) + Len(rxf) /\ inbox' = Received
    BY <1>1, <1>2 DEF Received
  <1>4. Wanted(sent) = WantedIn(1, sent)
    BY DEF Wanted, WantedIn
  <1>5. Cardinality(WantedIn(1, sent)) \in Nat /\ Cardinality(WantedIn(1, sent)) <= sent
    <2>1. IsFiniteSet(1..sent) /\ Cardinality(1..sent) = sent
      BY <1>2, FS_Interval
    <2>2. WantedIn(1, sent) \subseteq 1..sent
      BY DEF WantedIn
    <2>3. Cardinality(WantedIn(1, sent)) <= Cardinality(1..sent)
      BY <2>1, <2>2, FS_Subset
    <2> QED BY <1>2, <2>1, <2>3, WantedIsFinite
  <1>6. sent = Len(plan) /\ Len(Received) = Cardinality(WantedIn(1, sent))
    <2>1. CASE sent = Len(plan) /\ Outstanding = Len(rxf)
      <3>1. Cardinality(WantedIn(1, sent)) - Len(inbox) = Len(rxf)
        BY <1>4, <2>1 DEF Outstanding, Missing
      <3> QED BY <1>2, <1>3, <1>5, <2>1, <3>1
    <2>2. CASE Len(inbox') = Len(plan)
      <3>1. Len(Received) = Len(plan)
        BY <1>3, <2>2
      <3>2. Seen <= Cardinality(WantedIn(1, sent)) /\ Cardinality(Coming) \in Nat
        <4>1. Seen <= Cardinality(Wanted(sent))
          BY <1>1 DEF FifoInv, Looping, Counted
        <4>2. CountsAreNumbers
          BY Counts DEF FifoInv
        <4> QED BY <1>4, <4>1, <4>2 DEF CountsAreNumbers
      <3>3. Len(Received) <= Cardinality(WantedIn(1, sent))
        BY <1>2, <1>3, <1>5, <3>2 DEF Seen
      <3> QED BY <1>2, <1>5, <3>1, <3>3
    <2> QED BY <1>1, <2>1, <2>2
  <1>7. InOrder(Received) /\ \A k \in 1..Len(Received) : Received[k] \in WantedIn(1, sent)
    <2>1. /\ InOrder(Received)
          /\ \A k \in 1..Len(Received) :
               Received[k] \in 1..(sent - Len(txf)) /\ Reads(Received[k])
      BY <1>1 DEF OrderInv, Looping
    <2>2. 1..(sent - Len(txf)) \subseteq 1..sent
      BY <1>2
    <2> QED BY <2>1, <2>2 DEF WantedIn
  <1>8. Elements(Received) = WantedIn(1, sent)
    BY <1>2, <1>3, <1>6, <1>7, AllAreThere
  <1>9. starter = "none"
    BY <1>1 DEF HandoffInv, HandoffTypes
  <1>10. Wanted(Len(plan))' = WantedIn(1, sent)
    BY <1>1, <1>4, <1>6 DEF Wanted, Reads
  <1>11. InOrder(inbox)' /\ Elements(inbox)' = Wanted(Len(plan))'
    BY <1>3, <1>7, <1>8, <1>10 DEF InOrder, Elements
  <1> QED
    BY <1>1, <1>6, <1>9, <1>11 DEF Whole

LEMMA OkInit == Init => OkInv
  BY DEF Init, OkInv

\* Who leaves the transfer alone keeps what is known of it.
LEMMA OkUnchanged ==
  ASSUME OkInv, UNCHANGED <<bus, plan, sent, inbox, starter, worker>>,
         status' = status \/ status' # "ok", ~select => ~select'
  PROVE  OkInv'
  <1>1. Whole => Whole'
    BY DEF Whole, InOrder, Elements, Wanted, Reads
  <1> QED BY <1>1 DEF OkInv

\* While the transfer is not over, it has not succeeded.
LEMMA OkBegins ==
  ASSUME FifoInv, HandoffInv, OrderInv, OkInv,
         \/ \E p \in Plans : Begin(p)
         \/ Starter \/ WorkerEntry \/ WorkerCheck \/ WorkerPrepare \/ WorkerDisable \/ WorkerSelect
         \/ Loop \/ LoopTimeout
  PROVE  OkInv'
  <1>1. CASE PumpDrain /\ status' = "ok"
    <2>1. status # "ok"
      BY <1>1 DEF PumpDrain, OkInv, Ending
    <2>2. Whole' /\ starter' = "none" /\ worker' = "quiet" /\ UNCHANGED <<bus, select>>
      BY <1>1, <2>1, DrainIsWhole
    <2> QED BY <2>2 DEF OkInv, Ending
  <1>2. CASE \E p \in Plans : Begin(p)
    <2>1. PICK p \in Plans : Begin(p)
      BY <1>2
    <2> QED BY <2>1 DEF Begin, OkInv, hw
  <1>3. CASE Starter
    <2>1. status' # "ok" /\ UNCHANGED <<bus, select>>
      BY <1>3 DEF Starter, BeginCheck, BeginMark, BeginEnqueue, Complete, OkInv, request, hw
    <2> QED BY <2>1 DEF OkInv
  <1>4. CASE WorkerEntry \/ WorkerCheck \/ WorkerPrepare \/ WorkerDisable \/ WorkerSelect
    <2>1. status' # "ok" /\ bus' = bus
      BY <1>4 DEF WorkerEntry, WorkerCheck, WorkerPrepare, MaskAll, WorkerDisable, WorkerSelect,
                  Goto, Other, OkInv, Ending
    <2>2. bus = "i2c" => select' = select
      BY <1>4 DEF WorkerEntry, WorkerCheck, WorkerPrepare, MaskAll, WorkerDisable, WorkerSelect,
                  Goto, Other, hw, FifoInv
    <2> QED BY <2>1, <2>2 DEF OkInv
  <1>5. CASE Loop \/ LoopTimeout
    <2>0. worker \in Looping
      BY <1>5 DEF Loop, LoopClear, LoopCheck, LoopLock, LoopWoken, LoopTimeout, Pump, PumpRaw,
                  PumpDrain, PumpFill, Looping
    <2>1. status # "ok"
      BY <2>0 DEF OkInv, Ending, Looping
    <2>2. bus' = bus /\ select' = select
      BY <1>5 DEF Loop, LoopClear, LoopCheck, LoopLock, LoopWoken, LoopTimeout, Pump, PumpRaw,
                  PumpDrain, PumpFill, Other, hw
    <2>3. status' # "ok" \/ PumpDrain
      BY <1>5, <2>1 DEF Loop, LoopClear, LoopCheck, LoopLock, LoopWoken, LoopTimeout, Pump, PumpRaw,
                  PumpFill, Unlock, Goes
    <2> QED BY <1>1, <2>2, <2>3 DEF OkInv
  <1> QED BY <1>2, <1>3, <1>4, <1>5

\* The end of a transfer: the chip select, and what may still fail.
LEMMA OkEnds ==
  ASSUME FifoInv, HandoffInv, PhaseInv, OkInv, Finish
  PROVE  OkInv'
  <1>1. UNCHANGED <<bus, plan, sent, inbox, starter>>
    BY DEF Finish, FinishMask, FinishDisable, FinishDeselect, FinishCopy, Publish, Unmark, Handoff,
           MaskAll, Other, progress, request
  <1>2. Whole => Whole'
    BY <1>1 DEF Whole, InOrder, Elements, Wanted, Reads
  <1>3. status' = "ok" => status = "ok"
    BY DEF Finish, FinishMask, FinishDisable, FinishDeselect, FinishCopy, Publish, Unmark, Handoff,
           MaskAll, Other, Complete, request
  <1>4. worker' \in Ending
    BY DEF Finish, FinishMask, FinishDisable, FinishDeselect, FinishCopy, Publish, Unmark, Handoff,
           MaskAll, Goto, Ending
  <1>5. CASE FinishMask \/ FinishCopy \/ Publish \/ Unmark \/ Handoff
    <2>1. /\ select' = select
          /\ worker' \notin {"quiet", "down", "deselect"} =>
               worker \notin {"quiet", "down", "deselect"}
      BY <1>5 DEF FinishMask, FinishCopy, Publish, Unmark, Handoff, MaskAll, Goto, hw
    <2> QED BY <1>1, <1>2, <1>3, <1>4, <2>1 DEF OkInv
  <1>6. CASE FinishDisable
    <2>1. /\ select' = select
          /\ bus # "spi" => worker' = "copy"
          /\ bus = "spi" => worker' = "deselect"
      BY <1>6 DEF FinishDisable, Goto
    <2>2. bus \in {"i2c", "spi"} => (worker' \notin {"quiet", "down", "deselect"} => ~select')
      BY <2>1 DEF OkInv
    <2>3. bus # "spi" => bus = "i2c"
      BY DEF FifoInv, InLine
    <2> QED BY <1>1, <1>2, <1>3, <1>4, <2>1, <2>2, <2>3 DEF OkInv
  <1>7. CASE FinishDeselect
    <2>1. worker' = "copy" /\ (select' = FALSE \/ (select' = select /\ status' # "ok"))
      <3>1. worker' = "copy" /\ select' \in {select, FALSE}
        BY <1>7 DEF FinishDeselect, Goto
      <3>2. select' # FALSE => status' # "ok"
        BY <1>7 DEF FinishDeselect
      <3> QED BY <3>1, <3>2
    <2> QED BY <1>1, <1>2, <1>3, <1>4, <2>1 DEF OkInv
  <1> QED BY <1>5, <1>6, <1>7 DEF Finish

LEMMA OkStep ==
  OkInv /\ PhaseInv /\ OrderInv /\ FifoInv /\ HandoffInv /\ [Next]_vars => OkInv'
  <1> SUFFICES ASSUME OkInv, PhaseInv, OrderInv, FifoInv, HandoffInv, [Next]_vars PROVE OkInv'
    OBVIOUS
  <1>1. CASE \/ \E p \in Plans : Begin(p)
             \/ Starter \/ WorkerEntry \/ WorkerCheck \/ WorkerPrepare
             \/ WorkerDisable \/ WorkerSelect \/ Loop \/ LoopTimeout
    BY <1>1, OkBegins
  <1>2. CASE Finish
    BY <1>2, OkEnds
  <1>3. CASE AskCancel \/ Canceler \/ Isr \/ Dpc \/ DeadlinePasses \/ UNCHANGED vars
    <2>1. UNCHANGED <<bus, plan, sent, inbox, starter, worker, select>>
      BY <1>3 DEF AskCancel, Canceler, CancelFlag, CancelWake, CancelHandoff, Isr, Dpc,
                  DeadlinePasses, Outside, vars, request, progress, hw
    <2>2. status' = status \/ status' # "ok"
      BY <1>3 DEF AskCancel, Canceler, CancelFlag, CancelWake, CancelHandoff, Complete, Isr, Dpc,
                  DeadlinePasses, Outside, vars, request
    <2> QED BY <2>1, <2>2, OkUnchanged
  <1>4. CASE Start \/ Stop \/ SpiConnect \/ SpiDisconnect
    <2>1. UNCHANGED <<bus, plan, sent, inbox, starter, worker, status>>
      BY <1>4 DEF Start, Stop, Prepare, Release, StartClock, StartRoute, InterruptEnable,
                  InterruptDisable, StopWake, StopEngine, StopRoute, StopClock, SpiConnect,
                  SpiDisconnect, Rest, request, progress
    <2>2. ~select => ~select'
      BY <1>4 DEF Start, Stop, Prepare, Release, StartClock, StartRoute, InterruptEnable,
                  InterruptDisable, StopWake, StopEngine, StopRoute, StopClock, SpiConnect,
                  SpiDisconnect, hw
    <2> QED BY <2>1, <2>2, OkUnchanged
  <1>5. CASE Engine
    <2>1. UNCHANGED <<bus, plan, sent, inbox, starter, worker, status, select>>
      BY <1>5 DEF Engine, ShiftIn, ShiftOut, EngineFails, Outside, request
    <2> QED BY <2>1, OkUnchanged
  <1> QED
    BY <1>1, <1>2, <1>3, <1>4, <1>5 DEF Next, Worker

\* What is known of a transfer, from its beginning to its end.
TransferInv == HandoffInv /\ FifoInv /\ OrderInv /\ PhaseInv /\ OkInv

LEMMA TransferInit == Init => TransferInv
  BY HandoffInit, FifoInit, OrderInit, PhaseInit, OkInit DEF TransferInv

LEMMA TransferStep == TransferInv /\ [Next]_vars => TransferInv'
  BY HandoffStep, FifoStep, OrderStep, PhaseStep, OkStep DEF TransferInv

\* A transfer of either controller that succeeds is whole and in order, whatever the plan
\* and the depth of the FIFOs, and never can a byte come back to a full FIFO.
THEOREM TransferIsWholeHolds == Spec => []TransferIsWhole
  <1>1. TransferInv => TransferIsWhole
    <2> SUFFICES ASSUME TransferInv PROVE TransferIsWhole
      OBVIOUS
    <2>1. Len(rxf) + Cardinality(Coming) <= Depth
      BY DEF TransferInv, FifoInv
    <2>2. ended = 1 /\ status = "ok" => Whole /\ ~select
      BY DEF TransferInv, HandoffInv, OkInv
    <2> QED BY <2>1, <2>2 DEF TransferIsWhole, Whole
  <1> QED
    BY <1>1, TransferInit, TransferStep, PTL DEF Spec

-------------------------------------------------------------------------------
(* A sleep that ends without the timer.                                      *)

\* From the check of the loop to the sleep, what should wake the worker is kept: the
\* event, or one who is about to signal it, or an interrupt that is enabled.
Watching == {"lock", "raw", "drain", "fill", "sleep"}

SeesCancel == worker \in Watching /\ cancelled => wake \/ canceler = "wake"

SeesStop == worker \in Watching \ {"lock"} => online \/ wake \/ pnp = "stopping"

SeesWork ==
  worker = "sleep" =>
    \/ wake \/ dpc
    \/ bus = "spi" /\ Len(inbox) = Len(plan)
    \/ mask = Rearm(sent) /\ (bus = "spi" => Len(inbox) < Len(plan))

WakeInv == SeesCancel /\ SeesStop /\ SeesWork

LEMMA WakeInit == Init => WakeInv
  BY DEF Init, WakeInv, SeesCancel, SeesStop, SeesWork, Watching

\* Before the loop and after it nothing is to be seen (SpbBegin, I2cWorker).
LEMMA NotWatching ==
  ASSUME HandoffInv,
         \/ \E p \in Plans : Begin(p)
         \/ Starter \/ WorkerEntry \/ WorkerCheck \/ WorkerPrepare \/ WorkerDisable \/ WorkerSelect
         \/ Finish
  PROVE  worker' \notin Watching
  <1> USE DEF Watching, Goto
  <1>1. CASE \E p \in Plans : Begin(p)
    BY <1>1 DEF Begin, HandoffInv
  <1>2. CASE Starter
    BY <1>2 DEF Starter, BeginCheck, BeginMark, BeginEnqueue, HandoffInv, HandoffTypes
  <1>3. CASE WorkerEntry \/ WorkerCheck \/ WorkerPrepare \/ WorkerDisable \/ WorkerSelect
    BY <1>3 DEF WorkerEntry, WorkerCheck, WorkerPrepare, MaskAll, WorkerDisable, WorkerSelect
  <1>4. CASE Finish
    BY <1>4 DEF Finish, FinishMask, FinishDisable, FinishDeselect, FinishCopy, Publish, Unmark,
                Handoff, MaskAll
  <1> QED BY <1>1, <1>2, <1>3, <1>4

\* The steps of the loop, as they are seen by those who wake the worker.
LEMMA LoopWatches ==
  ASSUME Loop \/ LoopTimeout, worker' \in Watching
  PROVE  /\ UNCHANGED <<online, pnp, bus, canceler, cancelled, plan, wake, dpc>>
         /\ \/ worker \in Watching /\ worker' # "lock" /\ (worker # "lock" \/ online)
            \/ worker = "check in loop" /\ worker' = "lock" /\ ~cancelled
  <1> USE DEF Watching, Goto, Other, device
  <1>1. CASE LoopClear \/ LoopCheck \/ LoopLock \/ LoopWoken \/ LoopTimeout
    BY <1>1 DEF LoopClear, LoopCheck, LoopLock, LoopWoken, LoopTimeout
  <1>2. CASE PumpRaw
    BY <1>2 DEF PumpRaw, Unlock, Goes
  <1>3. CASE PumpDrain
    BY <1>3 DEF PumpDrain, Unlock, Goes
  <1>4. CASE PumpFill
    BY <1>4 DEF PumpFill, Unlock
  <1> QED BY <1>1, <1>2, <1>3, <1>4 DEF Loop, Pump

\* Neither D0Entry nor D0Exit takes the event back.
LEMMA PowerKeepsWake == ASSUME Start \/ Stop PROVE wake => wake'
  <1>1. CASE Start
    BY <1>1 DEF Start, Prepare, Release, StartClock, StartRoute, InterruptEnable
  <1>2. CASE Stop
    BY <1>2 DEF Stop, InterruptDisable, StopWake, StopEngine, StopRoute, StopClock
  <1> QED BY <1>1, <1>2

\* A cancellation is seen by the check of the loop, or signals the event (I2cCancel).
LEMMA CancelStep == SeesCancel /\ HandoffInv /\ [Next]_vars => SeesCancel'
  <1> SUFFICES ASSUME SeesCancel, HandoffInv, [Next]_vars, worker' \in Watching PROVE SeesCancel'
    BY DEF SeesCancel
  <1>1. CASE Loop \/ LoopTimeout
    BY <1>1, LoopWatches DEF SeesCancel, Watching
  <1>2. CASE AskCancel \/ Canceler \/ Isr \/ Dpc \/ DeadlinePasses \/ UNCHANGED vars
    <2>1. CASE AskCancel
      <3>1. /\ UNCHANGED <<worker, cancelled, wake>>
            /\ canceler' = canceler \/ cancelable = "yes"
        BY <2>1 DEF AskCancel
      <3>2. cancelable = "yes" => canceler = "none"
        BY <2>1 DEF AskCancel, HandoffInv, HandoffTypes
      <3> QED BY <3>1, <3>2 DEF SeesCancel
    <2>2. CASE Canceler
      BY <2>2 DEF Canceler, CancelFlag, CancelWake, CancelHandoff, SeesCancel
    <2>3. CASE Isr \/ Dpc \/ DeadlinePasses \/ UNCHANGED vars
      BY <2>3 DEF Isr, Dpc, DeadlinePasses, Outside, request, vars, SeesCancel
    <2> QED BY <1>2, <2>1, <2>2, <2>3
  <1>3. CASE Start \/ Stop
    <2>1. UNCHANGED <<worker, canceler, cancelled>>
      BY <1>3 DEF Start, Stop, Prepare, Release, StartClock, StartRoute, InterruptEnable,
                  InterruptDisable, StopWake, StopEngine, StopRoute, StopClock, Rest, request
    <2> QED BY <1>3, <2>1, PowerKeepsWake DEF SeesCancel
  <1>4. CASE SpiConnect \/ SpiDisconnect \/ Engine
    <2>1. UNCHANGED <<worker, canceler, cancelled, wake>>
      BY <1>4 DEF SpiConnect, SpiDisconnect, Rest, request, Engine, ShiftIn, ShiftOut,
                  EngineFails, Outside
    <2> QED BY <2>1 DEF SeesCancel
  <1> QED BY <1>1, <1>2, <1>3, <1>4, NotWatching DEF Next, Worker

\* Power that ends after Online was looked at signals the event (I2cStop).
LEMMA StopStep == SeesStop /\ HandoffInv /\ [Next]_vars => SeesStop'
  <1> SUFFICES ASSUME SeesStop, HandoffInv, [Next]_vars, worker' \in Watching PROVE SeesStop'
    BY DEF SeesStop
  <1>1. CASE Loop \/ LoopTimeout
    BY <1>1, LoopWatches DEF SeesStop, Watching
  <1>2. CASE AskCancel \/ Canceler \/ Isr \/ Dpc \/ DeadlinePasses \/ UNCHANGED vars
    <2>1. UNCHANGED <<worker, online, pnp>> /\ (wake => wake')
      BY <1>2 DEF AskCancel, Canceler, CancelFlag, CancelWake, CancelHandoff, Isr, Dpc,
                  DeadlinePasses, Outside, vars, device
    <2> QED BY <2>1 DEF SeesStop
  <1>3. CASE Start \/ Stop
    <2>1. worker' = worker
      BY <1>3 DEF Start, Stop, Prepare, Release, StartClock, StartRoute, InterruptEnable,
                  InterruptDisable, StopWake, StopEngine, StopRoute, StopClock, Rest
    <2>2. \/ pnp' = "stopping" \/ wake'
          \/ pnp # "stopping" /\ (online => online')
      <3>1. CASE InterruptDisable \/ StopWake
        BY <3>1 DEF InterruptDisable, StopWake
      <3>2. CASE Start
        BY <3>2 DEF Start, Prepare, Release, StartClock, StartRoute, InterruptEnable
      <3>3. CASE StopEngine \/ StopRoute \/ StopClock
        BY <3>3 DEF StopEngine, StopRoute, StopClock
      <3> QED BY <1>3, <3>1, <3>2, <3>3 DEF Stop
    <2> QED BY <1>3, <2>1, <2>2, PowerKeepsWake DEF SeesStop
  <1>4. CASE SpiConnect \/ SpiDisconnect \/ Engine
    BY <1>4 DEF SpiConnect, SpiDisconnect, Rest, Engine, ShiftIn, ShiftOut, EngineFails,
                Outside, device, SeesStop
  <1> QED BY <1>1, <1>2, <1>3, <1>4, NotWatching DEF Next, Worker

\* The mask that the worker leaves behind is changed only by who signals the event, or
\* queues the DPC that will (I2cIsr, I2cInterruptDisable).
LEMMA WorkStep ==
  SeesWork /\ PhaseInv /\ HandoffInv /\ ClockInv /\ [Next]_vars => SeesWork'
  <1> SUFFICES ASSUME SeesWork, PhaseInv, HandoffInv, ClockInv, [Next]_vars, worker' = "sleep"
               PROVE  SeesWork'
    BY DEF SeesWork
  <1> DEFINE same == <<worker, bus, plan, inbox, sent, mask>>
  <1>1. ASSUME UNCHANGED same, wake \/ dpc => wake' \/ dpc'
        PROVE  SeesWork'
    BY <1>1 DEF SeesWork, Rearm, Missing, Wanted, Reads
  <1>2. CASE Loop \/ LoopTimeout
    <2>1. CASE PumpDrain
      BY <2>1 DEF PumpDrain, Unlock, Goes, Goto, Other, SeesWork
    <2>2. CASE PumpFill
      <3>1. PICK n \in 0..Depth : sent' = sent + n /\ Unlock("sleep", status, Rearm(sent + n))
        BY <2>2 DEF PumpFill
      <3>2. worker = "fill" /\ UNCHANGED <<bus, plan, inbox>>
        BY <2>2 DEF PumpFill, Other
      <3>3. mask' = Rearm(sent)'
        BY <3>1, <3>2 DEF Unlock, Rearm, Missing, Wanted, Reads
      <3>4. bus = "spi" => Len(inbox) < Len(plan)
        BY <3>2 DEF PhaseInv, Looping
      <3> QED BY <3>2, <3>3, <3>4 DEF SeesWork
    <2>3. CASE LoopClear \/ LoopCheck \/ LoopLock \/ PumpRaw \/ LoopWoken \/ LoopTimeout
      <3>1. worker' # "sleep"
        BY <2>3 DEF LoopClear, LoopCheck, LoopLock, PumpRaw, Unlock, Goes, LoopWoken, LoopTimeout,
                    Goto
      <3> QED BY <3>1
    <2> QED BY <1>2, <2>1, <2>2, <2>3 DEF Loop, Pump
  <1>3. CASE AskCancel \/ Canceler \/ DeadlinePasses \/ Engine \/ SpiConnect \/ SpiDisconnect
             \/ UNCHANGED vars
    <2>1. UNCHANGED same
      <3>1. CASE AskCancel \/ Canceler
        BY <3>1 DEF AskCancel, Canceler, CancelFlag, CancelWake, CancelHandoff, request,
                    progress, hw
      <3>2. CASE DeadlinePasses \/ Engine
        BY <3>2 DEF DeadlinePasses, Engine, ShiftIn, ShiftOut, EngineFails, Outside, request
      <3>3. CASE SpiConnect \/ SpiDisconnect \/ UNCHANGED vars
        BY <3>3 DEF SpiConnect, SpiDisconnect, Rest, vars, request, progress, hw
      <3> QED BY <1>3, <3>1, <3>2, <3>3
    <2>2. wake \/ dpc => wake' \/ dpc'
      BY <1>3 DEF AskCancel, Canceler, CancelFlag, CancelWake, CancelHandoff, DeadlinePasses,
                  Engine, ShiftIn, ShiftOut, EngineFails, Outside, SpiConnect, SpiDisconnect, vars
    <2> QED BY <1>1, <2>1, <2>2
  <1>4. CASE Isr \/ Dpc
    <2>1. UNCHANGED worker /\ (wake' \/ dpc')
      BY <1>4 DEF Isr, Dpc
    <2> QED BY <2>1 DEF SeesWork
  <1>5. CASE Start \/ Stop
    <2>1. worker' = worker
      BY <1>5 DEF Start, Stop, Prepare, Release, StartClock, StartRoute, InterruptEnable,
                  InterruptDisable, StopWake, StopEngine, StopRoute, StopClock, Rest
    <2>2. worker = "sleep" /\ pnp \in {"running", "stopping", "flushing"}
      BY <2>1 DEF ClockInv, AtEngine, Taken
    <2>3. InterruptDisable \/ StopWake
      BY <1>5, <2>2 DEF Start, Stop, Prepare, Release, StartClock, StartRoute, InterruptEnable,
                        StopEngine, Flushed, StopRoute, StopClock
    <2>4. wake' \/ dpc'
      BY <2>3 DEF InterruptDisable, StopWake
    <2> QED BY <2>4 DEF SeesWork
  <1>6. CASE \/ \E p \in Plans : Begin(p)
             \/ Starter \/ WorkerEntry \/ WorkerCheck \/ WorkerPrepare
             \/ WorkerDisable \/ WorkerSelect \/ Finish
    BY <1>6, NotWatching DEF Watching
  <1> QED BY <1>2, <1>3, <1>4, <1>5, <1>6 DEF Next, Worker

LEMMA WakeStep ==
  WakeInv /\ PhaseInv /\ HandoffInv /\ ClockInv /\ [Next]_vars => WakeInv'
  BY CancelStep, StopStep, WorkStep DEF WakeInv

\* When the engine is at rest and the worker has nothing to read, one of the interrupts
\* that the worker left enabled waits: a failure, STOP, a byte that came back, or room for
\* the next byte.
LEMMA RestIsAnnounced ==
  ASSUME FifoInv, PhaseInv, worker = "sleep", ~Busy, bus = "spi" => Len(inbox) < Len(plan)
  PROVE  Pending \intersect Rearm(sent) # {}
  <1>1. /\ bus \in {"i2c", "spi"} /\ sent \in Nat /\ sent <= Len(plan) /\ Len(plan) \in Nat
        /\ Len(inbox) \in Nat /\ Len(rxf) \in Nat /\ rxf \in Seq(Nat)
        /\ enabled /\ Counted /\ txf = <<>> /\ shift = 0
    BY DEF FifoInv, InLine, Looping, Busy
  <1>2. CASE raw \intersect {"abort", "error"} # {}
    BY <1>2 DEF Pending, Rearm
  <1>3. CASE raw \intersect {"abort", "error"} = {}
    <2>1. Missing(sent) = Len(rxf)
      <3>1. Seen = Cardinality(Wanted(sent)) /\ Cardinality(Coming) = 0
        BY <1>1, <1>3, NothingComes DEF Counted
      <3> QED BY <1>1, <3>1 DEF Seen, Missing
    <2>2. CASE rxf # <<>>
      <3>1. Len(rxf) > 0
        BY <1>1, <2>2
      <3>2. "rx" \in Pending
        BY <2>2 DEF Pending
      <3>3. "rx" \in Rearm(sent)
        BY <2>1, <3>1 DEF Rearm
      <3> QED BY <3>2, <3>3
    <2>3. CASE rxf = <<>>
      <3>1. Missing(sent) = 0
        BY <2>1, <2>3
      <3>2. CASE sent = Len(plan)
        <4>1. bus = "i2c"
          <5> SUFFICES ASSUME bus = "spi" PROVE FALSE
            BY <1>1
          <5>1. Wanted(sent) = 1..sent
            BY DEF Wanted, Reads
          <5>2. Cardinality(Wanted(sent)) = sent
            BY <1>1, <5>1, FS_Interval
          <5>3. Len(inbox) = sent
            BY <1>1, <3>1, <5>2 DEF Missing
          <5> QED BY <1>1, <3>2, <5>3
        <4>2. "stop" \in raw
          BY <1>3, <3>2, <4>1 DEF PhaseInv, Looping
        <4> QED BY <4>1, <4>2 DEF Pending, Rearm
      <3>3. CASE sent # Len(plan)
        <4>1. sent < Len(plan) /\ Missing(sent) < Depth
          BY <1>1, <3>1, <3>3, SpbAssumption
        <4>2. Len(txf) <= (Depth \div 2) - 1
          BY <1>1, SpbAssumption
        <4>3. "tx" \in Pending
          BY <1>1, <4>2 DEF Pending
        <4>4. "tx" \in Rearm(sent)
          BY <4>1 DEF Rearm
        <4> QED BY <4>3, <4>4
      <3> QED BY <3>2, <3>3
    <2> QED BY <2>2, <2>3
  <1> QED BY <1>2, <1>3

\* The worker never depends on its periodic timer, except where SPI polls its shifter:
\* whatever happens while it sleeps, it will be woken (I2cPump, I2cIsr, I2cCancel, I2cStop).
THEOREM WokenWithoutTimerHolds == Spec => []WokenWithoutTimer
  <1>1. TransferInv /\ WakeInv => WokenWithoutTimer
    <2> SUFFICES ASSUME TransferInv, WakeInv, worker = "sleep" PROVE WokenWithoutTimer
      BY DEF WokenWithoutTimer
    <2>1. mask = Rearm(sent) /\ (bus = "spi" => Len(inbox) < Len(plan)) /\ ~Busy
            => Pending \intersect mask # {}
      BY RestIsAnnounced DEF TransferInv
    <2>2. \/ wake \/ dpc \/ Busy \/ Pending \intersect mask # {}
          \/ bus = "spi" /\ Len(inbox) = Len(plan)
      BY <2>1 DEF WakeInv, SeesWork
    <2>3. cancelled => wake \/ canceler = "wake"
      BY DEF WakeInv, SeesCancel, Watching
    <2>4. ~online => wake \/ dpc \/ pnp = "stopping"
      BY DEF WakeInv, SeesStop, Watching
    <2> QED BY <2>2, <2>3, <2>4 DEF WokenWithoutTimer
  <1>2. Init => TransferInv /\ ClockInv /\ WakeInv
    BY TransferInit, ClockInit, WakeInit
  <1>3. TransferInv /\ ClockInv /\ WakeInv /\ [Next]_vars => (TransferInv /\ ClockInv /\ WakeInv)'
    BY TransferStep, ClockStep, WakeStep DEF TransferInv
  <1> QED
    BY <1>1, <1>2, <1>3, PTL DEF Spec

-------------------------------------------------------------------------------
(* What the variables of the SpbCx controllers may hold, beside what HandoffInv, ClockInv and *)
(* FifoInv say.                                                                               *)

RequestTypes ==
  /\ asked \in BOOLEAN /\ cancelled \in BOOLEAN
  /\ mapped \in BOOLEAN /\ stopped \in BOOLEAN /\ late \in BOOLEAN

\* Every step keeps the flags of the request.
LEMMA RequestTypeStep ==
  ASSUME RequestTypes, [Next]_vars
  PROVE  RequestTypes'
  <1> USE DEF device, request, progress, fifos, hw
  <1>1. CASE \E p \in Plans : Begin(p)
    <2>1. mapped' \in BOOLEAN
      BY <1>1 DEF Begin
    <2> QED BY <1>1, <2>1 DEF RequestTypes, Begin
  <1>2. CASE Starter
    BY <1>2 DEF RequestTypes, Starter, BeginCheck, BeginMark, BeginEnqueue, Complete
  <1>3. CASE AskCancel \/ Canceler
    BY <1>3 DEF RequestTypes, AskCancel, Canceler, CancelFlag, CancelWake, CancelHandoff,
           Complete
  <1>4. CASE WorkerEntry \/ WorkerCheck \/ WorkerPrepare
    BY <1>4 DEF RequestTypes, WorkerEntry, WorkerCheck, WorkerPrepare, MaskAll, Other
  <1>5. CASE WorkerDisable \/ WorkerSelect
    BY <1>5 DEF RequestTypes, WorkerDisable, WorkerSelect, DisableFails, Other
  <1>6. CASE LoopClear \/ LoopCheck \/ LoopLock \/ LoopWoken \/ LoopTimeout
    BY <1>6 DEF RequestTypes, LoopClear, LoopCheck, LoopLock, LoopWoken, LoopTimeout, Other
  <1>7. CASE PumpRaw
    BY <1>7 DEF RequestTypes, PumpRaw, Unlock, Goes, Other
  <1>8. CASE PumpDrain
    BY <1>8 DEF RequestTypes, PumpDrain, Unlock, Goes, Other
  <1>9. CASE PumpFill
    BY <1>9 DEF RequestTypes, PumpFill, Unlock, Rearm, Other
  <1>10. CASE FinishMask \/ FinishDisable
    BY <1>10 DEF RequestTypes, FinishMask, FinishDisable, MaskAll, DisableFails, Off, Other
  <1>11. CASE FinishDeselect \/ FinishCopy
    BY <1>11 DEF RequestTypes, FinishDeselect, FinishCopy, Other
  <1>12. CASE Publish \/ Unmark \/ Handoff
    BY <1>12 DEF RequestTypes, Publish, Unmark, Handoff, Complete
  <1>13. CASE Isr \/ Dpc
    BY <1>13 DEF RequestTypes, Isr, Dpc
  <1>14. CASE Start
    BY <1>14 DEF RequestTypes, Start, Prepare, Release, StartClock, StartRoute, InterruptEnable,
           Rest
  <1>15. CASE Stop
    BY <1>15 DEF RequestTypes, Stop, InterruptDisable, StopWake, StopEngine, StopRoute,
           StopClock, Off, DisableFails, Rest
  <1>16. CASE SpiConnect \/ SpiDisconnect
    BY <1>16 DEF RequestTypes, SpiConnect, SpiDisconnect, Rest
  <1>17. CASE Engine \/ DeadlinePasses
    BY <1>17 DEF RequestTypes, Engine, ShiftIn, ShiftOut, EngineFails, DeadlinePasses, Outside
  <1>18. CASE UNCHANGED vars
    BY <1>18 DEF RequestTypes, vars
  <1> QED BY <1>1, <1>2, <1>3, <1>4, <1>5, <1>6, <1>7, <1>8, <1>9, <1>10, <1>11, <1>12, <1>13,
             <1>14, <1>15, <1>16, <1>17, <1>18 DEF Next, Worker, Loop, Pump, Finish

WaitTypes ==
  wake \in BOOLEAN /\ dpc \in BOOLEAN /\ locked \in BOOLEAN

\* Every step keeps the event, the DPC and the lock.
LEMMA WaitTypeStep ==
  ASSUME WaitTypes, [Next]_vars
  PROVE  WaitTypes'
  <1> USE DEF device, request, progress, fifos, hw
  <1>1. CASE \E p \in Plans : Begin(p)
    BY <1>1 DEF WaitTypes, Begin
  <1>2. CASE Starter
    BY <1>2 DEF WaitTypes, Starter, BeginCheck, BeginMark, BeginEnqueue, Complete
  <1>3. CASE AskCancel \/ Canceler
    BY <1>3 DEF WaitTypes, AskCancel, Canceler, CancelFlag, CancelWake, CancelHandoff, Complete
  <1>4. CASE WorkerEntry \/ WorkerCheck \/ WorkerPrepare
    BY <1>4 DEF WaitTypes, WorkerEntry, WorkerCheck, WorkerPrepare, MaskAll, Other
  <1>5. CASE WorkerDisable \/ WorkerSelect
    BY <1>5 DEF WaitTypes, WorkerDisable, WorkerSelect, DisableFails, Other
  <1>6. CASE LoopClear \/ LoopCheck \/ LoopLock \/ LoopWoken \/ LoopTimeout
    BY <1>6 DEF WaitTypes, LoopClear, LoopCheck, LoopLock, LoopWoken, LoopTimeout, Other
  <1>7. CASE PumpRaw
    BY <1>7 DEF WaitTypes, PumpRaw, Unlock, Goes, Other
  <1>8. CASE PumpDrain
    BY <1>8 DEF WaitTypes, PumpDrain, Unlock, Goes, Other
  <1>9. CASE PumpFill
    BY <1>9 DEF WaitTypes, PumpFill, Unlock, Rearm, Other
  <1>10. CASE FinishMask \/ FinishDisable
    BY <1>10 DEF WaitTypes, FinishMask, FinishDisable, MaskAll, DisableFails, Off, Other
  <1>11. CASE FinishDeselect \/ FinishCopy
    BY <1>11 DEF WaitTypes, FinishDeselect, FinishCopy, Other
  <1>12. CASE Publish \/ Unmark \/ Handoff
    BY <1>12 DEF WaitTypes, Publish, Unmark, Handoff, Complete
  <1>13. CASE Isr \/ Dpc
    BY <1>13 DEF WaitTypes, Isr, Dpc
  <1>14. CASE Start
    BY <1>14 DEF WaitTypes, Start, Prepare, Release, StartClock, StartRoute, InterruptEnable,
           Rest
  <1>15. CASE Stop
    BY <1>15 DEF WaitTypes, Stop, InterruptDisable, StopWake, StopEngine, StopRoute, StopClock,
           Off, DisableFails, Rest
  <1>16. CASE SpiConnect \/ SpiDisconnect
    BY <1>16 DEF WaitTypes, SpiConnect, SpiDisconnect, Rest
  <1>17. CASE Engine \/ DeadlinePasses
    BY <1>17 DEF WaitTypes, Engine, ShiftIn, ShiftOut, EngineFails, DeadlinePasses, Outside
  <1>18. CASE UNCHANGED vars
    BY <1>18 DEF WaitTypes, vars
  <1> QED BY <1>1, <1>2, <1>3, <1>4, <1>5, <1>6, <1>7, <1>8, <1>9, <1>10, <1>11, <1>12, <1>13,
             <1>14, <1>15, <1>16, <1>17, <1>18 DEF Next, Worker, Loop, Pump, Finish

EngineTypes ==
  online \in BOOLEAN /\ enabled \in BOOLEAN /\ select \in BOOLEAN /\ pins \in BOOLEAN

\* Every step keeps the switches of the engine and of its chip select.
LEMMA EngineTypeStep ==
  ASSUME EngineTypes, [Next]_vars
  PROVE  EngineTypes'
  <1> USE DEF device, request, progress, fifos, hw
  <1>1. CASE \E p \in Plans : Begin(p)
    BY <1>1 DEF EngineTypes, Begin
  <1>2. CASE Starter
    BY <1>2 DEF EngineTypes, Starter, BeginCheck, BeginMark, BeginEnqueue, Complete
  <1>3. CASE AskCancel \/ Canceler
    BY <1>3 DEF EngineTypes, AskCancel, Canceler, CancelFlag, CancelWake, CancelHandoff,
           Complete
  <1>4. CASE WorkerEntry \/ WorkerCheck \/ WorkerPrepare
    BY <1>4 DEF EngineTypes, WorkerEntry, WorkerCheck, WorkerPrepare, MaskAll, Other
  <1>5. CASE WorkerDisable \/ WorkerSelect
    BY <1>5 DEF EngineTypes, WorkerDisable, WorkerSelect, DisableFails, Other
  <1>6. CASE LoopClear \/ LoopCheck \/ LoopLock \/ LoopWoken \/ LoopTimeout
    BY <1>6 DEF EngineTypes, LoopClear, LoopCheck, LoopLock, LoopWoken, LoopTimeout, Other
  <1>7. CASE PumpRaw
    BY <1>7 DEF EngineTypes, PumpRaw, Unlock, Goes, Other
  <1>8. CASE PumpDrain
    BY <1>8 DEF EngineTypes, PumpDrain, Unlock, Goes, Other
  <1>9. CASE PumpFill
    BY <1>9 DEF EngineTypes, PumpFill, Unlock, Rearm, Other
  <1>10. CASE FinishMask \/ FinishDisable
    BY <1>10 DEF EngineTypes, FinishMask, FinishDisable, MaskAll, DisableFails, Off, Other
  <1>11. CASE FinishDeselect \/ FinishCopy
    BY <1>11 DEF EngineTypes, FinishDeselect, FinishCopy, Other
  <1>12. CASE Publish \/ Unmark \/ Handoff
    BY <1>12 DEF EngineTypes, Publish, Unmark, Handoff, Complete
  <1>13. CASE Isr \/ Dpc
    BY <1>13 DEF EngineTypes, Isr, Dpc
  <1>14. CASE Start
    BY <1>14 DEF EngineTypes, Start, Prepare, Release, StartClock, StartRoute, InterruptEnable,
           Rest
  <1>15. CASE Stop
    BY <1>15 DEF EngineTypes, Stop, InterruptDisable, StopWake, StopEngine, StopRoute,
           StopClock, Off, DisableFails, Rest
  <1>16. CASE SpiConnect \/ SpiDisconnect
    BY <1>16 DEF EngineTypes, SpiConnect, SpiDisconnect, Rest
  <1>17. CASE Engine \/ DeadlinePasses
    BY <1>17 DEF EngineTypes, Engine, ShiftIn, ShiftOut, EngineFails, DeadlinePasses, Outside
  <1>18. CASE UNCHANGED vars
    BY <1>18 DEF EngineTypes, vars
  <1> QED BY <1>1, <1>2, <1>3, <1>4, <1>5, <1>6, <1>7, <1>8, <1>9, <1>10, <1>11, <1>12, <1>13,
             <1>14, <1>15, <1>16, <1>17, <1>18 DEF Next, Worker, Loop, Pump, Finish

StatusTypes ==
  status \in {"none", "ok", "error", "cancelled", "power", "timeout", "not ready"}

\* Every step keeps the status.
LEMMA StatusTypeStep ==
  ASSUME StatusTypes, [Next]_vars
  PROVE  StatusTypes'
  <1> USE DEF device, request, progress, fifos, hw
  <1>1. CASE \E p \in Plans : Begin(p)
    BY <1>1 DEF StatusTypes, Begin
  <1>2. CASE Starter
    BY <1>2 DEF StatusTypes, Starter, BeginCheck, BeginMark, BeginEnqueue, Complete
  <1>3. CASE AskCancel \/ Canceler
    BY <1>3 DEF StatusTypes, AskCancel, Canceler, CancelFlag, CancelWake, CancelHandoff,
           Complete
  <1>4. CASE WorkerEntry \/ WorkerCheck \/ WorkerPrepare
    BY <1>4 DEF StatusTypes, WorkerEntry, WorkerCheck, WorkerPrepare, MaskAll, Other
  <1>5. CASE WorkerDisable \/ WorkerSelect
    BY <1>5 DEF StatusTypes, WorkerDisable, WorkerSelect, DisableFails, Other
  <1>6. CASE LoopClear \/ LoopCheck \/ LoopLock \/ LoopWoken \/ LoopTimeout
    BY <1>6 DEF StatusTypes, LoopClear, LoopCheck, LoopLock, LoopWoken, LoopTimeout, Other
  <1>7. CASE PumpRaw
    BY <1>7 DEF StatusTypes, PumpRaw, Unlock, Goes, Other
  <1>8. CASE PumpDrain
    BY <1>8 DEF StatusTypes, PumpDrain, Unlock, Goes, Other
  <1>9. CASE PumpFill
    BY <1>9 DEF StatusTypes, PumpFill, Unlock, Rearm, Other
  <1>10. CASE FinishMask \/ FinishDisable
    BY <1>10 DEF StatusTypes, FinishMask, FinishDisable, MaskAll, DisableFails, Off, Other
  <1>11. CASE FinishDeselect \/ FinishCopy
    BY <1>11 DEF StatusTypes, FinishDeselect, FinishCopy, Other
  <1>12. CASE Publish \/ Unmark \/ Handoff
    BY <1>12 DEF StatusTypes, Publish, Unmark, Handoff, Complete
  <1>13. CASE Isr \/ Dpc
    BY <1>13 DEF StatusTypes, Isr, Dpc
  <1>14. CASE Start
    BY <1>14 DEF StatusTypes, Start, Prepare, Release, StartClock, StartRoute, InterruptEnable,
           Rest
  <1>15. CASE Stop
    BY <1>15 DEF StatusTypes, Stop, InterruptDisable, StopWake, StopEngine, StopRoute,
           StopClock, Off, DisableFails, Rest
  <1>16. CASE SpiConnect \/ SpiDisconnect
    BY <1>16 DEF StatusTypes, SpiConnect, SpiDisconnect, Rest
  <1>17. CASE Engine \/ DeadlinePasses
    BY <1>17 DEF StatusTypes, Engine, ShiftIn, ShiftOut, EngineFails, DeadlinePasses, Outside
  <1>18. CASE UNCHANGED vars
    BY <1>18 DEF StatusTypes, vars
  <1> QED BY <1>1, <1>2, <1>3, <1>4, <1>5, <1>6, <1>7, <1>8, <1>9, <1>10, <1>11, <1>12, <1>13,
             <1>14, <1>15, <1>16, <1>17, <1>18 DEF Next, Worker, Loop, Pump, Finish

RawTypes ==
  raw \subseteq {"stop", "abort", "error"}

\* Every step keeps what the engine latches.
LEMMA RawTypeStep ==
  ASSUME RawTypes, [Next]_vars
  PROVE  RawTypes'
  <1> USE DEF device, request, progress, fifos, hw
  <1>1. CASE \E p \in Plans : Begin(p)
    BY <1>1 DEF RawTypes, Begin
  <1>2. CASE Starter
    BY <1>2 DEF RawTypes, Starter, BeginCheck, BeginMark, BeginEnqueue, Complete
  <1>3. CASE AskCancel \/ Canceler
    BY <1>3 DEF RawTypes, AskCancel, Canceler, CancelFlag, CancelWake, CancelHandoff, Complete
  <1>4. CASE WorkerEntry \/ WorkerCheck \/ WorkerPrepare
    BY <1>4 DEF RawTypes, WorkerEntry, WorkerCheck, WorkerPrepare, MaskAll, Other
  <1>5. CASE WorkerDisable \/ WorkerSelect
    BY <1>5 DEF RawTypes, WorkerDisable, WorkerSelect, DisableFails, Other
  <1>6. CASE LoopClear \/ LoopCheck \/ LoopLock \/ LoopWoken \/ LoopTimeout
    BY <1>6 DEF RawTypes, LoopClear, LoopCheck, LoopLock, LoopWoken, LoopTimeout, Other
  <1>7. CASE PumpRaw
    BY <1>7 DEF RawTypes, PumpRaw, Unlock, Goes, Other
  <1>8. CASE PumpDrain
    BY <1>8 DEF RawTypes, PumpDrain, Unlock, Goes, Other
  <1>9. CASE PumpFill
    BY <1>9 DEF RawTypes, PumpFill, Unlock, Rearm, Other
  <1>10. CASE FinishMask \/ FinishDisable
    BY <1>10 DEF RawTypes, FinishMask, FinishDisable, MaskAll, DisableFails, Off, Other
  <1>11. CASE FinishDeselect \/ FinishCopy
    BY <1>11 DEF RawTypes, FinishDeselect, FinishCopy, Other
  <1>12. CASE Publish \/ Unmark \/ Handoff
    BY <1>12 DEF RawTypes, Publish, Unmark, Handoff, Complete
  <1>13. CASE Isr \/ Dpc
    BY <1>13 DEF RawTypes, Isr, Dpc
  <1>14. CASE Start
    BY <1>14 DEF RawTypes, Start, Prepare, Release, StartClock, StartRoute, InterruptEnable,
           Rest
  <1>15. CASE Stop
    BY <1>15 DEF RawTypes, Stop, InterruptDisable, StopWake, StopEngine, StopRoute, StopClock,
           Off, DisableFails, Rest
  <1>16. CASE SpiConnect \/ SpiDisconnect
    BY <1>16 DEF RawTypes, SpiConnect, SpiDisconnect, Rest
  <1>17. CASE Engine \/ DeadlinePasses
    BY <1>17 DEF RawTypes, Engine, ShiftIn, ShiftOut, EngineFails, DeadlinePasses, Outside
  <1>18. CASE UNCHANGED vars
    BY <1>18 DEF RawTypes, vars
  <1> QED BY <1>1, <1>2, <1>3, <1>4, <1>5, <1>6, <1>7, <1>8, <1>9, <1>10, <1>11, <1>12, <1>13,
             <1>14, <1>15, <1>16, <1>17, <1>18 DEF Next, Worker, Loop, Pump, Finish

MaskTypes ==
  lease \subseteq {"clock", "route"} /\ mask \subseteq Irqs

\* Every step keeps the leases and the interrupts that are enabled.
LEMMA MaskTypeStep ==
  ASSUME MaskTypes, [Next]_vars
  PROVE  MaskTypes'
  <1> USE DEF device, request, progress, fifos, hw
  <1> USE DEF Irqs
  <1>1. CASE \E p \in Plans : Begin(p)
    BY <1>1 DEF MaskTypes, Begin
  <1>2. CASE Starter
    BY <1>2 DEF MaskTypes, Starter, BeginCheck, BeginMark, BeginEnqueue, Complete
  <1>3. CASE AskCancel \/ Canceler
    BY <1>3 DEF MaskTypes, AskCancel, Canceler, CancelFlag, CancelWake, CancelHandoff, Complete
  <1>4. CASE WorkerEntry \/ WorkerCheck \/ WorkerPrepare
    BY <1>4 DEF MaskTypes, WorkerEntry, WorkerCheck, WorkerPrepare, MaskAll, Other
  <1>5. CASE WorkerDisable \/ WorkerSelect
    BY <1>5 DEF MaskTypes, WorkerDisable, WorkerSelect, DisableFails, Other
  <1>6. CASE LoopClear \/ LoopCheck \/ LoopLock \/ LoopWoken \/ LoopTimeout
    BY <1>6 DEF MaskTypes, LoopClear, LoopCheck, LoopLock, LoopWoken, LoopTimeout, Other
  <1>7. CASE PumpRaw
    BY <1>7 DEF MaskTypes, PumpRaw, Unlock, Goes, Other
  <1>8. CASE PumpDrain
    BY <1>8 DEF MaskTypes, PumpDrain, Unlock, Goes, Other
  <1>9. CASE PumpFill
    BY <1>9 DEF MaskTypes, PumpFill, Unlock, Rearm, Other
  <1>10. CASE FinishMask \/ FinishDisable
    BY <1>10 DEF MaskTypes, FinishMask, FinishDisable, MaskAll, DisableFails, Off, Other
  <1>11. CASE FinishDeselect \/ FinishCopy
    BY <1>11 DEF MaskTypes, FinishDeselect, FinishCopy, Other
  <1>12. CASE Publish \/ Unmark \/ Handoff
    BY <1>12 DEF MaskTypes, Publish, Unmark, Handoff, Complete
  <1>13. CASE Isr \/ Dpc
    BY <1>13 DEF MaskTypes, Isr, Dpc
  <1>14. CASE Start
    BY <1>14 DEF MaskTypes, Start, Prepare, Release, StartClock, StartRoute, InterruptEnable,
           Rest
  <1>15. CASE Stop
    BY <1>15 DEF MaskTypes, Stop, InterruptDisable, StopWake, StopEngine, StopRoute, StopClock,
           Off, DisableFails, Rest
  <1>16. CASE SpiConnect \/ SpiDisconnect
    BY <1>16 DEF MaskTypes, SpiConnect, SpiDisconnect, Rest
  <1>17. CASE Engine \/ DeadlinePasses
    BY <1>17 DEF MaskTypes, Engine, ShiftIn, ShiftOut, EngineFails, DeadlinePasses, Outside
  <1>18. CASE UNCHANGED vars
    BY <1>18 DEF MaskTypes, vars
  <1> QED BY <1>1, <1>2, <1>3, <1>4, <1>5, <1>6, <1>7, <1>8, <1>9, <1>10, <1>11, <1>12, <1>13,
             <1>14, <1>15, <1>16, <1>17, <1>18 DEF Next, Worker, Loop, Pump, Finish

PlanTypes ==
  plan \in Plans \union {<<>>} /\ count \in 0..MaxRequests

\* Every step keeps the requests and their number.
LEMMA PlanTypeStep ==
  ASSUME PlanTypes, [Next]_vars
  PROVE  PlanTypes'
  <1> USE DEF device, request, progress, fifos, hw
  <1>1. CASE \E p \in Plans : Begin(p)
    <2>1. plan' \in Plans /\ count < MaxRequests /\ count' = count + 1
      BY <1>1 DEF Begin
    <2>2. MaxRequests \in Nat
      BY SpbAssumption
    <2> QED BY <2>1, <2>2 DEF PlanTypes
  <1>2. CASE Starter
    BY <1>2 DEF PlanTypes, Starter, BeginCheck, BeginMark, BeginEnqueue, Complete
  <1>3. CASE AskCancel \/ Canceler
    BY <1>3 DEF PlanTypes, AskCancel, Canceler, CancelFlag, CancelWake, CancelHandoff, Complete
  <1>4. CASE WorkerEntry \/ WorkerCheck \/ WorkerPrepare
    BY <1>4 DEF PlanTypes, WorkerEntry, WorkerCheck, WorkerPrepare, MaskAll, Other
  <1>5. CASE WorkerDisable \/ WorkerSelect
    BY <1>5 DEF PlanTypes, WorkerDisable, WorkerSelect, DisableFails, Other
  <1>6. CASE LoopClear \/ LoopCheck \/ LoopLock \/ LoopWoken \/ LoopTimeout
    BY <1>6 DEF PlanTypes, LoopClear, LoopCheck, LoopLock, LoopWoken, LoopTimeout, Other
  <1>7. CASE PumpRaw
    BY <1>7 DEF PlanTypes, PumpRaw, Unlock, Goes, Other
  <1>8. CASE PumpDrain
    BY <1>8 DEF PlanTypes, PumpDrain, Unlock, Goes, Other
  <1>9. CASE PumpFill
    BY <1>9 DEF PlanTypes, PumpFill, Unlock, Rearm, Other
  <1>10. CASE FinishMask \/ FinishDisable
    BY <1>10 DEF PlanTypes, FinishMask, FinishDisable, MaskAll, DisableFails, Off, Other
  <1>11. CASE FinishDeselect \/ FinishCopy
    BY <1>11 DEF PlanTypes, FinishDeselect, FinishCopy, Other
  <1>12. CASE Publish \/ Unmark \/ Handoff
    BY <1>12 DEF PlanTypes, Publish, Unmark, Handoff, Complete
  <1>13. CASE Isr \/ Dpc
    BY <1>13 DEF PlanTypes, Isr, Dpc
  <1>14. CASE Start
    BY <1>14 DEF PlanTypes, Start, Prepare, Release, StartClock, StartRoute, InterruptEnable,
           Rest
  <1>15. CASE Stop
    BY <1>15 DEF PlanTypes, Stop, InterruptDisable, StopWake, StopEngine, StopRoute, StopClock,
           Off, DisableFails, Rest
  <1>16. CASE SpiConnect \/ SpiDisconnect
    BY <1>16 DEF PlanTypes, SpiConnect, SpiDisconnect, Rest
  <1>17. CASE Engine \/ DeadlinePasses
    BY <1>17 DEF PlanTypes, Engine, ShiftIn, ShiftOut, EngineFails, DeadlinePasses, Outside
  <1>18. CASE UNCHANGED vars
    BY <1>18 DEF PlanTypes, vars
  <1> QED BY <1>1, <1>2, <1>3, <1>4, <1>5, <1>6, <1>7, <1>8, <1>9, <1>10, <1>11, <1>12, <1>13,
             <1>14, <1>15, <1>16, <1>17, <1>18 DEF Next, Worker, Loop, Pump, Finish

\* What holds of the SpbCx controllers, their types included.
SpbInv ==
  /\ HandoffInv /\ ClockInv /\ FifoInv
  /\ RequestTypes /\ WaitTypes /\ EngineTypes /\ StatusTypes /\ RawTypes /\ MaskTypes /\ PlanTypes

LEMMA SpbInit == Init => SpbInv
  <1> SUFFICES ASSUME Init PROVE SpbInv
    OBVIOUS
  <1>1. HandoffInv /\ ClockInv /\ FifoInv
    BY HandoffInit, ClockInit, FifoInit
  <1>2. 0 \in 0..MaxRequests
    BY SpbAssumption
  <1>3. RequestTypes /\ WaitTypes /\ EngineTypes /\ StatusTypes /\ RawTypes /\ MaskTypes
    BY DEF Init, RequestTypes, WaitTypes, EngineTypes, StatusTypes, RawTypes, MaskTypes, Irqs
  <1>4. PlanTypes
    BY <1>2 DEF Init, PlanTypes
  <1> QED BY <1>1, <1>3, <1>4 DEF SpbInv

LEMMA SpbStep == SpbInv /\ [Next]_vars => SpbInv'
  BY HandoffStep, ClockStep, FifoStep, RequestTypeStep, WaitTypeStep, EngineTypeStep,
     StatusTypeStep, RawTypeStep, MaskTypeStep, PlanTypeStep
  DEF SpbInv

LEMMA SpbTypes == SpbInv => TypeOK
  <1> SUFFICES ASSUME SpbInv PROVE TypeOK
    OBVIOUS
  <1>1. /\ bus \in {"i2c", "spi"} /\ sent \in Nat /\ inbox \in Seq(Nat) /\ txf \in Seq(Nat)
        /\ shift \in Nat /\ rxf \in Seq(Nat)
    BY DEF SpbInv, FifoInv, InLine
  <1>2. /\ slot \in BOOLEAN /\ starter \in {"none", "check", "mark", "enqueue"}
        /\ canceler \in {"none", "flag", "wake", "handoff"}
        /\ cancelable \in {"no", "yes", "called"} /\ completion \subseteq {1, 2} /\ ended \in Nat
        /\ worker \in Working \union {"idle", "unmark", "handoff"}
    <2>1. HandoffTypes
      BY DEF SpbInv, HandoffInv
    <2> QED BY <2>1 DEF HandoffTypes
  <1>3. /\ pnp \in {"out", "idle", "clocked", "started", "running", "stopping", "flushing",
                    "unroute", "unclock"}
    BY DEF SpbInv, ClockInv
  <1>4. /\ online \in BOOLEAN /\ mapped \in BOOLEAN
        /\ asked \in BOOLEAN /\ cancelled \in BOOLEAN /\ stopped \in BOOLEAN /\ late \in BOOLEAN
        /\ wake \in BOOLEAN /\ dpc \in BOOLEAN /\ locked \in BOOLEAN
        /\ enabled \in BOOLEAN /\ select \in BOOLEAN /\ pins \in BOOLEAN
    BY DEF SpbInv, RequestTypes, WaitTypes, EngineTypes
  <1>5. /\ status \in {"none", "ok", "error", "cancelled", "power", "timeout", "not ready"}
        /\ raw \subseteq {"stop", "abort", "error"} /\ mask \subseteq Irqs
        /\ lease \subseteq {"clock", "route"}
        /\ plan \in Plans \union {<<>>} /\ count \in 0..MaxRequests
    BY DEF SpbInv, StatusTypes, RawTypes, MaskTypes, PlanTypes
  <1>6. worker \in {"idle", "entry", "check", "prepare", "disable", "select", "clear",
                    "check in loop", "lock", "raw", "drain", "fill", "sleep", "quiet", "down",
                    "deselect", "copy", "publish", "unmark", "handoff"}
    BY <1>2 DEF Working, AtEngine
  <1> QED BY <1>1, <1>2, <1>3, <1>4, <1>5, <1>6 DEF TypeOK

-------------------------------------------------------------------------------
(* The hand-off of notifications (SerCx2), of both UARTs.                  *)

\* Who answers for a notification: the flag, or one of the processors.  It says what
\* AnsweredOnce says without counting the processors.
OneAnswerer(cpus, owed, armed, committed) ==
  \A k \in {"rx", "tx"} :
    /\ k \in armed => k \in owed
    /\ \A c \in cpus : k \in committed[c] => k \in owed /\ k \notin armed
    /\ \A c, d \in cpus : k \in committed[c] /\ k \in committed[d] => c = d
    /\ k \in owed => k \in armed \/ \E c \in cpus : k \in committed[c]

\* The header UART: its answerers, and what is left of it when its file is closed or its
\* power is going.
UartInv ==
  /\ OneAnswerer(Cpus, u_owed, u_armed, u_committed)
  /\ "drain" \in u_owed <=> draining \/ expired = "drain"
  /\ "purge" \in u_owed <=> purging \/ expired = "purge"
  /\ "drain" \in u_owed => "purge" \notin u_owed
  /\ draining => expired # "drain"
  /\ purging => expired # "purge"
  /\ u_online => u_power = "on"
  /\ u_power # "on" \/ ~u_open => u_owed = {}
  /\ u_power \in {"off", "gone"} => u_timer = "off" /\ expired = "no"

\* The erratum has been seen and its dummy read is yet to be made.
QuirkTaken == "quirk" \in b_committed[Cpu]

\* The Bluetooth UART: its answerers, its power, and the masks that follow the flags.
BcmInv ==
  /\ OneAnswerer({Cpu}, b_owed, b_armed, b_committed)
  /\ b_online => b_power = "on"
  /\ b_power # "on" \/ ~b_open => b_owed = {}
  /\ b_power \notin {"on", "quiet"} => ~b_queued /\ b_committed[Cpu] = {}
  /\ b_power \in {"off", "gone"} => b_timer = "off"
  /\ B!FlowFollowsFlags

\* While no session was closed with the dummy read under way, the read is due in one place at
\* most, the peer is held off until it is made, and the byte that was on the wire lands first.
QuirkInv ==
  /\ ~stale =>
       /\ quirkDue => quirk /\ ~QuirkTaken /\ b_timer = "off"
       /\ QuirkTaken => quirk /\ b_timer = "off"
       /\ b_timer # "off" => quirk \/ b_power = "stopping"
       /\ b_timer = "fired" => ~wire
       /\ b_timer = "due" /\ wire => wait
       /\ ~b_open => ~quirk /\ ~QuirkTaken /\ b_timer = "off"
       /\ b_power \notin {"on", "quiet"} => ~quirk
  /\ B!DummyReadIsSafe

\* SerCx2 enables a notification that it does not wait for.
LEMMA NotificationEnabled ==
  ASSUME NEW cpus, NEW owed, NEW armed, NEW committed, NEW k \in {"rx", "tx"}, k \notin owed,
         OneAnswerer(cpus, owed, armed, committed)
  PROVE  OneAnswerer(cpus, owed \union {k}, armed \union {k}, committed)
  BY DEF OneAnswerer

\* It takes one back that nobody answers yet; from a DPC it does not.
LEMMA NotificationCancelled ==
  ASSUME NEW cpus, NEW owed, NEW armed, NEW committed, NEW k,
         OneAnswerer(cpus, owed, armed, committed)
  PROVE  OneAnswerer(cpus, IF k \in armed THEN owed \ {k} ELSE owed, armed \ {k}, committed)
  BY DEF OneAnswerer

\* A DPC that has nothing to announce takes what is armed.
LEMMA NotificationTaken ==
  ASSUME NEW cpus, NEW owed, NEW armed, NEW S, NEW committed \in [cpus -> S],
         NEW cpu \in cpus, NEW taken, taken \subseteq armed, committed[cpu] = {},
         NEW more, more \intersect {"rx", "tx"} = {},
         OneAnswerer(cpus, owed, armed, committed)
  PROVE  OneAnswerer(cpus, owed, armed \ taken, [committed EXCEPT ![cpu] = taken \union more])
  <1> DEFINE now == [committed EXCEPT ![cpu] = taken \union more]
  <1>1. now[cpu] = taken \union more /\ \A c \in cpus : c # cpu => now[c] = committed[c]
    OBVIOUS
  <1> HIDE DEF now
  <1> QED BY <1>1 DEF OneAnswerer

\* A DPC announces what it has taken.
LEMMA NotificationAnnounced ==
  ASSUME NEW cpus, NEW owed, NEW armed, NEW S, NEW committed \in [cpus -> S],
         NEW cpu \in cpus, NEW k \in committed[cpu],
         OneAnswerer(cpus, owed, armed, committed)
  PROVE  OneAnswerer(cpus, owed \ {k}, armed, [committed EXCEPT ![cpu] = @ \ {k}])
  <1> DEFINE now == [committed EXCEPT ![cpu] = @ \ {k}]
  <1>1. now[cpu] = committed[cpu] \ {k} /\ \A c \in cpus : c # cpu => now[c] = committed[c]
    OBVIOUS
  <1> HIDE DEF now
  <1> QED BY <1>1 DEF OneAnswerer

\* Nothing else that SerCx2 waits for, or a DPC does, concerns the two.
LEMMA NotificationKept ==
  ASSUME NEW cpus, NEW owed, NEW armed, NEW committed, NEW next, NEW now,
         next \intersect {"rx", "tx"} = owed \intersect {"rx", "tx"},
         \A c \in cpus : now[c] \intersect {"rx", "tx"} = committed[c] \intersect {"rx", "tx"},
         OneAnswerer(cpus, owed, armed, committed)
  PROVE  OneAnswerer(cpus, next, armed, now)
  BY DEF OneAnswerer

\* The flag and the processors, counted as Holders does in either driver.
Answerers(cpus, armed, committed, k) ==
  Cardinality({cpu \in cpus : k \in committed[cpu]}) + (IF k \in armed THEN 1 ELSE 0)

\* The cardinality that either driver's module counts with is the one of FiniteSets.
LEMMA SameCardinality ==
  \A S : U!Cardinality(S) = Cardinality(S) /\ B!Cardinality(S) = Cardinality(S)
  <1>1. ASSUME NEW S PROVE U!Cardinality(S) = Cardinality(S)
    BY DEF U!Cardinality, Cardinality
  <1>2. ASSUME NEW S PROVE B!Cardinality(S) = Cardinality(S)
    BY DEF B!Cardinality, Cardinality
  <1> QED BY <1>1, <1>2

\* Counted, the answerers of a notification are one if SerCx2 waits for it and none if not.
LEMMA AnswerersCounted ==
  ASSUME NEW cpus, NEW owed, NEW armed, NEW committed, NEW k \in {"rx", "tx"},
         OneAnswerer(cpus, owed, armed, committed)
  PROVE  Answerers(cpus, armed, committed, k) = IF k \in owed THEN 1 ELSE 0
  <1> DEFINE taken == {cpu \in cpus : k \in committed[cpu]}
  <1> USE DEF Answerers
  <1>1. CASE \E c \in cpus : k \in committed[c]
    <2>1. PICK c \in cpus : k \in committed[c]
      BY <1>1
    <2>2. taken = {c} /\ k \in owed /\ k \notin armed
      BY <2>1 DEF OneAnswerer
    <2>3. Cardinality(taken) = 1
      BY <2>2, FS_Singleton
    <2> QED BY <2>2, <2>3
  <1>2. CASE \A c \in cpus : k \notin committed[c]
    <2>1. taken = {} /\ (k \in owed <=> k \in armed)
      BY <1>2 DEF OneAnswerer
    <2>2. Cardinality(taken) = 0
      BY <2>1, FS_EmptySet
    <2> QED BY <2>1, <2>2
  <1> QED BY <1>1, <1>2

\* What the header UART's answerers rest on: SerCx2 and the DPC.
LEMMA UartAnswerers ==
  ASSUME U!TypeOK, UartInv, U!Next
  PROVE  OneAnswerer(Cpus, u_owed, u_armed, u_committed)'
  <1> USE DEF U!sercx, U!drain, U!rxhw, U!txhw, U!device
  <1>0. /\ OneAnswerer(Cpus, u_owed, u_armed, u_committed)
        /\ u_committed \in [Cpus -> SUBSET (U!Kinds \union {"quirk", "running"})]
    BY DEF UartInv, U!TypeOK, U!SerCxTypeOK
  <1>q. ASSUME UNCHANGED <<u_owed, u_armed, u_committed>>
        PROVE  OneAnswerer(Cpus, u_owed, u_armed, u_committed)'
    BY <1>0, <1>q
  <1>k. ASSUME u_owed' \intersect {"rx", "tx"} = u_owed \intersect {"rx", "tx"},
               UNCHANGED <<u_armed, u_committed>>
        PROVE  OneAnswerer(Cpus, u_owed, u_armed, u_committed)'
    BY <1>0, <1>k, NotificationKept
  <1>e. ASSUME NEW k \in {"rx", "tx"}, NEW now, U!Enable(k, now)
        PROVE  OneAnswerer(Cpus, u_owed, u_armed, u_committed)'
    BY <1>0, <1>e, NotificationEnabled DEF U!Enable
  <1>c. ASSUME NEW k \in {"rx", "tx"}, U!Cancel(k)
        PROVE  OneAnswerer(Cpus, u_owed, u_armed, u_committed)'
    BY <1>0, <1>c, NotificationCancelled DEF U!Cancel
  <1>1. CASE U!Prepare
    BY <1>q, <1>1 DEF U!Prepare
  <1>2. CASE U!Release
    BY <1>q, <1>2 DEF U!Release
  <1>3. CASE U!Start
    BY <1>q, <1>3 DEF U!Start
  <1>4. CASE U!StartFails
    BY <1>q, <1>4 DEF U!StartFails
  <1>5. CASE U!InterruptEnable
    BY <1>q, <1>5 DEF U!InterruptEnable
  <1>6. CASE U!InterruptDisable
    BY <1>q, <1>6 DEF U!InterruptDisable
  <1>7. CASE U!Stop
    BY <1>q, <1>7 DEF U!Stop
  <1>8. CASE U!StopRestore
    BY <1>q, <1>8 DEF U!StopRestore
  <1>9. CASE U!Close
    BY <1>q, <1>9 DEF U!Close
  <1>10. CASE U!Control
    BY <1>q, <1>10 DEF U!Control
  <1>11. CASE U!Isr
    BY <1>q, <1>11 DEF U!Isr
  <1>12. CASE U!Receive
    BY <1>q, <1>12 DEF U!Receive
  <1>13. CASE U!Transmit
    BY <1>q, <1>13 DEF U!Transmit
  <1>14. CASE U!Purge
    BY <1>q, <1>14 DEF U!Purge
  <1>15. CASE U!DrainCancelStops
    BY <1>q, <1>15 DEF U!DrainCancelStops
  <1>16. CASE U!DrainTimer
    BY <1>q, <1>16 DEF U!DrainTimer
  <1>17. CASE U!Arrive
    BY <1>q, <1>17 DEF U!Arrive
  <1>18. CASE U!RxTimeout
    BY <1>q, <1>18 DEF U!RxTimeout
  <1>19. CASE U!Shift
    BY <1>q, <1>19 DEF U!Shift
  <1>20. CASE U!Open
    <2>1. u_owed = {} /\ UNCHANGED <<u_owed, u_committed>> /\ u_armed' = {}
      BY <1>20 DEF U!Open, U!Forget, UartInv
    <2> QED BY <1>0, <2>1 DEF OneAnswerer
  <1>21. CASE U!RxEnable
    BY <1>e, <1>21 DEF U!RxEnable
  <1>22. CASE U!TxEnable
    BY <1>e, <1>22 DEF U!TxEnable
  <1>23. CASE U!RxCancel
    BY <1>c, <1>23 DEF U!RxCancel
  <1>24. CASE U!TxCancel
    BY <1>c, <1>24 DEF U!TxCancel
  <1>25. CASE U!Drain
    BY <1>k, <1>25 DEF U!Drain
  <1>26. CASE U!TxPurge
    BY <1>k, <1>26 DEF U!TxPurge
  <1>27. CASE U!DrainCancel
    BY <1>k, <1>27 DEF U!DrainCancel
  <1>28. CASE U!DrainTimerEnds
    <2>1. expired \notin {"rx", "tx"}
      BY DEF U!TypeOK
    <2> QED BY <1>k, <1>28, <2>1 DEF U!DrainTimerEnds
  <1>29. ASSUME NEW cpu \in Cpus, U!Dpc(cpu)
        PROVE  OneAnswerer(Cpus, u_owed, u_armed, u_committed)'
    <2>1. /\ UNCHANGED u_owed /\ u_committed[cpu] = {}
          /\ u_armed' = u_armed \ (u_armed \intersect u_pending)
          /\ u_committed' = [u_committed EXCEPT ![cpu] =
                                (u_armed \intersect u_pending) \union {"running"}]
      BY <1>29 DEF U!Dpc, U!Commit
    <2> QED BY <1>0, <2>1, NotificationTaken
  <1>30. ASSUME NEW cpu \in Cpus, U!DpcAnnounces(cpu)
        PROVE  OneAnswerer(Cpus, u_owed, u_armed, u_committed)'
    <2>1. ASSUME NEW k \in U!Kinds, U!Announce(cpu, k)
          PROVE  OneAnswerer(Cpus, u_owed, u_armed, u_committed)'
      BY <1>0, <2>1, NotificationAnnounced DEF U!Announce
    <2>2. CASE U!DpcEnds(cpu)
      <3>1. /\ UNCHANGED <<u_owed, u_armed>> /\ u_committed[cpu] = {"running"}
            /\ u_committed' = [u_committed EXCEPT ![cpu] = {}]
        BY <2>2 DEF U!DpcEnds
      <3>2. \A c \in Cpus : u_committed'[c] \intersect {"rx", "tx"}
                             = u_committed[c] \intersect {"rx", "tx"}
        BY <1>0, <3>1
      <3> QED BY <1>0, <3>1, <3>2, NotificationKept
    <2> QED BY <1>30, <2>1, <2>2 DEF U!DpcAnnounces
  <1> QED BY <1>1, <1>2, <1>3, <1>4, <1>5, <1>6, <1>7, <1>8, <1>9, <1>10, <1>11, <1>12, <1>13,
             <1>14, <1>15, <1>16, <1>17, <1>18, <1>19, <1>20, <1>21, <1>22, <1>23, <1>24,
             <1>25, <1>26, <1>27, <1>28, <1>29, <1>30
     DEF U!Next

\* Every step keeps the header UART's invariant.
LEMMA UartStep ==
  ASSUME U!TypeOK, UartInv, U!Next
  PROVE  UartInv'
  <1> USE DEF U!sercx, U!drain, U!rxhw, U!txhw, U!device
  <1>0. OneAnswerer(Cpus, u_owed, u_armed, u_committed)'
    BY UartAnswerers
  <1>t. draining \in BOOLEAN /\ purging \in BOOLEAN /\ u_online \in BOOLEAN /\ u_open \in BOOLEAN
    BY DEF U!TypeOK, U!SerCxTypeOK
  <1>1. CASE U!Prepare
    BY <1>0, <1>t, <1>1 DEF U!Prepare, UartInv
  <1>2. CASE U!Release
    BY <1>0, <1>t, <1>2 DEF U!Release, UartInv
  <1>3. CASE U!Start
    BY <1>0, <1>t, <1>3 DEF U!Start, UartInv
  <1>4. CASE U!StartFails
    BY <1>0, <1>t, <1>4 DEF U!StartFails, UartInv
  <1>5. CASE U!InterruptEnable
    BY <1>0, <1>t, <1>5 DEF U!InterruptEnable, UartInv
  <1>6. CASE U!InterruptDisable
    BY <1>0, <1>t, <1>6 DEF U!InterruptDisable, UartInv
  <1>7. CASE U!Stop
    BY <1>0, <1>t, <1>7 DEF U!Stop, UartInv
  <1>8. CASE U!StopRestore
    BY <1>0, <1>t, <1>8 DEF U!StopRestore, U!TimerIsOut, UartInv
  <1>9. CASE U!Close
    BY <1>0, <1>t, <1>9 DEF U!Close, UartInv
  <1>10. CASE U!Control
    BY <1>0, <1>t, <1>10 DEF U!Control, UartInv
  <1>11. CASE U!Isr
    BY <1>0, <1>t, <1>11 DEF U!Isr, UartInv
  <1>12. CASE U!Receive
    BY <1>0, <1>t, <1>12 DEF U!Receive, UartInv
  <1>13. CASE U!Transmit
    BY <1>0, <1>t, <1>13 DEF U!Transmit, UartInv
  <1>14. CASE U!Purge
    BY <1>0, <1>t, <1>14 DEF U!Purge, UartInv
  <1>15. CASE U!DrainCancelStops
    BY <1>0, <1>t, <1>15 DEF U!DrainCancelStops, UartInv
  <1>16. CASE U!DrainTimer
    BY <1>0, <1>t, <1>16 DEF U!DrainTimer, UartInv
  <1>17. CASE U!Arrive
    BY <1>0, <1>t, <1>17 DEF U!Arrive, UartInv
  <1>18. CASE U!RxTimeout
    BY <1>0, <1>t, <1>18 DEF U!RxTimeout, UartInv
  <1>19. CASE U!Shift
    BY <1>0, <1>t, <1>19 DEF U!Shift, UartInv
  <1>20. CASE U!Open
    BY <1>0, <1>t, <1>20 DEF U!Open, U!Forget, UartInv
  <1>21. CASE U!RxEnable
    BY <1>0, <1>t, <1>21 DEF U!RxEnable, U!Enable, UartInv
  <1>22. CASE U!TxEnable
    BY <1>0, <1>t, <1>22 DEF U!TxEnable, U!Enable, UartInv
  <1>23. CASE U!RxCancel
    BY <1>0, <1>t, <1>23 DEF U!RxCancel, U!Cancel, UartInv
  <1>24. CASE U!TxCancel
    BY <1>0, <1>t, <1>24 DEF U!TxCancel, U!Cancel, UartInv
  <1>25. CASE U!Drain
    BY <1>0, <1>t, <1>25 DEF U!Drain, U!DrainAsked, U!Live, UartInv
  <1>26. CASE U!TxPurge
    BY <1>0, <1>t, <1>26 DEF U!TxPurge, U!DrainAsked, U!Live, UartInv
  <1>27. CASE U!DrainCancel
    BY <1>0, <1>t, <1>27 DEF U!DrainCancel, UartInv
  <1>28. CASE U!DrainTimerEnds
    BY <1>0, <1>t, <1>28 DEF U!DrainTimerEnds, UartInv
  <1>29. ASSUME NEW cpu \in Cpus, U!Dpc(cpu)
        PROVE  UartInv'
    BY <1>0, <1>29 DEF U!Dpc, U!Commit, UartInv
  <1>30. ASSUME NEW cpu \in Cpus, U!DpcAnnounces(cpu)
        PROVE  UartInv'
    <2>1. PICK k \in {"rx", "tx"} : u_owed' = u_owed \ {k} \/ UNCHANGED u_owed
      BY <1>30 DEF U!DpcAnnounces, U!Announce, U!DpcEnds, U!Kinds
    <2> QED BY <1>0, <1>30, <2>1 DEF U!DpcAnnounces, UartInv
  <1> QED BY <1>1, <1>2, <1>3, <1>4, <1>5, <1>6, <1>7, <1>8, <1>9, <1>10, <1>11, <1>12, <1>13,
             <1>14, <1>15, <1>16, <1>17, <1>18, <1>19, <1>20, <1>21, <1>22, <1>23, <1>24,
             <1>25, <1>26, <1>27, <1>28, <1>29, <1>30
     DEF U!Next

\* What the Bluetooth UART's answerers rest on.
LEMMA BcmAnswerers ==
  ASSUME B!TypeOK, BcmInv, B!Next
  PROVE  OneAnswerer({Cpu}, b_owed, b_armed, b_committed)'
  <1> USE DEF B!sercx, B!flow, B!erratum, B!regs, B!line, B!txhw, B!device
  <1>0. /\ OneAnswerer({Cpu}, b_owed, b_armed, b_committed)
        /\ b_committed \in [{Cpu} -> SUBSET (B!Kinds \union {"quirk", "running"})]
    BY DEF BcmInv, B!TypeOK, B!SerCxTypeOK
  <1>q. ASSUME UNCHANGED <<b_owed, b_armed, b_committed>>
        PROVE  OneAnswerer({Cpu}, b_owed, b_armed, b_committed)'
    BY <1>0, <1>q
  <1>e. ASSUME NEW k \in {"rx", "tx"}, NEW now, B!Enable(k, now)
        PROVE  OneAnswerer({Cpu}, b_owed, b_armed, b_committed)'
    BY <1>0, <1>e, NotificationEnabled DEF B!Enable
  <1>c. ASSUME NEW k \in {"rx", "tx"}, B!Cancel(k)
        PROVE  OneAnswerer({Cpu}, b_owed, b_armed, b_committed)'
    BY <1>0, <1>c, NotificationCancelled DEF B!Cancel
  <1>1. CASE B!Prepare
    BY <1>q, <1>1 DEF B!Prepare
  <1>2. CASE B!Release
    BY <1>q, <1>2 DEF B!Release
  <1>3. CASE B!Start
    BY <1>q, <1>3 DEF B!Start
  <1>4. CASE B!InterruptEnable
    BY <1>q, <1>4 DEF B!InterruptEnable
  <1>5. CASE B!InterruptDisable
    BY <1>q, <1>5 DEF B!InterruptDisable
  <1>6. CASE B!Stop
    BY <1>q, <1>6 DEF B!Stop
  <1>7. CASE B!StopRestore
    BY <1>q, <1>7 DEF B!StopRestore
  <1>8. CASE B!Close
    BY <1>q, <1>8 DEF B!Close
  <1>9. CASE B!Control
    BY <1>q, <1>9 DEF B!Control
  <1>10. CASE B!Apply
    BY <1>q, <1>10 DEF B!Apply
  <1>11. CASE B!IsrQuirk
    BY <1>q, <1>11 DEF B!IsrQuirk
  <1>12. CASE B!Isr
    BY <1>q, <1>12 DEF B!Isr
  <1>13. CASE B!QuirkFires
    BY <1>q, <1>13 DEF B!QuirkFires
  <1>14. CASE B!QuirkTimer
    BY <1>q, <1>14 DEF B!QuirkTimer
  <1>15. CASE B!Receive
    BY <1>q, <1>15 DEF B!Receive
  <1>16. CASE B!Transmit
    BY <1>q, <1>16 DEF B!Transmit
  <1>17. CASE B!Purge
    BY <1>q, <1>17 DEF B!Purge
  <1>18. CASE B!PeerSends
    BY <1>q, <1>18 DEF B!PeerSends
  <1>19. CASE B!Lands
    BY <1>q, <1>19 DEF B!Lands
  <1>20. CASE B!Erratum
    BY <1>q, <1>20 DEF B!Erratum
  <1>21. CASE B!Shift
    BY <1>q, <1>21 DEF B!Shift
  <1>22. CASE B!Open
    <2>1. b_owed = {} /\ UNCHANGED <<b_owed, b_committed>> /\ b_armed' = {}
      BY <1>22 DEF B!Open, B!Forget, BcmInv
    <2> QED BY <1>0, <2>1 DEF OneAnswerer
  <1>23. CASE B!RxEnable
    BY <1>e, <1>23 DEF B!RxEnable
  <1>24. CASE B!TxEnable
    BY <1>e, <1>24 DEF B!TxEnable
  <1>25. CASE B!RxCancel
    BY <1>c, <1>25 DEF B!RxCancel
  <1>26. CASE B!TxCancel
    BY <1>c, <1>26 DEF B!TxCancel
  <1>27. CASE B!Dpc(Cpu)
    <2>1. PICK more \in {{"running"}, {"running", "quirk"}} :
            b_committed' = [b_committed EXCEPT ![Cpu] =
                              (b_armed \intersect b_pending) \union more]
      BY <1>27 DEF B!Dpc, B!Commit
    <2>2. /\ UNCHANGED b_owed /\ b_committed[Cpu] = {}
          /\ b_armed' = b_armed \ (b_armed \intersect b_pending)
      BY <1>27 DEF B!Dpc, B!Commit
    <2>3. more \intersect {"rx", "tx"} = {} /\ Cpu \in {Cpu}
      OBVIOUS
    <2> QED BY <1>0, <2>1, <2>2, <2>3, NotificationTaken
  <1>28. CASE B!StartQuirk(Cpu)
    <2>1. b_committed' = [b_committed EXCEPT ![Cpu] = @ \ {"quirk"}]
      BY <1>28 DEF B!StartQuirk
    <2>2. UNCHANGED <<b_owed, b_armed>>
      BY <1>28 DEF B!StartQuirk
    <2>3. \A c \in {Cpu} : b_committed'[c] \intersect {"rx", "tx"}
                            = b_committed[c] \intersect {"rx", "tx"}
      BY <1>0, <2>1
    <2>4. OneAnswerer({Cpu}, b_owed, b_armed, b_committed')
      BY <1>0, <2>3, NotificationKept
    <2> QED BY <2>2, <2>4
  <1>29. CASE B!DpcAnnounces(Cpu)
    <2>1. ASSUME NEW k \in B!Kinds, B!Announce(Cpu, k)
          PROVE  OneAnswerer({Cpu}, b_owed, b_armed, b_committed)'
      BY <1>0, <2>1, NotificationAnnounced DEF B!Announce
    <2>2. CASE B!DpcEnds(Cpu)
      <3>1. /\ UNCHANGED <<b_owed, b_armed>> /\ b_committed[Cpu] = {"running"}
            /\ b_committed' = [b_committed EXCEPT ![Cpu] = {}]
        BY <2>2 DEF B!DpcEnds
      <3>2. \A c \in {Cpu} : b_committed'[c] \intersect {"rx", "tx"}
                              = b_committed[c] \intersect {"rx", "tx"}
        BY <1>0, <3>1
      <3> QED BY <1>0, <3>1, <3>2, NotificationKept
    <2> QED BY <1>29, <2>1, <2>2 DEF B!DpcAnnounces
  <1> QED BY <1>1, <1>2, <1>3, <1>4, <1>5, <1>6, <1>7, <1>8, <1>9, <1>10, <1>11, <1>12, <1>13,
             <1>14, <1>15, <1>16, <1>17, <1>18, <1>19, <1>20, <1>21, <1>22, <1>23, <1>24,
             <1>25, <1>26, <1>27, <1>28, <1>29
     DEF B!Next

\* Every step keeps what follows from the power of the Bluetooth UART.
LEMMA BcmPowerStep ==
  ASSUME B!TypeOK, BcmInv, B!Next
  PROVE  /\ b_online' => b_power' = "on"
         /\ b_power' # "on" \/ ~b_open' => b_owed' = {}
         /\ b_power' \notin {"on", "quiet"} => ~b_queued' /\ b_committed'[Cpu] = {}
         /\ b_power' \in {"off", "gone"} => b_timer' = "off"
  <1> USE DEF B!sercx, B!flow, B!erratum, B!regs, B!line, B!txhw, B!device
  <1>t. /\ b_online \in BOOLEAN /\ b_open \in BOOLEAN
        /\ b_committed \in [{Cpu} -> SUBSET (B!Kinds \union {"quirk", "running"})]
    BY DEF B!TypeOK, B!SerCxTypeOK
  <1>1. CASE B!Prepare
    BY <1>t, <1>1 DEF B!Prepare, BcmInv
  <1>2. CASE B!Release
    BY <1>t, <1>2 DEF B!Release, BcmInv
  <1>3. CASE B!Start
    BY <1>t, <1>3 DEF B!Start, BcmInv
  <1>4. CASE B!InterruptEnable
    BY <1>t, <1>4 DEF B!InterruptEnable, BcmInv
  <1>5. CASE B!InterruptDisable
    BY <1>t, <1>5 DEF B!InterruptDisable, BcmInv
  <1>6. CASE B!Stop
    BY <1>t, <1>6 DEF B!Stop, B!Flushed, BcmInv
  <1>7. CASE B!StopRestore
    BY <1>t, <1>7 DEF B!StopRestore, BcmInv
  <1>8. CASE B!Close
    BY <1>t, <1>8 DEF B!Close, BcmInv
  <1>9. CASE B!Control
    BY <1>t, <1>9 DEF B!Control, B!Live, BcmInv
  <1>10. CASE B!Apply
    BY <1>t, <1>10 DEF B!Apply, BcmInv
  <1>11. CASE B!IsrQuirk
    BY <1>t, <1>11 DEF B!IsrQuirk, B!Live, BcmInv
  <1>12. CASE B!Isr
    BY <1>t, <1>12 DEF B!Isr, B!Live, BcmInv
  <1>13. CASE B!QuirkFires
    BY <1>t, <1>13 DEF B!QuirkFires, BcmInv
  <1>14. CASE B!QuirkTimer
    BY <1>t, <1>14 DEF B!QuirkTimer, B!Live, BcmInv
  <1>15. CASE B!Receive
    BY <1>t, <1>15 DEF B!Receive, B!Live, BcmInv
  <1>16. CASE B!Transmit
    BY <1>t, <1>16 DEF B!Transmit, BcmInv
  <1>17. CASE B!Purge
    BY <1>t, <1>17 DEF B!Purge, BcmInv
  <1>18. CASE B!PeerSends
    BY <1>t, <1>18 DEF B!PeerSends, BcmInv
  <1>19. CASE B!Lands
    BY <1>t, <1>19 DEF B!Lands, BcmInv
  <1>20. CASE B!Erratum
    BY <1>t, <1>20 DEF B!Erratum, BcmInv
  <1>21. CASE B!Shift
    BY <1>t, <1>21 DEF B!Shift, BcmInv
  <1>22. CASE B!Open
    BY <1>t, <1>22 DEF B!Open, B!Forget, BcmInv
  <1>23. CASE B!RxEnable
    BY <1>t, <1>23 DEF B!RxEnable, B!Enable, BcmInv
  <1>24. CASE B!TxEnable
    BY <1>t, <1>24 DEF B!TxEnable, B!Enable, BcmInv
  <1>25. CASE B!RxCancel
    BY <1>t, <1>25 DEF B!RxCancel, B!Cancel, BcmInv
  <1>26. CASE B!TxCancel
    BY <1>t, <1>26 DEF B!TxCancel, B!Cancel, BcmInv
  <1>27. CASE B!Dpc(Cpu)
    BY <1>t, <1>27 DEF B!Dpc, B!Commit, BcmInv
  <1>28. CASE B!StartQuirk(Cpu)
    BY <1>t, <1>28 DEF B!StartQuirk, BcmInv
  <1>29. CASE B!DpcAnnounces(Cpu)
    <2>1. b_committed[Cpu] # {} /\ (b_owed = {} => b_owed' = {})
      BY <1>29 DEF B!DpcAnnounces, B!Announce, B!DpcEnds
    <2> QED BY <1>29, <2>1 DEF B!DpcAnnounces, BcmInv
  <1> QED BY <1>1, <1>2, <1>3, <1>4, <1>5, <1>6, <1>7, <1>8, <1>9, <1>10, <1>11, <1>12, <1>13,
             <1>14, <1>15, <1>16, <1>17, <1>18, <1>19, <1>20, <1>21, <1>22, <1>23, <1>24,
             <1>25, <1>26, <1>27, <1>28, <1>29
     DEF B!Next

\* Every handler leaves RTS and the receive interrupt as the flags say.
LEMMA BcmFlowStep ==
  ASSUME B!TypeOK, BcmInv, B!Next
  PROVE  B!FlowFollowsFlags'
  <1> USE DEF B!sercx, B!flow, B!erratum, B!regs, B!line, B!txhw, B!device
  <1>0. B!FlowFollowsFlags
    BY DEF BcmInv
  <1>t. /\ b_online \in BOOLEAN /\ b_open \in BOOLEAN /\ rts \in BOOLEAN /\ rxmask \in BOOLEAN
        /\ held \in BOOLEAN /\ paused \in BOOLEAN /\ quirk \in BOOLEAN
    BY DEF B!TypeOK, B!SerCxTypeOK
  <1>q. ASSUME UNCHANGED <<b_online, b_open, rts, rxmask, held, paused, quirk>>
        PROVE  B!FlowFollowsFlags'
    BY <1>0, <1>q DEF B!FlowFollowsFlags, B!Live
  \* UartInterruptMask writes what is claimed.
  <1>m. ASSUME B!InterruptMask PROVE B!FlowFollowsFlags'
    BY <1>m DEF B!InterruptMask, B!FlowFollowsFlags, B!Live
  <1>o. ASSUME ~b_online' \/ ~b_open' PROVE B!FlowFollowsFlags'
    BY <1>o DEF B!FlowFollowsFlags, B!Live
  <1>1. CASE B!Prepare
    BY <1>q, <1>1 DEF B!Prepare
  <1>2. CASE B!Release
    BY <1>q, <1>2 DEF B!Release
  <1>3. CASE B!Start
    BY <1>m, <1>3 DEF B!Start
  <1>4. CASE B!InterruptEnable
    BY <1>m, <1>4 DEF B!InterruptEnable
  <1>5. CASE B!InterruptDisable
    BY <1>o, <1>5 DEF B!InterruptDisable
  <1>6. CASE B!Stop
    BY <1>o, <1>6 DEF B!Stop
  <1>7. CASE B!StopRestore
    BY <1>q, <1>7 DEF B!StopRestore
  <1>8. CASE B!Close
    BY <1>m, <1>8 DEF B!Close
  <1>9. CASE B!Control
    BY <1>m, <1>9 DEF B!Control
  <1>10. CASE B!Apply
    BY <1>m, <1>10 DEF B!Apply
  <1>11. CASE B!IsrQuirk
    BY <1>m, <1>11 DEF B!IsrQuirk
  <1>12. CASE B!Isr
    <2>1. /\ rts' = (rts /\ ~paused') /\ rxmask' = (rxmask /\ ~paused')
          /\ paused' = (paused \/ b_ring' = High)
          /\ UNCHANGED <<b_online, b_open, held, quirk>>
      BY <1>12 DEF B!Isr
    <2> QED BY <1>0, <1>t, <2>1 DEF B!FlowFollowsFlags, B!Live
  <1>13. CASE B!QuirkFires
    BY <1>q, <1>13 DEF B!QuirkFires
  <1>14. CASE B!QuirkTimer
    <2>1. B!InterruptMask \/ UNCHANGED <<b_online, b_open, rts, rxmask, held, paused, quirk>>
      BY <1>14 DEF B!QuirkTimer
    <2> QED BY <1>m, <1>q, <2>1
  <1>15. CASE B!Receive
    <2>1. CASE B!InterruptMask
      BY <1>m, <2>1
    <2>2. CASE ~B!InterruptMask
      <3>1. paused' = paused
        BY <1>15, <2>2 DEF B!Receive
      <3>2. UNCHANGED <<b_online, b_open, rts, rxmask, held, quirk>>
        BY <1>15, <2>2 DEF B!Receive
      <3> QED BY <1>q, <3>1, <3>2
    <2> QED BY <2>1, <2>2
  <1>16. CASE B!Transmit
    BY <1>q, <1>16 DEF B!Transmit
  <1>17. CASE B!Purge
    BY <1>m, <1>17 DEF B!Purge
  <1>18. CASE B!PeerSends
    BY <1>q, <1>18 DEF B!PeerSends
  <1>19. CASE B!Lands
    BY <1>q, <1>19 DEF B!Lands
  <1>20. CASE B!Erratum
    BY <1>q, <1>20 DEF B!Erratum
  <1>21. CASE B!Shift
    BY <1>q, <1>21 DEF B!Shift
  <1>22. CASE B!Open
    BY <1>m, <1>22 DEF B!Open
  <1>23. CASE B!RxEnable
    BY <1>q, <1>23 DEF B!RxEnable, B!Enable
  <1>24. CASE B!TxEnable
    <2>1. B!InterruptMask \/ UNCHANGED <<b_online, b_open, rts, rxmask, held, paused, quirk>>
      BY <1>24 DEF B!TxEnable, B!Enable
    <2> QED BY <1>m, <1>q, <2>1
  <1>25. CASE B!RxCancel
    BY <1>q, <1>25 DEF B!RxCancel, B!Cancel
  <1>26. CASE B!TxCancel
    BY <1>m, <1>26 DEF B!TxCancel
  <1>27. CASE B!Dpc(Cpu)
    BY <1>q, <1>27 DEF B!Dpc, B!Commit
  <1>28. CASE B!StartQuirk(Cpu)
    BY <1>q, <1>28 DEF B!StartQuirk
  <1>29. CASE B!DpcAnnounces(Cpu)
    BY <1>q, <1>29 DEF B!DpcAnnounces
  <1> QED BY <1>1, <1>2, <1>3, <1>4, <1>5, <1>6, <1>7, <1>8, <1>9, <1>10, <1>11, <1>12, <1>13,
             <1>14, <1>15, <1>16, <1>17, <1>18, <1>19, <1>20, <1>21, <1>22, <1>23, <1>24,
             <1>25, <1>26, <1>27, <1>28, <1>29
     DEF B!Next

\* Every step keeps the dummy read behind the byte that was on the wire.
LEMMA QuirkStep ==
  ASSUME B!TypeOK, BcmInv, QuirkInv, B!Next
  PROVE  QuirkInv'
  <1> USE DEF B!sercx, B!flow, B!erratum, B!regs, B!line, B!txhw, B!device
  <1>t. /\ b_online \in BOOLEAN /\ b_open \in BOOLEAN /\ quirk \in BOOLEAN /\ quirkDue \in BOOLEAN
        /\ wire \in BOOLEAN /\ wait \in BOOLEAN /\ stale \in BOOLEAN /\ rts \in BOOLEAN
        /\ b_timer \in {"off", "due", "fired"} /\ rxmask \in BOOLEAN
        /\ b_committed \in [{Cpu} -> SUBSET (B!Kinds \union {"quirk", "running"})]
    BY DEF B!TypeOK, B!SerCxTypeOK
  <1>q. ASSUME UNCHANGED <<b_power, b_open, b_timer, wire, wait, stale, quirk, quirkDue, lost>>,
               UNCHANGED b_committed
        PROVE  QuirkInv'
    BY <1>q DEF QuirkInv, QuirkTaken, B!DummyReadIsSafe
  <1>1. CASE B!Prepare
    BY <1>t, <1>1
    DEF B!Prepare, BcmInv, QuirkInv, QuirkTaken, B!DummyReadIsSafe
  <1>2. CASE B!Release
    BY <1>t, <1>2
    DEF B!Release, BcmInv, QuirkInv, QuirkTaken, B!DummyReadIsSafe
  <1>3. CASE B!Start
    BY <1>t, <1>3
    DEF B!Start, BcmInv, QuirkInv, QuirkTaken, B!DummyReadIsSafe
  <1>4. CASE B!InterruptEnable
    BY <1>t, <1>4
    DEF B!InterruptEnable, BcmInv, QuirkInv, QuirkTaken, B!DummyReadIsSafe
  <1>5. CASE B!InterruptDisable
    BY <1>t, <1>5
    DEF B!InterruptDisable, BcmInv, QuirkInv, QuirkTaken, B!DummyReadIsSafe
  <1>6. CASE B!Stop
    BY <1>t, <1>6
    DEF B!Stop, B!Flushed, BcmInv, QuirkInv, QuirkTaken, B!DummyReadIsSafe
  <1>7. CASE B!StopRestore
    BY <1>t, <1>7
    DEF B!StopRestore, B!TimerIsOut, BcmInv, QuirkInv, QuirkTaken, B!DummyReadIsSafe
  <1>8. CASE B!Close
    BY <1>t, <1>8
    DEF B!Close, BcmInv, QuirkInv, QuirkTaken, B!DummyReadIsSafe
  <1>9. CASE B!Control
    BY <1>q, <1>9 DEF B!Control
  <1>10. CASE B!Apply
    BY <1>q, <1>10 DEF B!Apply
  <1>11. CASE B!IsrQuirk
    BY <1>t, <1>11
    DEF B!IsrQuirk, B!Live, B!FlowFollowsFlags, BcmInv, QuirkInv, QuirkTaken, B!DummyReadIsSafe
  <1>12. CASE B!Isr
    BY <1>q, <1>12 DEF B!Isr
  <1>13. CASE B!QuirkFires
    BY <1>t, <1>13
    DEF B!QuirkFires, BcmInv, QuirkInv, QuirkTaken, B!DummyReadIsSafe
  <1>14. CASE B!QuirkTimer
    BY <1>t, <1>14
    DEF B!QuirkTimer, B!Live, BcmInv, QuirkInv, QuirkTaken, B!DummyReadIsSafe
  <1>15. CASE B!Receive
    BY <1>q, <1>15 DEF B!Receive
  <1>16. CASE B!Transmit
    BY <1>q, <1>16 DEF B!Transmit
  <1>17. CASE B!Purge
    BY <1>q, <1>17 DEF B!Purge
  <1>18. CASE B!PeerSends
    BY <1>t, <1>18
    DEF B!PeerSends, B!Live, B!FlowFollowsFlags, BcmInv, QuirkInv, QuirkTaken, B!DummyReadIsSafe
  <1>19. CASE B!Lands
    BY <1>t, <1>19
    DEF B!Lands, B!Live, BcmInv, QuirkInv, QuirkTaken, B!DummyReadIsSafe
  <1>20. CASE B!Erratum
    BY <1>q, <1>20 DEF B!Erratum
  <1>21. CASE B!Shift
    BY <1>q, <1>21 DEF B!Shift
  <1>22. CASE B!Open
    BY <1>t, <1>22
    DEF B!Open, B!Forget, BcmInv, QuirkInv, QuirkTaken, B!DummyReadIsSafe
  <1>23. CASE B!RxEnable
    BY <1>q, <1>23 DEF B!RxEnable, B!Enable
  <1>24. CASE B!TxEnable
    BY <1>q, <1>24 DEF B!TxEnable, B!Enable
  <1>25. CASE B!RxCancel
    BY <1>q, <1>25 DEF B!RxCancel, B!Cancel
  <1>26. CASE B!TxCancel
    BY <1>q, <1>26 DEF B!TxCancel, B!Cancel
  <1>27. CASE B!Dpc(Cpu)
    <2>1. /\ b_committed[Cpu] = {}
          /\ "quirk" \in b_committed'[Cpu] => quirkDue
          /\ quirkDue' = FALSE
          /\ UNCHANGED <<b_power, b_open, b_timer, wire, wait, stale, quirk, lost>>
      BY <1>t, <1>27 DEF B!Dpc, B!Commit, B!TypeOK, B!SerCxTypeOK, B!Kinds
    <2> QED BY <1>t, <2>1 DEF QuirkInv, QuirkTaken, B!DummyReadIsSafe
  <1>28. CASE B!StartQuirk(Cpu)
    <2>1. "quirk" \in b_committed[Cpu] /\ "quirk" \notin b_committed'[Cpu]
      BY <1>t, <1>28 DEF B!StartQuirk
    <2> QED BY <1>t, <1>28, <2>1 DEF B!StartQuirk, QuirkInv, QuirkTaken, BcmInv, B!DummyReadIsSafe
  <1>29. CASE B!DpcAnnounces(Cpu)
    <2>1. "quirk" \in b_committed'[Cpu] => "quirk" \in b_committed[Cpu]
      BY <1>t, <1>29 DEF B!DpcAnnounces, B!Announce, B!DpcEnds
    <2> QED BY <1>t, <1>29, <2>1 DEF B!DpcAnnounces, QuirkInv, QuirkTaken, B!DummyReadIsSafe
  <1> QED BY <1>1, <1>2, <1>3, <1>4, <1>5, <1>6, <1>7, <1>8, <1>9, <1>10, <1>11, <1>12, <1>13,
             <1>14, <1>15, <1>16, <1>17, <1>18, <1>19, <1>20, <1>21, <1>22, <1>23, <1>24,
             <1>25, <1>26, <1>27, <1>28, <1>29
     DEF B!Next

\* The types of what SerCx2 and a driver share, for any processors.
NotifyTypes(cpus, owed, armed, waiting, committed) ==
  /\ owed \subseteq {"rx", "tx", "drain", "purge"}
  /\ armed \subseteq {"rx", "tx"} /\ waiting \subseteq {"rx", "tx"}
  /\ committed \in [cpus -> SUBSET {"rx", "tx", "quirk", "running"}]

\* Every step keeps the types of the header UART: what it shares with SerCx2.
LEMMA UartNotifyTypeStep ==
  ASSUME U!TypeOK, U!Next
  PROVE  NotifyTypes(Cpus, u_owed, u_armed, u_pending, u_committed)'
  <1> USE DEF U!sercx, U!drain, U!rxhw, U!txhw, U!device
  <1>0. NotifyTypes(Cpus, u_owed, u_armed, u_pending, u_committed)
    BY DEF U!TypeOK, U!SerCxTypeOK, U!Kinds, NotifyTypes
  <1>e. expired \in {"no", "again", "drain", "purge"}
    BY DEF U!TypeOK
  <1>1. CASE U!Prepare
    BY <1>0, <1>1 DEF U!Prepare, NotifyTypes
  <1>2. CASE U!Release
    BY <1>0, <1>2 DEF U!Release, NotifyTypes
  <1>3. CASE U!Start
    BY <1>0, <1>3 DEF U!Start, NotifyTypes
  <1>4. CASE U!StartFails
    BY <1>0, <1>4 DEF U!StartFails, NotifyTypes
  <1>5. CASE U!InterruptEnable
    BY <1>0, <1>5 DEF U!InterruptEnable, NotifyTypes
  <1>6. CASE U!InterruptDisable
    BY <1>0, <1>6 DEF U!InterruptDisable, NotifyTypes
  <1>7. CASE U!Stop
    BY <1>0, <1>7 DEF U!Stop, NotifyTypes
  <1>8. CASE U!StopRestore
    BY <1>0, <1>8 DEF U!StopRestore, NotifyTypes
  <1>9. CASE U!Close
    BY <1>0, <1>9 DEF U!Close, NotifyTypes
  <1>10. CASE U!Control
    BY <1>0, <1>10 DEF U!Control, NotifyTypes
  <1>11. CASE U!Isr
    BY <1>0, <1>11 DEF U!Isr, NotifyTypes
  <1>12. CASE U!Receive
    BY <1>0, <1>12 DEF U!Receive, NotifyTypes
  <1>13. CASE U!Transmit
    BY <1>0, <1>13 DEF U!Transmit, NotifyTypes
  <1>14. CASE U!Purge
    BY <1>0, <1>14 DEF U!Purge, NotifyTypes
  <1>15. CASE U!DrainCancelStops
    BY <1>0, <1>15 DEF U!DrainCancelStops, NotifyTypes
  <1>16. CASE U!DrainTimer
    BY <1>0, <1>16 DEF U!DrainTimer, NotifyTypes
  <1>17. CASE U!Arrive
    BY <1>0, <1>17 DEF U!Arrive, NotifyTypes
  <1>18. CASE U!RxTimeout
    BY <1>0, <1>18 DEF U!RxTimeout, NotifyTypes
  <1>19. CASE U!Shift
    BY <1>0, <1>19 DEF U!Shift, NotifyTypes
  <1>20. CASE U!Open
    BY <1>0, <1>20 DEF U!Open, U!Forget, NotifyTypes
  <1>21. CASE U!RxEnable
    BY <1>0, <1>21 DEF U!RxEnable, U!Enable, NotifyTypes
  <1>22. CASE U!TxEnable
    BY <1>0, <1>22 DEF U!TxEnable, U!Enable, NotifyTypes
  <1>23. CASE U!RxCancel
    BY <1>0, <1>23 DEF U!RxCancel, U!Cancel, NotifyTypes
  <1>24. CASE U!TxCancel
    BY <1>0, <1>24 DEF U!TxCancel, U!Cancel, NotifyTypes
  <1>25. CASE U!Drain
    BY <1>0, <1>25 DEF U!Drain, NotifyTypes
  <1>26. CASE U!TxPurge
    BY <1>0, <1>26 DEF U!TxPurge, NotifyTypes
  <1>27. CASE U!DrainCancel
    BY <1>0, <1>27 DEF U!DrainCancel, NotifyTypes
  <1>28. CASE U!DrainTimerEnds
    BY <1>0, <1>28 DEF U!DrainTimerEnds, NotifyTypes
  <1>29. ASSUME NEW cpu \in Cpus, U!Dpc(cpu)
        PROVE  NotifyTypes(Cpus, u_owed, u_armed, u_pending, u_committed)'
    BY <1>0, <1>29 DEF U!Dpc, U!Commit, NotifyTypes
  <1>30. ASSUME NEW cpu \in Cpus, U!DpcAnnounces(cpu)
        PROVE  NotifyTypes(Cpus, u_owed, u_armed, u_pending, u_committed)'
    BY <1>0, <1>30 DEF U!DpcAnnounces, U!Announce, U!DpcEnds, NotifyTypes
  <1> QED BY <1>1, <1>2, <1>3, <1>4, <1>5, <1>6, <1>7, <1>8, <1>9, <1>10, <1>11, <1>12, <1>13,
             <1>14, <1>15, <1>16, <1>17, <1>18, <1>19, <1>20, <1>21, <1>22, <1>23, <1>24,
             <1>25, <1>26, <1>27, <1>28, <1>29, <1>30
     DEF U!Next

UartFlagTypes ==
  /\ u_online \in BOOLEAN /\ u_open \in BOOLEAN /\ u_queued \in BOOLEAN
  /\ u_power \in {"gone", "off", "ready", "on", "quiet", "stopping"}
  /\ u_clock \in BOOLEAN /\ u_setup \in {"boot", "default", "client"}
  /\ draining \in BOOLEAN /\ purging \in BOOLEAN /\ canceling \in BOOLEAN
  /\ u_timer \in {"off", "due"} /\ expired \in {"no", "again", "drain", "purge"}
  /\ rxi \in BOOLEAN /\ txi \in BOOLEAN /\ u_txmask \in BOOLEAN

\* Every step keeps the types of its flags.
LEMMA UartFlagTypeStep ==
  ASSUME U!TypeOK, U!Next
  PROVE  UartFlagTypes'
  <1> USE DEF U!sercx, U!drain, U!rxhw, U!txhw, U!device
  <1>0. UartFlagTypes
    BY DEF U!TypeOK, U!SerCxTypeOK, UartFlagTypes
  <1>1. CASE U!Prepare
    BY <1>0, <1>1 DEF U!Prepare, UartFlagTypes
  <1>2. CASE U!Release
    BY <1>0, <1>2 DEF U!Release, UartFlagTypes
  <1>3. CASE U!Start
    BY <1>0, <1>3 DEF U!Start, UartFlagTypes
  <1>4. CASE U!StartFails
    BY <1>0, <1>4 DEF U!StartFails, UartFlagTypes
  <1>5. CASE U!InterruptEnable
    BY <1>0, <1>5 DEF U!InterruptEnable, UartFlagTypes
  <1>6. CASE U!InterruptDisable
    BY <1>0, <1>6 DEF U!InterruptDisable, UartFlagTypes
  <1>7. CASE U!Stop
    BY <1>0, <1>7 DEF U!Stop, UartFlagTypes
  <1>8. CASE U!StopRestore
    BY <1>0, <1>8 DEF U!StopRestore, UartFlagTypes
  <1>9. CASE U!Close
    BY <1>0, <1>9 DEF U!Close, UartFlagTypes
  <1>10. CASE U!Control
    BY <1>0, <1>10 DEF U!Control, UartFlagTypes
  <1>11. CASE U!Isr
    <2>1. UNCHANGED <<u_online, u_open, u_power, u_clock, u_setup, draining, purging, canceling,
                       u_timer, expired>>
      BY <1>11 DEF U!Isr
    <2>2. u_queued' \in BOOLEAN
      BY <1>11 DEF U!Isr
    <2>3. rxi' \in BOOLEAN /\ txi' \in BOOLEAN
      BY <1>11 DEF U!Isr
    <2>4. u_txmask' \in BOOLEAN
      BY <1>11 DEF U!Isr
    <2> QED BY <1>0, <2>1, <2>2, <2>3, <2>4 DEF UartFlagTypes
  <1>12. CASE U!Receive
    <2>1. UNCHANGED <<u_online, u_open, u_queued, u_power, u_clock, u_setup, draining, purging,
                       canceling, u_timer, expired, txi, u_txmask>>
      BY <1>12 DEF U!Receive
    <2>2. rxi' \in BOOLEAN
      BY <1>12 DEF U!Receive
    <2> QED BY <1>0, <2>1, <2>2 DEF UartFlagTypes
  <1>13. CASE U!Transmit
    <2>1. UNCHANGED <<u_online, u_open, u_queued, u_power, u_clock, u_setup, draining, purging,
                       canceling, u_timer, expired, rxi, u_txmask>>
      BY <1>13 DEF U!Transmit
    <2>2. txi' \in BOOLEAN
      BY <1>13 DEF U!Transmit
    <2> QED BY <1>0, <2>1, <2>2 DEF UartFlagTypes
  <1>14. CASE U!Purge
    <2>1. UNCHANGED <<u_online, u_open, u_queued, u_power, u_clock, u_setup, draining, purging,
                       canceling, u_timer, expired, u_txmask>>
      BY <1>14 DEF U!Purge
    <2>2. rxi' \in BOOLEAN /\ txi' \in BOOLEAN
      BY <1>14 DEF U!Purge
    <2> QED BY <1>0, <2>1, <2>2 DEF UartFlagTypes
  <1>15. CASE U!DrainCancelStops
    <2>1. UNCHANGED <<u_online, u_open, u_queued, u_power, u_clock, u_setup, draining, purging,
                       expired, rxi, txi, u_txmask>>
      BY <1>15 DEF U!DrainCancelStops
    <2>2. canceling' \in BOOLEAN
      BY <1>15 DEF U!DrainCancelStops
    <2>3. u_timer' \in {"off", "due"}
      BY <1>15 DEF U!DrainCancelStops
    <2> QED BY <1>0, <2>1, <2>2, <2>3 DEF UartFlagTypes
  <1>16. CASE U!DrainTimer
    <2>1. UNCHANGED <<u_online, u_open, u_queued, u_power, u_clock, u_setup, canceling, rxi,
                       txi, u_txmask>>
      BY <1>16 DEF U!DrainTimer
    <2>2. u_timer' \in {"off", "due"}
      BY <1>16 DEF U!DrainTimer
    <2>3. draining' \in BOOLEAN
      BY <1>0, <1>16 DEF U!DrainTimer, UartFlagTypes
    <2>4. purging' \in BOOLEAN
      BY <1>0, <1>16 DEF U!DrainTimer, UartFlagTypes
    <2>5. expired' \in {"no", "again", "drain", "purge"}
      BY <1>16 DEF U!DrainTimer
    <2> QED BY <1>0, <2>1, <2>2, <2>3, <2>4, <2>5 DEF UartFlagTypes
  <1>17. CASE U!Arrive
    BY <1>0, <1>17 DEF U!Arrive, UartFlagTypes
  <1>18. CASE U!RxTimeout
    BY <1>0, <1>18 DEF U!RxTimeout, UartFlagTypes
  <1>19. CASE U!Shift
    BY <1>0, <1>19 DEF U!Shift, UartFlagTypes
  <1>20. CASE U!Open
    BY <1>0, <1>20 DEF U!Open, U!Forget, UartFlagTypes
  <1>21. CASE U!RxEnable
    BY <1>0, <1>21 DEF U!RxEnable, U!Enable, UartFlagTypes
  <1>22. CASE U!TxEnable
    <2>1. UNCHANGED <<u_online, u_open, u_power, u_clock, u_setup, draining, purging, canceling,
                       u_timer, expired, rxi, txi>>
      BY <1>22 DEF U!TxEnable, U!Enable
    <2>2. u_queued' \in BOOLEAN
      BY <1>22 DEF U!TxEnable, U!Enable
    <2>3. u_txmask' \in BOOLEAN
      BY <1>0, <1>22 DEF U!TxEnable, U!Enable, UartFlagTypes
    <2> QED BY <1>0, <2>1, <2>2, <2>3 DEF UartFlagTypes
  <1>23. CASE U!RxCancel
    BY <1>0, <1>23 DEF U!RxCancel, U!Cancel, UartFlagTypes
  <1>24. CASE U!TxCancel
    <2>1. UNCHANGED <<u_online, u_open, u_queued, u_power, u_clock, u_setup, draining, purging,
                       canceling, u_timer, expired, rxi, txi>>
      BY <1>24 DEF U!TxCancel, U!Cancel
    <2>2. u_txmask' \in BOOLEAN
      BY <1>24 DEF U!TxCancel, U!Cancel
    <2> QED BY <1>0, <2>1, <2>2 DEF UartFlagTypes
  <1>25. CASE U!Drain
    BY <1>0, <1>25 DEF U!Drain, UartFlagTypes
  <1>26. CASE U!TxPurge
    BY <1>0, <1>26 DEF U!TxPurge, UartFlagTypes
  <1>27. CASE U!DrainCancel
    <2>1. UNCHANGED <<u_online, u_open, u_queued, u_power, u_clock, u_setup, purging, u_timer,
                       expired, rxi, txi, u_txmask>>
      BY <1>27 DEF U!DrainCancel
    <2>2. draining' \in BOOLEAN
      BY <1>27 DEF U!DrainCancel
    <2>3. canceling' \in BOOLEAN
      BY <1>27 DEF U!DrainCancel
    <2> QED BY <1>0, <2>1, <2>2, <2>3 DEF UartFlagTypes
  <1>28. CASE U!DrainTimerEnds
    BY <1>0, <1>28 DEF U!DrainTimerEnds, UartFlagTypes
  <1>29. ASSUME NEW cpu \in Cpus, U!Dpc(cpu)
        PROVE  UartFlagTypes'
    <2>1. UNCHANGED <<u_online, u_open, u_power, u_clock, u_setup, draining, purging, canceling,
                       u_timer, expired, rxi, txi, u_txmask>>
      BY <1>29 DEF U!Dpc, U!Commit
    <2>2. u_queued' \in BOOLEAN
      BY <1>29 DEF U!Dpc, U!Commit
    <2> QED BY <1>0, <2>1, <2>2 DEF UartFlagTypes
  <1>30. ASSUME NEW cpu \in Cpus, U!DpcAnnounces(cpu)
        PROVE  UartFlagTypes'
    BY <1>0, <1>30 DEF U!DpcAnnounces, U!Announce, U!DpcEnds, UartFlagTypes
  <1> QED BY <1>1, <1>2, <1>3, <1>4, <1>5, <1>6, <1>7, <1>8, <1>9, <1>10, <1>11, <1>12, <1>13,
             <1>14, <1>15, <1>16, <1>17, <1>18, <1>19, <1>20, <1>21, <1>22, <1>23, <1>24,
             <1>25, <1>26, <1>27, <1>28, <1>29, <1>30
     DEF U!Next

UartCountTypes == u_ring \in 0..Ring /\ u_rxf \in 0..Fifo /\ u_txf \in 0..Fifo

\* Every step keeps the ring and the FIFOs within their sizes.
LEMMA UartCountTypeStep ==
  ASSUME U!TypeOK, U!Next
  PROVE  UartCountTypes'
  <1> USE DEF U!sercx, U!drain, U!rxhw, U!txhw, U!device
  <1>0. UartCountTypes /\ 0 \in 0..Ring /\ 0 \in 0..Fifo
    BY SizesAssumption DEF U!TypeOK, UartCountTypes
  <1>1. ASSUME NEW n \in 0..Ring, NEW m \in 0..Fifo
        PROVE  /\ U!Less(n + m, Ring) \in 0..Ring
               /\ \A t \in 1..Ring :
                    U!Less(n + m, Ring) - U!Less(t, U!Less(n + m, Ring)) \in 0..Ring
    BY SizesAssumption DEF U!Less
  <1>2. CASE U!Prepare
    BY <1>0, <1>1, <1>2 DEF U!Prepare, UartCountTypes
  <1>3. CASE U!Release
    BY <1>0, <1>1, <1>3 DEF U!Release, UartCountTypes
  <1>4. CASE U!Start
    BY <1>0, <1>1, <1>4 DEF U!Start, UartCountTypes
  <1>5. CASE U!StartFails
    BY <1>0, <1>1, <1>5 DEF U!StartFails, UartCountTypes
  <1>6. CASE U!InterruptEnable
    BY <1>0, <1>1, <1>6 DEF U!InterruptEnable, UartCountTypes
  <1>7. CASE U!InterruptDisable
    BY <1>0, <1>1, <1>7 DEF U!InterruptDisable, UartCountTypes
  <1>8. CASE U!Stop
    BY <1>0, <1>1, <1>8 DEF U!Stop, UartCountTypes
  <1>9. CASE U!StopRestore
    BY <1>0, <1>1, <1>9 DEF U!StopRestore, UartCountTypes
  <1>10. CASE U!Close
    BY <1>0, <1>1, <1>10 DEF U!Close, UartCountTypes
  <1>11. CASE U!Control
    BY <1>0, <1>1, <1>11 DEF U!Control, UartCountTypes
  <1>12. CASE U!Isr
    BY <1>0, <1>1, <1>12 DEF U!Isr, U!Capture, UartCountTypes
  <1>13. CASE U!Receive
    BY <1>0, <1>1, <1>13 DEF U!Receive, UartCountTypes
  <1>14. CASE U!Transmit
    <2>1. UNCHANGED <<u_ring, u_rxf>> /\ \E n \in 1..Fifo : u_txf' = U!Less(u_txf + n, Fifo)
      BY <1>14 DEF U!Transmit
    <2> QED BY <1>0, <2>1, SizesAssumption DEF UartCountTypes, U!Less
  <1>15. CASE U!Purge
    BY <1>0, <1>1, <1>15 DEF U!Purge, UartCountTypes
  <1>16. CASE U!DrainCancelStops
    BY <1>0, <1>1, <1>16 DEF U!DrainCancelStops, UartCountTypes
  <1>17. CASE U!DrainTimer
    BY <1>0, <1>1, <1>17 DEF U!DrainTimer, UartCountTypes
  <1>18. CASE U!Arrive
    BY <1>0, <1>18, SizesAssumption DEF U!Arrive, UartCountTypes
  <1>19. CASE U!RxTimeout
    BY <1>0, <1>1, <1>19 DEF U!RxTimeout, UartCountTypes
  <1>20. CASE U!Shift
    BY <1>0, <1>20, SizesAssumption DEF U!Shift, UartCountTypes
  <1>21. CASE U!Open
    BY <1>0, <1>1, <1>21 DEF U!Open, U!Forget, UartCountTypes
  <1>22. CASE U!RxEnable
    BY <1>0, <1>1, <1>22 DEF U!RxEnable, U!Enable, UartCountTypes
  <1>23. CASE U!TxEnable
    BY <1>0, <1>1, <1>23 DEF U!TxEnable, U!Enable, UartCountTypes
  <1>24. CASE U!RxCancel
    BY <1>0, <1>1, <1>24 DEF U!RxCancel, U!Cancel, UartCountTypes
  <1>25. CASE U!TxCancel
    BY <1>0, <1>1, <1>25 DEF U!TxCancel, U!Cancel, UartCountTypes
  <1>26. CASE U!Drain
    BY <1>0, <1>1, <1>26 DEF U!Drain, UartCountTypes
  <1>27. CASE U!TxPurge
    BY <1>0, <1>1, <1>27 DEF U!TxPurge, UartCountTypes
  <1>28. CASE U!DrainCancel
    BY <1>0, <1>1, <1>28 DEF U!DrainCancel, UartCountTypes
  <1>29. CASE U!DrainTimerEnds
    BY <1>0, <1>1, <1>29 DEF U!DrainTimerEnds, UartCountTypes
  <1>30. ASSUME NEW cpu \in Cpus, U!Dpc(cpu)
        PROVE  UartCountTypes'
    BY <1>0, <1>30 DEF U!Dpc, UartCountTypes
  <1>31. ASSUME NEW cpu \in Cpus, U!DpcAnnounces(cpu)
        PROVE  UartCountTypes'
    BY <1>0, <1>31 DEF U!DpcAnnounces, UartCountTypes
  <1> QED BY <1>2, <1>3, <1>4, <1>5, <1>6, <1>7, <1>8, <1>9, <1>10, <1>11, <1>12, <1>13,
             <1>14, <1>15, <1>16, <1>17, <1>18, <1>19, <1>20, <1>21, <1>22, <1>23, <1>24,
             <1>25, <1>26, <1>27, <1>28, <1>29, <1>30, <1>31
     DEF U!Next

\* Every step keeps the types of the header UART.
LEMMA UartTypeStep ==
  ASSUME U!TypeOK, U!Next
  PROVE  U!TypeOK'
  BY UartNotifyTypeStep, UartFlagTypeStep, UartCountTypeStep
  DEF NotifyTypes, UartFlagTypes, UartCountTypes, U!TypeOK, U!SerCxTypeOK, U!Kinds

\* Every step keeps the types of the Bluetooth UART: what it shares with SerCx2.
LEMMA BcmNotifyTypeStep ==
  ASSUME B!TypeOK, B!Next
  PROVE  NotifyTypes({Cpu}, b_owed, b_armed, b_pending, b_committed)'
  <1> USE DEF B!sercx, B!flow, B!erratum, B!regs, B!line, B!txhw, B!device
  <1>0. NotifyTypes({Cpu}, b_owed, b_armed, b_pending, b_committed)
    BY DEF B!TypeOK, B!SerCxTypeOK, B!Kinds, NotifyTypes
  <1>1. CASE B!Prepare
    BY <1>0, <1>1 DEF B!Prepare, NotifyTypes
  <1>2. CASE B!Release
    BY <1>0, <1>2 DEF B!Release, NotifyTypes
  <1>3. CASE B!Start
    BY <1>0, <1>3 DEF B!Start, NotifyTypes
  <1>4. CASE B!InterruptEnable
    BY <1>0, <1>4 DEF B!InterruptEnable, NotifyTypes
  <1>5. CASE B!InterruptDisable
    BY <1>0, <1>5 DEF B!InterruptDisable, NotifyTypes
  <1>6. CASE B!Stop
    BY <1>0, <1>6 DEF B!Stop, B!Flushed, NotifyTypes
  <1>7. CASE B!StopRestore
    BY <1>0, <1>7 DEF B!StopRestore, NotifyTypes
  <1>8. CASE B!Close
    BY <1>0, <1>8 DEF B!Close, NotifyTypes
  <1>9. CASE B!Control
    BY <1>0, <1>9 DEF B!Control, NotifyTypes
  <1>10. CASE B!Apply
    BY <1>0, <1>10 DEF B!Apply, NotifyTypes
  <1>11. CASE B!IsrQuirk
    BY <1>0, <1>11 DEF B!IsrQuirk, NotifyTypes
  <1>12. CASE B!Isr
    BY <1>0, <1>12 DEF B!Isr, NotifyTypes
  <1>13. CASE B!QuirkFires
    BY <1>0, <1>13 DEF B!QuirkFires, NotifyTypes
  <1>14. CASE B!QuirkTimer
    BY <1>0, <1>14 DEF B!QuirkTimer, NotifyTypes
  <1>15. CASE B!Receive
    BY <1>0, <1>15 DEF B!Receive, NotifyTypes
  <1>16. CASE B!Transmit
    BY <1>0, <1>16 DEF B!Transmit, NotifyTypes
  <1>17. CASE B!Purge
    BY <1>0, <1>17 DEF B!Purge, NotifyTypes
  <1>18. CASE B!PeerSends
    BY <1>0, <1>18 DEF B!PeerSends, NotifyTypes
  <1>19. CASE B!Lands
    BY <1>0, <1>19 DEF B!Lands, NotifyTypes
  <1>20. CASE B!Erratum
    BY <1>0, <1>20 DEF B!Erratum, NotifyTypes
  <1>21. CASE B!Shift
    BY <1>0, <1>21 DEF B!Shift, NotifyTypes
  <1>22. CASE B!Open
    BY <1>0, <1>22 DEF B!Open, B!Forget, NotifyTypes
  <1>23. CASE B!RxEnable
    BY <1>0, <1>23 DEF B!RxEnable, B!Enable, NotifyTypes
  <1>24. CASE B!TxEnable
    BY <1>0, <1>24 DEF B!TxEnable, B!Enable, NotifyTypes
  <1>25. CASE B!RxCancel
    BY <1>0, <1>25 DEF B!RxCancel, B!Cancel, NotifyTypes
  <1>26. CASE B!TxCancel
    BY <1>0, <1>26 DEF B!TxCancel, B!Cancel, NotifyTypes
  <1>27. CASE B!Dpc(Cpu)
    BY <1>0, <1>27 DEF B!Dpc, B!Commit, NotifyTypes
  <1>28. CASE B!StartQuirk(Cpu)
    BY <1>0, <1>28 DEF B!StartQuirk, NotifyTypes
  <1>29. CASE B!DpcAnnounces(Cpu)
    BY <1>0, <1>29 DEF B!DpcAnnounces, B!Announce, B!DpcEnds, NotifyTypes
  <1> QED BY <1>1, <1>2, <1>3, <1>4, <1>5, <1>6, <1>7, <1>8, <1>9, <1>10, <1>11, <1>12, <1>13,
             <1>14, <1>15, <1>16, <1>17, <1>18, <1>19, <1>20, <1>21, <1>22, <1>23, <1>24,
             <1>25, <1>26, <1>27, <1>28, <1>29
     DEF B!Next

BcmFlagTypes ==
  /\ b_online \in BOOLEAN /\ b_open \in BOOLEAN /\ b_queued \in BOOLEAN
  /\ b_power \in {"gone", "off", "ready", "on", "quiet", "stopping"}
  /\ held \in BOOLEAN /\ paused \in BOOLEAN /\ quirk \in BOOLEAN /\ quirkDue \in BOOLEAN
  /\ wait \in BOOLEAN /\ b_timer \in {"off", "due", "fired"}
  /\ wire \in BOOLEAN /\ empty \in BOOLEAN
  /\ stale \in BOOLEAN /\ lost \in {"none", "own", "stale"}

\* Every step keeps the types of its flags.
LEMMA BcmFlagTypeStep ==
  ASSUME B!TypeOK, B!Next
  PROVE  BcmFlagTypes'
  <1> USE DEF B!sercx, B!flow, B!erratum, B!regs, B!line, B!txhw, B!device
  <1>0. BcmFlagTypes
    BY DEF B!TypeOK, B!SerCxTypeOK, BcmFlagTypes
  <1>1. CASE B!Prepare
    BY <1>0, <1>1 DEF B!Prepare, BcmFlagTypes
  <1>2. CASE B!Release
    BY <1>0, <1>2 DEF B!Release, BcmFlagTypes
  <1>3. CASE B!Start
    <2>1. /\ b_power' = "ready" /\ empty' = FALSE
          /\ UNCHANGED <<b_online, b_open, b_queued, held, paused, quirk, quirkDue, wait, b_timer,
                         wire, stale, lost>>
      BY <1>3 DEF B!Start
    <2> QED BY <1>0, <2>1 DEF BcmFlagTypes
  <1>4. CASE B!InterruptEnable
    BY <1>0, <1>4 DEF B!InterruptEnable, BcmFlagTypes
  <1>5. CASE B!InterruptDisable
    <2>1. /\ b_power' = "quiet" /\ b_online' = FALSE
          /\ UNCHANGED <<b_open, b_queued, held, paused, quirk, quirkDue, wait, b_timer, wire,
                         empty, stale, lost>>
      BY <1>5 DEF B!InterruptDisable
    <2> QED BY <1>0, <2>1 DEF BcmFlagTypes
  <1>6. CASE B!Stop
    BY <1>0, <1>6 DEF B!Stop, B!Flushed, BcmFlagTypes
  <1>7. CASE B!StopRestore
    BY <1>0, <1>7 DEF B!StopRestore, BcmFlagTypes
  <1>8. CASE B!Close
    BY <1>0, <1>8 DEF B!Close, BcmFlagTypes
  <1>9. CASE B!Control
    BY <1>0, <1>9 DEF B!Control, BcmFlagTypes
  <1>10. CASE B!Apply
    <2>1. UNCHANGED <<b_online, b_open, b_queued, b_power, paused, quirk, quirkDue, wait,
                       b_timer, wire, empty, stale, lost>>
      BY <1>10 DEF B!Apply
    <2>2. held' \in BOOLEAN
      BY <1>10 DEF B!Apply
    <2> QED BY <1>0, <2>1, <2>2 DEF BcmFlagTypes
  <1>11. CASE B!IsrQuirk
    BY <1>0, <1>11 DEF B!IsrQuirk, BcmFlagTypes
  <1>12. CASE B!Isr
    <2>1. UNCHANGED <<b_online, b_open, b_power, held, quirk, quirkDue, wait, b_timer, wire,
                       stale, lost>>
      BY <1>12 DEF B!Isr
    <2>2. b_queued' \in BOOLEAN
      BY <1>12 DEF B!Isr
    <2>3. paused' \in BOOLEAN
      BY <1>12 DEF B!Isr
    <2>4. empty' \in BOOLEAN
      BY <1>0, <1>12 DEF B!Isr, BcmFlagTypes
    <2> QED BY <1>0, <2>1, <2>2, <2>3, <2>4 DEF BcmFlagTypes
  <1>13. CASE B!QuirkFires
    BY <1>0, <1>13 DEF B!QuirkFires, BcmFlagTypes
  <1>14. CASE B!QuirkTimer
    <2>1. UNCHANGED <<b_online, b_open, b_power, held, quirkDue, wait, stale>>
      BY <1>14 DEF B!QuirkTimer
    <2>2. b_timer' \in {"off", "due", "fired"}
      BY <1>14 DEF B!QuirkTimer
    <2>3. quirk' \in BOOLEAN /\ empty' \in BOOLEAN
      BY <1>0, <1>14 DEF B!QuirkTimer, BcmFlagTypes
    <2>4. wire' \in BOOLEAN /\ lost' \in {"none", "own", "stale"}
      BY <1>0, <1>14 DEF B!QuirkTimer, BcmFlagTypes
    <2>5. paused' \in BOOLEAN
      BY <1>0, <1>14 DEF B!QuirkTimer, BcmFlagTypes
    <2>6. b_queued' \in BOOLEAN
      BY <1>0, <1>14 DEF B!QuirkTimer, BcmFlagTypes
    <2> QED BY <1>0, <2>1, <2>2, <2>3, <2>4, <2>5, <2>6 DEF BcmFlagTypes
  <1>15. CASE B!Receive
    BY <1>0, <1>15 DEF B!Receive, BcmFlagTypes
  <1>16. CASE B!Transmit
    BY <1>0, <1>16 DEF B!Transmit, BcmFlagTypes
  <1>17. CASE B!Purge
    <2>1. UNCHANGED <<b_online, b_open, b_queued, b_power, held, quirk, quirkDue, wait, b_timer,
                       wire, stale, lost>>
      BY <1>17 DEF B!Purge
    <2>2. paused' \in BOOLEAN
      BY <1>0, <1>17 DEF B!Purge, BcmFlagTypes
    <2>3. empty' \in BOOLEAN
      BY <1>0, <1>17 DEF B!Purge, BcmFlagTypes
    <2> QED BY <1>0, <2>1, <2>2, <2>3 DEF BcmFlagTypes
  <1>18. CASE B!PeerSends
    BY <1>0, <1>18 DEF B!PeerSends, BcmFlagTypes
  <1>19. CASE B!Lands
    <2>1. UNCHANGED <<b_online, b_open, b_queued, b_power, held, paused, quirk, quirkDue,
                       b_timer, empty, stale, lost>>
      BY <1>19 DEF B!Lands
    <2>2. wire' \in BOOLEAN
      BY <1>19 DEF B!Lands
    <2>3. wait' \in BOOLEAN
      BY <1>19 DEF B!Lands
    <2> QED BY <1>0, <2>1, <2>2, <2>3 DEF BcmFlagTypes
  <1>20. CASE B!Erratum
    BY <1>0, <1>20 DEF B!Erratum, BcmFlagTypes
  <1>21. CASE B!Shift
    BY <1>0, <1>21 DEF B!Shift, BcmFlagTypes
  <1>22. CASE B!Open
    BY <1>0, <1>22 DEF B!Open, B!Forget, BcmFlagTypes
  <1>23. CASE B!RxEnable
    BY <1>0, <1>23 DEF B!RxEnable, B!Enable, BcmFlagTypes
  <1>24. CASE B!TxEnable
    BY <1>0, <1>24 DEF B!TxEnable, B!Enable, BcmFlagTypes
  <1>25. CASE B!RxCancel
    BY <1>0, <1>25 DEF B!RxCancel, B!Cancel, BcmFlagTypes
  <1>26. CASE B!TxCancel
    BY <1>0, <1>26 DEF B!TxCancel, B!Cancel, BcmFlagTypes
  <1>27. CASE B!Dpc(Cpu)
    <2>1. UNCHANGED <<b_online, b_open, b_power, held, paused, quirk, wait, b_timer, wire,
                       empty, stale, lost>>
      BY <1>27 DEF B!Dpc, B!Commit
    <2>2. b_queued' \in BOOLEAN
      BY <1>27 DEF B!Dpc, B!Commit
    <2>3. quirkDue' \in BOOLEAN
      BY <1>27 DEF B!Dpc, B!Commit
    <2> QED BY <1>0, <2>1, <2>2, <2>3 DEF BcmFlagTypes
  <1>28. CASE B!StartQuirk(Cpu)
    BY <1>0, <1>28 DEF B!StartQuirk, BcmFlagTypes
  <1>29. CASE B!DpcAnnounces(Cpu)
    BY <1>0, <1>29 DEF B!DpcAnnounces, B!Announce, B!DpcEnds, BcmFlagTypes
  <1> QED BY <1>1, <1>2, <1>3, <1>4, <1>5, <1>6, <1>7, <1>8, <1>9, <1>10, <1>11, <1>12, <1>13,
             <1>14, <1>15, <1>16, <1>17, <1>18, <1>19, <1>20, <1>21, <1>22, <1>23, <1>24,
             <1>25, <1>26, <1>27, <1>28, <1>29
     DEF B!Next

BcmMaskTypes == rts \in BOOLEAN /\ rxmask \in BOOLEAN /\ b_txmask \in BOOLEAN /\ thri \in BOOLEAN

\* Every step keeps the types of its interrupt mask.
LEMMA BcmMaskTypeStep ==
  ASSUME B!TypeOK, B!Next
  PROVE  BcmMaskTypes'
  <1> USE DEF B!sercx, B!flow, B!erratum, B!regs, B!line, B!txhw, B!device
  <1>0. BcmMaskTypes
    BY DEF B!TypeOK, BcmMaskTypes
  <1>m. B!InterruptMask => BcmMaskTypes'
    BY DEF B!InterruptMask, BcmMaskTypes
  <1>1. CASE B!Prepare
    BY <1>0, <1>m, <1>1 DEF B!Prepare, BcmMaskTypes
  <1>2. CASE B!Release
    BY <1>0, <1>m, <1>2 DEF B!Release, BcmMaskTypes
  <1>3. CASE B!Start
    BY <1>0, <1>m, <1>3 DEF B!Start, BcmMaskTypes
  <1>4. CASE B!InterruptEnable
    BY <1>0, <1>m, <1>4 DEF B!InterruptEnable, BcmMaskTypes
  <1>5. CASE B!InterruptDisable
    BY <1>0, <1>m, <1>5 DEF B!InterruptDisable, BcmMaskTypes
  <1>6. CASE B!Stop
    BY <1>0, <1>m, <1>6 DEF B!Stop, B!Flushed, BcmMaskTypes
  <1>7. CASE B!StopRestore
    BY <1>0, <1>m, <1>7 DEF B!StopRestore, BcmMaskTypes
  <1>8. CASE B!Close
    BY <1>0, <1>m, <1>8 DEF B!Close, BcmMaskTypes
  <1>9. CASE B!Control
    BY <1>0, <1>m, <1>9 DEF B!Control, BcmMaskTypes
  <1>10. CASE B!Apply
    BY <1>0, <1>m, <1>10 DEF B!Apply, BcmMaskTypes
  <1>11. CASE B!IsrQuirk
    BY <1>0, <1>m, <1>11 DEF B!IsrQuirk, BcmMaskTypes
  <1>12. CASE B!Isr
    BY <1>0, <1>m, <1>12 DEF B!Isr, BcmMaskTypes
  <1>13. CASE B!QuirkFires
    BY <1>0, <1>m, <1>13 DEF B!QuirkFires, BcmMaskTypes
  <1>14. CASE B!QuirkTimer
    BY <1>0, <1>m, <1>14 DEF B!QuirkTimer, BcmMaskTypes
  <1>15. CASE B!Receive
    BY <1>0, <1>m, <1>15 DEF B!Receive, BcmMaskTypes
  <1>16. CASE B!Transmit
    BY <1>0, <1>m, <1>16 DEF B!Transmit, BcmMaskTypes
  <1>17. CASE B!Purge
    BY <1>0, <1>m, <1>17 DEF B!Purge, BcmMaskTypes
  <1>18. CASE B!PeerSends
    BY <1>0, <1>m, <1>18 DEF B!PeerSends, BcmMaskTypes
  <1>19. CASE B!Lands
    BY <1>0, <1>m, <1>19 DEF B!Lands, BcmMaskTypes
  <1>20. CASE B!Erratum
    BY <1>0, <1>m, <1>20 DEF B!Erratum, BcmMaskTypes
  <1>21. CASE B!Shift
    BY <1>0, <1>m, <1>21 DEF B!Shift, BcmMaskTypes
  <1>22. CASE B!Open
    BY <1>0, <1>m, <1>22 DEF B!Open, B!Forget, BcmMaskTypes
  <1>23. CASE B!RxEnable
    BY <1>0, <1>m, <1>23 DEF B!RxEnable, B!Enable, BcmMaskTypes
  <1>24. CASE B!TxEnable
    BY <1>0, <1>m, <1>24 DEF B!TxEnable, B!Enable, BcmMaskTypes
  <1>25. CASE B!RxCancel
    BY <1>0, <1>m, <1>25 DEF B!RxCancel, B!Cancel, BcmMaskTypes
  <1>26. CASE B!TxCancel
    BY <1>0, <1>m, <1>26 DEF B!TxCancel, B!Cancel, BcmMaskTypes
  <1>27. CASE B!Dpc(Cpu)
    BY <1>0, <1>m, <1>27 DEF B!Dpc, B!Commit, BcmMaskTypes
  <1>28. CASE B!StartQuirk(Cpu)
    BY <1>0, <1>m, <1>28 DEF B!StartQuirk, BcmMaskTypes
  <1>29. CASE B!DpcAnnounces(Cpu)
    BY <1>0, <1>m, <1>29 DEF B!DpcAnnounces, B!Announce, B!DpcEnds, BcmMaskTypes
  <1> QED BY <1>1, <1>2, <1>3, <1>4, <1>5, <1>6, <1>7, <1>8, <1>9, <1>10, <1>11, <1>12, <1>13,
             <1>14, <1>15, <1>16, <1>17, <1>18, <1>19, <1>20, <1>21, <1>22, <1>23, <1>24,
             <1>25, <1>26, <1>27, <1>28, <1>29
     DEF B!Next

BcmCountTypes == b_ring \in 0..High /\ b_rxf \in 0..1 /\ b_txf \in 0..1

\* Every step keeps its ring and its FIFOs within their sizes.
LEMMA BcmCountTypeStep ==
  ASSUME B!TypeOK, B!Next
  PROVE  BcmCountTypes'
  <1> USE DEF B!sercx, B!flow, B!erratum, B!regs, B!line, B!txhw, B!device
  <1>0. BcmCountTypes /\ 0 \in 0..High /\ 0 \in 0..1
    BY SizesAssumption DEF B!TypeOK, BcmCountTypes
  <1>1. B!Captured \in 0..High /\ B!Left \in 0..1
    BY <1>0, SizesAssumption DEF B!Captured, B!Left, B!Less, BcmCountTypes
  <1>r. ASSUME NEW n \in 1..High
        PROVE  B!Captured - B!Less(n, B!Captured) \in 0..High
    BY <1>1, SizesAssumption DEF B!Less
  <1>2. CASE B!Prepare
    BY <1>0, <1>1, <1>2 DEF B!Prepare, BcmCountTypes
  <1>3. CASE B!Release
    BY <1>0, <1>1, <1>3 DEF B!Release, BcmCountTypes
  <1>4. CASE B!Start
    BY <1>0, <1>1, <1>4 DEF B!Start, BcmCountTypes
  <1>5. CASE B!InterruptEnable
    BY <1>0, <1>1, <1>5 DEF B!InterruptEnable, BcmCountTypes
  <1>6. CASE B!InterruptDisable
    BY <1>0, <1>1, <1>6 DEF B!InterruptDisable, BcmCountTypes
  <1>7. CASE B!Stop
    BY <1>0, <1>1, <1>7 DEF B!Stop, B!Flushed, BcmCountTypes
  <1>8. CASE B!StopRestore
    BY <1>0, <1>1, <1>8 DEF B!StopRestore, BcmCountTypes
  <1>9. CASE B!Close
    BY <1>0, <1>1, <1>9 DEF B!Close, BcmCountTypes
  <1>10. CASE B!Control
    BY <1>0, <1>1, <1>10 DEF B!Control, BcmCountTypes
  <1>11. CASE B!Apply
    BY <1>0, <1>1, <1>11 DEF B!Apply, BcmCountTypes
  <1>12. CASE B!IsrQuirk
    BY <1>0, <1>1, <1>12 DEF B!IsrQuirk, BcmCountTypes
  <1>13. CASE B!Isr
    BY <1>0, <1>1, <1>13 DEF B!Isr, BcmCountTypes
  <1>14. CASE B!QuirkFires
    BY <1>0, <1>1, <1>14 DEF B!QuirkFires, BcmCountTypes
  <1>15. CASE B!QuirkTimer
    BY <1>0, <1>1, <1>15 DEF B!QuirkTimer, BcmCountTypes
  <1>16. CASE B!Receive
    BY <1>0, <1>1, <1>r, <1>16 DEF B!Receive, BcmCountTypes
  <1>17. CASE B!Transmit
    BY <1>0, <1>1, <1>17 DEF B!Transmit, BcmCountTypes
  <1>18. CASE B!Purge
    BY <1>0, <1>1, <1>18 DEF B!Purge, BcmCountTypes
  <1>19. CASE B!PeerSends
    BY <1>0, <1>1, <1>19 DEF B!PeerSends, BcmCountTypes
  <1>20. CASE B!Lands
    BY <1>0, <1>1, <1>20 DEF B!Lands, B!Less, BcmCountTypes
  <1>21. CASE B!Erratum
    BY <1>0, <1>1, <1>21 DEF B!Erratum, BcmCountTypes
  <1>22. CASE B!Shift
    BY <1>0, <1>1, <1>22 DEF B!Shift, BcmCountTypes
  <1>23. CASE B!Open
    BY <1>0, <1>1, <1>23 DEF B!Open, B!Forget, BcmCountTypes
  <1>24. CASE B!RxEnable
    BY <1>0, <1>1, <1>24 DEF B!RxEnable, B!Enable, BcmCountTypes
  <1>25. CASE B!TxEnable
    BY <1>0, <1>1, <1>25 DEF B!TxEnable, B!Enable, BcmCountTypes
  <1>26. CASE B!RxCancel
    BY <1>0, <1>1, <1>26 DEF B!RxCancel, B!Cancel, BcmCountTypes
  <1>27. CASE B!TxCancel
    BY <1>0, <1>1, <1>27 DEF B!TxCancel, B!Cancel, BcmCountTypes
  <1>28. CASE B!Dpc(Cpu)
    BY <1>0, <1>28 DEF B!Dpc, BcmCountTypes
  <1>29. CASE B!StartQuirk(Cpu)
    BY <1>0, <1>29 DEF B!StartQuirk, BcmCountTypes
  <1>30. CASE B!DpcAnnounces(Cpu)
    BY <1>0, <1>30 DEF B!DpcAnnounces, BcmCountTypes
  <1> QED BY <1>2, <1>3, <1>4, <1>5, <1>6, <1>7, <1>8, <1>9, <1>10, <1>11, <1>12, <1>13,
             <1>14, <1>15, <1>16, <1>17, <1>18, <1>19, <1>20, <1>21, <1>22, <1>23, <1>24,
             <1>25, <1>26, <1>27, <1>28, <1>29, <1>30
     DEF B!Next

\* Every step keeps the types of the Bluetooth UART.
LEMMA BcmTypeStep ==
  ASSUME B!TypeOK, B!Next
  PROVE  B!TypeOK'
  BY BcmNotifyTypeStep, BcmFlagTypeStep, BcmMaskTypeStep, BcmCountTypeStep
  DEF NotifyTypes, BcmFlagTypes, BcmMaskTypes, BcmCountTypes, B!TypeOK, B!SerCxTypeOK, B!Kinds

-------------------------------------------------------------------------------
(* The three together.                                                       *)

UartAll == U!TypeOK /\ UartInv
BcmAll  == B!TypeOK /\ BcmInv /\ QuirkInv

LEMMA UartInit == U!Init => UartAll
  <1> SUFFICES ASSUME U!Init PROVE UartAll
    OBVIOUS
  <1>1. 0 \in 0..Ring /\ 0 \in 0..Fifo
    BY SizesAssumption
  <1>2. U!TypeOK
    BY <1>1 DEF U!Init, U!SerCxInit, U!TypeOK, U!SerCxTypeOK, U!Kinds
  <1>3. OneAnswerer(Cpus, u_owed, u_armed, u_committed)
    BY DEF U!Init, U!SerCxInit, OneAnswerer
  <1>4. UartInv
    BY <1>3 DEF U!Init, U!SerCxInit, UartInv
  <1> QED BY <1>2, <1>4 DEF UartAll

LEMMA UartKept == UartAll /\ UNCHANGED uart => UartAll'
  <1> SUFFICES ASSUME UartAll, UNCHANGED uart PROVE UartAll'
    OBVIOUS
  <1>1. U!TypeOK'
    BY DEF UartAll, uart, U!TypeOK, U!SerCxTypeOK
  <1>2. UartInv'
    BY DEF UartAll, uart, UartInv, OneAnswerer
  <1> QED BY <1>1, <1>2 DEF UartAll

LEMMA BcmInit == B!Init => BcmAll
  <1> SUFFICES ASSUME B!Init PROVE BcmAll
    OBVIOUS
  <1>1. 0 \in 0..High /\ 0 \in 0..1
    BY SizesAssumption
  <1>c. B!SerCxTypeOK
    BY DEF B!Init, B!SerCxInit, B!SerCxTypeOK, B!Kinds
  <1>n. b_ring \in 0..High /\ b_rxf \in 0..1 /\ b_txf \in 0..1
    BY <1>1 DEF B!Init
  <1>f. /\ b_power \in {"gone", "off", "ready", "on", "quiet", "stopping"}
        /\ held \in BOOLEAN /\ paused \in BOOLEAN /\ quirk \in BOOLEAN /\ quirkDue \in BOOLEAN
        /\ wait \in BOOLEAN /\ b_timer \in {"off", "due", "fired"}
    BY DEF B!Init
  <1>g. /\ rts \in BOOLEAN /\ rxmask \in BOOLEAN /\ b_txmask \in BOOLEAN /\ wire \in BOOLEAN
        /\ empty \in BOOLEAN /\ thri \in BOOLEAN /\ stale \in BOOLEAN
        /\ lost \in {"none", "own", "stale"}
    BY DEF B!Init
  <1>2. B!TypeOK
    BY <1>c, <1>n, <1>f, <1>g DEF B!TypeOK
  <1>3. OneAnswerer({Cpu}, b_owed, b_armed, b_committed) /\ b_committed[Cpu] = {}
    BY DEF B!Init, B!SerCxInit, OneAnswerer
  <1>4. B!FlowFollowsFlags
    BY DEF B!Init, B!SerCxInit, B!FlowFollowsFlags, B!Live
  <1>5. BcmInv
    BY <1>3, <1>4 DEF B!Init, B!SerCxInit, BcmInv
  <1>6. QuirkInv
    BY <1>3 DEF B!Init, B!SerCxInit, QuirkInv, QuirkTaken, B!DummyReadIsSafe
  <1> QED BY <1>2, <1>5, <1>6 DEF BcmAll

LEMMA BcmKept == BcmAll /\ UNCHANGED bcm => BcmAll'
  <1> SUFFICES ASSUME BcmAll, UNCHANGED bcm PROVE BcmAll'
    OBVIOUS
  <1>1. B!TypeOK'
    BY DEF BcmAll, bcm, B!TypeOK, B!SerCxTypeOK
  <1>2. BcmInv'
    BY DEF BcmAll, bcm, BcmInv, OneAnswerer, B!FlowFollowsFlags, B!Live
  <1>3. QuirkInv'
    BY DEF BcmAll, bcm, QuirkInv, QuirkTaken, B!DummyReadIsSafe
  <1> QED BY <1>1, <1>2, <1>3 DEF BcmAll

AllInv == part \in {"spb", "uart", "bcm"} /\ SpbInv /\ UartAll /\ BcmAll

LEMMA AllInvHolds == AllSpec => []AllInv
  <1> DEFINE all == <<part, vars, uart, bcm>>
  <1>1. AllInit => AllInv
    BY SpbInit, UartInit, BcmInit DEF AllInit, AllInv
  <1>2. AllInv /\ [AllNext]_all => AllInv'
    <2> SUFFICES ASSUME AllInv, [AllNext]_all PROVE AllInv'
      OBVIOUS
    <2>1. /\ UNCHANGED part /\ [Next]_vars
          /\ U!Next \/ UNCHANGED uart
          /\ B!Next \/ UNCHANGED bcm
      BY DEF AllNext
    <2>2. SpbInv'
      BY <2>1, SpbStep DEF AllInv
    <2>3. UartAll'
      <3>1. CASE U!Next
        BY <3>1, UartTypeStep, UartStep DEF AllInv, UartAll
      <3> QED BY <2>1, <3>1, UartKept DEF AllInv
    <2>4. BcmAll'
      <3>1. CASE B!Next
        BY <3>1, BcmTypeStep, BcmPowerStep, BcmAnswerers, BcmFlowStep, QuirkStep
        DEF AllInv, BcmAll, BcmInv
      <3> QED BY <2>1, <3>1, BcmKept DEF AllInv
    <2> QED BY <2>1, <2>2, <2>3, <2>4 DEF AllInv
  <1> QED BY <1>1, <1>2, PTL DEF AllSpec

\* Whatever ISR, DPCs, drain timer and cancel routines of a UART do at the same time, each
\* notification that SerCx2 waits for is answered by one of them, and a UART that is off has
\* no timer left (UartIsr, UartDpc, UartRxCancel, UartDrainTimer, UartStop of both drivers).
THEOREM AnsweredOnceHolds == AllSpec => []AnsweredOnce
  <1>1. AllInv => AnsweredOnce
    <2> SUFFICES ASSUME AllInv PROVE AnsweredOnce
      OBVIOUS
    <2>1. U!AnsweredOnce
      <3>1. ASSUME NEW k \in {"rx", "tx"}
            PROVE  U!Holders(k) = IF k \in u_owed THEN 1 ELSE 0
        <4>1. OneAnswerer(Cpus, u_owed, u_armed, u_committed)
          BY DEF AllInv, UartAll, UartInv
        <4>2. Answerers(Cpus, u_armed, u_committed, k) = IF k \in u_owed THEN 1 ELSE 0
          BY <4>1, AnswerersCounted
        <4> QED BY <4>2, SameCardinality DEF U!Holders, Answerers
      <3> QED BY <3>1 DEF AllInv, UartAll, UartInv, U!AnsweredOnce, U!Kinds
    <2>2. B!AnsweredOnce
      <3>1. ASSUME NEW k \in {"rx", "tx"}
            PROVE  B!Holders(k) = IF k \in b_owed THEN 1 ELSE 0
        <4>1. OneAnswerer({Cpu}, b_owed, b_armed, b_committed)
          BY DEF AllInv, BcmAll, BcmInv
        <4>2. Answerers({Cpu}, b_armed, b_committed, k) = IF k \in b_owed THEN 1 ELSE 0
          BY <4>1, AnswerersCounted
        <4> QED BY <4>2, SameCardinality DEF B!Holders, Answerers
      <3> QED BY <3>1 DEF B!AnsweredOnce, B!Kinds
    <2>3. U!OffIsQuiet /\ B!OffIsQuiet
      BY DEF AllInv, UartAll, UartInv, BcmAll, BcmInv, U!OffIsQuiet, B!OffIsQuiet
    <2>4. WellTyped
      BY SpbTypes DEF AllInv, UartAll, BcmAll, WellTyped
    <2> QED BY <2>1, <2>2, <2>3, <2>4 DEF AnsweredOnce
  <1> QED BY <1>1, AllInvHolds, PTL

\* On the Bluetooth UART RTS and the receive interrupt follow the flags after every handler,
\* and while no session was closed with it under way, the dummy read of the erratum swallows
\* no byte (UartInterruptMask, UartIsr, UartDpc, UartQuirkTimer of src/bcm2712-uart).
THEOREM FlowControlAlwaysHolds == AllSpec => []FlowControlHolds
  <1>1. AllInv => FlowControlHolds
    BY DEF AllInv, BcmAll, BcmInv, QuirkInv, FlowControlHolds
  <1> QED BY <1>1, AllInvHolds, PTL

================================================================================

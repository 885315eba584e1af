---------------------------------- MODULE MCGpu --------------------------------
(***************************************************************************)
(* The GPU's driver for TLC: the placement of objects (V3dObjects), its    *)
(* sessions (V3d), its interrupts and its wait (V3dWait), and the exchange *)
(* with the firmware (MbxTransport).  They share no state here, so a       *)
(* behaviour is one of one of them: part says of which, and the others     *)
(* stay in their initial states.                                           *)
(***************************************************************************)
EXTENDS V3dObjects, FiniteSets

CONSTANTS Files, NoFile, Buffers, Root, MaxJobs, MarkerFailures, Units, MaxRequests, MaxForeign

\* NULL is no file, the fixed buffers are none of a session's, and the bounds are numbers.
ASSUME SessionAssumption ==
  /\ NoFile \notin Files /\ Buffers \in Nat /\ Root \notin 0 .. (Buffers - 1)
  /\ MaxJobs \in Nat /\ MarkerFailures \in Nat
  /\ MaxRequests \in Nat /\ MaxForeign \in Nat

VARIABLES
  part,
  pnp, regs, online, bootFault, marker, lost, pinned, owner, memSession, clock, pm, powered,
  claimed, woke, irqLive, clean, slot, submitted, completed, at, wants, bin, memory, clockHeld,
  pmHeld, asleep, ptes, tlb, mmuOn, job, corrupt, found,
  w_pc, todo, need, jobs, late, w_irqLive, pending, wake, dpc, isr, bits, sts, masked, engine,
  x_pc, seq, fault, unsafe, buffer, request, reply, tx, working, rx, strangers, result

V == INSTANCE V3d WITH NumSlots <- Buffers
W == INSTANCE V3dWait WITH pc <- w_pc, irqLive <- w_irqLive
X == INSTANCE MbxTransport WITH pc <- x_pc

session  == <<pnp, regs, online, bootFault, marker, lost, pinned, owner, memSession, clock, pm,
              powered, claimed, woke, irqLive, clean, slot, submitted, completed, at, wants, bin,
              memory, clockHeld, pmHeld, asleep, ptes, tlb, mmuOn, job, corrupt, found>>
wait     == <<w_pc, todo, need, jobs, late, w_irqLive, pending, wake, dpc, isr, bits, sts,
              masked, engine>>
exchange == <<x_pc, seq, fault, unsafe, buffer, request, reply, tx, working, rx, strangers,
              result>>

AllInit ==
  /\ part \in {"objects", "session", "wait", "exchange"}
  /\ Init /\ V!Init /\ (part # "session" => asleep = FALSE) /\ W!Init /\ X!Init

AllNext ==
  \/ part = "objects"  /\ Next   /\ UNCHANGED <<part, session, wait, exchange>>
  \/ part = "session"  /\ V!Next /\ UNCHANGED <<part, vars, wait, exchange>>
  \/ part = "wait"     /\ W!Next /\ UNCHANGED <<part, vars, session, exchange>>
  \/ part = "exchange" /\ X!Next /\ UNCHANGED <<part, vars, session, wait>>

\* The fairness of the part that runs, as its module states it.
AllFairness ==
  /\ WF_vars(part = "objects" /\ Placement)
  /\ WF_wait(part = "wait" /\ W!Thread)
  /\ \A u \in Units : WF_wait(part = "wait" /\ W!Isr(u)) /\ WF_wait(part = "wait" /\ W!Dpc(u))
  /\ WF_exchange(part = "exchange" /\ (X!Post \/ X!Poll \/ X!Timeout \/ X!Check))

AllSpec == AllInit /\ [][AllNext]_<<part, vars, session, wait, exchange>> /\ AllFairness

\* The two budgets of a session are exactly the pages its live objects take, whatever
\* order they were created, imported and destroyed in (ObjectCreate, ObjectImport,
\* ObjectDestroy), and neither is exceeded.
BudgetsAreExact ==
  LET Objects(k) == {s \in Slots : Used(s) /\ kind[s] = k}
      Total(k)   == Cardinality(UNION {{s} \X (1..bytes[s]) : s \in Objects(k)})
  IN  /\ objectBytes = Total("own") /\ objectBytes <= MaxOwn
      /\ importedBytes = Total("import") /\ importedBytes <= MaxImported

\* Everything the variables of the part that runs may hold (TypeOK of each module).
WellTyped ==
  CASE part = "objects" -> TypeOK   [] part = "session"  -> V!TypeOK
    [] part = "wait"    -> W!TypeOK [] part = "exchange" -> X!TypeOK

\* What a GPU that can still run needs stays: the memory it may address, its clock,
\* its reset gate and the registers its interrupts touch; and between two requests
\* there is a whole session or none (V3d).
GpuKeepsWhatItUses ==
  /\ V!NothingDangles /\ V!GpuKeepsProviders /\ V!InterruptsFindTheCore /\ V!SessionIsAll
  /\ WellTyped

\* A client is told of an end only when its own job has ended, gets no session on a GPU
\* that failed in this boot, and never reaches another object by an old handle; the
\* answer of an exchange with the firmware is its own (V3d, V3dWait, V3dObjects,
\* MbxTransport).
NobodyIsMisled ==
  HandlesNotReused /\ V!FenceIsHonest /\ V!BlocksReuseUntilReboot /\ W!OwnCompletion /\ X!OwnAnswer

\* Somebody waits: for a place, for a job that has ended, for the firmware.
Waiting ==
  CASE part = "objects"  -> pc # "idle"
    [] part = "session"  -> FALSE
    [] part = "wait"     -> engine = "ended" /\ w_pc \notin {"free", "stopped"}
    [] part = "exchange" -> x_pc # "idle"

\* And does not wait for ever: not for the deadline of a job that has ended, not for a
\* firmware that never answers.
WaitEnds == Waiting ~> ~Waiting
================================================================================

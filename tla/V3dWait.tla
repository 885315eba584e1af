-------------------------------- MODULE V3dWait --------------------------------
(***************************************************************************)
(* How the VideoCore service learns that a job is done (src/pi5-v3d: Arm,  *)
(* Wait, Mask, Isr, Dpc).  The handler's thread sleeps on an event that    *)
(* the DPC sets; the ISR collects interrupt bits in Pending.  The thread,  *)
(* the two interrupt service routines (hub and core, on any processor),    *)
(* their DPCs, the engines and the clock interleave at every access to     *)
(* what they share.  Module V3d takes a finished wait as one step.         *)
(***************************************************************************)
EXTENDS Naturals

CONSTANTS
  Units,      \* the hub and core 0, each with an interrupt of its own
  MaxJobs     \* bound on the jobs of a behaviour

VARIABLES
  pc,        \* the thread: its next access, or "free" between two jobs
  todo,      \* units the loop of Mask still has to visit
  need,      \* units that report the end: one of a job, both of InterruptCheck
  jobs,      \* jobs started so far
  late,      \* the deadline of the wait has passed
  irqLive,   \* c->IrqLive
  pending,   \* c->Pending[u], a set of "done" and "error"
  wake,      \* c->Wake is signalled
  dpc,       \* the DPC of u is queued
  isr,       \* isr[u]: "none", or the ISR of u before "clear" or "report"
  bits,      \* bits[u]: what the ISR of u has read
  sts,       \* external: V3D_INT_STS of u
  masked,    \* external: V3D_INT_MASK of u, all bits or none
  engine     \* external: "none", "running" or "ended", the completion raised

thread  == <<pc, todo, need, jobs, late>>
routine == <<dpc, isr, bits>>
hw      == <<sts, masked, engine>>
vars    == <<thread, irqLive, pending, wake, routine, hw>>

Bits == {"done", "error"}

TypeOK ==
  /\ pc \in {"free", "off", "zero", "event", "on", "submit", "errors", "answer",
             "deadline", "sleep", "clear", "failing", "stopped"}
  /\ todo \subseteq Units /\ need \in SUBSET Units /\ jobs \in 0..MaxJobs /\ late \in BOOLEAN
  /\ irqLive \in [Units -> BOOLEAN] /\ pending \in [Units -> SUBSET Bits]
  /\ wake \in BOOLEAN /\ dpc \in [Units -> BOOLEAN]
  /\ isr \in [Units -> {"none", "clear", "report"}] /\ bits \in [Units -> SUBSET Bits]
  /\ sts \in [Units -> SUBSET Bits] /\ masked \in [Units -> BOOLEAN]
  /\ engine \in {"none", "running", "ended"}

Goto(l) == pc' = l /\ UNCHANGED <<need, jobs, late>>

-------------------------------------------------------------------------------
(* The thread.                                                              *)

\* Mask(FALSE) and Mask(TRUE) take the interrupt lock of one unit after the other,
\* which excludes its ISR.
MaskOff(u, rest) ==
  /\ isr[u] = "none" /\ u \in todo /\ todo' = todo \ {u}
  /\ masked' = [masked EXCEPT ![u] = TRUE]
  /\ irqLive' = [irqLive EXCEPT ![u] = FALSE]
  /\ IF todo' = {} THEN Goto(rest) ELSE Goto(pc)
  /\ UNCHANGED <<pending, wake, routine, sts, engine>>

StartJob ==
  /\ pc = "free" /\ jobs < MaxJobs /\ jobs' = jobs + 1
  /\ pc' = "off" /\ todo' = Units /\ need' \in (SUBSET Units) \ {{}} /\ late' = FALSE
  /\ UNCHANGED <<irqLive, pending, wake, routine, hw>>

ArmOff == pc = "off" /\ \E u \in Units : MaskOff(u, "zero")

\* Mutant: Pending keeps what an earlier job left.
ArmZero_KeepsPending ==
  /\ pc = "zero" /\ Goto("event") /\ UNCHANGED todo
  /\ UNCHANGED <<irqLive, pending, wake, routine, hw>>

\* The ISRs are excluded, their DPCs are not.
ArmZero ==
  /\ pc = "zero" /\ Goto("event") /\ UNCHANGED todo
  /\ pending' = [u \in Units |-> {}]
  /\ UNCHANGED <<irqLive, wake, routine, hw>>

ArmEvent ==
  /\ pc = "event" /\ Goto("on") /\ todo' = Units /\ wake' = FALSE
  /\ UNCHANGED <<irqLive, pending, routine, hw>>

ArmOn ==
  /\ pc = "on"
  /\ \E u \in todo :
       /\ isr[u] = "none" /\ todo' = todo \ {u}
       /\ masked' = [masked EXCEPT ![u] = FALSE]
       /\ irqLive' = [irqLive EXCEPT ![u] = TRUE]
       /\ sts' = [sts EXCEPT ![u] = {}]
       /\ IF todo' = {} THEN Goto("submit") ELSE Goto(pc)
  /\ UNCHANGED <<pending, wake, routine, engine>>

SubmitJob ==
  /\ pc = "submit" /\ Goto("errors") /\ UNCHANGED todo /\ engine' = "running"
  /\ UNCHANGED <<irqLive, pending, wake, routine, sts, masked>>

\* Wait looks for errors, then for the answer, then at the clock.
WaitErrors ==
  /\ pc = "errors"
  /\ IF \E u \in Units : "error" \in pending[u]
       THEN Goto("failing") /\ todo' = Units
       ELSE Goto("answer") /\ UNCHANGED todo
  /\ UNCHANGED <<irqLive, pending, wake, routine, hw>>

\* Complete: the caller checks once more that nothing else was reported.
WaitAnswer ==
  /\ pc = "answer"
  /\ IF \E u \in need : "done" \notin pending[u]
       THEN Goto("deadline") /\ UNCHANGED <<todo, engine>>
       ELSE IF \A u \in Units : "error" \notin pending[u]
         THEN Goto("free") /\ UNCHANGED todo /\ engine' = "none"
         ELSE Goto("failing") /\ todo' = Units /\ UNCHANGED engine
  /\ UNCHANGED <<irqLive, pending, wake, routine, sts, masked>>

WaitDeadline ==
  /\ pc = "deadline"
  /\ IF late THEN Goto("failing") /\ todo' = Units
             ELSE Goto("sleep") /\ UNCHANGED todo
  /\ UNCHANGED <<irqLive, pending, wake, routine, hw>>

WaitSleep ==
  /\ pc = "sleep" /\ (wake \/ late)
  /\ Goto("clear") /\ UNCHANGED todo
  /\ UNCHANGED <<irqLive, pending, wake, routine, hw>>

\* The event is cleared after the sleep and before Pending is looked at again.
WaitClear ==
  /\ pc = "clear" /\ Goto("errors") /\ UNCHANGED todo /\ wake' = FALSE
  /\ UNCHANGED <<irqLive, pending, routine, hw>>

\* The caller's Mask(FALSE) and Fault: no job follows in this boot.
FailOff == pc = "failing" /\ \E u \in Units : MaskOff(u, "stopped")

-------------------------------------------------------------------------------
(* Isr and Dpc of unit u.                                                   *)

\* The interrupt fires as long as an unmasked bit is set.
IsrRead(u) ==
  /\ isr[u] = "none" /\ irqLive[u] /\ ~masked[u] /\ sts[u] # {}
  /\ isr' = [isr EXCEPT ![u] = "clear"]
  /\ bits' = [bits EXCEPT ![u] = sts[u]]
  /\ UNCHANGED <<thread, irqLive, pending, wake, dpc, hw>>

IsrClear(u) ==
  /\ isr[u] = "clear"
  /\ isr' = [isr EXCEPT ![u] = "report"]
  /\ sts' = [sts EXCEPT ![u] = @ \ bits[u]]
  /\ UNCHANGED <<thread, irqLive, pending, wake, dpc, bits, masked, engine>>

\* Pending first, then the DPC.
IsrReport(u) ==
  /\ isr[u] = "report"
  /\ isr' = [isr EXCEPT ![u] = "none"]
  /\ pending' = [pending EXCEPT ![u] = @ \union bits[u]]
  /\ dpc' = [dpc EXCEPT ![u] = TRUE]
  /\ bits' = [bits EXCEPT ![u] = {}]
  /\ UNCHANGED <<thread, irqLive, wake, hw>>

Dpc(u) ==
  /\ dpc[u] /\ dpc' = [dpc EXCEPT ![u] = FALSE] /\ wake' = TRUE
  /\ UNCHANGED <<thread, irqLive, pending, isr, bits, hw>>

-------------------------------------------------------------------------------
(* External: the engines and the time.                                      *)

EngineEnds ==
  /\ engine = "running" /\ engine' = "ended"
  /\ sts' = [u \in Units |-> sts[u] \union (IF u \in need THEN {"done"} ELSE {})]
  /\ UNCHANGED <<thread, irqLive, pending, wake, routine, masked>>

\* An MMU fault or an out-of-memory interrupt of the job, one of a unit and job.
EngineErrs ==
  /\ engine = "running"
  /\ \E u \in Units :
       /\ "error" \notin sts[u] \union bits[u] \union pending[u]
       /\ sts' = [sts EXCEPT ![u] = @ \union {"error"}]
  /\ UNCHANGED <<thread, irqLive, pending, wake, routine, masked, engine>>

DeadlinePasses ==
  /\ pc \in {"errors", "answer", "deadline", "sleep", "clear"} /\ ~late /\ late' = TRUE
  /\ UNCHANGED <<pc, todo, need, jobs, irqLive, pending, wake, routine, hw>>

-------------------------------------------------------------------------------
Init ==
  /\ pc = "free" /\ todo = {} /\ need = Units /\ jobs = 0 /\ late = FALSE
  /\ irqLive = [u \in Units |-> FALSE] /\ pending = [u \in Units |-> {}]
  /\ wake = FALSE /\ dpc = [u \in Units |-> FALSE]
  /\ isr = [u \in Units |-> "none"] /\ bits = [u \in Units |-> {}]
  /\ sts = [u \in Units |-> {}] /\ masked = [u \in Units |-> TRUE] /\ engine = "none"

Arming  == ArmOff \/ ArmZero \/ ArmEvent \/ ArmOn \/ SubmitJob
Waiting == WaitErrors \/ WaitAnswer \/ WaitDeadline \/ WaitSleep \/ WaitClear \/ FailOff
Thread  == Arming \/ Waiting
Isr(u)  == IsrRead(u) \/ IsrClear(u) \/ IsrReport(u)

Next ==
  \/ StartJob \/ Thread
  \/ \E u \in Units : Isr(u) \/ Dpc(u)
  \/ EngineEnds \/ EngineErrs \/ DeadlinePasses

\* The processors run the thread, the ISRs and the DPCs.  Neither the engine nor the
\* deadline is fair: a wake-up must not depend on the latter.
Spec ==
  /\ Init /\ [][Next]_vars
  /\ WF_vars(Thread) /\ \A u \in Units : WF_vars(Isr(u)) /\ WF_vars(Dpc(u))

-------------------------------------------------------------------------------
(* Properties.                                                              *)

\* A job is only reported as done when the engine has ended this very job: no bit of
\* an earlier one, and no late ISR or DPC of it, gets through Arm.
OwnCompletion ==
  [][pc = "answer" /\ pc' = "free" => engine = "ended"]_vars

===============================================================================

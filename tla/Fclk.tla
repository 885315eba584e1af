--------------------------------- MODULE Fclk ---------------------------------
(***************************************************************************)
(* The firmware clock provider (src/pi5-fclk), composed with the mailbox   *)
(* provider of module Mailbox, whose controller it is.  Clients lease      *)
(* clocks from it; it alone holds the mailbox leases of the V3D and ARM    *)
(* clocks, keeps the V3D baseline and runs the ARM clock at its maximum    *)
(* while it is powered.                                                    *)
(*                                                                         *)
(* Every handler holds FCLK's wait lock for its whole duration, and each   *)
(* mailbox request inside it is a synchronous call that may be refused,    *)
(* time out before or after the provider acted, or find that firmware      *)
(* changed the clock meanwhile.  So a handler is a sequence of steps, one  *)
(* per mailbox request, and "at" says which request comes next.  Reads     *)
(* that belong together (Snapshot, the verification of Restore) are one    *)
(* step.  Steps of the mailbox, of other controllers and of firmware       *)
(* interleave with them.                                                   *)
(***************************************************************************)
EXTENDS Mailbox, FiniteSets

CONSTANTS
  Fclk,         \* FCLK's file object at the mailbox
  V3D, ARM,     \* the two clocks it controls
  ReadIds,      \* clocks that clients lease but nobody may change
  Clients,      \* file objects of FCLK's clients
  Attempts      \* how often the ARM timer tries (30 in the code)

\* Firmware names a maximum rate; file objects are finitely many.
ASSUME FclkAssumption ==
  /\ Fclk \in Controllers
  /\ V3D # ARM /\ Clocks = {V3D, ARM} /\ Gated = {V3D}
  /\ ReadIds \intersect Clocks = {}
  /\ NoFile \notin Clients /\ IsFiniteSet(Clients)
  /\ Attempts \in Nat \ {0}
  /\ \E r \in Rates : \A s \in Rates : s <= r

Ids == {V3D} \union ReadIds
FastRate == CHOOSE r \in Rates : \A s \in Rates : s <= r

VARIABLES
  power,      \* "off", "d0", "stopping" (between FclkStop's two lock regions),
              \* "failed" (FclkStop failed), "released" or "dead" (released after that)
  up,         \* c->Online
  users,      \* c->Users, for the leasable clocks
  held,       \* held[f]: FCLK_FILE.Held
  claimed, changed, uncertain, fpinned,     \* c->Claimed ... c->Pinned
  fbase,      \* c->BaselineRate, BaselineState
  armClaimed, armChanged, armReady, armUncertain,
  armBase,    \* c->ArmBaseline
  attempts,   \* c->ArmAttempts
  timer,      \* c->ArmTimer is armed
  at,         \* the next mailbox request of the handler that holds the lock
  job         \* that handler: its kind, client and requested setting

Idle == [kind |-> "none", f |-> NoFile]
NoSetting == [rate |-> 0, state |-> 0]
lease   == <<users, held>>
v3dvars == <<claimed, changed, uncertain, fbase>>
armvars == <<armClaimed, armChanged, armReady, armUncertain, armBase, attempts, timer>>
pnp     == <<power, up>>
fvars   == <<pnp, lease, v3dvars, fpinned, armvars, at, job>>
allvars == <<vars, fvars>>

Labels == {"idle", "claim", "snap", "unclaim", "relq", "setq", "set", "verify",
           "restRate", "restState", "restCheck", "restRelease",
           "armQuery", "armClaim", "armBase", "armSet", "armCheck",
           "armRestore", "armRelease"}
Kinds == {"none", "acquire", "release", "cleanup", "set", "arm", "stop"}

FclkTypeOK ==
  /\ TypeOK
  /\ power \in {"off", "d0", "stopping", "failed", "released", "dead"}
  /\ up \in BOOLEAN
  /\ users \in [Ids -> 0..Cardinality(Clients)]
  /\ held \in [Clients -> SUBSET Ids]
  /\ {claimed, changed, uncertain, fpinned} \subseteq BOOLEAN
  /\ fbase \in Setting \union {NoSetting}
  /\ {armClaimed, armChanged, armReady, armUncertain} \subseteq BOOLEAN
  /\ armBase \in Rates \union {0} /\ timer \in BOOLEAN
  /\ attempts \in 0..(Attempts + 1)
  /\ at \in Labels /\ job.kind \in Kinds /\ job.f \in Clients \union {NoFile}

-------------------------------------------------------------------------------
(* Mailbox requests: WdfIoTargetSendIoctlSynchronously with a timeout.  "got" *)
(* is what FCLK sees.  A request cancelled in the queue never reached the     *)
(* provider; one that outlived the timeout did, and its answer is lost.       *)

Answer(st, got) == got \in {st, "unknown"}

AskClaim(k, got) ==
  \/ got = "unknown" /\ UNCHANGED vars
  \/ \E st \in Status : ClockClaim(Fclk, k, st) /\ Answer(st, got)

AskRelease(k, got) ==
  \/ got = "unknown" /\ UNCHANGED vars
  \/ \E st \in Status : ClockRelease(Fclk, k, st) /\ Answer(st, got)

AskSet(k, v, got) ==
  \/ got = "unknown" /\ UNCHANGED vars
  \/ \E st \in Status : ClockSet(Fclk, k, v, st) /\ Answer(st, got)

\* One or more reads; a failure of any of them is a failure.
AskQuery(got) ==
  \/ got = "unknown" /\ UNCHANGED vars
  \/ \E st \in Status : Query(st) /\ Answer(st, got)

\* Busy: what vetoes a stop (mutant: only the users do).  The ARM lease alone does not,
\* FclkStop returns it.
Busy_UsersOnly(cl, un, au, us) == \E i \in Ids : us[i] # 0

Busy(cl, un, au, us) == un \/ cl \/ au \/ \E i \in Ids : us[i] # 0
IsBusy == Busy(claimed, uncertain, armUncertain, users)
Serving == power = "d0" /\ up   \* the queue runs only in D0

Goto(l)  == at' = l /\ job' = job
Finish   == at' = "idle" /\ job' = Idle

UnpinIf(cl, un, us) == fpinned' = (fpinned /\ Busy(cl, un, armUncertain, us))

\* Mutant: nothing is latched.
Fault_PinOnly == fpinned' = TRUE /\ UNCHANGED uncertain

\* Fault: V3D's state is unknown for good; the device stays pinned.
Fault == uncertain' = TRUE /\ fpinned' = TRUE

-------------------------------------------------------------------------------
(* Acquire.                                                                 *)

\* A read-only clock is only counted; the lease needs one good snapshot.  With a
\* bad one only the mailbox saw a request: that is a Query step of Mailbox.
AcquireRead(f, i) ==
  /\ at = "idle" /\ Serving /\ i \notin held[f] /\ ~uncertain
  /\ i \in ReadIds
  /\ AskQuery("ok")
  /\ users' = [users EXCEPT ![i] = @ + 1]
  /\ held' = [held EXCEPT ![f] = @ \union {i}]
  /\ fpinned' = TRUE
  /\ UNCHANGED <<pnp, v3dvars, armvars, at, job>>

AcquireV3d(f) ==
  /\ at = "idle" /\ Serving /\ V3D \notin held[f] /\ ~uncertain /\ users[V3D] = 0
  /\ at' = "claim" /\ job' = [kind |-> "acquire", f |-> f]
  /\ UNCHANGED <<vars, pnp, lease, v3dvars, fpinned, armvars>>

\* An answer that may hide a claim the provider made is a fault.
Claim(got) ==
  /\ at = "claim" /\ AskClaim(V3D, got)
  /\ \/ got = "ok" /\ claimed' = TRUE /\ fpinned' = TRUE /\ Goto("snap")
        /\ UNCHANGED <<changed, uncertain, fbase>>
     \/ got = "error" /\ Finish /\ UNCHANGED <<v3dvars, fpinned>>
     \/ got = "unknown" /\ Finish /\ Fault /\ UNCHANGED <<claimed, changed, fbase>>
  /\ UNCHANGED <<pnp, lease, armvars>>

\* The snapshot becomes FCLK's own baseline, and the lease is granted.
Snap(got) ==
  /\ at = "snap" /\ AskQuery(got)
  /\ \/ /\ got = "ok"
        /\ fbase' = fw[V3D] /\ changed' = FALSE
        /\ users' = [users EXCEPT ![V3D] = 1]
        /\ held' = [held EXCEPT ![job.f] = @ \union {V3D}]
        /\ Finish
     \/ /\ got # "ok" /\ Goto("unclaim")
        /\ UNCHANGED <<fbase, changed, users, held>>
  /\ UNCHANGED <<pnp, claimed, uncertain, fpinned, armvars>>

Unclaim(got) ==
  /\ at = "unclaim" /\ AskRelease(V3D, got)
  /\ \/ /\ got = "ok" /\ claimed' = FALSE
        /\ UnpinIf(FALSE, uncertain, users) /\ UNCHANGED uncertain
     \/ got # "ok" /\ Fault /\ UNCHANGED claimed
  /\ Finish
  /\ UNCHANGED <<pnp, lease, changed, fbase, armvars>>

-------------------------------------------------------------------------------
(* Set rate or state: only V3D, only by its sole user.                      *)

SetClock(f, part, x) ==
  /\ at = "idle" /\ Serving /\ V3D \in held[f] /\ users[V3D] = 1 /\ ~uncertain
  /\ at' = "setq" /\ job' = [kind |-> "set", f |-> f, part |-> part, value |-> x]
  /\ UNCHANGED <<vars, pnp, lease, v3dvars, fpinned, armvars>>

\* c->Changed is set before the request: a lost answer may follow a write.
SetSnapshot(got) ==
  /\ at = "setq" /\ AskQuery(got)
  /\ \/ got = "ok" /\ changed' = TRUE /\ Goto("set")
     \/ got # "ok" /\ Finish /\ UNCHANGED changed
  /\ UNCHANGED <<pnp, lease, claimed, uncertain, fbase, fpinned, armvars>>

SetRequest(got) ==
  /\ at = "set" /\ AskSet(V3D, [fw[V3D] EXCEPT ![job.part] = job.value], got)
  /\ \/ got = "ok" /\ Goto("verify") /\ UNCHANGED <<uncertain, fpinned>>
     \/ got # "ok" /\ Finish /\ Fault
  /\ UNCHANGED <<pnp, lease, claimed, changed, fbase, armvars>>

SetVerify(got) ==
  /\ at = "verify" /\ AskQuery(got)
  /\ \/ got = "ok" /\ UNCHANGED <<uncertain, fpinned>>
     \/ got # "ok" /\ Fault
  /\ Finish
  /\ UNCHANGED <<pnp, lease, claimed, changed, fbase, armvars>>

-------------------------------------------------------------------------------
(* Release, cleanup of a vanished client, and Restore.                      *)

\* Mutant: the file keeps its lease.
Give_KeepsHeld(f, is) ==
  /\ users' = [i \in Ids |-> IF i \in is THEN users[i] - 1 ELSE users[i]]
  /\ UNCHANGED held

Give(f, is) ==
  /\ users' = [i \in Ids |-> IF i \in is THEN users[i] - 1 ELSE users[i]]
  /\ held' = [held EXCEPT ![f] = @ \ is]

ReleaseRead(f, i) ==
  /\ at = "idle" /\ Serving /\ i \in held[f] \ {V3D}
  /\ AskQuery("ok")
  /\ Give(f, {i})
  /\ UnpinIf(claimed, uncertain, users')
  /\ UNCHANGED <<pnp, v3dvars, armvars, at, job>>

\* An unchanged clock goes straight to the mailbox release.
RestoreFrom == IF changed THEN "restRate" ELSE "restRelease"

ReleaseV3d(f) ==
  /\ at = "idle" /\ Serving /\ V3D \in held[f]
  /\ at' = "relq" /\ job' = [kind |-> "release", f |-> f]
  /\ UNCHANGED <<vars, pnp, lease, v3dvars, fpinned, armvars>>

\* Mutant: the latch is not looked at.
ReleaseSnapshot_IgnoresFault(got) ==
  /\ at = "relq" /\ AskQuery(got)
  /\ IF got = "ok" THEN Goto(RestoreFrom) ELSE Finish
  /\ UNCHANGED <<pnp, lease, v3dvars, fpinned, armvars>>

ReleaseSnapshot(got) ==
  /\ at = "relq" /\ AskQuery(got)
  /\ IF got = "ok" /\ ~uncertain THEN Goto(RestoreFrom) ELSE Finish
  /\ UNCHANGED <<pnp, lease, v3dvars, fpinned, armvars>>

\* FclkCleanup.  A client that changed the clock and disappeared may still have
\* DMA running, so its clock is not touched.
Cleanup(f) ==
  /\ at = "idle" /\ held[f] # {}
  /\ \/ /\ V3D \in held[f] /\ ~uncertain /\ changed
        /\ Fault
        /\ Give(f, held[f])
        /\ UNCHANGED <<at, job>>
     \/ /\ V3D \in held[f] /\ ~uncertain /\ ~changed
        /\ at' = "restRelease" /\ job' = [kind |-> "cleanup", f |-> f]
        /\ UNCHANGED <<uncertain, fpinned, lease>>
     \/ /\ V3D \notin held[f] \/ uncertain
        /\ Give(f, held[f])
        /\ UnpinIf(claimed, uncertain, users')
        /\ UNCHANGED <<uncertain, at, job>>
  /\ UNCHANGED <<vars, pnp, claimed, changed, fbase, armvars>>

\* A failed Restore: RELEASE keeps the lease, cleanup drops it all the same.
RestoreFails ==
  /\ Fault
  /\ IF job.kind = "cleanup" THEN Give(job.f, held[job.f]) ELSE UNCHANGED lease
  /\ Finish
  /\ UNCHANGED <<claimed, changed, fbase>>

RestoreStep(l, next, got) ==
  /\ at = l
  /\ \/ got = "ok" /\ Goto(next) /\ UNCHANGED <<lease, v3dvars, fpinned>>
     \/ got # "ok" /\ RestoreFails
  /\ UNCHANGED <<pnp, armvars>>

RestoreRate(got) ==
  /\ RestoreStep("restRate", "restState", got)
  /\ AskSet(V3D, [fw[V3D] EXCEPT !.rate = fbase.rate], got)

RestoreState(got) ==
  /\ RestoreStep("restState", "restCheck", got)
  /\ AskSet(V3D, [fw[V3D] EXCEPT !.state = fbase.state], got)

\* Both values are read back and compared with the baseline.
RestoreCheck(got) ==
  /\ RestoreStep("restCheck", "restRelease",
                 IF got = "ok" /\ fw[V3D] # fbase THEN "unknown" ELSE got)
  /\ AskQuery(got)

RestoreRelease(got) ==
  /\ at = "restRelease" /\ AskRelease(V3D, got)
  /\ \/ /\ got = "ok"
        /\ claimed' = FALSE /\ changed' = FALSE /\ fbase' = NoSetting
        /\ Give(job.f, IF job.kind = "cleanup" THEN held[job.f] ELSE {V3D})
        /\ UnpinIf(FALSE, uncertain, users')
        /\ Finish
        /\ UNCHANGED uncertain
     \/ got # "ok" /\ RestoreFails
  /\ UNCHANGED <<pnp, armvars>>

-------------------------------------------------------------------------------
(* The ARM clock: ArmStart from the timer, ArmRestore from both.            *)

ArmFire ==
  /\ timer /\ at = "idle"
  /\ timer' = FALSE
  /\ IF up /\ ~armReady /\ ~armUncertain
       THEN at' = "armQuery" /\ job' = [kind |-> "arm", f |-> NoFile]
       ELSE UNCHANGED <<at, job>>
  /\ UNCHANGED <<vars, pnp, lease, v3dvars, fpinned, armClaimed, armChanged,
                 armReady, armUncertain, armBase, attempts>>

\* Mutant: the timer is not armed again.
ArmDone_NoRetry(ready, uncertain2, ok) ==
  /\ Finish
  /\ IF job.kind = "arm"
       THEN attempts' = attempts + 1 /\ timer' = FALSE /\ UNCHANGED pnp
       ELSE /\ up' = ~ok /\ power' = (IF ok THEN "off" ELSE "failed")
            /\ UNCHANGED <<timer, attempts>>

\* The end of the timer callback counts the attempt and arms the next one; the
\* end of FclkStop decides whether the device left D0.
ArmDone(ready, uncertain2, ok) ==
  /\ Finish
  /\ IF job.kind = "arm"
       THEN /\ attempts' = attempts + 1
            /\ timer' = (~ready /\ ~uncertain2 /\ attempts + 1 < Attempts)
            /\ UNCHANGED pnp
       ELSE /\ up' = ~ok /\ power' = (IF ok THEN "off" ELSE "failed")
            /\ timer' = (~ok /\ ~ready /\ ~uncertain2)
            /\ UNCHANGED attempts

\* Both leave the other clock alone.
ArmFrame == UNCHANGED <<lease, v3dvars>>
NoArmDone == UNCHANGED <<pnp, attempts, timer>>

\* A failed start gives the clock back; it only stays claimed as uncertain.
ArmBackOut ==
  /\ Goto(IF armChanged THEN "armRestore" ELSE "armRelease") /\ NoArmDone
  /\ UNCHANGED <<armClaimed, armChanged, armReady, armUncertain, fpinned>>

ArmGiveUp ==
  /\ armUncertain' = TRUE /\ fpinned' = TRUE
  /\ ArmDone(armReady, TRUE, FALSE)
  /\ UNCHANGED <<armClaimed, armChanged, armReady>>

\* Minimum and maximum rate.
ArmQuery(got) ==
  /\ at = "armQuery" /\ AskQuery(got)
  /\ IF got = "ok" THEN Goto("armClaim") /\ NoArmDone
                   ELSE ArmDone(armReady, armUncertain, FALSE)
  /\ UNCHANGED <<armClaimed, armChanged, armReady, armUncertain, armBase, fpinned>>
  /\ ArmFrame

ArmClaim(got) ==
  /\ at = "armClaim" /\ AskClaim(ARM, got)
  /\ \/ /\ got = "ok" /\ armClaimed' = TRUE /\ Goto("armBase") /\ NoArmDone
        /\ UNCHANGED <<armChanged, armReady, armUncertain, fpinned>>
     \/ /\ got = "error" /\ ArmDone(armReady, armUncertain, FALSE)
        /\ UNCHANGED <<armClaimed, armChanged, armReady, armUncertain, fpinned>>
     \/ got = "unknown" /\ ArmGiveUp
  /\ UNCHANGED armBase /\ ArmFrame

\* c->ArmChanged is set before the request, as c->Changed is.
ArmReadBaseline(got) ==
  /\ at = "armBase" /\ AskQuery(got)
  /\ \/ /\ got = "ok" /\ armBase' = fw[ARM].rate
        /\ armChanged' = (armBase' # FastRate)
        /\ Goto(IF armBase' # FastRate THEN "armSet" ELSE "armCheck") /\ NoArmDone
        /\ UNCHANGED <<armClaimed, armReady, armUncertain, fpinned>>
     \/ got # "ok" /\ ArmBackOut /\ UNCHANGED armBase
  /\ ArmFrame

ArmSet(got) ==
  /\ at = "armSet" /\ AskSet(ARM, [fw[ARM] EXCEPT !.rate = FastRate], got)
  /\ \/ /\ got = "ok" /\ Goto("armCheck") /\ NoArmDone
        /\ UNCHANGED <<armClaimed, armChanged, armReady, armUncertain, fpinned>>
     \/ got # "ok" /\ ArmBackOut
  /\ UNCHANGED armBase /\ ArmFrame

\* Any rate in the firmware's range counts: it may be throttling.
ArmCheck(got) ==
  /\ at = "armCheck" /\ AskQuery(got)
  /\ \/ /\ got = "ok" /\ armReady' = TRUE /\ ArmDone(TRUE, armUncertain, TRUE)
        /\ UNCHANGED <<armClaimed, armChanged, armUncertain, fpinned>>
     \/ got # "ok" /\ ArmBackOut
  /\ UNCHANGED armBase /\ ArmFrame

ArmRestoreRate(got) ==
  /\ at = "armRestore" /\ AskSet(ARM, [fw[ARM] EXCEPT !.rate = armBase], got)
  /\ \/ /\ got = "ok" /\ Goto("armRelease") /\ NoArmDone
        /\ UNCHANGED <<armClaimed, armChanged, armReady, armUncertain, fpinned>>
     \/ got # "ok" /\ ArmGiveUp
  /\ UNCHANGED armBase /\ ArmFrame

ArmRelease(got) ==
  /\ at = "armRelease" /\ AskRelease(ARM, got)
  /\ \/ /\ got = "ok"
        /\ armClaimed' = FALSE /\ armChanged' = FALSE /\ armReady' = FALSE
        /\ ArmDone(FALSE, armUncertain, TRUE)
        /\ UNCHANGED <<armUncertain, fpinned>>
     \/ got # "ok" /\ ArmGiveUp
  /\ UNCHANGED armBase /\ ArmFrame

-------------------------------------------------------------------------------
(* Power and PnP.                                                           *)

FclkStart ==
  /\ at = "idle" /\ power \in {"off", "released"}
  /\ power' = "d0" /\ up' = TRUE
  /\ attempts' = 0 /\ timer' = TRUE
  /\ UNCHANGED <<vars, lease, v3dvars, fpinned, at, job,
                 armClaimed, armChanged, armReady, armUncertain, armBase>>

\* FclkStop drops the lock before it waits for the timer callback.
FclkStopBegin ==
  /\ at = "idle" /\ power = "d0"
  /\ power' = "stopping" /\ up' = FALSE
  /\ UNCHANGED <<vars, lease, v3dvars, fpinned, armvars, at, job>>

\* WdfTimerStop waits for a callback that runs, and the second lock region follows.
FclkStopEnd ==
  /\ at = "idle" /\ power = "stopping"
  /\ \/ /\ IsBusy
        /\ power' = "failed" /\ up' = TRUE
        /\ timer' = (~armReady /\ ~armUncertain)
        /\ UNCHANGED <<at, job>>
     \/ /\ ~IsBusy /\ ~armClaimed
        /\ power' = "off" /\ timer' = FALSE
        /\ UNCHANGED <<up, at, job>>
     \/ /\ ~IsBusy /\ armClaimed
        /\ at' = IF armChanged THEN "armRestore" ELSE "armRelease"
        /\ job' = [kind |-> "stop", f |-> NoFile]
        /\ timer' = FALSE
        /\ UNCHANGED pnp
  /\ UNCHANGED <<vars, lease, v3dvars, fpinned, attempts,
                 armClaimed, armChanged, armReady, armUncertain, armBase>>

\* Closing the mailbox file runs the provider's ClockCleanup.
CloseMailbox == IF \E k \in Clocks : holder[k] = Fclk THEN ClockCleanup(Fclk)
                                                      ELSE UNCHANGED vars

\* A busy device keeps the mailbox open; its result cannot stop the removal.
FclkReleaseHardware ==
  /\ at = "idle" /\ power \in {"off", "failed"}
  /\ power' = IF power = "off" THEN "released" ELSE "dead"
  /\ IF IsBusy \/ armClaimed THEN UNCHANGED vars ELSE CloseMailbox
  /\ UNCHANGED <<up, lease, v3dvars, fpinned, armvars, at, job>>

\* The device object goes when its last handle is closed, its context and its
\* mailbox file with it; FclkAdd and FclkPrepare start from a zeroed context.
FclkRemove ==
  /\ at = "idle" /\ power \in {"released", "dead"}
  /\ \A f \in Clients : held[f] = {}
  /\ CloseMailbox
  /\ power' = "off" /\ up' = FALSE /\ fpinned' = FALSE
  /\ users' = [i \in Ids |-> 0]
  /\ claimed' = FALSE /\ changed' = FALSE /\ uncertain' = FALSE
  /\ fbase' = NoSetting
  /\ armClaimed' = FALSE /\ armChanged' = FALSE
  /\ armReady' = FALSE /\ armUncertain' = FALSE
  /\ armBase' = 0 /\ attempts' = 0 /\ timer' = FALSE
  /\ UNCHANGED <<held, at, job>>

-------------------------------------------------------------------------------
\* FCLK opens the mailbox on demand, so neither device waits for the other.
FclkInit ==
  /\ Init
  /\ power = "off" /\ up = FALSE /\ fpinned = FALSE
  /\ users = [i \in Ids |-> 0] /\ held = [f \in Clients |-> {}]
  /\ claimed = FALSE /\ changed = FALSE /\ uncertain = FALSE
  /\ fbase = NoSetting
  /\ armClaimed = FALSE /\ armChanged = FALSE
  /\ armReady = FALSE /\ armUncertain = FALSE
  /\ armBase = 0 /\ attempts = 0 /\ timer = FALSE
  /\ at = "idle" /\ job = Idle

\* The handler that holds the lock sends its next request.
Step(got) ==
  \/ Claim(got) \/ Snap(got) \/ Unclaim(got)
  \/ SetSnapshot(got) \/ SetRequest(got) \/ SetVerify(got)
  \/ ReleaseSnapshot(got)
  \/ RestoreRate(got) \/ RestoreState(got) \/ RestoreCheck(got)
  \/ RestoreRelease(got)
  \/ ArmQuery(got) \/ ArmClaim(got) \/ ArmReadBaseline(got) \/ ArmSet(got)
  \/ ArmCheck(got) \/ ArmRestoreRate(got) \/ ArmRelease(got)

HandlerStep == \E got \in Status : Step(got)

Call ==
  \E f \in Clients :
    \/ \E i \in ReadIds : AcquireRead(f, i) \/ ReleaseRead(f, i)
    \/ AcquireV3d(f) \/ ReleaseV3d(f) \/ Cleanup(f)
    \/ \E r \in Rates : SetClock(f, "rate", r)
    \/ \E s \in {0, 1} : SetClock(f, "state", s)

\* The mailbox starts, serves others and goes, its framework closing FCLK's file.
Elsewhere ==
  /\ \/ \E f \in Controllers \ {Fclk}, k \in Clocks, st \in Status :
          ClockRequest(f, k, st)
     \/ \E st \in Status : Query(st)
     \/ \E f \in Controllers \ {Fclk} : ClockCleanup(f)
     \/ phase = "none" /\ ClockCleanup(Fclk)
     \/ PrepareFails \/ Prepare \/ ReleaseRefused \/ Release
     \/ FirmwareDrift
  /\ UNCHANGED fvars

FclkNext ==
  \/ Call \/ HandlerStep \/ ArmFire
  \/ FclkStart \/ FclkStopBegin \/ FclkStopEnd
  \/ FclkReleaseHardware \/ FclkRemove
  \/ Elsewhere

FclkSpec == FclkInit /\ [][FclkNext]_allvars

\* A request returns or times out, so the handler that holds the lock goes on;
\* the wait lock serves its waiters, so an armed timer gets it in the end.
FairFclkSpec == FclkSpec /\ WF_allvars(HandlerStep) /\ SF_allvars(ArmFire)

-------------------------------------------------------------------------------
(* Properties.                                                              *)

\* A granted V3D lease is backed by the provider's: while a client may program
\* V3D no other controller can, and at most one client holds it.  (After a lost
\* answer to a release the client keeps a lease it cannot use any more.)
ExclusiveV3d ==
  /\ online /\ ~uncertain /\ (\E f \in Clients : V3D \in held[f])
       => holder[V3D] = Fclk
  /\ Cardinality({f \in Clients : V3D \in held[f]}) <= 1

\* While no handler runs and nothing is latched as uncertain, FCLK and a provider
\* that is there agree on who holds each clock, though any answer may get lost
\* (Acquire, Restore, ArmStart, ArmRestore and their Fault paths);
\* and a client's lease is always backed by the provider's.
Agreement ==
  /\ at = "idle" /\ online =>
       /\ ~uncertain    => (holder[V3D] = Fclk <=> claimed)
       /\ ~armUncertain => (holder[ARM] = Fclk <=> armClaimed)
  /\ ExclusiveV3d /\ FclkTypeOK

\* After a lost answer or a vanished user V3D is left alone: as long as both devices
\* exist it is not programmed and its provider lease is not returned.
UncertainHandsOff ==
  [][online /\ uncertain /\ uncertain' =>
       /\ holder'[V3D] = holder[V3D] \/ holder[V3D] # Fclk
       /\ holder[V3D] = Fclk /\ fw'[V3D] # fw[V3D] => drifts' # drifts]_allvars

\* A device that left D0 in order has nothing at the provider, so closing its
\* mailbox file abandons no clock (FclkStop, FclkReleaseHardware).
OrderlyStopIsClean ==
  power \in {"off", "released"} => \A k \in Clocks : holder[k] # Fclk

\* Raising the ARM clock ends: after FclkStart the timer reaches a decision, or
\* runs out of attempts, unless the device is stopped.
ArmSettles ==
  power = "d0" ~> (armReady \/ armUncertain \/ attempts >= Attempts \/ ~up)

\* The users of V3D see a lease as module ClockLease promises it, whatever happens
\* between FCLK, the provider and the firmware (Acquire, SET, RELEASE, Cleanup).
Lease == INSTANCE ClockLease WITH
  Users  <- Clients,
  Nobody <- NoFile,
  user   <- IF \E f \in Clients : V3D \in held[f]
              THEN CHOOSE f \in Clients : V3D \in held[f] ELSE NoFile,
  dirty  <- changed,
  doubt  <- uncertain

LeaseIsKept == Lease!Spec
===============================================================================

---------------------------- MODULE MailboxProofs ----------------------------
(***************************************************************************)
(* Proofs about module Mailbox: what its runs check on two controllers and *)
(* two clocks holds for any sets of controllers, clocks and rates.         *)
(***************************************************************************)
EXTENDS Mailbox, TLAPS

\* The invariant behind the theorems: an online device went through the boot
\* claim, and the claim is what makes the handoff unique.
IInv ==
  /\ TypeOK
  /\ UnansweredBufferKept
  /\ OneHandoff
  /\ ~bootClaim => handoffs = 0
  /\ \A k \in abandoned : holder[k] = NoFile

\* A step of one exchange leaves the transport typed and never gives the buffer
\* back (MbxTransfer).
LEMMA FailedExchangeFacts ==
  ASSUME TypeOK, NEW st \in Status, FailedExchange(st)
  PROVE  /\ fault' \in BOOLEAN /\ unsafe' \in BOOLEAN /\ buffer' = buffer
         /\ fault => fault'
         /\ unsafe => unsafe'
  BY DEF TypeOK, FailedExchange, FatalTransfer, transport

\* What a controller may ask for is a setting.
LEMMA RequestsAreSettings ==
  ASSUME TypeOK, NEW k \in Clocks, NEW v \in Requests(k)
  PROVE  v \in Setting
  <1>1. fw[k].rate \in Rates /\ fw[k].state \in {0, 1}
    BY DEF TypeOK, Setting
  <1> QED
    BY <1>1 DEF Requests, Setting

\* The facts a clock request establishes, whatever it does: only the leases, the
\* transport and the firmware's settings move, and the lease of a clock moves
\* only by a claim of a free clock or a verified release by its holder.
LEMMA ClockRequestFacts ==
  ASSUME TypeOK, NEW f \in Controllers, NEW k \in Clocks, NEW st \in Status,
         ClockRequest(f, k, st)
  PROVE  /\ UNCHANGED <<life, drifts, abandoned>>
         /\ fault' \in BOOLEAN /\ unsafe' \in BOOLEAN /\ buffer' = buffer
         /\ fault => fault'
         /\ unsafe => unsafe'
         /\ unsafe' # unsafe => online
         /\ holder' \in [Clocks -> Controllers \union {NoFile}]
         /\ baseline' \in [Clocks -> Setting]
         /\ fw' \in [Clocks -> Setting]
         /\ \A j \in Clocks : holder'[j] # holder[j] \/ fw'[j] # fw[j] =>
              j = k /\ j \notin abandoned /\ ~fault
         /\ \A j \in Clocks : holder[j] # NoFile /\ holder'[j] # holder[j] =>
              fw'[j] = baseline[j]
  <1>1. CASE ClockClaim(f, k, st)
    <2>1. CASE Refused(k, st)
      BY <2>1 DEF TypeOK, Refused, vars, life, transport, leases
    <2>2. CASE ~Refused(k, st)
      BY <1>1, <2>2, FailedExchangeFacts
      DEF TypeOK, ClockClaim, Serves, Live, life, transport, leases
    <2> QED BY <2>1, <2>2
  <1>2. CASE ClockRelease(f, k, st)
    <2>1. CASE Refused(k, st)
      BY <2>1 DEF TypeOK, Refused, vars, life, transport, leases
    <2>2. CASE ~Refused(k, st)
      BY <1>2, <2>2, FailedExchangeFacts
      DEF TypeOK, ClockRelease, Serves, AtBaseline, Live, life, transport, leases
    <2> QED BY <2>1, <2>2
  <1>3. CASE \E v \in Requests(k) : ClockSet(f, k, v, st)
    <2>0. PICK v \in Requests(k) : ClockSet(f, k, v, st)
      BY <1>3
    <2>1. v \in Setting
      BY <2>0, RequestsAreSettings
    <2>2. CASE Refused(k, st)
      BY <2>2 DEF TypeOK, Refused, vars, life, transport, leases
    <2>3. CASE ~Refused(k, st)
      BY <2>0, <2>1, <2>3, FailedExchangeFacts
      DEF TypeOK, ClockSet, FatalTransfer, Serves, Live, life, transport, leases
    <2> QED BY <2>2, <2>3
  <1> QED BY <1>1, <1>2, <1>3 DEF ClockRequest

\* The initial states satisfy the inductive invariant.
LEMMA InitInvariant == Init => IInv
  <1> SUFFICES ASSUME Init PROVE IInv
    OBVIOUS
  <1>1. holder \in [Clocks -> Controllers \union {NoFile}]
    BY DEF Init
  <1>2. 0 \in 0..MaxDrift
    BY MailboxAssumption
  <1>3. TypeOK
    BY <1>1, <1>2 DEF Init, TypeOK
  <1> QED
    BY <1>3 DEF Init, IInv, UnansweredBufferKept, OneHandoff

\* One step per action of Next.
LEMMA StepInvariant == IInv /\ [Next]_vars => IInv'
  <1> SUFFICES ASSUME IInv, [Next]_vars PROVE IInv'
    OBVIOUS
  <1> USE DEF IInv, UnansweredBufferKept, OneHandoff
  <1>1. CASE \E f \in Controllers, k \in Clocks, st \in Status : ClockRequest(f, k, st)
    <2> PICK f \in Controllers, k \in Clocks, st \in Status : ClockRequest(f, k, st)
      BY <1>1
    <2> QED
      BY ClockRequestFacts DEF TypeOK, life
  <1>2. CASE \E st \in Status : Query(st)
    BY <1>2, FailedExchangeFacts
    DEF TypeOK, Query, Live, life, transport, leases
  <1>3. CASE \E f \in Controllers : ClockCleanup(f)
    <2> PICK f \in Controllers : ClockCleanup(f)
      BY <1>3
    <2>1. holder' \in [Clocks -> Controllers \union {NoFile}]
      BY DEF TypeOK, ClockCleanup
    <2> QED
      BY <2>1 DEF TypeOK, ClockCleanup, life, transport
  <1>4. CASE PrepareFails
    BY <1>4 DEF TypeOK, PrepareFails, leases
  <1>5. CASE Prepare
    <2>1. /\ phase' \in {"none", "failed", "started"}
          /\ online' \in BOOLEAN /\ owned' \in BOOLEAN
          /\ fault' \in BOOLEAN /\ unsafe' \in BOOLEAN
      BY <1>5 DEF TypeOK, Prepare, FirstOfBoot
    <2>2. handoffs' \in Nat /\ handoffs' <= 1 /\ (online' => owned')
      BY <1>5 DEF TypeOK, Prepare, FirstOfBoot
    <2>3. bootClaim' = TRUE /\ pinned' = TRUE /\ handler' = TRUE /\ buffer' = "held"
      BY <1>5 DEF Prepare, FirstOfBoot
    <2>4. /\ holder' = holder /\ baseline' = baseline /\ abandoned' = abandoned
          /\ fw' = fw /\ drifts' = drifts
      BY <1>5 DEF Prepare, leases
    <2>5. TypeOK'
      BY <2>1, <2>2, <2>3, <2>4 DEF TypeOK
    <2> QED
      BY <2>2, <2>3, <2>4, <2>5
  <1>6. CASE ReleaseRefused
    BY <1>6 DEF TypeOK, ReleaseRefused, transport, leases
  <1>7. CASE Release
    BY <1>7 DEF TypeOK, Release, leases
  <1>8. CASE FirmwareDrift
    <2>1. fw' \in [Clocks -> Setting]
      BY <1>8 DEF TypeOK, FirmwareDrift, Setting
    <2>2. drifts' \in 0..MaxDrift
      BY <1>8, MailboxAssumption DEF TypeOK, FirmwareDrift
    <2> QED
      BY <1>8, <2>1, <2>2 DEF TypeOK, FirmwareDrift, life, transport, leases
  <1>9. CASE UNCHANGED vars
    BY <1>9 DEF TypeOK, vars, life, transport, leases
  <1> QED
    BY <1>1, <1>2, <1>3, <1>4, <1>5, <1>6, <1>7, <1>8, <1>9 DEF Next

\* The invariant holds in every behaviour of the provider.
THEOREM Invariance == Spec => []IInv
  BY InitInvariant, StepInvariant, PTL DEF Spec

\* Every variable keeps its type.
THEOREM TypeCorrect == Spec => []TypeOK
  BY Invariance, PTL DEF IInv

\* Release never frees the DMA buffer while firmware may still answer into it,
\* for any number of controllers and clocks.
THEOREM UnansweredBufferKeptHolds == Spec => []UnansweredBufferKept
  BY Invariance, PTL DEF IInv

\* Prepare takes the mailbox over from the platform at most once per boot, and an
\* online provider has the buffer its exchanges need.
THEOREM OneHandoffHolds == Spec => []OneHandoff
  BY Invariance, PTL DEF IInv

\* What the three action properties say of one step, from the invariant.  A step
\* that is no clock request, cleanup or drift leaves holder, abandoned and fw alone.
LEMMA QuietSteps ==
  ASSUME IInv,
         \/ \E st \in Status : Query(st)
         \/ PrepareFails \/ Prepare \/ ReleaseRefused \/ Release
         \/ UNCHANGED vars
  PROVE  /\ UNCHANGED <<holder, abandoned, fw>>
         /\ fault => fault'
  <1>1. CASE \E st \in Status : Query(st)
    BY <1>1, FailedExchangeFacts DEF IInv, Query, leases, transport
  <1>2. CASE PrepareFails \/ ReleaseRefused \/ Release \/ UNCHANGED vars
    BY <1>2 DEF PrepareFails, ReleaseRefused, Release, vars, leases, transport
  <1>3. CASE Prepare
    BY <1>3 DEF Prepare, leases
  <1> QED BY <1>1, <1>2, <1>3

\* One step of each action property at once.
LEMMA LeaseStep ==
  ASSUME IInv, [Next]_vars
  PROVE  /\ \A k \in abandoned :
              /\ k \in abandoned' /\ holder'[k] = NoFile
              /\ fw'[k] = fw[k] \/ drifts' # drifts
         /\ \A k \in Clocks : holder[k] # NoFile /\ holder'[k] # holder[k] =>
              k \in abandoned' \/ fw'[k] = baseline[k]
         /\ fault => /\ fault'
                     /\ fw' = fw \/ drifts' # drifts
                     /\ \A k \in Clocks :
                          holder'[k] = holder[k] \/ k \in abandoned'
  <1>0. /\ abandoned \subseteq Clocks
        /\ \A k \in abandoned : holder[k] = NoFile
    BY DEF IInv, TypeOK
  <1>1. CASE \E f \in Controllers, k \in Clocks, st \in Status : ClockRequest(f, k, st)
    <2> PICK f \in Controllers, k \in Clocks, st \in Status : ClockRequest(f, k, st)
      BY <1>1
    <2>1. TypeOK /\ fw \in [Clocks -> Setting] /\ fw' \in [Clocks -> Setting]
      BY ClockRequestFacts DEF IInv, TypeOK
    <2>2. fault => fw' = fw
      BY <2>1, ClockRequestFacts
    <2> QED
      BY <1>0, <2>1, <2>2, ClockRequestFacts
  <1>2. CASE \E f \in Controllers : ClockCleanup(f)
    BY <1>0, <1>2 DEF ClockCleanup, transport
  <1>3. CASE FirmwareDrift
    <2>1. drifts' # drifts
      BY <1>3 DEF IInv, TypeOK, FirmwareDrift
    <2> QED
      BY <1>0, <1>3, <2>1 DEF FirmwareDrift, leases, transport
  <1>4. CASE \/ \E st \in Status : Query(st)
             \/ PrepareFails \/ Prepare \/ ReleaseRefused \/ Release
             \/ UNCHANGED vars
    BY <1>0, <1>4, QuietSteps
  <1> QED
    BY <1>1, <1>2, <1>3, <1>4 DEF Next

\* A clock abandoned by ClockCleanup is never leased again and never programmed
\* by the driver again, whichever controllers ask for it.
THEOREM AbandonedForeverHolds == Spec => AbandonedForever
  <1>1. IInv /\ [Next]_vars =>
          [\A k \in abandoned :
             /\ k \in abandoned' /\ holder'[k] = NoFile
             /\ fw'[k] = fw[k] \/ drifts' # drifts]_vars
    BY LeaseStep
  <1> QED
    BY <1>1, Invariance, PTL DEF Spec, AbandonedForever

\* A lease ends with the clock at the setting it was claimed with, or with the
\* clock abandoned (ClockControlLocked's verified release).
THEOREM ReleaseAtBaselineHolds == Spec => ReleaseAtBaseline
  <1>1. IInv /\ [Next]_vars =>
          [\A k \in Clocks : holder[k] # NoFile /\ holder'[k] # holder[k] =>
             k \in abandoned' \/ fw'[k] = baseline[k]]_vars
    BY LeaseStep
  <1> QED
    BY <1>1, Invariance, PTL DEF Spec, ReleaseAtBaseline

\* The three promises of the provider hold in every behaviour, for any number of
\* controllers, clocks and rates (Release, ClockCleanup, ClockControlLocked).
THEOREM ProviderKeepsItsWordHolds == Spec => ProviderKeepsItsWord
  BY UnansweredBufferKeptHolds, AbandonedForeverHolds, ReleaseAtBaselineHolds
     DEF ProviderKeepsItsWord

\* After a fatal exchange (MbxTransfer's Fail) no step changes a clock, grants a
\* lease or ends one cleanly.
THEOREM FaultIsFinalHolds == Spec => FaultIsFinal
  <1>1. IInv /\ [Next]_vars =>
          [fault => /\ fault'
                    /\ fw' = fw \/ drifts' # drifts
                    /\ \A k \in Clocks :
                         holder'[k] = holder[k] \/ k \in abandoned']_vars
    BY LeaseStep
  <1> QED
    BY <1>1, Invariance, PTL DEF Spec, FaultIsFinal
===============================================================================

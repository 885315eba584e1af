------------------------------ MODULE FclkProofs ------------------------------
(***************************************************************************)
(* Proofs about module Fclk, the clock provider on top of the mailbox: the *)
(* invariant that ties its claims and leases to those of the mailbox, for  *)
(* any clients, controllers and rates, and that it implements ClockLease.  *)
(***************************************************************************)
EXTENDS Fclk, MailboxProofs, FiniteSetTheorems

-------------------------------------------------------------------------------
(* The invariant.                                                            *)

\* The invariant of the provider of the mailbox, and that nobody uses one that is away.
MailInv == IInv /\ (phase = "none" => ~online)

Types ==
  /\ power \in {"off", "d0", "stopping", "failed", "released", "dead"}
  /\ up \in BOOLEAN
  /\ users \in [Ids -> Nat] /\ held \in [Clients -> SUBSET Ids]
  /\ claimed \in BOOLEAN /\ changed \in BOOLEAN /\ uncertain \in BOOLEAN /\ fpinned \in BOOLEAN
  /\ fbase \in Setting \union {NoSetting}
  /\ armClaimed \in BOOLEAN /\ armChanged \in BOOLEAN
  /\ armReady \in BOOLEAN /\ armUncertain \in BOOLEAN
  /\ armBase \in Rates \union {0} /\ timer \in BOOLEAN /\ attempts \in Nat
  /\ at \in Labels /\ job.kind \in Kinds

\* Who leases a clock; the counters count them; V3D has one user at a time.
Holders(i) == {f \in Clients : i \in held[f]}
Free == \A f \in Clients : V3D \notin held[f]

LeaseInv ==
  /\ \A i \in Ids : users[i] = Cardinality(Holders(i))
  /\ \A f, g \in Clients : V3D \in held[f] /\ V3D \in held[g] => f = g

Restoring == {"restRate", "restState", "restCheck", "restRelease"}
ArmRaises == {"armQuery", "armClaim", "armBase", "armSet", "armCheck"}
ArmReturns == {"armRestore", "armRelease"}

JobInv ==
  /\ job.f \in Clients \union {NoFile}
  /\ at = "idle" => job = Idle
  /\ at \in {"claim", "snap", "unclaim"} =>
       job.kind = "acquire" /\ job.f \in Clients /\ ~uncertain /\ Free
  /\ at \in {"setq", "set", "verify"} =>
       /\ job.kind = "set" /\ job.f \in Clients /\ ~uncertain /\ V3D \in held[job.f]
       /\ \/ job.part = "rate" /\ job.value \in Rates
          \/ job.part = "state" /\ job.value \in {0, 1}
  /\ at = "relq" => job.kind = "release" /\ job.f \in Clients /\ V3D \in held[job.f]
  /\ at \in Restoring =>
       job.kind \in {"release", "cleanup"} /\ job.f \in Clients /\ ~uncertain /\ V3D \in held[job.f]
  /\ at \in ArmRaises => job.kind = "arm"
  /\ at \in ArmReturns => job.kind \in {"arm", "stop"}
  /\ ~Free => fbase \in Setting
  /\ armChanged => armBase \in Rates
  /\ at = "armRestore" => armChanged

ClaimInv ==
  /\ ~uncertain =>
       (holder[V3D] = Fclk => claimed) /\ (online /\ claimed => holder[V3D] = Fclk)
  /\ ~armUncertain =>
       (holder[ARM] = Fclk => armClaimed) /\ (online /\ armClaimed => holder[ARM] = Fclk)
  /\ ~bootClaim => (\A k \in Clocks : holder[k] = NoFile) /\ ~claimed /\ ~armClaimed
  /\ ~Free /\ ~uncertain => claimed
  /\ at \in {"snap", "unclaim"} => claimed

PowerInv ==
  /\ power \in {"off", "released"} => ~IsBusy /\ ~armClaimed /\ ~timer /\ at = "idle"
  /\ job.kind = "stop" => power = "stopping" /\ ~IsBusy
  /\ job.kind = "arm" => power \in {"d0", "failed", "dead"}
  /\ timer \/ job.kind = "arm" => attempts <= Attempts
  /\ power = "d0" /\ (timer \/ job.kind = "arm") => attempts < Attempts
  /\ power = "stopping" => ~up
  /\ power \in {"d0", "stopping"} => attempts <= Attempts
  /\ attempts <= Attempts + 1

FclkInv == MailInv /\ Types /\ LeaseInv /\ JobInv /\ ClaimInv /\ PowerInv

-------------------------------------------------------------------------------
(* What FCLK asks of the mailbox is what a controller may ask of it.         *)

LEMMA AskingIsAStep ==
  ASSUME NEW k \in Clocks, NEW got,
         AskClaim(k, got) \/ AskRelease(k, got) \/ AskQuery(got)
  PROVE  [Next]_vars
  <1>1. CASE AskClaim(k, got)
    BY <1>1, FclkAssumption DEF AskClaim, Next, ClockRequest
  <1>2. CASE AskRelease(k, got)
    BY <1>2, FclkAssumption DEF AskRelease, Next, ClockRequest
  <1>3. CASE AskQuery(got)
    BY <1>3 DEF AskQuery, Next
  <1> QED BY <1>1, <1>2, <1>3

LEMMA SettingIsAStep ==
  ASSUME NEW k \in Clocks, NEW got, NEW v \in Requests(k), AskSet(k, v, got)
  PROVE  [Next]_vars
  BY FclkAssumption DEF AskSet, Next, ClockRequest

\* The settings it asks for are in the firmware's range.
LEMMA SettingsAreRequests ==
  ASSUME TypeOK
  PROVE  /\ \A k \in Clocks, r \in Rates : [fw[k] EXCEPT !.rate = r] \in Requests(k)
         /\ \A s \in {0, 1} : [fw[V3D] EXCEPT !.state = s] \in Requests(V3D)
  <1>1. fw \in [Clocks -> Setting] /\ V3D \in Gated /\ Gated \subseteq Clocks
    BY FclkAssumption, MailboxAssumption DEF TypeOK
  <1>2. ASSUME NEW k \in Clocks, NEW r \in Rates
        PROVE  [fw[k] EXCEPT !.rate = r] \in Requests(k)
    <2>1. fw[k] \in Setting
      BY <1>1
    <2>2. [fw[k] EXCEPT !.rate = r] = [rate |-> r, state |-> fw[k].state]
      BY <2>1 DEF Setting
    <2> QED BY <2>2 DEF Requests
  <1>3. ASSUME NEW s \in {0, 1}
        PROVE  [fw[V3D] EXCEPT !.state = s] \in Requests(V3D)
    <2>1. fw[V3D] \in Setting
      BY <1>1
    <2>2. [fw[V3D] EXCEPT !.state = s] = [rate |-> fw[V3D].rate, state |-> s]
      BY <2>1 DEF Setting
    <2> QED BY <1>1, <2>2 DEF Requests
  <1> QED BY <1>2, <1>3

LEMMA FastRateIsARate == FastRate \in Rates
  BY FclkAssumption DEF FastRate

\* The setting of SET has the shape that the client's request gave it.
LEMMA SetRequestIsOne ==
  ASSUME TypeOK, JobInv, at = "set"
  PROVE  [fw[V3D] EXCEPT ![job.part] = job.value] \in Requests(V3D)
  <1>1. V3D \in Clocks
    BY FclkAssumption
  <1>2. CASE job.part = "rate" /\ job.value \in Rates
    <2>1. [fw[V3D] EXCEPT !["rate"] = job.value] \in Requests(V3D)
      BY <1>1, <1>2, SettingsAreRequests
    <2> QED BY <1>2, <2>1
  <1>3. CASE job.part = "state" /\ job.value \in {0, 1}
    <2>1. [fw[V3D] EXCEPT !["state"] = job.value] \in Requests(V3D)
      BY <1>3, SettingsAreRequests
    <2> QED BY <1>3, <2>1
  <1> QED BY <1>2, <1>3 DEF JobInv

LEMMA HandlerAsks ==
  ASSUME FclkInv, NEW got \in Status, Step(got)
  PROVE  [Next]_vars
  <1>0. /\ V3D \in Clocks /\ ARM \in Clocks /\ TypeOK /\ JobInv
        /\ FastRate \in Rates
    BY FclkAssumption, FastRateIsARate DEF FclkInv, MailInv, IInv
  <1>1. CASE \/ Claim(got) \/ Snap(got) \/ Unclaim(got) \/ SetSnapshot(got) \/ SetVerify(got)
             \/ ReleaseSnapshot(got) \/ RestoreCheck(got) \/ RestoreRelease(got)
             \/ ArmQuery(got) \/ ArmClaim(got) \/ ArmReadBaseline(got) \/ ArmCheck(got)
             \/ ArmRelease(got)
    <2>1. \/ AskClaim(V3D, got) \/ AskClaim(ARM, got) \/ AskRelease(V3D, got)
          \/ AskRelease(ARM, got) \/ AskQuery(got)
      BY <1>1 DEF Claim, Snap, Unclaim, SetSnapshot, SetVerify, ReleaseSnapshot, RestoreCheck,
                  RestoreRelease, ArmQuery, ArmClaim, ArmReadBaseline, ArmCheck, ArmRelease
    <2> QED BY <1>0, <2>1, AskingIsAStep
  <1>2. CASE SetRequest(got)
    <2>1. at = "set" /\ AskSet(V3D, [fw[V3D] EXCEPT ![job.part] = job.value], got)
      BY <1>2 DEF SetRequest
    <2> QED BY <1>0, <2>1, SetRequestIsOne, SettingIsAStep
  <1>3. CASE RestoreRate(got) \/ RestoreState(got)
    <2>1. at \in {"restRate", "restState"}
      BY <1>3 DEF RestoreRate, RestoreState, RestoreStep
    <2>2. ~Free
      BY <1>0, <2>1 DEF JobInv, Restoring, Free
    <2>3. fbase.rate \in Rates /\ fbase.state \in {0, 1}
      BY <1>0, <2>2 DEF JobInv, Setting
    <2>4. /\ [fw[V3D] EXCEPT !.rate = fbase.rate] \in Requests(V3D)
          /\ [fw[V3D] EXCEPT !.state = fbase.state] \in Requests(V3D)
      BY <1>0, <2>3, SettingsAreRequests
    <2> QED BY <1>0, <1>3, <2>4, SettingIsAStep DEF RestoreRate, RestoreState
  <1>4. CASE ArmSet(got) \/ ArmRestoreRate(got)
    <2>1. ArmRestoreRate(got) => armBase \in Rates
      BY <1>0 DEF ArmRestoreRate, JobInv
    <2>2. /\ [fw[ARM] EXCEPT !.rate = FastRate] \in Requests(ARM)
          /\ ArmRestoreRate(got) => [fw[ARM] EXCEPT !.rate = armBase] \in Requests(ARM)
      BY <1>0, <2>1, SettingsAreRequests
    <2> QED BY <1>0, <1>4, <2>2, SettingIsAStep DEF ArmSet, ArmRestoreRate
  <1> QED BY <1>1, <1>2, <1>3, <1>4 DEF Step

\* So a behaviour of both is one of the mailbox.
LEMMA MailboxSteps == FclkInv /\ [FclkNext]_allvars => [Next]_vars
  <1> SUFFICES ASSUME FclkInv, [FclkNext]_allvars PROVE [Next]_vars
    OBVIOUS
  <1>0. Fclk \in Controllers /\ V3D \in Clocks
    BY FclkAssumption
  <1>1. CASE Call
    <2>1. (\E got : AskQuery(got)) \/ UNCHANGED vars
      BY <1>1 DEF Call, AcquireRead, ReleaseRead, AcquireV3d, ReleaseV3d, Cleanup, SetClock
    <2> QED BY <1>0, <2>1, AskingIsAStep
  <1>2. CASE HandlerStep
    BY <1>2, HandlerAsks DEF HandlerStep
  <1>3. CASE ArmFire \/ FclkStart \/ FclkStopBegin \/ FclkStopEnd \/ UNCHANGED allvars
    BY <1>3 DEF ArmFire, FclkStart, FclkStopBegin, FclkStopEnd, allvars
  <1>4. CASE FclkReleaseHardware \/ FclkRemove
    <2>1. ClockCleanup(Fclk) \/ UNCHANGED vars
      BY <1>4 DEF FclkReleaseHardware, FclkRemove, CloseMailbox
    <2> QED BY <1>0, <2>1 DEF Next
  <1>5. CASE Elsewhere
    BY <1>0, <1>5 DEF Elsewhere, Next
  <1> QED BY <1>1, <1>2, <1>3, <1>4, <1>5 DEF FclkNext

LEMMA MailStep == MailInv /\ [Next]_vars => MailInv'
  <1> SUFFICES ASSUME MailInv, [Next]_vars PROVE MailInv'
    OBVIOUS
  <1>1. IInv'
    BY StepInvariant DEF MailInv
  <1>2. (phase = "none" => ~online)'
    <2>1. CASE PrepareFails \/ Prepare \/ ReleaseRefused \/ Release \/ FirmwareDrift
      BY <2>1 DEF PrepareFails, Prepare, ReleaseRefused, Release, FirmwareDrift, life, MailInv
    <2>2. CASE \/ \E f \in Controllers, k \in Clocks, st \in Status : ClockRequest(f, k, st)
               \/ \E st \in Status : Query(st)
               \/ \E f \in Controllers : ClockCleanup(f)
               \/ UNCHANGED vars
      <3>1. UNCHANGED life
        <4>1. CASE \E f \in Controllers, k \in Clocks, st \in Status : ClockRequest(f, k, st)
          BY <4>1, ClockRequestFacts DEF MailInv, IInv
        <4>2. CASE \/ \E st \in Status : Query(st)
                   \/ \E f \in Controllers : ClockCleanup(f)
                   \/ UNCHANGED vars
          BY <4>2 DEF Query, ClockCleanup, vars
        <4> QED BY <2>2, <4>1, <4>2
      <3> QED BY <3>1 DEF life, MailInv
    <2> QED BY <2>1, <2>2 DEF Next
  <1> QED BY <1>1, <1>2 DEF MailInv

-------------------------------------------------------------------------------
(* The leases of the clients.                                                *)

LEMMA HoldersAreFinite ==
  ASSUME NEW i
  PROVE  IsFiniteSet(Holders(i)) /\ Cardinality(Holders(i)) \in Nat
  BY FclkAssumption, FS_Subset, FS_CardinalityType DEF Holders

LEMMA NoUserNoHolder ==
  ASSUME LeaseInv, NEW i \in Ids
  PROVE  users[i] = 0 <=> \A f \in Clients : i \notin held[f]
  <1>1. users[i] = 0 <=> Holders(i) = {}
    BY HoldersAreFinite, FS_EmptySet DEF LeaseInv
  <1> QED BY <1>1 DEF Holders

LEMMA FreeIsZero == ASSUME LeaseInv PROVE Free <=> users[V3D] = 0
  BY NoUserNoHolder DEF Free, Ids

\* What may happen to the leases in one step: none, one more, one file's leases given
\* back, or a new device.
Grants(f, i) ==
  /\ i \notin held[f] /\ (i = V3D => Free)
  /\ users' = [users EXCEPT ![i] = @ + 1]
  /\ held' = [held EXCEPT ![f] = @ \union {i}]

Gives(f) == \E is \in SUBSET held[f] : Give(f, is)

LeaseMoves ==
  \/ UNCHANGED lease
  \/ \E f \in Clients, i \in Ids : Grants(f, i)
  \/ \E f \in Clients : Gives(f)
  \/ /\ \A f \in Clients : held[f] = {}
     /\ held' = held /\ users' = [i \in Ids |-> 0]

LEMMA LeasesMove == FclkInv /\ [FclkNext]_allvars => LeaseMoves
  <1> SUFFICES ASSUME FclkInv, [FclkNext]_allvars PROVE LeaseMoves
    OBVIOUS
  <1>0. /\ Types /\ LeaseInv /\ JobInv /\ V3D \in Ids /\ ReadIds \subseteq Ids /\ V3D \notin ReadIds
        /\ users \in [Ids -> Nat] /\ held \in [Clients -> SUBSET Ids]
    BY FclkAssumption DEF FclkInv, Types, Ids
  <1>1. CASE Call
    <2> PICK f \in Clients :
          \/ \E i \in ReadIds : AcquireRead(f, i) \/ ReleaseRead(f, i)
          \/ AcquireV3d(f) \/ ReleaseV3d(f) \/ Cleanup(f)
          \/ \E r \in Rates : SetClock(f, "rate", r)
          \/ \E s \in {0, 1} : SetClock(f, "state", s)
      BY <1>1 DEF Call
    <2>1. CASE \E i \in ReadIds : AcquireRead(f, i)
      <3> PICK i \in ReadIds : AcquireRead(f, i)
        BY <2>1
      <3>1. Grants(f, i)
        BY <1>0 DEF AcquireRead, Grants
      <3> QED BY <1>0, <3>1 DEF LeaseMoves
    <2>2. CASE \E i \in ReadIds : ReleaseRead(f, i)
      <3> PICK i \in ReadIds : ReleaseRead(f, i)
        BY <2>2
      <3>1. i \in held[f] /\ Give(f, {i})
        BY DEF ReleaseRead
      <3>2. {i} \in SUBSET held[f]
        BY <3>1
      <3> QED BY <3>1, <3>2 DEF LeaseMoves, Gives
    <2>3. CASE Cleanup(f)
      <3>1. UNCHANGED lease \/ Give(f, held[f])
        BY <2>3 DEF Cleanup, lease
      <3>2. held[f] \in SUBSET held[f]
        OBVIOUS
      <3> QED BY <3>1, <3>2 DEF LeaseMoves, Gives
    <2>4. CASE \/ AcquireV3d(f) \/ ReleaseV3d(f)
               \/ \E r \in Rates : SetClock(f, "rate", r)
               \/ \E s \in {0, 1} : SetClock(f, "state", s)
      BY <2>4 DEF AcquireV3d, ReleaseV3d, SetClock, LeaseMoves
    <2> QED BY <2>1, <2>2, <2>3, <2>4
  <1>2. CASE HandlerStep
    <2> PICK got \in Status : Step(got)
      BY <1>2 DEF HandlerStep
    <2>1. CASE Snap(got)
      <3>1. CASE UNCHANGED lease
        BY <3>1 DEF LeaseMoves
      <3>2. CASE ~UNCHANGED lease
        <4>1. /\ at = "snap" /\ users' = [users EXCEPT ![V3D] = 1]
              /\ held' = [held EXCEPT ![job.f] = @ \union {V3D}]
          BY <2>1, <3>2 DEF Snap, lease
        <4>2. job.f \in Clients /\ Free
          BY <1>0, <4>1 DEF JobInv
        <4>3. users[V3D] = 0 /\ V3D \notin held[job.f]
          BY <1>0, <4>2, FreeIsZero DEF Free
        <4>4. Grants(job.f, V3D)
          BY <1>0, <4>1, <4>2, <4>3 DEF Grants
        <4> QED BY <1>0, <4>2, <4>4 DEF LeaseMoves
      <3> QED BY <3>1, <3>2
    <2>2. CASE RestoreRate(got) \/ RestoreState(got) \/ RestoreCheck(got) \/ RestoreRelease(got)
      <3>1. at \in Restoring
        BY <2>2 DEF RestoreRate, RestoreState, RestoreCheck, RestoreStep, RestoreRelease, Restoring
      <3>2. job.f \in Clients /\ V3D \in held[job.f]
        BY <1>0, <3>1 DEF JobInv
      <3>3. UNCHANGED lease \/ Give(job.f, held[job.f]) \/ Give(job.f, {V3D})
        BY <2>2 DEF RestoreRate, RestoreState, RestoreCheck, RestoreStep, RestoreRelease,
                    RestoreFails
      <3>4. {V3D} \in SUBSET held[job.f] /\ held[job.f] \in SUBSET held[job.f]
        BY <3>2
      <3> QED BY <3>2, <3>3, <3>4 DEF LeaseMoves, Gives
    <2>3. CASE \/ Claim(got) \/ Unclaim(got) \/ SetSnapshot(got) \/ SetRequest(got) \/ SetVerify(got)
               \/ ReleaseSnapshot(got)
               \/ ArmQuery(got) \/ ArmClaim(got) \/ ArmReadBaseline(got) \/ ArmSet(got)
               \/ ArmCheck(got) \/ ArmRestoreRate(got) \/ ArmRelease(got)
      BY <2>3 DEF Claim, Unclaim, SetSnapshot, SetRequest, SetVerify, ReleaseSnapshot, ArmQuery,
                  ArmClaim, ArmReadBaseline, ArmSet, ArmCheck, ArmRestoreRate, ArmRelease,
                  ArmFrame, LeaseMoves
    <2> QED BY <2>1, <2>2, <2>3 DEF Step
  <1>3. CASE \/ ArmFire \/ FclkStart \/ FclkStopBegin \/ FclkStopEnd \/ FclkReleaseHardware
             \/ Elsewhere \/ UNCHANGED allvars
    BY <1>3 DEF ArmFire, FclkStart, FclkStopBegin, FclkStopEnd, FclkReleaseHardware, Elsewhere,
                allvars, fvars, LeaseMoves
  <1>4. CASE FclkRemove
    BY <1>4 DEF FclkRemove, LeaseMoves
  <1> QED BY <1>1, <1>2, <1>3, <1>4 DEF FclkNext

LEMMA LeaseKept ==
  ASSUME Types, LeaseInv, LeaseMoves
  PROVE  LeaseInv' /\ users' \in [Ids -> Nat] /\ held' \in [Clients -> SUBSET Ids]
  <1>0. users \in [Ids -> Nat] /\ held \in [Clients -> SUBSET Ids]
    BY DEF Types
  <1>1. CASE UNCHANGED lease
    BY <1>0, <1>1 DEF lease, LeaseInv, Holders
  <1>2. CASE \E f \in Clients, i \in Ids : Grants(f, i)
    <2> PICK f \in Clients, i \in Ids : Grants(f, i)
      BY <1>2
    <2>1. users' \in [Ids -> Nat] /\ held' \in [Clients -> SUBSET Ids]
      BY <1>0 DEF Grants
    <2>2. Holders(i)' = Holders(i) \union {f} /\ f \notin Holders(i)
      BY <1>0 DEF Grants, Holders
    <2>3. Cardinality(Holders(i)') = Cardinality(Holders(i)) + 1
      BY <2>2, HoldersAreFinite, FS_AddElement
    <2>4. ASSUME NEW j \in Ids, j # i PROVE Holders(j)' = Holders(j)
      BY <1>0, <2>4 DEF Grants, Holders
    <2>5. \A j \in Ids : users'[j] = Cardinality(Holders(j)')
      <3> TAKE j \in Ids
      <3>1. users[j] = Cardinality(Holders(j)) /\ users[j] \in Nat
        BY <1>0 DEF LeaseInv
      <3>2. users'[j] = IF j = i THEN users[j] + 1 ELSE users[j]
        BY <1>0 DEF Grants
      <3> QED BY <2>3, <2>4, <3>1, <3>2
    <2>6. \A g, h \in Clients : V3D \in held'[g] /\ V3D \in held'[h] => g = h
      BY <1>0 DEF Grants, Free, LeaseInv
    <2> QED BY <2>1, <2>5, <2>6 DEF LeaseInv
  <1>3. CASE \E f \in Clients : Gives(f)
    <2> PICK f \in Clients : Gives(f)
      BY <1>3
    <2> PICK is \in SUBSET held[f] : Give(f, is)
      BY DEF Gives
    <2>1. held' \in [Clients -> SUBSET Ids]
          /\ (\A g \in Clients : held'[g] = IF g = f THEN held[g] \ is ELSE held[g])
      BY <1>0 DEF Give
    <2>2. \A j \in Ids : users'[j] = IF j \in is THEN users[j] - 1 ELSE users[j]
      BY DEF Give
    <2>3. \A j \in Ids : users'[j] = Cardinality(Holders(j)')
      <3> TAKE j \in Ids
      <3>1. users[j] = Cardinality(Holders(j))
        BY DEF LeaseInv
      <3>2. CASE j \in is
        <4>1. f \in Holders(j) /\ Holders(j)' = Holders(j) \ {f}
          BY <2>1, <3>2 DEF Holders
        <4>2. Cardinality(Holders(j)') = Cardinality(Holders(j)) - 1
          BY <4>1, HoldersAreFinite, FS_RemoveElement
        <4> QED BY <2>2, <3>1, <3>2, <4>2
      <3>3. CASE j \notin is
        <4>1. Holders(j)' = Holders(j)
          BY <2>1, <3>3 DEF Holders
        <4> QED BY <2>2, <3>1, <3>3, <4>1
      <3> QED BY <3>2, <3>3
    <2>4. users' \in [Ids -> Nat]
      <3>1. \A j \in Ids : Cardinality(Holders(j)') \in Nat
        <4> TAKE j \in Ids
        <4>1. Holders(j)' \subseteq Clients
          BY DEF Holders
        <4> QED BY <4>1, FclkAssumption, FS_Subset, FS_CardinalityType
      <3>2. users' = [j \in Ids |-> IF j \in is THEN users[j] - 1 ELSE users[j]]
        BY DEF Give
      <3>3. users' = [j \in Ids |-> users'[j]]
        BY <3>2
      <3> QED BY <2>3, <3>1, <3>3
    <2>5. \A g, h \in Clients : V3D \in held'[g] /\ V3D \in held'[h] => g = h
      BY <2>1 DEF LeaseInv
    <2> QED BY <2>1, <2>3, <2>4, <2>5 DEF LeaseInv
  <1>4. CASE /\ \A f \in Clients : held[f] = {}
             /\ held' = held /\ users' = [i \in Ids |-> 0]
    <2>1. \A i \in Ids : users'[i] = 0 /\ Holders(i)' = {}
      BY <1>4 DEF Holders
    <2>2. Cardinality({}) = 0
      BY FS_EmptySet
    <2>3. users' \in [Ids -> Nat]
      BY <1>4
    <2> QED BY <1>0, <1>4, <2>1, <2>2, <2>3 DEF LeaseInv
  <1> QED BY <1>1, <1>2, <1>3, <1>4 DEF LeaseMoves

-------------------------------------------------------------------------------
(* The handler that holds the lock.                                          *)

\* V3D stays free unless it is granted.
LEMMA StaysFree ==
  ASSUME Types, LeaseMoves, Free, ~\E f \in Clients : Grants(f, V3D)
  PROVE  Free'
  BY DEF LeaseMoves, Types, Free, lease, Grants, Gives, Give

jobvars == <<held, uncertain, fbase, armChanged, armBase, at, job>>

LEMMA JobUnchanged == ASSUME JobInv, UNCHANGED jobvars PROVE JobInv'
  BY DEF JobInv, jobvars, Free

\* A handler begins (FclkIoctl, FclkCleanup, the timer, FclkStop), or ends at once.
LEMMA JobBegins ==
  ASSUME FclkInv, LeaseMoves, Call \/ ArmFire \/ FclkStopEnd
  PROVE  JobInv'
  <1>0. /\ Types /\ LeaseInv /\ JobInv /\ V3D \in Ids /\ V3D \notin ReadIds
        /\ held \in [Clients -> SUBSET Ids] /\ NoFile \notin Clients
    BY FclkAssumption DEF FclkInv, Types, Ids
  <1>1. CASE Call
    <2> PICK f \in Clients :
          \/ \E i \in ReadIds : AcquireRead(f, i) \/ ReleaseRead(f, i)
          \/ AcquireV3d(f) \/ ReleaseV3d(f) \/ Cleanup(f)
          \/ \E r \in Rates : SetClock(f, "rate", r)
          \/ \E s \in {0, 1} : SetClock(f, "state", s)
      BY <1>1 DEF Call
    <2>1. CASE \E i \in ReadIds : AcquireRead(f, i) \/ ReleaseRead(f, i)
      <3>1. /\ at = "idle" /\ UNCHANGED <<at, job, uncertain, fbase, armChanged, armBase>>
            /\ \A g \in Clients : V3D \in held'[g] => V3D \in held[g]
        BY <1>0, <2>1 DEF AcquireRead, ReleaseRead, Give, v3dvars, armvars
      <3> QED BY <1>0, <3>1 DEF JobInv, Free, Idle, Restoring, ArmRaises, ArmReturns
    <2>2. CASE Cleanup(f)
      <3>1. UNCHANGED <<fbase, armChanged, armBase>> /\ at = "idle" /\ job = Idle
        BY <1>0, <2>2 DEF Cleanup, armvars, JobInv
      <3>2. CASE UNCHANGED <<at, job>>
        <4>1. ~Free' => ~Free
          BY <1>0, <2>2, StaysFree DEF Cleanup, Grants, lease, Give
        <4> QED BY <1>0, <3>1, <3>2, <4>1 DEF JobInv, Restoring, ArmRaises, ArmReturns
      <3>3. CASE ~UNCHANGED <<at, job>>
        <4>1. /\ V3D \in held[f] /\ ~uncertain /\ UNCHANGED <<uncertain, held>>
              /\ at' = "restRelease" /\ job' = [kind |-> "cleanup", f |-> f]
          BY <2>2, <3>3 DEF Cleanup, lease
        <4> QED BY <1>0, <3>1, <4>1 DEF JobInv, Free, Restoring, ArmRaises, ArmReturns
      <3> QED BY <3>2, <3>3
    <2>3. CASE AcquireV3d(f)
      <3>1. Free
        BY <1>0, <2>3, FreeIsZero DEF AcquireV3d
      <3> QED BY <1>0, <2>3, <3>1
              DEF AcquireV3d, lease, v3dvars, armvars, JobInv, Free, Restoring, ArmRaises, ArmReturns
    <2>4. CASE ReleaseV3d(f)
      BY <1>0, <2>4
      DEF ReleaseV3d, lease, v3dvars, armvars, JobInv, Free, Restoring, ArmRaises, ArmReturns
    <2>5. CASE \E r \in Rates : SetClock(f, "rate", r)
      BY <1>0, <2>5
      DEF SetClock, lease, v3dvars, armvars, JobInv, Free, Restoring, ArmRaises, ArmReturns
    <2>6. CASE \E s \in {0, 1} : SetClock(f, "state", s)
      BY <1>0, <2>6
      DEF SetClock, lease, v3dvars, armvars, JobInv, Free, Restoring, ArmRaises, ArmReturns
    <2> QED BY <2>1, <2>2, <2>3, <2>4, <2>5, <2>6
  <1>2. CASE ArmFire \/ FclkStopEnd
    <2>1. /\ at = "idle" /\ UNCHANGED <<held, uncertain, fbase, armChanged, armBase>>
          /\ \/ UNCHANGED <<at, job>>
             \/ at' = "armQuery" /\ job' = [kind |-> "arm", f |-> NoFile]
             \/ /\ at' = IF armChanged THEN "armRestore" ELSE "armRelease"
                /\ job' = [kind |-> "stop", f |-> NoFile]
      BY <1>2 DEF ArmFire, FclkStopEnd, lease, v3dvars, pnp
    <2> QED BY <1>0, <2>1 DEF JobInv, Free, Restoring, ArmRaises, ArmReturns
  <1> QED BY <1>1, <1>2

\* A handler of V3D goes on, or ends.
LEMMA JobGoesOn ==
  ASSUME FclkInv, LeaseMoves, NEW got \in Status,
         \/ Claim(got) \/ Snap(got) \/ Unclaim(got)
         \/ SetSnapshot(got) \/ SetRequest(got) \/ SetVerify(got)
         \/ ReleaseSnapshot(got)
         \/ RestoreRate(got) \/ RestoreState(got) \/ RestoreCheck(got) \/ RestoreRelease(got)
  PROVE  JobInv'
  <1>0. /\ Types /\ LeaseInv /\ JobInv /\ held \in [Clients -> SUBSET Ids] /\ TypeOK
        /\ NoFile \notin Clients
    BY FclkAssumption DEF FclkInv, Types, MailInv, IInv
  <1>1. UNCHANGED <<armChanged, armBase>>
    BY DEF Claim, Snap, Unclaim, SetSnapshot, SetRequest, SetVerify, ReleaseSnapshot,
           RestoreRate, RestoreState, RestoreCheck, RestoreStep, RestoreRelease, armvars
  <1> USE DEF Goto, Finish, Restoring, ArmRaises, ArmReturns
  <1>2. CASE Claim(got)
    BY <1>0, <1>1, <1>2 DEF Claim, lease, Idle, JobInv, Free
  <1>3. CASE Snap(got)
    <2>1. fw[V3D] \in Setting
      BY <1>0, FclkAssumption DEF TypeOK
    <2>2. CASE at' = "idle"
      <3>1. fbase' = fw[V3D] /\ job' = Idle
        BY <1>3, <2>2 DEF Snap
      <3> QED BY <1>0, <1>1, <2>1, <2>2, <3>1 DEF JobInv, Idle
    <2>3. CASE at' # "idle"
      <3>1. /\ at = "snap" /\ at' = "unclaim" /\ job' = job
            /\ UNCHANGED <<held, uncertain, fbase>>
        BY <1>3, <2>3 DEF Snap
      <3> QED BY <1>0, <1>1, <3>1 DEF JobInv, Free
    <2> QED BY <2>2, <2>3
  <1>4. CASE Unclaim(got) \/ SetVerify(got)
    <2>1. at' = "idle" /\ job' = Idle /\ UNCHANGED <<held, fbase>>
      BY <1>4 DEF Unclaim, SetVerify, lease
    <2> QED BY <1>0, <1>1, <2>1 DEF JobInv, Idle, Free
  <1>5. CASE SetSnapshot(got) \/ SetRequest(got)
    <2>1. /\ at \in {"setq", "set"} /\ UNCHANGED <<held, fbase>>
          /\ \/ at' = "idle" /\ job' = Idle
             \/ at' \in {"set", "verify"} /\ job' = job /\ uncertain' = uncertain
      BY <1>5 DEF SetSnapshot, SetRequest, lease
    <2> QED BY <1>0, <1>1, <2>1 DEF JobInv, Idle, Free
  <1>6. CASE ReleaseSnapshot(got)
    <2>1. /\ at = "relq" /\ UNCHANGED <<held, fbase, uncertain>>
          /\ \/ at' = "idle" /\ job' = Idle
             \/ at' \in {"restRate", "restRelease"} /\ job' = job /\ ~uncertain
      BY <1>6 DEF ReleaseSnapshot, lease, v3dvars, RestoreFrom
    <2> QED BY <1>0, <1>1, <2>1 DEF JobInv, Idle, Free
  <1>7. CASE RestoreRate(got) \/ RestoreState(got) \/ RestoreCheck(got)
    <2>1. at \in Restoring
      BY <1>7 DEF RestoreRate, RestoreState, RestoreCheck, RestoreStep
    <2>2. \/ at' = "idle" /\ job' = Idle /\ fbase' = fbase
          \/ /\ at' \in Restoring /\ job' = job
             /\ UNCHANGED <<held, fbase, uncertain>>
      BY <1>7 DEF RestoreRate, RestoreState, RestoreCheck, RestoreStep, RestoreFails, lease, v3dvars
    <2>3. ~Free
      BY <1>0, <2>1 DEF JobInv, Free
    <2> QED BY <1>0, <1>1, <2>1, <2>2, <2>3 DEF JobInv, Idle, Free
  <1>8. CASE RestoreRelease(got)
    <2>1. at \in Restoring /\ job.f \in Clients /\ V3D \in held[job.f] /\ ~Free
      BY <1>0, <1>8 DEF RestoreRelease, JobInv, Free
    <2>2. at' = "idle" /\ job' = Idle
      BY <1>8 DEF RestoreRelease, RestoreFails
    <2>3. fbase' = fbase \/ Free'
      <3>1. CASE fbase' = fbase
        BY <3>1
      <3>2. CASE fbase' # fbase
        <4>1. \E is : V3D \in is /\ Give(job.f, is)
          BY <1>8, <2>1, <3>2 DEF RestoreRelease, RestoreFails
        <4>2. V3D \notin held'[job.f] /\ \A g \in Clients : g # job.f => held'[g] = held[g]
          BY <1>0, <2>1, <4>1 DEF Give
        <4> QED BY <1>0, <2>1, <4>2 DEF LeaseInv, Free
      <3> QED BY <3>1, <3>2
    <2> QED BY <1>0, <1>1, <2>1, <2>2, <2>3 DEF JobInv, Idle
  <1> QED BY <1>2, <1>3, <1>4, <1>5, <1>6, <1>7, <1>8

\* A handler of the ARM clock goes on, or ends.
LEMMA JobOfArm ==
  ASSUME FclkInv, NEW got \in Status,
         \/ ArmQuery(got) \/ ArmClaim(got) \/ ArmReadBaseline(got) \/ ArmSet(got)
         \/ ArmCheck(got) \/ ArmRestoreRate(got) \/ ArmRelease(got)
  PROVE  JobInv'
  <1>0. Types /\ JobInv /\ TypeOK /\ fw[ARM].rate \in Rates
    BY FclkAssumption DEF FclkInv, MailInv, IInv, TypeOK, Setting
  <1>1. UNCHANGED <<held, uncertain, fbase>>
    BY DEF ArmQuery, ArmClaim, ArmReadBaseline, ArmSet, ArmCheck, ArmRestoreRate, ArmRelease,
           ArmFrame, lease, v3dvars
  <1> USE DEF ArmRaises, ArmReturns, Restoring
  <1>2. CASE \/ ArmQuery(got) \/ ArmClaim(got) \/ ArmSet(got) \/ ArmCheck(got)
             \/ ArmRestoreRate(got) \/ ArmRelease(got)
    <2>1. /\ at \in ArmRaises \union ArmReturns /\ armBase' = armBase
          /\ armChanged' = armChanged \/ armChanged' = FALSE
          /\ \/ at' = "idle" /\ job' = Idle
             \/ job' = job /\ armChanged' = armChanged /\ at' \in ArmRaises /\ at \in ArmRaises
             \/ job' = job /\ armChanged' = armChanged /\ at' = "armRelease"
             \/ job' = job /\ armChanged' = armChanged /\ at' = "armRestore" /\ armChanged
      BY <1>2 DEF ArmQuery, ArmClaim, ArmSet, ArmCheck, ArmRestoreRate, ArmRelease, ArmBackOut,
                  ArmGiveUp, ArmDone, Goto, Finish
    <2> QED BY <1>0, <1>1, <2>1 DEF JobInv, Idle, Free
  <1>3. CASE ArmReadBaseline(got)
    <2>1. /\ at = "armBase" /\ job' = job
          /\ \/ armBase' \in Rates /\ at' \in {"armSet", "armCheck"}
             \/ UNCHANGED <<armBase, armChanged>> /\ at' = "armRelease"
             \/ UNCHANGED <<armBase, armChanged>> /\ at' = "armRestore" /\ armChanged
      BY <1>0, <1>3 DEF ArmReadBaseline, ArmBackOut, Goto
    <2> QED BY <1>0, <1>1, <2>1 DEF JobInv, Idle, Free
  <1> QED BY <1>2, <1>3

LEMMA JobStep == FclkInv /\ [FclkNext]_allvars => JobInv'
  <1> SUFFICES ASSUME FclkInv, [FclkNext]_allvars PROVE JobInv'
    OBVIOUS
  <1>0. LeaseMoves /\ JobInv
    BY LeasesMove DEF FclkInv
  <1>1. CASE Call \/ ArmFire \/ FclkStopEnd
    BY <1>0, <1>1, JobBegins
  <1>2. CASE HandlerStep
    BY <1>0, <1>2, JobGoesOn, JobOfArm DEF HandlerStep, Step
  <1>3. CASE FclkStart \/ FclkStopBegin \/ FclkReleaseHardware \/ Elsewhere \/ UNCHANGED allvars
    <2>1. UNCHANGED jobvars
      BY <1>3 DEF FclkStart, FclkStopBegin, FclkReleaseHardware, Elsewhere, allvars, fvars, jobvars,
                  lease, v3dvars, armvars
    <2> QED BY <1>0, <2>1, JobUnchanged
  <1>4. CASE FclkRemove
    <2>1. /\ at = "idle" /\ UNCHANGED <<held, at, job>> /\ armChanged' = FALSE
          /\ \A f \in Clients : held[f] = {}
      BY <1>4 DEF FclkRemove
    <2> QED BY <1>0, <2>1 DEF JobInv, Free, Restoring, ArmRaises, ArmReturns
  <1> QED BY <1>1, <1>2, <1>3, <1>4 DEF FclkNext

-------------------------------------------------------------------------------
(* Who holds the clocks at the mailbox.                                      *)

\* A claim that is answered is granted, or refused and not granted; only the clock it is
\* about moves, and none while the mailbox is away (ClockControlLocked).
LEMMA AskingToClaim ==
  ASSUME FclkInv, NEW k \in Clocks, NEW got, AskClaim(k, got)
  PROVE  /\ UNCHANGED life
         /\ \A j \in Clocks : j # k => holder'[j] = holder[j]
         /\ got = "ok" => online /\ holder'[k] = Fclk
         /\ got = "error" \/ ~online => holder' = holder
  <1>1. holder \in [Clocks -> Controllers \union {NoFile}]
    BY DEF FclkInv, MailInv, IInv, TypeOK
  <1>2. CASE got = "unknown" /\ UNCHANGED vars
    BY <1>2 DEF vars, leases
  <1>3. CASE \E st \in Status : ClockClaim(Fclk, k, st) /\ Answer(st, got)
    <2> PICK st \in Status : ClockClaim(Fclk, k, st) /\ Answer(st, got)
      BY <1>3
    <2>1. CASE Refused(k, st)
      BY <2>1 DEF Refused, vars, leases, Answer
    <2>2. CASE ~Refused(k, st)
      <3>1. /\ Serves(k) /\ UNCHANGED life
            /\ \/ UNCHANGED leases /\ st # "ok"
               \/ st = "ok" /\ holder' = [holder EXCEPT ![k] = Fclk]
        BY <2>2 DEF ClockClaim, FailedExchange
      <3>2. online
        BY <3>1 DEF Serves, Live
      <3>3. st # "ok" => got # "ok"
        BY DEF Answer
      <3>4. got = "error" => st = "error"
        BY DEF Answer
      <3> QED BY <1>1, <3>1, <3>2, <3>3, <3>4 DEF leases
    <2> QED BY <2>1, <2>2
  <1> QED BY <1>2, <1>3 DEF AskClaim

LEMMA AskingToRelease ==
  ASSUME FclkInv, NEW k \in Clocks, NEW got, AskRelease(k, got)
  PROVE  /\ UNCHANGED life
         /\ \A j \in Clocks : j # k => holder'[j] = holder[j]
         /\ got = "ok" => online /\ holder'[k] # Fclk
         /\ got = "error" \/ ~online => holder' = holder
  <1>1. holder \in [Clocks -> Controllers \union {NoFile}] /\ NoFile # Fclk
    BY FclkAssumption, MailboxAssumption DEF FclkInv, MailInv, IInv, TypeOK
  <1>2. CASE got = "unknown" /\ UNCHANGED vars
    BY <1>2 DEF vars, leases
  <1>3. CASE \E st \in Status : ClockRelease(Fclk, k, st) /\ Answer(st, got)
    <2> PICK st \in Status : ClockRelease(Fclk, k, st) /\ Answer(st, got)
      BY <1>3
    <2>1. CASE Refused(k, st)
      BY <2>1 DEF Refused, vars, leases, Answer
    <2>2. CASE ~Refused(k, st)
      <3>1. /\ Serves(k) /\ UNCHANGED life
            /\ \/ UNCHANGED leases /\ st # "ok"
               \/ st = "ok" /\ holder' = [holder EXCEPT ![k] = NoFile]
        BY <2>2 DEF ClockRelease, FailedExchange
      <3>2. online
        BY <3>1 DEF Serves, Live
      <3>3. st # "ok" => got # "ok"
        BY DEF Answer
      <3>4. got = "error" => st = "error"
        BY DEF Answer
      <3> QED BY <1>1, <3>1, <3>2, <3>3, <3>4 DEF leases
    <2> QED BY <2>1, <2>2
  <1> QED BY <1>2, <1>3 DEF AskRelease

LEMMA AskingElse ==
  ASSUME NEW got, AskQuery(got) \/ \E k \in Clocks : \E v : AskSet(k, v, got)
  PROVE  UNCHANGED <<life, leases>>
  <1>1. CASE AskQuery(got)
    BY <1>1 DEF AskQuery, Query, vars
  <1>2. CASE \E k \in Clocks : \E v : AskSet(k, v, got)
    BY <1>2 DEF AskSet, ClockSet, Refused, vars
  <1> QED BY <1>1, <1>2

\* What others do leaves FCLK's clocks with it as long as the mailbox is there; a mailbox
\* that comes is the first of the boot, and then nobody holds a clock.
LEMMA OthersKeep ==
  ASSUME FclkInv, Elsewhere
  PROVE  /\ \A k \in Clocks : holder'[k] = Fclk => holder[k] = Fclk
         /\ \A k \in Clocks : online' /\ holder[k] = Fclk => holder'[k] = Fclk
         /\ online' => online \/ ~bootClaim
         /\ ~bootClaim' => ~bootClaim /\ (~online => holder' = holder)
  <1>0. /\ holder \in [Clocks -> Controllers \union {NoFile}] /\ NoFile # Fclk /\ online \in BOOLEAN
        /\ Fclk \in Controllers /\ (phase = "none" => ~online)
        /\ ~bootClaim => \A k \in Clocks : holder[k] = NoFile
    BY FclkAssumption, MailboxAssumption DEF FclkInv, MailInv, IInv, TypeOK, ClaimInv
  <1>1. CASE \E f \in Controllers \ {Fclk}, k \in Clocks, st \in Status : ClockRequest(f, k, st)
    <2> PICK f \in Controllers \ {Fclk}, k \in Clocks, st \in Status : ClockRequest(f, k, st)
      BY <1>1
    <2>1. CASE Refused(k, st)
      BY <2>1 DEF Refused, vars, leases, life
    <2>2. CASE ~Refused(k, st)
      <3>1. /\ Serves(k) /\ UNCHANGED life
            /\ \/ UNCHANGED holder
               \/ holder[k] \in {NoFile, f} /\ holder' = [holder EXCEPT ![k] = f]
               \/ holder[k] \in {NoFile, f} /\ holder' = [holder EXCEPT ![k] = NoFile]
        BY <2>2 DEF ClockRequest, ClockClaim, ClockRelease, ClockSet, leases
      <3>2. online
        BY <3>1 DEF Serves, Live
      <3> QED BY <1>0, <3>1, <3>2 DEF life
    <2> QED BY <2>1, <2>2
  <1>2. CASE \E st \in Status : Query(st)
    BY <1>2 DEF Query, life, leases
  <1>3. CASE \E f \in Controllers \ {Fclk} : ClockCleanup(f)
    BY <1>0, <1>3 DEF ClockCleanup, life
  <1>4. CASE phase = "none" /\ ClockCleanup(Fclk)
    BY <1>0, <1>4 DEF ClockCleanup, life
  <1>5. CASE PrepareFails \/ Prepare \/ ReleaseRefused \/ Release \/ FirmwareDrift
    BY <1>5 DEF PrepareFails, Prepare, FirstOfBoot, ReleaseRefused, Release, FirmwareDrift,
                life, leases
  <1> QED BY <1>1, <1>2, <1>3, <1>4, <1>5 DEF Elsewhere

\* The last lease of V3D is given back.
LEMMA LastOneOut ==
  ASSUME Types, LeaseInv, NEW f \in Clients, V3D \in held[f], NEW is, V3D \in is, Give(f, is)
  PROVE  Free'
  <1>1. V3D \notin held'[f] /\ \A g \in Clients : g # f => held'[g] = held[g]
    BY DEF Give, Types
  <1> QED BY <1>1 DEF LeaseInv, Free

\* Steps that touch no claim.
LEMMA ClaimUnchanged ==
  ASSUME FclkInv, LeaseMoves, UNCHANGED <<online, bootClaim, holder, claimed, armClaimed>>,
         uncertain => uncertain', armUncertain => armUncertain',
         ~Free' => ~Free \/ at = "snap",
         at' = "snap" => at = "snap", at' = "unclaim" => at \in {"snap", "unclaim"}
  PROVE  ClaimInv'
  BY DEF FclkInv, ClaimInv, Types

\* Acquire's claim and its withdrawal, and the release that ends a lease.
LEMMA ClaimsOfV3d ==
  ASSUME FclkInv, LeaseMoves, NEW got \in Status, Claim(got) \/ Unclaim(got) \/ RestoreRelease(got)
  PROVE  ClaimInv'
  <1>0. /\ Types /\ LeaseInv /\ JobInv /\ ClaimInv /\ V3D \in Clocks /\ ARM \in Clocks /\ V3D # ARM
        /\ Clocks = {V3D, ARM} /\ bootClaim \in BOOLEAN /\ online \in BOOLEAN
        /\ (online => bootClaim) /\ NoFile # Fclk
    BY FclkAssumption, MailboxAssumption DEF FclkInv, MailInv, IInv, TypeOK, OneHandoff
  <1>1. UNCHANGED <<armClaimed, armUncertain>>
    BY DEF Claim, Unclaim, RestoreRelease, armvars
  <1>2. CASE Claim(got)
    <2>1. AskClaim(V3D, got) /\ at = "claim" /\ UNCHANGED lease
      BY <1>2 DEF Claim
    <2>2. /\ UNCHANGED life /\ holder'[ARM] = holder[ARM]
          /\ got = "ok" => online /\ holder'[V3D] = Fclk
          /\ got = "error" \/ ~online => holder' = holder
      BY <1>0, <2>1, AskingToClaim
    <2>3. UNCHANGED <<online, bootClaim>> /\ Free' /\ Free /\ ~uncertain
      BY <1>0, <2>1, <2>2 DEF life, JobInv, lease, Free
    <2>4. \/ got = "ok" /\ claimed' = TRUE /\ at' = "snap" /\ uncertain' = uncertain
          \/ got = "error" /\ at' = "idle" /\ UNCHANGED <<claimed, uncertain>>
          \/ got = "unknown" /\ at' = "idle" /\ uncertain' = TRUE /\ claimed' = claimed
      BY <1>2 DEF Claim, Goto, Finish, Fault, v3dvars
    <2> QED BY <1>0, <1>1, <2>2, <2>3, <2>4 DEF ClaimInv
  <1>3. CASE Unclaim(got) \/ RestoreRelease(got)
    <2>1. AskRelease(V3D, got) /\ at \in {"unclaim", "restRelease"} /\ at' = "idle"
      BY <1>3 DEF Unclaim, RestoreRelease, RestoreFails, Finish
    <2>2. /\ UNCHANGED life /\ holder'[ARM] = holder[ARM]
          /\ got = "ok" => online /\ holder'[V3D] # Fclk
          /\ got = "error" \/ ~online => holder' = holder
      BY <1>0, <2>1, AskingToRelease
    <2>3. UNCHANGED <<online, bootClaim>>
      BY <2>2 DEF life
    <2>4. \/ got = "ok" /\ claimed' = FALSE /\ uncertain' = uncertain
          \/ got # "ok" /\ uncertain' = TRUE /\ claimed' = claimed
      BY <1>3 DEF Unclaim, RestoreRelease, RestoreFails, Fault
    <2>5. got = "ok" => Free'
      <3>1. CASE Unclaim(got)
        BY <1>0, <3>1 DEF Unclaim, JobInv, lease, Free
      <3>2. CASE RestoreRelease(got) /\ got = "ok"
        <4>1. job.f \in Clients /\ V3D \in held[job.f]
          BY <1>0, <3>2 DEF RestoreRelease, JobInv, Restoring
        <4>2. \E is : V3D \in is /\ Give(job.f, is)
          BY <4>1, <3>2 DEF RestoreRelease
        <4> QED BY <1>0, <4>1, <4>2, LastOneOut
      <3> QED BY <1>3, <3>1, <3>2
    <2> QED BY <1>0, <1>1, <2>1, <2>2, <2>3, <2>4, <2>5 DEF ClaimInv
  <1> QED BY <1>2, <1>3

\* ArmStart's claim and ArmRestore's release.
LEMMA ClaimsOfArm ==
  ASSUME FclkInv, NEW got \in Status, ArmClaim(got) \/ ArmRelease(got)
  PROVE  ClaimInv'
  <1>0. /\ Types /\ ClaimInv /\ V3D \in Clocks /\ ARM \in Clocks /\ V3D # ARM
        /\ Clocks = {V3D, ARM} /\ bootClaim \in BOOLEAN /\ online \in BOOLEAN
        /\ (online => bootClaim) /\ NoFile # Fclk
    BY FclkAssumption, MailboxAssumption DEF FclkInv, MailInv, IInv, TypeOK, OneHandoff
  <1>1. UNCHANGED <<claimed, uncertain, held>> /\ at' \notin {"snap", "unclaim"}
    BY DEF ArmClaim, ArmRelease, ArmGiveUp, ArmDone, Goto, Finish, ArmFrame, lease, v3dvars
  <1>2. Free' <=> Free
    BY <1>1 DEF Free
  <1>3. CASE ArmClaim(got)
    <2>1. /\ UNCHANGED life /\ holder'[V3D] = holder[V3D]
          /\ got = "ok" => online /\ holder'[ARM] = Fclk
          /\ got = "error" \/ ~online => holder' = holder
      BY <1>0, <1>3, AskingToClaim DEF ArmClaim
    <2>2. \/ got = "ok" /\ armClaimed' = TRUE /\ armUncertain' = armUncertain
          \/ got = "error" /\ UNCHANGED <<armClaimed, armUncertain>>
          \/ got = "unknown" /\ armUncertain' = TRUE /\ armClaimed' = armClaimed
      BY <1>3 DEF ArmClaim, ArmGiveUp
    <2> QED BY <1>0, <1>1, <1>2, <2>1, <2>2 DEF ClaimInv, life
  <1>4. CASE ArmRelease(got)
    <2>1. /\ UNCHANGED life /\ holder'[V3D] = holder[V3D]
          /\ got = "ok" => online /\ holder'[ARM] # Fclk
          /\ got = "error" \/ ~online => holder' = holder
      BY <1>0, <1>4, AskingToRelease DEF ArmRelease
    <2>2. \/ got = "ok" /\ armClaimed' = FALSE /\ armUncertain' = armUncertain
          \/ got # "ok" /\ armUncertain' = TRUE /\ armClaimed' = armClaimed
      BY <1>4 DEF ArmRelease, ArmGiveUp
    <2> QED BY <1>0, <1>1, <1>2, <2>1, <2>2 DEF ClaimInv, life
  <1> QED BY <1>3, <1>4

\* Every other step of a handler only reads or sets a clock, and may end in a fault.
LEMMA ClaimsStay ==
  ASSUME FclkInv, LeaseMoves, NEW got \in Status, Step(got),
         ~(Claim(got) \/ Unclaim(got) \/ RestoreRelease(got) \/ ArmClaim(got) \/ ArmRelease(got))
  PROVE  ClaimInv'
  <1>0. Types /\ V3D \in Clocks /\ ARM \in Clocks
    BY FclkAssumption DEF FclkInv
  <1>1. CASE \/ Snap(got) \/ SetSnapshot(got) \/ SetRequest(got) \/ SetVerify(got)
             \/ ReleaseSnapshot(got) \/ RestoreRate(got) \/ RestoreState(got) \/ RestoreCheck(got)
    <2>1. UNCHANGED <<life, leases>>
      BY <1>0, <1>1, AskingElse
      DEF Snap, SetSnapshot, SetRequest, SetVerify, ReleaseSnapshot, RestoreRate, RestoreState,
          RestoreCheck
    <2>2. /\ UNCHANGED <<claimed, armClaimed, armUncertain>>
          /\ uncertain => uncertain'
      BY <1>1
      DEF Snap, SetSnapshot, SetRequest, SetVerify, ReleaseSnapshot, RestoreRate, RestoreState,
          RestoreCheck, RestoreStep, RestoreFails, Fault, v3dvars, armvars
    <2>3. /\ at' # "snap" /\ (at' = "unclaim" => at \in {"snap", "unclaim"})
      BY <1>1
      DEF Snap, SetSnapshot, SetRequest, SetVerify, ReleaseSnapshot, RestoreFrom, RestoreRate,
          RestoreState, RestoreCheck, RestoreStep, RestoreFails, Goto, Finish
    <2>4. ~Free' => ~Free \/ at = "snap"
      <3>1. CASE Snap(got)
        BY <3>1 DEF Snap
      <3>2. CASE ~Snap(got)
        <4>1. UNCHANGED held \/ Gives(job.f)
          <5>1. UNCHANGED lease \/ Give(job.f, held[job.f])
            BY <1>1, <3>2
            DEF SetSnapshot, SetRequest, SetVerify, ReleaseSnapshot, RestoreRate, RestoreState,
                RestoreCheck, RestoreStep, RestoreFails
          <5>2. held[job.f] \in SUBSET held[job.f]
            OBVIOUS
          <5> QED BY <5>1, <5>2 DEF lease, Gives
        <4> QED BY <1>0, <4>1 DEF Types, Gives, Give, Free
      <3> QED BY <3>1, <3>2
    <2> QED BY <2>1, <2>2, <2>3, <2>4, ClaimUnchanged DEF life, leases
  <1>2. CASE \/ ArmQuery(got) \/ ArmReadBaseline(got) \/ ArmSet(got) \/ ArmCheck(got)
             \/ ArmRestoreRate(got)
    <2>1. UNCHANGED <<life, leases>>
      BY <1>0, <1>2, AskingElse DEF ArmQuery, ArmReadBaseline, ArmSet, ArmCheck, ArmRestoreRate
    <2>2. /\ UNCHANGED <<claimed, armClaimed, uncertain, held>> /\ (armUncertain => armUncertain')
          /\ at' \notin {"snap", "unclaim"}
      BY <1>2 DEF ArmQuery, ArmReadBaseline, ArmSet, ArmCheck, ArmRestoreRate, ArmBackOut, ArmGiveUp,
                  ArmDone, Goto, Finish, ArmFrame, lease, v3dvars
    <2> QED BY <2>1, <2>2, ClaimUnchanged DEF life, leases, Free
  <1> QED BY <1>1, <1>2 DEF Step

\* Clients, the timer and PnP.
LEMMA ClaimsAtRest ==
  ASSUME FclkInv, LeaseMoves,
         Call \/ ArmFire \/ FclkStart \/ FclkStopBegin \/ FclkStopEnd \/ UNCHANGED allvars
  PROVE  ClaimInv'
  <1>0. Types
    BY DEF FclkInv
  <1>1. CASE Call
    <2> PICK f \in Clients :
          \/ \E i \in ReadIds : AcquireRead(f, i) \/ ReleaseRead(f, i)
          \/ AcquireV3d(f) \/ ReleaseV3d(f) \/ Cleanup(f)
          \/ \E r \in Rates : SetClock(f, "rate", r)
          \/ \E s \in {0, 1} : SetClock(f, "state", s)
      BY <1>1 DEF Call
    <2>1. UNCHANGED <<life, leases>>
      <3>1. (\E got : AskQuery(got)) \/ UNCHANGED vars
        BY DEF AcquireRead, ReleaseRead, AcquireV3d, ReleaseV3d, Cleanup, SetClock
      <3> QED BY <3>1, AskingElse DEF vars
    <2>2. /\ UNCHANGED <<claimed, armClaimed, armUncertain>>
          /\ uncertain' = TRUE \/ uncertain' = uncertain
      BY DEF AcquireRead, ReleaseRead, AcquireV3d, ReleaseV3d, Cleanup, SetClock, Fault, v3dvars,
             armvars
    <2>3. at' \notin {"snap", "unclaim"}
      BY DEF AcquireRead, ReleaseRead, AcquireV3d, ReleaseV3d, Cleanup, SetClock
    <2>4. Free => Free'
      <3>1. ~\E g \in Clients : Grants(g, V3D)
        <4>1. V3D \notin ReadIds
          BY FclkAssumption
        <4>2. \A g \in Clients : V3D \in held'[g] => V3D \in held[g]
          BY <1>0, <4>1 DEF AcquireRead, ReleaseRead, AcquireV3d, ReleaseV3d, Cleanup, SetClock, Give,
                            lease, Types
        <4>3. ASSUME NEW g \in Clients, Grants(g, V3D) PROVE FALSE
          BY <1>0, <4>2, <4>3 DEF Grants, Types
        <4> QED BY <4>3
      <3> QED BY <1>0, <3>1, StaysFree
    <2>5. (uncertain => uncertain') /\ (armUncertain => armUncertain') /\ (~Free' => ~Free)
      BY <2>2, <2>4
    <2>6. UNCHANGED <<online, bootClaim, holder, claimed, armClaimed>>
      BY <2>1, <2>2 DEF life, leases
    <2>7. /\ at' = "snap" => at = "snap"
          /\ at' = "unclaim" => at \in {"snap", "unclaim"}
      BY <2>3
    <2> QED BY <2>5, <2>6, <2>7, ClaimUnchanged
  <1>2. CASE ArmFire \/ FclkStart \/ FclkStopBegin \/ FclkStopEnd \/ UNCHANGED allvars
    <2>1. /\ UNCHANGED <<life, leases, claimed, armClaimed, uncertain, armUncertain, held>>
          /\ at' = "snap" => at = "snap"
          /\ at' = "unclaim" => at = "unclaim"
      BY <1>2 DEF ArmFire, FclkStart, FclkStopBegin, FclkStopEnd, allvars, fvars, vars, lease, v3dvars,
                  armvars
    <2> QED BY <2>1, ClaimUnchanged DEF life, leases, Free
  <1> QED BY <1>1, <1>2

LEMMA ClosingTheMailbox ==
  ASSUME FclkInv, CloseMailbox
  PROVE  UNCHANGED life /\ \A k \in Clocks : holder'[k] # Fclk /\ (holder[k] # Fclk => holder'[k] = holder[k])
  <1>1. NoFile # Fclk
    BY FclkAssumption, MailboxAssumption
  <1> QED BY <1>1 DEF CloseMailbox, ClockCleanup, vars, life, leases

LEMMA ClaimStep == FclkInv /\ [FclkNext]_allvars => ClaimInv'
  <1> SUFFICES ASSUME FclkInv, [FclkNext]_allvars PROVE ClaimInv'
    OBVIOUS
  <1>0. /\ Types /\ LeaseInv /\ ClaimInv /\ LeaseMoves /\ V3D \in Clocks /\ ARM \in Clocks
        /\ NoFile # Fclk /\ (online => bootClaim) /\ bootClaim \in BOOLEAN /\ online \in BOOLEAN
    BY LeasesMove, FclkAssumption, MailboxAssumption
    DEF FclkInv, MailInv, IInv, TypeOK, OneHandoff
  <1>1. CASE Call \/ ArmFire \/ FclkStart \/ FclkStopBegin \/ FclkStopEnd \/ UNCHANGED allvars
    BY <1>0, <1>1, ClaimsAtRest
  <1>2. CASE HandlerStep
    BY <1>0, <1>2, ClaimsOfV3d, ClaimsOfArm, ClaimsStay DEF HandlerStep
  <1>3. CASE Elsewhere
    <2>1. UNCHANGED <<claimed, armClaimed, uncertain, armUncertain, held, at>>
      BY <1>3 DEF Elsewhere, fvars, v3dvars, armvars, lease
    <2>2. Free' <=> Free
      BY <2>1 DEF Free
    <2> QED BY <1>0, <1>3, <2>1, <2>2, OthersKeep DEF ClaimInv
  <1>4. CASE FclkReleaseHardware
    <2>1. /\ UNCHANGED <<claimed, armClaimed, uncertain, armUncertain, held, at>>
          /\ at = "idle"
          /\ UNCHANGED vars \/ (CloseMailbox /\ ~IsBusy /\ ~armClaimed)
      BY <1>4 DEF FclkReleaseHardware, v3dvars, armvars, lease
    <2>2. CASE UNCHANGED vars
      BY <1>0, <2>1, <2>2, ClaimUnchanged DEF vars, life, leases, Free
    <2>3. CASE CloseMailbox /\ ~IsBusy /\ ~armClaimed
      <3>1. ~claimed /\ ~uncertain /\ ~armUncertain
        BY <2>3 DEF IsBusy, Busy
      <3>2. Free' <=> Free
        BY <2>1 DEF Free
      <3> QED BY <1>0, <2>1, <2>3, <3>1, <3>2, ClosingTheMailbox DEF ClaimInv, life
    <2> QED BY <2>1, <2>2, <2>3
  <1>5. CASE FclkRemove
    <2>1. /\ at' = "idle" /\ CloseMailbox /\ Free'
          /\ claimed' = FALSE /\ uncertain' = FALSE /\ armClaimed' = FALSE /\ armUncertain' = FALSE
      BY <1>5 DEF FclkRemove, Free
    <2> QED BY <1>0, <2>1, ClosingTheMailbox DEF ClaimInv, life
  <1> QED BY <1>1, <1>2, <1>3, <1>4, <1>5 DEF FclkNext

-------------------------------------------------------------------------------
(* Power, and the attempts of the timer.                                     *)

powervars == <<power, up, timer, attempts>>

\* Handlers of V3D.
LEMMA PowerOfV3d ==
  ASSUME FclkInv, NEW got \in Status,
         \/ Claim(got) \/ Snap(got) \/ Unclaim(got)
         \/ SetSnapshot(got) \/ SetRequest(got) \/ SetVerify(got)
         \/ ReleaseSnapshot(got)
         \/ RestoreRate(got) \/ RestoreState(got) \/ RestoreCheck(got) \/ RestoreRelease(got)
  PROVE  PowerInv' /\ UNCHANGED <<powervars, armClaimed, armUncertain, armReady, armBase, armChanged>>
  <1>0. JobInv /\ PowerInv
    BY DEF FclkInv
  <1>1. UNCHANGED <<powervars, armClaimed, armUncertain, armReady, armBase, armChanged>>
    BY DEF Claim, Snap, Unclaim, SetSnapshot, SetRequest, SetVerify, ReleaseSnapshot,
           RestoreRate, RestoreState, RestoreCheck, RestoreStep, RestoreRelease, pnp, armvars, powervars
  <1>2. /\ at \in {"claim", "snap", "unclaim", "setq", "set", "verify", "relq"} \union Restoring
        /\ job' = job \/ job' = Idle
    BY DEF Claim, Snap, Unclaim, SetSnapshot, SetRequest, SetVerify, ReleaseSnapshot,
           RestoreRate, RestoreState, RestoreCheck, RestoreStep, RestoreRelease, RestoreFails,
           Goto, Finish, Restoring
  <1>3. job.kind \in {"acquire", "set", "release", "cleanup"} /\ at # "idle"
    BY <1>0, <1>2 DEF JobInv, Restoring
  <1>4. job'.kind \notin {"arm", "stop"}
    BY <1>2, <1>3 DEF Idle
  <1> QED BY <1>0, <1>1, <1>3, <1>4 DEF PowerInv, powervars

\* Handlers of the ARM clock: they go on, or the attempt or the stop is over.
LEMMA PowerOfArm ==
  ASSUME FclkInv, NEW got \in Status,
         \/ ArmQuery(got) \/ ArmClaim(got) \/ ArmReadBaseline(got) \/ ArmSet(got)
         \/ ArmCheck(got) \/ ArmRestoreRate(got) \/ ArmRelease(got)
  PROVE  PowerInv'
  <1>0. /\ JobInv /\ PowerInv /\ UNCHANGED <<users, claimed, uncertain>>
        /\ attempts \in Nat /\ Attempts \in Nat
    BY FclkAssumption
    DEF ArmQuery, ArmClaim, ArmReadBaseline, ArmSet, ArmCheck, ArmRestoreRate, ArmRelease,
        ArmFrame, lease, v3dvars, FclkInv, Types
  <1>1. at \in ArmRaises \union ArmReturns /\ job.kind \in {"arm", "stop"}
        /\ (at \in ArmRaises => job.kind = "arm")
    <2>1. at \in ArmRaises \union ArmReturns
      BY DEF ArmQuery, ArmClaim, ArmReadBaseline, ArmSet, ArmCheck, ArmRestoreRate, ArmRelease,
             ArmRaises, ArmReturns
    <2> QED BY <1>0, <2>1 DEF JobInv
  <1>2. \/ /\ job' = job /\ UNCHANGED <<powervars, armUncertain>>
        \/ /\ ArmDone(armReady', armUncertain', FALSE)
        \/ /\ ArmDone(armReady', armUncertain', TRUE) /\ job.kind = "arm"
        \/ /\ ArmDone(armReady', armUncertain', TRUE)
           /\ armClaimed' = FALSE /\ armUncertain' = armUncertain
    <2>1. CASE ArmQuery(got) \/ ArmReadBaseline(got) \/ ArmSet(got)
      BY <2>1 DEF ArmQuery, ArmReadBaseline, ArmSet, ArmBackOut, NoArmDone, Goto, powervars, pnp
    <2>2. CASE ArmClaim(got) \/ ArmRestoreRate(got)
      <3>1. CASE ArmGiveUp
        BY <3>1 DEF ArmGiveUp, ArmDone
      <3>2. CASE ~ArmGiveUp
        BY <2>2, <3>2 DEF ArmClaim, ArmRestoreRate, NoArmDone, ArmDone, Goto, powervars, pnp
      <3> QED BY <3>1, <3>2
    <2>3. CASE ArmCheck(got)
      <3>1. job.kind = "arm"
        BY <1>1, <2>3 DEF ArmCheck, ArmRaises
      <3> QED BY <2>3, <3>1 DEF ArmCheck, ArmBackOut, NoArmDone, ArmDone, Goto, powervars, pnp
    <2>4. CASE ArmRelease(got)
      <3>1. CASE ArmGiveUp
        BY <3>1 DEF ArmGiveUp, ArmDone
      <3>2. CASE ~ArmGiveUp
        BY <2>4, <3>2 DEF ArmRelease, ArmDone
      <3> QED BY <3>1, <3>2
    <2> QED BY <2>1, <2>2, <2>3, <2>4
  <1>3. at # "idle" /\ power \notin {"off", "released"}
    BY <1>0, <1>1 DEF ArmRaises, ArmReturns, PowerInv
  <1>4. CASE job' = job /\ UNCHANGED <<powervars, armUncertain>>
    BY <1>0, <1>3, <1>4 DEF PowerInv, powervars, IsBusy, Busy
  <1>5. CASE job' # job \/ ~UNCHANGED <<powervars, armUncertain>>
    <2>1. CASE job.kind = "arm"
      <3>1. /\ job' = Idle /\ attempts' = attempts + 1 /\ UNCHANGED <<power, up>>
            /\ timer' => attempts + 1 < Attempts
        BY <1>2, <1>5, <2>1 DEF ArmDone, Finish, pnp
      <3>2. job'.kind = "none"
        BY <3>1 DEF Idle
      <3>3. power \in {"d0", "failed", "dead"} /\ attempts <= Attempts /\ (power = "d0" => attempts < Attempts)
        BY <1>0, <2>1 DEF PowerInv
      <3> QED BY <1>0, <3>1, <3>2, <3>3 DEF PowerInv
    <2>2. CASE job.kind = "stop"
      <3>1. /\ job' = Idle /\ at' = "idle" /\ attempts' = attempts
            /\ \/ power' = "failed"
               \/ /\ power' = "off" /\ timer' = FALSE
                  /\ armClaimed' = FALSE /\ armUncertain' = armUncertain
        BY <1>2, <1>5, <2>2 DEF ArmDone, Finish
      <3>2. job'.kind = "none"
        BY <3>1 DEF Idle
      <3>3. power = "stopping" /\ ~IsBusy /\ attempts <= Attempts
        BY <1>0, <2>2 DEF PowerInv
      <3>4. power' = "off" => ~IsBusy'
        BY <1>0, <3>1, <3>3 DEF IsBusy, Busy
      <3> QED BY <1>0, <3>1, <3>2, <3>3, <3>4 DEF PowerInv
    <2> QED BY <1>1, <2>1, <2>2
  <1> QED BY <1>2, <1>4, <1>5

\* What a client's call may begin.
LEMMA KindOfCall ==
  ASSUME Call
  PROVE  job'.kind \in {job.kind, "acquire", "release", "set", "cleanup"}
  <1> PICK f \in Clients :
        \/ \E i \in ReadIds : AcquireRead(f, i) \/ ReleaseRead(f, i)
        \/ AcquireV3d(f) \/ ReleaseV3d(f) \/ Cleanup(f)
        \/ \E r \in Rates : SetClock(f, "rate", r)
        \/ \E s \in {0, 1} : SetClock(f, "state", s)
    BY DEF Call
  <1>1. CASE \E i \in ReadIds : AcquireRead(f, i) \/ ReleaseRead(f, i)
    BY <1>1 DEF AcquireRead, ReleaseRead
  <1>2. CASE AcquireV3d(f) \/ ReleaseV3d(f) \/ Cleanup(f)
    <2>1. \/ job' = job
          \/ \E kd \in {"acquire", "release", "cleanup"} : job' = [kind |-> kd, f |-> f]
      BY <1>2 DEF AcquireV3d, ReleaseV3d, Cleanup
    <2> QED BY <2>1
  <1>3. ASSUME NEW part, NEW x, SetClock(f, part, x)
        PROVE  job'.kind = "set"
    BY <1>3 DEF SetClock
  <1> QED BY <1>1, <1>2, <1>3

\* A client calls only while the device is powered, but for its cleanup; and who has
\* something to clean up counts as a user.
LEMMA PowerOfCalls == ASSUME FclkInv, Call PROVE PowerInv'
  <1>0. Types /\ LeaseInv /\ JobInv /\ PowerInv
    BY DEF FclkInv
  <1> PICK f \in Clients :
        \/ \E i \in ReadIds : AcquireRead(f, i) \/ ReleaseRead(f, i)
        \/ AcquireV3d(f) \/ ReleaseV3d(f) \/ Cleanup(f)
        \/ \E r \in Rates : SetClock(f, "rate", r)
        \/ \E s \in {0, 1} : SetClock(f, "state", s)
    BY DEF Call
  <1>1. power = "d0" \/ held[f] # {}
    BY DEF AcquireRead, ReleaseRead, AcquireV3d, ReleaseV3d, Cleanup, SetClock, Serving
  <1>2. power \notin {"off", "released"}
    <2>1. CASE power = "d0"
      BY <2>1
    <2>2. CASE held[f] # {}
      <3>1. ~(\A i \in Ids : users[i] = 0)
        <4>1. PICK i \in Ids : i \in held[f]
          BY <1>0, <2>2 DEF Types
        <4> QED BY <1>0, <4>1, NoUserNoHolder
      <3>2. IsBusy
        BY <3>1 DEF IsBusy, Busy
      <3> QED BY <1>0, <3>2 DEF PowerInv
    <2> QED BY <1>1, <2>1, <2>2
  <1>3. UNCHANGED powervars
    BY DEF AcquireRead, ReleaseRead, AcquireV3d, ReleaseV3d, Cleanup, SetClock, powervars, pnp, armvars
  <1>4. job.kind = "none"
    <2>1. at = "idle"
      BY DEF AcquireRead, ReleaseRead, AcquireV3d, ReleaseV3d, Cleanup, SetClock
    <2> QED BY <1>0, <2>1 DEF JobInv, Idle
  <1>5. job'.kind \in {job.kind, "acquire", "release", "set", "cleanup"}
    BY KindOfCall
  <1>6. power' = power /\ attempts' = attempts /\ (timer' => timer) /\ (~up => ~up')
    BY <1>3 DEF powervars
  <1>7. job'.kind # "arm" /\ job'.kind # "stop"
    BY <1>4, <1>5
  <1>8. power # "off" /\ power # "released"
    BY <1>2
  <1> QED BY <1>0, <1>6, <1>7, <1>8 DEF PowerInv

\* The timer, PnP and the rest of the system.
LEMMA PowerAtRest ==
  ASSUME FclkInv,
         \/ ArmFire \/ FclkStart \/ FclkStopBegin \/ FclkStopEnd
         \/ FclkReleaseHardware \/ FclkRemove
         \/ Elsewhere
         \/ UNCHANGED allvars
  PROVE  PowerInv'
  <1>0. JobInv /\ PowerInv /\ attempts \in Nat /\ Attempts \in Nat /\ Attempts # 0
    BY FclkAssumption DEF FclkInv, Types
  <1>1. CASE ArmFire
    <2>1. /\ at = "idle" /\ timer = TRUE /\ timer' = FALSE
          /\ UNCHANGED <<users, claimed, uncertain, armUncertain, armClaimed, power, up, attempts>>
          /\ (up /\ job' = [kind |-> "arm", f |-> NoFile]) \/ (at' = at /\ job' = job)
      BY <1>0, <1>1 DEF ArmFire, pnp, lease, v3dvars, FclkInv, Types
    <2>2. power \notin {"off", "released"} /\ (power = "stopping" => ~up) /\ power \in
            {"off", "d0", "stopping", "failed", "released", "dead"}
      BY <1>0, <2>1 DEF PowerInv, FclkInv, Types
    <2>3. job.kind = "none"
      BY <1>0, <2>1 DEF JobInv, Idle
    <2>4. up => power \in {"d0", "failed", "dead"}
      BY <2>2
    <2>5. job'.kind = "none" \/ (job'.kind = "arm" /\ power \in {"d0", "failed", "dead"})
      BY <2>1, <2>3, <2>4
    <2> QED BY <1>0, <2>1, <2>2, <2>5 DEF PowerInv
  <1>2. CASE FclkStart
    <2>1. job.kind = "none"
      BY <1>0, <1>2 DEF FclkStart, JobInv, Idle
    <2> QED BY <1>0, <1>2, <2>1 DEF FclkStart, PowerInv
  <1>3. CASE FclkStopBegin
    <2>1. job.kind = "none"
      BY <1>0, <1>3 DEF FclkStopBegin, JobInv, Idle
    <2>2. power = "d0" /\ power' = "stopping" /\ up' = FALSE /\ UNCHANGED <<job, timer, attempts>>
      BY <1>3 DEF FclkStopBegin, armvars
    <2> QED BY <1>0, <2>1, <2>2 DEF PowerInv
  <1>4. CASE FclkStopEnd
    <2>1. /\ job.kind = "none" /\ at = "idle" /\ power = "stopping"
          /\ UNCHANGED <<attempts, users, claimed, uncertain, armUncertain, armClaimed>>
      BY <1>0, <1>4 DEF FclkStopEnd, JobInv, Idle, lease, v3dvars
    <2>2. CASE IsBusy
      <3>1. power' = "failed" /\ job' = job
        BY <1>4, <2>2 DEF FclkStopEnd
      <3> QED BY <1>0, <2>1, <3>1 DEF PowerInv
    <2>3. CASE ~IsBusy
      <3>1. ~IsBusy'
        BY <2>1, <2>3 DEF IsBusy, Busy
      <3>2. CASE ~armClaimed
        <4>1. power' = "off" /\ timer' = FALSE /\ at' = at /\ job' = job
          BY <1>4, <2>3, <3>2 DEF FclkStopEnd
        <4> QED BY <1>0, <2>1, <3>1, <3>2, <4>1 DEF PowerInv
      <3>3. CASE armClaimed
        <4>1. /\ power' = power /\ up' = up /\ timer' = FALSE
              /\ job' = [kind |-> "stop", f |-> NoFile]
          BY <1>4, <2>3, <3>3 DEF FclkStopEnd, pnp
        <4>2. job'.kind = "stop"
          BY <4>1
        <4> QED BY <1>0, <2>1, <3>1, <4>1, <4>2 DEF PowerInv
      <3> QED BY <3>2, <3>3
    <2> QED BY <2>2, <2>3
  <1>5. CASE FclkReleaseHardware
    <2>1. /\ job.kind = "none" /\ at = "idle" /\ at' = at /\ job' = job
          /\ UNCHANGED <<attempts, timer, users, claimed, uncertain, armUncertain, armClaimed>>
          /\ (power = "off" /\ power' = "released") \/ (power = "failed" /\ power' = "dead")
      BY <1>0, <1>5 DEF FclkReleaseHardware, JobInv, Idle, lease, v3dvars, armvars
    <2>2. IsBusy' <=> IsBusy
      BY <2>1 DEF IsBusy, Busy
    <2> QED BY <1>0, <2>1, <2>2 DEF PowerInv
  <1>6. CASE FclkRemove
    <2>1. /\ job.kind = "none" /\ at = "idle" /\ at' = at /\ job' = job
          /\ power' = "off" /\ users' = [i \in Ids |-> 0] /\ claimed' = FALSE /\ uncertain' = FALSE
          /\ armClaimed' = FALSE /\ armUncertain' = FALSE /\ attempts' = 0 /\ timer' = FALSE
      BY <1>0, <1>6 DEF FclkRemove, JobInv, Idle
    <2>2. ~IsBusy'
      BY <2>1 DEF IsBusy, Busy
    <2> QED BY <1>0, <2>1, <2>2 DEF PowerInv
  <1>7. CASE Elsewhere \/ UNCHANGED allvars
    <2>1. UNCHANGED <<powervars, users, claimed, uncertain, armUncertain, armClaimed, at, job>>
      BY <1>7 DEF Elsewhere, allvars, fvars, powervars, pnp, lease, v3dvars, armvars
    <2>2. IsBusy' <=> IsBusy
      BY <2>1 DEF IsBusy, Busy
    <2> QED BY <1>0, <2>1, <2>2 DEF PowerInv, powervars
  <1> QED BY <1>1, <1>2, <1>3, <1>4, <1>5, <1>6, <1>7

LEMMA PowerStep == FclkInv /\ [FclkNext]_allvars => PowerInv'
  <1> SUFFICES ASSUME FclkInv, [FclkNext]_allvars PROVE PowerInv'
    OBVIOUS
  <1>1. CASE HandlerStep
    BY <1>1, PowerOfV3d, PowerOfArm DEF HandlerStep, Step
  <1> QED BY <1>1, PowerOfCalls, PowerAtRest DEF FclkNext

-------------------------------------------------------------------------------
(* Types.                                                                    *)

\* Handlers of V3D.
LEMMA TypesOfV3d ==
  ASSUME FclkInv, NEW got \in Status,
         \/ Claim(got) \/ Snap(got) \/ Unclaim(got)
         \/ SetSnapshot(got) \/ SetRequest(got) \/ SetVerify(got)
         \/ ReleaseSnapshot(got)
         \/ RestoreRate(got) \/ RestoreState(got) \/ RestoreCheck(got) \/ RestoreRelease(got),
         users' \in [Ids -> Nat], held' \in [Clients -> SUBSET Ids]
  PROVE  Types'
  <1>0. Types /\ fw[V3D] \in Setting
    BY FclkAssumption DEF FclkInv, MailInv, IInv, TypeOK
  <1>1. UNCHANGED <<power, up, armClaimed, armChanged, armReady, armUncertain, armBase, timer, attempts>>
    BY DEF Claim, Snap, Unclaim, SetSnapshot, SetRequest, SetVerify, ReleaseSnapshot,
           RestoreRate, RestoreState, RestoreCheck, RestoreStep, RestoreRelease, pnp, armvars
  <1>2. /\ claimed' \in BOOLEAN /\ changed' \in BOOLEAN
        /\ uncertain' \in BOOLEAN /\ fpinned' \in BOOLEAN
    BY <1>0
    DEF Claim, Snap, Unclaim, SetSnapshot, SetRequest, SetVerify, ReleaseSnapshot, RestoreFails, Fault,
        RestoreRate, RestoreState, RestoreCheck, RestoreStep, RestoreRelease, v3dvars, Types, UnpinIf
  <1>3. fbase' \in {fbase, fw[V3D], NoSetting}
    BY DEF Claim, Snap, Unclaim, SetSnapshot, SetRequest, SetVerify, ReleaseSnapshot, RestoreFails,
           RestoreRate, RestoreState, RestoreCheck, RestoreStep, RestoreRelease, v3dvars
  <1>4. at' \in Labels /\ job'.kind \in Kinds
    <2>1. /\ \/ at' \in {"idle", "snap", "unclaim", "set", "verify", "restState", "restCheck"}
             \/ at' \in {"restRate", "restRelease"}
          /\ job' \in {job, Idle}
      BY DEF Claim, Snap, Unclaim, SetSnapshot, SetRequest, SetVerify, ReleaseSnapshot, RestoreFails,
             RestoreRate, RestoreState, RestoreCheck, RestoreStep, RestoreRelease, RestoreFrom,
             Goto, Finish
    <2>2. at' \in Labels
      BY <2>1 DEF Labels
    <2> QED BY <1>0, <2>1, <2>2 DEF Types, Kinds, Idle
  <1> QED BY <1>0, <1>1, <1>2, <1>3, <1>4 DEF Types

\* Handlers of the ARM clock.
LEMMA TypesOfArm ==
  ASSUME FclkInv, NEW got \in Status,
         \/ ArmQuery(got) \/ ArmClaim(got) \/ ArmReadBaseline(got) \/ ArmSet(got)
         \/ ArmCheck(got) \/ ArmRestoreRate(got) \/ ArmRelease(got),
         users' \in [Ids -> Nat], held' \in [Clients -> SUBSET Ids]
  PROVE  Types'
  <1>0. Types /\ fw[ARM].rate \in Rates
    BY FclkAssumption DEF FclkInv, MailInv, IInv, TypeOK, Setting
  <1>1. UNCHANGED <<claimed, changed, uncertain, fbase>>
    BY DEF ArmQuery, ArmClaim, ArmReadBaseline, ArmSet, ArmCheck, ArmRestoreRate, ArmRelease,
           ArmFrame, v3dvars
  <1>2. /\ fpinned' \in BOOLEAN /\ armClaimed' \in BOOLEAN /\ armReady' \in BOOLEAN
        /\ armUncertain' \in BOOLEAN /\ armChanged' \in BOOLEAN
    BY <1>0
    DEF ArmQuery, ArmClaim, ArmReadBaseline, ArmSet, ArmCheck, ArmRestoreRate, ArmRelease,
        ArmBackOut, ArmGiveUp, Types
  <1>3. armBase' \in Rates \union {0}
    BY <1>0
    DEF ArmQuery, ArmClaim, ArmReadBaseline, ArmSet, ArmCheck, ArmRestoreRate, ArmRelease, Types
  <1>4. /\ \/ NoArmDone /\ job' = job /\ at' \in ArmRaises \union ArmReturns
           \/ \E r, u, ok : ArmDone(r, u, ok)
    BY DEF ArmQuery, ArmClaim, ArmReadBaseline, ArmSet, ArmCheck, ArmRestoreRate, ArmRelease,
           ArmBackOut, ArmGiveUp, Goto, ArmRaises, ArmReturns
  <1>5. /\ power' \in {power, "off", "failed"} /\ up' \in BOOLEAN /\ timer' \in BOOLEAN
        /\ attempts' \in Nat /\ at' \in Labels /\ job'.kind \in Kinds
    <2>1. CASE NoArmDone /\ job' = job /\ at' \in ArmRaises \union ArmReturns
      BY <1>0, <2>1 DEF NoArmDone, pnp, Types, ArmRaises, ArmReturns, Labels
    <2>2. ASSUME NEW r, NEW u, NEW ok, ArmDone(r, u, ok)
          PROVE  /\ power' \in {power, "off", "failed"} /\ up' \in BOOLEAN /\ timer' \in BOOLEAN
                 /\ attempts' \in Nat /\ at' \in Labels /\ job'.kind \in Kinds
      <3>1. at' \in Labels /\ job'.kind \in Kinds
        BY <2>2 DEF ArmDone, Finish, Idle, Labels, Kinds
      <3>2. timer' \in BOOLEAN /\ up' \in BOOLEAN
        BY <1>0, <2>2 DEF ArmDone, Types, pnp
      <3>3. power' \in {power, "off", "failed"} /\ attempts' \in Nat
        BY <1>0, <2>2 DEF ArmDone, Types, pnp
      <3> QED BY <3>1, <3>2, <3>3
    <2> QED BY <1>4, <2>1, <2>2
  <1> QED BY <1>0, <1>1, <1>2, <1>3, <1>5 DEF Types

\* Clients, the timer, PnP and the rest of the system.
LEMMA TypesAtRest ==
  ASSUME FclkInv,
         \/ Call \/ ArmFire \/ FclkStart \/ FclkStopBegin \/ FclkStopEnd
         \/ FclkReleaseHardware \/ FclkRemove
         \/ Elsewhere
         \/ UNCHANGED allvars,
         users' \in [Ids -> Nat], held' \in [Clients -> SUBSET Ids]
  PROVE  Types'
  <1>0. Types
    BY DEF FclkInv
  <1>1. CASE Call
    <2> PICK f \in Clients :
          \/ \E i \in ReadIds : AcquireRead(f, i) \/ ReleaseRead(f, i)
          \/ AcquireV3d(f) \/ ReleaseV3d(f) \/ Cleanup(f)
          \/ \E r \in Rates : SetClock(f, "rate", r)
          \/ \E s \in {0, 1} : SetClock(f, "state", s)
      BY <1>1 DEF Call
    <2>1. UNCHANGED <<power, up, claimed, changed, fbase, armClaimed, armChanged, armReady,
                      armUncertain, armBase, timer, attempts>>
      BY DEF AcquireRead, ReleaseRead, AcquireV3d, ReleaseV3d, Cleanup, SetClock, pnp, v3dvars, armvars
    <2>2. uncertain' \in BOOLEAN /\ fpinned' \in BOOLEAN
      BY <1>0
      DEF AcquireRead, ReleaseRead, AcquireV3d, ReleaseV3d, Cleanup, SetClock, v3dvars, Types, Fault,
          UnpinIf
    <2>3. at' \in Labels
      BY <1>0
      DEF AcquireRead, ReleaseRead, AcquireV3d, ReleaseV3d, Cleanup, SetClock, Labels, Types
    <2>4. job'.kind \in Kinds
      BY <1>0, <1>1, KindOfCall DEF Kinds, Types
    <2> QED BY <1>0, <2>1, <2>2, <2>3, <2>4 DEF Types
  <1>2. CASE ArmFire
    <2>1. UNCHANGED <<power, up, claimed, changed, uncertain, fpinned, fbase, armClaimed, armChanged,
                      armReady, armUncertain, armBase, attempts>> /\ timer' \in BOOLEAN
      BY <1>2 DEF ArmFire, pnp, v3dvars
    <2>2. at' \in Labels /\ job'.kind \in Kinds
      BY <1>0, <1>2 DEF ArmFire, Types, Labels, Kinds
    <2> QED BY <1>0, <2>1, <2>2 DEF Types
  <1>3. CASE FclkStart \/ FclkStopBegin
    <2>1. /\ UNCHANGED <<claimed, changed, uncertain, fpinned, fbase, armClaimed, armChanged, armReady,
                         armUncertain, armBase, at, job>>
          /\ power' \in {"d0", "stopping"} /\ up' \in BOOLEAN /\ timer' \in BOOLEAN
          /\ attempts' \in {attempts, 0}
      BY <1>0, <1>3 DEF FclkStart, FclkStopBegin, v3dvars, armvars, Types
    <2> QED BY <1>0, <2>1 DEF Types
  <1>4. CASE FclkStopEnd
    <2>1. UNCHANGED <<claimed, changed, uncertain, fpinned, fbase, armClaimed, armChanged, armReady,
                      armUncertain, armBase, attempts>>
      BY <1>4 DEF FclkStopEnd, v3dvars
    <2>2. power' \in {power, "failed", "off"} /\ up' \in BOOLEAN /\ timer' \in BOOLEAN
      BY <1>0, <1>4 DEF FclkStopEnd, pnp, Types
    <2>3. at' \in Labels /\ job'.kind \in Kinds
      BY <1>0, <1>4 DEF FclkStopEnd, Types, Labels, Kinds
    <2> QED BY <1>0, <2>1, <2>2, <2>3 DEF Types
  <1>5. CASE FclkReleaseHardware
    <2>1. /\ UNCHANGED <<claimed, changed, uncertain, fpinned, fbase, armClaimed, armChanged, armReady,
                         armUncertain, armBase, attempts, up, timer, at, job>>
          /\ power' \in {"released", "dead"}
      BY <1>5 DEF FclkReleaseHardware, v3dvars, armvars
    <2> QED BY <1>0, <2>1 DEF Types
  <1>6. CASE FclkRemove
    BY <1>0, <1>6 DEF FclkRemove, Types
  <1>7. CASE Elsewhere \/ UNCHANGED allvars
    BY <1>0, <1>7 DEF Elsewhere, allvars, fvars, pnp, lease, v3dvars, armvars, Types
  <1> QED BY <1>1, <1>2, <1>3, <1>4, <1>5, <1>6, <1>7

\* The invariant.
LEMMA FclkInitial == FclkInit => FclkInv
  <1> SUFFICES ASSUME FclkInit PROVE FclkInv
    OBVIOUS
  <1>0. V3D \in Clocks /\ ARM \in Clocks /\ NoFile # Fclk /\ Attempts \in Nat /\ V3D \in Ids
    BY FclkAssumption, MailboxAssumption DEF Ids
  <1>1. MailInv
    BY InitInvariant DEF FclkInit, MailInv, Init
  <1>2. Types
    BY DEF FclkInit, Types, Labels, Kinds, Idle
  <1>3. Free /\ \A i \in Ids : Holders(i) = {}
    BY DEF FclkInit, Free, Holders
  <1>4. LeaseInv
    <2>1. \A i \in Ids : users[i] = Cardinality(Holders(i))
      BY <1>3, FS_EmptySet DEF FclkInit
    <2> QED BY <1>3, <2>1 DEF LeaseInv, Free
  <1>5. JobInv
    BY <1>3 DEF FclkInit, JobInv, Idle, Restoring, ArmRaises, ArmReturns
  <1>6. ClaimInv
    BY <1>0, <1>3 DEF FclkInit, Init, ClaimInv
  <1>7. PowerInv
    <2>1. ~IsBusy
      BY DEF FclkInit, IsBusy, Busy
    <2>2. job.kind = "none"
      BY DEF FclkInit, Idle
    <2> QED BY <1>0, <2>1, <2>2 DEF FclkInit, PowerInv
  <1> QED BY <1>1, <1>2, <1>4, <1>5, <1>6, <1>7 DEF FclkInv

LEMMA FclkStep == FclkInv /\ [FclkNext]_allvars => FclkInv'
  <1> SUFFICES ASSUME FclkInv, [FclkNext]_allvars PROVE FclkInv'
    OBVIOUS
  <1>1. MailInv'
    BY MailStep, MailboxSteps DEF FclkInv
  <1>2. LeaseInv' /\ users' \in [Ids -> Nat] /\ held' \in [Clients -> SUBSET Ids]
    BY LeasesMove, LeaseKept DEF FclkInv
  <1>3. Types'
    <2>1. CASE HandlerStep
      BY <1>2, <2>1, TypesOfV3d, TypesOfArm DEF HandlerStep, Step
    <2> QED BY <1>2, <2>1, TypesAtRest DEF FclkNext
  <1> QED BY <1>1, <1>2, <1>3, JobStep, ClaimStep, PowerStep DEF FclkInv


\* The invariant holds of every behaviour, and every step is one of the mailbox or leaves
\* it alone: composed with its controller, the mailbox is still the one of module Mailbox.
THEOREM FclkInvariance == FclkSpec => []FclkInv
  BY FclkInitial, FclkStep, PTL DEF FclkSpec

THEOREM MailboxStillHolds == FclkSpec => Spec
  BY FclkInvariance, MailboxSteps, PTL DEF FclkSpec, Spec, FclkInit

\* What the mailbox owes the rest of the system it owes with FCLK as its controller too.
THEOREM ProviderKeepsItsWordToFclk == FclkSpec => ProviderKeepsItsWord
  BY MailboxStillHolds, ProviderKeepsItsWordHolds

-------------------------------------------------------------------------------
(* Agreement, and an orderly stop.                                           *)

\* The counters never exceed the number of files (Acquire, Release, FclkCleanup).
LEMMA FclkTyped == FclkInv => FclkTypeOK
  <1> SUFFICES ASSUME FclkInv PROVE FclkTypeOK
    OBVIOUS
  <1>1. users \in [Ids -> 0..Cardinality(Clients)]
    <2>1. ASSUME NEW i \in Ids PROVE users[i] \in 0..Cardinality(Clients)
      <3>1. users[i] = Cardinality(Holders(i)) /\ Holders(i) \subseteq Clients
        BY DEF FclkInv, LeaseInv, Holders
      <3>2. Cardinality(Holders(i)) <= Cardinality(Clients)
        BY <3>1, FclkAssumption, FS_Subset
      <3>3. Cardinality(Holders(i)) \in Nat /\ Cardinality(Clients) \in Nat
        BY HoldersAreFinite, FclkAssumption, FS_CardinalityType
      <3> QED BY <3>1, <3>2, <3>3
    <2> QED BY <2>1 DEF FclkInv, Types
  <1>2. attempts \in 0..(Attempts + 1)
    BY FclkAssumption DEF FclkInv, Types, PowerInv
  <1>3. /\ {claimed, changed, uncertain, fpinned} \subseteq BOOLEAN
        /\ {armClaimed, armChanged, armReady, armUncertain} \subseteq BOOLEAN
    BY DEF FclkInv, Types
  <1>4. TypeOK /\ job.f \in Clients \union {NoFile}
    BY DEF FclkInv, MailInv, IInv, JobInv
  <1> QED BY <1>1, <1>2, <1>3, <1>4 DEF FclkTypeOK, FclkInv, Types

\* One client at a time, and its lease is backed by the one of the mailbox.
LEMMA V3dIsExclusive == FclkInv => ExclusiveV3d
  <1> SUFFICES ASSUME FclkInv PROVE ExclusiveV3d
    OBVIOUS
  <1>1. online /\ ~uncertain /\ (\E f \in Clients : V3D \in held[f]) => holder[V3D] = Fclk
    BY DEF FclkInv, ClaimInv, Free
  <1>2. Cardinality({f \in Clients : V3D \in held[f]}) <= 1
    <2>1. CASE Free
      <3>1. {f \in Clients : V3D \in held[f]} = {}
        BY <2>1 DEF Free
      <3> QED BY <3>1, FS_EmptySet
    <2>2. CASE ~Free
      <3>1. PICK f \in Clients : V3D \in held[f]
        BY <2>2 DEF Free
      <3>2. {g \in Clients : V3D \in held[g]} = {f}
        BY <3>1 DEF FclkInv, LeaseInv
      <3>3. Cardinality({f}) = 1
        BY FS_Singleton
      <3> QED BY <3>2, <3>3
    <2> QED BY <2>1, <2>2
  <1> QED BY <1>1, <1>2 DEF ExclusiveV3d

\* FCLK and the provider agree on who holds each clock, whatever answers get lost.
THEOREM AgreementHolds == FclkSpec => []Agreement
  <1>1. FclkInv => Agreement
    <2> SUFFICES ASSUME FclkInv PROVE Agreement
      OBVIOUS
    <2>1. ClaimInv /\ Types
      BY DEF FclkInv
    <2>2. online => /\ ~uncertain    => (holder[V3D] = Fclk <=> claimed)
                    /\ ~armUncertain => (holder[ARM] = Fclk <=> armClaimed)
      BY <2>1 DEF ClaimInv
    <2> QED BY <2>2, V3dIsExclusive, FclkTyped DEF Agreement
  <1> QED BY <1>1, FclkInvariance, PTL

\* A device that left D0 in order holds no clock.
THEOREM OrderlyStopIsCleanHolds == FclkSpec => []OrderlyStopIsClean
  <1>1. FclkInv => OrderlyStopIsClean
    <2> SUFFICES ASSUME FclkInv, power \in {"off", "released"}, NEW k \in Clocks
                 PROVE  holder[k] # Fclk
      BY DEF OrderlyStopIsClean
    <2>1. ~uncertain /\ ~claimed /\ ~armUncertain /\ ~armClaimed
      BY DEF FclkInv, PowerInv, IsBusy, Busy
    <2>2. k = V3D \/ k = ARM
      BY FclkAssumption
    <2> QED BY <2>1, <2>2 DEF FclkInv, ClaimInv
  <1> QED BY <1>1, FclkInvariance, PTL

-------------------------------------------------------------------------------
(* After a doubt V3D is left alone.                                          *)

LEMMA AskingForArm ==
  ASSUME FclkInv, NEW got,
         \/ AskClaim(ARM, got) \/ AskRelease(ARM, got) \/ AskQuery(got)
         \/ \E v : AskSet(ARM, v, got)
  PROVE  holder'[V3D] = holder[V3D] /\ fw'[V3D] = fw[V3D]
  <1>0. /\ V3D \in Clocks /\ ARM \in Clocks /\ V3D # ARM
        /\ DOMAIN fw = Clocks
    BY FclkAssumption DEF FclkInv, MailInv, IInv, TypeOK
  <1>1. CASE AskClaim(ARM, got)
    <2>1. fw' = fw
      BY <1>1 DEF AskClaim, ClockClaim, Refused, vars
    <2> QED BY <1>0, <1>1, <2>1, AskingToClaim
  <1>2. CASE AskRelease(ARM, got)
    <2>1. fw' = fw
      BY <1>2 DEF AskRelease, ClockRelease, Refused, vars
    <2> QED BY <1>0, <1>2, <2>1, AskingToRelease
  <1>3. CASE AskQuery(got)
    BY <1>3 DEF AskQuery, Query, vars, leases
  <1>4. CASE \E v : AskSet(ARM, v, got)
    <2>1. UNCHANGED leases
      BY <1>0, <1>4, AskingElse
    <2>2. fw' = fw \/ \E v : fw' = [fw EXCEPT ![ARM] = v]
      BY <1>4 DEF AskSet, ClockSet, Refused, vars
    <2> QED BY <1>0, <2>1, <2>2 DEF leases
  <1> QED BY <1>1, <1>2, <1>3, <1>4

LEMMA OthersLeaveIt ==
  ASSUME FclkInv, Elsewhere, online, holder[V3D] = Fclk, fw'[V3D] # fw[V3D]
  PROVE  drifts' # drifts
  <1>0. TypeOK /\ V3D \in Clocks /\ Fclk # NoFile /\ ~(phase = "none")
    BY FclkAssumption, MailboxAssumption DEF FclkInv, MailInv, IInv
  <1>1. CASE \E f \in Controllers \ {Fclk}, k \in Clocks, st \in Status : ClockRequest(f, k, st)
    <2> PICK f \in Controllers \ {Fclk}, k \in Clocks, st \in Status : ClockRequest(f, k, st)
      BY <1>1
    <2>1. fw' = fw \/ (holder[k] = f /\ \E v : fw' = [fw EXCEPT ![k] = v])
      BY DEF ClockRequest, ClockClaim, ClockRelease, ClockSet, Refused, vars
    <2>2. DOMAIN fw = Clocks
      BY <1>0 DEF TypeOK
    <2> QED BY <1>0, <2>1, <2>2
  <1>2. CASE FirmwareDrift
    <2>1. drifts \in Nat /\ drifts' = drifts + 1
      BY <1>0, <1>2, MailboxAssumption DEF TypeOK, FirmwareDrift
    <2> QED BY <2>1
  <1>3. CASE \/ \E st \in Status : Query(st)
             \/ \E f \in Controllers \ {Fclk} : ClockCleanup(f)
             \/ phase = "none" /\ ClockCleanup(Fclk)
             \/ PrepareFails \/ Prepare \/ ReleaseRefused \/ Release
    BY <1>3 DEF Query, ClockCleanup, PrepareFails, Prepare, ReleaseRefused, Release
  <1> QED BY <1>1, <1>2, <1>3 DEF Elsewhere

\* The step in which the mailbox goes moves no lease.
LEMMA LeavingKeepsLeases ==
  ASSUME FclkInv, Elsewhere, online, ~online'
  PROVE  holder' = holder
  <1>1. CASE ReleaseRefused \/ Release
    BY <1>1 DEF ReleaseRefused, Release, leases
  <1>2. CASE ~(ReleaseRefused \/ Release)
    <2>1. ASSUME NEW f \in Controllers, NEW k \in Clocks, NEW st \in Status, ClockRequest(f, k, st)
          PROVE  online' = online
      BY <2>1 DEF ClockRequest, ClockClaim, ClockRelease, ClockSet, Refused, vars, life
    <2>2. CASE \/ \E st \in Status : Query(st)
               \/ \E f \in Controllers \ {Fclk} : ClockCleanup(f)
               \/ phase = "none" /\ ClockCleanup(Fclk)
               \/ PrepareFails \/ Prepare \/ FirmwareDrift
      BY <2>2 DEF Query, ClockCleanup, PrepareFails, Prepare, FirmwareDrift, life, leases
    <2> QED BY <1>2, <2>1, <2>2 DEF Elsewhere
  <1> QED BY <1>1, <1>2

\* Once FCLK is uncertain, and while it and the mailbox are there, none of its steps
\* touches V3D: every handler of V3D looks at the latch or starts only without it.
THEOREM UncertainHandsOffHolds == FclkSpec => UncertainHandsOff
  <1>1. ASSUME FclkInv, [FclkNext]_allvars, online, uncertain, uncertain'
        PROVE  /\ holder'[V3D] = holder[V3D] \/ holder[V3D] # Fclk
               /\ holder[V3D] = Fclk /\ fw'[V3D] # fw[V3D] => drifts' # drifts
    <2>0. JobInv /\ V3D \in Clocks /\ NoFile # Fclk
      BY <1>1, FclkAssumption, MailboxAssumption DEF FclkInv
    <2>1. CASE Call
      <3> PICK f \in Clients :
            \/ \E i \in ReadIds : AcquireRead(f, i) \/ ReleaseRead(f, i)
            \/ AcquireV3d(f) \/ ReleaseV3d(f) \/ Cleanup(f)
            \/ \E r \in Rates : SetClock(f, "rate", r)
            \/ \E s \in {0, 1} : SetClock(f, "state", s)
        BY <2>1 DEF Call
      <3>1. AskQuery("ok") \/ UNCHANGED vars
        BY DEF AcquireRead, ReleaseRead, AcquireV3d, ReleaseV3d, Cleanup, SetClock
      <3> QED BY <1>1, <3>1, AskingForArm DEF vars, leases
    <2>2. CASE HandlerStep
      <3> PICK got \in Status : Step(got)
        BY <2>2 DEF HandlerStep
      <3>1. ~(at \in {"claim", "snap", "unclaim", "setq", "set", "verify"} \union Restoring)
        BY <1>1, <2>0 DEF JobInv
      <3>2. \/ ReleaseSnapshot(got)
            \/ ArmQuery(got) \/ ArmClaim(got) \/ ArmReadBaseline(got) \/ ArmSet(got)
            \/ ArmCheck(got) \/ ArmRestoreRate(got) \/ ArmRelease(got)
        BY <3>1 DEF Step, Claim, Snap, Unclaim, SetSnapshot, SetRequest, SetVerify, RestoreRate,
                    RestoreState, RestoreCheck, RestoreStep, RestoreRelease, Restoring
      <3>3. \/ AskClaim(ARM, got) \/ AskRelease(ARM, got) \/ AskQuery(got)
            \/ \E v : AskSet(ARM, v, got)
        BY <3>2 DEF ReleaseSnapshot, ArmQuery, ArmClaim, ArmReadBaseline, ArmSet, ArmCheck,
                    ArmRestoreRate, ArmRelease
      <3> QED BY <1>1, <3>3, AskingForArm
    <2>3. CASE ArmFire \/ FclkStart \/ FclkStopBegin \/ FclkStopEnd \/ UNCHANGED allvars
      BY <2>3 DEF ArmFire, FclkStart, FclkStopBegin, FclkStopEnd, allvars, vars, leases
    <2>4. CASE FclkReleaseHardware
      BY <1>1, <2>4 DEF FclkReleaseHardware, IsBusy, Busy, vars, leases
    <2>5. CASE FclkRemove
      BY <1>1, <2>5 DEF FclkRemove
    <2>6. CASE Elsewhere
      <3>1. online' => (holder[V3D] = Fclk => holder'[V3D] = Fclk)
        BY <1>1, <2>0, <2>6, OthersKeep
      <3>2. ~online' => holder' = holder
        BY <1>1, <2>6, LeavingKeepsLeases
      <3> QED BY <1>1, <2>6, <3>1, <3>2, OthersLeaveIt
    <2> QED BY <1>1, <2>1, <2>2, <2>3, <2>4, <2>5, <2>6 DEF FclkNext
  <1> QED BY <1>1, FclkInvariance, PTL DEF FclkSpec, UncertainHandsOff

-------------------------------------------------------------------------------
(* FCLK implements ClockLease: the refinement, step by step.                 *)

\* The user that the mapping names.
TheUser == IF \E f \in Clients : V3D \in held[f]
             THEN CHOOSE f \in Clients : V3D \in held[f] ELSE NoFile

UserIsFacts ==
  /\ Free => TheUser = NoFile
  /\ \A f \in Clients : V3D \in held[f] => TheUser = f /\ TheUser # NoFile

LEMMA UserIs == LeaseInv => UserIsFacts
  <1> SUFFICES ASSUME LeaseInv PROVE UserIsFacts
    OBVIOUS
  <1>1. Free => TheUser = NoFile
    BY DEF Free, TheUser
  <1>2. ASSUME NEW f \in Clients, V3D \in held[f] PROVE TheUser = f /\ TheUser # NoFile
    <2>1. TheUser \in Clients /\ V3D \in held[TheUser]
      BY <1>2 DEF TheUser
    <2> QED BY <1>2, <2>1, FclkAssumption DEF LeaseInv
  <1> QED BY <1>1, <1>2 DEF UserIsFacts

LEMMA SameUser ==
  ASSUME UserIsFacts, UserIsFacts', \A f \in Clients : V3D \in held'[f] <=> V3D \in held[f]
  PROVE  TheUser' = TheUser
  <1>1. CASE Free
    <2>1. Free'
      BY <1>1 DEF Free
    <2> QED BY <1>1, <2>1 DEF UserIsFacts
  <1>2. CASE ~Free
    <2>1. PICK f \in Clients : V3D \in held[f]
      BY <1>2 DEF Free
    <2> QED BY <2>1 DEF UserIsFacts
  <1> QED BY <1>1, <1>2

\* The abstract steps, in the variables of FCLK.
LEMMA AbstractSteps ==
  /\ \A u \in Clients :
       TheUser = NoFile /\ ~uncertain /\ TheUser' = u /\ changed' = FALSE /\ uncertain' = uncertain
         => Lease!Next
  /\ TheUser # NoFile /\ ~uncertain /\ changed' = TRUE /\ TheUser' = TheUser
       /\ uncertain' = uncertain => Lease!Next
  /\ TheUser # NoFile /\ ~uncertain /\ TheUser' = NoFile /\ changed' = FALSE
       /\ uncertain' = uncertain => Lease!Next
  /\ TheUser # NoFile /\ TheUser' = NoFile /\ uncertain' = TRUE /\ changed' = changed => Lease!Next
  /\ uncertain' = TRUE /\ TheUser' = TheUser /\ changed' = changed => Lease!Next
  /\ TheUser = NoFile /\ TheUser' = TheUser /\ changed' = FALSE /\ uncertain' = FALSE => Lease!Next
  /\ TheUser' = TheUser /\ changed' = changed /\ uncertain' = uncertain => UNCHANGED Lease!vars
  <1>1. ASSUME NEW u \in Clients, TheUser = NoFile, ~uncertain, TheUser' = u, changed' = FALSE,
               uncertain' = uncertain
        PROVE  Lease!Next
    <2>1. Lease!Grant(u)
      BY <1>1 DEF Lease!Grant, TheUser
    <2> QED BY <2>1 DEF Lease!Next
  <1>2. ASSUME TheUser # NoFile, ~uncertain, changed' = TRUE, TheUser' = TheUser,
               uncertain' = uncertain
        PROVE  Lease!Next
    <2>1. Lease!Change
      BY <1>2 DEF Lease!Change, TheUser
    <2> QED BY <2>1 DEF Lease!Next
  <1>3. ASSUME TheUser # NoFile, ~uncertain, TheUser' = NoFile, changed' = FALSE,
               uncertain' = uncertain
        PROVE  Lease!Next
    <2>1. Lease!Return
      BY <1>3 DEF Lease!Return, TheUser
    <2> QED BY <2>1 DEF Lease!Next
  <1>4. ASSUME TheUser # NoFile, TheUser' = NoFile, uncertain' = TRUE, changed' = changed
        PROVE  Lease!Next
    <2>1. Lease!Vanish
      BY <1>4 DEF Lease!Vanish, TheUser
    <2> QED BY <2>1 DEF Lease!Next
  <1>5. ASSUME uncertain' = TRUE, TheUser' = TheUser, changed' = changed
        PROVE  Lease!Next
    <2>1. Lease!Doubt
      BY <1>5 DEF Lease!Doubt, TheUser
    <2> QED BY <2>1 DEF Lease!Next
  <1>6. ASSUME TheUser = NoFile, TheUser' = TheUser, changed' = FALSE, uncertain' = FALSE
        PROVE  Lease!Next
    <2>1. Lease!Replace
      BY <1>6 DEF Lease!Replace, TheUser
    <2> QED BY <2>1 DEF Lease!Next
  <1>7. ASSUME TheUser' = TheUser, changed' = changed, uncertain' = uncertain
        PROVE  UNCHANGED Lease!vars
    BY <1>7 DEF Lease!vars, TheUser
  <1> QED BY <1>1, <1>2, <1>3, <1>4, <1>5, <1>6, <1>7


\* Clients: their calls change the user only when one vanishes.
LEMMA LeaseOfCalls ==
  ASSUME FclkInv, UserIsFacts, UserIsFacts', Call
  PROVE  Lease!Next \/ UNCHANGED Lease!vars
  <1>0. Types /\ LeaseInv /\ V3D \notin ReadIds
    BY FclkAssumption DEF FclkInv
  <1> PICK f \in Clients :
        \/ \E i \in ReadIds : AcquireRead(f, i) \/ ReleaseRead(f, i)
        \/ AcquireV3d(f) \/ ReleaseV3d(f) \/ Cleanup(f)
        \/ \E r \in Rates : SetClock(f, "rate", r)
        \/ \E s \in {0, 1} : SetClock(f, "state", s)
    BY DEF Call
  <1>1. CASE \E i \in ReadIds : AcquireRead(f, i) \/ ReleaseRead(f, i)
    <2>1. \A g \in Clients : V3D \in held'[g] <=> V3D \in held[g]
      BY <1>0, <1>1 DEF AcquireRead, ReleaseRead, Give, Types
    <2>2. changed' = changed /\ uncertain' = uncertain
      BY <1>1 DEF AcquireRead, ReleaseRead, v3dvars
    <2> QED BY <2>1, <2>2, SameUser, AbstractSteps
  <1>2. CASE \/ AcquireV3d(f) \/ ReleaseV3d(f)
             \/ \E r \in Rates : SetClock(f, "rate", r)
             \/ \E s \in {0, 1} : SetClock(f, "state", s)
    <2>1. held' = held /\ changed' = changed /\ uncertain' = uncertain
      BY <1>2 DEF AcquireV3d, ReleaseV3d, SetClock, lease, v3dvars
    <2> QED BY <2>1, SameUser, AbstractSteps
  <1>3. CASE Cleanup(f)
    <2>1. changed' = changed
      BY <1>3 DEF Cleanup
    <2>2. CASE UNCHANGED lease /\ uncertain' = uncertain
      <3>1. TheUser' = TheUser
        BY <2>2, SameUser DEF lease
      <3> QED BY <2>1, <2>2, <3>1, AbstractSteps
    <2>3. CASE Give(f, held[f]) /\ V3D \notin held[f] /\ uncertain' = uncertain
      <3>1. \A g \in Clients : V3D \in held'[g] <=> V3D \in held[g]
        BY <1>0, <2>3 DEF Give, Types
      <3> QED BY <2>1, <2>3, <3>1, SameUser, AbstractSteps
    <2>4. CASE Give(f, held[f]) /\ V3D \in held[f] /\ uncertain' = TRUE
      <3>1. Free'
        BY <1>0, <2>4, LastOneOut
      <3> QED BY <2>1, <2>4, <3>1, AbstractSteps DEF UserIsFacts
    <2>5. \/ UNCHANGED lease /\ uncertain' = uncertain
          \/ Give(f, held[f]) /\ V3D \notin held[f] /\ uncertain' = uncertain
          \/ Give(f, held[f]) /\ V3D \in held[f] /\ uncertain' = TRUE
      BY <1>0, <1>3 DEF Cleanup, Fault, Types
    <2> QED BY <2>2, <2>3, <2>4, <2>5
  <1> QED BY <1>1, <1>2, <1>3

\* Handlers: the snapshot of Acquire grants, SET changes, Restore returns.
LEMMA LeaseOfHandlers ==
  ASSUME FclkInv, UserIsFacts, UserIsFacts', NEW got \in Status, Step(got)
  PROVE  Lease!Next \/ UNCHANGED Lease!vars
  <1>0. Types /\ LeaseInv /\ JobInv
    BY DEF FclkInv
  <1>1. CASE Snap(got) /\ got = "ok"
    <2>1. /\ at = "snap" /\ changed' = FALSE /\ held' = [held EXCEPT ![job.f] = @ \union {V3D}]
          /\ uncertain' = uncertain
      BY <1>1 DEF Snap
    <2>2. job.f \in Clients /\ ~uncertain /\ Free
      BY <1>0, <2>1 DEF JobInv
    <2>3. V3D \in held'[job.f]
      BY <1>0, <2>1, <2>2 DEF Types
    <2>4. TheUser' = job.f /\ TheUser = NoFile
      BY <2>2, <2>3 DEF UserIsFacts
    <2> QED BY <2>1, <2>2, <2>4, AbstractSteps
  <1>2. CASE SetSnapshot(got) /\ got = "ok"
    <2>1. at = "setq" /\ changed' = TRUE /\ held' = held /\ uncertain' = uncertain
      BY <1>2 DEF SetSnapshot, lease
    <2>2. job.f \in Clients /\ ~uncertain /\ V3D \in held[job.f]
      BY <1>0, <2>1 DEF JobInv
    <2>3. TheUser # NoFile /\ TheUser' = TheUser
      BY <2>1, <2>2, SameUser DEF UserIsFacts
    <2> QED BY <2>1, <2>2, <2>3, AbstractSteps
  <1>3. CASE RestoreRelease(got) /\ got = "ok"
    <2>1. at = "restRelease" /\ changed' = FALSE /\ uncertain' = uncertain
      BY <1>3 DEF RestoreRelease
    <2>2. job.f \in Clients /\ ~uncertain /\ V3D \in held[job.f]
      BY <1>0, <2>1 DEF JobInv, Restoring
    <2>3. \E is : V3D \in is /\ Give(job.f, is)
      BY <1>3, <2>2 DEF RestoreRelease
    <2>4. Free'
      BY <1>0, <2>2, <2>3, LastOneOut
    <2>5. TheUser # NoFile /\ TheUser' = NoFile
      BY <2>2, <2>4 DEF UserIsFacts
    <2> QED BY <2>1, <2>2, <2>5, AbstractSteps
  <1>4. CASE \/ RestoreRate(got) \/ RestoreState(got) \/ RestoreCheck(got)
             \/ (RestoreRelease(got) /\ got # "ok")
    <2>1. at \in Restoring
      BY <1>4 DEF RestoreRate, RestoreState, RestoreCheck, RestoreStep, RestoreRelease, Restoring
    <2>2. job.f \in Clients /\ V3D \in held[job.f]
      BY <1>0, <2>1 DEF JobInv
    <2>3. \/ held' = held /\ changed' = changed /\ uncertain' = uncertain
          \/ held' = held /\ changed' = changed /\ uncertain' = TRUE
          \/ Give(job.f, held[job.f]) /\ changed' = changed /\ uncertain' = TRUE
      BY <1>4 DEF RestoreRate, RestoreState, RestoreCheck, RestoreStep, RestoreRelease, RestoreFails,
                  Fault, lease, v3dvars
    <2>4. CASE held' = held
      BY <2>3, <2>4, SameUser, AbstractSteps
    <2>5. CASE Give(job.f, held[job.f]) /\ changed' = changed /\ uncertain' = TRUE
      <3>1. Free'
        BY <1>0, <2>2, <2>5, LastOneOut
      <3> QED BY <2>2, <2>5, <3>1, AbstractSteps DEF UserIsFacts
    <2> QED BY <2>3, <2>4, <2>5
  <1>5. CASE \/ Claim(got) \/ Unclaim(got) \/ (Snap(got) /\ got # "ok")
             \/ (SetSnapshot(got) /\ got # "ok") \/ SetRequest(got) \/ SetVerify(got)
             \/ ReleaseSnapshot(got)
    <2>1. /\ held' = held /\ changed' = changed
          /\ uncertain' = uncertain \/ uncertain' = TRUE
      BY <1>5 DEF Claim, Unclaim, Snap, SetSnapshot, SetRequest, SetVerify, ReleaseSnapshot, Fault,
                  lease, v3dvars
    <2> QED BY <2>1, SameUser, AbstractSteps
  <1>6. CASE \/ ArmQuery(got) \/ ArmClaim(got) \/ ArmReadBaseline(got) \/ ArmSet(got)
             \/ ArmCheck(got) \/ ArmRestoreRate(got) \/ ArmRelease(got)
    <2>1. held' = held /\ changed' = changed /\ uncertain' = uncertain
      BY <1>6 DEF ArmQuery, ArmClaim, ArmReadBaseline, ArmSet, ArmCheck, ArmRestoreRate, ArmRelease,
                  ArmFrame, lease, v3dvars
    <2> QED BY <2>1, SameUser, AbstractSteps
  <1> QED BY <1>1, <1>2, <1>3, <1>4, <1>5, <1>6 DEF Step

\* FCLK implements ClockLease: whatever is lost on the way to the mailbox and back, and
\* whatever firmware does, its clients see one user at a time, a clock that is put back
\* before its user is let go, and none at all once there is a doubt.
THEOREM LeaseIsKeptHolds == FclkSpec => LeaseIsKept
  <1>1. FclkInit => Lease!Init
    <2> SUFFICES ASSUME FclkInit PROVE Lease!Init
      OBVIOUS
    <2>1. \A f \in Clients : V3D \notin held[f]
      BY DEF FclkInit
    <2>2. changed = FALSE /\ uncertain = FALSE
      BY DEF FclkInit
    <2> QED BY <2>1, <2>2 DEF Lease!Init
  <1>2. FclkInv /\ FclkInv' /\ [FclkNext]_allvars => [Lease!Next]_Lease!vars
    <2> SUFFICES ASSUME FclkInv, FclkInv', [FclkNext]_allvars
                 PROVE  Lease!Next \/ UNCHANGED Lease!vars
      OBVIOUS
    <2>0. UserIsFacts
      BY UserIs DEF FclkInv
    <2>1. UserIsFacts'
      <3>1. LeaseInv'
        BY DEF FclkInv
      <3> QED BY <3>1, UserIs, PTL
    <2>2. CASE Call
      BY <2>0, <2>1, <2>2, LeaseOfCalls
    <2>3. CASE HandlerStep
      BY <2>0, <2>1, <2>3, LeaseOfHandlers DEF HandlerStep
    <2>4. CASE \/ ArmFire \/ FclkStart \/ FclkStopBegin \/ FclkStopEnd \/ FclkReleaseHardware
               \/ Elsewhere \/ UNCHANGED allvars
      <3>1. held' = held /\ changed' = changed /\ uncertain' = uncertain
        BY <2>4 DEF ArmFire, FclkStart, FclkStopBegin, FclkStopEnd, FclkReleaseHardware, Elsewhere,
                    allvars, fvars, lease, v3dvars
      <3> QED BY <2>0, <2>1, <3>1, SameUser, AbstractSteps
    <2>5. CASE FclkRemove
      <3>1. held' = held /\ changed' = FALSE /\ uncertain' = FALSE /\ Free
        BY <2>5 DEF FclkRemove, Free
      <3>2. TheUser = NoFile /\ TheUser' = TheUser
        BY <2>0, <2>1, <3>1, SameUser DEF UserIsFacts
      <3> QED BY <3>1, <3>2, AbstractSteps
    <2> QED BY <2>2, <2>3, <2>4, <2>5 DEF FclkNext
  <1> QED BY <1>1, <1>2, FclkInvariance, PTL DEF FclkSpec, LeaseIsKept, Lease!Spec


===============================================================================

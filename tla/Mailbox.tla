-------------------------------- MODULE Mailbox --------------------------------
(***************************************************************************)
(* The firmware mailbox provider (src/pi5-mailbox): it claims the property *)
(* channel from the platform once per boot, owns the DMA buffer firmware   *)
(* replies into, and leases two firmware clocks (ARM and V3D) to kernel    *)
(* controllers, a controller being an open file object.                    *)
(*                                                                         *)
(* The handlers run under the device's wait lock, so one handler is one    *)
(* action; a property exchange inside it (MbxTransfer) succeeds, is        *)
(* refused by the firmware, or fails fatally and latches the transport.    *)
(* The handshake of a single exchange is module MbxTransport.              *)
(***************************************************************************)
EXTENDS Naturals

CONSTANTS
  Controllers,  \* file objects of kernel controllers
  NoFile,       \* lease->Owner == NULL
  Clocks,       \* the leased clocks, PI5_FCLK_ARM and PI5_FCLK_V3D
  Gated,        \* the clocks that have a state (only ID 5)
  Rates,        \* the rates firmware accepts, between its minimum and maximum
  MaxDrift      \* bound: how often firmware reprograms a clock by itself

ASSUME MailboxAssumption ==
  /\ NoFile \notin Controllers
  /\ Gated \subseteq Clocks
  /\ Rates \subseteq Nat \ {0} /\ Rates # {}
  /\ MaxDrift \in Nat

Setting == [rate : Rates, state : {0, 1}]

VARIABLES
  phase,      \* PnP: "none", "failed" (Prepare failed) or "started"
  bootClaim,  \* static BootClaim: one firmware handoff per boot
  online,     \* c->Stats.Online
  owned,      \* c->Stats.Owned: the platform handed the mailbox over
  pinned,     \* c->Pinned
  handler,    \* c->RegionObject: the ACPI region handler is registered
  buffer,     \* the HAL common buffer: "none", "held", "freed" or "retained"
  fault,      \* c->Transport.Fault
  unsafe,     \* c->Transport.Unsafe: firmware may still write the buffer
  holder,     \* holder[k]: CLOCK_LEASE.Owner
  baseline,   \* baseline[k]: CLOCK_LEASE.BaselineRate and BaselineState
  abandoned,  \* CLOCK_LEASE.Abandoned, as a set of clocks
  fw,         \* external: what firmware runs each clock at
  handoffs,   \* history: how often the mailbox was taken over in this boot
  drifts      \* history: how often firmware reprogrammed a clock

life      == <<phase, bootClaim, online, owned, pinned, handler, handoffs>>
transport == <<buffer, fault, unsafe>>
leases    == <<holder, baseline, abandoned>>
vars      == <<life, transport, leases, fw, drifts>>

TypeOK ==
  /\ phase \in {"none", "failed", "started"}
  /\ bootClaim \in BOOLEAN /\ online \in BOOLEAN /\ owned \in BOOLEAN
  /\ pinned \in BOOLEAN /\ handler \in BOOLEAN
  /\ fault \in BOOLEAN /\ unsafe \in BOOLEAN
  /\ buffer \in {"none", "held", "freed", "retained"}
  /\ holder \in [Clocks -> Controllers \union {NoFile}]
  /\ baseline \in [Clocks -> Setting]
  /\ abandoned \subseteq Clocks
  /\ fw \in [Clocks -> Setting]
  /\ handoffs \in Nat /\ drifts \in 0..MaxDrift

-------------------------------------------------------------------------------
(* Property exchanges.                                                      *)

\* What one handler reports: done, refused for a reason that proves nothing was
\* changed, or an outcome the caller cannot interpret (IO_TIMEOUT, CANCELLED
\* and DEVICE_PROTOCOL_ERROR).
Status == {"ok", "error", "unknown"}

Live == online /\ owned

\* Mutant: a clock whose controller disappeared is served again.
Serves_Abandoned(k) == Live

\* ClockControlLocked before its first exchange.
Serves(k) == Live /\ k \notin abandoned

\* MbxTransfer/Transfer with a failure that latches the transport.  Only a
\* request that reached the firmware without its own reply leaves the buffer
\* in firmware's hands; a malformed or mismatched reply does not.
FatalTransfer ==
  /\ fault' = TRUE
  /\ \/ unsafe' = unsafe
     \/ ~fault /\ unsafe' = TRUE
  /\ UNCHANGED buffer

\* A handler whose exchanges changed nothing: firmware refused one
\* ("error"), or one failed fatally or on an already latched transport.
FailedExchange(st) ==
  \/ st = "error" /\ ~fault /\ UNCHANGED transport
  \/ st = "unknown" /\ FatalTransfer

Refused(k, st) == ~Serves(k) /\ st = "error" /\ UNCHANGED vars

-------------------------------------------------------------------------------
(* IOCTL_PI5_MAILBOX_CLOCK_CONTROL (ClockControlLocked).                    *)

\* Claim: the setting firmware reports becomes the lease's baseline.
ClockClaim(f, k, st) ==
  \/ Refused(k, st)
  \/ /\ Serves(k)
     /\ \/ holder[k] # NoFile /\ st = "error" /\ UNCHANGED <<transport, leases>>
        \/ holder[k] = NoFile /\ FailedExchange(st) /\ UNCHANGED leases
        \/ /\ holder[k] = NoFile /\ ~fault /\ st = "ok"
           /\ baseline' = [baseline EXCEPT ![k] = fw[k]]
           /\ holder' = [holder EXCEPT ![k] = f]
           /\ UNCHANGED <<transport, abandoned>>
     /\ UNCHANGED <<life, fw, drifts>>

\* The comparison of the read-back setting with the lease's baseline.
AtBaseline(k) == fw[k] = baseline[k]

\* Release: only a clock that is back at its baseline is given up.
ClockRelease(f, k, st) ==
  \/ Refused(k, st)
  \/ /\ Serves(k)
     /\ \/ holder[k] # f /\ st = "error" /\ UNCHANGED <<transport, leases>>
        \/ holder[k] = f /\ FailedExchange(st) /\ UNCHANGED leases
        \/ /\ holder[k] = f /\ ~fault /\ ~AtBaseline(k) /\ st = "error"
           /\ UNCHANGED <<transport, leases>>
        \/ /\ holder[k] = f /\ ~fault /\ AtBaseline(k) /\ st = "ok"
           /\ holder' = [holder EXCEPT ![k] = NoFile]
           /\ UNCHANGED <<transport, baseline, abandoned>>
     /\ UNCHANGED <<life, fw, drifts>>

\* SetRate and SetState: v is the whole new setting of the clock.  A fatal
\* failure may come before or after firmware acted on the request, and firmware
\* may accept one and still report the old setting (a throttled rate, a raw state).
ClockSet(f, k, v, st) ==
  \/ Refused(k, st)
  \/ /\ Serves(k)
     /\ \/ holder[k] # f /\ st = "error" /\ UNCHANGED <<transport, fw>>
        \/ holder[k] = f /\ FailedExchange(st) /\ UNCHANGED fw
        \/ /\ holder[k] = f /\ ~fault /\ st = "unknown" /\ FatalTransfer
           /\ fw' = [fw EXCEPT ![k] = v]
        \/ /\ holder[k] = f /\ ~fault /\ st = "ok"
           /\ fw' \in {fw, [fw EXCEPT ![k] = v]}
           /\ UNCHANGED transport
     /\ UNCHANGED <<life, leases, drifts>>

\* The settings a controller may ask for: a rate in the firmware's range, and a
\* state only for the clock that has one.
Requests(k) ==
  {[rate |-> r, state |-> fw[k].state] : r \in Rates}
    \union {[rate |-> fw[k].rate, state |-> s] : s \in IF k \in Gated THEN {0, 1} ELSE {}}

\* A read-only query (IOCTL_PI5_MAILBOX_QUERY, DISPLAY_QUERY, the RTC region).
Query(st) ==
  /\ \/ ~Live /\ st = "error" /\ UNCHANGED transport
     \/ Live /\ ~fault /\ st = "ok" /\ UNCHANGED transport
     \/ Live /\ FailedExchange(st)
  /\ UNCHANGED <<life, leases, fw, drifts>>

\* ClockCleanup: a controller disappeared; its clocks are never leased again.
ClockCleanup(f) ==
  /\ \E k \in Clocks : holder[k] = f
  /\ abandoned' = abandoned \union {k \in Clocks : holder[k] = f}
  /\ holder' = [k \in Clocks |-> IF holder[k] = f THEN NoFile ELSE holder[k]]
  /\ UNCHANGED <<life, transport, baseline, fw, drifts>>

-------------------------------------------------------------------------------
(* Prepare and Release.                                                     *)

\* The compare-and-swap of BootClaim, which nothing resets.
FirstOfBoot == ~bootClaim

\* The two _DSM checks, resources, mapping and buffer come before the boot
\* claim; a failure on the way keeps what was allocated for Release.
PrepareFails ==
  /\ phase = "none"
  /\ phase' = "failed"
  /\ \/ UNCHANGED <<buffer, handler>>
     \/ ~bootClaim /\ buffer' = "held" /\ UNCHANGED handler
     \/ ~bootClaim /\ buffer' = "held" /\ handler' = TRUE
  /\ UNCHANGED <<bootClaim, online, owned, pinned, handoffs, fault, unsafe,
                 leases, fw, drifts>>

\* The boot claim succeeded; the platform may still refuse the handoff, and
\* the RTC probe may fail on a device that is already online.
Prepare ==
  /\ phase = "none" /\ FirstOfBoot
  /\ buffer' = "held" /\ handler' = TRUE
  /\ bootClaim' = TRUE /\ pinned' = TRUE
  /\ \/ /\ phase' = "failed"
        /\ UNCHANGED <<online, owned, handoffs, fault, unsafe>>
     \/ /\ online' = TRUE /\ owned' = TRUE
        /\ handoffs' = handoffs + 1
        /\ \/ phase' = "started" /\ UNCHANGED <<fault, unsafe>>
           \/ phase' = "failed" /\ UNCHANGED <<fault, unsafe>>
           \/ phase' = "failed" /\ fault' = TRUE /\ unsafe' \in BOOLEAN
  /\ UNCHANGED <<leases, fw, drifts>>

\* Release, first half: no new exchange can start, then the region handler
\* goes; a handler that cannot be removed keeps everything.
ReleaseRefused ==
  /\ phase # "none" /\ handler
  /\ online' = FALSE
  /\ UNCHANGED <<phase, bootClaim, owned, pinned, handler, handoffs, transport,
                 leases, fw, drifts>>

Release ==
  /\ phase # "none"
  /\ online' = FALSE /\ handler' = FALSE
  /\ phase' = "none" /\ pinned' = FALSE
  /\ buffer' = IF buffer # "held" THEN buffer
               ELSE IF unsafe THEN "retained" ELSE "freed"
  /\ UNCHANGED <<bootClaim, owned, handoffs, fault, unsafe, leases, fw, drifts>>

\* External: firmware changes a clock (thermal or voltage throttling).
FirmwareDrift ==
  /\ drifts < MaxDrift
  /\ drifts' = drifts + 1
  /\ \E k \in Clocks : \E r \in Rates :
        fw' = [fw EXCEPT ![k] = [rate |-> r, state |-> fw[k].state]]
  /\ UNCHANGED <<life, transport, leases>>

-------------------------------------------------------------------------------
Init ==
  /\ phase = "none" /\ bootClaim = FALSE
  /\ online = FALSE /\ owned = FALSE /\ pinned = FALSE /\ handler = FALSE
  /\ handoffs = 0
  /\ buffer = "none" /\ fault = FALSE /\ unsafe = FALSE
  /\ holder = [k \in Clocks |-> NoFile]
  /\ abandoned = {}
  /\ fw \in [Clocks -> Setting]
  /\ \A k \in Clocks \ Gated : fw[k].state = 0
  /\ baseline = fw
  /\ drifts = 0

ClockRequest(f, k, st) ==
  \/ ClockClaim(f, k, st)
  \/ ClockRelease(f, k, st)
  \/ \E v \in Requests(k) : ClockSet(f, k, v, st)

Next ==
  \/ \E f \in Controllers, k \in Clocks, st \in Status : ClockRequest(f, k, st)
  \/ \E st \in Status : Query(st)
  \/ \E f \in Controllers : ClockCleanup(f)
  \/ PrepareFails \/ Prepare \/ ReleaseRefused \/ Release
  \/ FirmwareDrift

Spec == Init /\ [][Next]_vars

-------------------------------------------------------------------------------
(* Properties.                                                              *)

\* Memory the firmware may still write is never given back: while an exchange
\* is unanswered the DMA buffer is held or retained for the rest of the boot
\* (Release frees it only when Transport.Unsafe is clear).
UnansweredBufferKept == unsafe => buffer \in {"held", "retained"}

\* One handoff per boot: however often the device is stopped and started, the
\* mailbox is taken over from the platform at most once, and an online device
\* has its buffer (Prepare's BootClaim).
OneHandoff == handoffs <= 1 /\ (online => bootClaim /\ owned /\ buffer = "held")

\* A clock whose controller disappeared is never handed to another one and
\* never programmed again, only firmware still moves it (ClockCleanup).
AbandonedForever ==
  [][\A k \in abandoned :
       /\ k \in abandoned' /\ holder'[k] = NoFile
       /\ fw'[k] = fw[k] \/ drifts' # drifts]_vars

\* Giving a clock up proves it is back: a lease that ends without being
\* abandoned leaves the clock at the setting it was claimed with.
ReleaseAtBaseline ==
  [][\A k \in Clocks : holder[k] # NoFile /\ holder'[k] # holder[k] =>
       k \in abandoned' \/ fw'[k] = baseline[k]]_vars

\* What the provider owes the rest of the system over a whole boot, together: memory,
\* abandoned clocks and ended leases (Release, ClockCleanup, ClockControlLocked).
ProviderKeepsItsWord == []UnansweredBufferKept /\ AbandonedForever /\ ReleaseAtBaseline

\* The transport latch is final: after a fatal exchange no driver step changes
\* a clock, grants a lease or ends one cleanly any more.
FaultIsFinal ==
  [][fault => /\ fault'
              /\ fw' = fw \/ drifts' # drifts
              /\ \A k \in Clocks : holder'[k] = holder[k] \/ k \in abandoned']_vars
===============================================================================

--------------------------------- MODULE Nvram ---------------------------------
(***************************************************************************)
(* File-backed UEFI variables (src/pi5-nvram): the firmware keeps the      *)
(* variables in memory and counts their changes; the driver saves a        *)
(* snapshot to the older of two files on the boot volume, once a second,   *)
(* on request, and when it is stopped.                                     *)
(*                                                                         *)
(* The contents of an image are told apart by its sequence number.  An     *)
(* image is a header and a block of data, written and flushed one after    *)
(* the other; it is valid when both belong together.  Power may be lost    *)
(* between any two steps: a part that was written but not flushed is then  *)
(* old, new or torn.                                                       *)
(*                                                                         *)
(* Save runs under the driver's wait lock, but the firmware's variables    *)
(* change meanwhile, so its calls are steps, and "pc" is the next one.     *)
(***************************************************************************)
EXTENDS Naturals

CONSTANTS
  MaxSequence,   \* bound: the last sequence number the firmware reaches
  MaxFailures,   \* bound: calls that fail
  WholeMayFail   \* a write or flush may be reported as failed although the file reads back new

ASSUME NvramAssumption ==
  MaxSequence \in Nat \ {0} /\ MaxFailures \in Nat /\ WholeMayFail \in BOOLEAN

VARIABLES
  store,     \* the firmware's current sequence number (meta variable and snapshot)
  disk,      \* the two files as they are read back
  media,     \* the two files as they are when power is lost now
  up,        \* Windows runs
  loaded,    \* NvDevice exists
  pc, job,   \* the next call of Save, and who called it
  target,    \* Commit's target
  info,      \* ctx->info.Sequence
  snap,      \* ctx->snapshot->Header.Sequence
  saved,     \* ctx->query.saved_sequence
  stopping,  \* ctx->stopping
  stopper,   \* Stop: "none", "timer", "lock", "saving", "done"
  timer,     \* "off", "armed", "running", "rearm" (before it reads stopping), "arming"
  asked,     \* history: store when the running flush request began
  promised,  \* history: the last sequence number reported as saved or flushed
  failures   \* history: how many calls failed

Copies == {0, 1}
Torn == 0

firmware == <<store, up>>
files    == <<disk, media>>
save     == <<pc, job, target, info, snap, asked>>
driver   == <<loaded, saved, stopping, stopper, timer>>
history  == <<promised, failures>>
vars     == <<firmware, files, save, driver, history>>

Sequences == 0..MaxSequence
Image == [header : Sequences, data : Sequences]
Calls == {"idle", "info", "snapshot", "discover", "open", "data", "dataFlush",
          "header", "headerFlush", "verify"}

TypeOK ==
  /\ store \in Sequences
  /\ disk \in [Copies -> Image] /\ media \in [Copies -> Image]
  /\ {up, loaded, stopping} \subseteq BOOLEAN
  /\ pc \in Calls /\ job \in {"none", "timer", "flush", "stop"}
  /\ target \in Copies
  /\ {info, snap, saved, asked, promised} \subseteq Sequences
  /\ stopper \in {"none", "timer", "lock", "saving", "done"}
  /\ timer \in {"off", "armed", "running", "rearm", "arming"}
  /\ failures \in 0..MaxFailures

-------------------------------------------------------------------------------
(* Images.  NvFileValid and NvFileSelect are the firmware's.                *)

\* The sequence number of a valid image, 0 for any other.
Value(i) == IF i.header = i.data THEN i.header ELSE 0

Selected(d) == IF Value(d[0]) >= Value(d[1]) THEN 0 ELSE 1
Newest(d)   == Value(d[Selected(d)])

\* What a part of a file may be after power is lost.
Left(onMedia, onDisk) == IF onMedia = onDisk THEN {onDisk} ELSE {onMedia, onDisk, Torn}

-------------------------------------------------------------------------------
(* The life of the machine and of the driver.                               *)

\* External: somebody sets a UEFI variable.
Change ==
  /\ up /\ store < MaxSequence
  /\ store' = store + 1
  /\ UNCHANGED <<up, files, save, driver, history>>

NoSave == pc' = "idle" /\ job' = "none" /\ target' = 0 /\ info' = 0 /\ snap' = 0 /\ asked' = 0

\* Power is lost; the firmware will load the image it selects.
Crash ==
  /\ up
  /\ \E h0 \in Left(media[0].header, disk[0].header), d0 \in Left(media[0].data, disk[0].data),
        h1 \in Left(media[1].header, disk[1].header), d1 \in Left(media[1].data, disk[1].data) :
       disk' = [c \in Copies |-> IF c = 0 THEN [header |-> h0, data |-> d0]
                                          ELSE [header |-> h1, data |-> d1]]
  /\ media' = disk' /\ store' = Newest(disk')
  /\ up' = FALSE /\ loaded' = FALSE
  /\ NoSave /\ saved' = 0 /\ stopping' = FALSE /\ stopper' = "none" /\ timer' = "off"
  /\ UNCHANGED history

Boot ==
  /\ ~up /\ up' = TRUE
  /\ UNCHANGED <<store, files, save, driver, history>>

\* DriverEntry.
Load ==
  /\ up /\ ~loaded
  /\ loaded' = TRUE /\ timer' = "armed"
  /\ saved' = 0 /\ stopping' = FALSE /\ stopper' = "none"
  /\ UNCHANGED <<firmware, files, save, history>>

\* NvUnload, after its Stop; deleting the device waits for the timer's callback.
Unload ==
  /\ stopper = "done" /\ timer \in {"off", "armed"}
  /\ loaded' = FALSE /\ timer' = "off" /\ stopper' = "none"
  /\ UNCHANGED <<firmware, files, save, saved, stopping, history>>

-------------------------------------------------------------------------------
(* The callers of Save.                                                     *)

Begin(who) == pc = "idle" /\ pc' = "info" /\ job' = who /\ UNCHANGED <<target, info, snap>>

TimerFire ==
  /\ timer = "armed" /\ pc = "idle"
  /\ \/ ~stopping /\ Begin("timer") /\ timer' = "running" /\ UNCHANGED asked
     \/ stopping /\ timer' = "rearm" /\ UNCHANGED save
  /\ UNCHANGED <<firmware, files, loaded, saved, stopping, stopper, history>>

\* stopping is read again without the lock, and the timer is started after that.
Rearm ==
  /\ \/ timer = "rearm" /\ timer' = IF stopping THEN "off" ELSE "arming"
     \/ timer = "arming" /\ timer' = "armed"
  /\ UNCHANGED <<firmware, files, save, loaded, saved, stopping, stopper, history>>

\* IOCTL_NV_FLUSH.
Flush ==
  /\ loaded /\ ~stopping /\ Begin("flush") /\ asked' = store
  /\ UNCHANGED <<firmware, files, driver, history>>

\* Stop, from the shutdown notification or from NvUnload.
StopBegin ==
  /\ loaded /\ ~stopping
  /\ stopping' = TRUE /\ stopper' = "timer"
  /\ UNCHANGED <<firmware, files, save, loaded, saved, timer, history>>

\* WdfTimerStop cancels and waits for the callback, which may have started the timer again.
StopTimer ==
  /\ stopper = "timer" /\ timer \in {"off", "armed"}
  /\ timer' \in {"off", timer} /\ stopper' = "lock"
  /\ UNCHANGED <<firmware, files, save, loaded, saved, stopping, history>>

StopSave ==
  /\ stopper = "lock" /\ Begin("stop") /\ stopper' = "saving" /\ UNCHANGED asked
  /\ UNCHANGED <<firmware, files, loaded, saved, stopping, timer, history>>

-------------------------------------------------------------------------------
(* Save, under the lock.                                                    *)

Larger(a, b) == IF a >= b THEN a ELSE b

Frame == UNCHANGED <<firmware, loaded, stopping>>

\* The end of Save for whoever called it: the timer goes on to Rearm, Stop is over.
Return ==
  /\ NoSave
  /\ timer' = IF job = "timer" THEN "rearm" ELSE timer
  /\ stopper' = IF job = "stop" THEN "done" ELSE stopper
  /\ Frame

\* Mutant: what the firmware has by now counts as saved.
Succeed_Current ==
  /\ Return
  /\ saved' = store
  /\ promised' = Larger(promised, Larger(snap, asked))
  /\ UNCHANGED failures

\* The image that was written, or one that is equal to it, was found in a file.
Succeed ==
  /\ Return
  /\ saved' = snap
  /\ promised' = Larger(promised, Larger(snap, asked))
  /\ UNCHANGED failures

\* A call that fails, of the firmware or of the file system.
Fail ==
  /\ failures < MaxFailures /\ failures' = failures + 1
  /\ Return /\ UNCHANGED <<saved, promised>>

\* Save gives up with nobody else at fault.
Refuse == Return /\ UNCHANGED <<saved, history>>

Goto(call) == pc' = call /\ UNCHANGED <<job, asked, saved, stopper, timer, history>> /\ Frame

\* Only the timer skips a store that was saved.
ReadInfo ==
  /\ pc = "info"
  /\ \/ ~(job = "timer" /\ saved = store)
        /\ info' = store /\ Goto("snapshot") /\ UNCHANGED <<target, snap>>
     \/ job = "timer" /\ saved = store /\ Refuse
     \/ Fail
  /\ UNCHANGED files

\* The snapshot is the firmware's at this moment, so never older than info.
Snapshot ==
  /\ pc = "snapshot"
  /\ \/ store >= info /\ snap' = store /\ Goto("discover") /\ UNCHANGED <<target, info>>
     \/ Fail
  /\ UNCHANGED files

\* Exactly one volume must have the store and the firmware's file.
Discover ==
  /\ pc = "discover"
  /\ \/ IF Newest(disk) # 0 THEN Goto("open") /\ UNCHANGED <<target, info, snap>> ELSE Refuse
     \/ Fail
  /\ UNCHANGED files

\* Mutant: the image is written over the one that was selected.
OtherCopy_Same(c) == c

OtherCopy(c) == 1 - c

\* Commit up to its first write, with both files open exclusively.
Open ==
  /\ pc = "open"
  /\ \/ Newest(disk) = snap /\ Succeed
     \/ IF Newest(disk) \in 1..(snap - 1)
          THEN target' = OtherCopy(Selected(disk)) /\ Goto("data") /\ UNCHANGED <<info, snap>>
          ELSE Newest(disk) # snap /\ Refuse
     \/ Fail
  /\ UNCHANGED files

Written(part, value) == disk' = [disk EXCEPT ![target][part] = value] /\ UNCHANGED media

\* WritePart reports a failure: the part is as it was, or torn, or, when only the
\* write-through or the flush failed, new as far as a reader can tell.
WriteFails(part) ==
  /\ Fail
  /\ \E value \in {disk[target][part], Torn} \cup (IF WholeMayFail THEN {snap} ELSE {}) :
       Written(part, value)

Write(part, call, next) ==
  /\ pc = call
  /\ \/ Goto(next) /\ Written(part, snap) /\ UNCHANGED <<target, info, snap>>
     \/ WriteFails(part)

\* Mutant: WritePart does not flush.
FlushPart_None(call, next) == pc = call /\ Goto(next) /\ UNCHANGED <<files, target, info, snap>>

\* WritePart's ZwFlushBuffersFile.
FlushPart(call, next) ==
  /\ pc = call
  /\ Goto(next) /\ media' = [media EXCEPT ![target] = disk[target]]
  /\ UNCHANGED <<disk, target, info, snap>>

\* The data, then the header that makes it valid, each flushed before the next.
WriteParts ==
  \/ Write("data", "data", "dataFlush") \/ FlushPart("dataFlush", "header")
  \/ Write("header", "header", "headerFlush") \/ FlushPart("headerFlush", "verify")

\* The file is read back and compared.
Verify ==
  /\ pc = "verify"
  /\ \/ disk[target] = [header |-> snap, data |-> snap] /\ Succeed
     \/ Fail
  /\ UNCHANGED files

SaveStep == ReadInfo \/ Snapshot \/ Discover \/ Open \/ WriteParts \/ Verify

-------------------------------------------------------------------------------
\* A firmware that was started from the first of the two files.
Init ==
  /\ store = 1 /\ up = TRUE
  /\ disk = [c \in Copies |-> IF c = 0 THEN [header |-> 1, data |-> 1]
                                       ELSE [header |-> Torn, data |-> Torn]]
  /\ media = disk
  /\ loaded = FALSE /\ pc = "idle" /\ job = "none"
  /\ target = 0 /\ info = 0 /\ snap = 0 /\ saved = 0 /\ asked = 0
  /\ stopping = FALSE /\ stopper = "none" /\ timer = "off"
  /\ promised = 0 /\ failures = 0

Next ==
  \/ Change \/ Crash \/ Boot \/ Load \/ Unload
  \/ TimerFire \/ Rearm \/ Flush \/ StopBegin \/ StopTimer \/ StopSave
  \/ SaveStep

Spec == Init /\ [][Next]_vars

\* Calls return, and the timer fires.  Its callback may wait for the lock forever
\* while others save.
FairSpec == Spec /\ WF_vars(SaveStep) /\ WF_vars(Rearm) /\ WF_vars(TimerFire)

-------------------------------------------------------------------------------
(* Properties.                                                              *)

\* What was reported as saved, or flushed on request, is found after any loss of
\* power (IOCTL_NV_FLUSH and saved_sequence of IOCTL_NV_QUERY).
PromiseKept == promised <= Newest(media)

\* Every change reaches the files, whatever changes or fails meanwhile, unless the
\* driver is stopped or power is lost first (NvTimer).
ChangesAreSaved ==
  \A n \in 1..MaxSequence :
    loaded /\ store >= n ~> Newest(media) >= n \/ ~loaded \/ stopping

\* One of the two files always holds a valid image, also when power is lost in the
\* middle of a commit, and what a restart finds never gets older: together the two
\* files are a durable store ("redundant variable files", pi5-nvram/README.md).
Durable == INSTANCE DurableStore WITH durable <- Newest(media), current <- store
StoreIsDurable == Durable!Spec
===============================================================================

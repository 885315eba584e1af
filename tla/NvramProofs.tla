----------------------------- MODULE NvramProofs -----------------------------
(***************************************************************************)
(* That the pair of variable files is a durable store, for any number of   *)
(* changes and failed calls, as long as a write that is reported as failed *)
(* did not leave the whole new part in the file.                           *)
(*                                                                         *)
(* At any time one copy is good: it reads back as it is on the media and   *)
(* belongs together, and the header of the other one is older, except      *)
(* for the one that Commit is writing.                                     *)
(***************************************************************************)
EXTENDS Nvram, TLAPS

FailedIsNotWhole == ~WholeMayFail

\* Commit is between its first write and its end.
Writing == pc \in {"data", "dataFlush", "header", "headerFlush", "verify"}

Good(c) ==
  /\ media[c] = disk[c]
  /\ disk[c].header = disk[c].data
  /\ disk[c].header \in 1..store

Older(c, g) ==
  /\ media[c].header < disk[g].header
  /\ disk[c].header < disk[g].header

\* Nothing is being written.
Quiet == \E g \in Copies : Good(g) /\ Older(1 - g, g)

\* What Commit has done to its target.
DataOnDisk  == disk[target].data = snap
DataOnMedia == media[target].data = snap

Committing ==
  /\ Good(1 - target) /\ disk[1 - target].header < snap
  /\ pc \in {"data", "dataFlush", "header"} => Older(target, 1 - target)
  /\ pc = "headerFlush" => media[target].header < disk[1 - target].header
                           /\ disk[target].header = snap
  /\ pc # "data" => DataOnDisk
  /\ pc \in {"header", "headerFlush", "verify"} => DataOnMedia
  /\ pc = "verify" => disk[target].header = snap /\ media[target].header = snap

FilesInv == IF Writing THEN Committing ELSE Quiet

\* What was asked for is in the snapshot, and nothing is newer than the firmware's.
OrderInv ==
  /\ asked <= store /\ snap <= store /\ info <= store
  /\ pc \notin {"idle", "info"} => asked <= info
  /\ pc \notin {"idle", "info", "snapshot"} => info <= snap

PromiseInv == promised <= Newest(media)

IInv == TypeOK /\ FilesInv /\ OrderInv /\ PromiseInv

-------------------------------------------------------------------------------
(* Types.                                                                   *)

\* What every end of Save does to the types.
LEMMA ReturnType ==
  ASSUME TypeOK, Return
  PROVE  /\ pc' \in Calls /\ job' \in {"none", "timer", "flush", "stop"} /\ target' \in Copies
         /\ {info, snap, asked}' \subseteq Sequences
         /\ timer' \in {"off", "armed", "running", "rearm", "arming"}
         /\ stopper' \in {"none", "timer", "lock", "saving", "done"}
         /\ {up, loaded, stopping}' \subseteq BOOLEAN /\ store' \in Sequences
  BY NvramAssumption DEF TypeOK, Return, NoSave, Frame, firmware, Calls, Copies, Sequences

\* What every other step of Save does to them.
LEMMA GotoType ==
  ASSUME TypeOK, NEW call \in Calls, Goto(call)
  PROVE  /\ pc' \in Calls /\ job' \in {"none", "timer", "flush", "stop"}
         /\ {saved, asked, promised}' \subseteq Sequences /\ failures' \in 0..MaxFailures
         /\ timer' \in {"off", "armed", "running", "rearm", "arming"}
         /\ stopper' \in {"none", "timer", "lock", "saving", "done"}
         /\ {up, loaded, stopping}' \subseteq BOOLEAN /\ store' \in Sequences
  BY DEF TypeOK, Goto, Frame, firmware, history

\* The three ends of Save keep the types.
LEMMA EndsType ==
  ASSUME TypeOK, Succeed \/ Fail \/ Refuse, disk' \in [Copies -> Image], media' \in [Copies -> Image]
  PROVE  TypeOK'
  <1>1. Return
    BY DEF Succeed, Fail, Refuse
  <1>2. {saved, promised}' \subseteq Sequences /\ failures' \in 0..MaxFailures
    <2>1. CASE Succeed
      BY <2>1 DEF Succeed, Larger, TypeOK, Sequences
    <2>2. CASE Fail
      <3>1. failures' = failures + 1 /\ failures < MaxFailures /\ UNCHANGED <<saved, promised>>
        BY <2>2 DEF Fail
      <3> QED
        BY <3>1, NvramAssumption DEF TypeOK
    <2>3. CASE Refuse
      BY <2>3 DEF Refuse, TypeOK, history
    <2> QED
      BY <2>1, <2>2, <2>3
  <1> QED
    BY <1>1, <1>2, ReturnType DEF TypeOK

\* Every step of Save keeps the types.
LEMMA SaveType == ASSUME TypeOK, SaveStep PROVE TypeOK'
  <1> USE NvramAssumption
  <1>1. 0 \in Sequences /\ store \in Sequences /\ snap \in Sequences /\ target \in Copies
        /\ disk \in [Copies -> Image] /\ media \in [Copies -> Image]
        /\ disk[target].header \in Sequences /\ disk[target].data \in Sequences
    BY DEF TypeOK, Sequences, Copies, Image
  <1>2. CASE ReadInfo
    <2>1. CASE Goto("snapshot")
      <3>1. info' = store /\ UNCHANGED <<target, snap, files>>
        BY <1>2, <2>1 DEF ReadInfo, Refuse, Fail, Return, NoSave, Goto
      <3> QED
        BY <1>1, <2>1, <3>1, GotoType DEF TypeOK, Calls, files
    <2>2. CASE Refuse \/ Fail
      BY <1>1, <1>2, <2>2, EndsType DEF ReadInfo, files
    <2> QED
      BY <1>2, <2>1, <2>2 DEF ReadInfo
  <1>3. CASE Snapshot
    <2>1. CASE snap' = store /\ Goto("discover") /\ UNCHANGED <<target, info>>
      BY <1>1, <1>3, <2>1, GotoType DEF Snapshot, TypeOK, Calls, files
    <2>2. CASE Fail
      BY <1>1, <1>3, <2>2, EndsType DEF Snapshot, files
    <2> QED
      BY <1>3, <2>1, <2>2 DEF Snapshot
  <1>4. CASE Discover
    <2>1. CASE Goto("open") /\ UNCHANGED <<target, info, snap>>
      BY <1>1, <1>4, <2>1, GotoType DEF Discover, TypeOK, Calls, files
    <2>2. CASE Refuse \/ Fail
      BY <1>1, <1>4, <2>2, EndsType DEF Discover, files
    <2> QED
      BY <1>4, <2>1, <2>2 DEF Discover
  <1>5. CASE Open
    <2>1. CASE target' = OtherCopy(Selected(disk)) /\ Goto("data") /\ UNCHANGED <<info, snap>>
      <3>1. target' \in Copies
        BY <2>1 DEF OtherCopy, Selected, Copies
      <3> QED
        BY <1>1, <1>5, <2>1, <3>1, GotoType DEF Open, TypeOK, Calls, files
    <2>2. CASE Succeed \/ Refuse \/ Fail
      BY <1>1, <1>5, <2>2, EndsType DEF Open, files
    <2> QED
      BY <1>5, <2>1, <2>2 DEF Open
  <1>6. ASSUME NEW part \in {"data", "header"}, NEW value \in Sequences, Written(part, value)
        PROVE  disk' \in [Copies -> Image] /\ media' \in [Copies -> Image]
    <2>1. [disk[target] EXCEPT ![part] = value] \in Image
      BY <1>1, <1>6 DEF Image
    <2> QED
      BY <1>1, <1>6, <2>1 DEF Written
  <1>7. ASSUME NEW part \in {"data", "header"}, NEW call \in Calls, NEW next \in Calls,
               Write(part, call, next)
        PROVE  TypeOK'
    <2>1. CASE Goto(next) /\ Written(part, snap) /\ UNCHANGED <<target, info, snap>>
      BY <1>1, <1>6, <2>1, GotoType DEF TypeOK
    <2>2. CASE WriteFails(part)
      <3>1. PICK value \in {disk[target][part], Torn} \cup (IF WholeMayFail THEN {snap} ELSE {}) :
              Written(part, value)
        BY <2>2 DEF WriteFails
      <3>2. value \in Sequences
        BY <1>1, <3>1 DEF Torn
      <3> QED
        BY <1>6, <2>2, <3>1, <3>2, EndsType DEF WriteFails
    <2> QED
      BY <1>7, <2>1, <2>2 DEF Write
  <1>8. ASSUME NEW call \in Calls, NEW next \in Calls, FlushPart(call, next)
        PROVE  TypeOK'
    <2>1. media' \in [Copies -> Image]
      BY <1>1, <1>8 DEF FlushPart
    <2> QED
      BY <1>1, <1>8, <2>1, GotoType DEF FlushPart, TypeOK
  <1>9. CASE WriteParts
    BY <1>7, <1>8, <1>9 DEF WriteParts, Calls
  <1>10. CASE Verify
    BY <1>1, <1>10, EndsType DEF Verify, files
  <1> QED
    BY <1>2, <1>3, <1>4, <1>5, <1>9, <1>10 DEF SaveStep

\* What power loss leaves, copy by copy.
LEMMA CrashLeaves ==
  ASSUME TypeOK, Crash
  PROVE  /\ disk' \in [Copies -> Image] /\ media' = disk'
         /\ \A c \in Copies : /\ disk'[c].header \in Left(media[c].header, disk[c].header)
                              /\ disk'[c].data \in Left(media[c].data, disk[c].data)
  <1>1. PICK h0 \in Left(media[0].header, disk[0].header), d0 \in Left(media[0].data, disk[0].data),
             h1 \in Left(media[1].header, disk[1].header), d1 \in Left(media[1].data, disk[1].data) :
          disk' = [c \in Copies |-> IF c = 0 THEN [header |-> h0, data |-> d0]
                                             ELSE [header |-> h1, data |-> d1]]
    BY DEF Crash
  <1>2. {h0, d0, h1, d1} \subseteq Sequences
    BY <1>1, NvramAssumption DEF TypeOK, Left, Torn, Sequences, Image, Copies
  <1>3. disk'[0] = [header |-> h0, data |-> d0] /\ disk'[1] = [header |-> h1, data |-> d1]
    BY <1>1 DEF Copies
  <1>4. disk' \in [Copies -> Image]
    BY <1>1, <1>2 DEF Image
  <1>5. media' = disk'
    BY DEF Crash
  <1> QED
    BY <1>1, <1>3, <1>4, <1>5 DEF Copies

\* The sequence number that a pair is selected for is one.
LEMMA NewestType == ASSUME NEW d \in [Copies -> Image] PROVE Newest(d) \in Sequences
  BY NvramAssumption DEF Newest, Selected, Value, Copies, Image, Sequences

\* The initial states are of the right types.
LEMMA InitType == Init => TypeOK
  <1> SUFFICES ASSUME Init PROVE TypeOK
    OBVIOUS
  <1>1. {0, 1} \subseteq Sequences
    BY NvramAssumption DEF Sequences
  <1>2. disk \in [Copies -> Image]
    BY <1>1 DEF Init, Image, Torn
  <1>3. store \in Sequences /\ {info, snap, saved, asked, promised} \subseteq Sequences
    BY <1>1 DEF Init
  <1>4. failures \in 0..MaxFailures
    BY NvramAssumption DEF Init
  <1>5. /\ media \in [Copies -> Image] /\ {up, loaded, stopping} \subseteq BOOLEAN
        /\ pc \in Calls /\ job = "none" /\ target \in Copies
        /\ stopper = "none" /\ timer = "off"
    BY <1>2 DEF Init, Calls, Copies
  <1> QED
    BY <1>2, <1>3, <1>4, <1>5 DEF TypeOK

\* Every step keeps the types.
LEMMA NextType == ASSUME TypeOK, [Next]_vars PROVE TypeOK'
  <1> USE NvramAssumption
  <1>1. CASE Change
    BY <1>1 DEF Change, TypeOK, Sequences, files, save, driver, history
  <1>2. CASE Crash
    <2>1. Newest(disk') \in Sequences
      BY <1>2, CrashLeaves, NewestType
    <2>2. 0 \in Sequences /\ 0 \in Copies
      BY DEF Sequences, Copies
    <2> QED
      BY <1>2, <2>1, <2>2, CrashLeaves DEF Crash, NoSave, TypeOK, Calls, history
  <1>3. CASE Boot \/ Unload \/ StopBegin \/ StopTimer \/ Rearm
    <2>1. UNCHANGED <<store, files, save, saved, history>>
      BY <1>3 DEF Boot, Unload, StopBegin, StopTimer, Rearm, firmware, driver
    <2>2. /\ {up, loaded, stopping}' \subseteq BOOLEAN
          /\ stopper' \in {"none", "timer", "lock", "saving", "done"}
          /\ timer' \in {"off", "armed", "running", "rearm", "arming"}
      BY <1>3 DEF Boot, Unload, StopBegin, StopTimer, Rearm, firmware, driver, TypeOK
    <2> QED
      BY <2>1, <2>2 DEF TypeOK, files, save, history
  <1>7. CASE Load
    <2>1. 0 \in Sequences
      BY DEF Sequences
    <2> QED
      BY <1>7, <2>1 DEF Load, TypeOK, firmware, files, save, history
  <1>4. CASE TimerFire \/ Flush \/ StopSave
    BY <1>4 DEF TimerFire, Flush, StopSave, Begin, TypeOK, Calls, firmware, files, save,
                driver, history
  <1>5. CASE SaveStep
    BY <1>5, SaveType
  <1>6. CASE UNCHANGED vars
    BY <1>6 DEF vars, firmware, files, save, driver, history, TypeOK
  <1> QED
    BY <1>1, <1>2, <1>3, <1>4, <1>5, <1>6, <1>7 DEF Next

-------------------------------------------------------------------------------
(* The two files.                                                           *)

\* A copy that is valid and newer than the header of the other is selected.
LEMMA NewestOf ==
  ASSUME NEW d \in [Copies -> Image], NEW g \in Copies,
         d[g].header = d[g].data, Value(d[1 - g]) < d[g].header
  PROVE  Selected(d) = g /\ Newest(d) = d[g].header
  BY DEF Selected, Newest, Value, Copies, Image, Sequences

\* The value of a copy is no larger than its header.
LEMMA ValueBound == ASSUME NEW i \in Image PROVE Value(i) \in Nat /\ Value(i) <= i.header
  BY DEF Value, Image, Sequences

\* While nothing is written, the good copy is the one that is selected.
LEMMA QuietNewest ==
  ASSUME TypeOK, NEW g \in Copies, Good(g), Older(1 - g, g)
  PROVE  /\ Selected(disk) = g /\ Newest(disk) = disk[g].header
         /\ Newest(media) = disk[g].header
  <1>1. disk \in [Copies -> Image] /\ media \in [Copies -> Image] /\ 1 - g \in Copies
    BY DEF TypeOK, Copies
  <1>2. Value(disk[1 - g]) < disk[g].header /\ Value(media[1 - g]) < disk[g].header
    BY <1>1, ValueBound DEF Older, Image, Sequences
  <1> QED
    BY <1>1, <1>2, NewestOf DEF Good

\* While Commit writes, a restart would find the other copy, until the header is
\* on the media.
LEMMA CommittingNewest ==
  ASSUME TypeOK, Writing, Committing
  PROVE  Newest(media) = IF pc = "verify" THEN snap ELSE disk[1 - target].header
  <1>1. /\ disk \in [Copies -> Image] /\ media \in [Copies -> Image] /\ snap \in Nat
        /\ target \in Copies /\ 1 - target \in Copies /\ 1 - (1 - target) = target
    BY DEF TypeOK, Copies, Sequences
  <1>2. CASE pc = "verify"
    <2>1. media[target].header = snap /\ media[target].data = snap
      BY <1>2 DEF Committing, DataOnMedia
    <2>2. Value(media[1 - target]) < snap
      BY <1>1, ValueBound DEF Committing, Good, Image, Sequences
    <2> QED
      BY <1>1, <1>2, <2>1, <2>2, NewestOf
  <1>3. CASE pc # "verify"
    <2>1. media[target].header < disk[1 - target].header
      BY <1>3 DEF Writing, Committing, Older
    <2>2. Value(media[target]) < media[1 - target].header
      BY <1>1, <2>1, ValueBound DEF Committing, Good, Image, Sequences
    <2> QED
      BY <1>1, <1>3, <2>2, NewestOf DEF Committing, Good
  <1> QED
    BY <1>2, <1>3

-------------------------------------------------------------------------------
(* Every step keeps the files in order.                                     *)

\* The steps that touch neither the files nor what Commit works with.
Outside == Change \/ Boot \/ Load \/ Unload \/ TimerFire \/ Rearm \/ Flush \/ StopBegin
           \/ StopTimer \/ StopSave \/ UNCHANGED vars

\* What they leave alone.
LEMMA OutsideFrame ==
  ASSUME TypeOK, Outside
  PROVE  /\ UNCHANGED <<disk, media, target, snap, info, promised>>
         /\ store' \in {store, store + 1}
         /\ pc' = pc \/ (pc = "idle" /\ pc' = "info")
         /\ asked' \in {asked, store}
  BY DEF Outside, Change, Boot, Load, Unload, TimerFire, Rearm, Flush, StopBegin, StopTimer,
         StopSave, Begin, vars, firmware, files, save, driver, history

\* They keep the files in order.
LEMMA OutsideFiles == ASSUME TypeOK, FilesInv, Outside PROVE FilesInv'
  <1>1. /\ UNCHANGED <<disk, media, target, snap>> /\ store' \in {store, store + 1}
        /\ pc' = pc \/ (pc = "idle" /\ pc' = "info")
    BY OutsideFrame
  <1>2. store \in Nat
    BY DEF TypeOK, Sequences
  <1>3. ASSUME NEW c \in Copies, Good(c) PROVE Good(c)'
    BY <1>1, <1>2, <1>3 DEF Good
  <1>4. CASE Writing
    <2>1. Writing' /\ pc' = pc
      BY <1>1, <1>4 DEF Writing
    <2>2. 1 - target \in Copies
      BY DEF TypeOK, Copies
    <2> QED
      BY <1>1, <1>3, <1>4, <2>1, <2>2 DEF FilesInv, Committing, Older, DataOnDisk, DataOnMedia
  <1>5. CASE ~Writing
    <2>1. ~Writing'
      BY <1>1, <1>5 DEF Writing
    <2> QED
      BY <1>1, <1>3, <1>5, <2>1 DEF FilesInv, Quiet, Older
  <1> QED
    BY <1>4, <1>5

\* A copy that is on the media survives the loss of power.
LEMMA CrashSettles ==
  ASSUME TypeOK, Crash, NEW c \in Copies, media[c] = disk[c]
  PROVE  disk'[c] = disk[c]
  <1>1. disk'[c].header = disk[c].header /\ disk'[c].data = disk[c].data
    BY CrashLeaves DEF Left
  <1>2. disk'[c] \in Image /\ disk[c] \in Image
    BY CrashLeaves DEF TypeOK
  <1> QED
    BY <1>1, <1>2 DEF Image

\* When power is lost with one copy good and the other older, the good one is found.
LEMMA CrashKeeps ==
  ASSUME TypeOK, Crash, NEW g \in Copies, Good(g),
         disk'[1 - g].header < disk[g].header
  PROVE  Quiet' /\ Newest(disk') = disk[g].header
  <1>1. disk'[g] = disk[g] /\ media' = disk' /\ disk' \in [Copies -> Image]
    BY CrashSettles, CrashLeaves DEF Good
  <1>2. 1 - g \in Copies /\ disk'[1 - g] \in Image /\ disk[g] \in Image
    BY <1>1 DEF Copies, TypeOK
  <1>3. Value(disk'[1 - g]) < disk[g].header
    BY <1>2, ValueBound DEF Image, Sequences
  <1>4. Newest(disk') = disk[g].header
    BY <1>1, <1>3, NewestOf DEF Good
  <1>5. store' = disk[g].header
    BY <1>4 DEF Crash
  <1>6. Good(g)'
    BY <1>1, <1>2, <1>5 DEF Good, Image, Sequences
  <1>7. Older(1 - g, g)'
    BY <1>1 DEF Older
  <1> QED
    BY <1>4, <1>6, <1>7 DEF Quiet

\* The header that is left is one of the two, or torn, which is older than any good copy.
LEMMA CrashOlder ==
  ASSUME TypeOK, Crash, NEW g \in Copies, Good(g), NEW c \in Copies, Older(c, g)
  PROVE  disk'[c].header < disk[g].header
  <1>1. disk'[c].header \in {media[c].header, disk[c].header, 0}
    BY CrashLeaves DEF Left, Torn
  <1>2. disk[g].header > 0
    BY DEF Good, TypeOK, Sequences
  <1> QED
    BY <1>1, <1>2 DEF Older

\* Losing power keeps the files in order, and what is found is between the durable image
\* and the firmware's.
LEMMA CrashFiles ==
  ASSUME TypeOK, FilesInv, OrderInv, Crash
  PROVE  FilesInv' /\ Newest(disk') \in Newest(media)..store
  <1>1. ~Writing'
    BY DEF Crash, NoSave, Writing
  <1>2. store \in Nat /\ snap \in Nat
    BY DEF TypeOK, Sequences
  <1>3. ASSUME NEW g \in Copies, Good(g), disk'[1 - g].header < disk[g].header,
               Newest(media) = disk[g].header
        PROVE  FilesInv' /\ Newest(disk') \in Newest(media)..store
    <2>1. Quiet' /\ Newest(disk') = disk[g].header
      BY <1>3, CrashKeeps
    <2> QED
      BY <1>1, <1>2, <1>3, <2>1 DEF FilesInv, Good
  <1>4. CASE ~Writing
    <2>1. PICK g \in Copies : Good(g) /\ Older(1 - g, g)
      BY <1>4 DEF FilesInv, Quiet
    <2>2. 1 - g \in Copies
      BY DEF Copies
    <2> QED
      BY <1>3, <2>1, <2>2, CrashOlder, QuietNewest
  <1>5. CASE Writing
    <2> DEFINE g == 1 - target
    <2>1. /\ Committing /\ g \in Copies /\ target \in Copies /\ 1 - g = target
          /\ Newest(media) = IF pc = "verify" THEN snap ELSE disk[g].header
      BY <1>5, CommittingNewest DEF FilesInv, TypeOK, Copies
    <2>2. CASE pc \in {"data", "dataFlush", "header"}
      BY <1>3, <2>1, <2>2, CrashOlder DEF Committing
    <2>3. CASE pc \in {"headerFlush", "verify"}
      <3>1. /\ disk'[target].header \in {media[target].header, snap, 0}
            /\ disk'[target].data = snap
        BY <2>1, <2>3, CrashLeaves DEF Committing, DataOnDisk, DataOnMedia, Left, Torn
      <3>2. CASE disk'[target].header = snap
        <4>1. disk'[g] = disk[g] /\ media' = disk' /\ disk' \in [Copies -> Image]
          BY <2>1, CrashSettles, CrashLeaves DEF Committing, Good
        <4>2. disk'[g].header < snap /\ snap \in 1..store /\ disk[g].header \in Nat
          BY <1>2, <2>1, <4>1 DEF Committing, Good, OrderInv
        <4>3. Value(disk'[g]) < snap
          BY <1>2, <2>1, <4>1, <4>2, ValueBound DEF Image, Sequences
        <4>4. Newest(disk') = snap
          BY <2>1, <3>1, <3>2, <4>1, <4>3, NewestOf
        <4>5. store' = snap
          BY <4>4 DEF Crash
        <4>6. PICK c \in Copies : c = target
          BY <2>1
        <4>7. Good(c)' /\ Older(1 - c, c)'
          BY <1>2, <2>1, <3>1, <3>2, <4>1, <4>2, <4>5, <4>6 DEF Good, Older
        <4>8. Newest(media) <= snap
          BY <1>2, <2>1, <4>2 DEF Committing
        <4>9. Newest(media) \in Nat
          BY NewestType DEF TypeOK, Sequences
        <4> QED
          BY <1>1, <1>2, <4>2, <4>4, <4>7, <4>8, <4>9 DEF FilesInv, Quiet
      <3>3. CASE disk'[target].header # snap
        <4>1. pc # "verify"
          BY <2>1, <3>3, CrashLeaves DEF Committing, Left
        <4>2. /\ pc = "headerFlush" /\ media[target].header < disk[g].header
              /\ Newest(media) = disk[g].header /\ Good(g)
          BY <2>1, <2>3, <4>1 DEF Committing
        <4>3. disk'[target].header < disk[g].header
          BY <2>1, <3>1, <3>3, <4>2 DEF Good, TypeOK, Sequences
        <4> QED
          BY <1>3, <2>1, <4>2, <4>3
      <3> QED
        BY <3>2, <3>3
    <2> QED
      BY <1>5, <2>2, <2>3 DEF Writing
  <1> QED
    BY <1>4, <1>5

\* What the ends of Save leave alone.
LEMMA EndFrame ==
  ASSUME Succeed \/ Fail \/ Refuse
  PROVE  store' = store /\ ~Writing' /\ pc' = "idle" /\ asked' = 0 /\ info' = 0 /\ snap' = 0
  BY DEF Succeed, Fail, Refuse, Return, NoSave, Frame, firmware, Writing

\* What the other steps of Save leave alone.
LEMMA GotoFrame ==
  ASSUME NEW call \in Calls, Goto(call)
  PROVE  store' = store /\ pc' = call /\ asked' = asked /\ promised' = promised
  BY DEF Goto, Frame, firmware, history

\* Quiet speaks of the files and the firmware's number only.
LEMMA QuietKept ==
  ASSUME Quiet, UNCHANGED <<disk, media, store>>
  PROVE  Quiet'
  BY DEF Quiet, Good, Older

\* Save before its first write.
LEMMA SearchFiles ==
  ASSUME TypeOK, FilesInv, OrderInv, ReadInfo \/ Snapshot \/ Discover \/ Open
  PROVE  FilesInv' /\ UNCHANGED <<media, store>>
  <1>1. Quiet /\ UNCHANGED <<disk, media>>
    BY DEF ReadInfo, Snapshot, Discover, Open, Writing, FilesInv, files
  <1>2. CASE Succeed \/ Fail \/ Refuse
    BY <1>1, <1>2, EndFrame, QuietKept DEF FilesInv
  <1>3. CASE Goto("snapshot") \/ Goto("discover") \/ Goto("open")
    BY <1>1, <1>3, GotoFrame, QuietKept DEF FilesInv, Writing, Calls
  <1>4. CASE Goto("data") /\ target' = OtherCopy(Selected(disk)) /\ snap' = snap
             /\ Newest(disk) < snap
    <2>1. PICK g \in Copies : Good(g) /\ Older(1 - g, g)
      BY <1>1 DEF Quiet
    <2>2. Selected(disk) = g /\ Newest(disk) = disk[g].header
      BY <2>1, QuietNewest
    <2>3. target' = 1 - g /\ 1 - target' = g
      BY <1>4, <2>2 DEF OtherCopy, Copies
    <2>4. pc' = "data" /\ store' = store
      BY <1>4, GotoFrame DEF Calls
    <2>5. Good(g)' /\ Older(1 - g, g)'
      BY <1>1, <2>1, <2>4 DEF Good, Older
    <2>6. Committing'
      BY <1>1, <1>4, <2>2, <2>3, <2>4, <2>5 DEF Committing, Good, Older
    <2> QED
      BY <1>1, <2>4, <2>6 DEF FilesInv, Writing
  <1>5. \/ Succeed \/ Fail \/ Refuse
        \/ Goto("snapshot") \/ Goto("discover") \/ Goto("open")
        \/ Goto("data") /\ target' = OtherCopy(Selected(disk)) /\ snap' = snap
           /\ Newest(disk) < snap
    <2>1. snap \in Nat
      BY DEF TypeOK, Sequences
    <2> QED
      BY <2>1 DEF ReadInfo, Snapshot, Discover, Open
  <1> QED
    BY <1>2, <1>3, <1>4, <1>5

\* A failure while the target is being written leaves the other copy.
LEMMA FailedCommit ==
  ASSUME TypeOK, NEW g \in Copies, Good(g), Older(1 - g, g)', 
         UNCHANGED <<store, media>>, disk'[g] = disk[g], ~Writing'
  PROVE  FilesInv'
  <1>1. Good(g)'
    BY DEF Good
  <1> QED
    BY <1>1 DEF FilesInv, Quiet

\* The writes and flushes of Commit.
LEMMA CommitFiles ==
  ASSUME FailedIsNotWhole, TypeOK, FilesInv, OrderInv, WriteParts
  PROVE  FilesInv'
  <1> DEFINE g == 1 - target
  <1>1. /\ target \in Copies /\ g \in Copies /\ g # target /\ 1 - g = target
        /\ disk \in [Copies -> Image] /\ media \in [Copies -> Image]
        /\ snap \in Nat /\ snap \in Sequences /\ store \in Nat
        /\ disk[target] \in Image /\ disk[g] \in Image
    BY DEF TypeOK, Copies, Sequences
  <1>2. Writing /\ Committing
    BY DEF WriteParts, Write, FlushPart, Writing, FilesInv
  <1>3. PICK h \in Copies : h = g
    BY <1>1
  <1>4. ASSUME NEW call \in Calls, Goto(call), UNCHANGED <<target, snap>>
        PROVE  pc' = call /\ store' = store /\ g' = g
    BY <1>4, GotoFrame
  <1>6. ASSUME NEW part \in {"data", "header"}, WriteFails(part), pc = part
        PROVE  FilesInv'
    <2>1. PICK value \in {disk[target][part], Torn} : Written(part, value)
      BY <1>6 DEF WriteFails, FailedIsNotWhole
    <2>2. store' = store /\ ~Writing'
      BY <1>6, EndFrame DEF WriteFails
    <2>3. disk'[h] = disk[h] /\ disk'[h].header > 0
      <3>1. disk'[h] = disk[h]
        BY <1>1, <1>3, <2>1 DEF Written
      <3>2. Good(h)
        BY <1>2, <1>3 DEF Committing
      <3> QED
        BY <1>1, <3>1, <3>2 DEF Good
    <2>4. Older(1 - h, h) /\ 1 - h = target
      BY <1>1, <1>2, <1>3, <1>6 DEF Committing
    <2>5. disk'[1 - h].header \in {disk[1 - h].header, 0} /\ media' = media
      <3>1. disk'[target] = [disk[target] EXCEPT ![part] = value] /\ media' = media
        BY <1>1, <2>1 DEF Written
      <3>2. value = Torn \/ value = disk[target][part]
        BY <2>1
      <3>3. CASE part = "data"
        BY <1>1, <2>4, <3>1, <3>3 DEF Image
      <3>4. CASE part = "header"
        BY <1>1, <2>4, <3>1, <3>2, <3>4 DEF Image, Torn
      <3> QED
        BY <3>3, <3>4
    <2>6. Older(1 - h, h)'
      BY <2>3, <2>4, <2>5 DEF Older
    <2> QED
      BY <1>2, <1>3, <2>2, <2>3, <2>5, <2>6, FailedCommit DEF Committing
  <1>7. ASSUME NEW part \in {"data", "header"}, NEW next \in Calls, pc = part,
               Goto(next), Written(part, snap), UNCHANGED <<target, info, snap>>,
               next = IF part = "data" THEN "dataFlush" ELSE "headerFlush"
        PROVE  FilesInv'
    <2>1. pc' = next /\ store' = store /\ disk'[g] = disk[g] /\ media' = media
          /\ target' = target /\ snap' = snap /\ Writing'
      BY <1>1, <1>4, <1>7 DEF Written, Writing
    <2>2. Good(1 - target)' /\ disk'[1 - target].header < snap
      BY <1>2, <2>1 DEF Committing, Good
    <2>3. CASE part = "data"
      <3>1. disk'[target].data = snap /\ disk'[target].header = disk[target].header
        BY <1>1, <1>7, <2>3 DEF Written, Image
      <3> QED
        BY <1>2, <1>7, <2>1, <2>2, <2>3, <3>1 DEF FilesInv, Committing, Older, DataOnDisk
    <2>4. CASE part = "header"
      <3>1. disk'[target].header = snap /\ disk'[target].data = disk[target].data
        BY <1>1, <1>7, <2>4 DEF Written, Image
      <3> QED
        BY <1>2, <1>7, <2>1, <2>2, <2>4, <3>1
           DEF FilesInv, Committing, Older, DataOnDisk, DataOnMedia
    <2> QED
      BY <2>3, <2>4
  <1>8. ASSUME NEW call \in {"dataFlush", "headerFlush"}, NEW next \in Calls,
               FlushPart(call, next),
               next = IF call = "dataFlush" THEN "header" ELSE "verify"
        PROVE  FilesInv'
    <2>1. /\ pc = call /\ pc' = next /\ store' = store /\ disk' = disk
          /\ media'[target] = disk[target] /\ media'[g] = media[g]
          /\ target' = target /\ snap' = snap /\ Writing'
      BY <1>1, <1>4, <1>8 DEF FlushPart, Writing
    <2>2. Good(1 - target)' /\ disk'[1 - target].header < snap
      BY <1>2, <2>1 DEF Committing, Good
    <2> QED
      BY <1>2, <1>8, <2>1, <2>2 DEF FilesInv, Committing, Older, DataOnDisk, DataOnMedia
  <1>9. ASSUME NEW part \in {"data", "header"}, NEW next \in Calls, Write(part, part, next),
               next = IF part = "data" THEN "dataFlush" ELSE "headerFlush"
        PROVE  FilesInv'
    BY <1>6, <1>7, <1>9 DEF Write
  <1> QED
    BY <1>8, <1>9 DEF WriteParts, Calls

\* The new image is the good copy, whatever its verification says.
LEMMA VerifyFiles ==
  ASSUME TypeOK, FilesInv, OrderInv, Verify
  PROVE  FilesInv' /\ UNCHANGED <<media, store>>
  <1>1. PICK t \in Copies : t = target
    BY DEF TypeOK
  <1>2. Writing /\ Committing /\ UNCHANGED <<disk, media>>
    BY DEF Verify, Writing, FilesInv, files
  <1>3. store' = store /\ ~Writing'
    BY EndFrame DEF Verify
  <1>4. disk[t] \in Image /\ media[t] \in Image /\ snap \in Nat /\ store \in Nat
    BY DEF TypeOK, Sequences
  <1>5. /\ disk[t].header = snap /\ media[t].header = snap
        /\ disk[t].data = snap /\ media[t].data = snap
    BY <1>1, <1>2 DEF Verify, Committing, DataOnDisk, DataOnMedia
  <1>6. Good(t)'
    BY <1>1, <1>2, <1>3, <1>4, <1>5 DEF Good, Committing, OrderInv, Image
  <1>7. Older(1 - t, t)'
    BY <1>1, <1>2, <1>3, <1>5 DEF Older, Committing, Good
  <1> QED
    BY <1>2, <1>3, <1>6, <1>7 DEF FilesInv, Quiet

\* Every step of Save keeps the files in order, and only the flush of the header
\* changes what a restart would find: it becomes the snapshot.
LEMMA SaveFiles ==
  ASSUME FailedIsNotWhole, TypeOK, TypeOK', FilesInv, OrderInv, SaveStep
  PROVE  /\ FilesInv' /\ store' = store
         /\ \/ Newest(media') = Newest(media)
            \/ Newest(media') = snap /\ Newest(media) < snap
  <1>1. CASE ReadInfo \/ Snapshot \/ Discover \/ Open
    BY <1>1, SearchFiles
  <1>2. CASE Verify
    BY <1>2, VerifyFiles
  <1>3. CASE WriteParts
    <2>1. FilesInv' /\ Writing /\ Committing
      BY <1>3, CommitFiles DEF WriteParts, Write, FlushPart, Writing, FilesInv
    <2>2. ASSUME NEW part \in {"data", "header"}, NEW next \in Calls, Write(part, part, next)
          PROVE  store' = store /\ media' = media
      BY <2>2, EndFrame, GotoFrame DEF Write, WriteFails, Written
    <2>3. ASSUME NEW call \in {"dataFlush", "headerFlush"}, NEW next \in Calls,
                 FlushPart(call, next),
                 next = IF call = "dataFlush" THEN "header" ELSE "verify"
          PROVE  /\ store' = store
                 /\ \/ Newest(media') = Newest(media)
                    \/ Newest(media') = snap /\ Newest(media) < snap
      <3> DEFINE g == 1 - target
      <3>1. /\ pc = call /\ store' = store /\ target \in Copies /\ g \in Copies
            /\ g # target /\ 1 - g = target /\ snap \in Nat
            /\ disk \in [Copies -> Image] /\ media' \in [Copies -> Image]
        BY <2>3, GotoFrame DEF FlushPart, TypeOK, Copies, Sequences
      <3>2. media'[target] = disk[target] /\ media'[g] = disk[g]
        BY <2>1, <2>3, <3>1 DEF FlushPart, TypeOK, Committing, Good
      <3>3. disk[g].header = disk[g].data /\ disk[g].header < snap
        BY <2>1 DEF Committing, Good
      <3>4. Newest(media) = disk[g].header
        BY <2>1, <2>3, <3>1, CommittingNewest
      <3>5. CASE call = "dataFlush"
        <4>1. disk[target].header < disk[g].header
          BY <2>1, <3>1, <3>5 DEF Committing, Older
        <4>2. Value(media'[target]) < disk[g].header
          BY <3>1, <3>2, <4>1, ValueBound DEF Image, Sequences
        <4>3. Newest(media') = disk[g].header
          BY <3>1, <3>2, <3>3, <4>2, NewestOf
        <4> QED
          BY <3>1, <3>4, <4>3
      <3>6. CASE call = "headerFlush"
        <4>1. disk[target].header = snap /\ disk[target].data = snap
          BY <2>1, <3>1, <3>6 DEF Committing, DataOnDisk
        <4>2. Value(media'[g]) < snap
          BY <3>1, <3>2, <3>3, ValueBound DEF Image, Sequences
        <4>3. Newest(media') = snap
          BY <3>1, <3>2, <4>1, <4>2, NewestOf
        <4> QED
          BY <3>1, <3>3, <3>4, <4>3
      <3> QED
        BY <3>5, <3>6
    <2> QED
      BY <1>3, <2>1, <2>2, <2>3 DEF WriteParts, Calls
  <1> QED
    BY <1>1, <1>2, <1>3 DEF SaveStep

\* Every step keeps the order of the numbers.
LEMMA OrderStep ==
  ASSUME TypeOK, TypeOK', FilesInv, OrderInv, [Next]_vars
  PROVE  OrderInv'
  <1>1. {store, store', snap, info, asked} \subseteq Nat
    BY DEF TypeOK, Sequences
  <1>2. CASE Outside
    <2>1. CASE Flush
      BY <1>1, <2>1 DEF Flush, Begin, OrderInv, firmware
    <2>2. CASE ~Flush
      <3>1. asked' = asked
        BY <1>2, <2>2 DEF Outside, Change, Boot, Load, Unload, TimerFire, Rearm, StopBegin,
                          StopTimer, StopSave, vars, save
      <3> QED
        BY <1>1, <1>2, <3>1, OutsideFrame DEF OrderInv
    <2> QED
      BY <2>1, <2>2
  <1>3. CASE Crash
    BY <1>1, <1>3 DEF Crash, NoSave, OrderInv
  <1>4. CASE Succeed \/ Fail \/ Refuse
    BY <1>1, <1>4, EndFrame DEF OrderInv
  <1>5. CASE SaveStep /\ ~(Succeed \/ Fail \/ Refuse)
    <2>1. CASE ReadInfo
      <3>1. pc = "info" /\ Goto("snapshot") /\ info' = store /\ snap' = snap
        BY <1>5, <2>1 DEF ReadInfo
      <3> QED
        BY <1>1, <3>1, GotoFrame DEF OrderInv, Calls
    <2>2. CASE Snapshot
      <3>1. pc = "snapshot" /\ Goto("discover") /\ snap' = store /\ info' = info
        BY <1>5, <2>2 DEF Snapshot
      <3> QED
        BY <1>1, <3>1, GotoFrame DEF OrderInv, Calls
    <2>3. CASE Discover \/ Open \/ WriteParts
      <3>1. /\ pc \notin {"idle", "info", "snapshot"} /\ UNCHANGED <<info, snap>>
            /\ \E call \in Calls : Goto(call) 
        BY <1>5, <2>3 DEF Discover, Open, WriteParts, Write, WriteFails, FlushPart, Calls
      <3> QED
        BY <1>1, <3>1, GotoFrame DEF OrderInv
    <2>4. CASE Verify
      BY <1>5, <2>4 DEF Verify
    <2> QED
      BY <1>5, <2>1, <2>2, <2>3, <2>4 DEF SaveStep
  <1> QED
    BY <1>2, <1>3, <1>4, <1>5 DEF Next, Outside

\* What is reported as saved is on the media.
LEMMA SucceedKeepsPromise ==
  ASSUME TypeOK, FilesInv, OrderInv, Succeed,
         (pc = "open" /\ Newest(disk) = snap) \/ pc = "verify"
  PROVE  promised' \in {promised, Newest(media)}
  <1>1. {promised, snap, asked, info} \subseteq Nat
    BY DEF TypeOK, Sequences
  <1>2. snap = Newest(media)
    <2>1. CASE pc = "open"
      <3>1. Quiet
        BY <2>1 DEF FilesInv, Writing
      <3> QED
        BY <2>1, <3>1, QuietNewest DEF Quiet
    <2>2. CASE pc = "verify"
      BY <2>2, CommittingNewest DEF Writing, FilesInv
    <2> QED
      BY <2>1, <2>2
  <1>3. asked <= snap
    BY <1>1 DEF OrderInv
  <1> QED
    BY <1>1, <1>2, <1>3 DEF Succeed, Larger

\* Every step keeps what was reported.
LEMMA PromiseStep ==
  ASSUME FailedIsNotWhole, TypeOK, TypeOK', FilesInv, OrderInv, PromiseInv, [Next]_vars
  PROVE  PromiseInv'
  <1>1. {promised, store, snap, Newest(media), Newest(media')} \subseteq Nat
    BY NewestType DEF TypeOK, Sequences
  <1>2. CASE Outside
    BY <1>2, OutsideFrame DEF PromiseInv, Newest, Selected
  <1>3. CASE Crash
    <2>1. Newest(disk') \in Newest(media)..store /\ media' = disk' /\ promised' = promised
      BY <1>3, CrashFiles DEF Crash, history
    <2> QED
      BY <1>1, <2>1 DEF PromiseInv
  <1>4. CASE SaveStep
    <2>1. promised' \in {promised, Newest(media)}
      <3>1. CASE ReadInfo \/ Snapshot \/ Discover \/ WriteParts
        BY <3>1 DEF ReadInfo, Snapshot, Discover, WriteParts, Write, WriteFails, FlushPart,
                    Fail, Refuse, Goto, history
      <3>2. CASE Open \/ Verify
        BY <3>2, SucceedKeepsPromise DEF Open, Verify, Fail, Refuse, Goto, history
      <3> QED
        BY <1>4, <3>1, <3>2 DEF SaveStep
    <2> QED
      BY <1>1, <1>4, <2>1, SaveFiles DEF PromiseInv
  <1> QED
    BY <1>2, <1>3, <1>4 DEF Next, Outside

-------------------------------------------------------------------------------
(* The theorems.                                                            *)

\* The first state is in order, and its one image is the firmware's.
LEMMA InitInvariant == Init => IInv /\ store = Newest(media) /\ store = 1
  <1> SUFFICES ASSUME Init PROVE IInv /\ store = Newest(media) /\ store = 1
    OBVIOUS
  <1>1. TypeOK
    BY InitType
  <1>2. 0 \in Copies /\ Good(0) /\ Older(1 - 0, 0)
    BY DEF Init, Good, Older, Copies, Torn
  <1>3. Quiet /\ ~Writing
    BY <1>2 DEF Init, Quiet, Writing
  <1>4. Newest(media) = 1
    BY <1>1, <1>2, QuietNewest DEF Init, Copies
  <1> QED
    BY <1>1, <1>3, <1>4 DEF Init, IInv, FilesInv, OrderInv, PromiseInv

\* The invariant is inductive.
LEMMA NextInvariant == ASSUME FailedIsNotWhole PROVE IInv /\ [Next]_vars => IInv'
  <1> SUFFICES ASSUME IInv, [Next]_vars PROVE IInv'
    OBVIOUS
  <1>1. TypeOK /\ FilesInv /\ OrderInv /\ PromiseInv /\ TypeOK'
    BY NextType DEF IInv
  <1>2. FilesInv'
    <2>1. CASE Outside
      BY <1>1, <2>1, OutsideFiles
    <2>2. CASE Crash
      BY <1>1, <2>2, CrashFiles
    <2>3. CASE SaveStep
      BY <1>1, <2>3, SaveFiles
    <2> QED
      BY <2>1, <2>2, <2>3 DEF Next, Outside
  <1> QED
    BY <1>1, <1>2, OrderStep, PromiseStep DEF IInv

\* Whatever changes, fails or loses power, one copy is good, the other is older or
\* being written, and reports are honest (Commit, Save).
THEOREM Invariance == ASSUME FailedIsNotWhole PROVE Spec => []IInv
  <1> QED
    BY InitInvariant, NextInvariant, PTL DEF Spec

\* Variables have their types: the bounds on sequence numbers and failures are never
\* passed.
THEOREM TypeCorrect == Spec => []TypeOK
  <1> QED
    BY InitType, NextType, PTL DEF Spec

\* What the driver reported as saved, or flushed on request, is on the media and is
\* found whenever power is lost (IOCTL_NV_FLUSH and saved_sequence of IOCTL_NV_QUERY).
THEOREM PromiseIsKept == ASSUME FailedIsNotWhole PROVE Spec => []PromiseKept
  <1>1. IInv => PromiseKept
    BY DEF IInv, PromiseInv, PromiseKept
  <1> QED
    BY <1>1, Invariance, PTL

\* Every step of Save, of the firmware and of the power supply is a step of a durable
\* store: a restart finds a valid image, never an older one than before, never one the
\* firmware did not have.
THEOREM ImplementsDurableStore == ASSUME FailedIsNotWhole PROVE Spec => StoreIsDurable
  <1>1. Init => Durable!Init
    BY InitInvariant DEF Durable!Init
  <1>2. IInv /\ [Next]_vars => [Durable!Next]_Durable!vars
    <2> SUFFICES ASSUME IInv, [Next]_vars PROVE [Durable!Next]_Durable!vars
      OBVIOUS
    <2>1. TypeOK /\ FilesInv /\ OrderInv /\ TypeOK'
      BY NextType DEF IInv
    <2>2. {store, snap, Newest(media), Newest(media')} \subseteq Nat
      BY <2>1, NewestType DEF TypeOK, Sequences
    <2>3. CASE Outside
      <3>1. Newest(media') = Newest(media)
        BY <2>1, <2>3, OutsideFrame
      <3>2. store' = store \/ store' = store + 1
        BY <2>1, <2>3, OutsideFrame
      <3> QED
        BY <3>1, <3>2 DEF Durable!Next, Durable!Change, Durable!vars
    <2>4. CASE Crash
      <3>1. Newest(disk') \in Newest(media)..store /\ media' = disk' /\ store' = Newest(disk')
        BY <2>1, <2>4, CrashFiles DEF Crash
      <3> QED
        BY <3>1 DEF Durable!Next, Durable!Crash
    <2>5. CASE SaveStep
      <3>1. store' = store /\ snap <= store
        BY <2>1, <2>5, SaveFiles DEF OrderInv
      <3>2. CASE Newest(media') = Newest(media)
        BY <3>1, <3>2 DEF Durable!vars
      <3>3. CASE Newest(media') = snap /\ Newest(media) < snap
        BY <2>2, <3>1, <3>3 DEF Durable!Next, Durable!Persist
      <3> QED
        BY <2>1, <2>5, <3>2, <3>3, SaveFiles
    <2> QED
      BY <2>3, <2>4, <2>5 DEF Next, Outside
  <1> QED
    BY <1>1, <1>2, Invariance, PTL DEF Spec, StoreIsDurable, Durable!Spec
===============================================================================

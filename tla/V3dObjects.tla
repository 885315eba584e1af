------------------------------- MODULE V3dObjects -------------------------------
(***************************************************************************)
(* Where the buffers of a memory session go in the GPU's address space     *)
(* (src/pi5-v3d: ObjectPlacement, and what ObjectCreate, ObjectImport,     *)
(* ObjectDestroy and End do with its answer).  The table of objects is     *)
(* searched with the loop of the code, one object per step: an overlap     *)
(* moves the candidate behind the object and starts the search again.      *)
(* Addresses and sizes count pages; what module V3d says about the memory  *)
(* and the hardware is left out here.                                      *)
(***************************************************************************)
EXTENDS Naturals

CONSTANTS
  NumSlots,     \* PI5_V3D_BUFFER_LIMIT
  Base,         \* first address handed out, 0x101000
  Limit,        \* end of the address space, 0xf0000000
  Sizes,        \* sizes of requests, in pages
  MaxOwn,       \* PI5_V3D_MEMORY_MAX_BYTES
  MaxImported,  \* PI5_V3D_IMPORT_TOTAL_BYTES
  MaxSerial     \* UINT32_MAX

Slots == 0..(NumSlots - 1)
Kinds == {"own", "import"}

ASSUME ObjectsAssumption ==
  /\ NumSlots \in Nat /\ Base \in Nat \ {0} /\ Limit \in Nat
  /\ Sizes \subseteq Nat \ {0}
  /\ MaxOwn \in Nat /\ MaxImported \in Nat /\ MaxSerial \in Nat

VARIABLES
  handle,    \* handle[s] of the object in slot s, 0 if there is none
  addr,      \* addr[s], its first page
  bytes,     \* bytes[s], its pages
  kind,      \* kind[s]: "own" or "import"
  serial,    \* c->ObjectSerial
  objectBytes, importedBytes,   \* of the context
  pc,        \* "idle", "bound" (top of the outer loop), "scan" or "found"
  address,   \* the candidate
  i,         \* the object it is compared with
  size, want,   \* the request
  refused    \* history: the last request found no room

objects == <<handle, addr, bytes, kind>>
counts  == <<serial, objectBytes, importedBytes>>
search  == <<pc, address, i, size, want, refused>>
vars    == <<objects, counts, search>>

TypeOK ==
  /\ handle \in [Slots -> Nat] /\ addr \in [Slots -> Nat] /\ bytes \in [Slots -> Nat]
  /\ kind \in [Slots -> Kinds]
  /\ serial \in 0..MaxSerial
  /\ objectBytes \in 0..MaxOwn /\ importedBytes \in 0..MaxImported
  /\ pc \in {"idle", "bound", "scan", "found"}
  /\ address \in Nat /\ i \in 0..NumSlots /\ size \in Nat /\ want \in Kinds
  /\ refused \in BOOLEAN

Used(s) == handle[s] # 0

\* Mutant: one guard page between two objects is taken to be enough.
Overlap_OneGuard(a, n, s) == a < addr[s] + bytes[s] + 1 /\ a + n + 1 > addr[s]

\* The two objects are closer than a guard page of each.
Overlap(a, n, s) == a - 1 < addr[s] + bytes[s] + 1 /\ a + n + 1 > addr[s] - 1

FirstFree(s) == ~Used(s) /\ \A r \in Slots : r < s => Used(r)

-------------------------------------------------------------------------------
\* The budget of the kind, a handle and a slot must be left.
Request(n, k) ==
  /\ pc = "idle"
  /\ IF k = "own" THEN n <= MaxOwn - objectBytes ELSE n <= MaxImported - importedBytes
  /\ serial # MaxSerial /\ \E s \in Slots : ~Used(s)
  /\ pc' = "bound" /\ address' = Base /\ i' = 0 /\ size' = n /\ want' = k
  /\ refused' = FALSE
  /\ UNCHANGED <<objects, counts>>

BoundAt(end) ==
  /\ pc = "bound" /\ i' = 0
  /\ IF end > Limit
       THEN pc' = "idle" /\ refused' = TRUE
       ELSE pc' = "scan" /\ UNCHANGED refused
  /\ UNCHANGED <<objects, counts, address, size, want>>

\* Mutant: the last page is taken to be needed too.
Bound_TooEarly == BoundAt(address + size + 2)

Bound == BoundAt(address + size + 1)

\* The next step of the inner loop; past is where a candidate goes that overlaps.
ScanPast(past) ==
  /\ pc = "scan"
  /\ \/ /\ i = NumSlots
        /\ pc' = "found" /\ UNCHANGED <<address, i>>
     \/ /\ i # NumSlots /\ Used(i) /\ Overlap(address, size, i)
        /\ pc' = "bound" /\ address' = past /\ UNCHANGED i
     \/ /\ i # NumSlots /\ ~(Used(i) /\ Overlap(address, size, i))
        /\ i' = i + 1 /\ UNCHANGED <<pc, address>>
  /\ UNCHANGED <<objects, counts, size, want, refused>>

Scan == ScanPast(addr[i] + bytes[i] + 2)

\* The object is entered; or V3dDrain, Guards or Allocate failed before that.
EnterAs(number) ==
  /\ pc = "found" /\ pc' = "idle"
  /\ \/ UNCHANGED <<objects, counts>>
     \/ \E s \in Slots :
          /\ FirstFree(s)
          /\ serial' = number
          /\ handle' = [handle EXCEPT ![s] = number]
          /\ addr' = [addr EXCEPT ![s] = address]
          /\ bytes' = [bytes EXCEPT ![s] = size]
          /\ kind' = [kind EXCEPT ![s] = want]
          /\ IF want = "own"
               THEN objectBytes' = objectBytes + size /\ UNCHANGED importedBytes
               ELSE importedBytes' = importedBytes + size /\ UNCHANGED objectBytes
  /\ UNCHANGED <<address, i, size, want, refused>>

Enter == EnterAs(serial + 1)

Forget(s) ==
  /\ handle' = [handle EXCEPT ![s] = 0]
  /\ addr' = [addr EXCEPT ![s] = 0] /\ bytes' = [bytes EXCEPT ![s] = 0]
  /\ kind' = [kind EXCEPT ![s] = "own"]

Destroy(s) ==
  /\ pc = "idle" /\ Used(s) /\ Forget(s)
  /\ IF kind[s] = "own"
       THEN objectBytes' = objectBytes - bytes[s] /\ UNCHANGED importedBytes
       ELSE importedBytes' = importedBytes - bytes[s] /\ UNCHANGED objectBytes
  /\ UNCHANGED <<serial, search>>

ForgetAll ==
  /\ handle' = [s \in Slots |-> 0] /\ addr' = [s \in Slots |-> 0]
  /\ bytes' = [s \in Slots |-> 0] /\ kind' = [s \in Slots |-> "own"]
  /\ objectBytes' = 0

\* Mutant: one budget is forgotten.
End_KeepsImported ==
  pc = "idle" /\ ForgetAll /\ UNCHANGED <<importedBytes, serial, search>>

\* The objects of the session are forgotten, the serial number is kept.
End == pc = "idle" /\ ForgetAll /\ importedBytes' = 0 /\ UNCHANGED <<serial, search>>

Init ==
  /\ handle = [s \in Slots |-> 0] /\ addr = [s \in Slots |-> 0]
  /\ bytes = [s \in Slots |-> 0] /\ kind = [s \in Slots |-> "own"]
  /\ serial = 0 /\ objectBytes = 0 /\ importedBytes = 0
  /\ pc = "idle" /\ address = Base /\ i = 0 /\ size = 0 /\ want = "own" /\ refused = FALSE

Placement == Bound \/ Scan \/ Enter

Next ==
  \/ \E n \in Sizes, k \in Kinds : Request(n, k)
  \/ Placement
  \/ \E s \in Slots : Destroy(s)
  \/ End

Spec == Init /\ [][Next]_vars /\ WF_vars(Placement)

-------------------------------------------------------------------------------
(* Properties.                                                              *)

\* Between any two objects lie two pages no table entry maps: an overrun of a job
\* faults before it reaches another object (the guards of a memory session).
Apart ==
  \A s, r \in Slots :
    s # r /\ Used(s) /\ Used(r) =>
      \/ addr[s] + bytes[s] + 2 <= addr[r]
      \/ addr[r] + bytes[r] + 2 <= addr[s]

\* Every object lies behind the fixed buffers and before the end, with its guard.
InRange ==
  \A s \in Slots : Used(s) =>
    /\ Base <= addr[s] /\ bytes[s] # 0
    /\ addr[s] + bytes[s] + 1 <= Limit

\* The candidate is the lowest address with room: the loop skips none.
NoneSkipped ==
  pc # "idle" =>
    \A a \in Base..(address - 1) : \E s \in Slots : Used(s) /\ Overlap(a, size, s)

\* A request is refused for want of room only if there is no room.
RefusedRightly ==
  [][refused' /\ ~refused =>
       \A a \in Base..Limit :
         a + size + 1 <= Limit => \E s \in Slots : Used(s) /\ Overlap(a, size, s)]_vars

\* A handle names one object at a time and, once destroyed, none again: also not
\* in a later session (the comment on handles in pi5-v3d.h).
HandlesAreUnique ==
  /\ \A s, r \in Slots : Used(s) /\ handle[s] = handle[r] => s = r
  /\ \A s \in Slots : handle[s] <= serial

HandlesNotReused ==
  [][/\ serial' >= serial
     /\ \A s \in Slots : handle'[s] \notin {0, handle[s]} =>
          handle'[s] > serial /\ handle'[s] = serial']_vars

===============================================================================

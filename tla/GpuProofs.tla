------------------------------- MODULE GpuProofs -------------------------------
(***************************************************************************)
(* Proofs about the GPU's driver: the placement and the budgets of objects *)
(* (V3dObjects) for any number of slots and any sizes and addresses, the   *)
(* sessions (V3d), the wait (V3dWait) and the exchange with the firmware   *)
(* (MbxTransport) for any files, buffers, jobs, units and requests.        *)
(***************************************************************************)
EXTENDS MCGpu, Sequences, FiniteSetTheorems, TLAPS

-------------------------------------------------------------------------------
(* The placement of objects (V3dObjects).                                  *)

\* TypeOK without the budgets.
Types ==
  /\ handle \in [Slots -> Nat] /\ addr \in [Slots -> Nat] /\ bytes \in [Slots -> Nat]
  /\ kind \in [Slots -> Kinds]
  /\ serial \in 0..MaxSerial
  /\ pc \in {"idle", "bound", "scan", "found"}
  /\ address \in Nat /\ i \in 0..NumSlots /\ size \in Nat /\ want \in Kinds

\* What the search has established when it reaches its step.
SearchInv ==
  /\ pc # "idle" => Base <= address /\ size # 0 /\ serial # MaxSerial
  /\ pc \in {"scan", "found"} => address + size + 1 <= Limit
  /\ pc = "scan" => \A j \in Slots : j < i /\ Used(j) => ~Overlap(address, size, j)
  /\ pc = "found" => \A j \in Slots : Used(j) => ~Overlap(address, size, j)

IInv == Types /\ Apart /\ InRange /\ NoneSkipped /\ HandlesAreUnique /\ SearchInv

\* The initial states satisfy the inductive invariant.
LEMMA InitInvariant == Init => IInv
  <1> SUFFICES ASSUME Init PROVE IInv
    OBVIOUS
  <1>1. Types
    BY ObjectsAssumption DEF Init, Types, Kinds, Slots
  <1>2. \A s \in Slots : ~Used(s) /\ handle[s] <= serial
    BY DEF Init, Used
  <1> QED
    BY <1>1, <1>2 DEF Init, IInv, Apart, InRange, NoneSkipped, HandlesAreUnique, SearchInv

\* A request (ObjectCreate, ObjectImport) starts the search at the base address.
LEMMA RequestStep ==
  ASSUME IInv, NEW n \in Sizes, NEW k \in Kinds, Request(n, k)
  PROVE  IInv'
  <1>1. n \in Nat /\ n # 0 /\ Base \in Nat
    BY ObjectsAssumption
  <1>2. \A s \in Slots : Used(s)' = Used(s)
    BY DEF Request, objects, Used
  <1>3. UNCHANGED <<handle, addr, bytes, kind, serial>>
    BY DEF Request, objects, counts
  <1>4. pc' = "bound" /\ address' = Base /\ i' = 0 /\ size' = n /\ want' = k
    BY DEF Request
  <1>5. Types'
    BY <1>1, <1>3, <1>4, ObjectsAssumption DEF IInv, Types
  <1>6. Apart' /\ InRange' /\ HandlesAreUnique'
    BY <1>2, <1>3 DEF IInv, Apart, InRange, HandlesAreUnique
  <1>7. NoneSkipped'
    BY <1>1, <1>4 DEF NoneSkipped
  <1>8. serial # MaxSerial
    BY DEF Request
  <1>9. SearchInv'
    BY <1>1, <1>3, <1>4, <1>8 DEF SearchInv
  <1> QED
    BY <1>5, <1>6, <1>7, <1>9 DEF IInv

\* The test against the end of the address space keeps the invariant.
LEMMA BoundStep == ASSUME IInv, Bound PROVE IInv'
  <1>1. UNCHANGED <<handle, addr, bytes, kind, serial, address, size, want>>
    BY DEF Bound, BoundAt, objects, counts
  <1>2. pc = "bound" /\ pc' \in {"idle", "scan"} /\ i' = 0
        /\ (pc' = "scan" => ~(address + size + 1 > Limit))
    BY DEF Bound, BoundAt
  <1>3. \A s \in Slots : Used(s)' = Used(s)
    BY <1>1 DEF Used
  <1>4. Types'
    BY <1>1, <1>2, ObjectsAssumption DEF IInv, Types
  <1>5. Apart' /\ InRange' /\ HandlesAreUnique'
    BY <1>1, <1>3 DEF IInv, Apart, InRange, HandlesAreUnique
  <1>6. NoneSkipped'
    BY <1>1, <1>2, <1>3 DEF IInv, NoneSkipped, Overlap
  <1>7. \A j \in Slots : ~(j < i')
    BY <1>2 DEF Slots
  <1>8. SearchInv'
    BY <1>1, <1>2, <1>7, ObjectsAssumption DEF IInv, Types, SearchInv
  <1> QED
    BY <1>4, <1>5, <1>6, <1>8 DEF IInv

\* A jump behind the object passes only addresses that overlap it.
LEMMA JumpPassesOverlaps ==
  ASSUME IInv, NEW s \in Slots, Used(s), Overlap(address, size, s),
         NEW a \in Base..(addr[s] + bytes[s] + 1), address <= a
  PROVE  Overlap(a, size, s)
  <1>1. addr[s] \in Nat /\ bytes[s] \in Nat /\ a \in Nat /\ address \in Nat /\ size \in Nat
    BY ObjectsAssumption DEF IInv, Types
  <1> QED
    BY <1>1 DEF Overlap

\* One comparison of the search keeps the invariant.
LEMMA ScanStep == ASSUME IInv, Scan PROVE IInv'
  <1>1. UNCHANGED <<handle, addr, bytes, kind, serial, size, want>> /\ pc = "scan"
    BY DEF Scan, ScanPast, objects, counts
  <1>2. \A s \in Slots : Used(s)' = Used(s)
    BY <1>1 DEF Used
  <1>3. Apart' /\ InRange' /\ HandlesAreUnique'
    BY <1>1, <1>2 DEF IInv, Apart, InRange, HandlesAreUnique
  <1>4. NumSlots \in Nat /\ i \in 0..NumSlots /\ address \in Nat /\ size \in Nat
    BY ObjectsAssumption DEF IInv, Types
  <1>5. CASE i = NumSlots
    <2>1. pc' = "found" /\ address' = address /\ i' = i
      BY <1>5 DEF Scan, ScanPast
    <2>2. Types' /\ NoneSkipped'
      BY <1>1, <1>2, <2>1 DEF IInv, Types, NoneSkipped, Overlap
    <2>3. \A j \in Slots : j < i
      BY <1>4, <1>5 DEF Slots
    <2>4. SearchInv'
      BY <1>1, <1>2, <2>1, <2>3 DEF IInv, SearchInv, Overlap
    <2> QED
      BY <1>3, <2>2, <2>4 DEF IInv
  <1>6. CASE i # NumSlots /\ Used(i) /\ Overlap(address, size, i)
    <2>1. pc' = "bound" /\ address' = addr[i] + bytes[i] + 2 /\ i' = i
      BY <1>6 DEF Scan, ScanPast
    <2>2. i \in Slots
      BY <1>4, <1>6 DEF Slots
    <2>3. addr[i] \in Nat /\ bytes[i] \in Nat /\ Base <= addr[i]
      BY <1>6, <2>2 DEF IInv, Types, InRange
    <2>4. Types'
      BY <1>1, <2>1, <2>3 DEF IInv, Types
    <2>5. ASSUME NEW a \in Base..(address' - 1)
          PROVE  \E s \in Slots : Used(s) /\ Overlap(a, size, s)
      <3>1. a \in Nat /\ a <= addr[i] + bytes[i] + 1 /\ Base <= a
        BY <2>1, <2>3, ObjectsAssumption
      <3>2. CASE address <= a
        <4>1. a \in Base..(addr[i] + bytes[i] + 1)
          BY <3>1, <2>3, ObjectsAssumption
        <4> QED
          BY <1>6, <2>2, <3>2, <4>1, JumpPassesOverlaps
      <3>3. CASE ~(address <= a)
        <4>1. a \in Base..(address - 1)
          BY <1>4, <3>1, <3>3, ObjectsAssumption
        <4> QED
          BY <1>1, <4>1 DEF IInv, NoneSkipped
      <3> QED
        BY <3>2, <3>3
    <2>6. NoneSkipped'
      BY <1>1, <1>2, <2>5 DEF NoneSkipped, Overlap
    <2>7. Base <= address'
      BY <2>1, <2>3, ObjectsAssumption
    <2>8. SearchInv'
      BY <1>1, <2>1, <2>7 DEF IInv, SearchInv
    <2> QED
      BY <1>3, <2>4, <2>6, <2>8 DEF IInv
  <1>7. CASE i # NumSlots /\ ~(Used(i) /\ Overlap(address, size, i))
    <2>1. i' = i + 1 /\ pc' = pc /\ address' = address
      BY <1>7 DEF Scan, ScanPast
    <2>2. i' \in 0..NumSlots
      BY <1>4, <1>7, <2>1
    <2>3. Types' /\ NoneSkipped'
      BY <1>1, <1>2, <2>1, <2>2 DEF IInv, Types, NoneSkipped, Overlap
    <2>4. ASSUME NEW j \in Slots, j < i', Used(j)
          PROVE  ~Overlap(address, size, j)
      <3>1. j < i \/ j = i
        BY <1>4, <2>1, <2>4 DEF Slots
      <3> QED
        BY <1>1, <1>7, <2>4, <3>1 DEF IInv, SearchInv
    <2>5. SearchInv'
      BY <1>1, <1>2, <2>1, <2>4 DEF IInv, SearchInv, Overlap
    <2> QED
      BY <1>3, <2>3, <2>5 DEF IInv
  <1> QED
    BY <1>5, <1>6, <1>7

\* Two objects that do not overlap in the sense of the search are apart.
LEMMA NoOverlapIsApart ==
  ASSUME IInv, NEW a \in Nat, NEW n \in Nat, NEW s \in Slots, ~Overlap(a, n, s)
  PROVE  addr[s] + bytes[s] + 2 <= a \/ a + n + 2 <= addr[s]
  <1>1. addr[s] \in Nat /\ bytes[s] \in Nat
    BY DEF IInv, Types
  <1> QED
    BY <1>1 DEF Overlap

\* Entering the object in the first free slot keeps the invariant.
LEMMA EnterStep == ASSUME IInv, Enter PROVE IInv'
  <1>1. pc = "found" /\ pc' = "idle" /\ UNCHANGED <<address, i, size, want>>
    BY DEF Enter, EnterAs
  <1>2. NoneSkipped' /\ SearchInv'
    BY <1>1 DEF NoneSkipped, SearchInv
  <1>3. CASE UNCHANGED <<objects, counts>>
    <2>1. UNCHANGED <<handle, addr, bytes, kind, serial>>
      BY <1>3 DEF objects, counts
    <2>2. Types' /\ Apart' /\ InRange' /\ HandlesAreUnique'
      BY <1>1, <2>1 DEF IInv, Types, Apart, InRange, HandlesAreUnique, Used
    <2> QED
      BY <1>2, <2>2 DEF IInv
  <1>4. CASE ~(UNCHANGED <<objects, counts>>)
    <2>1. PICK s \in Slots :
            /\ FirstFree(s)
            /\ serial' = serial + 1
            /\ handle' = [handle EXCEPT ![s] = serial + 1]
            /\ addr' = [addr EXCEPT ![s] = address]
            /\ bytes' = [bytes EXCEPT ![s] = size]
            /\ kind' = [kind EXCEPT ![s] = want]
      BY <1>4 DEF Enter, EnterAs
    <2>2. serial \in Nat /\ serial + 1 \in 0..MaxSerial /\ address \in Nat /\ size \in Nat
          /\ size # 0 /\ Base <= address /\ address + size + 1 <= Limit
      BY <1>1, ObjectsAssumption DEF IInv, Types, SearchInv
    <2>3. \A r \in Slots : r # s =>
            handle'[r] = handle[r] /\ addr'[r] = addr[r] /\ bytes'[r] = bytes[r]
      BY <2>1 DEF IInv, Types
    <2>4. handle'[s] = serial + 1 /\ addr'[s] = address /\ bytes'[s] = size
      BY <2>1 DEF IInv, Types
    <2>5. kind' \in [Slots -> Kinds]
      BY <2>1 DEF IInv, Types, Kinds
    <2>6. Types'
      BY <1>1, <2>1, <2>2, <2>5 DEF IInv, Types
    <2>7. \A r \in Slots : r # s /\ Used(r) =>
            addr[r] + bytes[r] + 2 <= address \/ address + size + 2 <= addr[r]
      BY <1>1, <2>2, NoOverlapIsApart DEF IInv, SearchInv
    <2>8. Apart'
      BY <2>3, <2>4, <2>7 DEF IInv, Apart, Used
    <2>9. InRange'
      BY <2>2, <2>3, <2>4 DEF IInv, InRange, Used
    <2>10. \A r \in Slots : r # s => handle'[r] <= serial
      BY <2>3 DEF IInv, HandlesAreUnique
    <2>11. \A r \in Slots : handle[r] \in Nat
      BY DEF IInv, Types
    <2>12. \A r \in Slots : handle'[r] <= serial'
      BY <2>1, <2>2, <2>3, <2>4, <2>10, <2>11
    <2>13. \A r \in Slots : r # s => handle'[r] # handle'[s]
      BY <2>2, <2>3, <2>4, <2>10, <2>11
    <2>14. HandlesAreUnique'
      BY <2>3, <2>12, <2>13 DEF IInv, HandlesAreUnique, Used
    <2> QED
      BY <1>2, <2>6, <2>8, <2>9, <2>14 DEF IInv
  <1> QED
    BY <1>3, <1>4

\* Objects that go away leave the rest apart.
LEMMA ForgetStep ==
  ASSUME IInv, pc = "idle", UNCHANGED <<serial, pc, address, i, size, want>>, Types',
         \A s \in Slots : \/ handle'[s] = 0
                          \/ handle'[s] = handle[s] /\ addr'[s] = addr[s] /\ bytes'[s] = bytes[s]
  PROVE  IInv'
  <1>1. Apart' /\ InRange'
    BY DEF IInv, Apart, InRange, Used
  <1>2. HandlesAreUnique'
    BY DEF IInv, Types, HandlesAreUnique, Used
  <1>3. NoneSkipped' /\ SearchInv'
    BY DEF NoneSkipped, SearchInv
  <1> QED
    BY <1>1, <1>2, <1>3 DEF IInv

\* ObjectDestroy keeps the invariant.
LEMMA DestroyStep == ASSUME IInv, NEW s \in Slots, Destroy(s) PROVE IInv'
  <1>1. pc = "idle" /\ UNCHANGED <<serial, pc, address, i, size, want>>
    BY DEF Destroy, search
  <1>2. Types'
    BY <1>1 DEF Destroy, Forget, IInv, Types, Kinds
  <1>3. \A r \in Slots : \/ handle'[r] = 0
                         \/ handle'[r] = handle[r] /\ addr'[r] = addr[r] /\ bytes'[r] = bytes[r]
    BY DEF Destroy, Forget, IInv, Types
  <1> QED
    BY <1>1, <1>2, <1>3, ForgetStep

\* The end of a session keeps the invariant.
LEMMA EndStep == ASSUME IInv, End PROVE IInv'
  <1>1. pc = "idle" /\ UNCHANGED <<serial, pc, address, i, size, want>>
    BY DEF End, search
  <1>2. Types'
    BY <1>1 DEF End, ForgetAll, IInv, Types, Kinds
  <1>3. \A r \in Slots : handle'[r] = 0
    BY DEF End, ForgetAll
  <1> QED
    BY <1>1, <1>2, <1>3, ForgetStep

\* Every step keeps the inductive invariant.
LEMMA StepInvariant == IInv /\ [Next]_vars => IInv'
  <1> SUFFICES ASSUME IInv, [Next]_vars PROVE IInv'
    OBVIOUS
  <1>1. CASE \E n \in Sizes, k \in Kinds : Request(n, k)
    BY <1>1, RequestStep
  <1>2. CASE Bound
    BY <1>2, BoundStep
  <1>3. CASE Scan
    BY <1>3, ScanStep
  <1>4. CASE Enter
    BY <1>4, EnterStep
  <1>5. CASE \E s \in Slots : Destroy(s)
    BY <1>5, DestroyStep
  <1>6. CASE End
    BY <1>6, EndStep
  <1>7. CASE UNCHANGED vars
    <2>1. UNCHANGED <<handle, addr, bytes, kind, serial, pc, address, i, size, want>>
      BY <1>7 DEF vars, objects, counts, search
    <2> QED
      BY <2>1 DEF IInv, Types, Apart, InRange, NoneSkipped, HandlesAreUnique, SearchInv,
                  Used, Overlap
  <1> QED
    BY <1>1, <1>2, <1>3, <1>4, <1>5, <1>6, <1>7 DEF Next, Placement

\* The search and the table keep the inductive invariant.
THEOREM Invariant == Spec => []IInv
  BY InitInvariant, StepInvariant, PTL DEF Spec

\* Any two objects of a session have two unmapped pages between them.
THEOREM ApartHolds == Spec => []Apart
  <1>1. IInv => Apart
    BY DEF IInv
  <1> QED
    BY <1>1, Invariant, PTL

\* Every object is in the range the page table covers, behind the fixed buffers.
THEOREM InRangeHolds == Spec => []InRange
  <1>1. IInv => InRange
    BY DEF IInv
  <1> QED
    BY <1>1, Invariant, PTL

\* The search of ObjectPlacement skips no address with room.
THEOREM NoneSkippedHolds == Spec => []NoneSkipped
  <1>1. IInv => NoneSkipped
    BY DEF IInv
  <1> QED
    BY <1>1, Invariant, PTL

\* A handle names at most one object.
THEOREM HandlesAreUniqueHolds == Spec => []HandlesAreUnique
  <1>1. IInv => HandlesAreUnique
    BY DEF IInv
  <1> QED
    BY <1>1, Invariant, PTL

\* A request that is refused for want of room had no room.
LEMMA RefusalStep ==
  ASSUME IInv, [Next]_vars, refused', ~refused,
         NEW a \in Base..Limit, a + size + 1 <= Limit
  PROVE  \E s \in Slots : Used(s) /\ Overlap(a, size, s)
  <1>1. pc = "bound" /\ address + size + 1 > Limit
    BY DEF Next, Placement, Request, Bound, BoundAt, Scan, ScanPast,
           Enter, EnterAs, Destroy, Forget, End, ForgetAll, vars, search
  <1>2. a \in Base..(address - 1)
    BY <1>1, ObjectsAssumption DEF IInv, Types
  <1> QED
    BY <1>1, <1>2 DEF IInv, NoneSkipped

\* A refusal for want of room is right, wherever the objects lie.
THEOREM RefusedRightlyHolds == Spec => RefusedRightly
  <1>1. IInv /\ [Next]_vars =>
          [refused' /\ ~refused =>
             \A a \in Base..Limit :
               a + size + 1 <= Limit => \E s \in Slots : Used(s) /\ Overlap(a, size, s)]_vars
    BY RefusalStep
  <1> QED
    BY <1>1, Invariant, PTL DEF Spec, RefusedRightly

\* A new handle is larger than every handle given before.
LEMMA NewHandleStep ==
  ASSUME IInv, [Next]_vars, NEW s \in Slots, handle'[s] \notin {0, handle[s]}
  PROVE  handle'[s] > serial /\ handle'[s] = serial'
  <1>1. Enter /\ ~(UNCHANGED <<objects, counts>>)
    BY DEF Next, Placement, Request, Bound, BoundAt, Scan, ScanPast,
           Enter, EnterAs, Destroy, Forget, End, ForgetAll, vars, objects, IInv, Types
  <1>2. PICK r \in Slots : serial' = serial + 1 /\ handle' = [handle EXCEPT ![r] = serial + 1]
    BY <1>1 DEF Enter, EnterAs
  <1>3. serial \in Nat /\ s = r
    BY <1>2, ObjectsAssumption DEF IInv, Types
  <1> QED
    BY <1>2, <1>3 DEF IInv, Types

\* The serial number never goes back, not at the end of a session either.
LEMMA SerialStep == ASSUME IInv, [Next]_vars PROVE serial' >= serial
  <1>1. serial \in Nat
    BY ObjectsAssumption DEF IInv, Types
  <1>2. serial' = serial \/ serial' = serial + 1
    BY DEF Next, Placement, Request, Bound, BoundAt, Scan, ScanPast, Enter, EnterAs,
           Destroy, End, vars, counts
  <1> QED
    BY <1>1, <1>2

\* No handle is given twice in the lifetime of the device.
THEOREM HandlesNotReusedHolds == Spec => HandlesNotReused
  <1>1. IInv /\ [Next]_vars =>
          [/\ serial' >= serial
           /\ \A s \in Slots : handle'[s] \notin {0, handle[s]} =>
                handle'[s] > serial /\ handle'[s] = serial']_vars
    BY NewHandleStep, SerialStep
  <1> QED
    BY <1>1, Invariant, PTL DEF Spec, HandlesNotReused

\* The pages of the objects of kind k, given the table's handles, sizes and kinds.
PagesOf(h, b, t, k) ==
  {p \in Slots \X Nat : h[p[1]] # 0 /\ t[p[1]] = k /\ p[2] \in 1..b[p[1]]}

Pages(k) == PagesOf(handle, bytes, kind, k)

\* Each budget of a session counts the pages of its objects and is never exceeded, also not
\* by the object that is being placed.
BudgetInv ==
  /\ \A k \in Kinds : IsFiniteSet(Pages(k))
  /\ objectBytes = Cardinality(Pages("own")) /\ objectBytes <= MaxOwn
  /\ importedBytes = Cardinality(Pages("import")) /\ importedBytes <= MaxImported
  /\ pc # "idle" => IF want = "own" THEN size <= MaxOwn - objectBytes
                                    ELSE size <= MaxImported - importedBytes

\* An object has as many pages as its size says.
LEMMA BlockSize ==
  ASSUME NEW s, NEW n \in Nat
  PROVE  IsFiniteSet({s} \X (1..n)) /\ Cardinality({s} \X (1..n)) = n
  <1>1. IsFiniteSet({s}) /\ Cardinality({s}) = 1
    BY FS_Singleton
  <1>2. IsFiniteSet(1..n) /\ Cardinality(1..n) = n
    BY FS_Interval
  <1>3. IsFiniteSet({s} \X (1..n)) /\ Cardinality({s} \X (1..n)) = 1 * n
    BY <1>1, <1>2, FS_Product
  <1> QED BY <1>3

\* An object of n pages and kind k comes into slot s of the first table, which gives the second.
Comes(h, b, t, h2, b2, t2, s, n, k) ==
  /\ h[s] = 0 /\ h2[s] # 0 /\ b2[s] = n /\ t2[s] = k
  /\ \A r \in Slots : r # s => h2[r] = h[r] /\ b2[r] = b[r] /\ t2[r] = t[r]

\* The pages of other kinds stay.
LEMMA OtherKinds ==
  ASSUME NEW h, NEW b, NEW t, NEW h2, NEW b2, NEW t2, NEW s \in Slots, NEW n, NEW use,
         Comes(h, b, t, h2, b2, t2, s, n, use), NEW k, k # use
  PROVE  PagesOf(h2, b2, t2, k) = PagesOf(h, b, t, k)
  <1>1. \A p \in Slots \X Nat : p[1] \in Slots
    OBVIOUS
  <1> QED BY <1>1 DEF PagesOf, Comes

\* The pages of an object that comes or goes are counted once, and with its kind.
LEMMA BlockCounts ==
  ASSUME NEW h, NEW b, NEW t, NEW h2, NEW b2, NEW t2, NEW s \in Slots, NEW n \in Nat, NEW k,
         Comes(h, b, t, h2, b2, t2, s, n, k)
  PROVE  /\ PagesOf(h, b, t, k) \subseteq PagesOf(h2, b2, t2, k)
         /\ IsFiniteSet(PagesOf(h, b, t, k)) =>
              /\ IsFiniteSet(PagesOf(h2, b2, t2, k))
              /\ Cardinality(PagesOf(h2, b2, t2, k)) = Cardinality(PagesOf(h, b, t, k)) + n
  <1> DEFINE Small == PagesOf(h, b, t, k)
             Big   == PagesOf(h2, b2, t2, k)
             Block == {s} \X (1..n)
  <1>1. \A p \in Slots \X Nat : p[1] \in Slots
    OBVIOUS
  <1>2. Big = Small \union Block /\ Small \intersect Block = {}
    <2>1. \A p \in Slots \X Nat : p[1] # s => (p \in Big <=> p \in Small)
      BY <1>1 DEF PagesOf, Comes
    <2>2. \A m \in Nat : <<s, m>> \in Big <=> m \in 1..n
      BY DEF PagesOf, Comes
    <2>3. \A m \in Nat : <<s, m>> \notin Small
      BY DEF PagesOf, Comes
    <2>4. \A p \in Slots \X Nat : p[1] = s => p = <<s, p[2]>> /\ p[2] \in Nat
      OBVIOUS
    <2>5. \A p \in Block : p \in Slots \X Nat /\ p[1] = s /\ p[2] \in 1..n
      OBVIOUS
    <2>6. \A m \in 1..n : <<s, m>> \in Block /\ m \in Nat
      OBVIOUS
    <2>7. Big \subseteq Slots \X Nat /\ Small \subseteq Slots \X Nat
      BY DEF PagesOf, Comes
    <2>8. \A p \in Big : p \in Small \union Block
      BY <2>1, <2>2, <2>4, <2>6, <2>7
    <2>9. \A p \in Small : p \in Big /\ p \notin Block
      BY <2>1, <2>3, <2>4, <2>5, <2>7
    <2>10. \A p \in Block : p \in Big
      BY <2>2, <2>4, <2>5, <2>6
    <2> HIDE DEF Big, Small, Block
    <2> QED BY <2>8, <2>9, <2>10
  <1>3. ASSUME IsFiniteSet(Small)
        PROVE  IsFiniteSet(Big) /\ Cardinality(Big) = Cardinality(Small) + n
    <2>1. IsFiniteSet(Block) /\ Cardinality(Block) = n
      BY BlockSize
    <2> HIDE DEF Big, Small, Block
    <2>2. /\ IsFiniteSet(Big)
          /\ Cardinality(Big) = Cardinality(Small) + Cardinality(Block) - Cardinality({})
      BY <1>2, <1>3, <2>1, FS_Union
    <2>3. Cardinality({}) = 0 /\ Cardinality(Small) \in Nat
      BY <1>3, FS_EmptySet, FS_CardinalityType
    <2> QED BY <2>1, <2>2, <2>3
  <1> QED BY <1>2, <1>3

\* A budget is a number.
LEMMA BudgetTypes ==
  ASSUME BudgetInv
  PROVE  /\ objectBytes \in Nat /\ importedBytes \in Nat
         /\ MaxOwn \in Nat /\ MaxImported \in Nat
  <1>1. Cardinality(Pages("own")) \in Nat /\ Cardinality(Pages("import")) \in Nat
    BY FS_CardinalityType DEF BudgetInv, Kinds
  <1> QED BY <1>1, ObjectsAssumption DEF BudgetInv

\* The budgets of the initial states are empty.
LEMMA InitBudget == ASSUME Init PROVE BudgetInv
  <1>1. \A k \in Kinds : Pages(k) = {}
    BY DEF Init, Pages, PagesOf
  <1> QED BY <1>1, FS_EmptySet, ObjectsAssumption DEF Init, BudgetInv, Kinds

\* A step that leaves the table and the budgets alone keeps them, if the request that is
\* being placed fits.
LEMMA SameBudget ==
  ASSUME BudgetInv, UNCHANGED <<handle, bytes, kind, objectBytes, importedBytes>>,
         pc' # "idle" => IF want' = "own" THEN size' <= MaxOwn - objectBytes
                                          ELSE size' <= MaxImported - importedBytes
  PROVE  BudgetInv'
  <1>1. \A k : Pages(k)' = Pages(k)
    BY DEF Pages, PagesOf
  <1> QED BY <1>1 DEF BudgetInv, Kinds

\* Entering an object adds its pages to its budget (ObjectCreate, ObjectImport).
LEMMA EnterBudget == ASSUME IInv, BudgetInv, Enter PROVE BudgetInv'
  <1>1. pc = "found" /\ pc' = "idle"
    BY DEF Enter, EnterAs
  <1>2. CASE UNCHANGED <<objects, counts>>
    BY <1>1, <1>2, SameBudget DEF objects, counts
  <1>3. CASE ~(UNCHANGED <<objects, counts>>)
    <2>1. PICK s \in Slots :
            /\ FirstFree(s)
            /\ handle' = [handle EXCEPT ![s] = serial + 1]
            /\ bytes' = [bytes EXCEPT ![s] = size]
            /\ kind' = [kind EXCEPT ![s] = want]
            /\ IF want = "own"
                 THEN objectBytes' = objectBytes + size /\ UNCHANGED importedBytes
                 ELSE importedBytes' = importedBytes + size /\ UNCHANGED objectBytes
      BY <1>3 DEF Enter, EnterAs
    <2>2. /\ serial \in Nat /\ size \in Nat /\ want \in Kinds
          /\ handle \in [Slots -> Nat] /\ bytes \in [Slots -> Nat] /\ kind \in [Slots -> Kinds]
      BY ObjectsAssumption DEF IInv, Types
    <2>3. /\ handle[s] = 0 /\ handle'[s] # 0 /\ bytes'[s] = size /\ kind'[s] = want
          /\ \A r \in Slots : r # s =>
               handle'[r] = handle[r] /\ bytes'[r] = bytes[r] /\ kind'[r] = kind[r]
      BY <2>1, <2>2 DEF Used, FirstFree
    <2>c. Comes(handle, bytes, kind, handle', bytes', kind', s, size, want)
      BY <2>3 DEF Comes
    <2>4. \A k \in Kinds : k # want => Pages(k)' = Pages(k)
      BY <2>2, <2>c, OtherKinds DEF Pages
    <2>5. ASSUME NEW k \in Kinds, k = want
          PROVE  IsFiniteSet(Pages(k)') /\ Cardinality(Pages(k)') = Cardinality(Pages(k)) + size
      <3>1. IsFiniteSet(Pages(k))
        BY DEF BudgetInv
      <3> QED BY <2>2, <2>c, <2>5, <3>1, BlockCounts DEF Pages
    <2>6. \A k \in Kinds : IsFiniteSet(Pages(k)')
      BY <2>4, <2>5 DEF BudgetInv
    <2>7. CASE want = "own"
      <3>1. Cardinality(Pages("own")') = objectBytes + size /\ Pages("import")' = Pages("import")
        BY <2>4, <2>5, <2>7 DEF BudgetInv, Kinds
      <3>2. objectBytes' = objectBytes + size /\ UNCHANGED importedBytes
        BY <2>1, <2>7
      <3>3. size <= MaxOwn - objectBytes
        BY <1>1, <2>7 DEF BudgetInv
      <3> QED BY <1>1, <2>2, <2>6, <3>1, <3>2, <3>3, BudgetTypes DEF BudgetInv
    <2>8. CASE want = "import"
      <3>1. /\ Cardinality(Pages("import")') = importedBytes + size
            /\ Pages("own")' = Pages("own")
        BY <2>4, <2>5, <2>8 DEF BudgetInv, Kinds
      <3>2. importedBytes' = importedBytes + size /\ UNCHANGED objectBytes
        BY <2>1, <2>8
      <3>3. size <= MaxImported - importedBytes
        BY <1>1, <2>8 DEF BudgetInv
      <3> QED BY <1>1, <2>2, <2>6, <3>1, <3>2, <3>3, BudgetTypes DEF BudgetInv
    <2> QED BY <2>2, <2>7, <2>8 DEF Kinds
  <1> QED BY <1>2, <1>3

\* Destroying one takes them off again (ObjectDestroy).
LEMMA DestroyBudget ==
  ASSUME IInv, BudgetInv, NEW s \in Slots, Destroy(s)
  PROVE  BudgetInv'
  <1>1. /\ handle \in [Slots -> Nat] /\ bytes \in [Slots -> Nat] /\ kind \in [Slots -> Kinds]
        /\ bytes[s] \in Nat /\ kind[s] \in Kinds
    BY DEF IInv, Types
  <1>2. pc = "idle" /\ UNCHANGED pc
    BY DEF Destroy, search
  <1>3. /\ handle'[s] = 0 /\ handle[s] # 0
        /\ \A r \in Slots : r # s =>
             handle[r] = handle'[r] /\ bytes[r] = bytes'[r] /\ kind[r] = kind'[r]
    BY <1>1 DEF Destroy, Forget, Used
  <1>c. Comes(handle', bytes', kind', handle, bytes, kind, s, bytes[s], kind[s])
    BY <1>3 DEF Comes
  <1>4. ASSUME NEW k \in Kinds, k # kind[s]
        PROVE  Pages(k) = Pages(k)'
    BY <1>1, <1>c, <1>4, OtherKinds DEF Pages
  <1>5. ASSUME NEW k \in Kinds, k = kind[s]
        PROVE  IsFiniteSet(Pages(k)') /\ Cardinality(Pages(k)) = Cardinality(Pages(k)') + bytes[s]
    <2>1. Pages(k)' \subseteq Pages(k)
      BY <1>1, <1>c, <1>5, BlockCounts DEF Pages
    <2>2. IsFiniteSet(Pages(k)')
      BY <2>1, FS_Subset DEF BudgetInv
    <2> PICK n \in Nat : n = bytes[s]
      BY <1>1
    <2>3. Comes(handle', bytes', kind', handle, bytes, kind, s, n, k)
      BY <1>c, <1>5
    <2>4. IsFiniteSet(PagesOf(handle', bytes', kind', k))
      BY <2>2 DEF Pages
    <2>5. Cardinality(PagesOf(handle, bytes, kind, k))
            = Cardinality(PagesOf(handle', bytes', kind', k)) + n
      BY <2>3, <2>4, BlockCounts
    <2> QED BY <2>2, <2>5 DEF Pages
  <1>6. \A k \in Kinds : IsFiniteSet(Pages(k)') /\ Cardinality(Pages(k)') \in Nat
    BY <1>4, <1>5, FS_CardinalityType DEF BudgetInv
  <1>7. CASE kind[s] = "own"
    <2>1. /\ Cardinality(Pages("own")') + bytes[s] = objectBytes
          /\ Pages("import")' = Pages("import")
      BY <1>4, <1>5, <1>7 DEF BudgetInv, Kinds
    <2>2. objectBytes' = objectBytes - bytes[s] /\ UNCHANGED importedBytes
      BY <1>7 DEF Destroy
    <2>3. Cardinality(Pages("own")') \in Nat
      BY <1>6 DEF Kinds
    <2>4. objectBytes' = Cardinality(Pages("own")') /\ objectBytes' <= MaxOwn
      BY <1>1, <2>1, <2>2, <2>3, BudgetTypes DEF BudgetInv
    <2> QED BY <1>2, <1>6, <2>1, <2>2, <2>4 DEF BudgetInv
  <1>8. CASE kind[s] = "import"
    <2>1. /\ Cardinality(Pages("import")') + bytes[s] = importedBytes
          /\ Pages("own")' = Pages("own")
      BY <1>4, <1>5, <1>8 DEF BudgetInv, Kinds
    <2>2. importedBytes' = importedBytes - bytes[s] /\ UNCHANGED objectBytes
      BY <1>8 DEF Destroy
    <2>3. Cardinality(Pages("import")') \in Nat
      BY <1>6 DEF Kinds
    <2>4. importedBytes' = Cardinality(Pages("import")') /\ importedBytes' <= MaxImported
      BY <1>1, <2>1, <2>2, <2>3, BudgetTypes DEF BudgetInv
    <2> QED BY <1>2, <1>6, <2>1, <2>2, <2>4 DEF BudgetInv
  <1> QED BY <1>1, <1>7, <1>8 DEF Kinds

\* The end of a session empties both.
LEMMA EndBudget == ASSUME End PROVE BudgetInv'
  <1>1. \A k \in Kinds : Pages(k)' = {}
    BY DEF End, ForgetAll, Pages, PagesOf
  <1>2. pc' = "idle" /\ objectBytes' = 0 /\ importedBytes' = 0
    BY DEF End, ForgetAll, search
  <1> QED BY <1>1, <1>2, FS_EmptySet, ObjectsAssumption DEF BudgetInv, Kinds

\* Every step keeps the budgets exact.
LEMMA BudgetStep ==
  ASSUME IInv, BudgetInv, [Next]_vars
  PROVE  BudgetInv'
  <1>1. ASSUME NEW n \in Sizes, NEW k \in Kinds, Request(n, k)
        PROVE  BudgetInv'
    BY <1>1, SameBudget DEF Request, objects, counts
  <1>2. CASE Bound
    BY <1>2, SameBudget DEF Bound, BoundAt, objects, counts, BudgetInv
  <1>3. CASE Scan
    BY <1>3, SameBudget DEF Scan, ScanPast, objects, counts, BudgetInv
  <1>4. CASE UNCHANGED vars
    BY <1>4, SameBudget DEF vars, objects, counts, search, BudgetInv
  <1> QED BY <1>1, <1>2, <1>3, <1>4, EnterBudget, DestroyBudget, EndBudget DEF Next, Placement

\* Both budgets count exactly the pages of the live objects, and neither is exceeded
\* (ObjectCreate, ObjectImport, ObjectDestroy of src/pi5-v3d).
THEOREM BudgetsAreExactHolds == Spec => []BudgetsAreExact
  <1>1. Types /\ BudgetInv => BudgetsAreExact
    <2> SUFFICES ASSUME Types, BudgetInv PROVE BudgetsAreExact
      OBVIOUS
    <2>1. ASSUME NEW k
          PROVE  Pages(k) = UNION {{s} \X (1..bytes[s]) :
                                     s \in {t \in Slots : Used(t) /\ kind[t] = k}}
      <3> DEFINE objs == {t \in Slots : Used(t) /\ kind[t] = k}
                 all  == UNION {{s} \X (1..bytes[s]) : s \in objs}
      <3>1. ASSUME NEW p \in Pages(k) PROVE p \in all
        <4>1. p[1] \in objs /\ p \in {p[1]} \X (1..bytes[p[1]])
          BY <3>1 DEF Pages, PagesOf, Used
        <4> QED BY <4>1
      <3>2. ASSUME NEW p \in all PROVE p \in Pages(k)
        <4>1. PICK s \in objs : p \in {s} \X (1..bytes[s])
          BY <3>2
        <4>2. /\ p \in Slots \X Nat /\ p[1] = s /\ p[2] \in 1..bytes[s]
              /\ handle[s] # 0 /\ kind[s] = k
          BY <4>1 DEF Types, Used
        <4> QED BY <4>2 DEF Pages, PagesOf
      <3> QED BY <3>1, <3>2
    <2> QED BY <2>1 DEF BudgetInv, BudgetsAreExact
  <1> QED BY <1>1, InitBudget, BudgetStep, Invariant, PTL DEF Spec, IInv

\* Everything about the placement of objects, types included.
ObjectsInv == IInv /\ BudgetInv /\ refused \in BOOLEAN

\* The initial states of the placement satisfy its invariant.
LEMMA InitObjects == ASSUME Init PROVE ObjectsInv
  BY InitInvariant, InitBudget DEF Init, ObjectsInv

\* Every step of the placement keeps its invariant.
LEMMA ObjectsStep == ASSUME ObjectsInv, [Next]_vars PROVE ObjectsInv'
  <1>1. refused' \in BOOLEAN
    BY DEF ObjectsInv, Next, Placement, Request, Bound, BoundAt, Scan, ScanPast, Enter, EnterAs,
           Destroy, End, vars, search
  <1> QED BY <1>1, StepInvariant, BudgetStep DEF ObjectsInv

\* The invariant of the placement gives its types.
LEMMA ObjectsTypes == ASSUME ObjectsInv PROVE TypeOK
  BY BudgetTypes DEF ObjectsInv, IInv, Types, BudgetInv, TypeOK

-------------------------------------------------------------------------------
(* Sessions (V3d).                                                         *)

\* The marker is created the second time at the latest: without it nothing remembers a
\* fault beyond the removal of the device.
MarkerLostOnce == MarkerFailures <= 1

\* The steps of a handler that has the device in D0.
Working == {"open", "clock", "pm", "power", "wake", "identify", "allocate", "reset", "mmu",
            "clear", "wait"}

\* Neither latched in this driver nor in the registry.
Live == ~bootFault /\ ~marker

\* The device's life, the latch, and who may hold the lock.
LatchInv ==
  /\ pnp = "d0" => regs /\ online
  /\ online => pnp = "d0"
  /\ irqLive => pnp = "d0"
  /\ pnp = "absent" => owner = NoFile
  /\ at # "idle" => Live /\ owner # NoFile /\ pinned /\ regs /\ pnp # "absent"
  /\ at \in Working => pnp = "d0"
  /\ bootFault /\ ~marker =>
       owner # NoFile /\ regs /\ pnp # "absent" /\ lost = MarkerFailures
  /\ marker /\ ~bootFault => pnp = "absent"
  /\ Live /\ at = "idle" => (owner # NoFile <=> pinned) /\ (owner # NoFile => pnp = "d0")

\* What the GPU needs, whatever has failed.
CoreInv ==
  /\ ptes \subseteq memory /\ tlb \subseteq memory /\ (mmuOn => Root \in memory)
  /\ V!GpuKeepsProviders /\ V!InterruptsFindTheCore

\* The core is not claimed and does nothing.
Off == ~claimed /\ job = "none" /\ ~mmuOn /\ tlb = {} /\ ~irqLive

\* The driver has no memory.
Bare == memory = {} /\ ptes = {} /\ ~memSession /\ slot = [s \in V!Slots |-> "none"]

\* The memory is that of the buffers.
Exact == memory = {s \in V!Slots : slot[s] # "none"} \union {Root}

Leased == powered /\ clock = "leased" /\ clockHeld /\ pm = "leased" /\ pmHeld

\* The core has been woken from the state it was found in, or is in it.
Kept == IF woke THEN found = TRUE /\ ~asleep ELSE asleep = found

\* The core is as it was found.
Returned == ~powered /\ ~woke /\ asleep = found

Closed == clock = "closed" /\ pm = "closed" /\ ~clockHeld /\ ~pmHeld

Claimed == claimed /\ Leased /\ ~asleep /\ Kept

\* The session of a live device, by the step its handler is at.
SessionInv ==
  Live =>
    /\ at = "idle" /\ owner = NoFile => Off /\ Bare /\ Returned /\ Closed
    /\ at = "idle" /\ owner # NoFile => Claimed /\ Exact /\ mmuOn /\ irqLive /\ job = "none"
    /\ at \in {"open", "clock", "pm", "power"} => Off /\ Bare /\ Returned
    /\ at = "pm" => clock = "leased" /\ clockHeld
    /\ at = "power" => clock = "leased" /\ clockHeld /\ pm = "leased" /\ pmHeld
    /\ at = "wake" => Off /\ Bare /\ Leased /\ ~woke /\ asleep = found
    /\ at = "identify" => Off /\ Bare /\ Leased /\ Kept /\ ~asleep
    /\ at = "allocate" => Claimed /\ Bare /\ job = "none" /\ ~mmuOn /\ tlb = {} /\ ~irqLive
    /\ at = "reset" => Claimed /\ Exact /\ job = "none"
    /\ at = "mmu" => Claimed /\ Exact /\ job = "none" /\ ~mmuOn /\ tlb = {} /\ ~irqLive
    /\ at = "clear" => Claimed /\ Exact /\ job = "none" /\ mmuOn /\ irqLive
    /\ at = "wait" => Claimed /\ Exact /\ mmuOn /\ irqLive
    /\ at = "end" => job = "none" /\ Kept /\ IF claimed THEN Leased ELSE Off
    /\ at = "check" => claimed /\ Leased /\ Kept
                         /\ job = "none" /\ ~mmuOn /\ tlb = {} /\ ~irqLive
    /\ at = "sleep" => Off /\ Kept
    /\ at = "free" => Off /\ Returned
    /\ at \in {"dropPm", "dropClock", "close"} => Off /\ Returned /\ Bare

\* Every step keeps the latch and the device's life in order.
LEMMA LatchStep ==
  ASSUME MarkerLostOnce, V!TypeOK, LatchInv, CoreInv, SessionInv, V!Next
  PROVE  LatchInv'
  <1> USE DEF Live, V!latch, V!life, V!session, V!targets, V!core, V!buffers, V!gpu, V!fences,
     V!progress
  <1>0. /\ MarkerFailures \in 0 .. 1 /\ lost \in 0 .. MarkerFailures /\ NoFile \notin Files
        /\ pnp \in {"absent", "prepared", "d0"}
        /\ Live /\ at = "idle" /\ owner = NoFile => ~claimed
    BY SessionAssumption DEF MarkerLostOnce, V!TypeOK, SessionInv, Off
  <1>f. ASSUME Live, owner # NoFile, regs, pnp # "absent", UNCHANGED <<pnp, regs, online, owner>>,
               V!Fault, irqLive' => irqLive \/ pnp = "d0"
        PROVE  LatchInv'
    BY <1>0, <1>f DEF V!Fault, LatchInv, Working
  <1>g. ASSUME Live, owner # NoFile, pinned, regs, pnp # "absent",
               UNCHANGED <<pnp, regs, online, owner>>, UNCHANGED V!latch,
               irqLive' => irqLive \/ pnp = "d0",
               at' = "idle" \/ at' \in Working => pnp = "d0"
        PROVE  LatchInv'
    BY <1>0, <1>g DEF LatchInv
  <1>h. /\ at # "idle" => Live /\ owner # NoFile /\ pinned /\ regs /\ pnp # "absent"
        /\ at \in Working => pnp = "d0"
    BY DEF LatchInv
  <1>r. ASSUME NEW f \in Files, V!Serves(f)
        PROVE  Live /\ owner # NoFile /\ pinned /\ regs /\ pnp = "d0"
    BY <1>0, <1>r DEF LatchInv, V!Serves, V!Ready
  <1>1. CASE V!OpenProviders
    <2>1. Live /\ owner # NoFile /\ pinned /\ regs /\ pnp # "absent"
      BY <1>1, <1>h DEF V!OpenProviders
    <2>2. V!Fault \/ (UNCHANGED V!latch /\ (at' = "idle" \/ at' \in Working => pnp = "d0"))
      BY <1>1, <1>h, <2>1 DEF V!OpenProviders, V!GoOn, V!Refuse, Working
    <2>3. UNCHANGED <<pnp, regs, online, owner>> /\ (irqLive' => irqLive \/ pnp = "d0")
      BY <1>1, <1>h, <2>1 DEF V!OpenProviders, V!GoOn, V!Refuse, Working
    <2> QED BY <2>1, <2>2, <2>3, <1>f, <1>g
  <1>2. CASE V!AcquireClock
    <2>1. Live /\ owner # NoFile /\ pinned /\ regs /\ pnp # "absent"
      BY <1>2, <1>h DEF V!AcquireClock
    <2>2. V!Fault \/ (UNCHANGED V!latch /\ (at' = "idle" \/ at' \in Working => pnp = "d0"))
      BY <1>2, <1>h, <2>1 DEF V!AcquireClock, V!GoOn, V!Refuse, Working
    <2>3. UNCHANGED <<pnp, regs, online, owner>> /\ (irqLive' => irqLive \/ pnp = "d0")
      BY <1>2, <1>h, <2>1 DEF V!AcquireClock, V!GoOn, V!Refuse, Working
    <2> QED BY <2>1, <2>2, <2>3, <1>f, <1>g
  <1>3. CASE V!AcquirePm
    <2>1. Live /\ owner # NoFile /\ pinned /\ regs /\ pnp # "absent"
      BY <1>3, <1>h DEF V!AcquirePm
    <2>2. V!Fault \/ (UNCHANGED V!latch /\ (at' = "idle" \/ at' \in Working => pnp = "d0"))
      BY <1>3, <1>h, <2>1 DEF V!AcquirePm, V!GoOn, V!Refuse, Working
    <2>3. UNCHANGED <<pnp, regs, online, owner>> /\ (irqLive' => irqLive \/ pnp = "d0")
      BY <1>3, <1>h, <2>1 DEF V!AcquirePm, V!GoOn, V!Refuse, Working
    <2> QED BY <2>1, <2>2, <2>3, <1>f, <1>g
  <1>4. CASE V!PowerUp
    <2>1. Live /\ owner # NoFile /\ pinned /\ regs /\ pnp # "absent"
      BY <1>4, <1>h DEF V!PowerUp
    <2>2. V!Fault \/ (UNCHANGED V!latch /\ (at' = "idle" \/ at' \in Working => pnp = "d0"))
      BY <1>4, <1>h, <2>1 DEF V!PowerUp, V!GoOn, V!Refuse, Working
    <2>3. UNCHANGED <<pnp, regs, online, owner>> /\ (irqLive' => irqLive \/ pnp = "d0")
      BY <1>4, <1>h, <2>1 DEF V!PowerUp, V!GoOn, V!Refuse, Working
    <2> QED BY <2>1, <2>2, <2>3, <1>f, <1>g
  <1>5. CASE V!Wake
    <2>1. Live /\ owner # NoFile /\ pinned /\ regs /\ pnp # "absent"
      BY <1>5, <1>h DEF V!Wake
    <2>2. V!Fault \/ (UNCHANGED V!latch /\ (at' = "idle" \/ at' \in Working => pnp = "d0"))
      BY <1>5, <1>h, <2>1 DEF V!Wake, V!GoOn, V!Refuse, Working
    <2>3. UNCHANGED <<pnp, regs, online, owner>> /\ (irqLive' => irqLive \/ pnp = "d0")
      BY <1>5, <1>h, <2>1 DEF V!Wake, V!GoOn, V!Refuse, Working
    <2> QED BY <2>1, <2>2, <2>3, <1>f, <1>g
  <1>6. CASE V!Identify
    <2>1. Live /\ owner # NoFile /\ pinned /\ regs /\ pnp # "absent"
      BY <1>6, <1>h DEF V!Identify
    <2>2. V!Fault \/ (UNCHANGED V!latch /\ (at' = "idle" \/ at' \in Working => pnp = "d0"))
      BY <1>6, <1>h, <2>1 DEF V!Identify, V!GoOn, V!Refuse, Working
    <2>3. UNCHANGED <<pnp, regs, online, owner>> /\ (irqLive' => irqLive \/ pnp = "d0")
      BY <1>6, <1>h, <2>1 DEF V!Identify, V!GoOn, V!Refuse, Working
    <2> QED BY <2>1, <2>2, <2>3, <1>f, <1>g
  <1>7. CASE V!AllocateFixed
    <2>1. Live /\ owner # NoFile /\ pinned /\ regs /\ pnp # "absent"
      BY <1>7, <1>h DEF V!AllocateFixed
    <2>2. V!Fault \/ (UNCHANGED V!latch /\ (at' = "idle" \/ at' \in Working => pnp = "d0"))
      BY <1>7, <1>h, <2>1 DEF V!AllocateFixed, V!GoOn, V!Refuse, Working
    <2>3. UNCHANGED <<pnp, regs, online, owner>> /\ (irqLive' => irqLive \/ pnp = "d0")
      BY <1>7, <1>h, <2>1 DEF V!AllocateFixed, V!GoOn, V!Refuse, Working
    <2> QED BY <2>1, <2>2, <2>3, <1>f, <1>g
  <1>8. CASE V!ResetCore
    <2>1. Live /\ owner # NoFile /\ pinned /\ regs /\ pnp # "absent"
      BY <1>8, <1>h DEF V!ResetCore
    <2>2. V!Fault \/ (UNCHANGED V!latch /\ (at' = "idle" \/ at' \in Working => pnp = "d0"))
      BY <1>8, <1>h, <2>1 DEF V!ResetCore, V!GoOn, Working
    <2>3. UNCHANGED <<pnp, regs, online, owner>> /\ (irqLive' => irqLive \/ pnp = "d0")
      BY <1>8, <1>h, <2>1 DEF V!ResetCore, V!GoOn, Working
    <2> QED BY <2>1, <2>2, <2>3, <1>f, <1>g
  <1>9. CASE V!StartMmu
    <2>1. Live /\ owner # NoFile /\ pinned /\ regs /\ pnp # "absent"
      BY <1>9, <1>h DEF V!StartMmu
    <2>2. V!Fault \/ (UNCHANGED V!latch /\ (at' = "idle" \/ at' \in Working => pnp = "d0"))
      BY <1>9, <1>h, <2>1 DEF V!StartMmu, V!GoOn, Working
    <2>3. UNCHANGED <<pnp, regs, online, owner>> /\ (irqLive' => irqLive \/ pnp = "d0")
      BY <1>9, <1>h, <2>1 DEF V!StartMmu, V!GoOn, Working
    <2> QED BY <2>1, <2>2, <2>3, <1>f, <1>g
  <1>10. CASE V!ClearTable
    <2>1. Live /\ owner # NoFile /\ pinned /\ regs /\ pnp # "absent"
      BY <1>10, <1>h DEF V!ClearTable
    <2>2. V!Fault \/ (UNCHANGED V!latch /\ (at' = "idle" \/ at' \in Working => pnp = "d0"))
      BY <1>10, <1>h, <2>1 DEF V!ClearTable, V!GoOn, Working
    <2>3. UNCHANGED <<pnp, regs, online, owner>> /\ (irqLive' => irqLive \/ pnp = "d0")
      BY <1>10, <1>h, <2>1 DEF V!ClearTable, V!GoOn, Working
    <2> QED BY <2>1, <2>2, <2>3, <1>f, <1>g
  <1>11. CASE V!WaitFails
    <2>1. Live /\ owner # NoFile /\ pinned /\ regs /\ pnp # "absent"
      BY <1>11, <1>h DEF V!WaitFails
    <2>2. V!Fault \/ (UNCHANGED V!latch /\ (at' = "idle" \/ at' \in Working => pnp = "d0"))
      BY <1>11, <1>h, <2>1 DEF V!WaitFails, Working
    <2>3. UNCHANGED <<pnp, regs, online, owner>> /\ (irqLive' => irqLive \/ pnp = "d0")
      BY <1>11, <1>h, <2>1 DEF V!WaitFails, Working
    <2> QED BY <2>1, <2>2, <2>3, <1>f, <1>g
  <1>12. CASE V!CompletionFails
    <2>1. Live /\ owner # NoFile /\ pinned /\ regs /\ pnp # "absent"
      BY <1>12, <1>h DEF V!CompletionFails
    <2>2. V!Fault \/ (UNCHANGED V!latch /\ (at' = "idle" \/ at' \in Working => pnp = "d0"))
      BY <1>12, <1>h, <2>1 DEF V!CompletionFails, Working
    <2>3. UNCHANGED <<pnp, regs, online, owner>> /\ (irqLive' => irqLive \/ pnp = "d0")
      BY <1>12, <1>h, <2>1 DEF V!CompletionFails, Working
    <2> QED BY <2>1, <2>2, <2>3, <1>f, <1>g
  <1>13. CASE V!StartRender
    <2>1. Live /\ owner # NoFile /\ pinned /\ regs /\ pnp # "absent"
      BY <1>13, <1>h DEF V!StartRender
    <2>2. V!Fault \/ (UNCHANGED V!latch /\ (at' = "idle" \/ at' \in Working => pnp = "d0"))
      BY <1>13, <1>h, <2>1 DEF V!StartRender, V!Arm, Working
    <2>3. UNCHANGED <<pnp, regs, online, owner>> /\ (irqLive' => irqLive \/ pnp = "d0")
      BY <1>13, <1>h, <2>1 DEF V!StartRender, V!Arm, Working
    <2> QED BY <2>1, <2>2, <2>3, <1>f, <1>g
  <1>14. CASE V!Complete
    <2>1. Live /\ owner # NoFile /\ pinned /\ regs /\ pnp # "absent"
      BY <1>14, <1>h DEF V!Complete
    <2>2. V!Fault \/ (UNCHANGED V!latch /\ (at' = "idle" \/ at' \in Working => pnp = "d0"))
      BY <1>14, <1>h, <2>1 DEF V!Complete, V!GoOn, Working
    <2>3. UNCHANGED <<pnp, regs, online, owner>> /\ (irqLive' => irqLive \/ pnp = "d0")
      BY <1>14, <1>h, <2>1 DEF V!Complete, V!GoOn, Working
    <2> QED BY <2>1, <2>2, <2>3, <1>f, <1>g
  <1>15. CASE V!EndCore
    <2>1. Live /\ owner # NoFile /\ pinned /\ regs /\ pnp # "absent"
      BY <1>15, <1>h DEF V!EndCore
    <2>2. UNCHANGED <<pnp, regs, online, owner>>
      BY <1>15 DEF V!EndCore
    <2>3. irqLive' => irqLive
      BY <1>15 DEF V!EndCore
    <2>4. V!Fault \/ V!GoOn("sleep") \/ V!GoOn("check")
      BY <1>15 DEF V!EndCore
    <2> QED BY <2>1, <2>2, <2>3, <2>4, <1>f, <1>g DEF V!GoOn, Working
  <1>16. CASE V!EndCheck
    <2>1. Live /\ owner # NoFile /\ pinned /\ regs /\ pnp # "absent"
      BY <1>16, <1>h DEF V!EndCheck
    <2>2. V!Fault \/ (UNCHANGED V!latch /\ (at' = "idle" \/ at' \in Working => pnp = "d0"))
      BY <1>16, <1>h, <2>1 DEF V!EndCheck, V!GoOn, Working
    <2>3. UNCHANGED <<pnp, regs, online, owner>> /\ (irqLive' => irqLive \/ pnp = "d0")
      BY <1>16, <1>h, <2>1 DEF V!EndCheck, V!GoOn, Working
    <2> QED BY <2>1, <2>2, <2>3, <1>f, <1>g
  <1>17. CASE V!EndSleep
    <2>1. Live /\ owner # NoFile /\ pinned /\ regs /\ pnp # "absent"
      BY <1>17, <1>h DEF V!EndSleep
    <2>2. V!Fault \/ (UNCHANGED V!latch /\ (at' = "idle" \/ at' \in Working => pnp = "d0"))
      BY <1>17, <1>h, <2>1 DEF V!EndSleep, V!GoOn, Working
    <2>3. UNCHANGED <<pnp, regs, online, owner>> /\ (irqLive' => irqLive \/ pnp = "d0")
      BY <1>17, <1>h, <2>1 DEF V!EndSleep, V!GoOn, Working
    <2> QED BY <2>1, <2>2, <2>3, <1>f, <1>g
  <1>18. CASE V!EndFree
    <2>1. Live /\ owner # NoFile /\ pinned /\ regs /\ pnp # "absent"
      BY <1>18, <1>h DEF V!EndFree
    <2>2. V!Fault \/ (UNCHANGED V!latch /\ (at' = "idle" \/ at' \in Working => pnp = "d0"))
      BY <1>18, <1>h, <2>1 DEF V!EndFree, V!GoOn, Working
    <2>3. UNCHANGED <<pnp, regs, online, owner>> /\ (irqLive' => irqLive \/ pnp = "d0")
      BY <1>18, <1>h, <2>1 DEF V!EndFree, V!GoOn, Working
    <2> QED BY <2>1, <2>2, <2>3, <1>f, <1>g
  <1>19. CASE V!DropPm
    <2>1. Live /\ owner # NoFile /\ pinned /\ regs /\ pnp # "absent"
      BY <1>19, <1>h DEF V!DropPm
    <2>2. V!Fault \/ (UNCHANGED V!latch /\ (at' = "idle" \/ at' \in Working => pnp = "d0"))
      BY <1>19, <1>h, <2>1 DEF V!DropPm, V!GoOn, Working
    <2>3. UNCHANGED <<pnp, regs, online, owner>> /\ (irqLive' => irqLive \/ pnp = "d0")
      BY <1>19, <1>h, <2>1 DEF V!DropPm, V!GoOn, Working
    <2> QED BY <2>1, <2>2, <2>3, <1>f, <1>g
  <1>20. CASE V!DropClock
    <2>1. Live /\ owner # NoFile /\ pinned /\ regs /\ pnp # "absent"
      BY <1>20, <1>h DEF V!DropClock
    <2>2. V!Fault \/ (UNCHANGED V!latch /\ (at' = "idle" \/ at' \in Working => pnp = "d0"))
      BY <1>20, <1>h, <2>1 DEF V!DropClock, V!GoOn, Working
    <2>3. UNCHANGED <<pnp, regs, online, owner>> /\ (irqLive' => irqLive \/ pnp = "d0")
      BY <1>20, <1>h, <2>1 DEF V!DropClock, V!GoOn, Working
    <2> QED BY <2>1, <2>2, <2>3, <1>f, <1>g
  <1>21. CASE V!CloseProviders
    BY <1>21, <1>0 DEF V!CloseProviders, LatchInv, Working
  <1>22. CASE V!Query
    BY <1>22, <1>0 DEF V!Query, V!Fault, V!GoOn, LatchInv, Working
  <1>23. CASE V!Prepare
    BY <1>23, <1>0 DEF V!Prepare, LatchInv, Working
  <1>24. CASE V!Entry
    BY <1>24, <1>0 DEF V!Entry, LatchInv, Working
  <1>25. CASE V!Exit
    BY <1>25, <1>0 DEF V!Exit, V!GoOn, LatchInv, Working
  <1>26. CASE V!ReleaseHardware
    BY <1>26, <1>0 DEF V!ReleaseHardware, V!Fault, V!GoOn, LatchInv, Working
  <1>27. CASE V!Remove
    BY <1>27, <1>0 DEF V!Remove, LatchInv, Working
  <1>28. CASE V!Unload
    BY <1>28, <1>0 DEF V!Unload, LatchInv, Working
  <1>29. CASE V!JobEnds
    BY <1>29, <1>0 DEF V!JobEnds, LatchInv, Working
  <1>30. CASE V!Translate
    BY <1>30, <1>0 DEF V!Translate, LatchInv, Working
  <1>31. CASE V!Overrun
    BY <1>31, <1>0 DEF V!Overrun, LatchInv, Working
  <1>32. ASSUME NEW f \in Files, NEW ask \in BOOLEAN, V!Begin(f, ask)
        PROVE  LatchInv'
    BY <1>32, <1>0 DEF V!Begin, V!Ready, LatchInv, Working
  <1>33. ASSUME NEW f \in Files, V!ResetSession(f)
        PROVE  LatchInv'
    <2>1. Live /\ owner # NoFile /\ pinned /\ regs /\ pnp = "d0"
      BY <1>33, <1>r DEF V!ResetSession
    <2>2. V!Fault \/ (UNCHANGED V!latch /\ (at' = "idle" \/ at' \in Working => pnp = "d0"))
      BY <1>33, <1>h, <2>1 DEF V!ResetSession, V!GoOn, Working
    <2>3. UNCHANGED <<pnp, regs, online, owner>> /\ (irqLive' => irqLive \/ pnp = "d0")
      BY <1>33, <1>h, <2>1 DEF V!ResetSession, V!GoOn, Working
    <2> QED BY <2>1, <2>2, <2>3, <1>f, <1>g
  <1>34. ASSUME NEW f \in Files, V!EndSession(f)
        PROVE  LatchInv'
    <2>1. Live /\ owner # NoFile /\ pinned /\ regs /\ pnp = "d0"
      BY <1>34, <1>r DEF V!EndSession
    <2>2. V!Fault \/ (UNCHANGED V!latch /\ (at' = "idle" \/ at' \in Working => pnp = "d0"))
      BY <1>34, <1>h, <2>1 DEF V!EndSession, V!GoOn, Working
    <2>3. UNCHANGED <<pnp, regs, online, owner>> /\ (irqLive' => irqLive \/ pnp = "d0")
      BY <1>34, <1>h, <2>1 DEF V!EndSession, V!GoOn, Working
    <2> QED BY <2>1, <2>2, <2>3, <1>f, <1>g
  <1>35. ASSUME NEW f \in Files, V!Cleanup(f)
        PROVE  LatchInv'
    BY <1>35, <1>0, <1>g DEF V!Cleanup, V!GoOn, LatchInv, Working
  <1>36. ASSUME NEW f \in Files, V!CreateRefused(f)
        PROVE  LatchInv'
    BY <1>36, <1>0 DEF V!CreateRefused, V!ServesMemory, V!Serves, V!Ready, LatchInv, Working
  <1>37. ASSUME NEW f \in Files, V!TransferOrCheck(f)
        PROVE  LatchInv'
    <2>1. Live /\ owner # NoFile /\ pinned /\ regs /\ pnp = "d0"
      BY <1>37, <1>r DEF V!TransferOrCheck, V!ServesMemory
    <2>2. V!Fault \/ (UNCHANGED V!latch /\ (at' = "idle" \/ at' \in Working => pnp = "d0"))
      BY <1>37, <1>h, <2>1 DEF V!TransferOrCheck, V!ServesMemory, V!Serves, V!Ready,
         V!CheckFails, Working
    <2>3. UNCHANGED <<pnp, regs, online, owner>> /\ (irqLive' => irqLive \/ pnp = "d0")
      BY <1>37, <1>h, <2>1 DEF V!TransferOrCheck, V!ServesMemory, V!Serves, V!Ready,
         V!CheckFails, Working
    <2> QED BY <2>1, <2>2, <2>3, <1>f, <1>g
  <1>38. ASSUME NEW f \in Files, NEW s \in V!Slots, V!Destroy(f, s)
        PROVE  LatchInv'
    <2>1. Live /\ owner # NoFile /\ pinned /\ regs /\ pnp = "d0"
      BY <1>38, <1>r DEF V!Destroy, V!ServesMemory
    <2>2. V!Fault \/ (UNCHANGED V!latch /\ (at' = "idle" \/ at' \in Working => pnp = "d0"))
      BY <1>38, <1>h, <2>1 DEF V!Destroy, V!GoOn, Working
    <2>3. UNCHANGED <<pnp, regs, online, owner>> /\ (irqLive' => irqLive \/ pnp = "d0")
      BY <1>38, <1>h, <2>1 DEF V!Destroy, V!GoOn, Working
    <2> QED BY <2>1, <2>2, <2>3, <1>f, <1>g
  <1>39. ASSUME NEW f \in Files, NEW s \in V!Slots, NEW use \in {"own", "import"},
               V!Place(f, s, use)
        PROVE  LatchInv'
    <2>1. Live /\ owner # NoFile /\ pinned /\ regs /\ pnp = "d0"
      BY <1>39, <1>r DEF V!Place, V!ServesMemory
    <2>2. V!Fault \/ (UNCHANGED V!latch /\ (at' = "idle" \/ at' \in Working => pnp = "d0"))
      BY <1>39, <1>h, <2>1 DEF V!Place, V!GoOn, Working
    <2>3. UNCHANGED <<pnp, regs, online, owner>> /\ (irqLive' => irqLive \/ pnp = "d0")
      BY <1>39, <1>h, <2>1 DEF V!Place, V!GoOn, Working
    <2> QED BY <2>1, <2>2, <2>3, <1>f, <1>g
  <1>40. ASSUME NEW f \in Files, V!Submit(f)
        PROVE  LatchInv'
    <2>1. Live /\ owner # NoFile /\ pinned /\ regs /\ pnp = "d0"
      BY <1>40, <1>r DEF V!Submit
    <2>2. V!Fault \/ (UNCHANGED V!latch /\ (at' = "idle" \/ at' \in Working => pnp = "d0"))
      BY <1>40, <1>h, <2>1 DEF V!Submit, V!CheckFails, V!Arm, V!GoOn, Working
    <2>3. UNCHANGED <<pnp, regs, online, owner>> /\ (irqLive' => irqLive \/ pnp = "d0")
      BY <1>40, <1>h, <2>1 DEF V!Submit, V!CheckFails, V!Arm, V!GoOn, Working
    <2> QED BY <2>1, <2>2, <2>3, <1>f, <1>g
  <1>41. ASSUME NEW f \in Files, V!InterruptCheck(f)
        PROVE  LatchInv'
    <2>1. Live /\ owner # NoFile /\ pinned /\ regs /\ pnp = "d0"
      BY <1>41, <1>r DEF V!InterruptCheck
    <2>2. V!Fault \/ (UNCHANGED V!latch /\ (at' = "idle" \/ at' \in Working => pnp = "d0"))
      BY <1>41, <1>h, <2>1 DEF V!InterruptCheck, V!GoOn, Working
    <2>3. UNCHANGED <<pnp, regs, online, owner>> /\ (irqLive' => irqLive \/ pnp = "d0")
      BY <1>41, <1>h, <2>1 DEF V!InterruptCheck, V!GoOn, Working
    <2> QED BY <2>1, <2>2, <2>3, <1>f, <1>g
  <1> QED BY <1>1, <1>2, <1>3, <1>4, <1>5, <1>6, <1>7, <1>8, <1>9, <1>10, <1>11, <1>12, <1>13,
             <1>14, <1>15, <1>16, <1>17, <1>18, <1>19, <1>20, <1>21, <1>22, <1>23, <1>24, <1>25,
             <1>26, <1>27, <1>28, <1>29, <1>30, <1>31, <1>32, <1>33, <1>34, <1>35, <1>36, <1>37,
             <1>38, <1>39, <1>40, <1>41
     DEF V!Next, V!Request, V!Continue

\* Every step leaves the GPU what it may still use.
LEMMA CoreStep ==
  ASSUME V!TypeOK, LatchInv, CoreInv, SessionInv, V!Next
  PROVE  CoreInv'
  <1> USE DEF CoreInv, V!GpuKeepsProviders, V!InterruptsFindTheCore, V!latch, V!life, V!session,
     V!targets, V!core, V!buffers, V!gpu, V!fences, V!progress
  <1>0. LatchInv /\ SessionInv
    OBVIOUS
  <1>1. CASE V!OpenProviders
    BY <1>1, <1>0, SessionAssumption DEF V!OpenProviders, V!GoOn, V!Refuse, LatchInv,
       SessionInv, Live, Working, Off, Leased, Claimed, Exact
  <1>2. CASE V!AcquireClock
    BY <1>2, <1>0, SessionAssumption DEF V!AcquireClock, V!GoOn, V!Refuse, LatchInv, SessionInv,
       Live, Working, Off, Leased, Claimed, Exact
  <1>3. CASE V!AcquirePm
    BY <1>3, <1>0, SessionAssumption DEF V!AcquirePm, V!GoOn, V!Refuse, LatchInv, SessionInv,
       Live, Working, Off, Leased, Claimed, Exact
  <1>4. CASE V!PowerUp
    BY <1>4 DEF V!PowerUp, V!GoOn, V!Refuse
  <1>5. CASE V!Wake
    BY <1>5 DEF V!Wake, V!GoOn, V!Refuse, V!Fault
  <1>6. CASE V!Identify
    BY <1>6, <1>0, SessionAssumption DEF V!Identify, V!GoOn, V!Refuse, LatchInv, SessionInv,
       Live, Working, Off, Leased, Claimed, Exact
  <1>7. CASE V!AllocateFixed
    BY <1>7 DEF V!AllocateFixed, V!GoOn, V!Refuse
  <1>8. CASE V!ResetCore
    BY <1>8 DEF V!ResetCore, V!GoOn, V!Fault, V!PulseFails
  <1>9. CASE V!StartMmu
    BY <1>9, <1>0, SessionAssumption DEF V!StartMmu, V!GoOn, V!Fault, V!Flushed, V!FlushFails,
       LatchInv, SessionInv, Live, Working, Off, Leased, Claimed, Exact
  <1>10. CASE V!ClearTable
    BY <1>10 DEF V!ClearTable, V!GoOn, V!Fault, V!Flushed, V!FlushFails
  <1>11. CASE V!WaitFails
    BY <1>11 DEF V!WaitFails, V!Fault
  <1>12. CASE V!CompletionFails
    BY <1>12 DEF V!CompletionFails, V!Fault
  <1>13. CASE V!StartRender
    BY <1>13, <1>0, SessionAssumption DEF V!StartRender, V!Arm, LatchInv, SessionInv, Live,
       Working, Off, Leased, Claimed, Exact
  <1>14. CASE V!Complete
    BY <1>14 DEF V!Complete, V!GuardsPass, V!GoOn
  <1>15. CASE V!EndCore
    <2>1. /\ UNCHANGED <<pnp, regs, memory, ptes>>
          /\ UNCHANGED <<powered, clock, clockHeld, pm, pmHeld, claimed, asleep>>
      BY <1>15 DEF V!EndCore
    <2>2. CASE ~claimed
      BY <1>15, <2>1, <2>2 DEF V!EndCore, V!GoOn
    <2>3. CASE claimed
      <3>1. irqLive' = FALSE
        BY <1>15, <2>3 DEF V!EndCore
      <3>2. (tlb' = tlb \/ tlb' = {}) /\ (mmuOn' => mmuOn) /\ (job' # "none" => job # "none")
        BY <1>15, <2>3 DEF V!EndCore, V!PulseFails
      <3> QED BY <2>1, <2>3, <3>1, <3>2
    <2> QED BY <2>2, <2>3
  <1>16. CASE V!EndCheck
    BY <1>16, <1>0, SessionAssumption DEF V!EndCheck, V!GoOn, V!Fault, LatchInv, SessionInv,
       Live, Working, Off, Leased, Claimed, Exact
  <1>17. CASE V!EndSleep
    BY <1>17, <1>0, SessionAssumption DEF V!EndSleep, V!GoOn, V!Fault, LatchInv, SessionInv,
       Live, Working, Off, Leased, Claimed, Exact
  <1>18. CASE V!EndFree
    BY <1>18, <1>0, SessionAssumption DEF V!EndFree, V!GoOn, LatchInv, SessionInv, Live,
       Working, Off, Leased, Claimed, Exact
  <1>19. CASE V!DropPm
    BY <1>19, <1>0, SessionAssumption DEF V!DropPm, V!GoOn, V!Fault, LatchInv, SessionInv, Live,
       Working, Off, Leased, Claimed, Exact
  <1>20. CASE V!DropClock
    BY <1>20, <1>0, SessionAssumption DEF V!DropClock, V!GoOn, V!Fault, LatchInv, SessionInv,
       Live, Working, Off, Leased, Claimed, Exact
  <1>21. CASE V!CloseProviders
    BY <1>21, <1>0, SessionAssumption DEF V!CloseProviders, LatchInv, SessionInv, Live, Working,
       Off, Leased, Claimed, Exact
  <1>22. CASE V!Query
    BY <1>22 DEF V!Query, V!Fault, V!GoOn
  <1>23. CASE V!Prepare
    BY <1>23, <1>0, SessionAssumption DEF V!Prepare, LatchInv, SessionInv, Live, Working, Off,
       Leased, Claimed, Exact
  <1>24. CASE V!Entry
    BY <1>24 DEF V!Entry
  <1>25. CASE V!Exit
    BY <1>25 DEF V!Exit, V!GoOn
  <1>26. CASE V!ReleaseHardware
    BY <1>26, <1>0, SessionAssumption DEF V!ReleaseHardware, V!Fault, V!GoOn, LatchInv,
       SessionInv, Live, Working, Off, Leased, Claimed, Exact
  <1>27. CASE V!Remove
    BY <1>27 DEF V!Remove
  <1>28. CASE V!Unload
    BY <1>28, <1>0, SessionAssumption DEF V!Unload, LatchInv, SessionInv, Live, Working, Off,
       Leased, Claimed, Exact
  <1>29. CASE V!JobEnds
    BY <1>29 DEF V!JobEnds
  <1>30. CASE V!Translate
    BY <1>30 DEF V!Translate
  <1>31. CASE V!Overrun
    BY <1>31 DEF V!Overrun
  <1>32. ASSUME NEW f \in Files, NEW ask \in BOOLEAN, V!Begin(f, ask)
        PROVE  CoreInv'
    BY <1>32 DEF V!Begin, V!Ready
  <1>33. ASSUME NEW f \in Files, V!ResetSession(f)
        PROVE  CoreInv'
    BY <1>33 DEF V!ResetSession, V!Serves, V!Ready, V!GoOn
  <1>34. ASSUME NEW f \in Files, V!EndSession(f)
        PROVE  CoreInv'
    BY <1>34 DEF V!EndSession, V!Serves, V!Ready, V!GoOn
  <1>35. ASSUME NEW f \in Files, V!Cleanup(f)
        PROVE  CoreInv'
    BY <1>35 DEF V!Cleanup, V!GoOn
  <1>36. ASSUME NEW f \in Files, V!CreateRefused(f)
        PROVE  CoreInv'
    BY <1>36 DEF V!CreateRefused, V!ServesMemory, V!Serves, V!Ready
  <1>37. ASSUME NEW f \in Files, V!TransferOrCheck(f)
        PROVE  CoreInv'
    <2>1. UNCHANGED <<pnp, regs, irqLive, claimed, memory, ptes, tlb, mmuOn, job>>
      BY <1>37 DEF V!TransferOrCheck, V!CheckFails
    <2>2. UNCHANGED <<powered, clock, clockHeld, pm, pmHeld, asleep>>
      BY <1>37 DEF V!TransferOrCheck, V!CheckFails
    <2>3. bootFault => bootFault'
      BY <1>37 DEF V!TransferOrCheck, V!CheckFails, V!Fault
    <2> QED BY <2>1, <2>2, <2>3
  <1>38. ASSUME NEW f \in Files, NEW s \in V!Slots, V!Destroy(f, s)
        PROVE  CoreInv'
    <2>1. UNCHANGED <<pnp, regs, irqLive, claimed, mmuOn, job>>
      BY <1>38 DEF V!Destroy
    <2>2. UNCHANGED <<powered, clock, clockHeld, pm, pmHeld, asleep>>
      BY <1>38 DEF V!Destroy
    <2>3. bootFault => bootFault'
      BY <1>38 DEF V!Destroy, V!GoOn, V!Fault
    <2>4. /\ ptes' \subseteq memory' /\ tlb' \subseteq memory'
          /\ Root \in memory => Root \in memory'
      BY <1>38, SessionAssumption DEF V!Destroy, V!Flushed, V!FlushFails, V!Slots
    <2> QED BY <2>1, <2>2, <2>3, <2>4
  <1>39. ASSUME NEW f \in Files, NEW s \in V!Slots, NEW use \in {"own", "import"},
               V!Place(f, s, use)
        PROVE  CoreInv'
    BY <1>39 DEF V!Place, V!ServesMemory, V!Serves, V!Ready, V!Flushed, V!FlushFails, V!Fault,
       V!GoOn
  <1>40. ASSUME NEW f \in Files, V!Submit(f)
        PROVE  CoreInv'
    <2>1. UNCHANGED <<pnp, regs, claimed, memory, ptes, tlb, mmuOn>>
      BY <1>40 DEF V!Submit, V!CheckFails
    <2>2. UNCHANGED <<powered, clock, clockHeld, pm, pmHeld, asleep>>
      BY <1>40 DEF V!Submit, V!CheckFails
    <2>3. bootFault => bootFault'
      BY <1>40 DEF V!Submit, V!CheckFails, V!GoOn, V!Fault
    <2>4. Claimed /\ regs
      BY <1>40, <1>0, SessionAssumption
         DEF V!Submit, V!Serves, V!Ready, LatchInv, SessionInv, Live
    <2> QED BY <2>1, <2>2, <2>3, <2>4 DEF Claimed, Leased
  <1>41. ASSUME NEW f \in Files, V!InterruptCheck(f)
        PROVE  CoreInv'
    BY <1>41, <1>0, SessionAssumption DEF V!InterruptCheck, V!Serves, V!Ready, V!GoOn, V!Fault,
       LatchInv, SessionInv, Live, Working, Off, Leased, Claimed, Exact
  <1> QED BY <1>1, <1>2, <1>3, <1>4, <1>5, <1>6, <1>7, <1>8, <1>9, <1>10, <1>11, <1>12, <1>13,
             <1>14, <1>15, <1>16, <1>17, <1>18, <1>19, <1>20, <1>21, <1>22, <1>23, <1>24, <1>25,
             <1>26, <1>27, <1>28, <1>29, <1>30, <1>31, <1>32, <1>33, <1>34, <1>35, <1>36, <1>37,
             <1>38, <1>39, <1>40, <1>41
     DEF V!Next, V!Request, V!Continue

\* Every step of a live device leads from one phase of its session to the next.
LEMMA SessionStep ==
  ASSUME V!TypeOK, LatchInv, CoreInv, SessionInv, V!Next
  PROVE  SessionInv'
  <1> USE DEF Live, V!latch, V!life, V!session, V!targets, V!core, V!buffers, V!gpu, V!fences,
     V!progress
  <1>0. LatchInv /\ SessionInv
    OBVIOUS
  <1>t. asleep \in BOOLEAN /\ found \in BOOLEAN /\ woke \in BOOLEAN
    BY DEF V!TypeOK
  <1>b. UNCHANGED <<memory, slot>> =>
          /\ Exact' = Exact
          /\ UNCHANGED <<ptes, memSession>> => Bare' = Bare
    BY DEF Bare, Exact, V!Slots
  <1>d. ASSUME V!Fault
        PROVE  SessionInv'
    BY <1>d DEF V!Fault, SessionInv
  <1>r. ASSUME NEW f \in Files, V!Serves(f)
        PROVE  /\ Live /\ at = "idle" /\ owner # NoFile
               /\ Claimed /\ Exact /\ mmuOn /\ irqLive /\ job = "none"
    BY <1>r, <1>0, SessionAssumption DEF V!Serves, V!Ready, LatchInv, SessionInv
  <1>1. CASE V!OpenProviders
    BY <1>1, <1>0, <1>b, SessionAssumption DEF V!OpenProviders, V!GoOn, V!Refuse, LatchInv,
       SessionInv, Working, Off, Leased, Claimed, Kept, Returned, Closed
  <1>2. CASE V!AcquireClock
    BY <1>2, <1>0, <1>b, SessionAssumption DEF V!AcquireClock, V!GoOn, V!Refuse, LatchInv,
       SessionInv, Working, Off, Leased, Claimed, Kept, Returned, Closed
  <1>3. CASE V!AcquirePm
    BY <1>3, <1>0, <1>b, SessionAssumption DEF V!AcquirePm, V!GoOn, V!Refuse, LatchInv,
       SessionInv, Working, Off, Leased, Claimed, Kept, Returned, Closed
  <1>4. CASE V!PowerUp
    BY <1>4, <1>0, <1>b, SessionAssumption DEF V!PowerUp, V!GoOn, V!Refuse, LatchInv,
       SessionInv, Working, Off, Leased, Claimed, Kept, Returned, Closed
  <1>5. CASE V!Wake
    <2>1. Live /\ owner # NoFile /\ Off /\ Bare /\ Leased /\ ~woke /\ asleep = found
      BY <1>5, <1>0 DEF V!Wake, LatchInv, SessionInv
    <2>2. CASE V!Fault
      BY <2>2, <1>d
    <2>3. CASE ~V!Fault
      <3>1. /\ at' \in {"end", "identify"} /\ UNCHANGED V!latch
            /\ at' = "identify" => ~asleep'
            /\ UNCHANGED <<asleep, woke>> \/ (asleep /\ woke' /\ ~asleep')
        BY <1>5, <2>3 DEF V!Wake, V!Refuse, V!GoOn
      <3>2. /\ UNCHANGED <<claimed, job, mmuOn, tlb, irqLive, found>>
            /\ UNCHANGED <<powered, clock, clockHeld, pm, pmHeld>>
            /\ UNCHANGED <<memory, slot, ptes, memSession>>
        BY <1>5 DEF V!Wake
      <3>3. Off' /\ Bare' /\ Leased' /\ Kept'
        BY <2>1, <3>1, <3>2, <1>b, <1>t DEF Off, Leased, Kept
      <3> QED BY <3>1, <3>3 DEF SessionInv, Off
    <2> QED BY <2>2, <2>3
  <1>6. CASE V!Identify
    BY <1>6, <1>0, <1>b, SessionAssumption DEF V!Identify, V!GoOn, V!Refuse, LatchInv,
       SessionInv, Working, Off, Leased, Claimed, Kept, Returned, Closed
  <1>7. CASE V!AllocateFixed
    <2>1. Live /\ Claimed /\ Bare /\ job = "none" /\ ~mmuOn /\ tlb = {} /\ ~irqLive
      BY <1>7, <1>0 DEF V!AllocateFixed, LatchInv, SessionInv
    <2>2. Claimed' /\ UNCHANGED <<job, mmuOn, tlb, irqLive>> /\ UNCHANGED V!latch
      BY <1>7, <2>1 DEF V!AllocateFixed, V!Refuse, V!GoOn, Claimed, Leased, Kept
    <2>3. CASE at' = "end"
      BY <2>1, <2>2, <2>3 DEF SessionInv, Claimed
    <2>4. CASE at' = "reset"
      <3>1. memory' = memory \union {Root} /\ UNCHANGED slot
        BY <1>7, <2>4 DEF V!AllocateFixed, V!Refuse, V!GoOn
      <3>2. Exact'
        BY <2>1, <3>1 DEF Exact, Bare, V!Slots
      <3> QED BY <2>1, <2>2, <2>4, <3>2 DEF SessionInv
    <2> QED BY <1>7, <2>3, <2>4 DEF V!AllocateFixed, V!Refuse, V!GoOn
  <1>8. CASE V!ResetCore
    BY <1>8, <1>0, <1>b, SessionAssumption DEF V!ResetCore, V!GoOn, V!Fault, V!PulseFails,
       LatchInv, SessionInv, Working, Off, Leased, Claimed, Kept, Returned, Closed
  <1>9. CASE V!StartMmu
    BY <1>9, <1>0, <1>b, SessionAssumption DEF V!StartMmu, V!GoOn, V!Fault, V!Flushed,
       V!FlushFails, LatchInv, SessionInv, Working, Off, Leased, Claimed, Kept, Returned, Closed
  <1>10. CASE V!ClearTable
    <2>1. Live /\ owner # NoFile /\ Claimed /\ Exact /\ job = "none" /\ mmuOn /\ irqLive
      BY <1>10, <1>0 DEF V!ClearTable, LatchInv, SessionInv, Working
    <2>2. CASE V!Fault
      BY <2>2, <1>d
    <2>3. CASE ~V!Fault
      <3>1. at' = "idle" /\ UNCHANGED V!latch
        BY <1>10, <2>3 DEF V!ClearTable, V!GoOn
      <3>2. Exact' /\ Claimed' /\ UNCHANGED <<owner, job, mmuOn, irqLive>>
        BY <1>10, <2>1, <1>b DEF V!ClearTable, Claimed, Leased, Kept
      <3> QED BY <2>1, <3>1, <3>2 DEF SessionInv
    <2> QED BY <2>2, <2>3
  <1>11. CASE V!WaitFails
    BY <1>11, <1>0, <1>b, SessionAssumption DEF V!WaitFails, V!Fault, LatchInv, SessionInv,
       Working, Off, Leased, Claimed, Kept, Returned, Closed
  <1>12. CASE V!CompletionFails
    BY <1>12, <1>0, <1>b, SessionAssumption DEF V!CompletionFails, V!Fault, LatchInv,
       SessionInv, Working, Off, Leased, Claimed, Kept, Returned, Closed
  <1>13. CASE V!StartRender
    BY <1>13, <1>0, <1>b, SessionAssumption DEF V!StartRender, V!Arm, LatchInv, SessionInv,
       Working, Off, Leased, Claimed, Kept, Returned, Closed
  <1>14. CASE V!Complete
    BY <1>14, <1>0, <1>b, SessionAssumption DEF V!Complete, V!GuardsPass, V!GoOn, LatchInv,
       SessionInv, Working, Off, Leased, Claimed, Kept, Returned, Closed
  <1>15. CASE V!EndCore
    BY <1>15, <1>0, <1>b, SessionAssumption DEF V!EndCore, V!GoOn, V!Fault, V!PulseFails,
       LatchInv, SessionInv, Working, Off, Leased, Claimed, Kept, Returned, Closed
  <1>16. CASE V!EndCheck
    BY <1>16, <1>0, <1>b, SessionAssumption DEF V!EndCheck, V!GoOn, V!Fault, LatchInv,
       SessionInv, Working, Off, Leased, Claimed, Kept, Returned, Closed
  <1>17. CASE V!EndSleep
    <2>1. Live /\ Off /\ Kept
      BY <1>17, <1>0 DEF V!EndSleep, LatchInv, SessionInv
    <2>2. CASE V!Fault
      BY <2>2, <1>d
    <2>3. CASE ~V!Fault
      <3>1. /\ at' = "free" /\ UNCHANGED V!latch /\ ~powered' /\ UNCHANGED found /\ ~woke'
            /\ (woke /\ asleep' = TRUE) \/ (~woke /\ UNCHANGED asleep)
        BY <1>17, <2>3 DEF V!EndSleep, V!GoOn
      <3>2. Off'
        BY <1>17, <2>1 DEF V!EndSleep, Off
      <3>3. Returned'
        BY <2>1, <3>1, <1>t DEF Returned, Kept
      <3> QED BY <3>1, <3>2, <3>3 DEF SessionInv
    <2> QED BY <2>2, <2>3
  <1>18. CASE V!EndFree
    <2>1. Live /\ Off /\ Returned
      BY <1>18, <1>0 DEF V!EndFree, LatchInv, SessionInv
    <2>2. at' = "dropPm" /\ Off' /\ Returned'
      BY <1>18, <2>1 DEF V!EndFree, V!GoOn, Off, Returned
    <2>3. Bare'
      BY <1>18 DEF V!EndFree, Bare, V!Slots
    <2> QED BY <2>2, <2>3 DEF SessionInv
  <1>19. CASE V!DropPm
    BY <1>19, <1>0, <1>b, SessionAssumption DEF V!DropPm, V!GoOn, V!Fault, LatchInv, SessionInv,
       Working, Off, Leased, Claimed, Kept, Returned, Closed
  <1>20. CASE V!DropClock
    BY <1>20, <1>0, <1>b, SessionAssumption DEF V!DropClock, V!GoOn, V!Fault, LatchInv,
       SessionInv, Working, Off, Leased, Claimed, Kept, Returned, Closed
  <1>21. CASE V!CloseProviders
    BY <1>21, <1>0, <1>b, SessionAssumption DEF V!CloseProviders, LatchInv, SessionInv, Working,
       Off, Leased, Claimed, Kept, Returned, Closed
  <1>22. CASE V!Query
    BY <1>22, <1>0, <1>b, SessionAssumption DEF V!Query, V!Fault, V!GoOn, LatchInv, SessionInv,
       Working, Off, Leased, Claimed, Kept, Returned, Closed
  <1>23. CASE V!Prepare
    BY <1>23, <1>0, <1>b, SessionAssumption DEF V!Prepare, LatchInv, SessionInv, Working, Off,
       Leased, Claimed, Kept, Returned, Closed
  <1>24. CASE V!Entry
    BY <1>24, <1>0, <1>b, SessionAssumption DEF V!Entry, LatchInv, SessionInv, Working, Off,
       Leased, Claimed, Kept, Returned, Closed
  <1>25. CASE V!Exit
    BY <1>25, <1>0, <1>b, SessionAssumption DEF V!Exit, V!GoOn, LatchInv, SessionInv, Working,
       Off, Leased, Claimed, Kept, Returned, Closed
  <1>26. CASE V!ReleaseHardware
    BY <1>26, <1>0, <1>b, SessionAssumption DEF V!ReleaseHardware, V!Fault, V!GoOn, LatchInv,
       SessionInv, Working, Off, Leased, Claimed, Kept, Returned, Closed
  <1>27. CASE V!Remove
    <2>1. /\ at = "idle" /\ UNCHANGED <<at, bootFault, marker>>
          /\ owner' = NoFile /\ pnp = "prepared"
      BY <1>27 DEF V!Remove
    <2>2. CASE ~Live
      BY <2>1, <2>2 DEF SessionInv
    <2>3. CASE Live
      <3>1. owner = NoFile /\ Off /\ Bare /\ Returned
        BY <2>1, <2>3, <1>0 DEF LatchInv, SessionInv
      <3>2. Off' /\ Returned' /\ Closed'
        BY <1>27, <3>1 DEF V!Remove, Off, Returned, Closed
      <3>3. Bare'
        BY <1>27, <3>1 DEF V!Remove, Bare, V!Slots
      <3> QED BY <2>1, <3>2, <3>3 DEF SessionInv
    <2> QED BY <2>2, <2>3
  <1>28. CASE V!Unload
    BY <1>28, <1>0, <1>b, SessionAssumption DEF V!Unload, LatchInv, SessionInv, Working, Off,
       Leased, Claimed, Kept, Returned, Closed
  <1>29. CASE V!JobEnds
    BY <1>29, <1>0, <1>b, SessionAssumption DEF V!JobEnds, LatchInv, SessionInv, Working, Off,
       Leased, Claimed, Kept, Returned, Closed
  <1>30. CASE V!Translate
    BY <1>30, <1>0, <1>b, SessionAssumption DEF V!Translate, LatchInv, SessionInv, Working, Off,
       Leased, Claimed, Kept, Returned, Closed
  <1>31. CASE V!Overrun
    BY <1>31, <1>0, <1>b, SessionAssumption DEF V!Overrun, LatchInv, SessionInv, Working, Off,
       Leased, Claimed, Kept, Returned, Closed
  <1>32. ASSUME NEW f \in Files, NEW ask \in BOOLEAN, V!Begin(f, ask)
        PROVE  SessionInv'
    BY <1>32, <1>0, <1>b, SessionAssumption DEF V!Begin, V!Ready, LatchInv, SessionInv, Working,
       Off, Leased, Claimed, Kept, Returned, Closed
  <1>33. ASSUME NEW f \in Files, V!ResetSession(f)
        PROVE  SessionInv'
    BY <1>33, <1>0, <1>b, SessionAssumption DEF V!ResetSession, V!Serves, V!Ready, V!GoOn,
       LatchInv, SessionInv, Working, Off, Leased, Claimed, Kept, Returned, Closed
  <1>34. ASSUME NEW f \in Files, V!EndSession(f)
        PROVE  SessionInv'
    BY <1>34, <1>0, <1>b, SessionAssumption DEF V!EndSession, V!Serves, V!Ready, V!GoOn,
       LatchInv, SessionInv, Working, Off, Leased, Claimed, Kept, Returned, Closed
  <1>35. ASSUME NEW f \in Files, V!Cleanup(f)
        PROVE  SessionInv'
    BY <1>35, <1>0, <1>b, SessionAssumption DEF V!Cleanup, V!GoOn, LatchInv, SessionInv,
       Working, Off, Leased, Claimed, Kept, Returned, Closed
  <1>36. ASSUME NEW f \in Files, V!CreateRefused(f)
        PROVE  SessionInv'
    BY <1>36, <1>0, <1>b, SessionAssumption DEF V!CreateRefused, V!ServesMemory, V!Serves,
       V!Ready, LatchInv, SessionInv, Working, Off, Leased, Claimed, Kept, Returned, Closed
  <1>37. ASSUME NEW f \in Files, V!TransferOrCheck(f)
        PROVE  SessionInv'
    <2>1. /\ Live /\ at = "idle" /\ owner # NoFile
          /\ Claimed /\ Exact /\ mmuOn /\ irqLive /\ job = "none"
      BY <1>37, <1>0, <1>r, SessionAssumption DEF V!TransferOrCheck, V!ServesMemory
    <2>2. CASE V!Fault
      BY <2>2, <1>d
    <2>3. CASE ~V!Fault
      <3>1. /\ UNCHANGED <<owner, powered, clock, clockHeld, pm, pmHeld, claimed, woke>>
            /\ UNCHANGED <<asleep, found, irqLive, mmuOn, job>>
        BY <1>37 DEF V!TransferOrCheck, V!CheckFails
      <3>2. at' = "idle" /\ UNCHANGED V!latch
        BY <1>37, <2>1, <2>3 DEF V!TransferOrCheck, V!CheckFails, V!GoOn
      <3>3. Exact'
        BY <1>37, <2>1, <1>b DEF V!TransferOrCheck, V!CheckFails
      <3> QED BY <2>1, <3>1, <3>2, <3>3 DEF SessionInv, Claimed, Leased, Kept, Working
    <2> QED BY <2>2, <2>3
  <1>38. ASSUME NEW f \in Files, NEW s \in V!Slots, V!Destroy(f, s)
        PROVE  SessionInv'
    <2>1. /\ Live /\ at = "idle" /\ owner # NoFile
          /\ Claimed /\ Exact /\ mmuOn /\ irqLive /\ job = "none"
      BY <1>38, <1>0, <1>r, SessionAssumption DEF V!Destroy, V!ServesMemory
    <2>2. CASE V!Fault
      BY <2>2, <1>d
    <2>3. CASE ~V!Fault
      <3>1. /\ UNCHANGED <<owner, powered, clock, clockHeld, pm, pmHeld, claimed, woke>>
            /\ UNCHANGED <<asleep, found, irqLive, mmuOn, job>>
        BY <1>38 DEF V!Destroy, V!CheckFails
      <3>2. at' = "idle" /\ UNCHANGED V!latch
        BY <1>38, <2>1, <2>3 DEF V!Destroy, V!CheckFails, V!GoOn
      <3>3. Exact'
        <4>1. /\ memory' = memory \ {s} /\ slot' = [slot EXCEPT ![s] = "none"]
              /\ s # Root /\ slot \in [V!Slots -> {"none", "own", "import"}]
          BY <1>38, <2>3, SessionAssumption DEF V!Destroy, V!Slots, V!TypeOK
        <4>2. \A r \in V!Slots : slot'[r] # "none" <=> (slot[r] # "none" /\ r # s)
          BY <4>1
        <4> QED BY <2>1, <4>1, <4>2 DEF Exact
      <3> QED BY <2>1, <3>1, <3>2, <3>3 DEF SessionInv, Claimed, Leased, Kept, Working
    <2> QED BY <2>2, <2>3
  <1>39. ASSUME NEW f \in Files, NEW s \in V!Slots, NEW use \in {"own", "import"},
               V!Place(f, s, use)
        PROVE  SessionInv'
    <2>1. /\ Live /\ at = "idle" /\ owner # NoFile
          /\ Claimed /\ Exact /\ mmuOn /\ irqLive /\ job = "none"
      BY <1>39, <1>0, <1>r, SessionAssumption DEF V!Place, V!ServesMemory
    <2>2. CASE V!Fault
      BY <2>2, <1>d
    <2>3. CASE ~V!Fault
      <3>1. /\ UNCHANGED <<owner, powered, clock, clockHeld, pm, pmHeld, claimed, woke>>
            /\ UNCHANGED <<asleep, found, irqLive, mmuOn, job>>
        BY <1>39 DEF V!Place, V!CheckFails
      <3>2. at' = "idle" /\ UNCHANGED V!latch
        BY <1>39, <2>1, <2>3 DEF V!Place, V!CheckFails, V!GoOn
      <3>3. Exact'
        <4>1. /\ memory' = memory \union {s} /\ slot' = [slot EXCEPT ![s] = use]
              /\ use # "none" /\ slot \in [V!Slots -> {"none", "own", "import"}]
          BY <1>39, <2>3 DEF V!Place, V!TypeOK
        <4>2. \A r \in V!Slots : slot'[r] # "none" <=> (slot[r] # "none" \/ r = s)
          BY <4>1
        <4> QED BY <2>1, <4>1, <4>2 DEF Exact
      <3> QED BY <2>1, <3>1, <3>2, <3>3 DEF SessionInv, Claimed, Leased, Kept, Working
    <2> QED BY <2>2, <2>3
  <1>40. ASSUME NEW f \in Files, V!Submit(f)
        PROVE  SessionInv'
    <2>1. Live /\ Claimed /\ Exact /\ mmuOn
      BY <1>40, <1>0, <1>r DEF V!Submit
    <2>2. CASE V!Fault
      BY <2>2, <1>d
    <2>3. CASE ~V!Fault
      <3>1. at' = "wait" /\ UNCHANGED V!latch /\ irqLive'
        BY <1>40, <2>3 DEF V!Submit, V!CheckFails, V!GoOn, V!Arm
      <3>2. /\ UNCHANGED <<powered, clock, clockHeld, pm, pmHeld, claimed, woke, asleep, found>>
            /\ UNCHANGED <<memory, slot, mmuOn>>
        BY <1>40 DEF V!Submit, V!CheckFails
      <3>3. Claimed' /\ Exact'
        BY <2>1, <3>2, <1>b DEF Claimed, Leased, Kept
      <3> QED BY <2>1, <3>1, <3>2, <3>3 DEF SessionInv, Working
    <2> QED BY <2>2, <2>3
  <1>41. ASSUME NEW f \in Files, V!InterruptCheck(f)
        PROVE  SessionInv'
    BY <1>41, <1>0, <1>b, SessionAssumption DEF V!InterruptCheck, V!Serves, V!Ready, V!GoOn,
       V!Fault, LatchInv, SessionInv, Working, Off, Leased, Claimed, Kept, Returned, Closed
  <1> QED BY <1>1, <1>2, <1>3, <1>4, <1>5, <1>6, <1>7, <1>8, <1>9, <1>10, <1>11, <1>12, <1>13,
             <1>14, <1>15, <1>16, <1>17, <1>18, <1>19, <1>20, <1>21, <1>22, <1>23, <1>24, <1>25,
             <1>26, <1>27, <1>28, <1>29, <1>30, <1>31, <1>32, <1>33, <1>34, <1>35, <1>36, <1>37,
             <1>38, <1>39, <1>40, <1>41
     DEF V!Next, V!Request, V!Continue

\* What V!TypeOK says, in six parts.
LatchTypes ==
  /\ bootFault \in BOOLEAN /\ marker \in BOOLEAN /\ lost \in 0..MarkerFailures
  /\ pinned \in BOOLEAN

LifeTypes ==
  /\ pnp \in {"absent", "prepared", "d0"} /\ regs \in BOOLEAN /\ online \in BOOLEAN
  /\ owner \in Files \union {NoFile} /\ memSession \in BOOLEAN

TargetTypes ==
  /\ clock \in {"closed", "open", "leased"} /\ pm \in {"closed", "open", "leased"}
  /\ clockHeld \in BOOLEAN /\ pmHeld \in BOOLEAN

CoreTypes ==
  /\ powered \in BOOLEAN /\ claimed \in BOOLEAN /\ woke \in BOOLEAN /\ asleep \in BOOLEAN
  /\ found \in BOOLEAN /\ irqLive \in BOOLEAN /\ mmuOn \in BOOLEAN

BufferTypes ==
  /\ slot \in [V!Slots -> {"none", "own", "import"}]
  /\ memory \subseteq V!Slots \union {Root}
  /\ ptes \subseteq V!Slots \union {Root} /\ tlb \subseteq V!Slots \union {Root}

JobTypes ==
  /\ at \in V!Steps /\ wants \in BOOLEAN /\ bin \in BOOLEAN /\ clean \in BOOLEAN
  /\ corrupt \in BOOLEAN /\ job \in {"none", "running", "done"}
  /\ submitted \in 0..MaxJobs /\ completed \in 0..submitted

\* Every step keeps the types of the latch.
LEMMA LatchTypeStep ==
  ASSUME V!TypeOK, V!Next
  PROVE  LatchTypes'
  <1> USE DEF V!latch, V!life, V!session, V!targets, V!core, V!buffers, V!gpu, V!fences,
     V!progress
  <1>0. LatchTypes
    BY DEF V!TypeOK, LatchTypes
  <1>q. ASSUME UNCHANGED <<bootFault, marker, lost, pinned>>
        PROVE  LatchTypes'
    BY <1>0, <1>q DEF LatchTypes
  <1>f. ASSUME V!Fault
        PROVE  LatchTypes'
    <2>1. bootFault' \in BOOLEAN /\ pinned' \in BOOLEAN /\ marker' \in BOOLEAN
      BY <1>0, <1>f DEF V!Fault, LatchTypes
    <2>2. lost' = lost \/ (lost < MarkerFailures /\ lost' = lost + 1)
      BY <1>f DEF V!Fault
    <2>3. lost' \in 0..MarkerFailures
      BY <1>0, <2>2, SessionAssumption DEF LatchTypes
    <2> QED BY <2>1, <2>3 DEF LatchTypes
  <1>1. CASE V!OpenProviders
    BY <1>q, <1>1 DEF V!OpenProviders, V!GoOn, V!Refuse
  <1>2. CASE V!AcquireClock
    BY <1>q, <1>2 DEF V!AcquireClock, V!GoOn, V!Refuse
  <1>3. CASE V!AcquirePm
    BY <1>q, <1>3 DEF V!AcquirePm, V!GoOn, V!Refuse
  <1>4. CASE V!PowerUp
    BY <1>q, <1>4 DEF V!PowerUp, V!GoOn, V!Refuse
  <1>5. CASE V!Wake
    BY <1>q, <1>f, <1>5 DEF V!Wake, V!GoOn, V!Refuse
  <1>6. CASE V!Identify
    BY <1>q, <1>6 DEF V!Identify, V!GoOn, V!Refuse
  <1>7. CASE V!AllocateFixed
    BY <1>q, <1>7 DEF V!AllocateFixed, V!GoOn, V!Refuse
  <1>8. CASE V!ResetCore
    BY <1>q, <1>f, <1>8 DEF V!ResetCore, V!GoOn
  <1>9. CASE V!StartMmu
    BY <1>q, <1>f, <1>9 DEF V!StartMmu, V!GoOn
  <1>10. CASE V!ClearTable
    BY <1>q, <1>f, <1>10 DEF V!ClearTable, V!GoOn
  <1>11. CASE V!WaitFails
    BY <1>q, <1>f, <1>11 DEF V!WaitFails
  <1>12. CASE V!CompletionFails
    BY <1>q, <1>f, <1>12 DEF V!CompletionFails
  <1>13. CASE V!StartRender
    BY <1>q, <1>13 DEF V!StartRender, V!Arm
  <1>14. CASE V!Complete
    BY <1>q, <1>14 DEF V!Complete, V!GuardsPass, V!GoOn
  <1>15. CASE V!EndCore
    BY <1>q, <1>f, <1>15 DEF V!EndCore, V!GoOn
  <1>16. CASE V!EndCheck
    BY <1>q, <1>f, <1>16 DEF V!EndCheck, V!GoOn
  <1>17. CASE V!EndSleep
    BY <1>q, <1>f, <1>17 DEF V!EndSleep, V!GoOn
  <1>18. CASE V!EndFree
    BY <1>q, <1>18 DEF V!EndFree, V!GoOn
  <1>19. CASE V!DropPm
    BY <1>q, <1>f, <1>19 DEF V!DropPm, V!GoOn
  <1>20. CASE V!DropClock
    BY <1>q, <1>f, <1>20 DEF V!DropClock, V!GoOn
  <1>21. CASE V!CloseProviders
    BY <1>0, <1>21, SessionAssumption DEF V!CloseProviders, LatchTypes
  <1>22. CASE V!Query
    BY <1>q, <1>f, <1>22 DEF V!Query, V!GoOn
  <1>23. CASE V!Prepare
    BY <1>q, <1>23 DEF V!Prepare
  <1>24. CASE V!Entry
    BY <1>q, <1>24 DEF V!Entry
  <1>25. CASE V!Exit
    BY <1>q, <1>25 DEF V!Exit, V!GoOn
  <1>26. CASE V!ReleaseHardware
    BY <1>q, <1>f, <1>26 DEF V!ReleaseHardware, V!GoOn
  <1>27. CASE V!Remove
    BY <1>0, <1>27, SessionAssumption DEF V!Remove, LatchTypes
  <1>28. CASE V!Unload
    BY <1>0, <1>28, SessionAssumption DEF V!Unload, LatchTypes
  <1>29. CASE V!JobEnds
    BY <1>q, <1>29 DEF V!JobEnds
  <1>30. CASE V!Translate
    BY <1>q, <1>30 DEF V!Translate
  <1>31. CASE V!Overrun
    BY <1>q, <1>31 DEF V!Overrun
  <1>32. ASSUME NEW f \in Files, NEW ask \in BOOLEAN, V!Begin(f, ask)
        PROVE  LatchTypes'
    BY <1>0, <1>32, SessionAssumption DEF V!Begin, V!Ready, LatchTypes
  <1>33. ASSUME NEW f \in Files, V!ResetSession(f)
        PROVE  LatchTypes'
    BY <1>q, <1>33 DEF V!ResetSession, V!Serves, V!Ready, V!GoOn
  <1>34. ASSUME NEW f \in Files, V!EndSession(f)
        PROVE  LatchTypes'
    BY <1>q, <1>34 DEF V!EndSession, V!Serves, V!Ready, V!GoOn
  <1>35. ASSUME NEW f \in Files, V!Cleanup(f)
        PROVE  LatchTypes'
    BY <1>q, <1>35 DEF V!Cleanup, V!GoOn
  <1>36. ASSUME NEW f \in Files, V!CreateRefused(f)
        PROVE  LatchTypes'
    BY <1>q, <1>36 DEF V!CreateRefused, V!ServesMemory, V!Serves, V!Ready
  <1>37. ASSUME NEW f \in Files, V!TransferOrCheck(f)
        PROVE  LatchTypes'
    BY <1>q, <1>f, <1>37 DEF V!TransferOrCheck, V!CheckFails
  <1>38. ASSUME NEW f \in Files, NEW s \in V!Slots, V!Destroy(f, s)
        PROVE  LatchTypes'
    BY <1>q, <1>f, <1>38 DEF V!Destroy, V!GoOn
  <1>39. ASSUME NEW f \in Files, NEW s \in V!Slots, NEW use \in {"own", "import"},
               V!Place(f, s, use)
        PROVE  LatchTypes'
    BY <1>q, <1>f, <1>39 DEF V!Place, V!GoOn
  <1>40. ASSUME NEW f \in Files, V!Submit(f)
        PROVE  LatchTypes'
    BY <1>q, <1>f, <1>40 DEF V!Submit, V!CheckFails, V!GoOn
  <1>41. ASSUME NEW f \in Files, V!InterruptCheck(f)
        PROVE  LatchTypes'
    BY <1>q, <1>f, <1>41 DEF V!InterruptCheck, V!GoOn
  <1> QED BY <1>1, <1>2, <1>3, <1>4, <1>5, <1>6, <1>7, <1>8, <1>9, <1>10, <1>11, <1>12, <1>13,
             <1>14, <1>15, <1>16, <1>17, <1>18, <1>19, <1>20, <1>21, <1>22, <1>23, <1>24, <1>25,
             <1>26, <1>27, <1>28, <1>29, <1>30, <1>31, <1>32, <1>33, <1>34, <1>35, <1>36, <1>37,
             <1>38, <1>39, <1>40, <1>41
     DEF V!Next, V!Request, V!Continue

\* Every step keeps the types of the device and of its owner.
LEMMA LifeTypeStep ==
  ASSUME V!TypeOK, V!Next
  PROVE  LifeTypes'
  <1> USE DEF V!latch, V!life, V!session, V!targets, V!core, V!buffers, V!gpu, V!fences,
     V!progress
  <1>0. LifeTypes
    BY DEF V!TypeOK, LifeTypes
  <1>q. ASSUME UNCHANGED <<pnp, regs, online, owner, memSession>>
        PROVE  LifeTypes'
    BY <1>0, <1>q DEF LifeTypes
  <1>1. CASE V!OpenProviders
    BY <1>q, <1>1 DEF V!OpenProviders, V!Refuse
  <1>2. CASE V!AcquireClock
    BY <1>q, <1>2 DEF V!AcquireClock, V!Refuse
  <1>3. CASE V!AcquirePm
    BY <1>q, <1>3 DEF V!AcquirePm, V!Refuse
  <1>4. CASE V!PowerUp
    BY <1>q, <1>4 DEF V!PowerUp, V!Refuse
  <1>5. CASE V!Wake
    BY <1>q, <1>5 DEF V!Wake, V!Refuse
  <1>6. CASE V!Identify
    BY <1>q, <1>6 DEF V!Identify, V!Refuse
  <1>7. CASE V!AllocateFixed
    BY <1>q, <1>7 DEF V!AllocateFixed, V!Refuse
  <1>8. CASE V!ResetCore
    BY <1>q, <1>8 DEF V!ResetCore
  <1>9. CASE V!StartMmu
    BY <1>q, <1>9 DEF V!StartMmu
  <1>10. CASE V!ClearTable
    BY <1>0, <1>10 DEF V!ClearTable, V!GoOn, V!Fault, V!Flushed, V!FlushFails, LifeTypes
  <1>11. CASE V!WaitFails
    BY <1>q, <1>11 DEF V!WaitFails
  <1>12. CASE V!CompletionFails
    BY <1>q, <1>12 DEF V!CompletionFails
  <1>13. CASE V!StartRender
    BY <1>q, <1>13 DEF V!StartRender
  <1>14. CASE V!Complete
    BY <1>q, <1>14 DEF V!Complete
  <1>15. CASE V!EndCore
    BY <1>q, <1>15 DEF V!EndCore
  <1>16. CASE V!EndCheck
    BY <1>q, <1>16 DEF V!EndCheck
  <1>17. CASE V!EndSleep
    BY <1>q, <1>17 DEF V!EndSleep
  <1>18. CASE V!EndFree
    BY <1>0, <1>18 DEF V!EndFree, V!GoOn, LifeTypes
  <1>19. CASE V!DropPm
    BY <1>q, <1>19 DEF V!DropPm
  <1>20. CASE V!DropClock
    BY <1>q, <1>20 DEF V!DropClock
  <1>21. CASE V!CloseProviders
    BY <1>0, <1>21 DEF V!CloseProviders, LifeTypes
  <1>22. CASE V!Query
    BY <1>q, <1>22 DEF V!Query
  <1>23. CASE V!Prepare
    BY <1>0, <1>23 DEF V!Prepare, LifeTypes
  <1>24. CASE V!Entry
    BY <1>0, <1>24 DEF V!Entry, LifeTypes
  <1>25. CASE V!Exit
    BY <1>0, <1>25 DEF V!Exit, V!GoOn, LifeTypes
  <1>26. CASE V!ReleaseHardware
    BY <1>0, <1>26 DEF V!ReleaseHardware, V!Fault, V!GoOn, LifeTypes
  <1>27. CASE V!Remove
    BY <1>0, <1>27 DEF V!Remove, LifeTypes
  <1>28. CASE V!Unload
    BY <1>q, <1>28 DEF V!Unload
  <1>29. CASE V!JobEnds
    BY <1>q, <1>29 DEF V!JobEnds
  <1>30. CASE V!Translate
    BY <1>q, <1>30 DEF V!Translate
  <1>31. CASE V!Overrun
    BY <1>q, <1>31 DEF V!Overrun
  <1>32. ASSUME NEW f \in Files, NEW ask \in BOOLEAN, V!Begin(f, ask)
        PROVE  LifeTypes'
    BY <1>0, <1>32 DEF V!Begin, V!Ready, LifeTypes
  <1>33. ASSUME NEW f \in Files, V!ResetSession(f)
        PROVE  LifeTypes'
    BY <1>q, <1>33 DEF V!ResetSession
  <1>34. ASSUME NEW f \in Files, V!EndSession(f)
        PROVE  LifeTypes'
    BY <1>q, <1>34 DEF V!EndSession
  <1>35. ASSUME NEW f \in Files, V!Cleanup(f)
        PROVE  LifeTypes'
    BY <1>q, <1>35 DEF V!Cleanup
  <1>36. ASSUME NEW f \in Files, V!CreateRefused(f)
        PROVE  LifeTypes'
    BY <1>q, <1>36 DEF V!CreateRefused
  <1>37. ASSUME NEW f \in Files, V!TransferOrCheck(f)
        PROVE  LifeTypes'
    BY <1>q, <1>37 DEF V!TransferOrCheck, V!CheckFails
  <1>38. ASSUME NEW f \in Files, NEW s \in V!Slots, V!Destroy(f, s)
        PROVE  LifeTypes'
    BY <1>q, <1>38 DEF V!Destroy
  <1>39. ASSUME NEW f \in Files, NEW s \in V!Slots, NEW use \in {"own", "import"},
               V!Place(f, s, use)
        PROVE  LifeTypes'
    BY <1>q, <1>39 DEF V!Place
  <1>40. ASSUME NEW f \in Files, V!Submit(f)
        PROVE  LifeTypes'
    BY <1>q, <1>40 DEF V!Submit, V!CheckFails
  <1>41. ASSUME NEW f \in Files, V!InterruptCheck(f)
        PROVE  LifeTypes'
    BY <1>q, <1>41 DEF V!InterruptCheck
  <1> QED BY <1>1, <1>2, <1>3, <1>4, <1>5, <1>6, <1>7, <1>8, <1>9, <1>10, <1>11, <1>12, <1>13,
             <1>14, <1>15, <1>16, <1>17, <1>18, <1>19, <1>20, <1>21, <1>22, <1>23, <1>24, <1>25,
             <1>26, <1>27, <1>28, <1>29, <1>30, <1>31, <1>32, <1>33, <1>34, <1>35, <1>36, <1>37,
             <1>38, <1>39, <1>40, <1>41
     DEF V!Next, V!Request, V!Continue

\* Every step keeps the types of the leases.
LEMMA TargetTypeStep ==
  ASSUME V!TypeOK, V!Next
  PROVE  TargetTypes'
  <1> USE DEF V!latch, V!life, V!session, V!targets, V!core, V!buffers, V!gpu, V!fences,
     V!progress
  <1>0. TargetTypes
    BY DEF V!TypeOK, TargetTypes
  <1>q. ASSUME UNCHANGED <<clock, pm, clockHeld, pmHeld>>
        PROVE  TargetTypes'
    BY <1>0, <1>q DEF TargetTypes
  <1>1. CASE V!OpenProviders
    BY <1>0, <1>1 DEF V!OpenProviders, V!GoOn, V!Refuse, TargetTypes
  <1>2. CASE V!AcquireClock
    BY <1>0, <1>2 DEF V!AcquireClock, V!GoOn, V!Refuse, TargetTypes
  <1>3. CASE V!AcquirePm
    BY <1>0, <1>3 DEF V!AcquirePm, V!GoOn, V!Refuse, TargetTypes
  <1>4. CASE V!PowerUp
    BY <1>q, <1>4 DEF V!PowerUp, V!Refuse
  <1>5. CASE V!Wake
    BY <1>q, <1>5 DEF V!Wake, V!Refuse
  <1>6. CASE V!Identify
    BY <1>q, <1>6 DEF V!Identify, V!Refuse
  <1>7. CASE V!AllocateFixed
    BY <1>q, <1>7 DEF V!AllocateFixed, V!Refuse
  <1>8. CASE V!ResetCore
    BY <1>q, <1>8 DEF V!ResetCore
  <1>9. CASE V!StartMmu
    BY <1>q, <1>9 DEF V!StartMmu
  <1>10. CASE V!ClearTable
    BY <1>q, <1>10 DEF V!ClearTable
  <1>11. CASE V!WaitFails
    BY <1>q, <1>11 DEF V!WaitFails
  <1>12. CASE V!CompletionFails
    BY <1>q, <1>12 DEF V!CompletionFails
  <1>13. CASE V!StartRender
    BY <1>q, <1>13 DEF V!StartRender
  <1>14. CASE V!Complete
    BY <1>q, <1>14 DEF V!Complete
  <1>15. CASE V!EndCore
    BY <1>q, <1>15 DEF V!EndCore
  <1>16. CASE V!EndCheck
    BY <1>q, <1>16 DEF V!EndCheck
  <1>17. CASE V!EndSleep
    BY <1>q, <1>17 DEF V!EndSleep
  <1>18. CASE V!EndFree
    BY <1>q, <1>18 DEF V!EndFree
  <1>19. CASE V!DropPm
    BY <1>0, <1>19 DEF V!DropPm, V!GoOn, V!Fault, TargetTypes
  <1>20. CASE V!DropClock
    BY <1>0, <1>20 DEF V!DropClock, V!GoOn, V!Fault, TargetTypes
  <1>21. CASE V!CloseProviders
    BY <1>0, <1>21 DEF V!CloseProviders, TargetTypes
  <1>22. CASE V!Query
    BY <1>q, <1>22 DEF V!Query
  <1>23. CASE V!Prepare
    BY <1>q, <1>23 DEF V!Prepare
  <1>24. CASE V!Entry
    BY <1>q, <1>24 DEF V!Entry
  <1>25. CASE V!Exit
    BY <1>q, <1>25 DEF V!Exit
  <1>26. CASE V!ReleaseHardware
    BY <1>q, <1>26 DEF V!ReleaseHardware
  <1>27. CASE V!Remove
    BY <1>0, <1>27 DEF V!Remove, TargetTypes
  <1>28. CASE V!Unload
    BY <1>q, <1>28 DEF V!Unload
  <1>29. CASE V!JobEnds
    BY <1>q, <1>29 DEF V!JobEnds
  <1>30. CASE V!Translate
    BY <1>q, <1>30 DEF V!Translate
  <1>31. CASE V!Overrun
    BY <1>q, <1>31 DEF V!Overrun
  <1>32. ASSUME NEW f \in Files, NEW ask \in BOOLEAN, V!Begin(f, ask)
        PROVE  TargetTypes'
    BY <1>q, <1>32 DEF V!Begin
  <1>33. ASSUME NEW f \in Files, V!ResetSession(f)
        PROVE  TargetTypes'
    BY <1>q, <1>33 DEF V!ResetSession
  <1>34. ASSUME NEW f \in Files, V!EndSession(f)
        PROVE  TargetTypes'
    BY <1>q, <1>34 DEF V!EndSession
  <1>35. ASSUME NEW f \in Files, V!Cleanup(f)
        PROVE  TargetTypes'
    BY <1>q, <1>35 DEF V!Cleanup
  <1>36. ASSUME NEW f \in Files, V!CreateRefused(f)
        PROVE  TargetTypes'
    BY <1>q, <1>36 DEF V!CreateRefused
  <1>37. ASSUME NEW f \in Files, V!TransferOrCheck(f)
        PROVE  TargetTypes'
    BY <1>q, <1>37 DEF V!TransferOrCheck, V!CheckFails
  <1>38. ASSUME NEW f \in Files, NEW s \in V!Slots, V!Destroy(f, s)
        PROVE  TargetTypes'
    BY <1>q, <1>38 DEF V!Destroy
  <1>39. ASSUME NEW f \in Files, NEW s \in V!Slots, NEW use \in {"own", "import"},
               V!Place(f, s, use)
        PROVE  TargetTypes'
    BY <1>q, <1>39 DEF V!Place
  <1>40. ASSUME NEW f \in Files, V!Submit(f)
        PROVE  TargetTypes'
    BY <1>q, <1>40 DEF V!Submit, V!CheckFails
  <1>41. ASSUME NEW f \in Files, V!InterruptCheck(f)
        PROVE  TargetTypes'
    BY <1>q, <1>41 DEF V!InterruptCheck
  <1> QED BY <1>1, <1>2, <1>3, <1>4, <1>5, <1>6, <1>7, <1>8, <1>9, <1>10, <1>11, <1>12, <1>13,
             <1>14, <1>15, <1>16, <1>17, <1>18, <1>19, <1>20, <1>21, <1>22, <1>23, <1>24, <1>25,
             <1>26, <1>27, <1>28, <1>29, <1>30, <1>31, <1>32, <1>33, <1>34, <1>35, <1>36, <1>37,
             <1>38, <1>39, <1>40, <1>41
     DEF V!Next, V!Request, V!Continue

\* Every step keeps the types of the core.
LEMMA CoreTypeStep ==
  ASSUME V!TypeOK, V!Next
  PROVE  CoreTypes'
  <1> USE DEF V!latch, V!life, V!session, V!targets, V!core, V!buffers, V!gpu, V!fences,
     V!progress
  <1>0. CoreTypes
    BY DEF V!TypeOK, CoreTypes
  <1>q. ASSUME UNCHANGED <<powered, claimed, woke, asleep, found, irqLive, mmuOn>>
        PROVE  CoreTypes'
    BY <1>0, <1>q DEF CoreTypes
  <1>1. CASE V!OpenProviders
    BY <1>q, <1>1 DEF V!OpenProviders, V!Refuse
  <1>2. CASE V!AcquireClock
    BY <1>q, <1>2 DEF V!AcquireClock, V!Refuse
  <1>3. CASE V!AcquirePm
    BY <1>q, <1>3 DEF V!AcquirePm, V!Refuse
  <1>4. CASE V!PowerUp
    BY <1>0, <1>4 DEF V!PowerUp, V!GoOn, V!Refuse, CoreTypes
  <1>5. CASE V!Wake
    BY <1>0, <1>5 DEF V!Wake, V!GoOn, V!Refuse, V!Fault, CoreTypes
  <1>6. CASE V!Identify
    BY <1>0, <1>6 DEF V!Identify, V!GoOn, V!Refuse, CoreTypes
  <1>7. CASE V!AllocateFixed
    BY <1>q, <1>7 DEF V!AllocateFixed, V!Refuse
  <1>8. CASE V!ResetCore
    BY <1>0, <1>8 DEF V!ResetCore, V!GoOn, V!Fault, V!PulseFails, CoreTypes
  <1>9. CASE V!StartMmu
    BY <1>0, <1>9 DEF V!StartMmu, V!GoOn, V!Fault, V!Flushed, V!FlushFails, CoreTypes
  <1>10. CASE V!ClearTable
    BY <1>q, <1>10 DEF V!ClearTable
  <1>11. CASE V!WaitFails
    BY <1>0, <1>11 DEF V!WaitFails, V!Fault, CoreTypes
  <1>12. CASE V!CompletionFails
    BY <1>q, <1>12 DEF V!CompletionFails
  <1>13. CASE V!StartRender
    BY <1>0, <1>13 DEF V!StartRender, V!Arm, CoreTypes
  <1>14. CASE V!Complete
    BY <1>q, <1>14 DEF V!Complete
  <1>15. CASE V!EndCore
    BY <1>0, <1>15 DEF V!EndCore, V!GoOn, V!Fault, V!PulseFails, CoreTypes
  <1>16. CASE V!EndCheck
    BY <1>0, <1>16 DEF V!EndCheck, V!GoOn, V!Fault, CoreTypes
  <1>17. CASE V!EndSleep
    BY <1>0, <1>17 DEF V!EndSleep, V!GoOn, V!Fault, CoreTypes
  <1>18. CASE V!EndFree
    BY <1>q, <1>18 DEF V!EndFree
  <1>19. CASE V!DropPm
    BY <1>q, <1>19 DEF V!DropPm
  <1>20. CASE V!DropClock
    BY <1>q, <1>20 DEF V!DropClock
  <1>21. CASE V!CloseProviders
    BY <1>q, <1>21 DEF V!CloseProviders
  <1>22. CASE V!Query
    BY <1>q, <1>22 DEF V!Query
  <1>23. CASE V!Prepare
    BY <1>q, <1>23 DEF V!Prepare
  <1>24. CASE V!Entry
    BY <1>q, <1>24 DEF V!Entry
  <1>25. CASE V!Exit
    BY <1>0, <1>25 DEF V!Exit, V!GoOn, CoreTypes
  <1>26. CASE V!ReleaseHardware
    BY <1>q, <1>26 DEF V!ReleaseHardware
  <1>27. CASE V!Remove
    BY <1>0, <1>27 DEF V!Remove, CoreTypes
  <1>28. CASE V!Unload
    BY <1>q, <1>28 DEF V!Unload
  <1>29. CASE V!JobEnds
    BY <1>q, <1>29 DEF V!JobEnds
  <1>30. CASE V!Translate
    BY <1>q, <1>30 DEF V!Translate
  <1>31. CASE V!Overrun
    BY <1>q, <1>31 DEF V!Overrun
  <1>32. ASSUME NEW f \in Files, NEW ask \in BOOLEAN, V!Begin(f, ask)
        PROVE  CoreTypes'
    BY <1>q, <1>32 DEF V!Begin
  <1>33. ASSUME NEW f \in Files, V!ResetSession(f)
        PROVE  CoreTypes'
    BY <1>q, <1>33 DEF V!ResetSession
  <1>34. ASSUME NEW f \in Files, V!EndSession(f)
        PROVE  CoreTypes'
    BY <1>q, <1>34 DEF V!EndSession
  <1>35. ASSUME NEW f \in Files, V!Cleanup(f)
        PROVE  CoreTypes'
    BY <1>q, <1>35 DEF V!Cleanup
  <1>36. ASSUME NEW f \in Files, V!CreateRefused(f)
        PROVE  CoreTypes'
    BY <1>q, <1>36 DEF V!CreateRefused
  <1>37. ASSUME NEW f \in Files, V!TransferOrCheck(f)
        PROVE  CoreTypes'
    BY <1>q, <1>37 DEF V!TransferOrCheck, V!CheckFails
  <1>38. ASSUME NEW f \in Files, NEW s \in V!Slots, V!Destroy(f, s)
        PROVE  CoreTypes'
    BY <1>q, <1>38 DEF V!Destroy
  <1>39. ASSUME NEW f \in Files, NEW s \in V!Slots, NEW use \in {"own", "import"},
               V!Place(f, s, use)
        PROVE  CoreTypes'
    BY <1>q, <1>39 DEF V!Place
  <1>40. ASSUME NEW f \in Files, V!Submit(f)
        PROVE  CoreTypes'
    BY <1>0, <1>40 DEF V!Submit, V!Serves, V!Ready, V!CheckFails, V!Fault, V!Arm, V!GoOn,
       CoreTypes
  <1>41. ASSUME NEW f \in Files, V!InterruptCheck(f)
        PROVE  CoreTypes'
    BY <1>0, <1>41 DEF V!InterruptCheck, V!Serves, V!Ready, V!GoOn, V!Fault, CoreTypes
  <1> QED BY <1>1, <1>2, <1>3, <1>4, <1>5, <1>6, <1>7, <1>8, <1>9, <1>10, <1>11, <1>12, <1>13,
             <1>14, <1>15, <1>16, <1>17, <1>18, <1>19, <1>20, <1>21, <1>22, <1>23, <1>24, <1>25,
             <1>26, <1>27, <1>28, <1>29, <1>30, <1>31, <1>32, <1>33, <1>34, <1>35, <1>36, <1>37,
             <1>38, <1>39, <1>40, <1>41
     DEF V!Next, V!Request, V!Continue

\* Every step keeps the types of the buffers.
LEMMA BufferTypeStep ==
  ASSUME V!TypeOK, V!Next
  PROVE  BufferTypes'
  <1> USE DEF V!latch, V!life, V!session, V!targets, V!core, V!buffers, V!gpu, V!fences,
     V!progress
  <1>0. BufferTypes
    BY DEF V!TypeOK, BufferTypes
  <1>q. ASSUME UNCHANGED <<slot, memory, ptes, tlb>>
        PROVE  BufferTypes'
    BY <1>0, <1>q DEF BufferTypes
  <1>1. CASE V!OpenProviders
    BY <1>q, <1>1 DEF V!OpenProviders, V!Refuse
  <1>2. CASE V!AcquireClock
    BY <1>q, <1>2 DEF V!AcquireClock, V!Refuse
  <1>3. CASE V!AcquirePm
    BY <1>q, <1>3 DEF V!AcquirePm, V!Refuse
  <1>4. CASE V!PowerUp
    BY <1>q, <1>4 DEF V!PowerUp, V!Refuse
  <1>5. CASE V!Wake
    BY <1>q, <1>5 DEF V!Wake, V!Refuse
  <1>6. CASE V!Identify
    BY <1>q, <1>6 DEF V!Identify, V!Refuse
  <1>7. CASE V!AllocateFixed
    BY <1>0, <1>7 DEF V!AllocateFixed, V!GoOn, V!Refuse, BufferTypes
  <1>8. CASE V!ResetCore
    BY <1>0, <1>8 DEF V!ResetCore, V!GoOn, V!Fault, V!PulseFails, BufferTypes
  <1>9. CASE V!StartMmu
    BY <1>0, <1>9 DEF V!StartMmu, V!GoOn, V!Fault, V!Flushed, V!FlushFails, BufferTypes
  <1>10. CASE V!ClearTable
    BY <1>0, <1>10 DEF V!ClearTable, V!GoOn, V!Fault, V!Flushed, V!FlushFails, BufferTypes
  <1>11. CASE V!WaitFails
    BY <1>q, <1>11 DEF V!WaitFails
  <1>12. CASE V!CompletionFails
    BY <1>q, <1>12 DEF V!CompletionFails
  <1>13. CASE V!StartRender
    BY <1>q, <1>13 DEF V!StartRender
  <1>14. CASE V!Complete
    BY <1>q, <1>14 DEF V!Complete
  <1>15. CASE V!EndCore
    BY <1>0, <1>15 DEF V!EndCore, V!GoOn, V!Fault, V!PulseFails, BufferTypes
  <1>16. CASE V!EndCheck
    BY <1>q, <1>16 DEF V!EndCheck
  <1>17. CASE V!EndSleep
    BY <1>q, <1>17 DEF V!EndSleep
  <1>18. CASE V!EndFree
    BY <1>0, <1>18 DEF V!EndFree, V!GoOn, BufferTypes
  <1>19. CASE V!DropPm
    BY <1>q, <1>19 DEF V!DropPm
  <1>20. CASE V!DropClock
    BY <1>q, <1>20 DEF V!DropClock
  <1>21. CASE V!CloseProviders
    BY <1>q, <1>21 DEF V!CloseProviders
  <1>22. CASE V!Query
    BY <1>q, <1>22 DEF V!Query
  <1>23. CASE V!Prepare
    BY <1>q, <1>23 DEF V!Prepare
  <1>24. CASE V!Entry
    BY <1>q, <1>24 DEF V!Entry
  <1>25. CASE V!Exit
    BY <1>q, <1>25 DEF V!Exit
  <1>26. CASE V!ReleaseHardware
    BY <1>q, <1>26 DEF V!ReleaseHardware
  <1>27. CASE V!Remove
    BY <1>0, <1>27 DEF V!Remove, BufferTypes
  <1>28. CASE V!Unload
    BY <1>q, <1>28 DEF V!Unload
  <1>29. CASE V!JobEnds
    BY <1>q, <1>29 DEF V!JobEnds
  <1>30. CASE V!Translate
    BY <1>0, <1>30 DEF V!Translate, BufferTypes
  <1>31. CASE V!Overrun
    BY <1>q, <1>31 DEF V!Overrun
  <1>32. ASSUME NEW f \in Files, NEW ask \in BOOLEAN, V!Begin(f, ask)
        PROVE  BufferTypes'
    BY <1>q, <1>32 DEF V!Begin
  <1>33. ASSUME NEW f \in Files, V!ResetSession(f)
        PROVE  BufferTypes'
    BY <1>q, <1>33 DEF V!ResetSession
  <1>34. ASSUME NEW f \in Files, V!EndSession(f)
        PROVE  BufferTypes'
    BY <1>q, <1>34 DEF V!EndSession
  <1>35. ASSUME NEW f \in Files, V!Cleanup(f)
        PROVE  BufferTypes'
    BY <1>q, <1>35 DEF V!Cleanup
  <1>36. ASSUME NEW f \in Files, V!CreateRefused(f)
        PROVE  BufferTypes'
    BY <1>q, <1>36 DEF V!CreateRefused
  <1>37. ASSUME NEW f \in Files, V!TransferOrCheck(f)
        PROVE  BufferTypes'
    BY <1>q, <1>37 DEF V!TransferOrCheck, V!CheckFails
  <1>38. ASSUME NEW f \in Files, NEW s \in V!Slots, V!Destroy(f, s)
        PROVE  BufferTypes'
    BY <1>0, <1>38 DEF V!Destroy, V!ServesMemory, V!Serves, V!Ready, V!Flushed, V!FlushFails,
       V!Fault, V!GoOn, BufferTypes
  <1>39. ASSUME NEW f \in Files, NEW s \in V!Slots, NEW use \in {"own", "import"},
               V!Place(f, s, use)
        PROVE  BufferTypes'
    BY <1>0, <1>39 DEF V!Place, V!ServesMemory, V!Serves, V!Ready, V!Flushed, V!FlushFails,
       V!Fault, V!GoOn, BufferTypes
  <1>40. ASSUME NEW f \in Files, V!Submit(f)
        PROVE  BufferTypes'
    BY <1>q, <1>40 DEF V!Submit, V!CheckFails
  <1>41. ASSUME NEW f \in Files, V!InterruptCheck(f)
        PROVE  BufferTypes'
    BY <1>q, <1>41 DEF V!InterruptCheck
  <1> QED BY <1>1, <1>2, <1>3, <1>4, <1>5, <1>6, <1>7, <1>8, <1>9, <1>10, <1>11, <1>12, <1>13,
             <1>14, <1>15, <1>16, <1>17, <1>18, <1>19, <1>20, <1>21, <1>22, <1>23, <1>24, <1>25,
             <1>26, <1>27, <1>28, <1>29, <1>30, <1>31, <1>32, <1>33, <1>34, <1>35, <1>36, <1>37,
             <1>38, <1>39, <1>40, <1>41
     DEF V!Next, V!Request, V!Continue

\* Every step keeps the types of the handler and of the jobs.
LEMMA JobTypeStep ==
  ASSUME V!TypeOK, V!Next
  PROVE  JobTypes'
  <1> USE DEF V!latch, V!life, V!session, V!targets, V!core, V!buffers, V!gpu, V!fences,
     V!progress
  <1>0. JobTypes
    BY DEF V!TypeOK, JobTypes
  <1>q. ASSUME UNCHANGED <<at, wants, bin, clean, corrupt, job, submitted, completed>>
        PROVE  JobTypes'
    BY <1>0, <1>q DEF JobTypes
  <1>m. memSession \in BOOLEAN
    BY DEF V!TypeOK
  <1>1. CASE V!OpenProviders
    BY <1>0, <1>1, SessionAssumption DEF V!OpenProviders, V!GoOn, V!Refuse, V!Steps, JobTypes
  <1>2. CASE V!AcquireClock
    BY <1>0, <1>2, SessionAssumption DEF V!AcquireClock, V!GoOn, V!Refuse, V!Steps, JobTypes
  <1>3. CASE V!AcquirePm
    BY <1>0, <1>3, SessionAssumption DEF V!AcquirePm, V!GoOn, V!Refuse, V!Steps, JobTypes
  <1>4. CASE V!PowerUp
    BY <1>0, <1>4, SessionAssumption DEF V!PowerUp, V!GoOn, V!Refuse, V!Steps, JobTypes
  <1>5. CASE V!Wake
    BY <1>0, <1>5, SessionAssumption DEF V!Wake, V!GoOn, V!Refuse, V!Fault, V!Steps, JobTypes
  <1>6. CASE V!Identify
    BY <1>0, <1>6, SessionAssumption DEF V!Identify, V!GoOn, V!Refuse, V!Steps, JobTypes
  <1>7. CASE V!AllocateFixed
    BY <1>0, <1>7, SessionAssumption DEF V!AllocateFixed, V!GoOn, V!Refuse, V!Steps, JobTypes
  <1>8. CASE V!ResetCore
    BY <1>0, <1>8, SessionAssumption DEF V!ResetCore, V!GoOn, V!Fault, V!PulseFails, V!Steps,
       JobTypes
  <1>9. CASE V!StartMmu
    BY <1>0, <1>9, SessionAssumption DEF V!StartMmu, V!GoOn, V!Fault, V!Flushed, V!FlushFails,
       V!Steps, JobTypes
  <1>10. CASE V!ClearTable
    BY <1>0, <1>10, SessionAssumption DEF V!ClearTable, V!GoOn, V!Fault, V!Flushed,
       V!FlushFails, V!Steps, JobTypes
  <1>11. CASE V!WaitFails
    BY <1>0, <1>11, SessionAssumption DEF V!WaitFails, V!Fault, V!Steps, JobTypes
  <1>12. CASE V!CompletionFails
    BY <1>0, <1>12, SessionAssumption DEF V!CompletionFails, V!Fault, V!Steps, JobTypes
  <1>13. CASE V!StartRender
    BY <1>0, <1>m, <1>13 DEF V!StartRender, V!Arm, V!Steps, JobTypes
  <1>14. CASE V!Complete
    BY <1>0, <1>14, SessionAssumption DEF V!Complete, V!GuardsPass, V!GoOn, V!Steps, JobTypes
  <1>15. CASE V!EndCore
    BY <1>0, <1>15, SessionAssumption DEF V!EndCore, V!GoOn, V!Fault, V!PulseFails, V!Steps,
       JobTypes
  <1>16. CASE V!EndCheck
    BY <1>0, <1>16, SessionAssumption DEF V!EndCheck, V!GoOn, V!Fault, V!Steps, JobTypes
  <1>17. CASE V!EndSleep
    BY <1>0, <1>17, SessionAssumption DEF V!EndSleep, V!GoOn, V!Fault, V!Steps, JobTypes
  <1>18. CASE V!EndFree
    BY <1>0, <1>18, SessionAssumption DEF V!EndFree, V!GoOn, V!Steps, JobTypes
  <1>19. CASE V!DropPm
    BY <1>0, <1>19, SessionAssumption DEF V!DropPm, V!GoOn, V!Fault, V!Steps, JobTypes
  <1>20. CASE V!DropClock
    BY <1>0, <1>20, SessionAssumption DEF V!DropClock, V!GoOn, V!Fault, V!Steps, JobTypes
  <1>21. CASE V!CloseProviders
    BY <1>0, <1>21, SessionAssumption DEF V!CloseProviders, V!Steps, JobTypes
  <1>22. CASE V!Query
    BY <1>0, <1>22, SessionAssumption DEF V!Query, V!Fault, V!GoOn, V!Steps, JobTypes
  <1>23. CASE V!Prepare
    BY <1>q, <1>23 DEF V!Prepare
  <1>24. CASE V!Entry
    BY <1>q, <1>24 DEF V!Entry
  <1>25. CASE V!Exit
    BY <1>0, <1>25, SessionAssumption DEF V!Exit, V!GoOn, V!Steps, JobTypes
  <1>26. CASE V!ReleaseHardware
    BY <1>0, <1>26, SessionAssumption DEF V!ReleaseHardware, V!Fault, V!GoOn, V!Steps, JobTypes
  <1>27. CASE V!Remove
    <2>1. submitted' = 0 /\ completed' = 0 /\ UNCHANGED <<at, wants, bin, corrupt, job>>
      BY <1>27 DEF V!Remove
    <2>2. clean' \in BOOLEAN
      BY <1>27 DEF V!Remove
    <2>3. submitted' \in 0..MaxJobs /\ completed' \in 0..submitted'
      BY <2>1, SessionAssumption
    <2> QED BY <1>0, <2>1, <2>2, <2>3 DEF JobTypes
  <1>28. CASE V!Unload
    BY <1>q, <1>28 DEF V!Unload
  <1>29. CASE V!JobEnds
    BY <1>0, <1>29, SessionAssumption DEF V!JobEnds, V!Steps, JobTypes
  <1>30. CASE V!Translate
    BY <1>q, <1>30 DEF V!Translate
  <1>31. CASE V!Overrun
    BY <1>0, <1>31, SessionAssumption DEF V!Overrun, V!Steps, JobTypes
  <1>32. ASSUME NEW f \in Files, NEW ask \in BOOLEAN, V!Begin(f, ask)
        PROVE  JobTypes'
    BY <1>0, <1>32, SessionAssumption DEF V!Begin, V!Ready, V!Steps, JobTypes
  <1>33. ASSUME NEW f \in Files, V!ResetSession(f)
        PROVE  JobTypes'
    BY <1>0, <1>33, SessionAssumption DEF V!ResetSession, V!Serves, V!Ready, V!GoOn, V!Steps,
       JobTypes
  <1>34. ASSUME NEW f \in Files, V!EndSession(f)
        PROVE  JobTypes'
    BY <1>0, <1>34, SessionAssumption DEF V!EndSession, V!Serves, V!Ready, V!GoOn, V!Steps,
       JobTypes
  <1>35. ASSUME NEW f \in Files, V!Cleanup(f)
        PROVE  JobTypes'
    BY <1>0, <1>35, SessionAssumption DEF V!Cleanup, V!GoOn, V!Steps, JobTypes
  <1>36. ASSUME NEW f \in Files, V!CreateRefused(f)
        PROVE  JobTypes'
    BY <1>0, <1>36, SessionAssumption DEF V!CreateRefused, V!ServesMemory, V!Serves, V!Ready,
       V!Steps, JobTypes
  <1>37. ASSUME NEW f \in Files, V!TransferOrCheck(f)
        PROVE  JobTypes'
    BY <1>0, <1>37, SessionAssumption DEF V!TransferOrCheck, V!ServesMemory, V!Serves, V!Ready,
       V!CheckFails, V!Fault, V!GuardsPass, V!Steps, JobTypes
  <1>38. ASSUME NEW f \in Files, NEW s \in V!Slots, V!Destroy(f, s)
        PROVE  JobTypes'
    BY <1>0, <1>38, SessionAssumption DEF V!Destroy, V!ServesMemory, V!Serves, V!Ready,
       V!Flushed, V!FlushFails, V!Fault, V!GoOn, V!Steps, JobTypes
  <1>39. ASSUME NEW f \in Files, NEW s \in V!Slots, NEW use \in {"own", "import"},
               V!Place(f, s, use)
        PROVE  JobTypes'
    BY <1>0, <1>39, SessionAssumption DEF V!Place, V!ServesMemory, V!Serves, V!Ready, V!Flushed,
       V!FlushFails, V!Fault, V!GoOn, V!Steps, JobTypes
  <1>40. ASSUME NEW f \in Files, V!Submit(f)
        PROVE  JobTypes'
    <2>1. CASE V!CheckFails
      BY <1>0, <2>1, <1>40 DEF V!CheckFails, V!Fault, V!Steps, JobTypes
    <2>2. CASE ~V!CheckFails
      <3>1. /\ at' = "wait" /\ job' = "running" /\ clean' = memSession /\ bin' \in BOOLEAN
            /\ UNCHANGED <<wants, corrupt>>
        BY <1>40, <2>2 DEF V!Submit, V!GoOn, V!Arm
      <3>2. submitted < MaxJobs /\ submitted' = submitted + 1 /\ UNCHANGED completed
        BY <1>40, <2>2 DEF V!Submit
      <3>3. submitted' \in 0..MaxJobs /\ completed' \in 0..submitted'
        BY <1>0, <3>2, SessionAssumption DEF JobTypes
      <3> QED BY <1>0, <1>m, <3>1, <3>3 DEF V!Steps, JobTypes
    <2> QED BY <2>1, <2>2
  <1>41. ASSUME NEW f \in Files, V!InterruptCheck(f)
        PROVE  JobTypes'
    BY <1>0, <1>41, SessionAssumption DEF V!InterruptCheck, V!Serves, V!Ready, V!GoOn, V!Fault,
       V!Steps, JobTypes
  <1> QED BY <1>1, <1>2, <1>3, <1>4, <1>5, <1>6, <1>7, <1>8, <1>9, <1>10, <1>11, <1>12, <1>13,
             <1>14, <1>15, <1>16, <1>17, <1>18, <1>19, <1>20, <1>21, <1>22, <1>23, <1>24, <1>25,
             <1>26, <1>27, <1>28, <1>29, <1>30, <1>31, <1>32, <1>33, <1>34, <1>35, <1>36, <1>37,
             <1>38, <1>39, <1>40, <1>41
     DEF V!Next, V!Request, V!Continue

\* Every step keeps the types of the session's variables.
LEMMA SessionTypeStep ==
  ASSUME V!TypeOK, V!Next
  PROVE  V!TypeOK'
  <1>1. LatchTypes' /\ LifeTypes' /\ TargetTypes' /\ CoreTypes' /\ BufferTypes' /\ JobTypes'
    BY LatchTypeStep, LifeTypeStep, TargetTypeStep, CoreTypeStep, BufferTypeStep, JobTypeStep
  <1> QED BY <1>1 DEF LatchTypes, LifeTypes, TargetTypes, CoreTypes, BufferTypes, JobTypes,
                      V!TypeOK

-------------------------------------------------------------------------------
(* The wait (V3dWait) and the exchange with the firmware (MbxTransport).   *)

\* What W!TypeOK says, of the thread and of the interrupts.
ThreadTypes ==
  /\ w_pc \in {"free", "off", "zero", "event", "on", "submit", "errors", "answer",
               "deadline", "sleep", "clear", "failing", "stopped"}
  /\ todo \subseteq Units /\ need \in SUBSET Units /\ jobs \in 0..MaxJobs /\ late \in BOOLEAN

InterruptTypes ==
  /\ w_irqLive \in [Units -> BOOLEAN] /\ pending \in [Units -> SUBSET W!Bits]
  /\ wake \in BOOLEAN /\ dpc \in [Units -> BOOLEAN]
  /\ isr \in [Units -> {"none", "clear", "report"}] /\ bits \in [Units -> SUBSET W!Bits]
  /\ sts \in [Units -> SUBSET W!Bits] /\ masked \in [Units -> BOOLEAN]
  /\ engine \in {"none", "running", "ended"}

\* Every step keeps the types of the thread.
LEMMA ThreadTypeStep ==
  ASSUME W!TypeOK, W!Next
  PROVE  ThreadTypes'
  <1> USE DEF W!thread, W!routine, W!hw
  <1>0. ThreadTypes
    BY DEF W!TypeOK, ThreadTypes
  <1>q. ASSUME UNCHANGED <<w_pc, todo, need, jobs, late>>
        PROVE  ThreadTypes'
    BY <1>0, <1>q DEF ThreadTypes
  <1>1. CASE W!StartJob
    <2>1. w_pc' = "off" /\ todo' = Units /\ need' \in SUBSET Units /\ late' = FALSE
      BY <1>1 DEF W!StartJob
    <2>2. jobs < MaxJobs /\ jobs' = jobs + 1
      BY <1>1 DEF W!StartJob
    <2>3. jobs' \in 0..MaxJobs
      BY <1>0, <2>2, SessionAssumption DEF ThreadTypes
    <2> QED BY <1>0, <2>1, <2>3 DEF ThreadTypes
  <1>2. CASE W!ArmZero
    BY <1>0, <1>2 DEF W!ArmZero, W!Goto, W!Bits, ThreadTypes
  <1>3. CASE W!ArmEvent
    BY <1>0, <1>3 DEF W!ArmEvent, W!Goto, W!Bits, ThreadTypes
  <1>4. CASE W!SubmitJob
    BY <1>0, <1>4 DEF W!SubmitJob, W!Goto, W!Bits, ThreadTypes
  <1>5. CASE W!WaitErrors
    BY <1>0, <1>5 DEF W!WaitErrors, W!Goto, W!Bits, ThreadTypes
  <1>6. CASE W!WaitAnswer
    BY <1>0, <1>6 DEF W!WaitAnswer, W!Goto, W!Bits, ThreadTypes
  <1>7. CASE W!WaitDeadline
    BY <1>0, <1>7 DEF W!WaitDeadline, W!Goto, W!Bits, ThreadTypes
  <1>8. CASE W!WaitSleep
    BY <1>0, <1>8 DEF W!WaitSleep, W!Goto, W!Bits, ThreadTypes
  <1>9. CASE W!WaitClear
    BY <1>0, <1>9 DEF W!WaitClear, W!Goto, W!Bits, ThreadTypes
  <1>10. CASE W!EngineEnds
    BY <1>q, <1>10 DEF W!EngineEnds, W!Goto
  <1>11. CASE W!EngineErrs
    BY <1>q, <1>11 DEF W!EngineErrs, W!Goto
  <1>12. CASE W!DeadlinePasses
    BY <1>0, <1>12 DEF W!DeadlinePasses, W!Goto, W!Bits, ThreadTypes
  <1>13. CASE W!ArmOff
    <2>1. PICK u \in Units : W!MaskOff(u, "zero")
      BY <1>13 DEF W!ArmOff
    <2> QED BY <1>0, <2>1 DEF W!MaskOff, W!Goto, ThreadTypes
  <1>14. CASE W!FailOff
    <2>1. PICK u \in Units : W!MaskOff(u, "stopped")
      BY <1>14 DEF W!FailOff
    <2> QED BY <1>0, <2>1 DEF W!MaskOff, W!Goto, ThreadTypes
  <1>15. CASE W!ArmOn
    BY <1>0, <1>15 DEF W!ArmOn, W!Goto, ThreadTypes
  <1>16. ASSUME NEW u \in Units, W!IsrRead(u)
        PROVE  ThreadTypes'
    BY <1>q, <1>16 DEF W!IsrRead
  <1>17. ASSUME NEW u \in Units, W!IsrClear(u)
        PROVE  ThreadTypes'
    BY <1>q, <1>17 DEF W!IsrClear
  <1>18. ASSUME NEW u \in Units, W!IsrReport(u)
        PROVE  ThreadTypes'
    BY <1>q, <1>18 DEF W!IsrReport
  <1>19. ASSUME NEW u \in Units, W!Dpc(u)
        PROVE  ThreadTypes'
    BY <1>q, <1>19 DEF W!Dpc
  <1> QED BY <1>1, <1>2, <1>3, <1>4, <1>5, <1>6, <1>7, <1>8, <1>9, <1>10, <1>11, <1>12, <1>13,
             <1>14, <1>15, <1>16, <1>17, <1>18, <1>19
     DEF W!Next, W!Thread, W!Arming, W!Waiting, W!Isr

\* Every step keeps the types of the interrupts and of what they share with the thread.
LEMMA InterruptTypeStep ==
  ASSUME W!TypeOK, W!Next
  PROVE  InterruptTypes'
  <1> USE DEF W!thread, W!routine, W!hw
  <1>0. InterruptTypes
    BY DEF W!TypeOK, InterruptTypes
  <1>q. ASSUME UNCHANGED <<w_irqLive, pending, wake, dpc, isr, bits, sts, masked, engine>>
        PROVE  InterruptTypes'
    BY <1>0, <1>q DEF InterruptTypes
  <1>1. CASE W!StartJob
    BY <1>q, <1>1 DEF W!StartJob, W!Goto
  <1>2. CASE W!ArmZero
    BY <1>0, <1>2 DEF W!ArmZero, W!Goto, W!Bits, InterruptTypes
  <1>3. CASE W!ArmEvent
    BY <1>0, <1>3 DEF W!ArmEvent, W!Goto, W!Bits, InterruptTypes
  <1>4. CASE W!SubmitJob
    BY <1>0, <1>4 DEF W!SubmitJob, W!Goto, W!Bits, InterruptTypes
  <1>5. CASE W!WaitErrors
    BY <1>q, <1>5 DEF W!WaitErrors, W!Goto
  <1>6. CASE W!WaitAnswer
    BY <1>0, <1>6 DEF W!WaitAnswer, W!Goto, W!Bits, InterruptTypes
  <1>7. CASE W!WaitDeadline
    BY <1>q, <1>7 DEF W!WaitDeadline, W!Goto
  <1>8. CASE W!WaitSleep
    BY <1>q, <1>8 DEF W!WaitSleep, W!Goto
  <1>9. CASE W!WaitClear
    BY <1>0, <1>9 DEF W!WaitClear, W!Goto, W!Bits, InterruptTypes
  <1>10. CASE W!EngineEnds
    BY <1>0, <1>10 DEF W!EngineEnds, W!Goto, W!Bits, InterruptTypes
  <1>11. CASE W!EngineErrs
    BY <1>0, <1>11 DEF W!EngineErrs, W!Goto, W!Bits, InterruptTypes
  <1>12. CASE W!DeadlinePasses
    BY <1>q, <1>12 DEF W!DeadlinePasses, W!Goto
  <1>13. CASE W!ArmOff
    <2>1. PICK u \in Units : W!MaskOff(u, "zero")
      BY <1>13 DEF W!ArmOff
    <2> QED BY <1>0, <2>1 DEF W!MaskOff, W!Goto, InterruptTypes
  <1>14. CASE W!FailOff
    <2>1. PICK u \in Units : W!MaskOff(u, "stopped")
      BY <1>14 DEF W!FailOff
    <2> QED BY <1>0, <2>1 DEF W!MaskOff, W!Goto, InterruptTypes
  <1>15. CASE W!ArmOn
    <2>1. PICK u \in todo : /\ masked' = [masked EXCEPT ![u] = FALSE]
                            /\ w_irqLive' = [w_irqLive EXCEPT ![u] = TRUE]
                            /\ sts' = [sts EXCEPT ![u] = {}]
      BY <1>15 DEF W!ArmOn
    <2>2. UNCHANGED <<pending, wake, dpc, isr, bits, engine>>
      BY <1>15 DEF W!ArmOn
    <2> QED BY <1>0, <2>1, <2>2 DEF W!Bits, InterruptTypes
  <1>16. ASSUME NEW u \in Units, W!IsrRead(u)
        PROVE  InterruptTypes'
    BY <1>0, <1>16 DEF W!IsrRead, W!Bits, InterruptTypes
  <1>17. ASSUME NEW u \in Units, W!IsrClear(u)
        PROVE  InterruptTypes'
    BY <1>0, <1>17 DEF W!IsrClear, W!Bits, InterruptTypes
  <1>18. ASSUME NEW u \in Units, W!IsrReport(u)
        PROVE  InterruptTypes'
    BY <1>0, <1>18 DEF W!IsrReport, W!Bits, InterruptTypes
  <1>19. ASSUME NEW u \in Units, W!Dpc(u)
        PROVE  InterruptTypes'
    BY <1>0, <1>19 DEF W!Dpc, W!Bits, InterruptTypes
  <1> QED BY <1>1, <1>2, <1>3, <1>4, <1>5, <1>6, <1>7, <1>8, <1>9, <1>10, <1>11, <1>12, <1>13,
             <1>14, <1>15, <1>16, <1>17, <1>18, <1>19
     DEF W!Next, W!Thread, W!Arming, W!Waiting, W!Isr

\* Every step keeps the types of the wait.
LEMMA WaitTypeStep ==
  ASSUME W!TypeOK, W!Next
  PROVE  W!TypeOK'
  BY ThreadTypeStep, InterruptTypeStep DEF ThreadTypes, InterruptTypes, W!TypeOK, W!Bits

\* Every step keeps the types of the exchange.
LEMMA ExchangeTypeStep ==
  ASSUME X!TypeOK, X!Next
  PROVE  X!TypeOK'
  <1> USE DEF X!driver, X!firmware, X!Numbers
  <1>0. /\ MaxRequests \in Nat /\ MaxForeign \in Nat /\ 0 \in X!Numbers
        /\ seq \in X!Numbers /\ rx \in Seq({"own", "foreign"}) /\ tx \in Seq({"own"})
    BY SessionAssumption DEF X!TypeOK
  <1>r. ASSUME NEW n \in X!Numbers, NEW o \in X!Numbers,
               NEW end \in {"none", "ok", "error", "fatal"}, X!Return(n, end, o)
        PROVE  /\ x_pc' \in {"idle", "post", "wait", "check"}
               /\ result'.seq \in X!Numbers /\ result'.of \in X!Numbers
               /\ result'.status \in {"none", "ok", "error", "fatal"}
    BY <1>r DEF X!Return
  <1>f. ASSUME NEW n \in X!Numbers, X!Fatal(n)
        PROVE  /\ x_pc' \in {"idle", "post", "wait", "check"} /\ fault' \in BOOLEAN
               /\ result'.seq \in X!Numbers /\ result'.of \in X!Numbers
               /\ result'.status \in {"none", "ok", "error", "fatal"}
    BY <1>0, <1>f, <1>r DEF X!Fatal
  <1>1. CASE X!Start
    <2>1. seq' \in X!Numbers /\ UNCHANGED <<unsafe, buffer, tx, working, rx, strangers>>
      BY <1>0, <1>1 DEF X!Start
    <2>2. CASE X!Fatal(seq')
      <3>1. UNCHANGED <<request, reply>>
        BY <1>1, <2>2 DEF X!Start, X!Fatal, X!Return
      <3> QED BY <1>f, <2>1, <2>2, <3>1 DEF X!TypeOK
    <2>3. CASE ~X!Fatal(seq')
      <3>1. /\ x_pc' = "post" /\ request' = seq' /\ reply' = X!NoReply
            /\ UNCHANGED <<fault, result>>
        BY <1>1, <2>3 DEF X!Start
      <3>2. reply'.of \in X!Numbers /\ reply'.kind \in X!Kinds \union {"none"}
        BY <1>0, <3>1 DEF X!NoReply
      <3> QED BY <2>1, <3>1, <3>2 DEF X!TypeOK
    <2> QED BY <2>2, <2>3
  <1>2. CASE X!Post
    <2>1. tx' \in Seq({"own"})
      BY <1>0, <1>2 DEF X!Post
    <2> QED BY <1>2, <2>1 DEF X!Post, X!TypeOK
  <1>3. CASE X!Poll
    <2>1. rx' \in Seq({"own", "foreign"})
      BY <1>0, <1>3 DEF X!Poll
    <2>2. UNCHANGED <<seq, buffer, request, reply, tx, working, strangers>>
      BY <1>3 DEF X!Poll
    <2>3. CASE X!Fatal(seq) /\ UNCHANGED unsafe
      BY <1>0, <1>f, <2>1, <2>2, <2>3 DEF X!TypeOK
    <2>4. CASE unsafe' = FALSE /\ x_pc' = "check" /\ UNCHANGED <<fault, result>>
      BY <2>1, <2>2, <2>4 DEF X!TypeOK
    <2> QED BY <1>3, <2>3, <2>4 DEF X!Poll
  <1>4. CASE X!Timeout
    BY <1>0, <1>4, <1>f DEF X!Timeout, X!TypeOK
  <1>5. CASE X!Check
    <2>1. UNCHANGED <<seq, unsafe, buffer, request, reply, tx, working, rx, strangers>>
      BY <1>5 DEF X!Check
    <2>2. reply.of \in X!Numbers
      BY DEF X!TypeOK
    <2>3. CASE X!Fatal(seq)
      BY <1>0, <1>f, <2>1, <2>3 DEF X!TypeOK
    <2>4. CASE ~X!Fatal(seq)
      <3>1. UNCHANGED fault /\ (X!Return(seq, "ok", reply.of) \/ X!Return(seq, "error", reply.of))
        BY <1>5, <2>4 DEF X!Check
      <3> QED BY <1>0, <1>r, <2>1, <2>2, <3>1 DEF X!TypeOK
    <2> QED BY <2>3, <2>4
  <1>6. CASE X!Release
    BY <1>6 DEF X!Release, X!TypeOK
  <1>7. CASE X!Take
    <2>1. tx' \in Seq({"own"})
      BY <1>0, <1>7 DEF X!Take
    <2> QED BY <1>7, <2>1 DEF X!Take, X!TypeOK
  <1>8. CASE X!Answer
    <2>1. rx' \in Seq({"own", "foreign"})
      BY <1>0, <1>8 DEF X!Answer
    <2>2. reply'.of \in X!Numbers /\ reply'.kind \in X!Kinds
      BY <1>8 DEF X!Answer, X!TypeOK
    <2> QED BY <1>0, <1>8, <2>1, <2>2 DEF X!Answer, X!TypeOK
  <1>9. CASE X!Foreign
    <2>1. rx' \in Seq({"own", "foreign"}) /\ strangers' \in 0..MaxForeign
      BY <1>0, <1>9 DEF X!Foreign, X!TypeOK
    <2> QED BY <1>9, <2>1 DEF X!Foreign, X!TypeOK
  <1> QED BY <1>1, <1>2, <1>3, <1>4, <1>5, <1>6, <1>7, <1>8, <1>9 DEF X!Next, X!Driver

-------------------------------------------------------------------------------
(* All parts together.                                                     *)

\* Everything about the session.
WholeSession == V!TypeOK /\ LatchInv /\ CoreInv /\ SessionInv

\* A device that has not started satisfies the session's invariant.
LEMMA InitSession == ASSUME V!Init PROVE WholeSession
  <1>1. V!TypeOK
    <2>0. 0 \in 0..MarkerFailures /\ 0 \in 0..MaxJobs /\ 0 \in 0..0
      BY SessionAssumption
    <2>1. LatchTypes /\ JobTypes
      BY <2>0 DEF V!Init, LatchTypes, JobTypes, V!Steps
    <2>2. LifeTypes /\ TargetTypes
      BY DEF V!Init, LifeTypes, TargetTypes
    <2>3. CoreTypes
      BY DEF V!Init, CoreTypes
    <2>4. BufferTypes
      BY DEF V!Init, BufferTypes
    <2> QED BY <2>1, <2>2, <2>3, <2>4
            DEF LatchTypes, LifeTypes, TargetTypes, CoreTypes, BufferTypes, JobTypes, V!TypeOK
  <1>2. LatchInv /\ CoreInv
    BY DEF V!Init, LatchInv, CoreInv, Live, Working, V!GpuKeepsProviders,
           V!InterruptsFindTheCore
  <1>3. SessionInv
    BY DEF V!Init, SessionInv, Live, Off, Bare, Returned, Closed
  <1> QED BY <1>1, <1>2, <1>3 DEF WholeSession

\* A step of another part leaves the session alone.
LEMMA SessionStays == ASSUME WholeSession, UNCHANGED session PROVE WholeSession'
  <1> USE DEF session
  <1>1. V!TypeOK'
    BY DEF WholeSession, V!TypeOK
  <1>2. LatchInv' /\ CoreInv'
    BY DEF WholeSession, LatchInv, CoreInv, Live, V!GpuKeepsProviders, V!InterruptsFindTheCore
  <1>3. SessionInv'
    BY DEF WholeSession, SessionInv, Live, Off, Bare, Exact, Leased, Kept, Returned, Closed, Claimed
  <1> QED BY <1>1, <1>2, <1>3 DEF WholeSession

\* A part is one of the four.
PartKnown == part \in {"objects", "session", "wait", "exchange"}

\* The inductive invariant of the four parts.
GpuInv == PartKnown /\ ObjectsInv /\ WholeSession /\ W!TypeOK /\ X!TypeOK

\* The initial states satisfy it.
LEMMA InitGpu == AllInit => GpuInv
  <1> SUFFICES ASSUME AllInit PROVE GpuInv
    OBVIOUS
  <1>1. ObjectsInv /\ WholeSession
    BY InitObjects, InitSession DEF AllInit
  <1>2. W!TypeOK
    <2>1. W!Init
      BY DEF AllInit
    <2>2. 0 \in 0..MaxJobs
      BY SessionAssumption
    <2>3. ThreadTypes
      BY <2>1, <2>2 DEF W!Init, ThreadTypes
    <2>4. InterruptTypes
      BY <2>1 DEF W!Init, InterruptTypes
    <2> QED BY <2>3, <2>4 DEF ThreadTypes, InterruptTypes, W!TypeOK, W!Bits
  <1>3. X!Init /\ 0 \in X!Numbers /\ <<>> \in Seq({"own"}) /\ <<>> \in Seq({"own", "foreign"})
    BY SessionAssumption DEF AllInit, X!Numbers
  <1>4. X!TypeOK
    <2>1. reply.of = 0 /\ reply.kind = "none"
      BY <1>3 DEF X!Init, X!NoReply
    <2>2. result.seq = 0 /\ result.of = 0 /\ result.status = "none"
      BY <1>3 DEF X!Init
    <2>3. strangers \in 0..MaxForeign
      BY <1>3, SessionAssumption DEF X!Init
    <2>4. tx \in Seq({"own"}) /\ rx \in Seq({"own", "foreign"})
      BY <1>3 DEF X!Init
    <2> QED BY <1>3, <2>1, <2>2, <2>3, <2>4 DEF X!Init, X!TypeOK
  <1> QED BY <1>1, <1>2, <1>4 DEF AllInit, GpuInv, PartKnown

\* What the other parts hold is kept by a step that is not theirs.
LEMMA PartsStay ==
  /\ ObjectsInv /\ UNCHANGED vars => ObjectsInv'
  /\ W!TypeOK /\ UNCHANGED wait => W!TypeOK'
  /\ X!TypeOK /\ UNCHANGED exchange => X!TypeOK'
  <1>1. ASSUME ObjectsInv, UNCHANGED vars PROVE ObjectsInv'
    BY <1>1, ObjectsStep
  <1>2. ASSUME W!TypeOK, UNCHANGED wait PROVE W!TypeOK'
    BY <1>2 DEF wait, W!TypeOK
  <1>3. ASSUME X!TypeOK, UNCHANGED exchange PROVE X!TypeOK'
    BY <1>3 DEF exchange, X!TypeOK
  <1> QED BY <1>1, <1>2, <1>3

\* Every step of the four parts keeps it.
LEMMA GpuStep ==
  ASSUME MarkerLostOnce, GpuInv, [AllNext]_<<part, vars, session, wait, exchange>>
  PROVE  GpuInv'
  <1> USE DEF GpuInv
  <1>1. CASE part = "objects" /\ Next /\ UNCHANGED <<part, session, wait, exchange>>
    BY <1>1, ObjectsStep, SessionStays, PartsStay DEF PartKnown
  <1>2. CASE part = "session" /\ V!Next /\ UNCHANGED <<part, vars, wait, exchange>>
    <2>1. WholeSession'
      BY <1>2, SessionTypeStep, LatchStep, CoreStep, SessionStep DEF WholeSession
    <2> QED BY <1>2, <2>1, PartsStay DEF PartKnown
  <1>3. CASE part = "wait" /\ W!Next /\ UNCHANGED <<part, vars, session, exchange>>
    BY <1>3, WaitTypeStep, SessionStays, PartsStay DEF PartKnown
  <1>4. CASE part = "exchange" /\ X!Next /\ UNCHANGED <<part, vars, session, wait>>
    BY <1>4, ExchangeTypeStep, SessionStays, PartsStay DEF PartKnown
  <1>5. CASE UNCHANGED <<part, vars, session, wait, exchange>>
    BY <1>5, SessionStays, PartsStay DEF PartKnown
  <1> QED BY <1>1, <1>2, <1>3, <1>4, <1>5 DEF AllNext

\* The four parts keep their invariants, whatever fails, if the registry loses the marker
\* of a fault at most once.
THEOREM GpuAlways == ASSUME MarkerLostOnce PROVE AllSpec => []GpuInv
  <1>1. AllInit => GpuInv
    BY InitGpu
  <1>2. GpuInv /\ [AllNext]_<<part, vars, session, wait, exchange>> => GpuInv'
    BY GpuStep
  <1> QED BY <1>1, <1>2, PTL DEF AllSpec

\* The GPU keeps the memory, the clock, the reset gate and the registers it may still use,
\* and between two requests there is a whole session or none (Begin, Reset, End, Fault,
\* ObjectDestroy and the PnP callbacks of src/pi5-v3d).
THEOREM GpuKeepsWhatItUsesHolds ==
  ASSUME MarkerLostOnce
  PROVE  AllSpec => []GpuKeepsWhatItUses
  <1>1. ASSUME GpuInv PROVE GpuKeepsWhatItUses
    <2> USE <1>1 DEF GpuInv, WholeSession
    <2>1. V!NothingDangles /\ V!GpuKeepsProviders /\ V!InterruptsFindTheCore
      BY DEF CoreInv, V!NothingDangles
    <2>2. V!SessionIsAll
      BY DEF V!SessionIsAll, LatchInv, SessionInv, Live, Off, Bare, Exact, Leased, Returned,
             Closed, Claimed
    <2>3. WellTyped
      BY ObjectsTypes DEF WellTyped, PartKnown
    <2> QED BY <2>1, <2>2, <2>3 DEF GpuKeepsWhatItUses
  <1> QED BY <1>1, GpuAlways, PTL

-------------------------------------------------------------------------------
(* Who is told what: fences, completions and answers (NobodyIsMisled).     *)

\* The steps of Begin and of Reset.
BeginSteps == {"open", "clock", "pm", "power", "wake", "identify", "allocate", "reset", "mmu",
               "clear"}

\* What a fence rests on: guards of a memory session are intact, only a job under way has a
\* fence that is not given out, and a fault that was once forgotten is remembered by now.
FenceInv ==
  /\ memSession => ~corrupt
  /\ wants => ~corrupt /\ at \in BeginSteps
  /\ at = "clear" => wants
  /\ at \in {"dropPm", "dropClock", "close"} => ~corrupt
  /\ Live /\ at = "idle" /\ owner = NoFile => ~corrupt
  /\ at = "wait" => submitted = completed + 1 /\ (clean => memSession)
  /\ Live /\ at # "wait" => submitted = completed
  /\ lost > 0 => ~Live

\* The ISR of u does not run and will not.
Silent(u) == isr[u] = "none" /\ ~w_irqLive[u]

\* Nothing that was left of an earlier job gets past Arm: the units fall silent one after the
\* other, what they have reported is erased, and their status with the unmasking.  From then on
\* a bit that says "done" is of the job that was submitted.
ArmInv ==
  /\ \A u \in Units : isr[u] = "none" => bits[u] = {}
  /\ w_pc \in {"free", "off", "zero", "event", "on", "submit"} => engine = "none"
  /\ w_pc = "off" => \A u \in Units \ todo : Silent(u)
  /\ w_pc \in {"zero", "event"} => \A u \in Units : Silent(u)
  /\ w_pc \in {"event", "on", "submit"} => \A u \in Units : pending[u] = {}
  /\ w_pc = "on" => /\ \A u \in todo : Silent(u)
                    /\ \A u \in Units \ todo : isr[u] = "none" /\ sts[u] = {}
  /\ w_pc = "submit" => \A u \in Units : isr[u] = "none" /\ sts[u] = {}
  /\ w_pc \in {"errors", "answer", "deadline", "sleep", "clear"} =>
       \A u \in Units : "done" \in sts[u] \union bits[u] \union pending[u] => engine = "ended"
  /\ w_pc \notin {"free", "stopped"} => need # {}

NoOwn(q)  == \A n \in 1..Len(q) : q[n] # "own"
OneOwn(q) == \E n \in 1..Len(q) : /\ q[n] = "own"
                                  /\ \A m \in 1..Len(q) : m # n => q[m] # "own"

\* No word of the driver is on its way, nor does the firmware work on one.
NoneOut == Len(tx) = 0 /\ working = 0 /\ NoOwn(rx)

\* The word of this exchange is in one place.
OneOut ==
  \/ Len(tx) = 1 /\ working = 0 /\ NoOwn(rx) /\ request = seq
  \/ Len(tx) = 0 /\ working = seq /\ NoOwn(rx)
  \/ Len(tx) = 0 /\ working = 0 /\ OneOwn(rx) /\ reply.of = seq

\* The words look alike, but there is never more than one: an exchange that is given up with
\* its word on the way latches the transport.
AnswerInv ==
  /\ x_pc # "idle" => ~fault /\ seq > 0
  /\ x_pc = "idle" => fault \/ (~unsafe /\ NoneOut)
  /\ x_pc = "post" => NoneOut /\ request = seq
  /\ x_pc = "wait" => OneOut
  /\ x_pc = "check" => NoneOut /\ ~unsafe /\ reply.of = seq
  /\ X!OwnAnswer

\* Every step keeps what a fence rests on.
LEMMA FenceStep ==
  ASSUME MarkerLostOnce, V!TypeOK, LatchInv, FenceInv, V!Next
  PROVE  FenceInv'
  <1> USE DEF Live, V!latch, V!life, V!session, V!targets, V!core, V!buffers, V!gpu, V!fences,
     V!progress
  <1>0. /\ MarkerFailures \in 0 .. 1 /\ lost \in 0 .. MarkerFailures /\ NoFile \notin Files
        /\ submitted \in Nat /\ completed \in Nat
    BY SessionAssumption DEF MarkerLostOnce, V!TypeOK
  <1>h. at # "idle" => Live /\ owner # NoFile
    BY DEF LatchInv
  <1>r. ASSUME NEW f \in Files, V!Serves(f)
        PROVE  at = "idle" /\ Live /\ owner # NoFile /\ ~wants
    BY <1>0, <1>r DEF LatchInv, V!Serves, V!Ready, FenceInv, BeginSteps
  \* After a fault nothing is promised but that a memory session was intact.
  <1>f. ASSUME V!Fault, memSession' => ~corrupt', ~wants'
        PROVE  FenceInv'
    BY <1>0, <1>f DEF V!Fault, FenceInv
  <1>i. V!Fault => bootFault'
    BY DEF V!Fault
  \* The handler goes on.
  <1>g. ASSUME UNCHANGED V!latch, UNCHANGED <<owner, corrupt, submitted, completed, memSession>>,
               at # "wait", at' # "wait", owner # NoFile,
               wants' => wants /\ at' \in BeginSteps, at' = "clear" => wants',
               at' \in {"dropPm", "dropClock", "close"} => ~corrupt
        PROVE  FenceInv'
    BY <1>g DEF FenceInv
  <1>1. CASE V!OpenProviders
    BY <1>g, <1>h, <1>1 DEF V!OpenProviders, V!Refuse, V!GoOn, BeginSteps
  <1>2. CASE V!AcquireClock
    BY <1>g, <1>h, <1>2 DEF V!AcquireClock, V!Refuse, V!GoOn, BeginSteps
  <1>3. CASE V!AcquirePm
    BY <1>g, <1>h, <1>3 DEF V!AcquirePm, V!Refuse, V!GoOn, BeginSteps
  <1>4. CASE V!PowerUp
    BY <1>g, <1>h, <1>4 DEF V!PowerUp, V!Refuse, V!GoOn, BeginSteps
  <1>5. CASE V!Wake
    <2>1. CASE bootFault'
      BY <1>f, <1>h, <1>5, <2>1 DEF V!Wake, V!Refuse, V!GoOn, FenceInv, BeginSteps
    <2>2. CASE ~bootFault'
      BY <1>g, <1>h, <1>i, <1>5, <2>2 DEF V!Wake, V!Refuse, V!GoOn, FenceInv, BeginSteps
    <2> QED BY <2>1, <2>2
  <1>6. CASE V!Identify
    BY <1>g, <1>h, <1>6 DEF V!Identify, V!Refuse, V!GoOn, BeginSteps
  <1>7. CASE V!AllocateFixed
    BY <1>g, <1>h, <1>7 DEF V!AllocateFixed, V!Refuse, V!GoOn, BeginSteps
  <1>8. CASE V!ResetCore
    <2>1. CASE bootFault'
      BY <1>f, <1>h, <1>8, <2>1 DEF V!ResetCore, V!GoOn, FenceInv, BeginSteps
    <2>2. CASE ~bootFault'
      BY <1>g, <1>h, <1>i, <1>8, <2>2 DEF V!ResetCore, V!GoOn, FenceInv, BeginSteps
    <2> QED BY <2>1, <2>2
  <1>9. CASE V!StartMmu
    <2>1. CASE bootFault'
      BY <1>f, <1>h, <1>9, <2>1 DEF V!StartMmu, V!GoOn, FenceInv, BeginSteps
    <2>2. CASE ~bootFault'
      BY <1>g, <1>h, <1>i, <1>9, <2>2 DEF V!StartMmu, V!GoOn, FenceInv, BeginSteps
    <2> QED BY <2>1, <2>2
  <1>10. CASE V!ClearTable
    <2>1. CASE bootFault'
      BY <1>f, <1>h, <1>10, <2>1 DEF V!ClearTable, V!GoOn, FenceInv, BeginSteps
    <2>2. CASE ~bootFault'
      BY <1>g, <1>h, <1>i, <1>10, <2>2 DEF V!ClearTable, V!GoOn, FenceInv, BeginSteps
    <2> QED BY <2>1, <2>2
  <1>11. CASE V!WaitFails
    <2>1. CASE bootFault'
      BY <1>f, <1>h, <1>11, <2>1 DEF V!WaitFails, FenceInv, BeginSteps
    <2>2. CASE ~bootFault'
      BY <1>g, <1>h, <1>i, <1>11, <2>2 DEF V!WaitFails, FenceInv, BeginSteps
    <2> QED BY <2>1, <2>2
  <1>12. CASE V!CompletionFails
    <2>1. CASE bootFault'
      BY <1>f, <1>h, <1>12, <2>1 DEF V!CompletionFails, FenceInv, BeginSteps
    <2>2. CASE ~bootFault'
      BY <1>g, <1>h, <1>i, <1>12, <2>2 DEF V!CompletionFails, FenceInv, BeginSteps
    <2> QED BY <2>1, <2>2
  <1>13. CASE V!StartRender
    BY <1>0, <1>h, <1>13 DEF V!StartRender, V!Arm, LatchInv, FenceInv, BeginSteps
  <1>14. CASE V!Complete
    BY <1>0, <1>h, <1>14 DEF V!Complete, V!GoOn, V!GuardsPass, LatchInv, FenceInv, BeginSteps
  <1>15. CASE V!EndCore
    <2>1. CASE bootFault'
      BY <1>f, <1>h, <1>15, <2>1 DEF V!EndCore, V!GoOn, FenceInv, BeginSteps
    <2>2. CASE ~bootFault'
      BY <1>g, <1>h, <1>i, <1>15, <2>2 DEF V!EndCore, V!GoOn, FenceInv, BeginSteps
    <2> QED BY <2>1, <2>2
  <1>16. CASE V!EndCheck
    <2>1. CASE bootFault'
      BY <1>f, <1>h, <1>16, <2>1 DEF V!EndCheck, V!GoOn, FenceInv, BeginSteps
    <2>2. CASE ~bootFault'
      BY <1>g, <1>h, <1>i, <1>16, <2>2 DEF V!EndCheck, V!GoOn, FenceInv, BeginSteps
    <2> QED BY <2>1, <2>2
  <1>17. CASE V!EndSleep
    <2>1. CASE bootFault'
      BY <1>f, <1>h, <1>17, <2>1 DEF V!EndSleep, V!GoOn, FenceInv, BeginSteps
    <2>2. CASE ~bootFault'
      BY <1>g, <1>h, <1>i, <1>17, <2>2 DEF V!EndSleep, V!GoOn, FenceInv, BeginSteps
    <2> QED BY <2>1, <2>2
  <1>18. CASE V!EndFree
    BY <1>0, <1>h, <1>18 DEF V!EndFree, V!GoOn, LatchInv, FenceInv, BeginSteps
  <1>19. CASE V!DropPm
    <2>1. CASE bootFault'
      BY <1>f, <1>h, <1>19, <2>1 DEF V!DropPm, V!GoOn, FenceInv, BeginSteps
    <2>2. CASE ~bootFault'
      BY <1>g, <1>h, <1>i, <1>19, <2>2 DEF V!DropPm, V!GoOn, FenceInv, BeginSteps
    <2> QED BY <2>1, <2>2
  <1>20. CASE V!DropClock
    <2>1. CASE bootFault'
      BY <1>f, <1>h, <1>20, <2>1 DEF V!DropClock, V!GoOn, FenceInv, BeginSteps
    <2>2. CASE ~bootFault'
      BY <1>g, <1>h, <1>i, <1>20, <2>2 DEF V!DropClock, V!GoOn, FenceInv, BeginSteps
    <2> QED BY <2>1, <2>2
  <1>21. CASE V!CloseProviders
    BY <1>0, <1>h, <1>21 DEF V!CloseProviders, LatchInv, FenceInv, BeginSteps
  <1>22. CASE V!Query
    <2>1. CASE bootFault'
      BY <1>f, <1>h, <1>22, <2>1 DEF V!Query, V!GoOn, FenceInv, BeginSteps
    <2>2. CASE ~bootFault'
      BY <1>g, <1>h, <1>i, <1>22, <2>2 DEF V!Query, V!GoOn, FenceInv, BeginSteps
    <2> QED BY <2>1, <2>2
  <1>23. CASE V!Prepare
    BY <1>0, <1>h, <1>23 DEF V!Prepare, LatchInv, FenceInv, BeginSteps
  <1>24. CASE V!Entry
    BY <1>0, <1>h, <1>24 DEF V!Entry, LatchInv, FenceInv, BeginSteps
  <1>25. CASE V!Exit
    BY <1>0, <1>h, <1>25 DEF V!Exit, V!GoOn, LatchInv, FenceInv, BeginSteps
  <1>26. CASE V!ReleaseHardware
    <2>1. CASE bootFault'
      BY <1>f, <1>h, <1>26, <2>1 DEF V!ReleaseHardware, V!GoOn, FenceInv, BeginSteps
    <2>2. CASE ~bootFault'
      BY <1>g, <1>h, <1>i, <1>26, <2>2 DEF V!ReleaseHardware, V!GoOn, FenceInv, BeginSteps
    <2> QED BY <2>1, <2>2
  <1>27. CASE V!Remove
    BY <1>0, <1>h, <1>27 DEF V!Remove, LatchInv, FenceInv, BeginSteps
  <1>28. CASE V!Unload
    BY <1>0, <1>h, <1>28 DEF V!Unload, LatchInv, FenceInv, BeginSteps
  <1>29. CASE V!JobEnds
    BY <1>0, <1>h, <1>29 DEF V!JobEnds, LatchInv, FenceInv, BeginSteps
  <1>30. CASE V!Translate
    BY <1>0, <1>h, <1>30 DEF V!Translate, LatchInv, FenceInv, BeginSteps
  <1>31. CASE V!Overrun
    BY <1>0, <1>h, <1>31 DEF V!Overrun, LatchInv, FenceInv, BeginSteps
  <1>32. ASSUME NEW f \in Files, NEW ask \in BOOLEAN, V!Begin(f, ask)
        PROVE  FenceInv'
    BY <1>0, <1>32 DEF V!Begin, V!Ready, LatchInv, FenceInv, BeginSteps
  <1>33. ASSUME NEW f \in Files, V!ResetSession(f)
        PROVE  FenceInv'
    <2>1. at = "idle" /\ Live /\ owner # NoFile /\ ~wants
      BY <1>r, <1>33 DEF V!ResetSession
    <2>2. CASE V!Fault
      BY <1>f, <1>33, <2>1, <2>2 DEF V!ResetSession, V!CheckFails, FenceInv
    <2>3. CASE ~V!Fault
      BY <1>0, <1>33, <2>1, <2>3 DEF V!ResetSession, V!CheckFails, V!GoOn, FenceInv
    <2> QED BY <2>2, <2>3
  <1>34. ASSUME NEW f \in Files, V!EndSession(f)
        PROVE  FenceInv'
    <2>1. at = "idle" /\ Live /\ owner # NoFile /\ ~wants
      BY <1>r, <1>34 DEF V!EndSession
    <2>2. CASE V!Fault
      BY <1>f, <1>34, <2>1, <2>2 DEF V!EndSession, V!CheckFails, FenceInv
    <2>3. CASE ~V!Fault
      BY <1>0, <1>34, <2>1, <2>3 DEF V!EndSession, V!CheckFails, V!GoOn, FenceInv
    <2> QED BY <2>2, <2>3
  <1>35. ASSUME NEW f \in Files, V!Cleanup(f)
        PROVE  FenceInv'
    BY <1>0, <1>35 DEF V!Cleanup, V!GoOn, LatchInv, FenceInv, BeginSteps
  <1>36. ASSUME NEW f \in Files, V!CreateRefused(f)
        PROVE  FenceInv'
    <2>1. at = "idle" /\ Live /\ owner # NoFile /\ ~wants
      BY <1>r, <1>36 DEF V!CreateRefused, V!ServesMemory
    <2>2. CASE V!Fault
      BY <1>f, <1>36, <2>1, <2>2 DEF V!CreateRefused, V!CheckFails, FenceInv
    <2>3. CASE ~V!Fault
      BY <1>0, <1>36, <2>1, <2>3 DEF V!CreateRefused, V!CheckFails, V!GoOn, FenceInv
    <2> QED BY <2>2, <2>3
  <1>37. ASSUME NEW f \in Files, V!TransferOrCheck(f)
        PROVE  FenceInv'
    <2>1. at = "idle" /\ Live /\ owner # NoFile /\ ~wants
      BY <1>r, <1>37 DEF V!TransferOrCheck, V!ServesMemory
    <2>2. CASE V!Fault
      BY <1>f, <1>37, <2>1, <2>2 DEF V!TransferOrCheck, V!CheckFails, FenceInv
    <2>3. CASE ~V!Fault
      BY <1>0, <1>37, <2>1, <2>3 DEF V!TransferOrCheck, V!CheckFails, V!GoOn, FenceInv
    <2> QED BY <2>2, <2>3
  <1>38. ASSUME NEW f \in Files, NEW s \in V!Slots, V!Destroy(f, s)
        PROVE  FenceInv'
    <2>1. at = "idle" /\ Live /\ owner # NoFile /\ ~wants
      BY <1>r, <1>38 DEF V!Destroy, V!ServesMemory
    <2>2. CASE V!Fault
      BY <1>f, <1>38, <2>1, <2>2 DEF V!Destroy, V!CheckFails, FenceInv
    <2>3. CASE ~V!Fault
      BY <1>0, <1>38, <2>1, <2>3 DEF V!Destroy, V!CheckFails, V!GoOn, FenceInv
    <2> QED BY <2>2, <2>3
  <1>39. ASSUME NEW f \in Files, NEW s \in V!Slots, NEW use \in {"own", "import"},
               V!Place(f, s, use)
        PROVE  FenceInv'
    <2>1. at = "idle" /\ Live /\ owner # NoFile /\ ~wants
      BY <1>r, <1>39 DEF V!Place, V!ServesMemory
    <2>2. CASE V!Fault
      BY <1>f, <1>39, <2>1, <2>2 DEF V!Place, V!CheckFails, FenceInv
    <2>3. CASE ~V!Fault
      BY <1>0, <1>39, <2>1, <2>3 DEF V!Place, V!CheckFails, V!GoOn, FenceInv
    <2> QED BY <2>2, <2>3
  <1>40. ASSUME NEW f \in Files, V!Submit(f)
        PROVE  FenceInv'
    <2>1. at = "idle" /\ Live /\ owner # NoFile /\ ~wants
      BY <1>r, <1>40 DEF V!Submit
    <2>2. CASE V!Fault
      BY <1>f, <1>40, <2>1, <2>2 DEF V!Submit, V!CheckFails, FenceInv
    <2>3. CASE ~V!Fault
      BY <1>0, <1>40, <2>1, <2>3 DEF V!Submit, V!CheckFails, V!GoOn, FenceInv, V!Arm
    <2> QED BY <2>2, <2>3
  <1>41. ASSUME NEW f \in Files, V!InterruptCheck(f)
        PROVE  FenceInv'
    <2>1. at = "idle" /\ Live /\ owner # NoFile /\ ~wants
      BY <1>r, <1>41 DEF V!InterruptCheck
    <2>2. CASE V!Fault
      BY <1>f, <1>41, <2>1, <2>2 DEF V!InterruptCheck, V!CheckFails, FenceInv
    <2>3. CASE ~V!Fault
      BY <1>0, <1>41, <2>1, <2>3 DEF V!InterruptCheck, V!CheckFails, V!GoOn, FenceInv
    <2> QED BY <2>2, <2>3
  <1> QED BY <1>1, <1>2, <1>3, <1>4, <1>5, <1>6, <1>7, <1>8, <1>9, <1>10, <1>11, <1>12, <1>13,
             <1>14, <1>15, <1>16, <1>17, <1>18, <1>19, <1>20, <1>21, <1>22, <1>23, <1>24,
             <1>25, <1>26, <1>27, <1>28, <1>29, <1>30, <1>31, <1>32, <1>33, <1>34, <1>35,
             <1>36, <1>37, <1>38, <1>39, <1>40, <1>41
     DEF V!Next, V!Request, V!Continue

\* Every step keeps what Arm has established.
LEMMA ArmStep ==
  ASSUME W!TypeOK, ArmInv, W!Next
  PROVE  ArmInv'
  <1> USE DEF W!thread, W!routine, W!hw
  <1>0. ThreadTypes /\ InterruptTypes
    BY DEF W!TypeOK, ThreadTypes, InterruptTypes
  <1>1. CASE W!StartJob
    BY <1>0, <1>1 DEF W!StartJob, ArmInv, ThreadTypes
  <1>2. CASE W!ArmZero
    BY <1>0, <1>2 DEF W!ArmZero, W!Goto, ArmInv, Silent
  <1>3. CASE W!ArmEvent
    BY <1>0, <1>3 DEF W!ArmEvent, W!Goto, ArmInv, Silent
  <1>4. CASE W!SubmitJob
    <2>1. ASSUME NEW u \in Units
          PROVE  sts[u] = {} /\ bits[u] = {} /\ pending[u] = {}
      BY <1>4, <2>1 DEF W!SubmitJob, ArmInv
    <2> QED BY <1>4, <2>1 DEF W!SubmitJob, W!Goto, ArmInv
  <1>5. CASE W!WaitErrors
    BY <1>5 DEF W!WaitErrors, W!Goto, ArmInv
  <1>6. CASE W!WaitAnswer
    BY <1>6 DEF W!WaitAnswer, W!Goto, ArmInv
  <1>7. CASE W!WaitDeadline
    BY <1>7 DEF W!WaitDeadline, W!Goto, ArmInv
  <1>8. CASE W!WaitSleep
    BY <1>8 DEF W!WaitSleep, W!Goto, ArmInv
  <1>9. CASE W!WaitClear
    BY <1>9 DEF W!WaitClear, W!Goto, ArmInv
  <1>10. CASE W!EngineEnds
    BY <1>10 DEF W!EngineEnds, ArmInv
  <1>11. CASE W!EngineErrs
    <2>1. PICK u \in Units : sts' = [sts EXCEPT ![u] = @ \union {"error"}]
      BY <1>11 DEF W!EngineErrs
    <2>2. engine = "running" /\ UNCHANGED <<w_pc, todo, need, bits, isr, pending, engine>>
      BY <1>11 DEF W!EngineErrs
    <2>3. \A v \in Units : "done" \in sts'[v] => "done" \in sts[v]
      BY <1>0, <2>1 DEF InterruptTypes
    <2> QED BY <2>2, <2>3 DEF ArmInv
  <1>12. CASE W!DeadlinePasses
    BY <1>12 DEF W!DeadlinePasses, ArmInv
  <1>13. CASE W!ArmOff
    <2>1. PICK u \in Units : W!MaskOff(u, "zero")
      BY <1>13 DEF W!ArmOff
    <2>2. \A v \in Units \ todo' : Silent(v)'
      BY <1>0, <1>13, <2>1 DEF W!ArmOff, W!MaskOff, ArmInv, Silent, InterruptTypes
    <2>3. /\ w_pc' = IF todo' = {} THEN "zero" ELSE "off"
          /\ UNCHANGED <<engine, isr, bits, pending, sts, need>>
      BY <1>13, <2>1 DEF W!ArmOff, W!MaskOff, W!Goto
    <2> QED BY <1>13, <2>2, <2>3 DEF W!ArmOff, ArmInv, Silent
  <1>14. CASE W!FailOff
    <2>1. PICK u \in Units : W!MaskOff(u, "stopped")
      BY <1>14 DEF W!FailOff
    <2> QED BY <1>14, <2>1 DEF W!FailOff, W!MaskOff, W!Goto, ArmInv
  <1>15. CASE W!ArmOn
    <2>1. PICK u \in todo : /\ isr[u] = "none" /\ todo' = todo \ {u}
                            /\ w_irqLive' = [w_irqLive EXCEPT ![u] = TRUE]
                            /\ sts' = [sts EXCEPT ![u] = {}]
      BY <1>15 DEF W!ArmOn
    <2>2. /\ w_pc = "on" /\ w_pc' = IF todo' = {} THEN "submit" ELSE "on"
          /\ UNCHANGED <<engine, isr, bits, pending, need>>
      BY <1>15 DEF W!ArmOn, W!Goto
    <2>3. \A v \in Units \ todo' : isr'[v] = "none" /\ sts'[v] = {}
      BY <1>0, <2>1, <2>2 DEF ArmInv, InterruptTypes, ThreadTypes
    <2>4. \A v \in todo' : Silent(v)'
      BY <1>0, <2>1, <2>2 DEF ArmInv, Silent, InterruptTypes, ThreadTypes
    <2> QED BY <2>2, <2>3, <2>4 DEF ArmInv, Silent
  <1>16. ASSUME NEW u \in Units, W!IsrRead(u)
         PROVE  ArmInv'
    <2>1. /\ isr' = [isr EXCEPT ![u] = "clear"] /\ bits' = [bits EXCEPT ![u] = sts[u]]
          /\ w_irqLive[u] /\ sts[u] # {} /\ isr[u] = "none"
          /\ UNCHANGED <<w_pc, todo, need, w_irqLive, pending, sts, engine>>
      BY <1>16 DEF W!IsrRead
    <2>2. w_pc \notin {"zero", "event", "on", "submit"} /\ (w_pc = "off" => u \in todo)
      BY <1>0, <2>1 DEF ArmInv, Silent, ThreadTypes
    <2>3. \A v \in Units : /\ isr'[v] = "none" => isr[v] = "none" /\ bits'[v] = bits[v]
                           /\ bits'[v] = bits[v] \/ bits'[v] = sts[v]
                           /\ v # u => isr'[v] = isr[v]
      BY <1>0, <2>1 DEF InterruptTypes
    <2> QED BY <2>1, <2>2, <2>3 DEF ArmInv, Silent
  <1>17. ASSUME NEW u \in Units, W!IsrClear(u)
         PROVE  ArmInv'
    <2>1. /\ isr[u] = "clear" /\ isr' = [isr EXCEPT ![u] = "report"]
          /\ sts' = [sts EXCEPT ![u] = @ \ bits[u]]
          /\ UNCHANGED <<w_pc, todo, need, w_irqLive, pending, bits, engine>>
      BY <1>17 DEF W!IsrClear
    <2>2. \A v \in Units : /\ isr'[v] = "none" <=> isr[v] = "none"
                           /\ sts'[v] \subseteq sts[v]
      BY <1>0, <2>1 DEF InterruptTypes
    <2> QED BY <2>1, <2>2 DEF ArmInv, Silent
  <1>18. ASSUME NEW u \in Units, W!IsrReport(u)
         PROVE  ArmInv'
    <2>1. /\ isr[u] = "report" /\ isr' = [isr EXCEPT ![u] = "none"]
          /\ pending' = [pending EXCEPT ![u] = @ \union bits[u]]
          /\ bits' = [bits EXCEPT ![u] = {}]
          /\ UNCHANGED <<w_pc, todo, need, w_irqLive, sts, engine>>
      BY <1>18 DEF W!IsrReport
    <2>2. w_pc \notin {"zero", "event", "on", "submit"} /\ (w_pc = "off" => u \in todo)
      BY <1>0, <2>1 DEF ArmInv, Silent, ThreadTypes
    <2>3. \A v \in Units : /\ isr'[v] = "none" => bits'[v] = {}
                           /\ bits'[v] \union pending'[v] \subseteq bits[v] \union pending[v]
                           /\ v # u => isr'[v] = isr[v]
      BY <1>0, <2>1 DEF InterruptTypes, ArmInv
    <2> QED BY <2>1, <2>2, <2>3 DEF ArmInv, Silent
  <1>19. ASSUME NEW u \in Units, W!Dpc(u)
         PROVE  ArmInv'
    BY <1>19 DEF W!Dpc, ArmInv, Silent
  <1> QED BY <1>1, <1>2, <1>3, <1>4, <1>5, <1>6, <1>7, <1>8, <1>9, <1>10, <1>11, <1>12, <1>13,
             <1>14, <1>15, <1>16, <1>17, <1>18, <1>19
     DEF W!Next, W!Thread, W!Arming, W!Waiting, W!Isr

\* A job that is reported as done has ended.
LEMMA CompletionStep ==
  ASSUME W!TypeOK, ArmInv, W!Next, w_pc = "answer", w_pc' = "free"
  PROVE  engine = "ended"
  <1>1. W!WaitAnswer
    BY DEF W!Next, W!Thread, W!Arming, W!Waiting, W!Isr, W!StartJob, W!ArmOff, W!ArmZero,
           W!ArmEvent, W!ArmOn, W!SubmitJob, W!WaitErrors, W!WaitDeadline, W!WaitSleep,
           W!WaitClear, W!FailOff, W!IsrRead, W!IsrClear, W!IsrReport, W!Dpc, W!EngineEnds,
           W!EngineErrs, W!DeadlinePasses, W!thread
  <1>2. \A u \in need : "done" \in pending[u]
    BY <1>1 DEF W!WaitAnswer, W!Goto
  <1>3. need # {} /\ need \subseteq Units
    BY DEF ArmInv, W!TypeOK
  <1>4. PICK u \in need : "done" \in pending[u] /\ u \in Units
    BY <1>2, <1>3
  <1> QED BY <1>4 DEF ArmInv

\* A word of another owner changes nothing about the driver's.
LEMMA ForeignWord ==
  ASSUME NEW q \in Seq({"own", "foreign"})
  PROVE  /\ NoOwn(q) => NoOwn(Append(q, "foreign"))
         /\ OneOwn(q) => OneOwn(Append(q, "foreign"))
  BY DEF NoOwn, OneOwn

\* The firmware's word is the only one, if there was none.
LEMMA OwnWord ==
  ASSUME NEW q \in Seq({"own", "foreign"}), NoOwn(q)
  PROVE  OneOwn(Append(q, "own"))
  <1>1. Append(q, "own")[Len(q) + 1] = "own" /\ Len(q) + 1 \in 1..Len(Append(q, "own"))
    OBVIOUS
  <1>2. \A m \in 1..Len(Append(q, "own")) : m # Len(q) + 1 => Append(q, "own")[m] = q[m]
    OBVIOUS
  <1> QED BY <1>1, <1>2 DEF NoOwn, OneOwn

\* Whoever takes the driver's word leaves none.
LEMMA WordTaken ==
  ASSUME NEW q \in Seq({"own", "foreign"}), q # <<>>, Head(q) = "own", OneOwn(q)
  PROVE  NoOwn(Tail(q))
  <1>1. PICK n \in 1..Len(q) : q[n] = "own" /\ \A m \in 1..Len(q) : m # n => q[m] # "own"
    BY DEF OneOwn
  <1>2. n = 1
    BY <1>1
  <1> QED BY <1>1, <1>2 DEF NoOwn

\* Every step keeps the one word in its place.
LEMMA AnswerStep ==
  ASSUME X!TypeOK, AnswerInv, X!Next
  PROVE  AnswerInv'
  <1> USE DEF X!driver, X!firmware, X!OwnAnswer
  <1>0. /\ seq \in Nat /\ working \in Nat /\ request \in Nat
        /\ rx \in Seq({"own", "foreign"}) /\ tx \in Seq({"own"})
    BY SessionAssumption DEF X!TypeOK, X!Numbers
  <1>f. ASSUME NEW n, X!Fatal(n) PROVE AnswerInv'
    BY <1>f DEF X!Fatal, X!Return, AnswerInv
  <1>1. CASE X!Start
    <2>1. CASE X!Fatal(seq')
      BY <1>f, <2>1
    <2>2. CASE ~X!Fatal(seq')
      BY <1>0, <1>1, <2>2 DEF X!Start, X!Usable, AnswerInv, NoneOut
    <2> QED BY <2>1, <2>2
  <1>2. CASE X!Post
    <2>1. Len(tx') = Len(tx) + 1 /\ UNCHANGED <<seq, fault, request, reply, working, rx, result>>
      BY <1>0, <1>2 DEF X!Post
    <2>2. x_pc = "post" /\ x_pc' = "wait"
      BY <1>2 DEF X!Post
    <2> QED BY <2>1, <2>2 DEF AnswerInv, NoneOut, OneOut
  <1>3. CASE X!Poll
    <2>1. CASE X!Fatal(seq)
      BY <1>f, <2>1
    <2>2. CASE ~X!Fatal(seq)
      <3>1. /\ rx # <<>> /\ Head(rx) = "own" /\ ~unsafe' /\ x_pc = "wait" /\ x_pc' = "check"
            /\ rx' = Tail(rx) /\ UNCHANGED <<seq, fault, request, reply, tx, working, result>>
        BY <1>3, <2>2 DEF X!Poll
      <3>2. ~NoOwn(rx)
        BY <1>0, <3>1 DEF NoOwn
      <3>3. Len(tx) = 0 /\ working = 0 /\ OneOwn(rx) /\ reply.of = seq
        BY <3>1, <3>2 DEF AnswerInv, OneOut
      <3>4. NoOwn(rx')
        BY <1>0, <3>1, <3>3, WordTaken
      <3> QED BY <3>1, <3>3, <3>4 DEF AnswerInv, NoneOut
    <2> QED BY <2>1, <2>2
  <1>4. CASE X!Timeout
    BY <1>4, <1>f DEF X!Timeout
  <1>5. CASE X!Check
    <2>1. CASE X!Fatal(seq)
      BY <1>f, <2>1
    <2>2. CASE ~X!Fatal(seq)
      <3>1. x_pc = "check" /\ UNCHANGED <<seq, fault, unsafe, tx, working, rx>>
        BY <1>5, <2>2 DEF X!Check
      <3>2. x_pc' = "idle" /\ result'.of = reply.of /\ result'.seq = seq
        BY <1>5, <2>2 DEF X!Check, X!Return
      <3> QED BY <3>1, <3>2 DEF AnswerInv, NoneOut
    <2> QED BY <2>1, <2>2
  <1>6. CASE X!Release
    BY <1>6 DEF X!Release, AnswerInv, NoneOut, OneOut
  <1>7. CASE X!Take
    <2>1. /\ Len(tx) # 0 /\ Len(tx') = Len(tx) - 1 /\ working = 0 /\ working' = request
          /\ UNCHANGED <<x_pc, seq, fault, unsafe, request, reply, rx, result>>
      BY <1>0, <1>7 DEF X!Take
    <2> QED BY <1>0, <2>1 DEF AnswerInv, NoneOut, OneOut
  <1>8. CASE X!Answer
    <2>1. /\ working # 0 /\ reply'.of = working /\ rx' = Append(rx, "own") /\ working' = 0
          /\ UNCHANGED <<x_pc, seq, fault, unsafe, tx, result>>
      BY <1>8 DEF X!Answer
    <2>2. x_pc = "wait" => NoOwn(rx) /\ OneOut'
      BY <1>0, <2>1, OwnWord DEF AnswerInv, OneOut
    <2> QED BY <2>1, <2>2 DEF AnswerInv, NoneOut
  <1>9. CASE X!Foreign
    <2>1. rx' = Append(rx, "foreign") /\ (NoOwn(rx) => NoOwn(rx')) /\ (OneOwn(rx) => OneOwn(rx'))
      BY <1>0, <1>9, ForeignWord DEF X!Foreign
    <2> QED BY <1>9, <2>1 DEF X!Foreign, AnswerInv, NoneOut, OneOut
  <1> QED BY <1>1, <1>2, <1>3, <1>4, <1>5, <1>6, <1>7, <1>8, <1>9 DEF X!Next, X!Driver

\* What everybody is told is true.
ToldInv == FenceInv /\ ArmInv /\ AnswerInv

\* The initial states satisfy it.
LEMMA InitTold == AllInit => ToldInv
  <1> SUFFICES ASSUME AllInit PROVE ToldInv
    OBVIOUS
  <1>1. FenceInv
    BY DEF AllInit, V!Init, FenceInv, BeginSteps
  <1>2. ArmInv
    BY DEF AllInit, W!Init, ArmInv
  <1>3. AnswerInv
    BY DEF AllInit, X!Init, AnswerInv, NoneOut, NoOwn, X!OwnAnswer
  <1> QED BY <1>1, <1>2, <1>3 DEF ToldInv

\* Every step of the four parts keeps it.
LEMMA ToldStep ==
  ASSUME MarkerLostOnce, GpuInv, ToldInv, [AllNext]_<<part, vars, session, wait, exchange>>
  PROVE  ToldInv'
  <1> USE DEF GpuInv, WholeSession, ToldInv
  <1>1. ASSUME UNCHANGED session PROVE FenceInv'
    BY <1>1 DEF session, FenceInv, Live
  <1>2. ASSUME UNCHANGED wait PROVE ArmInv'
    BY <1>2 DEF wait, ArmInv, Silent
  <1>3. ASSUME UNCHANGED exchange PROVE AnswerInv'
    BY <1>3 DEF exchange, AnswerInv, NoneOut, OneOut, X!OwnAnswer
  <1>4. FenceInv'
    BY <1>1, FenceStep DEF AllNext
  <1>5. ArmInv'
    BY <1>2, ArmStep DEF AllNext
  <1>6. AnswerInv'
    BY <1>3, AnswerStep DEF AllNext
  <1> QED BY <1>4, <1>5, <1>6

\* A fence is given out for a job that is done, when the guards are intact.
LEMMA FenceGiven ==
  ASSUME V!TypeOK, FenceInv, V!Next, completed' > completed
  PROVE  completed' = completed + 1 /\ job = "done" /\ job' = "none" /\ ~corrupt
  <1> USE DEF V!latch, V!life, V!session, V!targets, V!core, V!buffers, V!gpu, V!fences,
     V!progress
  <1>1. submitted \in Nat /\ completed \in 0..submitted
    BY SessionAssumption DEF V!TypeOK
  <1>2. V!Complete
    <2>1. completed' # completed /\ completed' # 0
      BY <1>1
    <2>2. V!Complete \/ UNCHANGED completed \/ completed' = 0
      <3>1. V!Continue => V!Complete \/ UNCHANGED completed
        BY DEF V!Continue, V!OpenProviders, V!AcquireClock, V!AcquirePm, V!PowerUp, V!Wake,
           V!Identify, V!AllocateFixed, V!ResetCore, V!StartMmu, V!ClearTable, V!WaitFails,
           V!CompletionFails, V!StartRender, V!EndCore, V!EndCheck, V!EndSleep, V!EndFree,
           V!DropPm, V!DropClock, V!CloseProviders
      <3>2. ASSUME NEW f \in Files, V!Request(f) PROVE UNCHANGED completed
        BY <3>2 DEF V!Request, V!Begin, V!ResetSession, V!EndSession, V!Cleanup, V!CreateRefused,
           V!TransferOrCheck, V!CheckFails, V!Destroy, V!Place, V!Submit, V!InterruptCheck
      <3>3. V!Query \/ V!Prepare \/ V!Entry \/ V!Exit \/ V!ReleaseHardware \/ V!Unload
              \/ V!JobEnds \/ V!Translate \/ V!Overrun => UNCHANGED completed
        BY DEF V!Query, V!Prepare, V!Entry, V!Exit, V!ReleaseHardware, V!Unload, V!JobEnds,
           V!Translate, V!Overrun
      <3>4. V!Remove => completed' = 0
        BY DEF V!Remove
      <3> QED BY <3>1, <3>2, <3>3, <3>4 DEF V!Next
    <2> QED BY <2>1, <2>2
  <1> QED BY <1>1, <1>2 DEF V!Complete, V!GuardsPass, FenceInv

\* A session begins only on a device that knows of no fault of this boot.
LEMMA OwnerGiven ==
  ASSUME LatchInv, FenceInv, V!Next, bootFault \/ marker \/ lost > 0
  PROVE  owner' \in {owner, NoFile}
  <1> USE DEF V!latch, V!life, V!session, V!targets, V!core, V!buffers, V!gpu, V!fences,
     V!progress
  <1>1. V!Continue => owner' \in {owner, NoFile}
    BY DEF V!Continue, V!OpenProviders, V!AcquireClock, V!AcquirePm, V!PowerUp, V!Wake,
       V!Identify, V!AllocateFixed, V!ResetCore, V!StartMmu, V!ClearTable, V!WaitFails,
       V!CompletionFails, V!StartRender, V!Complete, V!EndCore, V!EndCheck, V!EndSleep,
       V!EndFree, V!DropPm, V!DropClock, V!CloseProviders
  <1>2. ASSUME NEW f \in Files, NEW ask \in BOOLEAN, V!Begin(f, ask) PROVE FALSE
    BY <1>2 DEF V!Begin, V!Ready, LatchInv, FenceInv, Live
  <1>3. ASSUME NEW f \in Files, V!Request(f) PROVE owner' \in {owner, NoFile}
    BY <1>2, <1>3 DEF V!Request, V!ResetSession, V!EndSession, V!Cleanup, V!CreateRefused,
       V!TransferOrCheck, V!CheckFails, V!Destroy, V!Place, V!Submit, V!InterruptCheck
  <1>4. V!Query \/ V!Prepare \/ V!Entry \/ V!Exit \/ V!ReleaseHardware \/ V!Remove \/ V!Unload
          \/ V!JobEnds \/ V!Translate \/ V!Overrun => owner' \in {owner, NoFile}
    BY DEF V!Query, V!Prepare, V!Entry, V!Exit, V!ReleaseHardware, V!Remove, V!Unload, V!JobEnds,
       V!Translate, V!Overrun
  <1> QED BY <1>1, <1>3, <1>4 DEF V!Next

\* Nobody is misled: a fence is for a job that left the engine, a device that failed serves
\* nobody in this boot, a handle names one object for ever, an interrupt that ends a wait is of
\* the job that was waited for, and a reply is to the request that was made (ObjectSubmit,
\* Begin, Fault, ObjectCreate, Arm and Wait of src/pi5-v3d, MbxTransfer of src/pi5-mailbox).
THEOREM NobodyIsMisledHolds ==
  ASSUME MarkerLostOnce
  PROVE  AllSpec => NobodyIsMisled
  <1> DEFINE all  == <<part, vars, session, wait, exchange>>
             Told == GpuInv /\ ToldInv
  <1>1. AllInit => Told
    BY InitGpu, InitTold
  <1>2. Told /\ [AllNext]_all => Told'
    BY GpuStep, ToldStep
  <1>3. AllSpec => []Told
    <2> HIDE DEF Told
    <2> QED BY <1>1, <1>2, PTL DEF AllSpec
  <1>4. ASSUME Told, [AllNext]_all
        PROVE  [Next]_vars /\ [V!Next]_session /\ [W!Next]_wait /\ [X!Next]_exchange
    BY <1>4 DEF AllNext
  <1>5. Told /\ [AllNext]_all =>
          [/\ serial' >= serial
           /\ \A s \in Slots : handle'[s] \notin {0, handle[s]} =>
                handle'[s] > serial /\ handle'[s] = serial']_vars
    BY <1>4, NewHandleStep, SerialStep DEF GpuInv, ObjectsInv
  <1>6. Told /\ [AllNext]_all =>
          [completed' > completed =>
             completed' = completed + 1 /\ job = "done" /\ job' = "none" /\ ~corrupt]_(V!vars)
    <2> SUFFICES ASSUME Told, [AllNext]_all, ~UNCHANGED V!vars, completed' > completed
                 PROVE  completed' = completed + 1 /\ job = "done" /\ job' = "none" /\ ~corrupt
      OBVIOUS
    <2>1. V!Next
      BY <1>4 DEF session, V!vars, V!latch, V!life, V!session, V!targets, V!core, V!buffers,
                  V!gpu, V!fences, V!progress
    <2> QED BY <2>1, FenceGiven DEF GpuInv, WholeSession, ToldInv
  <1>7. Told /\ [AllNext]_all =>
          [bootFault \/ marker \/ lost > 0 => owner' \in {owner, NoFile}]_(V!vars)
    <2> SUFFICES ASSUME Told, [AllNext]_all, ~UNCHANGED V!vars, bootFault \/ marker \/ lost > 0
                 PROVE  owner' \in {owner, NoFile}
      OBVIOUS
    <2>1. V!Next
      BY <1>4 DEF session, V!vars, V!latch, V!life, V!session, V!targets, V!core, V!buffers,
                  V!gpu, V!fences, V!progress
    <2> QED BY <2>1, OwnerGiven DEF GpuInv, WholeSession, ToldInv
  <1>8. Told /\ [AllNext]_all => [w_pc = "answer" /\ w_pc' = "free" => engine = "ended"]_(W!vars)
    <2> SUFFICES ASSUME Told, [AllNext]_all, ~UNCHANGED W!vars, w_pc = "answer", w_pc' = "free"
                 PROVE  engine = "ended"
      OBVIOUS
    <2>1. W!Next
      BY <1>4 DEF wait, W!vars, W!thread, W!routine, W!hw
    <2> QED BY <2>1, CompletionStep DEF GpuInv, ToldInv
  <1>9. Told => X!OwnAnswer
    BY DEF ToldInv, AnswerInv
  <1> HIDE DEF Told
  <1> QED BY <1>3, <1>5, <1>6, <1>7, <1>8, <1>9, PTL
          DEF AllSpec, NobodyIsMisled, HandlesNotReused, V!FenceIsHonest,
              V!BlocksReuseUntilReboot, W!OwnCompletion
===============================================================================

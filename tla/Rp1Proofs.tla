------------------------------- MODULE Rp1Proofs -------------------------------
(***************************************************************************)
(* Proofs about the interrupt router, the clocks and the copy engine of    *)
(* RP1, for any set of clients, sources and buffers.                       *)
(*                                                                         *)
(* The argument: each provider keeps its own invariant under each of its   *)
(* operations, whoever calls it; what the copy engine's driver does next   *)
(* then follows from where its thread is, because only that thread opens   *)
(* and closes the driver's files, starts a transfer or frees a buffer.     *)
(***************************************************************************)
EXTENDS Rp1Dma, FiniteSetTheorems, TLAPS

-------------------------------------------------------------------------------
(* Routes. *)

RoutesInv ==
  /\ RoutesTypeOK /\ RoutesFollowLeases
  /\ routesOnline <=> routesPnp = "d0"

\* It holds when the machine boots.
LEMMA RoutesInitially == RoutesInit => RoutesInv
BY RoutesAssumption DEF RoutesInit, RoutesInv, RoutesTypeOK, RoutesFollowLeases, PnpStates

\* The PnP callbacks of the router keep it.
LEMMA RoutesPnpKeeps == RoutesInv /\ RoutesPnp => RoutesInv'
<1> SUFFICES ASSUME RoutesInv, RoutesPnp PROVE RoutesInv'
  OBVIOUS
<1> USE DEF RoutesInv, RoutesTypeOK, RoutesFollowLeases, PnpStates
<1>1. CASE Rp1Prepare  BY <1>1 DEF Rp1Prepare
<1>2. CASE Rp1Release  BY <1>2 DEF Rp1Release
<1>3. CASE Rp1Start  BY <1>3 DEF Rp1Start
<1>4. CASE Rp1Stop  BY <1>4 DEF Rp1Stop
<1> QED BY <1>1, <1>2, <1>3, <1>4 DEF RoutesPnp

\* A new lease is of a source that no file and nothing else has.
LEMMA AcquireKeeps ==
  ASSUME NEW f \in Clients, NEW s \in Sources, RoutesInv, AcquireRoute(f, s)
  PROVE  RoutesInv'
<1> USE DEF RoutesInv, AcquireRoute, RouteFree
<1>1. fileRoutes' = [g \in Clients |-> IF g = f THEN fileRoutes[f] \cup {s} ELSE fileRoutes[g]]
  BY DEF RoutesTypeOK
<1>2. RoutesTypeOK'
  BY <1>1 DEF RoutesTypeOK
<1>3. \A g \in Clients : s \notin fileRoutes[g]
  BY DEF RoutesFollowLeases
<1>4. routeOwned' = UNION {fileRoutes'[g] : g \in Clients}
  BY <1>1 DEF RoutesFollowLeases
<1>5. \A g, h \in Clients : g # h => fileRoutes'[g] \cap fileRoutes'[h] = {}
  BY <1>1, <1>3 DEF RoutesFollowLeases
<1>6. /\ route' = bootRoutes' \cup (IF routesOnline' THEN routeOwned' ELSE {})
      /\ routeOwned' \cap bootRoutes' = {}
  BY DEF RoutesFollowLeases
<1> QED BY <1>2, <1>4, <1>5, <1>6 DEF RoutesFollowLeases

\* A file that is closed takes its own sources with it, and no other.
LEMMA CloseRoutesKeeps ==
  ASSUME NEW f \in Clients, RoutesInv, CloseRoutes(f)
  PROVE  RoutesInv'
<1> USE DEF RoutesInv, CloseRoutes
<1>1. fileRoutes' = [g \in Clients |-> IF g = f THEN {} ELSE fileRoutes[g]]
  BY DEF RoutesTypeOK
<1>2. RoutesTypeOK'
  BY <1>1 DEF RoutesTypeOK
<1>3. routeOwned' = UNION {fileRoutes'[g] : g \in Clients}
  <2>1. \A g \in Clients : g # f => fileRoutes[g] \cap fileRoutes[f] = {}
    BY DEF RoutesFollowLeases
  <2> QED BY <1>1, <2>1 DEF RoutesFollowLeases
<1>4. \A g, h \in Clients : g # h => fileRoutes'[g] \cap fileRoutes'[h] = {}
  BY <1>1 DEF RoutesFollowLeases
<1>5. /\ route' = bootRoutes' \cup (IF routesOnline' THEN routeOwned' ELSE {})
      /\ routeOwned' \cap bootRoutes' = {}
  <2>1. fileRoutes[f] \subseteq routeOwned
    BY DEF RoutesFollowLeases
  <2> QED BY <2>1 DEF RoutesFollowLeases
<1> QED BY <1>2, <1>3, <1>4, <1>5 DEF RoutesFollowLeases

-------------------------------------------------------------------------------
(* Clocks. *)

Holders(k) == {f \in Clients : k \in fileClocks[f]}

\* What the provider remembers of the firmware's setting while a clock is leased.
ClockMemory ==
  \A k \in Clocks :
    /\ clockUsers[k] = 0 => ~clockChanged[k]
    /\ clockUsers[k] > 0 /\ clockChanged[k] =>
         clockSaved[k] = bootClock[k] /\ (clocksOnline => clock[k] = Crystal)
    /\ clockUsers[k] > 0 /\ ~clockChanged[k] =>
         clock[k] = bootClock[k] /\ Usable(k, bootClock[k])

ClocksInv ==
  /\ ClocksTypeOK /\ ClocksAsFound /\ ClockMemory
  /\ clocksOnline <=> clocksPnp = "d0"

\* A clock that the provider switched on is good enough for any lease.
LEMMA CrystalIsUsable == \A k \in Clocks : Usable(k, Crystal) /\ Crystal \in Setting
BY DEF Clocks, Usable, Crystal, Setting

\* It holds when the machine boots.
LEMMA ClocksInitially == ClocksInit /\ bootClock \in [Clocks -> Setting] => ClocksInv
<1> SUFFICES ASSUME ClocksInit, bootClock \in [Clocks -> Setting] PROVE ClocksInv
  OBVIOUS
<1>1. Cardinality(Clients) \in Nat
  BY ClientsAssumption, FS_CardinalityType
<1>2. \A k \in Clocks : {f \in Clients : k \in fileClocks[f]} = {}
  BY DEF ClocksInit
<1>3. ClocksTypeOK
  <2>1. 0 \in 0..Cardinality(Clients)
    BY <1>1
  <2> HIDE DEF ClocksTypeOK
  <2> QED BY <2>1 DEF ClocksInit, ClocksTypeOK, PnpStates
<1>4. ClocksAsFound /\ ClockMemory
  BY <1>2, FS_EmptySet DEF ClocksInit, ClocksAsFound, ClockMemory
<1> QED BY <1>3, <1>4 DEF ClocksInv, ClocksInit

\* The PnP callbacks of the clock provider keep it.
LEMMA ClocksPnpKeeps == ClocksInv /\ ClocksPnp => ClocksInv'
<1> SUFFICES ASSUME ClocksInv, ClocksPnp PROVE ClocksInv'
  OBVIOUS
<1> USE DEF ClocksInv, ClocksTypeOK, ClocksAsFound, ClockMemory, PnpStates
<1>1. CASE ClockPrepare  BY <1>1 DEF ClockPrepare
<1>2. CASE ClockRelease  BY <1>2 DEF ClockRelease
<1>3. CASE ClockStart
  <2>1. \A k \in Clocks :
          clock'[k] = IF clockUsers[k] > 0 /\ clockChanged[k] THEN Crystal ELSE clock[k]
    BY <1>3 DEF ClockStart
  <2>2. clock' \in [Clocks -> Setting]
    BY <1>3, CrystalIsUsable DEF ClockStart
  <2>3. /\ UNCHANGED <<clockUsers, clockSaved, clockChanged, fileClocks, bootClock>>
        /\ ~clocksOnline /\ clocksOnline' = TRUE /\ clocksPnp' = "d0"
    BY <1>3 DEF ClockStart
  <2>4. \A k \in Clocks : clockUsers[k] \in Nat
    BY ClientsAssumption, FS_CardinalityType
  <2>5. ClocksAsFound'
    BY <2>1, <2>3, <2>4, CrystalIsUsable
  <2>6. ClockMemory'
    BY <2>1, <2>3, <2>4
  <2>7. ClocksTypeOK'
    <3> HIDE DEF ClocksAsFound, ClockMemory
    <3> QED BY <2>2, <2>3
  <2> HIDE DEF ClocksTypeOK, ClocksAsFound, ClockMemory
  <2> QED BY <2>3, <2>5, <2>6, <2>7
<1>4. CASE ClockStop
  <2>1. \A k \in Clocks : clock'[k] = IF clockChanged[k] THEN clockSaved[k] ELSE clock[k]
    BY <1>4 DEF ClockStop, Restored
  <2>2. clock' \in [Clocks -> Setting]
    BY <1>4 DEF ClockStop, Restored
  <2>3. /\ UNCHANGED <<clockUsers, clockSaved, clockChanged, fileClocks, bootClock>>
        /\ clocksOnline /\ clocksOnline' = FALSE /\ clocksPnp' = "prepared"
    BY <1>4 DEF ClockStop
  <2>4. \A k \in Clocks : clockUsers[k] \in Nat
    BY ClientsAssumption, FS_CardinalityType
  <2>5. ClocksAsFound'
    BY <2>1, <2>3, <2>4
  <2>6. ClockMemory'
    BY <2>1, <2>3, <2>4
  <2>7. ClocksTypeOK'
    <3> HIDE DEF ClocksAsFound, ClockMemory
    <3> QED BY <2>2, <2>3
  <2> HIDE DEF ClocksTypeOK, ClocksAsFound, ClockMemory
  <2> QED BY <2>3, <2>5, <2>6, <2>7
<1> QED BY <1>1, <1>2, <1>3, <1>4 DEF ClocksPnp

\* A file that gets or gives up a lease changes the number of a clock's holders by one.
LEMMA HoldersCount ==
  ASSUME NEW f \in Clients, NEW k \in Clocks, ClocksInv,
         NEW fc \in [Clients -> SUBSET Clocks],
         \A g \in Clients \ {f} : fc[g] = fileClocks[g]
  PROVE  LET n == Cardinality({g \in Clients : k \in fc[g]}) IN
           /\ n \in 0..Cardinality(Clients)
           /\ n = clockUsers[k] + (IF k \in fc[f] THEN 1 ELSE 0)
                                - (IF k \in fileClocks[f] THEN 1 ELSE 0)
<1> DEFINE H == Holders(k)
           G == {g \in Clients : k \in fc[g]}
<1>1. /\ IsFiniteSet(H) /\ IsFiniteSet(G)
      /\ Cardinality(H) \in Nat /\ Cardinality(G) \in Nat /\ Cardinality(Clients) \in Nat
      /\ Cardinality(G) <= Cardinality(Clients)
  BY ClientsAssumption, FS_Subset, FS_CardinalityType DEF Holders
<1>2. clockUsers[k] = Cardinality(H)
  BY DEF ClocksInv, ClocksAsFound, Holders
<1>3. CASE k \in fc[f] /\ k \notin fileClocks[f]
  <2>1. G = H \cup {f} /\ f \notin H
    BY <1>3 DEF Holders
  <2> QED BY <1>1, <1>2, <1>3, <2>1, FS_AddElement
<1>4. CASE k \notin fc[f] /\ k \in fileClocks[f]
  <2>1. G = H \ {f} /\ f \in H
    BY <1>4 DEF Holders
  <2> QED BY <1>1, <1>2, <1>4, <2>1, FS_RemoveElement
<1>5. CASE k \in fc[f] /\ k \in fileClocks[f]
  <2>1. G = H
    BY <1>5 DEF Holders
  <2> QED BY <1>1, <1>2, <1>5, <2>1
<1>6. CASE k \notin fc[f] /\ k \notin fileClocks[f]
  <2>1. G = H
    BY <1>6 DEF Holders
  <2> QED BY <1>1, <1>2, <1>6, <2>1
<1> QED BY <1>3, <1>4, <1>5, <1>6

\* A request, granted or put back, keeps it.
LEMMA RequestKeeps ==
  ASSUME NEW f \in Clients, NEW k \in Clocks, ClocksInv, RequestClock(f, k)
  PROVE  ClocksInv'
<1> DEFINE granted == Usable(k, Offered(k))
<1>1. /\ clock \in [Clocks -> Setting] /\ clockSaved \in [Clocks -> Setting]
      /\ bootClock \in [Clocks -> Setting]
      /\ \A c \in Clocks : clockUsers[c] \in Nat
      /\ clockUsers \in [Clocks -> 0..Cardinality(Clients)]
      /\ clockChanged \in [Clocks -> BOOLEAN] /\ fileClocks \in [Clients -> SUBSET Clocks]
  BY ClientsAssumption, FS_CardinalityType DEF ClocksInv, ClocksTypeOK
<1>2. /\ Offered(k) \in Setting
      /\ Offered(k) = IF clockUsers[k] = 0 /\ ~clock[k].on THEN Crystal ELSE clock[k]
      /\ clockUsers[k] = 0 => clock[k] = bootClock[k]
  BY <1>1, CrystalIsUsable DEF Offered, ClocksInv, ClocksAsFound
<1>3. /\ clockSaved' \in [Clocks -> Setting]
      /\ \A c \in Clocks : clockSaved'[c] = IF c = k /\ clockUsers[k] = 0 THEN clock[k]
                                            ELSE clockSaved[c]
      /\ UNCHANGED <<clocksOnline, clocksPnp, bootClock>>
      /\ clocksOnline /\ k \notin fileClocks[f]
  BY <1>1 DEF RequestClock
<1>4. CASE granted
  <2>1. /\ clock' = [clock EXCEPT ![k] = Offered(k)]
        /\ clockUsers' = [clockUsers EXCEPT ![k] = @ + 1]
        /\ clockChanged' = [clockChanged EXCEPT
                             ![k] = IF clockUsers[k] = 0 THEN ~clock[k].on ELSE @]
        /\ fileClocks' = [fileClocks EXCEPT ![f] = @ \cup {k}]
    BY <1>4 DEF RequestClock
  <2>2. /\ fileClocks' \in [Clients -> SUBSET Clocks]
        /\ \A g \in Clients \ {f} : fileClocks'[g] = fileClocks[g]
        /\ fileClocks'[f] = fileClocks[f] \cup {k}
    BY <1>1, <2>1
  <2>3. \A c \in Clocks :
          /\ clockUsers'[c] = Cardinality({g \in Clients : c \in fileClocks'[g]})
          /\ clockUsers'[c] \in 0..Cardinality(Clients)
    <3> TAKE c \in Clocks
    <3> DEFINE n == Cardinality({g \in Clients : c \in fileClocks'[g]})
    <3>1. /\ n \in 0..Cardinality(Clients)
          /\ n = clockUsers[c] + (IF c \in fileClocks'[f] THEN 1 ELSE 0)
                               - (IF c \in fileClocks[f] THEN 1 ELSE 0)
      BY <2>2, HoldersCount
    <3>2. clockUsers'[c] = IF c = k THEN clockUsers[c] + 1 ELSE clockUsers[c]
      BY <1>1, <2>1
    <3>3. CASE c = k  BY <1>1, <1>3, <2>2, <3>1, <3>2, <3>3
    <3>4. CASE c # k /\ c \in fileClocks[f]  BY <1>1, <2>2, <3>1, <3>2, <3>4
    <3>5. CASE c # k /\ c \notin fileClocks[f]  BY <1>1, <2>2, <3>1, <3>2, <3>5
    <3> QED BY <3>3, <3>4, <3>5
  <2>4. /\ clock' \in [Clocks -> Setting] /\ clockChanged' \in [Clocks -> BOOLEAN]
        /\ clockUsers' \in [Clocks -> 0..Cardinality(Clients)]
    <3>1. clock[k].on \in BOOLEAN
      BY <1>1 DEF Setting
    <3>2. DOMAIN clockUsers' = Clocks /\ clockUsers' = [c \in Clocks |-> clockUsers'[c]]
      BY <1>1, <2>1
    <3>3. clockUsers' \in [Clocks -> 0..Cardinality(Clients)]
      BY <2>3, <3>2
    <3> QED BY <1>1, <1>2, <2>1, <3>1, <3>3
  <2>5. ClocksTypeOK'
    BY <1>1, <1>3, <2>2, <2>4 DEF ClocksInv, ClocksTypeOK
  <2>6. \A c \in Clocks :
          /\ clock'[c] = IF c = k THEN Offered(k) ELSE clock[c]
          /\ clockUsers'[c] = IF c = k THEN clockUsers[k] + 1 ELSE clockUsers[c]
          /\ clockChanged'[c] = IF c = k /\ clockUsers[k] = 0 THEN ~clock[k].on
                                ELSE clockChanged[c]
    BY <1>1, <2>1
  <2>7. ClocksAsFound'
    <3>1. \A c \in Clocks : c # k =>
             /\ ~clocksOnline' \/ clockUsers'[c] = 0 => clock'[c] = bootClock'[c]
             /\ clocksOnline' /\ clockUsers'[c] > 0 => Usable(c, clock'[c])
      BY <1>3, <2>6 DEF ClocksInv, ClocksAsFound
    <3>2. /\ ~clocksOnline' \/ clockUsers'[k] = 0 => clock'[k] = bootClock'[k]
          /\ clocksOnline' /\ clockUsers'[k] > 0 => Usable(k, clock'[k])
      BY <1>1, <1>3, <1>4, <2>6
    <3> QED BY <2>3, <3>1, <3>2 DEF ClocksAsFound
  <2>8. ClockMemory'
    <3>1. CASE clockUsers[k] = 0
      <4>1. /\ clockUsers'[k] = 1 /\ clockChanged'[k] = ~clock[k].on
            /\ clockSaved'[k] = bootClock[k] /\ clock[k] = bootClock[k]
        BY <1>1, <1>2, <1>3, <2>6, <3>1
      <4>2. clockChanged'[k] => clock'[k] = Crystal
        BY <1>2, <2>6, <3>1, <4>1
      <4>3. ~clockChanged'[k] => clock'[k] = bootClock[k] /\ Usable(k, bootClock[k])
        BY <1>2, <1>4, <2>6, <3>1, <4>1
      <4>4. \A c \in Clocks : c # k =>
              /\ clockSaved'[c] = clockSaved[c] /\ clock'[c] = clock[c]
              /\ clockUsers'[c] = clockUsers[c] /\ clockChanged'[c] = clockChanged[c]
        BY <1>3, <2>6
      <4> QED BY <1>3, <4>1, <4>2, <4>3, <4>4 DEF ClocksInv, ClockMemory
    <3>2. CASE clockUsers[k] > 0
      BY <1>1, <1>2, <1>3, <2>6, <3>2 DEF ClocksInv, ClockMemory
    <3> QED BY <1>1, <3>1, <3>2
  <2> QED BY <1>3, <2>5, <2>7, <2>8 DEF ClocksInv
<1>5. CASE ~granted
  <2>1. /\ UNCHANGED <<clock, clockUsers, fileClocks>>
        /\ clockChanged' = [clockChanged EXCEPT ![k] = @ /\ clockUsers[k] > 0]
    BY <1>5 DEF RequestClock
  <2>2. \A c \in Clocks :
          clockChanged'[c] = IF c = k THEN clockChanged[k] /\ clockUsers[k] > 0 ELSE clockChanged[c]
    BY <1>1, <2>1
  <2>3. clockChanged' \in [Clocks -> BOOLEAN]
    BY <1>1, <2>1
  <2>4. ClocksTypeOK'
    BY <1>1, <1>3, <2>1, <2>3 DEF ClocksInv, ClocksTypeOK
  <2>5. ClocksAsFound'
    BY <1>3, <2>1 DEF ClocksInv, ClocksAsFound
  <2>6. ClockMemory'
    BY <1>1, <1>3, <2>1, <2>2 DEF ClocksInv, ClockMemory
  <2> QED BY <1>3, <2>4, <2>5, <2>6 DEF ClocksInv
<1> QED BY <1>4, <1>5

\* A file that is closed keeps it, whether or not it was the last user.
LEMMA CloseClocksKeeps ==
  ASSUME NEW f \in Clients, ClocksInv, CloseClocks(f)
  PROVE  ClocksInv'
<1>1. /\ clock \in [Clocks -> Setting] /\ clockSaved \in [Clocks -> Setting]
      /\ bootClock \in [Clocks -> Setting]
      /\ \A c \in Clocks : clockUsers[c] \in Nat
      /\ clockChanged \in [Clocks -> BOOLEAN] /\ fileClocks \in [Clients -> SUBSET Clocks]
  BY ClientsAssumption, FS_CardinalityType DEF ClocksInv, ClocksTypeOK
<1>2. /\ fileClocks' \in [Clients -> SUBSET Clocks] /\ fileClocks'[f] = {}
      /\ \A g \in Clients \ {f} : fileClocks'[g] = fileClocks[g]
      /\ UNCHANGED <<clockSaved, clocksOnline, clocksPnp, bootClock>>
  BY <1>1 DEF CloseClocks
<1>3. \A c \in Clocks :
        /\ clock'[c] = IF Last(f, c) /\ clocksOnline /\ clockChanged[c] THEN clockSaved[c]
                       ELSE clock[c]
        /\ clockUsers'[c] = clockUsers[c] - (IF c \in fileClocks[f] THEN 1 ELSE 0)
        /\ clockChanged'[c] = (clockChanged[c] /\ ~Last(f, c))
  BY DEF CloseClocks, Restored
<1>4. \A c \in Clocks :
        /\ clockUsers'[c] = Cardinality({g \in Clients : c \in fileClocks'[g]})
        /\ clockUsers'[c] \in 0..Cardinality(Clients)
  <2> TAKE c \in Clocks
  <2> DEFINE n == Cardinality({g \in Clients : c \in fileClocks'[g]})
  <2>1. /\ n \in 0..Cardinality(Clients)
        /\ n = clockUsers[c] + (IF c \in fileClocks'[f] THEN 1 ELSE 0)
                             - (IF c \in fileClocks[f] THEN 1 ELSE 0)
    BY <1>2, HoldersCount
  <2>2. CASE c \in fileClocks[f]  BY <1>1, <1>2, <1>3, <2>1, <2>2
  <2>3. CASE c \notin fileClocks[f]  BY <1>1, <1>2, <1>3, <2>1, <2>3
  <2> QED BY <2>2, <2>3
<1>5. ClocksTypeOK'
  <2>1. clock' \in [Clocks -> Setting]
    BY <1>1 DEF CloseClocks, Restored
  <2>2. clockChanged' \in [Clocks -> BOOLEAN]
    BY <1>1 DEF CloseClocks, Last
  <2>3. clockUsers' = [c \in Clocks |-> clockUsers'[c]]
    BY DEF CloseClocks
  <2>4. clockUsers' \in [Clocks -> 0..Cardinality(Clients)]
    BY <1>4, <2>3
  <2> QED BY <1>1, <1>2, <2>1, <2>2, <2>4 DEF ClocksInv, ClocksTypeOK
\* What the step means for one clock.
<1>6. \A c \in Clocks :
        /\ ~clocksOnline' \/ clockUsers'[c] = 0 => clock'[c] = bootClock'[c]
        /\ clocksOnline' /\ clockUsers'[c] > 0 => Usable(c, clock'[c])
  <2> TAKE c \in Clocks
  <2>1. CASE Last(f, c)
    <3>1. clockUsers'[c] = 0 /\ clockUsers[c] = 1
      BY <1>1, <1>3, <2>1 DEF Last
    <3>2. /\ clockChanged[c] => clockSaved[c] = bootClock[c]
          /\ ~clockChanged[c] => clock[c] = bootClock[c]
          /\ ~clocksOnline => clock[c] = bootClock[c]
      <4>1. clockUsers[c] > 0
        BY <3>1
      <4>2. ClocksAsFound /\ ClockMemory
        BY DEF ClocksInv
      <4>3. ~clocksOnline => clock[c] = bootClock[c]
        BY <4>2 DEF ClocksAsFound
      <4>4. /\ clockChanged[c] => clockSaved[c] = bootClock[c]
            /\ ~clockChanged[c] => clock[c] = bootClock[c]
        BY <4>1, <4>2 DEF ClockMemory
      <4> QED BY <4>3, <4>4
    <3>3. clock'[c] = bootClock[c]
      BY <1>3, <2>1, <3>2
    <3> QED BY <1>2, <3>1, <3>3
  <2>2. CASE ~Last(f, c)
    <3>1. clock'[c] = clock[c] /\ (clockUsers'[c] = 0 => clockUsers[c] = 0)
      BY <1>1, <1>3, <2>2 DEF Last
    <3>2. clockUsers'[c] > 0 => clockUsers[c] > 0
      BY <1>1, <1>3
    <3> QED BY <1>2, <3>1, <3>2 DEF ClocksInv, ClocksAsFound
  <2> QED BY <2>1, <2>2
<1>7. ClockMemory'
  <2> SUFFICES ASSUME NEW c \in Clocks
      PROVE  /\ clockUsers'[c] = 0 => ~clockChanged'[c]
             /\ clockUsers'[c] > 0 /\ clockChanged'[c] =>
                  clockSaved'[c] = bootClock'[c] /\ (clocksOnline' => clock'[c] = Crystal)
             /\ clockUsers'[c] > 0 /\ ~clockChanged'[c] =>
                  clock'[c] = bootClock'[c] /\ Usable(c, bootClock'[c])
    BY DEF ClockMemory
  <2>1. CASE Last(f, c)
    <3>1. clockUsers'[c] = 0
      BY <1>1, <1>3, <2>1 DEF Last
    <3>2. ~clockChanged'[c]
      BY <1>3, <2>1
    <3> QED BY <3>1, <3>2
  <2>2. CASE ~Last(f, c)
    <3>1. clockUsers'[c] \in Nat
      <4>1. Cardinality(Clients) \in Nat
        BY ClientsAssumption, FS_CardinalityType
      <4>2. clockUsers'[c] \in 0..Cardinality(Clients)
        BY <1>4
      <4> QED BY <4>1, <4>2
    <3>2. clockUsers'[c] = 0 => clockUsers[c] = 0
      BY <1>1, <1>3, <2>2 DEF Last
    <3>3. clockUsers[c] = 0 => clockUsers'[c] = 0
      BY <1>1, <1>3, <3>1
    <3>4. clock'[c] = clock[c] /\ clockChanged'[c] = clockChanged[c]
      BY <1>1, <1>3, <2>2
    <3> QED BY <1>1, <1>2, <3>1, <3>2, <3>3, <3>4 DEF ClocksInv, ClockMemory
  <2> QED BY <2>1, <2>2
<1> QED BY <1>2, <1>4, <1>5, <1>6, <1>7 DEF ClocksInv, ClocksAsFound

-------------------------------------------------------------------------------
(* The copy engine. *)

\* Places of the thread.
Working == {"idle", "check", "wait", "mask"}
Halting == {"halt", "reset"}
Returned == {"released", "down", "probe", "unclock", "unroute"}

\* What the driver holds, by the place of its thread.
LeaseInv ==
  /\ at \in Returned => ~owned /\ config # "driver"
  /\ at \notin Returned => saved # "driver"
  /\ at \in {"released", "down", "probe", "route", "unclock"} => fileRoutes[Dma] = {}
  /\ at \in {"released", "down"} => fileClocks[Dma] = {}
  /\ at \in Working => online
  /\ online => at \in Working \cup Halting

\* A buffer of this driver that the engine works on is an older one, or the thread has
\* still to see the engine stop, or has given up.
EngineInv ==
  /\ at = "released" <=> buf = NoBuf
  /\ at # "released" => buf \in alloc
  /\ engine /\ engineBuf # NoBuf =>
       /\ engineBuf \in alloc
       /\ engineBuf = buf => unsafe \/ at \in {"check", "wait", "mask", "halt", "reset"}

\* A completion that any part of the system still remembers is of the last transfer.
HonestInv ==
  /\ "done" \in irq \cup pending => copied
  /\ status = "ok" \/ answer = "ok" => copied

DmaInv == DmaTypeOK /\ LeaseInv /\ EngineInv /\ HonestInv

IInv == RoutesInv /\ ClocksInv /\ DmaInv

\* The whole invariant holds initially.
LEMMA Initially == Init => IInv
<1> SUFFICES ASSUME Init PROVE IInv
  OBVIOUS
<1>1. RoutesInv
  BY RoutesInitially DEF Init
<1>2. ClocksInv
  BY ClocksInitially, DmaAssumption DEF Init
<1>3. DmaInv
  BY DmaAssumption DEF Init, RoutesInit, ClocksInit, DmaInv, DmaTypeOK, LeaseInv, EngineInv,
     HonestInv, Returned, Working, Halting
<1> QED BY <1>1, <1>2, <1>3 DEF IInv

\* Each step is one of the providers', or leaves them as they are.
LEMMA ProvidersStep == IInv /\ Next => RoutesInv' /\ ClocksInv'
<1> SUFFICES ASSUME IInv, Next PROVE RoutesInv' /\ ClocksInv'
  OBVIOUS
<1> USE DmaAssumption, RoutesAssumption DEF IInv
<1>1. UNCHANGED routeVars => RoutesInv'
  BY DEF routeVars, RoutesInv, RoutesTypeOK, RoutesFollowLeases
<1>2. UNCHANGED clockVars => ClocksInv'
  BY DEF clockVars, ClocksInv, ClocksTypeOK, ClocksAsFound, ClockMemory
<1>3. "dma" \in Clocks
  BY DEF Clocks
<1>4. CASE StartClock  BY <1>1, <1>3, <1>4, RequestKeeps DEF StartClock
<1>5. CASE StartRoute  BY <1>1, <1>2, <1>5, AcquireKeeps DEF StartRoute
<1>6. CASE CloseClock  BY <1>1, <1>6, CloseClocksKeeps DEF CloseClock
<1>7. CASE CloseRoute  BY <1>2, <1>7, CloseRoutesKeeps DEF CloseRoute
<1>8. CASE OtherClient
  <2>1. PICK f \in Clients \ {Dma} :
          \/ \E k \in Clocks : RequestClock(f, k) /\ UNCHANGED routeVars
          \/ \E s \in Sources : AcquireRoute(f, s) /\ UNCHANGED clockVars
          \/ CloseClocks(f) /\ UNCHANGED routeVars
          \/ CloseRoutes(f) /\ UNCHANGED clockVars
    BY <1>8 DEF OtherClient
  <2>2. CASE \E k \in Clocks : RequestClock(f, k) /\ UNCHANGED routeVars
    BY <1>1, <2>2, RequestKeeps
  <2>3. CASE \E s \in Sources : AcquireRoute(f, s) /\ UNCHANGED clockVars
    BY <1>2, <2>3, AcquireKeeps
  <2>4. CASE CloseClocks(f) /\ UNCHANGED routeVars
    BY <1>1, <2>4, CloseClocksKeeps
  <2>5. CASE CloseRoutes(f) /\ UNCHANGED clockVars
    BY <1>2, <2>5, CloseRoutesKeeps
  <2> QED BY <2>1, <2>2, <2>3, <2>4, <2>5
<1>9. CASE ProvidersPnp
  BY <1>1, <1>2, <1>9, RoutesPnpKeeps, ClocksPnpKeeps DEF ProvidersPnp
<1>10. CASE DmaPrepare \/ DmaRelease \/ StartProbe \/ Connect \/ Disconnect
  BY <1>1, <1>2, <1>10 DEF DmaPrepare, DmaRelease, StartProbe, Connect, Disconnect, providers
<1>11. CASE Copy
  BY <1>1, <1>2, <1>11 DEF Copy, CopyBegin, CopyCheck, CopyWait, CopyMask, providers
<1>12. CASE Halt \/ Reset \/ EngineEnds \/ DmaIsr \/ DmaDpc
  BY <1>1, <1>2, <1>12 DEF Halt, Reset, EngineEnds, DmaIsr, DmaDpc, providers
<1> QED BY <1>4, <1>5, <1>6, <1>7, <1>8, <1>9, <1>10, <1>11, <1>12 DEF Next, DmaPnp

\* What others do to the providers leaves this driver's leases.
LEMMA OthersKeep ==
  ASSUME IInv, OtherClient \/ ProvidersPnp
  PROVE  /\ fileRoutes'[Dma] = fileRoutes[Dma] /\ fileClocks'[Dma] = fileClocks[Dma]
         /\ UNCHANGED dmaVars
<1> USE DmaAssumption DEF IInv, RoutesInv, RoutesTypeOK, ClocksInv, ClocksTypeOK
<1>1. CASE OtherClient
  BY <1>1 DEF OtherClient, RequestClock, AcquireRoute, CloseClocks, CloseRoutes, routeVars, clockVars
<1>2. CASE ProvidersPnp
  BY <1>2 DEF ProvidersPnp, RoutesPnp, ClocksPnp, Rp1Prepare, Rp1Release, Rp1Start, Rp1Stop,
     ClockPrepare, ClockRelease, ClockStart, ClockStop, routeVars, clockVars
<1> QED BY <1>1, <1>2

\* The two halves of DmaTypeOK: what is Boolean, and the rest.
DmaFlags ==
  /\ unsafe \in BOOLEAN /\ owned \in BOOLEAN /\ online \in BOOLEAN /\ wake \in BOOLEAN
  /\ dpc \in BOOLEAN /\ signal \in BOOLEAN /\ engine \in BOOLEAN /\ copied \in BOOLEAN

DmaData ==
  /\ at \in {"released", "down", "probe", "route", "unclock", "connect", "idle", "check",
             "wait", "mask", "halt", "reset", "unroute"}
  /\ buf \in BufIds \cup {NoBuf} /\ engineBuf \in BufIds \cup {NoBuf}
  /\ alloc \subseteq BufIds /\ pending \subseteq Bits /\ irq \subseteq Bits
  /\ config \in {"boot", "driver", "off"} /\ saved \in {"boot", "driver", "off"}
  /\ status \in {"none", "ok", "busy", "timeout", "error"}
  /\ answer \in {"none", "ok", "busy", "timeout", "error"}

\* DmaFlags and DmaData are DmaTypeOK.
LEMMA TypeHalves == DmaTypeOK <=> DmaFlags /\ DmaData
BY Zenon DEF DmaTypeOK, DmaFlags, DmaData

\* Every step keeps the flags Boolean.
LEMMA FlagsStep == DmaFlags /\ Next => DmaFlags'
<1> SUFFICES ASSUME DmaFlags, Next PROVE DmaFlags'
  OBVIOUS
<1> USE DEF DmaFlags, ctxVars, irqVars, reqVars, hwVars, dmaVars
<1>1. CASE DmaPrepare  BY <1>1, Zenon DEF DmaPrepare
<1>2. CASE DmaRelease  BY <1>2, Zenon DEF DmaRelease
<1>3. CASE StartClock  BY <1>3, Zenon DEF StartClock
<1>4. CASE StartProbe  BY <1>4, Zenon DEF StartProbe
<1>5. CASE StartRoute  BY <1>5, Zenon DEF StartRoute
<1>6. CASE Connect  BY <1>6, Zenon DEF Connect
<1>7. CASE Disconnect  BY <1>7, Zenon DEF Disconnect
<1>8. CASE CloseRoute  BY <1>8, Zenon DEF CloseRoute
<1>9. CASE CloseClock  BY <1>9, Zenon DEF CloseClock
<1>10. CASE CopyBegin  BY <1>10, Zenon DEF CopyBegin, DmaBegin
<1>11. CASE CopyCheck  BY <1>11, Zenon DEF CopyCheck, Verdict
<1>12. CASE CopyWait  BY <1>12, Zenon DEF CopyWait
<1>13. CASE CopyMask  BY <1>13, Zenon DEF CopyMask
<1>14. CASE Halt  BY <1>14, Zenon DEF Halt, Halted, CopyHalted, StopHalted
<1>15. CASE Reset  BY <1>15, Zenon DEF Reset, Halted, CopyHalted, StopHalted
<1>16. CASE EngineEnds  BY <1>16, Zenon DEF EngineEnds
<1>17. CASE DmaIsr  BY <1>17, Zenon DEF DmaIsr
<1>18. CASE DmaDpc  BY <1>18, Zenon DEF DmaDpc
<1>19. CASE OtherClient \/ ProvidersPnp  BY <1>19 DEF OtherClient, ProvidersPnp
<1> QED BY <1>1, <1>2, <1>3, <1>4, <1>5, <1>6, <1>7, <1>8, <1>9, <1>10, <1>11, <1>12, <1>13,
           <1>14, <1>15, <1>16, <1>17, <1>18, <1>19 DEF Next, DmaPnp, Copy

\* Every step keeps the rest in its range.
LEMMA DataStep == DmaData /\ Next => DmaData'
<1> SUFFICES ASSUME DmaData, Next PROVE DmaData'
  OBVIOUS
<1> USE DEF DmaData, Bits, ctxVars, irqVars, reqVars, hwVars, dmaVars
<1>1. CASE DmaPrepare  BY <1>1 DEF DmaPrepare
<1>2. CASE DmaRelease  BY <1>2 DEF DmaRelease
<1>3. CASE StartClock  BY <1>3 DEF StartClock
<1>4. CASE StartProbe  BY <1>4 DEF StartProbe
<1>5. CASE StartRoute  BY <1>5 DEF StartRoute
<1>6. CASE Connect  BY <1>6 DEF Connect
<1>7. CASE Disconnect  BY <1>7 DEF Disconnect
<1>8. CASE CloseRoute  BY <1>8 DEF CloseRoute
<1>9. CASE CloseClock  BY <1>9 DEF CloseClock
<1>10. CASE CopyBegin  BY <1>10 DEF CopyBegin, DmaBegin
<1>11. CASE CopyCheck  BY <1>11 DEF CopyCheck, Verdict
<1>12. CASE CopyWait  BY <1>12 DEF CopyWait
<1>13. CASE CopyMask  BY <1>13 DEF CopyMask
<1>14. CASE Halt  BY <1>14 DEF Halt, Halted, CopyHalted, StopHalted
<1>15. CASE Reset  BY <1>15 DEF Reset, Halted, CopyHalted, StopHalted
<1>16. CASE EngineEnds
  <2>1. irq' = irq \cup {"done"} \/ irq' = irq \cup {"error"}
    BY <1>16 DEF EngineEnds
  <2>2. irq' \subseteq Bits
    BY <2>1
  <2>3. UNCHANGED <<at, buf, engineBuf, alloc, pending, config, saved, status, answer>>
    BY <1>16 DEF EngineEnds
  <2> QED BY <2>2, <2>3
<1>17. CASE DmaIsr  BY <1>17 DEF DmaIsr
<1>18. CASE DmaDpc  BY <1>18 DEF DmaDpc
<1>19. CASE OtherClient \/ ProvidersPnp  BY <1>19 DEF OtherClient, ProvidersPnp
<1> QED BY <1>1, <1>2, <1>3, <1>4, <1>5, <1>6, <1>7, <1>8, <1>9, <1>10, <1>11, <1>12, <1>13,
           <1>14, <1>15, <1>16, <1>17, <1>18, <1>19 DEF Next, DmaPnp, Copy

\* Every step keeps the types of the driver.
LEMMA DmaTypes == DmaTypeOK /\ Next => DmaTypeOK'
<1>1. (DmaTypeOK <=> DmaFlags /\ DmaData)'
  BY Zenon DEF DmaTypeOK, DmaFlags, DmaData
<1> QED BY <1>1, TypeHalves, FlagsStep, DataStep

\* Every step keeps the driver's part.
LEMMA DmaStep == IInv /\ Next => DmaInv'
<1> SUFFICES ASSUME IInv, Next PROVE DmaInv'
  OBVIOUS
<1>0. DmaTypeOK /\ LeaseInv /\ EngineInv /\ HonestInv
  BY DEF IInv, DmaInv
<1>a. DmaTypeOK'
  BY <1>0, DmaTypes
<1> USE <1>0, DmaAssumption
    DEF Returned, Working, Halting, Bits,
        ctxVars, irqVars, reqVars, hwVars, dmaVars, providers, routeVars, clockVars
<1>1. CASE DmaPrepare
  <2>1. LeaseInv'  BY <1>1 DEF DmaPrepare, LeaseInv
  <2>2. EngineInv'  BY <1>1 DEF DmaPrepare, EngineInv
  <2>3. HonestInv'  BY <1>1 DEF DmaPrepare, HonestInv
  <2> QED BY <1>a, <2>1, <2>2, <2>3 DEF DmaInv
<1>2. CASE DmaRelease
  <2>1. LeaseInv'  BY <1>2 DEF DmaRelease, LeaseInv
  <2>2. EngineInv'  BY <1>2 DEF DmaRelease, EngineInv
  <2>3. HonestInv'  BY <1>2 DEF DmaRelease, HonestInv
  <2> QED BY <1>a, <2>1, <2>2, <2>3 DEF DmaInv
<1>3. CASE StartClock
  <2>1. /\ at = "down" /\ at' \in {"probe", "unclock", "down"}
        /\ UNCHANGED <<fileRoutes, owned, config, saved, online>>
    BY <1>3 DEF StartClock
  <2>2. at' = "down" => fileClocks' = fileClocks
    BY <1>3 DEF StartClock, RequestClock, ClockGranted
  <2>3. LeaseInv'  BY <2>1, <2>2 DEF LeaseInv, Working
  <2>4. EngineInv'  BY <1>3 DEF StartClock, EngineInv
  <2>5. HonestInv'  BY <1>3 DEF StartClock, HonestInv
  <2> QED BY <1>a, <2>3, <2>4, <2>5 DEF DmaInv
<1>4. CASE StartProbe
  <2>1. LeaseInv'  BY <1>4 DEF StartProbe, LeaseInv
  <2>2. EngineInv'  BY <1>4 DEF StartProbe, EngineInv
  <2>3. HonestInv'  BY <1>4 DEF StartProbe, HonestInv
  <2> QED BY <1>a, <2>1, <2>2, <2>3 DEF DmaInv
<1>5. CASE StartRoute
  <2>1. LeaseInv'  BY <1>5 DEF StartRoute, LeaseInv
  <2>2. EngineInv'  BY <1>5 DEF StartRoute, EngineInv
  <2>3. HonestInv'  BY <1>5 DEF StartRoute, HonestInv
  <2> QED BY <1>a, <2>1, <2>2, <2>3 DEF DmaInv
<1>6. CASE Connect
  <2>1. LeaseInv'  BY <1>6 DEF Connect, LeaseInv
  <2>2. EngineInv'  BY <1>6 DEF Connect, EngineInv
  <2>3. HonestInv'  BY <1>6 DEF Connect, HonestInv
  <2> QED BY <1>a, <2>1, <2>2, <2>3 DEF DmaInv
<1>7. CASE Disconnect
  <2>1. LeaseInv'  BY <1>7 DEF Disconnect, LeaseInv
  <2>2. EngineInv'  BY <1>7 DEF Disconnect, EngineInv
  <2>3. HonestInv'  BY <1>7 DEF Disconnect, HonestInv
  <2> QED BY <1>a, <2>1, <2>2, <2>3 DEF DmaInv
<1>8. CASE CloseRoute
  <2>0. fileRoutes'[Dma] = {}
    BY <1>8 DEF CloseRoute, CloseRoutes, IInv, RoutesInv, RoutesTypeOK
  <2>1. LeaseInv'  BY <1>8, <2>0 DEF CloseRoute, LeaseInv
  <2>2. EngineInv'  BY <1>8 DEF CloseRoute, EngineInv
  <2>3. HonestInv'  BY <1>8 DEF CloseRoute, HonestInv
  <2> QED BY <1>a, <2>1, <2>2, <2>3 DEF DmaInv
<1>9. CASE CloseClock
  <2>0. fileClocks'[Dma] = {}
    BY <1>9 DEF CloseClock, CloseClocks, IInv, ClocksInv, ClocksTypeOK
  <2>1. LeaseInv'  BY <1>9, <2>0 DEF CloseClock, LeaseInv
  <2>2. EngineInv'  BY <1>9 DEF CloseClock, EngineInv
  <2>3. HonestInv'  BY <1>9 DEF CloseClock, HonestInv
  <2> QED BY <1>a, <2>1, <2>2, <2>3 DEF DmaInv
<1>10. CASE CopyBegin
  <2>1. LeaseInv'  BY <1>10 DEF CopyBegin, DmaBegin, LeaseInv
  <2>2. EngineInv'  BY <1>10 DEF CopyBegin, DmaBegin, EngineInv
  <2>3. HonestInv'  BY <1>10 DEF CopyBegin, DmaBegin, HonestInv
  <2> QED BY <1>a, <2>1, <2>2, <2>3 DEF DmaInv
<1>11. CASE CopyCheck
  <2>1. LeaseInv'  BY <1>11 DEF CopyCheck, Verdict, LeaseInv
  <2>2. EngineInv'  BY <1>11 DEF CopyCheck, Verdict, EngineInv
  <2>3. HonestInv'  BY <1>11 DEF CopyCheck, Verdict, HonestInv
  <2> QED BY <1>a, <2>1, <2>2, <2>3 DEF DmaInv
<1>12. CASE CopyWait
  <2>1. LeaseInv'  BY <1>12 DEF CopyWait, LeaseInv
  <2>2. EngineInv'  BY <1>12 DEF CopyWait, EngineInv
  <2>3. HonestInv'  BY <1>12 DEF CopyWait, HonestInv
  <2> QED BY <1>a, <2>1, <2>2, <2>3 DEF DmaInv
<1>13. CASE CopyMask
  <2>1. LeaseInv'  BY <1>13 DEF CopyMask, LeaseInv
  <2>2. EngineInv'  BY <1>13 DEF CopyMask, EngineInv
  <2>3. HonestInv'  BY <1>13 DEF CopyMask, HonestInv
  <2> QED BY <1>a, <2>1, <2>2, <2>3 DEF DmaInv
<1>14. CASE Halt
  <2>1. LeaseInv'  BY <1>14 DEF Halt, Halted, CopyHalted, StopHalted, LeaseInv
  <2>2. EngineInv'  BY <1>14 DEF Halt, Halted, CopyHalted, StopHalted, EngineInv
  <2>3. HonestInv'  BY <1>14 DEF Halt, Halted, CopyHalted, StopHalted, HonestInv
  <2> QED BY <1>a, <2>1, <2>2, <2>3 DEF DmaInv
<1>15. CASE Reset
  <2>1. LeaseInv'  BY <1>15 DEF Reset, Halted, CopyHalted, StopHalted, LeaseInv
  <2>2. EngineInv'
    <3>1. /\ at = "reset" /\ at' \in {"idle", "unroute"}
          /\ UNCHANGED <<buf, alloc, engineBuf>>
      BY <1>15 DEF Reset, Halted, CopyHalted, StopHalted
    <3>2. ~engine' \/ (engine' = engine /\ unsafe')
      BY <1>15 DEF Reset, Halted, CopyHalted, StopHalted
    <3> QED BY <3>1, <3>2 DEF EngineInv
  <2>3. HonestInv'  BY <1>15 DEF Reset, Halted, CopyHalted, StopHalted, HonestInv
  <2> QED BY <1>a, <2>1, <2>2, <2>3 DEF DmaInv
<1>16. CASE EngineEnds
  <2>1. LeaseInv'  BY <1>16 DEF EngineEnds, LeaseInv
  <2>2. EngineInv'  BY <1>16 DEF EngineEnds, EngineInv
  <2>3. HonestInv'  BY <1>16 DEF EngineEnds, HonestInv
  <2> QED BY <1>a, <2>1, <2>2, <2>3 DEF DmaInv
<1>17. CASE DmaIsr
  <2>1. LeaseInv'  BY <1>17 DEF DmaIsr, LeaseInv
  <2>2. EngineInv'  BY <1>17 DEF DmaIsr, EngineInv
  <2>3. HonestInv'  BY <1>17 DEF DmaIsr, HonestInv
  <2> QED BY <1>a, <2>1, <2>2, <2>3 DEF DmaInv
<1>18. CASE DmaDpc
  <2>1. LeaseInv'  BY <1>18 DEF DmaDpc, LeaseInv
  <2>2. EngineInv'  BY <1>18 DEF DmaDpc, EngineInv
  <2>3. HonestInv'  BY <1>18 DEF DmaDpc, HonestInv
  <2> QED BY <1>a, <2>1, <2>2, <2>3 DEF DmaInv
<1>19. CASE OtherClient \/ ProvidersPnp
  <2>1. fileRoutes'[Dma] = fileRoutes[Dma] /\ fileClocks'[Dma] = fileClocks[Dma]
    BY <1>19, OthersKeep
  <2>2. UNCHANGED dmaVars
    BY <1>19, OthersKeep
  <2> QED BY <2>1, <2>2 DEF DmaInv, DmaTypeOK, LeaseInv, EngineInv, HonestInv
<1> QED BY <1>1, <1>2, <1>3, <1>4, <1>5, <1>6, <1>7, <1>8, <1>9, <1>10, <1>11, <1>12, <1>13,
           <1>14, <1>15, <1>16, <1>17, <1>18, <1>19 DEF Next, DmaPnp, Copy

-------------------------------------------------------------------------------
\* The invariant holds throughout.
THEOREM Invariance == Spec => []IInv
<1>1. IInv /\ [Next]_vars => IInv'
  <2> SUFFICES ASSUME IInv, [Next]_vars PROVE IInv'
    OBVIOUS
  <2>1. CASE Next  BY <2>1, ProvidersStep, DmaStep DEF IInv
  <2>2. CASE UNCHANGED vars
    <3>1. RoutesInv'
      BY <2>2 DEF IInv, vars, routeVars, RoutesInv, RoutesTypeOK, RoutesFollowLeases
    <3>2. ClocksInv'
      BY <2>2 DEF IInv, vars, clockVars, ClocksInv, ClocksTypeOK, ClocksAsFound, ClockMemory
    <3>3. DmaInv'
      BY <2>2 DEF IInv, vars, routeVars, clockVars, dmaVars, ctxVars, irqVars, reqVars, hwVars,
         DmaInv, DmaTypeOK, LeaseInv, EngineInv, HonestInv
    <3> QED BY <3>1, <3>2, <3>3 DEF IInv
  <2> QED BY <2>1, <2>2
<1> QED BY <1>1, Initially, PTL DEF Spec

\* Type correctness of the three modules.
THEOREM TypeCorrect == Spec => []TypeOK
<1>1. IInv => TypeOK
  BY DEF IInv, RoutesInv, ClocksInv, DmaInv, TypeOK
<1> QED BY <1>1, Invariance, PTL

\* Rp1Start, Rp1Stop, Rp1Cleanup, Rp1Io: routes are on for their leases, for any clients.
THEOREM RoutesFollowLeasesHolds == Spec => []RoutesFollowLeases
<1>1. IInv => RoutesFollowLeases
  BY DEF IInv, RoutesInv
<1> QED BY <1>1, Invariance, PTL

\* ClockStart, ClockStop, ClockCleanup, ClockIo: clocks without users are as found.
THEOREM ClocksAsFoundHolds == Spec => []ClocksAsFound
<1>1. IInv => ClocksAsFound
  BY DEF IInv, ClocksInv
<1> QED BY <1>1, Invariance, PTL

\* DmaStop, DmaRelease: no buffer is given back under a running engine.
THEOREM EngineKeepsBufferHolds == Spec => []EngineKeepsBuffer
<1>1. IInv => EngineKeepsBuffer
  BY DEF IInv, DmaInv, EngineInv, EngineKeepsBuffer
<1> QED BY <1>1, Invariance, PTL

\* Copy: what is reported as copied was copied.
THEOREM CopyIsHonestHolds == Spec => []CopyIsHonest
<1>1. IInv => CopyIsHonest
  BY DEF IInv, DmaInv, HonestInv, CopyIsHonest
<1> QED BY <1>1, Invariance, PTL

\* DmaStart, DmaStop: a device that is not started holds nothing.
THEOREM LeasesReturnedHolds == Spec => []LeasesReturned
<1>1. IInv => LeasesReturned
  BY DEF IInv, DmaInv, LeaseInv, LeasesReturned, Returned
<1> QED BY <1>1, Invariance, PTL
===============================================================================

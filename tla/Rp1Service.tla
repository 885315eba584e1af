------------------------------ MODULE Rp1Service ------------------------------
(***************************************************************************)
(* The interrupt router of RP1 (src/rp1-service): kernel clients lease     *)
(* interrupt routes through file objects.  A route that something else has *)
(* enabled is never leased; the leased ones are off while the service is   *)
(* stopped.  The module has no Next of its own: its clients extend it.     *)
(***************************************************************************)
EXTENDS Rp1Files

CONSTANTS
  Sources,   \* interrupt sources of RP1
  Leasable   \* the ones that Allowed lets a client have

ASSUME RoutesAssumption == Leasable \subseteq Sources

VARIABLES
  route,        \* the sources that are enabled in the router
  routeOwned,   \* RP1_CONTEXT.Owned
  fileRoutes,   \* RP1_FILE.Owned
  routesOnline, \* RP1_CONTEXT.Online
  routesPnp,    \* one of PnpStates
  bootRoutes    \* the sources that firmware or another driver enabled

routeVars == <<route, routeOwned, fileRoutes, routesOnline, routesPnp, bootRoutes>>

RoutesTypeOK ==
  /\ {route, routeOwned, bootRoutes} \subseteq SUBSET Sources
  /\ fileRoutes \in [Clients -> SUBSET Sources]
  /\ routesOnline \in BOOLEAN
  /\ routesPnp \in PnpStates

RoutesInit ==
  /\ bootRoutes \in SUBSET Sources /\ route = bootRoutes
  /\ routeOwned = {} /\ fileRoutes = [f \in Clients |-> {}]
  /\ routesOnline = FALSE /\ routesPnp = "released"

\* A new device, or the same one with other resources.  QueryRemove and QueryStop keep
\* the context while a route is owned; after a surprise removal the name stays taken
\* until the last client has closed its file.
Rp1Prepare ==
  /\ routesPnp = "released" /\ routeOwned = {}
  /\ routesPnp' = "prepared"
  /\ UNCHANGED <<route, routeOwned, fileRoutes, routesOnline, bootRoutes>>

Rp1Release ==
  /\ routesPnp = "prepared" /\ routesPnp' = "released"
  /\ UNCHANGED <<route, routeOwned, fileRoutes, routesOnline, bootRoutes>>

\* Mutant: the clients are forgotten over a stop.
Rp1Start_Cold ==
  /\ routesPnp = "prepared" /\ routesPnp' = "d0"
  /\ routesOnline' = TRUE
  /\ UNCHANGED <<route, routeOwned, fileRoutes, bootRoutes>>

\* D0Entry.
Rp1Start ==
  /\ routesPnp = "prepared" /\ routesPnp' = "d0"
  /\ routesOnline' = TRUE /\ route' = route \cup routeOwned
  /\ UNCHANGED <<routeOwned, fileRoutes, bootRoutes>>

\* D0Exit: the machine sleeps, or the device is removed, with or without a query.
Rp1Stop ==
  /\ routesPnp = "d0" /\ routesPnp' = "prepared"
  /\ routesOnline' = FALSE /\ route' = route \ routeOwned
  /\ UNCHANGED <<routeOwned, fileRoutes, bootRoutes>>

\* IOCTL_RP1_ACQUIRE_IRQ grants source s.
RouteFree(s) == routesOnline /\ s \in Leasable /\ s \notin routeOwned /\ s \notin route

AcquireRoute(f, s) ==
  /\ RouteFree(s)
  /\ fileRoutes' = [fileRoutes EXCEPT ![f] = @ \cup {s}]
  /\ routeOwned' = routeOwned \cup {s}
  /\ route' = route \cup {s}
  /\ UNCHANGED <<routesOnline, routesPnp, bootRoutes>>

\* Rp1Cleanup.
CloseRoutes(f) ==
  /\ route' = IF routesOnline THEN route \ fileRoutes[f] ELSE route
  /\ routeOwned' = routeOwned \ fileRoutes[f]
  /\ fileRoutes' = [fileRoutes EXCEPT ![f] = {}]
  /\ UNCHANGED <<routesOnline, routesPnp, bootRoutes>>

RoutesPnp == Rp1Prepare \/ Rp1Release \/ Rp1Start \/ Rp1Stop

-------------------------------------------------------------------------------
\* A route is on while it is leased and the service runs, or if it was on before; no
\* two files have the same one (Rp1Start, Rp1Stop, Rp1Cleanup, Rp1Io).
RoutesFollowLeases ==
  /\ route = bootRoutes \cup (IF routesOnline THEN routeOwned ELSE {})
  /\ routeOwned \cap bootRoutes = {}
  /\ routeOwned = UNION {fileRoutes[f] : f \in Clients}
  /\ \A f, g \in Clients : f # g => fileRoutes[f] \cap fileRoutes[g] = {}
===============================================================================

------------------------------- MODULE Rp1Files -------------------------------
(* What the providers of RP1 (src/rp1-service, src/rp1-clocks) share: clients *)
(* that hold their leases through file objects, and the PnP states between    *)
(* the framework's calls of a provider.                                       *)
EXTENDS Integers, FiniteSets

CONSTANT Clients   \* file objects that kernel drivers open

ASSUME ClientsAssumption == IsFiniteSet(Clients)

\* Without resources, with its registers mapped, and working.
PnpStates == {"released", "prepared", "d0"}
===============================================================================

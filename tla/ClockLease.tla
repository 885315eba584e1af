------------------------------ MODULE ClockLease ------------------------------
(***************************************************************************)
(* What the clock provider promises the users of the V3D clock, without    *)
(* its mailbox: one user at a time, who may change the clock; a clock that *)
(* is returned is back at what it was; and once there is a doubt about the *)
(* clock, nobody gets it or changes it until the device is replaced.       *)
(***************************************************************************)
CONSTANTS
  Users,    \* who may hold the lease
  Nobody    \* not one of them

VARIABLES
  user,     \* who holds the lease
  dirty,    \* the user asked for a change of the clock
  doubt     \* the state of the clock or of its lease is unknown

vars == <<user, dirty, doubt>>

TypeOK == user \in Users \union {Nobody} /\ dirty \in BOOLEAN /\ doubt \in BOOLEAN

Init == user = Nobody /\ dirty = FALSE /\ doubt = FALSE

Grant(u) ==
  /\ user = Nobody /\ ~doubt /\ user' = u
  /\ dirty' = FALSE /\ UNCHANGED doubt

Change ==
  /\ user # Nobody /\ ~doubt /\ dirty' = TRUE
  /\ UNCHANGED <<user, doubt>>

\* The clock is put back before its user is let go.
Return ==
  /\ user # Nobody /\ ~doubt
  /\ user' = Nobody /\ dirty' = FALSE /\ UNCHANGED doubt

\* A user that disappears returns nothing.
Vanish ==
  /\ user # Nobody /\ user' = Nobody
  /\ doubt' = TRUE /\ UNCHANGED dirty

Doubt == doubt' = TRUE /\ UNCHANGED <<user, dirty>>

\* A new device starts from a clean slate, once no user is left.
Replace == user = Nobody /\ UNCHANGED user /\ dirty' = FALSE /\ doubt' = FALSE

Next == (\E u \in Users : Grant(u)) \/ Change \/ Return \/ Vanish \/ Doubt \/ Replace

Spec == Init /\ [][Next]_vars
===============================================================================

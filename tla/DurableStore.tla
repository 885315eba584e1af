----------------------------- MODULE DurableStore -----------------------------
(***************************************************************************)
(* What file-backed UEFI variables promise: the store has a current        *)
(* revision, and there is always one durable revision that a machine can   *)
(* start from.  It only moves forward, never past what the firmware wrote, *)
(* and losing power loses at most the changes that came after it.          *)
(***************************************************************************)
EXTENDS Naturals

VARIABLES
  durable,  \* the revision a restart is sure to find
  current   \* the revision the running firmware has

vars == <<durable, current>>

Init == durable \in Nat \ {0} /\ current = durable

\* A variable is written.
Change == current' = current + 1 /\ UNCHANGED durable

\* The files catch up, as far as they like.
Persist ==
  /\ durable' \in (durable + 1)..current
  /\ UNCHANGED current

\* Power is lost; what was on its way may have arrived.
Crash ==
  /\ durable' \in durable..current
  /\ current' = durable'

Next == Change \/ Persist \/ Crash

Spec == Init /\ [][Next]_vars
===============================================================================

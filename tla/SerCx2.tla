--------------------------------- MODULE SerCx2 --------------------------------
(***************************************************************************)
(* The hand-off of notifications between a serial controller driver and    *)
(* SerCx2, as src/rp1-uart and src/bcm2712-uart both write it.  SerCx2     *)
(* enables a notification; the driver's ISR, DPC, timer and cancel         *)
(* routines run on several processors and must agree on who answers it:    *)
(* a cancel that returns TRUE, or one later call of the framework.         *)
(***************************************************************************)
EXTENDS Integers, FiniteSets

CONSTANTS
  Cpus    \* the processors that may run the DPC at the same time

Kinds == {"rx", "tx"}

VARIABLES
  online,     \* c->Online
  open,       \* c->Open
  owed,       \* SerCx2: the notifications it has enabled and waits for
  armed,      \* c->RxArmed, c->TxArmed as a set
  pending,    \* c->RxPending, c->TxPending as a set
  queued,     \* the DPC is queued
  committed   \* per processor: what its DPC will announce, its lock released

sercx == <<owed, armed, pending, queued, committed>>

SerCxTypeOK ==
  /\ online \in BOOLEAN /\ open \in BOOLEAN /\ queued \in BOOLEAN
  /\ owed \subseteq Kinds \union {"drain", "purge"}
  /\ armed \subseteq Kinds /\ pending \subseteq Kinds
  /\ committed \in [Cpus -> SUBSET (Kinds \union {"quirk", "running"})]

SerCxInit ==
  /\ online = FALSE /\ open = FALSE /\ owed = {}
  /\ armed = {} /\ pending = {} /\ queued = FALSE
  /\ committed = [cpu \in Cpus |-> {}]

\* SerCx2 enables k; the condition it waits for may already hold.
Enable(k, now) ==
  /\ online /\ open /\ k \notin owed
  /\ owed' = owed \union {k} /\ armed' = armed \union {k}
  /\ pending' = IF now THEN pending \union {k} ELSE pending
  /\ queued' = (queued \/ now)
  /\ UNCHANGED committed

\* SerCx2 takes k back.  FALSE means that a DPC has it: SerCx2 waits on.
Cancel(k) ==
  /\ k \in owed
  /\ owed' = IF k \in armed THEN owed \ {k} ELSE owed
  /\ armed' = armed \ {k} /\ pending' = pending \ {k}
  /\ UNCHANGED <<queued, committed>>

\* Mutant: what the DPC takes stays armed, so that a cancel takes it back as well.
Commit_KeepsArmed(cpu, quirk) ==
  /\ queued /\ committed[cpu] = {}
  /\ queued' = FALSE /\ pending' = pending \ armed
  /\ committed' = [committed EXCEPT ![cpu] =
       (armed \intersect pending) \union {"running"} \union (IF quirk THEN {"quirk"} ELSE {})]
  /\ UNCHANGED <<owed, armed>>

\* The DPC under the lock: it takes what is armed and pending.
Commit(cpu, quirk) ==
  /\ queued /\ committed[cpu] = {}
  /\ queued' = FALSE
  /\ LET taken == armed \intersect pending
     IN  /\ armed' = armed \ taken /\ pending' = pending \ taken
         /\ committed' = [committed EXCEPT ![cpu] =
              taken \union {"running"} \union (IF quirk THEN {"quirk"} ELSE {})]
  /\ UNCHANGED owed

\* The DPC after the lock: receive before transmit, one call at a time.
Announce(cpu, k) ==
  /\ k \in committed[cpu] /\ "quirk" \notin committed[cpu]
  /\ k = "tx" => "rx" \notin committed[cpu]
  /\ committed' = [committed EXCEPT ![cpu] = @ \ {k}]
  /\ owed' = owed \ {k}
  /\ UNCHANGED <<armed, pending, queued>>

DpcEnds(cpu) ==
  /\ committed[cpu] = {"running"}
  /\ committed' = [committed EXCEPT ![cpu] = {}]
  /\ UNCHANGED <<owed, armed, pending, queued>>

\* The framework disconnects the interrupt and flushes its DPC before D0Exit.
Flushed == ~queued /\ \A cpu \in Cpus : committed[cpu] = {}

\* Open forgets everything; the framework opens only with nothing owed.
Forget == armed' = {} /\ pending' = {} /\ UNCHANGED <<owed, queued, committed>>

\* Who answers for k: the flag, and every DPC that has taken it.
Holders(k) == Cardinality({cpu \in Cpus : k \in committed[cpu]}) +
              (IF k \in armed THEN 1 ELSE 0)
===============================================================================

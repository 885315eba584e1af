----------------------------- MODULE MbxTransport -----------------------------
(***************************************************************************)
(* One property exchange with the firmware (MbxTransfer in                 *)
(* src/pi5-mailbox/mailbox.c): the driver writes a request into the DMA    *)
(* buffer, posts the buffer's address to the firmware's FIFO and polls its *)
(* own FIFO until a reply or a deadline.  The firmware works in the buffer *)
(* concurrently.  Every request posts the same word, so a late reply looks *)
(* exactly like the reply to the next request; requests are numbered here  *)
(* to tell them apart, and the code cannot see the numbers.                *)
(***************************************************************************)
EXTENDS Naturals, Sequences

CONSTANTS
  MaxRequests,   \* bound: how many exchanges are started
  MaxForeign     \* bound: how many words of other owners arrive

VARIABLES
  pc,        \* "idle", "post", "wait" or "check": where MbxTransfer is
  seq,       \* history: number of the current or last exchange
  fault,     \* t->Fault
  unsafe,    \* t->Unsafe
  buffer,    \* "held" or "freed": Release may free it
  request,   \* number of the request that is in the buffer, 0 once answered
  reply,     \* what the firmware wrote: the request it answers and a kind
  tx,        \* external: words in the firmware's FIFO
  working,   \* external: number of the request the firmware works on, or 0
  rx,        \* external: words in the driver's FIFO, "own" or "foreign"
  strangers, \* history: foreign words so far
  result     \* history: exchange, answered request and status of the last return

driver   == <<pc, seq, fault, unsafe, result>>
firmware == <<tx, working, rx, strangers>>
vars     == <<driver, buffer, request, reply, firmware>>

NoReply == [of |-> 0, kind |-> "none"]
Kinds == {"ok", "error", "malformed"}
Numbers == 0..MaxRequests

TypeOK ==
  /\ pc \in {"idle", "post", "wait", "check"} /\ seq \in Numbers
  /\ fault \in BOOLEAN /\ unsafe \in BOOLEAN /\ buffer \in {"held", "freed"}
  /\ request \in Numbers
  /\ reply.of \in Numbers /\ reply.kind \in Kinds \union {"none"}
  /\ tx \in Seq({"own"}) /\ rx \in Seq({"own", "foreign"})
  /\ working \in Numbers /\ strangers \in 0..MaxForeign
  /\ result.seq \in Numbers /\ result.of \in Numbers
  /\ result.status \in {"none", "ok", "error", "fatal"}

-------------------------------------------------------------------------------
(* The driver.                                                              *)

Return(n, status, of) ==
  /\ pc' = "idle"
  /\ result' = [seq |-> n, of |-> of, status |-> status]

\* Fail with fatal set: the transport is latched.
Fatal(n) == fault' = TRUE /\ Return(n, "fatal", 0)

Usable == ~fault /\ ~unsafe

\* Entry: a latched transport refuses.  A word in the driver's FIFO is somebody
\* else's, and the firmware's FIFO may stay full of other owners' words until the
\* deadline: both are fatal.  The request is written only after both were usable.
Start ==
  /\ pc = "idle" /\ Usable /\ buffer = "held"
  /\ seq < MaxRequests /\ seq' = seq + 1
  /\ \/ Fatal(seq') /\ UNCHANGED <<request, reply>>
     \/ /\ rx = <<>>
        /\ pc' = "post" /\ request' = seq' /\ reply' = NoReply
        /\ UNCHANGED <<fault, result>>
  /\ UNCHANGED <<unsafe, buffer, firmware>>

Post ==
  /\ pc = "post" /\ pc' = "wait"
  /\ unsafe' = TRUE
  /\ tx' = Append(tx, "own")
  /\ UNCHANGED <<seq, fault, buffer, request, reply, working, rx, strangers, result>>

\* The oldest word is taken; only the expected word hands the buffer back.
Poll ==
  /\ pc = "wait" /\ rx # <<>>
  /\ rx' = Tail(rx)
  /\ \/ Head(rx) = "own" /\ unsafe' = FALSE /\ pc' = "check" /\ UNCHANGED <<fault, result>>
     \/ Head(rx) = "foreign" /\ Fatal(seq) /\ UNCHANGED unsafe
  /\ UNCHANGED <<seq, buffer, request, reply, tx, working, strangers>>

\* Mutant: the loop has no deadline.
Timeout_Never == FALSE

\* The deadline passes on an empty FIFO; firmware may still answer later.
Timeout ==
  /\ pc = "wait" /\ rx = <<>>
  /\ Fatal(seq)
  /\ UNCHANGED <<seq, unsafe, buffer, request, reply, firmware>>

Check ==
  /\ pc = "check"
  /\ \/ reply.kind = "ok" /\ Return(seq, "ok", reply.of) /\ UNCHANGED fault
     \/ reply.kind = "error" /\ Return(seq, "error", reply.of) /\ UNCHANGED fault
     \/ reply.kind \in {"malformed", "none"} /\ Fatal(seq)
  /\ UNCHANGED <<seq, unsafe, buffer, request, reply, firmware>>

\* The provider's Release runs under the lock, so never inside an exchange.
Release ==
  /\ pc = "idle" /\ buffer = "held" /\ ~unsafe
  /\ buffer' = "freed"
  /\ UNCHANGED <<driver, request, reply, firmware>>

-------------------------------------------------------------------------------
(* The firmware, and other owners of the channel.                           *)

Take ==
  /\ tx # <<>> /\ working = 0
  /\ tx' = Tail(tx) /\ working' = request
  /\ UNCHANGED <<driver, buffer, request, reply, rx, strangers>>

Answer ==
  /\ working # 0
  /\ \E kind \in Kinds : reply' = [of |-> working, kind |-> kind]
  /\ rx' = Append(rx, "own") /\ working' = 0 /\ request' = 0
  /\ UNCHANGED <<driver, buffer, tx, strangers>>

Foreign ==
  /\ strangers < MaxForeign
  /\ strangers' = strangers + 1 /\ rx' = Append(rx, "foreign")
  /\ UNCHANGED <<driver, buffer, request, reply, tx, working>>

Init ==
  /\ pc = "idle" /\ seq = 0 /\ fault = FALSE /\ unsafe = FALSE
  /\ buffer = "held" /\ request = 0 /\ reply = NoReply
  /\ tx = <<>> /\ working = 0 /\ rx = <<>> /\ strangers = 0
  /\ result = [seq |-> 0, of |-> 0, status |-> "none"]

Driver == Start \/ Post \/ Poll \/ Timeout \/ Check
Next == Driver \/ Release \/ Take \/ Answer \/ Foreign

Spec == Init /\ [][Next]_vars

\* The polling loop is bounded by the clock; firmware is not assumed to answer.
FairSpec == Spec /\ WF_vars(Post \/ Poll \/ Timeout \/ Check)

-------------------------------------------------------------------------------
(* Properties.                                                              *)

\* An exchange returns its own answer: the reply to an exchange that was given up
\* is never taken for the reply to a later one, though the words are the same.
OwnAnswer == result.status \in {"ok", "error"} => result.of = result.seq

===============================================================================

------------------------------- MODULE Bluetooth -------------------------------
(***************************************************************************)
(* cyw-bluetooth: the bus driver of the Bluetooth controller.  One         *)
(* framework thread brings the controller up and down (Fdo.c, device.c);   *)
(* the read pump (io.c) keeps one read at the UART, whose completion       *)
(* routine, on any processor, rebuilds packets and sends the next read;    *)
(* the threads of BthMini ask for packets.  Packets of one type stand for  *)
(* both; a read completes a packet or a part of one.                       *)
(***************************************************************************)
EXTENDS Integers, FiniteSets

CONSTANTS
  Threads,   \* processors, and among them
  Pnp,       \*   the framework's thread
  Readers,   \* threads of BthMini
  Waiting,   \* read requests BthMini keeps
  Limit      \* packets kept for it (256)

VARIABLES
  call, step,     \* the framework's call into the driver, and where it is
  init, ready,    \* SelfManagedIoInit was called; DeviceInitialized
  doomed,         \* the device failed or is to be removed
  child,          \* the Bluetooth function was added
  rts, host,      \* the UART: RTS follows its buffer (or is high), and the fast baud rate
  chip, build,    \* the controller, and BtBuild: the patch it was found with
  target, read,   \* the UART as an I/O target, and the pump's read at it
  pc, prev,       \* the threads in the pump, and the state the completion routine found
  nested,         \* threads whose completion routine runs inside their own send
  state, status,  \* RequestState, and whether ReadContext.Status is a success
  running,        \* ReadPumpRunning
  reader,         \* BthMini's threads
  list, queue     \* packets and requests that wait

startup == <<rts, host, chip, build, ready, child>>
pump    == <<target, read, pc, prev, nested, state, status, running>>
hci     == <<reader, list, queue>>
vars    == <<call, step, init, doomed, startup, pump, hci>>

OffChip == [mode |-> "off", patched |-> FALSE, fast |-> FALSE, named |-> FALSE]

Steps == {"idle", "flow", "low", "high", "rts", "identity", "serial", "reset", "verbose", "name",
          "download", "launch", "address", "baud", "switch", "verify", "children", "discard",
          "allocate", "pump", "stop", "close"}

Init ==
  /\ call = "removed" /\ step = "idle" /\ init = FALSE /\ ready = FALSE /\ doomed = FALSE
  /\ child = FALSE /\ rts = FALSE /\ host = FALSE /\ chip = OffChip /\ build = FALSE
  /\ target = "closed" /\ read = "none" /\ pc = [t \in Threads |-> "idle"]
  /\ prev = [t \in Threads |-> "COMPLETE"] /\ nested = {} /\ state = "COMPLETE"
  /\ status = TRUE /\ running = FALSE
  /\ reader = [r \in Readers |-> "idle"] /\ list = 0 /\ queue = 0

TypeOK ==
  /\ call \in {"removed", "prepare", "prepared", "entry", "init", "d0", "exit", "dx", "release"}
  /\ step \in Steps /\ init \in BOOLEAN /\ ready \in BOOLEAN /\ doomed \in BOOLEAN
  /\ child \in BOOLEAN /\ rts \in BOOLEAN /\ host \in BOOLEAN /\ build \in BOOLEAN
  /\ chip \in [mode : {"off", "recovery", "ok"}, patched : BOOLEAN, fast : BOOLEAN,
               named : BOOLEAN]
  /\ target \in {"closed", "started", "stopped"} /\ read \in {"none", "held", "pended"}
  /\ pc \in [Threads -> {"idle", "failed", "check", "send", "cas", "parse", "answer",
                     "after"}]
  /\ prev \in [Threads -> {"SENT", "PENDING", "COMPLETE"}] /\ nested \subseteq Threads
  /\ state \in {"SENT", "PENDING", "COMPLETE"} /\ status \in BOOLEAN /\ running \in BOOLEAN
  /\ reader \in [Readers -> {"idle", "match", "answer"}]
  /\ list \in 0 .. Limit /\ queue \in 0 .. Waiting

At(c, s) == call \in c /\ step = s

Go(s) == step' = s /\ UNCHANGED <<call, init, doomed>>
--------------------------------------------------------------------------------
(* DeviceEnable: the controller's CTS must be high when BT_REG_ON rises. *)

EnableFlow ==
  /\ step = "flow" /\ rts' = FALSE /\ Go("low")
  /\ UNCHANGED <<host, chip, build, ready, child, pump, hci>>

\* Powering off ends here: the controller is off after D0Exit and after the release.
EnableLow ==
  /\ step = "low" /\ chip' = OffChip
  /\ IF call \in {"prepare", "entry"} THEN Go("high")
     ELSE /\ step' = "idle" /\ call' = (IF call = "exit" THEN "dx" ELSE "removed")
          /\ doomed' = (doomed /\ call = "exit")
          /\ init' = (init /\ call = "exit")
  /\ IF call = "release" THEN list' = 0 /\ queue' = 0 ELSE UNCHANGED <<list, queue>>
  /\ UNCHANGED <<rts, host, build, ready, child, pump, reader>>

\* A controller that sees its CTS low starts in the ROM's recovery mode; one may come up
\* with a patch.
EnableHigh ==
  /\ step = "high" /\ Go("rts")
  /\ \E patched \in BOOLEAN :
       chip' = [OffChip EXCEPT !.mode = IF rts THEN "recovery" ELSE "ok", !.patched = patched]
  /\ UNCHANGED <<rts, host, build, ready, child, pump, hci>>

EnableRts ==
  /\ step = "rts" /\ rts' = TRUE /\ Go("identity")
  /\ UNCHANGED <<host, chip, build, ready, child, pump, hci>>
--------------------------------------------------------------------------------
(* DeviceInitialize: one command at a time, each with its answer, and no read pump. *)

\* A command is answered in time and at the same baud rate, and nobody else reads.
Answers(command) ==
  /\ chip.mode = "ok" \/ (chip.mode = "recovery" /\ command = "reset")
  /\ host = chip.fast /\ read # "held"

Identity ==
  /\ step = "identity" /\ Go("serial") /\ UNCHANGED <<startup, pump, hci>>

Serial ==
  /\ step = "serial" /\ host' = FALSE /\ rts' = TRUE /\ Go("reset")
  /\ UNCHANGED <<chip, build, ready, child, pump, hci>>

Reset ==
  /\ step = "reset" /\ Answers("reset") /\ Go("verbose") /\ UNCHANGED <<startup, pump, hci>>

Verbose ==
  /\ step = "verbose" /\ Answers("verbose") /\ build' = chip.patched /\ Go("name")
  /\ UNCHANGED <<rts, host, chip, ready, child, pump, hci>>

Name ==
  /\ step = "name" /\ Answers("name") /\ Go(IF build THEN "address" ELSE "download")
  /\ UNCHANGED <<startup, pump, hci>>

\* The records are all acknowledged; the image may not start all the same.
Download ==
  /\ step = "download" /\ Answers("download") /\ Go("launch")
  /\ \E patched \in BOOLEAN : chip' = [chip EXCEPT !.patched = patched]
  /\ UNCHANGED <<rts, host, build, ready, child, pump, hci>>

\* Mutant: the launch is taken for granted.
Launched_Trusted == TRUE

\* Read Verbose Config after the launch must name a build.
Launched == chip.patched

Launch ==
  /\ step = "launch" /\ Answers("verbose") /\ Launched /\ build' = TRUE /\ Go("address")
  /\ UNCHANGED <<rts, host, chip, ready, child, pump, hci>>

\* The address is set and read back.
Address ==
  /\ step = "address" /\ Answers("address") /\ chip' = [chip EXCEPT !.named = TRUE]
  /\ Go("baud") /\ UNCHANGED <<rts, host, build, ready, child, pump, hci>>

\* The controller acknowledges the new rate and then changes to it, or does not.
Baud ==
  /\ step = "baud" /\ Answers("baud") /\ Go("switch")
  /\ \E fast \in BOOLEAN : chip' = [chip EXCEPT !.fast = fast]
  /\ UNCHANGED <<rts, host, build, ready, child, pump, hci>>

Switch ==
  /\ step = "switch" /\ host' = TRUE /\ Go("verify")
  /\ UNCHANGED <<rts, chip, build, ready, child, pump, hci>>

Verify ==
  /\ step = "verify" /\ Answers("address") /\ ready' = TRUE
  /\ Go(IF call = "prepare" THEN "children" ELSE "discard")
  /\ UNCHANGED <<rts, host, chip, build, child, pump, hci>>
--------------------------------------------------------------------------------
(* The framework's calls. *)

FdoDevPrepareHardware ==
  /\ call = "removed" /\ call' = "prepare" /\ step' = "flow" /\ target' = "started"
  /\ UNCHANGED <<init, doomed, startup, read, pc, prev, nested, state, status, running, hci>>

FdoCreateAllChildren ==
  /\ At({"prepare"}, "children") /\ child' = TRUE /\ call' = "prepared" /\ step' = "idle"
  /\ UNCHANGED <<init, doomed, rts, host, chip, build, ready, pump, hci>>

\* The first entry finds the controller ready; a later one starts it again.
FdoDevD0Entry ==
  /\ step = "idle" /\ ~doomed
  /\ \/ call = "prepared" /\ call' = "init" /\ step' = "allocate" /\ UNCHANGED <<target, read>>
     \/ /\ call = "dx" /\ call' = "entry" /\ step' = "flow" /\ target' = "started"
        /\ read' = (IF read = "pended" THEN "held" ELSE read)
  /\ UNCHANGED <<init, doomed, startup, pc, prev, nested, state, status, running, hci>>

\* FdoDevSelfManagedIoInit, and the end of a later D0Entry, which discards what is left.
StartPump ==
  /\ \/ At({"init"}, "allocate") /\ init' = TRUE /\ UNCHANGED list
     \/ At({"entry"}, "discard") /\ list' = 0 /\ UNCHANGED init
  /\ state' = "COMPLETE" /\ status' = TRUE /\ running' = TRUE /\ step' = "pump"
  /\ pc' = [pc EXCEPT ![Pnp] = "check"]
  /\ UNCHANGED <<call, doomed, startup, target, read, prev, nested, reader, queue>>

\* The first ReadH4Packet came back.  An error fails the call: a failed start of the pump
\* leads to a D0Exit, a failed D0Entry to the release.
PumpStarted ==
  /\ At({"init", "entry"}, "pump") /\ pc[Pnp] \in {"idle", "failed"}
  /\ pc' = [pc EXCEPT ![Pnp] = "idle"]
  /\ IF pc[Pnp] = "failed" /\ call = "entry" THEN call' = "release" /\ step' = "close"
     ELSE call' = "d0" /\ step' = "idle"
  /\ doomed' = (doomed \/ pc[Pnp] = "failed")
  /\ UNCHANGED <<init, startup, target, read, prev, nested, state, status, running, hci>>

\* The queues are held first: no request is being presented.
FdoDevD0Exit ==
  /\ At({"d0"}, "idle") /\ \A r \in Readers : reader[r] = "idle"
  /\ call' = "exit" /\ step' = "stop" /\ ready' = FALSE /\ target' = "stopped"
  /\ UNCHANGED <<init, doomed, rts, host, chip, build, child, read, pc, prev, nested, state,
                 status, running, hci>>

\* WdfIoTargetStop waits for the read it cancels, and for its completion routine.
TargetStopped ==
  /\ At({"exit"}, "stop") /\ read # "held" /\ \A t \in Threads : pc[t] = "idle"
  /\ Go("low") /\ UNCHANGED <<startup, pump, hci>>

FdoDevReleaseHardware ==
  /\ \/ step = "close"
     \/ step = "idle" /\ call \in {"prepared", "dx"}
  /\ ready' = FALSE /\ child' = FALSE /\ target' = "closed" /\ read' = "none"
  /\ \A t \in Threads : pc[t] = "idle"
  /\ call' = "release" /\ step' = "low"
  /\ UNCHANGED <<init, doomed, rts, host, chip, build, pc, prev, nested, state, status, running,
                 hci>>

\* Any step of a start can fail, and the framework releases the hardware.
CallFails ==
  /\ call \in {"prepare", "entry"} /\ step \notin {"idle", "pump", "discard", "close"}
  /\ call' = "release" /\ step' = "close" /\ doomed' = TRUE
  /\ UNCHANGED <<init, startup, pump, hci>>

\* A failing D0Exit or release leaves the pin as it is.
PinFails ==
  /\ step = "low" /\ call \in {"exit", "release"}
  /\ step' = "idle" /\ call' = (IF call = "exit" THEN "dx" ELSE "removed")
  /\ doomed' = (call = "exit") /\ init' = (init /\ call = "exit")
  /\ IF call = "release" THEN list' = 0 /\ queue' = 0 ELSE UNCHANGED <<list, queue>>
  /\ UNCHANGED <<startup, pump, reader>>
--------------------------------------------------------------------------------
(* The read pump. *)

Move(t, s) == pc' = [pc EXCEPT ![t] = s]

\* ReadH4Packet gives up: the pump has stopped.
Stops(t) ==
  Move(t, IF t = Pnp THEN "failed" ELSE "idle") /\ running' = FALSE /\ status' = FALSE

\* The loop of ReadH4Packet up to the request being ready; a read still out is not reusable.
ReadH4Packet(t) ==
  /\ pc[t] = "check"
  /\ IF ready /\ read = "none"
       THEN Move(t, "send") /\ state' = "SENT" /\ UNCHANGED <<status, running>>
       ELSE Stops(t) /\ UNCHANGED state
  /\ UNCHANGED <<call, step, init, doomed, startup, target, read, prev, nested, hci>>

\* The UART keeps the read, completes it at once inside the call, or refuses it; a stopped
\* target keeps it until it starts.
Send(t) ==
  /\ pc[t] = "send"
  /\ \/ /\ target = "started" /\ read' = "held" /\ Move(t, "cas")
        /\ UNCHANGED <<prev, nested, state, status, running>>
     \/ /\ target = "stopped" /\ read' = "pended" /\ Move(t, "cas")
        /\ UNCHANGED <<prev, nested, state, status, running>>
     \/ /\ target = "started" /\ Move(t, "parse") /\ nested' = nested \union {t}
        /\ prev' = [prev EXCEPT ![t] = state] /\ state' = "COMPLETE" /\ status' = TRUE
        /\ UNCHANGED <<read, running>>
     \/ Stops(t) /\ UNCHANGED <<read, prev, nested, state>>
  /\ UNCHANGED <<call, step, init, doomed, startup, target, hci>>

\* The UART completes the read, on a processor that is free: data, an error or cancelled.
ReadH4PacketCompletionRoutine(t) ==
  /\ read = "held" /\ t # Pnp /\ pc[t] = "idle" /\ read' = "none"
  /\ state' = (IF state = "SENT" THEN "COMPLETE" ELSE state)
  /\ \/ /\ Move(t, "parse") /\ prev' = [prev EXCEPT ![t] = state] /\ status' = TRUE
        /\ UNCHANGED <<running, doomed>>
     \/ /\ status' = FALSE /\ running' = FALSE /\ doomed' = (doomed \/ ready)
        /\ UNCHANGED <<pc, prev>>
  /\ UNCHANGED <<call, step, init, startup, target, nested, hci>>

\* ReadH4PacketReassemble: a part of a packet, a whole one, or garbage.  A whole one
\* goes to ReadRequestComplete, which pairs the oldest packet and request under the lock.
Parse(t) ==
  /\ pc[t] = "parse"
  /\ \/ Move(t, "after") /\ UNCHANGED <<list, queue, status, running, doomed>>
     \/ /\ list < Limit
        /\ IF queue > 0 THEN queue' = queue - 1 /\ UNCHANGED list /\ Move(t, "answer")
           ELSE list' = list + 1 /\ UNCHANGED queue /\ Move(t, "after")
        /\ UNCHANGED <<status, running, doomed>>
     \/ /\ status' = FALSE /\ running' = FALSE /\ doomed' = (doomed \/ ready)
        /\ Move(t, IF t \in nested THEN "cas" ELSE "idle") /\ UNCHANGED <<list, queue>>
  /\ nested' = (IF pc'[t] = "cas" THEN nested \ {t} ELSE nested)
  /\ UNCHANGED <<call, step, init, startup, target, read, prev, state, reader>>

Answer(t) ==
  /\ pc[t] = "answer" /\ Move(t, "after")
  /\ UNCHANGED <<call, step, init, doomed, startup, target, read, prev, nested, state, status,
                 running, hci>>

\* A routine that found the request pending sends the next read; otherwise the sender does.
After(t) ==
  /\ pc[t] = "after"
  /\ Move(t, IF prev[t] = "PENDING" THEN "check" ELSE IF t \in nested THEN "cas" ELSE "idle")
  /\ nested' = nested \ {t}
  /\ UNCHANGED <<call, step, init, doomed, startup, target, read, prev, state, status, running,
                 hci>>

\* After the send: still out, or already completed and the loop goes on.
Sent(t) ==
  /\ pc[t] = "cas"
  /\ IF state = "SENT" THEN state' = "PENDING" /\ Move(t, "idle") /\ UNCHANGED <<status, running>>
     ELSE IF status THEN Move(t, "check") /\ UNCHANGED <<state, status, running>>
     ELSE Stops(t) /\ UNCHANGED state
  /\ UNCHANGED <<call, step, init, doomed, startup, target, read, prev, nested, hci>>
--------------------------------------------------------------------------------
(* BthMini: FdoIoQuDeviceControl for IOCTL_BTHX_READ_HCI. *)

ReadHci(r) ==
  /\ At({"d0"}, "idle") /\ init /\ reader[r] = "idle" /\ queue < Waiting /\ queue' = queue + 1
  /\ reader' = [reader EXCEPT ![r] = "match"]
  /\ UNCHANGED <<call, step, init, doomed, startup, pump, list>>

\* Mutant: only the pump looks for a pair.
Pairs_PumpOnly == FALSE

Pairs == list > 0 /\ queue > 0

\* ReadRequestComplete without a packet.
Match(r) ==
  /\ reader[r] = "match"
  /\ IF Pairs THEN /\ list' = list - 1 /\ queue' = queue - 1
                   /\ reader' = [reader EXCEPT ![r] = "answer"]
     ELSE reader' = [reader EXCEPT ![r] = "idle"] /\ UNCHANGED <<list, queue>>
  /\ UNCHANGED <<call, step, init, doomed, startup, pump>>

AnswerReader(r) ==
  /\ reader[r] = "answer" /\ reader' = [reader EXCEPT ![r] = "idle"]
  /\ UNCHANGED <<call, step, init, doomed, startup, pump, list, queue>>

\* BthMini takes a request back.
CancelRead ==
  /\ queue > 0 /\ queue' = queue - 1
  /\ UNCHANGED <<call, step, init, doomed, startup, pump, reader, list>>

Next ==
  \/ EnableFlow \/ EnableLow \/ EnableHigh \/ EnableRts
  \/ Identity \/ Serial \/ Reset \/ Verbose \/ Name \/ Download \/ Launch \/ Address \/ Baud
  \/ Switch \/ Verify
  \/ FdoDevPrepareHardware \/ FdoCreateAllChildren \/ FdoDevD0Entry \/ StartPump \/ PumpStarted
  \/ FdoDevD0Exit \/ TargetStopped \/ FdoDevReleaseHardware \/ CallFails \/ PinFails
  \/ CancelRead
  \/ \E t \in Threads : \/ ReadH4Packet(t) \/ Send(t) \/ ReadH4PacketCompletionRoutine(t)
                        \/ Parse(t) \/ Answer(t) \/ After(t) \/ Sent(t)
  \/ \E r \in Readers : ReadHci(r) \/ Match(r) \/ AnswerReader(r)

Spec == Init /\ [][Next]_vars
--------------------------------------------------------------------------------
\* The controller never starts in the recovery mode, and while requests may use it it runs
\* the patched image, carries the address of the board's firmware and speaks the UART's
\* baud rate, whatever failed in this start or an earlier one (DeviceEnable,
\* DeviceInitialize).
ControllerIsReady ==
  /\ chip.mode # "recovery"
  /\ ready => chip.patched /\ chip.named /\ chip.fast = host

\* A packet and a request wait for each other only while a thread that queued a request
\* has yet to look for a pair: no packet is left behind because the pump and BthMini
\* looked at the same time (ReadRequestComplete and its two callers).
NoneStranded ==
  LET late == Cardinality({r \in Readers : reader[r] = "match"}) IN
    list <= late \/ queue <= late

\* One user of ReadBuffer and of the read context at a time: while a completion routine
\* parses, no read is at the UART and no other routine parses.  The comments of the
\* routine and of the sender say who sends the next read (io.c).
BufferHasOneUser ==
  \A t \in Threads : pc[t] = "parse" =>
    read = "none" /\ \A u \in Threads \ {t} : pc[u] # "parse"
================================================================================

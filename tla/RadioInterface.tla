--------------------------- MODULE RadioInterface ---------------------------
(***************************************************************************)
(* The one RadioClient all parts of the gateway share behind a mutex: the  *)
(* Reticulum interface that sends packets as several radio frames          *)
(* (kaonic-reticulum/src/lib.rs), the handler that stores and applies a    *)
(* module's configuration (handlers.rs put_radio, radio.rs), test frames   *)
(* and the keep-alive (main.rs); and the interface's receiving task.       *)
(*                                                                         *)
(* A packet is the number of its frames that are still to be sent.  One    *)
(* module is kept, as each has rows, hardware and frames of its own.       *)
(***************************************************************************)
EXTENDS Naturals, FiniteSets

CONSTANTS
    Settings,         \* configurations of a radio module
    Putters,          \* PUT requests of a configuration under way at a time
    Segments,         \* LDPC_SEGMENTS_PER_PACKET
    QueueSize,        \* bound: packets waiting in the interface's channel
    RxCapacity,       \* capacity of the client's broadcast of received frames
    MaxFaults,        \* bound: radio commands and saves that fail
    Nobody

ASSUME RadioAssumption ==
    /\ Segments \in Nat \ {0} /\ QueueSize \in Nat /\ RxCapacity \in Nat \ {0}
    /\ MaxFaults \in Nat /\ Settings # {}
    /\ {"interface", "boot", Nobody} \cap Putters = {} /\ Nobody \notin {"interface", "boot"}

Fields == {"radio_config", "modulation", "accelerator"}
Alike(cfg) == [f \in Fields |-> cfg]

VARIABLES
    rows,             \* per field, the configuration stored
    hardware,         \* per field, the configuration it was last given
    clientLock,       \* who has the RadioClient
    waiting,          \* packets in the interface's channel
    sending,          \* frames the packet in hand has left; 0: none in hand
    put,              \* per PUT: what it does, and with which configuration
    tester,           \* a test frame or a ping: "idle" or "wanted"
    arrived,          \* received frames the interface has not taken yet
    rxLoop,           \* "recv", or "stopped" for good
    failures,
    mixed,            \* history: a command came between two frames of a packet
    halfway,          \* history: the last application failed, was given up, or
                      \* was that of mixed rows
    last              \* history: who wrote the radio last, if no other request
                      \* met it and none of it failed or was given up

history == <<mixed, halfway, last>>
radioVars == <<rows, hardware, clientLock, waiting, sending, put, tester,
               arrived, rxLoop, failures, history>>

PutIdle == [pc |-> "idle", cfg |-> CHOOSE s \in Settings : TRUE, left |-> {}]

RadioInit ==
    /\ rows = Alike(PutIdle.cfg)
    /\ hardware = rows                          \* attach_radio_interface
    /\ clientLock = Nobody
    /\ waiting = 0 /\ sending = 0
    /\ put = [p \in Putters |-> PutIdle]
    /\ tester = "idle"
    /\ arrived = 0 /\ rxLoop = "recv"
    /\ failures = 0
    /\ mixed = FALSE /\ halfway = FALSE
    /\ last = Nobody

\* A command other than a frame of the packet in hand reaches the radio.
Interrupts == mixed' = (mixed \/ sending \in 1..(Segments - 1))
Fault == failures < MaxFaults /\ failures' = failures + 1

-----------------------------------------------------------------------------
(* transmit_message.                                                       *)

QueuePacket ==
    /\ waiting < QueueSize
    /\ waiting' = waiting + 1
    /\ UNCHANGED <<rows, hardware, clientLock, sending, put, tester, arrived,
                   rxLoop, failures, history>>

\* A packet is encoded - what cannot be is only reported - and the radio is
\* taken for all of its frames.
TakePacket ==
    /\ waiting > 0 /\ sending = 0
    /\ waiting' = waiting - 1
    /\ \/ clientLock = Nobody /\ clientLock' = "interface" /\ sending' = Segments
       \/ UNCHANGED <<clientLock, sending>>
    /\ UNCHANGED <<rows, hardware, put, tester, arrived, rxLoop, failures,
                   history>>

\* (mutant) The radio is released after each frame.
ReleasedEach == Nobody

Released == IF sending = 1 THEN Nobody ELSE "interface"

\* One frame is sent, and the tx observer told; after the last the radio is released.
SendFrame ==
    /\ sending > 0 /\ clientLock = "interface"
    /\ sending' = sending - 1
    /\ clientLock' = Released
    /\ UNCHANGED <<rows, hardware, waiting, put, tester, arrived, rxLoop,
                   failures, history>>

\* One is not: the rest of the packet is never sent.
SendFails ==
    /\ sending > 0 /\ clientLock = "interface"
    /\ Fault
    /\ sending' = 0
    /\ clientLock' = Nobody
    /\ UNCHANGED <<rows, hardware, waiting, put, tester, arrived, rxLoop,
                   history>>

-----------------------------------------------------------------------------
(* put_radio, transmit_test_frame and the keep-alive.                      *)

\* save_module_config, under the settings lock: three statements of their own.
\* One that fails leaves those before it.
Saved(cfg) == rows' = Alike(cfg) /\ UNCHANGED failures
Unsaved(cfg) ==
    /\ Fault
    /\ \E done \in {{}, {"radio_config"}, {"radio_config", "modulation"}} :
          rows' = [f \in Fields |-> IF f \in done THEN cfg ELSE rows[f]]

\* The rows are written, then the radio is asked for ...
PutBegin(p, cfg) ==
    /\ put[p].pc = "idle"
    /\ Saved(cfg)
    /\ put' = [put EXCEPT ![p] = [pc |-> "lock", cfg |-> cfg, left |-> Fields]]
    /\ last' = IF \A q \in Putters : put[q].pc = "idle" THEN p ELSE Nobody
    /\ UNCHANGED <<hardware, clientLock, waiting, sending, tester, arrived, rxLoop,
                   mixed, halfway>>

\* ... or answered with an error, and nothing is applied.  (So does a put_settings
\* that fails, here or before it comes to these rows.)
PutRefused(cfg) ==
    /\ Unsaved(cfg)
    /\ last' = Nobody
    /\ UNCHANGED <<hardware, clientLock, waiting, sending, put, tester, arrived, rxLoop,
                   mixed, halfway>>

\* put_settings stores the radio's rows with all others, and never applies them.
PutSettings(cfg) ==
    /\ Saved(cfg)
    /\ last' = Nobody
    /\ UNCHANGED <<hardware, clientLock, waiting, sending, put, tester, arrived, rxLoop,
                   mixed, halfway>>

PutLock(p) ==
    /\ put[p].pc = "lock" /\ clientLock = Nobody
    /\ clientLock' = p
    /\ put' = [put EXCEPT ![p].pc = "apply"]
    /\ halfway' = FALSE
    /\ UNCHANGED <<rows, hardware, waiting, sending, tester, arrived, rxLoop,
                   failures, mixed, last>>

\* (mutant) What is applied is what the radio already has.
AppliedStale(p) == hardware["modulation"]

Applied(p) == put[p].cfg

\* set_radio_config, set_modulation, set_accelerator, in this order: a failure
\* of one is logged and the next goes on.
NextField(p) ==
    IF put[p].left = Fields THEN "radio_config"
    ELSE IF "modulation" \in put[p].left THEN "modulation" ELSE "accelerator"

\* A command that fails may have reached the radio, its answer been lost.
PutApply(p) ==
    LET given == [hardware EXCEPT ![NextField(p)] = Applied(p)]
    IN  /\ put[p].pc = "apply" /\ put[p].left # {}
        /\ \/ hardware' = given /\ UNCHANGED <<failures, halfway, last>>
           \/ Fault /\ hardware' \in {hardware, given} /\ halfway' = TRUE /\ last' = Nobody
        /\ put' = [put EXCEPT ![p].left = @ \ {NextField(p)}]
        /\ Interrupts
        /\ UNCHANGED <<rows, clientLock, waiting, sending, tester, arrived, rxLoop>>

PutEnd(p) ==
    /\ put[p].pc = "apply" /\ put[p].left = {}
    /\ clientLock' = Nobody
    /\ put' = [put EXCEPT ![p] = PutIdle]
    /\ UNCHANGED <<rows, hardware, waiting, sending, tester, arrived, rxLoop,
                   failures, history>>

\* The client goes away: the handler is dropped where it waits, for the radio or
\* for a command, which may have reached it.
PutDropped(p) ==
    /\ put[p].pc \in {"lock", "apply"} /\ put[p].left # {}
    /\ IF put[p].pc = "apply"
       THEN /\ hardware' \in {hardware, [hardware EXCEPT ![NextField(p)] = Applied(p)]}
            /\ clientLock' = Nobody /\ halfway' = TRUE
       ELSE UNCHANGED <<hardware, clientLock, halfway>>
    /\ put' = [put EXCEPT ![p] = PutIdle]
    /\ last' = Nobody
    /\ UNCHANGED <<rows, waiting, sending, tester, arrived, rxLoop, failures, mixed>>

\* The gateway stops and starts: attach_radio_interface applies the rows as they
\* are, field by field, before anything else is served.
Restart ==
    /\ \/ hardware' = rows /\ last' = "boot" /\ UNCHANGED failures
          /\ halfway' = ~\E cfg \in Settings : rows = Alike(cfg)
       \/ /\ Fault /\ halfway' = TRUE /\ last' = Nobody
          /\ \E f \in Fields : hardware' = [rows EXCEPT ![f] = hardware[f]]
    /\ clientLock' = Nobody /\ waiting' = 0 /\ sending' = 0
    /\ put' = [p \in Putters |-> PutIdle]
    /\ tester' = "idle" /\ arrived' = 0 /\ rxLoop' = "recv"
    /\ UNCHANGED <<rows, mixed>>

TestWanted ==
    /\ tester = "idle" /\ tester' = "wanted"
    /\ UNCHANGED <<rows, hardware, clientLock, waiting, sending, put, arrived,
                   rxLoop, failures, history>>

\* A ping or a test frame: each is one command, so the lock is not held
\* between steps.
TestFrame ==
    /\ tester = "wanted" /\ clientLock = Nobody
    /\ tester' = "idle"
    /\ Fault \/ UNCHANGED failures
    /\ Interrupts
    /\ UNCHANGED <<rows, hardware, clientLock, waiting, sending, put, arrived,
                   rxLoop, halfway, last>>

-----------------------------------------------------------------------------
(* The receiving task.                                                     *)

\* A frame arrives.  Beyond the capacity of the broadcast the oldest is lost.
FrameArrives ==
    /\ arrived' = IF arrived <= RxCapacity THEN arrived + 1 ELSE arrived
    /\ arrived' # arrived
    /\ UNCHANGED <<rows, hardware, clientLock, waiting, sending, put, tester,
                   rxLoop, failures, history>>

\* The task takes a frame, and hands on, drops or keeps what it completes.  A
\* receiver that lags gets an error, for which its select has no branch: it
\* waits for the cancellation alone from then on.
TakeFrame ==
    /\ rxLoop = "recv" /\ arrived > 0
    /\ IF arrived <= RxCapacity
       THEN arrived' = arrived - 1 /\ UNCHANGED rxLoop
       ELSE rxLoop' = "stopped" /\ UNCHANGED arrived
    /\ UNCHANGED <<rows, hardware, clientLock, waiting, sending, put, tester,
                   failures, history>>

RadioNext ==
    \/ QueuePacket \/ TakePacket \/ SendFrame \/ SendFails
    \/ \E p \in Putters :
         \/ \E cfg \in Settings : PutBegin(p, cfg)
         \/ PutLock(p) \/ PutApply(p) \/ PutEnd(p) \/ PutDropped(p)
    \/ \E cfg \in Settings : PutRefused(cfg) \/ PutSettings(cfg)
    \/ Restart
    \/ TestWanted \/ TestFrame
    \/ FrameArrives \/ TakeFrame

RadioSpec == RadioInit /\ [][RadioNext]_radioVars

-----------------------------------------------------------------------------
RadioTypeOK ==
    /\ rows \in [Fields -> Settings] /\ hardware \in [Fields -> Settings]
    /\ clientLock \in Putters \cup {"interface", Nobody}
    /\ waiting \in 0..QueueSize /\ sending \in 0..Segments
    /\ put \in [Putters -> [pc : {"idle", "lock", "apply"}, cfg : Settings, left : SUBSET Fields]]
    /\ tester \in {"idle", "wanted"}
    /\ arrived \in 0..(RxCapacity + 1) /\ rxLoop \in {"recv", "stopped"}
    /\ failures \in 0..MaxFaults /\ mixed \in BOOLEAN /\ halfway \in BOOLEAN
    /\ last \in Putters \cup {"boot", Nobody}

\* The frames of a packet go out one after the other: no other command, so no
\* new configuration, comes between them (lib.rs transmit_message holds the
\* client; handlers.rs put_radio).
PacketUndisturbed == ~mixed

\* Whatever requests race, and whatever is stored half-way or never applied, the
\* radio is left with one configuration and not with parts of two, but for an
\* application one of whose commands failed, whose request was dropped, or which
\* was a start's with rows of two; and the next one that none of it happens to
\* mends it (handlers.rs put_radio holds the client for its three commands).
RadioWhole ==
    clientLock \notin Putters /\ ~halfway => \E cfg \in Settings : hardware = Alike(cfg)

\* A configuration that was put with no other request beside it, nor since, all
\* commands of which worked, is the one stored and the one in the radio, and so
\* is the one of a start: whatever requests raced, failed or were dropped before
\* it (handlers.rs put_radio, radio.rs attach_radio_interface).
RadioFollowsRows ==
    last # Nobody /\ (last = "boot" \/ put[last].pc = "idle") => hardware = rows

\* All three: a packet is sent under one radio configuration, the radio has one,
\* and it is the stored one after a request or a start that met no other.
RadioConsistent == PacketUndisturbed /\ RadioWhole /\ RadioFollowsRows
=============================================================================

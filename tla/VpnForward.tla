---------------------------- MODULE VpnForward ----------------------------
(***************************************************************************)
(* Packets through the VPN and the counters that account for them          *)
(* (runtime.rs spawn_tun_rx, handle_link_data and the Data arms of the two *)
(* event tasks; metrics.rs).  The task that reads the TUN device and the   *)
(* two that read link events run beside each other and beside whatever     *)
(* rebuilds the router, changes a link or replaces the peer policy; each   *)
(* step here ends at an await or between two structures.                   *)
(*                                                                         *)
(* A packet is known by its destination, and a frame from a link by the    *)
(* owner its source address resolves to.  Bytes, rates and time stamps are *)
(* left out; VpnRoutes has the router, VpnLink the links.                  *)
(***************************************************************************)
EXTENDS Tally

CONSTANTS
    Nodes,            \* remote gateways
    NoNode,
    MaxPackets        \* bound: packets read from the TUN, and frames from links

ASSUME ForwardAssumption == IsFiniteSet(Nodes) /\ NoNode \notin Nodes

VARIABLES
    peers,            \* PeerRegistry: registered gateways
    linked,           \* those whose link is up, in state Active
    open,             \* SlowState.allow_all_peers
    txTask,           \* what spawn_tun_rx is doing, and for which peer
    rxTask,           \* the two event tasks, by the side of their links
    sentCount, received, dropped,     \* the node's Metrics
    peerSent, peerReceived,      \* the Metrics of the registered peers
    fromTun, passedOver, fromLinks, refused   \* history: packets read, and
                      \* those nobody counts

forwardVars == <<peers, linked, open, txTask, rxTask, sentCount, received, dropped,
                 peerSent, peerReceived, fromTun, passedOver, fromLinks, refused>>

Sides == {"out", "in"}
Task == [pc : {"recv", "send", "credit", "dead"}, peer : Nodes \cup {NoNode}]
Waiting == [pc |-> "recv", peer |-> NoNode]

ForwardInit ==
    /\ open \in BOOLEAN
    /\ peers \in SUBSET Nodes
    /\ linked = {}
    /\ txTask = Waiting
    /\ rxTask = [s \in Sides |-> Waiting]
    /\ sentCount = 0 /\ received = 0 /\ dropped = 0
    /\ peerSent = [p \in Nodes |-> 0] /\ peerReceived = [p \in Nodes |-> 0]
    /\ fromTun = 0 /\ passedOver = 0 /\ fromLinks = 0 /\ refused = 0

txVars == <<txTask, sentCount, peerSent, fromTun, passedOver>>
rxVars == <<rxTask, received, peerReceived, fromLinks, refused>>
world == <<peers, linked, open>>

-----------------------------------------------------------------------------
(* spawn_tun_rx.                                                           *)

\* (mutant) A packet that cannot be sent is not counted.
DropUncounted == UNCHANGED dropped

RecordDrop == dropped' = dropped + 1

\* tun_tx_requires_backoff: a registered peer whose link is not up.
RequiresBackoff(p) == p \in peers /\ p \notin linked

\* A packet is read and resolved: nothing for us or not IPv4, nobody's, a peer
\* to wait for, or one to send to.
ReadTun ==
    /\ txTask.pc = "recv" /\ fromTun < MaxPackets
    /\ fromTun' = fromTun + 1
    /\ \/ passedOver' = passedOver + 1 /\ UNCHANGED <<txTask, dropped>>
       \/ RecordDrop /\ UNCHANGED <<txTask, passedOver>>
       \/ \E p \in Nodes :
            /\ RequiresBackoff(p)
            /\ RecordDrop
            /\ UNCHANGED <<txTask, passedOver>>
       \/ \E p \in Nodes :
            /\ ~RequiresBackoff(p)
            /\ txTask' = [pc |-> "send", peer |-> p]
            /\ UNCHANGED <<dropped, passedOver>>
    /\ UNCHANGED <<sentCount, peerSent>> /\ UNCHANGED rxVars /\ UNCHANGED world

\* (mutant) A peer is credited with what its link did not take, too.
SendCreditedAnyway ==
    /\ txTask.pc = "send"
    /\ txTask' = [txTask EXCEPT !.pc = "credit"]
    /\ IF txTask.peer \in linked
       THEN sentCount' = sentCount + 1 /\ UNCHANGED dropped
       ELSE RecordDrop /\ UNCHANGED sentCount
    /\ UNCHANGED <<peerSent, fromTun, passedOver>>
    /\ UNCHANGED rxVars /\ UNCHANGED world

\* send_to_out_links, whatever became of the link meanwhile.
SendToLink ==
    /\ txTask.pc = "send"
    /\ IF txTask.peer \in linked
       THEN /\ sentCount' = sentCount + 1
            /\ txTask' = [txTask EXCEPT !.pc = "credit"]
            /\ UNCHANGED dropped
       ELSE /\ RecordDrop
            /\ txTask' = Waiting
            /\ UNCHANGED sentCount
    /\ UNCHANGED <<peerSent, fromTun, passedOver>>
    /\ UNCHANGED rxVars /\ UNCHANGED world

\* The registry is asked again: a peer removed meanwhile is not credited.
CreditSent ==
    /\ txTask.pc = "credit"
    /\ peerSent' = IF txTask.peer \in peers
                   THEN [peerSent EXCEPT ![txTask.peer] = @ + 1] ELSE peerSent
    /\ txTask' = Waiting
    /\ UNCHANGED <<sentCount, dropped, fromTun, passedOver>>
    /\ UNCHANGED rxVars /\ UNCHANGED world

\* tun.recv fails: the task is over.
TunFails ==
    /\ txTask.pc = "recv"
    /\ txTask' = [Waiting EXCEPT !.pc = "dead"]
    /\ UNCHANGED <<sentCount, dropped, peerSent, fromTun, passedOver>>
    /\ UNCHANGED rxVars /\ UNCHANGED world

-----------------------------------------------------------------------------
(* handle_link_data.                                                       *)

\* The peer a frame is credited to: the link's own on the out side, else the
\* owner of the packet's source address, if it is still registered.
Credited(hint, owner) ==
    IF hint \in peers THEN hint ELSE IF owner \in peers THEN owner ELSE NoNode

\* A data frame arrives: one without a peer passes only on the in side of a
\* node that admits everybody.
ReadLink(s) ==
    /\ rxTask[s].pc = "recv" /\ fromLinks < MaxPackets
    /\ fromLinks' = fromLinks + 1
    /\ \E hint \in IF s = "out" THEN Nodes ELSE {NoNode},
          owner \in Nodes \cup {NoNode} :
         LET to == Credited(hint, owner) IN
         IF to = NoNode /\ (hint # NoNode \/ ~open)
         THEN RecordDrop /\ UNCHANGED rxTask
         ELSE /\ rxTask' = [rxTask EXCEPT ![s] = [pc |-> "send", peer |-> to]]
              /\ UNCHANGED dropped
    /\ UNCHANGED <<received, peerReceived, refused>>
    /\ UNCHANGED txVars /\ UNCHANGED world

SendToTun(s) ==
    /\ rxTask[s].pc = "send"
    /\ \/ /\ received' = received + 1
          /\ rxTask' = [rxTask EXCEPT ![s].pc = "credit"]
          /\ UNCHANGED refused
       \/ /\ refused' = refused + 1
          /\ rxTask' = [rxTask EXCEPT ![s] = Waiting]
          /\ UNCHANGED received
    /\ UNCHANGED <<dropped, peerReceived, fromLinks>>
    /\ UNCHANGED txVars /\ UNCHANGED world

CreditReceived(s) ==
    /\ rxTask[s].pc = "credit"
    /\ LET p == rxTask[s].peer IN
       peerReceived' = IF p = NoNode THEN peerReceived
                       ELSE [peerReceived EXCEPT ![p] = @ + 1]
    /\ rxTask' = [rxTask EXCEPT ![s] = Waiting]
    /\ UNCHANGED <<received, dropped, fromLinks, refused>>
    /\ UNCHANGED txVars /\ UNCHANGED world

-----------------------------------------------------------------------------
(* What goes on beside them.                                               *)

\* replace_peer_policy and announces change who is registered; a peer that is
\* removed takes its counters with it, and a task that holds its record
\* counts into one nobody reads any more.
ReplacePeers(S, all) ==
    /\ <<S, all>> # <<peers, open>>
    /\ peers' = S /\ open' = all
    /\ peerSent' = [p \in Nodes |-> IF p \in S THEN peerSent[p] ELSE 0]
    /\ peerReceived' = [p \in Nodes |-> IF p \in S THEN peerReceived[p] ELSE 0]
    /\ rxTask' = [s \in Sides |-> IF rxTask[s].peer \in S THEN rxTask[s]
                                  ELSE [rxTask[s] EXCEPT !.peer = NoNode]]
    /\ UNCHANGED <<linked, txTask, sentCount, received, dropped, fromTun,
                   passedOver, fromLinks, refused>>

LinkChanges(p) ==
    /\ linked' = IF p \in linked THEN linked \ {p} ELSE linked \cup {p}
    /\ UNCHANGED <<peers, open, dropped>> /\ UNCHANGED txVars /\ UNCHANGED rxVars

ForwardNext ==
    \/ ReadTun \/ SendToLink \/ CreditSent \/ TunFails
    \/ \E s \in Sides : ReadLink(s) \/ SendToTun(s) \/ CreditReceived(s)
    \/ \E S \in SUBSET Nodes, all \in BOOLEAN : ReplacePeers(S, all)
    \/ \E p \in Nodes : LinkChanges(p)

ForwardSpec == ForwardInit /\ [][ForwardNext]_forwardVars

-----------------------------------------------------------------------------
ForwardTypeOK ==
    /\ peers \subseteq Nodes /\ linked \subseteq Nodes /\ open \in BOOLEAN
    /\ txTask \in Task /\ rxTask \in [Sides -> Task]
    /\ {sentCount, received, dropped, fromTun, passedOver, fromLinks, refused} \subseteq Nat
    /\ peerSent \in [Nodes -> Nat] /\ peerReceived \in [Nodes -> Nat]

Busy == {s \in Sides : rxTask[s].pc = "send"}

\* Every packet and frame read is accounted for: it was sent on, dropped,
\* refused by the device or never meant to travel, or a task holds it
\* (runtime.rs spawn_tun_rx, handle_link_data).
PacketsAccounted ==
    fromTun + fromLinks =
         sentCount + received + dropped + passedOver + refused
         + Cardinality(Busy) + (IF txTask.pc = "send" THEN 1 ELSE 0)

\* The peers' counters never add up to more than the node's, whoever was removed
\* or lost its link between sending and crediting (spawn_tun_rx, handle_link_data).
PeerCountsBounded ==
    /\ Tally(peerSent) <= sentCount
    /\ Tally(peerReceived) <= received
=============================================================================

----------------------------- MODULE PttPeers -----------------------------
(* The contact list of kaonic-audio-ptt (src/kaonic-audio-ptt/src/main.rs) *)
(* and the Reticulum link behind a contact, for one remote peer.           *)
(*                                                                         *)
(* Announces, PUT /api/config and every start of a transmit run            *)
(* ensure_out_link, which looks at the link, lets go of every lock, and    *)
(* only then writes the contact's status and asks for a link.  Meanwhile   *)
(* the transport reports what becomes of the link on a bounded broadcast   *)
(* channel, from which a slow receiver loses the oldest events.            *)
EXTENDS Naturals, Sequences

CONSTANTS
    Askers,         \* handlers that may run ensure_out_link at one time
    Announcer,      \* the announce task, which runs it after registering
    EventCapacity   \* length of the transport's broadcast channel

ASSUME EventCapacityPositive == EventCapacity \in Nat \ {0}

VARIABLES
    contact,        \* PeerState.status, or "unknown" when there is no entry
    outLink,        \* status of the transport's out link to the peer
    linkEvents,     \* link events that spawn_out_link_events has not received
    ensure          \* per handler: how far ensure_out_link has got

peerVars == <<contact, outLink, linkEvents, ensure>>

Handlers == Askers \cup {Announcer}
LinkIsUp == outLink \in {"active", "stale"}

PeersTypeOK ==
    /\ contact \in {"unknown", "discovered", "pending", "handshake", "active", "closed"}
    /\ outLink \in {"absent", "pending", "active", "stale", "closed"}
    /\ linkEvents \in Seq({"Activated", "Closed", "Proof"})
    /\ Len(linkEvents) <= EventCapacity
    /\ ensure \in [Handlers -> {"idle", "look", "mark", "link"}]

PeersInit ==
    /\ contact = "unknown"
    /\ outLink = "absent"
    /\ linkEvents = <<>>
    /\ ensure = [h \in Handlers |-> "idle"]

----------------------------------------------------------------------------
(* The transport.                                                          *)

\* (mutant) The channel keeps every event.
ReportAll(e) == linkEvents' = Append(linkEvents, e)

\* A full channel drops its oldest event.
Report(e) ==
    linkEvents' = Append(IF Len(linkEvents) < EventCapacity THEN linkEvents ELSE Tail(linkEvents), e)

TransportActivates ==
    /\ outLink = "pending"
    /\ outLink' = "active"
    /\ Report("Activated")
    /\ UNCHANGED <<contact, ensure>>

TransportCloses ==
    /\ outLink \in {"pending", "active", "stale"}
    /\ outLink' = "closed"
    /\ Report("Closed")
    /\ UNCHANGED <<contact, ensure>>

\* A packet of ours is proved.
TransportProves ==
    /\ outLink = "active"
    /\ Report("Proof")
    /\ UNCHANGED <<contact, outLink, ensure>>

\* The link goes quiet or is heard again; a closed one may be restarted.
TransportDrifts ==
    /\ \/ outLink = "active" /\ outLink' = "stale"
       \/ outLink = "stale"  /\ outLink' = "active"
       \/ outLink = "closed" /\ outLink' = "pending"
    /\ UNCHANGED <<contact, linkEvents, ensure>>

----------------------------------------------------------------------------
(* register_announced_peer, ensure_out_link.                               *)

\* An announce of the peer enters it, or touches its entry.
RegisterAnnouncedPeer ==
    /\ ensure[Announcer] = "idle"
    /\ contact' = IF contact = "active" THEN "active" ELSE "discovered"
    /\ ensure' = [ensure EXCEPT ![Announcer] = "look"]
    /\ UNCHANGED <<outLink, linkEvents>>

\* A request finds the peer in the table; an unknown one is refused.
EnsureOutLink(r) ==
    /\ ensure[r] = "idle" /\ contact # "unknown"
    /\ ensure' = [ensure EXCEPT ![r] = "look"]
    /\ UNCHANGED <<contact, outLink, linkEvents>>

\* (mutant) Any link in the transport's table will do, a closed one too.
ReuseAny(s) == s # "absent"

\* should_reuse_existing_out_link
ShouldReuse(s) == s \in {"pending", "active", "stale"}

EnsureLook(h) ==
    /\ ensure[h] = "look"
    /\ ensure' = [ensure EXCEPT ![h] = IF ShouldReuse(outLink) THEN "idle" ELSE "mark"]
    /\ UNCHANGED <<contact, outLink, linkEvents>>

EnsureMark(h) ==
    /\ ensure[h] = "mark"
    /\ contact' = "pending"
    /\ ensure' = [ensure EXCEPT ![h] = "link"]
    /\ UNCHANGED <<outLink, linkEvents>>

\* Transport::link makes a link unless there is one that can be used.
EnsureLink(h) ==
    /\ ensure[h] = "link"
    /\ outLink' = IF ShouldReuse(outLink) THEN outLink ELSE "pending"
    /\ ensure' = [ensure EXCEPT ![h] = "idle"]
    /\ UNCHANGED <<contact, linkEvents>>

\* (mutant) A Closed event of the link is not for the contact list.
ShownIgnoringClose(e) ==
    CASE e = "Activated" -> "active" [] e = "Closed" -> contact [] e = "Proof" -> contact

\* update_peer_status, for each kind of event.
Shown(e) ==
    CASE e = "Activated" -> "active" [] e = "Closed" -> "closed" [] e = "Proof" -> "handshake"

OutLinkEvent ==
    /\ linkEvents # <<>>
    /\ linkEvents' = Tail(linkEvents)
    /\ contact' = IF contact = "unknown" THEN contact ELSE Shown(Head(linkEvents))
    /\ UNCHANGED <<outLink, ensure>>

----------------------------------------------------------------------------

EnsureStep(h) == EnsureLook(h) \/ EnsureMark(h) \/ EnsureLink(h)

PeersNext ==
    \/ TransportActivates \/ TransportCloses \/ TransportProves \/ TransportDrifts
    \/ RegisterAnnouncedPeer
    \/ \E r \in Askers : EnsureOutLink(r)
    \/ \E h \in Handlers : EnsureLook(h) \/ EnsureMark(h) \/ EnsureLink(h)
    \/ OutLinkEvent

PeersSpec == PeersInit /\ [][PeersNext]_peerVars

----------------------------------------------------------------------------
(* Properties.                                                             *)

\* A contact is shown online (and may be called) only while its link is up or
\* a Closed event is on its way: announces and late `pending` marks never make
\* a dead link look alive, nor does a channel that loses events.
OnlineIsUp ==
    contact = "active" =>
        LinkIsUp \/ \E i \in 1..Len(linkEvents) : linkEvents[i] = "Closed"

\* A closed link to a contact that is still announced is asked for again,
\* whatever requests and events come in between.
ClosedIsRetried == outLink = "closed" ~> outLink # "closed"
=============================================================================

----------------------------- MODULE AtakBridge -----------------------------
(***************************************************************************)
(* kaonic-atak-bridge (main.rs run_bridge): at each of two sites, one      *)
(* bridge per ATAK port between the site's multicast group and Reticulum.  *)
(* A datagram from the LAN goes to the incoming links of the bridge's own  *)
(* destination, so to the site that linked to it; data from outgoing links *)
(* goes to the group.  The bridges of a site share one transport, and each *)
(* hears the events of every outgoing link, whichever port it is for.      *)
(*                                                                         *)
(* The sites have separate LANs; the transport is external.                *)
(***************************************************************************)
EXTENDS Naturals, Sequences

CONSTANTS
    Here, There,      \* the sites
    Ports,            \* ATAK_PORTS
    Capacity,         \* of the transport's broadcast of link events
    MaxDatagrams      \* bound: datagrams hosts send

ASSUME AtakAssumption ==
    Here # There /\ Capacity \in Nat \ {0} /\ MaxDatagrams \in Nat

Places == {Here, There}
Bridges == Places \X Ports
Remote(s) == IF s = Here THEN There ELSE Here

VARIABLES
    sent,             \* datagrams so far: <<site, port>> of each
    outLink,          \* per site and port: its link to the other site's bridge
    inbox,            \* per bridge: link data it has not received yet
    overrun,          \* per bridge: its receiver lost events
    bridge,           \* per bridge: "forwards", or "waits" for the shutdown
    emitted           \* history: <<datagram, site, port>>, how often on a group

atakVars == <<sent, outLink, inbox, overrun, bridge, emitted>>

AtakInit ==
    /\ sent = <<>>
    /\ outLink = [b \in Bridges |-> "none"]
    /\ inbox = [b \in Bridges |-> <<>>]
    /\ overrun = [b \in Bridges |-> FALSE]
    /\ bridge = [b \in Bridges |-> "forwards"]
    /\ emitted = [e \in (1..MaxDatagrams) \X Places \X Ports |-> 0]

\* send_to_in_links at site s: if the other site linked to this bridge, all
\* of that site's bridges get the event; a full backlog loses its oldest.
Receivers(s, p) ==
    {b \in Bridges : b[1] = Remote(s) /\ outLink[<<b[1], p>>] = "active"}

Deliver(box, s, p, d) ==
    /\ inbox' = [b \in Bridges |->
         IF b \notin Receivers(s, p) THEN box[b]
         ELSE IF Len(box[b]) < Capacity THEN Append(box[b], d)
         ELSE Append(Tail(box[b]), d)]
    /\ overrun' = [b \in Bridges |->
         overrun[b] \/ (b \in Receivers(s, p) /\ Len(box[b]) = Capacity)]

\* udp_to_rns: a host on the site's LAN sends to the group.
FromLan(s, p) ==
    /\ Len(sent) < MaxDatagrams
    /\ sent' = Append(sent, <<s, p>>)
    /\ Deliver(inbox, s, p, Len(sent) + 1)
    /\ UNCHANGED <<outLink, bridge, emitted>>

\* (mutant) A bridge hears what it sends to its group.
LoopOn == TRUE

\* set_multicast_loop_v4(false)
MulticastLoop == FALSE

\* rns_to_udp: data of whichever outgoing link goes to this bridge's group.
ToLan(s, p) ==
    /\ bridge[<<s, p>>] = "forwards" /\ ~overrun[<<s, p>>] /\ inbox[<<s, p>>] # <<>>
    /\ LET d == Head(inbox[<<s, p>>])
           rest == [inbox EXCEPT ![<<s, p>>] = Tail(@)] IN
       /\ emitted' = [emitted EXCEPT ![<<d, s, p>>] = @ + 1]
       /\ IF MulticastLoop THEN Deliver(rest, s, p, d)
          ELSE inbox' = rest /\ UNCHANGED overrun
    /\ UNCHANGED <<sent, outLink, bridge>>

\* An overrun receiver gets an error instead, for which the select has no
\* branch: from then on the task only waits for the shutdown.
Overruns(s, p) ==
    /\ bridge[<<s, p>>] = "forwards" /\ overrun[<<s, p>>]
    /\ bridge' = [bridge EXCEPT ![<<s, p>>] = "waits"]
    /\ UNCHANGED <<sent, outLink, inbox, overrun, emitted>>

-----------------------------------------------------------------------------
(* auto_link, on the other site's announces.                               *)

\* A link in the table, even a closed one, is left alone.
AutoLink(s, p) ==
    /\ outLink[<<s, p>>] = "none"
    /\ outLink' = [outLink EXCEPT ![<<s, p>>] = "pending"]
    /\ UNCHANGED <<sent, inbox, overrun, bridge, emitted>>

\* The transport: a link comes up, closes, and restarts (restart_outlinks).
LinkMoves(s, p) ==
    /\ \/ outLink[<<s, p>>] \in {"pending", "closed"} /\ outLink' = [outLink EXCEPT ![<<s, p>>] = "active"]
       \/ outLink[<<s, p>>] = "active" /\ outLink' = [outLink EXCEPT ![<<s, p>>] = "closed"]
    /\ UNCHANGED <<sent, inbox, overrun, bridge, emitted>>

AtakNext ==
    \E s \in Places, p \in Ports :
        \/ FromLan(s, p) \/ ToLan(s, p) \/ Overruns(s, p)
        \/ AutoLink(s, p) \/ LinkMoves(s, p)

AtakSpec == AtakInit /\ [][AtakNext]_atakVars

-----------------------------------------------------------------------------
AtakTypeOK ==
    /\ sent \in Seq(Places \X Ports) /\ Len(sent) <= MaxDatagrams
    /\ outLink \in [Bridges -> {"none", "pending", "active", "closed"}]
    /\ inbox \in [Bridges -> Seq(1..MaxDatagrams)]
    /\ \A b \in Bridges : Len(inbox[b]) <= Capacity
    /\ overrun \in [Bridges -> BOOLEAN]
    /\ bridge \in [Bridges -> {"forwards", "waits"}]
    /\ emitted \in [(1..MaxDatagrams) \X Places \X Ports -> Nat]

\* A datagram is never put back on the LAN it came from, and on a remote group
\* at most once: two bridges do not feed each other (run_bridge: the multicast
\* loop is off, and data that came over a link is not sent to links).
NoEcho ==
    \A d \in 1..MaxDatagrams, s \in Places, p \in Ports :
        /\ emitted[<<d, s, p>>] <= 1
        /\ emitted[<<d, s, p>>] = 1 => sent[d][1] = Remote(s)
=============================================================================

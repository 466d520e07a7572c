----------------------------- MODULE MCTraffic ------------------------------
(***************************************************************************)
(* What carries packets, frames and events, on small instances in one run: *)
(* the routing table and the forwarding of kaonic-vpn, the ATAK bridge,    *)
(* voice, the radio interface, the gateway's frame feed and its Reticulum  *)
(* log.  They share no state, so their product says no more than each of   *)
(* them does: a behaviour is one of the component `which`, chosen at the   *)
(* beginning, while the others stay where they start.                      *)
(***************************************************************************)
EXTENDS VpnRouteTable, VpnForward, AtakBridge, PttAudio, RadioInterface, FrameFeed,
        ReticulumLog

VARIABLE which

\* A tunnel network of two bits, and routes that overlap it, contain each other
\* or stand alone.
MCNetwork == <<1, 0>>
MCOffered == {<<1, 4>>, <<2, 4>>, <<2, 0>>, <<3, 5>>}

-----------------------------------------------------------------------------

\* A component that is not the one that runs starts in one of its states only.
TableRests ==
    /\ seed = [g \in Gateways |-> 0] /\ ownSeed = 0
    /\ offers = [g \in Gateways |-> [routes |-> {}, expired |-> FALSE]]
ForwardRests == open = FALSE /\ peers = {}
AudioRests == output = "alsa"

TrafficInit ==
    /\ which \in {"table", "forward", "atak", "audio", "radio", "feed", "log"}
    /\ (which = "table" \/ TableRests) /\ TableInit
    /\ (which = "forward" \/ ForwardRests) /\ ForwardInit
    /\ (which = "audio" \/ AudioRests) /\ AudioInit
    /\ AtakInit /\ RadioInit /\ FeedInit /\ LogInit

TrafficNext ==
    /\ UNCHANGED which
    /\ \/ /\ which = "table" /\ TableNext
          /\ UNCHANGED <<forwardVars, atakVars, audioVars, radioVars, feedVars, logVars>>
       \/ /\ which = "forward" /\ ForwardNext
          /\ UNCHANGED <<tableVars, atakVars, audioVars, radioVars, feedVars, logVars>>
       \/ /\ which = "atak" /\ AtakNext
          /\ UNCHANGED <<tableVars, forwardVars, audioVars, radioVars, feedVars, logVars>>
       \/ /\ which = "audio" /\ AudioNext
          /\ UNCHANGED <<tableVars, forwardVars, atakVars, radioVars, feedVars, logVars>>
       \/ /\ which = "radio" /\ RadioNext
          /\ UNCHANGED <<tableVars, forwardVars, atakVars, audioVars, feedVars, logVars>>
       \/ /\ which = "feed" /\ FeedNext
          /\ UNCHANGED <<tableVars, forwardVars, atakVars, audioVars, radioVars, logVars>>
       \/ /\ which = "log" /\ LogNext
          /\ UNCHANGED <<tableVars, forwardVars, atakVars, audioVars, radioVars, feedVars>>

TrafficSpec ==
    TrafficInit /\ [][TrafficNext]_<<which, tableVars, forwardVars, atakVars, audioVars,
                                     radioVars, feedVars, logVars>>

-----------------------------------------------------------------------------
(* Properties: one for each component, as named in its module.             *)

\* The type invariant of the component that runs.
TypesOK ==
    CASE which = "table" -> TableTypeOK
      [] which = "forward" -> ForwardTypeOK
      [] which = "atak" -> AtakTypeOK
      [] which = "audio" -> AudioTypeOK
      [] which = "radio" -> RadioTypeOK
      [] which = "feed" -> FeedTypeOK
      [] which = "log" -> LogTypeOK

\* Addresses that peers and aliases are given are those the arithmetic is to
\* give, and the table resolves every address as a longest-prefix lookup over
\* the undisputed routes does, in whatever order it was built.
TableCorrect == which = "table" => TableIsLookup /\ AddressingExact

\* Both ends of a packet's way: its address finds the right peer, and what is
\* credited to the peers is no more than the node has counted.
PacketsAttributed == TableCorrect /\ PeerCountsBounded
=============================================================================

---------------------------- MODULE ReticulumLog ----------------------------
(***************************************************************************)
(* The table of links the dashboard shows (gateway_reticulum.rs), kept by  *)
(* two tasks that follow the transport's events of incoming and of         *)
(* outgoing links.  A task first asks the transport for the link the event *)
(* is about, and only then takes the table's lock: links come and go in    *)
(* between.  The transport is external: a peer's outgoing link that closed *)
(* may be replaced by another one with an id of its own, which the task    *)
(* then finds, asked for or up, whatever link the event was about.         *)
(***************************************************************************)
EXTENDS Tally, Sequences

CONSTANTS
    Ids,              \* link ids
    LogCapacity,      \* of each broadcast of link events
    MaxData,          \* bound: data packets over all links
    NoId

ASSUME LogAssumption ==
    IsFiniteSet(Ids) /\ LogCapacity \in Nat \ {0} /\ MaxData \in Nat /\ NoId \notin Ids

\* The transport's tables, and the sides of the log: incoming links are found
\* by id, outgoing ones - all of one peer - by the peer.
LinkSides == {"incoming", "outgoing"}

VARIABLES
    side,             \* history: which side a link id is on
    opening,          \* outgoing links that have been asked for and never were up
    alive,            \* links that are up
    current,          \* the outgoing link the transport has for the peer
    events,           \* per side: events not received yet
    handling,         \* per side: the event in hand, with the id it resolved to
    entries,          \* per side: id -> [status, packets]
    dataSent,         \* history, per side: data events
    lagged            \* history, per side: a task lost events

logVars == <<side, opening, alive, current, events, handling, entries, dataSent, lagged>>

EventKinds == {"activated", "data", "closed"}
Event == [id : Ids, kind : EventKinds]
Handled == [id : Ids, kind : EventKinds, resolved : Ids]
NoEvent == [id |-> NoId, kind |-> "none", resolved |-> NoId]
Entry == [status : {"active", "closed"}, packets : Nat]

LogInit ==
    /\ side = [i \in Ids |-> "none"]
    /\ opening = {} /\ alive = {} /\ current = NoId
    /\ events = [s \in LinkSides |-> <<>>]
    /\ handling = [s \in LinkSides |-> NoEvent]
    /\ entries = [s \in LinkSides |-> [i \in {} |-> NoId]]
    /\ dataSent = [s \in LinkSides |-> 0]
    /\ lagged = [s \in LinkSides |-> FALSE]

-----------------------------------------------------------------------------
(* The transport.                                                          *)

Emit(s, i, kind) ==
    LET e == [id |-> i, kind |-> kind] IN
    IF Len(events[s]) < LogCapacity
    THEN events' = [events EXCEPT ![s] = Append(@, e)] /\ UNCHANGED lagged
    ELSE /\ events' = [events EXCEPT ![s] = Append(Tail(@), e)]
         /\ lagged' = [lagged EXCEPT ![s] = TRUE]

\* An outgoing link is in the table from the request on, which emits nothing.
LinkRequested(i) ==
    /\ side[i] = "none" /\ current \notin alive
    /\ side' = [side EXCEPT ![i] = "outgoing"]
    /\ opening' = opening \cup {i}
    /\ current' = i
    /\ UNCHANGED <<alive, events, handling, entries, dataSent, lagged>>

LinkUp(s, i) ==
    /\ IF s = "incoming" THEN side[i] = "none" ELSE i \in opening /\ i = current
    /\ side' = [side EXCEPT ![i] = s]
    /\ opening' = opening \ {i}
    /\ alive' = alive \cup {i}
    /\ Emit(s, i, "activated")
    /\ UNCHANGED <<current, handling, entries, dataSent>>

LinkData(i) ==
    /\ i \in alive /\ dataSent[side[i]] < MaxData
    /\ dataSent' = [dataSent EXCEPT ![side[i]] = @ + 1]
    /\ Emit(side[i], i, "data")
    /\ UNCHANGED <<side, opening, alive, current, handling, entries>>

LinkDown(i) ==
    /\ i \in alive
    /\ alive' = alive \ {i}
    /\ Emit(side[i], i, "closed")
    /\ UNCHANGED <<side, opening, current, handling, entries, dataSent>>

-----------------------------------------------------------------------------
(* handle_link_event.                                                      *)

\* (mutant) An incoming link is looked for by the peer too.
FoundByPeer(s, i) == IF current # NoId THEN current ELSE i

\* The id of the link that is found, or else the event's own.
Found(s, i) == IF s = "outgoing" /\ current # NoId THEN current ELSE i

ResolveLink(s) ==
    /\ handling[s] = NoEvent /\ events[s] # <<>>
    /\ LET e == Head(events[s]) IN
       handling' = [handling EXCEPT ![s] = [id |-> e.id, kind |-> e.kind, resolved |-> Found(s, e.id)]]
    /\ events' = [events EXCEPT ![s] = Tail(@)]
    /\ UNCHANGED <<side, opening, alive, current, entries, dataSent, lagged>>

StatusOf(kind) == IF kind = "closed" THEN "closed" ELSE "active"

\* (mutant) The entry is made anew for each event.
PacketsAnew(s, i) == 0

PacketsSoFar(s, i) == IF i \in DOMAIN entries[s] THEN entries[s][i].packets ELSE 0

Record(s) ==
    LET t == handling[s]
        packets == PacketsSoFar(s, t.resolved) + (IF t.kind = "data" THEN 1 ELSE 0) IN
    /\ t # NoEvent
    /\ entries' = [entries EXCEPT ![s] =
         [i \in DOMAIN @ \cup {t.resolved} |->
            IF i = t.resolved THEN [status |-> StatusOf(t.kind), packets |-> packets]
            ELSE @[i]]]
    /\ handling' = [handling EXCEPT ![s] = NoEvent]
    /\ UNCHANGED <<side, opening, alive, current, events, dataSent, lagged>>

LogNext ==
    \/ \E i \in Ids :
          \/ LinkRequested(i) \/ LinkData(i) \/ LinkDown(i)
          \/ \E s \in LinkSides : LinkUp(s, i)
    \/ \E s \in LinkSides : ResolveLink(s) \/ Record(s)

LogSpec == LogInit /\ [][LogNext]_logVars

-----------------------------------------------------------------------------
LogTypeOK ==
    /\ side \in [Ids -> LinkSides \cup {"none"}]
    /\ opening \subseteq Ids /\ alive \subseteq Ids /\ current \in Ids \cup {NoId}
    /\ \A s \in LinkSides :
         /\ events[s] \in Seq(Event) /\ Len(events[s]) <= LogCapacity
         /\ DOMAIN entries[s] \subseteq Ids
         /\ \A i \in DOMAIN entries[s] : entries[s][i] \in Entry
    /\ DOMAIN events = LinkSides /\ DOMAIN entries = LinkSides
    /\ handling \in [LinkSides -> {NoEvent} \cup Handled]
    /\ dataSent \in [LinkSides -> 0..MaxData] /\ lagged \in [LinkSides -> BOOLEAN]

AtRest(s) == events[s] = <<>> /\ handling[s] = NoEvent
OnSide(s) == {i \in Ids : side[i] = s}

\* Once a task has caught up and lost nothing, the log shows every incoming
\* link as it is, and an outgoing one too as long as the peer had no other
\* (gateway_reticulum.rs handle_link_event, resolve_link_snapshot).
LinksShown ==
    \A s \in LinkSides :
        AtRest(s) /\ ~lagged[s] /\ (s = "incoming" \/ \E i \in Ids : OnSide(s) = {i}) =>
            /\ DOMAIN entries[s] = OnSide(s) \ opening
            /\ \A i \in OnSide(s) \ opening : entries[s][i].status = "active" <=> i \in alive

\* ... and has counted every data packet once, with whichever of the peer's
\* links (gateway_reticulum.rs handle_link_event).
DataCounted ==
    \A s \in LinkSides : AtRest(s) /\ ~lagged[s] =>
        Tally([i \in DOMAIN entries[s] |-> entries[s][i].packets]) = dataSent[s]
=============================================================================

----------------------------- MODULE FrameFeed -----------------------------
(***************************************************************************)
(* Radio frames on their way to the dashboard: the listener that counts    *)
(* them and keeps the last ones (main.rs, state.rs), the broadcast of what *)
(* it publishes, and the web sockets that first send a snapshot and then   *)
(* forward the broadcast (http/ws.rs, handlers.rs build_radio_frames,      *)
(* build_frame_stats).  One radio module; frames are numbered.             *)
(*                                                                         *)
(* The other events of the feed are snapshots taken every ten seconds and  *)
(* sent to the same channel; FillChannel stands for them.                  *)
(***************************************************************************)
EXTENDS Naturals, Sequences

CONSTANTS
    Sockets,          \* web sockets
    Keep,             \* RX_BUF_SIZE: frames kept
    FeedCapacity,     \* of the broadcast channel
    MaxFed            \* bound: frames received or sent

ASSUME FeedAssumption ==
    Keep \in Nat \ {0} /\ FeedCapacity \in Nat \ {0} /\ MaxFed \in Nat

VARIABLES
    frames,           \* frames so far; the newest has this number
    counted,          \* FrameStats.rx_frames + tx_frames
    buffer,           \* the ring buffer, newest first
    listener,         \* what the listener does, and the frames it publishes
    socket,           \* per socket: how far handle_socket is
    channel,          \* per socket: events published and not received yet
    shown,            \* per socket: what was last sent to the browser
    missed            \* history, per socket: its newest frames were lost

feedVars == <<frames, counted, buffer, listener, socket, channel, shown, missed>>

View == [frames : Seq(1..MaxFed), count : 0..MaxFed]
NoView == [frames |-> <<>>, count |-> 0]
Other == [frames |-> <<>>, count |-> MaxFed + 1]     \* some other event

FeedInit ==
    /\ frames = 0 /\ counted = 0 /\ buffer = <<>>
    /\ listener = [pc |-> "idle", frames |-> <<>>]
    /\ socket = [s \in Sockets |-> "closed"]
    /\ channel = [s \in Sockets |-> <<>>]
    /\ shown = [s \in Sockets |-> NoView]
    /\ missed = [s \in Sockets |-> FALSE]

-----------------------------------------------------------------------------
(* The listener: a frame is counted, pushed, and then published.           *)

CountFrame ==
    /\ listener.pc = "idle" /\ frames < MaxFed
    /\ frames' = frames + 1
    /\ counted' = counted + 1
    /\ listener' = [listener EXCEPT !.pc = "push"]
    /\ UNCHANGED <<buffer, socket, channel, shown, missed>>

\* (mutant) Old frames stay.
TruncatedNever(b) == b

Truncated(b) == SubSeq(b, 1, IF Len(b) < Keep THEN Len(b) ELSE Keep)

PushFrame ==
    /\ listener.pc = "push"
    /\ buffer' = Truncated(<<frames>> \o buffer)
    /\ listener' = [pc |-> "publish", frames |-> buffer']
    /\ UNCHANGED <<frames, counted, socket, channel, shown, missed>>

\* Send(e): each subscribed receiver gets the event; one whose backlog is full
\* loses the oldest.
Subscribed == {s \in Sockets : socket[s] # "closed"}

\* (mutant) A full backlog takes no more.
SentUnlessFull(q, e) == IF Len(q) = FeedCapacity THEN q ELSE Append(q, e)

Sent(q, e) == IF Len(q) = FeedCapacity THEN Append(Tail(q), e) ELSE Append(q, e)

PublishFrames ==
    /\ listener.pc = "publish"
    /\ channel' = [s \in Sockets |->
         IF s \in Subscribed
         THEN Sent(channel[s], [frames |-> listener.frames, count |-> counted])
         ELSE channel[s]]
    /\ listener' = [pc |-> "idle", frames |-> <<>>]
    /\ missed' = [s \in Sockets |-> FALSE]
    /\ UNCHANGED <<frames, counted, buffer, socket, shown>>

\* A periodic event, published only while somebody is subscribed.
FillChannel ==
    /\ Subscribed # {}
    /\ channel' = [s \in Sockets |->
         IF s \in Subscribed THEN Sent(channel[s], Other) ELSE channel[s]]
    /\ missed' = [s \in Sockets |->
         missed[s] \/ /\ Len(channel[s]) = FeedCapacity /\ Head(channel[s]) # Other
                      /\ \A i \in 2..FeedCapacity : channel[s][i] = Other]
    /\ UNCHANGED <<frames, counted, buffer, listener, socket, shown>>

-----------------------------------------------------------------------------
(* handle_socket.                                                          *)

\* The socket subscribes first ...
Subscribe(s) ==
    /\ socket[s] = "closed"
    /\ socket' = [socket EXCEPT ![s] = "frames"]
    /\ channel' = [channel EXCEPT ![s] = <<>>]
    /\ shown' = [shown EXCEPT ![s] = NoView]
    /\ missed' = [missed EXCEPT ![s] = FALSE]
    /\ UNCHANGED <<frames, counted, buffer, listener>>

\* ... then takes the snapshot: the frames, and after them the counters ...
SnapshotFrames(s) ==
    /\ socket[s] = "frames"
    /\ shown' = [shown EXCEPT ![s].frames = buffer]
    /\ socket' = [socket EXCEPT ![s] = "stats"]
    /\ UNCHANGED <<frames, counted, buffer, listener, channel, missed>>

SnapshotStats(s) ==
    /\ socket[s] = "stats"
    /\ shown' = [shown EXCEPT ![s].count = counted]
    /\ socket' = [socket EXCEPT ![s] = "open"]
    /\ UNCHANGED <<frames, counted, buffer, listener, channel, missed>>

\* ... and forwards what was published since it subscribed.
Forward(s) ==
    /\ socket[s] = "open" /\ channel[s] # <<>>
    /\ shown' = IF Head(channel[s]) = Other THEN shown
                ELSE [shown EXCEPT ![s] = Head(channel[s])]
    /\ channel' = [channel EXCEPT ![s] = Tail(@)]
    /\ UNCHANGED <<frames, counted, buffer, listener, socket, missed>>

Close(s) ==
    /\ socket[s] # "closed"
    /\ socket' = [socket EXCEPT ![s] = "closed"]
    /\ channel' = [channel EXCEPT ![s] = <<>>]
    /\ shown' = [shown EXCEPT ![s] = NoView]
    /\ missed' = [missed EXCEPT ![s] = FALSE]
    /\ UNCHANGED <<frames, counted, buffer, listener>>

FeedNext ==
    \/ CountFrame \/ PushFrame \/ PublishFrames \/ FillChannel
    \/ \E s \in Sockets :
         Subscribe(s) \/ SnapshotFrames(s) \/ SnapshotStats(s) \/ Forward(s) \/ Close(s)

FeedSpec == FeedInit /\ [][FeedNext]_feedVars

-----------------------------------------------------------------------------
FeedTypeOK ==
    /\ frames \in 0..MaxFed /\ counted \in 0..MaxFed
    /\ buffer \in Seq(1..MaxFed) /\ Len(buffer) <= Keep
    /\ listener \in [pc : {"idle", "push", "publish"}, frames : Seq(1..MaxFed)]
    /\ socket \in [Sockets -> {"closed", "frames", "stats", "open"}]
    /\ channel \in [Sockets -> Seq(View \cup {Other})]
    /\ \A s \in Sockets : Len(channel[s]) <= FeedCapacity
    /\ shown \in [Sockets -> View]
    /\ missed \in [Sockets -> BOOLEAN]

\* A browser that has received what was published shows the frames and the
\* counters as they are, however its snapshot raced the listener and whatever
\* its backlog lost, unless the newest frames were among it (http/ws.rs
\* handle_socket subscribes before it takes the snapshot).
FeedCatchesUp ==
    \A s \in Sockets :
        socket[s] = "open" /\ channel[s] = <<>> /\ listener.pc = "idle" /\ ~missed[s] =>
            shown[s].frames = buffer /\ shown[s].count = counted
=============================================================================

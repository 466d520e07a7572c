----------------------------- MODULE PttAudio -----------------------------
(* Voice from a microphone to a speaker in kaonic-audio-ptt: BurstTx packs *)
(* frames into packets (main.rs), Reticulum carries them, losing some, and *)
(* handle_received_audio decodes them into the bounded queue of the        *)
(* playback task (main.rs, audio.rs).                                      *)
(*                                                                         *)
(* A node hears a peer on its out link and others on its in link, each     *)
(* with a task of its own; the decoder's lock keeps one packet's frames    *)
(* together.  A frame is the number its sender gave it.                    *)
EXTENDS Naturals, Sequences

CONSTANTS
    Links,          \* the links audio arrives on, each with its sender
    PacketFrames,   \* config: frames per packet
    QueueFrames,    \* capacity of the playback queue
    MaxFrames,      \* bound: frames a sender captures
    MaxAir          \* bound: packets on the way on one link

NoLink == "none"

ASSUME AudioAssumption ==
    /\ PacketFrames \in Nat \ {0} /\ QueueFrames \in Nat \ {0}
    /\ MaxFrames \in Nat /\ MaxAir \in Nat \ {0}
    /\ NoLink \notin Links

VARIABLES
    burst,      \* per sender: frames pending in the packet, and Stats.seq
    air,        \* per link: packets on the way, oldest first
    output,     \* audio_output of the receiver: "alsa" or "browser"
    task,       \* per link: what is left of the packet its event task handles
    decoder,    \* the task that holds the lock of rx_codec, or NoLink
    playback,   \* the playback queue
    player,     \* the playback task runs
    played,     \* history: per link, the last frame that was played
    latest,     \* history: the link whose frame entered the queue last
    begun       \* history: links of which part of a packet has been queued

audioVars == <<burst, air, output, task, decoder, playback, player, played, latest, begun>>

Frames(from, n) == [i \in 1..n |-> from + i]

Packet == {p \in Seq(1..MaxFrames) : Len(p) \in 1..PacketFrames}

AudioTypeOK ==
    /\ burst \in [Links -> [pending : 0..PacketFrames - 1, seq : 0..MaxFrames]]
    /\ \A l \in Links : burst[l].seq + burst[l].pending <= MaxFrames
    /\ air \in [Links -> Seq(Packet)] /\ \A l \in Links : Len(air[l]) <= MaxAir
    /\ output \in {"alsa", "browser"}
    /\ task \in [Links -> {<<>>} \cup Packet]
    /\ decoder \in Links \cup {NoLink}
    /\ playback \in Seq([link : Links, frame : 1..MaxFrames]) /\ Len(playback) <= QueueFrames
    /\ player \in BOOLEAN
    /\ played \in [Links -> 0..MaxFrames]
    /\ latest \in Links \cup {NoLink} /\ begun \subseteq Links

AudioInit ==
    /\ burst = [l \in Links |-> [pending |-> 0, seq |-> 0]]
    /\ air = [l \in Links |-> <<>>]
    /\ output \in {"alsa", "browser"}
    /\ task = [l \in Links |-> <<>>]
    /\ decoder = NoLink
    /\ playback = <<>>
    /\ player = TRUE
    /\ played = [l \in Links |-> 0]
    /\ latest = NoLink
    /\ begun = {}

RxUnchanged == UNCHANGED <<output, task, decoder, playback, player, played, latest, begun>>

----------------------------------------------------------------------------
(* The sender: BurstTx.                                                    *)

\* (mutant) The counter is not moved on.
FlushStill(l, n) ==
    /\ burst' = [burst EXCEPT ![l].pending = 0]
    /\ \/ UNCHANGED air
       \/ /\ Len(air[l]) < MaxAir
          /\ air' = [air EXCEPT ![l] = Append(@, Frames(burst[l].seq, n))]

\* flush numbers the n pending frames; without an active link they are gone.
Flush(l, n) ==
    /\ burst' = [burst EXCEPT ![l] = [pending |-> 0, seq |-> @.seq + n]]
    /\ \/ UNCHANGED air
       \/ /\ Len(air[l]) < MaxAir
          /\ air' = [air EXCEPT ![l] = Append(@, Frames(burst[l].seq, n))]

\* A captured frame is encoded; a full packet is sent.
PushPcm(l) ==
    LET n == burst[l].pending + 1 IN
    /\ burst[l].seq + n <= MaxFrames
    /\ IF n < PacketFrames
       THEN burst' = [burst EXCEPT ![l].pending = n] /\ UNCHANGED air
       ELSE Flush(l, n)
    /\ RxUnchanged

\* The talk ends: the trailing frames are flushed.
BurstEnds(l) ==
    /\ burst[l].pending > 0
    /\ Flush(l, burst[l].pending)
    /\ RxUnchanged

\* A packet is lost on the air, or arrives while we talk and is not decoded.
Unheard(l) ==
    /\ air[l] # <<>>
    /\ air' = [air EXCEPT ![l] = Tail(@)]
    /\ UNCHANGED burst /\ RxUnchanged

----------------------------------------------------------------------------
(* The receiver: handle_received_audio, run by the task of each link.      *)

Receive(l) ==
    /\ task[l] = <<>> /\ air[l] # <<>>
    /\ task' = [task EXCEPT ![l] = Head(air[l])]
    /\ air' = [air EXCEPT ![l] = Tail(@)]
    /\ UNCHANGED <<burst, output, decoder, playback, player, played, latest, begun>>

\* rx_codec is locked for the whole packet.
LockDecoder(l) ==
    /\ task[l] # <<>> /\ decoder = NoLink
    /\ decoder' = l
    /\ UNCHANGED <<burst, air, output, task, playback, player, played, latest, begun>>

\* (mutant) The lock is let go after every frame.
UnlockEach(l, rest) == NoLink

\* The lock is free again when nothing is left of the packet.
Unlock(l, rest) == IF rest = <<>> THEN NoLink ELSE l

\* The first n frames of the packet are done with.
Done(l, n) ==
    LET rest == SubSeq(task[l], n + 1, Len(task[l])) IN
    task' = [task EXCEPT ![l] = rest] /\ decoder' = Unlock(l, rest)

Decoded(l) == decoder = l /\ task[l] # <<>>

\* The receiver plays in browsers only: frames are not queued.
ToBrowsers(l) ==
    /\ Decoded(l) /\ output = "browser"
    /\ Done(l, 1)
    /\ UNCHANGED <<burst, air, output, playback, player, played, latest, begun>>

\* The next frame is decoded and the playback queue takes it.
Enqueue(l) ==
    /\ Decoded(l) /\ output = "alsa"
    /\ player /\ Len(playback) < QueueFrames
    /\ playback' = Append(playback, [link |-> l, frame |-> Head(task[l])])
    /\ latest' = l
    /\ begun' = IF Len(task[l]) > 1 THEN begun \cup {l} ELSE begun \ {l}
    /\ Done(l, 1)
    /\ UNCHANGED <<burst, air, output, player, played>>

\* The queue stayed full for playback_wait: the rest of the packet is given up.
GiveUp(l) ==
    /\ Decoded(l) /\ output = "alsa"
    /\ player /\ Len(playback) = QueueFrames
    /\ begun' = begun \ {l}
    /\ Done(l, Len(task[l]))
    /\ UNCHANGED <<burst, air, output, playback, player, played, latest>>

\* The playback task is gone: the packet is abandoned with an error.
NoPlayer(l) ==
    /\ Decoded(l) /\ output = "alsa" /\ ~player
    /\ begun' = begun \ {l}
    /\ Done(l, Len(task[l]))
    /\ UNCHANGED <<burst, air, output, playback, player, played, latest>>

\* playback_loop writes a frame to the sound card, or fails for good.
Play ==
    /\ player /\ playback # <<>>
    /\ playback' = Tail(playback)
    /\ played' = [played EXCEPT ![Head(playback).link] = Head(playback).frame]
    /\ UNCHANGED <<burst, air, output, task, decoder, player, latest, begun>>

PlayerFails ==
    /\ player
    /\ player' = FALSE /\ playback' = <<>>
    /\ UNCHANGED <<burst, air, output, task, decoder, played, latest, begun>>

AudioNext ==
    \/ \E l \in Links : \/ PushPcm(l) \/ BurstEnds(l) \/ Unheard(l)
                        \/ Receive(l) \/ LockDecoder(l) \/ ToBrowsers(l)
                        \/ Enqueue(l) \/ GiveUp(l) \/ NoPlayer(l)
    \/ Play \/ PlayerFails

AudioSpec == AudioInit /\ [][AudioNext]_audioVars

----------------------------------------------------------------------------
(* Properties.                                                             *)

\* What link l has queued, still decodes and still has to come.
FramesOf(packet) == {packet[i] : i \in 1..Len(packet)}
Queued(l) == {i \in 1..Len(playback) : playback[i].link = l}
InQueue(l) == {playback[i].frame : i \in Queued(l)}
Coming(l) == UNION {FramesOf(air[l][i]) : i \in 1..Len(air[l])}

Before(S, T) == \A m \in S, n \in T : m < n
Rising(s) == \A i, j \in 1..Len(s) : i < j => s[i] < s[j]

\* Voice is played in the order it was spoken and no frame twice, through
\* packets that are lost, queues that overflow and talks that end early.
PlayedInOrder ==
    \A l \in Links :
        /\ \A i, j \in Queued(l) : i < j => playback[i].frame < playback[j].frame
        /\ Rising(task[l])
        /\ Before({played[l]}, InQueue(l) \cup FramesOf(task[l]) \cup Coming(l))
        /\ Before(InQueue(l), FramesOf(task[l]) \cup Coming(l))
        /\ Before(FramesOf(task[l]), Coming(l))

\* Two peers that talk at once never interleave within a packet: while part of
\* a packet is queued, no other link's frame comes after it.
PacketsWhole == \A l \in begun : latest = l

\* Both: voice is played in order, and packets of two talkers are not mixed.
VoiceInOrder == PlayedInOrder /\ PacketsWhole
=============================================================================

---------------------------- MODULE AudioControl ----------------------------
(***************************************************************************)
(* One mixer control of the gateway (audio.rs, the /api/audio handlers) as *)
(* the Media pages of several browsers show and set it (pages/media.rs).   *)
(* A control without a switch of its own to mute it with is muted softly:  *)
(* its volume is set to zero and the level it had is kept in memory.       *)
(***************************************************************************)
EXTENDS Naturals

CONSTANTS
    Pages,            \* browsers with the Media page
    NoPage,
    MaxVolume,        \* volumes are 0..MaxVolume
    Device            \* the volume the hardware makes of the one it is set to

ASSUME AudioControlAssumption ==
    /\ Device \in [0..MaxVolume -> 0..MaxVolume]
    /\ NoPage \notin Pages /\ MaxVolume \in Nat
    /\ Device[0] = 0  \* the lowest volume reads as zero; others may be rounded to it

VARIABLES
    volume,           \* the mixer's volume
    switch,           \* the separate switch: "on", "off", or there is "none", and
                      \* the volume's own, which nobody here sets, may be "ownoff"
    level,            \* soft_mute_levels, 0 for no entry
    onDisk,           \* what alsactl store has saved
    page,             \* what each page shows, and whether its timer is set
    put,              \* the request each page is waiting for
    last,             \* history: the page whose request was the last to start
    chosen,           \* history: ... what it asked for
    clean             \* history: ... has not met another, nor failed

audioCtlVars == <<volume, switch, level, onDisk, page, put, last, chosen, clean>>
mixer == <<volume, switch, level, onDisk>>

Volumes == 0..MaxVolume
States == [volume : Volumes, muted : BOOLEAN]
NoPut == [pc |-> "none", ask |-> [volume |-> 0, muted |-> FALSE]]
Busy(b) == put[b].pc # "none"
Switches == {"none", "ownoff", "on", "off"}
Soft == switch \in {"none", "ownoff"}
Off == switch \in {"ownoff", "off"}

\* read_audio_control_from_card, parse_amixer_state: what the mixer says; without
\* a separate switch, the volume's own.
Raw == [volume |-> volume, muted |-> Off]

ControlInit ==
    /\ volume \in {Device[v] : v \in Volumes}
    /\ switch \in Switches
    /\ level = 0
    /\ onDisk = [volume |-> volume, switch |-> switch]
    /\ page = [b \in Pages |-> [shows |-> Raw, timer |-> FALSE]]
    /\ put = [b \in Pages |-> NoPut]
    /\ last = NoPage
    /\ chosen = NoPut.ask
    /\ clean = FALSE

-----------------------------------------------------------------------------
(* Reading.                                                                *)

\* read_control: a volume of zero with a level kept is a soft mute.
Shown == IF Soft /\ volume = 0 /\ level > 0 THEN [volume |-> level, muted |-> TRUE] ELSE Raw

\* load_audio_cards, when the page is opened, knows of no soft mute.
OpenPage(b) ==
    /\ ~Busy(b)
    /\ page' = [page EXCEPT ![b] = [shows |-> Raw, timer |-> FALSE]]
    /\ last' = IF last = b THEN NoPage ELSE last
    /\ UNCHANGED <<mixer, put, chosen, clean>>

-----------------------------------------------------------------------------
(* The page: busy, it takes no input.                                      *)

SlideInput(b, v) ==
    /\ ~Busy(b)
    /\ page' = [page EXCEPT ![b] = [shows |-> [volume |-> v, muted |-> FALSE], timer |-> TRUE]]
    /\ last' = IF last = b THEN NoPage ELSE last
    /\ UNCHANGED <<mixer, put, chosen, clean>>

\* writeState: from the timer, from the slider let go, or from the mute button.
WriteState(b, shows) ==
    /\ page' = [page EXCEPT ![b] = [shows |-> shows, timer |-> FALSE]]
    /\ put' = [put EXCEPT ![b] = [pc |-> "level", ask |-> shows]]
    /\ last' = b /\ chosen' = shows
    /\ clean' = ~\E q \in Pages : Busy(q)
    /\ UNCHANGED mixer

SlideWrite(b) ==
    /\ page[b].timer
    /\ ~Busy(b)
    /\ WriteState(b, page[b].shows)

ClickMute(b) ==
    /\ ~Busy(b)
    /\ WriteState(b, [page[b].shows EXCEPT !.muted = ~@])

\* playSample drops the timer; test_audio_control_linux answers with the raw
\* state when the sample has been played.
ClickTest(b) ==
    /\ ~Busy(b)
    /\ page' = [page EXCEPT ![b].timer = FALSE]
    /\ put' = [put EXCEPT ![b] = [NoPut EXCEPT !.pc = "test"]]
    /\ last' = IF last = b THEN NoPage ELSE last
    /\ clean' = FALSE
    /\ UNCHANGED <<mixer, chosen>>

-----------------------------------------------------------------------------
(* write_control                                                           *)

\* (mutants) The level is kept only by a volume that is heard; a volume of zero
\* leaves it.
LevelAfterUnmuted(ask) == IF ask.muted THEN level ELSE ask.volume
LevelAfterKept(ask) == IF ask.volume > 0 THEN ask.volume ELSE level

\* set_soft_mute_level, clear_soft_mute_level
LevelAfter(ask) ==
    IF ask.volume > 0 THEN ask.volume ELSE IF ask.muted THEN level ELSE 0

SetLevel(b) ==
    /\ put[b].pc = "level"
    /\ level' = IF Soft THEN LevelAfter(put[b].ask) ELSE level
    /\ put' = [put EXCEPT ![b].pc = "volume"]
    /\ UNCHANGED <<volume, switch, onDisk, page, last, chosen, clean>>

\* write_linux_control: amixer sset the volume, then the switch, if any.
SetVolume(b) ==
    /\ put[b].pc = "volume"
    /\ volume' = IF Soft /\ put[b].ask.muted THEN 0 ELSE Device[put[b].ask.volume]
    /\ put' = [put EXCEPT ![b].pc = IF Soft THEN "reply" ELSE "switch"]
    /\ UNCHANGED <<switch, level, onDisk, page, last, chosen, clean>>

SetSwitch(b) ==
    /\ put[b].pc = "switch"
    /\ switch' = IF put[b].ask.muted THEN "off" ELSE "on"
    /\ put' = [put EXCEPT ![b].pc = "reply"]
    /\ UNCHANGED <<volume, level, onDisk, page, last, chosen, clean>>

\* syncState takes whatever the reply says.
Reply(b) ==
    LET ask == put[b].ask
        says == IF put[b].pc = "reply" /\ Soft /\ ask.muted
                THEN [volume |-> IF level > 0 THEN level ELSE ask.volume, muted |-> TRUE]
                ELSE Raw
    IN  /\ put[b].pc \in {"reply", "test"}
        /\ page' = [page EXCEPT ![b].shows = says]
        /\ put' = [put EXCEPT ![b] = NoPut]
        /\ UNCHANGED <<mixer, last, chosen, clean>>

\* amixer, aplay or the network fails: the page goes on showing what it asked.
ReplyFails(b) ==
    /\ put[b].pc \in {"level", "volume", "switch", "test"}
    /\ put' = [put EXCEPT ![b] = NoPut]
    /\ last' = IF last = b THEN NoPage ELSE last
    /\ UNCHANGED <<mixer, page, chosen, clean>>

-----------------------------------------------------------------------------
(* The device.                                                             *)

\* save_card: alsactl store keeps the mixer's state, a soft mute's zero too.
SaveCard ==
    /\ onDisk' = [volume |-> volume, switch |-> switch]
    /\ UNCHANGED <<volume, switch, level, page, put, last, chosen, clean>>

\* A reboot restores what was stored; the levels are gone.
Reboot ==
    /\ volume' = onDisk.volume /\ switch' = onDisk.switch
    /\ level' = 0
    /\ put' = [b \in Pages |-> NoPut]
    /\ last' = NoPage
    /\ UNCHANGED <<onDisk, page, chosen, clean>>

ControlNext ==
    \/ \E b \in Pages :
          \/ OpenPage(b) \/ SlideWrite(b) \/ ClickMute(b) \/ ClickTest(b)
          \/ \E v \in Volumes : SlideInput(b, v)
          \/ SetLevel(b) \/ SetVolume(b) \/ SetSwitch(b) \/ Reply(b) \/ ReplyFails(b)
    \/ SaveCard \/ Reboot

ControlSpec == ControlInit /\ [][ControlNext]_audioCtlVars

-----------------------------------------------------------------------------
(* Properties.                                                             *)

\* Types.
ControlTypeOK ==
    /\ volume \in Volumes /\ level \in Volumes
    /\ switch \in Switches
    /\ onDisk \in [volume : Volumes, switch : Switches]
    /\ page \in [Pages -> [shows : States, timer : BOOLEAN]]
    /\ put \in [Pages -> [pc : {"none", "level", "volume", "switch", "reply", "test"},
                          ask : States]]
    /\ last \in Pages \cup {NoPage} /\ chosen \in States /\ clean \in BOOLEAN

\* After a write that met no other and was answered, whatever was written, kept and
\* muted before: what was to be silent is silent and is shown so; what was to be
\* heard has the volume asked for, as far as the hardware has it, and is shown
\* muted only by a switch of its own that nobody here sets; what the page shows is
\* true of the mixer; and any reader is told the same, the volume a mute has kept
\* for later included (write_control, read_control).  Two exceptions the code has:
\* a mute at volume zero with none kept is not told from a volume of zero, and a
\* volume that the hardware rounds to zero is told to readers as a mute.
ShownAsAsked ==
    \A b \in Pages :
       LET shows == page[b].shows
           silent == volume = 0 \/ Off
           roundedAway == Soft /\ ~chosen.muted /\ chosen.volume > 0 /\ volume = 0
       IN  last = b /\ clean /\ ~Busy(b)
           => /\ chosen.muted => silent /\ shows.muted
              /\ ~chosen.muted => /\ volume = Device[chosen.volume]
                                 /\ shows.muted <=> switch = "ownoff"
              /\ IF shows.muted THEN silent ELSE volume = shows.volume
              /\ \/ Shown = shows
                 \/ shows = [volume |-> 0, muted |-> TRUE]
                 \/ roundedAway /\ Shown = [volume |-> chosen.volume, muted |-> TRUE]
=============================================================================

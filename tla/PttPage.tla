------------------------------ MODULE PttPage ------------------------------
(* The browser page that kaonic-audio-ptt serves (the script inside        *)
(* src/kaonic-audio-ptt/src/main.rs): the talk button with its socket to   *)
(* /ws/browser-ptt, and the speaker with its socket to /ws/browser-rx.     *)
(*                                                                         *)
(* The script runs on one thread; a step is what it does from one event or *)
(* resolved promise to the next await.  startTalk and stopTalk both await, *)
(* so a release may run in the middle of the start it is to undo.          *)
EXTENDS FiniteSets, Naturals

CONSTANT MaxRetries     \* bound: reconnects of the speaker that are scheduled

ASSUME PageAssumption == MaxRetries \in Nat

VARIABLES
    button,     \* the talk button is held
    capture,    \* the button still has the pointer's capture
    talk,       \* startTalk: which await it is at; "idle" when not `starting`
    active,     \* microphone frames are sent
    context,    \* audioContext is set
    ptt,        \* the socket in `ws`
    halts,      \* the stopTalk calls that are awaiting audioContext.close()
    mode,       \* audioOutput: "browser" or "alsa"
    rx,         \* the socket in `rxWs`
    failed,     \* a speaker socket has had its error, but not its close event
    retries     \* timers that will call startRxAudio

talkVars == <<button, capture, talk, active, context, ptt, halts>>
rxVars == <<mode, rx, failed, retries>>
pageVars == <<talkVars, rxVars>>

Callers == {"release", "capture", "catch"}

PageTypeOK ==
    /\ {button, capture, active, context, failed} \subseteq BOOLEAN
    /\ talk \in {"idle", "saving", "priming", "opening", "failing", "catch"}
    /\ ptt \in {"none", "connecting", "open", "dead"}
    /\ halts \subseteq Callers
    /\ mode \in {"browser", "alsa"}
    /\ rx \in {"none", "connecting", "open"}
    /\ retries \in 0..MaxRetries

PageInit ==
    /\ button = FALSE /\ capture = FALSE /\ talk = "idle" /\ active = FALSE
    /\ context = FALSE /\ ptt = "none" /\ halts = {}
    /\ mode \in {"browser", "alsa"}
    /\ rx = IF mode = "browser" THEN "connecting" ELSE "none"
    /\ failed = FALSE /\ retries = 0

----------------------------------------------------------------------------
(* startTalk.                                                              *)

\* pointerdown with a contact selected.
Press ==
    /\ ~button
    /\ button' = TRUE /\ capture' = TRUE
    /\ IF active \/ talk # "idle"
       THEN UNCHANGED talk
       ELSE talk' = "saving"
    /\ UNCHANGED <<active, context, ptt, halts, rxVars>>

\* saveSelectedPeer returns.
Saved ==
    /\ talk = "saving"
    /\ talk' = "priming"
    /\ UNCHANGED <<button, capture, active, context, ptt, halts, rxVars>>

\* primeMicrophone returns; the context and the socket are made.
Primed ==
    /\ talk = "priming"
    /\ talk' = "opening" /\ context' = TRUE /\ ptt' = "connecting"
    /\ UNCHANGED <<button, capture, active, halts, rxVars>>

\* The socket opens: nothing asks whether the button is still held.
Opened ==
    /\ talk = "opening" /\ ptt = "connecting"
    /\ ptt' = "open" /\ active' = TRUE /\ talk' = "idle"
    /\ UNCHANGED <<button, capture, context, halts, rxVars>>

\* stopTalk(c) up to its first await: with a context it waits for its close,
\* otherwise it closes the socket at once.
StopTalk(c) ==
    /\ active' = FALSE
    /\ IF context THEN halts' = halts \cup {c} /\ UNCHANGED ptt
                  ELSE ptt' = "none" /\ UNCHANGED halts

\* The PUT, the microphone or the socket fails.
StartFails ==
    /\ talk \in {"saving", "priming", "opening", "failing"}
    /\ talk' = "catch"
    /\ StopTalk("catch")
    /\ UNCHANGED <<button, capture, context, rxVars>>

\* startTalk's own stopTalk has returned.
Caught ==
    /\ talk = "catch" /\ "catch" \notin halts
    /\ talk' = "idle"
    /\ UNCHANGED <<button, capture, active, context, ptt, halts, rxVars>>

----------------------------------------------------------------------------
(* stopTalk.                                                               *)

\* A start that is waiting for a socket that gets closed will fail.
Doomed == IF talk = "opening" /\ ptt = "connecting" THEN "failing" ELSE talk

\* pointerup.
Release ==
    /\ button /\ "release" \notin halts
    /\ button' = FALSE
    /\ StopTalk("release")
    /\ talk' = IF context THEN talk ELSE Doomed
    /\ UNCHANGED <<capture, context, rxVars>>

\* lostpointercapture follows, and calls stopTalk once more.
LostCapture ==
    /\ capture /\ ~button /\ "capture" \notin halts
    /\ capture' = FALSE
    /\ StopTalk("capture")
    /\ talk' = IF context THEN talk ELSE Doomed
    /\ UNCHANGED <<button, context, rxVars>>

\* audioContext.close() has resolved: whatever context and socket are there
\* by now are dropped.
HaltResumes(c) ==
    /\ c \in halts
    /\ halts' = halts \ {c}
    /\ context' = FALSE /\ ptt' = "none" /\ talk' = Doomed
    /\ UNCHANGED <<button, capture, active, rxVars>>

\* The server ends the session; the page listens to no close event.
ServerCloses ==
    /\ ptt = "open"
    /\ ptt' = "dead"
    /\ UNCHANGED <<button, capture, talk, active, context, halts, rxVars>>

----------------------------------------------------------------------------
(* The speaker: startRxAudio, stopRxAudio, setAudioOutput, loadStatus.     *)

\* startRxAudio: no second socket beside one that is connecting or open.
StartRx == rx' = IF mode' = "browser" /\ rx = "none" THEN "connecting" ELSE rx

SetAudioOutput(m) ==
    /\ mode' = m
    /\ IF m = "browser" THEN StartRx /\ UNCHANGED failed
                        ELSE rx' = "none" /\ failed' = failed
    /\ UNCHANGED <<retries, talkVars>>

RxOpens ==
    /\ rx = "connecting"
    /\ rx' = "open"
    /\ UNCHANGED <<mode, failed, retries, talkVars>>

\* onerror drops the reference; the close event is still to come.
RxError ==
    /\ rx \in {"connecting", "open"} /\ ~failed
    /\ rx' = "none" /\ failed' = TRUE
    /\ UNCHANGED <<mode, retries, talkVars>>

\* (mutant) A closed speaker is not opened again.
ClosesQuietly ==
    /\ failed \/ rx = "open"
    /\ rx' = "none" /\ failed' = FALSE
    /\ UNCHANGED <<mode, retries, talkVars>>

\* onclose, of the current socket or of the one that failed: it drops the
\* reference, and schedules a new start while the page is to play.
RxCloses ==
    /\ failed \/ rx = "open"
    /\ rx' = "none" /\ failed' = FALSE
    /\ IF mode = "browser"
       THEN retries < MaxRetries /\ retries' = retries + 1
       ELSE UNCHANGED retries
    /\ UNCHANGED <<mode, talkVars>>

RxTimer ==
    /\ retries > 0
    /\ retries' = retries - 1
    /\ UNCHANGED <<mode, failed, talkVars>>
    /\ StartRx

----------------------------------------------------------------------------

TalkNext ==
    \/ Press \/ Saved \/ Primed \/ Opened \/ StartFails \/ Caught
    \/ Release \/ LostCapture \/ (\E c \in Callers : HaltResumes(c)) \/ ServerCloses

RxNext ==
    \/ \E m \in {"browser", "alsa"} : SetAudioOutput(m)
    \/ RxOpens \/ RxError \/ RxCloses \/ RxTimer

PageNext == TalkNext \/ RxNext

\* Timers fire, the close event of a failed socket comes, and the service
\* that accepts the speaker often enough is the network's part.
PageFairness ==
    /\ WF_pageVars(RxTimer)
    /\ WF_pageVars(failed /\ RxCloses)
    /\ SF_pageVars(RxOpens)

PageSpec == PageInit /\ [][PageNext]_pageVars

----------------------------------------------------------------------------
(* Properties.                                                             *)

\* `release to stop`: once the button is up and nothing is under way any
\* more, the microphone is not sent.
ReleaseStops ==
    (~button /\ talk = "idle" /\ halts = {}) => ~active

\* A speaker that is wanted is connected again and again, whatever the order
\* of the error, close and timer events: no event leaves it off for good.
SpeakerReturns == []<>(mode = "alsa" \/ rx = "open")
=============================================================================

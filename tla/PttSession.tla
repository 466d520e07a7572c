---------------------------- MODULE PttSession ----------------------------
(* The transmit session of kaonic-audio-ptt (src/kaonic-audio-ptt/src/     *)
(* main.rs): which source has the floor, and the flag by which the rest of *)
(* the process knows that the node is talking.                             *)
(*                                                                         *)
(* `session` is AppState.tx_session, a value under a mutex; `transmitting` *)
(* is Stats.transmitting, an atomic written both with and without that     *)
(* mutex.  The handlers, the tasks they spawn and the shutdown run         *)
(* concurrently; a step is what one of them does up to the next point at   *)
(* which another may run.                                                  *)
EXTENDS FiniteSets

CONSTANTS
    Alsa,       \* /api/ptt/start requests, each with the task it spawns
    Browsers,   \* /ws/browser-ptt requests, each with its session id
    Stops,      \* /api/ptt/stop requests
    Main,       \* the main task, which stops the session at a shutdown
    NoOne       \* tx_session is None

ASSUME DistinctSources ==
    Alsa \cap Browsers = {} /\ NoOne \notin Alsa \cup Browsers /\ Main \notin Stops

VARIABLES
    session,        \* the source in tx_session, or NoOne
    transmitting,   \* Stats.transmitting
    alsa,           \* how far each start request, then its task, has got
    browser,        \* how far each browser's request, then its socket, has got
    ctl,            \* per stop request and for Main: pc, and the task it took
    staleFlag,      \* history: the flag was set for a session that had gone,
                    \* or the request that was to clear it was dropped
    clearedLate     \* history: the flag was cleared under a newer session

vars == <<session, transmitting, alsa, browser, ctl, staleFlag, clearedLate>>

Sources == Alsa \cup Browsers
Controls == Stops \cup {Main}
Idle == [pc |-> "idle", of |-> NoOne]

Serving == ctl[Main].pc # "off"

TypeOK ==
    /\ session \in Sources \cup {NoOne}
    /\ alsa \in [Alsa -> {"idle", "asked", "talking", "cancelled", "over"}]
    /\ browser \in [Browsers -> {"idle", "asked", "entered", "open", "closing", "lost"}]
    /\ ctl \in [Controls -> [pc : {"idle", "cancel", "await", "clear", "off"},
                             of : Alsa \cup {NoOne}]]
    /\ {transmitting, staleFlag, clearedLate} \subseteq BOOLEAN

Init ==
    /\ session = NoOne
    /\ transmitting = FALSE
    /\ alsa = [a \in Alsa |-> "idle"]
    /\ browser = [b \in Browsers |-> "idle"]
    /\ ctl = [c \in Controls |-> Idle]
    /\ staleFlag = FALSE
    /\ clearedLate = FALSE

SetFlag(stale) ==
    /\ transmitting' = TRUE
    /\ staleFlag' = stale
    /\ clearedLate' = FALSE

ClearFlag(holder) ==
    /\ transmitting' = FALSE
    /\ staleFlag' = FALSE
    /\ clearedLate' = (holder # NoOne)

FlagUnchanged == UNCHANGED <<transmitting, staleFlag, clearedLate>>

----------------------------------------------------------------------------
(* post_ptt_start: the peer's link is checked, then the lock is awaited.   *)

\* Nobody refers to the task of an earlier request any more.
AlsaFree(a) ==
    /\ alsa[a] \in {"idle", "over"}
    /\ session # a
    /\ \A c \in Controls : ctl[c].of # a

AlsaAsk(a) ==
    /\ Serving
    /\ AlsaFree(a)
    /\ alsa' = [alsa EXCEPT ![a] = "asked"]
    /\ UNCHANGED <<session, browser, ctl>> /\ FlagUnchanged

\* Under the lock: the task is spawned, the flag set and the session entered.
AlsaEnter(a) ==
    /\ Serving
    /\ alsa[a] = "asked"
    /\ IF session # NoOne
       THEN /\ alsa' = [alsa EXCEPT ![a] = "idle"]
            /\ UNCHANGED session /\ FlagUnchanged
       ELSE /\ alsa' = [alsa EXCEPT ![a] = "talking"]
            /\ session' = a
            /\ SetFlag(FALSE)
    /\ UNCHANGED <<browser, ctl>>

\* transmit_loop returns: its capture ended or a packet found no link.  The
\* session stays; only a stop takes it.
AlsaFails(a) ==
    /\ Serving
    /\ alsa[a] = "talking"
    /\ alsa' = [alsa EXCEPT ![a] = "over"]
    /\ UNCHANGED <<session, browser, ctl>> /\ FlagUnchanged

\* transmit_loop sees its token cancelled, flushes and awaits the capture.
AlsaDrains(a) ==
    /\ Serving
    /\ alsa[a] = "cancelled"
    /\ alsa' = [alsa EXCEPT ![a] = "over"]
    /\ UNCHANGED <<session, browser, ctl>> /\ FlagUnchanged

----------------------------------------------------------------------------
(* get_browser_ptt_ws and the socket it upgrades to.                       *)

BrowserAsk(b) ==
    /\ Serving
    /\ browser[b] = "idle" \/ (browser[b] = "lost" /\ session # b)
    /\ browser' = [browser EXCEPT ![b] = "asked"]
    /\ UNCHANGED <<session, alsa, ctl>> /\ FlagUnchanged

\* (mutant) A browser takes the floor from the sound card, too.
BrowserTakesAll(b) ==
    /\ Serving
    /\ browser[b] = "asked"
    /\ session' = b
    /\ browser' = [browser EXCEPT ![b] = "entered"]
    /\ UNCHANGED <<alsa, ctl>> /\ FlagUnchanged

BrowserEnter(b) ==
    /\ Serving
    /\ browser[b] = "asked"
    /\ IF session \in Alsa
       THEN browser' = [browser EXCEPT ![b] = "idle"] /\ UNCHANGED session
       ELSE browser' = [browser EXCEPT ![b] = "entered"] /\ session' = b
    /\ UNCHANGED <<alsa, ctl>> /\ FlagUnchanged

\* The flag is set when the lock has been released.
BrowserMark(b) ==
    /\ Serving
    /\ browser[b] = "entered"
    /\ SetFlag(session = NoOne)
    /\ browser' = [browser EXCEPT ![b] = "open"]
    /\ UNCHANGED <<session, alsa, ctl>>

\* The upgrade fails: neither the loop nor finish_browser_tx_session runs.
BrowserLost(b) ==
    /\ Serving
    /\ browser[b] = "open"
    /\ browser' = [browser EXCEPT ![b] = "lost"]
    /\ UNCHANGED <<session, alsa, ctl>> /\ FlagUnchanged

\* browser_transmit_loop returns: socket closed, a bad frame, or no link.
BrowserCloses(b) ==
    /\ Serving
    /\ browser[b] = "open"
    /\ browser' = [browser EXCEPT ![b] = "closing"]
    /\ UNCHANGED <<session, alsa, ctl>> /\ FlagUnchanged

\* (mutant) The session is cleared whoever has it by now.
FinishAnyone(b) ==
    /\ Serving
    /\ browser[b] = "closing"
    /\ session' = NoOne
    /\ ClearFlag(NoOne)
    /\ browser' = [browser EXCEPT ![b] = "idle"]
    /\ UNCHANGED <<alsa, ctl>>

\* (mutant) The flag is cleared although the session is somebody else's.
FinishClearsFlag(b) ==
    /\ Serving
    /\ browser[b] = "closing"
    /\ session' = IF session = b THEN NoOne ELSE session
    /\ ClearFlag(NoOne)
    /\ browser' = [browser EXCEPT ![b] = "idle"]
    /\ UNCHANGED <<alsa, ctl>>

FinishBrowserTxSession(b) ==
    /\ Serving
    /\ browser[b] = "closing"
    /\ IF session = b THEN session' = NoOne /\ ClearFlag(NoOne)
       ELSE UNCHANGED session /\ FlagUnchanged
    /\ browser' = [browser EXCEPT ![b] = "idle"]
    /\ UNCHANGED <<alsa, ctl>>

----------------------------------------------------------------------------
(* stop_alsa_tx_task and shutdown_tx_session.                              *)

\* A stop takes the sound card's session; a browser's is put back.
StopTake(s) ==
    /\ Serving
    /\ ctl[s].pc = "idle"
    /\ session \in Alsa
    /\ ctl' = [ctl EXCEPT ![s] = [pc |-> "cancel", of |-> session]]
    /\ session' = NoOne
    /\ UNCHANGED <<alsa, browser>> /\ FlagUnchanged

\* A shutdown takes any session, but can stop only the sound card's task.
ShutdownTake ==
    /\ ctl[Main].pc = "idle"
    /\ ctl' = [ctl EXCEPT ![Main] =
                 IF session \in Alsa THEN [pc |-> "cancel", of |-> session]
                                     ELSE [pc |-> "clear", of |-> NoOne]]
    /\ session' = NoOne
    /\ UNCHANGED <<alsa, browser>> /\ FlagUnchanged

\* (mutant) The handle is awaited, but the token never cancelled.
CancelNothing(c) ==
    /\ Serving
    /\ ctl[c].pc = "cancel"
    /\ ctl' = [ctl EXCEPT ![c].pc = "await"]
    /\ UNCHANGED <<session, alsa, browser>> /\ FlagUnchanged

Cancel(c) ==
    /\ Serving
    /\ ctl[c].pc = "cancel"
    /\ ctl' = [ctl EXCEPT ![c].pc = "await"]
    /\ alsa' = IF alsa[ctl[c].of] = "talking"
               THEN [alsa EXCEPT ![ctl[c].of] = "cancelled"] ELSE alsa
    /\ UNCHANGED <<session, browser>> /\ FlagUnchanged

AwaitTask(c) ==
    /\ Serving
    /\ ctl[c].pc = "await"
    /\ alsa[ctl[c].of] = "over"
    /\ ctl' = [ctl EXCEPT ![c] = [pc |-> "clear", of |-> NoOne]]
    /\ UNCHANGED <<session, alsa, browser>> /\ FlagUnchanged

\* (mutant) The flag is left to whoever starts next.
ClearNothing(c) ==
    /\ Serving
    /\ ctl[c].pc = "clear"
    /\ ctl' = [ctl EXCEPT ![c].pc = IF c = Main THEN "off" ELSE "idle"]
    /\ UNCHANGED <<session, alsa, browser>> /\ FlagUnchanged

\* The flag is cleared without the lock, whoever has the session by now.
Clear(c) ==
    /\ Serving
    /\ ctl[c].pc = "clear"
    /\ ClearFlag(session)
    /\ ctl' = [ctl EXCEPT ![c].pc = IF c = Main THEN "off" ELSE "idle"]
    /\ UNCHANGED <<session, alsa, browser>>

\* The client of a stop goes away, and the handler is dropped at its await.
StopDropped(s) ==
    /\ Serving
    /\ ctl[s].pc = "await"
    /\ ctl' = [ctl EXCEPT ![s] = Idle]
    /\ staleFlag' = transmitting
    /\ UNCHANGED <<session, transmitting, alsa, browser, clearedLate>>

\* The process is started again, after a shutdown or a crash.
Restart ==
    /\ session' = NoOne
    /\ transmitting' = FALSE
    /\ alsa' = [a \in Alsa |-> "idle"]
    /\ browser' = [b \in Browsers |-> "idle"]
    /\ ctl' = [c \in Controls |-> Idle]
    /\ staleFlag' = FALSE
    /\ clearedLate' = FALSE

----------------------------------------------------------------------------

AlsaStep(a) == AlsaEnter(a) \/ AlsaDrains(a)
BrowserStep(b) == BrowserEnter(b) \/ BrowserMark(b) \/ FinishBrowserTxSession(b)
ControlStep(c) == Cancel(c) \/ AwaitTask(c) \/ Clear(c)

Next ==
    \/ \E a \in Alsa : AlsaAsk(a) \/ AlsaEnter(a) \/ AlsaFails(a) \/ AlsaDrains(a)
    \/ \E b \in Browsers : \/ BrowserAsk(b) \/ BrowserEnter(b) \/ BrowserMark(b)
                           \/ BrowserLost(b) \/ BrowserCloses(b)
                           \/ FinishBrowserTxSession(b)
    \/ \E s \in Stops : StopTake(s) \/ StopDropped(s)
    \/ \E c \in Controls : Cancel(c) \/ AwaitTask(c) \/ Clear(c)
    \/ ShutdownTake \/ Restart

Spec == Init /\ [][Next]_vars

\* Handlers and tasks that have begun go on; what clients and the radio do,
\* and a failing stream, is not promised.
Fairness ==
    /\ \A a \in Alsa : WF_vars(AlsaStep(a))
    /\ \A b \in Browsers : WF_vars(BrowserStep(b))
    /\ \A c \in Controls : WF_vars(ControlStep(c))

FairSpec == Spec /\ Fairness

----------------------------------------------------------------------------
(* Properties.                                                             *)

\* A task that records from the node's microphone can be stopped: it is the
\* session, or a stop that took it is about to cancel it.  Were the slot ever
\* overwritten or emptied otherwise, the node would talk until its restart.
TaskReachable ==
    \A a \in Alsa : alsa[a] = "talking" =>
        \/ session = a
        \/ \E c \in Controls : ctl[c] = [pc |-> "cancel", of |-> a]

\* While the flag is set somebody has the floor, or a stop is on its way to
\* clear it, or one of the two known slips has left it set: a browser marked
\* a session that was gone, or a stop's client went away.  A flag that stays
\* set mutes received audio and announces for good.
FlagHasOwner ==
    transmitting => \/ session # NoOne
                    \/ \E c \in Controls : ctl[c].pc \in {"cancel", "await", "clear"}
                    \/ staleFlag

\* Announced(x): source x has told the rest of the process that it talks.
Announced(x) == x \in Alsa \/ browser[x] \in {"open", "closing", "lost"}

\* A source that has the floor and announced it is known to be talking; the
\* only way to lose the flag is a stop that clears it late.
FlagCoversFloor ==
    (session # NoOne /\ Announced(session)) => transmitting \/ clearedLate

\* The handlers, whatever their order, implement the floor of PttLock.
Live == {a \in Alsa : alsa[a] \in {"talking", "cancelled"}}
            \cup {b \in Browsers : browser[b] \in {"entered", "open", "closing"}}
Floor == INSTANCE PttLock WITH
            holder <- session, live <- Live, up <- ctl[Main].pc = "idle"
ImplementsLock == Floor!LockSpec

\* A stop that has taken a session gets its answer: the task it awaits ends.
StopReturns == \A s \in Stops : ctl[s].pc # "idle" ~> ctl[s].pc = "idle" \/ ~Serving

\* All three: the flag by which the process knows that it talks has an owner, and
\* whoever has the floor has the flag.
FlagTruthful == TaskReachable /\ FlagHasOwner /\ FlagCoversFloor
=============================================================================

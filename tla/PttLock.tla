------------------------------ MODULE PttLock ------------------------------
(* What the transmit session of kaonic-audio-ptt promises, in whatever     *)
(* order its handlers run: a floor that one source holds.  The node's own  *)
(* sound card (ALSA) gets the floor only when it is free, and loses it     *)
(* only to a stop; a browser may take it from another browser; a source    *)
(* whose stream ends gives up its own floor and nobody else's.             *)

CONSTANTS
    Alsa,       \* transmits from the node's sound card
    Browsers,   \* transmits from a browser's microphone
    NoOne

VARIABLES
    holder,     \* the source that has the floor, or NoOne
    live,       \* the sources whose stream is running
    up          \* the service is not shutting down

lockVars == <<holder, live, up>>

Sources == Alsa \cup Browsers

LockInit == holder = NoOne /\ live = {} /\ up = TRUE

Take(x) ==
    /\ x \notin live
    /\ holder = NoOne \/ {x, holder} \subseteq Browsers
    /\ holder' = x
    /\ live' = live \cup {x}
    /\ UNCHANGED up

\* A stream ends; its own floor is given up with it, or is left behind.
End(x) ==
    /\ x \in live
    /\ live' = live \ {x}
    /\ holder' \in {holder, IF holder = x THEN NoOne ELSE holder}
    /\ UNCHANGED up

\* A stop takes the floor from the sound card, whose stream then runs out.
Stop ==
    /\ holder \in Alsa
    /\ holder' = NoOne
    /\ UNCHANGED <<live, up>>

ShutDown == up /\ up' = FALSE /\ holder' = NoOne /\ UNCHANGED live

\* The process is started again, after a shutdown or a crash.
Restart == holder' = NoOne /\ live' = {} /\ up' = TRUE

LockNext ==
    \/ \E x \in Sources : Take(x) \/ End(x)
    \/ Stop \/ ShutDown \/ Restart

LockSpec == LockInit /\ [][LockNext]_lockVars
=============================================================================

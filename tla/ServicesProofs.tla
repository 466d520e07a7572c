--------------------------- MODULE ServicesProofs ---------------------------
(***************************************************************************)
(* What the services guarantee for any number of requests, browsers and    *)
(* settings.  kaonic-audio-ptt: the transmitting flag tells the truth and  *)
(* the handlers implement the floor of PttLock (PttSession), and the       *)
(* configuration is kept (PttConfig) and a contact is shown online only    *)
(* while it is (PttPeers).  kaonic-installer: a plugin's row and its unit  *)
(* agree (InstallerService), and on its page a file goes to the plugin it  *)
(* was picked for (PluginPage).  Last, what holds of each of them holds of *)
(* their product (MCServices).                                             *)
(***************************************************************************)
EXTENDS MCServices, SequenceTheorems, FiniteSetTheorems, TLAPS

-----------------------------------------------------------------------------
(* The transmit session: types.                                            *)

LEMMA SessionInitType == Init => TypeOK
<1> SUFFICES ASSUME Init PROVE TypeOK
    OBVIOUS
<1>1. {transmitting, staleFlag, clearedLate} \subseteq BOOLEAN
    BY DEF Init
<1>2. ctl \in [Controls -> [pc : {"idle", "cancel", "await", "clear", "off"},
                           of : Alsa \cup {NoOne}]]
    BY DEF Init, Idle
<1> QED
    BY <1>1, <1>2 DEF Init, TypeOK

LEMMA SessionNextType == TypeOK /\ [Next]_vars => TypeOK'
<1> SUFFICES ASSUME TypeOK, [Next]_vars PROVE TypeOK'
    OBVIOUS
<1>. USE DistinctSources DEF TypeOK, Sources, Controls, Idle, FlagUnchanged, SetFlag, ClearFlag
<1>1. ASSUME NEW a \in Alsa, AlsaAsk(a) PROVE TypeOK'
    BY <1>1 DEF AlsaAsk
<1>2. ASSUME NEW a \in Alsa, AlsaEnter(a) PROVE TypeOK'
    BY <1>2 DEF AlsaEnter
<1>3. ASSUME NEW a \in Alsa, AlsaFails(a) PROVE TypeOK'
    BY <1>3 DEF AlsaFails
<1>4. ASSUME NEW a \in Alsa, AlsaDrains(a) PROVE TypeOK'
    BY <1>4 DEF AlsaDrains
<1>5. ASSUME NEW b \in Browsers, BrowserAsk(b) PROVE TypeOK'
    BY <1>5 DEF BrowserAsk
<1>6. ASSUME NEW b \in Browsers, BrowserEnter(b) PROVE TypeOK'
    BY <1>6 DEF BrowserEnter
<1>7. ASSUME NEW b \in Browsers, BrowserMark(b) PROVE TypeOK'
    BY <1>7 DEF BrowserMark
<1>8. ASSUME NEW b \in Browsers, BrowserLost(b) PROVE TypeOK'
    BY <1>8 DEF BrowserLost
<1>9. ASSUME NEW b \in Browsers, BrowserCloses(b) PROVE TypeOK'
    BY <1>9 DEF BrowserCloses
<1>10. ASSUME NEW b \in Browsers, FinishBrowserTxSession(b) PROVE TypeOK'
    BY <1>10 DEF FinishBrowserTxSession
<1>11. ASSUME NEW s \in Stops, StopTake(s) PROVE TypeOK'
    BY <1>11 DEF StopTake
<1>12. ASSUME NEW s \in Stops, StopDropped(s) PROVE TypeOK'
    BY <1>12 DEF StopDropped
<1>13. ASSUME NEW c \in Controls, Cancel(c) PROVE TypeOK'
    BY <1>13 DEF Cancel
<1>14. ASSUME NEW c \in Controls, AwaitTask(c) PROVE TypeOK'
    BY <1>14 DEF AwaitTask
<1>15. ASSUME NEW c \in Controls, Clear(c) PROVE TypeOK'
    BY <1>15 DEF Clear
<1>16. CASE ShutdownTake
    BY <1>16 DEF ShutdownTake
<1>17. CASE Restart
    BY <1>17 DEF Restart
<1>18. CASE UNCHANGED vars
    BY <1>18 DEF vars
<1> QED
    BY <1>1, <1>2, <1>3, <1>4, <1>5, <1>6, <1>7, <1>8, <1>9, <1>10, <1>11, <1>12,
       <1>13, <1>14, <1>15, <1>16, <1>17, <1>18 DEF Next

\* The session, the flag and the handlers always have the values they should
\* (main.rs AppState, post_ptt_start, get_browser_ptt_ws, post_ptt_stop).
THEOREM SessionTypeCorrect == Spec => []TypeOK
BY SessionInitType, SessionNextType, PTL DEF Spec

-----------------------------------------------------------------------------
(* The flag.                                                               *)

LEMMA FlagInit == Init => FlagTruthful
BY DEF Init, FlagTruthful, TaskReachable, FlagHasOwner, FlagCoversFloor

LEMMA FlagNext == TypeOK /\ FlagTruthful /\ [Next]_vars => FlagTruthful'
<1> SUFFICES ASSUME TypeOK, FlagTruthful, [Next]_vars PROVE FlagTruthful'
    OBVIOUS
<1>. USE DistinctSources DEF TypeOK, FlagTruthful, TaskReachable, FlagHasOwner,
         FlagCoversFloor, Announced, Sources, Controls, Idle, FlagUnchanged, SetFlag, ClearFlag
<1>1. ASSUME NEW a \in Alsa, AlsaAsk(a) PROVE FlagTruthful'
    BY <1>1 DEF AlsaAsk, AlsaFree
<1>2. ASSUME NEW a \in Alsa, AlsaEnter(a) PROVE FlagTruthful'
    BY <1>2 DEF AlsaEnter
<1>3. ASSUME NEW a \in Alsa, AlsaFails(a) PROVE FlagTruthful'
    BY <1>3 DEF AlsaFails
<1>4. ASSUME NEW a \in Alsa, AlsaDrains(a) PROVE FlagTruthful'
    BY <1>4 DEF AlsaDrains
<1>5. ASSUME NEW b \in Browsers, BrowserAsk(b) PROVE FlagTruthful'
    BY <1>5 DEF BrowserAsk
<1>6. ASSUME NEW b \in Browsers, BrowserEnter(b) PROVE FlagTruthful'
    BY <1>6 DEF BrowserEnter
<1>7. ASSUME NEW b \in Browsers, BrowserMark(b) PROVE FlagTruthful'
    BY <1>7 DEF BrowserMark
<1>8. ASSUME NEW b \in Browsers, BrowserLost(b) PROVE FlagTruthful'
    BY <1>8 DEF BrowserLost
<1>9. ASSUME NEW b \in Browsers, BrowserCloses(b) PROVE FlagTruthful'
    BY <1>9 DEF BrowserCloses
<1>10. ASSUME NEW b \in Browsers, FinishBrowserTxSession(b) PROVE FlagTruthful'
    BY <1>10 DEF FinishBrowserTxSession
<1>11. ASSUME NEW s \in Stops, StopTake(s) PROVE FlagTruthful'
    BY <1>11 DEF StopTake
<1>12. ASSUME NEW s \in Stops, StopDropped(s) PROVE FlagTruthful'
    BY <1>12 DEF StopDropped
<1>13. ASSUME NEW c \in Controls, Cancel(c) PROVE FlagTruthful'
    BY <1>13 DEF Cancel
<1>14. ASSUME NEW c \in Controls, AwaitTask(c) PROVE FlagTruthful'
    BY <1>14 DEF AwaitTask
<1>15. ASSUME NEW c \in Controls, Clear(c) PROVE FlagTruthful'
    BY <1>15 DEF Clear
<1>16. CASE ShutdownTake
    BY <1>16 DEF ShutdownTake
<1>17. CASE Restart
    BY <1>17 DEF Restart
<1>18. CASE UNCHANGED vars
    BY <1>18 DEF vars
<1> QED
    BY <1>1, <1>2, <1>3, <1>4, <1>5, <1>6, <1>7, <1>8, <1>9, <1>10, <1>11, <1>12,
       <1>13, <1>14, <1>15, <1>16, <1>17, <1>18 DEF Next

\* A task that records can be stopped, a flag that is set has an owner, and who
\* has the floor has the flag, whatever the order of the handlers (main.rs
\* post_ptt_start, get_browser_ptt_ws, finish_browser_tx_session, post_ptt_stop,
\* shutdown_tx_session).
THEOREM FlagIsTruthful == Spec => []FlagTruthful
<1>1. Init => TypeOK /\ FlagTruthful
    BY SessionInitType, FlagInit
<1>2. TypeOK /\ FlagTruthful /\ [Next]_vars => (TypeOK /\ FlagTruthful)'
    BY SessionNextType, FlagNext
<1> QED
    BY <1>1, <1>2, PTL DEF Spec

-----------------------------------------------------------------------------
(* The refinement: every step of a handler is a step of the floor, or      *)
(* leaves it as it is.                                                     *)

LEMMA FloorInit == Init => Floor!LockInit
BY DEF Init, Floor!LockInit, Live, Controls, Idle

LEMMA FloorNext == TypeOK /\ [Next]_vars => [Floor!LockNext]_Floor!lockVars
<1> SUFFICES ASSUME TypeOK, [Next]_vars PROVE [Floor!LockNext]_Floor!lockVars
    OBVIOUS
<1>. USE DistinctSources DEF TypeOK, Floor!LockNext, Floor!lockVars, Floor!Sources, Live,
         Sources, Controls, Idle, FlagUnchanged
<1>1. ASSUME NEW a \in Alsa, AlsaAsk(a) PROVE UNCHANGED Floor!lockVars
    BY <1>1 DEF AlsaAsk, AlsaFree
<1>2. ASSUME NEW a \in Alsa, AlsaEnter(a) PROVE [Floor!Take(a)]_Floor!lockVars
    <2>1. CASE session # NoOne
        BY <1>2, <2>1 DEF AlsaEnter
    <2>2. CASE session = NoOne
        <3>1. session' = a /\ a \notin Live /\ UNCHANGED <<browser, ctl>>
            BY <1>2, <2>2 DEF AlsaEnter
        <3>2. alsa' = [alsa EXCEPT ![a] = "talking"]
            BY <1>2, <2>2 DEF AlsaEnter
        <3>3. Live' = Live \cup {a}
            BY <3>1, <3>2
        <3> QED
            BY <2>2, <3>1, <3>3 DEF Floor!Take
    <2> QED
        BY <2>1, <2>2
<1>3. ASSUME NEW a \in Alsa, AlsaFails(a) \/ AlsaDrains(a) PROVE Floor!End(a)
    BY <1>3 DEF AlsaFails, AlsaDrains, Floor!End
<1>4. ASSUME NEW b \in Browsers,
             BrowserAsk(b) \/ BrowserMark(b) \/ BrowserCloses(b)
      PROVE  UNCHANGED Floor!lockVars
    BY <1>4 DEF BrowserAsk, BrowserMark, BrowserCloses
<1>5. ASSUME NEW b \in Browsers, BrowserEnter(b) PROVE [Floor!Take(b)]_Floor!lockVars
    BY <1>5 DEF BrowserEnter, Floor!Take
<1>6. ASSUME NEW b \in Browsers, BrowserLost(b) \/ FinishBrowserTxSession(b)
      PROVE  Floor!End(b)
    BY <1>6 DEF BrowserLost, FinishBrowserTxSession, Floor!End
<1>7. ASSUME NEW s \in Stops, StopTake(s) PROVE Floor!Stop
    BY <1>7 DEF StopTake, Floor!Stop
<1>8. ASSUME NEW s \in Stops, StopDropped(s) PROVE UNCHANGED Floor!lockVars
    BY <1>8 DEF StopDropped
<1>9. ASSUME NEW c \in Controls, Cancel(c) \/ AwaitTask(c) \/ Clear(c)
      PROVE  UNCHANGED Floor!lockVars
    <2>1. UNCHANGED session /\ (ctl[Main].pc = "idle")' = (ctl[Main].pc = "idle")
        BY <1>9 DEF Cancel, AwaitTask, Clear
    <2>2. UNCHANGED browser /\ UNCHANGED {a \in Alsa : alsa[a] \in {"talking", "cancelled"}}
        BY <1>9 DEF Cancel, AwaitTask, Clear
    <2> QED
        BY <2>1, <2>2
<1>10. ASSUME ShutdownTake PROVE Floor!ShutDown
    BY <1>10 DEF ShutdownTake, Floor!ShutDown
<1>11. ASSUME Restart PROVE Floor!Restart
    BY <1>11 DEF Restart, Floor!Restart
<1>12. CASE UNCHANGED vars
    BY <1>12 DEF vars
<1> QED
    BY <1>1, <1>2, <1>3, <1>4, <1>5, <1>6, <1>7, <1>8, <1>9, <1>10, <1>11, <1>12 DEF Next

\* The handlers, in whatever order their steps come, implement the floor of PttLock:
\* the sound card gets it only when it is free and loses it only to a stop, and
\* nobody gives up another's.
THEOREM SessionImplementsLock == Spec => ImplementsLock
BY SessionInitType, SessionNextType, FloorInit, FloorNext, PTL DEF Spec, ImplementsLock, Floor!LockSpec

-----------------------------------------------------------------------------
(* The configuration.                                                      *)

\* What a request is about to store validates, and only a process that is up
\* has requests.
PutsValid ==
    \A p \in Puts : put[p].pc # "idle" =>
        memory # NoConfig /\ put[p].new \in Configs /\ Validate(put[p].new)

\* The configuration in effect validates.
MemoryValid == memory # NoConfig => Validate(memory)

\* Without an overlap one request runs at a time, and what it has written, and
\* will publish, is what the file has.
OnePut ==
    ~overlap => /\ \A p, q \in Puts : put[p].pc # "idle" /\ put[q].pc # "idle" => p = q
                /\ \A p \in Puts : put[p].pc = "publish" => file = put[p].new

ConfigInv == ConfigTypeOK /\ PutsValid /\ MemoryValid /\ OnePut /\ ConfigKept

LEMMA ConfigInvInit == ConfigInit => ConfigInv
<1> SUFFICES ASSUME ConfigInit PROVE ConfigInv
    OBVIOUS
<1>1. IdlePut \in [pc : {"idle", "write", "publish"}, new : Configs \cup {NoConfig}]
    BY DEF IdlePut
<1>2. ConfigTypeOK
    BY <1>1 DEF ConfigInit, ConfigTypeOK
<1> QED
    BY <1>2 DEF ConfigInit, ConfigInv, PutsValid, MemoryValid, OnePut, ConfigKept,
        OwnFileBoots, FileIsMemory, IdlePut

LEMMA Migrated ==
    ASSUME NEW c \in Configs
    PROVE  Migrate(c) \in Configs /\ Migrate(Migrate(c)) = Migrate(c)
BY DEF Migrate, Configs

\* A configuration that validates is one a boot leaves as it is.
LEMMA ValidIsMigrated ==
    ASSUME NEW c \in Configs, Validate(c)
    PROVE  Migrate(c) = c
BY DEF Migrate, Configs, Validate

LEMMA ConfigInvNext == ConfigInv /\ [ConfigNext]_configVars => ConfigInv'
<1> SUFFICES ASSUME ConfigInv, [ConfigNext]_configVars PROVE ConfigInv'
    OBVIOUS
<1>. USE ConfigAssumption, Migrated, ValidIsMigrated
     DEF ConfigInv, ConfigTypeOK, PutsValid, MemoryValid, OnePut, ConfigKept, OwnFileBoots,
         FileIsMemory, IdlePut, Intact
<1>1. CASE Boot
    <2>1. \A c \in Defaults : c \in Configs /\ Validate(c)
        BY DEF Defaults, Configs, Validate
    <2>2. \A p \in Puts : put[p].pc = "idle"
        BY <1>1 DEF Boot
    <2>3. file' = memory' /\ file' \in Configs /\ Validate(file') /\ UNCHANGED <<put, overlap>>
        BY <1>1, <2>1 DEF Boot
    <2> QED
        BY <2>2, <2>3
<1>2. CASE BootTorn
    BY <1>2 DEF BootTorn
<1>3. CASE ConfigCrash
    BY <1>3 DEF ConfigCrash
<1>4. ASSUME NEW p \in Puts, NEW s \in Settings, PutStart(p, s) PROVE ConfigInv'
    <2> DEFINE c == [memory EXCEPT !.set = s]
    <2>1. c \in Configs
        BY <1>4 DEF PutStart, Configs
    <2>2. Validate(c) /\ put' = [put EXCEPT ![p] = [pc |-> "write", new |-> c]]
        BY <1>4 DEF PutStart
    <2>3. overlap' = (overlap \/ \E q \in Puts \ {p} : put[q].pc # "idle")
        BY <1>4 DEF PutStart
    <2>4. memory # NoConfig /\ put[p].pc = "idle" /\ UNCHANGED <<file, memory>>
        BY <1>4 DEF PutStart
    <2> HIDE DEF c
    <2>5. ConfigTypeOK' /\ PutsValid' /\ MemoryValid'
        BY <2>1, <2>2, <2>3, <2>4
    <2>6. OnePut' /\ ConfigKept'
        BY <2>1, <2>2, <2>3, <2>4
    <2> QED
        BY <2>5, <2>6
<1>5. ASSUME NEW p \in Puts, PutWrite(p) PROVE ConfigInv'
    <2>1. CASE file' = put[p].new /\ put' = [put EXCEPT ![p].pc = "publish"]
        BY <1>5, <2>1 DEF PutWrite
    <2>2. CASE file' = Torn /\ put' = [put EXCEPT ![p] = IdlePut]
        BY <1>5, <2>2 DEF PutWrite
    <2> QED
        BY <1>5, <2>1, <2>2 DEF PutWrite
<1>6. ASSUME NEW p \in Puts, PutPublish(p) PROVE ConfigInv'
    BY <1>6 DEF PutPublish
<1>7. CASE UNCHANGED configVars
    BY <1>7 DEF configVars
<1> QED
    BY <1>1, <1>2, <1>3, <1>4, <1>5, <1>6, <1>7 DEF ConfigNext

\* Neither storing the configuration nor a migration or a restart loses it: what
\* the process has written it can start from, and the file has what is in effect,
\* unless a write was cut short or two requests crossed (config.rs
\* load_or_create_config, save_config; main.rs put_config).
THEOREM ConfigIsKept == ConfigSpec => []ConfigKept
<1>1. ConfigInv => ConfigKept
    BY DEF ConfigInv
<1> QED
    BY <1>1, ConfigInvInit, ConfigInvNext, PTL DEF ConfigSpec

-----------------------------------------------------------------------------
(* The installer's service: types.                                         *)

Asked == [kind : Kinds, pc : Steps, found : Rows, was : BOOLEAN, alone : BOOLEAN]

LEMMA EndedType ==
    \A pc \in Steps : Ended(pc) \in Asked /\ Ended(pc).pc = pc /\ Ended(pc).alone = FALSE
BY DEF Ended, Asked, Kinds, Rows

LEMMA ServiceInitType == ServiceInit => ServiceTypeOK
<1> SUFFICES ASSUME ServiceInit PROVE ServiceTypeOK
    OBVIOUS
<1>1. unit \in Units
    <2>1. CASE row = Nothing
        BY <2>1 DEF ServiceInit, NoUnit, Units
    <2>2. CASE row # Nothing
        BY <2>2 DEF ServiceInit, Units, Rows
    <2> QED
        BY <2>1, <2>2
<1>2. req \in [Requests -> Asked]
    BY EndedType DEF ServiceInit, Steps
<1> QED
    <2>1. faults \in 0..MaxFaults /\ row \in Rows /\ cache = Nothing
        BY ServiceAssumption DEF ServiceInit
    <2>3. last \in {"done", "failed", "unclear"}
        BY DEF ServiceInit
    <2>2. reading \in [Readers -> {Nothing} \cup (SUBSET Units)]
        BY DEF ServiceInit
    <2> QED
        BY <1>1, <1>2, <2>1, <2>2, <2>3 DEF ServiceTypeOK, Asked

LEMMA SystemdType ==
    ASSUME NEW call \in {"start", "restart", "stop", "enable", "disable"}, NEW u \in Units
    PROVE  /\ Systemd(call, u) \in Units
           /\ Systemd(call, u).file = u.file
           /\ call \notin {"enable", "disable"} => Systemd(call, u).enabled = u.enabled
           /\ call = "enable" => Systemd(call, u).enabled = u.file
           /\ call = "disable" => Systemd(call, u).enabled = FALSE
           /\ call = "stop" => Systemd(call, u).active = FALSE
           /\ call \in {"enable", "disable"} => Systemd(call, u).active = u.active
<1>1. CASE call \in {"start", "restart"}
    BY <1>1 DEF Systemd, Units
<1>2. CASE call = "stop"
    BY <1>2 DEF Systemd, Units
<1>3. CASE call = "enable"
    BY <1>3 DEF Systemd, Units
<1>4. CASE call = "disable"
    BY <1>4 DEF Systemd, Units
<1> QED
    BY <1>1, <1>2, <1>3, <1>4

\* A call changes the unit as systemd does, unless it fails; then the request that
\* made it no longer counts as one that met no fault.
LEMMA SystemctlStep ==
    ASSUME NEW r \in Requests, NEW pc \in Steps, req \in [Requests -> Asked],
           NEW call \in {"start", "restart", "stop", "enable", "disable"}, unit \in Units,
           faults \in 0..MaxFaults, Systemctl(r, call, pc)
    PROVE  /\ unit' \in Units /\ faults' \in 0..MaxFaults /\ req' \in [Requests -> Asked]
           /\ \A q \in Requests \ {r} : req'[q] = req[q]
           /\ req'[r].pc = pc /\ req'[r].kind = req[r].kind
           /\ req'[r].alone => req[r].alone /\ unit' = Systemd(call, unit)
<1>1. CASE unit' = Systemd(call, unit) /\ Goto(r, pc) /\ UNCHANGED faults
    <2>1. Systemd(call, unit) \in Units
        BY SystemdType
    <2>2. /\ req' \in [Requests -> Asked] /\ \A q \in Requests \ {r} : req'[q] = req[q]
          /\ req'[r].pc = pc /\ req'[r].kind = req[r].kind /\ req'[r].alone = req[r].alone
        BY <1>1 DEF Goto, Asked
    <2> QED
        BY <1>1, <2>1, <2>2
<1>2. CASE /\ Fault /\ UNCHANGED unit
           /\ req' = [req EXCEPT ![r] = [@ EXCEPT !.pc = pc, !.alone = FALSE]]
    <2>0. req[r] \in Asked
        OBVIOUS
    <2> DEFINE e == [req[r] EXCEPT !.pc = pc, !.alone = FALSE]
    <2>1. e \in Asked
        BY <2>0 DEF Asked
    <2>2. e.pc = pc /\ e.kind = req[r].kind /\ e.alone = FALSE
        BY <2>0 DEF Asked
    <2>5. req' = [req EXCEPT ![r] = e]
        BY <1>2
    <2> HIDE DEF e
    <2>3. /\ req' \in [Requests -> Asked] /\ \A q \in Requests \ {r} : req'[q] = req[q]
          /\ req'[r].pc = pc /\ req'[r].kind = req[r].kind /\ req'[r].alone = FALSE
        BY <2>1, <2>2, <2>5
    <2>4. faults' \in 0..MaxFaults
        BY <1>2, ServiceAssumption DEF Fault
    <2> QED
        BY <1>2, <2>3, <2>4
<1> QED
    BY <1>1, <1>2 DEF Systemctl

\* What control_plugin does are the three actions of systemctl.
ActsOnly == \A r \in Requests : At(r, "act") => req[r].kind \in {"start", "restart", "stop"}

LEMMA ServiceNextType ==
    ServiceTypeOK /\ ActsOnly /\ [ServiceNext]_serviceVars => ServiceTypeOK'
<1> SUFFICES ASSUME ServiceTypeOK, ActsOnly, [ServiceNext]_serviceVars PROVE ServiceTypeOK'
    OBVIOUS
<1>p. /\ row \in Rows /\ unit \in Units /\ req \in [Requests -> Asked]
      /\ cache = Nothing \/ cache \subseteq Units
      /\ reading \in [Readers -> {Nothing} \cup (SUBSET Units)]
      /\ faults \in 0..MaxFaults /\ last \in {"done", "failed", "unclear"}
    BY DEF ServiceTypeOK, Asked
<1>s. {"new", "act", "enable", "row", "stop", "disable", "remove", "forget", "install",
       "refresh", "done"} \subseteq Steps /\ BOOLEAN \subseteq Rows
    BY DEF Steps, Rows
<1>g. ASSUME NEW r \in Requests, NEW pc \in Steps, Goto(r, pc) PROVE req' \in [Requests -> Asked]
    BY <1>g, <1>p DEF Goto, Asked
<1>e. ASSUME NEW r \in Requests, NEW pc \in Steps, Ends(r, pc) PROVE req' \in [Requests -> Asked]
    BY <1>e, <1>p, EndedType DEF Ends
<1>l. ASSUME NEW r \in Requests, NEW pc \in Steps, NEW how \in {"done", "failed", "unclear"},
             EndsAs(r, pc, how)
      PROVE  req' \in [Requests -> Asked] /\ last' \in {"done", "failed", "unclear"}
    BY <1>e, <1>l DEF EndsAs
<1>f. Fault => faults' \in 0..MaxFaults
    BY <1>p, ServiceAssumption DEF Fault
<1>1. ASSUME NEW r \in Requests, Refuse(r) \/ Errs(r) PROVE ServiceTypeOK'
    BY <1>1, <1>e, <1>p, <1>s DEF Refuse, Errs, ServiceTypeOK, Asked
<1>2. ASSUME NEW r \in Requests, NEW kind \in Kinds, Look(r, kind) PROVE ServiceTypeOK'
    <2>1. req' \in [Requests -> Asked]
        <3> DEFINE e == [kind |-> kind,
                         found |-> IF kind = "update" THEN row ELSE Nothing,
                         was |-> kind = "update" /\ unit.active,
                         alone |-> Others(r) = {},
                         pc |-> IF row = Nothing /\ kind # "update" THEN "done"
                                ELSE IF kind = "delete" THEN "stop"
                                ELSE IF kind = "update" THEN "install" ELSE "act"]
        <3>1. e.found \in Rows /\ e.pc \in Steps
            BY <1>p, <1>s DEF Rows
        <3>2. (kind = "update" /\ unit.active) \in BOOLEAN /\ (Others(r) = {}) \in BOOLEAN
            BY <1>p DEF Units
        <3>3. e \in Asked
            BY <3>1, <3>2 DEF Asked
        <3>4. ASSUME NEW q \in Requests PROVE [req[q] EXCEPT !.alone = FALSE] \in Asked
            BY <1>p DEF Asked
        <3>5. req' = [q \in Requests |-> IF q = r THEN e ELSE [req[q] EXCEPT !.alone = FALSE]]
            BY <1>2 DEF Look
        <3> HIDE DEF e
        <3> QED
            BY <3>3, <3>4, <3>5
    <2> QED
        BY <1>2, <1>p, <2>1 DEF Look, ServiceTypeOK, Asked
<1>3. ASSUME NEW r \in Requests, Act(r) PROVE ServiceTypeOK'
    <2>1. unit' \in Units /\ faults' \in 0..MaxFaults /\ req' \in [Requests -> Asked]
        BY <1>3, <1>p, <1>s, SystemctlStep DEF Act, ActsOnly
    <2> QED
        BY <1>3, <1>p, <2>1 DEF Act, ServiceTypeOK, Asked
<1>4. ASSUME NEW r \in Requests, Enable(r) PROVE ServiceTypeOK'
    <2>1. unit' \in Units /\ faults' \in 0..MaxFaults /\ req' \in [Requests -> Asked]
        BY <1>4, <1>p, <1>s, SystemctlStep DEF Enable
    <2> QED
        BY <1>4, <1>p, <2>1 DEF Enable, ServiceTypeOK, Asked
<1>5. ASSUME NEW r \in Requests, SetEnabled(r) \/ RowErrs(r) PROVE ServiceTypeOK'
    <2>1. row' \in Rows
        BY <1>5, <1>p, <1>s DEF SetEnabled, RowErrs, RowSet, Rows
    <2>2. req' \in [Requests -> Asked] /\ last' \in {"done", "failed", "unclear"}
        BY <1>5, <1>l, <1>s DEF SetEnabled, RowErrs
    <2> QED
        BY <1>5, <1>p, <2>1, <2>2 DEF SetEnabled, RowErrs, ServiceTypeOK, Asked
<1>6. ASSUME NEW r \in Requests, DeleteStop(r) \/ DeleteDisable(r) PROVE ServiceTypeOK'
    <2>1. unit' \in Units /\ faults' \in 0..MaxFaults /\ req' \in [Requests -> Asked]
        BY <1>6, <1>p, <1>s, SystemctlStep DEF DeleteStop, DeleteDisable
    <2> QED
        BY <1>6, <1>p, <2>1 DEF DeleteStop, DeleteDisable, ServiceTypeOK, Asked
<1>7. ASSUME NEW r \in Requests, DeleteFiles(r) PROVE ServiceTypeOK'
    <2>1. unit' \in Units
        BY <1>7, <1>p DEF DeleteFiles, Units
    <2> QED
        BY <1>7, <1>g, <1>p, <1>s, <2>1 DEF DeleteFiles, ServiceTypeOK, Asked
<1>8. ASSUME NEW r \in Requests, DeleteRow(r) \/ DeleteErrs(r) PROVE ServiceTypeOK'
    <2>1. req' \in [Requests -> Asked] /\ last' \in {"done", "failed", "unclear"}
        BY <1>8, <1>l, <1>s DEF DeleteRow, DeleteErrs
    <2> QED
        BY <1>8, <1>p, <2>1 DEF DeleteRow, DeleteErrs, ServiceTypeOK, Asked, Rows
<1>9. ASSUME NEW r \in Requests, Install(r) \/ RollsBack(r) PROVE ServiceTypeOK'
    <2>1. req[r].found \in Rows /\ req[r].was \in BOOLEAN
        BY <1>p DEF Asked
    <2>2. unit' \in Units /\ row' \in Rows
        <3>1. CASE Install(r)
            <4> DEFINE on == IF req[r].found = Nothing THEN TRUE ELSE req[r].found
                       up == req[r].found = Nothing \/ req[r].was
            <4>1. unit.enabled \in BOOLEAN /\ on \in BOOLEAN /\ up \in BOOLEAN
                BY <1>p, <2>1 DEF Units, Rows
            <4>2. /\ unit' = [file |-> TRUE, enabled |-> on, active |-> up] \/
                     unit' = [file |-> TRUE, enabled |-> unit.enabled, active |-> up]
                  /\ row' = on
                BY <3>1 DEF Install
            <4> HIDE DEF on, up
            <4>3. /\ [file |-> TRUE, enabled |-> on, active |-> up] \in Units
                  /\ [file |-> TRUE, enabled |-> unit.enabled, active |-> up] \in Units
                BY <4>1 DEF Units
            <4> QED
                BY <4>1, <4>2, <4>3 DEF Rows
        <3>2. CASE RollsBack(r)
            <4>1. NoUnit \in Units
                BY DEF NoUnit, Units
            <4> QED
                BY <1>p, <3>2, <4>1 DEF RollsBack
        <3> QED
            BY <1>9, <3>1, <3>2
    <2>3. /\ req' \in [Requests -> Asked] /\ last' \in {"done", "failed", "unclear"}
          /\ faults' \in 0..MaxFaults
        BY <1>9, <1>f, <1>l, <1>p, <1>s DEF Install, RollsBack
    <2> QED
        BY <1>9, <1>p, <2>2, <2>3 DEF Install, RollsBack, ServiceTypeOK, Asked
<1>10. ASSUME NEW x \in Readers, Read(x) PROVE ServiceTypeOK'
    <2>1. Statuses \in SUBSET Units
        BY <1>p DEF Statuses
    <2>2. reading' \in [Readers -> {Nothing} \cup (SUBSET Units)]
        BY <1>10, <1>p, <2>1 DEF Read
    <2> QED
        BY <1>10, <1>p, <2>2 DEF Read, ServiceTypeOK, Asked
<1>11. ASSUME NEW x \in Readers, Store(x) PROVE ServiceTypeOK'
    <2>1. cache' \subseteq Units
        BY <1>11, <1>p DEF Store, Stored
    <2>2. req' \in [Requests -> Asked]
        BY <1>11, <1>p, <1>s DEF Store, Asked
    <2>3. reading' \in [Readers -> {Nothing} \cup (SUBSET Units)]
        BY <1>11, <1>p DEF Store
    <2> QED
        BY <1>11, <1>p, <2>1, <2>2, <2>3 DEF Store, ServiceTypeOK, Asked
<1>12. ASSUME NEW r \in Requests, ReadFails(r) PROVE ServiceTypeOK'
    BY <1>12, <1>g, <1>p, <1>s DEF ReadFails, ServiceTypeOK, Asked
<1>13. ASSUME ServiceDies PROVE ServiceTypeOK'
    <2>1. unit' \in Units
        BY <1>13, <1>p DEF ServiceDies, Units
    <2> QED
        BY <1>13, <1>p, <2>1 DEF ServiceDies, ServiceTypeOK, Asked
<1>14. CASE UNCHANGED serviceVars
    BY <1>14 DEF serviceVars, ServiceTypeOK
<1> QED
    BY <1>1, <1>2, <1>3, <1>4, <1>5, <1>6, <1>7, <1>8, <1>9, <1>10, <1>11, <1>12, <1>13, <1>14
    DEF ServiceNext, Step

-----------------------------------------------------------------------------
(* The installer's service: row and unit.                                  *)

RowAgrees ==
    IF row = Nothing THEN unit = NoUnit ELSE unit.enabled <=> (unit.file /\ row = TRUE)

LastHolds ==
    /\ last = "done" => RowAgrees
    /\ last = "failed" => ~unit.enabled /\ ~unit.active

\* It has changed something.
Begun(r) == UnderWay(r) /\ ~At(r, "act") /\ ~At(r, "install") /\ ~At(r, "stop")

\* What the steps of a request that met no other, and whose calls succeeded, have
\* done so far.
DoneSoFar(r) ==
    /\ At(r, "act") \/ At(r, "enable") \/ At(r, "row") => row # Nothing
    /\ At(r, "row") => (unit.enabled <=> (unit.file /\ req[r].kind # "stop"))
    /\ At(r, "disable") \/ At(r, "remove") \/ At(r, "forget") => ~unit.active
    /\ At(r, "remove") \/ At(r, "forget") => ~unit.enabled
    /\ At(r, "forget") => unit = NoUnit

AloneInv ==
    \A r \in Requests : UnderWay(r) /\ req[r].alone =>
        DoneSoFar(r) /\ \A q \in Requests : UnderWay(q) => q = r

LastInv == (\A r \in Requests : ~Begun(r)) => LastHolds

ReadersWait == \A r \in Requests : reading[r] # Nothing => At(r, "refresh")

ServiceInv == ServiceTypeOK /\ ActsOnly /\ ReadersWait /\ AloneInv /\ LastInv

LEMMA ServiceInitInv == ServiceInit => ServiceInv
<1> SUFFICES ASSUME ServiceInit PROVE ServiceInv
    OBVIOUS
<1>1. ServiceTypeOK
    BY ServiceInitType
<1>2. \A r \in Requests : req[r].pc = "new"
    BY EndedType DEF ServiceInit, Steps
<1>3. RowAgrees
    BY DEF ServiceInit, RowAgrees, Rows
<1>4. reading \in [Readers -> {Nothing}] /\ last = "done"
    BY DEF ServiceInit
<1>5. ReadersWait /\ ActsOnly /\ AloneInv
    BY <1>2, <1>4 DEF ReadersWait, ActsOnly, AloneInv, UnderWay, At, Readers
<1> QED
    BY <1>1, <1>3, <1>4, <1>5 DEF ServiceInv, LastInv, LastHolds

LEMMA ServiceNextInv == ServiceInv /\ [ServiceNext]_serviceVars => ServiceInv'
<1> SUFFICES ASSUME ServiceInv, [ServiceNext]_serviceVars PROVE ServiceInv'
    OBVIOUS
<1>t. ServiceTypeOK'
    BY ServiceNextType DEF ServiceInv
<1>p. /\ row \in Rows /\ unit \in Units /\ req \in [Requests -> Asked]
      /\ reading \in [Readers -> {Nothing} \cup (SUBSET Units)]
      /\ faults \in 0..MaxFaults /\ Nothing \notin BOOLEAN
    BY ServiceAssumption DEF ServiceInv, ServiceTypeOK, Asked
<1>i. ActsOnly /\ ReadersWait /\ AloneInv /\ LastInv
    BY DEF ServiceInv
\* A request that steps: the rest follows from what it did.
<1>s. ASSUME NEW r \in Requests, UnderWay(r), reading' = reading,
             \A q \in Requests \ {r} : req'[q] = req[q],
             UnderWay(r)' => /\ Begun(r)'
                             /\ req'[r].alone => req[r].alone
                             /\ req'[r].alone /\ DoneSoFar(r) => DoneSoFar(r)',
             ~UnderWay(r)' /\ (req[r].alone => DoneSoFar(r)) => LastHolds'
      PROVE  ServiceInv'
    <2>1. ActsOnly'
        BY <1>i, <1>s DEF ActsOnly, At, Begun, UnderWay
    <2>2. ReadersWait'
        BY <1>i, <1>s DEF ReadersWait, At, UnderWay
    <2>3. req[r].alone => DoneSoFar(r) /\ \A q \in Requests : UnderWay(q) => q = r
        BY <1>i, <1>s DEF AloneInv
    <2>4. ASSUME NEW q \in Requests, q # r, UnderWay(q)', req'[q].alone PROVE FALSE
        <3>1. UnderWay(q) /\ req[q].alone
            BY <1>s, <2>4 DEF UnderWay, At
        <3> QED
            BY <1>i, <1>s, <2>4, <3>1 DEF AloneInv
    <2>5. ASSUME UnderWay(r)', req'[r].alone
          PROVE  DoneSoFar(r)' /\ \A q \in Requests : UnderWay(q)' => q = r
        <3>1. DoneSoFar(r)'
            BY <1>s, <2>3, <2>5
        <3>2. ASSUME NEW q \in Requests, q # r PROVE ~UnderWay(q)'
            BY <1>s, <2>3, <2>5, <3>2 DEF UnderWay, At
        <3> QED
            BY <3>1, <3>2
    <2>6. AloneInv'
        BY <2>4, <2>5 DEF AloneInv
    <2>7. LastInv'
        BY <1>s, <2>3 DEF LastInv
    <2> QED
        BY <1>t, <2>1, <2>2, <2>6, <2>7 DEF ServiceInv
\* One that neither was nor gets under way, or has not begun and ends.
<1>o. ASSUME UNCHANGED <<row, unit, last>>, ReadersWait',
             \A q \in Requests : req'[q] = req[q] \/ (~Begun(q) /\ ~UnderWay(q)')
      PROVE  ServiceInv'
    <2>1. ActsOnly'
        BY <1>i, <1>o DEF ActsOnly, At, UnderWay
    <2>2. ASSUME NEW q \in Requests PROVE /\ UnderWay(q)' => UnderWay(q) /\ req'[q] = req[q]
                                          /\ Begun(q) => Begun(q)'
        BY <1>o DEF At, UnderWay, Begun
    <2>3. ASSUME NEW q \in Requests, DoneSoFar(q), UnderWay(q)' PROVE DoneSoFar(q)'
        BY <1>o, <2>2, <2>3 DEF DoneSoFar, At
    <2>4. AloneInv'
        BY <1>i, <2>2, <2>3 DEF AloneInv
    <2>5. LastInv'
        BY <1>i, <1>o, <2>2 DEF LastInv, LastHolds, RowAgrees
    <2> QED
        BY <1>t, <2>1, <2>4, <2>5, <1>o DEF ServiceInv
<1>g. ASSUME NEW r \in Requests, NEW pc \in Steps, Goto(r, pc)
      PROVE  /\ \A q \in Requests \ {r} : req'[q] = req[q]
             /\ req'[r].pc = pc /\ req'[r].kind = req[r].kind /\ req'[r].alone = req[r].alone
    BY <1>g, <1>p DEF Goto, Asked
<1>e. ASSUME NEW r \in Requests, NEW pc \in Steps, Ends(r, pc)
      PROVE  (\A q \in Requests \ {r} : req'[q] = req[q]) /\ req'[r].pc = pc
    BY <1>e, <1>p, EndedType DEF Ends
<1>l. ASSUME NEW r \in Requests, NEW pc \in Steps, NEW how \in {"done", "failed", "unclear"},
             EndsAs(r, pc, how)
      PROVE  /\ (\A q \in Requests \ {r} : req'[q] = req[q]) /\ req'[r].pc = pc
             /\ (last' = how /\ req[r].alone) \/ last' = "unclear"
    BY <1>e, <1>l DEF EndsAs
<1>d. {"new", "act", "enable", "row", "stop", "disable", "remove", "forget", "install",
       "refresh", "done"} \subseteq Steps
    BY DEF Steps
<1>c. ASSUME NEW r \in Requests, NEW pc \in Steps,
             NEW call \in {"start", "restart", "stop", "enable", "disable"}, Systemctl(r, call, pc)
      PROVE  /\ \A q \in Requests \ {r} : req'[q] = req[q]
             /\ req'[r].pc = pc /\ req'[r].kind = req[r].kind
             /\ req'[r].alone =>
                   /\ req[r].alone /\ unit'.file = unit.file
                   /\ call = "enable" => unit'.enabled = unit.file
                   /\ call = "disable" => unit'.enabled = FALSE
                   /\ call = "stop" => unit'.active = FALSE
                   /\ call = "disable" => unit'.active = unit.active
    <2> DEFINE u == Systemd(call, unit)
    <2>1. /\ \A q \in Requests \ {r} : req'[q] = req[q]
          /\ req'[r].pc = pc /\ req'[r].kind = req[r].kind
          /\ req'[r].alone => req[r].alone /\ unit' = u
        BY <1>c, <1>p, SystemctlStep
    <2>2. /\ u.file = unit.file
          /\ call = "enable" => u.enabled = unit.file
          /\ call = "disable" => u.enabled = FALSE
          /\ call = "stop" => u.active = FALSE
          /\ call = "disable" => u.active = unit.active
        BY <1>p, SystemdType
    <2> HIDE DEF u
    <2> QED
        BY <2>1, <2>2
<1>1. ASSUME NEW r \in Requests, Refuse(r) \/ Errs(r) PROVE ServiceInv'
    <2>1. (\A q \in Requests \ {r} : req'[q] = req[q]) /\ req'[r].pc = "done"
        BY <1>1, <1>d, <1>e DEF Refuse, Errs
    <2>2. UNCHANGED <<row, unit, reading, last>> /\ (At(r, "new") \/ At(r, "install") \/ At(r, "act"))
        BY <1>1 DEF Refuse, Errs
    <2>3. ReadersWait'
        BY <1>i, <2>1, <2>2 DEF ReadersWait, At
    <2> QED
        BY <1>o, <2>1, <2>2, <2>3 DEF UnderWay, Begun, At
<1>2. ASSUME NEW r \in Requests, NEW kind \in Kinds, Look(r, kind) PROVE ServiceInv'
    <2>1. /\ \A q \in Requests \ {r} : /\ req'[q].pc = req[q].pc /\ req'[q].kind = req[q].kind
                                        /\ req'[q].alone = FALSE
          /\ req'[r].kind = kind /\ req'[r].alone = (Others(r) = {})
          /\ req'[r].pc = IF row = Nothing /\ kind # "update" THEN "done"
                          ELSE IF kind = "delete" THEN "stop"
                          ELSE IF kind = "update" THEN "install" ELSE "act"
        BY <1>2, <1>p DEF Look, Asked
    <2>2. req[r].pc = "new" /\ UNCHANGED <<row, unit, reading, last>>
        BY <1>2 DEF Look, At
    <2>3. ActsOnly'
        BY <1>i, <2>1 DEF ActsOnly, At, Kinds
    <2>4. ReadersWait'
        BY <1>i, <2>1, <2>2 DEF ReadersWait, At
    <2>5. ASSUME req'[r].alone PROVE DoneSoFar(r)' /\ \A q \in Requests : UnderWay(q)' => q = r
        <3>1. ASSUME NEW q \in Requests, q # r PROVE ~UnderWay(q)'
            BY <2>1, <2>5, <3>1 DEF Others, UnderWay, At
        <3>2. DoneSoFar(r)'
            BY <2>1, <2>2 DEF DoneSoFar, At
        <3> QED
            BY <3>1, <3>2
    <2>6. AloneInv'
        BY <2>1, <2>5 DEF AloneInv
    <2>7. ASSUME NEW q \in Requests PROVE Begun(q)' <=> Begun(q)
        BY <2>1, <2>2 DEF Begun, UnderWay, At
    <2>8. LastInv'
        BY <1>i, <2>2, <2>7 DEF LastInv, LastHolds, RowAgrees
    <2> QED
        BY <1>t, <2>3, <2>4, <2>6, <2>8 DEF ServiceInv
<1>3. ASSUME NEW r \in Requests, Act(r) PROVE ServiceInv'
    <2>1. req[r].kind \in {"start", "restart", "stop"} /\ UnderWay(r) /\ At(r, "act")
        BY <1>3, <1>i DEF Act, ActsOnly, UnderWay, At
    <2>2. UNCHANGED <<row, reading, last>> /\ Systemctl(r, req[r].kind, "enable")
        BY <1>3 DEF Act
    <2>3. /\ \A q \in Requests \ {r} : req'[q] = req[q]
          /\ req'[r].pc = "enable" /\ (req'[r].alone => req[r].alone)
        BY <1>c, <1>d, <2>1, <2>2
    <2>4. DoneSoFar(r) => DoneSoFar(r)'
        BY <2>1, <2>2, <2>3 DEF DoneSoFar, At
    <2> QED
        BY <1>s, <2>1, <2>2, <2>3, <2>4 DEF UnderWay, Begun, At
<1>4. ASSUME NEW r \in Requests, Enable(r) PROVE ServiceInv'
    <2> DEFINE call == IF req[r].kind = "stop" THEN "disable" ELSE "enable"
    <2>1. UNCHANGED <<row, reading, last>> /\ Systemctl(r, call, "row") /\ At(r, "enable")
        BY <1>4 DEF Enable
    <2>2. /\ \A q \in Requests \ {r} : req'[q] = req[q]
          /\ req'[r].pc = "row" /\ req'[r].kind = req[r].kind
          /\ req'[r].alone => req[r].alone /\ unit'.file = unit.file
                /\ unit'.enabled = IF req[r].kind = "stop" THEN FALSE ELSE unit.file
        BY <1>c, <1>d, <2>1
    <2>3. ASSUME req'[r].alone, DoneSoFar(r) PROVE DoneSoFar(r)'
        <3>1. row' # Nothing
            BY <2>1, <2>3 DEF DoneSoFar
        <3>2. unit'.enabled <=> (unit'.file /\ req'[r].kind # "stop")
            BY <1>p, <2>2, <2>3 DEF Units
        <3> QED
            BY <2>2, <3>1, <3>2 DEF DoneSoFar, At
    <2> QED
        BY <1>s, <2>1, <2>2, <2>3 DEF UnderWay, Begun, At
<1>5. ASSUME NEW r \in Requests, SetEnabled(r) PROVE ServiceInv'
    <2>1. /\ UNCHANGED <<unit, reading>> /\ At(r, "row")
          /\ row' = RowSet(req[r].kind # "stop")
        BY <1>5 DEF SetEnabled
    <2>2. /\ (\A q \in Requests \ {r} : req'[q] = req[q]) /\ req'[r].pc = "refresh"
          /\ (last' = "done" /\ req[r].alone) \/ last' = "unclear"
        BY <1>5, <1>d, <1>l DEF SetEnabled
    <2>3. ASSUME DoneSoFar(r) PROVE RowAgrees'
        <3>1. (unit.enabled <=> (unit.file /\ req[r].kind # "stop")) /\ row # Nothing
            BY <2>1, <2>3 DEF DoneSoFar
        <3>2. row' = (req[r].kind # "stop")
            BY <2>1, <3>1 DEF RowSet
        <3>3. row' # Nothing
            BY <1>p, <3>2
        <3> QED
            BY <2>1, <3>1, <3>2, <3>3 DEF RowAgrees
    <2> QED
        BY <1>s, <2>1, <2>2, <2>3 DEF UnderWay, LastHolds, At
<1>6. ASSUME NEW r \in Requests, DeleteStop(r) PROVE ServiceInv'
    <2>1. UNCHANGED <<row, reading, last>> /\ Systemctl(r, "stop", "disable") /\ At(r, "stop")
        BY <1>6 DEF DeleteStop
    <2>2. /\ (\A q \in Requests \ {r} : req'[q] = req[q]) /\ req'[r].pc = "disable"
          /\ req'[r].alone => req[r].alone /\ unit'.active = FALSE
        BY <1>c, <1>d, <2>1
    <2>3. req'[r].alone => DoneSoFar(r)'
        BY <2>2 DEF DoneSoFar, At
    <2> QED
        BY <1>s, <2>1, <2>2, <2>3 DEF UnderWay, Begun, At
<1>7. ASSUME NEW r \in Requests, DeleteDisable(r) PROVE ServiceInv'
    <2>1. UNCHANGED <<row, reading, last>> /\ Systemctl(r, "disable", "remove") /\ At(r, "disable")
        BY <1>7 DEF DeleteDisable
    <2>2. /\ (\A q \in Requests \ {r} : req'[q] = req[q]) /\ req'[r].pc = "remove"
          /\ req'[r].alone => /\ req[r].alone /\ unit'.active = unit.active
                              /\ unit'.enabled = FALSE
        BY <1>c, <1>d, <2>1
    <2>3. ASSUME req'[r].alone, DoneSoFar(r) PROVE DoneSoFar(r)'
        <3>1. ~unit'.active /\ ~unit'.enabled
            BY <2>1, <2>2, <2>3 DEF DoneSoFar
        <3> QED
            BY <2>2, <3>1 DEF DoneSoFar, At
    <2> QED
        BY <1>s, <2>1, <2>2, <2>3 DEF UnderWay, Begun, At
<1>8. ASSUME NEW r \in Requests, DeleteFiles(r) PROVE ServiceInv'
    <2>1. /\ UNCHANGED <<row, reading, last>> /\ At(r, "remove")
          /\ unit' = [unit EXCEPT !.file = FALSE, !.enabled = FALSE]
        BY <1>8 DEF DeleteFiles
    <2>2. /\ (\A q \in Requests \ {r} : req'[q] = req[q]) /\ req'[r].pc = "forget"
          /\ req'[r].alone = req[r].alone
        BY <1>8, <1>d, <1>g DEF DeleteFiles
    <2>3. ASSUME DoneSoFar(r) PROVE DoneSoFar(r)'
        <3>1. unit.active = FALSE
            BY <1>p, <2>1, <2>3 DEF DoneSoFar, Units
        <3>2. unit' = NoUnit
            BY <1>p, <2>1, <3>1 DEF NoUnit, Units
        <3> QED
            BY <2>2, <3>2 DEF DoneSoFar, NoUnit, At
    <2> QED
        BY <1>s, <2>1, <2>2, <2>3 DEF UnderWay, Begun, At
<1>9. ASSUME NEW r \in Requests, DeleteRow(r) PROVE ServiceInv'
    <2>1. UNCHANGED <<unit, reading>> /\ At(r, "forget") /\ row' = Nothing
        BY <1>9 DEF DeleteRow
    <2>2. /\ (\A q \in Requests \ {r} : req'[q] = req[q]) /\ req'[r].pc = "refresh"
          /\ (last' = "done" /\ req[r].alone) \/ last' = "unclear"
        BY <1>9, <1>d, <1>l DEF DeleteRow
    <2>3. DoneSoFar(r) => RowAgrees'
        BY <2>1 DEF DoneSoFar, RowAgrees
    <2> QED
        BY <1>s, <2>1, <2>2, <2>3 DEF UnderWay, LastHolds, At
<1>10. ASSUME NEW r \in Requests, DeleteErrs(r) PROVE ServiceInv'
    <2>1. UNCHANGED <<unit, reading>> /\ (At(r, "remove") \/ At(r, "forget"))
        BY <1>10 DEF DeleteErrs
    <2>2. /\ (\A q \in Requests \ {r} : req'[q] = req[q]) /\ req'[r].pc = "done"
          /\ (last' = "failed" /\ req[r].alone) \/ last' = "unclear"
        BY <1>10, <1>d, <1>l DEF DeleteErrs
    <2>3. DoneSoFar(r) => ~unit'.enabled /\ ~unit'.active
        BY <2>1 DEF DoneSoFar
    <2> QED
        BY <1>s, <2>1, <2>2, <2>3 DEF UnderWay, LastHolds, At
<1>11. ASSUME NEW r \in Requests, RowErrs(r) PROVE ServiceInv'
    <2>1. reading' = reading /\ At(r, "row")
        BY <1>11 DEF RowErrs
    <2>2. /\ (\A q \in Requests \ {r} : req'[q] = req[q]) /\ req'[r].pc = "done"
          /\ last' = "unclear"
        BY <1>11, <1>d, <1>l DEF RowErrs
    <2> QED
        BY <1>s, <2>1, <2>2 DEF UnderWay, LastHolds, At
<1>12. ASSUME NEW r \in Requests, Install(r) PROVE ServiceInv'
    <2> DEFINE on == IF req[r].found = Nothing THEN TRUE ELSE req[r].found
               up == req[r].found = Nothing \/ req[r].was
    <2>0. /\ reading' = reading /\ At(r, "install") /\ row' = on
          /\ \/ /\ unit' = [file |-> TRUE, enabled |-> on, active |-> up]
                /\ EndsAs(r, "refresh", "done")
             \/ /\ unit' = [file |-> TRUE, enabled |-> unit.enabled, active |-> up]
                /\ EndsAs(r, "refresh", "unclear")
        BY <1>12 DEF Install
    <2>5. on \in BOOLEAN
        BY <1>p DEF Asked, Rows
    <2> HIDE DEF on, up
    <2>1. reading' = reading /\ At(r, "install") /\ unit'.file /\ row' \in BOOLEAN
        BY <2>0, <2>5
    <2>2. PICK how \in {"done", "unclear"} :
              EndsAs(r, "refresh", how) /\ (how = "done" => unit'.enabled = row')
        BY <2>0
    <2>3. /\ (\A q \in Requests \ {r} : req'[q] = req[q]) /\ req'[r].pc = "refresh"
          /\ last' = how \/ last' = "unclear"
        BY <1>d, <1>l, <2>2
    <2>4. last' = "done" => RowAgrees'
        BY <1>p, <2>1, <2>2, <2>3 DEF RowAgrees
    <2> QED
        BY <1>s, <2>1, <2>3, <2>4 DEF UnderWay, LastHolds, At
<1>13. ASSUME NEW r \in Requests, RollsBack(r) PROVE ServiceInv'
    <2>1. reading' = reading /\ At(r, "install")
        BY <1>13 DEF RollsBack
    <2>2. PICK how \in {"failed", "unclear"} :
              EndsAs(r, "done", how) /\ (how = "failed" => unit' = NoUnit)
        BY <1>13 DEF RollsBack
    <2>3. /\ (\A q \in Requests \ {r} : req'[q] = req[q]) /\ req'[r].pc = "done"
          /\ last' = how \/ last' = "unclear"
        BY <1>d, <1>l, <2>2
    <2>4. last' = "failed" => ~unit'.enabled /\ ~unit'.active
        BY <2>2, <2>3 DEF NoUnit
    <2> QED
        BY <1>s, <2>1, <2>2, <2>3, <2>4 DEF UnderWay, LastHolds, At
<1>14. ASSUME NEW x \in Readers, Read(x) PROVE ServiceInv'
    <2>1. \A q \in Readers \ {x} : reading'[q] = reading[q]
        BY <1>14, <1>p DEF Read
    <2>2. ReadersWait'
        BY <1>14, <1>i, <2>1, ServiceAssumption DEF Read, ReadersWait, Readers, At
    <2> QED
        BY <1>14, <1>o, <2>2 DEF Read
<1>15. ASSUME NEW x \in Readers, Store(x) PROVE ServiceInv'
    <2>1. \A q \in Requests : req'[q] = req[q] \/ (q = x /\ At(q, "refresh") /\ At(q, "done")')
        BY <1>15, <1>i, <1>p DEF Store, ReadersWait, Asked, At
    <2>2. reading'[x] = Nothing /\ \A q \in Readers \ {x} : reading'[q] = reading[q]
        BY <1>15, <1>p DEF Store
    <2>3. ReadersWait'
        BY <1>i, <2>1, <2>2 DEF ReadersWait, Readers, At
    <2> QED
        BY <1>15, <1>o, <2>1, <2>3 DEF Store, UnderWay, Begun, At
<1>16. ASSUME NEW r \in Requests, ReadFails(r) PROVE ServiceInv'
    <2>1. (\A q \in Requests \ {r} : req'[q] = req[q]) /\ req'[r].pc = "done"
        BY <1>16, <1>d, <1>g DEF ReadFails
    <2>2. ReadersWait'
        BY <1>16, <1>i, <2>1 DEF ReadFails, ReadersWait, At
    <2> QED
        BY <1>16, <1>o, <2>1, <2>2 DEF ReadFails, UnderWay, Begun, At
<1>17. ASSUME ServiceDies PROVE ServiceInv'
    <2>1. UNCHANGED <<row, req, reading, last>> /\ unit.active
        BY <1>17 DEF ServiceDies
    <2>2. unit'.file = unit.file /\ unit'.enabled = unit.enabled /\ ~unit'.active
        BY <1>17, <1>p DEF ServiceDies, Units
    <2>3. unit # NoUnit
        BY <2>1 DEF NoUnit
    <2>4. ActsOnly' /\ ReadersWait'
        BY <1>i, <2>1 DEF ActsOnly, ReadersWait, At
    <2>5. LastHolds => LastHolds'
        BY <2>1, <2>2, <2>3 DEF LastHolds, RowAgrees
    <2>6. \A r \in Requests : DoneSoFar(r) => DoneSoFar(r)'
        BY <2>1, <2>2, <2>3 DEF DoneSoFar, At
    <2>7. \A r \in Requests : (UnderWay(r)' <=> UnderWay(r)) /\ (Begun(r)' <=> Begun(r))
        BY <2>1 DEF UnderWay, Begun, At
    <2>8. AloneInv' /\ LastInv'
        BY <1>i, <2>1, <2>5, <2>6, <2>7 DEF AloneInv, LastInv
    <2> QED
        BY <1>t, <2>4, <2>8 DEF ServiceInv
<1>18. CASE UNCHANGED serviceVars
    BY <1>18, <1>i, <1>o DEF serviceVars, ReadersWait, At
<1> QED
    BY <1>1, <1>2, <1>3, <1>4, <1>5, <1>6, <1>7, <1>8, <1>9, <1>10, <1>11, <1>12, <1>13,
       <1>14, <1>15, <1>16, <1>17, <1>18
    DEF ServiceNext, Step

\* A request that met no other and no fault leaves the row of a plugin and its unit in
\* agreement, and one that failed leaves nothing that runs or will (RowIsUnit): for any
\* number of requests, whatever those before it had left, whatever is read and cached
\* beside them, and whenever the process dies.
THEOREM RowStaysUnit == ServiceSpec => []RowIsUnit
<1>1. ServiceInit => ServiceInv
    BY ServiceInitInv
<1>2. ServiceInv /\ [ServiceNext]_serviceVars => ServiceInv'
    BY ServiceNextInv
<1>3. ServiceInv => RowIsUnit
    BY DEF ServiceInv, LastInv, LastHolds, Begun, RowIsUnit, RowAgrees
<1> QED
    BY <1>1, <1>2, <1>3, PTL DEF ServiceSpec

-----------------------------------------------------------------------------
(* The contact list.  Unless the link is up, a Closed event follows every  *)
(* Activated one in the channel: it is reported last, and the channel      *)
(* drops what is oldest.                                                   *)

Reports == {"Activated", "Closed", "Proof"}

ClosedAfter(n) == \E j \in n + 1..Len(linkEvents) : linkEvents[j] = "Closed"

ActivatedThenClosed ==
    LinkIsUp \/ \A k \in 1..Len(linkEvents) : linkEvents[k] = "Activated" => ClosedAfter(k)

PeersInv == PeersTypeOK /\ ActivatedThenClosed /\ OnlineIsUp

LEMMA PeersInvInit == PeersInit => PeersInv
<1> SUFFICES ASSUME PeersInit PROVE PeersInv
    OBVIOUS
<1>1. linkEvents \in Seq({"Activated", "Closed", "Proof"}) /\ Len(linkEvents) = 0
    BY DEF PeersInit
<1> QED
    BY <1>1, EventCapacityPositive
    DEF PeersInit, PeersInv, PeersTypeOK, ActivatedThenClosed, OnlineIsUp

\* What Report leaves in the channel.
LEMMA ReportIsLast ==
    ASSUME PeersTypeOK, NEW e \in Reports, Report(e)
    PROVE  /\ linkEvents' \in Seq(Reports) /\ Len(linkEvents') \in 1..EventCapacity
           /\ linkEvents'[Len(linkEvents')] = e
<1> DEFINE q == linkEvents
           r == IF Len(q) < EventCapacity THEN q ELSE Tail(q)
<1>1. q \in Seq(Reports) /\ Len(q) \in Nat /\ Len(q) <= EventCapacity /\ EventCapacity \in Nat \ {0}
    BY EventCapacityPositive, LenProperties DEF PeersTypeOK, Reports
<1>2. r \in Seq(Reports) /\ Len(r) \in Nat /\ Len(r) < EventCapacity
    <2>1. CASE Len(q) < EventCapacity
        BY <1>1, <2>1
    <2>2. CASE ~(Len(q) < EventCapacity)
        <3>1. q # <<>>
            BY <1>1, <2>2, EmptySeq
        <3>2. Tail(q) \in Seq(Reports) /\ Len(Tail(q)) = Len(q) - 1
            BY <1>1, <3>1, HeadTailProperties
        <3> QED
            BY <1>1, <2>2, <3>2
    <2> QED
        BY <2>1, <2>2
<1>3. linkEvents' = Append(r, e)
    BY DEF Report
<1> HIDE DEF q, r
<1>4. Append(r, e) \in Seq(Reports) /\ Len(Append(r, e)) = Len(r) + 1 /\ Append(r, e)[Len(r) + 1] = e
    BY <1>2, AppendProperties
<1>5. linkEvents' \in Seq(Reports) /\ Len(linkEvents') = Len(r) + 1 /\ linkEvents'[Len(r) + 1] = e
    BY <1>3, <1>4
<1> QED
    BY <1>1, <1>2, <1>5

\* A step that neither takes a link down nor shows a contact as online.
LEMMA PeersQuiet ==
    ASSUME PeersInv, linkEvents' = linkEvents, LinkIsUp => LinkIsUp',
           contact' = "active" => contact = "active"
    PROVE  ActivatedThenClosed' /\ OnlineIsUp'
BY DEF PeersInv, ActivatedThenClosed, OnlineIsUp, ClosedAfter

LEMMA PeersInvNext == PeersInv /\ [PeersNext]_peerVars => PeersInv'
<1> SUFFICES ASSUME PeersInv, [PeersNext]_peerVars PROVE PeersInv'
    OBVIOUS
<1>t. PeersTypeOK /\ ActivatedThenClosed /\ OnlineIsUp
    BY DEF PeersInv
<1>l. /\ linkEvents \in Seq(Reports) /\ Len(linkEvents) \in Nat /\ Len(linkEvents) <= EventCapacity
      /\ EventCapacity \in Nat
    BY <1>t, EventCapacityPositive, LenProperties DEF PeersTypeOK, Reports
<1>1. CASE TransportActivates \/ TransportProves
    <2>1. PICK e \in Reports : Report(e)
        BY <1>1 DEF TransportActivates, TransportProves, Reports
    <2>2. LinkIsUp' /\ contact' = contact /\ ensure' = ensure
        BY <1>1 DEF TransportActivates, TransportProves, LinkIsUp
    <2>3. PeersTypeOK'
        BY <1>t, <1>1, <1>l, <2>1, <2>2, ReportIsLast
        DEF PeersTypeOK, Reports, TransportActivates, TransportProves
    <2> QED
        BY <2>2, <2>3 DEF PeersInv, ActivatedThenClosed, OnlineIsUp
<1>2. CASE TransportCloses
    <2> DEFINE r == linkEvents'
    <2>1. /\ Report("Closed") /\ outLink' = "closed" /\ contact' = contact /\ ensure' = ensure
        BY <1>2 DEF TransportCloses
    <2>2. r \in Seq(Reports) /\ Len(r) \in 1..EventCapacity /\ r[Len(r)] = "Closed"
        BY <1>t, <2>1, ReportIsLast DEF Reports
    <2>3. PeersTypeOK'
        BY <1>t, <1>l, <2>1, <2>2 DEF PeersTypeOK, Reports
    <2>4. ASSUME NEW n \in 0..Len(r) - 1 PROVE ClosedAfter(n)'
        <3>1. Len(r) \in n + 1..Len(r)
            BY <1>l, <2>2
        <3> QED
            BY <2>2, <3>1 DEF ClosedAfter
    <2>5. ASSUME NEW k \in 1..Len(r), r[k] = "Activated" PROVE ClosedAfter(k)'
        <3>1. k \in 0..Len(r) - 1
            BY <1>l, <2>2, <2>5
        <3> QED
            BY <2>4, <3>1
    <2>6. ActivatedThenClosed'
        BY <2>5 DEF ActivatedThenClosed
    <2>7. OnlineIsUp'
        BY <2>2 DEF OnlineIsUp
    <2> QED
        BY <2>3, <2>6, <2>7 DEF PeersInv
<1>3. CASE TransportDrifts
    <2>1. PeersTypeOK' /\ (LinkIsUp => LinkIsUp') /\ linkEvents' = linkEvents /\ contact' = contact
        BY <1>t, <1>3 DEF TransportDrifts, PeersTypeOK, LinkIsUp
    <2> QED
        BY <2>1, PeersQuiet DEF PeersInv
<1>4. CASE RegisterAnnouncedPeer
    <2>1. PeersTypeOK'
        BY <1>t, <1>4 DEF RegisterAnnouncedPeer, PeersTypeOK
    <2> QED
        BY <1>4, <2>1, PeersQuiet DEF PeersInv, RegisterAnnouncedPeer, LinkIsUp
<1>5. ASSUME NEW r \in Askers, EnsureOutLink(r) PROVE PeersInv'
    <2>1. PeersTypeOK'
        BY <1>t, <1>5 DEF EnsureOutLink, PeersTypeOK
    <2> QED
        BY <1>5, <2>1, PeersQuiet DEF PeersInv, EnsureOutLink, LinkIsUp
<1>6. ASSUME NEW h \in Handlers, EnsureLook(h) PROVE PeersInv'
    <2>1. PeersTypeOK'
        BY <1>t, <1>6 DEF EnsureLook, PeersTypeOK
    <2> QED
        BY <1>6, <2>1, PeersQuiet DEF PeersInv, EnsureLook, LinkIsUp
<1>7. ASSUME NEW h \in Handlers, EnsureMark(h) PROVE PeersInv'
    <2>1. PeersTypeOK'
        BY <1>t, <1>7 DEF EnsureMark, PeersTypeOK
    <2> QED
        BY <1>7, <2>1, PeersQuiet DEF PeersInv, EnsureMark, LinkIsUp
<1>8. ASSUME NEW h \in Handlers, EnsureLink(h) PROVE PeersInv'
    <2>1. PeersTypeOK'
        BY <1>t, <1>8 DEF EnsureLink, PeersTypeOK
    <2> QED
        BY <1>8, <2>1, PeersQuiet DEF PeersInv, EnsureLink, LinkIsUp, ShouldReuse
<1>9. CASE OutLinkEvent
    <2> DEFINE q == linkEvents
               t == Tail(q)
               e == Head(q)
    <2>1. /\ q # <<>> /\ linkEvents' = t /\ outLink' = outLink /\ ensure' = ensure
          /\ contact' = IF contact = "unknown" THEN contact ELSE Shown(e)
        BY <1>9 DEF OutLinkEvent
    <2>2. /\ t \in Seq(Reports) /\ Len(t) = Len(q) - 1 /\ Len(q) > 0 /\ e = q[1] /\ e \in Reports
          /\ \A k \in 1..Len(t) : t[k] = q[k + 1]
        BY <1>l, <2>1, HeadTailProperties, EmptySeq
    <2> HIDE DEF t, e
    <2>3. PeersTypeOK'
        BY <1>t, <1>l, <2>1, <2>2 DEF PeersTypeOK, Reports, Shown
    <2>4. \A k \in 2..Len(q) : k - 1 \in 1..Len(t) /\ t[k - 1] = q[k]
        <3> SUFFICES ASSUME NEW k \in 2..Len(q) PROVE k - 1 \in 1..Len(t) /\ t[k - 1] = q[k]
            OBVIOUS
        <3>1. k - 1 \in 1..Len(t) /\ (k - 1) + 1 = k
            BY <1>l, <2>2
        <3> QED
            BY <2>2, <3>1
    <2>5. ASSUME NEW n \in Nat, ClosedAfter(n + 1) PROVE ClosedAfter(n)'
        <3>1. PICK j \in n + 2..Len(q) : q[j] = "Closed"
            BY <2>5 DEF ClosedAfter
        <3>2. j - 1 \in n + 1..Len(t) /\ t[j - 1] = "Closed"
            BY <1>l, <2>2, <2>4, <3>1
        <3> QED
            BY <2>1, <3>2 DEF ClosedAfter
    <2>6. CASE ~LinkIsUp
        <3>1. ASSUME NEW k \in 1..Len(q), q[k] = "Activated" PROVE ClosedAfter(k)
            BY <1>t, <2>6, <3>1 DEF ActivatedThenClosed
        <3>2. ASSUME NEW k \in 1..Len(t), t[k] = "Activated" PROVE ClosedAfter(k)'
            <4>1. k + 1 \in 1..Len(q) /\ q[k + 1] = "Activated" /\ k \in Nat
                BY <1>l, <2>2, <3>2
            <4> QED
                BY <2>5, <3>1, <4>1
        <3>3. ActivatedThenClosed'
            BY <2>1, <3>2 DEF ActivatedThenClosed
        <3>4. ASSUME contact' = "active" PROVE ClosedAfter(0)'
            <4>1. e = "Activated"
                BY <2>1, <2>2, <3>4 DEF Shown, Reports
            <4>2. 1 \in 1..Len(q) /\ q[1] = "Activated"
                BY <1>l, <2>2, <4>1
            <4>3. ClosedAfter(1)
                BY <3>1, <4>2
            <4>4. 0 \in Nat /\ 0 + 1 = 1
                OBVIOUS
            <4>5. ClosedAfter(0 + 1)
                BY <4>3, <4>4
            <4> QED
                BY <2>5, <4>4, <4>5
        <3> QED
            BY <2>3, <3>3, <3>4 DEF PeersInv, OnlineIsUp, ClosedAfter
    <2>7. CASE LinkIsUp
        BY <2>1, <2>3, <2>7 DEF PeersInv, ActivatedThenClosed, OnlineIsUp, LinkIsUp
    <2> QED
        BY <2>6, <2>7
<1>10. CASE UNCHANGED peerVars
    <2>1. UNCHANGED <<contact, outLink, linkEvents, ensure>>
        BY <1>10 DEF peerVars
    <2> QED
        BY <1>t, <2>1, PeersQuiet DEF PeersInv, PeersTypeOK, LinkIsUp
<1> QED
    BY <1>1, <1>2, <1>3, <1>4, <1>5, <1>6, <1>7, <1>8, <1>9, <1>10 DEF PeersNext

\* A contact is shown online only while its link is up or a Closed event is on
\* its way, for any number of requests and any length of the channel
\* (update_peer_status, register_announced_peer, ensure_out_link).
THEOREM OnlineIsTrue == PeersSpec => []OnlineIsUp
<1>1. PeersInv => OnlineIsUp
    BY DEF PeersInv
<1> QED
    BY <1>1, PeersInvInit, PeersInvNext, PTL DEF PeersSpec

-----------------------------------------------------------------------------
(* The Plugins page.  The file in an open dialog, and the one a picker that*)
(* covers it will give, are for the dialog's target; an upload that a      *)
(* dialog waits for is the only one; a load of the list that an upload     *)
(* waits for is the only one too, and finds it waiting.                    *)

UploadSteps == {"none", "sent", "served", "failed", "listing", "closing"}
UploadType == [pc : UploadSteps, to : Targets, file : Targets \cup {Nobody}]
LoadType == [pc : {"none", "sent", "served"}, list : SUBSET Plugins,
             for : {Nobody, "action"} \cup Uploads]

UploadTypes ==
    /\ modal \in [open : BOOLEAN, to : Targets, file : Targets \cup {Nobody}, uploading : BOOLEAN]
    /\ picker \in Targets \cup {Nobody}
    /\ upload \in [Uploads -> UploadType]
    /\ load \in [Loads -> LoadType]
    /\ server \subseteq Plugins /\ shown \subseteq Plugins
    /\ selected \in Plugins \cup {Nobody} /\ confirm \in Plugins \cup {Nobody}
    /\ cut \in BOOLEAN

ForItsTarget ==
    modal.open =>
        /\ modal.file # Nobody => modal.file = modal.to
        /\ picker # Nobody => picker = modal.to

BeingSent(u) == upload[u].pc \in {"sent", "served", "failed"}

DialogWaits ==
    /\ modal.uploading => modal.open
    /\ ~cut => \A u, v \in Uploads : BeingSent(u) => modal.uploading /\ (BeingSent(v) => u = v)

UploadWaits ==
    \A l \in Loads : load[l].pc # "none" /\ load[l].for \in Uploads =>
        /\ upload[load[l].for].pc = "listing"
        /\ \A m \in Loads : load[m].pc # "none" /\ load[m].for = load[l].for => m = l

UploadInv == UploadTypes /\ ForItsTarget /\ DialogWaits /\ UploadWaits /\ FileGoesWherePicked

LEMMA UploadInvInit == PluginPageInit => UploadInv
<1> SUFFICES ASSUME PluginPageInit PROVE UploadInv
    OBVIOUS
<1>1. UploadTypes
    BY DEF PluginPageInit, UploadTypes, UploadType, UploadSteps, LoadType, Targets, NoUpload,
           NoLoad, Closed
<1> QED
    BY <1>1 DEF PluginPageInit, UploadInv, ForItsTarget, DialogWaits, UploadWaits, BeingSent,
                FileGoesWherePicked, NoUpload, NoLoad, Closed

LEMMA UploadInvNext == UploadInv /\ [PluginPageNext]_pluginPageVars => UploadInv'
<1> SUFFICES ASSUME UploadInv, [PluginPageNext]_pluginPageVars PROVE UploadInv'
    OBVIOUS
<1>t. UploadTypes /\ ForItsTarget /\ DialogWaits /\ UploadWaits /\ FileGoesWherePicked
    BY DEF UploadInv
<1>p. /\ modal \in [open : BOOLEAN, to : Targets, file : Targets \cup {Nobody}, uploading : BOOLEAN]
      /\ picker \in Targets \cup {Nobody}
      /\ upload \in [Uploads -> UploadType] /\ load \in [Loads -> LoadType]
      /\ server \subseteq Plugins /\ shown \subseteq Plugins
      /\ selected \in Plugins \cup {Nobody} /\ confirm \in Plugins \cup {Nobody}
      /\ cut \in BOOLEAN
    BY <1>t DEF UploadTypes
<1>a. Nobody \notin Targets /\ Nobody \notin Uploads /\ "action" \notin Uploads
    BY PluginPageAssumption DEF Targets
<1> DEFINE
    ListKept == shown' \subseteq Plugins /\ selected' \in Plugins \cup {Nobody}
    AskKept == server' \subseteq Plugins /\ confirm' \in Plugins \cup {Nobody}
    FilesKept == /\ modal' \in [open : BOOLEAN, to : Targets, file : Targets \cup {Nobody},
                                uploading : BOOLEAN]
                 /\ picker' \in Targets \cup {Nobody} /\ cut' \in BOOLEAN
                 /\ ForItsTarget'
    SendsKept == /\ upload' \in [Uploads -> UploadType] /\ load' \in [Loads -> LoadType]
                 /\ FileGoesWherePicked' /\ UploadWaits'
<1>k. ListKept /\ AskKept /\ FilesKept /\ SendsKept /\ DialogWaits' => UploadInv'
    BY DEF UploadInv, UploadTypes
<1>l. UNCHANGED <<shown, selected>> => ListKept
    BY <1>p
<1>s. UNCHANGED <<server, confirm>> => AskKept
    BY <1>p
<1>f. UNCHANGED <<modal, picker, cut>> => FilesKept
    BY <1>p, <1>t DEF ForItsTarget
<1>w. UNCHANGED <<upload, load>> => SendsKept
    BY <1>p, <1>t DEF FileGoesWherePicked, UploadWaits
<1>d. UNCHANGED <<modal, upload, cut>> => DialogWaits'
    BY <1>t DEF DialogWaits, BeingSent
<1>n. ASSUME NEW for \in {Nobody, "action"}, StartLoad(for), upload' = upload PROVE SendsKept
    <2>1. PICK l \in Loads : /\ load[l].pc = "none"
                             /\ load' = [load EXCEPT ![l] = [pc |-> "sent", list |-> {}, for |-> for]]
        BY <1>n DEF StartLoad
    <2>2. load' \in [Loads -> LoadType] /\ load'[l].for \notin Uploads
          /\ \A m \in Loads \ {l} : load'[m] = load[m]
        BY <2>1, <1>p, <1>a DEF LoadType
    <2>3. UploadWaits'
        BY <1>n, <1>t, <2>2 DEF UploadWaits
    <2> QED
        BY <1>n, <1>p, <1>t, <2>2, <2>3 DEF FileGoesWherePicked
\* A load is over, and what waited for it goes on.
<1>r. ASSUME NEW l \in Loads, load[l].pc # "none", Released(load[l].for),
             load' = [load EXCEPT ![l] = NoLoad], UNCHANGED <<modal, picker, cut>>
      PROVE  SendsKept /\ DialogWaits'
    <2>1. /\ load' \in [Loads -> LoadType] /\ load'[l].pc = "none"
          /\ \A m \in Loads \ {l} : load'[m] = load[m]
        BY <1>r, <1>p DEF LoadType, NoLoad
    <2>2. upload' = [u \in Uploads |-> IF u = load[l].for THEN [upload[u] EXCEPT !.pc = "closing"]
                                                          ELSE upload[u]]
        BY <1>r DEF Released
    <2>3. \A u \in Uploads : u = load[l].for => upload[u].pc = "listing"
        BY <1>r, <1>t DEF UploadWaits
    <2>4. /\ upload' \in [Uploads -> UploadType]
          /\ \A u \in Uploads : /\ upload'[u].to = upload[u].to /\ upload'[u].file = upload[u].file
                                /\ u # load[l].for => upload'[u].pc = upload[u].pc
                                /\ u = load[l].for => upload'[u].pc = "closing"
        BY <1>p, <2>2 DEF UploadType, UploadSteps
    <2>5. FileGoesWherePicked'
        BY <1>t, <2>3, <2>4 DEF FileGoesWherePicked
    <2>6. UploadWaits'
        BY <1>r, <1>t, <2>1, <2>4 DEF UploadWaits
    <2>7. \A u \in Uploads : BeingSent(u)' => BeingSent(u)
        BY <2>3, <2>4 DEF BeingSent
    <2>8. DialogWaits'
        BY <1>r, <1>t, <2>7 DEF DialogWaits
    <2> QED
        BY <2>1, <2>4, <2>5, <2>6, <2>8
<1> HIDE DEF ListKept, AskKept, FilesKept, SendsKept
<1>u. ASSUME UNCHANGED uploadPart, UNCHANGED load PROVE FilesKept /\ SendsKept /\ DialogWaits'
    BY <1>u, <1>f, <1>w, <1>d DEF uploadPart
<1>v. ASSUME NEW for \in {Nobody, "action"}, StartLoad(for), UNCHANGED uploadPart
      PROVE FilesKept /\ SendsKept /\ DialogWaits'
    BY <1>v, <1>f, <1>n, <1>d DEF uploadPart
<1>1. CASE Tick
    BY <1>1, <1>k, <1>l, <1>s, <1>v DEF Tick, dialogPart
<1>2. ASSUME NEW l \in Loads, ListServed(l) PROVE UploadInv'
    <2> DEFINE r == [pc |-> "served", list |-> server, for |-> load[l].for]
    <2>0. /\ load[l].pc = "sent" /\ r \in LoadType /\ r.for = load[l].for
          /\ load' = [load EXCEPT ![l] = r]
        <3>1. load[l] \in LoadType
            BY <1>p
        <3>2. r \in LoadType
            BY <3>1, <1>p DEF LoadType
        <3> QED
            BY <1>2, <3>2 DEF ListServed
    <2> HIDE DEF r
    <2>1. /\ load' \in [Loads -> LoadType] /\ load'[l].for = load[l].for /\ load[l].pc = "sent"
          /\ \A m \in Loads \ {l} : load'[m] = load[m]
        BY <2>0, <1>p
    <2>2. UNCHANGED <<modal, picker, upload, cut, server, shown, selected, confirm>>
        BY <1>2 DEF ListServed, uploadPart, dialogPart
    <2>3. UploadWaits'
        BY <1>t, <2>1, <2>2 DEF UploadWaits
    <2>4. SendsKept
        BY <1>p, <1>t, <2>1, <2>2, <2>3 DEF SendsKept, FileGoesWherePicked
    <2> QED
        BY <1>k, <1>l, <1>s, <1>f, <1>d, <2>2, <2>4
<1>3. ASSUME NEW l \in Loads, ListAnswered(l) PROVE UploadInv'
    <2>1. load[l].pc # "none" /\ load[l].list \subseteq Plugins
        BY <1>3, <1>p DEF ListAnswered, LoadType
    <2>2. ListKept
        BY <1>3, <1>p, <2>1 DEF ListAnswered, ListKept, Taken, Selection
    <2>3. SendsKept /\ DialogWaits'
        BY <1>3, <1>r, <2>1 DEF ListAnswered
    <2> QED
        BY <1>3, <1>k, <1>s, <1>f, <2>2, <2>3 DEF ListAnswered
<1>4. ASSUME NEW l \in Loads, LoadFails(l) PROVE UploadInv'
    <2>1. SendsKept /\ DialogWaits'
        BY <1>4, <1>r DEF LoadFails
    <2> QED
        BY <1>4, <1>k, <1>l, <1>s, <1>f, <2>1 DEF LoadFails
<1>5. ASSUME NEW p \in Plugins, Select(p) PROVE UploadInv'
    <2>1. ListKept
        BY <1>5, <1>p DEF Select, ListKept
    <2> QED
        BY <1>5, <1>k, <1>s, <1>u, <2>1 DEF Select, dialogPart
<1>6. CASE Toggled
    BY <1>6, <1>k, <1>l, <1>s, <1>v DEF Toggled, dialogPart
<1>7. CASE AskDelete \/ CloseConfirm \/ SubmitConfirm
    <2>1. AskKept
        BY <1>7, <1>p DEF AskDelete, CloseConfirm, SubmitConfirm, AskKept
    <2> QED
        BY <1>7, <1>k, <1>l, <1>u, <2>1 DEF AskDelete, CloseConfirm, SubmitConfirm, listPart
<1>8. CASE ActionServed
    <2>1. AskKept
        BY <1>8, <1>p DEF ActionServed, AskKept
    <2> QED
        BY <1>8, <1>k, <1>l, <1>u, <2>1 DEF ActionServed, listPart
<1>9. CASE ActionAnswered
    BY <1>9, <1>k, <1>l, <1>s, <1>v DEF ActionAnswered
<1>10. ASSUME NEW to \in Targets, OpenUpload(to) PROVE UploadInv'
    <2>1. /\ modal' = [open |-> TRUE, to |-> to, file |-> Nobody, uploading |-> FALSE]
          /\ ~modal.open /\ picker = Nobody /\ UNCHANGED <<picker, upload, cut, load>>
        BY <1>10 DEF OpenUpload, OpenedFor, Closed, Clicks, listPart
    <2>2. FilesKept
        BY <1>p, <2>1 DEF FilesKept, ForItsTarget
    <2>3. DialogWaits'
        BY <1>t, <2>1 DEF DialogWaits, BeingSent
    <2> QED
        BY <1>10, <1>k, <1>l, <1>s, <1>w, <2>1, <2>2, <2>3 DEF OpenUpload, listPart, dialogPart
<1>11. CASE OpenPicker
    <2>1. FilesKept
        BY <1>11, <1>p, <1>t DEF OpenPicker, FilesKept, ForItsTarget
    <2> QED
        BY <1>11, <1>k, <1>l, <1>s, <1>w, <1>d, <2>1 DEF OpenPicker, listPart, dialogPart
<1>12. CASE Pick
    <2>1. /\ modal' \in {modal, [modal EXCEPT !.file = picker]} /\ picker # Nobody
          /\ picker' = Nobody /\ UNCHANGED <<upload, cut, load>>
        BY <1>12 DEF Pick, listPart
    <2>2. FilesKept
        BY <1>p, <1>t, <2>1 DEF FilesKept, ForItsTarget
    <2>3. modal'.open = modal.open /\ modal'.uploading = modal.uploading
        BY <1>p, <2>1
    <2>4. DialogWaits'
        BY <1>t, <2>1, <2>3 DEF DialogWaits, BeingSent
    <2> QED
        BY <1>12, <1>k, <1>l, <1>s, <1>w, <2>1, <2>2, <2>4 DEF Pick, listPart, dialogPart
<1>13. CASE CloseUpload
    <2>1. /\ modal' = Closed /\ ~modal.uploading /\ UNCHANGED <<picker, upload, cut, load>>
        BY <1>13 DEF CloseUpload, MayClose, listPart
    <2>2. FilesKept
        BY <1>p, <2>1 DEF FilesKept, ForItsTarget, Closed, Targets
    <2>3. DialogWaits'
        BY <1>t, <2>1 DEF DialogWaits, BeingSent, Closed
    <2> QED
        BY <1>13, <1>k, <1>l, <1>s, <1>w, <2>1, <2>2, <2>3 DEF CloseUpload, listPart, dialogPart
<1>14. CASE SubmitUpload
    <2>1. /\ modal.open /\ modal.file # Nobody /\ ~modal.uploading
          /\ modal' = [modal EXCEPT !.uploading = TRUE] /\ UNCHANGED <<picker, cut, load>>
        BY <1>14 DEF SubmitUpload, listPart
    <2>2. PICK u \in Uploads :
            /\ upload[u].pc = "none"
            /\ upload' = [upload EXCEPT ![u] = [pc |-> "sent", to |-> modal.to, file |-> modal.file]]
        BY <1>14 DEF SubmitUpload
    <2>3. /\ upload' \in [Uploads -> UploadType]
          /\ upload'[u] = [pc |-> "sent", to |-> modal.to, file |-> modal.file]
          /\ \A v \in Uploads \ {u} : upload'[v] = upload[v]
        BY <1>p, <2>2 DEF UploadType, UploadSteps
    <2>4. FilesKept
        BY <1>p, <1>t, <2>1 DEF FilesKept, ForItsTarget
    <2>5. FileGoesWherePicked'
        BY <1>t, <2>1, <2>3 DEF FileGoesWherePicked, ForItsTarget
    <2>6. UploadWaits'
        BY <1>t, <2>1, <2>2, <2>3 DEF UploadWaits
    <2>7. SendsKept
        BY <1>p, <2>1, <2>3, <2>5, <2>6 DEF SendsKept
    <2>8. modal'.open /\ modal'.uploading
        BY <1>p, <2>1
    <2>9. \A v \in Uploads \ {u} : BeingSent(v)' => BeingSent(v)
        BY <2>3 DEF BeingSent
    <2>10. DialogWaits'
        BY <1>t, <2>1, <2>8, <2>9 DEF DialogWaits
    <2> QED
        BY <1>14, <1>k, <1>l, <1>s, <2>4, <2>7, <2>10 DEF SubmitUpload, listPart, dialogPart
<1>15. ASSUME NEW u \in Uploads, UploadServed(u) PROVE UploadInv'
    <2>1. PICK pc \in {"served", "failed"} : upload' = [upload EXCEPT ![u].pc = pc]
        BY <1>15 DEF UploadServed
    <2>2. /\ upload' \in [Uploads -> UploadType] /\ upload'[u] = [upload[u] EXCEPT !.pc = pc]
          /\ \A v \in Uploads \ {u} : upload'[v] = upload[v]
        BY <1>p, <2>1 DEF UploadType, UploadSteps
    <2>3. upload[u].pc = "sent" /\ UNCHANGED <<modal, picker, cut, load>>
        BY <1>15 DEF UploadServed, listPart
    <2>4. upload'[u].pc = pc /\ upload'[u].to = upload[u].to /\ upload'[u].file = upload[u].file
        BY <1>p, <2>2 DEF UploadType
    <2>5. FileGoesWherePicked'
        BY <1>t, <2>2, <2>3, <2>4 DEF FileGoesWherePicked
    <2>6. UploadWaits'
        BY <1>t, <2>2, <2>3 DEF UploadWaits
    <2>7. SendsKept
        BY <1>p, <2>2, <2>3, <2>5, <2>6 DEF SendsKept
    <2>8. \A v \in Uploads : BeingSent(v)' => BeingSent(v)
        BY <2>2, <2>3 DEF BeingSent
    <2>9. DialogWaits'
        BY <1>t, <2>3, <2>8 DEF DialogWaits
    <2>10. server' \subseteq Plugins
        <3>1. upload[u].to \in Targets
            BY <1>p DEF UploadType
        <3> QED
            BY <1>15, <1>p, <3>1 DEF UploadServed, Targets
    <2>11. AskKept
        BY <1>15, <1>p, <2>10 DEF UploadServed, AskKept, dialogPart
    <2> QED
        BY <1>15, <1>k, <1>l, <1>f, <2>3, <2>7, <2>9, <2>11 DEF UploadServed, listPart
<1>16. ASSUME NEW u \in Uploads, UploadAnswered(u) PROVE UploadInv'
    <2>1. /\ BeingSent(u) /\ modal' = [modal EXCEPT !.uploading = FALSE] /\ UNCHANGED <<picker, cut>>
        BY <1>16 DEF UploadAnswered, BeingSent
    <2>2. FilesKept
        BY <1>p, <1>t, <2>1 DEF FilesKept, ForItsTarget
    <2>3. \A l \in Loads : load[l].pc # "none" => load[l].for # u
        BY <1>t, <2>1 DEF UploadWaits, BeingSent
    <2>4. /\ upload' \in [Uploads -> UploadType]
          /\ \A v \in Uploads \ {u} : upload'[v] = upload[v]
          /\ \/ upload'[u].pc = "none" /\ UNCHANGED load
             \/ /\ upload'[u].pc = "listing" /\ upload'[u].to = upload[u].to
                /\ upload'[u].file = upload[u].file /\ StartLoad(u)
        <3>1. CASE upload[u].pc = "served"
            BY <1>16, <1>p, <3>1 DEF UploadAnswered, UploadType, UploadSteps
        <3>2. CASE upload[u].pc # "served"
            BY <1>16, <1>p, <3>2 DEF UploadAnswered, UploadType, UploadSteps, NoUpload, Targets
        <3> QED
            BY <3>1, <3>2
    <2>5. FileGoesWherePicked'
        BY <1>t, <2>1, <2>4 DEF FileGoesWherePicked, BeingSent
    <2>6. load' \in [Loads -> LoadType] /\ UploadWaits'
        <3>1. CASE UNCHANGED load
            BY <1>p, <1>t, <2>3, <2>4, <3>1 DEF UploadWaits
        <3>2. CASE upload'[u].pc = "listing" /\ StartLoad(u)
            <4>1. PICK l \in Loads :
                    /\ load[l].pc = "none"
                    /\ load' = [load EXCEPT ![l] = [pc |-> "sent", list |-> {}, for |-> u]]
                BY <3>2 DEF StartLoad
            <4>2. load' \in [Loads -> LoadType] /\ load'[l].for = u
                  /\ \A m \in Loads \ {l} : load'[m] = load[m]
                BY <4>1, <1>p DEF LoadType
            <4> QED
                BY <1>t, <2>3, <2>4, <3>2, <4>2 DEF UploadWaits
        <3> QED
            BY <2>4, <3>1, <3>2
    <2>7. SendsKept
        BY <2>4, <2>5, <2>6 DEF SendsKept
    <2>8. \A v \in Uploads : BeingSent(v)' => BeingSent(v) /\ v # u
        BY <2>4 DEF BeingSent
    <2>9. ~modal'.uploading
        BY <1>p, <2>1
    <2>10. DialogWaits'
        BY <1>t, <2>1, <2>8, <2>9 DEF DialogWaits
    <2> QED
        BY <1>16, <1>k, <1>l, <1>s, <2>2, <2>7, <2>10 DEF UploadAnswered, dialogPart
<1>17. ASSUME NEW u \in Uploads, DelayedClose(u) PROVE UploadInv'
    <2>1. /\ upload[u].pc = "closing" /\ upload' = [upload EXCEPT ![u] = NoUpload]
          /\ modal' = Closed /\ cut' = (cut \/ modal.uploading) /\ UNCHANGED <<picker, load>>
        BY <1>17 DEF DelayedClose, listPart
    <2>2. FilesKept
        BY <1>p, <2>1 DEF FilesKept, ForItsTarget, Closed, Targets
    <2>3. /\ upload' \in [Uploads -> UploadType] /\ upload'[u].pc = "none"
          /\ \A v \in Uploads \ {u} : upload'[v] = upload[v]
        BY <1>p, <2>1 DEF UploadType, UploadSteps, NoUpload, Targets
    <2>4. FileGoesWherePicked'
        BY <1>t, <2>3 DEF FileGoesWherePicked
    <2>5. UploadWaits'
        BY <1>t, <2>1, <2>3 DEF UploadWaits
    <2>6. SendsKept
        BY <1>p, <2>1, <2>3, <2>4, <2>5 DEF SendsKept
    <2>7. \A v \in Uploads : BeingSent(v)' => BeingSent(v)
        BY <2>3 DEF BeingSent
    <2>8. DialogWaits'
        BY <1>t, <2>1, <2>7 DEF DialogWaits, Closed
    <2> QED
        BY <1>17, <1>k, <1>l, <1>s, <2>2, <2>6, <2>8 DEF DelayedClose, listPart, dialogPart
<1>18. CASE UNCHANGED pluginPageVars
    BY <1>18, <1>k, <1>l, <1>s, <1>u DEF pluginPageVars, uploadPart
<1> QED
    BY <1>1, <1>2, <1>3, <1>4, <1>5, <1>6, <1>7, <1>8, <1>9, <1>10, <1>11, <1>12, <1>13,
       <1>14, <1>15, <1>16, <1>17, <1>18 DEF PluginPageNext, Answers

\* On the Plugins page a file goes to the target it was picked for, and one
\* upload is under way at a time, unless a delayed close fell on another's
\* (openUploadModal, submitModalUpload, closeUploadModal in pages/plugins.rs).
THEOREM UploadsStayInOrder == PluginPageSpec => []UploadsInOrder
<1>1. UploadInv => UploadsInOrder
    <2> SUFFICES ASSUME UploadInv, ~cut
                 PROVE  Cardinality({u \in Uploads : BeingSent(u)}) <= 1
        BY DEF UploadInv, UploadsInOrder, OneUpload, BeingSent
    <2> DEFINE S == {u \in Uploads : BeingSent(u)}
    <2>1. S = {} \/ \E u \in S : S = {u}
        BY DEF UploadInv, DialogWaits
    <2> HIDE DEF S
    <2>2. Cardinality(S) <= 1
        BY <2>1, FS_EmptySet, FS_Singleton
    <2> QED
        BY <2>2 DEF S
<1> QED
    BY <1>1, UploadInvInit, UploadInvNext, PTL DEF PluginPageSpec

-----------------------------------------------------------------------------
(* The talk page: types.                                                   *)

LEMMA PageInitType == PageInit => PageTypeOK
<1> SUFFICES ASSUME PageInit PROVE PageTypeOK
    OBVIOUS
<1>1. 0 \in 0..MaxRetries
    BY PageAssumption
<1>2. rx \in {"none", "connecting", "open"}
    BY DEF PageInit
<1>3. /\ button = FALSE /\ capture = FALSE /\ talk = "idle" /\ active = FALSE
      /\ context = FALSE /\ ptt = "none" /\ halts = {} /\ mode \in {"browser", "alsa"}
      /\ failed = FALSE /\ retries = 0
    BY Zenon DEF PageInit
<1> QED
    BY <1>1, <1>2, <1>3 DEF PageTypeOK

LEMMA PageNextType == PageTypeOK /\ [PageNext]_pageVars => PageTypeOK'
<1> SUFFICES ASSUME PageTypeOK, [PageNext]_pageVars PROVE PageTypeOK'
    OBVIOUS
<1>t. /\ button \in BOOLEAN /\ capture \in BOOLEAN /\ active \in BOOLEAN
      /\ context \in BOOLEAN /\ failed \in BOOLEAN
      /\ talk \in {"idle", "saving", "priming", "opening", "failing", "catch"}
      /\ ptt \in {"none", "connecting", "open", "dead"}
      /\ halts \subseteq Callers
      /\ mode \in {"browser", "alsa"}
      /\ rx \in {"none", "connecting", "open"}
      /\ retries \in 0..MaxRetries /\ MaxRetries \in Nat
    BY PageAssumption DEF PageTypeOK
<1>s. ASSUME NEW c \in Callers, StopTalk(c)
      PROVE  /\ active' \in BOOLEAN /\ halts' \subseteq Callers
             /\ ptt' \in {"none", "connecting", "open", "dead"}
    BY <1>s, <1>t DEF StopTalk
<1>d. Doomed \in {"idle", "saving", "priming", "opening", "failing", "catch"}
    BY <1>t DEF Doomed
<1>c. {"release", "capture", "catch"} = Callers
    BY DEF Callers
<1>1. ASSUME Press \/ Saved \/ Primed \/ Opened \/ Caught \/ ServerCloses PROVE PageTypeOK'
    <2>1. UNCHANGED <<context, halts, rxVars>> \/ (UNCHANGED <<halts, rxVars>> /\ context' = TRUE)
        BY <1>1 DEF Press, Saved, Primed, Opened, Caught, ServerCloses
    <2>2. button' \in BOOLEAN /\ capture' \in BOOLEAN /\ active' \in BOOLEAN
        BY <1>1, <1>t DEF Press, Saved, Primed, Opened, Caught, ServerCloses
    <2>3. /\ talk' \in {"idle", "saving", "priming", "opening", "failing", "catch"}
          /\ ptt' \in {"none", "connecting", "open", "dead"}
        BY <1>1, <1>t DEF Press, Saved, Primed, Opened, Caught, ServerCloses
    <2> QED
        BY <1>t, <2>1, <2>2, <2>3 DEF rxVars, PageTypeOK
<1>2. CASE StartFails
    BY <1>2, <1>t, <1>s, <1>c DEF StartFails, rxVars, PageTypeOK
<1>3. CASE Release \/ LostCapture
    BY <1>3, <1>t, <1>s, <1>d, <1>c DEF Release, LostCapture, rxVars, PageTypeOK
<1>4. ASSUME NEW c \in Callers, HaltResumes(c) PROVE PageTypeOK'
    BY <1>4, <1>t, <1>d DEF HaltResumes, rxVars, PageTypeOK
<1>5. ASSUME NEW m \in {"browser", "alsa"}, SetAudioOutput(m) PROVE PageTypeOK'
    BY <1>5, <1>t DEF SetAudioOutput, StartRx, talkVars, PageTypeOK
<1>6. ASSUME RxOpens \/ RxError \/ RxCloses PROVE PageTypeOK'
    <2>1. /\ UNCHANGED <<mode, talkVars>> /\ rx' \in {"none", "connecting", "open"}
          /\ failed' \in BOOLEAN
        BY <1>6, <1>t DEF RxOpens, RxError, RxCloses
    <2>2. retries' \in 0..MaxRetries
        BY <1>6, <1>t DEF RxOpens, RxError, RxCloses
    <2> QED
        BY <1>t, <2>1, <2>2 DEF talkVars, PageTypeOK
<1>7. CASE RxTimer
    BY <1>7, <1>t DEF RxTimer, StartRx, talkVars, PageTypeOK
<1>8. CASE UNCHANGED pageVars
    BY <1>8, <1>t DEF pageVars, talkVars, rxVars, PageTypeOK
<1> QED
    BY <1>1, <1>2, <1>3, <1>4, <1>5, <1>6, <1>7, <1>8 DEF PageNext, TalkNext, RxNext

-----------------------------------------------------------------------------
(* Their product.  A step of it is a step of one component and leaves the  *)
(* others alone: its behaviours are behaviours of each.                    *)

Parts == {"session", "page", "peers", "config", "service", "plugins", "uploads"}

LEMMA ServicesParts ==
    ServicesSpec => /\ Spec /\ PageSpec /\ PeersSpec /\ ConfigSpec /\ ServiceSpec
                    /\ PluginPageSpec /\ [](which \in Parts)
<1>1. ServicesInit => /\ Init /\ PageInit /\ PeersInit /\ ConfigInit /\ ServiceInit
                      /\ PluginPageInit /\ which \in Parts
    BY DEF ServicesInit, Parts
<1>2. ASSUME [ServicesNext]_servicesVars
      PROVE  /\ [Next]_vars /\ [PageNext]_pageVars /\ [PeersNext]_peerVars
             /\ [ConfigNext]_configVars /\ [ServiceNext]_serviceVars
             /\ [PluginPageNext]_pluginPageVars /\ which' = which
    BY <1>2, Zenon DEF ServicesNext, servicesVars
<1>3. ServicesSpec => Spec
    <2>1. ServicesInit => Init
        BY <1>1
    <2>2. [ServicesNext]_servicesVars => [Next]_vars
        BY <1>2
    <2> QED
        BY <2>1, <2>2, PTL DEF ServicesSpec, Spec
<1>4. ServicesSpec => PageSpec
    <2>1. ServicesInit => PageInit
        BY <1>1
    <2>2. [ServicesNext]_servicesVars => [PageNext]_pageVars
        BY <1>2
    <2> QED
        BY <2>1, <2>2, PTL DEF ServicesSpec, PageSpec
<1>5. ServicesSpec => PeersSpec
    <2>1. ServicesInit => PeersInit
        BY <1>1
    <2>2. [ServicesNext]_servicesVars => [PeersNext]_peerVars
        BY <1>2
    <2> QED
        BY <2>1, <2>2, PTL DEF ServicesSpec, PeersSpec
<1>6. ServicesSpec => ConfigSpec
    <2>1. ServicesInit => ConfigInit
        BY <1>1
    <2>2. [ServicesNext]_servicesVars => [ConfigNext]_configVars
        BY <1>2
    <2> QED
        BY <2>1, <2>2, PTL DEF ServicesSpec, ConfigSpec
<1>7. ServicesSpec => ServiceSpec
    <2>1. ServicesInit => ServiceInit
        BY <1>1
    <2>2. [ServicesNext]_servicesVars => [ServiceNext]_serviceVars
        BY <1>2
    <2> QED
        BY <2>1, <2>2, PTL DEF ServicesSpec, ServiceSpec
<1>8. ServicesSpec => PluginPageSpec
    <2>1. ServicesInit => PluginPageInit
        BY <1>1
    <2>2. [ServicesNext]_servicesVars => [PluginPageNext]_pluginPageVars
        BY <1>2
    <2> QED
        BY <2>1, <2>2, PTL DEF ServicesSpec, PluginPageSpec
<1>9. ServicesSpec => [](which \in Parts)
    <2>1. ServicesInit => which \in Parts
        BY <1>1
    <2>2. which \in Parts /\ [ServicesNext]_servicesVars => (which \in Parts)'
        BY <1>2
    <2> QED
        BY <2>1, <2>2, PTL DEF ServicesSpec
<1> QED
    BY <1>3, <1>4, <1>5, <1>6, <1>7, <1>8, <1>9

\* Each component keeps its types, in whatever product they run, for any number of
\* handlers, browsers, requests and plugins (MCServices.TypesOK).
THEOREM ServicesTypes == ServicesSpec => []TypesOK
<1>1. Spec => []TypeOK
    BY SessionTypeCorrect
<1>2. PageSpec => []PageTypeOK
    BY PageInitType, PageNextType, PTL DEF PageSpec
<1>3. PeersSpec => []PeersTypeOK
    <2>1. PeersInv => PeersTypeOK
        BY DEF PeersInv
    <2> QED
        BY <2>1, PeersInvInit, PeersInvNext, PTL DEF PeersSpec
<1>4. ConfigSpec => []ConfigTypeOK
    <2>1. ConfigInv => ConfigTypeOK
        BY DEF ConfigInv
    <2> QED
        BY <2>1, ConfigInvInit, ConfigInvNext, PTL DEF ConfigSpec
<1>5. ServiceSpec => []ServiceTypeOK
    <2>1. ServiceInv => ServiceTypeOK
        BY DEF ServiceInv
    <2> QED
        BY <2>1, ServiceInitInv, ServiceNextInv, PTL DEF ServiceSpec
<1>6. PluginPageSpec => []PluginPageTypeOK
    <2>1. UploadInv => PluginPageTypeOK
        BY DEF UploadInv, UploadTypes, PluginPageTypeOK
    <2> QED
        BY <2>1, UploadInvInit, UploadInvNext, PTL DEF PluginPageSpec
<1>7. /\ which \in Parts
      /\ TypeOK /\ PageTypeOK /\ PeersTypeOK /\ ConfigTypeOK /\ ServiceTypeOK
      /\ PluginPageTypeOK
      => TypesOK
    BY Zenon DEF TypesOK, Parts
<1> QED
    BY ServicesParts, <1>1, <1>2, <1>3, <1>4, <1>5, <1>6, <1>7, PTL
=============================================================================

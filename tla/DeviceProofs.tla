---------------------------- MODULE DeviceProofs -----------------------------
(***************************************************************************)
(* What is kept on the device, for any number of requests, browsers,       *)
(* plugins and versions: no request undoes what another has saved          *)
(* (GatewaySettings), no upgrade leaves the installer torn or stopped for  *)
(* nothing (InstallerUpgrade), the Media page shows what the mixer was     *)
(* asked for and does (AudioControl), the VPN page shows what it has saved *)
(* and keeps what is typed (VpnPage), a failed update of a plugin is       *)
(* undone (PluginStore), and a package that is accepted is stored as it    *)
(* was meant and found again (PluginPackage).  Last, what holds of each of *)
(* them holds of their product (MCDevice).                                 *)
(***************************************************************************)
EXTENDS MCDevice, CountingProofs, SequenceTheorems

-----------------------------------------------------------------------------
(* The settings: types.                                                    *)

LEMMA DefaultIsConfig == Default \in Config /\ Default.peers = {}
<1>1. \E cfg \in Config : cfg.peers = {}
    <2>1. PICK r \in RouteLists : TRUE
        BY SettingsAssumption
    <2>2. [routes |-> r, peers |-> {}] \in Config
        BY DEF Config
    <2> QED
        BY <2>2
<1> QED
    BY <1>1 DEF Default

LEMMA OverIsConfig ==
    ASSUME NEW old \in Config, NEW kind \in Kinds, NEW cfg \in Config
    PROVE  /\ Over(old, kind, cfg) \in Config
           /\ Over(old, kind, cfg).routes = IF kind = "access" THEN old.routes ELSE cfg.routes
           /\ Over(old, kind, cfg).peers = IF kind = "routes" THEN old.peers ELSE cfg.peers
BY DEF Over, Kinds, Config

LEMMA IdleType == Idle \in [pc : Steps, kind : Kinds, cfg : Config]
BY DefaultIsConfig DEF Idle, Steps, Kinds

LEMMA StartVpnType ==
    ASSUME NEW rows \in Config
    PROVE  /\ StartVpn(rows) \in [up : BOOLEAN, routes : RouteLists, peers : SUBSET Hashes]
           /\ StartVpn(rows).routes = rows.routes /\ StartVpn(rows).peers = rows.peers
<1>1. (BadHash \notin rows.peers) \in BOOLEAN
    OBVIOUS
<1> QED
    BY <1>1 DEF StartVpn, Config

LEMMA SettingsTypeInit == SettingsInit => SettingsTypeOK
<1> SUFFICES ASSUME SettingsInit PROVE SettingsTypeOK
    OBVIOUS
<1>1. db \in Config /\ wanted \in Config
    BY DefaultIsConfig DEF SettingsInit
<1>2. running \in [up : BOOLEAN, routes : RouteLists, peers : SUBSET Hashes]
    BY <1>1, StartVpnType DEF SettingsInit
<1>3. request \in [Clients -> [pc : Steps, kind : Kinds, cfg : Config]]
    BY IdleType DEF SettingsInit
<1>4. faults \in 0..MaxFaults
    BY SettingsAssumption DEF SettingsInit
<1> QED
    BY <1>1, <1>2, <1>3, <1>4 DEF SettingsInit, SettingsTypeOK

LEMMA SettingsTypeNext == SettingsTypeOK /\ [SettingsNext]_settingsVars => SettingsTypeOK'
<1> SUFFICES ASSUME SettingsTypeOK, [SettingsNext]_settingsVars PROVE SettingsTypeOK'
    OBVIOUS
<1>. USE SettingsAssumption, DefaultIsConfig, IdleType
     DEF SettingsTypeOK, At, Goto, End, history, Steps, Kinds
<1>1. ASSUME NEW c \in Clients, NEW k \in Kinds, NEW cfg \in Config, Put(c, k, cfg)
      PROVE  SettingsTypeOK'
    BY <1>1 DEF Put
<1>2. ASSUME NEW c \in Clients, Lock(c) PROVE SettingsTypeOK'
    BY <1>2, OverIsConfig DEF Lock, Merged
<1>3. ASSUME NEW c \in Clients, SaveRoutes(c) PROVE SettingsTypeOK'
    BY <1>3 DEF SaveRoutes, Config
<1>4. ASSUME NEW c \in Clients, ClearPeers(c) PROVE SettingsTypeOK'
    BY <1>4 DEF ClearPeers, Cleared, Config
<1>5. ASSUME NEW c \in Clients, InsertPeer(c) PROVE SettingsTypeOK'
    BY <1>5 DEF InsertPeer, Config
<1>6. ASSUME NEW c \in Clients, PeersDone(c) PROVE SettingsTypeOK'
    BY <1>6 DEF PeersDone
<1>7. ASSUME NEW c \in Clients, SaveRest(c) PROVE SettingsTypeOK'
    BY <1>7, OverIsConfig DEF SaveRest
<1>8. ASSUME NEW c \in Clients, SaveFails(c) PROVE SettingsTypeOK'
    BY <1>8 DEF SaveFails
<1>9. ASSUME NEW c \in Clients, ApplyPolicy(c) PROVE SettingsTypeOK'
    <2>1. request' = [request EXCEPT ![c].pc = "advertise"] \/ request' = [request EXCEPT ![c] = Idle]
        BY <1>9 DEF ApplyPolicy
    <2>2. running' = running \/ running' = [running EXCEPT !.peers = request[c].cfg.peers]
        BY <1>9 DEF ApplyPolicy
    <2>3. refused' \in BOOLEAN /\ UNCHANGED <<db, holder, faults, wanted, torn, alone>>
        BY <1>9 DEF ApplyPolicy
    <2>4. request[c].cfg.peers \in SUBSET Hashes
        BY DEF Config
    <2>5. running' \in [up : BOOLEAN, routes : RouteLists, peers : SUBSET Hashes]
        BY <2>2, <2>4
    <2>6. request' \in [Clients -> [pc : Steps, kind : Kinds, cfg : Config]]
        BY <2>1
    <2> QED
        BY <2>3, <2>5, <2>6
<1>10. ASSUME NEW c \in Clients, ApplyRoutes(c) PROVE SettingsTypeOK'
    BY <1>10 DEF ApplyRoutes, Advertised, Config
<1>11. CASE Restart
    <2>1. running' \in [up : BOOLEAN, routes : RouteLists, peers : SUBSET Hashes]
        BY <1>11, StartVpnType DEF Restart
    <2>2. request' \in [Clients -> [pc : Steps, kind : Kinds, cfg : Config]]
        BY <1>11 DEF Restart
    <2>3. faults' \in 0..MaxFaults
        BY <1>11 DEF Restart
    <2>4. torn' \in BOOLEAN /\ refused' \in BOOLEAN /\ alone' = "none"
        BY <1>11 DEF Restart
    <2>5. holder' = Nobody /\ UNCHANGED <<db, wanted>>
        BY <1>11 DEF Restart
    <2> QED
        BY <2>1, <2>2, <2>3, <2>4, <2>5
<1>12. CASE UNCHANGED settingsVars
    BY <1>12 DEF settingsVars
<1> QED
    BY <1>1, <1>2, <1>3, <1>4, <1>5, <1>6, <1>7, <1>8, <1>9, <1>10, <1>11, <1>12
       DEF SettingsNext, SettingsStep

-----------------------------------------------------------------------------
(* The settings: the inductive invariant.                                  *)

Saving == {"routes", "clear", "peers", "rest"}
Applying == {"policy", "advertise"}

\* The lock belongs to the request that is at its rows.
LockHeld ==
    /\ \A c \in Clients : request[c].pc \in Saving <=> holder = c
    /\ \A c \in Clients :
         /\ At(c, "policy") => request[c].kind # "routes"
         /\ At(c, "advertise") => request[c].kind # "access"

\* How far the rows of the request that has the lock have got.
RowsSoFar ==
    \A c \in Clients :
        LET cfg == request[c].cfg IN
        /\ request[c].pc \in {"clear", "peers", "rest"} => db.routes = cfg.routes
        /\ At(c, "peers") => db.peers \subseteq cfg.peers
        /\ At(c, "rest") => db.peers = cfg.peers

\* What it saves is what was asked for, by it and by all before it; if a save was
\* cut short, only a whole configuration is.
SavesWanted ==
    \A c \in Clients :
        holder = c /\ (~torn \/ request[c].kind = "settings") => request[c].cfg = wanted

\* A request beside which no other has run is the only one, and what it has still
\* to apply is what it stored.
AppliesStored ==
    alone # "none" =>
        /\ \A c \in Clients : ~At(c, "idle") =>
             request[c].kind = alone /\ \A d \in Clients : ~At(d, "idle") => d = c
        /\ \A c \in Clients :
             LET r == request[c] IN
             /\ At(c, "policy") => r.cfg.peers = db.peers
             /\ At(c, "policy") /\ r.kind = "settings" => r.cfg.routes = db.routes
             /\ At(c, "advertise") => r.cfg.routes = db.routes
             /\ At(c, "advertise") /\ r.kind = "settings" /\ running.up => running.peers = db.peers

SettingsInv ==
    SettingsTypeOK /\ LockHeld /\ RowsSoFar /\ SavesWanted /\ AppliesStored /\ SettingsKept

LEMMA SettingsInvInit == SettingsInit => SettingsInv
<1> SUFFICES ASSUME SettingsInit PROVE SettingsInv
    OBVIOUS
<1>1. SettingsTypeOK
    BY SettingsTypeInit
<1>2. \A c \in Clients : request[c] = Idle /\ request[c].pc = "idle"
    BY DEF SettingsInit, Idle
<1>3. LockHeld
    BY <1>2, SettingsAssumption DEF SettingsInit, LockHeld, Saving, At
<1>4. RowsSoFar /\ SavesWanted /\ AppliesStored
    BY <1>2, SettingsAssumption DEF SettingsInit, RowsSoFar, SavesWanted, AppliesStored, At
<1>5. SettingsKept
    BY <1>2 DEF SettingsInit, SettingsKept, NothingUndone, RunningIsStored
<1> QED
    BY <1>1, <1>3, <1>4, <1>5 DEF SettingsInv

LEMMA SettingsInvNext == SettingsInv /\ [SettingsNext]_settingsVars => SettingsInv'
<1> SUFFICES ASSUME SettingsInv, [SettingsNext]_settingsVars PROVE SettingsInv'
    OBVIOUS
<1>0. SettingsTypeOK /\ SettingsTypeOK'
    BY SettingsTypeNext DEF SettingsInv
<1>. USE SettingsAssumption DEF SettingsInv, LockHeld, RowsSoFar, SavesWanted, AppliesStored,
         SettingsKept, NothingUndone, RunningIsStored, Quiet, At, Goto, End, history,
         Saving, Applying, Idle
<1>1. ASSUME NEW c \in Clients, NEW k \in Kinds, NEW cfg \in Config, Put(c, k, cfg)
      PROVE  SettingsInv'
    BY <1>0, <1>1 DEF Put, SettingsTypeOK
<1>2. ASSUME NEW c \in Clients, Lock(c) PROVE SettingsInv'
    <2>1. /\ At(c, "lock") /\ holder = Nobody /\ holder' = c
          /\ wanted' = Over(wanted, request[c].kind, request[c].cfg)
          /\ UNCHANGED <<db, running, faults, torn, refused, alone>>
        BY <1>2 DEF Lock
    <2>2. /\ request'[c].pc = "routes" /\ request'[c].kind = request[c].kind
          /\ request'[c].cfg = Over(db, request[c].kind, request[c].cfg)
          /\ \A d \in Clients \ {c} : request'[d] = request[d]
        BY <1>0, <1>2 DEF Lock, Merged, SettingsTypeOK
    <2>3. LockHeld'
        BY <2>1, <2>2
    <2>4. RowsSoFar'
        BY <2>1, <2>2
    <2>5. SavesWanted'
        <3>1. db \in Config /\ request[c].kind \in Kinds /\ request[c].cfg \in Config
            BY <1>0 DEF SettingsTypeOK
        <3>2. ~torn => request'[c].cfg = wanted'
            BY <2>1, <2>2
        <3>3. request[c].kind = "settings" => request'[c].cfg = wanted'
            BY <2>1, <2>2 DEF Over
        <3> QED
            BY <2>1, <2>2, <3>2, <3>3
    <2>6. AppliesStored'
        BY <2>1, <2>2
    <2>7. SettingsKept'
        BY <2>1, <2>2
    <2> QED
        BY <1>0, <2>3, <2>4, <2>5, <2>6, <2>7
<1>3. ASSUME NEW c \in Clients, SaveRoutes(c) PROVE SettingsInv'
    BY <1>0, <1>3 DEF SaveRoutes, SettingsTypeOK
<1>4. ASSUME NEW c \in Clients, ClearPeers(c) PROVE SettingsInv'
    BY <1>0, <1>4 DEF ClearPeers, Cleared, SettingsTypeOK
<1>5. ASSUME NEW c \in Clients, InsertPeer(c) PROVE SettingsInv'
    BY <1>0, <1>5 DEF InsertPeer, SettingsTypeOK
<1>6. ASSUME NEW c \in Clients, PeersDone(c) PROVE SettingsInv'
    <2>1. db.peers = request[c].cfg.peers
        BY <1>6 DEF PeersDone
    <2>2. /\ At(c, "peers") /\ request' = [request EXCEPT ![c].pc = "rest"]
          /\ UNCHANGED <<db, running, holder, faults, wanted, torn, refused, alone>>
        BY <1>6 DEF PeersDone
    <2> QED
        BY <1>0, <2>1, <2>2 DEF SettingsTypeOK
<1>7. ASSUME NEW c \in Clients, SaveRest(c) PROVE SettingsInv'
    <2>1. /\ At(c, "rest") /\ holder = c /\ holder' = Nobody
          /\ torn' = (torn /\ request[c].kind # "settings")
          /\ UNCHANGED <<db, running, faults, wanted, refused, alone>>
        BY <1>7 DEF SaveRest
    <2>2. db \in Config /\ request[c].kind \in Kinds /\ request[c].cfg \in Config
        BY <1>0 DEF SettingsTypeOK
    <2>3. /\ request'[c].pc = (IF request[c].kind = "routes" THEN "advertise" ELSE "policy")
          /\ request'[c].kind = request[c].kind
          /\ request'[c].cfg = Over(Default, request[c].kind, request[c].cfg)
          /\ \A d \in Clients \ {c} : request'[d] = request[d]
        BY <1>0, <1>7 DEF SaveRest, SettingsTypeOK
    <2>4. db.routes = request[c].cfg.routes /\ db.peers = request[c].cfg.peers
        BY <2>1
    <2>5. LockHeld'
        BY <2>1, <2>2, <2>3 DEF Kinds
    <2>6. RowsSoFar' /\ SavesWanted'
        BY <2>1, <2>3
    <2>7. AppliesStored'
        <3>1. /\ request[c].kind # "routes" => request'[c].cfg.peers = db.peers
              /\ request[c].kind # "access" => request'[c].cfg.routes = db.routes
            BY <2>2, <2>3, <2>4, OverIsConfig, DefaultIsConfig
        <3> QED
            BY <2>1, <2>2, <2>3, <3>1 DEF Kinds
    <2>8. SettingsKept'
        <3>1. ~torn' => db = wanted
            BY <2>1, <2>2, <2>4, <1>0 DEF SettingsTypeOK, Config
        <3>2. ~Quiet'
            BY <2>3
        <3> QED
            BY <2>1, <3>1, <3>2
    <2> QED
        BY <1>0, <2>5, <2>6, <2>7, <2>8
<1>8. ASSUME NEW c \in Clients, SaveFails(c) PROVE SettingsInv'
    BY <1>0, <1>8 DEF SaveFails, SettingsTypeOK
<1>9. ASSUME NEW c \in Clients, ApplyPolicy(c) PROVE SettingsInv'
    <2>1. UNCHANGED <<db, holder, faults, wanted, torn, alone>> /\ At(c, "policy")
        BY <1>9 DEF ApplyPolicy
    <2>2. CASE running.up /\ BadHash \in request[c].cfg.peers
        <3>1. request' = [request EXCEPT ![c] = Idle] /\ refused' = TRUE /\ UNCHANGED running
            BY <1>9, <2>2 DEF ApplyPolicy
        <3> QED
            BY <1>0, <2>1, <3>1 DEF SettingsTypeOK
    <2>3. CASE ~(running.up /\ BadHash \in request[c].cfg.peers)
        <3>1. running' = IF running.up THEN [running EXCEPT !.peers = request[c].cfg.peers]
                                       ELSE running
            BY <1>9, <2>3 DEF ApplyPolicy
        <3>2. request' = IF request[c].kind = "settings" THEN [request EXCEPT ![c].pc = "advertise"]
                                                         ELSE [request EXCEPT ![c] = Idle]
            BY <1>9, <2>3 DEF ApplyPolicy
        <3>3. UNCHANGED refused
            BY <1>9, <2>3 DEF ApplyPolicy
        <3> QED
            BY <1>0, <2>1, <3>1, <3>2, <3>3 DEF SettingsTypeOK
    <2> QED
        BY <2>2, <2>3
<1>10. ASSUME NEW c \in Clients, ApplyRoutes(c) PROVE SettingsInv'
    BY <1>0, <1>10 DEF ApplyRoutes, Advertised, SettingsTypeOK
<1>11. CASE Restart
    <2>1. \A c \in Clients : request'[c].pc = "idle"
        BY <1>11 DEF Restart
    <2>2. alone' = "none" /\ holder' = Nobody /\ torn' = (torn \/ holder # Nobody)
          /\ UNCHANGED <<db, wanted>>
        BY <1>11 DEF Restart
    <2> QED
        BY <1>0, <2>1, <2>2
<1>12. CASE UNCHANGED settingsVars
    BY <1>0, <1>12 DEF settingsVars
<1> QED
    BY <1>1, <1>2, <1>3, <1>4, <1>5, <1>6, <1>7, <1>8, <1>9, <1>10, <1>11, <1>12
       DEF SettingsNext, SettingsStep

\* No request undoes what another has saved, and one beside which no other ran
\* leaves running what it stored, however many there are and wherever statements
\* fail or the gateway is killed (handlers.rs put_settings, put_vpn_routes,
\* put_vpn_access; db.rs save_config).
THEOREM SettingsAreKept == SettingsSpec => []SettingsKept
<1>1. SettingsInv => SettingsKept
    BY DEF SettingsInv
<1> QED
    BY <1>1, SettingsInvInit, SettingsInvNext, PTL DEF SettingsSpec

-----------------------------------------------------------------------------
(* The installer's upgrade.                                                *)

Files == [of : Inodes, whole : BOOLEAN, exec : BOOLEAN]

LEMMA UpgradeTypeInit == UpgradeInit => UpgradeTypeOK
<1> SUFFICES ASSUME UpgradeInit PROVE UpgradeTypeOK
    OBVIOUS
<1>1. file \in [Inodes -> Files]
    BY DEF UpgradeInit, Files
<1>2. /\ temp \in Inodes \cup {NoFile} /\ target \in Inodes
      /\ open \in [Upgrades -> Inodes \cup {NoFile}]
    BY DEF UpgradeInit, Inodes
<1>3. errors \in 0..MaxErrors
    BY UpgradeAssumption DEF UpgradeInit
<1> QED
    BY <1>1, <1>2, <1>3 DEF UpgradeInit, UpgradeTypeOK, Files

\* A file keeps its type when it is written to.
LEMMA WrittenType ==
    ASSUME file \in [Inodes -> Files], NEW i \in Inodes, NEW u \in Inodes,
           NEW w \in BOOLEAN
    PROVE  [file EXCEPT ![i] = [of |-> u, whole |-> w, exec |-> @.exec]] \in [Inodes -> Files]
BY DEF Files

LEMMA ExecType ==
    ASSUME NEW f \in Files
    PROVE  [f EXCEPT !.exec = TRUE] \in Files
BY DEF Files

LEMMA UpgradeTypeNext == UpgradeTypeOK /\ [UpgradeNext]_upgradeVars => UpgradeTypeOK'
<1> SUFFICES ASSUME UpgradeTypeOK, [UpgradeNext]_upgradeVars PROVE UpgradeTypeOK'
    OBVIOUS
<1>0. /\ file \in [Inodes -> Files] /\ Upgrades \subseteq Inodes
      /\ temp \in Inodes \cup {NoFile} /\ target \in Inodes
    BY DEF UpgradeTypeOK, Files, Inodes
<1>. USE UpgradeAssumption DEF UpgradeTypeOK, Advance, Errs, flags
<1>1. ASSUME NEW u \in Upgrades, RefuseBody(u) PROVE UpgradeTypeOK'
    BY <1>1 DEF RefuseBody
<1>2. ASSUME NEW u \in Upgrades, OpenTemp(u) PROVE UpgradeTypeOK'
    <2>1. WrittenFile(u) \in Inodes
        BY <1>0 DEF WrittenFile
    <2>2. file' \in [Inodes -> Files]
        BY <1>0, <1>2, <2>1, WrittenType DEF OpenTemp
    <2> QED
        BY <1>2, <2>1, <2>2 DEF OpenTemp, Rest, Files
<1>3. ASSUME NEW u \in Upgrades, WriteTemp(u) PROVE UpgradeTypeOK'
    <2>1. CASE open[u] \in Inodes
        <3>1. PICK w \in BOOLEAN :
                 file' = [file EXCEPT ![open[u]] = [of |-> u, whole |-> w, exec |-> @.exec]]
            BY <1>3 DEF WriteTemp
        <3>2. file' \in [Inodes -> Files]
            BY <1>0, <2>1, <3>1, WrittenType
        <3> QED
            BY <1>3, <3>2 DEF WriteTemp, Files
    <2>2. CASE open[u] \notin Inodes
        <3>1. UNCHANGED file
            BY <1>0, <1>3, <2>2 DEF WriteTemp
        <3> QED
            BY <1>3, <3>1 DEF WriteTemp
    <2> QED
        BY <2>1, <2>2
<1>4. ASSUME NEW u \in Upgrades, WriteFails(u) PROVE UpgradeTypeOK'
    BY <1>4 DEF WriteFails
<1>5. ASSUME NEW u \in Upgrades, MakeExecutable(u) PROVE UpgradeTypeOK'
    <2>0. temp \in Inodes
        BY <1>0, <1>5 DEF MakeExecutable
    <2>1. file' = [file EXCEPT ![temp] = [file[temp] EXCEPT !.exec = TRUE]]
        BY <1>5 DEF MakeExecutable
    <2>2. [file[temp] EXCEPT !.exec = TRUE] \in Files
        BY <1>0, <2>0, ExecType
    <2>3. file' \in [Inodes -> Files]
        BY <1>0, <2>0, <2>1, <2>2
    <2> QED
        BY <1>5, <2>3 DEF MakeExecutable, Files
<1>c. ASSUME NEW u \in Upgrades, ChmodFails(u) PROVE UpgradeTypeOK'
    <2>1. errors' \in 0..MaxErrors
        BY <1>c DEF ChmodFails
    <2> QED
        BY <1>c, <2>1 DEF ChmodFails
<1>6. ASSUME NEW u \in Upgrades, StopService(u) PROVE UpgradeTypeOK'
    <2>1. errors' \in 0..MaxErrors
        BY <1>6 DEF StopService
    <2>2. service' \in BOOLEAN /\ temp' \in {temp, NoFile}
        BY <1>6 DEF StopService
    <2> QED
        BY <1>6, <2>1, <2>2 DEF StopService
<1>7. ASSUME NEW u \in Upgrades, RenameTemp(u) PROVE UpgradeTypeOK'
    BY <1>7 DEF RenameTemp
<1>8. ASSUME NEW u \in Upgrades, StartService(u) PROVE UpgradeTypeOK'
    <2>1. errors' \in 0..MaxErrors
        BY <1>8 DEF StartService
    <2>2. Runs(file[target]) \in BOOLEAN
        BY <1>0 DEF Runs, Good, Files
    <2>3. service' \in BOOLEAN /\ unstarted' \in BOOLEAN /\ temp' \in {temp, NoFile}
        BY <1>8, <2>2 DEF StartService
    <2> QED
        BY <1>8, <2>1, <2>3 DEF StartService
<1>9. CASE Kill
    BY <1>9 DEF Kill, Rest
<1>10. CASE UNCHANGED upgradeVars
    BY <1>10 DEF upgradeVars
<1> QED
    BY <1>1, <1>2, <1>3, <1>4, <1>5, <1>c, <1>6, <1>7, <1>8, <1>9, <1>10 DEF UpgradeNext

\* At rest, or busy at the steps named.
Writing(u) == pc[u] \notin {"new", "ok", "error"}

\* While no two upgrades overlap: one is busy at most, and an upgrade that has not
\* begun has no inode yet.
OneUpgrade ==
    /\ \A u, v \in Upgrades : Writing(u) /\ Writing(v) => u = v
    /\ \A u \in Upgrades : pc[u] = "new" => target # u /\ temp # u
    /\ temp # target

\* What is in the temporary file at each step of the busy one.
TempSoFar ==
    \A u \in Upgrades :
        /\ Writing(u) /\ pc[u] \notin {"start", "restart"} => temp # NoFile
        /\ pc[u] = "write" => open[u] = temp /\ file[temp].of = u
        /\ pc[u] = "chmod" => file[temp].whole
        /\ pc[u] \in {"stop", "rename"} => Good(file[temp])

\* The service is stopped from the stop to the start only.
RunsUnlessStopped ==
    /\ ~killed /\ ~unstarted /\ file[target].of \notin Broken
    /\ \A u \in Upgrades : pc[u] \notin {"rename", "start", "restart"}
    => service

UpgradeInv ==
    UpgradeTypeOK /\ (~overlapped => /\ OneUpgrade /\ TempSoFar /\ RunsUnlessStopped
                                     /\ Good(file[target]))

LEMMA UpgradeInvInit == UpgradeInit => UpgradeInv
<1> SUFFICES ASSUME UpgradeInit PROVE UpgradeInv
    OBVIOUS
<1>1. Good(file[target])
    BY DEF UpgradeInit, Good, Inodes
<1> QED
    BY <1>1, UpgradeTypeInit, UpgradeAssumption
    DEF UpgradeInit, UpgradeInv, OneUpgrade, TempSoFar, RunsUnlessStopped, Writing

LEMMA UpgradeInvNext == UpgradeInv /\ [UpgradeNext]_upgradeVars => UpgradeInv'
<1> SUFFICES ASSUME UpgradeInv, [UpgradeNext]_upgradeVars PROVE UpgradeInv'
    OBVIOUS
<1>0. UpgradeTypeOK /\ UpgradeTypeOK'
    BY UpgradeTypeNext DEF UpgradeInv
<1>. USE UpgradeAssumption, <1>0
     DEF UpgradeInv, OneUpgrade, TempSoFar, RunsUnlessStopped, Writing, Rest, Advance, Errs, flags
<1>1. ASSUME NEW u \in Upgrades, RefuseBody(u) PROVE UpgradeInv'
    BY <1>1 DEF RefuseBody, UpgradeTypeOK
<1>2. ASSUME NEW u \in Upgrades, OpenTemp(u) PROVE UpgradeInv'
    BY <1>2 DEF OpenTemp, WrittenFile, UpgradeTypeOK, Inodes, Good
<1>3. ASSUME NEW u \in Upgrades, WriteTemp(u) PROVE UpgradeInv'
    <2>1. SUFFICES ASSUME ~overlapped
                   PROVE  (OneUpgrade /\ TempSoFar /\ RunsUnlessStopped /\ Good(file[target]))'
        BY <1>3 DEF WriteTemp
    <2>2. open[u] = temp /\ temp \in Inodes /\ file[temp].of = u /\ temp # target
        BY <1>3, <2>1 DEF WriteTemp, UpgradeTypeOK
    <2>3. file' = [file EXCEPT ![temp] = [of |-> u, whole |-> TRUE, exec |-> @.exec]]
        BY <1>3, <2>2 DEF WriteTemp
    <2>4. pc[u] = "write" /\ pc' = [pc EXCEPT ![u] = "chmod"]
          /\ UNCHANGED <<temp, target, service, errors, killed, unstarted, overlapped>>
        BY <1>3 DEF WriteTemp
    <2>5. file'[temp].whole /\ file'[target] = file[target]
        BY <2>2, <2>3 DEF UpgradeTypeOK
    <2>6. \A v \in Upgrades : Writing(v) => v = u
        BY <2>1, <2>4
    <2> QED
        BY <2>1, <2>4, <2>5, <2>6 DEF UpgradeTypeOK, Good
<1>4. ASSUME NEW u \in Upgrades, WriteFails(u) PROVE UpgradeInv'
    BY <1>4 DEF WriteFails, UpgradeTypeOK
<1>5. ASSUME NEW u \in Upgrades, MakeExecutable(u) PROVE UpgradeInv'
    <2>1. SUFFICES ASSUME ~overlapped
                   PROVE  (OneUpgrade /\ TempSoFar /\ RunsUnlessStopped /\ Good(file[target]))'
        BY <1>5 DEF MakeExecutable
    <2>2. temp \in Inodes /\ temp # target /\ file[temp].whole
        BY <1>5, <2>1 DEF MakeExecutable, UpgradeTypeOK
    <2>3. file' = [file EXCEPT ![temp].exec = TRUE]
        BY <1>5 DEF MakeExecutable
    <2>4. pc[u] = "chmod" /\ pc' = [pc EXCEPT ![u] = "stop"]
          /\ UNCHANGED <<temp, target, service, open, errors, killed, unstarted, overlapped>>
        BY <1>5 DEF MakeExecutable
    <2>5. file'[temp].whole /\ file'[temp].exec /\ file'[target] = file[target]
        BY <2>2, <2>3 DEF UpgradeTypeOK
    <2>6. \A v \in Upgrades : Writing(v) => v = u
        BY <2>1, <2>4
    <2> QED
        BY <2>1, <2>4, <2>5, <2>6 DEF UpgradeTypeOK, Good
<1>c. ASSUME NEW u \in Upgrades, ChmodFails(u) PROVE UpgradeInv'
    <2>1. /\ temp' = NoFile /\ pc' = [pc EXCEPT ![u] = "error"] /\ pc[u] = "chmod"
          /\ UNCHANGED <<file, target, service, open, killed, unstarted, overlapped>>
        BY <1>c DEF ChmodFails
    <2> QED
        BY <2>1 DEF UpgradeTypeOK, Inodes
<1>6. ASSUME NEW u \in Upgrades, StopService(u) PROVE UpgradeInv'
    <2>1. CASE service' = FALSE /\ pc' = [pc EXCEPT ![u] = "rename"] /\ UNCHANGED <<temp, errors>>
        BY <1>6, <2>1 DEF StopService, UpgradeTypeOK
    <2>2. CASE temp' = NoFile /\ pc' = [pc EXCEPT ![u] = "error"] /\ UNCHANGED service
        BY <1>6, <2>2 DEF StopService, UpgradeTypeOK, Inodes
    <2> QED
        BY <1>6, <2>1, <2>2 DEF StopService
<1>7. ASSUME NEW u \in Upgrades, RenameTemp(u) PROVE UpgradeInv'
    BY <1>7 DEF RenameTemp, UpgradeTypeOK, Inodes
<1>8. ASSUME NEW u \in Upgrades, StartService(u) PROVE UpgradeInv'
    <2>1. CASE /\ service' = Runs(file[target]) /\ UNCHANGED unstarted
               /\ \E s \in {"ok", "error"} : pc' = [pc EXCEPT ![u] = s]
        <3>1. UNCHANGED <<file, target, open, killed, overlapped>> /\ temp' \in {temp, NoFile}
            BY <1>8 DEF StartService
        <3>2. target # NoFile /\ pc[u] \in {"start", "restart"}
            BY <1>8 DEF StartService, UpgradeTypeOK, Inodes
        <3>3. ~overlapped /\ file[target].of \notin Broken => service'
            BY <2>1 DEF Runs
        <3> QED
            BY <2>1, <3>1, <3>2, <3>3 DEF UpgradeTypeOK
    <2>2. CASE unstarted' = TRUE /\ pc' = [pc EXCEPT ![u] = "error"] /\ UNCHANGED service
        <3>1. UNCHANGED <<file, target, open, killed, overlapped>> /\ temp' \in {temp, NoFile}
            BY <1>8 DEF StartService
        <3>2. target # NoFile /\ pc[u] \in {"start", "restart"}
            BY <1>8 DEF StartService, UpgradeTypeOK, Inodes
        <3> QED
            BY <2>2, <3>1, <3>2 DEF UpgradeTypeOK
    <2> QED
        BY <1>8, <2>1, <2>2 DEF StartService
<1>9. CASE Kill
    BY <1>9 DEF Kill, UpgradeTypeOK
<1>10. CASE UNCHANGED upgradeVars
    BY <1>10 DEF upgradeVars
<1> QED
    BY <1>1, <1>2, <1>3, <1>4, <1>5, <1>c, <1>6, <1>7, <1>8, <1>9, <1>10 DEF UpgradeNext

\* One upgrade after the other never leaves the installer with a torn binary, nor
\* stopped when nothing went wrong and what was uploaded runs, however many there
\* are, whichever of them do not run and whatever earlier ones have left behind
\* (http/installer.rs replace_installer_binary).
THEOREM UpgradeIsSafe == UpgradeSpec => []UpgradeSafe
<1>1. UpgradeInv => UpgradeSafe
    BY DEF UpgradeInv, UpgradeSafe, RunsUnlessStopped, Rest, UpgradeTypeOK
<1> QED
    BY <1>1, UpgradeInvInit, UpgradeInvNext, PTL DEF UpgradeSpec

-----------------------------------------------------------------------------
(* The mixer: types.                                                       *)

PutType == [pc : {"none", "level", "volume", "switch", "reply", "test"}, ask : States]

LEMMA ControlInitType == ControlInit => ControlTypeOK
<1> SUFFICES ASSUME ControlInit PROVE ControlTypeOK
    OBVIOUS
<1>1. volume \in Volumes /\ 0 \in Volumes
    BY AudioControlAssumption DEF ControlInit, Volumes
<1>2. NoPut \in PutType
    BY <1>1 DEF NoPut, PutType, States
<1>3. Raw \in States /\ NoPut.ask \in States
    BY <1>1 DEF States, Raw, Off, NoPut
<1>4. page \in [Pages -> [shows : States, timer : BOOLEAN]]
    BY <1>3 DEF ControlInit
<1> QED
    BY <1>1, <1>2, <1>3, <1>4 DEF ControlInit, ControlTypeOK, PutType, Switches

LEMMA RawType == ControlTypeOK => Raw \in States /\ Shown \in States
BY DEF ControlTypeOK, Raw, Off, Shown, States

LEMMA ControlNextType == ControlTypeOK /\ [ControlNext]_audioCtlVars => ControlTypeOK'
<1> SUFFICES ASSUME ControlTypeOK, [ControlNext]_audioCtlVars PROVE ControlTypeOK'
    OBVIOUS
<1>z. 0 \in Volumes /\ Device \in [Volumes -> Volumes]
    BY AudioControlAssumption DEF Volumes
<1>n. NoPut \in PutType /\ [NoPut EXCEPT !.pc = "test"] \in PutType
    BY <1>z DEF NoPut, PutType, States
<1>p. /\ put \in [Pages -> PutType] /\ page \in [Pages -> [shows : States, timer : BOOLEAN]]
      /\ volume \in Volumes /\ level \in Volumes /\ switch \in Switches
      /\ last \in Pages \cup {NoPage} /\ clean \in BOOLEAN
      /\ chosen \in States
      /\ onDisk \in [volume : Volumes, switch : Switches]
    BY DEF ControlTypeOK, PutType
<1>s. ASSUME NEW b \in Pages
      PROVE  /\ page[b].shows \in States /\ put[b].ask \in States
             /\ put[b].ask.volume \in Volumes /\ put[b].ask.muted \in BOOLEAN
    BY <1>p DEF PutType, States
<1>w. ASSUME NEW b \in Pages, NEW st \in States, WriteState(b, st) PROVE ControlTypeOK'
    <2>1. [pc |-> "level", ask |-> st] \in PutType
        BY DEF PutType
    <2>2. put' \in [Pages -> PutType]
        BY <1>p, <1>w, <2>1 DEF WriteState
    <2> QED
        BY <1>p, <1>w, <2>2 DEF WriteState, mixer, ControlTypeOK, PutType
<1>1. ASSUME NEW b \in Pages, OpenPage(b) PROVE ControlTypeOK'
    BY <1>1, <1>p, RawType DEF OpenPage, mixer, ControlTypeOK
<1>2. ASSUME NEW b \in Pages, SlideWrite(b) PROVE ControlTypeOK'
    BY <1>2, <1>s, <1>w DEF SlideWrite
<1>3. ASSUME NEW b \in Pages, ClickMute(b) PROVE ControlTypeOK'
    <2>1. [page[b].shows EXCEPT !.muted = ~@] \in States
        BY <1>s DEF States
    <2> QED
        BY <1>3, <1>w, <2>1 DEF ClickMute
<1>4. ASSUME NEW b \in Pages, ClickTest(b) PROVE ControlTypeOK'
    <2>1. put' \in [Pages -> PutType] /\ page' \in [Pages -> [shows : States, timer : BOOLEAN]]
        BY <1>4, <1>n, <1>p DEF ClickTest
    <2> QED
        BY <1>4, <1>p, <2>1 DEF ClickTest, mixer, ControlTypeOK, PutType
<1>5. ASSUME NEW b \in Pages, NEW v \in Volumes, SlideInput(b, v) PROVE ControlTypeOK'
    <2>1. [volume |-> v, muted |-> FALSE] \in States
        BY DEF States
    <2> QED
        BY <1>5, <1>p, <2>1 DEF SlideInput, mixer, ControlTypeOK
<1>6. ASSUME NEW b \in Pages, SetLevel(b) PROVE ControlTypeOK'
    <2>1. put' \in [Pages -> PutType]
        BY <1>6, <1>p DEF SetLevel, PutType
    <2>2. level' \in Volumes
        BY <1>6, <1>p, <1>s, <1>z DEF SetLevel, LevelAfter
    <2> QED
        BY <1>6, <1>p, <2>1, <2>2 DEF SetLevel, ControlTypeOK, PutType
<1>7. ASSUME NEW b \in Pages, SetVolume(b) PROVE ControlTypeOK'
    <2>1. put' \in [Pages -> PutType]
        BY <1>7, <1>p DEF SetVolume, PutType
    <2>2. volume' \in Volumes
        BY <1>7, <1>p, <1>s, <1>z DEF SetVolume
    <2> QED
        BY <1>7, <1>p, <2>1, <2>2 DEF SetVolume, ControlTypeOK, PutType
<1>8. ASSUME NEW b \in Pages, SetSwitch(b) PROVE ControlTypeOK'
    <2>1. put' \in [Pages -> PutType]
        BY <1>8, <1>p DEF SetSwitch, PutType
    <2> QED
        BY <1>8, <1>p, <2>1 DEF SetSwitch, ControlTypeOK, PutType, Switches
<1>9. ASSUME NEW b \in Pages, Reply(b) PROVE ControlTypeOK'
    <2>1. put' \in [Pages -> PutType]
        BY <1>9, <1>n, <1>p DEF Reply
    <2>2. [volume |-> IF level > 0 THEN level ELSE put[b].ask.volume, muted |-> TRUE] \in States
        BY <1>p, <1>s DEF States
    <2>3. page' \in [Pages -> [shows : States, timer : BOOLEAN]]
        BY <1>9, <1>p, <2>2, RawType DEF Reply
    <2> QED
        BY <1>9, <1>p, <2>1, <2>3 DEF Reply, mixer, ControlTypeOK, PutType
<1>10. ASSUME NEW b \in Pages, ReplyFails(b) PROVE ControlTypeOK'
    BY <1>10, <1>n, <1>p DEF ReplyFails, mixer, ControlTypeOK, PutType
<1>11. ASSUME SaveCard PROVE ControlTypeOK'
    BY <1>11, <1>p DEF SaveCard, ControlTypeOK, PutType
<1>12. ASSUME Reboot PROVE ControlTypeOK'
    BY <1>12, <1>n, <1>p, <1>z DEF Reboot, ControlTypeOK, PutType
<1>13. CASE UNCHANGED audioCtlVars
    BY <1>13 DEF audioCtlVars, mixer, ControlTypeOK
<1> QED
    BY <1>1, <1>2, <1>3, <1>4, <1>5, <1>6, <1>7, <1>8, <1>9, <1>10, <1>11, <1>12, <1>13
    DEF ControlNext

-----------------------------------------------------------------------------
(* The mixer: what is shown.  A write that has met no other has the device *)
(* for itself: what its steps have done so far is as they left it.         *)

\* Whether a control has a switch never changes, and only one that has is
\* switched.
SwitchInv ==
    /\ onDisk.switch \in {"none", "ownoff"} <=> Soft
    /\ \A b \in Pages : put[b].pc = "switch" => ~Soft

\* What ShownAsAsked says of one page: the four facts of it.
Silent == volume = 0 \/ Off
AsAsked(b) ==
    /\ chosen.muted => Silent /\ page[b].shows.muted
    /\ ~chosen.muted => /\ volume = Device[chosen.volume]
                        /\ page[b].shows.muted <=> switch = "ownoff"
AsIs(b) == IF page[b].shows.muted THEN Silent ELSE volume = page[b].shows.volume
AsRead(b) ==
    \/ Shown = page[b].shows
    \/ page[b].shows = [volume |-> 0, muted |-> TRUE]
    \/ /\ Soft /\ ~chosen.muted /\ chosen.volume > 0 /\ volume = 0
       /\ Shown = [volume |-> chosen.volume, muted |-> TRUE]
Agrees(b) == AsAsked(b) /\ AsIs(b) /\ AsRead(b)

\* The level that a write has kept for a soft mute.
LevelSet(ask) ==
    /\ ask.volume > 0 => level = ask.volume
    /\ ask.volume = 0 /\ ~ask.muted => level = 0

\* What the steps done so far have set.
VolumeSet == volume = IF Soft /\ chosen.muted THEN 0 ELSE Device[chosen.volume]
SwitchSet == switch = IF chosen.muted THEN "off" ELSE "on"

WriteInv ==
    LET w == put[last] IN
    last # NoPage /\ clean =>
        /\ \A b \in Pages \ {last} : ~Busy(b)
        /\ w.pc # "test"
        /\ w.pc # "none" => w.ask = chosen
        /\ w.pc \in {"volume", "reply"} /\ Soft => LevelSet(chosen)
        /\ w.pc \in {"switch", "reply"} => VolumeSet
        /\ w.pc = "reply" /\ ~Soft => SwitchSet
        /\ w.pc = "none" => Agrees(last)

ControlInv == ControlTypeOK /\ SwitchInv /\ WriteInv

LEMMA ControlInitInv == ControlInit => ControlInv
BY ControlInitType DEF ControlInit, ControlInv, SwitchInv, WriteInv, NoPut, Soft

LEMMA SwitchNext == ControlTypeOK /\ SwitchInv /\ [ControlNext]_audioCtlVars => SwitchInv'
<1> SUFFICES ASSUME ControlTypeOK, SwitchInv, [ControlNext]_audioCtlVars PROVE SwitchInv'
    OBVIOUS
<1>p. put \in [Pages -> PutType] /\ NoPut.pc = "none"
    BY DEF ControlTypeOK, PutType, NoPut
<1> USE DEF SwitchInv, Soft
<1>1. ASSUME NEW b \in Pages, NEW e, e.pc # "switch", put' = [put EXCEPT ![b] = e],
             UNCHANGED <<switch, onDisk>>
      PROVE  SwitchInv'
    BY <1>1, <1>p
<1>2. ASSUME UNCHANGED <<put, switch, onDisk>> PROVE SwitchInv'
    BY <1>2
<1>3. ASSUME NEW b \in Pages, NEW st, WriteState(b, st) PROVE SwitchInv'
    BY <1>1, <1>3 DEF WriteState, mixer
<1>4. ASSUME NEW b \in Pages, SetLevel(b) \/ SetVolume(b) \/ SetSwitch(b) PROVE SwitchInv'
    BY <1>4, <1>p DEF SetLevel, SetVolume, SetSwitch, PutType
<1>5. ASSUME NEW b \in Pages, ClickTest(b) PROVE SwitchInv'
    BY <1>1, <1>5 DEF ClickTest, mixer, NoPut
<1>6. ASSUME NEW b \in Pages, Reply(b) \/ ReplyFails(b) PROVE SwitchInv'
    BY <1>1, <1>6, <1>p DEF Reply, ReplyFails, mixer
<1>7. ASSUME SaveCard \/ Reboot PROVE SwitchInv'
    BY <1>7, <1>p DEF SaveCard, Reboot
<1>8. ASSUME NEW b \in Pages, OpenPage(b) \/ \E v \in Volumes : SlideInput(b, v)
      PROVE  SwitchInv'
    BY <1>2, <1>8 DEF OpenPage, SlideInput, mixer
<1> QED
    BY <1>2, <1>3, <1>4, <1>5, <1>6, <1>7, <1>8
    DEF ControlNext, SlideWrite, ClickMute, audioCtlVars, mixer

LEMMA WriteNext == ControlInv /\ [ControlNext]_audioCtlVars => WriteInv'
<1> SUFFICES ASSUME ControlInv, [ControlNext]_audioCtlVars, last' # NoPage, clean'
             PROVE  WriteInv'
    BY DEF WriteInv
<1>t. ControlTypeOK /\ SwitchInv /\ WriteInv
    BY DEF ControlInv
<1>p. /\ put \in [Pages -> PutType] /\ page \in [Pages -> [shows : States, timer : BOOLEAN]]
      /\ volume \in Volumes /\ level \in Volumes /\ switch \in Switches
      /\ last \in Pages \cup {NoPage} /\ clean \in BOOLEAN
      /\ chosen.volume \in Volumes /\ chosen.muted \in BOOLEAN
    BY <1>t DEF ControlTypeOK, PutType, States
<1>v. ASSUME NEW v \in Volumes PROVE v > 0 \/ v = 0
    BY <1>v, AudioControlAssumption DEF Volumes
\* The steps that start no write leave last and clean, or give the write up.
<1>o. ASSUME last' = last, clean' = clean, last # NoPage, clean
      PROVE  /\ last \in Pages
             /\ \A b \in Pages \ {last} : put[b].pc = "none"
             /\ put[last].pc # "test"
             /\ put[last].pc # "none" => put[last].ask = chosen
             /\ put[last].pc \in {"volume", "reply"} /\ Soft => LevelSet(chosen)
             /\ put[last].pc \in {"switch", "reply"} => VolumeSet
             /\ put[last].pc = "reply" /\ ~Soft => SwitchSet
             /\ put[last].pc = "none" => Agrees(last)
    BY <1>o, <1>p, <1>t DEF WriteInv, Busy
\* A write that has just begun.
<1>w. ASSUME NEW b \in Pages, NEW st, WriteState(b, st) PROVE WriteInv'
    <2>1. put'[b].pc = "level" /\ put'[b].ask = st /\ last' = b /\ chosen' = st
        BY <1>w, <1>p DEF WriteState
    <2>2. \A q \in Pages \ {b} : put'[q].pc = "none"
        BY <1>w, <1>p DEF WriteState, Busy
    <2> QED
        BY <2>1, <2>2 DEF WriteInv, Busy
\* Nothing but what another page shows.
<1>n. ASSUME UNCHANGED <<volume, switch, level, put, last, chosen, clean>>,
             page'[last] = page[last]
      PROVE  WriteInv'
    <2>1. Agrees(last) => Agrees(last)'
        BY <1>n DEF Agrees, AsAsked, AsIs, AsRead, Silent, Shown, Raw, Off, Soft
    <2>2. /\ LevelSet(chosen) => LevelSet(chosen)'
          /\ VolumeSet => VolumeSet'
          /\ SwitchSet => SwitchSet'
          /\ (Soft <=> Soft')
        BY <1>n DEF LevelSet, VolumeSet, SwitchSet, Soft
    <2> QED
        BY <1>n, <1>o, <2>1, <2>2 DEF WriteInv, Busy
<1>1. ASSUME NEW b \in Pages, OpenPage(b) \/ \E v \in Volumes : SlideInput(b, v)
      PROVE  WriteInv'
    <2>1. last' = last /\ b # last /\ last \in Pages
        BY <1>1, <1>p DEF OpenPage, SlideInput
    <2>2. page'[last] = page[last]
        BY <1>1, <1>p, <2>1 DEF OpenPage, SlideInput
    <2> QED
        BY <1>1, <1>n, <2>1, <2>2 DEF OpenPage, SlideInput, mixer
<1>3. ASSUME NEW b \in Pages, SlideWrite(b) \/ ClickMute(b) PROVE WriteInv'
    BY <1>3, <1>w DEF SlideWrite, ClickMute
<1>4. ASSUME NEW b \in Pages, ClickTest(b) PROVE WriteInv'
    BY <1>4 DEF ClickTest
<1>5. ASSUME NEW b \in Pages, SetLevel(b) PROVE WriteInv'
    <2>1. b = last /\ UNCHANGED <<last, chosen, clean, volume, switch>>
        BY <1>5, <1>o DEF SetLevel
    <2>2. put'[b].pc = "volume" /\ put'[b].ask = chosen /\ put[b].ask = chosen
        <3>0. last' = last /\ clean' = clean /\ put[b].pc = "level" /\ b = last
            BY <1>5, <2>1 DEF SetLevel
        <3>1. put[b].ask = chosen
            BY <1>o, <3>0
        <3> QED
            BY <1>5, <1>p, <2>1, <3>1 DEF SetLevel, PutType
    <2>3. \A q \in Pages \ {b} : put'[q] = put[q]
        BY <1>5, <1>p DEF SetLevel
    <2>4. Soft' => LevelSet(chosen)'
        <3>1. SUFFICES ASSUME Soft' PROVE LevelSet(chosen)'
            OBVIOUS
        <3>2. level' = LevelAfter(chosen)
            BY <1>5, <2>2, <3>1 DEF SetLevel, Soft
        <3> QED
            BY <1>p, <1>v, <2>1, <3>2, AudioControlAssumption DEF LevelAfter, LevelSet, Volumes
    <2> QED
        BY <1>o, <2>1, <2>2, <2>3, <2>4 DEF WriteInv, Busy
<1>6. ASSUME NEW b \in Pages, SetVolume(b) PROVE WriteInv'
    <2>1. b = last /\ UNCHANGED <<last, chosen, clean, switch, level>> /\ put[b].pc = "volume"
        BY <1>6, <1>o DEF SetVolume
    <2>2. /\ put'[b].pc = IF Soft THEN "reply" ELSE "switch"
          /\ put'[b].ask = chosen /\ put[b].ask = chosen
        <3>0. last' = last /\ clean' = clean /\ put[b].pc = "volume" /\ b = last
            BY <1>6, <2>1 DEF SetVolume
        <3>1. put[b].ask = chosen
            BY <1>o, <3>0
        <3> QED
            BY <1>6, <1>p, <2>1, <3>1 DEF SetVolume, PutType
    <2>3. \A q \in Pages \ {b} : put'[q] = put[q]
        BY <1>6, <1>p DEF SetVolume
    <2>4. VolumeSet' /\ (Soft <=> Soft')
        BY <1>6, <2>1, <2>2 DEF SetVolume, VolumeSet, Soft
    <2>5. Soft => LevelSet(chosen)'
        BY <1>o, <2>1 DEF LevelSet
    <2> QED
        BY <1>o, <2>1, <2>2, <2>3, <2>4, <2>5 DEF WriteInv, Busy
<1>7. ASSUME NEW b \in Pages, SetSwitch(b) PROVE WriteInv'
    <2>1. /\ b = last /\ UNCHANGED <<last, chosen, clean, volume, level>>
          /\ put[b].pc = "switch"
        BY <1>7, <1>o DEF SetSwitch
    <2>2. put'[b].pc = "reply" /\ put'[b].ask = chosen /\ put[b].ask = chosen
        <3>0. last' = last /\ clean' = clean /\ put[b].pc = "switch" /\ b = last
            BY <1>7, <2>1 DEF SetSwitch
        <3>1. put[b].ask = chosen
            BY <1>o, <3>0
        <3> QED
            BY <1>7, <1>p, <2>1, <3>1 DEF SetSwitch, PutType
    <2>3. \A q \in Pages \ {b} : put'[q] = put[q]
        BY <1>7, <1>p DEF SetSwitch
    <2>4. SwitchSet' /\ ~Soft' /\ ~Soft
        BY <1>7, <1>t, <2>1, <2>2 DEF SetSwitch, SwitchSet, Soft, SwitchInv
    <2>5. VolumeSet'
        BY <1>o, <2>1, <2>4 DEF VolumeSet
    <2> QED
        BY <1>o, <2>1, <2>2, <2>3, <2>4, <2>5 DEF WriteInv, Busy
<1>8. ASSUME NEW b \in Pages, Reply(b) PROVE WriteInv'
    <2>1. b = last /\ UNCHANGED <<last, chosen, clean, volume, switch, level>>
          /\ put[b].pc = "reply" /\ put[b].ask = chosen
        BY <1>8, <1>o DEF Reply, mixer
    <2>2. put'[b].pc = "none" /\ \A q \in Pages \ {b} : put'[q] = put[q]
        BY <1>8, <1>p DEF Reply, NoPut
    <2>3. VolumeSet /\ (Soft => LevelSet(chosen)) /\ (~Soft => SwitchSet)
        BY <1>o, <2>1
    <2>4. page'[b].shows = IF Soft /\ chosen.muted
                           THEN [volume |-> IF level > 0 THEN level ELSE chosen.volume,
                                 muted |-> TRUE]
                           ELSE Raw
        BY <1>8, <1>p, <2>1 DEF Reply
    <2>5. /\ Raw' = Raw /\ Shown' = Shown /\ (Off' <=> Off) /\ (Soft' <=> Soft)
          /\ (Silent' <=> Silent) /\ Raw.volume = volume /\ (Raw.muted <=> Off)
        BY <2>1 DEF Raw, Shown, Off, Soft, Silent
    <2>6. Agrees(b)'
        <3>1. ASSUME ~Soft PROVE Agrees(b)'
            <4>1. page'[b].shows = Raw /\ Shown = Raw
                BY <2>4, <3>1 DEF Shown
            <4>2. volume = Device[chosen.volume] /\ (Off <=> chosen.muted) /\ switch # "ownoff"
                BY <1>p, <2>3, <3>1 DEF VolumeSet, SwitchSet, Off, Soft
            <4>3. AsAsked(b)'
                BY <2>1, <2>5, <4>1, <4>2 DEF AsAsked, Silent
            <4>4. AsIs(b)' /\ AsRead(b)'
                BY <2>1, <2>5, <4>1 DEF AsIs, AsRead, Silent
            <4> QED
                BY <4>3, <4>4 DEF Agrees
        <3>2. ASSUME Soft, chosen.muted PROVE Agrees(b)'
            <4>1. LevelSet(chosen) /\ volume = 0 /\ Silent
                BY <2>3, <3>2 DEF VolumeSet, Silent
            <4>2. page'[b].shows.muted
                BY <2>4, <3>2
            <4>3. AsAsked(b)' /\ AsIs(b)'
                BY <2>1, <2>5, <3>2, <4>1, <4>2 DEF AsAsked, AsIs
            <4>4. AsRead(b)'
                <5>1. CASE level = 0
                    <6>1. chosen.volume = 0
                        BY <1>p, <1>v, <4>1, <5>1 DEF LevelSet
                    <6>2. page'[b].shows = [volume |-> 0, muted |-> TRUE]
                        BY <2>4, <3>2, <5>1, <6>1
                    <6> QED
                        BY <6>2 DEF AsRead
                <5>2. CASE level # 0
                    <6>1. level > 0
                        BY <1>p, <1>v, <5>2
                    <6>2. Shown = [volume |-> level, muted |-> TRUE]
                        BY <3>2, <4>1, <6>1 DEF Shown
                    <6>3. page'[b].shows = [volume |-> level, muted |-> TRUE]
                        BY <2>4, <3>2, <6>1
                    <6> QED
                        BY <2>5, <6>2, <6>3 DEF AsRead
                <5> QED
                    BY <5>1, <5>2
            <4> QED
                BY <4>3, <4>4 DEF Agrees
        <3>3. ASSUME Soft, ~chosen.muted PROVE Agrees(b)'
            <4>1. LevelSet(chosen) /\ volume = Device[chosen.volume]
                BY <2>3, <3>3 DEF VolumeSet
            <4>2. page'[b].shows = Raw /\ (Off <=> switch = "ownoff")
                BY <2>4, <3>3 DEF Off, Soft
            <4>3. AsAsked(b)' /\ AsIs(b)'
                BY <2>1, <2>5, <3>3, <4>1, <4>2 DEF AsAsked, AsIs, Silent
            <4>4. AsRead(b)'
                <5>1. CASE volume = 0 /\ level > 0
                    <6>1. Shown = [volume |-> level, muted |-> TRUE]
                        BY <3>3, <5>1 DEF Shown
                    <6>2. chosen.volume > 0 /\ level = chosen.volume
                        BY <1>p, <1>v, <3>3, <4>1, <5>1 DEF LevelSet
                    <6>3. Soft' /\ ~chosen'.muted /\ chosen'.volume > 0 /\ volume' = 0
                        BY <2>1, <2>5, <3>3, <5>1, <6>2
                    <6>4. Shown' = [volume |-> chosen'.volume, muted |-> TRUE]
                        BY <2>1, <2>5, <6>1, <6>2
                    <6> QED
                        BY <6>3, <6>4 DEF AsRead
                <5>2. CASE ~(volume = 0 /\ level > 0)
                    <6>1. Shown = Raw
                        BY <5>2 DEF Shown
                    <6> QED
                        BY <2>5, <4>2, <6>1 DEF AsRead
                <5> QED
                    BY <5>1, <5>2
            <4> QED
                BY <4>3, <4>4 DEF Agrees
        <3> QED
            BY <3>1, <3>2, <3>3
    <2> QED
        BY <1>o, <2>1, <2>2, <2>6 DEF WriteInv, Busy
<1>9. ASSUME NEW b \in Pages, ReplyFails(b) PROVE WriteInv'
    BY <1>9, <1>o DEF ReplyFails
<1>10. ASSUME SaveCard PROVE WriteInv'
    BY <1>10, <1>n DEF SaveCard
<1>11. ASSUME Reboot PROVE WriteInv'
    BY <1>11 DEF Reboot
<1>12. CASE UNCHANGED audioCtlVars
    BY <1>12, <1>n DEF audioCtlVars, mixer
<1> QED
    BY <1>1, <1>3, <1>4, <1>5, <1>6, <1>7, <1>8, <1>9, <1>10, <1>11, <1>12
    DEF ControlNext

\* What the Media page shows after a write is what was asked for and what the mixer
\* does, as far as ShownAsAsked says: for any pages, any volumes, any rounding of
\* them and any switch the control has.
THEOREM VolumeIsShown == ControlSpec => []ShownAsAsked
<1>1. ControlInit => ControlInv
    BY ControlInitInv
<1>2. ControlInv /\ [ControlNext]_audioCtlVars => ControlInv'
    BY ControlNextType, SwitchNext, WriteNext DEF ControlInv
<1>3. ControlInv => ShownAsAsked
    BY AudioControlAssumption
    DEF ControlInv, WriteInv, ShownAsAsked, Agrees, AsAsked, AsIs, AsRead, Silent, Busy
<1> QED
    BY <1>1, <1>2, <1>3, PTL DEF ControlSpec

-----------------------------------------------------------------------------
(* The VPN page.  While the saves of the allowlist do not meet, the one    *)
(* that is under way has what its user asked for, and what the gateway     *)
(* answers is that.                                                        *)

SaveType == [pc : {"none", "sent", "saved", "failed"}, list : SUBSET Peers]

VpnPageTypes ==
    /\ VpnPageTypeOK
    /\ pings \in [Peers -> Nat] /\ save \in [Saves -> SaveType] /\ asked \subseteq Peers
    /\ soleSave \in BOOLEAN

SaveIsAsked ==
    soleSave =>
        /\ \A s, t \in Saves : save[s].pc # "none" /\ save[t].pc # "none" => s = t
        /\ \A s \in Saves : save[s].pc # "none" =>
             /\ save[s].list = asked
             /\ save[s].pc # "failed"
             /\ save[s].pc = "saved" => server = asked

VpnPageInv ==
    /\ VpnPageTypes
    /\ marked <=> dialog # {}
    /\ OnePing /\ SaveIsAsked /\ AccessAgrees

LEMMA VpnPageInvInit == VpnPageInit => VpnPageInv
<1> SUFFICES ASSUME VpnPageInit PROVE VpnPageInv
    OBVIOUS
<1>1. /\ peerRow \in [Peers -> Rows] /\ button \in [Peers -> BOOLEAN]
      /\ busy \in [Peers -> BOOLEAN] /\ pings \in [Peers -> Nat] /\ OnePing
    BY DEF VpnPageInit, OnePing, Rows
<1>2. /\ list \subseteq Peers /\ asked \subseteq Peers /\ server \subseteq Peers
      /\ save \in [Saves -> SaveType] /\ soleSave \in BOOLEAN
      /\ SaveIsAsked /\ AccessAgrees
    BY DEF VpnPageInit, SaveType, SaveIsAsked, AccessAgrees, NoSave
<1>3. /\ dialog \subseteq {"routes", "shortcut"} /\ marked \in BOOLEAN
      /\ marked <=> dialog # {}
    BY DEF VpnPageInit
<1> QED
    BY <1>1, <1>2, <1>3 DEF VpnPageInv, VpnPageTypes, VpnPageTypeOK

\* A save of an edited list.
LEMMA SaveAccessKeeps ==
    ASSUME VpnPageInv, NEW edited \in SUBSET Peers, SaveAccess(edited)
    PROVE  /\ list' \subseteq Peers /\ asked' \subseteq Peers /\ server' \subseteq Peers
           /\ save' \in [Saves -> SaveType] /\ soleSave' \in BOOLEAN
           /\ SaveIsAsked' /\ AccessAgrees'
<1>1. PICK s \in Saves :
        /\ save[s].pc = "none"
        /\ save' = [save EXCEPT ![s] = [pc |-> "sent", list |-> edited]]
    BY DEF SaveAccess, Posted
<1>2. list' = edited /\ asked' = edited /\ server' = server /\ soleSave' = NoSaves
    BY DEF SaveAccess
<1>t. server \subseteq Peers /\ save \in [Saves -> SaveType]
    BY DEF VpnPageInv, VpnPageTypes, VpnPageTypeOK
<1>3. save' \in [Saves -> SaveType] /\ save'[s] = [pc |-> "sent", list |-> edited]
    BY <1>1, <1>t DEF SaveType
<1>4. \A t \in Saves \ {s} : save'[t] = save[t]
    BY <1>1, <1>t
<1>5. soleSave' \in BOOLEAN
    BY <1>2 DEF NoSaves
<1>6. SaveIsAsked'
    <2>1. ASSUME NoSaves, NEW t \in Saves, save'[t].pc # "none" PROVE t = s
        BY <1>4, <2>1 DEF NoSaves
    <2> QED
        BY <1>2, <1>3, <2>1 DEF SaveIsAsked
<1>7. AccessAgrees'
    BY <1>3 DEF AccessAgrees, NoSaves
<1> QED
    BY <1>2, <1>3, <1>5, <1>6, <1>7, <1>t

\* What the other two thirds of the page do leaves this one alone.
LEMMA AccessUnchanged ==
    ASSUME VpnPageInv, UNCHANGED accessPart
    PROVE  /\ list' \subseteq Peers /\ asked' \subseteq Peers /\ server' \subseteq Peers
           /\ save' \in [Saves -> SaveType] /\ soleSave' \in BOOLEAN
           /\ SaveIsAsked' /\ AccessAgrees'
BY DEF VpnPageInv, VpnPageTypes, VpnPageTypeOK, accessPart, SaveIsAsked, AccessAgrees, NoSaves

LEMMA PingsUnchanged ==
    ASSUME VpnPageInv, UNCHANGED pingPart
    PROVE  /\ peerRow' \in [Peers -> Rows] /\ button' \in [Peers -> BOOLEAN]
           /\ busy' \in [Peers -> BOOLEAN] /\ pings' \in [Peers -> Nat] /\ OnePing'
BY DEF VpnPageInv, VpnPageTypes, VpnPageTypeOK, pingPart, OnePing

LEMMA VpnPageInvNext == VpnPageInv /\ [VpnPageNext]_vpnPageVars => VpnPageInv'
<1> SUFFICES ASSUME VpnPageInv, [VpnPageNext]_vpnPageVars PROVE VpnPageInv'
    OBVIOUS
<1>t. /\ VpnPageTypes /\ VpnPageTypeOK /\ (marked <=> dialog # {})
      /\ OnePing /\ SaveIsAsked /\ AccessAgrees
    BY DEF VpnPageInv, VpnPageTypes
<1> DEFINE
    PingKept == /\ peerRow' \in [Peers -> Rows] /\ button' \in [Peers -> BOOLEAN]
                /\ busy' \in [Peers -> BOOLEAN] /\ pings' \in [Peers -> Nat] /\ OnePing'
    EditorKept == dialog' \subseteq {"routes", "shortcut"} /\ marked' = (dialog' # {})
    AccessKept == /\ list' \subseteq Peers /\ asked' \subseteq Peers /\ server' \subseteq Peers
                  /\ save' \in [Saves -> SaveType] /\ soleSave' \in BOOLEAN
                  /\ SaveIsAsked' /\ AccessAgrees'
<1>a. PingKept /\ EditorKept /\ AccessKept => VpnPageInv'
    BY DEF VpnPageInv, VpnPageTypes, VpnPageTypeOK
<1>p. UNCHANGED pingPart => PingKept
    BY PingsUnchanged
<1>e. UNCHANGED <<dialog, marked>> => EditorKept
    BY <1>t DEF VpnPageTypeOK
<1>c. UNCHANGED accessPart => AccessKept
    BY AccessUnchanged
<1>o. ASSUME NEW this \in {"routes", "shortcut"}, Opens(this) \/ Closes(this) PROVE EditorKept
    BY <1>o, <1>t DEF Opens, Closes, Marked, VpnPageTypeOK
<1> HIDE DEF PingKept, EditorKept, AccessKept
<1>1. ASSUME NEW rows \in [Peers -> Rows], LiveUpdate(rows) PROVE VpnPageInv'
    <2>1. PingKept
        BY <1>1, <1>t DEF LiveUpdate, PingKept, OnePing, Rendered, VpnPageTypes, VpnPageTypeOK
    <2> QED
        BY <1>1, <1>a, <1>c, <1>e, <2>1 DEF LiveUpdate
<1>2. ASSUME NEW p \in Peers, ClickPing(p) PROVE VpnPageInv'
    <2>1. PingKept
        BY <1>2, <1>t DEF ClickPing, PingKept, OnePing, VpnPageTypes, VpnPageTypeOK
    <2> QED
        BY <1>2, <1>a, <1>c, <1>e, <2>1 DEF ClickPing, editorPart
<1>3. ASSUME NEW p \in Peers, PingAnswered(p) PROVE VpnPageInv'
    <2>1. PingKept
        BY <1>3, <1>t DEF PingAnswered, PingKept, OnePing, VpnPageTypes, VpnPageTypeOK
    <2> QED
        BY <1>3, <1>a, <1>c, <1>e, <2>1 DEF PingAnswered, editorPart
<1>4. ASSUME NEW p \in Peers, AddPeer(p) PROVE VpnPageInv'
    <2>1. list \cup {p} \in SUBSET Peers
        BY <1>t DEF VpnPageTypeOK
    <2>2. AccessKept
        BY <1>4, <2>1, SaveAccessKeeps DEF AddPeer, AccessKept
    <2> QED
        BY <1>4, <1>a, <1>p, <1>e, <2>2 DEF AddPeer, editorPart
<1>5. ASSUME NEW p \in Peers, RemovePeer(p) PROVE VpnPageInv'
    <2>1. list \ {p} \in SUBSET Peers
        BY <1>t DEF VpnPageTypeOK
    <2>2. AccessKept
        BY <1>5, <2>1, SaveAccessKeeps DEF RemovePeer, AccessKept
    <2> QED
        BY <1>5, <1>a, <1>p, <1>e, <2>2 DEF RemovePeer, editorPart
<1>6. ASSUME NEW p \in Peers, ConfirmShortcut(p) PROVE VpnPageInv'
    <2>1. list \cup {p} \in SUBSET Peers
        BY <1>t DEF VpnPageTypeOK
    <2>2. AccessKept
        BY <1>6, <1>c, <2>1, SaveAccessKeeps DEF ConfirmShortcut, AccessKept
    <2> QED
        BY <1>6, <1>a, <1>p, <1>o, <2>2 DEF ConfirmShortcut
<1>7. CASE OpenRouteEditor
    BY <1>7, <1>a, <1>p, <1>o, <1>c DEF OpenRouteEditor
<1>8. CASE Type
    BY <1>8, <1>a, <1>p, <1>e, <1>c DEF Type
<1>9. CASE MoveFocus
    BY <1>9, <1>a, <1>p, <1>e, <1>c DEF MoveFocus
<1>10. CASE CloseRouteEditor
    BY <1>10, <1>a, <1>p, <1>o, <1>c DEF CloseRouteEditor
<1>11. CASE SubmitRoutes
    BY <1>11, <1>a, <1>p, <1>e, <1>c DEF SubmitRoutes
<1>12. CASE RoutesAnswered
    BY <1>12, <1>a, <1>p, <1>e, <1>c DEF RoutesAnswered
<1>13. CASE DelayedClose
    BY <1>13, <1>a, <1>p, <1>o, <1>c DEF DelayedClose
<1>14. CASE CancelShortcut
    BY <1>14, <1>a, <1>p, <1>o, <1>c DEF CancelShortcut
<1>15. ASSUME NEW s \in Saves, ServerSaves(s) PROVE VpnPageInv'
    <2>1. /\ save[s].pc = "sent" /\ save[s].list \subseteq Peers
          /\ save \in [Saves -> SaveType] /\ server \subseteq Peers
        BY <1>15, <1>t DEF ServerSaves, VpnPageTypes, VpnPageTypeOK, SaveType
    <2>2. PICK answer \in {"saved", "failed"} :
            /\ save' = [save EXCEPT ![s].pc = answer]
            /\ answer = "saved" => server' = save[s].list /\ soleSave' = soleSave
            /\ answer = "failed" => (server' = server \/ server' \in SUBSET save[s].list) /\ soleSave' = FALSE
        BY <1>15 DEF ServerSaves
    <2>3. list' = list /\ asked' = asked
        BY <1>15 DEF ServerSaves
    <2>4. /\ save' \in [Saves -> SaveType]
          /\ save'[s] = [pc |-> answer, list |-> save[s].list]
          /\ \A t \in Saves \ {s} : save'[t] = save[t]
        BY <2>1, <2>2 DEF SaveType
    <2>5. \A t \in Saves : save'[t].pc # "none" => save[t].pc # "none"
        BY <2>1, <2>4
    <2>6. ASSUME soleSave' PROVE answer = "saved" /\ soleSave /\ server' = asked
        BY <1>t, <2>1, <2>2, <2>6 DEF SaveIsAsked
    <2>7. SaveIsAsked'
        BY <1>t, <2>1, <2>3, <2>4, <2>5, <2>6 DEF SaveIsAsked
    <2>8. AccessAgrees'
        BY <2>4 DEF AccessAgrees, NoSaves
    <2>9. AccessKept
        BY <1>t, <2>1, <2>2, <2>3, <2>4, <2>7, <2>8 DEF AccessKept, VpnPageTypes, VpnPageTypeOK
    <2> QED
        BY <1>15, <1>a, <1>p, <1>e, <2>9 DEF ServerSaves, editorPart
<1>16. ASSUME NEW s \in Saves, SaveAnswered(s) PROVE VpnPageInv'
    <2>1. /\ save[s].pc \in {"saved", "failed"} /\ save[s].list \subseteq Peers
          /\ save \in [Saves -> SaveType]
        BY <1>16, <1>t DEF SaveAnswered, VpnPageTypes, VpnPageTypeOK, SaveType
    <2>2. /\ list' = IF save[s].pc = "saved" THEN save[s].list ELSE list
          /\ save' = [save EXCEPT ![s] = NoSave]
          /\ UNCHANGED <<server, asked, soleSave>>
        BY <1>16 DEF SaveAnswered
    <2>3. /\ save' \in [Saves -> SaveType] /\ save'[s] = NoSave
          /\ \A t \in Saves \ {s} : save'[t] = save[t]
        BY <2>1, <2>2 DEF SaveType, NoSave
    <2>4. SaveIsAsked'
        BY <1>t, <2>2, <2>3 DEF SaveIsAsked, NoSave
    <2>5. AccessAgrees'
        BY <1>t, <2>1, <2>2, <2>3 DEF SaveIsAsked, AccessAgrees, NoSaves
    <2>6. AccessKept
        BY <1>t, <2>1, <2>2, <2>3, <2>4, <2>5 DEF AccessKept, VpnPageTypes, VpnPageTypeOK
    <2> QED
        BY <1>16, <1>a, <1>p, <1>e, <2>6 DEF SaveAnswered, editorPart
<1>17. CASE SavedElsewhere
    <2>1. AccessKept
        BY <1>17, <1>t DEF SavedElsewhere, AccessKept, VpnPageTypes, VpnPageTypeOK, SaveIsAsked, AccessAgrees
    <2> QED
        BY <1>17, <1>a, <1>p, <1>e, <2>1 DEF SavedElsewhere, editorPart
<1>18. CASE UNCHANGED vpnPageVars
    BY <1>18, <1>a, <1>p, <1>e, <1>c DEF vpnPageVars, pingPart, accessPart
<1> QED
    BY <1>1, <1>2, <1>3, <1>4, <1>5, <1>6, <1>7, <1>8, <1>9, <1>10, <1>11, <1>12, <1>13,
       <1>14, <1>15, <1>16, <1>17, <1>18 DEF VpnPageNext

\* A live update is the one step that replaces the text of an open editor, and
\* it waits as long as any dialog is open.
LEMMA DraftStep ==
    ASSUME VpnPageInv, [VpnPageNext]_vpnPageVars,
           draft = "typed", "routes" \in dialog
    PROVE  draft' = "typed"
<1>1. marked
    BY DEF VpnPageInv
<1>2. \A rows \in [Peers -> Rows] : ~LiveUpdate(rows)
    BY <1>1 DEF LiveUpdate, ShouldPause
<1>3. ASSUME UNCHANGED editorPart PROVE draft' = "typed"
    BY <1>3 DEF editorPart
<1>4. CASE \E p \in Peers : \/ ClickPing(p) \/ PingAnswered(p)
                            \/ AddPeer(p) \/ RemovePeer(p) \/ ConfirmShortcut(p)
    BY <1>3, <1>4 DEF ClickPing, PingAnswered, AddPeer, RemovePeer, ConfirmShortcut
<1>5. CASE \/ OpenRouteEditor \/ Type \/ MoveFocus \/ CloseRouteEditor
           \/ SubmitRoutes \/ RoutesAnswered \/ DelayedClose \/ CancelShortcut
    BY <1>5 DEF OpenRouteEditor, Type, MoveFocus, CloseRouteEditor, SubmitRoutes,
                RoutesAnswered, DelayedClose, CancelShortcut
<1>6. CASE \E s \in Saves : ServerSaves(s) \/ SaveAnswered(s)
    BY <1>3, <1>6 DEF ServerSaves, SaveAnswered
<1>7. CASE SavedElsewhere
    BY <1>3, <1>7 DEF SavedElsewhere
<1>8. CASE UNCHANGED vpnPageVars
    BY <1>8 DEF vpnPageVars
<1> QED
    BY <1>2, <1>4, <1>5, <1>6, <1>7, <1>8 DEF VpnPageNext

\* The VPN page pings a peer once at a time, has the gateway's allowlist
\* whenever no two saves met, and never replaces the text that is being typed
\* (the script of pages/vpn.rs).
THEOREM VpnPageIsRight == VpnPageSpec => VpnPageAgrees
<1>1. VpnPageInv => OnePing /\ AccessAgrees
    BY DEF VpnPageInv
<1>2. VpnPageInv /\ [VpnPageNext]_vpnPageVars
      => [draft = "typed" /\ "routes" \in dialog /\ "routes" \in dialog'
          => draft' = "typed"]_vpnPageVars
    BY DraftStep
<1> QED
    BY <1>1, <1>2, VpnPageInvInit, VpnPageInvNext, PTL
    DEF VpnPageSpec, VpnPageAgrees, DraftKept

-----------------------------------------------------------------------------
(* Types.                                                                  *)

OpRecord == [pc : StoreSteps, new : Maybe, old : Maybe, todo : SUBSET Plugins]

LEMMA OpValues ==
    /\ IdleOp \in OpRecord /\ IdleOp.pc = "idle"
    /\ \A v \in Versions : [IdleOp EXCEPT !.pc = "recover", !.new = v, !.todo = Plugins] \in OpRecord
    /\ [IdleOp EXCEPT !.pc = "remove"] \in OpRecord
BY DEF IdleOp, OpRecord, StoreSteps, Maybe

LEMMA WantedType == \A v \in Maybe : Wanted(v) \in Links \cup {NoVersion}
BY StoreAssumption DEF Wanted, Maybe

\* Setting and removing symlinks keeps their types.
LEMMA LinkType ==
    ASSUME NEW lk \in [Links -> Plugins \cup {NoVersion}], NEW p \in Plugins,
           NEW l \in Links \cup {NoVersion}
    PROVE  /\ Linked(lk, p, l) \in [Links -> Plugins \cup {NoVersion}]
           /\ Unlinked(lk, p, l) \in [Links -> Plugins \cup {NoVersion}]
BY StoreAssumption DEF Linked, Unlinked

Ways == {"none", "refused", "installed", "rolled_back", "deleted"}

LEMMA StoreTypeInit == StoreInit => StoreTypeOK
<1> SUFFICES ASSUME StoreInit PROVE StoreTypeOK
    OBVIOUS
<1>1. op \in [Plugins -> OpRecord]
    BY OpValues DEF StoreInit
<1>2. /\ row \in [Plugins -> Maybe] /\ kept \in [Plugins -> Maybe]
      /\ live \in [Plugins -> Maybe \cup {"torn"}]
      /\ saved \in [Plugins -> Maybe \cup {"torn", "none"}]
    BY DEF StoreInit, Maybe
<1>3. disturbed \in [Plugins -> BOOLEAN]
    BY DEF StoreInit
<1> QED
    BY <1>1, <1>2, <1>3 DEF StoreInit, StoreTypeOK, OpRecord

LEMMA StoreTypeNext == StoreTypeOK /\ [StoreNext]_storeVars => StoreTypeOK'
<1> SUFFICES ASSUME StoreTypeOK, [StoreNext]_storeVars PROVE StoreTypeOK'
    OBVIOUS
<1>. USE StoreAssumption, OpValues
     DEF StoreTypeOK, OpRecord, files, opHistory, Ends, Proceed, IsAt, Rests
<1>v. ASSUME NEW p \in Plugins, NEW q \in Plugins, NEW next \in {"discover", "sync", "check"},
             Visited(p, q, next)
      PROVE  op' \in [Plugins -> OpRecord]
    <2>1. /\ next \in StoreSteps
          /\ (IF next = "check" THEN {} ELSE Plugins) \in SUBSET Plugins
        BY DEF StoreSteps
    <2>2. CASE op[p].todo = {q}
        <3> DEFINE todo == IF next = "check" THEN {} ELSE Plugins
        <3>1. op' = [op EXCEPT ![p].pc = next, ![p].todo = todo]
            BY <1>v, <2>2 DEF Visited
        <3> HIDE DEF todo
        <3>2. todo \in SUBSET Plugins
            BY DEF todo
        <3> QED
            BY <2>1, <3>1, <3>2, ZenonT(40)
    <2>3. CASE op[p].todo # {q}
        BY <1>v, <2>3 DEF Visited
    <2> QED
        BY <2>2, <2>3
<1>e. ASSUME NEW p \in Plugins, NEW how \in Ways, Ends(p, how)
      PROVE  op' \in [Plugins -> OpRecord] /\ outcome' \in [Plugins -> Ways]
    BY <1>e DEF Ways
<1>r. ASSUME NEW q \in Plugins, NEW l \in Links \cup {NoVersion}, Rollback(q, l)
      PROVE  /\ live' \in [Plugins -> Maybe \cup {"torn"}]
             /\ saved' \in [Plugins -> Maybe \cup {"torn", "none"}]
             /\ savedLink' \in [Plugins -> Links \cup {NoVersion}]
             /\ link' \in [Links -> Plugins \cup {NoVersion}]
    <2>1. Unlinked(link, q, l) \in [Links -> Plugins \cup {NoVersion}]
        BY LinkType
    <2>2. Linked(Unlinked(link, q, l), q, savedLink[q]) \in [Links -> Plugins \cup {NoVersion}]
        BY <2>1, LinkType
    <2> QED
        BY <1>r, <2>2 DEF Rollback, Maybe
<1>k. ASSUME NEW p \in Plugins, NEW step \in StoreSteps, Proceed(p, step)
      PROVE  op' \in [Plugins -> OpRecord]
    BY <1>k
<1>1. ASSUME NEW p \in Plugins, NEW v \in Versions, Begin(p, v) PROVE StoreTypeOK'
    <2>1. op' \in [Plugins -> OpRecord]
        BY <1>1 DEF Begin
    <2> QED
        BY <1>1, <2>1 DEF Begin, Maybe, Usable
<1>2. ASSUME NEW p \in Plugins, NEW q \in Plugins, RecoverOne(p, q) PROVE StoreTypeOK'
    <2>1. op' \in [Plugins -> OpRecord]
        BY <1>2, <1>v DEF RecoverOne
    <2>2. ASSUME Rollback(q, Wanted(row[q]))
          PROVE  /\ live' \in [Plugins -> Maybe \cup {"torn"}]
                 /\ saved' \in [Plugins -> Maybe \cup {"torn", "none"}]
                 /\ savedLink' \in [Plugins -> Links \cup {NoVersion}]
                 /\ link' \in [Links -> Plugins \cup {NoVersion}]
        BY <2>2, <1>r, WantedType
    <2>3. disturbed' \in [Plugins -> BOOLEAN]
        BY <1>2 DEF RecoverOne, Disturbs
    <2> QED
        BY <1>2, <2>1, <2>2, <2>3 DEF RecoverOne, CleanupRollback
<1>3. ASSUME NEW p \in Plugins, NEW q \in Plugins, DiscoverOne(p, q) PROVE StoreTypeOK'
    <2>1. op' \in [Plugins -> OpRecord]
        BY <1>3, <1>v DEF DiscoverOne
    <2>2. disturbed' \in [Plugins -> BOOLEAN]
        BY <1>3 DEF DiscoverOne, Disturbs
    <2>3. \/ row' = row
          \/ Usable(live[q]) /\ row' = [row EXCEPT ![q] = live[q]]
        BY <1>3 DEF DiscoverOne
    <2>4. row' \in [Plugins -> Maybe]
        <3>1. Usable(live[q]) => live[q] \in Maybe
            BY DEF Usable, Maybe
        <3> QED
            BY <2>3, <3>1
    <2> QED
        BY <1>3, <2>1, <2>2, <2>4 DEF DiscoverOne
<1>4. ASSUME NEW p \in Plugins, NEW q \in Plugins, ReconcileOne(p, q) PROVE StoreTypeOK'
    <2>1. /\ (Visited(p, q, "check") /\ UNCHANGED outcome) \/ Ends(p, "refused")
          /\ UNCHANGED <<row, files, core, kept, disturbed>>
          /\ link' \in {link, Linked(link, q, Wanted(row[q]))}
        BY <1>4 DEF ReconcileOne
    <2>2. op' \in [Plugins -> OpRecord] /\ outcome' \in [Plugins -> Ways]
        BY <2>1, <1>v, <1>e DEF Ways
    <2>3. Wanted(row[q]) \in Links \cup {NoVersion}
        BY WantedType
    <2>4. Linked(link, q, Wanted(row[q])) \in [Links -> Plugins \cup {NoVersion}]
        BY <2>3, LinkType
    <2> QED
        BY <2>1, <2>2, <2>4, ZenonT(40) DEF Ways
<1>5. ASSUME NEW p \in Plugins, SyncCore(p) \/ Refuse(p) PROVE StoreTypeOK'
    <2>1. /\ Ends(p, "refused") \/ (Proceed(p, "reconcile") /\ UNCHANGED outcome)
          /\ UNCHANGED <<row, files, link, core, kept, disturbed>>
        <3>1. CASE SyncCore(p)
            BY <3>1 DEF SyncCore
        <3>2. CASE Refuse(p)
            BY <3>2 DEF Refuse
        <3> QED
            BY <1>5, <3>1, <3>2
    <2>2. op' \in [Plugins -> OpRecord] /\ outcome' \in [Plugins -> Ways]
        BY <2>1, <1>k, <1>e DEF Ways, StoreSteps
    <2> QED
        BY <2>1, <2>2 DEF Ways
<1>6. ASSUME NEW p \in Plugins, Check(p) PROVE StoreTypeOK'
    <2>1. CASE op' = [op EXCEPT ![p].pc = "move", ![p].old = row[p]] /\ UNCHANGED outcome
        <3>1. [op[p] EXCEPT !.pc = "move", !.old = row[p]] \in OpRecord
            BY DEF StoreSteps
        <3>2. op' = [op EXCEPT ![p] = [op[p] EXCEPT !.pc = "move", !.old = row[p]]]
            BY <2>1
        <3>3. op' \in [Plugins -> OpRecord]
            BY <3>1, <3>2
        <3> QED
            BY <1>6, <2>1, <3>3 DEF Check
    <2>2. CASE Ends(p, "refused")
        BY <1>6, <1>e, <2>2 DEF Check, Ways
    <2> QED
        BY <1>6, <2>1, <2>2 DEF Check
<1>7. ASSUME NEW p \in Plugins, Move(p) PROVE StoreTypeOK'
    BY <1>7, <1>k DEF Move, StoreSteps, Maybe
<1>8. ASSUME NEW p \in Plugins, SaveLink(p) PROVE StoreTypeOK'
    <2>1. /\ Ends(p, "refused") \/ (Proceed(p, "write") /\ UNCHANGED outcome)
          /\ UNCHANGED <<row, live, saved, link, core, kept, disturbed>>
        BY <1>8 DEF SaveLink
    <2>2. op' \in [Plugins -> OpRecord] /\ outcome' \in [Plugins -> Ways]
        BY <2>1, <1>k, <1>e DEF Ways, StoreSteps
    <2>3. savedLink' \in [Plugins -> Links \cup {NoVersion}]
        <3>1. Wanted(op[p].old) \in Links \cup {NoVersion}
            BY WantedType
        <3>2. \/ savedLink' = savedLink
              \/ savedLink' = [savedLink EXCEPT ![p] = Wanted(op[p].old)]
              \/ savedLink' = [savedLink EXCEPT ![p] = NoVersion]
            BY <1>8 DEF SaveLink
        <3> QED
            BY <3>1, <3>2
    <2> QED
        BY <2>1, <2>2, <2>3 DEF Ways
<1>9. ASSUME NEW p \in Plugins, Write(p) \/ WriteHash(p) PROVE StoreTypeOK'
    BY <1>9, <1>k, ZenonT(40) DEF Write, WriteHash, StoreSteps
<1>10. ASSUME NEW p \in Plugins, InstallBinPath(p) PROVE StoreTypeOK'
    <2>1. op' \in [Plugins -> OpRecord]
        BY <1>10, <1>k DEF InstallBinPath, StoreSteps
    <2>2. link' \in [Links -> Plugins \cup {NoVersion}]
        <3> DEFINE old == Wanted(op[p].old)
                   new == Wanted(op[p].new)
        <3>1. old \in Links \cup {NoVersion} /\ new \in Links \cup {NoVersion}
            BY WantedType
        <3>2. Unlinked(link, p, old) \in [Links -> Plugins \cup {NoVersion}]
            BY <3>1, LinkType
        <3>3. Linked(Unlinked(link, p, old), p, new) \in [Links -> Plugins \cup {NoVersion}]
            BY <3>1, <3>2, LinkType
        <3> QED
            BY <1>10, <3>2, <3>3 DEF InstallBinPath
    <2> QED
        BY <1>10, <2>1, <2>2 DEF InstallBinPath
<1>11. ASSUME NEW p \in Plugins, Started(p) \/ Fails(p) PROVE StoreTypeOK'
    BY <1>11, <1>k DEF Started, Fails, StoreSteps
<1>12. ASSUME NEW p \in Plugins, Register(p) PROVE StoreTypeOK'
    BY <1>12, <1>k DEF Register, StoreSteps
<1>13. ASSUME NEW p \in Plugins, Clean(p) PROVE StoreTypeOK'
    BY <1>13 DEF Clean, CleanupRollback
<1>14. ASSUME NEW p \in Plugins, Undo(p) PROVE StoreTypeOK'
    <2>1. /\ live' \in [Plugins -> Maybe \cup {"torn"}]
          /\ link' \in [Links -> Plugins \cup {NoVersion}]
        BY <1>14, <1>r, WantedType DEF Undo
    <2> QED
        BY <1>14, <2>1 DEF Undo, Rollback
<1>15. ASSUME NEW p \in Plugins, Delete(p) PROVE StoreTypeOK'
    <2>1. link' \in [Links -> Plugins \cup {NoVersion}]
        BY <1>15, WantedType, LinkType DEF Delete
    <2>2. op' \in [Plugins -> OpRecord]
        BY <1>15 DEF Delete
    <2> QED
        BY <1>15, <2>1, <2>2 DEF Delete, Maybe
<1>16. ASSUME NEW p \in Plugins, DeleteFiles(p) PROVE StoreTypeOK'
    BY <1>16, <1>k DEF DeleteFiles, CleanupRollback, StoreSteps, Maybe
<1>17. ASSUME NEW p \in Plugins, DeleteRow(p) PROVE StoreTypeOK'
    BY <1>17 DEF DeleteRow, Maybe
<1>18. CASE UNCHANGED storeVars
    BY <1>18 DEF storeVars
<1> QED
    BY <1>1, <1>2, <1>3, <1>4, <1>5, <1>6, <1>7, <1>8, <1>9, <1>10, <1>11, <1>12, <1>13,
       <1>14, <1>15, <1>16, <1>17, <1>18 DEF StoreNext

-----------------------------------------------------------------------------
(* What an undisturbed update keeps.  Up to the move the version it began  *)
(* with is live, then it is in .rollback, and after a rollback it is live  *)
(* again with nothing in .rollback that a later recovery could bring back. *)

BeforeMove == {"recover", "discover", "sync", "reconcile", "check", "move"}
AfterMove == {"savelink", "write", "hash", "link", "start", "register", "clean", "undo"}

KeptSomewhere(p) ==
    /\ outcome[p] = "rolled_back" => Rests(p)
    /\ kept[p] # NoVersion /\ ~disturbed[p] =>
          /\ op[p].pc \in BeforeMove => live[p] = kept[p]
          /\ op[p].pc \in AfterMove => saved[p] = kept[p]
          /\ outcome[p] = "rolled_back" => live[p] = kept[p] /\ saved[p] = "none"

StoreInv == StoreTypeOK /\ \A p \in Plugins : KeptSomewhere(p)

LEMMA StoreInvInit == StoreInit => StoreInv
BY StoreTypeInit DEF StoreInit, StoreInv, KeptSomewhere, Rests

LEMMA StoreInvNext == StoreInv /\ [StoreNext]_storeVars => StoreInv'
<1> SUFFICES ASSUME StoreInv, [StoreNext]_storeVars PROVE StoreInv'
    OBVIOUS
<1>0. StoreTypeOK /\ StoreTypeOK'
    BY StoreTypeNext DEF StoreInv
<1>g. SUFFICES ASSUME NEW q \in Plugins PROVE KeptSomewhere(q)'
    BY <1>0 DEF StoreInv
<1>h. KeptSomewhere(q)
    BY DEF StoreInv
<1>t. kept[q] # NoVersion => kept[q] \in Versions /\ kept[q] # "none" /\ Usable(kept[q])
    BY <1>0, StoreAssumption DEF StoreTypeOK, Maybe, Usable
<1>i. IdleOp.pc = "idle"
    BY OpValues
\* What the rounds of initialize_store do to the control state.
<1>v. ASSUME NEW p \in Plugins, NEW r \in Plugins, NEW next \in {"discover", "sync", "check"},
             Visited(p, r, next)
      PROVE  op'[q].pc = op[q].pc \/ (q = p /\ op'[q].pc = next)
    BY <1>0, <1>v DEF Visited, StoreTypeOK
\* What an operation's end does to it.
<1>e. ASSUME NEW p \in Plugins, NEW how \in Ways, Ends(p, how)
      PROVE  IF q = p THEN op'[q].pc = "idle" /\ outcome'[q] = how
             ELSE op'[q] = op[q] /\ outcome'[q] = outcome[q]
    BY <1>0, <1>e, <1>i DEF Ends, StoreTypeOK
<1>. USE <1>0, StoreAssumption DEF StoreTypeOK, KeptSomewhere, Rests, IsAt, Proceed,
         files, opHistory, BeforeMove, AfterMove, StoreSteps
<1>1. ASSUME NEW p \in Plugins, NEW v \in Versions, Begin(p, v) PROVE KeptSomewhere(q)'
    <2>1. UNCHANGED <<live, saved>>
        BY <1>1 DEF Begin
    <2>2. CASE q = p
        <3>1. op'[q].pc = "recover"
            BY <1>1, <2>2 DEF Begin, IdleOp
        <3>2. outcome'[q] = "none" /\ kept'[q] \in {live[q], NoVersion}
            BY <1>1, <2>2 DEF Begin
        <3> QED
            BY <2>1, <3>1, <3>2
    <2>3. CASE q # p
        <3>1. UNCHANGED <<op[q], outcome[q], kept[q], disturbed[q]>>
            BY <1>1, <2>3 DEF Begin
        <3> QED
            BY <1>h, <2>1, <3>1
    <2> QED
        BY <2>2, <2>3
<1>2. ASSUME NEW p \in Plugins, NEW r \in Plugins, RecoverOne(p, r) PROVE KeptSomewhere(q)'
    <2>1. op'[q].pc = op[q].pc \/ (q = p /\ op[q].pc = "recover" /\ op'[q].pc = "discover")
        BY <1>2, <1>v DEF RecoverOne
    <2>2. UNCHANGED <<outcome, kept>>
        BY <1>2 DEF RecoverOne
    <2>3. CASE UNCHANGED <<live[q], saved[q], disturbed[q]>>
        BY <1>h, <2>1, <2>2, <2>3
    <2>4. CASE ~UNCHANGED <<live[q], saved[q], disturbed[q]>>
        <3>1. r = q /\ saved[q] # "none" /\ Disturbs(p, q)
              /\ (Usable(live[q]) => live'[q] = live[q])
            BY <1>2, <2>4 DEF RecoverOne, Disturbs, CleanupRollback, Rollback
        <3>2. disturbed'[q] = (disturbed[q] \/ (q # p /\ ~Rests(q)))
            BY <3>1 DEF Disturbs
        <3>3. CASE q # p /\ ~Rests(q)
            BY <1>h, <2>1, <2>2, <3>2, <3>3
        <3>4. CASE q = p
            BY <1>2, <1>h, <1>t, <2>1, <2>2, <3>1, <3>2, <3>4 DEF RecoverOne
        <3>5. CASE q # p /\ Rests(q)
            BY <1>h, <2>1, <2>2, <3>1, <3>2, <3>5
        <3> QED
            BY <3>3, <3>4, <3>5
    <2> QED
        BY <2>3, <2>4
<1>3. ASSUME NEW p \in Plugins, NEW r \in Plugins, DiscoverOne(p, r) PROVE KeptSomewhere(q)'
    <2>1. op'[q].pc = op[q].pc \/ (q = p /\ op[q].pc = "discover" /\ op'[q].pc = "sync")
        BY <1>3, <1>v DEF DiscoverOne
    <2>2. UNCHANGED <<live, saved, outcome, kept>> /\ (disturbed[q] => disturbed'[q])
        BY <1>3 DEF DiscoverOne, Disturbs
    <2> QED
        BY <1>h, <2>1, <2>2
<1>4. ASSUME NEW p \in Plugins, NEW r \in Plugins, ReconcileOne(p, r) PROVE KeptSomewhere(q)'
    <2>1. UNCHANGED <<live, saved, kept, disturbed>> /\ op[p].pc = "reconcile"
        BY <1>4 DEF ReconcileOne
    <2>2. CASE Visited(p, r, "check") /\ UNCHANGED outcome
        BY <1>h, <1>v, <2>1, <2>2
    <2>3. CASE Ends(p, "refused")
        BY <1>h, <1>e, <2>1, <2>3 DEF Ways
    <2> QED
        BY <1>4, <2>2, <2>3 DEF ReconcileOne
<1>5. ASSUME NEW p \in Plugins, SyncCore(p) PROVE KeptSomewhere(q)'
    <2>1. UNCHANGED <<live, saved, kept, disturbed>> /\ op[p].pc = "sync"
        BY <1>5 DEF SyncCore
    <2>2. CASE Proceed(p, "reconcile") /\ UNCHANGED outcome
        BY <1>h, <2>1, <2>2
    <2>3. CASE Ends(p, "refused")
        BY <1>h, <1>e, <2>1, <2>3 DEF Ways
    <2> QED
        BY <1>5, <2>2, <2>3 DEF SyncCore
<1>6. ASSUME NEW p \in Plugins, Refuse(p) PROVE KeptSomewhere(q)'
    <2>1. UNCHANGED <<live, saved, kept, disturbed>> /\ Ends(p, "refused")
        BY <1>6 DEF Refuse
    <2> QED
        BY <1>h, <1>e, <2>1 DEF Ways
<1>7. ASSUME NEW p \in Plugins, Check(p) PROVE KeptSomewhere(q)'
    <2>1. UNCHANGED <<live, saved, kept, disturbed>> /\ op[p].pc = "check"
        BY <1>7 DEF Check
    <2>2. CASE op' = [op EXCEPT ![p].pc = "move", ![p].old = row[p]] /\ UNCHANGED outcome
        <3>1. op'[q].pc = IF q = p THEN "move" ELSE op[q].pc
            BY <2>2
        <3> QED
            BY <1>h, <2>1, <2>2, <3>1
    <2>3. CASE Ends(p, "refused")
        BY <1>h, <1>e, <2>1, <2>3 DEF Ways
    <2> QED
        BY <1>7, <2>2, <2>3 DEF Check
<1>8. ASSUME NEW p \in Plugins, Move(p) PROVE KeptSomewhere(q)'
    BY <1>8, <1>h DEF Move
<1>9. ASSUME NEW p \in Plugins, SaveLink(p) PROVE KeptSomewhere(q)'
    <2>1. UNCHANGED <<live, saved, kept, disturbed>> /\ op[p].pc = "savelink"
        BY <1>9 DEF SaveLink
    <2>2. CASE Proceed(p, "write") /\ UNCHANGED outcome
        BY <1>h, <2>1, <2>2
    <2>3. CASE Ends(p, "refused")
        BY <1>h, <1>e, <2>1, <2>3 DEF Ways
    <2> QED
        BY <1>9, <2>2, <2>3 DEF SaveLink
<1>10. ASSUME NEW p \in Plugins, Write(p) \/ WriteHash(p) PROVE KeptSomewhere(q)'
    BY <1>10, <1>h, SMTT(30) DEF Write, WriteHash
<1>11. ASSUME NEW p \in Plugins, InstallBinPath(p) PROVE KeptSomewhere(q)'
    BY <1>11, <1>h, SMTT(30) DEF InstallBinPath
<1>12. ASSUME NEW p \in Plugins, Started(p) \/ Fails(p) PROVE KeptSomewhere(q)'
    BY <1>12, <1>h DEF Started, Fails
<1>13. ASSUME NEW p \in Plugins, Register(p) PROVE KeptSomewhere(q)'
    BY <1>13, <1>h DEF Register
<1>14. ASSUME NEW p \in Plugins, Clean(p) PROVE KeptSomewhere(q)'
    <2>1. /\ UNCHANGED <<live, kept, disturbed>> /\ Ends(p, "installed")
          /\ q # p => saved'[q] = saved[q]
        BY <1>14 DEF Clean, CleanupRollback
    <2> QED
        BY <1>h, <1>e, <2>1 DEF Ways
<1>15. ASSUME NEW p \in Plugins, Undo(p) PROVE KeptSomewhere(q)'
    <2>1. UNCHANGED <<kept, disturbed>> /\ Ends(p, "rolled_back") /\ op[p].pc = "undo"
        BY <1>15 DEF Undo
    <2>2. IF q = p THEN /\ saved'[q] = "none"
                        /\ saved[q] # "none" => live'[q] = saved[q]
          ELSE UNCHANGED <<live[q], saved[q]>>
        BY <1>15 DEF Undo, Rollback
    <2> QED
        BY <1>h, <1>e, <1>t, <2>1, <2>2 DEF Ways
<1>16. ASSUME NEW p \in Plugins, Delete(p) PROVE KeptSomewhere(q)'
    <2>1. UNCHANGED <<live, saved>>
        BY <1>16 DEF Delete
    <2>2. q = p => kept'[q] = NoVersion /\ outcome'[q] = "none"
        BY <1>16 DEF Delete
    <2>3. q # p => UNCHANGED <<op[q], outcome[q], kept[q], disturbed[q]>>
        BY <1>16 DEF Delete
    <2> QED
        BY <1>h, <2>1, <2>2, <2>3
<1>17. ASSUME NEW p \in Plugins, DeleteFiles(p) PROVE KeptSomewhere(q)'
    BY <1>17, <1>h DEF DeleteFiles, CleanupRollback
<1>18. ASSUME NEW p \in Plugins, DeleteRow(p) PROVE KeptSomewhere(q)'
    <2>1. UNCHANGED <<live, saved, kept, disturbed>> /\ Ends(p, "deleted")
        BY <1>18 DEF DeleteRow
    <2> QED
        BY <1>h, <1>e, <2>1 DEF Ways
<1>19. CASE UNCHANGED storeVars
    BY <1>19, <1>h DEF storeVars
<1> QED
    BY <1>1, <1>2, <1>3, <1>4, <1>5, <1>6, <1>7, <1>8, <1>9, <1>10, <1>11, <1>12, <1>13,
       <1>14, <1>15, <1>16, <1>17, <1>18, <1>19 DEF StoreNext

\* A failed update that no other upload has disturbed leaves the plugin with the
\* version it had, for any number of plugins and uploads (plugins.rs
\* install_plugin, rollback_install).
THEOREM FailedUpdateIsUndone == StoreSpec => []RolledBackAlone
<1>1. StoreInv => RolledBackAlone
    BY DEF StoreInv, KeptSomewhere, RolledBackAlone
<1> QED
    BY <1>1, StoreInvInit, StoreInvNext, PTL DEF StoreSpec

-----------------------------------------------------------------------------
(* Packages: the unit file, line by line.                                  *)

\* The section of a line: its own, if it is a header, or that of the line before.
LEMMA SectionOf ==
    ASSUME NEW u, NEW i \in Nat
    PROVE  Section(u, 0) = "none" /\ Section(u, i + 1) = IF IsSection(u[i + 1]) THEN u[i + 1] ELSE Section(u, i)
<1> DEFINE before(k) == {j \in 1..k : IsSection(u[j])}
<1>1. Section(u, 0) = "none"
    <2>1. {j \in 1..0 : IsSection(u[j])} = {}
        OBVIOUS
    <2> QED
        BY <2>1 DEF Section
<1>2. CASE IsSection(u[i + 1])
    <2> DEFINE B == before(i + 1)
               j == CHOOSE m \in B : \A k \in B : k <= m
    <2>1. i + 1 \in B /\ \A k \in B : k <= i + 1 /\ k \in Nat
        BY <1>2
    <2> HIDE DEF B
    <2>2. j \in B /\ \A k \in B : k <= j
        BY <2>1
    <2>3. j = i + 1
        <3> HIDE DEF j
        <3>1. i + 1 <= j /\ j <= i + 1 /\ j \in Nat
            BY <2>1, <2>2
        <3> QED
            BY <3>1
    <2>4. Section(u, i + 1) = u[j]
        BY <2>1 DEF Section, B
    <2> HIDE DEF j
    <2> QED
        BY <1>1, <1>2, <2>3, <2>4
<1>3. CASE ~IsSection(u[i + 1])
    <2> DEFINE A == before(i)
               B == before(i + 1)
    <2>1. A = B
        BY <1>3
    <2>2. /\ Section(u, i) = IF A = {} THEN "none" ELSE u[CHOOSE j \in A : \A k \in A : k <= j]
          /\ Section(u, i + 1) = IF B = {} THEN "none" ELSE u[CHOOSE j \in B : \A k \in B : k <= j]
        BY Zenon DEF Section
    <2>3. Section(u, i + 1) = Section(u, i)
        <3> HIDE DEF A, B
        <3> QED
            BY <2>1, <2>2
    <2> QED
        BY <1>1, <1>3, <2>3
<1> QED
    BY <1>1, <1>2, <1>3

\* It depends on the lines up to it only.
LEMMA SectionOfPrefix ==
    ASSUME NEW u, NEW t, NEW i \in Nat, \A j \in 1..i : u[j] = t[j]
    PROVE  Section(u, i) = Section(t, i)
<1> DEFINE B == {j \in 1..i : IsSection(u[j])}
           C == {j \in 1..i : IsSection(t[j])}
           m == CHOOSE j \in B : \A k \in B : k <= j
<1>1. B = C
    OBVIOUS
<1>2. Section(u, i) = IF B = {} THEN "none" ELSE u[m]
    BY Zenon DEF Section
<1>2a. Section(t, i) = IF C = {} THEN "none" ELSE t[CHOOSE j \in C : \A k \in C : k <= j]
    BY Zenon DEF Section
<1>3. Section(t, i) = IF B = {} THEN "none" ELSE t[m]
    <2> HIDE DEF B, C
    <2> QED
        BY <1>1, <1>2a
<1>4. B \subseteq 1..i
    OBVIOUS
<1> HIDE DEF B
<1>5. CASE B # {}
    <2>1. \E j \in B : \A k \in B : k <= j
        BY <1>4, <1>5, GreatestNumber
    <2>2. m \in B
        BY <2>1
    <2> HIDE DEF m
    <2> QED
        BY <1>2, <1>3, <1>4, <2>2
<1> QED
    BY <1>2, <1>3, <1>5

LEMMA SectionsOfPrefix ==
    ASSUME NEW u, NEW t, NEW n \in Nat, \A j \in 1..n : u[j] = t[j]
    PROVE  \A i \in 0..n : Section(u, i) = Section(t, i)
<1> SUFFICES ASSUME NEW i \in 0..n PROVE Section(u, i) = Section(t, i)
    OBVIOUS
<1>1. i \in Nat /\ \A j \in 1..i : u[j] = t[j]
    OBVIOUS
<1> QED
    BY <1>1, SectionOfPrefix

OutLines == Lines \cup {Ours}

LEMMA LineKinds ==
    /\ Ours \in OutLines /\ Ours \notin Lines /\ Lines \subseteq OutLines
    /\ ~IsSection(Ours) /\ ~IsSection("dir")
    /\ \A x \in Lines : IsSection(x) => x # "dir"
    /\ \A x \in Lines : x \in {"dir", Ours} <=> x = "dir"
BY DEF OutLines, Ours, Lines, IsSection

\* A line appended to a unit.
Longer(o, y, t) ==
    /\ t \in Seq(OutLines) /\ Len(o) \in Nat /\ Len(t) = Len(o) + 1
    /\ t[Len(o) + 1] = y /\ \A i \in 1..Len(o) : t[i] = o[i]
    /\ DOMAIN o = 1..Len(o) /\ DOMAIN t = 1..Len(o) + 1
    /\ \A i \in 1..Len(o) : Section(t, i) = Section(o, i)
    /\ Section(t, Len(o) + 1) = IF IsSection(y) THEN y ELSE Section(o, Len(o))
    /\ Dirs(t) = Dirs(o) \cup
          {i \in {Len(o) + 1} : y \in {"dir", Ours} /\ Section(o, Len(o)) = "[Service]"}

LEMMA OneMoreLine ==
    ASSUME NEW o \in Seq(OutLines), NEW y \in OutLines, NEW t, t = Append(o, y)
    PROVE  Longer(o, y, t)
<1>1. /\ t \in Seq(OutLines) /\ Len(o) \in Nat /\ Len(t) = Len(o) + 1
      /\ t[Len(o) + 1] = y /\ \A i \in 1..Len(o) : t[i] = o[i]
    <2>1. o \in Seq(OutLines) /\ y \in OutLines /\ t = Append(o, y)
        OBVIOUS
    <2>2. Len(o) \in Nat /\ DOMAIN o = 1..Len(o)
        BY LenProperties
    <2>3. t \in Seq(OutLines) /\ Len(t) = Len(o) + 1 /\ t[Len(o) + 1] = y
        BY <2>1, AppendProperties
    <2>4. \A i \in 1..Len(o) : Append(o, y)[i] = o[i]
        BY <2>1, <2>2, AppendProperties
    <2> QED
        BY <2>1, <2>2, <2>3, <2>4
<1>2. DOMAIN o = 1..Len(o) /\ DOMAIN t = 1..Len(o) + 1
    BY <1>1, LenProperties
<1> DEFINE n == Len(o)
<1> HIDE DEF n
<1>3. n \in Nat /\ t[n + 1] = y /\ \A i \in 1..n : t[i] = o[i]
    BY <1>1 DEF n
<1>4. \A i \in 0..n : Section(t, i) = Section(o, i)
    BY <1>3, SectionsOfPrefix
<1>5. Section(t, n + 1) = IF IsSection(y) THEN y ELSE Section(o, n)
    <2>1. Section(t, n + 1) = IF IsSection(t[n + 1]) THEN t[n + 1] ELSE Section(t, n)
        BY <1>3, SectionOf
    <2>2. Section(t, n) = Section(o, n)
        BY <1>3, <1>4
    <2> QED
        BY <1>3, <2>1, <2>2
<1>6. y \in {"dir", Ours} => ~IsSection(y)
    BY LineKinds
<1>7. Dirs(t) = Dirs(o) \cup {i \in {n + 1} : y \in {"dir", Ours} /\ Section(o, n) = "[Service]"}
    <2>1. \A i : i \in DOMAIN t <=> i \in 1..n \/ i = n + 1
        BY <1>2, <1>3 DEF n
    <2>2. DOMAIN o = 1..n
        BY <1>2 DEF n
    <2>3. \A i \in 1..n : i \in Dirs(t) <=> i \in Dirs(o)
        BY <1>3, <1>4, <2>1, <2>2 DEF Dirs
    <2>4. n + 1 \in Dirs(t) <=> y \in {"dir", Ours} /\ Section(o, n) = "[Service]"
        BY <1>3, <1>5, <1>6, <2>1 DEF Dirs
    <2>5. \A i : i \in Dirs(t) => i \in DOMAIN t
        BY DEF Dirs
    <2>6. \A i : i \in Dirs(o) => i \in 1..n
        BY <2>2 DEF Dirs
    <2> QED
        BY <2>1, <2>3, <2>4, <2>5, <2>6
<1> QED
    BY <1>1, <1>2, <1>4, <1>5, <1>7 DEF n, Longer

\* The lines of a unit that an installed one is to have kept, as far as n.
OthersTo(u, n) == {i \in Others(u) : i <= n}

\* How one shows that lines are kept.
LEMMA LinesAreSame ==
    ASSUME NEW S, NEW u, NEW t, NEW place \in [S -> Others(t)],
           \A i \in S : t[place[i]] = u[i] /\ Section(t, place[i]) = Section(u, i),
           \A i, j \in S : i < j => place[i] < place[j],
           \A k \in Others(t) : \E i \in S : place[i] = k
    PROVE  SameLines(S, u, t)
BY Zenon DEF SameLines

\* Appending a line that is none of them.
LEMMA KeepsLines ==
    ASSUME NEW o, NEW y, NEW t, Longer(o, y, t),
           y \in {"dir", Ours}, Section(o, Len(o)) = "[Service]",
           NEW S, NEW u, SameLines(S, u, o)
    PROVE  SameLines(S, u, t)
<1>1. /\ Len(o) \in Nat /\ DOMAIN o = 1..Len(o) /\ DOMAIN t = 1..Len(o) + 1
      /\ \A i \in 1..Len(o) : t[i] = o[i] /\ Section(t, i) = Section(o, i)
      /\ Dirs(t) = Dirs(o) \cup {Len(o) + 1}
    BY DEF Longer
<1>2. Others(t) = Others(o) /\ Others(o) \subseteq 1..Len(o)
    BY <1>1 DEF Others, Dirs
<1>3. PICK place \in [S -> Others(o)] :
        /\ \A i \in S : o[place[i]] = u[i] /\ Section(o, place[i]) = Section(u, i)
        /\ \A i, j \in S : i < j => place[i] < place[j]
        /\ \A k \in Others(o) : \E i \in S : place[i] = k
    BY DEF SameLines
<1>4. \A i \in S : t[place[i]] = u[i] /\ Section(t, place[i]) = Section(u, i)
    BY <1>1, <1>2, <1>3
<1> QED
    BY <1>2, <1>3, <1>4, LinesAreSame

\* Appending the next of them.
LEMMA KeepsNextLine ==
    ASSUME NEW o, NEW y, NEW t, Longer(o, y, t),
           ~(y \in {"dir", Ours} /\ Section(o, Len(o)) = "[Service]"),
           NEW n \in Nat, NEW S, S \subseteq 1..n, NEW u, SameLines(S, u, o),
           u[n + 1] = y, Section(u, n + 1) = Section(t, Len(o) + 1)
    PROVE  SameLines(S \cup {n + 1}, u, t)
<1> DEFINE m == Len(o) + 1
<1>1. /\ Len(o) \in Nat /\ DOMAIN o = 1..Len(o) /\ DOMAIN t = 1..m
      /\ \A i \in 1..Len(o) : t[i] = o[i] /\ Section(t, i) = Section(o, i)
      /\ t[m] = y /\ Dirs(t) = Dirs(o)
    BY DEF Longer
<1>2. /\ Others(t) = Others(o) \cup {m} /\ Others(o) \subseteq 1..Len(o)
      /\ \A k \in Others(o) : k < m /\ k \in Nat
    BY <1>1 DEF Others, Dirs
<1>3. PICK place \in [S -> Others(o)] :
        /\ \A i \in S : o[place[i]] = u[i] /\ Section(o, place[i]) = Section(u, i)
        /\ \A i, j \in S : i < j => place[i] < place[j]
        /\ \A k \in Others(o) : \E i \in S : place[i] = k
    BY DEF SameLines
<1> DEFINE p == [i \in S \cup {n + 1} |-> IF i = n + 1 THEN m ELSE place[i]]
<1>4. n + 1 \notin S /\ \A i \in S : i < n + 1 /\ ~(n + 1 < i)
    OBVIOUS
<1>5. p \in [S \cup {n + 1} -> Others(t)] /\ p[n + 1] = m /\ \A i \in S : p[i] = place[i]
    BY <1>2, <1>4
<1> HIDE DEF p
<1>6. \A i \in S \cup {n + 1} : t[p[i]] = u[i] /\ Section(t, p[i]) = Section(u, i)
    BY <1>1, <1>2, <1>3, <1>5
<1>7. \A i, j \in S \cup {n + 1} : i < j => p[i] < p[j]
    <2> SUFFICES ASSUME NEW i \in S \cup {n + 1}, NEW j \in S \cup {n + 1}, i < j PROVE p[i] < p[j]
        OBVIOUS
    <2>1. i \in S
        BY <1>4
    <2>2. place[i] \in Others(o)
        BY <2>1, <1>3
    <2>3. CASE j \in S
        BY <1>3, <1>5, <2>1, <2>3
    <2>4. CASE j = n + 1
        BY <1>2, <1>5, <2>1, <2>2, <2>4
    <2> QED
        BY <2>3, <2>4
<1>8. \A k \in Others(t) : \E i \in S \cup {n + 1} : p[i] = k
    BY <1>2, <1>3, <1>5
<1> HIDE DEF m
<1> QED
    BY <1>5, <1>6, <1>7, <1>8, LinesAreSame

AtStart == [in |-> FALSE, saw |-> FALSE, done |-> FALSE, out |-> <<>>]

\* What AfterLines is: the loop, from the start, a line at a time.  The function
\* exists, by induction over how far it is defined.
IsRun(a, u, n) ==
    a = [k \in 0..n |-> IF k = 0 THEN AtStart ELSE NormalizeLine(a[k - 1], u[k])]

LEMMA RunExists ==
    ASSUME NEW u
    PROVE  \A n \in Nat : \E a : IsRun(a, u, n)
<1> DEFINE T == {n \in Nat : \E a : IsRun(a, u, n)}
<1>1. 0 \in T
    <2> DEFINE b == [k \in 0..0 |-> AtStart]
    <2>1. b = [k \in 0..0 |-> IF k = 0 THEN AtStart ELSE NormalizeLine(b[k - 1], u[k])]
        <3>1. \A k \in 0..0 : k = 0
            OBVIOUS
        <3> QED
            BY <3>1
    <2>2. IsRun(b, u, 0)
        BY <2>1, Zenon DEF IsRun
    <2> QED
        BY <2>2
<1>2. ASSUME NEW n \in Nat, n \in T PROVE n + 1 \in T
    <2>1. PICK a : IsRun(a, u, n)
        BY <1>2
    <2> DEFINE b == [k \in 0..n + 1 |-> IF k = n + 1 THEN NormalizeLine(a[n], u[n + 1]) ELSE a[k]]
    <2>2. a = [k \in 0..n |-> IF k = 0 THEN AtStart ELSE NormalizeLine(a[k - 1], u[k])]
        BY <2>1, Zenon DEF IsRun
    <2>3. \A k \in 0..n : a[k] = IF k = 0 THEN AtStart ELSE NormalizeLine(a[k - 1], u[k])
        BY <2>2
    <2>4. \A k \in 0..n + 1 : b[k] = IF k = 0 THEN AtStart ELSE NormalizeLine(b[k - 1], u[k])
        <3> SUFFICES ASSUME NEW k \in 0..n + 1
                     PROVE  b[k] = IF k = 0 THEN AtStart ELSE NormalizeLine(b[k - 1], u[k])
            OBVIOUS
        <3>1. CASE k = n + 1
            <4>1. k # 0 /\ k - 1 = n /\ n \in 0..n + 1 /\ n # n + 1
                BY <3>1
            <4> QED
                BY <3>1, <4>1
        <3>2. CASE k # n + 1
            <4>1. k \in 0..n /\ (k # 0 => k - 1 \in 0..n + 1 /\ k - 1 # n + 1)
                BY <3>2
            <4> QED
                BY <2>3, <3>2, <4>1
        <3> QED
            BY <3>1, <3>2
    <2>5. b = [k \in 0..n + 1 |-> IF k = 0 THEN AtStart ELSE NormalizeLine(b[k - 1], u[k])]
        <3>1. b = [k \in 0..n + 1 |-> b[k]]
            OBVIOUS
        <3> HIDE DEF b
        <3> QED
            BY <2>4, <3>1
    <2> HIDE DEF b
    <2>6. IsRun(b, u, n + 1)
        BY <2>5, Zenon DEF IsRun
    <2> QED
        BY <2>6
<1> HIDE DEF T
<1>3. Nat \subseteq T
    BY <1>1, <1>2, AllNumbers
<1> QED
    BY <1>3 DEF T

LEMMA AfterLinesFacts ==
    ASSUME NEW u \in Seq(Lines)
    PROVE  /\ AfterLines(u)[0] = AtStart
           /\ \A k \in 1..Len(u) : AfterLines(u)[k] = NormalizeLine(AfterLines(u)[k - 1], u[k])
<1>1. Len(u) \in Nat
    BY LenProperties
<1>2. \E a : IsRun(a, u, Len(u))
    BY <1>1, RunExists
<1>3. AfterLines(u) = CHOOSE a : IsRun(a, u, Len(u))
    BY Zenon DEF AfterLines, IsRun, AtStart
<1> DEFINE r == AfterLines(u)
<1>4. IsRun(r, u, Len(u))
    BY <1>2, <1>3
<1> HIDE DEF r
<1>5. r = [k \in 0..Len(u) |-> IF k = 0 THEN AtStart ELSE NormalizeLine(r[k - 1], u[k])]
    BY <1>4, Zenon DEF IsRun
<1>6. r[0] = AtStart /\ \A k \in 1..Len(u) : r[k] = NormalizeLine(r[k - 1], u[k])
    BY <1>1, <1>5
<1> QED
    BY <1>6 DEF r

\* The WorkingDirectory lines of what is written: none, or the installer's.
DirsRight(done, o) ==
    IF done THEN \E i \in Dirs(o) : Dirs(o) = {i} /\ o[i] = Ours ELSE Dirs(o) = {}

\* What is written once k lines of a unit are read.
Written(u, k, done, o) ==
    /\ o \in Seq(OutLines)
    /\ Section(o, Len(o)) = Section(u, k)
    /\ DirsRight(done, o)
    /\ SameLines(OthersTo(u, k), u, o)

\* The installer's line is added to the section it belongs to.
LEMMA OursIsAdded ==
    ASSUME NEW u, NEW k \in Nat, NEW o, Written(u, k, FALSE, o), Section(u, k) = "[Service]"
    PROVE  Written(u, k, TRUE, Append(o, Ours))
<1> DEFINE t == Append(o, Ours)
<1>1. /\ o \in Seq(OutLines) /\ Section(o, Len(o)) = "[Service]" /\ Dirs(o) = {}
      /\ SameLines(OthersTo(u, k), u, o)
    BY DEF Written, DirsRight
<1>2. Longer(o, Ours, t)
    <2>1. Ours \in OutLines
        BY LineKinds
    <2> QED
        BY <1>1, <2>1, OneMoreLine
<1> HIDE DEF t
<1>3. /\ t \in Seq(OutLines) /\ Len(t) = Len(o) + 1 /\ t[Len(o) + 1] = Ours
      /\ Section(t, Len(o) + 1) = "[Service]" /\ Dirs(t) = {Len(o) + 1}
    BY <1>1, <1>2, LineKinds DEF Longer
<1>4. DirsRight(TRUE, t)
    BY <1>3 DEF DirsRight
<1>5. SameLines(OthersTo(u, k), u, t)
    <2>1. Ours \in {"dir", Ours}
        OBVIOUS
    <2> QED
        BY <1>1, <1>2, <2>1, KeepsLines
<1>6. Written(u, k, TRUE, t)
    BY <1>1, <1>3, <1>4, <1>5 DEF Written
<1> QED
    BY <1>6 DEF t

\* The next line is one to keep: it is written as it is.
LEMMA LineIsKept ==
    ASSUME NEW u \in Seq(Lines), NEW k \in Nat, k + 1 \in 1..Len(u), k + 1 \notin Dirs(u),
           NEW done, NEW o, Written(u, k, done, o)
    PROVE  Written(u, k + 1, done, Append(o, u[k + 1]))
<1> DEFINE x == u[k + 1]
           t == Append(o, x)
<1>1. /\ o \in Seq(OutLines) /\ Section(o, Len(o)) = Section(u, k) /\ DirsRight(done, o)
      /\ SameLines(OthersTo(u, k), u, o)
    BY DEF Written
<1>2. DOMAIN u = 1..Len(u) /\ Len(u) \in Nat /\ x \in Lines
    BY LenProperties, ElementOfSeq
<1>3. Section(u, k + 1) = IF IsSection(x) THEN x ELSE Section(u, k)
    BY SectionOf
<1>4. Longer(o, x, t)
    BY <1>1, <1>2, LineKinds, OneMoreLine
<1>5. ~(x \in {"dir", Ours} /\ Section(o, Len(o)) = "[Service]")
    <2> SUFFICES ASSUME x \in {"dir", Ours}, Section(o, Len(o)) = "[Service]" PROVE FALSE
        OBVIOUS
    <2>1. x = "dir" /\ ~IsSection(x)
        BY <1>2, LineKinds
    <2>2. Section(u, k + 1) = "[Service]"
        BY <1>1, <1>3, <2>1
    <2> QED
        BY <1>2, <2>1, <2>2 DEF Dirs
<1>6. x = u[k + 1]
    OBVIOUS
<1> HIDE DEF x, t
<1>7. /\ t \in Seq(OutLines) /\ Len(t) = Len(o) + 1 /\ Len(o) \in Nat
      /\ Section(t, Len(o) + 1) = IF IsSection(x) THEN x ELSE Section(o, Len(o))
      /\ Dirs(t) = Dirs(o) /\ \A i \in 1..Len(o) : t[i] = o[i]
      /\ DOMAIN o = 1..Len(o)
    BY <1>4, <1>5 DEF Longer
<1>8. Section(t, Len(o) + 1) = Section(u, k + 1)
    BY <1>1, <1>3, <1>7
<1>9. DirsRight(done, t)
    <2>1. Dirs(o) \subseteq 1..Len(o)
        BY <1>7 DEF Dirs
    <2> QED
        BY <1>1, <1>7, <2>1 DEF DirsRight
<1>10. SameLines(OthersTo(u, k + 1), u, t)
    <2> DEFINE S == OthersTo(u, k)
    <2>1. S \subseteq 1..k
        BY <1>2 DEF OthersTo, Others
    <2>2. OthersTo(u, k + 1) = S \cup {k + 1}
        <3>1. k + 1 \in Others(u) /\ Others(u) \subseteq Nat
            BY <1>2 DEF Others
        <3>2. \A i \in Others(u) : i <= k + 1 <=> i <= k \/ i = k + 1
            BY <3>1
        <3> QED
            BY <3>1, <3>2 DEF OthersTo
    <2> HIDE DEF S
    <2>3. SameLines(S, u, o)
        BY <1>1 DEF S
    <2>4. SameLines(S \cup {k + 1}, u, t)
        BY <1>4, <1>5, <1>6, <1>8, <2>1, <2>3, KeepsNextLine
    <2> QED
        BY <2>2, <2>4
<1>11. Written(u, k + 1, done, t)
    BY <1>7, <1>8, <1>9, <1>10 DEF Written
<1> QED
    BY <1>11 DEF t, x

\* The next line is a WorkingDirectory of the package's: it is left out.
LEMMA DirIsLeftOut ==
    ASSUME NEW u \in Seq(Lines), NEW k \in Nat, k + 1 \in Dirs(u),
           NEW done, NEW o, Written(u, k, done, o)
    PROVE  Written(u, k + 1, done, o)
<1>1. k + 1 \in 1..Len(u) /\ DOMAIN u = 1..Len(u) /\ u[k + 1] \in {"dir", Ours} /\ u[k + 1] \in Lines
    BY LenProperties, ElementOfSeq DEF Dirs
<1>2. ~IsSection(u[k + 1])
    BY <1>1, LineKinds
<1>3. Section(u, k + 1) = Section(u, k)
    BY <1>2, SectionOf
<1>4. OthersTo(u, k + 1) = OthersTo(u, k)
    <2>1. k + 1 \notin Others(u) /\ Others(u) \subseteq 1..Len(u) /\ Len(u) \in Nat
        BY <1>1, LenProperties DEF Others
    <2>2. \A i \in Others(u) : i <= k + 1 <=> i <= k
        BY <2>1
    <2> QED
        BY <2>2 DEF OthersTo
<1> QED
    BY <1>3, <1>4 DEF Written

\* The state of the loop once k lines are read.
LineInv(u, k, a) ==
    /\ a \in [in : BOOLEAN, saw : BOOLEAN, done : BOOLEAN, out : Seq(OutLines)]
    /\ a.in <=> Section(u, k) = "[Service]"
    /\ a.saw => a.in \/ a.done
    /\ Written(u, k, a.done, a.out)

LEMMA LineInvInit ==
    ASSUME NEW u \in Seq(Lines)
    PROVE  LineInv(u, 0, AtStart)
<1> DEFINE e == <<>>
<1>1. e \in Seq(OutLines) /\ Len(e) = 0 /\ DOMAIN e = {}
    <2>1. e \in Seq(OutLines) /\ Len(e) = 0
        BY EmptySeq
    <2>2. DOMAIN e = 1..0
        BY <2>1, LenProperties
    <2> QED
        BY <2>1, <2>2
<1> HIDE DEF e
<1>2. Section(u, 0) = "none" /\ Section(e, 0) = "none"
    BY SectionOf
<1>3. Dirs(e) = {} /\ Others(e) = {}
    BY <1>1 DEF Dirs, Others
<1>4. OthersTo(u, 0) = {}
    <2>1. Others(u) \subseteq 1..Len(u) /\ Len(u) \in Nat
        BY LenProperties DEF Others
    <2> QED
        BY <2>1 DEF OthersTo
<1>5. SameLines(OthersTo(u, 0), u, e)
    <2> DEFINE place == [i \in {} |-> 0]
    <2>1. place \in [{} -> Others(e)]
        OBVIOUS
    <2> HIDE DEF place
    <2>2. SameLines({}, u, e)
        BY <1>3, <2>1, LinesAreSame
    <2> QED
        BY <1>4, <2>2
<1>6. Written(u, 0, FALSE, e)
    BY <1>1, <1>2, <1>3, <1>5 DEF Written, DirsRight
<1>7. AtStart = [in |-> FALSE, saw |-> FALSE, done |-> FALSE, out |-> e]
    BY DEF AtStart, e
<1> QED
    BY <1>1, <1>2, <1>6, <1>7 DEF LineInv

LEMMA LineInvNext ==
    ASSUME NEW u \in Seq(Lines), NEW k \in Nat, k + 1 \in 1..Len(u), NEW a, LineInv(u, k, a)
    PROVE  LineInv(u, k + 1, NormalizeLine(a, u[k + 1]))
<1> DEFINE x == u[k + 1]
           b == NormalizeLine(a, x)
<1>1. /\ a = [in |-> a.in, saw |-> a.saw, done |-> a.done, out |-> a.out]
      /\ a.in \in BOOLEAN /\ a.saw \in BOOLEAN /\ a.done \in BOOLEAN /\ a.out \in Seq(OutLines)
      /\ a.in <=> Section(u, k) = "[Service]"
      /\ a.saw => a.in \/ a.done
      /\ Written(u, k, a.done, a.out)
    BY DEF LineInv
<1>2. x \in Lines /\ DOMAIN u = 1..Len(u)
    BY LenProperties, ElementOfSeq
<1>3. Section(u, k + 1) = IF IsSection(x) THEN x ELSE Section(u, k)
    BY SectionOf
<1>4. k + 1 \in Dirs(u) <=> x = "dir" /\ a.in
    <2>1. k + 1 \in Dirs(u) <=> x = "dir" /\ Section(u, k + 1) = "[Service]"
        BY <1>2, LineKinds DEF Dirs
    <2>2. x = "dir" => ~IsSection(x)
        BY LineKinds
    <2> QED
        BY <1>1, <1>3, <2>1, <2>2
<1>5. a.in /\ ~a.done => Written(u, k, TRUE, Append(a.out, Ours))
    BY <1>1, OursIsAdded
<1>6. \A d, o : Written(u, k + 1, d, o) => o \in Seq(OutLines)
    BY DEF Written
<1>7. CASE IsSection(x)
    <2> DEFINE o == IF a.in /\ ~a.done THEN Append(a.out, Ours) ELSE a.out
               d == a.done \/ a.in
    <2>1. b = [in |-> x = "[Service]", saw |-> a.saw \/ x = "[Service]", done |-> d,
               out |-> Append(o, x)]
        BY <1>7 DEF NormalizeLine
    <2>2. Written(u, k, d, o)
        <3>1. CASE a.in /\ ~a.done
            BY <1>5, <3>1
        <3>2. CASE ~(a.in /\ ~a.done)
            <4>1. d = a.done /\ o = a.out
                BY <1>1, <3>2
            <4> QED
                BY <1>1, <4>1
        <3> QED
            BY <3>1, <3>2
    <2>3. d \in BOOLEAN /\ (a.saw \/ x = "[Service]" => x = "[Service]" \/ d)
        BY <1>1
    <2> HIDE DEF o, d
    <2>4. k + 1 \notin Dirs(u)
        BY <1>4, <1>7, LineKinds
    <2>5. Written(u, k + 1, d, Append(o, x))
        BY <2>2, <2>4, LineIsKept
    <2>6. Section(u, k + 1) = x
        BY <1>3, <1>7
    <2> HIDE DEF x, b
    <2>7. b \in [in : BOOLEAN, saw : BOOLEAN, done : BOOLEAN, out : Seq(OutLines)]
        BY <1>1, <1>6, <2>1, <2>3, <2>5
    <2>8. LineInv(u, k + 1, b)
        BY <2>1, <2>3, <2>5, <2>6, <2>7 DEF LineInv
    <2> QED
        BY <2>8 DEF b, x
<1>8. CASE ~IsSection(x) /\ a.in /\ x = "dir"
    <2> DEFINE o == IF a.done THEN a.out ELSE Append(a.out, Ours)
    <2>1. b = [in |-> a.in, saw |-> a.saw, done |-> TRUE, out |-> o]
        BY <1>1, <1>8 DEF NormalizeLine
    <2>2. Written(u, k, TRUE, o)
        BY <1>1, <1>5, <1>8
    <2> HIDE DEF o
    <2>3. Written(u, k + 1, TRUE, o)
        BY <1>4, <1>8, <2>2, DirIsLeftOut
    <2>4. Section(u, k + 1) = Section(u, k)
        BY <1>3, <1>8
    <2> HIDE DEF x, b
    <2>5. b \in [in : BOOLEAN, saw : BOOLEAN, done : BOOLEAN, out : Seq(OutLines)]
        BY <1>1, <1>6, <2>1, <2>3
    <2>6. LineInv(u, k + 1, b)
        BY <1>1, <2>1, <2>3, <2>4, <2>5 DEF LineInv
    <2> QED
        BY <2>6 DEF b, x
<1>9. CASE ~IsSection(x) /\ ~(a.in /\ x = "dir")
    <2>1. b = [in |-> a.in, saw |-> a.saw, done |-> a.done, out |-> Append(a.out, x)]
        BY <1>1, <1>9 DEF NormalizeLine
    <2>2. Written(u, k + 1, a.done, Append(a.out, x))
        BY <1>1, <1>4, <1>9, LineIsKept
    <2>3. Section(u, k + 1) = Section(u, k)
        BY <1>3, <1>9
    <2> HIDE DEF x, b
    <2>4. b \in [in : BOOLEAN, saw : BOOLEAN, done : BOOLEAN, out : Seq(OutLines)]
        BY <1>1, <1>6, <2>1, <2>2
    <2>5. LineInv(u, k + 1, b)
        BY <1>1, <2>1, <2>2, <2>3, <2>4 DEF LineInv
    <2> QED
        BY <2>5 DEF b, x
<1> QED
    BY <1>7, <1>8, <1>9

\* The loop, whole: a unit with a [Service] comes out with the installer's
\* directory, its only one, and every other line.
LEMMA NormalizedIsRight ==
    ASSUME NEW u \in Seq(Lines), Normalized(u).ok
    PROVE  /\ DirsRight(TRUE, Normalized(u).out)
           /\ SameLines(Others(u), u, Normalized(u).out)
<1> DEFINE r(k) == AfterLines(u)[k]
           T == {k \in Nat : k <= Len(u) => LineInv(u, k, r(k))}
           n == Len(u)
<1>1. n \in Nat
    BY LenProperties
<1>2. 0 \in T
    BY AfterLinesFacts, LineInvInit
<1>3. ASSUME NEW k \in Nat, k \in T PROVE k + 1 \in T
    <2> SUFFICES ASSUME k + 1 <= n PROVE LineInv(u, k + 1, r(k + 1))
        OBVIOUS
    <2>1. k + 1 \in 1..n /\ k <= n /\ (k + 1) - 1 = k
        BY <1>1
    <2>2. LineInv(u, k, r(k))
        BY <1>3, <2>1
    <2>3. AfterLines(u)[k + 1] = NormalizeLine(AfterLines(u)[k], u[k + 1])
        BY <2>1, AfterLinesFacts
    <2>4. LineInv(u, k + 1, NormalizeLine(r(k), u[k + 1]))
        BY <2>1, <2>2, LineInvNext
    <2> QED
        BY <2>3, <2>4
<1>4. LineInv(u, n, r(n))
    <2>1. n \in T
        <3> HIDE DEF T
        <3> QED
            BY <1>1, <1>2, <1>3, AllNumbers
    <2> QED
        BY <1>1, <2>1
<1> DEFINE a == r(n)
<1>5. /\ Normalized(u).ok = a.saw
      /\ Normalized(u).out = IF a.in /\ ~a.done THEN Append(a.out, Ours) ELSE a.out
    BY DEF Normalized
<1>6. LineInv(u, n, a)
    BY <1>4
<1> HIDE DEF a
<1>7. Written(u, n, TRUE, Normalized(u).out)
    <2>1. /\ a.saw /\ a.done \in BOOLEAN
          /\ a.in <=> Section(u, n) = "[Service]"
          /\ a.in \/ a.done
          /\ Written(u, n, a.done, a.out)
        BY <1>5, <1>6 DEF LineInv
    <2>2. CASE a.in /\ ~a.done
        BY <1>1, <1>5, <2>1, <2>2, OursIsAdded
    <2>3. CASE a.done
        BY <1>5, <2>1, <2>3
    <2> QED
        BY <2>1, <2>2, <2>3
<1>8. OthersTo(u, n) = Others(u)
    <2>1. Others(u) \subseteq 1..n
        BY LenProperties DEF Others
    <2> QED
        BY <1>1, <2>1 DEF OthersTo
<1> QED
    BY <1>7, <1>8 DEF Written

-----------------------------------------------------------------------------
(* Packages: what is stored and found again.                               *)

\* What an accepted package is.
Accepted(a) ==
    Unwrapped(a) /\ Parses(a) /\ Normalized(a.unit).ok /\ SignatureOK(a) /\ Creatable(a)

\* The inductive invariant: what is stored is what the install of an accepted
\* package leaves, and what is found in it is the record that was stored.
PackageInv ==
    /\ upload.unit \in Seq(Lines)
    /\ IsFiniteSet(DOMAIN upload.files)
    /\ stored \in {Unread, Refused} \/ (stored = Installed(upload) /\ Accepted(upload))
    /\ found # Unread => stored \notin {Unread, Refused} /\ found = stored.row

LEMMA PackageInvInit == PackageInit => PackageInv
<1> SUFFICES ASSUME PackageInit PROVE PackageInv
    OBVIOUS
<1>1. stored = Unread /\ found = Unread
    BY DEF PackageInit
<1>2. <<"[Service]">> \in Seq(Lines)
    BY DEF Lines
<1>3. UnitFiles \subseteq Seq(Lines)
    BY DEF UnitFiles, SeqOf
<1>4. \A f \in SeqOf(RawPaths, MaxFiles) : IsFiniteSet(DOMAIN f)
    <2> SUFFICES ASSUME NEW f \in Seq(RawPaths) PROVE IsFiniteSet(DOMAIN f)
        BY DEF SeqOf
    <2>1. DOMAIN f = 1..Len(f) /\ Len(f) \in Nat
        BY LenProperties
    <2> QED
        BY <2>1, FS_Interval
<1>5. IsFiniteSet(DOMAIN <<>>)
    <2>1. DOMAIN <<>> = {}
        OBVIOUS
    <2> QED
        BY <2>1, FS_EmptySet
<1>6. upload.unit \in Seq(Lines) /\ IsFiniteSet(DOMAIN upload.files)
    BY <1>2, <1>3, <1>4, <1>5 DEF PackageInit, Archives
<1> QED
    BY <1>1, <1>6 DEF PackageInv

LEMMA BinaryIsKept ==
    ASSUME NEW a, CustomOK(a.files)
    PROVE  ~Overwritten(a)
<1> SUFFICES ASSUME Overwritten(a) PROVE FALSE
    OBVIOUS
<1>1. PICK i \in Custom(a.files) : Components(a.files[i]) = <<"bin">>
    BY DEF Overwritten
<1>2. i \in DOMAIN a.files /\ a.files[i] # <<>>
    BY DEF Custom
<1>3. PathOK(a.files[i])
    BY <1>2 DEF CustomOK
<1> QED
    BY <1>1, <1>2, <1>3, Zenon DEF PathOK, PathKey

LEMMA FilesAreKept ==
    ASSUME NEW a, CustomOK(a.files), IsFiniteSet(DOMAIN a.files)
    PROVE  Cardinality({Components(a.files[i]) : i \in Custom(a.files)}) = Cardinality(Custom(a.files))
<1> DEFINE C == Custom(a.files)
           name(i) == Components(a.files[i])
           D == {name(i) : i \in C}
           f == [i \in C |-> name(i)]
<1>1. C \subseteq DOMAIN a.files
    BY DEF Custom
<1>2. IsFiniteSet(C)
    BY <1>1, FS_Subset
<1>3. \A i, j \in C : i # j => name(i) # name(j)
    BY DEF CustomOK, PathKey
<1> HIDE DEF C, name
<1>4. f \in [C -> D] /\ \A i \in C : f[i] = name(i)
    OBVIOUS
<1>5. \A d \in D : \E i \in C : f[i] = d
    OBVIOUS
<1> HIDE DEF f, D
<1>6. f \in Bijection(C, D)
    <2>1. \A i, j \in C : f[i] = f[j] => i = j
        BY <1>3, <1>4
    <2> QED
        BY <1>4, <1>5, <2>1 DEF Bijection, Injection, Surjection, IsInjective
<1>7. Cardinality(D) = Cardinality(C)
    BY <1>2, <1>6, FS_Bijection DEF ExistsBijection
<1> QED
    BY <1>7 DEF C, D, name

LEMMA PackageInvNext == PackageInv /\ [PackageNext]_packageVars => PackageInv'
<1> SUFFICES ASSUME PackageInv, [PackageNext]_packageVars PROVE PackageInv'
    OBVIOUS
<1>1. CASE Upload
    <2>1. upload' = upload /\ found' = found /\ stored = Unread
        BY <1>1 DEF Upload
    <2>2. found = Unread
        BY <2>1 DEF PackageInv
    <2>3. stored' = Refused \/ (stored' = Installed(upload) /\ Accepted(upload))
        BY <1>1 DEF Upload, Accepted
    <2> QED
        BY <2>1, <2>2, <2>3 DEF PackageInv
<1>2. CASE Rediscover
    <2>1. upload' = upload /\ stored' = stored /\ stored \notin {Unread, Refused}
        BY <1>2 DEF Rediscover
    <2>2. stored = Installed(upload) /\ Accepted(upload)
        BY <2>1 DEF PackageInv
    <2>3. CustomOK(upload.files) /\ ValidManifest(upload.manifest) /\ SignatureOK(upload)
        BY <2>2 DEF Accepted, Parses
    <2>4. ~Overwritten(upload)
        BY <2>3, BinaryIsKept
    <2>5. /\ stored.manifest = upload.manifest /\ stored.sig = upload.sig
          /\ stored.binary = "match" /\ stored.row = Record(upload)
        BY <2>2, <2>4 DEF Installed
    <2>6. SignatureOK(stored)
        BY <2>3, <2>5 DEF SignatureOK
    <2>7. found' = Record(stored)
        BY <1>2, <2>3, <2>5, <2>6 DEF Rediscover
    <2>8. Record(stored) = Record(upload)
        BY <2>5 DEF Record, Official
    <2> QED
        BY <2>1, <2>5, <2>7, <2>8 DEF PackageInv
<1>3. CASE UNCHANGED packageVars
    BY <1>3 DEF packageVars, PackageInv
<1> QED
    BY <1>1, <1>2, <1>3 DEF PackageNext

LEMMA PackageInvHolds == PackageInv => PackageTypeOK /\ PackageKept
<1> SUFFICES ASSUME PackageInv PROVE PackageTypeOK /\ PackageKept
    OBVIOUS
<1>1. ASSUME stored \notin {Unread, Refused}
      PROVE  /\ stored.row = Record(upload)
             /\ DirsRight(TRUE, stored.unit) /\ SameLines(Others(upload.unit), upload.unit, stored.unit)
             /\ Cardinality(stored.files) = stored.count
    <2>1. stored = Installed(upload) /\ Accepted(upload)
        BY <1>1 DEF PackageInv
    <2>2. /\ stored.row = Record(upload) /\ stored.unit = Normalized(upload.unit).out
          /\ stored.files = {Components(upload.files[i]) : i \in Custom(upload.files)}
          /\ stored.count = Cardinality(Custom(upload.files))
        BY <2>1, Zenon DEF Installed
    <2>3. CustomOK(upload.files) /\ Normalized(upload.unit).ok
        BY <2>1 DEF Accepted, Parses
    <2>4. Cardinality(stored.files) = stored.count
        BY <2>2, <2>3, FilesAreKept DEF PackageInv
    <2>5. upload.unit \in Seq(Lines)
        BY DEF PackageInv
    <2>6. DirsRight(TRUE, stored.unit) /\ SameLines(Others(upload.unit), upload.unit, stored.unit)
        BY <2>2, <2>3, <2>5, NormalizedIsRight
    <2> QED
        BY <2>2, <2>4, <2>6
<1>2. PackageTypeOK
    BY <1>1 DEF PackageTypeOK, PackageInv
<1>3. RunsInItsDirectory
    BY <1>1 DEF RunsInItsDirectory, DirsRight
<1>4. FoundAgain
    BY <1>1 DEF FoundAgain, PackageInv
<1> QED
    BY <1>2, <1>3, <1>4 DEF PackageKept

\* A package that is accepted is stored with a unit that runs in the plugin's own
\* directory and keeps every other line, with every file under its own name, and
\* is found again with the record that was stored: for unit files of any length
\* and any files (plugins.rs normalize_service_working_directory,
\* read_custom_files, discover_plugin_record).
THEOREM PackageIsKept == PackageSpec => [](PackageTypeOK /\ PackageKept)
<1>1. PackageInit => PackageInv
    BY PackageInvInit
<1>2. PackageInv /\ [PackageNext]_packageVars => PackageInv'
    BY PackageInvNext
<1>3. PackageInv => PackageTypeOK /\ PackageKept
    BY PackageInvHolds
<1> QED
    BY <1>1, <1>2, <1>3, PTL DEF PackageSpec

-----------------------------------------------------------------------------
(* Their product.  A step of it is a step of one component and leaves the  *)
(* others alone: its behaviours are behaviours of each.                    *)

deviceVars == <<which, settingsVars, audioCtlVars, vpnPageVars, upgradeVars, packageVars,
                storeVars>>

Parts == {"settings", "control", "page", "upgrade", "package", "store"}

LEMMA DeviceParts ==
    DeviceSpec => /\ SettingsSpec /\ ControlSpec /\ VpnPageSpec /\ UpgradeSpec /\ PackageSpec
                  /\ StoreSpec /\ [](which \in Parts)
<1>1. DeviceInit => /\ SettingsInit /\ ControlInit /\ VpnPageInit /\ UpgradeInit
                    /\ PackageInit /\ StoreInit /\ which \in Parts
    BY DEF DeviceInit, Parts
<1>2. ASSUME [DeviceNext]_deviceVars
      PROVE  /\ [SettingsNext]_settingsVars /\ [ControlNext]_audioCtlVars
             /\ [VpnPageNext]_vpnPageVars /\ [UpgradeNext]_upgradeVars
             /\ [PackageNext]_packageVars /\ [StoreNext]_storeVars
             /\ which \in Parts => which' \in Parts
    BY <1>2, Zenon DEF DeviceNext, deviceVars
<1>3. DeviceSpec => SettingsSpec
    <2>1. DeviceInit => SettingsInit
        BY <1>1
    <2>2. [DeviceNext]_deviceVars => [SettingsNext]_settingsVars
        BY <1>2
    <2> QED
        BY <2>1, <2>2, PTL DEF DeviceSpec, deviceVars, SettingsSpec
<1>4. DeviceSpec => ControlSpec
    <2>1. DeviceInit => ControlInit
        BY <1>1
    <2>2. [DeviceNext]_deviceVars => [ControlNext]_audioCtlVars
        BY <1>2
    <2> QED
        BY <2>1, <2>2, PTL DEF DeviceSpec, deviceVars, ControlSpec
<1>5. DeviceSpec => VpnPageSpec
    <2>1. DeviceInit => VpnPageInit
        BY <1>1
    <2>2. [DeviceNext]_deviceVars => [VpnPageNext]_vpnPageVars
        BY <1>2
    <2> QED
        BY <2>1, <2>2, PTL DEF DeviceSpec, deviceVars, VpnPageSpec
<1>6. DeviceSpec => UpgradeSpec
    <2>1. DeviceInit => UpgradeInit
        BY <1>1
    <2>2. [DeviceNext]_deviceVars => [UpgradeNext]_upgradeVars
        BY <1>2
    <2> QED
        BY <2>1, <2>2, PTL DEF DeviceSpec, deviceVars, UpgradeSpec
<1>7. DeviceSpec => PackageSpec
    <2>1. DeviceInit => PackageInit
        BY <1>1
    <2>2. [DeviceNext]_deviceVars => [PackageNext]_packageVars
        BY <1>2
    <2> QED
        BY <2>1, <2>2, PTL DEF DeviceSpec, deviceVars, PackageSpec
<1>8. DeviceSpec => StoreSpec
    <2>1. DeviceInit => StoreInit
        BY <1>1
    <2>2. [DeviceNext]_deviceVars => [StoreNext]_storeVars
        BY <1>2
    <2> QED
        BY <2>1, <2>2, PTL DEF DeviceSpec, deviceVars, StoreSpec
<1>9. DeviceSpec => [](which \in Parts)
    <2>1. DeviceInit => which \in Parts
        BY <1>1
    <2>2. which \in Parts /\ [DeviceNext]_deviceVars => (which \in Parts)'
        BY <1>2
    <2> QED
        BY <2>1, <2>2, PTL DEF DeviceSpec, deviceVars
<1> QED
    BY <1>3, <1>4, <1>5, <1>6, <1>7, <1>8, <1>9

\* Each component keeps its types, in whatever product they run, for any number of
\* clients, pages, upgrades, plugins and lines (MCDevice.TypesOK).
THEOREM DeviceTypes == DeviceSpec => []TypesOK
<1>1. SettingsInv => SettingsTypeOK
    BY DEF SettingsInv
<1>2. ControlInv => ControlTypeOK
    BY DEF ControlInv
<1>3. VpnPageInv => VpnPageTypeOK
    BY DEF VpnPageInv, VpnPageTypes, VpnPageTypeOK
<1>4. UpgradeInv => UpgradeTypeOK
    BY DEF UpgradeInv
<1>5. PackageInv => PackageTypeOK
    BY PackageInvHolds
<1>6. StoreInv => StoreTypeOK
    BY DEF StoreInv
<1>7. SettingsSpec => []SettingsTypeOK
    BY <1>1, SettingsInvInit, SettingsInvNext, PTL DEF SettingsSpec
<1>8. ControlSpec => []ControlTypeOK
    <2>1. ControlInit => ControlInv
        BY ControlInitInv
    <2>2. ControlInv /\ [ControlNext]_audioCtlVars => ControlInv'
        BY ControlNextType, SwitchNext, WriteNext DEF ControlInv
    <2> QED
        BY <1>2, <2>1, <2>2, PTL DEF ControlSpec
<1>9. VpnPageSpec => []VpnPageTypeOK
    BY <1>3, VpnPageInvInit, VpnPageInvNext, PTL DEF VpnPageSpec
<1>10. UpgradeSpec => []UpgradeTypeOK
    BY <1>4, UpgradeInvInit, UpgradeInvNext, PTL DEF UpgradeSpec
<1>11. PackageSpec => []PackageTypeOK
    BY <1>5, PackageInvInit, PackageInvNext, PTL DEF PackageSpec
<1>12. StoreSpec => []StoreTypeOK
    BY <1>6, StoreInvInit, StoreInvNext, PTL DEF StoreSpec
<1>13. /\ which \in Parts
       /\ SettingsTypeOK /\ ControlTypeOK /\ VpnPageTypeOK /\ UpgradeTypeOK /\ PackageTypeOK
       /\ StoreTypeOK
       => TypesOK
    BY Zenon DEF TypesOK, Parts
<1> QED
    BY DeviceParts, <1>7, <1>8, <1>9, <1>10, <1>11, <1>12, <1>13, PTL
=============================================================================

-------------------------- MODULE GatewaySettings --------------------------
(***************************************************************************)
(* The gateway's settings: the rows of its SQLite database (settings/db.rs)*)
(* and what the PUT handlers make of them in the running VPN               *)
(* (http/handlers.rs, main.rs).  The radio's rows are in RadioInterface.   *)
(*                                                                         *)
(* Each handler writes the rows one by one, without a transaction, under   *)
(* the settings lock, and applies what it was given once it let go of it.  *)
(* Handlers run beside each other, a statement may fail, and the gateway   *)
(* may be killed at any point and started again.                           *)
(*                                                                         *)
(* The routes stand for every row of save_config that has one value        *)
(* (network, allow_all_peers, announce_freq_secs too).                     *)
(***************************************************************************)
EXTENDS Naturals, FiniteSets

CONSTANTS
    Clients,          \* PUT requests that may be under way at a time
    GoodHashes,       \* destination hashes of peers
    BadHash,          \* text that is no hash
    RouteLists,       \* lists of advertised routes
    MaxFaults,        \* bound: failing statements and kills
    Nobody

ASSUME SettingsAssumption ==
    RouteLists # {} /\ MaxFaults \in Nat /\ Nobody \notin Clients

Hashes == GoodHashes \cup {BadHash}

VARIABLES
    db,               \* [routes, peers]: the rows
    running,          \* [up, routes, peers]: VpnRuntime, if it could start
    holder,           \* who has the settings lock
    request,          \* per client: what it does, with which values
    faults,
    wanted,           \* history: what the requests saved so far asked for
    torn,             \* history: a save was cut short
    refused,          \* history: a saved request was answered 400
    alone             \* history: the kind of the last request, if no other
                      \* overlapped it

settingsVars == <<db, running, holder, request, faults, wanted, torn, refused, alone>>

Config == [routes : RouteLists, peers : SUBSET Hashes]
Steps == {"idle", "lock", "routes", "clear", "peers", "rest", "policy", "advertise"}
Kinds == {"settings", "routes", "access"}
Default == CHOOSE cfg \in Config : cfg.peers = {}
Idle == [pc |-> "idle", kind |-> "settings", cfg |-> Default]

\* What the VPN runtime becomes when it starts from the rows: a peer it cannot
\* parse, and there is none.
StartVpn(rows) == [up |-> BadHash \notin rows.peers, routes |-> rows.routes, peers |-> rows.peers]

SettingsInit ==
    /\ db = Default
    /\ running = StartVpn(db)
    /\ holder = Nobody
    /\ request = [c \in Clients |-> Idle]
    /\ faults = 0
    /\ wanted = db
    /\ torn = FALSE /\ refused = FALSE
    /\ alone = "none"

At(c, s) == request[c].pc = s
Quiet == \A c \in Clients : At(c, "idle")
Goto(c, s) == request' = [request EXCEPT ![c].pc = s]
End(c) == request' = [request EXCEPT ![c] = Idle]

history == <<wanted, torn, refused, alone>>

-----------------------------------------------------------------------------
\* The configuration `old` with what a request of this kind names.
Over(old, kind, cfg) ==
    CASE kind = "settings" -> cfg
      [] kind = "routes" -> [old EXCEPT !.routes = cfg.routes]
      [] kind = "access" -> [old EXCEPT !.peers = cfg.peers]

\* A PUT of the whole configuration, of the routes or of the peers;
\* normalize_vpn_peer_hashes refuses what is no hash, put_settings does not.
Put(c, kind, cfg) ==
    /\ At(c, "idle")
    /\ kind = "access" => BadHash \notin cfg.peers
    /\ kind # "settings" => cfg = Over(db, kind, cfg)
    /\ request' = [request EXCEPT ![c] = [pc |-> "lock", kind |-> kind, cfg |-> cfg]]
    /\ alone' = IF Quiet THEN kind ELSE "none"
    /\ UNCHANGED <<db, running, holder, faults, wanted, torn, refused>>

\* (mutant) The other rows are those of when the request began.
MergedEarly(c) == request[c].cfg

\* What a handler saves: what it was given, over what it loads.
Merged(c) == Over(db, request[c].kind, request[c].cfg)

\* The lock is taken, and for routes and access the rows are read under it.
Lock(c) ==
    /\ At(c, "lock") /\ holder = Nobody
    /\ holder' = c
    /\ request' = [request EXCEPT ![c].cfg = Merged(c), ![c].pc = "routes"]
    /\ wanted' = Over(wanted, request[c].kind, request[c].cfg)
    /\ UNCHANGED <<db, running, faults, torn, refused, alone>>

SaveRoutes(c) ==
    /\ At(c, "routes")
    /\ db' = [db EXCEPT !.routes = request[c].cfg.routes]
    /\ Goto(c, "clear")
    /\ UNCHANGED <<running, holder, faults, history>>

\* (mutant) The old peers stay.
KeptPeers == db.peers

Cleared == {}

\* DELETE FROM peers ...
ClearPeers(c) ==
    /\ At(c, "clear")
    /\ db' = [db EXCEPT !.peers = Cleared]
    /\ Goto(c, "peers")
    /\ UNCHANGED <<running, holder, faults, history>>

\* ... and INSERT, peer by peer.
InsertPeer(c) ==
    /\ At(c, "peers")
    /\ \E p \in request[c].cfg.peers \ db.peers : db' = [db EXCEPT !.peers = @ \cup {p}]
    /\ UNCHANGED <<running, holder, request, faults, history>>

PeersDone(c) ==
    /\ At(c, "peers") /\ request[c].cfg.peers \subseteq db.peers
    /\ Goto(c, "rest")
    /\ UNCHANGED <<db, running, holder, faults, history>>

\* The radio's rows are the last; the lock is released.  A whole configuration
\* mends what a save that was cut short left.
SaveRest(c) ==
    /\ At(c, "rest")
    /\ holder' = Nobody
    /\ request' = [request EXCEPT
         ![c].cfg = Over(Default, request[c].kind, @),
         ![c].pc = IF request[c].kind = "routes" THEN "advertise" ELSE "policy"]
    /\ torn' = (torn /\ request[c].kind # "settings")
    /\ UNCHANGED <<db, running, faults, wanted, refused, alone>>

\* A statement fails: the request ends, the rows stay as far as they got.
SaveFails(c) ==
    /\ holder = c /\ faults < MaxFaults
    /\ faults' = faults + 1
    /\ holder' = Nobody
    /\ End(c)
    /\ torn' = TRUE
    /\ UNCHANGED <<db, running, wanted, refused, alone>>

-----------------------------------------------------------------------------
\* replace_peer_policy, if there is a VPN: a peer it cannot parse ends the
\* request, although the rows have it now.
ApplyPolicy(c) ==
    LET peers == request[c].cfg.peers IN
    /\ At(c, "policy")
    /\ IF running.up /\ BadHash \in peers
       THEN End(c) /\ refused' = TRUE /\ UNCHANGED running
       ELSE /\ running' = IF running.up THEN [running EXCEPT !.peers = peers] ELSE running
            /\ IF request[c].kind = "settings" THEN Goto(c, "advertise") ELSE End(c)
            /\ UNCHANGED refused
    /\ UNCHANGED <<db, holder, faults, wanted, torn, alone>>

\* (mutant) Only a full configuration reaches the running VPN.
AdvertisedNever(c) == running

Advertised(c) ==
    IF running.up THEN [running EXCEPT !.routes = request[c].cfg.routes] ELSE running

ApplyRoutes(c) ==
    /\ At(c, "advertise")
    /\ running' = Advertised(c)
    /\ End(c)
    /\ UNCHANGED <<db, holder, faults, history>>

\* The gateway is killed and starts from the rows.
Restart ==
    /\ faults < MaxFaults
    /\ faults' = faults + 1
    /\ torn' = (torn \/ holder # Nobody)
    /\ refused' = FALSE
    /\ alone' = "none"
    /\ holder' = Nobody
    /\ request' = [c \in Clients |-> Idle]
    /\ running' = StartVpn(db)
    /\ UNCHANGED <<db, wanted>>

SettingsStep(c) ==
    \/ Lock(c) \/ SaveRoutes(c) \/ ClearPeers(c) \/ InsertPeer(c) \/ PeersDone(c)
    \/ SaveRest(c) \/ SaveFails(c) \/ ApplyPolicy(c) \/ ApplyRoutes(c)

SettingsNext ==
    \/ \E c \in Clients : SettingsStep(c) \/ \E k \in Kinds, cfg \in Config : Put(c, k, cfg)
    \/ Restart

SettingsSpec == SettingsInit /\ [][SettingsNext]_settingsVars

-----------------------------------------------------------------------------
SettingsTypeOK ==
    /\ db \in Config /\ wanted \in Config
    /\ running \in [up : BOOLEAN, routes : RouteLists, peers : SUBSET Hashes]
    /\ holder \in Clients \cup {Nobody}
    /\ request \in [Clients -> [pc : Steps, kind : Kinds, cfg : Config]]
    /\ faults \in 0..MaxFaults
    /\ torn \in BOOLEAN /\ refused \in BOOLEAN /\ alone \in Kinds \cup {"none"}

\* No handler undoes what another one saved: unless a save was cut short, the
\* rows are at rest what the requests asked for, each in its own rows, in the
\* order they got the lock; and the stored peers are never those of two
\* requests (handlers.rs put_vpn_routes, put_vpn_access; db.rs save_config).
NothingUndone ==
    /\ holder = Nobody /\ ~torn => db = wanted
    /\ ~torn /\ holder # Nobody /\ At(holder, "peers") =>
         db.peers \subseteq request[holder].cfg.peers

\* A request that ran with no other beside it leaves the VPN running with what
\* it stored, whatever requests raced before it, unless a save was cut short or
\* a stored peer was refused since the last start (handlers.rs put_settings,
\* put_vpn_routes, put_vpn_access).
RunningIsStored ==
    Quiet /\ ~torn /\ ~refused /\ running.up =>
        /\ alone \in {"settings", "access"} => running.peers = db.peers
        /\ alone \in {"settings", "routes"} => running.routes = db.routes

\* Both: no request undoes what another has saved, and one that was alone leaves
\* running what is stored.
SettingsKept == NothingUndone /\ RunningIsStored
=============================================================================

# TLA+ models of kaonic-gateway

This directory holds specifications of the parts of kaonic-gateway whose
correctness depends on what happens in which order: the VPN over Reticulum
links, the plugin store and the over-the-air updates of the device, push to
talk, the gateway's settings, radio, feeds and pages, and the ATAK bridge. They are
translated from the Rust sources, checked with TLC on small instances and, for
every safety property that holds, proved with TLAPS for instances of any size.

Run from this directory, e.g.

    tlc -workers 2 -config VpnLinkSafety.cfg MCVpnLink
    tlapm VpnLinkProofs.tla

`PROJECT.json` lists the runs, the lines of the sources behind each definition,
a mutant for each property (a plausible bug that violates it), the hazards of
the code and what was found.

## The system

| component | state it keeps | operations | talks to |
|---|---|---|---|
| **kaonic-vpn links** (`vpn/runtime.rs`, `peer.rs`) | per peer: `LinkState`, in-flight guard, cooldown; allowlist | announce received, `request_out_link` task, link events, watchdog, `replace_peer_policy` | Reticulum's transport (lock + broadcast channel of link events) |
| **kaonic-vpn routes** (`runtime.rs`, `router.rs`, `platform.rs`) | routes and deadline per peer, router table, local routes, `installed_routes`, the kernel's routes | announce, Hello/Routes frame, expiry, policy, advertised routes | `ip`, `iptables`; the TUN task reads the table |
| **kaonic-installer plugins** (`plugins.rs`) | per plugin: files in its directory and in `.rollback`, systemd unit, symlink, database row | boot recovery, install, rollback, delete, start/stop/restart | systemd, SQLite, the file system |
| **kaonic-installer OTA** (`installer.rs`) | binary, backup, stored hash, version of `commd`, `gateway`, `factory` | `apply_update`, `validate_on_boot` | systemd, the file system |
| kaonic-installer service (`main.rs`) | systemd status cache | HTTP handlers on blocking threads | the two above |
| kaonic-audio-ptt (`main.rs`, `audio.rs`, `codec.rs`) | transmit session, `transmitting`, peers, configuration | PTT start/stop, browser web socket, announces, received audio | Reticulum, ALSA |
| kaonic-gateway settings and HTTP (`settings/db.rs`, `http/handlers.rs`) | SQLite key/values, peer table | GET/PUT of settings, radio, VPN | VPN runtime, radio |
| kaonic-gateway status (`http/ws.rs`, `state.rs`, `main.rs`) | frame statistics, broadcast of events | web socket, publishers | browser |
| kaonic-gateway Reticulum log (`gateway_reticulum.rs`) | links, peers, recent events | link events, announces | Reticulum |
| kaonic-gateway audio, network, system, HTTPS | soft mute levels, wifi mode file, certificates | amixer, wifi scripts, key generation | the device |
| kaonic-gateway pages | none of its own | Leptos views | the HTTP API |
| kaonic-reticulum (`lib.rs`) | LDPC network per module | transmit, receive loop | radio client |
| kaonic-atak-bridge (`main.rs`) | links | UDP <-> Reticulum, auto-link, re-announce | Reticulum, UDP |

The gateway process starts the VPN runtime with the settings on disk and later
passes on every change of them (`replace_peer_policy`,
`replace_advertised_routes`). The installer is a process of its own; it updates
the gateway, and the gateway can replace the installer's binary. Plugins
(audio-ptt, atak-bridge) are services the installer manages and share nothing
with the gateway but the radio network.

### What is hard about it

* Four kinds of tasks write a peer's link state from information of different
  age: a status read under a lock that is released before it is used, events
  queued in a channel that loses the oldest ones, a guard that is taken before
  an await and released by whoever comes first.
* Route jobs are synchronous, but tokio has several threads: two jobs may build
  a table from different registries and swap in the older one last, or run
  `ip route` commands for different tables at once.
* The installer may lose power between any two file operations; what it later
  finds on disk is all it has to go by.
* Errors of external commands and of copies are often deliberately ignored.

`PROJECT.json` "hazards" has them one by one, with the line and the property.

### What makes each component correct

* links: no guard is left behind; the state shown is that of the link, apart
  from events on their way; a peer that announces itself gets a link; a stuck
  handshake is given up.
* routes: the router has exactly the undisputed live routes of registered
  peers, and looks up the longest; what is on the books is in the kernel;
  expired routes go; every packet is accounted for.
* plugins: an operation is all or nothing; a complete plugin survives crashes
  and other uploads; what was accepted is found again; row and unit agree.
* OTA: at rest the binary is the recorded one, and one that came up; a rollback
  restores what was there; the installer's own upgrade never leaves it torn.
* push to talk: one floor, that one source holds, and `transmitting` says so;
  voice is in order; contacts are online only while they are; the
  configuration survives restarts.
* settings and radio: no request undoes another; what runs is what is stored;
  a packet's frames are sent under one configuration.
* dashboard: frames, links and pages agree, once quiet, with what they show.
* ATAK bridge: no datagram comes back to the LAN it was sent on.

## Modules

### VpnLink (kaonic-vpn: outbound links)

`obj` holds the `Arc<Peer>` records (`LinkState`, `link_request_in_flight`,
what is left of the cooldown), `registry` which of them the `PeerRegistry` maps
a hash to: a task keeps a record after the registry dropped it, and so does the
model. `req` are the spawned `request_out_link` tasks, `wd` the watchdog, `link`
and `events` the transport's table and broadcast channel (external, modelled by
how `runtime.rs` uses them).

One action is the code of one task between two awaits. `request_out_link` is
`ReqStart` (allowlist and lookup), `ReqDecide` (status read; reuse, give up, or
take the guard), `ReqLink` (`transport.link`), `ReqFinish`. The watchdog is
`WdStart` (snapshot of the registry), `WdRead` (the link's status, under locks
that are released after it), `WdSync` (`sync_peer_link_state` with what was read,
decision) and `WdClose` (`link_close` and the reset); the peers of a snapshot
come in any order, as a `HashMap` gives them. `EvActivated`, `EvClosed` are the
event task. `ReplacePeerPolicy` is the PUT of the access policy. `LinkRestarts` is
the transport's own restart of outgoing links, which the gateway turns on
(main.rs:202): a link that went down or stale is pending again with nobody's
request. Reading the table and then the link's status is one step although the
code takes two locks. A cooldown is kept as the seconds left, a pending link's age saturates at the
timeout, so no clock bounds the behaviours.

Left out: `reconnect_attempts`, `link_attempt_ts` (written, never read), the
handle cache `LinkRegistry` (its `get` has no caller), `LinkState::Error` (never
set), the Hello sent on activation.

`missed` and `late` are history: the peers whose Closed event had no effect,
because the full channel lost it or because it was handled between the watchdog's
reading of the link and its writing of the peer's state; and whether the link the
watchdog has read went down since. In either case a dead link is shown as Active
until the next event or, while the transport still has the link, the next round
of the watchdog; of a link that the transport has swept away the watchdog says
nothing, so that one stays Active until there is another. Properties: `NoLeakedGuard`, `ActiveMeansUp`, `Reconnects`,
`StuckLinkRescued`, `ActiveReported`; violated: `WatchdogClosesOnlyStuck`,
`RequestsDoNotOverlap`.

### VpnRoutes (kaonic-vpn: routes)

A job (announce, Hello, expiry, policy, advertised routes) is run by one of
`Workers` and is a sequence of steps, each a read or a write of a shared
structure: `Store` or `Enforce`, `BuildTable`, `SwapTable`, `SyncRead`,
`SyncDelete`, `SyncReplace`, `SyncCommit`. The announce task, the event task and
the watchdog each have one job at a time (`Tasks`), which run beside each other
and beside any number of requests of the web API. `SyncDelete` and `SyncReplace` may
fail (at most `MaxFaults` times): a failed delete goes unnoticed, a failed
replace leaves any part of the routes in the kernel. `RouteTable::build` is
stated as what its loop computes (`Build`): a subnet goes to its only live
claimant, except one that holds our own tunnel address. `Overlaps` is the
conflict relation of `conflicting_local_routes`. `ttl` is the time the deadline
leaves; it is kept as 0 where there are no routes, for then nothing looks at it
(`Deadline`).

`alone` and `settled` are history: some job that swaps the table ran by itself
since jobs last overlapped. The properties promise nothing while jobs overlap,
because the code promises nothing then; they say that any overlap is healed by
the next such job (every announce is one): `RouterCurrent`, `InstalledPresent`,
`ExpiredDropped`; violated: `KernelTracked` and `StaleRoutesExpire`, which is
`ExpiredDropped` without the exception: the watchdog rebuilds only in the round
that clears a peer's routes, so a table from before it, swapped in after it, is
nobody's business any more once the announces have stopped.

Left out: NETMAP rules beyond a command that may fail, tunnel addresses (each
peer has one), the mock backend, which issues no commands.

### PluginInstall (kaonic-installer: plugins)

One plugin. `live` and `saved` say, for the four files that decide whether a
directory is a usable plugin, of which version each is; `unit`, `bin` (the
symlink), `row`, `enabled`, `running` are the rest of the device. `op` is the
request under way; one step is one rename, write or systemctl call.
`initialize_store` is `Recover`, `Discover`, `Reconcile`, and runs at boot and
before every install; `install_plugin` is `Begin` ... `Register`, `Clean`;
`rollback_install` is `Undo` ... `RestartOld`, `Clean`. Writing the unit, and
copying systemd's unit over the stored service file, which was moved into
`.rollback` just before, are two steps each: the file is `Torn` between them, and
stays so if the second fails. Recovery cannot tell: `discover_plugin_record`
compares the binary with its hash and asks of the service file that it is there
(`Usable`). `Interrupt` sends the
installer to its boot from anywhere. `WriteFails` fails a write, at most
`MaxFaults` times.

`sound`, `kept` and `divided` are history: whether the operation found all in
order and was not interrupted; the version that was complete when it began;
whether an interruption has since hit while its files were being moved.
`AllOrNothing` speaks of the first. `NeverLost`: program, manifest and checksum of the version that was kept are in
one of the two directories or, each file in one of them, in both together, with a
service file that may be torn.
`RecoveredAtBoot`: after `initialize_store` it is the live directory that has it,
unless, and only unless, its files are divided: then neither directory passes for
a plugin, and the recovery leaves both ("rollback is unusable", as it logs) until
somebody puts them together or uploads again. Violated: `UnitRestored`.

Left out: renames that fail, systemctl that cannot be spawned; a second request
at the same time and other plugins are in PluginStore.

### OtaUpdate (kaonic-installer: OTA updates)

One core service. A version stands for its binary, its hash and its version
number. A copy or write is two steps: the file is `Torn` in between, and an
`Interrupt` or a `Fault` leaves it so. `Update` ... `RecordVersion` are
`apply_update` from where it touches the device, `Validate` is
`validate_on_boot`, `Restore*` and `Restart` are shared by both, as
`restore_backup` is. `polled` tells whether the service's health is polled (all
but the gateway's). `op.found` is history: the binary the operation found.

`Corrupt` is the comparison of hashes: a binary is taken for good exactly if it is
whole and of the version whose whole hash is on record.

Left out: an interrupted write that happens to leave the old content, and a
chmod that fails.

### VpnRouteTable (kaonic-vpn: the table and its arithmetic)

Addresses have `Width` bits. `VisitPeer` is one round of the outer loop of
`RouteTable::build`, with any peer that is left as the hash map gives it; `Sort`
is the sort by prefix length, `Resolve` the lookup. `DeriveTunnelIp`,
`CidrBounds`, `RoutesOverlap` and `ExportLocalRoute` are the functions of those
names, as arithmetic. `TableIsLookup` says the finished table is a
longest-prefix lookup over the undisputed routes whatever the order, which is
why VpnRoutes may take the build as one expression (`Build`).

### VpnForward (kaonic-vpn: packets and metrics)

`txTask` is `spawn_tun_rx` (`ReadTun`, `SendToLink`, `CreditSent`), `rxTask` the
two tasks that read link data (`ReadLink`, `SendToTun`, `CreditReceived`). Peers,
links and the policy change between any two steps. `PacketsAccounted` is the flow
equation of the node's counters, `PeerCountsBounded` compares them with the sums of
the peers'. A sum (here and in ReticulumLog) is `Tally` of module Tally, which
counts one pair for each unit of each counter: a proof follows one more unit by
the cardinality of a set, where a sum by recursion would need induction. When the TUN device fails the task ends (`TunFails`), as
in the code; the next sync_routes shows the runtime as running all the same.

### PluginStore (kaonic-installer: uploads side by side)

Two plugins and the built-in ones. A directory is of a version, torn or absent:
PluginInstall has the files. Each upload begins with `initialize_store`
(`RecoverOne`, `DiscoverOne`, `SyncCore`, `ReconcileOne`, one plugin at a time),
on a thread of its own. `disturbed` remembers that another upload's recovery has
touched a plugin under its install: `RolledBackAlone` promises the rest;
`RolledBack`, without the exemption, is what the error message says, and fails
(findings).

### PluginPackage (kaonic-installer: what a package becomes)

`Upload` takes an archive through `normalize_uploaded_zip`,
`parse_plugin_package`, the checks on names, paths, channel and signature, and
stores it; `Rediscover` is `discover_plugin_record` on what is on disk. Text is
classified by what the code tells apart; a unit file is a sequence of line
kinds, rewritten a line at a time by `NormalizeLine`, as the loop of
`normalize_service_working_directory` does; `AfterLines` is what the loop has made
of the first n lines. Every unit of up to `MaxLines` lines
is tried. A line `WorkingDirectory = x`, with blanks, is not recognised by the
code and counts as any other line here.

### InstallerService (kaonic-installer: HTTP service)

Requests on one plugin - start, stop, restart, delete, install - one systemctl
call at a time, each of which may fail unseen, beside each other. `Read` and
`Store` are the refresh of the systemd cache by a request or by the loop, first
read, then written. An install that fails after it has moved the old files rolls
back, which removes the unit and leaves the row (`RollsBack`, see `UnitRestored`); a
deletion may stop at the symlink, the unit, the directory or the row
(`DeleteErrs`), an action at its row (`RowErrs`). `last` is history: how the last
request that met no other ended. `RowIsUnit` says what row and unit then are,
whatever overlaps and failures came before: in agreement, or after a failure a
service that neither runs nor will at the next boot, which need not be what the
row says. `unclear` ends - a failing systemctl, a row that cannot be written -
are not promised. `ListSettles` (liveness) is for any overlap, once things are
quiet.

### PttLock, PttSession, PttPage (kaonic-audio-ptt: who talks)

`PttLock` is abstract: a floor that one source holds, and who may take it from
whom. `PttSession` has the handlers step by step: `tx_session` under its mutex,
`transmitting` beside it, the spawned ALSA task, the upgraded sockets, stops and
the shutdown. `ImplementsLock` is the refinement, `holder <- session`. `staleFlag`
and `clearedLate` are history for the two slips the code does make (findings).
`PttPage` is the page's script: `startTalk` and `stopTalk` with their awaits, and
the speaker's socket with its reconnect timer.

### PttPeers, PttConfig, PttAudio (kaonic-audio-ptt: contacts, config, voice)

`PttPeers`: `ensure_out_link` is `EnsureLook`, `EnsureMark`, `EnsureLink`, run by
several handlers beside announces and link events. `PttConfig`: the file, which a
crash may cut short, the copy in memory, requests that copy, write and publish,
and the migration at boot. `PttAudio`: frames packed into packets, packets lost,
decoded by one task at a time under the decoder's lock into a bounded queue. A
lost end of a burst has no effect, as the receiver ignores the flag
(main.rs:1764); `BURST_END` is not even sent when the last packet was full.

### GatewaySettings (kaonic-gateway: settings)

`db` are the rows, written statement by statement (`SaveRoutes`, `ClearPeers`,
`InsertPeer`, ...) under the settings lock; `ApplyPolicy` and `ApplyRoutes` come
after it. A statement may fail, and the gateway may be killed and started at any
point. `wanted` is history: what the saved requests asked for.

### RadioInterface (kaonic-reticulum and put_radio)

The one RadioClient behind its lock: packets as several frames, put_radio's three
commands, test frames and pings. `rows` are the three stored fields:
`save_module_config` may fail after any of them (`PutRefused`), `put_settings`
stores them and applies nothing (`PutSettings`), a handler may be dropped where it
awaits (`PutDropped`), and a start applies what is stored (`Restart`). History:
`mixed`, a command came between two frames of a packet; `halfway`, the last
application was cut short; `last`, the put or start that none of these followed.
The receive loop stops for good when its broadcast lags
(`rxLoop`, findings).

### FrameFeed, ReticulumLog (kaonic-gateway: what the dashboard is fed with)

`FrameFeed`: the listener counts a frame, pushes it into the ring and publishes;
a socket subscribes, takes its snapshots and forwards. A lagging socket loses the
oldest events; `missed` remembers when the newest frames were among them.
`ReticulumLog`: one task per direction takes an event, asks the transport for the
link and then updates its entry. `opening` are outgoing links that were asked for
and are not up: they are in the transport's table, where an event of the peer's
former link finds them.

### AudioControl, VpnPage, PluginPage (kaonic-gateway: pages with state)

`AudioControl`: one mixer control with its soft mute under the Media pages of
several browsers, with debounced writes and answers, and `alsactl store` at a
reboot. `switch` is the separate switch, if there is one, or the volume's own, which
is read and never written; `Device` is what the hardware makes of a volume, and may
round a small one to zero. `VpnPage`: live updates that rewrite rows under a user,
pings, two dialogs that share one mark, the editor's timers (`closing`), and saves
of the allowlist, a failing one of which may leave part of the list. `PluginPage`: loads of the list
that overtake each other, the confirm and upload dialogs, and the timer that
closes one.

### InstallerUpgrade (kaonic-gateway: the installer's binary)

`file` are inodes, so that a rename under an open writer is what it is on Linux.
One step is one call of `replace_installer_binary`; calls fail, the gateway is
killed, and uploads run beside each other. The uploads in `Broken` do not run,
which nothing looks at: systemctl's start succeeds.

### AtakBridge

Two sites with a bridge per port. `MulticastLoop` is the socket option; the
transport hands the data of every outgoing link to the bridges of both ports,
as the code reads it.

### MCTraffic, MCDevice, MCServices

Components that share no state are checked in one run: `which`, chosen in the
initial state, says whose behaviour it is, and the other components stay in one
of their initial states. That is the union of the components' state spaces, not
their product, so each is checked as if alone. Invariants hold of resting
components trivially; type invariants, and what is slow to evaluate, are asked
for of the running one only. MCServices has the Plugins page twice: with
loads that overtake each other and fail, and with two uploads beside each other
(`AtATime`).

## Runs

All bounds are constants of the configurations.

| run | module | instance | shows |
|---|---|---|---|
| VpnLinkSafety | MCVpnLink | 1 peer, 2 records, 2 tasks, channel of 1, cooldown and timeout 1 | `NoLeakedGuard`, `ActiveMeansUp` |
| VpnLinkLiveness | MCVpnLink | 1 peer, 2 records, 1 task, channel of 1, cooldown and timeout 1 | `Reconnects`, `StuckLinkRescued`, `ActiveReported` |
| VpnRoutes | MCVpnRoutes | 2 peers, 1 subnet, 2 workers, 1 fault | `RouterCurrent`, `InstalledPresent` |
| VpnRoutesExpiry | MCVpnRoutes | 1 peer, 1 subnet, 2 workers, no fault | `ExpiredDropped` |
| PluginInstall | MCPluginInstall | 2 versions, one with a symlink, 1 fault | `AllOrNothing`, `NeverLost`, `RecoveredAtBoot` |
| OtaUpdate | MCOtaUpdate | 3 versions, one broken, 1 fault | `InstalledIsRecorded`, `InstalledIsHealthy`, `RollbackRestores` |
| Traffic | MCTraffic | addresses of 3 bits, 4 routes, 2 peers; 2 packets; 2 sites, 2 ports, 2 datagrams; 2 talkers, 4 frames; 2 frames a packet, 2 PUTs; ring and channel of 2, 3 frames; 2 links | `PacketsAttributed` (a packet belongs to the peer the longest route names, `TableCorrect`, and is credited to no more than one, `PeerCountsBounded`), `PacketsAccounted`, `NoEcho`, `VoiceInOrder`, `RadioConsistent`, `FeedCatchesUp`, `LinksShown`, `DataCounted` |
| Device | MCDevice | 2 clients, 1 good and 1 bad hash, 1 fault; volumes 0..2, 2 pages; 2 saves, 2 timers; 3 upgrades, one of which does not run, 2 errors; units of 5 lines; 2 plugins, 2 versions, 1 symlink | `SettingsKept`, `ShownAsAsked`, `VpnPageAgrees`, `UpgradeSafe`, `PackageKept`, `RolledBackAlone` |
| Services | MCServices | 2 ALSA starts, 2 browsers, 1 stop; 2 PUTs; 2 requests, 1 fault; channel of 2; 2 loads of the Plugins page, one of which fails, or 2 uploads | `ImplementsLock`, `FlagTruthful`, `ConfigKept`, `RowIsUnit`, `OnlineIsUp`, `UploadsInOrder`; liveness `PttGoesOn` (`StopReturns`, `SpeakerReturns`, `ClosedIsRetried`), `ListsCatchUp` (`ListSettles`, `ListCatchesUp`) |
| PttHotMic, PluginUnit, OtaBackup | | as above | a counterexample each, see below |

The three composed runs also check the type invariants of all their components
(`TypesOK`). `TypeOK` of VpnLink, VpnRoutes, OtaUpdate and PluginInstall is not repeated in
their runs, as it is proved. No subnet of VpnRoutes' runs holds our own tunnel
address: that nobody is given such a one is part of its `TypeOK`, and Traffic
checks it of the loop that builds the table (`ConflictsRight` in the proofs).

Why these are enough to be interesting. Peers share no link state but the event
channel and the watchdog's round, so one peer with two records (the one in the
registry and the one a task kept) and two tasks has the races. A channel of one
event loses events all the time; with a longer one an Activated and a Closed event
wait side by side, which the proofs cover, as they do any number of each. Two workers give
every pairwise overlap of route jobs, two peers every dispute, and the jobs
repeat without bound. Interruptions of the installer are not bounded at all;
two plugin versions give upgrade, downgrade, re-install and a change of
symlink; a third OTA version is the one that does not start. Requests, pages and
sockets come in twos, as every race in these handlers is one of two; the third
upgrade finds what two have left. The expiry of routes needs one subnet of one
peer, and two workers for a table that comes late. Three bits of address hold a network that must
be at least two bits wide and routes that contain it, lie in it and lie beside
it. Five lines are two sections and a line more. Counters that only grow
(packets, datagrams, frames, data) are bounded, and their bounds exceed the
capacities they fill: four frames make two packets for a queue of two, three
frames overflow a ring and a channel of two.

Symmetry is used in safety runs only (records, tasks; peers, workers; clients,
plugins). Deadlock is checked where the system has a clock or a loop; the
composed runs and `PttHotMic` end when a bounded counter is used up or a
shutdown is through.

A property with several parts has a mutant for each in its modules; the listed
one is the first, and the others were checked in the same way.

### Fairness

`FairSpec` of VpnLink assumes weak fairness of time, of the event task, of the
watchdog and of each request task: tokio runs every task that is ready, and the
watchdog's interval keeps firing. Nothing is assumed of remote gateways or the
operator; what depends on them is in the properties' hypotheses (`Reconnects`
asks for announces that are accepted again and again). VpnRoutes adds that a job that
began is run to its end and (strong fairness) that the watchdog gets a worker
although other jobs keep coming, which is tokio's fair scheduling of a timer.

MCServices: weak fairness of the spawned tasks and awaited steps of a transmit
session (not of users, who start and stop as they like); of the speaker's timer
and socket events on the page; of the handlers of `ensure_out_link`, the event task,
and the peer's announces, which it repeats every ten seconds; of the installer's
blocking threads and its refresh loop; of the Plugins page's timer and of the
answers to its requests. `ListSettles` and `ListCatchesUp` have as hypothesis
that nothing is changed any more.

### What was found

With a run that shows it:

* `PttHotMic`: the talk button is released while its start is still waiting for
  the microphone; the start goes on and the browser sends with the button up.
* `PluginUnit`: `rollback_install` moves the saved unit away before it looks
  for it, and then deletes the unit in systemd's directory.
* `OtaBackup`: an interrupted write of the hash followed by an interrupted
  backup makes the next boot overwrite a good binary with a torn backup.

Stated in a module and refuted by TLC with the constants of the run in brackets
(put the definition into a copy of its configuration): `WatchdogClosesOnlyStuck`
and `RequestsDoNotOverlap` (VpnLinkSafety): the watchdog closes by hash whatever
link is there by then, and a late event clears the guard of a newer request;
`KernelTracked` (VpnRoutes): routes added before a command failed stay in the
kernel and on no list; `StaleRoutesExpire` (VpnRoutesExpiry): a table built before
a peer's routes expired is swapped in after the watchdog's, and no later round
takes the routes out; `RolledBack` (Device): one upload's recovery removes the
rollback of another.

Marked by a history variable, which the property that would otherwise fail
exempts: the `transmitting` flag cleared under a newer session (`clearedLate`)
or left set without one (`staleFlag`); a peer list stored before it was refused
(`refused`) and a save that a kill cut short (`torn`); the receive loop that
ends when its broadcast lags (`rxLoop`); upgrades that share a temporary file
(`overlapped`), or of which one does not run (`Broken`); radio rows that are
stored half-way or never applied (`last` of RadioInterface); a Closed event handled
under the watchdog's nose (`late`); files divided by an interruption of the moves
(`divided`); a timer that closes another upload's dialog (`cut`); overlapping
saves of the allowlist (`soleSave`). `PROJECT.json` "findings" has most of these and the
ATAK bridge's, the event log's, the contacts', the torn unit file's and the torn
config.toml, with lines.

Smaller things met while reading, with no entry of their own:

* the module comment of `runtime.rs` says the watchdog "re-requests dead outbound
  links", while it only closes them and waits for an announce;
  `Peer.link_attempt_ts` is said to be used by the watchdog and is never read; a
  Hello on an incoming link is dropped as unattributed;
* two peers whose hashes fold to one tunnel address: the one `build` visits last
  gets the packets;
* the list of audio cards ignores soft mutes (audio.rs:540-566) that the single
  control shows; soft-mute levels do not survive a restart, and a control the
  hardware rounds to zero shows as muted; a failed PUT leaves the Media page
  with what was not done;
* the playback task is not started again once it has failed;
* between `stop` and `start` of its upgrade, a killed gateway leaves the installer
  stopped; a start that systemctl reports as successful is not looked at again;
* the exit status of the installer's systemctl calls is never looked at.

## Proofs

Eight modules hold the proofs, each EXTENDing the modules it is about. What they
prove holds for every value of the constants that satisfies the named ASSUMEs of
those modules, which TLC evaluates in the runs. The assumptions say what the
code gives: capacities, widths and timeouts are not zero, bounds are numbers, values
that stand for
"nothing" (`NoPeer`, `None`, `Nobody`, `NoLink`, ...) are not values of the kind,
a faulty version is a version, the speaker and the microphone are not browsers.
Sets of peers, records, tasks, clients, packets, versions are arbitrary, except
where the code counts or sums: the peers of VpnRoutes and VpnRouteTable (a subnet
is routed if exactly one peer claims it; the list of routes is a sequence), the
nodes of VpnForward and the links of ReticulumLog (their counters are summed) are
finite, as a hash map's keys are.

Each proof has the same layout: the type invariant, one step per action; the
inductive invariant, one step per action and under it one per conjunct that the
action disturbs; the theorem by PTL.

The composed runs are covered too. `TrafficParts`, `DeviceParts` and
`ServicesParts` prove that a step of a product is a step of each component or
leaves it alone, so a behaviour of the product is one of each component; what
was proved of a component then holds in the product (`TrafficTypes`,
`DeviceTypes`, `ServicesTypes` are `TypesOK` of the three runs,
`PacketsFindTheirPeer` is `PacketsAttributed`). The fairness of `ServicesSpec` is
not used.

Why the property alone does not do, and what the invariant adds:

`CountingProofs` (lemmas only)

* `LeastNumber`: a set of natural numbers that is not empty has a least element.
  It rests on the well-foundedness of strict inclusion between finite sets, a
  theorem of the library without an operator parameter, and it gives
  `AllNumbers`, induction over a set: the way around the library's induction
  theorems, which the provers cannot instantiate. Any statement that can be
  written as `n \in T` for a set T is proved with it, such as what a recursive
  function on numbers computes.
* `PowerType`, `PowerSum`, `PowerGrows` (2^n by counting the subsets of 1..n),
  `SameQuotient`, and `TallyOneMore`, `TallyNoMore`, `TallyZero`: a counter more by
  one makes the sum more by one.

`VpnLinkProofs`

* `TypeCorrect`: `Spec => []TypeOK`.
* `GuardNeverLeaks`: `NoLeakedGuard` is inductive together with `TypeOK`: only
  `ReqDecide` sets a guard, and puts its task between `try_begin` and `finish`;
  only `ReqFinish` takes the task out, and clears the guard. What needs care is
  the recycling of records (`Freed`): a record a task holds is live and so is
  not reused.
* `ActiveIsTrue`: `ActiveInv` adds to `ActiveMeansUp`
  `OneOwner` (two hashes never share a record, and an entry of the watchdog's
  older snapshot never names a record that is another peer's by now),
  `FreeNotActive` (a recycled record does not start out Active) and
  `ActivatedThenUp` (an Activated event still queued is about a link that is up,
  or is followed by that link's Closed event: without it, applying a stale event
  could show a dead link as Active). An event only leaves the channel by being
  applied to the registered record or by being overwritten, which `missed`
  remembers; `TailOrder` and its companions are the facts about the queue.
  `ReadUp`: what the watchdog has read as Active and not yet written is up, or its
  link went down since (`late`), so that writing it is true or is remembered.

`VpnRoutesProofs`

* `RoutesTypeCorrect`, `RouterIsCurrent`, `InstalledIsPresent`. `RoutesInv` has
  `Undisturbed` (while `settled` one job at most is under way, and one that is
  to rebuild the router has run alone), `RouterInv` (what such a job has built
  is what the announces say, in its place and before it is there) and
  `KernelInv` (what a job is about to put on the books is in the kernel).
  `BuildIsRight` is the lemma about `RouteTable::build`, `FitsLater` says that
  deadlines that pass do not make a right table wrong.

`PluginInstallProofs`

* `PluginTypeCorrect`, `OperationsAreWhole`, `PluginIsNeverLost`,
  `PluginIsRecovered`. `PluginInv` has one formula per step for each promise:
  `KeptSafe` says where a complete version is (while files are moved, the two
  directories together are one; `Split` says which file is where; once
  `divided`, `Scattered` says that neither is usable, which is why nothing touches
  either until the next upload or deletion), `SoundStep` what an operation that was not interrupted has done and what
  it can undo. `RecoveredAtBoot` is the part of `KeptSafe` at the end of
  `initialize_store`.

`OtaUpdateProofs`

* `OtaTypeCorrect`, `BinaryIsRecorded`, `BinaryIsHealthy`, `RollbackIsExact`.
  `OtaInv` says, as long as no copy or write failed for good: the recorded
  version is the binary, or it is in the backup and the installer is at a step
  from which it restores it or replaces the record; the package is in place from
  the end of its copy to its recording; the binary the operation found is in the
  binary or in the backup until it is given up; and a recorded version of a
  polled service has run.

`ServicesProofs`

* `SessionTypeCorrect`, `FlagIsTruthful`: `FlagTruthful` is inductive with
  `TypeOK`.
* `SessionImplementsLock`: PttSession implements PttLock. Each step of a handler
  is a step of the floor under the mapping of the module, or leaves it.
* `ConfigIsKept` (PttConfig): one PUT at a time is in the file and then in
  memory; the step between the two is what the invariant is about.
* `RowStaysUnit` (InstallerService). `DoneSoFar`: what row and unit are at each
  step of a request that met no other, whether it then ends well or fails, for
  `RowIsUnit` speaks of the end only;
  `ReadersWait`: only a request that is at its refresh reads for one.
* `OnlineIsTrue` (PttPeers, `OnlineIsUp`). `ActivatedThenClosed`: unless the link
  is up, a Closed event follows every Activated one in the channel; what drops
  out of a full channel is the oldest event, so the last Closed one stays.
* `UploadsStayInOrder` (PluginPage, `UploadsInOrder`). `ForItsTarget`: the file in
  the dialog was picked for the plugin the dialog is for; `DialogWaits` and
  `UploadWaits`: the page knows of the one upload that has no answer yet, unless
  the timer closed its dialog (`cut`).
* `ServicesTypes`: the types of all of these, and of PttPage.

`DeviceProofs`

* `SettingsAreKept`. `LockHeld` (the settings lock belongs to the request that
  is at its rows), `RowsSoFar` (which rows it has written), `SavesWanted` (what
  it saves is what was asked for last), `AppliesStored` (what a request that met
  no other has still to apply is what it stored).
* `UpgradeIsSafe`. While no two upgrades overlap: `OneUpgrade`, `TempSoFar` (what
  the temporary file holds at each step, which is what the rename puts in place),
  `RunsUnlessStopped`.
* `VolumeIsShown`. `WriteInv`: the last write, if it met no other, has the device
  to itself, and what it has set so far (`LevelSet`, the volume) is as it left it.
* `VpnPageIsRight` (`VpnPageAgrees`). The page is marked as soon as a dialog is
  open, which is what keeps live updates from a text (`DraftStep`, an action
  property); `SaveIsAsked`: the one save that meets no other carries the list that
  was asked for last.
* `FailedUpdateIsUndone` (PluginStore, `RolledBackAlone`). `KeptSomewhere`: the
  version an undisturbed update began with is live up to the move, in `.rollback`
  after it, and live with nothing in `.rollback` once it was rolled back, so that
  no later recovery brings back another.
* `PackageIsKept` (PluginPackage, `PackageKept`), for units and file lists of any
  length. `LineInv` is the invariant of the loop over the lines: what is written
  so far is in the section the next line stands in, has the installer's
  WorkingDirectory and no other if one was due (`DirsRight`), and every other line
  read so far in order and in its section (`SameLines`, with the place of each line
  as witness). `OursIsAdded`, `LineIsKept` and `DirIsLeftOut` are the three things
  the loop does with a line; `AfterLinesFacts` says that `AfterLines` is that loop
  and `NormalizedIsRight` concludes, both by `AllNumbers`. `PackageInv` adds that
  what is found is the stored record, which needs that no custom file may be
  called as the binary (`BinaryIsKept`).
* `DeviceTypes`.

`TrafficProofs`

* `BridgesDoNotEcho`. An inbox has datagrams of the other site only
  (`FromOtherSite`), each once (`EachOnce`), none of which was emitted here yet.
* `RadioIsConsistent`. `LockHeld` (the radio is whose lock it is, from the first
  segment of a packet to the last), `FieldsInOrder`, `AppliedSoFar` (the request
  that holds the radio has its fields in the hardware as far as it has got, and
  nobody's half is left behind unless `halfway` says so) and `LastApplies` (the
  put or start that nothing followed is what is stored).
* `NoPacketIsLost` (`PacketsAccounted`): the counters and the packets still in
  hand add up to the packets read.
* `PeersAreCredited` (`PeerCountsBounded`). `CreditInv`: the node's counters exceed
  the sums of the peers' by what has been counted for the node and is still to be
  credited, one packet of the TUN task and one frame of each link task (`Due`).
  Peers that are removed take their counters with them, which only lowers the
  sums.
* `TableIsRight` (`TableIsLookup`, `AddressingExact`). `TableInv` says of the peers
  that were visited so far what the table has: their tunnel addresses
  (`TunnelRight`), each of their routes under one of them (`ClaimsRight`), every
  route that two of them claim or that holds the node's own tunnel address among
  the conflicts (`ConflictsRight`), in any order of visits; `ListRight`: the list
  is those claims without the conflicts, longest prefix first. The first hit
  in it is then a longest one (`FirstHit`). `OverlapIsExact` is the arithmetic:
  two blocks overlap exactly if they share an address.
* `PacketsFindTheirPeer` (`PacketsAttributed`): both, in the product.
* `VoiceStaysInOrder`. `Ordered`: what was played, what is queued, what the
  receiver's task has in hand and what is in the air follow each other, so that
  a step that moves frames from one to the next keeps the order; the air itself
  is in order (`AirRises`), and no frame has a number the sender has not given.
* `FeedIsCaughtUp`. `Told`: for each socket, the frames published last are in its
  backlog with nothing about frames behind them (`OnItsWay`), or none are and what
  it read itself is current (`Read`). The snapshot is read after subscribing, so
  an event in between is seen twice and never missed.
* `LinksAreShown`. `Followed`: of each link, the last event still to be recorded
  (in hand or in the channel) says what became of it, or there is none and the
  table does; and no event speaks of a link that never came up (`NeverHeard`).
* `PacketsAreCounted` (`DataCounted`). `Counts`: as long as the channel dropped
  nothing, the packets of the table's entries, the data events in the channel and
  the one in hand add up to the data that arrived. It rests on `LogInv` of
  `LinksAreShown`, by which an event in hand finds a link to count it with.
* `TrafficTypes`.

Only model-checked:

* all liveness, `ExpiredDropped` of VpnRoutes and `ClosedIsRetried`,
  `ListSettles`, `ListCatchesUp`, `StopReturns`, `SpeakerReturns`, `Reconnects`,
  `StuckLinkRescued`, `ActiveReported`: fairness and ENABLED are out of the
  prover's reach here.

Every other property of a passing run is stated by a theorem: thirty-three of the
thirty-nine.

## Plan

Done: all modules above, and proofs of every safety and action property that
the passing runs check. What could follow:

1. VpnRoutes takes the build of the table as one expression (`Build`) and
   VpnRouteTable has it step by step; lemma `KeptIsRoutable` says that the steps
   leave exactly the pairs of that expression, but as the tunnel address is a
   constant there and a variable here it is not stated as a refinement.
2. The stateless pages, if they come to hold state of their own.

## Not modelled

* The CBOR frame codec and the set-up of the TUN device (kaonic-vpn), the numerics
  of Opus and Codec2, the probing of ALSA devices, LDPC: no state, or the
  hardware's.
* Wi-Fi mode (network.rs) and system metrics: calls of scripts and reads of
  /proc, each by itself.
* Local HTTPS: certificates made once from a fixed seed.
* Pages without state of their own (dashboard, network, radio, reticulum,
  update), the navigation bar, and the sample plugin.
* Reticulum itself and the radio firmware, which are not part of the repository;
  what the code sees of them is external in the modules.

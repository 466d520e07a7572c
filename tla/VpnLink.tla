------------------------------ MODULE VpnLink ------------------------------
(***************************************************************************)
(* The life of the outbound Reticulum links of kaonic-vpn (runtime.rs,     *)
(* peer.rs, links.rs): what the announce task, the request_out_link tasks  *)
(* it spawns, the link-event task, the watchdog and the access policy do   *)
(* to a peer's LinkState, its in-flight guard and its cooldown.            *)
(*                                                                         *)
(* One action is the code between two awaits of one task.  The Arc<Peer>   *)
(* records are the members of Objs: a task keeps the record it looked up   *)
(* even after the registry dropped it.  Reticulum's transport is external: *)
(* its table of out links, and a broadcast channel of Capacity link events *)
(* that overwrites its oldest entry when full (RecvError::Lagged).         *)
(*                                                                         *)
(* Time is kept as what is left of a cooldown and the age of a pending     *)
(* link, saturating at PendingTimeout, so no clock bounds a behaviour.     *)
(* LinkStatus::Pending stands for Pending | Handshake: every match in the  *)
(* code takes the two together.  Three things nothing reads back are left  *)
(* out: reconnect_attempts (only reported), link_attempt_ts, and the       *)
(* handle cache LinkRegistry, whose `get` has no caller.  A peer's routes  *)
(* are VpnRoutes' business.                                                *)
(***************************************************************************)
EXTENDS Naturals, Sequences

CONSTANTS
    Peers,            \* destination hashes of remote gateways, never our own
    Objs,             \* heap cells for Arc<Peer>; bounds the live records
    Reqs,             \* concurrently running request_out_link tasks
    NoPeer, NoObj,    \* "no hash", "no record"
    Cooldown,         \* LINK_RECONNECT_COOLDOWN_SECS
    PendingTimeout,   \* LINK_PENDING_TIMEOUT_SECS
    Capacity          \* capacity of the out_link_events channel

ASSUME NoPeerAssumption == NoPeer \notin Peers
ASSUME NoObjAssumption == NoObj \notin Objs
ASSUME TimingAssumption == Cooldown \in Nat /\ PendingTimeout \in Nat \ {0}
ASSUME CapacityAssumption == Capacity \in Nat \ {0}

VARIABLES
    registry,         \* PeerRegistry: hash -> record
    obj,              \* the fields of each Peer record
    allowAll,         \* SlowState.allow_all_peers
    allowed,          \* SlowState.allowed_peers
    link,             \* the transport's out-link table
    events,           \* link events broadcast and not yet received
    req,              \* the request_out_link tasks
    wd,               \* the watchdog
    missed,           \* history: peers whose Closed event was overwritten, or
                      \* undone by a status the watchdog had read before, and
                      \* whose state was not set from the link since
    late              \* history: the link the watchdog read went down since

vars == <<registry, obj, allowAll, allowed, link, events, req, wd, missed, late>>

LinkState == {"Configured", "Discovered", "Pending", "Active", "Closed"}
LinkStatus == {"Absent", "Pending", "Active", "Stale", "Closed"}
PeerRecord == [state : LinkState, inflight : BOOLEAN, cool : 0..Cooldown]
NewPeer(s) == [state |-> s, inflight |-> FALSE, cool |-> 0]
IdleReq == [pc |-> "idle", peer |-> NoPeer, obj |-> NoObj]
IdleWd == [pc |-> "idle", todo |-> {}, peer |-> NoPeer, obj |-> NoObj,
           seen |-> "Absent", stuck |-> FALSE]

\* again: pending because the transport restarted a link that was up.
LinkRecord ==
    {l \in [status : LinkStatus, age : 0..PendingTimeout, again : BOOLEAN] :
        l.again => l.status = "Pending"}
ReqRecord ==
    {IdleReq} \cup
    [pc : {"start"}, peer : Peers, obj : {NoObj}] \cup
    [pc : {"find", "link", "finish"}, peer : Peers, obj : Objs \cup {NoObj}]
WdRecord ==
    {IdleWd} \cup
    [pc : {"scan"}, todo : SUBSET (Peers \X Objs), peer : {NoPeer}, obj : {NoObj},
     seen : {"Absent"}, stuck : {FALSE}] \cup
    [pc : {"sync", "close"}, todo : SUBSET (Peers \X Objs), peer : Peers, obj : Objs,
     seen : LinkStatus \ {"Absent"}, stuck : BOOLEAN]
Event == [peer : Peers, kind : {"Activated", "Closed"}]

Registered == {p \in Peers : registry[p] # NoObj}
PeerAllowed(p) == allowAll \/ p \in allowed

\* The records some owner still holds an Arc to; the others are free.
Live ==
        {registry[p] : p \in Peers} \cup {req[r].obj : r \in Reqs}
        \cup {wd.obj} \cup {w[2] : w \in wd.todo}

\* A record no one holds any more is freed: its cell goes back to what
\* Peer::new makes of it.  (To be used once registry', req' and wd' are given.)
Freed(f) == [o \in Objs |-> IF o \in Live' THEN f[o] ELSE NewPeer("Configured")]

\* The link came up, and nothing has closed it since.
Up(p) == link[p].status \in {"Active", "Stale"} \/ link[p].again

Init ==
    /\ allowAll \in BOOLEAN
    /\ allowed \in SUBSET Peers
    /\ registry \in [Peers -> Objs \cup {NoObj}]
    /\ Registered = allowed
    /\ \A p, q \in allowed : registry[p] = registry[q] => p = q
    /\ obj = [o \in Objs |-> NewPeer("Configured")]
    /\ link = [p \in Peers |-> [status |-> "Absent", age |-> 0, again |-> FALSE]]
    /\ events = <<>>
    /\ req = [r \in Reqs |-> IdleReq]
    /\ wd = IdleWd
    /\ missed = {} /\ late = FALSE

-----------------------------------------------------------------------------
(* The transport (external).                                               *)

\* The broadcast channel: a full one loses its oldest event, and the       *)
\* receiver goes on with what is left.
Emit(e) ==
    IF Len(events) < Capacity
    THEN /\ events' = Append(events, e)
         /\ UNCHANGED missed
    ELSE /\ events' = Append(Tail(events), e)
         /\ missed' = IF Head(events).kind = "Closed"
                       THEN missed \cup {Head(events).peer} ELSE missed

SetLink(p, s) ==
    link' = [link EXCEPT ![p] = [status |-> s, age |-> 0, again |-> FALSE]]

\* The proof of a pending request arrives.
LinkActivates(p) ==
    /\ link[p].status = "Pending"
    /\ SetLink(p, "Active")
    /\ Emit([peer |-> p, kind |-> "Activated"])
    /\ UNCHANGED <<registry, obj, allowAll, allowed, req, wd, late>>

\* The remote end, or the transport's own keep-alive, closes the link.
LinkCloses(p) ==
    /\ link[p].status \in {"Active", "Stale"}
    /\ SetLink(p, "Closed")
    /\ Emit([peer |-> p, kind |-> "Closed"])
    /\ late' = (late \/ (wd.pc = "sync" /\ wd.peer = p))
    /\ UNCHANGED <<registry, obj, allowAll, allowed, req, wd>>

\* A link goes quiet, is heard again, or is swept once closed: no event.
LinkDrifts(p) ==
    /\ \/ link[p].status = "Active" /\ SetLink(p, "Stale")
       \/ link[p].status = "Stale"  /\ SetLink(p, "Active")
       \/ link[p].status = "Closed" /\ SetLink(p, "Absent")
    /\ UNCHANGED <<registry, obj, allowAll, allowed, events, req, wd, missed, late>>

\* set_restart_outlinks: the transport requests a link gone quiet anew, in
\* place and with no event.  Nothing here says from when its age then counts.
LinkRestarts(p) ==
    /\ link[p].status \in {"Active", "Stale"}
    /\ \E a \in 0..PendingTimeout :
         link' = [link EXCEPT ![p] = [status |-> "Pending", age |-> a, again |-> TRUE]]
    /\ UNCHANGED <<registry, obj, allowAll, allowed, events, req, wd, missed, late>>

\* One second passes.
Tick ==
    /\ obj' = [o \in Objs |-> [obj[o] EXCEPT !.cool = IF @ > 0 THEN @ - 1 ELSE 0]]
    /\ link' = [p \in Peers |->
                  IF link[p].status = "Pending" /\ link[p].age < PendingTimeout
                  THEN [link[p] EXCEPT !.age = @ + 1] ELSE link[p]]
    /\ UNCHANGED <<registry, allowAll, allowed, events, req, wd, missed, late>>

-----------------------------------------------------------------------------
(* Announces and the requests they spawn.                                  *)

\* handle_peer_announce finds or creates the record of an allowed peer,
\* and the announce task spawns a request_out_link for it.
Announce(p, r) ==
    /\ PeerAllowed(p)
    /\ req[r].pc = "idle"
    /\ \/ /\ p \in Registered
          /\ UNCHANGED <<registry, obj>>
       \/ /\ p \notin Registered
          /\ \E o \in Objs \ Live :
               /\ registry' = [registry EXCEPT ![p] = o]
               /\ obj' = [obj EXCEPT ![o] = NewPeer("Discovered")]
    /\ req' = [req EXCEPT ![r] = [pc |-> "start", peer |-> p, obj |-> NoObj]]
    /\ UNCHANGED <<allowAll, allowed, link, events, wd, missed, late>>

\* The task starts: the peer may have been disallowed, or removed, since.
ReqStart(r) ==
    LET p == req[r].peer IN
    /\ req[r].pc = "start"
    /\ IF PeerAllowed(p)
       THEN /\ req' = [req EXCEPT ![r].pc = "find", ![r].obj = registry[p]]
       ELSE /\ req' = [req EXCEPT ![r] = IdleReq]
    /\ UNCHANGED <<registry, obj, allowAll, allowed, link, events, wd, missed, late>>

\* (mutant) A link that was closed is taken for one to reuse.
ReusableWhenClosed(s) == s # "Absent"

\* should_reuse_existing_out_link
Reusable(s) == s \in {"Pending", "Active", "Stale"}
\* try_begin_link_request, link_request_on_cooldown
TryBegin(o) == ~obj[o].inflight
OnCooldown(o) == obj[o].cool > 0

\* The guard taken; nothing for a task without a record.
BeginLinkRequest(o) ==
    [x \in Objs |-> IF x = o THEN [obj[x] EXCEPT !.inflight = TRUE, !.state = "Pending"]
                             ELSE obj[x]]

\* find_out_link and the link's status, read at once: reuse the link, give
\* up, or take the in-flight guard and go on to transport.link.
ReqDecide(r) ==
    LET p == req[r].peer
        o == req[r].obj
    IN
    /\ req[r].pc = "find"
    /\ UNCHANGED <<registry, wd>>
    /\ \/ /\ Reusable(link[p].status) \/ (o # NoObj /\ (OnCooldown(o) \/ ~TryBegin(o)))
          /\ req' = [req EXCEPT ![r] = IdleReq]
          /\ obj' = Freed(obj)
       \/ /\ ~Reusable(link[p].status)
          /\ o # NoObj => ~OnCooldown(o) /\ TryBegin(o)
          /\ req' = [req EXCEPT ![r].pc = "link"]
          /\ obj' = BeginLinkRequest(o)
    /\ UNCHANGED <<allowAll, allowed, link, events, missed, late>>

\* transport.link(desc): a new pending link, unless one is alive already.
ReqLink(r) ==
    LET p == req[r].peer IN
    /\ req[r].pc = "link"
    /\ IF Reusable(link[p].status) THEN UNCHANGED link ELSE SetLink(p, "Pending")
    /\ req' = [req EXCEPT ![r].pc = "finish"]
    /\ UNCHANGED <<registry, obj, allowAll, allowed, events, wd, missed, late>>

\* (mutant) The guard is left set.
FinishForgotten(o) == obj

FinishLinkRequest(o) ==
    [x \in Objs |-> IF x = o THEN [obj[x] EXCEPT !.inflight = FALSE] ELSE obj[x]]

\* link() has returned: drop the guard.
ReqFinish(r) ==
    /\ req[r].pc = "finish"
    /\ req' = [req EXCEPT ![r] = IdleReq]
    /\ UNCHANGED <<registry, wd>>
    /\ obj' = Freed(FinishLinkRequest(req[r].obj))
    /\ UNCHANGED <<allowAll, allowed, link, events, missed, late>>

-----------------------------------------------------------------------------
(* The out-link event task.                                                *)

\* What an Activated event, and a status read as Active, do to a record.
Activated(o) == [obj EXCEPT ![o] = [state |-> "Active", inflight |-> FALSE, cool |-> 0]]

\* (mutant) The state is left as it was.
ClosedDownQuiet(o) == [obj EXCEPT ![o].inflight = FALSE, ![o].cool = Cooldown]

\* What a Closed event, and a reset by the watchdog, do to a record.
ClosedDown(o) == [obj EXCEPT ![o] = [state |-> "Closed", inflight |-> FALSE,
                                     cool |-> Cooldown]]

\* (It also sends the peer a Hello, which changes nothing here.)
EvActivated ==
    /\ events # <<>> /\ Head(events).kind = "Activated"
    /\ LET p == Head(events).peer IN
       /\ obj' = IF p \in Registered THEN Activated(registry[p]) ELSE obj
       /\ missed' = missed \ {p}
    /\ events' = Tail(events)
    /\ UNCHANGED <<registry, allowAll, allowed, link, req, wd, late>>

EvClosed ==
    /\ events # <<>> /\ Head(events).kind = "Closed"
    /\ LET p == Head(events).peer IN
       /\ obj' = IF p \in Registered THEN ClosedDown(registry[p]) ELSE obj
       /\ missed' = missed \ {p}
    /\ events' = Tail(events)
    /\ UNCHANGED <<registry, allowAll, allowed, link, req, wd, late>>

-----------------------------------------------------------------------------
(* The watchdog.                                                           *)

\* A new round over a snapshot of the registry.
WdStart ==
    /\ wd.pc = "idle" /\ Registered # {}
    /\ wd' = [IdleWd EXCEPT !.pc = "scan", !.todo = {<<p, registry[p]>> : p \in Registered}]
    /\ UNCHANGED <<registry, obj, allowAll, allowed, link, events, req, missed, late>>

\* (mutant) An active link only ends the attempt, and leaves it to the event
\* to show the peer as Active.
SyncLeavesActiveToEvent(o, s) ==
    CASE s \in {"Active", "Closed"} -> [obj EXCEPT ![o].inflight = FALSE]
      [] s \in {"Pending", "Stale"} -> [obj EXCEPT ![o].state = "Pending"]

SyncPeerLinkState(o, s) ==
    CASE s = "Active"               -> Activated(o)
      [] s \in {"Pending", "Stale"} -> [obj EXCEPT ![o].state = "Pending"]
      [] s = "Closed"               -> [obj EXCEPT ![o].state = "Closed",
                                                   ![o].inflight = FALSE]

\* (mutant) Only a link gone quiet is reset.
NeedsResetWhenStale(p) == link[p].status = "Stale" /\ link[p].age >= PendingTimeout

\* out_link_needs_reset
NeedsReset(p) == link[p].status = "Pending" /\ link[p].age >= PendingTimeout

\* The round after entry w: the next one, or none.
WdNext(w) ==
    LET rest == wd.todo \ {w} IN
    IF rest = {} THEN IdleWd ELSE [IdleWd EXCEPT !.pc = "scan", !.todo = rest]

\* Read one link's status and age; with no link, on to the next peer.
WdRead(w) ==
    LET p == w[1] IN
    /\ wd.pc = "scan" /\ w \in wd.todo
    /\ \/ /\ link[p].status = "Absent"
          /\ wd' = WdNext(w)
       \/ /\ link[p].status # "Absent"
          /\ wd' = [pc |-> "sync", todo |-> wd.todo, peer |-> p, obj |-> w[2],
                    seen |-> link[p].status, stuck |-> NeedsReset(p)]
    /\ UNCHANGED <<registry, req>>
    /\ obj' = Freed(obj)
    /\ UNCHANGED <<allowAll, allowed, link, events, missed, late>>

\* Both locks are given back: copy what was read into the record, whatever
\* happened since.  A link seen pending for too long is to be closed, once the
\* transport lock is had again.
WdSync ==
    LET p == wd.peer
        o == wd.obj
    IN
    /\ wd.pc = "sync"
    /\ wd' = IF wd.stuck THEN [wd EXCEPT !.pc = "close"] ELSE WdNext(<<p, o>>)
    /\ UNCHANGED <<registry, req>>
    /\ obj' = Freed(SyncPeerLinkState(o, wd.seen))
    /\ missed' = IF registry[p] # o THEN missed
                 ELSE IF wd.seen = "Active" /\ late THEN missed \cup {p}
                 ELSE missed \ {p}
    /\ late' = FALSE
    /\ UNCHANGED <<allowAll, allowed, link, events>>

\* link_close(peer.hash) closes whatever link the table now has for that
\* hash.  With none there it fails and the watchdog goes on; closing a
\* closed one may succeed or fail.
WdClose ==
    LET p == wd.peer
        o == wd.obj
    IN
    /\ wd.pc = "close"
    /\ wd' = WdNext(<<p, o>>)
    /\ UNCHANGED <<registry, req>>
    /\ \/ /\ link[p].status \in {"Pending", "Active", "Stale"}
          /\ SetLink(p, "Closed")
          /\ Emit([peer |-> p, kind |-> "Closed"])
          /\ obj' = Freed(ClosedDown(o))
       \/ /\ link[p].status = "Closed"
          /\ obj' = Freed(ClosedDown(o))
          /\ UNCHANGED <<link, events, missed>>
       \/ /\ link[p].status \in {"Absent", "Closed"}
          /\ obj' = Freed(obj)
          /\ UNCHANGED <<link, events, missed>>
    /\ UNCHANGED <<allowAll, allowed, late>>

-----------------------------------------------------------------------------
(* The access policy (PUT /api/network/vpn/access).                        *)

\* Newly allowed peers get a record at once; without allow_all the others
\* lose theirs, but the transport keeps its link to them.
ReplacePeerPolicy(all, S) ==
    LET new == S \ Registered IN
    /\ allowAll' = all
    /\ allowed' = S
    /\ UNCHANGED <<req, wd>>
    /\ \E fresh \in [new -> Objs \ Live] :
         /\ \A p, q \in new : fresh[p] = fresh[q] => p = q
         /\ registry' = [p \in Peers |->
              IF p \in new THEN fresh[p]
              ELSE IF all \/ p \in S THEN registry[p] ELSE NoObj]
    /\ obj' = Freed(obj)
    /\ UNCHANGED <<link, events, missed, late>>

-----------------------------------------------------------------------------
Transport == \E p \in Peers : LinkActivates(p) \/ LinkCloses(p) \/ LinkDrifts(p) \/ LinkRestarts(p)
ReqStep(r) == ReqStart(r) \/ ReqDecide(r) \/ ReqLink(r) \/ ReqFinish(r)
EventTask == EvActivated \/ EvClosed
Watchdog == WdStart \/ (\E w \in wd.todo : WdRead(w)) \/ WdSync \/ WdClose

Next ==
    \/ Transport
    \/ Tick
    \/ \E p \in Peers, r \in Reqs : Announce(p, r)
    \/ \E r \in Reqs : ReqStep(r)
    \/ EventTask
    \/ Watchdog
    \/ \E all \in BOOLEAN, S \in SUBSET Peers : ReplacePeerPolicy(all, S)

Spec == Init /\ [][Next]_vars

\* The tokio scheduler runs every task that can run, the watchdog's interval
\* keeps firing and time passes.  Nothing is assumed of remote gateways
\* (announces, link proofs, closes) nor of the operator (the policy).
Fairness ==
    /\ WF_vars(Tick)
    /\ WF_vars(EventTask)
    /\ WF_vars(Watchdog)
    /\ \A r \in Reqs : WF_vars(ReqStep(r))

FairSpec == Spec /\ Fairness

-----------------------------------------------------------------------------
TypeOK ==
    /\ registry \in [Peers -> Objs \cup {NoObj}]
    /\ obj \in [Objs -> PeerRecord]
    /\ allowAll \in BOOLEAN
    /\ allowed \in SUBSET Peers
    /\ link \in [Peers -> LinkRecord]
    /\ events \in Seq(Event) /\ Len(events) <= Capacity
    /\ req \in [Reqs -> ReqRecord]
    /\ wd \in WdRecord
    /\ missed \in SUBSET Peers /\ late \in BOOLEAN

\* The tasks between try_begin_link_request and finish_link_request.
Guarded(o) == {r \in Reqs : req[r].pc \in {"link", "finish"} /\ req[r].obj = o}

\* A set in-flight guard always belongs to a task that will still clear it:
\* no interleaving of requests, events, watchdog and policy changes leaks
\* the guard, which would block every later request to that peer
\* (peer.rs try_begin_link_request, runtime.rs request_out_link).
NoLeakedGuard == \A o \in Objs : obj[o].inflight => Guarded(o) # {}

ClosedQueued(p) == \E i \in 1..Len(events) : events[i] = [peer |-> p, kind |-> "Closed"]

\* A peer shown as Active (and so given packets by the TUN task) whose link is
\* down owes that to a Closed event not yet received, overwritten in the channel,
\* or handled between the watchdog's reading of that link as Active and its
\* writing so: to nothing else, whatever the order of events, requests, restarts,
\* policy changes and watchdog writes (runtime.rs spawn_out_link_events,
\* spawn_watchdog).
ActiveMeansUp ==
    \A p \in Registered : obj[registry[p]].state = "Active" =>
        Up(p) \/ ClosedQueued(p) \/ p \in missed

\* The watchdog rescues a registered peer from a link that never completes
\* its handshake, even though the transport itself never gives up on it
\* (runtime.rs LINK_PENDING_TIMEOUT_SECS, spawn_watchdog).
StuckLinkRescued ==
    \A p \in Peers :
        (p \in Registered /\ link[p].status = "Pending")
            ~> (p \notin Registered \/ link[p].status # "Pending")

\* A registered peer whose link comes up and stays up ends up Active, whatever
\* events were lost to a lagging receiver and whatever stale ones are still
\* queued (runtime.rs sync_peer_link_state).
ActiveReported ==
    \A p \in Peers :
        <>[](p \in Registered /\ link[p].status = "Active")
            => <>[](p \in Registered /\ obj[registry[p]].state = "Active")

\* A registered peer that keeps announcing itself is never left without a link
\* for good: neither the guard, nor the cooldown, nor a closed link still in
\* the transport's table blocks requests for ever (runtime.rs
\* request_out_link).
Reconnects ==
    \A p \in Peers :
        (<>[](p \in Registered) /\ []<><<\E r \in Reqs : Announce(p, r)>>_vars)
            => []<>(link[p].status \in {"Pending", "Active", "Stale"})

\* What the comment above the watchdog's reset says it acts on: a link stuck
\* in its handshake.  (A link that became active is not one.)
WatchdogClosesOnlyStuck ==
    [][WdClose => \A p \in Peers : link[p].status # link'[p].status
                                     => link[p].status = "Pending"]_vars

\* What the comment on Peer.link_request_in_flight promises: it guards the
\* transport.link() call, so no two tasks are about to make that call for one
\* record at the same time.
RequestsDoNotOverlap ==
    \A o \in Objs : \A r, s \in {x \in Guarded(o) : req[x].pc = "link"} : r = s
=============================================================================

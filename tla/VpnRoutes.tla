----------------------------- MODULE VpnRoutes -----------------------------
(***************************************************************************)
(* The routes of kaonic-vpn (runtime.rs, router.rs, peer.rs, platform.rs): *)
(* what peers advertise and for how long, who may be a peer at all, the    *)
(* router's table, and the kernel routes sync_routes derives from it.      *)
(*                                                                         *)
(* The jobs that change any of it - an announce, a Hello, a watchdog       *)
(* round, a PUT of the access policy or of the advertised routes - are     *)
(* plain synchronous code, so tokio runs each on a worker thread to its    *)
(* end, and jobs on different workers interleave.  The announces are one   *)
(* task's, the Hellos another's and the watchdog's rounds a third's, which *)
(* take theirs one after the other.  A step here is one of the job's reads *)
(* or writes of a shared structure, those that follow each other under the *)
(* same purpose taken together, or one batch of kernel commands.  Kernel   *)
(* commands may fail, at most MaxFaults of them.                           *)
(*                                                                         *)
(* A deadline is kept as the time left.  A record without deadline         *)
(* (route_expires_ts = 0) has no routes, and where there are no routes the *)
(* deadline is never looked at and kept as 0.                              *)
(* NETMAP rules are only kept as one more command that may fail, tunnel    *)
(* addresses and the mock backend are left out, and the links are VpnLink. *)
(***************************************************************************)
EXTENDS Naturals, FiniteSets

CONSTANTS
    Peers,            \* destination hashes of remote gateways
    Cidrs,            \* subnets that peers or this gateway may have
    OwnTunnel,        \* those that contain this gateway's tunnel address
    Overlaps,         \* <<c, l>>: remote c overlaps local l or its alias
    Workers,          \* tokio worker threads
    Grace,            \* ROUTE_GRACE_SECS
    MaxFaults,        \* bound: kernel commands that fail in a behaviour
    NoPeer

ASSUME RoutesAssumption ==
    /\ OwnTunnel \subseteq Cidrs
    /\ Overlaps \subseteq Cidrs \X Cidrs
    /\ Grace \in Nat \ {0} /\ MaxFaults \in Nat
    /\ NoPeer \notin Peers /\ IsFiniteSet(Peers)

VARIABLES
    registered,       \* PeerRegistry
    routes, ttl,      \* per registered peer: its routes, the time they have left
    allowAll, allowed,
    local,            \* SlowState.local_routes
    table,            \* the Router's current subnets: cidr -> owner
    kernel,           \* routes the kernel has on the tunnel device
    installed,        \* SlowState.installed_routes
    failed,           \* SlowState.last_error is set
    work,             \* what each worker is doing
    faults,           \* kernel failures so far
    settled           \* history: since jobs last overlapped, one that swaps
                      \* the table has done so with no other job beside it

vars == <<registered, routes, ttl, allowAll, allowed, local, table, kernel,
          installed, failed, work, faults, settled>>

\* Partial functions from subnets to their owners.
Tables == UNION {[C -> Peers] : C \in SUBSET (Cidrs \ OwnTunnel)}
EmptyTable == [c \in {} |-> NoPeer]

\* What a worker does, for which task and peer, with what it read; `alone` is
\* history: a rebuilding job no other job overlapped so far.
Tasks == {"announce_rx", "out_link_events", "watchdog", "http", "none"}
Idle == [pc |-> "idle", task |-> "none", peer |-> NoPeer, new |-> {}, tbl |-> EmptyTable,
         desired |-> {}, before |-> {}, alone |-> FALSE]
At(w, s) == work[w].pc = s
AllIdle == \A w \in Workers : At(w, "idle")
Goto(w, s) == work' = [work EXCEPT ![w].pc = s]

PeerAllowed(p) == allowAll \/ p \in allowed

Init ==
    /\ allowAll \in BOOLEAN
    /\ allowed \in SUBSET Peers
    /\ registered = allowed
    /\ routes = [p \in Peers |-> {}]
    /\ ttl = [p \in Peers |-> 0]
    /\ local \in SUBSET Cidrs
    /\ table = EmptyTable
    /\ kernel = {}
    /\ installed = {}
    /\ failed = FALSE
    /\ work = [w \in Workers |-> Idle]
    /\ faults = 0
    /\ settled = TRUE

-----------------------------------------------------------------------------
(* The jobs.                                                               *)

\* The time that routes R have left when a peer announces them.
Deadline(R) == IF R = {} THEN 0 ELSE Grace

\* Worker w begins a job with record j, beside any that are under way; but for
\* the web API's, a task has one job at a time.
Begin(w, j) ==
    /\ At(w, "idle")
    /\ j.task # "http" => \A v \in Workers : work[v].task # j.task
    /\ work' = [v \in Workers |-> IF v = w THEN [j EXCEPT !.alone = @ /\ AllIdle]
                                  ELSE [work[v] EXCEPT !.alone = FALSE]]
    /\ settled' = (settled /\ AllIdle)

\* handle_peer_announce, after its allowlist check.
Announce(w, p, R) ==
    /\ PeerAllowed(p)
    /\ Begin(w, [Idle EXCEPT !.pc = "store", !.task = "announce_rx", !.peer = p, !.new = R,
                              !.alone = TRUE])
    /\ UNCHANGED <<registered, routes, ttl, allowAll, allowed, local, table,
                   kernel, installed, failed, faults>>

\* ... get_or_create, and a fresh deadline for the new routes.
Store(w) ==
    LET p == work[w].peer IN
    /\ At(w, "store")
    /\ registered' = registered \cup {p}
    /\ routes' = [routes EXCEPT ![p] = work[w].new]
    /\ ttl' = [ttl EXCEPT ![p] = Deadline(work[w].new)]
    /\ work' = [work EXCEPT ![w] = [Idle EXCEPT !.pc = "build", !.task = work[w].task,
                                                !.alone = work[w].alone]]
    /\ UNCHANGED <<allowAll, allowed, local, table, kernel, installed, failed,
                   faults, settled>>

\* A Hello or Routes frame on an out-link updates a known peer only, but the
\* router is rebuilt either way.
Hello(w, p, R) ==
    /\ Begin(w, [Idle EXCEPT !.pc = "build", !.task = "out_link_events", !.alone = TRUE])
    /\ routes' = IF p \in registered THEN [routes EXCEPT ![p] = R] ELSE routes
    /\ ttl' = IF p \in registered THEN [ttl EXCEPT ![p] = Deadline(R)] ELSE ttl
    /\ UNCHANGED <<registered, allowAll, allowed, local, table, kernel,
                   installed, failed, faults>>

\* (mutant) Peers with no time left are overlooked.
NoneExpired == {}

Expired == {p \in registered : ttl[p] = 0 /\ routes[p] # {}}

\* The watchdog's first half: without an expired peer it changes nothing.
Expire(w) ==
    /\ Expired # {}
    /\ Begin(w, [Idle EXCEPT !.pc = "build", !.task = "watchdog", !.alone = TRUE])
    /\ routes' = [p \in Peers |-> IF p \in Expired THEN {} ELSE routes[p]]
    /\ UNCHANGED <<registered, ttl, allowAll, allowed, local, table, kernel,
                   installed, failed, faults>>

\* replace_peer_policy writes the policy ...
Policy(w, all, S) ==
    /\ Begin(w, [Idle EXCEPT !.pc = IF all THEN "admit" ELSE "prune",
                              !.task = "http", !.new = S, !.alone = TRUE])
    /\ allowAll' = all
    /\ allowed' = S
    /\ failed' = FALSE
    /\ UNCHANGED <<registered, routes, ttl, local, table, kernel, installed, faults>>

\* The peers that stay: all of them under allow_all, else the allowed ones.
Prune(w) == IF At(w, "admit") THEN registered ELSE registered \cap work[w].new

\* ... and then makes the registry agree with what it was given.
Enforce(w) ==
    /\ At(w, "admit") \/ At(w, "prune")
    /\ registered' = Prune(w) \cup work[w].new
    /\ routes' = [p \in Peers |-> IF p \in Prune(w) THEN routes[p] ELSE {}]
    /\ ttl' = [p \in Peers |-> IF p \in Prune(w) THEN ttl[p] ELSE 0]
    /\ work' = [work EXCEPT ![w] = [Idle EXCEPT !.pc = "build", !.task = work[w].task,
                                                !.alone = work[w].alone]]
    /\ UNCHANGED <<allowAll, allowed, local, table, kernel, installed, failed,
                   faults, settled>>

\* replace_advertised_routes: only the kernel side follows.
Advertise(w, L) ==
    /\ Begin(w, [Idle EXCEPT !.pc = "sync", !.task = "http"])
    /\ local' = L
    /\ failed' = FALSE
    /\ UNCHANGED <<registered, routes, ttl, allowAll, allowed, table, kernel,
                   installed, faults>>

\* refresh_local_routes, before each of our announces: nothing follows.
Refresh(L) ==
    /\ \E w \in Workers : At(w, "idle")
    /\ local' = L
    /\ UNCHANGED <<registered, routes, ttl, allowAll, allowed, table, kernel,
                   installed, failed, work, faults, settled>>

-----------------------------------------------------------------------------
(* rebuild_router and sync_routes.                                         *)

\* The peers whose claim on a subnet counts when the table is built.
Claims(c) == {p \in registered : c \in routes[p] /\ ttl[p] > 0}

\* (mutant) The first claim stands when there are several.
BuildFirstWins ==
    LET C == {c \in Cidrs \ OwnTunnel : Claims(c) # {}} IN
    [c \in C |-> CHOOSE p \in Peers : p \in Claims(c)]

\* RouteTable::build: a subnet belongs to the one live peer that claims it;
\* two claims, or our own tunnel address in it, and nobody gets it.
Build ==
    LET C == {c \in Cidrs \ OwnTunnel : Cardinality(Claims(c)) = 1} IN
    [c \in C |-> CHOOSE p \in Peers : p \in Claims(c)]

BuildTable(w) ==
    /\ At(w, "build")
    /\ work' = [work EXCEPT ![w].pc = "swap", ![w].tbl = Build]
    /\ UNCHANGED <<registered, routes, ttl, allowAll, allowed, local, table,
                   kernel, installed, failed, faults, settled>>

SwapTable(w) ==
    /\ At(w, "swap")
    /\ table' = work[w].tbl
    /\ work' = [work EXCEPT ![w] = [Idle EXCEPT !.pc = "sync", !.task = work[w].task]]
    /\ settled' = (settled \/ work[w].alone)
    /\ UNCHANGED <<registered, routes, ttl, allowAll, allowed, local, kernel,
                   installed, failed, faults>>

Conflicting(c) == \E l \in local : <<c, l>> \in Overlaps

\* sync_routes reads the table, the local routes and what it last installed.
SyncRead(w) ==
    /\ At(w, "sync")
    /\ work' = [work EXCEPT ![w].pc = "delete", ![w].before = installed,
                            ![w].desired = {c \in DOMAIN table : ~Conflicting(c)}]
    /\ UNCHANGED <<registered, routes, ttl, allowAll, allowed, local, table,
                   kernel, installed, failed, faults, settled>>

\* delete_route for what is no longer wanted; a failure goes unnoticed.
SyncDelete(w) ==
    /\ At(w, "delete")
    /\ \E D \in SUBSET (work[w].before \ work[w].desired) :
         /\ kernel' = kernel \ D
         /\ faults' = IF D = work[w].before \ work[w].desired THEN faults ELSE faults + 1
    /\ faults' <= MaxFaults
    /\ work' = [work EXCEPT ![w].pc = "replace", ![w].before = {}]
    /\ UNCHANGED <<registered, routes, ttl, allowAll, allowed, local, table,
                   installed, failed, settled>>

\* replace_route one by one, then the translations: the first failure ends
\* the job with an error and leaves the bookkeeping as it was.
SyncReplace(w) ==
    /\ At(w, "replace")
    /\ \/ /\ kernel' = kernel \cup work[w].desired
          /\ Goto(w, "commit")
          /\ UNCHANGED <<failed, faults>>
       \/ /\ faults < MaxFaults
          /\ \E D \in SUBSET work[w].desired : kernel' = kernel \cup D
          /\ faults' = faults + 1
          /\ failed' = TRUE
          /\ work' = [work EXCEPT ![w] = Idle]
    /\ UNCHANGED <<registered, routes, ttl, allowAll, allowed, local, table,
                   installed, settled>>

\* (mutant) The routes installed before are kept on the books.
RecordAll(w) == installed \cup work[w].desired

Recorded(w) == work[w].desired

SyncCommit(w) ==
    /\ At(w, "commit")
    /\ installed' = Recorded(w)
    /\ failed' = FALSE
    /\ work' = [work EXCEPT ![w] = Idle]
    /\ UNCHANGED <<registered, routes, ttl, allowAll, allowed, local, table,
                   kernel, faults, settled>>

\* A second passes for every deadline.
Tick ==
    /\ ttl' = [p \in Peers |-> IF ttl[p] > 0 THEN ttl[p] - 1 ELSE 0]
    /\ UNCHANGED <<registered, routes, allowAll, allowed, local, table, kernel,
                   installed, failed, work, faults, settled>>

-----------------------------------------------------------------------------
Start(w) ==
    \/ \E p \in Peers, R \in SUBSET Cidrs : Announce(w, p, R) \/ Hello(w, p, R)
    \/ \E all \in BOOLEAN, S \in SUBSET Peers : Policy(w, all, S)
    \/ \E L \in SUBSET Cidrs : Advertise(w, L)
    \/ Expire(w)

Run(w) ==
    \/ Store(w) \/ Enforce(w) \/ BuildTable(w) \/ SwapTable(w)
    \/ SyncRead(w) \/ SyncDelete(w) \/ SyncReplace(w) \/ SyncCommit(w)

Next ==
    \/ \E w \in Workers : Start(w) \/ Run(w)
    \/ \E L \in SUBSET Cidrs : Refresh(L)
    \/ Tick

Spec == Init /\ [][Next]_vars

\* A job that began is run to its end, time passes, and the watchdog's timer
\* gets a worker in spite of the other jobs.
Fairness ==
    /\ WF_vars(Tick)
    /\ \A w \in Workers : WF_vars(Run(w))
    /\ SF_vars(\E w \in Workers : Expire(w))

FairSpec == Spec /\ Fairness

-----------------------------------------------------------------------------
JobRecord ==
    [pc : {"idle", "store", "admit", "prune", "build", "swap", "sync", "delete",
           "replace", "commit"},
     task : Tasks, peer : Peers \cup {NoPeer}, new : (SUBSET Cidrs) \cup (SUBSET Peers),
     tbl : Tables, desired : SUBSET Cidrs, before : SUBSET Cidrs, alone : BOOLEAN]

\* Types; no table ever has a subnet that holds our own tunnel address.
TypeOK ==
    /\ registered \in SUBSET Peers
    /\ routes \in [Peers -> SUBSET Cidrs]
    /\ ttl \in [Peers -> 0..Grace]
    /\ allowAll \in BOOLEAN
    /\ allowed \in SUBSET Peers
    /\ local \in SUBSET Cidrs
    /\ table \in Tables
    /\ kernel \in SUBSET Cidrs
    /\ installed \in SUBSET Cidrs
    /\ failed \in BOOLEAN
    /\ work \in [Workers -> JobRecord]
    /\ faults \in 0..MaxFaults
    /\ settled \in BOOLEAN

\* Whatever jobs overlapped before, one that runs alone leaves the router with
\* exactly the subnets that have a single claimant: every entry is a current
\* route of a registered peer and no live peer disputes it, and no undisputed
\* live route is missing (router.rs RouteTable::build, runtime.rs rebuild_router).
RouterCurrent ==
    AllIdle /\ settled =>
        /\ \A c \in DOMAIN table :
             /\ table[c] \in registered /\ c \in routes[table[c]]
             /\ Claims(c) \subseteq {table[c]}
        /\ \A c \in Cidrs \ OwnTunnel, p \in registered :
             Claims(c) = {p} /\ {q \in registered : c \in routes[q]} = {p}
                 => c \in DOMAIN table /\ table[c] = p

\* ... and, unless the last sync failed, every route on the books really is in
\* the kernel, whatever kernel commands failed earlier (runtime.rs sync_routes).
InstalledPresent ==
    AllIdle /\ settled /\ ~failed => installed \subseteq kernel

\* Routes that expired leave the router for good although nobody announces
\* anything any more, unless jobs overlapped and none has rebuilt the router
\* alone since: then a table built before the expiry may have been swapped in
\* after it (runtime.rs spawn_watchdog, rebuild_router, ROUTE_GRACE_SECS).
Owners == {table[c] : c \in DOMAIN table}
ExpiredDropped ==
    \A p \in Peers :
        <>[](p \in registered /\ ttl[p] = 0) => <>[](p \notin Owners) \/ <>[]~settled

\* What the comment on the tasks says of the watchdog, that it expires stale peer
\* routes, whatever ran beside it.
StaleRoutesExpire ==
    \A p \in Peers : <>[](p \in registered /\ ttl[p] = 0) => <>[](p \notin Owners)

\* sync_routes "re-computes the kernel route table": after it succeeded, the
\* kernel has no route on the tunnel that is not on the books.
KernelTracked ==
    AllIdle /\ settled /\ ~failed => kernel \subseteq installed
=============================================================================

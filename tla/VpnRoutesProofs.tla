-------------------------- MODULE VpnRoutesProofs ---------------------------
(***************************************************************************)
(* What VpnRoutes guarantees for any number of peers, subnets and workers: *)
(* one job that no other overlaps leaves the router and the kernel's       *)
(* routes as the peers have advertised them.                               *)
(***************************************************************************)
EXTENDS VpnRoutes, FiniteSetTheorems, TLAPS

-----------------------------------------------------------------------------
(* The router's table.  Claimed and Live are, per subnet, the peers that   *)
(* advertise it and those of them that have time left; Fits says of a      *)
(* table that it has what RouterCurrent wants, in these terms.             *)

Claimed == [c \in Cidrs |-> {p \in registered : c \in routes[p]}]
Live == [c \in Cidrs |-> Claims(c)]

Fits(T, claimed, alive) ==
    /\ \A c \in DOMAIN T : T[c] \in claimed[c] /\ alive[c] \subseteq {T[c]}
    /\ \A c \in Cidrs \ OwnTunnel, p \in Peers :
         alive[c] = {p} /\ claimed[c] = {p} => c \in DOMAIN T /\ T[c] = p

Current(T) == Fits(T, Claimed, Live)

\* A table stays right while deadlines pass and nothing else happens.
LEMMA FitsLater ==
    ASSUME NEW T \in Tables, NEW claimed, NEW alive, NEW later, Fits(T, claimed, alive),
           \A c \in Cidrs : later[c] \subseteq alive[c] /\ alive[c] \subseteq claimed[c]
    PROVE  Fits(T, claimed, later)
<1>1. DOMAIN T \subseteq Cidrs
    BY DEF Tables
<1> QED
    BY <1>1 DEF Fits

\* RouteTable::build gives each undisputed subnet to the one that claims it.
LEMMA BuildIsRight ==
    ASSUME TypeOK
    PROVE  Build \in Tables /\ Current(Build)
<1> DEFINE C == {c \in Cidrs \ OwnTunnel : Cardinality(Claims(c)) = 1}
<1>1. ASSUME NEW c \in Cidrs
      PROVE  Cardinality(Claims(c)) = 1 <=> \E p \in Peers : Claims(c) = {p}
    <2>1. Claims(c) \subseteq Peers
        BY DEF Claims, TypeOK
    <2>2. IsFiniteSet(Claims(c))
        BY <2>1, FS_Subset, RoutesAssumption
    <2> QED
        BY <2>1, <2>2, FS_Singleton
<1>2. ASSUME NEW c \in C
      PROVE  (CHOOSE p \in Peers : p \in Claims(c)) \in Peers
             /\ Claims(c) = {CHOOSE p \in Peers : p \in Claims(c)}
    BY <1>1
<1>3. Build = [c \in C |-> CHOOSE p \in Peers : p \in Claims(c)]
    BY DEF Build
<1>4. Build \in Tables
    BY <1>2, <1>3 DEF Tables
<1>5. ASSUME NEW c \in DOMAIN Build
      PROVE  Build[c] \in Claimed[c] /\ Live[c] \subseteq {Build[c]}
    <2>1. c \in C /\ Claims(c) = {Build[c]}
        BY <1>2, <1>3
    <2> QED
        BY <2>1 DEF Claimed, Live, Claims
<1>6. ASSUME NEW c \in Cidrs \ OwnTunnel, NEW p \in Peers, Live[c] = {p}
      PROVE  c \in DOMAIN Build /\ Build[c] = p
    <2>1. Claims(c) = {p} /\ c \in C
        BY <1>1, <1>6 DEF Live
    <2> HIDE DEF C
    <2>2. Build[c] = CHOOSE q \in Peers : q \in {p}
        BY <1>3, <2>1
    <2> QED
        BY <1>3, <2>1, <2>2
<1> QED
    BY <1>4, <1>5, <1>6 DEF Current, Fits

-----------------------------------------------------------------------------
(* Types.  What a job carries in `new` is a set of subnets or of peers, by *)
(* what it is about to do.                                                 *)

Carries(w) ==
    /\ At(w, "store") => work[w].peer \in Peers /\ work[w].new \in SUBSET Cidrs
    /\ At(w, "admit") \/ At(w, "prune") => work[w].new \in SUBSET Peers

TypeInv == TypeOK /\ \A w \in Workers : Carries(w)

LEMMA IdleJob == Idle \in JobRecord /\ EmptyTable \in Tables /\ Idle.pc = "idle"
<1>1. EmptyTable \in Tables
    BY DEF EmptyTable, Tables
<1> QED
    BY <1>1 DEF Idle, JobRecord, Tasks

\* What a job's record becomes when its next step is taken.
LEMMA SwapJob ==
    ASSUME NEW r \in JobRecord, NEW T \in Tables
    PROVE  LET j == [r EXCEPT !.pc = "swap", !.tbl = T]
           IN  j \in JobRecord /\ j.pc = "swap" /\ j.tbl = T /\ j.alone = r.alone
BY DEF JobRecord

LEMMA DeleteJob ==
    ASSUME NEW r \in JobRecord, NEW b \in SUBSET Cidrs, NEW d \in SUBSET Cidrs
    PROVE  LET j == [r EXCEPT !.pc = "delete", !.before = b, !.desired = d]
           IN  j \in JobRecord /\ j.pc = "delete"
BY DEF JobRecord

LEMMA ReplaceJob ==
    ASSUME NEW r \in JobRecord
    PROVE  LET j == [r EXCEPT !.pc = "replace", !.before = {}]
           IN  j \in JobRecord /\ j.pc = "replace" /\ j.alone = r.alone
BY DEF JobRecord

\* Deadlines stay within the grace period.
LEMMA DeadlineType == \A R : Deadline(R) \in 0..Grace
BY RoutesAssumption DEF Deadline

LEMMA TypeInit == Init => TypeInv
<1> SUFFICES ASSUME Init PROVE TypeInv
    OBVIOUS
<1>1. work \in [Workers -> JobRecord] /\ table \in Tables /\ \A w \in Workers : Carries(w)
    BY IdleJob DEF Init, Carries, At
<1>2. /\ registered \in SUBSET Peers /\ routes \in [Peers -> SUBSET Cidrs]
      /\ allowed \in SUBSET Peers /\ local \in SUBSET Cidrs
      /\ kernel \in SUBSET Cidrs /\ installed \in SUBSET Cidrs
    BY DEF Init
<1>3. ttl \in [Peers -> 0..Grace] /\ faults \in 0..MaxFaults
    BY RoutesAssumption DEF Init
<1>4. allowAll \in BOOLEAN /\ failed \in BOOLEAN /\ settled \in BOOLEAN
    BY DEF Init
<1> QED
    BY <1>1, <1>2, <1>3, <1>4 DEF TypeInv, TypeOK

\* A job that begins is a job record, and so are the others with `alone` cleared.
LEMMA BeginType ==
    ASSUME TypeInv, NEW w \in Workers, NEW j \in JobRecord, Begin(w, j)
    PROVE  /\ work' \in [Workers -> JobRecord] /\ settled' \in BOOLEAN
           /\ work'[w].pc = j.pc /\ work'[w].peer = j.peer /\ work'[w].new = j.new
           /\ \A v \in Workers \ {w} :
                /\ work'[v].pc = work[v].pc /\ work'[v].peer = work[v].peer
                /\ work'[v].new = work[v].new
<1>1. [j EXCEPT !.alone = @ /\ AllIdle] \in JobRecord
    BY DEF JobRecord
<1>2. \A v \in Workers : [work[v] EXCEPT !.alone = FALSE] \in JobRecord
    BY DEF JobRecord, TypeInv, TypeOK
<1>3. settled' \in BOOLEAN
    BY DEF Begin, TypeInv, TypeOK
<1>4. work' \in [Workers -> JobRecord]
    BY <1>1, <1>2 DEF Begin
<1> QED
    BY <1>3, <1>4, ZenonT(40) DEF Begin, JobRecord, TypeInv, TypeOK

LEMMA JobBegins ==
    ASSUME TypeInv, NEW w \in Workers, NEW j \in JobRecord, Begin(w, j),
           j.pc = "store" => j.peer \in Peers /\ j.new \in SUBSET Cidrs,
           j.pc \in {"admit", "prune"} => j.new \in SUBSET Peers
    PROVE  /\ work' \in [Workers -> JobRecord] /\ settled' \in BOOLEAN
           /\ \A v \in Workers : Carries(v)'
BY BeginType DEF TypeInv, Carries, At

\* The next step of a worker's job, or its end, touches no other job.
LEMMA JobMoves ==
    ASSUME TypeInv, NEW w \in Workers, NEW j \in JobRecord, work' = [work EXCEPT ![w] = j],
           j.pc \notin {"store", "admit", "prune"}
    PROVE  work' \in [Workers -> JobRecord] /\ \A v \in Workers : Carries(v)'
BY DEF TypeInv, TypeOK, Carries, At

LEMMA TypeNext == TypeInv /\ [Next]_vars => TypeInv'
<1> SUFFICES ASSUME TypeInv, [Next]_vars PROVE TypeInv'
    OBVIOUS
<1>0. TypeOK
    BY DEF TypeInv
<1>w. ASSUME NEW w \in Workers PROVE work[w] \in JobRecord /\ Carries(w)
    BY DEF TypeInv, TypeOK
<1>1. ASSUME NEW w \in Workers, NEW p \in Peers, NEW R \in SUBSET Cidrs, Announce(w, p, R)
      PROVE  TypeInv'
    <2> DEFINE j == [Idle EXCEPT !.pc = "store", !.task = "announce_rx", !.peer = p,
                             !.new = R, !.alone = TRUE]
    <2>1. j \in JobRecord
        BY IdleJob DEF JobRecord, Tasks
    <2>2. j.pc = "store" /\ j.peer = p /\ j.new = R
        BY DEF Idle
    <2>3. Begin(w, j)
        BY <1>1 DEF Announce
    <2> HIDE DEF j
    <2> QED
        BY <1>1, <2>1, <2>2, <2>3, JobBegins DEF Announce, TypeInv, TypeOK
<1>2. ASSUME NEW w \in Workers, NEW p \in Peers, NEW R \in SUBSET Cidrs, Hello(w, p, R)
      PROVE  TypeInv'
    <2> DEFINE j == [Idle EXCEPT !.pc = "build", !.task = "out_link_events", !.alone = TRUE]
    <2>1. j \in JobRecord
        BY IdleJob DEF JobRecord, Tasks
    <2>2. j.pc = "build"
        BY DEF Idle
    <2>3. Begin(w, j)
        BY <1>2 DEF Hello
    <2> HIDE DEF j
    <2> QED
        BY <1>2, <2>1, <2>2, <2>3, JobBegins, DeadlineType DEF Hello, TypeInv, TypeOK
<1>3. ASSUME NEW w \in Workers, NEW all \in BOOLEAN, NEW S \in SUBSET Peers, Policy(w, all, S)
      PROVE  TypeInv'
    <2> DEFINE pc == IF all THEN "admit" ELSE "prune"
               j == [Idle EXCEPT !.pc = pc, !.task = "http", !.new = S, !.alone = TRUE]
    <2>1. Begin(w, j) /\ pc \in {"admit", "prune"}
        BY <1>3 DEF Policy
    <2> HIDE DEF pc
    <2>2. j \in JobRecord
        BY IdleJob, <2>1 DEF JobRecord, Tasks
    <2>3. j.pc = pc /\ j.new = S
        BY DEF Idle
    <2> HIDE DEF j
    <2>4. failed' \in BOOLEAN /\ allowAll' \in BOOLEAN
        BY <1>3 DEF Policy
    <2> QED
        BY <1>3, <2>1, <2>2, <2>3, <2>4, JobBegins DEF Policy, TypeInv, TypeOK
<1>4. ASSUME NEW w \in Workers, NEW L \in SUBSET Cidrs, Advertise(w, L) PROVE TypeInv'
    <2> DEFINE j == [Idle EXCEPT !.pc = "sync", !.task = "http"]
    <2>1. j \in JobRecord
        BY IdleJob DEF JobRecord, Tasks
    <2>2. j.pc = "sync"
        BY DEF Idle
    <2>3. Begin(w, j)
        BY <1>4 DEF Advertise
    <2> HIDE DEF j
    <2>4. failed' \in BOOLEAN
        BY <1>4 DEF Advertise
    <2> QED
        BY <1>4, <2>1, <2>2, <2>3, <2>4, JobBegins DEF Advertise, TypeInv, TypeOK
<1>5. ASSUME NEW w \in Workers, Expire(w) PROVE TypeInv'
    <2> DEFINE j == [Idle EXCEPT !.pc = "build", !.task = "watchdog", !.alone = TRUE]
    <2>1. j \in JobRecord
        BY IdleJob DEF JobRecord, Tasks
    <2>2. j.pc = "build"
        BY DEF Idle
    <2>3. Begin(w, j)
        BY <1>5 DEF Expire
    <2> HIDE DEF j
    <2> QED
        BY <1>5, <2>1, <2>2, <2>3, JobBegins DEF Expire, TypeInv, TypeOK
<1>r. ASSUME NEW w \in Workers
      PROVE  LET j == [Idle EXCEPT !.pc = "build", !.task = work[w].task,
                             !.alone = work[w].alone]
             IN  j \in JobRecord /\ j.pc = "build"
    <2>1. work[w].alone \in BOOLEAN /\ work[w].task \in Tasks
        BY <1>w DEF JobRecord
    <2>2. [Idle EXCEPT !.pc = "build", !.task = work[w].task,
                             !.alone = work[w].alone] \in JobRecord
        BY <2>1, IdleJob DEF JobRecord
    <2> QED
        BY <2>2 DEF Idle
<1>6. ASSUME NEW w \in Workers, Store(w) PROVE TypeInv'
    <2> DEFINE j == [Idle EXCEPT !.pc = "build", !.task = work[w].task,
                             !.alone = work[w].alone]
    <2>1. work' \in [Workers -> JobRecord] /\ \A v \in Workers : Carries(v)'
        <3>1. j \in JobRecord /\ j.pc = "build" /\ work' = [work EXCEPT ![w] = j]
            BY <1>6, <1>r DEF Store
        <3> HIDE DEF j
        <3> QED
            BY <3>1, JobMoves
    <2> HIDE DEF j
    <2>2. work[w].peer \in Peers /\ work[w].new \in SUBSET Cidrs
        BY <1>6, <1>w DEF Store, Carries
    <2> QED
        BY <1>0, <1>6, <2>1, <2>2, DeadlineType DEF Store, TypeInv, TypeOK
<1>7. ASSUME NEW w \in Workers, Enforce(w) PROVE TypeInv'
    <2> DEFINE j == [Idle EXCEPT !.pc = "build", !.task = work[w].task,
                             !.alone = work[w].alone]
    <2>1. work' \in [Workers -> JobRecord] /\ \A v \in Workers : Carries(v)'
        <3>1. j \in JobRecord /\ j.pc = "build" /\ work' = [work EXCEPT ![w] = j]
            BY <1>7, <1>r DEF Enforce
        <3> HIDE DEF j
        <3> QED
            BY <3>1, JobMoves
    <2> HIDE DEF j
    <2>2. work[w].new \in SUBSET Peers /\ Prune(w) \in SUBSET Peers
        BY <1>0, <1>7, <1>w DEF Enforce, Carries, Prune, TypeOK
    <2> QED
        BY <1>0, <1>7, <2>1, <2>2, RoutesAssumption DEF Enforce, TypeInv, TypeOK
<1>8. ASSUME NEW w \in Workers, BuildTable(w) PROVE TypeInv'
    <2> DEFINE j == [work[w] EXCEPT !.pc = "swap", !.tbl = Build]
    <2>1. j \in JobRecord
        BY <1>0, <1>w, BuildIsRight, SwapJob
    <2>2. j.pc = "swap"
        BY <1>0, <1>w, BuildIsRight, SwapJob
    <2>3. work' = [work EXCEPT ![w] = j]
        BY <1>0, <1>8 DEF BuildTable, TypeOK
    <2> HIDE DEF j
    <2> QED
        BY <1>0, <1>8, <2>1, <2>2, <2>3, JobMoves DEF BuildTable, TypeInv, TypeOK
<1>9. ASSUME NEW w \in Workers, SwapTable(w) PROVE TypeInv'
    <2> DEFINE j == [Idle EXCEPT !.pc = "sync", !.task = work[w].task]
    <2>1. j \in JobRecord
        BY <1>w, IdleJob DEF JobRecord
    <2>2. j.pc = "sync" /\ work' = [work EXCEPT ![w] = j]
        BY <1>9 DEF SwapTable, Idle
    <2> HIDE DEF j
    <2>3. work[w].tbl \in Tables /\ work[w].alone \in BOOLEAN
        BY <1>w DEF JobRecord
    <2>4. settled' \in BOOLEAN
        BY <1>0, <1>9, <2>3 DEF SwapTable, TypeOK
    <2> QED
        BY <1>0, <1>9, <2>1, <2>2, <2>3, <2>4, JobMoves DEF SwapTable, TypeInv, TypeOK
<1>10. ASSUME NEW w \in Workers, SyncRead(w) PROVE TypeInv'
    <2> DEFINE d == {c \in DOMAIN table : ~Conflicting(c)}
               j == [work[w] EXCEPT !.pc = "delete", !.before = installed, !.desired = d]
    <2>1. d \in SUBSET Cidrs /\ installed \in SUBSET Cidrs
        BY <1>0 DEF TypeOK, Tables
    <2>2. work' = [work EXCEPT ![w] = j]
        BY <1>0, <1>10 DEF SyncRead, TypeOK
    <2> HIDE DEF d
    <2>3. j \in JobRecord
        BY <1>w, <2>1, DeleteJob
    <2>4. j.pc = "delete"
        BY <1>w, <2>1, DeleteJob
    <2> HIDE DEF j
    <2> QED
        BY <1>0, <1>10, <2>2, <2>3, <2>4, JobMoves DEF SyncRead, TypeInv, TypeOK
<1>g. ASSUME NEW w \in Workers, Goto(w, "commit")
      PROVE  work' \in [Workers -> JobRecord] /\ \A v \in Workers : Carries(v)'
    <2> DEFINE j == [work[w] EXCEPT !.pc = "commit"]
    <2>1. j \in JobRecord /\ j.pc = "commit"
        BY <1>w DEF JobRecord
    <2>2. work' = [work EXCEPT ![w] = j]
        BY <1>0, <1>g DEF Goto, TypeOK
    <2> HIDE DEF j
    <2> QED
        BY <2>1, <2>2, JobMoves
<1>e. ASSUME NEW w \in Workers, work' = [work EXCEPT ![w] = Idle]
      PROVE  work' \in [Workers -> JobRecord] /\ \A v \in Workers : Carries(v)'
    BY <1>e, IdleJob, JobMoves
<1>d. ASSUME NEW w \in Workers
      PROVE  work[w].desired \in SUBSET Cidrs /\ work[w].before \in SUBSET Cidrs
    BY <1>w DEF JobRecord
<1>11. ASSUME NEW w \in Workers, SyncDelete(w) PROVE TypeInv'
    <2>1. kernel' \in SUBSET Cidrs
        BY <1>0, <1>11 DEF SyncDelete, TypeOK
    <2>2. faults' \in 0..MaxFaults
        BY <1>0, <1>11, RoutesAssumption DEF SyncDelete, TypeOK
    <2> DEFINE j == [work[w] EXCEPT !.pc = "replace", !.before = {}]
    <2>3. j \in JobRecord /\ j.pc = "replace"
        BY <1>w, ReplaceJob
    <2>4. work' = [work EXCEPT ![w] = j]
        BY <1>0, <1>11 DEF SyncDelete, TypeOK
    <2> HIDE DEF j
    <2>5. work' \in [Workers -> JobRecord] /\ \A v \in Workers : Carries(v)'
        BY <2>3, <2>4, JobMoves
    <2> QED
        BY <1>0, <1>11, <2>1, <2>2, <2>5 DEF SyncDelete, TypeInv, TypeOK
<1>12. ASSUME NEW w \in Workers, SyncReplace(w) PROVE TypeInv'
    <2>1. kernel' \in SUBSET Cidrs
        BY <1>0, <1>12, <1>d DEF SyncReplace, TypeOK
    <2>2. faults' \in 0..MaxFaults
        BY <1>0, <1>12, RoutesAssumption DEF SyncReplace, TypeOK
    <2>3. failed' \in BOOLEAN
        BY <1>0, <1>12 DEF SyncReplace, TypeOK
    <2>4. work' \in [Workers -> JobRecord] /\ \A v \in Workers : Carries(v)'
        BY <1>12, <1>g, <1>e DEF SyncReplace
    <2> QED
        BY <1>0, <1>12, <2>1, <2>2, <2>3, <2>4 DEF SyncReplace, TypeInv, TypeOK
<1>13. ASSUME NEW w \in Workers, SyncCommit(w) PROVE TypeInv'
    <2>1. installed' \in SUBSET Cidrs
        BY <1>13, <1>d DEF SyncCommit, Recorded
    <2>2. failed' \in BOOLEAN
        BY <1>13 DEF SyncCommit
    <2> QED
        BY <1>0, <1>13, <1>e, <2>1, <2>2 DEF SyncCommit, TypeInv, TypeOK
<1>14. ASSUME NEW L \in SUBSET Cidrs, Refresh(L) PROVE TypeInv'
    BY <1>14 DEF Refresh, TypeInv, TypeOK, Carries, At
<1>15. CASE Tick
    BY <1>15, RoutesAssumption DEF Tick, TypeInv, TypeOK, Carries, At
<1>16. CASE UNCHANGED vars
    BY <1>16 DEF vars, TypeInv, TypeOK, Carries, At
<1> QED
    BY <1>1, <1>2, <1>3, <1>4, <1>5, <1>6, <1>7, <1>8, <1>9, <1>10, <1>11, <1>12, <1>13,
       <1>14, <1>15, <1>16 DEF Next, Start, Run

\* Every variable stays of its type, and nobody is given a subnet that holds our
\* own tunnel address (router.rs RouteTable::build).
THEOREM RoutesTypeCorrect == Spec => []TypeOK
<1>1. TypeInv => TypeOK
    BY DEF TypeInv
<1> QED
    BY <1>1, TypeInit, TypeNext, PTL DEF Spec

-----------------------------------------------------------------------------
(* The invariant.  An `alone` job has company from nobody; while settled,  *)
(* only one job is under way at all, and if it is to rebuild the router no *)
(* other has run beside it.                                                *)

Rebuilding == {"store", "admit", "prune", "build", "swap"}

Undisturbed ==
    /\ \A w \in Workers : work[w].alone => \A v \in Workers \ {w} : At(v, "idle")
    /\ settled => \A v, w \in Workers : v = w \/ At(v, "idle") \/ At(w, "idle")
    /\ settled => \A w \in Workers : work[w].pc \in Rebuilding => work[w].alone

\* What such a job has built is right, and right in its place too.
RouterInv ==
    /\ \A w \in Workers : work[w].alone /\ At(w, "swap") => Current(work[w].tbl)
    /\ settled /\ (\A w \in Workers : work[w].pc \notin Rebuilding) => Current(table)

\* What a job is about to put on the books is in the kernel.
KernelInv ==
    /\ \A w \in Workers : settled /\ At(w, "commit") => work[w].desired \subseteq kernel
    /\ InstalledPresent

RoutesInv == TypeInv /\ Undisturbed /\ RouterInv /\ KernelInv

LEMMA RoutesInit == Init => RoutesInv
<1> SUFFICES ASSUME Init PROVE RoutesInv
    OBVIOUS
<1>1. \A w \in Workers : At(w, "idle") /\ ~work[w].alone
    BY DEF Init, Idle, At
<1>2. Undisturbed /\ KernelInv
    BY <1>1 DEF Undisturbed, KernelInv, InstalledPresent, Rebuilding, At, Init
<1>3. DOMAIN table = {} /\ \A c \in Cidrs : Claimed[c] = {}
    BY DEF Claimed, Init, EmptyTable
<1>4. Current(table)
    BY <1>3 DEF Current, Fits
<1>5. RouterInv
    BY <1>1, <1>4 DEF RouterInv, At
<1> QED
    BY <1>2, <1>5, TypeInit DEF RoutesInv

LEMMA SameClaims ==
    ASSUME UNCHANGED <<registered, routes, ttl>>
    PROVE  Claimed' = Claimed /\ Live' = Live
BY DEF Claimed, Live, Claims

\* A job that begins: it has no company only if all the others are idle.
LEMMA BeginKeeps ==
    ASSUME RoutesInv, NEW w \in Workers, NEW j \in JobRecord, Begin(w, j),
           j.pc \notin {"idle", "swap", "commit"},
           j.pc \in Rebuilding => j.alone,
           j.pc \in Rebuilding \/ UNCHANGED <<registered, routes, ttl>>,
           UNCHANGED <<table, kernel, installed>>
    PROVE  Undisturbed' /\ RouterInv' /\ KernelInv'
<1>0. TypeInv
    BY DEF RoutesInv
<1>1. /\ work'[w].pc = j.pc
      /\ \A v \in Workers \ {w} : work'[v].pc = work[v].pc
    BY <1>0, BeginType
<1>2. settled' = (settled /\ AllIdle)
    BY DEF Begin
<1>3. /\ work'[w].alone = (j.alone /\ AllIdle)
      /\ \A v \in Workers \ {w} : work'[v].alone = FALSE
    BY <1>0 DEF Begin, JobRecord, TypeInv, TypeOK
<1>4. Undisturbed'
    BY <1>1, <1>2, <1>3 DEF Undisturbed, AllIdle, At, Rebuilding
<1>5. RouterInv'
    <2>1. \A v \in Workers : ~(work'[v].alone /\ work'[v].pc = "swap")
        BY <1>1, <1>3
    <2>2. ASSUME settled', \A v \in Workers : work'[v].pc \notin Rebuilding
          PROVE  Current(table)'
        <3>1. UNCHANGED <<registered, routes, ttl>>
            BY <1>1, <2>2
        <3>2. settled /\ \A v \in Workers : work[v].pc \notin Rebuilding
            BY <1>2, <2>2 DEF AllIdle, At, Rebuilding
        <3>3. Current(table)
            BY <3>2 DEF RoutesInv, RouterInv
        <3> QED
            BY <3>1, <3>3, SameClaims DEF Current
    <2> QED
        BY <2>1, <2>2 DEF RouterInv, At
<1>6. KernelInv'
    BY <1>1, <1>2 DEF KernelInv, InstalledPresent, AllIdle, At
<1> QED
    BY <1>4, <1>5, <1>6

\* A step on the way to a new table.
LEMMA RebuildKeeps ==
    ASSUME RoutesInv, NEW w \in Workers, NEW j \in JobRecord,
           work' = [work EXCEPT ![w] = j], work[w].pc \in Rebuilding, j.pc \in Rebuilding,
           j.alone = work[w].alone, j.pc = "swap" => Fits(j.tbl, Claimed', Live'),
           UNCHANGED <<kernel, installed, failed, settled>>
    PROVE  Undisturbed' /\ RouterInv' /\ KernelInv'
<1>1. work'[w] = j /\ \A v \in Workers \ {w} : work'[v] = work[v]
    BY DEF RoutesInv, TypeInv, TypeOK
<1>2. ~At(w, "idle") /\ j.pc # "idle" /\ j.pc # "commit"
    BY DEF Rebuilding, At
<1>3. Undisturbed'
    BY <1>1, <1>2 DEF RoutesInv, Undisturbed, At
<1>4. RouterInv'
    <2>1. ASSUME NEW v \in Workers, work'[v].alone, work'[v].pc = "swap"
          PROVE  Current(work[v].tbl)'
        <3>1. v = w
            BY <1>1, <1>2, <2>1 DEF RoutesInv, Undisturbed
        <3> QED
            BY <1>1, <2>1, <3>1 DEF Current
    <2> QED
        BY <1>1, <2>1 DEF RouterInv, At
<1>5. KernelInv'
    BY <1>1, <1>2 DEF RoutesInv, KernelInv, InstalledPresent, AllIdle, At
<1> QED
    BY <1>3, <1>4, <1>5

\* A step of sync_routes, up to its effect on the kernel.
LEMMA SyncKeeps ==
    ASSUME RoutesInv, NEW w \in Workers, NEW j \in JobRecord,
           work' = [work EXCEPT ![w] = j],
           work[w].pc \notin Rebuilding \cup {"idle"}, j.pc \notin Rebuilding,
           j.alone => work[w].alone,
           UNCHANGED <<registered, routes, ttl, table, settled>>
    PROVE  /\ Undisturbed' /\ RouterInv'
           /\ work'[w] = j
           /\ settled => \A v \in Workers \ {w} : work'[v].pc = "idle"
<1>1. work'[w] = j /\ \A v \in Workers \ {w} : work'[v] = work[v]
    BY DEF RoutesInv, TypeInv, TypeOK
<1>2. ~At(w, "idle") /\ j.pc # "swap"
    BY DEF Rebuilding, At
<1>3. Undisturbed'
    BY <1>1, <1>2 DEF RoutesInv, Undisturbed, At
<1>4. RouterInv'
    <2>1. ASSUME NEW v \in Workers, work'[v].alone, work'[v].pc = "swap"
          PROVE  Current(work[v].tbl)'
        <3>1. v # w /\ work'[v] = work[v]
            BY <1>1, <1>2, <2>1
        <3>2. Current(work[v].tbl)
            BY <2>1, <3>1 DEF RoutesInv, RouterInv, At
        <3> QED
            BY <3>1, <3>2, SameClaims DEF Current
    <2>2. ASSUME settled, \A v \in Workers : work'[v].pc \notin Rebuilding
          PROVE  Current(table)'
        <3>1. Current(table)
            BY <1>1, <2>2 DEF RoutesInv, RouterInv
        <3> QED
            BY <3>1, SameClaims DEF Current
    <2> QED
        BY <2>1, <2>2 DEF RouterInv, At
<1>5. settled => \A v \in Workers \ {w} : work'[v].pc = "idle"
    BY <1>1, <1>2 DEF RoutesInv, Undisturbed, At
<1> QED
    BY <1>1, <1>3, <1>4, <1>5

LEMMA RoutesNext == RoutesInv /\ [Next]_vars => RoutesInv'
<1> SUFFICES ASSUME RoutesInv, [Next]_vars PROVE Undisturbed' /\ RouterInv' /\ KernelInv'
    BY TypeNext DEF RoutesInv
<1>0. TypeInv /\ TypeOK
    BY DEF RoutesInv, TypeInv
<1>w. ASSUME NEW w \in Workers PROVE work[w] \in JobRecord /\ work[w].alone \in BOOLEAN
    BY <1>0 DEF TypeOK, JobRecord
<1>1. ASSUME NEW w \in Workers, NEW p \in Peers, NEW R \in SUBSET Cidrs, Announce(w, p, R)
      PROVE  Undisturbed' /\ RouterInv' /\ KernelInv'
    <2> DEFINE j == [Idle EXCEPT !.pc = "store", !.task = "announce_rx", !.peer = p,
                             !.new = R, !.alone = TRUE]
    <2>1. j \in JobRecord
        BY IdleJob DEF JobRecord, Tasks
    <2>2. j.pc = "store" /\ j.alone
        BY DEF Idle
    <2>3. Begin(w, j) /\ UNCHANGED <<table, kernel, installed>>
        BY <1>1 DEF Announce
    <2> HIDE DEF j
    <2> QED
        BY <2>1, <2>2, <2>3, BeginKeeps DEF Rebuilding
<1>2. ASSUME NEW w \in Workers, NEW p \in Peers, NEW R \in SUBSET Cidrs, Hello(w, p, R)
      PROVE  Undisturbed' /\ RouterInv' /\ KernelInv'
    <2> DEFINE j == [Idle EXCEPT !.pc = "build", !.task = "out_link_events", !.alone = TRUE]
    <2>1. j \in JobRecord
        BY IdleJob DEF JobRecord, Tasks
    <2>2. j.pc = "build" /\ j.alone
        BY DEF Idle
    <2>3. Begin(w, j) /\ UNCHANGED <<table, kernel, installed>>
        BY <1>2 DEF Hello
    <2> HIDE DEF j
    <2> QED
        BY <2>1, <2>2, <2>3, BeginKeeps DEF Rebuilding
<1>3. ASSUME NEW w \in Workers, NEW all \in BOOLEAN, NEW S \in SUBSET Peers, Policy(w, all, S)
      PROVE  Undisturbed' /\ RouterInv' /\ KernelInv'
    <2> DEFINE pc == IF all THEN "admit" ELSE "prune"
               j == [Idle EXCEPT !.pc = pc, !.task = "http", !.new = S, !.alone = TRUE]
    <2>1. /\ Begin(w, j) /\ UNCHANGED <<table, kernel, installed>>
          /\ pc \in {"admit", "prune"}
        BY <1>3 DEF Policy
    <2> HIDE DEF pc
    <2>2. j \in JobRecord
        BY IdleJob, <2>1 DEF JobRecord, Tasks
    <2>3. j.pc = pc /\ j.alone
        BY DEF Idle
    <2> HIDE DEF j
    <2> QED
        BY <2>1, <2>2, <2>3, BeginKeeps DEF Rebuilding
<1>4. ASSUME NEW w \in Workers, NEW L \in SUBSET Cidrs, Advertise(w, L)
      PROVE  Undisturbed' /\ RouterInv' /\ KernelInv'
    <2> DEFINE j == [Idle EXCEPT !.pc = "sync", !.task = "http"]
    <2>1. j \in JobRecord
        BY IdleJob DEF JobRecord, Tasks
    <2>2. j.pc = "sync"
        BY DEF Idle
    <2>3. Begin(w, j) /\ UNCHANGED <<registered, routes, ttl, table, kernel, installed>>
        BY <1>4 DEF Advertise
    <2> HIDE DEF j
    <2> QED
        BY <2>1, <2>2, <2>3, BeginKeeps DEF Rebuilding
<1>5. ASSUME NEW w \in Workers, Expire(w)
      PROVE  Undisturbed' /\ RouterInv' /\ KernelInv'
    <2> DEFINE j == [Idle EXCEPT !.pc = "build", !.task = "watchdog", !.alone = TRUE]
    <2>1. j \in JobRecord
        BY IdleJob DEF JobRecord, Tasks
    <2>2. j.pc = "build" /\ j.alone
        BY DEF Idle
    <2>3. Begin(w, j) /\ UNCHANGED <<table, kernel, installed>>
        BY <1>5 DEF Expire
    <2> HIDE DEF j
    <2> QED
        BY <2>1, <2>2, <2>3, BeginKeeps DEF Rebuilding
<1>6. ASSUME NEW w \in Workers, Store(w) \/ Enforce(w)
      PROVE  Undisturbed' /\ RouterInv' /\ KernelInv'
    <2> DEFINE j == [Idle EXCEPT !.pc = "build", !.task = work[w].task,
                             !.alone = work[w].alone]
    <2>1. j \in JobRecord
        BY <1>w, IdleJob DEF JobRecord
    <2>2. j.pc = "build" /\ j.alone = work[w].alone
        BY DEF Idle
    <2>3. /\ work' = [work EXCEPT ![w] = j] /\ UNCHANGED <<kernel, installed, failed, settled>>
          /\ work[w].pc \in Rebuilding
        BY <1>6 DEF Store, Enforce, Rebuilding, At
    <2> HIDE DEF j
    <2> QED
        BY <2>1, <2>2, <2>3, RebuildKeeps DEF Rebuilding
<1>7. ASSUME NEW w \in Workers, BuildTable(w)
      PROVE  Undisturbed' /\ RouterInv' /\ KernelInv'
    <2> DEFINE j == [work[w] EXCEPT !.pc = "swap", !.tbl = Build]
    <2>1. Build \in Tables /\ Current(Build)
        BY <1>0, BuildIsRight
    <2>2. /\ j \in JobRecord /\ j.pc = "swap" /\ j.tbl = Build /\ j.alone = work[w].alone
        BY <1>w, <2>1, SwapJob
    <2>3. /\ work' = [work EXCEPT ![w] = j] /\ UNCHANGED <<kernel, installed, failed, settled>>
          /\ UNCHANGED <<registered, routes, ttl>> /\ work[w].pc \in Rebuilding
        BY <1>0, <1>7 DEF BuildTable, Rebuilding, At, TypeOK
    <2> HIDE DEF j
    <2>4. Fits(j.tbl, Claimed', Live')
        BY <2>1, <2>2, <2>3, SameClaims DEF Current
    <2> QED
        BY <2>2, <2>3, <2>4, RebuildKeeps DEF Rebuilding
<1>8. ASSUME NEW w \in Workers, SwapTable(w)
      PROVE  Undisturbed' /\ RouterInv' /\ KernelInv'
    <2>1. /\ work'[w].pc = "sync" /\ ~work'[w].alone
          /\ \A v \in Workers \ {w} : work'[v] = work[v]
        BY <1>0, <1>8 DEF SwapTable, Idle, TypeOK
    <2>2. settled' => work[w].alone
        BY <1>8 DEF SwapTable, RoutesInv, Undisturbed, Rebuilding, At
    <2>3. work[w].alone => \A v \in Workers \ {w} : work[v].pc = "idle"
        BY DEF RoutesInv, Undisturbed, At
    <2>4. \A v \in Workers \ {w} : ~work[v].alone
        BY <1>8 DEF SwapTable, RoutesInv, Undisturbed, At
    <2>5. Undisturbed'
        BY <2>1, <2>2, <2>3, <2>4 DEF Undisturbed, At, Rebuilding
    <2>6. KernelInv'
        BY <2>1, <2>2, <2>3 DEF KernelInv, InstalledPresent, AllIdle, At
    <2>7. settled' => Current(table)'
        <3>1. table' = work[w].tbl /\ UNCHANGED <<registered, routes, ttl>>
            BY <1>8 DEF SwapTable
        <3>2. settled' => Current(work[w].tbl)
            BY <1>8, <2>2 DEF SwapTable, RoutesInv, RouterInv
        <3> QED
            BY <3>1, <3>2, SameClaims DEF Current
    <2> QED
        BY <2>1, <2>4, <2>5, <2>6, <2>7 DEF RouterInv, At
<1>9. ASSUME NEW w \in Workers, SyncRead(w)
      PROVE  Undisturbed' /\ RouterInv' /\ KernelInv'
    <2> DEFINE d == {c \in DOMAIN table : ~Conflicting(c)}
               j == [work[w] EXCEPT !.pc = "delete", !.before = installed, !.desired = d]
    <2>1. d \in SUBSET Cidrs /\ installed \in SUBSET Cidrs
        BY <1>0 DEF TypeOK, Tables
    <2>2. /\ work' = [work EXCEPT ![w] = j] /\ work[w].pc = "sync"
          /\ UNCHANGED <<registered, routes, ttl, table, settled, kernel, installed, failed>>
        BY <1>0, <1>9 DEF SyncRead, TypeOK, At
    <2> HIDE DEF d
    <2>3. j \in JobRecord
        BY <1>w, <2>1, DeleteJob
    <2>4. j.pc = "delete" /\ j.alone = work[w].alone
        BY <1>w DEF JobRecord
    <2> HIDE DEF j
    <2>5. /\ Undisturbed' /\ RouterInv' /\ work'[w] = j
          /\ settled => \A v \in Workers \ {w} : work'[v].pc = "idle"
        BY <2>2, <2>3, <2>4, SyncKeeps DEF Rebuilding
    <2> QED
        BY <2>2, <2>5, <2>4 DEF KernelInv, InstalledPresent, AllIdle, At
<1>g. ASSUME NEW w \in Workers, Goto(w, "commit"), work[w].pc = "replace",
             UNCHANGED <<registered, routes, ttl, table, settled>>
      PROVE  /\ Undisturbed' /\ RouterInv'
             /\ work'[w].pc = "commit" /\ work'[w].desired = work[w].desired
             /\ settled => \A v \in Workers \ {w} : work'[v].pc = "idle"
    <2> DEFINE j == [work[w] EXCEPT !.pc = "commit"]
    <2>1. /\ j \in JobRecord /\ j.pc = "commit" /\ j.alone = work[w].alone
          /\ j.desired = work[w].desired
        BY <1>w DEF JobRecord
    <2>2. work' = [work EXCEPT ![w] = j]
        BY <1>0, <1>g DEF Goto, TypeOK
    <2> HIDE DEF j
    <2> QED
        BY <1>g, <2>1, <2>2, SyncKeeps DEF Rebuilding
<1>e. ASSUME NEW w \in Workers, work' = [work EXCEPT ![w] = Idle],
             work[w].pc \in {"replace", "commit"},
             UNCHANGED <<registered, routes, ttl, table, settled>>
      PROVE  /\ Undisturbed' /\ RouterInv' /\ work'[w].pc = "idle"
             /\ settled => \A v \in Workers \ {w} : work'[v].pc = "idle"
    <2>1. Idle \in JobRecord /\ Idle.pc = "idle" /\ ~Idle.alone
        BY IdleJob DEF Idle
    <2> QED
        BY <1>e, <2>1, SyncKeeps DEF Rebuilding
<1>10. ASSUME NEW w \in Workers, SyncDelete(w)
       PROVE  Undisturbed' /\ RouterInv' /\ KernelInv'
    <2> DEFINE j == [work[w] EXCEPT !.pc = "replace", !.before = {}]
    <2>1. j \in JobRecord /\ j.pc = "replace" /\ j.alone = work[w].alone
        BY <1>w, ReplaceJob
    <2>2. /\ work' = [work EXCEPT ![w] = j] /\ work[w].pc = "delete"
          /\ UNCHANGED <<registered, routes, ttl, table, settled>>
        BY <1>0, <1>10 DEF SyncDelete, TypeOK, At
    <2> HIDE DEF j
    <2>3. /\ Undisturbed' /\ RouterInv' /\ work'[w] = j
          /\ settled => \A v \in Workers \ {w} : work'[v].pc = "idle"
        BY <2>1, <2>2, SyncKeeps DEF Rebuilding
    <2> QED
        BY <2>1, <2>2, <2>3 DEF KernelInv, InstalledPresent, AllIdle, At
<1>11. ASSUME NEW w \in Workers, SyncReplace(w)
       PROVE  Undisturbed' /\ RouterInv' /\ KernelInv'
    <2>1. settled' = settled /\ UNCHANGED <<registered, routes, ttl, table, settled>>
        BY <1>11 DEF SyncReplace
    <2>2. CASE kernel' = kernel \cup work[w].desired /\ Goto(w, "commit")
        <3>1. /\ Undisturbed' /\ RouterInv' /\ work'[w].pc = "commit"
              /\ work'[w].desired = work[w].desired
              /\ settled => \A v \in Workers \ {w} : work'[v].pc = "idle"
            BY <1>11, <1>g, <2>1, <2>2 DEF SyncReplace, At
        <3> QED
            BY <2>1, <2>2, <3>1 DEF KernelInv, InstalledPresent, AllIdle, At
    <2>3. CASE failed' = TRUE /\ work' = [work EXCEPT ![w] = Idle]
        <3>1. /\ Undisturbed' /\ RouterInv' /\ work'[w].pc = "idle"
              /\ settled => \A v \in Workers \ {w} : work'[v].pc = "idle"
            BY <1>11, <1>e, <2>1, <2>3 DEF SyncReplace, At
        <3> QED
            BY <2>1, <2>3, <3>1 DEF KernelInv, InstalledPresent, AllIdle, At
    <2> QED
        BY <1>11, <2>2, <2>3 DEF SyncReplace
<1>12. ASSUME NEW w \in Workers, SyncCommit(w)
       PROVE  Undisturbed' /\ RouterInv' /\ KernelInv'
    <2>1. /\ Undisturbed' /\ RouterInv' /\ work'[w].pc = "idle"
          /\ settled => \A v \in Workers \ {w} : work'[v].pc = "idle"
        BY <1>12, <1>e DEF SyncCommit, At
    <2>2. settled' = settled /\ kernel' = kernel /\ installed' = work[w].desired
        BY <1>12 DEF SyncCommit, Recorded
    <2>3. settled => work[w].desired \subseteq kernel
        BY <1>12 DEF SyncCommit, RoutesInv, KernelInv
    <2> QED
        BY <2>1, <2>2, <2>3 DEF KernelInv, InstalledPresent, AllIdle, At
<1>s. ASSUME UNCHANGED <<work, settled, kernel, installed, failed>>
      PROVE  Undisturbed' /\ KernelInv'
    BY <1>s DEF RoutesInv, Undisturbed, KernelInv, InstalledPresent, AllIdle, At
<1>13. ASSUME UNCHANGED <<work, settled, kernel, installed, failed, registered, routes, ttl, table>>
       PROVE  Undisturbed' /\ RouterInv' /\ KernelInv'
    BY <1>13, <1>s, SameClaims DEF RoutesInv, RouterInv, Current, At
<1>14. ASSUME Tick
       PROVE  Undisturbed' /\ RouterInv' /\ KernelInv'
    <2>1. UNCHANGED <<work, settled, kernel, installed, failed, registered, routes, table>>
        BY <1>14 DEF Tick
    <2>2. Claimed' = Claimed
        BY <2>1 DEF Claimed
    <2>3. \A c \in Cidrs : Live'[c] \subseteq Live[c] /\ Live[c] \subseteq Claimed[c]
        BY <1>0, <1>14, <2>1 DEF Live, Claimed, Claims, Tick, TypeOK
    <2>4. ASSUME NEW T \in Tables, Current(T) PROVE Fits(T, Claimed', Live')
        BY <2>2, <2>3, <2>4, FitsLater DEF Current
    <2>5. table \in Tables /\ \A w \in Workers : work[w].tbl \in Tables
        BY <1>0, <1>w DEF TypeOK, JobRecord
    <2>6. RouterInv'
        BY <2>1, <2>4, <2>5 DEF RoutesInv, RouterInv, Current, At
    <2> QED
        BY <1>s, <2>1, <2>6
<1>15. ASSUME NEW L \in SUBSET Cidrs, Refresh(L)
       PROVE  Undisturbed' /\ RouterInv' /\ KernelInv'
    BY <1>13, <1>15 DEF Refresh
<1>16. CASE UNCHANGED vars
    BY <1>13, <1>16 DEF vars
<1> QED
    BY <1>1, <1>2, <1>3, <1>4, <1>5, <1>6, <1>7, <1>8, <1>9, <1>10, <1>11, <1>12, <1>14,
       <1>15, <1>16 DEF Next, Start, Run

\* However jobs have overlapped, once one has rebuilt the router alone it has
\* exactly the subnets with a single claimant (runtime.rs rebuild_router).
THEOREM RouterIsCurrent == Spec => []RouterCurrent
<1>1. ASSUME RoutesInv PROVE RouterCurrent
    <2> SUFFICES ASSUME AllIdle, settled
                 PROVE  /\ \A c \in DOMAIN table :
                             /\ table[c] \in registered /\ c \in routes[table[c]]
                             /\ Claims(c) \subseteq {table[c]}
                        /\ \A c \in Cidrs \ OwnTunnel, p \in registered :
                             Claims(c) = {p} /\ {q \in registered : c \in routes[q]} = {p}
                                 => c \in DOMAIN table /\ table[c] = p
        BY DEF RouterCurrent
    <2>1. Current(table)
        BY <1>1 DEF RoutesInv, RouterInv, AllIdle, At, Rebuilding
    <2>2. DOMAIN table \subseteq Cidrs /\ registered \subseteq Peers
        BY <1>1 DEF RoutesInv, TypeInv, TypeOK, Tables
    <2> QED
        BY <2>1, <2>2 DEF Current, Fits, Claimed, Live
<1> QED
    BY <1>1, RoutesInit, RoutesNext, PTL DEF Spec

\* ... and unless the last sync failed, the kernel has every route on the
\* books (runtime.rs sync_routes).
THEOREM InstalledIsPresent == Spec => []InstalledPresent
<1>1. RoutesInv => InstalledPresent
    BY DEF RoutesInv, KernelInv
<1> QED
    BY <1>1, RoutesInit, RoutesNext, PTL DEF Spec
=============================================================================

--------------------------- MODULE VpnLinkProofs ---------------------------
(***************************************************************************)
(* What VpnLink guarantees for any number of peers, records and tasks, and *)
(* any timing and channel capacity.                                        *)
(***************************************************************************)
EXTENDS VpnLink, TLAPS

\* Freeing cells keeps a well-typed heap well typed.
LEMMA FreedType ==
    ASSUME NEW f \in [Objs -> PeerRecord]
    PROVE  Freed(f) \in [Objs -> PeerRecord]
<1>1. NewPeer("Configured") \in PeerRecord
    BY TimingAssumption DEF NewPeer, PeerRecord, LinkState
<1> QED BY <1>1 DEF Freed

\* Broadcasting an event keeps the queue well typed and within its capacity.
LEMMA EmitType ==
    ASSUME TypeOK, NEW e \in Event, Emit(e)
    PROVE  /\ events' \in Seq(Event) /\ Len(events') <= Capacity
           /\ missed' \in SUBSET Peers
<1>1. /\ events \in Seq(Event) /\ Len(events) <= Capacity
      /\ missed \in SUBSET Peers /\ Capacity \in Nat \ {0}
    BY CapacityAssumption DEF TypeOK
<1>2. CASE Len(events) < Capacity
    <2>1. events' = Append(events, e) /\ missed' = missed
        BY <1>2 DEF Emit
    <2> QED BY <1>1, <1>2, <2>1
<1>3. CASE ~(Len(events) < Capacity)
    <2>1. /\ events' = Append(Tail(events), e)
          /\ missed' \in {missed, missed \cup {Head(events).peer}}
        BY <1>3 DEF Emit
    <2>2. events # <<>> /\ Len(events) = Capacity
        BY <1>1, <1>3
    <2>3. Head(events) \in Event /\ Tail(events) \in Seq(Event)
              /\ Len(Tail(events)) = Len(events) - 1
        BY <1>1, <2>2
    <2>4. Head(events).peer \in Peers
        BY <2>3 DEF Event
    <2>5. events' \in Seq(Event) /\ Len(events') <= Capacity
        BY <1>1, <2>1, <2>2, <2>3
    <2> QED BY <1>1, <2>1, <2>4, <2>5
<1> QED BY <1>2, <1>3

\* What the handlers write into a record is a record again.
LEMMA WriteType ==
    ASSUME TypeOK, NEW o \in Objs
    PROVE  /\ Activated(o) \in [Objs -> PeerRecord]
           /\ ClosedDown(o) \in [Objs -> PeerRecord]
           /\ \A s \in LinkStatus \ {"Absent"} :
                  SyncPeerLinkState(o, s) \in [Objs -> PeerRecord]
<1>1. Activated(o) \in [Objs -> PeerRecord]
    BY TimingAssumption DEF TypeOK, Activated, PeerRecord, LinkState
<1>2. ClosedDown(o) \in [Objs -> PeerRecord]
    BY TimingAssumption DEF TypeOK, ClosedDown, PeerRecord, LinkState
<1>3. ASSUME NEW s \in LinkStatus \ {"Absent"}
      PROVE  SyncPeerLinkState(o, s) \in [Objs -> PeerRecord]
    <2>1. CASE s = "Active"
        BY <1>1, <2>1 DEF SyncPeerLinkState
    <2>. obj \in [Objs -> PeerRecord] /\ obj[o] \in PeerRecord
        BY DEF TypeOK
    <2>2. CASE s \in {"Pending", "Stale"}
        <3>1. [obj[o] EXCEPT !.state = "Pending"] \in PeerRecord
            BY DEF PeerRecord, LinkState
        <3>2. SyncPeerLinkState(o, s) =
                  [obj EXCEPT ![o] = [obj[o] EXCEPT !.state = "Pending"]]
            BY <2>2 DEF SyncPeerLinkState
        <3> QED BY <3>1, <3>2
    <2>3. CASE s = "Closed"
        <3>1. [obj[o] EXCEPT !.state = "Closed", !.inflight = FALSE] \in PeerRecord
            BY DEF PeerRecord, LinkState
        <3>2. SyncPeerLinkState(o, s) =
                  [obj EXCEPT ![o] = [obj[o] EXCEPT !.state = "Closed",
                                                    !.inflight = FALSE]]
            BY <2>3 DEF SyncPeerLinkState
        <3> QED BY <3>1, <3>2
    <2> QED BY <1>3, <2>1, <2>2, <2>3 DEF LinkStatus
<1> QED BY <1>1, <1>2, <1>3

\* A round is made of peers and records, and so is what is done with one entry.
LEMMA WdTodoType ==
    ASSUME TypeOK
    PROVE  /\ wd.todo \in SUBSET (Peers \X Objs)
           /\ wd.pc \in {"sync", "close"} =>
                /\ wd.peer \in Peers /\ wd.obj \in Objs
                /\ wd.seen \in LinkStatus \ {"Absent"} /\ wd.stuck \in BOOLEAN
                /\ [wd EXCEPT !.pc = "close"] \in WdRecord
           /\ wd.pc = "idle" => wd = IdleWd
<1>1. CASE wd = IdleWd
    <2>1. wd.todo = {} /\ wd.pc = "idle"
        BY <1>1 DEF IdleWd
    <2> QED BY <1>1, <2>1
<1>2. CASE wd \in [pc : {"scan"}, todo : SUBSET (Peers \X Objs), peer : {NoPeer},
                   obj : {NoObj}, seen : {"Absent"}, stuck : {FALSE}]
    BY <1>2
<1>3. CASE wd \in [pc : {"sync", "close"}, todo : SUBSET (Peers \X Objs), peer : Peers,
                   obj : Objs, seen : LinkStatus \ {"Absent"}, stuck : BOOLEAN]
    <2>1. [wd EXCEPT !.pc = "close"] \in WdRecord
        BY <1>3 DEF WdRecord
    <2>2. /\ wd.todo \in SUBSET (Peers \X Objs) /\ wd.peer \in Peers /\ wd.obj \in Objs
          /\ wd.seen \in LinkStatus \ {"Absent"} /\ wd.stuck \in BOOLEAN
          /\ wd.pc # "idle"
        BY <1>3
    <2> QED BY <2>1, <2>2
<1> QED BY <1>1, <1>2, <1>3 DEF TypeOK, WdRecord

\* Going on to the next entry of a round keeps the watchdog well typed.
LEMMA WdNextType ==
    ASSUME TypeOK, NEW w
    PROVE  WdNext(w) \in WdRecord /\ WdNext(w).todo \subseteq wd.todo
<1>1. wd.todo \in SUBSET (Peers \X Objs)
    BY WdTodoType
<1>2. CASE wd.todo \ {w} = {}
    BY <1>2 DEF WdNext, WdRecord, IdleWd
<1>3. CASE wd.todo \ {w} # {}
    <2>1. WdNext(w) = [pc |-> "scan", todo |-> wd.todo \ {w}, peer |-> NoPeer,
                       obj |-> NoObj, seen |-> "Absent", stuck |-> FALSE]
        BY <1>3 DEF WdNext, IdleWd
    <2> QED BY <1>1, <2>1 DEF WdRecord
<1> QED BY <1>2, <1>3

\* It is then done with that entry.
LEMMA WdNextLeaves ==
    ASSUME NEW w PROVE WdNext(w).pc \in {"idle", "scan"}
BY DEF WdNext, IdleWd

LEMMA InitType == Init => TypeOK
<1> SUFFICES ASSUME Init PROVE TypeOK
    OBVIOUS
<1>1. [status |-> "Absent", age |-> 0, again |-> FALSE] \in LinkRecord
    BY TimingAssumption DEF LinkRecord, LinkStatus
<1>2. NewPeer("Configured") \in PeerRecord
    BY TimingAssumption DEF NewPeer, PeerRecord, LinkState
<1>3. IdleReq \in ReqRecord /\ IdleWd \in WdRecord
    BY DEF ReqRecord, WdRecord
<1>4. events \in Seq(Event) /\ Len(events) <= Capacity
    BY CapacityAssumption DEF Init
<1> QED BY <1>1, <1>2, <1>3, <1>4 DEF Init, TypeOK

\* Setting a link's status keeps the transport's table well typed.
LEMMA SetLinkType ==
    ASSUME TypeOK, NEW p \in Peers, NEW s \in LinkStatus, SetLink(p, s)
    PROVE  link' \in [Peers -> LinkRecord]
BY TimingAssumption DEF TypeOK, SetLink, LinkRecord

\* Every step keeps the types.
LEMMA NextType == TypeOK /\ [Next]_vars => TypeOK'
<1> SUFFICES ASSUME TypeOK, [Next]_vars PROVE TypeOK'
    OBVIOUS
<1> USE NoPeerAssumption, NoObjAssumption
<1>t. /\ registry \in [Peers -> Objs \cup {NoObj}]
      /\ obj \in [Objs -> PeerRecord]
      /\ link \in [Peers -> LinkRecord]
      /\ events \in Seq(Event) /\ Len(events) <= Capacity
      /\ missed \in SUBSET Peers
      /\ req \in [Reqs -> ReqRecord] /\ wd \in WdRecord /\ late \in BOOLEAN
    BY DEF TypeOK
<1>1. ASSUME NEW p \in Peers, LinkActivates(p) PROVE TypeOK'
    <2>1. [peer |-> p, kind |-> "Activated"] \in Event
        BY DEF Event
    <2>2. link' \in [Peers -> LinkRecord]
        BY <1>1, SetLinkType DEF LinkActivates, LinkStatus
    <2>3. events' \in Seq(Event) /\ Len(events') <= Capacity /\ missed' \in SUBSET Peers
        BY <1>1, <2>1, EmitType DEF LinkActivates
    <2> QED BY <1>1, <2>2, <2>3 DEF TypeOK, LinkActivates
<1>2. ASSUME NEW p \in Peers, LinkCloses(p) PROVE TypeOK'
    <2>1. [peer |-> p, kind |-> "Closed"] \in Event
        BY DEF Event
    <2>2. link' \in [Peers -> LinkRecord]
        BY <1>2, SetLinkType DEF LinkCloses, LinkStatus
    <2>3. events' \in Seq(Event) /\ Len(events') <= Capacity /\ missed' \in SUBSET Peers
        BY <1>2, <2>1, EmitType DEF LinkCloses
    <2>4. late' \in BOOLEAN
        BY <1>t, <1>2 DEF LinkCloses
    <2> QED BY <1>2, <2>2, <2>3, <2>4 DEF TypeOK, LinkCloses
<1>3. ASSUME NEW p \in Peers, LinkDrifts(p) PROVE TypeOK'
    <2>1. link' \in [Peers -> LinkRecord]
        BY <1>3, SetLinkType DEF LinkDrifts, LinkStatus
    <2> QED BY <1>3, <2>1 DEF TypeOK, LinkDrifts
<1>17. ASSUME NEW p \in Peers, LinkRestarts(p) PROVE TypeOK'
    <2>1. PICK a \in 0..PendingTimeout :
              link' = [link EXCEPT ![p] = [status |-> "Pending", age |-> a, again |-> TRUE]]
        BY <1>17 DEF LinkRestarts
    <2>2. [status |-> "Pending", age |-> a, again |-> TRUE] \in LinkRecord
        BY DEF LinkRecord, LinkStatus
    <2>3. link' \in [Peers -> LinkRecord]
        BY <1>t, <2>1, <2>2
    <2> QED BY <1>17, <2>3 DEF TypeOK, LinkRestarts
<1>4. ASSUME Tick PROVE TypeOK'
    <2>1. ASSUME NEW o \in Objs
          PROVE  [obj[o] EXCEPT !.cool = IF @ > 0 THEN @ - 1 ELSE 0] \in PeerRecord
        BY <1>t, TimingAssumption, SMTT(30) DEF PeerRecord
    <2>2. obj' \in [Objs -> PeerRecord]
        BY <1>4, <2>1 DEF Tick
    <2>3. ASSUME NEW p \in Peers, link[p].age < PendingTimeout
          PROVE  [link[p] EXCEPT !.age = @ + 1] \in LinkRecord
        BY <1>t, <2>3, TimingAssumption, SMTT(30) DEF LinkRecord
    <2>4. link' \in [Peers -> LinkRecord]
        BY <1>t, <1>4, <2>3 DEF Tick
    <2> QED BY <1>4, <2>2, <2>4 DEF TypeOK, Tick
<1>5. ASSUME NEW p \in Peers, NEW r \in Reqs, Announce(p, r) PROVE TypeOK'
    <2>1. NewPeer("Discovered") \in PeerRecord
        BY TimingAssumption DEF NewPeer, PeerRecord, LinkState
    <2>2. registry' = registry \/ \E o \in Objs : registry' = [registry EXCEPT ![p] = o]
        BY <1>5 DEF Announce
    <2>3. registry' \in [Peers -> Objs \cup {NoObj}]
        BY <1>t, <2>2
    <2>4. obj' = obj \/ \E o \in Objs : obj' = [obj EXCEPT ![o] = NewPeer("Discovered")]
        BY <1>5 DEF Announce
    <2>5. obj' \in [Objs -> PeerRecord]
        BY <1>t, <2>1, <2>4
    <2>6. [pc |-> "start", peer |-> p, obj |-> NoObj] \in ReqRecord
        BY DEF ReqRecord
    <2>7. req' \in [Reqs -> ReqRecord]
        BY <1>t, <1>5, <2>6 DEF Announce
    <2> QED BY <1>5, <2>3, <2>5, <2>7 DEF TypeOK, Announce
<1>6. ASSUME NEW r \in Reqs, ReqStart(r) PROVE TypeOK'
    <2>1. req[r] \in ReqRecord /\ req[r].pc = "start" /\ req[r].peer \in Peers
        BY <1>t, <1>6 DEF ReqRecord, IdleReq, ReqStart
    <2>2. [req[r] EXCEPT !.pc = "find", !.obj = registry[req[r].peer]] \in ReqRecord
        BY <1>t, <2>1 DEF ReqRecord, IdleReq
    <2>3. IdleReq \in ReqRecord
        BY DEF ReqRecord
    <2>4. req' = [req EXCEPT ![r] = [req[r] EXCEPT !.pc = "find",
                                                   !.obj = registry[req[r].peer]]]
          \/ req' = [req EXCEPT ![r] = IdleReq]
        BY <1>6 DEF ReqStart
    <2>5. req' \in [Reqs -> ReqRecord]
        BY <1>t, <2>2, <2>3, <2>4
    <2> QED BY <1>6, <2>5 DEF TypeOK, ReqStart
<1>7. ASSUME NEW r \in Reqs, ReqDecide(r) PROVE TypeOK'
    <2>1. ASSUME NEW x \in Objs
          PROVE  [obj[x] EXCEPT !.inflight = TRUE, !.state = "Pending"] \in PeerRecord
        BY <1>t DEF PeerRecord, LinkState
    <2>2. BeginLinkRequest(req[r].obj) \in [Objs -> PeerRecord]
        BY <1>t, <2>1 DEF BeginLinkRequest
    <2>3. obj' \in [Objs -> PeerRecord]
        BY <1>t, <1>7, <2>2, FreedType DEF ReqDecide
    <2>4. req[r] \in ReqRecord /\ req[r].pc = "find"
        BY <1>t, <1>7 DEF ReqDecide
    <2>5. IdleReq \in ReqRecord /\ [req[r] EXCEPT !.pc = "link"] \in ReqRecord
        BY <2>4 DEF ReqRecord, IdleReq
    <2>6. req' = [req EXCEPT ![r] = IdleReq]
          \/ req' = [req EXCEPT ![r] = [req[r] EXCEPT !.pc = "link"]]
        BY <1>7 DEF ReqDecide
    <2>7. req' \in [Reqs -> ReqRecord]
        BY <1>t, <2>5, <2>6
    <2> QED BY <1>7, <2>3, <2>7 DEF TypeOK, ReqDecide
<1>8. ASSUME NEW r \in Reqs, ReqLink(r) PROVE TypeOK'
    <2>1. req[r] \in ReqRecord /\ req[r].pc = "link" /\ req[r].peer \in Peers
        BY <1>t, <1>8 DEF ReqLink, ReqRecord, IdleReq
    <2>2. link' \in [Peers -> LinkRecord]
        BY <1>t, <1>8, <2>1, SetLinkType DEF ReqLink, LinkStatus
    <2>3. [req[r] EXCEPT !.pc = "finish"] \in ReqRecord
        BY <2>1 DEF ReqRecord, IdleReq
    <2>4. req' = [req EXCEPT ![r] = [req[r] EXCEPT !.pc = "finish"]]
        BY <1>8 DEF ReqLink
    <2>5. req' \in [Reqs -> ReqRecord]
        BY <1>t, <2>3, <2>4
    <2> QED BY <1>8, <2>2, <2>5 DEF TypeOK, ReqLink
<1>9. ASSUME NEW r \in Reqs, ReqFinish(r) PROVE TypeOK'
    <2>1. FinishLinkRequest(req[r].obj) \in [Objs -> PeerRecord]
        <3>1. ASSUME NEW x \in Objs
              PROVE  [obj[x] EXCEPT !.inflight = FALSE] \in PeerRecord
            BY <1>t DEF PeerRecord
        <3> QED BY <1>t, <3>1 DEF FinishLinkRequest
    <2>2. obj' \in [Objs -> PeerRecord]
        BY <1>9, <2>1, FreedType DEF ReqFinish
    <2>3. req' \in [Reqs -> ReqRecord]
        BY <1>t, <1>9 DEF ReqFinish, ReqRecord
    <2> QED BY <1>9, <2>2, <2>3 DEF TypeOK, ReqFinish
<1>10. ASSUME EvActivated PROVE TypeOK'
    <2>0. /\ Head(events) \in Event /\ Tail(events) \in Seq(Event)
          /\ Len(Tail(events)) <= Capacity
        BY <1>t, <1>10, CapacityAssumption DEF EvActivated
    <2>1. Head(events).peer \in Peers /\ events' \in Seq(Event) /\ Len(events') <= Capacity
        BY <1>10, <2>0 DEF EvActivated, Event
    <2>2. obj' \in [Objs -> PeerRecord]
        BY <1>t, <1>10, <2>1, WriteType DEF EvActivated, Registered
    <2> QED BY <1>t, <1>10, <2>1, <2>2 DEF TypeOK, EvActivated
<1>11. ASSUME EvClosed PROVE TypeOK'
    <2>0. /\ Head(events) \in Event /\ Tail(events) \in Seq(Event)
          /\ Len(Tail(events)) <= Capacity
        BY <1>t, <1>11, CapacityAssumption DEF EvClosed
    <2>1. Head(events).peer \in Peers /\ events' \in Seq(Event) /\ Len(events') <= Capacity
        BY <1>11, <2>0 DEF EvClosed, Event
    <2>2. obj' \in [Objs -> PeerRecord]
        BY <1>t, <1>11, <2>1, WriteType DEF EvClosed, Registered
    <2> QED BY <1>t, <1>11, <2>1, <2>2 DEF TypeOK, EvClosed
<1>12. ASSUME WdStart PROVE TypeOK'
    <2>1. wd' = [pc |-> "scan", todo |-> {<<p, registry[p]>> : p \in Registered},
                 peer |-> NoPeer, obj |-> NoObj, seen |-> "Absent", stuck |-> FALSE]
        BY <1>12 DEF WdStart, IdleWd
    <2>2. {<<p, registry[p]>> : p \in Registered} \in SUBSET (Peers \X Objs)
        BY <1>t DEF Registered
    <2>3. wd' \in WdRecord
        BY <2>1, <2>2 DEF WdRecord
    <2> QED BY <1>12, <2>3 DEF TypeOK, WdStart
<1>13. ASSUME NEW w \in wd.todo, WdRead(w) PROVE TypeOK'
    <2>1. w[1] \in Peers /\ w[2] \in Objs /\ wd.todo \in SUBSET (Peers \X Objs)
        BY <1>t, WdTodoType
    <2>2. link[w[1]].status \in LinkStatus
        BY <1>t, <2>1 DEF LinkRecord
    <2>3. obj' \in [Objs -> PeerRecord]
        BY <1>t, <1>13, FreedType DEF WdRead
    <2>4. ASSUME link[w[1]].status # "Absent"
          PROVE  [pc |-> "sync", todo |-> wd.todo, peer |-> w[1], obj |-> w[2],
                  seen |-> link[w[1]].status, stuck |-> NeedsReset(w[1])] \in WdRecord
        <3>1. NeedsReset(w[1]) \in BOOLEAN
            BY DEF NeedsReset
        <3> QED BY <2>1, <2>2, <2>4, <3>1 DEF WdRecord
    <2>5. wd' \in WdRecord
        BY <1>13, <2>4, WdNextType DEF WdRead
    <2> QED BY <1>13, <2>3, <2>5 DEF TypeOK, WdRead
<1>18. ASSUME WdSync PROVE TypeOK'
    <2>1. wd.peer \in Peers /\ wd.obj \in Objs /\ wd.seen \in LinkStatus \ {"Absent"}
        BY <1>18, WdTodoType DEF WdSync
    <2>2. obj' \in [Objs -> PeerRecord]
        BY <1>18, <2>1, WriteType, FreedType DEF WdSync
    <2>3. [wd EXCEPT !.pc = "close"] \in WdRecord
        BY <1>18, WdTodoType DEF WdSync
    <2>4. wd' \in WdRecord
        BY <1>18, <2>3, WdNextType DEF WdSync
    <2>5. missed' \in SUBSET Peers /\ late' \in BOOLEAN
        BY <1>t, <1>18, <2>1 DEF WdSync
    <2> QED BY <1>18, <2>2, <2>4, <2>5 DEF TypeOK, WdSync
<1>14. ASSUME WdClose PROVE TypeOK'
    <2>1. wd.peer \in Peers /\ wd.obj \in Objs
        BY <1>14, WdTodoType DEF WdClose
    <2>2. wd' \in WdRecord
        BY <1>14, WdNextType DEF WdClose
    <2>3. obj' \in [Objs -> PeerRecord]
        BY <1>t, <1>14, <2>1, WriteType, FreedType DEF WdClose
    <2>4. [peer |-> wd.peer, kind |-> "Closed"] \in Event
        BY <2>1 DEF Event
    <2>5. link' \in [Peers -> LinkRecord]
        BY <1>t, <1>14, <2>1, SetLinkType DEF WdClose, LinkStatus
    <2>6. events' \in Seq(Event) /\ Len(events') <= Capacity /\ missed' \in SUBSET Peers
        BY <1>t, <1>14, <2>4, EmitType DEF WdClose
    <2> QED BY <1>14, <2>2, <2>3, <2>5, <2>6 DEF TypeOK, WdClose
<1>15. ASSUME NEW all \in BOOLEAN, NEW S \in SUBSET Peers, ReplacePeerPolicy(all, S)
       PROVE  TypeOK'
    <2>1. registry' \in [Peers -> Objs \cup {NoObj}]
        BY <1>t, <1>15 DEF ReplacePeerPolicy
    <2>2. obj' \in [Objs -> PeerRecord]
        BY <1>t, <1>15, FreedType DEF ReplacePeerPolicy
    <2> QED BY <1>15, <2>1, <2>2 DEF TypeOK, ReplacePeerPolicy
<1>16. CASE UNCHANGED vars
    BY <1>16 DEF vars, TypeOK
<1> QED
    BY <1>1, <1>2, <1>3, <1>4, <1>5, <1>6, <1>7, <1>8, <1>9, <1>10, <1>11, <1>12,
       <1>13, <1>14, <1>15, <1>16, <1>17, <1>18
       DEF Next, Transport, ReqStep, EventTask, Watchdog

\* The runtime never leaves its types: the registry only holds records of the
\* heap, tasks only records and hashes, the event channel never outgrows its
\* capacity, cooldowns and ages never outgrow their timeouts.
THEOREM TypeCorrect == Spec => []TypeOK
BY InitType, NextType, PTL DEF Spec

-----------------------------------------------------------------------------
(* The in-flight guard.                                                    *)

\* Freeing cells never sets a guard.
LEMMA FreedGuard ==
    ASSUME NEW f, NEW o \in Objs, Freed(f)[o].inflight PROVE f[o].inflight
BY DEF Freed, NewPeer

\* A step that sets no guard, and moves no task out of a guarded section,
\* leaks no guard.
LEMMA GuardKept ==
    ASSUME NoLeakedGuard,
           \A o \in Objs : obj'[o].inflight => obj[o].inflight,
           \A r \in Reqs : req[r].pc \in {"link", "finish"} =>
               req'[r].pc \in {"link", "finish"} /\ req'[r].obj = req[r].obj
    PROVE  NoLeakedGuard'
BY DEF NoLeakedGuard, Guarded

LEMMA NextGuard == TypeOK /\ NoLeakedGuard /\ [Next]_vars => NoLeakedGuard'
<1> SUFFICES ASSUME TypeOK, NoLeakedGuard, [Next]_vars PROVE NoLeakedGuard'
    OBVIOUS
<1> USE NoObjAssumption
<1>t. /\ registry \in [Peers -> Objs \cup {NoObj}]
      /\ obj \in [Objs -> PeerRecord]
      /\ req \in [Reqs -> ReqRecord] /\ wd \in WdRecord
    BY DEF TypeOK
<1>g. ASSUME NEW o \in Objs
      PROVE  /\ \A x \in Objs : Activated(o)[x].inflight => obj[x].inflight
             /\ \A x \in Objs : ClosedDown(o)[x].inflight => obj[x].inflight
             /\ \A s \in LinkStatus \ {"Absent"}, x \in Objs :
                    SyncPeerLinkState(o, s)[x].inflight => obj[x].inflight
    <2>1. ASSUME NEW x \in Objs PROVE Activated(o)[x].inflight => obj[x].inflight
        BY <1>t DEF Activated
    <2>2. ASSUME NEW x \in Objs PROVE ClosedDown(o)[x].inflight => obj[x].inflight
        BY <1>t DEF ClosedDown
    <2>3. ASSUME NEW s \in LinkStatus \ {"Absent"}, NEW x \in Objs
          PROVE  SyncPeerLinkState(o, s)[x].inflight => obj[x].inflight
        BY <1>t, <2>1 DEF SyncPeerLinkState, LinkStatus, PeerRecord
    <2> QED BY <2>1, <2>2, <2>3
<1>1. ASSUME NEW p \in Peers,
             LinkActivates(p) \/ LinkCloses(p) \/ LinkDrifts(p) \/ LinkRestarts(p)
      PROVE  NoLeakedGuard'
    BY <1>1 DEF LinkActivates, LinkCloses, LinkDrifts, LinkRestarts, NoLeakedGuard, Guarded
<1>2. CASE Tick
    BY <1>t, <1>2, GuardKept DEF Tick, PeerRecord
<1>3. ASSUME NEW p \in Peers, NEW r \in Reqs, Announce(p, r) PROVE NoLeakedGuard'
    <2>1. \A o \in Objs : obj'[o].inflight => obj[o].inflight
        BY <1>t, <1>3 DEF Announce, NewPeer
    <2>2. req[r].pc = "idle" /\ \A s \in Reqs \ {r} : req'[s] = req[s]
        BY <1>t, <1>3 DEF Announce
    <2> QED BY <2>1, <2>2, GuardKept
<1>4. ASSUME NEW r \in Reqs, ReqStart(r) PROVE NoLeakedGuard'
    <2>1. obj' = obj /\ req[r].pc = "start" /\ \A s \in Reqs \ {r} : req'[s] = req[s]
        BY <1>t, <1>4 DEF ReqStart
    <2> QED BY <2>1, GuardKept
<1>5. ASSUME NEW r \in Reqs, ReqDecide(r) PROVE NoLeakedGuard'
    <2>0. req[r].pc = "find" /\ \A s \in Reqs \ {r} : req'[s] = req[s]
        BY <1>t, <1>5 DEF ReqDecide
    <2>1. CASE obj' = Freed(obj)
        BY <2>0, <2>1, FreedGuard, GuardKept
    <2>2. CASE obj' = BeginLinkRequest(req[r].obj) /\ req' = [req EXCEPT ![r].pc = "link"]
        <3>1. req'[r].pc = "link" /\ req'[r].obj = req[r].obj
            BY <1>t, <2>2 DEF ReqRecord, IdleReq
        <3>2. ASSUME NEW o \in Objs, obj'[o].inflight PROVE Guarded(o)' # {}
            <4>1. CASE o = req[r].obj
                BY <3>1, <4>1 DEF Guarded
            <4>2. CASE o # req[r].obj
                <5>1. obj[o].inflight
                    BY <2>2, <3>2, <4>2 DEF BeginLinkRequest
                <5>2. PICK s \in Reqs : req[s].pc \in {"link", "finish"} /\ req[s].obj = o
                    BY <5>1 DEF NoLeakedGuard, Guarded
                <5> QED BY <2>0, <5>2 DEF Guarded
            <4> QED BY <4>1, <4>2
        <3> QED BY <3>2 DEF NoLeakedGuard
    <2> QED BY <1>5, <2>1, <2>2 DEF ReqDecide
<1>6. ASSUME NEW r \in Reqs, ReqLink(r) PROVE NoLeakedGuard'
    <2>1. obj' = obj /\ req'[r].pc = "finish" /\ req'[r].obj = req[r].obj
        BY <1>t, <1>6 DEF ReqLink, ReqRecord, IdleReq
    <2>2. \A s \in Reqs \ {r} : req'[s] = req[s]
        BY <1>t, <1>6 DEF ReqLink
    <2> QED BY <2>1, <2>2, GuardKept
<1>7. ASSUME NEW r \in Reqs, ReqFinish(r) PROVE NoLeakedGuard'
    <2>1. \A s \in Reqs \ {r} : req'[s] = req[s]
        BY <1>t, <1>7 DEF ReqFinish
    <2>2. ASSUME NEW o \in Objs, obj'[o].inflight PROVE Guarded(o)' # {}
        <3>1. FinishLinkRequest(req[r].obj)[o].inflight
            BY <1>7, <2>2, FreedGuard DEF ReqFinish
        <3>2. o # req[r].obj /\ obj[o].inflight
            BY <1>t, <3>1 DEF FinishLinkRequest, PeerRecord
        <3>3. PICK s \in Reqs : req[s].pc \in {"link", "finish"} /\ req[s].obj = o
            BY <3>2 DEF NoLeakedGuard, Guarded
        <3>4. s # r
            BY <3>2, <3>3
        <3> QED BY <2>1, <3>3, <3>4 DEF Guarded
    <2> QED BY <2>2 DEF NoLeakedGuard
<1>8. CASE EvActivated
    <2>1. req' = req /\ obj' \in {obj} \cup {Activated(o) : o \in Objs}
        BY <1>t, <1>8 DEF EvActivated, Registered
    <2> QED BY <1>g, <2>1, GuardKept
<1>9. CASE EvClosed
    <2>1. req' = req /\ obj' \in {obj} \cup {ClosedDown(o) : o \in Objs}
        BY <1>t, <1>9 DEF EvClosed, Registered
    <2> QED BY <1>g, <2>1, GuardKept
<1>10. CASE WdStart
    BY <1>10 DEF WdStart, NoLeakedGuard, Guarded
<1>11. ASSUME NEW w \in wd.todo, WdRead(w) PROVE NoLeakedGuard'
    <2>1. req' = req /\ obj' = Freed(obj)
        BY <1>11 DEF WdRead
    <2> QED BY <2>1, FreedGuard, GuardKept
<1>15. CASE WdSync
    <2>1. wd.obj \in Objs /\ wd.seen \in LinkStatus \ {"Absent"}
        BY <1>15, WdTodoType DEF WdSync
    <2>2. req' = req /\ obj' = Freed(SyncPeerLinkState(wd.obj, wd.seen))
        BY <1>15 DEF WdSync
    <2> QED BY <1>g, <2>1, <2>2, FreedGuard, GuardKept
<1>12. CASE WdClose
    <2>1. wd.obj \in Objs
        BY <1>12, WdTodoType DEF WdClose
    <2>2. req' = req /\ (obj' = Freed(obj) \/ obj' = Freed(ClosedDown(wd.obj)))
        BY <1>12 DEF WdClose
    <2> QED BY <1>g, <2>1, <2>2, FreedGuard, GuardKept
<1>13. ASSUME NEW all \in BOOLEAN, NEW S \in SUBSET Peers, ReplacePeerPolicy(all, S)
       PROVE  NoLeakedGuard'
    <2>1. req' = req /\ obj' = Freed(obj)
        BY <1>13 DEF ReplacePeerPolicy
    <2> QED BY <2>1, FreedGuard, GuardKept
<1>14. CASE UNCHANGED vars
    BY <1>14 DEF vars, NoLeakedGuard, Guarded
<1> QED
    BY <1>1, <1>2, <1>3, <1>4, <1>5, <1>6, <1>7, <1>8, <1>9, <1>10, <1>11, <1>12,
       <1>13, <1>14, <1>15
       DEF Next, Transport, ReqStep, EventTask, Watchdog

\* No interleaving of announces, requests, link events, watchdog rounds and
\* policy changes leaves a peer's in-flight guard set with nobody to clear it.
THEOREM GuardNeverLeaks == Spec => []NoLeakedGuard
<1>1. Init => NoLeakedGuard
    BY DEF Init, NoLeakedGuard, NewPeer
<1> QED BY <1>1, NextGuard, TypeCorrect, PTL DEF Spec

-----------------------------------------------------------------------------
(* Active peers and their links.                                           *)

\* Each record belongs to one peer, also for the watchdog, whose snapshot and
\* whose current entry may be older than the registry.
OneOwner ==
    /\ \A p, q \in Registered : registry[p] = registry[q] => p = q
    /\ \A w \in wd.todo : \A q \in Registered : registry[q] = w[2] => q = w[1]
    /\ wd.pc = "sync" => \A q \in Registered : registry[q] = wd.obj => q = wd.peer

\* A cell nobody holds does not look Active to whoever gets it next.
FreeNotActive == \A o \in Objs \ Live : obj[o].state # "Active"

\* An Activated event still queued is about a link that is up, or is followed
\* by the Closed event of that link.
ActivatedThenUp ==
    \A p \in Peers : \A i \in 1..Len(events) : events[i] = [peer |-> p, kind |-> "Activated"] =>
        \/ Up(p)
        \/ \E j \in (i+1)..Len(events) : events[j] = [peer |-> p, kind |-> "Closed"]

\* What the watchdog read as active is still up, unless it was late.
ReadUp == wd.pc = "sync" /\ wd.seen = "Active" => late \/ Up(wd.peer)

ActiveInv == OneOwner /\ FreeNotActive /\ ActivatedThenUp /\ ReadUp /\ ActiveMeansUp

\* Receiving the oldest event keeps the order of the others.
LEMMA TailOrder ==
    ASSUME TypeOK, ActivatedThenUp, events # <<>>, events' = Tail(events),
           \A p \in Peers : Up(p) => Up(p)'
    PROVE  /\ ActivatedThenUp'
           /\ \A p \in Peers : Head(events) # [peer |-> p, kind |-> "Closed"]
                  /\ ClosedQueued(p) => ClosedQueued(p)'
           /\ \A p \in Peers : Head(events) = [peer |-> p, kind |-> "Activated"]
                  => Up(p)' \/ ClosedQueued(p)'
<1> DEFINE A(p) == [peer |-> p, kind |-> "Activated"]
           C(p) == [peer |-> p, kind |-> "Closed"]
<1>1. /\ events \in Seq(Event) /\ Len(events) \in Nat \ {0}
      /\ Len(events') = Len(events) - 1
      /\ \A i \in 1..Len(events') : events'[i] = events[i + 1]
      /\ Head(events) = events[1]
    BY DEF TypeOK
<1>2. ASSUME NEW p \in Peers, NEW i \in 1..Len(events'), events'[i] = A(p)
      PROVE  Up(p)' \/ \E j \in (i+1)..Len(events') : events'[j] = C(p)
    <2>1. i + 1 \in 1..Len(events) /\ events[i + 1] = A(p)
        BY <1>1, <1>2
    <2>2. CASE \E j \in (i+2)..Len(events) : events[j] = C(p)
        <3>1. PICK j \in (i+2)..Len(events) : events[j] = C(p)
            BY <2>2
        <3>2. j - 1 \in (i+1)..Len(events') /\ events'[j - 1] = events[j]
            BY <1>1, <3>1
        <3> QED BY <3>1, <3>2
    <2>3. Up(p) \/ \E j \in ((i+1)+1)..Len(events) : events[j] = C(p)
        BY <2>1 DEF ActivatedThenUp
    <2>4. (i+1)+1 = i+2
        OBVIOUS
    <2> QED BY <2>2, <2>3, <2>4
<1>3. ActivatedThenUp'
    BY <1>2 DEF ActivatedThenUp
<1>4. ASSUME NEW p \in Peers, Head(events) # C(p), ClosedQueued(p)
      PROVE  ClosedQueued(p)'
    <2>1. PICK i \in 1..Len(events) : events[i] = C(p)
        BY <1>4 DEF ClosedQueued
    <2>2. i - 1 \in 1..Len(events') /\ events'[i - 1] = events[i]
        BY <1>1, <1>4, <2>1
    <2> QED BY <2>1, <2>2 DEF ClosedQueued
<1>5. ASSUME NEW p \in Peers, Head(events) = A(p)
      PROVE  Up(p)' \/ ClosedQueued(p)'
    <2>1. 1 \in 1..Len(events) /\ events[1] = A(p)
        BY <1>1, <1>5
    <2>2. Up(p) \/ \E j \in (1+1)..Len(events) : events[j] = C(p)
        BY <2>1 DEF ActivatedThenUp
    <2>3. CASE \E j \in (1+1)..Len(events) : events[j] = C(p)
        <3>1. PICK j \in 2..Len(events) : events[j] = C(p)
            BY <2>3
        <3>2. j - 1 \in 1..Len(events') /\ events'[j - 1] = events[j]
            BY <1>1, <3>1
        <3> QED BY <3>1, <3>2 DEF ClosedQueued
    <2> QED BY <2>2, <2>3
<1> QED BY <1>3, <1>4, <1>5

\* Broadcasting an event that tells the truth about its link keeps the order,
\* and forgets a Closed event only by marking its peer.
LEMMA EmitOrder ==
    ASSUME TypeOK, ActivatedThenUp, NEW q \in Peers, NEW k \in {"Activated", "Closed"},
           Emit([peer |-> q, kind |-> k]),
           \A p \in Peers \ {q} : Up(p) <=> Up(p)',
           k = "Activated" => Up(q)'
    PROVE  /\ ActivatedThenUp'
           /\ \A p \in Peers : p \in missed \/ ClosedQueued(p)
                                 => p \in missed' \/ ClosedQueued(p)'
           /\ k = "Closed" => ClosedQueued(q)'
<1> DEFINE A(p) == [peer |-> p, kind |-> "Activated"]
           C(p) == [peer |-> p, kind |-> "Closed"]
           e == [peer |-> q, kind |-> k]
           Shifted(d) ==
               /\ Len(events') = Len(events) + 1 - d
               /\ \A i \in 1..Len(events) - d : events'[i] = events[i + d]
               /\ events'[Len(events) + 1 - d] = e
               /\ d = 0 => missed' = missed
               /\ d = 1 => /\ Len(events) > 0
                           /\ missed' = IF events[1].kind = "Closed"
                                         THEN missed \cup {events[1].peer} ELSE missed
<1>1. /\ e \in Event /\ events \in Seq(Event) /\ Len(events) \in Nat
      /\ Capacity \in Nat \ {0} /\ missed \in SUBSET Peers
    BY CapacityAssumption DEF TypeOK, Event
<1>2. \E d \in {0, 1} : Shifted(d)
    <2>1. CASE Len(events) < Capacity
        <3>1. events' = Append(events, e) /\ missed' = missed
            BY <2>1 DEF Emit
        <3>2. Shifted(0)
            BY <1>1, <3>1
        <3> QED BY <3>2
    <2>2. CASE ~(Len(events) < Capacity)
        <3>1. /\ events' = Append(Tail(events), e)
              /\ missed' = IF Head(events).kind = "Closed"
                            THEN missed \cup {Head(events).peer} ELSE missed
            BY <2>2 DEF Emit
        <3>2. Len(events) > 0 /\ events # <<>>
            BY <1>1, <2>2
        <3>3. /\ Tail(events) \in Seq(Event) /\ Len(Tail(events)) = Len(events) - 1
              /\ \A i \in 1..Len(events) - 1 : Tail(events)[i] = events[i + 1]
              /\ Head(events) = events[1]
            BY <1>1, <3>2
        <3>4. /\ Len(events') = Len(events)
              /\ \A i \in 1..Len(events) - 1 : events'[i] = Tail(events)[i]
              /\ events'[Len(events)] = e
            BY <1>1, <3>1, <3>2, <3>3
        <3>5. Len(events) + 1 - 1 = Len(events)
            BY <1>1
        <3>6. \A i \in 1..Len(events) - 1 : events'[i] = events[i + 1]
            BY <3>3, <3>4
        <3>7. Len(events') = Len(events) + 1 - 1 /\ events'[Len(events) + 1 - 1] = e
            BY <3>4, <3>5
        <3>8. missed' = IF events[1].kind = "Closed"
                         THEN missed \cup {events[1].peer} ELSE missed
            BY <3>1, <3>3
        <3>9. Shifted(1)
            BY <3>2, <3>6, <3>7, <3>8
        <3> QED BY <3>9
    <2> QED BY <2>1, <2>2
<1>3. PICK d \in {0, 1} : Shifted(d)
    BY <1>2
<1>4. ASSUME NEW p \in Peers, NEW i \in 1..Len(events'), events'[i] = A(p)
      PROVE  Up(p)' \/ \E j \in (i+1)..Len(events') : events'[j] = C(p)
    <2>1. CASE i = Len(events')
        <3>1. e = A(p)
            BY <1>1, <1>3, <1>4, <2>1
        <3> QED BY <3>1
    <2>2. CASE i # Len(events')
        <3>1. i + d \in 1..Len(events) /\ events[i + d] = A(p)
            BY <1>1, <1>3, <1>4, <2>2
        <3>2. Up(p) \/ \E j \in ((i + d)+1)..Len(events) : events[j] = C(p)
            BY <3>1 DEF ActivatedThenUp
        <3>3. CASE \E j \in ((i + d)+1)..Len(events) : events[j] = C(p)
            <4>1. PICK j \in ((i + d)+1)..Len(events) : events[j] = C(p)
                BY <3>3
            <4>2. j \in Nat /\ i \in Nat /\ d \in Nat /\ i >= 1
                      /\ j >= i + d + 1 /\ j <= Len(events)
                BY <1>1, <4>1
            <4>3. j - d \in (i + 1)..Len(events')
                BY <1>1, <1>3, <4>2
            <4>4. j - d \in 1..Len(events) - d /\ (j - d) + d = j
                BY <1>1, <4>2
            <4>5. events'[j - d] = events[j]
                BY <1>3, <4>4
            <4> QED BY <4>1, <4>3, <4>5
        <3>4. CASE Up(p) /\ p = q /\ k = "Closed"
            <4>1. Len(events') \in (i + 1)..Len(events') /\ events'[Len(events')] = C(p)
                BY <1>1, <1>3, <2>2, <3>4
            <4> QED BY <4>1
        <3> QED BY <3>2, <3>3, <3>4
    <2> QED BY <2>1, <2>2
<1>5. ActivatedThenUp'
    BY <1>4 DEF ActivatedThenUp
<1>6. ASSUME NEW p \in Peers, p \in missed \/ ClosedQueued(p)
      PROVE  p \in missed' \/ ClosedQueued(p)'
    <2>1. CASE p \in missed
        BY <1>3, <2>1
    <2>2. CASE ClosedQueued(p)
        <3>1. PICK i \in 1..Len(events) : events[i] = C(p)
            BY <2>2 DEF ClosedQueued
        <3>2. CASE i = 1 /\ d = 1
            BY <1>3, <3>1, <3>2
        <3>3. CASE ~(i = 1 /\ d = 1)
            <4>1. i - d \in 1..Len(events') /\ events'[i - d] = events[i]
                BY <1>1, <1>3, <3>3
            <4> QED BY <3>1, <4>1 DEF ClosedQueued
        <3> QED BY <3>2, <3>3
    <2> QED BY <1>6, <2>1, <2>2
<1>7. ASSUME k = "Closed" PROVE ClosedQueued(q)'
    BY <1>1, <1>3, <1>7 DEF ClosedQueued
<1> QED BY <1>5, <1>6, <1>7

\* A record in use is not freed, and a freed one no longer looks Active.
LEMMA FreedActive ==
    ASSUME TypeOK', NEW f, obj' = Freed(f)
    PROVE  /\ FreeNotActive'
           /\ \A p \in Registered' : obj'[registry'[p]] = f[registry'[p]]
<1>1. \A o \in Objs \ Live' : obj'[o].state # "Active"
    BY DEF Freed, NewPeer
<1>2. \A p \in Registered' : registry'[p] \in Objs /\ registry'[p] \in Live'
    BY DEF TypeOK, Registered, Live
<1> QED BY <1>1, <1>2 DEF FreeNotActive, Freed

\* No step forgets who held a record unless it frees the records it dropped.
LEMMA LiveKept ==
    ASSUME FreeNotActive, Objs \cap Live \subseteq Live',
           \A o \in Objs \ Live' : obj'[o] = obj[o] \/ obj'[o].state # "Active"
    PROVE  FreeNotActive'
BY DEF FreeNotActive

\* Steps that leave registry, records and rounds alone.
LEMMA TransportActive ==
    ASSUME TypeOK, ActiveInv, NEW q \in Peers,
           LinkActivates(q) \/ LinkCloses(q) \/ LinkDrifts(q) \/ LinkRestarts(q)
    PROVE  ActiveInv'
<1>1. UNCHANGED <<registry, obj, req, wd>>
    BY DEF LinkActivates, LinkCloses, LinkDrifts, LinkRestarts
<1>2. OneOwner' /\ FreeNotActive'
    BY <1>1 DEF ActiveInv, OneOwner, FreeNotActive, Registered, Live
<1>3. \A p \in Peers \ {q} : link'[p] = link[p]
    BY DEF LinkActivates, LinkCloses, LinkDrifts, LinkRestarts, SetLink, TypeOK
<1>5. ReadUp'
    <2>1. CASE LinkCloses(q)
        <3>1. late' = (late \/ (wd.pc = "sync" /\ wd.peer = q))
            BY <2>1 DEF LinkCloses
        <3>2. wd.pc = "sync" => wd.peer \in Peers
            BY WdTodoType
        <3> QED BY <1>1, <1>3, <3>1, <3>2 DEF ActiveInv, ReadUp, Up
    <2>2. CASE ~LinkCloses(q)
        <3>1. late' = late /\ (Up(q) => Up(q)')
            BY <2>2 DEF LinkActivates, LinkDrifts, LinkRestarts, SetLink, Up, TypeOK, LinkRecord
        <3>2. wd.pc = "sync" => wd.peer \in Peers
            BY WdTodoType
        <3> QED BY <1>1, <1>3, <3>1, <3>2 DEF ActiveInv, ReadUp, Up
    <2> QED BY <2>1, <2>2
<1>4. ActivatedThenUp' /\ ActiveMeansUp'
    <2>1. CASE LinkActivates(q)
        <3>1. link'[q].status = "Active" /\ Emit([peer |-> q, kind |-> "Activated"])
            BY <2>1 DEF LinkActivates, SetLink, TypeOK
        <3>2. /\ ActivatedThenUp'
              /\ \A p \in Peers : p \in missed \/ ClosedQueued(p)
                                    => p \in missed' \/ ClosedQueued(p)'
            BY <1>3, <3>1, EmitOrder DEF ActiveInv, Up
        <3> QED BY <1>1, <1>3, <3>1, <3>2 DEF ActiveInv, ActiveMeansUp, Registered, Up
    <2>2. CASE LinkCloses(q)
        <3>1. Emit([peer |-> q, kind |-> "Closed"])
            BY <2>2 DEF LinkCloses
        <3>2. /\ ActivatedThenUp' /\ ClosedQueued(q)'
              /\ \A p \in Peers : p \in missed \/ ClosedQueued(p)
                                    => p \in missed' \/ ClosedQueued(p)'
            BY <1>3, <3>1, EmitOrder DEF ActiveInv, Up
        <3> QED BY <1>1, <1>3, <3>2 DEF ActiveInv, ActiveMeansUp, Registered, Up
    <2>3. CASE LinkDrifts(q) \/ LinkRestarts(q)
        <3>2. UNCHANGED <<events, missed>> /\ (Up(q) <=> Up(q)')
            BY <2>3 DEF LinkDrifts, LinkRestarts, SetLink, TypeOK, LinkRecord, Up
        <3>3. ASSUME NEW p \in Peers PROVE Up(p) <=> Up(p)'
            <4>1. CASE p = q
                BY <3>2, <4>1
            <4>2. CASE p # q
                BY <1>3, <4>2 DEF Up
            <4> QED BY <4>1, <4>2
        <3>1. UNCHANGED <<events, missed>> /\ \A p \in Peers : Up(p) <=> Up(p)'
            BY <3>2, <3>3
        <3> QED BY <1>1, <3>1
            DEF ActiveInv, ActivatedThenUp, ActiveMeansUp, ClosedQueued, Registered
    <2> QED BY <2>1, <2>2, <2>3
<1> QED BY <1>2, <1>4, <1>5 DEF ActiveInv

LEMMA TickActive ==
    ASSUME TypeOK, ActiveInv, Tick PROVE ActiveInv'
<1>1. UNCHANGED <<registry, req, wd, events, missed, late>>
    BY DEF Tick
<1>2. \A o \in Objs : obj'[o].state = obj[o].state
    BY DEF Tick, TypeOK, PeerRecord
<1>3. \A p \in Peers : link'[p].status = link[p].status /\ link'[p].again = link[p].again
    BY DEF Tick, TypeOK, LinkRecord
<1>7. ReadUp'
    <2>1. wd.pc = "sync" => wd.peer \in Peers
        BY WdTodoType
    <2> QED BY <1>1, <1>3, <2>1 DEF ActiveInv, ReadUp, Up
<1>4. OneOwner' /\ FreeNotActive'
    BY <1>1, <1>2 DEF ActiveInv, OneOwner, FreeNotActive, Registered, Live
<1>5. ActivatedThenUp'
    BY <1>1, <1>3 DEF ActiveInv, ActivatedThenUp, Up
<1>6. ActiveMeansUp'
    BY <1>1, <1>2, <1>3 DEF ActiveInv, ActiveMeansUp, ClosedQueued, Up, Registered, TypeOK
<1> QED BY <1>4, <1>5, <1>6, <1>7 DEF ActiveInv

LEMMA AnnounceActive ==
    ASSUME TypeOK, TypeOK', ActiveInv, NEW q \in Peers, NEW r \in Reqs, Announce(q, r)
    PROVE  ActiveInv'
<1> USE NoObjAssumption
<1>1. UNCHANGED <<link, events, missed, late, wd>> /\ req[r].pc = "idle"
    BY DEF Announce
<1>2. req[r].obj = NoObj /\ \A s \in Reqs \ {r} : req'[s] = req[s]
    BY DEF Announce, TypeOK, ReqRecord, IdleReq
<1>3. ActivatedThenUp' /\ ReadUp'
    BY <1>1 DEF ActiveInv, ActivatedThenUp, ReadUp, Up
<1>4. CASE UNCHANGED <<registry, obj>>
    <2>1. Objs \cap Live \subseteq Live'
        BY <1>1, <1>2, <1>4 DEF Live
    <2>2. FreeNotActive'
        BY <1>4, <2>1, LiveKept DEF ActiveInv
    <2> QED BY <1>1, <1>3, <1>4, <2>2
        DEF ActiveInv, OneOwner, ActiveMeansUp, ClosedQueued, Up, Registered
<1>5. CASE q \notin Registered
    <2>1. PICK o \in Objs \ Live : /\ registry' = [registry EXCEPT ![q] = o]
                                  /\ obj' = [obj EXCEPT ![o] = NewPeer("Discovered")]
        BY <1>5 DEF Announce
    <2>2. /\ registry[q] = NoObj /\ registry'[q] = o
          /\ \A p \in Peers \ {q} : registry'[p] = registry[p] /\ registry[p] # o
          /\ \A w \in wd.todo : w[2] # o
          /\ wd.obj # o
          /\ Registered' = Registered \cup {q} /\ Registered \subseteq Peers \ {q}
          /\ \A p \in Registered : registry[p] \in Objs \ {o}
        BY <1>5, <2>1 DEF Registered, Live, TypeOK
    <2>3. obj'[o].state = "Discovered" /\ \A x \in Objs \ {o} : obj'[x] = obj[x]
        BY <2>1 DEF TypeOK, NewPeer
    <2>4. OneOwner'
        BY <1>1, <2>2 DEF ActiveInv, OneOwner
    <2>5. Objs \cap Live \subseteq Live'
        BY <1>1, <1>2, <2>2 DEF Live
    <2>6. FreeNotActive'
        BY <2>3, <2>5, LiveKept DEF ActiveInv
    <2>7. ASSUME NEW p \in Registered', obj'[registry'[p]].state = "Active"
          PROVE  Up(p)' \/ ClosedQueued(p)' \/ p \in missed'
        <3>1. p \in Registered /\ obj[registry[p]].state = "Active"
            BY <2>2, <2>3, <2>7
        <3>2. Up(p) \/ ClosedQueued(p) \/ p \in missed
            BY <3>1 DEF ActiveInv, ActiveMeansUp
        <3> QED BY <1>1, <3>2 DEF Up, ClosedQueued
    <2>8. ActiveMeansUp'
        BY <2>7 DEF ActiveMeansUp
    <2> QED BY <2>8, <1>3, <2>4, <2>6, <2>7 DEF ActiveInv
<1> QED BY <1>4, <1>5 DEF Announce

LEMMA RequestActive ==
    ASSUME TypeOK, TypeOK', ActiveInv, NEW r \in Reqs, ReqStep(r)
    PROVE  ActiveInv'
<1> USE NoObjAssumption
<1>1. UNCHANGED <<registry, events, missed, late, wd>>
    BY DEF ReqStep, ReqStart, ReqDecide, ReqLink, ReqFinish
<1>2. \A p \in Peers : Up(p) <=> Up(p)'
    <2>1. CASE link' = link
        BY <2>1 DEF Up
    <2>2. CASE ReqLink(r) /\ ~Reusable(link[req[r].peer].status)
        <3>2. PICK q \in Peers : q = req[r].peer
            BY <2>2 DEF ReqLink, TypeOK, ReqRecord, IdleReq
        <3>1. \A p \in Peers : p # q => link'[p] = link[p]
            BY <2>2, <3>2 DEF ReqLink, SetLink, TypeOK
        <3>3. ~Up(q) /\ ~Up(q)'
            BY <2>2, <3>2 DEF ReqLink, SetLink, TypeOK, LinkRecord, Up, Reusable
        <3>4. ASSUME NEW p \in Peers PROVE Up(p) <=> Up(p)'
            <4>1. CASE p = q
                BY <3>3, <4>1
            <4>2. CASE p # q
                BY <3>1, <4>2 DEF Up
            <4> QED BY <4>1, <4>2
        <3> QED BY <3>4
    <2> QED BY <2>1, <2>2 DEF ReqStep, ReqStart, ReqDecide, ReqLink, ReqFinish
<1>6. ReadUp'
    <2>1. wd.pc = "sync" => wd.peer \in Peers
        BY WdTodoType
    <2> QED BY <1>1, <1>2, <2>1 DEF ActiveInv, ReadUp
<1>3. OneOwner' /\ ActivatedThenUp'
    BY <1>1, <1>2 DEF ActiveInv, OneOwner, ActivatedThenUp, Registered
<1>4. /\ FreeNotActive'
      /\ \A p \in Registered' : obj'[registry'[p]].state = "Active"
                                  => obj[registry[p]].state = "Active"
    <2>1. CASE ReqStart(r)
        <3>1. obj' = obj /\ req[r].obj = NoObj /\ \A s \in Reqs \ {r} : req'[s] = req[s]
            BY <2>1 DEF ReqStart, TypeOK, ReqRecord, IdleReq
        <3>2. Objs \cap Live \subseteq Live'
            BY <1>1, <3>1 DEF Live
        <3> QED BY <1>1, <3>1, <3>2, LiveKept DEF ActiveInv
    <2>2. CASE ReqDecide(r)
        <3>1. CASE obj' = Freed(obj)
            BY <1>1, <3>1, FreedActive
        <3>2. CASE obj' = BeginLinkRequest(req[r].obj) /\ req' = [req EXCEPT ![r].pc = "link"]
            <4>1. \A s \in Reqs : req'[s].obj = req[s].obj
                BY <3>2 DEF TypeOK, ReqRecord, IdleReq
            <4>2. Objs \cap Live \subseteq Live'
                BY <1>1, <4>1 DEF Live
            <4>3. \A o \in Objs : obj'[o] = obj[o] \/ obj'[o].state # "Active"
                BY <3>2 DEF BeginLinkRequest, TypeOK, PeerRecord
            <4>4. FreeNotActive'
                BY <4>2, <4>3, LiveKept DEF ActiveInv
            <4>5. \A p \in Registered : registry[p] \in Objs
                BY DEF TypeOK, Registered
            <4> QED BY <1>1, <4>3, <4>4, <4>5 DEF Registered
        <3> QED BY <2>2, <3>1, <3>2 DEF ReqDecide
    <2>3. CASE ReqLink(r)
        <3>1. obj' = obj /\ \A s \in Reqs : req'[s].obj = req[s].obj
            BY <2>3 DEF ReqLink, TypeOK, ReqRecord, IdleReq
        <3>2. Objs \cap Live \subseteq Live'
            BY <1>1, <3>1 DEF Live
        <3> QED BY <1>1, <3>1, <3>2, LiveKept DEF ActiveInv
    <2>4. CASE ReqFinish(r)
        <3>1. obj' = Freed(FinishLinkRequest(req[r].obj))
            BY <2>4 DEF ReqFinish
        <3>2. \A o \in Objs : FinishLinkRequest(req[r].obj)[o].state = obj[o].state
            BY DEF FinishLinkRequest, TypeOK, PeerRecord
        <3>3. \A p \in Registered : registry[p] \in Objs
            BY DEF TypeOK, Registered
        <3> QED BY <1>1, <3>1, <3>2, <3>3, FreedActive DEF Registered
    <2> QED BY <2>1, <2>2, <2>3, <2>4 DEF ReqStep
<1>5. ActiveMeansUp'
    BY <1>1, <1>2, <1>4 DEF ActiveInv, ActiveMeansUp, ClosedQueued, Registered
<1> QED BY <1>3, <1>4, <1>5, <1>6 DEF ActiveInv

LEMMA EventActive ==
    ASSUME TypeOK, TypeOK', ActiveInv, EventTask
    PROVE  ActiveInv'
<1>1. /\ UNCHANGED <<registry, link, req, wd, late>> /\ events # <<>> /\ events' = Tail(events)
      /\ missed' = missed \ {Head(events).peer}
    BY DEF EventTask, EvActivated, EvClosed
<1>2. PICK q \in Peers : \/ Head(events) = [peer |-> q, kind |-> "Activated"]
                         \/ Head(events) = [peer |-> q, kind |-> "Closed"]
    <2>1. Head(events) \in Event
        BY <1>1 DEF TypeOK
    <2> QED BY <2>1 DEF Event
<1>3. /\ ActivatedThenUp'
      /\ \A p \in Peers : Head(events) # [peer |-> p, kind |-> "Closed"] /\ ClosedQueued(p)
                            => ClosedQueued(p)'
      /\ Head(events) = [peer |-> q, kind |-> "Activated"] => Up(q)' \/ ClosedQueued(q)'
    BY <1>1, TailOrder DEF ActiveInv, Up
<1>4. OneOwner' /\ ReadUp' /\ Live' = Live
    BY <1>1 DEF ActiveInv, OneOwner, ReadUp, Up, Registered, Live
<1>5. /\ \A p \in Registered : registry[p] \in Objs /\ registry[p] \in Live
      /\ Registered' = Registered
      /\ \A p \in Registered \ {q} : q \in Registered => registry[p] # registry[q]
    BY <1>1, <1>2 DEF TypeOK, Registered, Live, ActiveInv, OneOwner
<1>6. /\ \A o \in Objs : (q \in Registered => o # registry[q]) => obj'[o] = obj[o]
      /\ q \in Registered /\ Head(events).kind = "Closed" => obj'[registry[q]].state = "Closed"
    BY <1>2, <1>5 DEF EventTask, EvActivated, EvClosed, Activated, ClosedDown, TypeOK
<1>7. FreeNotActive'
    BY <1>4, <1>5, <1>6 DEF ActiveInv, FreeNotActive
<1>8. ASSUME NEW p \in Registered', obj'[registry'[p]].state = "Active"
      PROVE  Up(p)' \/ ClosedQueued(p)' \/ p \in missed'
    <2>1. CASE p = q
        BY <1>1, <1>2, <1>3, <1>5, <1>6, <1>8, <2>1
    <2>2. CASE p # q
        <3>1. p \in Peers /\ p \in Registered /\ obj[registry[p]].state = "Active"
            BY <1>1, <1>5, <1>6, <1>8, <2>2 DEF Registered
        <3>2. Up(p) \/ ClosedQueued(p) \/ p \in missed
            BY <3>1 DEF ActiveInv, ActiveMeansUp
        <3>3. Head(events).peer = q
            BY <1>2
        <3>4. Head(events) # [peer |-> p, kind |-> "Closed"]
            BY <2>2, <3>3
        <3> QED BY <1>1, <1>3, <2>2, <3>1, <3>2, <3>3, <3>4 DEF Up
    <2> QED BY <2>1, <2>2
<1>9. ActiveMeansUp'
    BY <1>8 DEF ActiveMeansUp
<1> QED BY <1>3, <1>4, <1>7, <1>9 DEF ActiveInv

LEMMA WatchdogActive ==
    ASSUME TypeOK, TypeOK', ActiveInv, Watchdog
    PROVE  ActiveInv'
<1>1. CASE WdStart
    <2>1. UNCHANGED <<registry, obj, link, events, missed, req>> /\ wd = IdleWd
        BY <1>1, WdTodoType DEF WdStart
    <2>2. /\ wd'.todo = {<<p, registry[p]>> : p \in Registered} /\ wd'.obj = NoObj
          /\ wd'.pc = "scan"
        BY <1>1 DEF WdStart, IdleWd
    <2>3. Objs \cap Live \subseteq Live'
        BY <2>1, <2>2, NoObjAssumption DEF Live, IdleWd
    <2>4. FreeNotActive'
        BY <2>1, <2>3, LiveKept DEF ActiveInv
    <2>5. OneOwner'
        BY <2>1, <2>2 DEF ActiveInv, OneOwner, Registered
    <2>6. ReadUp'
        BY <2>2 DEF ReadUp
    <2> QED BY <2>1, <2>4, <2>5, <2>6
            DEF ActiveInv, ActivatedThenUp, ActiveMeansUp, ClosedQueued, Up, Registered
<1>2. ASSUME NEW w \in wd.todo, WdRead(w) PROVE ActiveInv'
    <2>1. UNCHANGED <<registry, link, events, req, missed, late>> /\ obj' = Freed(obj)
        BY <1>2 DEF WdRead
    <2>2. /\ wd'.todo \subseteq wd.todo
          /\ \/ wd'.pc # "sync"
             \/ wd'.peer = w[1] /\ wd'.obj = w[2] /\ wd'.seen = link[w[1]].status
        BY <1>2, WdNextType, WdNextLeaves DEF WdRead
    <2>3. OneOwner' /\ ActivatedThenUp' /\ ReadUp'
        BY <2>1, <2>2 DEF ActiveInv, OneOwner, ActivatedThenUp, ReadUp, Registered, Up
    <2>4. FreeNotActive' /\ \A p \in Registered : obj'[registry[p]] = obj[registry[p]]
        BY <2>1, FreedActive DEF Registered
    <2>5. ActiveMeansUp'
        BY <2>1, <2>4 DEF ActiveInv, ActiveMeansUp, ClosedQueued, Up, Registered
    <2> QED BY <2>3, <2>4, <2>5 DEF ActiveInv
<1>4. ASSUME WdSync PROVE ActiveInv'
    <2> DEFINE q == wd.peer
               o == wd.obj
               s == wd.seen
    <2>1. /\ UNCHANGED <<registry, link, events, req>>
          /\ obj' = Freed(SyncPeerLinkState(o, s))
          /\ registry[q] # o => missed' = missed
          /\ \A p \in missed : p # q => p \in missed'
          /\ registry[q] = o /\ s = "Active" /\ late => q \in missed'
          /\ wd.pc = "sync" /\ wd'.pc # "sync" /\ wd'.todo \subseteq wd.todo
        BY <1>4, WdNextType, WdNextLeaves DEF WdSync, TypeOK, WdRecord, IdleWd
    <2>2. q \in Peers /\ o \in Objs /\ s \in LinkStatus \ {"Absent"}
        BY <2>1, WdTodoType
    <2>3. OneOwner' /\ ActivatedThenUp' /\ ReadUp'
        BY <2>1 DEF ActiveInv, OneOwner, ActivatedThenUp, ReadUp, Registered, Up
    <2>4. /\ FreeNotActive'
          /\ \A p \in Registered : obj'[registry[p]] = SyncPeerLinkState(o, s)[registry[p]]
        BY <2>1, FreedActive DEF Registered
    <2>5. \A p \in Registered : registry[p] \in Objs /\ (registry[p] = o => p = q)
        BY <2>1 DEF ActiveInv, OneOwner, TypeOK, Registered
    <2>6. /\ \A x \in Objs \ {o} : SyncPeerLinkState(o, s)[x] = obj[x]
          /\ s # "Active" => SyncPeerLinkState(o, s)[o].state # "Active"
        BY <2>2 DEF SyncPeerLinkState, Activated, TypeOK, PeerRecord, LinkStatus
    <2>7. ASSUME NEW p \in Registered', obj'[registry'[p]].state = "Active"
          PROVE  Up(p)' \/ ClosedQueued(p)' \/ p \in missed'
        <3>1. p \in Registered /\ p \in Peers /\ SyncPeerLinkState(o, s)[registry[p]].state = "Active"
            BY <2>1, <2>4, <2>7 DEF Registered
        <3>2. CASE registry[p] = o
            <4>1. p = q /\ s = "Active"
                BY <2>2, <2>5, <2>6, <3>1, <3>2
            <4>2. late \/ Up(p)
                BY <2>1, <4>1 DEF ActiveInv, ReadUp
            <4> QED BY <2>1, <3>2, <4>1, <4>2 DEF Up
        <3>3. CASE registry[p] # o
            <4>1. obj[registry[p]].state = "Active"
                BY <2>5, <2>6, <3>1, <3>3
            <4>2. Up(p) \/ ClosedQueued(p) \/ p \in missed
                BY <3>1, <4>1 DEF ActiveInv, ActiveMeansUp
            <4>3. p \in missed => p \in missed'
                BY <2>1, <3>3
            <4> QED BY <2>1, <4>2, <4>3 DEF Up, ClosedQueued
        <3> QED BY <3>2, <3>3
    <2>8. ActiveMeansUp'
        BY <2>7 DEF ActiveMeansUp
    <2> QED BY <2>3, <2>4, <2>8 DEF ActiveInv
<1>3. CASE WdClose
    <2>0. PICK q \in Peers, o \in Objs : q = wd.peer /\ o = wd.obj
        BY <1>3, WdTodoType DEF WdClose
    <2>1. UNCHANGED <<registry, req>> /\ wd'.todo \subseteq wd.todo /\ wd'.pc # "sync"
        BY <1>3, WdNextType, WdNextLeaves DEF WdClose
    <2>2. OneOwner' /\ ReadUp'
        BY <2>1 DEF ActiveInv, OneOwner, ReadUp, Registered
    <2>3. \A p \in Registered : registry[p] \in Objs
        BY DEF TypeOK, Registered
    <2>4. CASE UNCHANGED <<link, events, missed>> /\ obj' = Freed(obj)
        <3>1. FreeNotActive' /\ \A p \in Registered : obj'[registry[p]] = obj[registry[p]]
            BY <2>1, <2>4, FreedActive DEF Registered
        <3> QED BY <2>1, <2>2, <2>4, <3>1
            DEF ActiveInv, ActivatedThenUp, ActiveMeansUp, ClosedQueued, Up, Registered
    <2>6. CASE UNCHANGED <<link, events, missed>> /\ obj' = Freed(ClosedDown(o))
        <3>1. \A x \in Objs : ClosedDown(o)[x].state = "Active" => obj[x].state = "Active"
            BY DEF ClosedDown, TypeOK
        <3>2. /\ FreeNotActive'
              /\ \A p \in Registered : obj'[registry[p]].state = "Active"
                                          => obj[registry[p]].state = "Active"
            BY <2>1, <2>6, <2>3, <3>1, FreedActive DEF Registered
        <3> QED BY <2>1, <2>2, <2>6, <3>2
            DEF ActiveInv, ActivatedThenUp, ActiveMeansUp, ClosedQueued, Up, Registered
    <2>5. CASE /\ SetLink(q, "Closed") /\ Emit([peer |-> q, kind |-> "Closed"])
               /\ obj' = Freed(ClosedDown(o))
        <3>1. \A p \in Peers \ {q} : Up(p) <=> Up(p)'
            BY <2>5 DEF SetLink, Up, TypeOK
        <3>2. /\ ActivatedThenUp' /\ ClosedQueued(q)'
              /\ \A p \in Peers : p \in missed \/ ClosedQueued(p)
                                    => p \in missed' \/ ClosedQueued(p)'
            BY <2>1, <2>5, <3>1, EmitOrder DEF ActiveInv
        <3>3. /\ FreeNotActive'
              /\ \A p \in Registered : obj'[registry[p]] = ClosedDown(o)[registry[p]]
            BY <2>1, <2>5, FreedActive DEF Registered
        <3>4. \A p \in Registered : obj'[registry[p]].state = "Active"
                                      => obj[registry[p]].state = "Active"
            <4>1. \A x \in Objs : ClosedDown(o)[x].state = "Active" => obj[x].state = "Active"
                BY DEF ClosedDown, TypeOK
            <4> QED BY <2>3, <3>3, <4>1
        <3>5. ASSUME NEW p \in Registered', obj'[registry'[p]].state = "Active"
              PROVE  Up(p)' \/ ClosedQueued(p)' \/ p \in missed'
            <4>1. p \in Peers /\ p \in Registered /\ obj[registry[p]].state = "Active"
                BY <2>1, <3>4, <3>5 DEF Registered
            <4>2. Up(p) \/ ClosedQueued(p) \/ p \in missed
                BY <4>1 DEF ActiveInv, ActiveMeansUp
            <4> QED BY <3>1, <3>2, <4>1, <4>2
        <3>6. ActiveMeansUp'
            BY <3>5 DEF ActiveMeansUp
        <3> QED BY <2>2, <3>2, <3>3, <3>6 DEF ActiveInv
    <2> QED BY <1>3, <2>0, <2>4, <2>6, <2>5 DEF WdClose
<1> QED BY <1>1, <1>2, <1>3, <1>4 DEF Watchdog

LEMMA PolicyActive ==
    ASSUME TypeOK, TypeOK', ActiveInv, NEW all \in BOOLEAN, NEW S \in SUBSET Peers,
           ReplacePeerPolicy(all, S)
    PROVE  ActiveInv'
<1> DEFINE new == S \ Registered
<1>1. UNCHANGED <<link, events, missed, late, req, wd>> /\ obj' = Freed(obj)
    BY DEF ReplacePeerPolicy
<1>2. PICK fresh \in [new -> Objs \ Live] :
          /\ \A p, q \in new : fresh[p] = fresh[q] => p = q
          /\ registry' = [p \in Peers |->
               IF p \in new THEN fresh[p]
               ELSE IF all \/ p \in S THEN registry[p] ELSE NoObj]
    BY DEF ReplacePeerPolicy
<1>3. /\ \A p \in Registered' : p \in Peers
                /\ (p \in new \/ (p \in Registered /\ registry'[p] = registry[p]))
      /\ \A p \in new : registry'[p] = fresh[p] /\ fresh[p] \in Objs \ Live
      /\ \A p \in Registered : registry[p] \in Live
      /\ \A w \in wd.todo : w[2] \in Live
      /\ wd.obj \in Live
    BY <1>2 DEF Registered, Live
<1>4. OneOwner'
    BY <1>1, <1>2, <1>3 DEF ActiveInv, OneOwner
<1>5. ActivatedThenUp' /\ ReadUp'
    BY <1>1 DEF ActiveInv, ActivatedThenUp, ReadUp, Up
<1>6. FreeNotActive' /\ \A p \in Registered' : obj'[registry'[p]] = obj[registry'[p]]
    BY <1>1, FreedActive
<1>7. ASSUME NEW p \in Registered', obj'[registry'[p]].state = "Active"
      PROVE  Up(p)' \/ ClosedQueued(p)' \/ p \in missed'
    <2>1. p \in Registered /\ obj[registry[p]].state = "Active"
        BY <1>3, <1>6, <1>7 DEF ActiveInv, FreeNotActive
    <2> QED BY <1>1, <2>1 DEF ActiveInv, ActiveMeansUp, ClosedQueued, Up
<1>8. ActiveMeansUp'
    BY <1>7 DEF ActiveMeansUp
<1> QED BY <1>4, <1>5, <1>6, <1>8 DEF ActiveInv

LEMMA NextActive == TypeOK /\ TypeOK' /\ ActiveInv /\ [Next]_vars => ActiveInv'
<1> SUFFICES ASSUME TypeOK, TypeOK', ActiveInv, [Next]_vars PROVE ActiveInv'
    OBVIOUS
<1>1. CASE UNCHANGED vars
    BY <1>1 DEF vars, ActiveInv, OneOwner, FreeNotActive, ActivatedThenUp, ReadUp,
                ActiveMeansUp, ClosedQueued, Up, Registered, Live
<1> QED
    BY <1>1, TransportActive, TickActive, AnnounceActive, RequestActive, EventActive,
       WatchdogActive, PolicyActive
       DEF Next, Transport

LEMMA InitActive == Init => ActiveInv
BY DEF Init, ActiveInv, OneOwner, FreeNotActive, ActivatedThenUp, ReadUp, ActiveMeansUp,
       NewPeer, IdleWd, Registered

\* A peer shown as Active over a link that is down owes that to a Closed event
\* still queued, overwritten in the channel, or handled between the watchdog's
\* reading of that link as Active and its writing so.
THEOREM ActiveIsTrue == Spec => []ActiveMeansUp
<1>1. Spec => []ActiveInv
    BY InitActive, NextActive, TypeCorrect, PTL DEF Spec
<1>2. ActiveInv => ActiveMeansUp
    BY DEF ActiveInv
<1> QED BY <1>1, <1>2, PTL
=============================================================================

--------------------------- MODULE TrafficProofs ----------------------------
(***************************************************************************)
(* What holds of everything that carries packets, frames and events, for   *)
(* any number of ports, datagrams, requests, peers and links: the two ATAK *)
(* bridges do not feed each other (AtakBridge), the radio is given to one  *)
(* user at a time and has the configuration that was put last              *)
(* (RadioInterface), the VPN accounts for every packet it read and credits *)
(* its peers with no more (VpnForward), its table is a longest-prefix      *)
(* lookup (VpnRouteTable), voice is played in the order it was spoken      *)
(* (PttAudio), a browser shows the frames as they are (FrameFeed) and the  *)
(* dashboard the links and their packets (ReticulumLog).  Last, what holds *)
(* of each of them holds of their product (MCTraffic).                     *)
(***************************************************************************)
EXTENDS MCTraffic, CountingProofs, SequenceTheorems

-----------------------------------------------------------------------------
(* The ATAK bridge.  An echo is one datagram emitted twice on a group, or   *)
(* on the group it came from.  What rules it out is what an inbox may have: *)
(* datagrams of the other site, each once, that were not emitted here yet. *)

FromOtherSite(b) ==
    \A i \in 1..Len(inbox[b]) :
        LET d == inbox[b][i] IN
        d <= Len(sent) /\ sent[d][1] = Remote(b[1]) /\ emitted[<<d, b[1], b[2]>>] = 0

EachOnce(b) ==
    \A i, j \in 1..Len(inbox[b]) : inbox[b][i] = inbox[b][j] => i = j

EmittedOnce ==
    \A d \in 1..MaxDatagrams, s \in Places, p \in Ports :
        \/ emitted[<<d, s, p>>] = 0
        \/ emitted[<<d, s, p>>] = 1 /\ d <= Len(sent) /\ sent[d][1] = Remote(s)

AtakInv ==
    /\ AtakTypeOK
    /\ \A b \in Bridges : FromOtherSite(b) /\ EachOnce(b)
    /\ EmittedOnce

LEMMA AtakInvInit == AtakInit => AtakInv
BY AtakAssumption
DEF AtakInit, AtakInv, AtakTypeOK, FromOtherSite, EachOnce, EmittedOnce, Bridges

\* What Deliver makes of the inbox of a receiver: the datagram comes last, after
\* what was there, without the oldest (k = 1) if it was full.
With(q, d) == IF Len(q) < Capacity THEN Append(q, d) ELSE Append(Tail(q), d)

LEMMA WithComesLast ==
    ASSUME NEW q \in Seq(1..MaxDatagrams), Len(q) <= Capacity, NEW d \in 1..MaxDatagrams
    PROVE  /\ With(q, d) \in Seq(1..MaxDatagrams) /\ Len(With(q, d)) \in 1..Capacity
           /\ With(q, d)[Len(With(q, d))] = d
           /\ \E k \in {0, 1} :
                /\ Len(With(q, d)) = Len(q) + 1 - k
                /\ \A i \in 1..Len(With(q, d)) - 1 : With(q, d)[i] = q[i + k]
<1> DEFINE r == With(q, d)
<1>1. CASE Len(q) < Capacity
    <2>1. r = Append(q, d) /\ Len(q) \in Nat
        BY <1>1 DEF With
    <2> HIDE DEF r
    <2>2. /\ r \in Seq(1..MaxDatagrams) /\ Len(r) = Len(q) + 1 /\ r[Len(q) + 1] = d
          /\ \A i \in 1..Len(q) : r[i] = q[i]
        BY <2>1, AppendProperties, AtakAssumption
    <2>3. Len(r) = Len(q) + 1 - 0 /\ \A i \in 1..Len(r) - 1 : r[i] = q[i + 0]
        BY <2>1, <2>2
    <2> QED
        BY <1>1, <2>1, <2>2, <2>3, AtakAssumption DEF r
<1>2. CASE ~(Len(q) < Capacity)
    <2> DEFINE t == Tail(q)
    <2>1. q # <<>> /\ Len(q) = Capacity /\ r = Append(t, d) /\ Len(q) \in Nat
        BY <1>2, AtakAssumption DEF With
    <2>2. /\ t \in Seq(1..MaxDatagrams) /\ Len(t) = Len(q) - 1
          /\ \A i \in 1..Len(t) : t[i] = q[i + 1]
        BY <2>1, HeadTailProperties
    <2> HIDE DEF t, r
    <2>3. /\ r \in Seq(1..MaxDatagrams) /\ Len(r) = Len(t) + 1 /\ r[Len(t) + 1] = d
          /\ \A i \in 1..Len(t) : r[i] = t[i]
        BY <2>1, <2>2, AppendProperties, AtakAssumption
    <2>4. Len(r) = Len(q) + 1 - 1 /\ \A i \in 1..Len(r) - 1 : r[i] = q[i + 1]
        BY <2>1, <2>2, <2>3
    <2> QED
        BY <1>2, <2>1, <2>2, <2>3, <2>4, AtakAssumption DEF r
<1> QED
    BY <1>1, <1>2

LEMMA AtakInvNext == AtakInv /\ [AtakNext]_atakVars => AtakInv'
<1> SUFFICES ASSUME AtakInv, [AtakNext]_atakVars PROVE AtakInv'
    OBVIOUS
<1>. USE AtakAssumption
<1>1. ASSUME NEW s \in Places, NEW p \in Ports, FromLan(s, p) PROVE AtakInv'
    <2> DEFINE n == Len(sent) + 1
    <2>1. /\ n \in 1..MaxDatagrams /\ sent' = Append(sent, <<s, p>>)
          /\ sent' \in Seq(Places \X Ports) /\ Len(sent') = n
          /\ sent'[n] = <<s, p>> /\ \A d \in 1..Len(sent) : sent'[d] = sent[d]
          /\ UNCHANGED <<outLink, bridge, emitted>>
        BY <1>1 DEF FromLan, AtakInv, AtakTypeOK
    <2>2. overrun' \in [Bridges -> BOOLEAN]
        BY <1>1 DEF FromLan, Deliver, AtakInv, AtakTypeOK, Bridges
    <2>3. \A q \in Places, r \in Ports : emitted[<<n, q, r>>] = 0
        BY <2>1 DEF AtakInv, EmittedOnce, AtakTypeOK
    <2> HIDE DEF n
    <2>4. EmittedOnce'
        <3> SUFFICES ASSUME NEW d \in 1..MaxDatagrams, NEW q \in Places, NEW r \in Ports,
                            emitted[<<d, q, r>>] # 0
                     PROVE  /\ emitted[<<d, q, r>>] = 1 /\ d <= Len(sent')
                            /\ sent'[d][1] = Remote(q)
            BY <2>1 DEF EmittedOnce
        <3>1. emitted[<<d, q, r>>] = 1 /\ d <= Len(sent) /\ sent[d][1] = Remote(q)
            BY DEF AtakInv, EmittedOnce
        <3>2. d \in 1..Len(sent) /\ Len(sent) < Len(sent')
            BY <2>1, <3>1 DEF AtakInv, AtakTypeOK, n
        <3> QED
            BY <2>1, <3>1, <3>2
    <2>5. ASSUME NEW b \in Bridges
          PROVE  /\ inbox'[b] \in Seq(1..MaxDatagrams) /\ Len(inbox'[b]) <= Capacity
                 /\ FromOtherSite(b)' /\ EachOnce(b)'
        <3> DEFINE q == inbox[b]
        <3>1. /\ q \in Seq(1..MaxDatagrams) /\ Len(q) <= Capacity
              /\ FromOtherSite(b) /\ EachOnce(b)
            BY DEF AtakInv, AtakTypeOK, Bridges
        <3>2. CASE b \notin Receivers(s, p)
            <4>1. inbox'[b] = inbox[b]
                BY <1>1, <3>2 DEF FromLan, Deliver, Bridges
            <4> QED
                BY <2>1, <3>1, <4>1, ElementOfSeq DEF FromOtherSite, EachOnce
        <3>3. CASE b \in Receivers(s, p)
            <4> DEFINE r == inbox'[b]
            <4>1. r = With(q, n)
                BY <1>1, <3>3 DEF FromLan, Deliver, Bridges, n, With
            <4>2. s = Remote(b[1])
                BY <3>3 DEF Receivers, Remote, Places
            <4> HIDE DEF q, r
            <4>3. /\ r \in Seq(1..MaxDatagrams) /\ Len(r) \in 1..Capacity /\ r[Len(r)] = n
                  /\ \E k \in {0, 1} : /\ Len(r) = Len(q) + 1 - k
                                       /\ \A i \in 1..Len(r) - 1 : r[i] = q[i + k]
                <5>1. n \in 1..MaxDatagrams /\ q \in Seq(1..MaxDatagrams) /\ Len(q) <= Capacity
                    BY <2>1, <3>1
                <5> QED
                    BY <4>1, <5>1, WithComesLast
            <4>4. PICK k \in {0, 1} : /\ Len(r) = Len(q) + 1 - k
                                      /\ \A i \in 1..Len(r) - 1 : r[i] = q[i + k]
                BY <4>3
            <4>5. \A i \in 1..Len(r) - 1 : i + k \in 1..Len(q) /\ r[i] = q[i + k]
                BY <3>1, <4>3, <4>4, SMTT(30)
            <4>6. \A i \in 1..Len(q) :
                    /\ q[i] \in 1..Len(sent) /\ sent[q[i]][1] = Remote(b[1])
                    /\ emitted[<<q[i], b[1], b[2]>>] = 0
                BY <2>1, <3>1, ElementOfSeq, SMTT(30) DEF FromOtherSite, q
            <4>7. b[1] \in Places /\ b[2] \in Ports
                BY DEF Bridges
            <4>8. FromOtherSite(b)'
                <5> SUFFICES ASSUME NEW i \in 1..Len(r)
                             PROVE  /\ r[i] <= Len(sent') /\ sent'[r[i]][1] = Remote(b[1])
                                    /\ emitted'[<<r[i], b[1], b[2]>>] = 0
                    BY DEF FromOtherSite, r
                <5>1. CASE i = Len(r)
                    BY <2>1, <2>3, <4>2, <4>3, <4>7, <5>1, SMTT(30)
                <5>2. CASE i # Len(r)
                    <6>1. i \in 1..Len(r) - 1
                        BY <4>3, <5>2
                    <6> QED
                        BY <2>1, <4>5, <4>6, <6>1, SMTT(30) DEF n
                <5> QED
                    BY <5>1, <5>2
            <4>9. EachOnce(b)'
                <5> SUFFICES ASSUME NEW i \in 1..Len(r), NEW j \in 1..Len(r), r[i] = r[j]
                             PROVE  i = j
                    BY DEF EachOnce, r
                <5>1. \A h \in 1..Len(r) - 1 : r[h] # n
                    <6> TAKE h \in 1..Len(r) - 1
                    <6>1. r[h] = q[h + k] /\ q[h + k] \in 1..Len(sent)
                        BY <4>5, <4>6
                    <6>2. Len(sent) \in Nat
                        BY DEF AtakInv, AtakTypeOK
                    <6> QED
                        BY <6>1, <6>2 DEF n
                <5>2. CASE i = Len(r) \/ j = Len(r)
                    <6>1. r[i] = n /\ r[j] = n
                        BY <4>3, <5>2
                    <6>2. i \notin 1..Len(r) - 1 /\ j \notin 1..Len(r) - 1
                        BY <5>1, <6>1
                    <6>3. Len(r) \in Nat
                        BY <4>3
                    <6> QED
                        BY <6>2, <6>3
                <5>3. CASE i \in 1..Len(r) - 1 /\ j \in 1..Len(r) - 1
                    <6>1. /\ i + k \in 1..Len(q) /\ j + k \in 1..Len(q)
                          /\ q[i + k] = q[j + k]
                        BY <4>5, <5>3
                    <6>2. i + k = j + k
                        BY <3>1, <6>1 DEF EachOnce, q
                    <6> QED
                        BY <6>2
                <5>4. Len(r) \in Nat
                    BY <4>3
                <5> QED
                    BY <5>2, <5>3, <5>4
            <4> QED
                BY <4>3, <4>8, <4>9 DEF r
        <3> QED
            BY <3>2, <3>3
    <2>6. inbox' \in [Bridges -> Seq(1..MaxDatagrams)]
        BY <1>1, <2>5 DEF FromLan, Deliver, Bridges
    <2> QED
        BY <2>1, <2>2, <2>4, <2>5, <2>6 DEF AtakInv, AtakTypeOK, Bridges
<1>2. ASSUME NEW s \in Places, NEW p \in Ports, ToLan(s, p) PROVE AtakInv'
    <2> DEFINE a == <<s, p>>
               q == inbox[a]
               d == q[1]
    <2>1. /\ a \in Bridges /\ q \in Seq(1..MaxDatagrams) /\ q # <<>> /\ Len(q) <= Capacity
          /\ FromOtherSite(a) /\ EachOnce(a)
        BY <1>2 DEF ToLan, AtakInv, AtakTypeOK, Bridges
    <2>2. /\ inbox' = [inbox EXCEPT ![a] = Tail(q)]
          /\ emitted' = [emitted EXCEPT ![<<d, s, p>>] = @ + 1]
          /\ UNCHANGED <<sent, outLink, overrun, bridge>>
        BY <1>2, <2>1 DEF ToLan, MulticastLoop
    <2>3. /\ d \in 1..MaxDatagrams /\ d <= Len(sent) /\ sent[d][1] = Remote(s)
          /\ emitted[<<d, s, p>>] = 0
        BY <2>1, SMTT(30) DEF FromOtherSite
    <2>4. /\ Tail(q) \in Seq(1..MaxDatagrams) /\ Len(Tail(q)) = Len(q) - 1
          /\ \A i \in 1..Len(q) - 1 : Tail(q)[i] = q[i + 1]
        BY <2>1, HeadTailProperties
    <2>5. /\ \A e \in 1..MaxDatagrams, b \in Bridges :
               emitted'[<<e, b[1], b[2]>>] =
                   IF e = d /\ b = a THEN 1 ELSE emitted[<<e, b[1], b[2]>>]
          /\ emitted' \in [(1..MaxDatagrams) \X Places \X Ports -> Nat]
        <3>1. emitted \in [(1..MaxDatagrams) \X Places \X Ports -> Nat]
            BY DEF AtakInv, AtakTypeOK
        <3>2. \A b \in Bridges : b[1] \in Places /\ b[2] \in Ports /\ b = <<b[1], b[2]>>
            BY DEF Bridges
        <3> HIDE DEF q
        <3> QED
            BY <2>2, <2>3, <3>1, <3>2
    <2> HIDE DEF d
    <2>6. EmittedOnce'
        <3> SUFFICES ASSUME NEW e \in 1..MaxDatagrams, NEW t \in Places, NEW r \in Ports
                     PROVE  \/ emitted'[<<e, t, r>>] = 0
                            \/ /\ emitted'[<<e, t, r>>] = 1 /\ e <= Len(sent)
                               /\ sent[e][1] = Remote(t)
            BY <2>2 DEF EmittedOnce
        <3>1. <<t, r>> \in Bridges
            BY DEF Bridges
        <3>2. emitted'[<<e, t, r>>] = IF e = d /\ <<t, r>> = a THEN 1 ELSE emitted[<<e, t, r>>]
            BY <2>5, <3>1
        <3>3. \/ emitted[<<e, t, r>>] = 0
              \/ emitted[<<e, t, r>>] = 1 /\ e <= Len(sent) /\ sent[e][1] = Remote(t)
            BY DEF AtakInv, EmittedOnce
        <3> QED
            BY <2>3, <3>2, <3>3
    <2>7. inbox' \in [Bridges -> Seq(1..MaxDatagrams)]
        BY <2>1, <2>2, <2>4 DEF AtakInv, AtakTypeOK
    <2>8. ASSUME NEW b \in Bridges
          PROVE  Len(inbox'[b]) <= Capacity /\ FromOtherSite(b)' /\ EachOnce(b)'
        <3>1. /\ inbox[b] \in Seq(1..MaxDatagrams) /\ Len(inbox[b]) <= Capacity
              /\ FromOtherSite(b) /\ EachOnce(b)
            BY DEF AtakInv, AtakTypeOK
        <3>2. CASE b # a
            <4>1. inbox'[b] = inbox[b] /\ sent' = sent
                BY <2>2, <3>2 DEF AtakInv, AtakTypeOK
            <4>2. \A i \in 1..Len(inbox[b]) :
                    emitted'[<<inbox[b][i], b[1], b[2]>>] = emitted[<<inbox[b][i], b[1], b[2]>>]
                BY <2>5, <3>1, <3>2, ElementOfSeq
            <4> QED
                BY <3>1, <4>1, <4>2 DEF FromOtherSite, EachOnce
        <3>3. CASE b = a
            <4> DEFINE t == Tail(q)
            <4>1. inbox'[b] = t /\ sent' = sent /\ inbox[b] = q
                BY <2>2, <3>3 DEF AtakInv, AtakTypeOK
            <4>2. Len(q) \in Nat /\ d = q[1] /\ \A i \in 1..Len(q) : q[i] \in 1..MaxDatagrams
                BY <2>1, ElementOfSeq, SMTT(30) DEF d
            <4> HIDE DEF q, t
            <4>3. Len(t) = Len(q) - 1 /\ \A i \in 1..Len(t) : i + 1 \in 1..Len(q) /\ t[i] = q[i + 1]
                BY <2>4, <4>2 DEF t
            <4>4. \A i, j \in 1..Len(q) : q[i] = q[j] => i = j
                BY <3>1, <4>1 DEF EachOnce
            <4>5. EachOnce(b)'
                <5> SUFFICES ASSUME NEW i \in 1..Len(t), NEW j \in 1..Len(t), t[i] = t[j]
                             PROVE  i = j
                    BY <4>1 DEF EachOnce
                <5>1. i + 1 = j + 1
                    BY <4>3, <4>4
                <5> QED
                    BY <5>1
            <4>6. FromOtherSite(b)'
                <5> SUFFICES ASSUME NEW i \in 1..Len(t)
                             PROVE  /\ t[i] <= Len(sent) /\ sent[t[i]][1] = Remote(b[1])
                                    /\ emitted'[<<t[i], b[1], b[2]>>] = 0
                    BY <4>1 DEF FromOtherSite
                <5>1. i + 1 \in 1..Len(q) /\ t[i] = q[i + 1] /\ 1 \in 1..Len(q)
                    BY <4>2, <4>3
                <5>2. q[i + 1] # d /\ q[i + 1] \in 1..MaxDatagrams
                    <6>1. i + 1 # 1
                        OBVIOUS
                    <6> QED
                        BY <4>2, <4>4, <5>1, <6>1
                <5>3. /\ q[i + 1] <= Len(sent) /\ sent[q[i + 1]][1] = Remote(b[1])
                      /\ emitted[<<q[i + 1], b[1], b[2]>>] = 0
                    BY <3>1, <4>1, <5>1 DEF FromOtherSite
                <5> QED
                    BY <2>5, <5>1, <5>2, <5>3
            <4> QED
                BY <3>1, <4>1, <4>2, <4>3, <4>5, <4>6, AtakAssumption
        <3> QED
            BY <3>2, <3>3
    <2> QED
        BY <2>2, <2>5, <2>6, <2>7, <2>8 DEF AtakInv, AtakTypeOK
<1>3. ASSUME NEW s \in Places, NEW p \in Ports,
             Overruns(s, p) \/ AutoLink(s, p) \/ LinkMoves(s, p)
      PROVE  AtakInv'
    <2>1. UNCHANGED <<sent, inbox, emitted>>
        BY <1>3 DEF Overruns, AutoLink, LinkMoves
    <2>2. AtakTypeOK'
        BY <1>3 DEF Overruns, AutoLink, LinkMoves, AtakInv, AtakTypeOK
    <2> QED
        BY <2>1, <2>2 DEF AtakInv, FromOtherSite, EachOnce, EmittedOnce
<1>4. CASE UNCHANGED atakVars
    BY <1>4 DEF atakVars, AtakInv, AtakTypeOK, FromOtherSite, EachOnce, EmittedOnce
<1> QED
    BY <1>1, <1>2, <1>3, <1>4 DEF AtakNext

\* No datagram is put back on the LAN it came from, nor twice on the other, for
\* any number of ports and datagrams, any backlog and any moves of the links
\* (main.rs run_bridge).
THEOREM BridgesDoNotEcho == AtakSpec => []NoEcho
<1>1. AtakInv => NoEcho
    <2> SUFFICES ASSUME AtakInv, NEW d \in 1..MaxDatagrams, NEW s \in Places, NEW p \in Ports
                 PROVE  /\ emitted[<<d, s, p>>] <= 1
                        /\ emitted[<<d, s, p>>] = 1 => sent[d][1] = Remote(s)
        BY DEF NoEcho
    <2>1. \/ emitted[<<d, s, p>>] = 0
          \/ emitted[<<d, s, p>>] = 1 /\ sent[d][1] = Remote(s)
        BY DEF AtakInv, EmittedOnce
    <2> QED
        BY <2>1
<1> QED
    BY <1>1, AtakInvInit, AtakInvNext, PTL DEF AtakSpec

-----------------------------------------------------------------------------
(* The radio: types.                                                       *)

LEMMA PutIdleType == PutIdle \in [pc : {"idle"}, cfg : Settings, left : {{}}]
BY RadioAssumption DEF PutIdle

PutTypes == [Putters -> [pc : {"idle", "lock", "apply"}, cfg : Settings, left : SUBSET Fields]]
Writers == Putters \cup {"boot", Nobody}

LEMMA AlikeType == \A cfg \in Settings : Alike(cfg) \in [Fields -> Settings]
BY DEF Alike

LEMMA RadioTypeInit == RadioInit => RadioTypeOK
<1> SUFFICES ASSUME RadioInit PROVE RadioTypeOK
    OBVIOUS
<1>1. rows \in [Fields -> Settings] /\ hardware \in [Fields -> Settings]
    BY PutIdleType, AlikeType DEF RadioInit
<1>2. put \in PutTypes
    BY PutIdleType DEF RadioInit, PutTypes
<1>3. /\ clientLock \in Putters \cup {"interface", Nobody} /\ last \in Writers
      /\ waiting \in 0..QueueSize /\ sending \in 0..Segments
      /\ tester \in {"idle", "wanted"}
      /\ arrived \in 0..(RxCapacity + 1) /\ rxLoop \in {"recv", "stopped"}
      /\ failures \in 0..MaxFaults
    BY RadioAssumption DEF RadioInit, Writers
<1>4. mixed \in BOOLEAN /\ halfway \in BOOLEAN
    BY DEF RadioInit
<1> QED
    BY <1>1, <1>2, <1>3, <1>4 DEF RadioTypeOK, PutTypes, Writers

LEMMA RadioTypeNext == RadioTypeOK /\ [RadioNext]_radioVars => RadioTypeOK'
<1> SUFFICES ASSUME RadioTypeOK, [RadioNext]_radioVars PROVE RadioTypeOK'
    OBVIOUS
<1>r. rows \in [Fields -> Settings] /\ hardware \in [Fields -> Settings] /\ put \in PutTypes
    BY DEF RadioTypeOK, PutTypes
<1>f. Fault => failures' \in 0..MaxFaults
    BY RadioAssumption DEF RadioTypeOK, Fault
<1>. USE RadioAssumption DEF RadioTypeOK, Interrupts, history
<1>1. CASE QueuePacket
    BY <1>1 DEF QueuePacket
<1>2. CASE TakePacket
    BY <1>2 DEF TakePacket
<1>3. CASE SendFrame
    BY <1>3 DEF SendFrame, Released
<1>4. CASE SendFails
    BY <1>4, <1>f DEF SendFails
<1>5. ASSUME NEW p \in Putters, PutLock(p) PROVE RadioTypeOK'
    BY <1>5 DEF PutLock
<1>g. ASSUME NEW p \in Putters
      PROVE  [hardware EXCEPT ![NextField(p)] = Applied(p)] \in [Fields -> Settings]
    BY <1>r DEF NextField, Fields, Applied
<1>6. ASSUME NEW p \in Putters, PutApply(p) PROVE RadioTypeOK'
    <2>1. hardware' \in [Fields -> Settings]
        BY <1>6, <1>g, <1>r DEF PutApply
    <2>2. put' \in PutTypes
        BY <1>6, <1>r DEF PutApply, PutTypes
    <2>3. /\ failures' \in 0..MaxFaults /\ halfway' \in BOOLEAN /\ last' \in Writers
          /\ mixed' \in BOOLEAN
          /\ UNCHANGED <<rows, clientLock, waiting, sending, tester, arrived, rxLoop>>
        BY <1>6, <1>f DEF PutApply, Writers
    <2> QED
        BY <2>1, <2>2, <2>3 DEF PutTypes, Writers
<1>7. ASSUME NEW p \in Putters, PutEnd(p) PROVE RadioTypeOK'
    BY <1>7, PutIdleType DEF PutEnd
<1>8. ASSUME NEW p \in Putters, NEW cfg \in Settings, PutBegin(p, cfg) PROVE RadioTypeOK'
    <2>1. rows' \in [Fields -> Settings] /\ failures' = failures
        BY <1>8, AlikeType DEF PutBegin, Saved
    <2> QED
        BY <1>8, <2>1 DEF PutBegin
<1>d. ASSUME NEW p \in Putters, PutDropped(p) PROVE RadioTypeOK'
    <2>1. hardware' \in [Fields -> Settings]
        BY <1>d, <1>g, <1>r DEF PutDropped
    <2>2. put' \in PutTypes
        BY <1>d, <1>r, PutIdleType DEF PutDropped, PutTypes
    <2>3. /\ clientLock' \in {clientLock, Nobody} /\ halfway' \in BOOLEAN /\ last' = Nobody
          /\ UNCHANGED <<rows, waiting, sending, tester, arrived, rxLoop, failures, mixed>>
        BY <1>d DEF PutDropped
    <2> QED
        BY <2>1, <2>2, <2>3 DEF PutTypes
<1>e. ASSUME NEW cfg \in Settings, PutRefused(cfg) PROVE RadioTypeOK'
    <2>1. rows' \in [Fields -> Settings] /\ failures' \in 0..MaxFaults
        BY <1>e, <1>f, <1>r DEF PutRefused, Unsaved
    <2> QED
        BY <1>e, <2>1 DEF PutRefused
<1>s. ASSUME NEW cfg \in Settings, PutSettings(cfg) PROVE RadioTypeOK'
    <2>1. rows' \in [Fields -> Settings] /\ failures' = failures
        BY <1>s, AlikeType DEF PutSettings, Saved
    <2> QED
        BY <1>s, <2>1 DEF PutSettings
<1>b. CASE Restart
    <2>1. hardware' \in [Fields -> Settings]
        BY <1>b, <1>r DEF Restart
    <2>2. failures' \in 0..MaxFaults /\ halfway' \in BOOLEAN /\ last' \in Writers
        BY <1>b, <1>f DEF Restart, Writers
    <2>3. put' \in PutTypes
        BY <1>b, PutIdleType DEF Restart, PutTypes
    <2>4. /\ clientLock' = Nobody /\ waiting' = 0 /\ sending' = 0 /\ tester' = "idle"
          /\ arrived' = 0 /\ rxLoop' = "recv" /\ UNCHANGED <<rows, mixed>>
        BY <1>b DEF Restart
    <2>5. 0 \in 0..QueueSize /\ 0 \in 0..Segments /\ 0 \in 0..(RxCapacity + 1)
        OBVIOUS
    <2> QED
        BY <2>1, <2>2, <2>3, <2>4, <2>5 DEF PutTypes, Writers
<1>9. CASE TestWanted
    BY <1>9 DEF TestWanted
<1>10. CASE TestFrame
    BY <1>10, <1>f DEF TestFrame
<1>11. CASE FrameArrives
    BY <1>11 DEF FrameArrives
<1>12. CASE TakeFrame
    BY <1>12 DEF TakeFrame
<1>13. CASE UNCHANGED radioVars
    BY <1>13 DEF radioVars
<1> QED
    BY <1>1, <1>2, <1>3, <1>4, <1>5, <1>6, <1>7, <1>8, <1>d, <1>e, <1>s, <1>b, <1>9, <1>10,
       <1>11, <1>12, <1>13
    DEF RadioNext

-----------------------------------------------------------------------------
(* The radio: who has it, and what is in it.  Nobody sends commands         *)
(* between two frames because the lock is held as long as a packet is; and *)
(* a request that has the radio has put its configuration in the fields it *)
(* has got to, which is what the one that began last has stored.           *)

LockHeld ==
    /\ sending > 0 <=> clientLock = "interface"
    /\ \A p \in Putters : put[p].pc = "apply" <=> clientLock = p

FieldsInOrder ==
    \A p \in Putters :
        /\ put[p].left \in {Fields, {"modulation", "accelerator"}, {"accelerator"}, {}}
        /\ put[p].pc = "lock" => put[p].left = Fields

Given(p) == \A f \in Fields \ put[p].left : hardware[f] = put[p].cfg
Uniform(h) == \E cfg \in Settings : h = Alike(cfg)

AppliedSoFar ==
    ~halfway => /\ \A p \in Putters : put[p].pc = "apply" => Given(p)
                /\ clientLock \notin Putters => Uniform(hardware)

LastApplies ==
    /\ last \in Putters =>
         /\ \A q \in Putters \ {last} : put[q].pc = "idle"
         /\ put[last].pc = "idle" => hardware = rows
         /\ put[last].pc # "idle" => rows = Alike(put[last].cfg)
         /\ put[last].pc = "apply" => ~halfway
    /\ last = "boot" => hardware = rows /\ \A q \in Putters : put[q].pc = "idle"

RadioInv ==
    RadioTypeOK /\ LockHeld /\ FieldsInOrder /\ AppliedSoFar /\ LastApplies /\ ~mixed

LEMMA RadioInvInit == RadioInit => RadioInv
<1> SUFFICES ASSUME RadioInit PROVE RadioInv
    OBVIOUS
<1>1. RadioTypeOK /\ \A p \in Putters : put[p] = PutIdle
    BY RadioTypeInit DEF RadioInit
<1>2. PutIdle.pc = "idle" /\ PutIdle.left = {} /\ PutIdle.cfg \in Settings
    BY PutIdleType
<1>3. LockHeld /\ FieldsInOrder
    BY <1>1, <1>2, RadioAssumption DEF RadioInit, LockHeld, FieldsInOrder
<1>4. AppliedSoFar
    BY <1>1, <1>2 DEF RadioInit, AppliedSoFar, Uniform
<1>5. LastApplies
    BY RadioAssumption DEF RadioInit, LastApplies
<1> QED
    BY <1>1, <1>3, <1>4, <1>5 DEF RadioInv, RadioInit

\* What a request has applied stays as long as nothing is commanded.
LEMMA QuietKeeps ==
    ASSUME AppliedSoFar, LastApplies,
           UNCHANGED <<hardware, rows, put, halfway, last>>,
           clientLock \in Putters => clientLock' = clientLock
    PROVE  AppliedSoFar' /\ LastApplies'
<1>1. Uniform(hardware)' <=> Uniform(hardware)
    BY DEF Uniform, Alike
<1>2. ASSUME NEW p \in Putters PROVE Given(p)' <=> Given(p)
    BY DEF Given
<1>3. AppliedSoFar'
    BY <1>1, <1>2 DEF AppliedSoFar
<1>4. LastApplies'
    BY DEF LastApplies, Alike
<1> QED
    BY <1>3, <1>4

LEMMA RadioInvNext == RadioInv /\ [RadioNext]_radioVars => RadioInv'
<1> SUFFICES ASSUME RadioInv, [RadioNext]_radioVars PROVE RadioInv'
    OBVIOUS
<1>0. RadioTypeOK /\ RadioTypeOK'
    BY RadioTypeNext DEF RadioInv
<1>r. /\ put \in PutTypes /\ hardware \in [Fields -> Settings] /\ rows \in [Fields -> Settings]
      /\ clientLock \in Putters \cup {"interface", Nobody}
      /\ sending \in 0..Segments /\ mixed \in BOOLEAN /\ last \in Writers
    BY <1>0 DEF RadioTypeOK, PutTypes, Writers
<1>i. LockHeld /\ FieldsInOrder /\ AppliedSoFar /\ LastApplies /\ mixed = FALSE
    BY DEF RadioInv
<1>l. clientLock \notin Putters <=> \A p \in Putters : put[p].pc # "apply"
    BY <1>i DEF LockHeld
\* Nothing happens to the radio's configuration.
<1>q. ASSUME UNCHANGED <<hardware, rows, put, halfway, last, mixed>>, LockHeld',
             clientLock \in Putters => clientLock' = clientLock
      PROVE  RadioInv'
    <2>1. FieldsInOrder'
        BY <1>i, <1>q DEF FieldsInOrder
    <2> QED
        BY <1>0, <1>i, <1>q, <2>1, QuietKeeps DEF RadioInv
<1>1. CASE QueuePacket
    BY <1>1, <1>i, <1>q DEF QueuePacket, LockHeld, history
<1>2. CASE TakePacket
    <2>1. LockHeld'
        BY <1>2, <1>i, <1>r, RadioAssumption DEF TakePacket, LockHeld
    <2> QED
        BY <1>2, <1>q, <2>1, RadioAssumption DEF TakePacket, history
<1>3. CASE SendFrame
    <2>1. LockHeld'
        BY <1>3, <1>i, <1>r, RadioAssumption DEF SendFrame, Released, LockHeld
    <2> QED
        BY <1>3, <1>q, <2>1, RadioAssumption DEF SendFrame, history
<1>4. CASE SendFails
    <2>1. LockHeld'
        BY <1>4, <1>i, <1>r, RadioAssumption DEF SendFails, LockHeld
    <2> QED
        BY <1>4, <1>q, <2>1, RadioAssumption DEF SendFails, history
<1>5. ASSUME NEW p \in Putters, PutLock(p) PROVE RadioInv'
    <2>1. /\ put' = [put EXCEPT ![p].pc = "apply"] /\ put[p].pc = "lock" /\ clientLock = Nobody
          /\ clientLock' = p /\ halfway' = FALSE
          /\ UNCHANGED <<rows, hardware, sending, mixed, last>>
        BY <1>5 DEF PutLock
    <2>2. /\ put'[p].pc = "apply" /\ put'[p].left = put[p].left /\ put'[p].cfg = put[p].cfg
          /\ \A q \in Putters \ {p} : put'[q] = put[q]
        BY <1>r, <2>1 DEF PutTypes
    <2>3. LockHeld' /\ FieldsInOrder'
        BY <1>i, <2>1, <2>2, RadioAssumption DEF LockHeld, FieldsInOrder
    <2>4. AppliedSoFar'
        <3>1. put'[p].left = Fields
            BY <1>i, <2>1, <2>2 DEF FieldsInOrder
        <3>2. \A q \in Putters \ {p} : put'[q].pc # "apply"
            BY <2>1, <2>3 DEF LockHeld
        <3> QED
            BY <2>1, <3>1, <3>2 DEF AppliedSoFar, Given
    <2>5. LastApplies'
        BY <1>i, <2>1, <2>2 DEF LastApplies, Alike
    <2> QED
        BY <1>0, <1>i, <2>1, <2>3, <2>4, <2>5 DEF RadioInv
<1>6. ASSUME NEW p \in Putters, PutApply(p) PROVE RadioInv'
    <2> DEFINE f == NextField(p)
    <2>1. /\ put[p].pc = "apply" /\ clientLock = p /\ sending = 0
          /\ UNCHANGED <<clientLock, sending, rows>>
        BY <1>6, <1>i, <1>r, RadioAssumption DEF PutApply, LockHeld
    <2>2. mixed' = FALSE
        <3>1. sending \notin 1..(Segments - 1)
            BY <2>1, RadioAssumption
        <3>2. mixed' = (mixed \/ sending \in 1..(Segments - 1))
            BY <1>6 DEF PutApply, Interrupts
        <3> QED
            BY <1>i, <3>1, <3>2
    <2>3. put' = [put EXCEPT ![p].left = @ \ {f}] /\ put[p].left # {}
        BY <1>6 DEF PutApply
    <2>4. /\ put'[p].left = put[p].left \ {f}
          /\ \A q \in Putters : put'[q].pc = put[q].pc /\ put'[q].cfg = put[q].cfg
          /\ \A q \in Putters \ {p} : put'[q].left = put[q].left
        BY <1>r, <2>3 DEF PutTypes
    <2>5. put'[p].left \in {{"modulation", "accelerator"}, {"accelerator"}, {}}
        BY <1>i, <2>3, <2>4 DEF FieldsInOrder, NextField, Fields
    <2>6. LockHeld'
        BY <1>i, <2>1, <2>4 DEF LockHeld
    <2>7. FieldsInOrder'
        BY <1>i, <2>1, <2>4, <2>5 DEF FieldsInOrder
    <2>8. CASE /\ hardware' = [hardware EXCEPT ![f] = put[p].cfg]
               /\ UNCHANGED <<halfway, last>>
        <3>1. AppliedSoFar'
            <4>1. SUFFICES ASSUME ~halfway PROVE Given(p)'
                BY <1>i, <2>1, <2>4, <2>8 DEF AppliedSoFar, LockHeld
            <4>2. Given(p)
                BY <1>i, <2>1, <4>1 DEF AppliedSoFar
            <4>3. ASSUME NEW g \in Fields \ put'[p].left PROVE hardware'[g] = put[p].cfg
                BY <1>r, <2>4, <2>8, <4>2, <4>3 DEF Given
            <4> QED
                BY <2>4, <4>3 DEF Given
        <3>2. LastApplies'
            BY <1>i, <2>1, <2>4, <2>8 DEF LastApplies, Alike
        <3> QED
            BY <1>0, <2>2, <2>6, <2>7, <3>1, <3>2 DEF RadioInv
    <2>9. CASE halfway' = TRUE /\ last' = Nobody
        <3>1. AppliedSoFar' /\ LastApplies'
            BY <2>9, RadioAssumption DEF AppliedSoFar, LastApplies
        <3> QED
            BY <1>0, <2>2, <2>6, <2>7, <3>1 DEF RadioInv
    <2> QED
        BY <1>6, <2>8, <2>9 DEF PutApply, Applied
<1>7. ASSUME NEW p \in Putters, PutEnd(p) PROVE RadioInv'
    <2>1. /\ put[p].pc = "apply" /\ put[p].left = {} /\ clientLock' = Nobody
          /\ put' = [put EXCEPT ![p] = PutIdle]
          /\ UNCHANGED <<rows, hardware, sending, mixed, halfway, last>>
        BY <1>7 DEF PutEnd, history
    <2>2. /\ put'[p].pc = "idle" /\ put'[p].left = {}
          /\ \A q \in Putters \ {p} : put'[q] = put[q]
        BY <1>r, <2>1, PutIdleType DEF PutTypes
    <2>3. clientLock = p
        BY <1>i, <2>1 DEF LockHeld
    <2>4. LockHeld' /\ FieldsInOrder'
        BY <1>i, <2>1, <2>2, <2>3, RadioAssumption DEF LockHeld, FieldsInOrder
    <2>5. ~halfway => hardware = Alike(put[p].cfg) /\ put[p].cfg \in Settings
        BY <1>i, <1>r, <2>1 DEF AppliedSoFar, Given, Alike, PutTypes
    <2>6. AppliedSoFar'
        <3>1. \A q \in Putters : put'[q].pc # "apply"
            BY <1>i, <2>2, <2>3 DEF LockHeld
        <3>2. ~halfway => Uniform(hardware)'
            BY <2>1, <2>5 DEF Uniform, Alike
        <3> QED
            BY <2>1, <3>1, <3>2 DEF AppliedSoFar
    <2>7. LastApplies'
        <3>1. ASSUME last = p PROVE hardware' = rows'
            BY <1>i, <2>1, <2>5, <3>1 DEF LastApplies
        <3> QED
            BY <1>i, <2>1, <2>2, <3>1 DEF LastApplies, Alike
    <2> QED
        BY <1>0, <1>i, <2>1, <2>4, <2>6, <2>7 DEF RadioInv
<1>8. ASSUME NEW p \in Putters, NEW cfg \in Settings, PutBegin(p, cfg) PROVE RadioInv'
    <2>1. /\ put[p].pc = "idle" /\ rows' = Alike(cfg)
          /\ put' = [put EXCEPT ![p] = [pc |-> "lock", cfg |-> cfg, left |-> Fields]]
          /\ last' = IF \A q \in Putters : put[q].pc = "idle" THEN p ELSE Nobody
          /\ UNCHANGED <<hardware, clientLock, sending, mixed, halfway>>
        BY <1>8 DEF PutBegin, Saved
    <2>2. /\ put'[p].pc = "lock" /\ put'[p].left = Fields /\ put'[p].cfg = cfg
          /\ \A q \in Putters \ {p} : put'[q] = put[q]
        BY <1>r, <2>1 DEF PutTypes
    <2>3. LockHeld' /\ FieldsInOrder'
        BY <1>i, <2>1, <2>2 DEF LockHeld, FieldsInOrder
    <2>4. AppliedSoFar'
        BY <1>i, <2>1, <2>2 DEF AppliedSoFar, Given, Uniform, Alike
    <2>5. LastApplies'
        BY <2>1, <2>2, RadioAssumption DEF LastApplies, Alike
    <2> QED
        BY <1>0, <1>i, <2>1, <2>3, <2>4, <2>5 DEF RadioInv
<1>d. ASSUME NEW p \in Putters, PutDropped(p) PROVE RadioInv'
    <2>1. /\ put' = [put EXCEPT ![p] = PutIdle] /\ last' = Nobody
          /\ UNCHANGED <<rows, sending, mixed>>
        BY <1>d DEF PutDropped
    <2>2. /\ put'[p].pc = "idle" /\ put'[p].left = {}
          /\ \A q \in Putters \ {p} : put'[q] = put[q]
        BY <1>r, <2>1, PutIdleType DEF PutTypes
    <2>3. FieldsInOrder' /\ LastApplies'
        BY <1>i, <2>1, <2>2, RadioAssumption DEF FieldsInOrder, LastApplies
    <2>4. CASE put[p].pc = "apply"
        <3>1. clientLock = p /\ clientLock' = Nobody /\ halfway' = TRUE
            BY <1>d, <1>i, <2>4 DEF PutDropped, LockHeld
        <3>2. LockHeld' /\ AppliedSoFar'
            BY <1>i, <2>1, <2>2, <3>1, RadioAssumption DEF LockHeld, AppliedSoFar
        <3> QED
            BY <1>0, <1>i, <2>1, <2>3, <3>2 DEF RadioInv
    <2>5. CASE put[p].pc # "apply"
        <3>1. UNCHANGED <<hardware, clientLock, halfway>>
            BY <1>d, <2>5 DEF PutDropped
        <3>2. LockHeld'
            BY <1>i, <2>1, <2>2, <2>5, <3>1 DEF LockHeld
        <3>3. AppliedSoFar'
            BY <1>i, <2>2, <2>5, <3>1 DEF AppliedSoFar, Given, Uniform, Alike
        <3> QED
            BY <1>0, <1>i, <2>1, <2>3, <3>2, <3>3 DEF RadioInv
    <2> QED
        BY <2>4, <2>5
<1>e. ASSUME NEW cfg \in Settings, PutRefused(cfg) \/ PutSettings(cfg) PROVE RadioInv'
    <2>1. last' = Nobody /\ UNCHANGED <<hardware, clientLock, sending, put, mixed, halfway>>
        BY <1>e DEF PutRefused, PutSettings
    <2>2. LockHeld' /\ FieldsInOrder' /\ LastApplies'
        BY <1>i, <2>1, RadioAssumption DEF LockHeld, FieldsInOrder, LastApplies
    <2>3. AppliedSoFar'
        BY <1>i, <2>1 DEF AppliedSoFar, Given, Uniform, Alike
    <2> QED
        BY <1>0, <1>i, <2>1, <2>2, <2>3 DEF RadioInv
<1>b. CASE Restart
    <2>1. /\ clientLock' = Nobody /\ sending' = 0 /\ mixed' = mixed /\ rows' = rows
          /\ \A q \in Putters : put'[q].pc = "idle" /\ put'[q].left = {}
        BY <1>b, PutIdleType DEF Restart
    <2>2. LockHeld' /\ FieldsInOrder'
        BY <2>1, RadioAssumption DEF LockHeld, FieldsInOrder
    <2>3. CASE hardware' = rows /\ last' = "boot" /\ halfway' = ~\E cfg \in Settings : rows = Alike(cfg)
        <3>1. AppliedSoFar'
            BY <2>1, <2>3, RadioAssumption DEF AppliedSoFar, Uniform, Alike
        <3>2. LastApplies'
            BY <2>1, <2>3, RadioAssumption DEF LastApplies
        <3> QED
            BY <1>0, <1>i, <2>1, <2>2, <3>1, <3>2 DEF RadioInv
    <2>4. CASE halfway' = TRUE /\ last' = Nobody
        <3>1. AppliedSoFar' /\ LastApplies'
            BY <2>4, RadioAssumption DEF AppliedSoFar, LastApplies
        <3> QED
            BY <1>0, <1>i, <2>1, <2>2, <3>1 DEF RadioInv
    <2> QED
        BY <1>b, <2>3, <2>4 DEF Restart
<1>9. CASE TestWanted
    BY <1>9, <1>i, <1>q DEF TestWanted, LockHeld, history
<1>10. CASE TestFrame
    <2>1. sending = 0 /\ mixed' = FALSE
        BY <1>10, <1>i, <1>r, RadioAssumption DEF TestFrame, Interrupts, LockHeld
    <2> QED
        BY <1>10, <1>i, <1>q, <2>1 DEF TestFrame, LockHeld
<1>11. CASE FrameArrives
    BY <1>11, <1>i, <1>q DEF FrameArrives, LockHeld, history
<1>12. CASE TakeFrame
    BY <1>12, <1>i, <1>q DEF TakeFrame, LockHeld, history
<1>13. CASE UNCHANGED radioVars
    BY <1>13, <1>i, <1>q DEF radioVars, LockHeld, history
<1> QED
    BY <1>1, <1>2, <1>3, <1>4, <1>5, <1>6, <1>7, <1>8, <1>d, <1>e, <1>b, <1>9, <1>10, <1>11,
       <1>12, <1>13
    DEF RadioNext

\* A packet goes out under one radio configuration, the radio is left with one, and
\* with the one put last: for any number of requests and packets, whatever fails,
\* is dropped, stored half-way or never applied, as far as RadioWhole and
\* RadioFollowsRows say (lib.rs transmit_message, handlers.rs put_radio,
\* put_settings, radio.rs attach_radio_interface).
THEOREM RadioIsConsistent == RadioSpec => []RadioConsistent
<1>1. RadioInv => RadioConsistent
    <2> SUFFICES ASSUME RadioInv PROVE RadioConsistent
        OBVIOUS
    <2>1. PacketUndisturbed
        BY DEF RadioInv, PacketUndisturbed
    <2>2. RadioWhole
        BY DEF RadioInv, RadioWhole, AppliedSoFar, Uniform
    <2>3. last \in Writers
        BY DEF RadioInv, RadioTypeOK, Writers
    <2>4. RadioFollowsRows
        BY <2>3 DEF RadioInv, RadioFollowsRows, LastApplies, Writers
    <2> QED
        BY <2>1, <2>2, <2>4 DEF RadioConsistent
<1> QED
    BY <1>1, RadioInvInit, RadioInvNext, PTL DEF RadioSpec

-----------------------------------------------------------------------------
(* The VPN's packets.  PacketsAccounted is inductive with the types; what it needs *)
(* is how many tasks hold a frame after each step.                         *)

LEMMA TaskValues ==
    /\ Waiting \in Task /\ Waiting.pc = "recv"
    /\ \A p \in Nodes \cup {NoNode} :
         /\ [pc |-> "send", peer |-> p] \in Task
         /\ \A t \in Task : [t EXCEPT !.peer = p] \in Task
    /\ \A t \in Task : [t EXCEPT !.pc = "credit"] \in Task /\ [t EXCEPT !.pc = "dead"] \in Task
BY DEF Task, Waiting

\* How many tasks hold a frame, when one takes one or lets go of it.
LEMMA BusyTasks ==
    /\ IsFiniteSet(Busy) /\ Cardinality(Busy) \in Nat
    /\ \A s \in Sides \ Busy : Cardinality(Busy \cup {s}) = Cardinality(Busy) + 1
    /\ \A s \in Busy : Cardinality(Busy \ {s}) = Cardinality(Busy) - 1
<1>1. IsFiniteSet({}) /\ IsFiniteSet({"out"}) /\ IsFiniteSet({"out"} \cup {"in"})
    BY FS_EmptySet, FS_AddElement
<1>2. IsFiniteSet(Sides) /\ Busy \subseteq Sides
    BY <1>1 DEF Sides, Busy
<1>3. IsFiniteSet(Busy)
    BY <1>2, FS_Subset
<1> QED
    BY <1>3, FS_CardinalityType, FS_AddElement, FS_RemoveElement

ForwardInv == ForwardTypeOK /\ PacketsAccounted

LEMMA ForwardInvInit == ForwardInit => ForwardInv
<1> SUFFICES ASSUME ForwardInit PROVE ForwardInv
    OBVIOUS
<1>1. Busy = {}
    BY DEF ForwardInit, Busy, Waiting
<1>2. PacketsAccounted
    BY <1>1, FS_EmptySet DEF ForwardInit, PacketsAccounted, Waiting
<1> QED
    BY <1>2, TaskValues DEF ForwardInit, ForwardInv, ForwardTypeOK

LEMMA ForwardInvNext == ForwardInv /\ [ForwardNext]_forwardVars => ForwardInv'
<1> SUFFICES ASSUME ForwardInv, [ForwardNext]_forwardVars PROVE ForwardInv'
    OBVIOUS
<1>0. ForwardTypeOK /\ PacketsAccounted /\ Cardinality(Busy) \in Nat
    BY BusyTasks DEF ForwardInv
<1>t. \A s \in Sides : rxTask[s] \in Task
    BY <1>0 DEF ForwardTypeOK
\* A step that no event task takes leaves as many of them busy.
<1>b. UNCHANGED rxTask => Busy' = Busy
    BY DEF Busy
<1>. USE <1>0, TaskValues
     DEF ForwardInv, ForwardTypeOK, PacketsAccounted, txVars, rxVars, world, RecordDrop
<1>1. CASE ReadTun
    <2>1. Busy' = Busy /\ txTask' \in Task
        BY <1>1, <1>b DEF ReadTun
    <2> QED
        BY <1>1, <2>1 DEF ReadTun
<1>2. CASE SendToLink
    <2>1. Busy' = Busy /\ txTask' \in Task
        BY <1>2, <1>b DEF SendToLink
    <2> QED
        BY <1>2, <2>1 DEF SendToLink, Task
<1>3. CASE CreditSent
    <2>1. Busy' = Busy /\ txTask' \in Task
        BY <1>3, <1>b DEF CreditSent
    <2> QED
        BY <1>3, <2>1 DEF CreditSent
<1>4. CASE TunFails
    <2>1. Busy' = Busy /\ txTask' \in Task
        BY <1>4, <1>b DEF TunFails
    <2> QED
        BY <1>4, <2>1 DEF TunFails, Waiting
<1>5. ASSUME NEW s \in Sides, ReadLink(s) PROVE ForwardInv'
    <2>1. CASE RecordDrop /\ UNCHANGED rxTask
        BY <1>5, <1>b, <2>1 DEF ReadLink
    <2>2. CASE /\ \E to \in Nodes \cup {NoNode} :
                    rxTask' = [rxTask EXCEPT ![s] = [pc |-> "send", peer |-> to]]
               /\ UNCHANGED dropped
        <3>1. rxTask' \in [Sides -> Task]
            BY <2>2
        <3>2. s \notin Busy /\ Busy' = Busy \cup {s}
            BY <1>5, <2>2 DEF ReadLink, Busy
        <3>3. Cardinality(Busy') = Cardinality(Busy) + 1
            BY <3>2, BusyTasks
        <3> QED
            BY <1>5, <2>2, <3>1, <3>3 DEF ReadLink
    <2> QED
        BY <1>5, <2>1, <2>2 DEF ReadLink, Credited
<1>6. ASSUME NEW s \in Sides, SendToTun(s) PROVE ForwardInv'
    <2>1. rxTask' \in [Sides -> Task]
        BY <1>6, <1>t DEF SendToTun
    <2>2. s \in Busy /\ Busy' = Busy \ {s}
        BY <1>6 DEF SendToTun, Busy, Waiting, Task
    <2>3. Cardinality(Busy') = Cardinality(Busy) - 1
        BY <2>2, BusyTasks
    <2> QED
        BY <1>6, <2>1, <2>3 DEF SendToTun
<1>7. ASSUME NEW s \in Sides, CreditReceived(s) PROVE ForwardInv'
    <2>1. rxTask' \in [Sides -> Task] /\ peerReceived' \in [Nodes -> Nat]
        BY <1>7, <1>t DEF CreditReceived, Task
    <2>2. Busy' = Busy
        BY <1>7 DEF CreditReceived, Busy, Waiting
    <2> QED
        BY <1>7, <2>1, <2>2 DEF CreditReceived
<1>8. ASSUME NEW S \in SUBSET Nodes, NEW all \in BOOLEAN, ReplacePeers(S, all) PROVE ForwardInv'
    <2>1. rxTask' \in [Sides -> Task]
        BY <1>8, <1>t DEF ReplacePeers
    <2>2. Busy' = Busy
        BY <1>8, <1>t DEF ReplacePeers, Busy, Task
    <2> QED
        BY <1>8, <2>1, <2>2 DEF ReplacePeers
<1>9. ASSUME NEW p \in Nodes, LinkChanges(p) PROVE ForwardInv'
    BY <1>9, <1>b DEF LinkChanges
<1>10. CASE UNCHANGED forwardVars
    BY <1>10, <1>b DEF forwardVars
<1> QED
    BY <1>1, <1>2, <1>3, <1>4, <1>5, <1>6, <1>7, <1>8, <1>9, <1>10 DEF ForwardNext

\* Every packet and frame the VPN reads is accounted for, for any number of peers
\* and packets (runtime.rs spawn_tun_rx, handle_link_data).
THEOREM NoPacketIsLost == ForwardSpec => []PacketsAccounted
<1>1. ForwardInv => PacketsAccounted
    BY DEF ForwardInv
<1> QED
    BY <1>1, ForwardInvInit, ForwardInvNext, PTL DEF ForwardSpec

-----------------------------------------------------------------------------
(* The VPN's peers: what is credited to them.                              *)

\* What has been counted for the node and is still to be credited to a peer: one
\* packet at most that was sent, and one frame of each side.
Due == {s \in Sides : rxTask[s].pc = "credit"}

SentBounded == Tally(peerSent) + (IF txTask.pc = "credit" THEN 1 ELSE 0) <= sentCount
ReceivedBounded == Tally(peerReceived) + Cardinality(Due) <= received

CreditInv == SentBounded /\ ReceivedBounded

LEMMA DueTasks ==
    /\ IsFiniteSet(Due) /\ Cardinality(Due) \in Nat
    /\ \A s \in Sides \ Due : Cardinality(Due \cup {s}) = Cardinality(Due) + 1
    /\ \A s \in Due : Cardinality(Due \ {s}) = Cardinality(Due) - 1
<1>1. IsFiniteSet({}) /\ IsFiniteSet({"out"}) /\ IsFiniteSet({"out"} \cup {"in"})
    BY FS_EmptySet, FS_AddElement
<1>2. IsFiniteSet(Sides) /\ Due \subseteq Sides
    BY <1>1 DEF Sides, Due
<1>3. IsFiniteSet(Due)
    BY <1>2, FS_Subset
<1> QED
    BY <1>3, FS_CardinalityType, FS_AddElement, FS_RemoveElement

LEMMA CreditInvInit == ForwardInit => CreditInv
<1> SUFFICES ASSUME ForwardInit PROVE CreditInv
    OBVIOUS
<1>1. Due = {} /\ txTask.pc = "recv" /\ sentCount = 0 /\ received = 0
    BY DEF ForwardInit, Due, Waiting
<1>2. Tally(peerSent) = 0 /\ Tally(peerReceived) = 0
    BY TallyZero DEF ForwardInit
<1> QED
    BY <1>1, <1>2, FS_EmptySet DEF CreditInv, SentBounded, ReceivedBounded

\* One more for one peer.
LEMMA CreditsOne ==
    ASSUME NEW f \in [Nodes -> Nat], NEW p \in Nodes, NEW g, g = [f EXCEPT ![p] = @ + 1]
    PROVE  Tally(g) \in Nat /\ Tally(g) = Tally(f) + 1
<1> DEFINE u == <<p, f[p] + 1>>
<1>1. g \in [Nodes -> Nat] /\ f[p] \in Nat
    OBVIOUS
<1>2. u \notin Units(f) /\ Units(g) = Units(f) \cup {u}
    <2>1. Units(f) = {v \in Nodes \X Nat : v[2] \in 1..f[v[1]]}
        BY UnitsAre
    <2>2. Units(g) = {v \in Nodes \X Nat : v[2] \in 1..g[v[1]]}
        BY <1>1, UnitsAre
    <2>3. ASSUME NEW v \in Nodes \X Nat PROVE v[2] \in 1..g[v[1]] <=> v[2] \in 1..f[v[1]] \/ v = u
        <3>1. v[1] \in Nodes /\ v[2] \in Nat /\ v = <<v[1], v[2]>>
            OBVIOUS
        <3>2. CASE v[1] = p
            BY <1>1, <3>1, <3>2
        <3>3. CASE v[1] # p
            BY <1>1, <3>1, <3>3
        <3> QED
            BY <3>2, <3>3
    <2>4. u \in Nodes \X Nat /\ u[1] = p /\ u[2] = f[p] + 1
        BY <1>1
    <2> HIDE DEF u
    <2>5. Units(g) = Units(f) \cup {u}
        BY <2>1, <2>2, <2>3, <2>4
    <2>6. ~(u[2] \in 1..f[u[1]])
        BY <1>1, <2>4
    <2>7. u \notin Units(f)
        BY <2>1, <2>6
    <2> QED
        BY <2>5, <2>7
<1>3. IsFiniteSet(Nodes)
    BY ForwardAssumption
<1> HIDE DEF u
<1>4. Tally(g) = Tally(f) + 1
    BY <1>2, <1>3, TallyOneMore
<1> QED
    BY <1>1, <1>3, <1>4, TallyType

LEMMA CreditInvNext ==
    ForwardTypeOK /\ CreditInv /\ [ForwardNext]_forwardVars => CreditInv'
<1> SUFFICES ASSUME ForwardTypeOK, CreditInv, [ForwardNext]_forwardVars PROVE CreditInv'
    OBVIOUS
<1>0. SentBounded /\ ReceivedBounded /\ Cardinality(Due) \in Nat
    BY DueTasks DEF CreditInv
<1>t. /\ peerSent \in [Nodes -> Nat] /\ peerReceived \in [Nodes -> Nat] /\ sentCount \in Nat /\ received \in Nat
      /\ txTask \in Task /\ rxTask \in [Sides -> Task]
      /\ Tally(peerSent) \in Nat /\ Tally(peerReceived) \in Nat
    BY TallyType, ForwardAssumption DEF ForwardTypeOK
<1>s. UNCHANGED <<txTask, peerSent, sentCount>> => SentBounded'
    BY <1>0 DEF SentBounded
<1>r. UNCHANGED <<rxTask, peerReceived, received>> => ReceivedBounded'
    BY <1>0 DEF ReceivedBounded, Due
<1>1. CASE ReadTun
    <2>1. UNCHANGED <<peerSent, sentCount>> /\ UNCHANGED <<rxTask, peerReceived, received>>
        BY <1>1 DEF ReadTun, rxVars
    <2>2. txTask.pc = "recv" /\ (txTask' = txTask \/ txTask'.pc = "send")
        BY <1>1 DEF ReadTun
    <2> QED
        BY <1>0, <1>r, <2>1, <2>2 DEF CreditInv, SentBounded
<1>2. CASE SendToLink
    <2>1. UNCHANGED peerSent /\ UNCHANGED <<rxTask, peerReceived, received>> /\ txTask.pc = "send"
        BY <1>2 DEF SendToLink, rxVars
    <2>2. \/ sentCount' = sentCount + 1 /\ txTask'.pc = "credit"
          \/ sentCount' = sentCount /\ txTask'.pc = "recv"
        BY <1>2, <1>t DEF SendToLink, Waiting, Task
    <2> QED
        BY <1>0, <1>t, <1>r, <2>1, <2>2 DEF CreditInv, SentBounded
<1>3. CASE CreditSent
    <2>1. UNCHANGED sentCount /\ UNCHANGED <<rxTask, peerReceived, received>>
        BY <1>3 DEF CreditSent, rxVars
    <2>2. txTask.pc = "credit" /\ txTask'.pc = "recv"
        BY <1>3 DEF CreditSent, Waiting
    <2>3. Tally(peerSent') \in Nat /\ Tally(peerSent') <= Tally(peerSent) + 1
        <3>1. CASE txTask.peer \in peers
            <4>1. txTask.peer \in Nodes
                BY <3>1 DEF ForwardTypeOK
            <4>2. peerSent' = [peerSent EXCEPT ![txTask.peer] = @ + 1]
                BY <1>3, <3>1 DEF CreditSent
            <4>3. Tally(peerSent') \in Nat /\ Tally(peerSent') = Tally(peerSent) + 1
                BY <1>t, <4>1, <4>2, CreditsOne
            <4> QED
                BY <1>t, <4>3
        <3>2. CASE txTask.peer \notin peers
            BY <1>3, <1>t, <3>2 DEF CreditSent
        <3> QED
            BY <3>1, <3>2
    <2>4. SentBounded'
        BY <1>0, <1>t, <2>1, <2>2, <2>3 DEF SentBounded
    <2> QED
        BY <1>r, <2>1, <2>4 DEF CreditInv
<1>4. CASE TunFails
    <2>1. UNCHANGED <<peerSent, sentCount>> /\ UNCHANGED <<rxTask, peerReceived, received>>
        BY <1>4 DEF TunFails, rxVars
    <2>2. txTask.pc = "recv" /\ txTask'.pc = "dead"
        BY <1>4 DEF TunFails, Waiting
    <2> QED
        BY <1>0, <1>r, <2>1, <2>2 DEF CreditInv, SentBounded
<1>5. ASSUME NEW s \in Sides, ReadLink(s) PROVE CreditInv'
    <2>1. UNCHANGED <<txTask, peerSent, sentCount>> /\ UNCHANGED <<peerReceived, received>>
        BY <1>5 DEF ReadLink, txVars
    <2>2. rxTask[s].pc = "recv" /\ \A q \in Sides : rxTask'[q].pc = "credit" <=> rxTask[q].pc = "credit"
        BY <1>5, <1>t DEF ReadLink
    <2>3. Due' = Due
        BY <2>2 DEF Due
    <2> QED
        BY <1>0, <1>s, <2>1, <2>3 DEF CreditInv, ReceivedBounded
<1>6. ASSUME NEW s \in Sides, SendToTun(s) PROVE CreditInv'
    <2>1. UNCHANGED <<txTask, peerSent, sentCount>> /\ UNCHANGED peerReceived /\ s \notin Due
        BY <1>6 DEF SendToTun, txVars, Due
    <2>2. \/ received' = received + 1 /\ Due' = Due \cup {s}
          \/ received' = received /\ Due' = Due
        BY <1>6, <1>t DEF SendToTun, Due, Waiting, Task
    <2>3. Cardinality(Due \cup {s}) = Cardinality(Due) + 1
        BY <2>1, DueTasks
    <2>4. /\ Tally(peerReceived') = Tally(peerReceived)
          /\ \/ received' = received + 1 /\ Cardinality(Due') = Cardinality(Due) + 1
             \/ received' = received /\ Cardinality(Due') = Cardinality(Due)
        BY <2>1, <2>2, <2>3
    <2>5. ReceivedBounded'
        BY <1>0, <1>t, <2>4 DEF ReceivedBounded
    <2> QED
        BY <1>s, <2>1, <2>5 DEF CreditInv
<1>7. ASSUME NEW s \in Sides, CreditReceived(s) PROVE CreditInv'
    <2> DEFINE p == rxTask[s].peer
    <2>1. UNCHANGED <<txTask, peerSent, sentCount>> /\ UNCHANGED received /\ s \in Due
        BY <1>7 DEF CreditReceived, txVars, Due
    <2>2. Due' = Due \ {s}
        BY <1>7, <1>t DEF CreditReceived, Due, Waiting
    <2>3. Cardinality(Due \ {s}) = Cardinality(Due) - 1
        BY <2>1, DueTasks
    <2>4. p \in Nodes \cup {NoNode}
        BY <1>t DEF Task
    <2>5. Tally(peerReceived') \in Nat /\ Tally(peerReceived') <= Tally(peerReceived) + 1
        <3>1. CASE p = NoNode
            BY <1>7, <1>t, <3>1 DEF CreditReceived
        <3>2. CASE p # NoNode
            <4>1. peerReceived' = [peerReceived EXCEPT ![p] = @ + 1] /\ p \in Nodes
                BY <1>7, <2>4, <3>2 DEF CreditReceived
            <4> HIDE DEF p
            <4>2. Tally(peerReceived') \in Nat /\ Tally(peerReceived') = Tally(peerReceived) + 1
                BY <1>t, <4>1, CreditsOne
            <4> QED
                BY <1>t, <4>2
        <3> QED
            BY <3>1, <3>2
    <2>6. ReceivedBounded'
        BY <1>0, <1>t, <2>1, <2>2, <2>3, <2>5 DEF ReceivedBounded
    <2> QED
        BY <1>s, <2>1, <2>6 DEF CreditInv
<1>8. ASSUME NEW S \in SUBSET Nodes, NEW all \in BOOLEAN, ReplacePeers(S, all) PROVE CreditInv'
    <2>1. UNCHANGED <<txTask, sentCount, received>>
        BY <1>8 DEF ReplacePeers
    <2>2. \A q \in Sides : rxTask'[q].pc = rxTask[q].pc
        BY <1>8, <1>t DEF ReplacePeers, Task
    <2>3. Due' = Due
        BY <2>2 DEF Due
    <2>4. /\ peerSent' \in [Nodes -> Nat] /\ \A n \in Nodes : peerSent'[n] <= peerSent[n]
          /\ peerReceived' \in [Nodes -> Nat] /\ \A n \in Nodes : peerReceived'[n] <= peerReceived[n]
        BY <1>8, <1>t DEF ReplacePeers
    <2>5. Tally(peerSent') <= Tally(peerSent) /\ Tally(peerSent') \in Nat
        BY <1>t, <2>4, TallyNoMore, TallyType, ForwardAssumption
    <2>6. Tally(peerReceived') <= Tally(peerReceived) /\ Tally(peerReceived') \in Nat
        BY <1>t, <2>4, TallyNoMore, TallyType, ForwardAssumption
    <2>7. SentBounded'
        BY <1>0, <1>t, <2>1, <2>5 DEF SentBounded
    <2>8. ReceivedBounded'
        BY <1>0, <1>t, <2>1, <2>3, <2>6 DEF ReceivedBounded
    <2> QED
        BY <2>7, <2>8 DEF CreditInv
<1>9. ASSUME NEW p \in Nodes, LinkChanges(p) PROVE CreditInv'
    BY <1>9, <1>s, <1>r DEF LinkChanges, txVars, rxVars, CreditInv
<1>10. CASE UNCHANGED forwardVars
    BY <1>10, <1>s, <1>r DEF forwardVars, CreditInv
<1> QED
    BY <1>1, <1>2, <1>3, <1>4, <1>5, <1>6, <1>7, <1>8, <1>9, <1>10 DEF ForwardNext

LEMMA CreditIsBounded == ForwardTypeOK /\ CreditInv => PeerCountsBounded
<1> SUFFICES ASSUME ForwardTypeOK, CreditInv PROVE PeerCountsBounded
    OBVIOUS
<1>1. Tally(peerSent) \in Nat /\ Tally(peerReceived) \in Nat /\ Cardinality(Due) \in Nat
      /\ sentCount \in Nat /\ received \in Nat
    BY TallyType, DueTasks, ForwardAssumption DEF ForwardTypeOK
<1> QED
    BY <1>1 DEF CreditInv, SentBounded, ReceivedBounded, PeerCountsBounded

\* A peer is never credited with more than the node has counted, for any number of
\* peers, packets and replacements of the peers (runtime.rs record_tx, record_rx).
THEOREM PeersAreCredited == ForwardSpec => []PeerCountsBounded
<1>1. ForwardInit => ForwardInv /\ CreditInv
    BY ForwardInvInit, CreditInvInit
<1>2. (ForwardInv /\ CreditInv) /\ [ForwardNext]_forwardVars => (ForwardInv /\ CreditInv)'
    BY ForwardInvNext, CreditInvNext DEF ForwardInv
<1>3. ForwardInv /\ CreditInv => PeerCountsBounded
    BY CreditIsBounded DEF ForwardInv
<1> QED
    BY <1>1, <1>2, <1>3, PTL DEF ForwardSpec

-----------------------------------------------------------------------------
(* Addresses.                                                              *)

LEMMA CidrFacts ==
    ASSUME NEW r \in AllCidrs
    PROVE  /\ r[1] \in 0..Width /\ r[2] \in Nat /\ r[2] \in Addresses /\ Size(r) \in Nat \ {0}
           /\ r[2] % Size(r) = 0 /\ r[2] + Size(r) <= 2^Width
           /\ \A ip \in Nat : InCidr(r, ip) <=> CidrBounds(r)[1] <= ip /\ ip <= CidrBounds(r)[2]
<1> DEFINE l == r[1]
           m == Width - l
           s == Size(r)
           y == r[2]
<1>1. Width \in Nat
    BY AddressingAssumption
<1>2. 2^Width \in Nat \ {0}
    BY <1>1, PowerType
<1>3. l \in 0..Width /\ l \in Nat /\ y \in Nat /\ y \in Addresses /\ y <= 2^Width - 1 /\ y % s = 0
    BY <1>1, <1>2 DEF AllCidrs, Addresses
<1>4. m \in Nat /\ l + m = Width /\ s = 2^m
    BY <1>1, <1>3 DEF Size
<1> HIDE DEF l, m, s, y
<1>5. s \in Nat \ {0} /\ 2^l \in Nat \ {0}
    BY <1>3, <1>4, PowerType
<1>6. 2^Width = 2^l * s
    <2>1. 2^(l + m) = 2^l * 2^m
        BY <1>3, <1>4, PowerSum
    <2> QED
        BY <1>4, <2>1
<1>7. y + s <= 2^Width
    <2> DEFINE k == y \div s
               n == 2^l
    <2>1. n \in Nat \ {0} /\ 2^Width = n * s
        BY <1>5, <1>6
    <2>2. k \in Nat /\ y = k * s
        BY <1>3, <1>5
    <2> HIDE DEF k, n
    <2>3. k < n
        <3>1. ASSUME k >= n PROVE FALSE
            <4>1. k - n \in Nat
                BY <2>1, <2>2, <3>1
            <4>2. (k - n) * s \in Nat /\ k * s = n * s + (k - n) * s
                BY <1>5, <2>1, <2>2, <4>1
            <4>3. n * s \in Nat
                BY <1>5, <2>1
            <4> QED
                BY <1>3, <2>1, <2>2, <4>2, <4>3
        <3> QED
            BY <2>1, <2>2, <3>1
    <2>4. n - k - 1 \in Nat
        BY <2>1, <2>2, <2>3
    <2>5. (n - k - 1) * s \in Nat /\ n * s = k * s + s + (n - k - 1) * s
        BY <1>5, <2>1, <2>2, <2>4
    <2> QED
        BY <1>3, <1>5, <2>1, <2>2, <2>5
<1>8. ASSUME NEW ip \in Nat PROVE ip \div s = y \div s <=> y <= ip /\ ip <= y + s - 1
    BY <1>3, <1>5, SameQuotient
<1>9. \A ip \in Nat : InCidr(r, ip) <=> CidrBounds(r)[1] <= ip /\ ip <= CidrBounds(r)[2]
    BY <1>8 DEF InCidr, CidrBounds, s, y
<1> QED
    BY <1>3, <1>5, <1>7, <1>9 DEF l, s, y

LEMMA OverlapIsExact == OverlapExact
<1> SUFFICES ASSUME NEW a \in AllCidrs, NEW b \in AllCidrs
             PROVE  RoutesOverlap(a, b) <=> \E ip \in Addresses : InCidr(a, ip) /\ InCidr(b, ip)
    BY DEF OverlapExact
<1> DEFINE la == CidrBounds(a)[1]
           ha == CidrBounds(a)[2]
           lb == CidrBounds(b)[1]
           hb == CidrBounds(b)[2]
<1>1. /\ la = a[2] /\ ha = a[2] + Size(a) - 1
      /\ lb = b[2] /\ hb = b[2] + Size(b) - 1
    BY DEF CidrBounds
<1>2. a[2] \in Nat /\ a[2] \in Addresses /\ Size(a) \in Nat \ {0}
      /\ \A ip \in Nat : InCidr(a, ip) <=> la <= ip /\ ip <= ha
    BY CidrFacts
<1>3. b[2] \in Nat /\ b[2] \in Addresses /\ Size(b) \in Nat \ {0}
      /\ \A ip \in Nat : InCidr(b, ip) <=> lb <= ip /\ ip <= hb
    BY CidrFacts
<1>4. Addresses \subseteq Nat
    BY DEF Addresses
<1>5. RoutesOverlap(a, b) <=> la <= hb /\ lb <= ha
    BY DEF RoutesOverlap
<1>6. la \in Addresses /\ lb \in Addresses /\ la \in Nat /\ lb \in Nat /\ ha \in Nat /\ hb \in Nat
      /\ la <= ha /\ lb <= hb
    BY <1>1, <1>2, <1>3
<1> HIDE DEF la, ha, lb, hb
<1>7. ASSUME NEW ip \in Addresses, InCidr(a, ip), InCidr(b, ip) PROVE la <= hb /\ lb <= ha
    <2>1. ip \in Nat /\ la <= ip /\ ip <= ha /\ lb <= ip /\ ip <= hb
        BY <1>2, <1>3, <1>4, <1>7
    <2> QED
        BY <1>6, <2>1
<1>8. ASSUME la <= hb, lb <= ha PROVE \E ip \in Addresses : InCidr(a, ip) /\ InCidr(b, ip)
    <2>1. CASE la <= lb
        BY <1>2, <1>3, <1>6, <1>8, <2>1
    <2>2. CASE lb <= la
        BY <1>2, <1>3, <1>6, <1>8, <2>2
    <2> QED
        BY <1>6, <2>1, <2>2
<1> QED
    BY <1>5, <1>7, <1>8

\* The tunnel address of any hash lies inside the network, and is neither its
\* first address nor its last.
LEMMA TunnelIpInside ==
    ASSUME NEW hash \in Nat
    PROVE  LET ip == DeriveTunnelIp(hash) IN
           /\ ip \in Nat /\ ip \in Addresses /\ InCidr(Network, ip)
           /\ ip > CidrBounds(Network)[1] /\ ip < CidrBounds(Network)[2]
<1> DEFINE s == Size(Network)
           y == Network[2]
           ip == DeriveTunnelIp(hash)
           n == 2^Width
<1>1. Network \in AllCidrs /\ Width \in Nat /\ Network[1] + 2 <= Width
    BY AddressingAssumption
<1>2. /\ Network[1] \in 0..Width /\ y \in Nat /\ s \in Nat \ {0} /\ y + s <= n
      /\ \A x \in Nat : InCidr(Network, x) <=> CidrBounds(Network)[1] <= x /\ x <= CidrBounds(Network)[2]
    BY <1>1, CidrFacts
<1>3. s >= 4
    <2>1. Width - Network[1] \in Nat /\ Width - Network[1] >= 2
        BY <1>1, <1>2
    <2> QED
        BY <2>1, PowerGrows DEF Size
<1>4. CidrBounds(Network)[1] = y /\ CidrBounds(Network)[2] = y + s - 1
    BY DEF CidrBounds
<1>5. n \in Nat
    BY <1>1, PowerType
<1>6. ip = y + (hash % (s - 2)) + 1
    BY DEF DeriveTunnelIp
<1>7. Addresses = 0..n - 1
    BY DEF Addresses
<1> HIDE DEF s, y, ip, n
<1>8. s - 2 \in Nat \ {0}
    BY <1>2, <1>3
<1>9. hash % (s - 2) \in 0..(s - 2) - 1
    <2> DEFINE d == s - 2
    <2>1. d \in Nat \ {0}
        BY <1>8
    <2> HIDE DEF d
    <2>2. hash % d \in 0..d - 1
        BY <2>1
    <2> QED
        BY <2>2 DEF d
<1>10. ip \in Nat /\ ip > y /\ ip < y + s - 1 /\ ip <= n - 1
    BY <1>2, <1>3, <1>5, <1>6, <1>9
<1> QED
    BY <1>2, <1>4, <1>7, <1>10 DEF ip

LEMMA AddressingIsExact == ownSeed \in Seeds => AddressingExact
<1> SUFFICES ASSUME ownSeed \in Seeds PROVE AddressingExact
    OBVIOUS
<1>1. ownSeed \in Nat
    BY AddressingAssumption
<1>2. LET ip == OwnTunnelIp IN
         InCidr(Network, ip) /\ ip \notin {CidrBounds(Network)[1], CidrBounds(Network)[2]}
    <2> DEFINE ip == OwnTunnelIp
               lo == CidrBounds(Network)[1]
               hi == CidrBounds(Network)[2]
    <2>1. ip \in Nat /\ InCidr(Network, ip) /\ ip > lo /\ ip < hi
        BY <1>1, TunnelIpInside DEF OwnTunnelIp
    <2>2. lo \in Nat /\ hi \in Nat
        BY AddressingAssumption, CidrFacts DEF CidrBounds
    <2> HIDE DEF ip, lo, hi
    <2>3. InCidr(Network, ip) /\ ip \notin {lo, hi}
        BY <2>1, <2>2
    <2> QED
        BY <2>3 DEF ip, lo, hi
<1>3. ASSUME NEW octet \in FirstAlias..LastAlias
      PROVE  /\ ExportLocalRoute(octet, ownSeed) # octet
             /\ ExportLocalRoute(octet, ownSeed) \in FirstAlias..LastAlias
    <2> DEFINE n == LastAlias - FirstAlias + 1
               m == ownSeed % n
    <2>1. FirstAlias \in Nat /\ LastAlias \in Nat /\ FirstAlias < LastAlias
        BY AddressingAssumption
    <2>2. n \in Nat \ {0}
        BY <2>1
    <2>3. m \in 0..n - 1
        <3> HIDE DEF n
        <3> QED
            BY <1>1, <2>2
    <2>4. ExportLocalRoute(octet, ownSeed) =
              IF FirstAlias + m # octet THEN FirstAlias + m
              ELSE IF FirstAlias + m = LastAlias THEN FirstAlias ELSE FirstAlias + m + 1
        BY DEF ExportLocalRoute
    <2> HIDE DEF m
    <2> QED
        BY <2>1, <2>3, <2>4
<1> QED
    BY <1>2, <1>3, OverlapIsExact DEF AddressingExact

-----------------------------------------------------------------------------
(* The routing table: what it has of the peers that were visited.          *)

\* What build has made of the peers it has visited.
Visited == Gateways \ pending
Free(p) == Live(p) \ Refused(p)

TunnelRight ==
    /\ \A p \in Visited : DeriveTunnelIp(seed[p]) \in DOMAIN tunnel
    /\ \A ip \in DOMAIN tunnel : tunnel[ip] \in Visited /\ DeriveTunnelIp(seed[tunnel[ip]]) = ip

ClaimsRight ==
    /\ \A p \in Visited : Free(p) \subseteq DOMAIN claimed
    /\ \A r \in DOMAIN claimed : claimed[r] \in Visited /\ r \in Free(claimed[r])

InConflict(r) ==
    \/ \E p \in Visited : r \in Refused(p)
    \/ \E p, q \in Visited : p # q /\ r \in Free(p) /\ r \in Free(q)

ConflictsRight == \A r : r \in conflicts <=> InConflict(r)

Kept == {<<r, claimed[r]>> : r \in DOMAIN claimed \ conflicts}

\* The list has every subnet that was kept, the longer prefixes first.
ListRight ==
    subnets # <<>> =>
        /\ pending = {}
        /\ \A i \in 1..Len(subnets) : subnets[i] \in Kept
        /\ \A e \in Kept : \E i \in 1..Len(subnets) : subnets[i] = e
        /\ \A i, j \in 1..Len(subnets) : LongerPrefix(subnets[i], subnets[j]) => i < j

TableInv == TableTypeOK /\ TunnelRight /\ ClaimsRight /\ ConflictsRight /\ ListRight

LEMMA TableInvInit == TableInit => TableInv
<1> SUFFICES ASSUME TableInit PROVE TableInv
    OBVIOUS
<1>1. Visited = {} /\ DOMAIN tunnel = {} /\ DOMAIN claimed = {} /\ conflicts = {} /\ subnets = <<>>
    BY DEF TableInit, Visited
<1>2. TableTypeOK
    BY <1>1 DEF TableInit, TableTypeOK
<1> QED
    BY <1>1, <1>2 DEF TableInv, TunnelRight, ClaimsRight, ConflictsRight, InConflict, ListRight

LEMMA TableVisit == ASSUME TableInv, NEW p \in Gateways, VisitPeer(p) PROVE TableInv'
<1> DEFINE ip == DeriveTunnelIp(seed[p])
<1>1. /\ TableTypeOK /\ TunnelRight /\ ClaimsRight /\ ConflictsRight /\ ListRight
    BY DEF TableInv
<1>2. /\ p \in pending /\ pending' = pending \ {p}
      /\ conflicts' = conflicts \cup Refused(p) \cup Disputed(p)
      /\ UNCHANGED <<seed, ownSeed, offers, subnets>>
    BY DEF VisitPeer
<1>3. Visited' = Visited \cup {p} /\ p \notin Visited
    BY <1>2 DEF Visited
<1>4. /\ \A q : Live(q)' = Live(q) /\ Refused(q)' = Refused(q) /\ Free(q)' = Free(q)
      /\ \A h : DeriveTunnelIp(h)' = DeriveTunnelIp(h)
    BY <1>2 DEF Live, Refused, Free, OwnTunnelIp, DeriveTunnelIp
<1>5. /\ DOMAIN tunnel' = {ip} \cup DOMAIN tunnel
      /\ tunnel'[ip] = p
      /\ \A a \in DOMAIN tunnel : a # ip => tunnel'[a] = tunnel[a]
    <2>1. tunnel' = [a \in DOMAIN tunnel \cup {ip} |-> IF a = ip THEN p ELSE tunnel[a]]
        BY DEF VisitPeer
    <2> HIDE DEF ip
    <2> QED
        BY <2>1
<1>6. /\ DOMAIN claimed' = DOMAIN claimed \cup Free(p)
      /\ \A r \in DOMAIN claimed : claimed'[r] = claimed[r]
      /\ \A r \in Free(p) \ DOMAIN claimed : claimed'[r] = p
    <2>1. claimed' = [r \in DOMAIN claimed \cup Free(p) |->
                        IF r \in DOMAIN claimed THEN claimed[r] ELSE p]
        BY DEF VisitPeer, Free
    <2> QED
        BY <2>1
<1> HIDE DEF ip
<1>7. TunnelRight'
    <2>1. DeriveTunnelIp(seed[p]) = ip
        BY DEF ip
    <2>2. \A a \in DOMAIN tunnel' : tunnel'[a] \in Visited' /\ DeriveTunnelIp(seed[tunnel'[a]]) = a
        BY <1>1, <1>3, <1>5, <2>1 DEF TunnelRight
    <2>3. \A q \in Visited' : DeriveTunnelIp(seed[q]) \in DOMAIN tunnel'
        BY <1>1, <1>3, <1>5, <2>1 DEF TunnelRight
    <2> QED
        BY <1>2, <1>4, <2>2, <2>3 DEF TunnelRight
<1>8. ClaimsRight'
    BY <1>1, <1>3, <1>4, <1>6 DEF ClaimsRight
<1>9. ConflictsRight'
    <2>1. Disputed(p) = Free(p) \cap DOMAIN claimed
        BY DEF Disputed, Free
    <2> SUFFICES ASSUME NEW r PROVE r \in conflicts' <=> InConflict(r)'
        BY DEF ConflictsRight
    <2>2. r \in conflicts <=> InConflict(r)
        BY <1>1 DEF ConflictsRight
    <2>3. r \in DOMAIN claimed <=> \E q \in Visited : r \in Free(q)
        BY <1>1 DEF ClaimsRight
    <2>4. r \in conflicts' <=> r \in conflicts \/ r \in Refused(p) \/ (r \in Free(p) /\ r \in DOMAIN claimed)
        BY <1>2, <2>1
    <2>5. InConflict(r)' <=> InConflict(r) \/ r \in Refused(p) \/ (r \in Free(p) /\ \E q \in Visited : r \in Free(q))
        BY <1>3, <1>4 DEF InConflict
    <2> QED
        BY <2>2, <2>3, <2>4, <2>5
<1>10. ListRight'
    <2>1. subnets = <<>>
        BY <1>1, <1>2 DEF ListRight
    <2> QED
        BY <1>2, <2>1 DEF ListRight
<1>11. TableTypeOK'
    <2>1. seed[p] \in Nat /\ Live(p) \subseteq Offered
        BY <1>1, AddressingAssumption DEF TableTypeOK, Live
    <2>2. ip \in Addresses
        BY <2>1, TunnelIpInside DEF ip
    <2>3. Free(p) \subseteq Offered /\ Refused(p) \subseteq Offered /\ Disputed(p) \subseteq Offered
        BY <2>1 DEF Free, Refused, Disputed
    <2>4. /\ seed' \in [Gateways -> Seeds] /\ ownSeed' \in Seeds
          /\ offers' \in [Gateways -> [routes : SUBSET Offered, expired : BOOLEAN]]
          /\ pending' \subseteq Gateways
          /\ subnets' \in Seq(Offered \X Gateways) /\ conflicts' \subseteq Offered
        BY <1>1, <1>2, <2>3 DEF TableTypeOK
    <2>5. DOMAIN tunnel' \subseteq Addresses /\ \A a \in DOMAIN tunnel' : tunnel'[a] \in Gateways \ pending'
        BY <1>1, <1>2, <1>5, <2>2 DEF TableTypeOK
    <2>6. DOMAIN claimed' \subseteq Offered /\ \A r \in DOMAIN claimed' : claimed'[r] \in Gateways \ pending'
        BY <1>1, <1>2, <1>6, <2>3 DEF TableTypeOK
    <2>7. Addresses' = Addresses
        BY DEF Addresses
    <2> QED
        BY <2>4, <2>5, <2>6 DEF TableTypeOK
<1> QED
    BY <1>7, <1>8, <1>9, <1>10, <1>11 DEF TableInv

LEMMA KeptIsFinite == ASSUME TableTypeOK PROVE IsFiniteSet(Kept)
<1>1. Width \in Nat /\ 2^Width \in Nat
    BY AddressingAssumption, PowerType
<1>2. IsFiniteSet(0..Width) /\ IsFiniteSet(Addresses)
    BY <1>1, FS_Interval DEF Addresses
<1>3. IsFiniteSet((0..Width) \X Addresses)
    BY <1>2, FS_Product
<1>4. DOMAIN claimed \ conflicts \subseteq (0..Width) \X Addresses
    BY AddressingAssumption DEF TableTypeOK, AllCidrs
<1>5. IsFiniteSet(DOMAIN claimed \ conflicts)
    BY <1>3, <1>4, FS_Subset
<1> DEFINE onto == [r \in DOMAIN claimed \ conflicts |-> <<r, claimed[r]>>]
<1>6. onto \in Surjection(DOMAIN claimed \ conflicts, Kept)
    BY DEF Kept, Surjection
<1> QED
    BY <1>5, <1>6, FS_Surjection

LEMMA TableSort == ASSUME TableInv, Sort PROVE TableInv'
<1>1. /\ TableTypeOK /\ TunnelRight /\ ClaimsRight /\ ConflictsRight
    BY DEF TableInv
<1>2. /\ pending = {} /\ Kept # {} /\ subnets' \in SetToSeqs(Kept)
      /\ \A i, j \in 1..Len(subnets') : LongerPrefix(subnets'[i], subnets'[j]) => i < j
      /\ UNCHANGED <<seed, ownSeed, offers, pending, tunnel, claimed, conflicts>>
    BY DEF Sort, Kept
<1>3. /\ \A q : Live(q)' = Live(q) /\ Refused(q)' = Refused(q) /\ Free(q)' = Free(q)
      /\ Visited' = Visited /\ Kept' = Kept
    BY <1>2 DEF Live, Refused, Free, OwnTunnelIp, Visited, Kept
<1>4. TunnelRight' /\ ClaimsRight' /\ ConflictsRight'
    <2>1. TunnelRight'
        BY <1>1, <1>2, <1>3 DEF TunnelRight
    <2>2. ClaimsRight'
        BY <1>1, <1>2, <1>3 DEF ClaimsRight
    <2>3. ConflictsRight'
        BY <1>1, <1>2, <1>3 DEF ConflictsRight, InConflict
    <2> QED
        BY <2>1, <2>2, <2>3
<1> DEFINE n == Cardinality(Kept)
<1>5. IsFiniteSet(Kept) /\ n \in Nat
    BY <1>1, KeptIsFinite, FS_CardinalityType
<1>6. IsFiniteSet(1..n) /\ Cardinality(1..n) = n
    BY <1>5, FS_Interval
<1>7. subnets' \in [1..n -> Kept] /\ \A i, j \in 1..n : i # j => subnets'[i] # subnets'[j]
    BY <1>2 DEF SetToSeqs
<1> HIDE DEF n
<1>8. subnets' \in Injection(1..n, Kept)
    BY <1>7 DEF Injection, IsInjective
<1>9. subnets' \in Surjection(1..n, Kept)
    <2>1. Cardinality(1..n) = Cardinality(Kept)
        BY <1>6 DEF n
    <2> QED
        BY <1>5, <1>8, <2>1, FS_Injection
<1>10. subnets' \in Seq(Kept) /\ Len(subnets') = n
    <2>1. subnets' \in Seq(Kept)
        BY <1>5, <1>7, SeqDef
    <2> QED
        BY <1>5, <1>7, <2>1, LenProperties
<1>11. ListRight'
    <2>1. \A i \in 1..Len(subnets') : subnets'[i] \in Kept
        BY <1>7, <1>10
    <2>2. \A e \in Kept : \E i \in 1..Len(subnets') : subnets'[i] = e
        BY <1>9, <1>10 DEF Surjection
    <2> QED
        BY <1>2, <1>3, <2>1, <2>2 DEF ListRight, LongerPrefix
<1>12. Kept \subseteq Offered \X Gateways
    BY <1>1 DEF Kept, TableTypeOK
<1>13. subnets' \in Seq(Offered \X Gateways)
    BY <1>5, <1>7, <1>12, SeqDef
<1>14. TableTypeOK'
    BY <1>1, <1>2, <1>13 DEF TableTypeOK
<1> QED
    BY <1>4, <1>11, <1>14 DEF TableInv

LEMMA TableInvNext == TableInv /\ [TableNext]_tableVars => TableInv'
<1> SUFFICES ASSUME TableInv, [TableNext]_tableVars PROVE TableInv'
    OBVIOUS
<1>1. CASE Sort
    BY <1>1, TableSort
<1>2. ASSUME NEW p \in Gateways, VisitPeer(p) PROVE TableInv'
    BY <1>2, TableVisit
<1>3. CASE UNCHANGED tableVars
    <2>1. UNCHANGED <<seed, ownSeed, offers, pending, tunnel, claimed, conflicts, subnets>>
        BY <1>3 DEF tableVars
    <2>2. TableTypeOK /\ TunnelRight /\ ClaimsRight /\ ConflictsRight /\ ListRight
        BY DEF TableInv
    <2>3. \A q : Live(q)' = Live(q) /\ Refused(q)' = Refused(q) /\ Free(q)' = Free(q)
        BY <2>1 DEF Live, Refused, Free, OwnTunnelIp
    <2>4. Visited' = Visited /\ Kept' = Kept
        BY <2>1 DEF Visited, Kept
    <2>5. TableTypeOK' /\ TunnelRight' /\ ClaimsRight'
        BY <2>1, <2>2, <2>3, <2>4 DEF TableTypeOK, TunnelRight, ClaimsRight
    <2>6. ConflictsRight'
        BY <2>1, <2>2, <2>3, <2>4 DEF ConflictsRight, InConflict
    <2>7. ListRight'
        BY <2>1, <2>2, <2>4 DEF ListRight
    <2> QED
        BY <2>5, <2>6, <2>7 DEF TableInv
<1> QED
    BY <1>1, <1>2, <1>3 DEF TableNext

\* When all peers are visited, a subnet is kept exactly when one live peer claims
\* it and it does not hold our own address; then it is that peer's.
LEMMA KeptIsRoutable ==
    ASSUME TableInv, pending = {}, NEW r
    PROVE  /\ r \in DOMAIN claimed \ conflicts <=> r \in Routable
           /\ r \in Routable => Claimants(r) = {claimed[r]}
<1>1. TableTypeOK /\ ClaimsRight /\ ConflictsRight /\ Visited = Gateways
    BY DEF TableInv, Visited
<1>2. \A p \in Gateways : Live(p) \subseteq Offered
    BY <1>1 DEF TableTypeOK, Live
<1>3. \A p \in Gateways : /\ r \in Refused(p) <=> r \in Live(p) /\ InCidr(r, OwnTunnelIp)
                          /\ r \in Free(p) <=> r \in Live(p) /\ ~InCidr(r, OwnTunnelIp)
    BY DEF Refused, Free
<1>4. Claimants(r) \subseteq Gateways /\ \A p \in Gateways : p \in Claimants(r) <=> r \in Live(p)
    BY DEF Claimants
<1>5. IsFiniteSet(Claimants(r))
    BY <1>4, AddressingAssumption, FS_Subset
<1>6. Cardinality(Claimants(r)) = 1 <=> \E p : Claimants(r) = {p}
    BY <1>5, FS_Singleton
<1>7. r \in Routable <=> r \in Offered /\ Cardinality(Claimants(r)) = 1 /\ ~InCidr(r, OwnTunnelIp)
    BY DEF Routable
<1>8. r \in conflicts <=> InConflict(r)
    BY <1>1 DEF ConflictsRight
<1>9. r \in DOMAIN claimed => claimed[r] \in Gateways /\ r \in Free(claimed[r])
    BY <1>1 DEF ClaimsRight
<1>10. \A p \in Gateways : r \in Free(p) => r \in DOMAIN claimed
    BY <1>1 DEF ClaimsRight
<1>11. ASSUME r \in DOMAIN claimed \ conflicts
       PROVE  r \in Routable /\ Claimants(r) = {claimed[r]}
    <2>1. claimed[r] \in Gateways /\ r \in Live(claimed[r]) /\ ~InCidr(r, OwnTunnelIp)
        BY <1>3, <1>9, <1>11
    <2>2. ~InConflict(r)
        BY <1>8, <1>11
    <2>3. \A q \in Gateways : r \in Live(q) => q = claimed[r]
        BY <1>1, <1>3, <2>1, <2>2 DEF InConflict
    <2>4. Claimants(r) = {claimed[r]}
        BY <1>4, <2>1, <2>3
    <2> QED
        BY <1>2, <1>6, <1>7, <2>1, <2>4
<1>12. ASSUME r \in Routable PROVE r \in DOMAIN claimed \ conflicts
    <2>1. PICK p : Claimants(r) = {p}
        BY <1>6, <1>7, <1>12
    <2>2. p \in Gateways /\ r \in Free(p) /\ ~InCidr(r, OwnTunnelIp)
        BY <1>3, <1>4, <1>7, <1>12, <2>1
    <2>3. \A q \in Gateways : r \in Free(q) => q = p
        BY <1>3, <1>4, <2>1
    <2>4. ~InConflict(r)
        BY <1>1, <1>3, <2>2, <2>3 DEF InConflict
    <2> QED
        BY <1>8, <1>10, <2>2, <2>4
<1> QED
    BY <1>11, <1>12

\* The first hit of a list, when there is one.
LEMMA FirstHit ==
    ASSUME NEW I, NEW n \in Nat, I \subseteq 1..n, I # {}
    PROVE  Min(I) \in I /\ Min(I) # 0 /\ \A i \in I : Min(I) <= i
<1>1. \E x \in I : \A y \in I : x <= y
    <2>1. I \subseteq Nat
        OBVIOUS
    <2> QED
        BY <2>1, LeastNumber
<1>2. Min(I) \in I /\ \A y \in I : Min(I) <= y
    BY <1>1 DEF Min
<1> QED
    BY <1>2

LEMMA TableLooksUp == TableInv => TableIsLookup
<1> SUFFICES ASSUME TableInv, pending = {}, subnets # <<>> \/ DOMAIN claimed \subseteq conflicts,
                    NEW ip \in Addresses
             PROVE  LET named == {p \in Gateways : DeriveTunnelIp(seed[p]) = ip} IN
                    IF named # {} THEN Resolve(ip) \in named
                    ELSE IF Matching(ip) = {} THEN Resolve(ip) = NoGateway
                    ELSE \E r \in Matching(ip) :
                           /\ \A s \in Matching(ip) : s[1] <= r[1]
                           /\ Claimants(r) = {Resolve(ip)}
    BY DEF TableIsLookup
<1> DEFINE named == {p \in Gateways : DeriveTunnelIp(seed[p]) = ip}
           I == {i \in 1..Len(subnets) : InCidr(subnets[i][1], ip)}
           h == Min(I)
<1>1. TableTypeOK /\ TunnelRight /\ ListRight /\ Visited = Gateways
    BY DEF TableInv, Visited
<1>2. ip \in DOMAIN tunnel => tunnel[ip] \in named
    BY <1>1 DEF TunnelRight
<1>3. named # {} => ip \in DOMAIN tunnel
    BY <1>1 DEF TunnelRight
<1>4. Resolve(ip) = IF ip \in DOMAIN tunnel THEN tunnel[ip]
                    ELSE IF (IF I # {} THEN h ELSE 0) # 0
                    THEN subnets[IF I # {} THEN h ELSE 0][2] ELSE NoGateway
    BY DEF Resolve, SelectInSeq
<1>5. CASE named # {}
    BY <1>2, <1>3, <1>4, <1>5
<1>6. Len(subnets) \in Nat /\ subnets \in Seq(Offered \X Gateways)
    BY <1>1, LenProperties DEF TableTypeOK
<1>7. \A e \in Kept : e[1] \in DOMAIN claimed \ conflicts /\ e[2] = claimed[e[1]]
    BY DEF Kept
<1>8. \A i \in 1..Len(subnets) : subnets[i] \in Kept
    <2>1. CASE subnets = <<>>
        BY <2>1
    <2>2. CASE subnets # <<>>
        BY <1>1, <2>2 DEF ListRight
    <2> QED
        BY <2>1, <2>2
<1>9. \A e \in Kept : \E i \in 1..Len(subnets) : subnets[i] = e
    <2>1. CASE subnets = <<>>
        <3>1. Kept = {}
            BY <2>1 DEF Kept
        <3> QED
            BY <3>1
    <2>2. CASE subnets # <<>>
        BY <1>1, <2>2 DEF ListRight
    <2> QED
        BY <2>1, <2>2
<1>10. \A i \in I : subnets[i][1] \in Matching(ip) /\ Claimants(subnets[i][1]) = {subnets[i][2]}
    <2> SUFFICES ASSUME NEW i \in I
                 PROVE  subnets[i][1] \in Matching(ip) /\ Claimants(subnets[i][1]) = {subnets[i][2]}
        OBVIOUS
    <2> DEFINE r == subnets[i][1]
    <2>1. r \in DOMAIN claimed \ conflicts /\ subnets[i][2] = claimed[r] /\ InCidr(r, ip)
        BY <1>7, <1>8
    <2> HIDE DEF r
    <2>2. r \in Routable /\ Claimants(r) = {claimed[r]}
        BY <2>1, KeptIsRoutable
    <2> QED
        BY <2>1, <2>2 DEF Matching, r
<1>11. \A s \in Matching(ip) : \E i \in I : subnets[i][1] = s
    <2> SUFFICES ASSUME NEW s \in Matching(ip) PROVE \E i \in I : subnets[i][1] = s
        OBVIOUS
    <2>1. s \in Routable /\ InCidr(s, ip)
        BY DEF Matching
    <2>2. s \in DOMAIN claimed \ conflicts
        BY <2>1, KeptIsRoutable
    <2>3. <<s, claimed[s]>> \in Kept
        BY <2>2 DEF Kept
    <2>4. PICK i \in 1..Len(subnets) : subnets[i] = <<s, claimed[s]>>
        BY <1>9, <2>3
    <2>5. subnets[i][1] = s
        BY <2>4
    <2> QED
        BY <2>1, <2>5
<1>12. CASE named = {} /\ I = {}
    <2>1. Matching(ip) = {}
        BY <1>11, <1>12
    <2>2. Resolve(ip) = NoGateway
        BY <1>2, <1>4, <1>12
    <2> QED
        BY <1>12, <2>1, <2>2
<1>13. CASE named = {} /\ I # {}
    <2> DEFINE r == subnets[h][1]
    <2>1. h \in I /\ h # 0 /\ \A i \in I : h <= i
        <3>1. I \subseteq 1..Len(subnets)
            OBVIOUS
        <3> HIDE DEF I
        <3> QED
            BY <1>6, <1>13, <3>1, FirstHit
    <2>2. Resolve(ip) = subnets[h][2]
        BY <1>2, <1>4, <1>13, <2>1
    <2>3. h \in 1..Len(subnets) /\ \A i \in I : i \in 1..Len(subnets)
        BY <2>1
    <2> HIDE DEF I, h
    <2>4. r \in Matching(ip) /\ Claimants(r) = {Resolve(ip)}
        BY <1>10, <2>1, <2>2
    <2>5. ASSUME NEW s \in Matching(ip) PROVE s[1] <= r[1]
        <3>1. PICK j \in I : subnets[j][1] = s
            BY <1>11
        <3>2. h <= j /\ j \in 1..Len(subnets)
            BY <2>1, <2>3
        <3>3. subnets # <<>>
            BY <2>3
        <3>4. ~(j < h)
            BY <2>3, <3>2
        <3>5. ~LongerPrefix(subnets[j], subnets[h])
            BY <1>1, <2>3, <3>2, <3>3, <3>4 DEF ListRight
        <3>6. s \in AllCidrs /\ r \in AllCidrs
            BY <2>4, AddressingAssumption DEF Matching, Routable
        <3>7. s[1] \in Nat /\ r[1] \in Nat
            BY <3>6, AddressingAssumption DEF AllCidrs
        <3> QED
            BY <3>1, <3>5, <3>7 DEF LongerPrefix
    <2>6. Matching(ip) # {}
        BY <2>4
    <2> HIDE DEF r
    <2> QED
        BY <1>13, <2>4, <2>5, <2>6
<1> QED
    BY <1>5, <1>12, <1>13

\* A packet's address finds what a longest-prefix lookup over the undisputed routes
\* finds, in whatever order the peers are visited, and the addresses that peers and
\* aliases are given are those the arithmetic is to give: for addresses of any
\* width and any peers (route_table.rs build and resolve, addressing.rs).
THEOREM TableIsRight == TableSpec => [](TableIsLookup /\ AddressingExact)
<1>1. TableInv => TableIsLookup /\ AddressingExact
    BY TableLooksUp, AddressingIsExact DEF TableInv, TableTypeOK
<1> QED
    BY <1>1, TableInvInit, TableInvNext, PTL DEF TableSpec

-----------------------------------------------------------------------------
(* Voice: types.                                                           *)

Item == [link : Links, frame : 1..MaxFrames]

LEMMA AudioInitType == AudioInit => AudioTypeOK
<1> SUFFICES ASSUME AudioInit PROVE AudioTypeOK
    OBVIOUS
<1>1. 0 \in 0..PacketFrames - 1 /\ 0 \in 0..MaxFrames
    BY AudioAssumption
<1>2. air \in [Links -> Seq(Packet)] /\ \A l \in Links : Len(air[l]) = 0
    BY DEF AudioInit
<1>3. playback \in Seq(Item) /\ Len(playback) = 0
    BY DEF AudioInit
<1>4. burst \in [Links -> [pending : 0..PacketFrames - 1, seq : 0..MaxFrames]]
    BY <1>1 DEF AudioInit
<1>5. \A l \in Links : burst[l].seq = 0 /\ burst[l].pending = 0
    BY DEF AudioInit
<1> QED
    BY <1>1, <1>2, <1>3, <1>4, <1>5, AudioAssumption DEF AudioInit, AudioTypeOK, Item

\* The frames a packet is made of.
LEMMA FramesType ==
    ASSUME NEW from \in Nat, NEW n \in 1..PacketFrames, from + n <= MaxFrames
    PROVE  /\ Frames(from, n) \in Packet /\ Len(Frames(from, n)) = n
           /\ \A i \in 1..n : Frames(from, n)[i] = from + i
<1> DEFINE f == Frames(from, n)
<1>1. n \in Nat /\ PacketFrames \in Nat /\ MaxFrames \in Nat
    BY AudioAssumption
<1>2. \A i \in 1..n : from + i \in 1..MaxFrames
    BY <1>1
<1>3. f \in [1..n -> 1..MaxFrames] /\ \A i \in 1..n : f[i] = from + i
    BY <1>2 DEF Frames
<1> HIDE DEF f
<1>4. f \in Seq(1..MaxFrames)
    BY <1>1, <1>3
<1>5. Len(f) \in Nat /\ DOMAIN f = 1..Len(f)
    BY <1>4, LenProperties
<1>6. Len(f) = n
    BY <1>1, <1>3, <1>5
<1>7. f \in Packet
    BY <1>4, <1>6 DEF Packet
<1> QED
    BY <1>3, <1>6, <1>7 DEF f

\* What is left of a packet when its first n frames are done with.
Rest(t, n) == SubSeq(t, n + 1, Len(t))

LEMMA RestType ==
    ASSUME NEW t \in Packet, NEW n \in 1..Len(t)
    PROVE  /\ Rest(t, n) \in Seq(1..MaxFrames) /\ Len(Rest(t, n)) = Len(t) - n
           /\ \A i \in 1..Len(t) - n : Rest(t, n)[i] = t[n + i]
           /\ Rest(t, n) \in {<<>>} \cup Packet
<1>1. t \in Seq(1..MaxFrames) /\ Len(t) \in 1..PacketFrames /\ Len(t) \in Nat
    BY DEF Packet
<1>2. ASSUME NEW i \in n + 1..Len(t) PROVE t[i] \in 1..MaxFrames
    <2>1. i \in 1..Len(t)
        BY <1>1
    <2> QED
        BY <1>1, <2>1, ElementOfSeq
<1> DEFINE r == SubSeq(t, n + 1, Len(t))
<1>3. /\ r \in Seq(1..MaxFrames)
      /\ Len(r) = IF n + 1 <= Len(t) THEN Len(t) - (n + 1) + 1 ELSE 0
      /\ \A i \in 1..Len(t) - (n + 1) + 1 : r[i] = t[n + 1 + i - 1]
    BY <1>1, <1>2, SubSeqProperties
<1> HIDE DEF r
<1>4. Len(r) = Len(t) - n /\ \A i \in 1..Len(t) - n : r[i] = t[n + i]
    BY <1>1, <1>3
<1>5. r = <<>> \/ Len(r) \in Nat \ {0}
    BY <1>3, EmptySeq
<1>6. r \in {<<>>} \cup Packet
    BY <1>1, <1>3, <1>4, <1>5, AudioAssumption DEF Packet
<1> QED
    BY <1>3, <1>4, <1>6 DEF Rest, r

\* The steps of a packet's task.
LEMMA DoneType ==
    ASSUME AudioTypeOK, NEW l \in Links, NEW n \in 1..Len(task[l]), task[l] # <<>>, Done(l, n)
    PROVE  /\ task' = [task EXCEPT ![l] = Rest(task[l], n)]
           /\ task' \in [Links -> {<<>>} \cup Packet] /\ task'[l] = Rest(task[l], n)
           /\ task[l] \in Packet
           /\ decoder' = IF task'[l] = <<>> THEN NoLink ELSE l
<1>1. task[l] \in Packet /\ task \in [Links -> {<<>>} \cup Packet]
    BY DEF AudioTypeOK
<1>2. Rest(task[l], n) \in {<<>>} \cup Packet
    BY <1>1, RestType
<1>3. task' = [task EXCEPT ![l] = Rest(task[l], n)]
    BY DEF Done, Rest
<1>4. decoder' = Unlock(l, Rest(task[l], n))
    BY DEF Done, Rest
<1> QED
    BY <1>1, <1>2, <1>3, <1>4 DEF Unlock

\* What a flush does: the counter moves on, and a packet may be on its way.
LEMMA FlushType ==
    ASSUME AudioTypeOK, NEW l \in Links, NEW n \in 1..PacketFrames,
           burst[l].seq + n <= MaxFrames, Flush(l, n)
    PROVE  /\ burst' \in [Links -> [pending : 0..PacketFrames - 1, seq : 0..MaxFrames]]
           /\ \A k \in Links : burst'[k].seq + burst'[k].pending <= MaxFrames
           /\ burst'[l].seq = burst[l].seq + n
           /\ \A k \in Links \ {l} : burst'[k] = burst[k]
           /\ air' \in [Links -> Seq(Packet)] /\ \A k \in Links : Len(air'[k]) <= MaxAir
           /\ \A k \in Links \ {l} : air'[k] = air[k]
           /\ air'[l] = air[l] \/ air'[l] = Append(air[l], Frames(burst[l].seq, n))
<1>t. /\ burst \in [Links -> [pending : 0..PacketFrames - 1, seq : 0..MaxFrames]]
      /\ \A k \in Links : burst[k].seq + burst[k].pending <= MaxFrames
      /\ air \in [Links -> Seq(Packet)] /\ \A k \in Links : Len(air[k]) <= MaxAir
    BY DEF AudioTypeOK
<1>a. PacketFrames \in Nat \ {0} /\ MaxFrames \in Nat /\ MaxAir \in Nat
    BY AudioAssumption
<1>1. burst[l].seq \in 0..MaxFrames /\ burst[l].seq + n \in 0..MaxFrames
    BY <1>a, <1>t
<1>2. burst' = [burst EXCEPT ![l] = [pending |-> 0, seq |-> burst[l].seq + n]]
    BY DEF Flush
<1>3. [pending |-> 0, seq |-> burst[l].seq + n] \in
         [pending : 0..PacketFrames - 1, seq : 0..MaxFrames]
    BY <1>1, <1>a
<1>4. Frames(burst[l].seq, n) \in Packet
    BY <1>1, <1>a, FramesType
<1>5. burst'[l] = [pending |-> 0, seq |-> burst[l].seq + n]
    BY <1>2, <1>t
<1>6. burst' \in [Links -> [pending : 0..PacketFrames - 1, seq : 0..MaxFrames]]
    BY <1>2, <1>3, <1>t
<1>7. burst'[l].seq + burst'[l].pending <= MaxFrames
    BY <1>1, <1>5
<1>8. \A k \in Links \ {l} : burst'[k] = burst[k]
    BY <1>2, <1>t
<1>s. \A k \in Links : burst'[k].seq + burst'[k].pending <= MaxFrames
    BY <1>7, <1>8, <1>t
<1>q. burst'[l].seq = burst[l].seq + n
    BY <1>5
<1>9. CASE UNCHANGED air
    <2>1. air' = air
        BY <1>9
    <2> QED
        BY <1>6, <1>8, <1>s, <1>q, <1>t, <2>1
<1>10. CASE Len(air[l]) < MaxAir /\ air' = [air EXCEPT ![l] = Append(@, Frames(burst[l].seq, n))]
    <2> DEFINE a == Append(air[l], Frames(burst[l].seq, n))
    <2>1. a \in Seq(Packet) /\ Len(a) = Len(air[l]) + 1 /\ Len(air[l]) \in Nat
        BY <1>4, <1>t, AppendProperties
    <2>2. air' = [air EXCEPT ![l] = a]
        BY <1>10
    <2> HIDE DEF a
    <2>3. air' \in [Links -> Seq(Packet)] /\ air'[l] = a /\ Len(air'[l]) <= MaxAir
        BY <1>10, <1>a, <1>t, <2>1, <2>2
    <2>4. \A k \in Links \ {l} : air'[k] = air[k]
        BY <1>t, <2>2
    <2>5. \A k \in Links : Len(air'[k]) <= MaxAir
        BY <1>t, <2>3, <2>4
    <2> QED
        BY <1>6, <1>8, <1>s, <1>q, <2>3, <2>4, <2>5 DEF a
<1> QED
    BY <1>9, <1>10 DEF Flush

LEMMA AudioNextType == AudioTypeOK /\ [AudioNext]_audioVars => AudioTypeOK'
<1> SUFFICES ASSUME AudioTypeOK, [AudioNext]_audioVars PROVE AudioTypeOK'
    OBVIOUS
<1>t. /\ burst \in [Links -> [pending : 0..PacketFrames - 1, seq : 0..MaxFrames]]
      /\ \A k \in Links : burst[k].seq + burst[k].pending <= MaxFrames
      /\ air \in [Links -> Seq(Packet)] /\ \A k \in Links : Len(air[k]) <= MaxAir
      /\ task \in [Links -> {<<>>} \cup Packet]
      /\ playback \in Seq(Item) /\ Len(playback) <= QueueFrames
      /\ output \in {"alsa", "browser"} /\ decoder \in Links \cup {NoLink}
      /\ player \in BOOLEAN /\ played \in [Links -> 0..MaxFrames]
      /\ latest \in Links \cup {NoLink} /\ begun \subseteq Links
    BY DEF AudioTypeOK, Item
<1>a. /\ PacketFrames \in Nat \ {0} /\ MaxFrames \in Nat /\ MaxAir \in Nat
      /\ QueueFrames \in Nat \ {0}
    BY AudioAssumption
\* A step of the sender.
<1>s. ASSUME burst' \in [Links -> [pending : 0..PacketFrames - 1, seq : 0..MaxFrames]],
             \A k \in Links : burst'[k].seq + burst'[k].pending <= MaxFrames,
             air' \in [Links -> Seq(Packet)], \A k \in Links : Len(air'[k]) <= MaxAir,
             RxUnchanged
      PROVE  AudioTypeOK'
    BY <1>s, <1>t DEF RxUnchanged, AudioTypeOK, Item
\* A packet taken from the air.
<1>u. ASSUME NEW l \in Links, air[l] # <<>>, air' = [air EXCEPT ![l] = Tail(@)]
      PROVE  /\ air' \in [Links -> Seq(Packet)] /\ \A k \in Links : Len(air'[k]) <= MaxAir
             /\ Head(air[l]) \in Packet
    <2>1. /\ Tail(air[l]) \in Seq(Packet) /\ Head(air[l]) \in Packet
          /\ Len(Tail(air[l])) = Len(air[l]) - 1 /\ Len(air[l]) \in Nat
        BY <1>t, <1>u, HeadTailProperties
    <2>2. air' \in [Links -> Seq(Packet)] /\ air'[l] = Tail(air[l])
        BY <1>t, <1>u, <2>1
    <2>3. \A k \in Links \ {l} : air'[k] = air[k]
        BY <1>t, <1>u
    <2>4. Len(air'[l]) <= MaxAir
        BY <1>a, <1>t, <2>1, <2>2
    <2> QED
        BY <1>t, <2>1, <2>2, <2>3, <2>4
\* A step of a packet's task.
<1>d. ASSUME NEW l \in Links, NEW n \in 1..Len(task[l]), task[l] # <<>>, Done(l, n),
             UNCHANGED <<burst, air, output, player, played>>,
             playback' \in Seq(Item) /\ Len(playback') <= QueueFrames,
             latest' \in Links \cup {NoLink}, begun' \subseteq Links
      PROVE  AudioTypeOK'
    <2>1. task' \in [Links -> {<<>>} \cup Packet] /\ decoder' \in Links \cup {NoLink}
        BY <1>d, DoneType
    <2> QED
        BY <1>d, <1>t, <2>1 DEF AudioTypeOK, Item
<1>n. ASSUME NEW l \in Links, task[l] # <<>>
      PROVE  /\ task[l] \in Packet /\ 1 \in 1..Len(task[l]) /\ Len(task[l]) \in 1..Len(task[l])
             /\ Head(task[l]) \in 1..MaxFrames /\ Head(task[l]) = task[l][1]
    <2>1. task[l] \in Packet
        BY <1>n, <1>t
    <2>2. task[l] \in Seq(1..MaxFrames) /\ Len(task[l]) \in 1..PacketFrames
        BY <2>1 DEF Packet
    <2>3. 1 \in 1..Len(task[l]) /\ Len(task[l]) \in 1..Len(task[l])
        BY <1>a, <2>2
    <2>4. Head(task[l]) = task[l][1]
        BY <1>n, <2>2
    <2>5. task[l][1] \in 1..MaxFrames
        BY <2>2, <2>3, ElementOfSeq
    <2> QED
        BY <2>1, <2>3, <2>4, <2>5
<1>b. ASSUME NEW l \in Links
      PROVE  burst[l].pending \in 0..PacketFrames - 1 /\ burst[l].seq \in 0..MaxFrames
    BY <1>t
<1>1. ASSUME NEW l \in Links, PushPcm(l) PROVE AudioTypeOK'
    <2> DEFINE n == burst[l].pending + 1
    <2>1. n \in 1..PacketFrames /\ burst[l].seq + n <= MaxFrames /\ RxUnchanged
        BY <1>1, <1>a, <1>b DEF PushPcm
    <2>2. CASE n < PacketFrames /\ burst' = [burst EXCEPT ![l].pending = n] /\ UNCHANGED air
        <3>0. n \in 0..PacketFrames - 1
            BY <1>a, <2>1, <2>2
        <3>1. burst' \in [Links -> [pending : 0..PacketFrames - 1, seq : 0..MaxFrames]]
            BY <1>t, <2>2, <3>0
        <3>2. burst'[l].seq = burst[l].seq /\ burst'[l].pending = n
            BY <1>t, <2>2
        <3>3. \A k \in Links \ {l} : burst'[k] = burst[k]
            BY <1>t, <2>2
        <3>4. \A k \in Links : burst'[k].seq + burst'[k].pending <= MaxFrames
            BY <1>t, <2>1, <3>2, <3>3
        <3>5. air' = air
            BY <2>2
        <3> QED
            BY <1>s, <1>t, <2>1, <3>1, <3>4, <3>5
    <2>3. CASE Flush(l, n)
        BY <1>s, <2>1, <2>3, FlushType
    <2> QED
        BY <1>1, <2>2, <2>3 DEF PushPcm
<1>2. ASSUME NEW l \in Links, BurstEnds(l) PROVE AudioTypeOK'
    <2> DEFINE n == burst[l].pending
    <2>1. n \in 1..PacketFrames /\ burst[l].seq + n <= MaxFrames
        BY <1>2, <1>a, <1>t, SMTT(30) DEF BurstEnds
    <2>2. Flush(l, n) /\ RxUnchanged
        BY <1>2 DEF BurstEnds
    <2> HIDE DEF n
    <2> QED
        BY <1>s, <2>1, <2>2, FlushType
<1>3. ASSUME NEW l \in Links, Unheard(l) PROVE AudioTypeOK'
    BY <1>3, <1>s, <1>t, <1>u DEF Unheard
<1>4. ASSUME NEW l \in Links, Receive(l) PROVE AudioTypeOK'
    <2>1. /\ air' \in [Links -> Seq(Packet)] /\ \A k \in Links : Len(air'[k]) <= MaxAir
          /\ Head(air[l]) \in Packet
        BY <1>4, <1>u DEF Receive
    <2>2. task' \in [Links -> {<<>>} \cup Packet]
        BY <1>4, <1>t, <2>1 DEF Receive
    <2> QED
        BY <1>4, <1>t, <2>1, <2>2 DEF Receive, AudioTypeOK, Item
<1>5. ASSUME NEW l \in Links, LockDecoder(l) PROVE AudioTypeOK'
    BY <1>5, <1>t DEF LockDecoder, AudioTypeOK, Item
<1>6. ASSUME NEW l \in Links, ToBrowsers(l) PROVE AudioTypeOK'
    BY <1>6, <1>d, <1>n, <1>t DEF ToBrowsers, Decoded
<1>7. ASSUME NEW l \in Links, Enqueue(l) PROVE AudioTypeOK'
    <2> DEFINE e == [link |-> l, frame |-> Head(task[l])]
    <2>1. e \in Item
        BY <1>7, <1>n DEF Enqueue, Decoded, Item
    <2>2. playback' = Append(playback, e) /\ Len(playback) < QueueFrames
        BY <1>7 DEF Enqueue
    <2> HIDE DEF e
    <2>3. playback' \in Seq(Item) /\ Len(playback') <= QueueFrames
        BY <1>a, <1>t, <2>1, <2>2, AppendProperties, LenProperties
    <2> QED
        BY <1>7, <1>d, <1>n, <1>t, <2>3 DEF Enqueue, Decoded
<1>8. ASSUME NEW l \in Links, GiveUp(l) \/ NoPlayer(l) PROVE AudioTypeOK'
    BY <1>8, <1>d, <1>n, <1>t DEF GiveUp, NoPlayer, Decoded
<1>9. ASSUME Play PROVE AudioTypeOK'
    <2>1. /\ Tail(playback) \in Seq(Item) /\ Head(playback) \in Item
          /\ Len(Tail(playback)) = Len(playback) - 1 /\ Len(playback) \in Nat
        BY <1>9, <1>t, HeadTailProperties, LenProperties DEF Play
    <2>2. playback' \in Seq(Item) /\ Len(playback') <= QueueFrames
        BY <1>9, <1>a, <1>t, <2>1 DEF Play
    <2>4. Head(playback).link \in Links /\ Head(playback).frame \in 0..MaxFrames
        BY <1>a, <2>1 DEF Item
    <2>3. played' \in [Links -> 0..MaxFrames]
        BY <1>9, <1>t, <2>4 DEF Play
    <2> QED
        BY <1>9, <1>t, <2>2, <2>3 DEF Play, AudioTypeOK, Item
<1>10. ASSUME PlayerFails PROVE AudioTypeOK'
    <2>1. playback' \in Seq(Item) /\ Len(playback') <= QueueFrames
        BY <1>10, <1>a DEF PlayerFails
    <2> QED
        BY <1>10, <1>t, <2>1 DEF PlayerFails, AudioTypeOK, Item
<1>11. CASE UNCHANGED audioVars
    BY <1>11 DEF audioVars, AudioTypeOK
<1> QED
    BY <1>1, <1>2, <1>3, <1>4, <1>5, <1>6, <1>7, <1>8, <1>9, <1>10, <1>11 DEF AudioNext

-----------------------------------------------------------------------------
(* Voice: order.  What keeps it is that the air of a link is in order, and *)
(* that nothing has a number the sender has not given yet.                 *)

QueueRises(l) == \A i, j \in Queued(l) : i < j => playback[i].frame < playback[j].frame

AirRises(l) ==
    /\ \A i \in 1..Len(air[l]) : Rising(air[l][i])
    /\ \A i, j \in 1..Len(air[l]) :
          i < j => Before(FramesOf(air[l][i]), FramesOf(air[l][j]))

Heard(l) == {played[l]} \cup InQueue(l) \cup FramesOf(task[l]) \cup Coming(l)

Ordered(l) ==
    /\ QueueRises(l)
    /\ Rising(task[l])
    /\ Before({played[l]}, InQueue(l) \cup FramesOf(task[l]) \cup Coming(l))
    /\ Before(InQueue(l), FramesOf(task[l]) \cup Coming(l))
    /\ Before(FramesOf(task[l]), Coming(l))

LinkInv(l) ==
    /\ Ordered(l) /\ AirRises(l)
    /\ \A n \in Heard(l) : n <= burst[l].seq

\* The decoder's lock: part of a packet is queued only of the link that has it.
LockInv ==
    /\ decoder # NoLink => task[decoder] # <<>>
    /\ \A l \in begun : decoder = l /\ latest = l /\ output = "alsa"

AudioInv == AudioTypeOK /\ LockInv /\ \A l \in Links : LinkInv(l)

LEMMA HeardType ==
    ASSUME AudioTypeOK, NEW l \in Links
    PROVE  /\ Heard(l) \subseteq Nat /\ burst[l].seq \in Nat
           /\ played[l] \in Nat /\ InQueue(l) \subseteq Nat
           /\ FramesOf(task[l]) \subseteq Nat /\ Coming(l) \subseteq Nat
<1>1. played[l] \in Nat /\ burst[l].seq \in Nat
    BY AudioAssumption DEF AudioTypeOK
<1>2. InQueue(l) \subseteq Nat
    <2>1. ASSUME NEW i \in Queued(l) PROVE playback[i].frame \in Nat
        <3>1. playback \in Seq(Item) /\ i \in 1..Len(playback)
            BY <2>1 DEF AudioTypeOK, Item, Queued
        <3>2. playback[i] \in Item
            BY <3>1, ElementOfSeq
        <3> QED
            BY <3>2, AudioAssumption DEF Item
    <2> QED
        BY <2>1 DEF InQueue
<1>p. ASSUME NEW p \in Packet PROVE FramesOf(p) \subseteq Nat
    <2>1. p \in Seq(1..MaxFrames)
        BY <1>p DEF Packet
    <2>2. \A i \in 1..Len(p) : p[i] \in 1..MaxFrames
        BY <2>1, ElementOfSeq
    <2> QED
        BY <2>2, AudioAssumption DEF FramesOf
<1>3. FramesOf(task[l]) \subseteq Nat
    <2>1. task[l] = <<>> \/ task[l] \in Packet
        BY DEF AudioTypeOK
    <2>2. FramesOf(<<>>) = {}
        BY DEF FramesOf
    <2> QED
        BY <1>p, <2>1, <2>2
<1>4. Coming(l) \subseteq Nat
    <2>1. air[l] \in Seq(Packet)
        BY DEF AudioTypeOK
    <2>2. \A i \in 1..Len(air[l]) : air[l][i] \in Packet
        BY <2>1, ElementOfSeq
    <2> QED
        BY <1>p, <2>2 DEF Coming
<1> QED
    BY <1>1, <1>2, <1>3, <1>4 DEF Heard

\* A link of which nothing new is heard stays in order.
LEMMA OrderIsKept ==
    ASSUME AudioTypeOK, AudioTypeOK', NEW l \in Links, LinkInv(l),
           played'[l] = played[l], InQueue(l)' \subseteq InQueue(l),
           FramesOf(task[l])' \subseteq FramesOf(task[l]), Coming(l)' \subseteq Coming(l),
           QueueRises(l)', Rising(task[l])', AirRises(l)', burst[l].seq <= burst'[l].seq
    PROVE  LinkInv(l)'
<1>1. Ordered(l)'
    BY DEF LinkInv, Ordered, Before
<1>2. Heard(l)' \subseteq Heard(l)
    BY DEF Heard
<1>3. burst[l].seq \in Nat /\ burst'[l].seq \in Nat /\ Heard(l) \subseteq Nat
    <2>1. burst' \in [Links -> [pending : 0..PacketFrames - 1, seq : 0..MaxFrames]]
        BY DEF AudioTypeOK
    <2>2. burst'[l].seq \in 0..MaxFrames
        BY <2>1
    <2>3. burst[l].seq \in Nat /\ Heard(l) \subseteq Nat
        BY HeardType
    <2> QED
        BY <2>2, <2>3, AudioAssumption
<1>4. \A n \in Heard(l)' : n <= burst'[l].seq
    BY <1>2, <1>3 DEF LinkInv
<1> QED
    BY <1>1, <1>4 DEF LinkInv

\* A link the step does not touch.
LEMMA OrderIsSame ==
    ASSUME NEW l \in Links, LinkInv(l), played'[l] = played[l],
           UNCHANGED playback, task'[l] = task[l], air'[l] = air[l],
           burst'[l].seq = burst[l].seq
    PROVE  LinkInv(l)'
<1>1. Queued(l)' = Queued(l) /\ InQueue(l)' = InQueue(l) /\ Coming(l)' = Coming(l)
    BY DEF Queued, InQueue, Coming
<1>2. Ordered(l)'
    BY <1>1 DEF LinkInv, Ordered, QueueRises
<1>3. AirRises(l)' /\ Heard(l)' = Heard(l)
    BY <1>1 DEF LinkInv, AirRises, Heard
<1> QED
    BY <1>2, <1>3 DEF LinkInv

\* The oldest packet leaves the air.
LEMMA AirWithoutHead ==
    ASSUME AudioTypeOK, NEW l \in Links, AirRises(l), air[l] # <<>>, air'[l] = Tail(air[l])
    PROVE  /\ AirRises(l)' /\ Coming(l)' \subseteq Coming(l)
           /\ FramesOf(Head(air[l])) \subseteq Coming(l) /\ Rising(Head(air[l]))
           /\ Before(FramesOf(Head(air[l])), Coming(l)')
<1> DEFINE a == air[l]
           b == air'[l]
<1>1. a \in Seq(Packet) /\ a # <<>>
    BY DEF AudioTypeOK
<1>2. /\ b = Tail(a) /\ Len(b) = Len(a) - 1 /\ Len(a) \in Nat \ {0}
      /\ \A i \in 1..Len(b) : b[i] = a[i + 1]
    BY <1>1, HeadTailProperties, EmptySeq
<1>3. Head(a) = a[1]
    BY <1>1
<1>4. /\ \A i \in 1..Len(a) : Rising(a[i])
      /\ \A i, j \in 1..Len(a) : i < j => Before(FramesOf(a[i]), FramesOf(a[j]))
    BY DEF AirRises
<1>5. /\ Coming(l) = UNION {FramesOf(a[i]) : i \in 1..Len(a)}
      /\ Coming(l)' = UNION {FramesOf(b[i]) : i \in 1..Len(b)}
    BY DEF Coming, FramesOf
<1>6. AirRises(l)' <=> /\ \A i \in 1..Len(b) : Rising(b[i])
                       /\ \A i, j \in 1..Len(b) : i < j => Before(FramesOf(b[i]), FramesOf(b[j]))
    BY DEF AirRises, Rising, Before, FramesOf
<1> HIDE DEF a, b
<1>7. \A i \in 1..Len(b) : i + 1 \in 1..Len(a) /\ 1 < i + 1
    BY <1>2
<1>8. 1 \in 1..Len(a)
    BY <1>2
<1>9. \A i \in 1..Len(b) : Rising(b[i])
    BY <1>2, <1>4, <1>7
<1>10. ASSUME NEW i \in 1..Len(b), NEW j \in 1..Len(b), i < j
       PROVE  Before(FramesOf(b[i]), FramesOf(b[j]))
    <2>1. i + 1 < j + 1
        BY <1>2, <1>10
    <2> QED
        BY <1>2, <1>4, <1>7, <2>1
<1>11. Coming(l)' \subseteq Coming(l)
    BY <1>2, <1>5, <1>7
<1>12. FramesOf(a[1]) \subseteq Coming(l)
    BY <1>5, <1>8
<1>13. ASSUME NEW i \in 1..Len(b) PROVE Before(FramesOf(a[1]), FramesOf(b[i]))
    BY <1>2, <1>4, <1>7, <1>8
<1>14. Before(FramesOf(a[1]), Coming(l)')
    BY <1>5, <1>13 DEF Before
<1> QED
    BY <1>3, <1>4, <1>6, <1>8, <1>9, <1>10, <1>11, <1>12, <1>14 DEF a

\* A flushed packet is the last on the air, and later than all before it.
LEMMA AirWithPacket ==
    ASSUME AudioTypeOK, NEW l \in Links, LinkInv(l), NEW n \in 1..PacketFrames,
           burst[l].seq + n <= MaxFrames,
           air'[l] = Append(air[l], Frames(burst[l].seq, n))
    PROVE  /\ AirRises(l)'
           /\ Coming(l)' = Coming(l) \cup FramesOf(Frames(burst[l].seq, n))
<1> DEFINE a == air[l]
           b == air'[l]
           p == Frames(burst[l].seq, n)
<1>1. a \in Seq(Packet) /\ burst[l].seq \in Nat
    BY HeardType DEF AudioTypeOK
<1>2. /\ p \in Packet /\ Len(p) = n
      /\ \A i \in 1..n : p[i] = burst[l].seq + i
    BY <1>1, FramesType
<1>4. /\ \A i \in 1..Len(a) : Rising(a[i])
      /\ \A i, j \in 1..Len(a) : i < j => Before(FramesOf(a[i]), FramesOf(a[j]))
    BY DEF LinkInv, AirRises
<1>5. /\ Coming(l) = UNION {FramesOf(a[i]) : i \in 1..Len(a)}
      /\ Coming(l)' = UNION {FramesOf(b[i]) : i \in 1..Len(b)}
    BY DEF Coming, FramesOf
<1>6. AirRises(l)' <=> /\ \A i \in 1..Len(b) : Rising(b[i])
                       /\ \A i, j \in 1..Len(b) : i < j => Before(FramesOf(b[i]), FramesOf(b[j]))
    BY DEF AirRises, Rising, Before, FramesOf
<1>s. \A m \in Coming(l) : m \in Nat /\ m <= burst[l].seq
    BY HeardType DEF LinkInv, Heard
<1>b. b = Append(a, p)
    OBVIOUS
<1> HIDE DEF a, b, p
<1>3. /\ Len(b) = Len(a) + 1 /\ Len(a) \in Nat
      /\ \A i \in 1..Len(a) : b[i] = a[i]
      /\ b[Len(b)] = p
    <2>1. Len(a) \in Nat
        BY <1>1, LenProperties
    <2>2. /\ Len(b) = Len(a) + 1 /\ b[Len(a) + 1] = p
          /\ \A i \in 1..Len(a) : b[i] = a[i]
        BY <1>1, <1>2, <1>b, AppendProperties
    <2> QED
        BY <2>1, <2>2
<1>7. \A i \in 1..Len(b) : i \in 1..Len(a) \/ i = Len(b)
    BY <1>3
<1>8. Rising(p) /\ \A m \in FramesOf(p) : m > burst[l].seq /\ m \in Nat
    BY <1>1, <1>2, AudioAssumption, SMTT(30) DEF Rising, FramesOf
<1>9. \A i \in 1..Len(b) : Rising(b[i])
    BY <1>3, <1>4, <1>7, <1>8
<1>10. ASSUME NEW i \in 1..Len(b), NEW j \in 1..Len(b), i < j
       PROVE  Before(FramesOf(b[i]), FramesOf(b[j]))
    <2>1. i \in 1..Len(a)
        BY <1>3, <1>10
    <2>2. CASE j \in 1..Len(a)
        BY <1>3, <1>4, <1>10, <2>1, <2>2
    <2>3. CASE j = Len(b)
        <3>1. FramesOf(b[i]) \subseteq Coming(l)
            BY <1>3, <1>5, <2>1
        <3>2. Before(Coming(l), FramesOf(p))
            BY <1>1, <1>8, <1>s DEF Before
        <3> QED
            BY <1>3, <2>3, <3>1, <3>2 DEF Before
    <2> QED
        BY <1>7, <2>2, <2>3
<1>11. Coming(l)' = Coming(l) \cup FramesOf(p)
    <2>1. Len(b) \in 1..Len(b) /\ \A i \in 1..Len(a) : i \in 1..Len(b)
        BY <1>3
    <2>2. Coming(l) \subseteq Coming(l)'
        BY <1>3, <1>5, <2>1
    <2>3. FramesOf(p) \subseteq Coming(l)'
        BY <1>3, <1>5, <2>1
    <2>4. Coming(l)' \subseteq Coming(l) \cup FramesOf(p)
        BY <1>3, <1>5, <1>7
    <2> QED
        BY <2>2, <2>3, <2>4
<1> QED
    BY <1>6, <1>9, <1>10, <1>11 DEF p

\* The queue without its head, and with one frame more.
LEMMA QueueWithoutHead ==
    ASSUME AudioTypeOK, NEW l \in Links, QueueRises(l), playback # <<>>,
           playback' = Tail(playback)
    PROVE  /\ QueueRises(l)' /\ InQueue(l)' \subseteq InQueue(l)
           /\ Head(playback).link = l =>
                /\ Head(playback).frame \in InQueue(l)
                /\ Before({Head(playback).frame}, InQueue(l)')
<1>1. /\ playback \in Seq(Item) /\ Head(playback) = playback[1]
      /\ Len(playback) \in Nat \ {0} /\ Len(playback') = Len(playback) - 1
      /\ \A i \in 1..Len(playback') : playback'[i] = playback[i + 1]
    BY HeadTailProperties, EmptySeq DEF AudioTypeOK, Item
<1>2. ASSUME NEW i \in Queued(l)'
      PROVE  /\ i \in 1..Len(playback') /\ i + 1 \in Queued(l) /\ 1 < i + 1
             /\ playback'[i].frame = playback[i + 1].frame
    <2>1. i \in 1..Len(playback') /\ playback'[i].link = l
        BY <1>2 DEF Queued
    <2>2. i + 1 \in 1..Len(playback) /\ 1 < i + 1
        BY <1>1, <2>1
    <2>3. playback'[i] = playback[i + 1]
        BY <1>1, <2>1
    <2> QED
        BY <2>1, <2>2, <2>3 DEF Queued
<1>3. QueueRises(l)'
    <2> SUFFICES ASSUME NEW i \in Queued(l)', NEW j \in Queued(l)', i < j
                 PROVE  playback'[i].frame < playback'[j].frame
        BY DEF QueueRises
    <2>1. i + 1 < j + 1
        BY <1>1, <1>2
    <2> QED
        BY <1>2, <2>1 DEF QueueRises
<1>4. InQueue(l)' \subseteq InQueue(l)
    BY <1>2 DEF InQueue
<1>5. ASSUME playback[1].link = l
      PROVE  playback[1].frame \in InQueue(l) /\ Before({playback[1].frame}, InQueue(l)')
    <2>1. 1 \in Queued(l)
        BY <1>1, <1>5 DEF Queued
    <2>2. \A i \in Queued(l)' : playback[1].frame < playback'[i].frame
        BY <1>2, <2>1 DEF QueueRises
    <2> QED
        BY <2>1, <2>2 DEF InQueue, Before
<1> QED
    BY <1>1, <1>3, <1>4, <1>5

LEMMA QueueWithFrame ==
    ASSUME AudioTypeOK, NEW l \in Links, QueueRises(l), NEW e \in Item,
           playback' = Append(playback, e),
           e.link = l => Before(InQueue(l), {e.frame})
    PROVE  /\ QueueRises(l)'
           /\ InQueue(l)' = IF e.link = l THEN InQueue(l) \cup {e.frame} ELSE InQueue(l)
<1> DEFINE n == Len(playback)
<1>1. /\ playback \in Seq(Item) /\ n \in Nat /\ Len(playback') = n + 1
      /\ \A i \in 1..n : playback'[i] = playback[i]
      /\ playback'[n + 1] = e
    BY AppendProperties, LenProperties DEF AudioTypeOK, Item
<1> HIDE DEF n
<1>2. /\ \A i \in Queued(l) : i \in 1..n /\ i \in Queued(l)' /\ playback'[i].frame = playback[i].frame
      /\ \A i \in Queued(l)' : i \in Queued(l) \/ (i = n + 1 /\ e.link = l)
      /\ e.link = l => n + 1 \in Queued(l)'
    <2>1. ASSUME NEW i \in Queued(l)
          PROVE  i \in 1..n /\ i \in Queued(l)' /\ playback'[i].frame = playback[i].frame
        BY <1>1, <2>1 DEF Queued, n
    <2>2. ASSUME NEW i \in Queued(l)', i \notin Queued(l) PROVE i = n + 1 /\ e.link = l
        <3>1. i \in 1..n + 1 /\ playback'[i].link = l
            BY <1>1, <2>2 DEF Queued
        <3>2. i \notin 1..n
            BY <1>1, <2>2, <3>1 DEF Queued, n
        <3>3. i = n + 1
            BY <1>1, <3>1, <3>2
        <3> QED
            BY <1>1, <3>1, <3>3
    <2>3. e.link = l => n + 1 \in Queued(l)'
        BY <1>1 DEF Queued
    <2> QED
        BY <2>1, <2>2, <2>3
<1>3. QueueRises(l)'
    <2> SUFFICES ASSUME NEW i \in Queued(l)', NEW j \in Queued(l)', i < j
                 PROVE  playback'[i].frame < playback'[j].frame
        BY DEF QueueRises
    <2>1. i \in Queued(l)
        <3>1. CASE i = n + 1
            <4>1. j \in 1..n \/ j = n + 1
                BY <1>2
            <4> QED
                BY <1>1, <3>1, <4>1
        <3> QED
            BY <1>2, <3>1
    <2>2. CASE j \in Queued(l)
        BY <1>2, <2>1, <2>2 DEF QueueRises
    <2>3. CASE j = n + 1 /\ e.link = l
        <3>1. playback[i].frame < e.frame
            BY <2>1, <2>3 DEF InQueue, Before
        <3> QED
            BY <1>1, <1>2, <2>1, <2>3, <3>1
    <2> QED
        BY <1>2, <2>2, <2>3
<1>4. InQueue(l) \subseteq InQueue(l)'
    BY <1>2 DEF InQueue
<1>5. e.link = l => e.frame \in InQueue(l)'
    BY <1>1, <1>2 DEF InQueue
<1>6. ASSUME NEW m \in InQueue(l)' PROVE m \in InQueue(l) \/ (e.link = l /\ m = e.frame)
    <2>1. PICK i \in Queued(l)' : m = playback'[i].frame
        BY <1>6 DEF InQueue
    <2>2. CASE i \in Queued(l)
        BY <1>2, <2>1, <2>2 DEF InQueue
    <2>3. CASE i = n + 1 /\ e.link = l
        BY <1>1, <2>1, <2>3
    <2> QED
        BY <1>2, <2>2, <2>3
<1> QED
    BY <1>3, <1>4, <1>5, <1>6

\* A packet's task goes on to what is left of it, later than what is done with.
LEMMA RestInOrder ==
    ASSUME NEW t \in Packet, NEW n \in 1..Len(t), Rising(t)
    PROVE  /\ Rising(Rest(t, n)) /\ FramesOf(Rest(t, n)) \subseteq FramesOf(t)
           /\ t[1] \in FramesOf(t) /\ Before({t[1]}, FramesOf(Rest(t, n)))
<1> DEFINE r == Rest(t, n)
<1>1. /\ Len(r) = Len(t) - n /\ \A i \in 1..Len(t) - n : r[i] = t[n + i]
      /\ Len(t) \in Nat
    BY RestType, LenProperties DEF Packet
<1> HIDE DEF r
<1>2. ASSUME NEW i \in 1..Len(r) PROVE n + i \in 1..Len(t) /\ 1 < n + i /\ r[i] = t[n + i]
    BY <1>1
<1>3. 1 \in 1..Len(t)
    BY <1>1
<1>4. Rising(r)
    <2> SUFFICES ASSUME NEW i \in 1..Len(r), NEW j \in 1..Len(r), i < j PROVE r[i] < r[j]
        BY DEF Rising
    <2>1. n + i < n + j
        BY <1>1
    <2> QED
        BY <1>2, <2>1 DEF Rising
<1>5. FramesOf(r) \subseteq FramesOf(t)
    BY <1>2 DEF FramesOf
<1>6. Before({t[1]}, FramesOf(r))
    BY <1>2, <1>3 DEF Rising, Before, FramesOf
<1> QED
    BY <1>3, <1>4, <1>5, <1>6 DEF r, FramesOf

LEMMA AudioInitInv == AudioInit => AudioInv
<1> SUFFICES ASSUME AudioInit PROVE AudioInv
    OBVIOUS
<1>1. LockInv
    BY DEF AudioInit, LockInv
<1>2. ASSUME NEW l \in Links PROVE LinkInv(l)
    <2>1. air[l] = <<>> /\ task[l] = <<>> /\ playback = <<>> /\ played[l] = 0 /\ burst[l].seq = 0
        BY DEF AudioInit
    <2>2. InQueue(l) = {} /\ FramesOf(task[l]) = {} /\ Coming(l) = {} /\ Queued(l) = {}
        BY <2>1 DEF InQueue, Queued, FramesOf, Coming
    <2>3. Ordered(l)
        BY <2>1, <2>2 DEF Ordered, QueueRises, Rising, Before
    <2> QED
        BY <2>1, <2>2, <2>3 DEF LinkInv, AirRises, Heard
<1> QED
    BY <1>1, <1>2, AudioInitType DEF AudioInv

LEMMA AudioNextInv == AudioInv /\ [AudioNext]_audioVars => AudioInv'
<1> SUFFICES ASSUME AudioInv, [AudioNext]_audioVars PROVE AudioInv'
    OBVIOUS
<1>i. AudioTypeOK /\ AudioTypeOK' /\ LockInv /\ \A l \in Links : LinkInv(l)
    BY AudioNextType DEF AudioInv
<1>t. /\ air \in [Links -> Seq(Packet)] /\ task \in [Links -> {<<>>} \cup Packet]
      /\ burst \in [Links -> [pending : 0..PacketFrames - 1, seq : 0..MaxFrames]]
      /\ playback \in Seq(Item) /\ played \in [Links -> 0..MaxFrames]
      /\ decoder \in Links \cup {NoLink} /\ NoLink \notin Links /\ begun \subseteq Links
    BY <1>i, AudioAssumption DEF AudioTypeOK, Item
<1>p. ASSUME NEW l \in Links, task[l] # <<>>
      PROVE  task[l] \in Packet /\ 1 \in 1..Len(task[l]) /\ Len(task[l]) \in 1..Len(task[l])
    BY <1>p, <1>t, AudioAssumption DEF Packet
\* The sender's steps, which change its link and its counter only.
<1>f. ASSUME NEW l \in Links, NEW n \in 1..PacketFrames, burst[l].seq + n <= MaxFrames,
             Flush(l, n), RxUnchanged
      PROVE  AudioInv'
    <2>1. /\ burst'[l].seq = burst[l].seq + n /\ burst[l].seq \in Nat
          /\ \A k \in Links \ {l} : burst'[k] = burst[k] /\ air'[k] = air[k]
          /\ air'[l] = air[l] \/ air'[l] = Append(air[l], Frames(burst[l].seq, n))
        BY <1>f, <1>i, FlushType, HeardType
    <2>2. LockInv'
        BY <1>f, <1>i DEF RxUnchanged, LockInv
    <2>3. ASSUME NEW k \in Links, k # l PROVE LinkInv(k)'
        BY <1>f, <1>i, <2>1, <2>3, OrderIsSame DEF RxUnchanged
    <2>4. InQueue(l)' = InQueue(l) /\ Queued(l)' = Queued(l)
        BY <1>f DEF RxUnchanged, InQueue, Queued
    <2>5. CASE air'[l] = air[l]
        <3>1. Coming(l)' = Coming(l) /\ AirRises(l)'
            BY <1>i, <2>5 DEF Coming, LinkInv, AirRises
        <3>2. QueueRises(l)' /\ Rising(task[l])'
            BY <1>f, <1>i, <2>4 DEF RxUnchanged, LinkInv, Ordered, QueueRises
        <3>3. burst[l].seq <= burst'[l].seq
            BY <2>1
        <3>4. LinkInv(l)'
            BY <1>f, <1>i, <2>4, <3>1, <3>2, <3>3, OrderIsKept DEF RxUnchanged
        <3> QED
            BY <1>i, <2>2, <2>3, <3>4 DEF AudioInv
    <2>6. CASE air'[l] = Append(air[l], Frames(burst[l].seq, n))
        <3> DEFINE new == FramesOf(Frames(burst[l].seq, n))
        <3>1. AirRises(l)' /\ Coming(l)' = Coming(l) \cup new
            BY <1>f, <1>i, <2>6, AirWithPacket
        <3>2. \A m \in new : m \in Nat /\ burst[l].seq < m /\ m <= burst'[l].seq
            BY <1>f, <2>1, FramesType, AudioAssumption DEF FramesOf
        <3> HIDE DEF new
        <3>3. Heard(l) \subseteq Nat /\ \A m \in Heard(l) : m <= burst[l].seq
            BY <1>i, HeardType DEF LinkInv
        <3>4. Before(Heard(l), new)
            BY <2>1, <3>2, <3>3 DEF Before
        <3>5. Heard(l)' = Heard(l) \cup new
            BY <1>f, <2>4, <3>1 DEF Heard, RxUnchanged
        <3>6. Ordered(l)'
            <4>1. Ordered(l) /\ UNCHANGED <<played, task>>
                BY <1>f, <1>i DEF LinkInv, RxUnchanged
            <4>2. QueueRises(l)'
                BY <1>f, <2>4, <4>1 DEF Ordered, QueueRises, RxUnchanged
            <4>3. Before({played[l]} \cup InQueue(l) \cup FramesOf(task[l]), new)
                BY <3>4 DEF Heard, Before
            <4> QED
                BY <2>4, <3>1, <4>1, <4>2, <4>3 DEF Ordered, Before
        <3>7. \A m \in Heard(l)' : m <= burst'[l].seq
            BY <1>f, <2>1, <3>2, <3>3, <3>5, AudioAssumption
        <3>8. LinkInv(l)'
            BY <3>1, <3>6, <3>7 DEF LinkInv
        <3> QED
            BY <1>i, <2>2, <2>3, <3>8 DEF AudioInv
    <2> QED
        BY <2>1, <2>5, <2>6
<1>1. ASSUME NEW l \in Links, PushPcm(l) PROVE AudioInv'
    <2> DEFINE n == burst[l].pending + 1
    <2>0. burst[l].pending \in 0..PacketFrames - 1 /\ PacketFrames \in Nat
        BY <1>t, AudioAssumption
    <2>1. n \in 1..PacketFrames /\ burst[l].seq + n <= MaxFrames /\ RxUnchanged
        BY <1>1, <2>0 DEF PushPcm
    <2>2. CASE burst' = [burst EXCEPT ![l].pending = n] /\ UNCHANGED air
        <3>1. \A k \in Links : burst'[k].seq = burst[k].seq
            BY <1>t, <2>2
        <3>2. LockInv' /\ UNCHANGED <<air, played, playback, task>>
            BY <1>i, <2>1, <2>2 DEF RxUnchanged, LockInv
        <3> QED
            BY <1>i, <3>1, <3>2, OrderIsSame DEF AudioInv
    <2>3. CASE Flush(l, n)
        <3> HIDE DEF n
        <3> QED
            BY <1>f, <2>1, <2>3
    <2> QED
        BY <1>1, <2>2, <2>3 DEF PushPcm
<1>2. ASSUME NEW l \in Links, BurstEnds(l) PROVE AudioInv'
    <2> DEFINE n == burst[l].pending
    <2>0. n \in 0..PacketFrames - 1 /\ PacketFrames \in Nat /\ burst[l].seq + n <= MaxFrames
        BY <1>i, <1>t, AudioAssumption DEF AudioTypeOK
    <2>1. Flush(l, n) /\ RxUnchanged /\ n > 0
        BY <1>2 DEF BurstEnds
    <2> HIDE DEF n
    <2>2. n \in 1..PacketFrames
        BY <2>0, <2>1
    <2> QED
        BY <1>f, <2>0, <2>1, <2>2
<1>3. ASSUME NEW l \in Links, Unheard(l) PROVE AudioInv'
    <2>1. /\ air[l] # <<>> /\ air'[l] = Tail(air[l]) /\ \A k \in Links \ {l} : air'[k] = air[k]
          /\ UNCHANGED <<burst, playback, task, played>>
        BY <1>3, <1>t DEF Unheard, RxUnchanged
    <2>2. LockInv'
        BY <1>3, <1>i DEF Unheard, RxUnchanged, LockInv
    <2>3. ASSUME NEW k \in Links, k # l PROVE LinkInv(k)'
        BY <1>i, <2>1, <2>3, OrderIsSame
    <2>4. AirRises(l)' /\ Coming(l)' \subseteq Coming(l)
        BY <1>i, <2>1, AirWithoutHead DEF LinkInv
    <2>5. InQueue(l)' = InQueue(l) /\ QueueRises(l)' /\ Rising(task[l])'
        BY <1>i, <2>1 DEF InQueue, Queued, QueueRises, LinkInv, Ordered
    <2>6. burst[l].seq <= burst'[l].seq
        BY <1>i, <2>1, HeardType
    <2>7. LinkInv(l)'
        BY <1>i, <2>1, <2>4, <2>5, <2>6, OrderIsKept
    <2> QED
        BY <1>i, <2>2, <2>3, <2>7 DEF AudioInv
<1>4. ASSUME NEW l \in Links, Receive(l) PROVE AudioInv'
    <2>1. /\ air[l] # <<>> /\ air'[l] = Tail(air[l]) /\ \A k \in Links \ {l} : air'[k] = air[k]
          /\ UNCHANGED <<burst, playback, played, decoder, latest, begun, output>>
          /\ task[l] = <<>> /\ task'[l] = Head(air[l])
          /\ \A k \in Links \ {l} : task'[k] = task[k]
        BY <1>4, <1>t DEF Receive
    <2>2. LockInv'
        BY <1>i, <1>t, <2>1 DEF LockInv
    <2>3. ASSUME NEW k \in Links, k # l PROVE LinkInv(k)'
        BY <1>i, <2>1, <2>3, OrderIsSame
    <2>4. /\ AirRises(l)' /\ Coming(l)' \subseteq Coming(l)
          /\ FramesOf(task[l])' \subseteq Coming(l) /\ Rising(task[l])'
          /\ Before(FramesOf(task[l])', Coming(l)')
        BY <1>i, <2>1, AirWithoutHead DEF LinkInv
    <2>5. InQueue(l)' = InQueue(l) /\ QueueRises(l)' /\ played'[l] = played[l]
        BY <1>i, <2>1 DEF InQueue, Queued, QueueRises, LinkInv, Ordered
    <2>6. Ordered(l)'
        BY <1>i, <2>4, <2>5 DEF LinkInv, Ordered, Before
    <2>7. \A m \in Heard(l)' : m <= burst'[l].seq
        BY <1>i, <2>1, <2>4, <2>5 DEF LinkInv, Heard
    <2>8. LinkInv(l)'
        BY <2>4, <2>6, <2>7 DEF LinkInv
    <2> QED
        BY <1>i, <2>2, <2>3, <2>8 DEF AudioInv
<1>5. ASSUME NEW l \in Links, LockDecoder(l) PROVE AudioInv'
    <2>1. LockInv' /\ UNCHANGED <<burst, air, playback, task, played>>
        BY <1>5, <1>i, <1>t DEF LockDecoder, LockInv
    <2> QED
        BY <1>i, <2>1, OrderIsSame DEF AudioInv
\* Frames of a packet that are done with, and not queued.
<1>d. ASSUME NEW l \in Links, NEW n \in 1..Len(task[l]), decoder = l, task[l] # <<>>, Done(l, n),
             UNCHANGED <<burst, air, output, playback, played, latest>>,
             l \notin begun' /\ begun' \subseteq begun
      PROVE  AudioInv'
    <2>1. /\ task'[l] = Rest(task[l], n) /\ task[l] \in Packet
          /\ \A k \in Links \ {l} : task'[k] = task[k]
          /\ decoder' = IF task'[l] = <<>> THEN NoLink ELSE l
        BY <1>d, <1>i, <1>t, DoneType
    <2>2. LockInv'
        BY <1>d, <1>i, <2>1 DEF LockInv
    <2>3. ASSUME NEW k \in Links, k # l PROVE LinkInv(k)'
        BY <1>d, <1>i, <2>1, <2>3, OrderIsSame
    <2>4. Rising(task[l])' /\ FramesOf(task[l])' \subseteq FramesOf(task[l])
        BY <1>d, <1>i, <2>1, RestInOrder DEF LinkInv, Ordered
    <2>5. /\ InQueue(l)' = InQueue(l) /\ QueueRises(l)' /\ played'[l] = played[l]
          /\ Coming(l)' = Coming(l) /\ AirRises(l)'
        BY <1>d, <1>i DEF InQueue, Queued, QueueRises, LinkInv, Ordered, Coming, AirRises
    <2>6. burst[l].seq <= burst'[l].seq
        BY <1>d, <1>i, HeardType
    <2>7. LinkInv(l)'
        BY <1>i, <2>4, <2>5, <2>6, OrderIsKept
    <2> QED
        BY <1>i, <2>2, <2>3, <2>7 DEF AudioInv
<1>6. ASSUME NEW l \in Links, ToBrowsers(l) PROVE AudioInv'
    <2>1. l \notin begun
        BY <1>6, <1>i DEF ToBrowsers, LockInv
    <2> QED
        BY <1>6, <1>d, <1>p, <2>1 DEF ToBrowsers, Decoded
<1>7. ASSUME NEW l \in Links, Enqueue(l) PROVE AudioInv'
    <2> DEFINE t == task[l]
               e == [link |-> l, frame |-> Head(t)]
    <2>1. /\ task'[l] = Rest(t, 1) /\ t \in Packet /\ 1 \in 1..Len(t) /\ t # <<>>
          /\ \A k \in Links \ {l} : task'[k] = task[k]
          /\ decoder' = IF task'[l] = <<>> THEN NoLink ELSE l
          /\ decoder = l
        BY <1>7, <1>i, <1>p, <1>t, DoneType DEF Enqueue, Decoded
    <2>2. /\ t \in Seq(1..MaxFrames) /\ Head(t) = t[1] /\ t[1] \in 1..MaxFrames
          /\ Len(t) \in Nat /\ Rest(t, 1) \in Seq(1..MaxFrames) /\ Len(Rest(t, 1)) = Len(t) - 1
        <3>1. t \in Seq(1..MaxFrames)
            BY <2>1 DEF Packet
        <3>2. Head(t) = t[1]
            BY <2>1, <3>1
        <3>3. t[1] \in 1..MaxFrames /\ Len(t) \in Nat
            BY <2>1, <3>1, ElementOfSeq, LenProperties
        <3>4. Rest(t, 1) \in Seq(1..MaxFrames) /\ Len(Rest(t, 1)) = Len(t) - 1
            BY <2>1, RestType
        <3> QED
            BY <3>1, <3>2, <3>3, <3>4
    <2>3. e \in Item /\ e.link = l /\ e.frame = t[1]
        BY <2>2 DEF Item
    <2>4. playback' = Append(playback, e) /\ UNCHANGED <<burst, air, output, played>>
        BY <1>7 DEF Enqueue
    <2>5. latest' = l /\ begun' = IF Len(t) > 1 THEN begun \cup {l} ELSE begun \ {l}
        BY <1>7 DEF Enqueue
    <2>6. output = "alsa"
        BY <1>7 DEF Enqueue
    <2>7. Ordered(l) /\ AirRises(l) /\ \A m \in Heard(l) : m <= burst[l].seq
        BY <1>i DEF LinkInv
    <2>8. LockInv'
        <3>1. begun \subseteq {l}
            BY <1>i, <2>1 DEF LockInv
        <3>2. Len(t) > 1 => task'[l] # <<>>
            BY <2>1, <2>2, EmptySeq
        <3>3. \A k \in begun' : k = l /\ Len(t) > 1
            BY <2>5, <3>1
        <3> QED
            BY <2>1, <2>4, <2>5, <2>6, <3>2, <3>3 DEF LockInv
    <2>9. /\ Rising(Rest(t, 1)) /\ FramesOf(Rest(t, 1)) \subseteq FramesOf(t)
          /\ t[1] \in FramesOf(t) /\ Before({t[1]}, FramesOf(Rest(t, 1)))
        BY <2>1, <2>7, RestInOrder DEF Ordered
    <2> HIDE DEF t, e
    <2>10. FramesOf(task[l]) = FramesOf(t)
        BY DEF t
    <2>11. Before(InQueue(l), {e.frame})
        BY <2>3, <2>7, <2>9, <2>10 DEF Ordered, Before
    <2>12. /\ QueueRises(l)' /\ InQueue(l)' = InQueue(l) \cup {t[1]}
        BY <1>i, <2>3, <2>4, <2>7, <2>11, QueueWithFrame DEF Ordered
    <2>13. Coming(l)' = Coming(l) /\ AirRises(l)' /\ played'[l] = played[l]
        BY <2>4, <2>7 DEF Coming, AirRises
    <2>14. FramesOf(task[l])' = FramesOf(Rest(t, 1)) /\ Rising(task[l])'
        BY <2>1, <2>9
    <2>15. Ordered(l)'
        BY <2>7, <2>9, <2>10, <2>12, <2>13, <2>14 DEF Ordered, Before
    <2>16. \A m \in Heard(l)' : m <= burst'[l].seq
        BY <2>4, <2>7, <2>9, <2>10, <2>12, <2>13, <2>14 DEF Heard
    <2>17. LinkInv(l)'
        BY <2>13, <2>15, <2>16 DEF LinkInv
    <2>18. ASSUME NEW k \in Links, k # l PROVE LinkInv(k)'
        <3>1. QueueRises(k)' /\ InQueue(k)' = InQueue(k)
            BY <1>i, <2>3, <2>4, <2>18, QueueWithFrame DEF LinkInv, Ordered
        <3>2. /\ Coming(k)' = Coming(k) /\ AirRises(k)' /\ played'[k] = played[k]
              /\ FramesOf(task[k])' = FramesOf(task[k]) /\ Rising(task[k])'
            BY <1>i, <2>1, <2>4, <2>18 DEF Coming, AirRises, LinkInv, Ordered
        <3>3. burst[k].seq <= burst'[k].seq
            BY <1>i, <2>4, HeardType
        <3> QED
            BY <1>i, <3>1, <3>2, <3>3, OrderIsKept
    <2> QED
        BY <1>i, <2>8, <2>17, <2>18 DEF AudioInv
<1>8. ASSUME NEW l \in Links, GiveUp(l) \/ NoPlayer(l) PROVE AudioInv'
    BY <1>8, <1>d, <1>p DEF GiveUp, NoPlayer, Decoded
<1>9. ASSUME Play PROVE AudioInv'
    <2> DEFINE h == Head(playback)
    <2>1. /\ playback # <<>> /\ playback' = Tail(playback)
          /\ UNCHANGED <<burst, air, output, task, decoder, latest, begun>>
          /\ played' = [played EXCEPT ![h.link] = h.frame]
        BY <1>9 DEF Play
    <2>2. h \in Item
        BY <1>t, <2>1, HeadTailProperties
    <2>3. h.link \in Links /\ played'[h.link] = h.frame
        BY <1>t, <2>1, <2>2 DEF Item
    <2>4. \A k \in Links : k # h.link => played'[k] = played[k]
        BY <1>t, <2>1
    <2>5. LockInv'
        BY <1>i, <2>1 DEF LockInv
    <2>6. ASSUME NEW l \in Links PROVE LinkInv(l)'
        <3>1. /\ QueueRises(l)' /\ InQueue(l)' \subseteq InQueue(l)
              /\ h.link = l => h.frame \in InQueue(l) /\ Before({h.frame}, InQueue(l)')
            BY <1>i, <2>1, QueueWithoutHead DEF LinkInv, Ordered
        <3>2. /\ Coming(l)' = Coming(l) /\ AirRises(l)' /\ Rising(task[l])'
              /\ FramesOf(task[l])' = FramesOf(task[l])
            BY <1>i, <2>1 DEF Coming, AirRises, LinkInv, Ordered
        <3>3. burst'[l].seq = burst[l].seq /\ burst[l].seq <= burst'[l].seq
            BY <1>i, <2>1, HeardType
        <3>4. CASE h.link # l
            BY <1>i, <2>4, <3>1, <3>2, <3>3, <3>4, OrderIsKept
        <3>5. CASE h.link = l
            <4>1. Ordered(l) /\ \A m \in Heard(l) : m <= burst[l].seq
                BY <1>i DEF LinkInv
            <4> HIDE DEF h
            <4>2. played'[l] = h.frame
                BY <2>3, <3>5
            <4>3. Ordered(l)'
                BY <3>1, <3>2, <3>5, <4>1, <4>2 DEF Ordered, Before
            <4>4. \A m \in Heard(l)' : m <= burst'[l].seq
                BY <3>1, <3>2, <3>3, <3>5, <4>1, <4>2 DEF Heard
            <4> QED
                BY <3>2, <4>3, <4>4 DEF LinkInv
        <3> QED
            BY <3>4, <3>5
    <2> QED
        BY <1>i, <2>5, <2>6 DEF AudioInv
<1>10. ASSUME PlayerFails PROVE AudioInv'
    <2>1. playback' = <<>> /\ UNCHANGED <<burst, air, output, task, decoder, played, latest, begun>>
        BY <1>10 DEF PlayerFails
    <2>2. LockInv'
        BY <1>i, <2>1 DEF LockInv
    <2>3. ASSUME NEW l \in Links PROVE LinkInv(l)'
        <3>1. Queued(l)' = {} /\ InQueue(l)' = {} /\ QueueRises(l)'
            BY <2>1 DEF Queued, InQueue, QueueRises
        <3>2. /\ Coming(l)' = Coming(l) /\ AirRises(l)' /\ Rising(task[l])'
              /\ FramesOf(task[l])' = FramesOf(task[l])
            BY <1>i, <2>1 DEF Coming, AirRises, LinkInv, Ordered
        <3>3. burst[l].seq <= burst'[l].seq
            BY <1>i, <2>1, HeardType
        <3> QED
            BY <1>i, <2>1, <3>1, <3>2, <3>3, OrderIsKept
    <2> QED
        BY <1>i, <2>2, <2>3 DEF AudioInv
<1>11. CASE UNCHANGED audioVars
    <2>1. LockInv' /\ UNCHANGED <<burst, air, playback, task, played>>
        BY <1>11, <1>i DEF audioVars, LockInv
    <2> QED
        BY <1>i, <2>1, OrderIsSame DEF AudioInv
<1> QED
    BY <1>1, <1>2, <1>3, <1>4, <1>5, <1>6, <1>7, <1>8, <1>9, <1>10, <1>11 DEF AudioNext

\* Voice is played in the order it was spoken, no frame twice, and two talkers are
\* not mixed within a packet (VoiceInOrder): for any links, packets and queues.
THEOREM VoiceStaysInOrder == AudioSpec => []VoiceInOrder
<1>1. AudioInit => AudioInv
    BY AudioInitInv
<1>2. AudioInv /\ [AudioNext]_audioVars => AudioInv'
    BY AudioNextInv
<1>3. AudioInv => VoiceInOrder
    BY DEF AudioInv, LockInv, LinkInv, Ordered, QueueRises, VoiceInOrder, PlayedInOrder,
           PacketsWhole
<1> QED
    BY <1>1, <1>2, <1>3, PTL DEF AudioSpec

-----------------------------------------------------------------------------
(* The frame feed.                                                         *)

Events == View \cup {Other}

\* What a backlog is after an event was sent to it: the event comes last, after
\* what was there, without the oldest if it was full.
LEMMA SentIsAppended ==
    ASSUME NEW q \in Seq(Events), Len(q) <= FeedCapacity, NEW e \in Events
    PROVE  /\ Sent(q, e) \in Seq(Events)
           /\ Len(Sent(q, e)) = IF Len(q) = FeedCapacity THEN Len(q) ELSE Len(q) + 1
           /\ Sent(q, e)[Len(Sent(q, e))] = e
           /\ Len(q) = FeedCapacity =>
                \A i \in 1..Len(q) - 1 : Sent(q, e)[i] = q[i + 1]
           /\ Len(q) # FeedCapacity => \A i \in 1..Len(q) : Sent(q, e)[i] = q[i]
<1>. USE FeedAssumption
<1>1. CASE Len(q) = FeedCapacity
    <2>1. q # <<>> /\ Tail(q) \in Seq(Events) /\ Len(Tail(q)) = Len(q) - 1
        BY <1>1
    <2>2. \A i \in 1..Len(q) - 1 : Tail(q)[i] = q[i + 1]
        BY <1>1, <2>1
    <2>3. Sent(q, e) = Append(Tail(q), e)
        BY <1>1 DEF Sent
    <2> QED
        BY <1>1, <2>1, <2>2, <2>3
<1>2. CASE Len(q) # FeedCapacity
    BY <1>2 DEF Sent
<1> QED
    BY <1>1, <1>2

LEMMA SentIsBounded ==
    ASSUME NEW q \in Seq(Events), Len(q) <= FeedCapacity, NEW e \in Events
    PROVE  Sent(q, e) \in Seq(Events) /\ Len(Sent(q, e)) <= FeedCapacity
<1>1. Len(q) \in Nat
    OBVIOUS
<1>2. Sent(q, e) \in Seq(Events)
    BY SentIsAppended
<1>3. Len(Sent(q, e)) = IF Len(q) = FeedCapacity THEN Len(q) ELSE Len(q) + 1
    BY SentIsAppended
<1> QED
    BY <1>1, <1>2, <1>3, FeedAssumption

LEMMA FramesAreKept ==
    ASSUME NEW b \in Seq(1..MaxFed), NEW n \in 1..MaxFed
    PROVE  /\ Truncated(<<n>> \o b) \in Seq(1..MaxFed)
           /\ Len(Truncated(<<n>> \o b)) <= Keep
<1> DEFINE c == <<n>> \o b
<1>1. c \in Seq(1..MaxFed) /\ Len(c) = Len(b) + 1
    OBVIOUS
<1>2. ASSUME NEW k \in 0..Len(c)
      PROVE  SubSeq(c, 1, k) \in Seq(1..MaxFed) /\ Len(SubSeq(c, 1, k)) = k
    <2> HIDE DEF c
    <2>1. ASSUME NEW i \in 1..k PROVE c[i] \in 1..MaxFed
        <3>1. i \in 1..Len(c)
            BY <1>1
        <3> QED
            BY <1>1, <3>1, ElementOfSeq
    <2> QED
        BY <1>1, <2>1, SubSeqProperties
<1>3. (IF Len(c) < Keep THEN Len(c) ELSE Keep) \in 0..Len(c)
    BY <1>1, FeedAssumption
<1> HIDE DEF c
<1>4. Truncated(c) \in Seq(1..MaxFed) /\ Len(Truncated(c)) <= Keep
    BY <1>1, <1>2, <1>3, FeedAssumption DEF Truncated
<1> QED
    BY <1>4 DEF c

LEMMA FeedTypeInit == FeedInit => FeedTypeOK
<1> SUFFICES ASSUME FeedInit PROVE FeedTypeOK
    OBVIOUS
<1>. USE FeedAssumption DEF FeedInit
<1>1. NoView \in View /\ shown \in [Sockets -> View]
    BY DEF NoView, View
<1>2. channel \in [Sockets -> Seq(View \cup {Other})] /\ \A s \in Sockets : Len(channel[s]) <= FeedCapacity
    OBVIOUS
<1>3. /\ frames \in 0..MaxFed /\ counted \in 0..MaxFed
      /\ buffer \in Seq(1..MaxFed) /\ Len(buffer) <= Keep
      /\ listener \in [pc : {"idle", "push", "publish"}, frames : Seq(1..MaxFed)]
    OBVIOUS
<1> QED
    BY <1>1, <1>2, <1>3 DEF FeedTypeOK

LEMMA FeedTypeNext ==
    FeedTypeOK /\ counted = frames /\ (listener.pc = "push" => frames \in 1..MaxFed)
        /\ [FeedNext]_feedVars => FeedTypeOK'
<1> SUFFICES ASSUME FeedTypeOK, counted = frames, listener.pc = "push" => frames \in 1..MaxFed,
                    [FeedNext]_feedVars
             PROVE  FeedTypeOK'
    OBVIOUS
<1>. USE FeedAssumption DEF FeedTypeOK
<1>0. NoView \in View /\ Other \in Events /\ View \subseteq Events
    BY DEF NoView, View, Events
<1>1. CASE CountFrame
    BY <1>1 DEF CountFrame
<1>2. CASE PushFrame
    BY <1>2, FramesAreKept DEF PushFrame
<1>3. CASE PublishFrames
    <2>1. [frames |-> listener.frames, count |-> counted] \in Events
        BY DEF View, Events
    <2>2. ASSUME NEW s \in Sockets
          PROVE  channel'[s] \in Seq(Events) /\ Len(channel'[s]) <= FeedCapacity
        <3>1. channel[s] \in Seq(Events) /\ Len(channel[s]) <= FeedCapacity
            BY DEF Events
        <3>2. channel'[s] \in {channel[s], Sent(channel[s], [frames |-> listener.frames, count |-> counted])}
            BY <1>3 DEF PublishFrames
        <3>3. /\ Sent(channel[s], [frames |-> listener.frames, count |-> counted]) \in Seq(Events)
              /\ Len(Sent(channel[s], [frames |-> listener.frames, count |-> counted])) <= FeedCapacity
            BY <2>1, <3>1, SentIsBounded
        <3> QED
            BY <3>1, <3>2, <3>3
    <2>3. channel' \in [Sockets -> Seq(View \cup {Other})]
        BY <1>3, <2>2 DEF PublishFrames, Events
    <2> QED
        BY <1>3, <2>2, <2>3 DEF PublishFrames
<1>4. CASE FillChannel
    <2>1. ASSUME NEW s \in Sockets
          PROVE  channel'[s] \in Seq(Events) /\ Len(channel'[s]) <= FeedCapacity
        <3>1. channel[s] \in Seq(Events) /\ Len(channel[s]) <= FeedCapacity
            BY DEF Events
        <3>2. channel'[s] \in {channel[s], Sent(channel[s], Other)}
            BY <1>4 DEF FillChannel
        <3>3. /\ Sent(channel[s], Other) \in Seq(Events)
              /\ Len(Sent(channel[s], Other)) <= FeedCapacity
            BY <1>0, <3>1, SentIsBounded
        <3> QED
            BY <3>1, <3>2, <3>3
    <2>2. channel' \in [Sockets -> Seq(View \cup {Other})]
        BY <1>4, <2>1 DEF FillChannel, Events
    <2>3. missed' \in [Sockets -> BOOLEAN]
        BY <1>4 DEF FillChannel
    <2> QED
        BY <1>4, <2>1, <2>2, <2>3 DEF FillChannel
<1>5. ASSUME NEW s \in Sockets, Subscribe(s) PROVE FeedTypeOK'
    BY <1>0, <1>5 DEF Subscribe
<1>6. ASSUME NEW s \in Sockets, SnapshotFrames(s) PROVE FeedTypeOK'
    BY <1>6 DEF SnapshotFrames, View
<1>7. ASSUME NEW s \in Sockets, SnapshotStats(s) PROVE FeedTypeOK'
    BY <1>7 DEF SnapshotStats, View
<1>8. ASSUME NEW s \in Sockets, Forward(s) PROVE FeedTypeOK'
    BY <1>8 DEF Forward
<1>9. ASSUME NEW s \in Sockets, Close(s) PROVE FeedTypeOK'
    BY <1>0, <1>9 DEF Close
<1>10. CASE UNCHANGED feedVars
    BY <1>10 DEF feedVars
<1> QED
    BY <1>1, <1>2, <1>3, <1>4, <1>5, <1>6, <1>7, <1>8, <1>9, <1>10 DEF FeedNext

\* What the browser would show if it had received everything.
Now == [frames |-> buffer, count |-> counted]

\* The last frames published are in the socket's backlog and will be forwarded ...
OnItsWay(s) ==
    \E i \in 1..Len(channel[s]) :
        channel[s][i] = Now /\ \A j \in i + 1..Len(channel[s]) : channel[s][j] = Other

\* ... or none are, and what the socket has read itself is what they would be.
Read(s) ==
    /\ \A i \in 1..Len(channel[s]) : channel[s][i] = Other
    /\ socket[s] \in {"stats", "open"} => shown[s].frames = buffer
    /\ socket[s] = "open" => shown[s].count = counted

Told(s) == socket[s] # "closed" /\ listener.pc = "idle" /\ ~missed[s] => OnItsWay(s) \/ Read(s)

FeedInv ==
    /\ FeedTypeOK
    /\ counted = frames
    /\ listener.pc = "push" => frames \in 1..MaxFed
    /\ listener.pc = "publish" => listener.frames = buffer
    /\ \A s \in Sockets : Told(s)

LEMMA FeedInvInit == FeedInit => FeedInv
BY FeedTypeInit DEF FeedInit, FeedInv, Told

\* An event of the frames, sent to a backlog, will be forwarded.
LEMMA PublishedIsComing ==
    ASSUME NEW s \in Sockets, NEW q \in Seq(Events), Len(q) <= FeedCapacity,
           channel'[s] = Sent(q, Now'), Now' \in Events
    PROVE  OnItsWay(s)'
<1>1. Len(channel'[s]) \in 1..FeedCapacity /\ channel'[s][Len(channel'[s])] = Now'
    BY SentIsAppended, FeedAssumption
<1> QED
    BY <1>1 DEF OnItsWay

\* What the listener and the other sockets do not touch stays as it was told.
LEMMA ToldIsKept ==
    ASSUME NEW s \in Sockets, Told(s), UNCHANGED <<buffer, counted>>, missed'[s] = missed[s],
           listener' = listener, channel'[s] = channel[s], shown'[s] = shown[s],
           socket'[s] = socket[s]
    PROVE  Told(s)'
<1>1. Now' = Now
    BY DEF Now
<1> HIDE DEF Now
<1>2. OnItsWay(s) => OnItsWay(s)'
    BY <1>1 DEF OnItsWay
<1>3. Read(s) => Read(s)'
    BY DEF Read
<1> QED
    BY <1>2, <1>3 DEF Told

LEMMA FeedInvNext == FeedInv /\ [FeedNext]_feedVars => FeedInv'
<1> SUFFICES ASSUME FeedInv, [FeedNext]_feedVars PROVE FeedInv'
    OBVIOUS
<1>0. FeedTypeOK /\ FeedTypeOK'
    BY FeedTypeNext DEF FeedInv
<1>. USE FeedAssumption, <1>0
<1>1. CASE CountFrame
    BY <1>1 DEF CountFrame, FeedInv, FeedTypeOK, Told
<1>2. CASE PushFrame
    BY <1>2 DEF PushFrame, FeedInv, FeedTypeOK, Told
<1>3. CASE PublishFrames
    <2>1. Now' \in Events /\ Now' = [frames |-> listener.frames, count |-> counted]
        BY <1>3 DEF PublishFrames, FeedInv, FeedTypeOK, Now, Events, View
    <2>2. ASSUME NEW s \in Sockets, socket[s] # "closed" PROVE OnItsWay(s)'
        <3>1. channel'[s] = Sent(channel[s], Now')
            BY <1>3, <2>1, <2>2 DEF PublishFrames, Subscribed
        <3>2. channel[s] \in Seq(Events) /\ Len(channel[s]) <= FeedCapacity
            BY DEF FeedTypeOK, Events
        <3> QED
            BY <2>1, <3>1, <3>2, PublishedIsComing
    <2> QED
        BY <1>3, <2>2 DEF PublishFrames, FeedInv, Told
<1>t. ASSUME NEW s \in Sockets PROVE Told(s)
    BY DEF FeedInv
<1>4. CASE FillChannel
    <2>1. UNCHANGED <<frames, counted, buffer, listener, socket, shown>>
        BY <1>4 DEF FillChannel
    <2>2. Now' = Now /\ Now # Other
        BY <2>1 DEF Now, Other, FeedTypeOK
    <2>3. ASSUME NEW s \in Sockets, socket[s] # "closed", listener.pc = "idle", ~missed'[s]
          PROVE  OnItsWay(s)' \/ Read(s)'
        <3> DEFINE q == channel[s]
        <3>1. q \in Seq(Events) /\ Len(q) <= FeedCapacity /\ Other \in Events
            BY DEF FeedTypeOK, Events
        <3>2. channel'[s] = Sent(q, Other)
            BY <1>4, <2>3 DEF FillChannel, Subscribed
        <3>3. /\ ~missed[s]
              /\ Len(q) = FeedCapacity /\ Head(q) # Other =>
                    \E i \in 2..FeedCapacity : q[i] # Other
            BY <1>4, <2>3 DEF FillChannel
        <3> HIDE DEF q
        <3> DEFINE r == Sent(q, Other)
        <3>4. /\ Len(r) = IF Len(q) = FeedCapacity THEN Len(q) ELSE Len(q) + 1
              /\ r[Len(r)] = Other
              /\ Len(q) = FeedCapacity => \A i \in 1..Len(q) - 1 : r[i] = q[i + 1]
              /\ Len(q) # FeedCapacity => \A i \in 1..Len(q) : r[i] = q[i]
            BY <3>1, SentIsAppended
        <3> HIDE DEF r
        <3>5. channel'[s] = r /\ Len(q) \in Nat /\ Len(r) \in Nat
            BY <3>1, <3>2, <3>4 DEF r
        <3>6. CASE OnItsWay(s)
            <4>1. PICK i \in 1..Len(q) : q[i] = Now /\ \A j \in i + 1..Len(q) : q[j] = Other
                BY <3>6 DEF OnItsWay, q
            <4>2. CASE Len(q) # FeedCapacity
                <5>1. Len(r) = Len(q) + 1 /\ i \in 1..Len(r)
                    BY <3>4, <3>5, <4>1, <4>2
                <5>2. r[i] = Now
                    BY <3>4, <4>1, <4>2
                <5>3. ASSUME NEW j \in i + 1..Len(r) PROVE r[j] = Other
                    <6>1. CASE j = Len(r)
                        BY <3>4, <6>1
                    <6>2. CASE j # Len(r)
                        <7>1. j \in 1..Len(q) /\ j \in i + 1..Len(q)
                            BY <3>5, <4>1, <5>1, <5>3, <6>2
                        <7> QED
                            BY <3>4, <4>1, <4>2, <7>1
                    <6> QED
                        BY <6>1, <6>2
                <5> QED
                    BY <2>2, <3>5, <5>1, <5>2, <5>3 DEF OnItsWay
            <4>3. CASE Len(q) = FeedCapacity
                <5>1. i # 1
                    BY <2>2, <3>1, <3>3, <4>1, <4>3
                <5>2. i - 1 \in 1..Len(r) /\ r[i - 1] = Now
                    BY <3>4, <3>5, <4>1, <4>3, <5>1
                <5>3. ASSUME NEW j \in (i - 1) + 1..Len(r) PROVE r[j] = Other
                    BY <3>4, <3>5, <4>1, <4>3, <5>1, <5>3
                <5> QED
                    BY <2>2, <3>5, <5>2, <5>3 DEF OnItsWay
            <4> QED
                BY <4>2, <4>3
        <3>7. CASE Read(s)
            <4>1. \A i \in 1..Len(q) : q[i] = Other
                BY <3>7 DEF Read, q
            <4>2. \A i \in 1..Len(r) : r[i] = Other
                BY <3>4, <3>5, <4>1
            <4> QED
                BY <2>1, <3>5, <3>7, <4>2 DEF Read
        <3> QED
            BY <1>t, <2>3, <3>3, <3>6, <3>7 DEF Told
    <2> QED
        BY <2>1, <2>3 DEF FeedInv, Told
<1>5. ASSUME NEW s \in Sockets, Subscribe(s) PROVE FeedInv'
    <2>1. /\ UNCHANGED <<frames, counted, buffer, listener>> /\ channel'[s] = <<>>
          /\ socket'[s] = "frames"
        BY <1>5 DEF Subscribe, FeedTypeOK
    <2>2. Read(s)'
        BY <2>1 DEF Read
    <2>3. ASSUME NEW t \in Sockets, t # s PROVE Told(t)'
        BY <1>5, <1>t, <2>3, ToldIsKept DEF Subscribe, FeedTypeOK
    <2> QED
        BY <2>1, <2>2, <2>3 DEF FeedInv, Told
<1>6. ASSUME NEW s \in Sockets, SnapshotFrames(s) PROVE FeedInv'
    <2>1. /\ UNCHANGED <<frames, counted, buffer, listener, channel, missed>>
          /\ shown'[s].frames = buffer /\ socket'[s] = "stats" /\ socket[s] = "frames"
        BY <1>6 DEF SnapshotFrames, FeedTypeOK
    <2>2. Now' = Now
        BY <2>1 DEF Now
    <2>3. OnItsWay(s) => OnItsWay(s)'
        BY <2>1, <2>2 DEF OnItsWay
    <2>4. Read(s) => Read(s)'
        BY <2>1 DEF Read
    <2>5. ASSUME NEW t \in Sockets, t # s PROVE Told(t)'
        BY <1>6, <1>t, <2>5, ToldIsKept DEF SnapshotFrames, FeedTypeOK
    <2>6. Told(s)'
        BY <1>t, <2>1, <2>3, <2>4 DEF Told
    <2> QED
        BY <2>1, <2>5, <2>6 DEF FeedInv
<1>7. ASSUME NEW s \in Sockets, SnapshotStats(s) PROVE FeedInv'
    <2>1. /\ UNCHANGED <<frames, counted, buffer, listener, channel, missed>>
          /\ shown'[s].count = counted /\ shown'[s].frames = shown[s].frames
          /\ socket'[s] = "open" /\ socket[s] = "stats"
        BY <1>7 DEF SnapshotStats, FeedTypeOK, View
    <2>2. Now' = Now
        BY <2>1 DEF Now
    <2>3. OnItsWay(s) => OnItsWay(s)'
        BY <2>1, <2>2 DEF OnItsWay
    <2>4. Read(s) => Read(s)'
        BY <2>1 DEF Read
    <2>5. ASSUME NEW t \in Sockets, t # s PROVE Told(t)'
        BY <1>7, <1>t, <2>5, ToldIsKept DEF SnapshotStats, FeedTypeOK
    <2>6. Told(s)'
        BY <1>t, <2>1, <2>3, <2>4 DEF Told
    <2> QED
        BY <2>1, <2>5, <2>6 DEF FeedInv
<1>8. ASSUME NEW s \in Sockets, Forward(s) PROVE FeedInv'
    <2> DEFINE q == channel[s]
    <2>1. /\ UNCHANGED <<frames, counted, buffer, listener, socket, missed>>
          /\ channel'[s] = Tail(q) /\ socket[s] = "open" /\ q # <<>>
          /\ shown'[s] = IF Head(q) = Other THEN shown[s] ELSE Head(q)
          /\ q \in Seq(Events)
        BY <1>8 DEF Forward, FeedTypeOK, Events
    <2>2. Now' = Now /\ Now # Other
        BY <2>1 DEF Now, Other, FeedTypeOK
    <2> DEFINE r == Tail(q)
    <2> HIDE DEF q
    <2>3. /\ Len(q) \in Nat \ {0} /\ Len(r) = Len(q) - 1 /\ Head(q) = q[1]
          /\ \A i \in 1..Len(q) - 1 : r[i] = q[i + 1]
        BY <2>1
    <2> HIDE DEF r
    <2>r. channel'[s] = r
        BY <2>1 DEF r
    <2>4. ASSUME OnItsWay(s) PROVE OnItsWay(s)' \/ Read(s)'
        <3>1. PICK i \in 1..Len(q) : q[i] = Now /\ \A j \in i + 1..Len(q) : q[j] = Other
            BY <2>4 DEF OnItsWay, q
        <3>2. CASE i = 1
            <4>1. shown'[s] = Now /\ \A j \in 1..Len(r) : r[j] = Other
                BY <2>1, <2>2, <2>3, <3>1, <3>2
            <4>2. shown'[s].frames = buffer' /\ shown'[s].count = counted'
                BY <2>1, <4>1 DEF Now
            <4> QED
                BY <2>r, <4>1, <4>2 DEF Read
        <3>3. CASE i # 1
            <4>1. i - 1 \in 1..Len(r) /\ r[i - 1] = Now
                BY <2>3, <3>1, <3>3
            <4>2. ASSUME NEW j \in (i - 1) + 1..Len(r) PROVE r[j] = Other
                BY <2>3, <3>1, <3>3, <4>2
            <4> QED
                BY <2>2, <2>r, <4>1, <4>2 DEF OnItsWay
        <3> QED
            BY <3>2, <3>3
    <2>5. ASSUME Read(s) PROVE Read(s)'
        <3>1. \A i \in 1..Len(q) : q[i] = Other
            BY <2>5 DEF Read, q
        <3>2. shown'[s] = shown[s] /\ \A i \in 1..Len(r) : r[i] = Other
            BY <2>1, <2>3, <3>1
        <3> QED
            BY <2>1, <2>r, <2>5, <3>2 DEF Read
    <2>6. ASSUME NEW t \in Sockets, t # s PROVE Told(t)'
        BY <1>8, <1>t, <2>6, ToldIsKept DEF Forward, FeedTypeOK
    <2>7. Told(s)'
        BY <1>t, <2>1, <2>4, <2>5 DEF Told
    <2> QED
        BY <2>1, <2>6, <2>7 DEF FeedInv
<1>9. ASSUME NEW s \in Sockets, Close(s) PROVE FeedInv'
    <2>1. ASSUME NEW t \in Sockets, t # s PROVE Told(t)'
        BY <1>9, <1>t, <2>1, ToldIsKept DEF Close, FeedTypeOK
    <2> QED
        BY <1>9, <2>1 DEF Close, FeedInv, FeedTypeOK, Told
<1>10. CASE UNCHANGED feedVars
    <2>1. ASSUME NEW t \in Sockets PROVE Told(t)'
        BY <1>10, <1>t, ToldIsKept DEF feedVars
    <2> QED
        BY <1>10, <2>1 DEF feedVars, FeedInv
<1> QED
    BY <1>1, <1>2, <1>3, <1>4, <1>5, <1>6, <1>7, <1>8, <1>9, <1>10 DEF FeedNext

\* A browser that has received what was published shows the frames and counters as
\* they are, for any number of sockets and any backlog (http/ws.rs handle_socket).
THEOREM FeedIsCaughtUp == FeedSpec => []FeedCatchesUp
<1>1. FeedInv => FeedCatchesUp
    BY DEF FeedInv, FeedCatchesUp, Told, OnItsWay, Read
<1> QED
    BY <1>1, FeedInvInit, FeedInvNext, PTL DEF FeedSpec

-----------------------------------------------------------------------------
(* The event log.  Of each link, the last event that is still to be        *)
(* recorded says what has become of it; if there is none, the table does.  *)

\* The parts of LogTypeOK that the steps change together.
EntryTables ==
    \A s \in LinkSides : /\ DOMAIN entries[s] \subseteq Ids
                         /\ \A i \in DOMAIN entries[s] : entries[s][i] \in Entry

EventQueues == \A s \in LinkSides : events[s] \in Seq(Event) /\ Len(events[s]) <= LogCapacity

\* Everything a side knows of is on it.
Known(s) ==
    /\ \A k \in 1..Len(events[s]) : events[s][k].id \in OnSide(s)
    /\ handling[s] # NoEvent => handling[s].id \in OnSide(s) /\ handling[s].resolved \in OnSide(s)
    /\ DOMAIN entries[s] \subseteq OnSide(s)

\* The transport's own tables.
LinkTables ==
    /\ \A i \in alive : side[i] # "none" /\ i \notin opening
    /\ \A i \in opening : side[i] = "outgoing"
    /\ current # NoId => side[current] = "outgoing"
    /\ handling["incoming"] # NoEvent => handling["incoming"].resolved = handling["incoming"].id

Alone(s) == s = "incoming" \/ \E i \in Ids : OnSide(s) = {i}

SaysRight(e, i) == e.id = i /\ (e.kind = "closed" <=> i \notin alive)

LastEvent(s, i) ==
    \E k \in 1..Len(events[s]) :
        SaysRight(events[s][k], i) /\ \A j \in k + 1..Len(events[s]) : events[s][j].id # i

NoEventOf(s, i) == \A k \in 1..Len(events[s]) : events[s][k].id # i

ShowsRight(s, i) ==
    i \in DOMAIN entries[s] /\ (entries[s][i].status = "active" <=> i \in alive)

Followed(s, i) ==
    \/ LastEvent(s, i)
    \/ NoEventOf(s, i) /\ SaysRight(handling[s], i)
    \/ NoEventOf(s, i) /\ handling[s].id # i /\ ShowsRight(s, i)

\* Nothing has been heard of a link that was never up.
NeverHeard(s, i) == NoEventOf(s, i) /\ handling[s].id # i /\ i \notin DOMAIN entries[s]

Follows(s) ==
    ~lagged[s] /\ Alone(s) =>
        /\ \A i \in OnSide(s) \ opening : Followed(s, i)
        /\ \A i \in OnSide(s) \cap opening : NeverHeard(s, i)

LogInv == LogTypeOK /\ LinkTables /\ \A s \in LinkSides : Known(s) /\ Follows(s)

LEMMA LogInvInit == LogInit => LogInv
<1> SUFFICES ASSUME LogInit PROVE LogInv
    OBVIOUS
<1>1. LogTypeOK
    BY LogAssumption DEF LogInit, LogTypeOK
<1>2. \A s \in LinkSides : OnSide(s) = {}
    BY DEF LogInit, OnSide, LinkSides
<1>3. LinkTables /\ \A s \in LinkSides : Known(s)
    BY DEF LogInit, LinkTables, Known, LinkSides
<1>4. \A s \in LinkSides : Follows(s)
    BY <1>2 DEF Follows
<1> QED
    BY <1>1, <1>3, <1>4 DEF LogInv

\* What Emit does to one side's queue.
LEMMA EmitIsLast ==
    ASSUME LogTypeOK, NEW s \in LinkSides, NEW i \in Ids, NEW kind \in EventKinds, Emit(s, i, kind)
    PROVE  /\ events' \in [LinkSides -> Seq(Event)]
           /\ lagged' \in [LinkSides -> BOOLEAN]
           /\ \A r \in LinkSides : Len(events'[r]) <= LogCapacity
           /\ \A r \in LinkSides \ {s} : events'[r] = events[r] /\ lagged'[r] = lagged[r]
           /\ \A k \in 1..Len(events'[s]) :
                 events'[s][k].id = i \/ \E j \in 1..Len(events[s]) : events'[s][k] = events[s][j]
           /\ ~lagged'[s] =>
                 /\ ~lagged[s] /\ Len(events'[s]) = Len(events[s]) + 1
                 /\ events'[s][Len(events'[s])] = [id |-> i, kind |-> kind]
                 /\ \A k \in 1..Len(events[s]) : events'[s][k] = events[s][k]
<1> DEFINE e == [id |-> i, kind |-> kind]
           q == events[s]
<1>1. /\ e \in Event /\ e.id = i /\ q \in Seq(Event) /\ Len(q) \in Nat /\ Len(q) <= LogCapacity
      /\ DOMAIN events = LinkSides
      /\ lagged \in [LinkSides -> BOOLEAN] /\ \A r \in LinkSides : events[r] \in Seq(Event)
      /\ \A r \in LinkSides : Len(events[r]) <= LogCapacity
    BY LenProperties DEF LogTypeOK, Event
<1>2. LogCapacity \in Nat \ {0}
    BY LogAssumption
<1>3. CASE Len(q) < LogCapacity
    <2>1. events' = [events EXCEPT ![s] = Append(q, e)] /\ lagged' = lagged
        BY <1>3 DEF Emit
    <2> HIDE DEF e, q
    <2>2. /\ Append(q, e) \in Seq(Event) /\ Len(Append(q, e)) = Len(q) + 1
          /\ \A k \in 1..Len(q) : Append(q, e)[k] = q[k]
          /\ Append(q, e)[Len(q) + 1] = e
        BY <1>1, AppendProperties
    <2> DEFINE t == Append(q, e)
    <2> HIDE DEF t
    <2>3. /\ t \in Seq(Event) /\ Len(t) = Len(q) + 1 /\ t[Len(t)] = e
          /\ \A k \in 1..Len(q) : t[k] = q[k]
          /\ events' = [events EXCEPT ![s] = t]
        BY <2>1, <2>2 DEF t
    <2>4. events' \in [LinkSides -> Seq(Event)] /\ events'[s] = t
          /\ \A r \in LinkSides \ {s} : events'[r] = events[r]
        BY <1>1, <2>3
    <2>5. \A k \in 1..Len(t) : t[k].id = i \/ \E j \in 1..Len(q) : t[k] = q[j]
        <3> SUFFICES ASSUME NEW k \in 1..Len(t) PROVE t[k].id = i \/ \E j \in 1..Len(q) : t[k] = q[j]
            OBVIOUS
        <3>1. CASE k = Len(t)
            BY <1>1, <2>3, <3>1, SMTT(30)
        <3>2. CASE k # Len(t)
            BY <1>1, <2>3, <3>2
        <3> QED
            BY <3>1, <3>2
    <2>6. \A r \in LinkSides : Len(events'[r]) <= LogCapacity
        BY <1>1, <1>2, <1>3, <2>3, <2>4
    <2> QED
        BY <1>1, <2>1, <2>3, <2>4, <2>5, <2>6 DEF e, q
<1>4. CASE ~(Len(q) < LogCapacity)
    <2>1. events' = [events EXCEPT ![s] = Append(Tail(q), e)] /\ lagged' = [lagged EXCEPT ![s] = TRUE]
        BY <1>4 DEF Emit
    <2> HIDE DEF e, q
    <2>2. q # <<>>
        BY <1>1, <1>2, <1>4, EmptySeq
    <2>3. /\ Tail(q) \in Seq(Event) /\ Len(Tail(q)) = Len(q) - 1
          /\ \A k \in 1..Len(Tail(q)) : Tail(q)[k] = q[k + 1]
        BY <1>1, <2>2, HeadTailProperties
    <2> DEFINE t == Append(Tail(q), e)
    <2>4. /\ t \in Seq(Event) /\ Len(t) = Len(q) /\ t[Len(q)] = e
          /\ \A k \in 1..Len(q) - 1 : t[k] = q[k + 1]
        <3>1. /\ t \in Seq(Event) /\ Len(t) = Len(Tail(q)) + 1 /\ t[Len(Tail(q)) + 1] = e
              /\ \A k \in 1..Len(Tail(q)) : t[k] = Tail(q)[k]
            BY <1>1, <2>3, AppendProperties
        <3> HIDE DEF t
        <3> QED
            BY <1>1, <2>3, <3>1
    <2>5. events' = [events EXCEPT ![s] = t]
        BY <2>1
    <2> HIDE DEF t
    <2>6. events' \in [LinkSides -> Seq(Event)] /\ events'[s] = t
          /\ \A r \in LinkSides \ {s} : events'[r] = events[r]
        BY <1>1, <2>4, <2>5
    <2>7. \A k \in 1..Len(t) : t[k].id = i \/ \E j \in 1..Len(q) : t[k] = q[j]
        <3> SUFFICES ASSUME NEW k \in 1..Len(t) PROVE t[k].id = i \/ \E j \in 1..Len(q) : t[k] = q[j]
            OBVIOUS
        <3>1. CASE k = Len(q)
            BY <1>1, <2>4, <3>1
        <3>2. CASE k # Len(q)
            <4>1. k \in 1..Len(q) - 1 /\ k + 1 \in 1..Len(q)
                BY <1>1, <2>4, <3>2
            <4> QED
                BY <2>4, <4>1
        <3> QED
            BY <3>1, <3>2
    <2>8. \A r \in LinkSides : Len(events'[r]) <= LogCapacity
        BY <1>1, <2>4, <2>6
    <2>9. lagged' \in [LinkSides -> BOOLEAN] /\ lagged'[s]
          /\ \A r \in LinkSides \ {s} : lagged'[r] = lagged[r]
        BY <1>1, <2>1
    <2> QED
        BY <2>6, <2>7, <2>8, <2>9 DEF e, q
<1> QED
    BY <1>3, <1>4

\* An event emitted about a link, when that is what has become of it, and the
\* side's other links stay as they were.
LEMMA EmitFollows ==
    ASSUME LogInv, NEW s \in LinkSides, NEW i \in Ids, NEW kind \in EventKinds, Emit(s, i, kind),
           side'[i] = s, \A j \in Ids \ {i} : side'[j] = side[j],
           side[i] \in {"none", s}, opening' = opening \ {i},
           kind = "closed" <=> i \notin alive', \A j \in Ids \ {i} : j \in alive' <=> j \in alive,
           UNCHANGED <<handling, entries>>
    PROVE  \A r \in LinkSides : Known(r)' /\ Follows(r)'
<1>t. /\ LogTypeOK /\ \A r \in LinkSides : Known(r) /\ Follows(r)
      /\ DOMAIN entries = LinkSides /\ LinkTables
    BY DEF LogInv, LogTypeOK
<1>1. TAKE r \in LinkSides
<1>2. /\ \A q \in LinkSides \ {s} : events'[q] = events[q] /\ lagged'[q] = lagged[q]
      /\ \A k \in 1..Len(events'[s]) :
            events'[s][k].id = i \/ \E j \in 1..Len(events[s]) : events'[s][k] = events[s][j]
    BY <1>t, EmitIsLast
<1>3. CASE r # s
    <2>1. OnSide(r)' = OnSide(r) /\ i \notin OnSide(r)
        BY <1>3 DEF OnSide, LinkSides
    <2>2. Known(r)'
        BY <1>t, <1>2, <1>3, <2>1 DEF Known
    <2>3. Alone(r)' = Alone(r)
        BY <2>1 DEF Alone
    <2>4. \A j \in OnSide(r) :
              /\ Followed(r, j) => Followed(r, j)'
              /\ NeverHeard(r, j) => NeverHeard(r, j)'
              /\ j \in opening' <=> j \in opening
        <3> SUFFICES ASSUME NEW j \in OnSide(r)
                     PROVE  /\ Followed(r, j) => Followed(r, j)'
                            /\ NeverHeard(r, j) => NeverHeard(r, j)'
                            /\ j \in opening' <=> j \in opening
            OBVIOUS
        <3>1. j \in Ids \ {i}
            BY <2>1 DEF OnSide
        <3>2. events'[r] = events[r] /\ handling' = handling /\ entries' = entries
              /\ (j \in alive' <=> j \in alive)
            BY <1>2, <1>3, <3>1
        <3>3. Followed(r, j) => Followed(r, j)'
            BY <3>2 DEF Followed, LastEvent, NoEventOf, SaysRight, ShowsRight
        <3>4. NeverHeard(r, j) => NeverHeard(r, j)'
            BY <3>2 DEF NeverHeard, NoEventOf
        <3> QED
            BY <3>1, <3>3, <3>4
    <2> QED
        BY <1>t, <1>2, <1>3, <2>1, <2>2, <2>3, <2>4 DEF Follows
<1>4. CASE r = s
    <2>1. OnSide(s)' = OnSide(s) \cup {i}
        BY DEF OnSide
    <2>2. Known(s)'
        BY <1>t, <1>2, <2>1 DEF Known
    <2>3. ASSUME ~lagged'[s], Alone(s)', NEW j \in OnSide(s)' PROVE Followed(s, j)' /\ j \notin opening'
        <3> DEFINE q == events[s]
                   t == events'[s]
        <3>1. /\ ~lagged[s] /\ Len(t) = Len(q) + 1
              /\ t[Len(t)] = [id |-> i, kind |-> kind]
              /\ \A k \in 1..Len(q) : t[k] = q[k]
            BY <1>t, <2>3, EmitIsLast
        <3>2. Len(q) \in Nat
            BY <1>t, LenProperties DEF LogTypeOK
        <3> HIDE DEF q, t
        <3>3. CASE j = i
            <4>1. Len(t) \in 1..Len(t) /\ \A k \in Len(t) + 1..Len(t) : t[k].id # i
                BY <3>1, <3>2
            <4>2. t[Len(t)].id = i /\ (t[Len(t)].kind = "closed" <=> i \notin alive')
                BY <3>1
            <4>3. LastEvent(s, i)'
                BY <4>1, <4>2 DEF LastEvent, SaysRight, t
            <4> QED
                BY <3>3, <4>3 DEF Followed
        <3>4. CASE j # i
            <4>1. j \in OnSide(s) /\ j \in Ids \ {i} /\ (j \in alive' <=> j \in alive)
                BY <2>1, <2>3, <3>4 DEF OnSide
            <4>2. s = "incoming"
                BY <2>1, <2>3, <4>1 DEF Alone
            <4>u. j \notin opening
                BY <1>t, <4>1, <4>2 DEF LinkTables, OnSide
            <4>3. Followed(s, j)
                BY <1>t, <3>1, <4>1, <4>2, <4>u DEF Follows, Alone
            <4>4. \A k \in 1..Len(t) : k \in 1..Len(q) \/ (k = Len(t) /\ t[k].id # j)
                BY <3>1, <3>2, <3>4
            <4>5. LastEvent(s, j) => LastEvent(s, j)'
                BY <3>1, <3>2, <4>1, <4>4, SMTT(30) DEF LastEvent, SaysRight, q, t
            <4>6. NoEventOf(s, j) => NoEventOf(s, j)'
                BY <3>1, <3>2, <4>4 DEF NoEventOf, q, t
            <4>7. /\ SaysRight(handling[s], j) => SaysRight(handling[s], j)'
                  /\ ShowsRight(s, j) => ShowsRight(s, j)'
                BY <4>1 DEF SaysRight, ShowsRight
            <4> QED
                BY <4>3, <4>5, <4>6, <4>7, <4>u DEF Followed
        <3> QED
            BY <3>3, <3>4
    <2> QED
        BY <1>4, <2>2, <2>3 DEF Follows
<1> QED
    BY <1>3, <1>4

LEMMA LogInvNext == LogInv /\ [LogNext]_logVars => LogInv'
<1> SUFFICES ASSUME LogInv, [LogNext]_logVars PROVE LogInv'
    OBVIOUS
<1>t. /\ LogTypeOK /\ LinkTables /\ \A s \in LinkSides : Known(s) /\ Follows(s)
    BY DEF LogInv
<1>u. /\ side \in [Ids -> LinkSides \cup {"none"}] /\ alive \subseteq Ids
      /\ opening \subseteq Ids /\ current \in Ids \cup {NoId}
      /\ EntryTables /\ EventQueues /\ DOMAIN events = LinkSides /\ DOMAIN entries = LinkSides
      /\ handling \in [LinkSides -> {NoEvent} \cup Handled]
      /\ dataSent \in [LinkSides -> 0..MaxData] /\ lagged \in [LinkSides -> BOOLEAN]
    BY <1>t DEF LogTypeOK, EntryTables, EventQueues
<1>a. NoId \notin Ids /\ MaxData \in Nat
    BY LogAssumption
<1>1. ASSUME NEW i \in Ids, NEW s \in LinkSides, LinkUp(s, i) PROVE LogInv'
    <2>0. /\ IF s = "incoming" THEN side[i] = "none" ELSE i \in opening /\ i = current
          /\ side' = [side EXCEPT ![i] = s] /\ alive' = alive \cup {i}
          /\ opening' = opening \ {i}
          /\ Emit(s, i, "activated") /\ UNCHANGED <<current, handling, entries, dataSent>>
        BY <1>1 DEF LinkUp
    <2>1. /\ side[i] \in {"none", s} /\ side' = [side EXCEPT ![i] = s] /\ alive' = alive \cup {i}
          /\ opening' = opening \ {i}
          /\ Emit(s, i, "activated") /\ UNCHANGED <<current, handling, entries, dataSent>>
        BY <1>t, <2>0 DEF LinkTables, LinkSides
    <2>2. side'[i] = s /\ \A j \in Ids \ {i} : side'[j] = side[j]
        BY <1>u, <2>1
    <2>3. \A r \in LinkSides : Known(r)' /\ Follows(r)'
        BY <2>1, <2>2, EmitFollows DEF EventKinds
    <2>4. LinkTables'
        BY <1>t, <1>a, <1>u, <2>0, <2>2 DEF LinkTables, LinkSides
    <2>5. /\ events' \in [LinkSides -> Seq(Event)] /\ lagged' \in [LinkSides -> BOOLEAN]
          /\ \A r \in LinkSides : Len(events'[r]) <= LogCapacity
        BY <1>t, <2>1, EmitIsLast DEF EventKinds
    <2>6. LogTypeOK'
        BY <1>u, <2>1, <2>5 DEF LogTypeOK, EntryTables
    <2> QED
        BY <2>3, <2>4, <2>6 DEF LogInv
<1>2. ASSUME NEW i \in Ids, LinkData(i) PROVE LogInv'
    <2> DEFINE s == side[i]
    <2>1. /\ i \in alive /\ dataSent[s] < MaxData /\ dataSent' = [dataSent EXCEPT ![s] = @ + 1]
          /\ Emit(s, i, "data") /\ UNCHANGED <<side, opening, alive, current, handling, entries>>
        BY <1>2 DEF LinkData
    <2>2. s \in LinkSides
        BY <1>t, <1>u, <2>1 DEF LinkTables
    <2>3. \A r \in LinkSides : Known(r)' /\ Follows(r)'
        <3>1. side'[i] = s /\ s \in {"none", s} /\ ("data" = "closed" <=> i \notin alive')
              /\ opening' = opening \ {i}
            BY <1>t, <2>1 DEF LinkTables
        <3> HIDE DEF s
        <3> QED
            BY <2>1, <2>2, <3>1, EmitFollows DEF EventKinds, s
    <2> HIDE DEF s
    <2>4. LinkTables'
        BY <1>t, <2>1 DEF LinkTables
    <2>5. /\ events' \in [LinkSides -> Seq(Event)] /\ lagged' \in [LinkSides -> BOOLEAN]
          /\ \A r \in LinkSides : Len(events'[r]) <= LogCapacity
        BY <1>t, <2>1, <2>2, EmitIsLast DEF EventKinds
    <2>6. dataSent' \in [LinkSides -> 0..MaxData]
        BY <1>a, <1>u, <2>1, <2>2
    <2>7. LogTypeOK'
        BY <1>u, <2>1, <2>5, <2>6 DEF LogTypeOK, EntryTables
    <2> QED
        BY <2>3, <2>4, <2>7 DEF LogInv
<1>3. ASSUME NEW i \in Ids, LinkDown(i) PROVE LogInv'
    <2> DEFINE s == side[i]
    <2>1. /\ i \in alive /\ alive' = alive \ {i}
          /\ Emit(s, i, "closed") /\ UNCHANGED <<side, opening, current, handling, entries, dataSent>>
        BY <1>3 DEF LinkDown
    <2>2. s \in LinkSides
        BY <1>t, <1>u, <2>1 DEF LinkTables
    <2>3. \A r \in LinkSides : Known(r)' /\ Follows(r)'
        <3>1. side'[i] = s /\ s \in {"none", s} /\ ("closed" = "closed" <=> i \notin alive')
              /\ opening' = opening \ {i}
            BY <1>t, <2>1 DEF LinkTables
        <3>2. \A j \in Ids \ {i} : j \in alive' <=> j \in alive
            BY <2>1
        <3> HIDE DEF s
        <3> QED
            BY <2>1, <2>2, <3>1, <3>2, EmitFollows DEF EventKinds, s
    <2> HIDE DEF s
    <2>4. LinkTables'
        BY <1>t, <2>1 DEF LinkTables
    <2>5. /\ events' \in [LinkSides -> Seq(Event)] /\ lagged' \in [LinkSides -> BOOLEAN]
          /\ \A r \in LinkSides : Len(events'[r]) <= LogCapacity
        BY <1>t, <2>1, <2>2, EmitIsLast DEF EventKinds
    <2>6. LogTypeOK'
        BY <1>u, <2>1, <2>5 DEF LogTypeOK, EntryTables
    <2> QED
        BY <2>3, <2>4, <2>6 DEF LogInv
<1>4. ASSUME NEW s \in LinkSides, ResolveLink(s) PROVE LogInv'
    <2> DEFINE q == events[s]
               e == Head(q)
               h == [id |-> e.id, kind |-> e.kind, resolved |-> Found(s, e.id)]
               t == Tail(q)
    <2>1. /\ handling[s] = NoEvent /\ q # <<>> /\ handling' = [handling EXCEPT ![s] = h]
          /\ events' = [events EXCEPT ![s] = t]
          /\ UNCHANGED <<side, opening, alive, current, entries, dataSent, lagged>>
        BY <1>4 DEF ResolveLink
    <2>2. q \in Seq(Event) /\ Len(q) \in Nat /\ Len(q) <= LogCapacity
        BY <1>u, LenProperties DEF EventQueues
    <2>3. /\ e = q[1] /\ e \in Event /\ t \in Seq(Event) /\ Len(t) = Len(q) - 1 /\ Len(q) > 0
          /\ \A k \in 1..Len(t) : t[k] = q[k + 1]
        BY <2>1, <2>2, HeadTailProperties, EmptySeq
    <2>4. e.id \in OnSide(s) /\ e.kind \in EventKinds
        <3>1. q[1].id \in OnSide(s)
            BY <1>t, <2>2, <2>3 DEF Known
        <3> HIDE DEF e, q, t
        <3> QED
            BY <2>3, <3>1 DEF Event
    <2> HIDE DEF e, t
    <2>5. Found(s, e.id) \in OnSide(s) /\ (s = "incoming" => Found(s, e.id) = e.id)
        BY <1>t, <1>u, <2>4 DEF Found, LinkTables, OnSide
    <2>6. h \in Handled /\ h # NoEvent /\ h.id = e.id /\ h.kind = e.kind /\ h.resolved \in OnSide(s)
        BY <1>a, <2>4, <2>5 DEF Handled, NoEvent, OnSide
    <2>7. /\ handling' \in [LinkSides -> {NoEvent} \cup Handled] /\ handling'[s] = h
          /\ \A r \in LinkSides \ {s} : handling'[r] = handling[r] /\ events'[r] = events[r]
          /\ events'[s] = t /\ DOMAIN events' = LinkSides
        <3> HIDE DEF h, q
        <3> QED
            BY <1>u, <2>1, <2>6
    <2>8. LogTypeOK'
        <3>1. EventQueues'
            <4>1. t \in Seq(Event) /\ Len(t) <= LogCapacity
                BY <2>2, <2>3, LogAssumption
            <4> HIDE DEF h, q
            <4> QED
                BY <1>u, <2>7, <4>1 DEF EventQueues
        <3> QED
            BY <1>u, <2>1, <2>7, <3>1 DEF LogTypeOK, EntryTables, EventQueues
    <2>9. LinkTables'
        BY <1>t, <2>1, <2>5, <2>6, <2>7 DEF LinkTables
    <2> HIDE DEF h, q
    <2>10. ASSUME NEW r \in LinkSides PROVE Known(r)'
        <3>1. OnSide(r)' = OnSide(r) /\ entries' = entries
            BY <2>1 DEF OnSide
        <3>2. \A k \in 1..Len(t) : k + 1 \in 1..Len(q) /\ t[k] = q[k + 1]
            BY <2>2, <2>3
        <3>3. CASE r = s
            BY <1>t, <2>4, <2>6, <2>7, <3>1, <3>2, <3>3 DEF Known, q
        <3>4. CASE r # s
            BY <1>t, <2>7, <3>1, <3>4 DEF Known
        <3> QED
            BY <3>3, <3>4
    <2>u. ASSUME NEW r \in LinkSides, ~lagged[r], Alone(r), NEW i \in OnSide(r) \cap opening
          PROVE  NeverHeard(r, i)'
        <3>1. NeverHeard(r, i) /\ OnSide(r) = {i}
            BY <1>t, <2>u DEF Follows, OnSide, Alone, LinkTables
        <3>2. r # s
            <4>1. SUFFICES ASSUME r = s PROVE FALSE
                OBVIOUS
            <4>2. e.id = i /\ 1 \in 1..Len(q) /\ e = q[1]
                BY <2>2, <2>3, <2>4, <3>1, <4>1
            <4> QED
                BY <3>1, <4>1, <4>2 DEF NeverHeard, NoEventOf, q
        <3> QED
            BY <2>1, <2>7, <3>1, <3>2 DEF NeverHeard, NoEventOf
    <2>11. ASSUME NEW r \in LinkSides, ~lagged[r], Alone(r), NEW i \in OnSide(r) \ opening
           PROVE  Followed(r, i)'
        <3>1. Followed(r, i) /\ i \in Ids
            BY <1>t, <2>11 DEF Follows, OnSide
        <3>2. UNCHANGED <<alive, entries>>
            BY <2>1
        <3>3. CASE r # s
            <4>1. events'[r] = events[r] /\ handling'[r] = handling[r]
                BY <2>7, <3>3
            <4> QED
                BY <3>1, <3>2, <4>1 DEF Followed, LastEvent, NoEventOf, SaysRight, ShowsRight
        <3>4. CASE r = s /\ NoEventOf(s, i)
            <4>1. \A k \in 1..Len(q) : q[k].id # i
                BY <3>4 DEF NoEventOf, q
            <4>2. \A k \in 1..Len(t) : k + 1 \in 1..Len(q) /\ t[k] = q[k + 1]
                BY <2>2, <2>3
            <4>3. \A k \in 1..Len(t) : t[k].id # i
                BY <4>1, <4>2
            <4>4. NoEventOf(s, i)'
                BY <2>7, <4>3 DEF NoEventOf
            <4>5. e.id # i
                BY <2>2, <2>3, <4>1
            <4>6. ShowsRight(s, i)
                BY <1>a, <2>1, <3>1, <3>4 DEF Followed, LastEvent, NoEventOf, SaysRight, NoEvent
            <4> QED
                BY <2>6, <2>7, <3>2, <3>4, <4>4, <4>5, <4>6 DEF Followed, ShowsRight
        <3>5. CASE r = s /\ ~NoEventOf(s, i)
            <4>1. PICK k \in 1..Len(q) :
                    SaysRight(q[k], i) /\ \A j \in k + 1..Len(q) : q[j].id # i
                BY <3>1, <3>5 DEF Followed, LastEvent, q
            <4>2. CASE k = 1
                <5>1. \A j \in 1..Len(t) : t[j].id # i
                    BY <2>2, <2>3, <4>1, <4>2
                <5>2. h.id = i /\ (h.kind = "closed" <=> i \notin alive')
                    BY <2>3, <2>6, <3>2, <4>1, <4>2 DEF SaysRight
                <5>3. NoEventOf(s, i)' /\ SaysRight(handling[s], i)'
                    BY <2>7, <5>1, <5>2 DEF NoEventOf, SaysRight
                <5> QED
                    BY <3>5, <5>3 DEF Followed
            <4>3. CASE k # 1
                <5>1. k - 1 \in 1..Len(t) /\ t[k - 1] = q[k]
                    BY <2>2, <2>3, <4>3
                <5>2. \A j \in (k - 1) + 1..Len(t) : t[j].id # i
                    BY <2>2, <2>3, <4>1, <4>3
                <5>3. LastEvent(s, i)'
                    BY <2>7, <3>2, <4>1, <5>1, <5>2 DEF LastEvent, SaysRight
                <5> QED
                    BY <3>5, <5>3 DEF Followed
            <4> QED
                BY <4>2, <4>3
        <3> QED
            BY <3>3, <3>4, <3>5
    <2>12. ASSUME NEW r \in LinkSides PROVE Follows(r)'
        BY <2>1, <2>u, <2>11 DEF Follows, Alone, OnSide
    <2> QED
        BY <2>8, <2>9, <2>10, <2>12 DEF LogInv
<1>5. ASSUME NEW s \in LinkSides, Record(s) PROVE LogInv'
    <2> DEFINE t == handling[s]
               n == PacketsSoFar(s, t.resolved) + (IF t.kind = "data" THEN 1 ELSE 0)
               new == [status |-> StatusOf(t.kind), packets |-> n]
               f == [i \in DOMAIN entries[s] \cup {t.resolved} |->
                       IF i = t.resolved THEN new ELSE entries[s][i]]
    <2>1. /\ t # NoEvent /\ entries' = [entries EXCEPT ![s] = f]
          /\ handling' = [handling EXCEPT ![s] = NoEvent]
          /\ UNCHANGED <<side, opening, alive, current, events, dataSent, lagged>>
        BY <1>5 DEF Record
    <2>2. /\ t \in Handled /\ t.id \in OnSide(s) /\ t.resolved \in OnSide(s)
          /\ t.id \in Ids /\ t.resolved \in Ids /\ t.kind \in EventKinds
        <3>1. t \in Handled
            BY <1>u, <2>1
        <3> QED
            BY <1>t, <2>1, <3>1 DEF Known, Handled
    <2>3. n \in Nat
        <3>1. PacketsSoFar(s, t.resolved) \in Nat
            BY <1>u DEF PacketsSoFar, EntryTables, Entry
        <3> QED
            BY <3>1
    <2>4. new \in Entry /\ new.status = StatusOf(t.kind)
        <3> HIDE DEF n
        <3> QED
            BY <2>3 DEF Entry, StatusOf
    <2> HIDE DEF n, new
    <2>5. /\ DOMAIN f = DOMAIN entries[s] \cup {t.resolved} /\ f[t.resolved] = new
          /\ \A i \in DOMAIN entries[s] : i # t.resolved => f[i] = entries[s][i]
        OBVIOUS
    <2> HIDE DEF f
    <2>6. /\ entries'[s] = f /\ DOMAIN entries' = LinkSides /\ handling'[s] = NoEvent
          /\ handling' \in [LinkSides -> {NoEvent} \cup Handled]
          /\ \A r \in LinkSides \ {s} : handling'[r] = handling[r] /\ entries'[r] = entries[r]
        <3> HIDE DEF t
        <3> QED
            BY <1>u, <2>1
    <2> HIDE DEF t
    <2>7. LogTypeOK'
        <3>1. ASSUME NEW r \in LinkSides
              PROVE  /\ DOMAIN entries'[r] \subseteq Ids
                     /\ \A i \in DOMAIN entries'[r] : entries'[r][i] \in Entry
            BY <1>u, <2>2, <2>4, <2>5, <2>6 DEF EntryTables
        <3> QED
            BY <1>u, <2>1, <2>6, <3>1 DEF LogTypeOK, EventQueues
    <2>8. LinkTables'
        BY <1>t, <2>1, <2>6 DEF LinkTables, LinkSides
    <2>9. ASSUME NEW r \in LinkSides PROVE Known(r)'
        <3>1. OnSide(r)' = OnSide(r) /\ events' = events
            BY <2>1 DEF OnSide
        <3>2. DOMAIN entries'[r] \subseteq OnSide(r)
            BY <1>t, <2>2, <2>5, <2>6 DEF Known
        <3> QED
            BY <1>t, <2>6, <3>1, <3>2 DEF Known
    <2>u. ASSUME NEW r \in LinkSides, ~lagged[r], Alone(r), NEW i \in OnSide(r) \cap opening
          PROVE  NeverHeard(r, i)'
        <3>1. NeverHeard(r, i) /\ OnSide(r) = {i}
            BY <1>t, <2>u DEF Follows, OnSide, Alone, LinkTables
        <3>2. r # s
            BY <2>2, <3>1 DEF NeverHeard, t
        <3> QED
            BY <2>1, <2>6, <3>1, <3>2 DEF NeverHeard, NoEventOf
    <2>10. ASSUME NEW r \in LinkSides, ~lagged[r], Alone(r), NEW i \in OnSide(r) \ opening
           PROVE  Followed(r, i)'
        <3>1. Followed(r, i) /\ i \in Ids
            BY <1>t, <2>10 DEF Follows, OnSide
        <3>2. UNCHANGED <<alive, events>>
            BY <2>1
        <3>3. (LastEvent(r, i) => LastEvent(r, i)') /\ (NoEventOf(r, i) => NoEventOf(r, i)')
            BY <3>2 DEF LastEvent, NoEventOf, SaysRight
        <3>4. CASE r # s
            <4>1. entries'[r] = entries[r] /\ handling'[r] = handling[r]
                BY <2>6, <3>4
            <4> QED
                BY <3>1, <3>2, <3>3, <4>1 DEF Followed, SaysRight, ShowsRight
        <3>5. CASE r = s
            <4>1. t.resolved = t.id
                BY <1>t, <2>1, <2>2, <2>10, <3>5 DEF Alone, LinkTables, t
            <4>2. handling'[s].id # i
                BY <1>a, <2>6, <3>1 DEF NoEvent
            <4>3. CASE SaysRight(t, i)
                <5>1. t.id = i /\ (new.status = "active" <=> i \in alive')
                    BY <2>4, <3>2, <4>3 DEF SaysRight, StatusOf
                <5>2. ShowsRight(s, i)'
                    BY <2>5, <2>6, <4>1, <5>1 DEF ShowsRight
                <5> QED
                    BY <3>1, <3>3, <3>5, <4>2, <5>2 DEF Followed
            <4>4. CASE t.id # i /\ ShowsRight(s, i)
                <5>1. ShowsRight(s, i)'
                    BY <2>5, <2>6, <3>2, <4>1, <4>4 DEF ShowsRight
                <5> QED
                    BY <3>1, <3>3, <3>5, <4>2, <5>1 DEF Followed
            <4> QED
                BY <3>1, <3>3, <3>5, <4>3, <4>4 DEF Followed, t
        <3> QED
            BY <3>4, <3>5
    <2>11. ASSUME NEW r \in LinkSides PROVE Follows(r)'
        BY <2>1, <2>u, <2>10 DEF Follows, Alone, OnSide
    <2> QED
        BY <2>7, <2>8, <2>9, <2>11 DEF LogInv
<1>6. CASE UNCHANGED logVars
    <2>1. UNCHANGED <<side, opening, alive, current, events, handling, entries, dataSent, lagged>>
        BY <1>6 DEF logVars
    <2>2. LogTypeOK' /\ LinkTables'
        BY <1>t, <2>1 DEF LogTypeOK, LinkTables
    <2>3. ASSUME NEW s \in LinkSides PROVE Known(s)' /\ Follows(s)'
        BY <1>t, <2>1 DEF Known, Follows, OnSide, Alone, Followed, LastEvent, NoEventOf, SaysRight,
                          ShowsRight, NeverHeard
    <2> QED
        BY <2>2, <2>3 DEF LogInv
<1>7. ASSUME NEW i \in Ids, LinkRequested(i) PROVE LogInv'
    <2>1. /\ side[i] = "none" /\ side' = [side EXCEPT ![i] = "outgoing"]
          /\ opening' = opening \cup {i} /\ current' = i
          /\ UNCHANGED <<alive, events, handling, entries, dataSent, lagged>>
        BY <1>7 DEF LinkRequested
    <2>2. side'[i] = "outgoing" /\ \A j \in Ids \ {i} : side'[j] = side[j]
        BY <1>u, <2>1
    <2>3. LogTypeOK'
        BY <1>u, <2>1 DEF LogTypeOK, EntryTables, EventQueues, LinkSides
    <2>4. LinkTables'
        BY <1>t, <1>u, <2>1, <2>2 DEF LinkTables
    <2>5. /\ OnSide("incoming")' = OnSide("incoming")
          /\ OnSide("outgoing")' = OnSide("outgoing") \cup {i} /\ i \notin OnSide("outgoing")
        BY <2>1, <2>2 DEF OnSide
    <2>6. ASSUME NEW s \in LinkSides PROVE Known(s)'
        BY <1>t, <2>1, <2>5 DEF Known, LinkSides
    <2>7. Follows("incoming")'
        <3>1. Follows("incoming")
            BY <1>t DEF LinkSides
        <3>2. \A j \in OnSide("incoming") : j \notin opening /\ j \notin opening'
            BY <1>t, <2>1 DEF LinkTables, OnSide
        <3>3. \A j \in OnSide("incoming") : Followed("incoming", j) => Followed("incoming", j)'
            BY <2>1 DEF Followed, LastEvent, NoEventOf, SaysRight, ShowsRight
        <3> QED
            BY <2>1, <2>5, <3>1, <3>2, <3>3 DEF Follows, Alone
    <2>8. Follows("outgoing")'
        <3> SUFFICES ASSUME Alone("outgoing")'
                     PROVE  \A j \in OnSide("outgoing")' : j \in opening' /\ NeverHeard("outgoing", j)'
            BY DEF Follows
        <3>1. OnSide("outgoing") = {} /\ OnSide("outgoing")' = {i}
            BY <2>5 DEF Alone
        <3>2. Known("outgoing")
            BY <1>t DEF LinkSides
        <3>3. NeverHeard("outgoing", i)
            BY <1>a, <3>1, <3>2 DEF Known, NeverHeard, NoEventOf, NoEvent
        <3> QED
            BY <2>1, <3>1, <3>3 DEF NeverHeard, NoEventOf
    <2> QED
        BY <2>3, <2>4, <2>6, <2>7, <2>8 DEF LogInv, LinkSides
<1> QED
    BY <1>1, <1>2, <1>3, <1>4, <1>5, <1>6, <1>7 DEF LogNext

\* Once a task of the gateway has recorded every event of its channel and the
\* channel dropped none, the log shows each link as the transport has it, for any
\* number of links, peers and any capacity of the channel (gateway_reticulum.rs,
\* handle_link_event and resolve_link_snapshot).
THEOREM LinksAreShown == LogSpec => []LinksShown
<1>1. LogInv => LinksShown
    <2> SUFFICES ASSUME LogInv, NEW s \in LinkSides, AtRest(s), ~lagged[s], Alone(s)
                 PROVE  /\ DOMAIN entries[s] = OnSide(s) \ opening
                        /\ \A i \in OnSide(s) \ opening :
                              entries[s][i].status = "active" <=> i \in alive
        BY DEF LinksShown, Alone
    <2>1. \A i \in OnSide(s) \ opening : ShowsRight(s, i)
        <3> SUFFICES ASSUME NEW i \in OnSide(s) \ opening PROVE ShowsRight(s, i)
            OBVIOUS
        <3>1. Followed(s, i) /\ i # NoId
            BY LogAssumption DEF LogInv, Follows, OnSide
        <3>2. Len(events[s]) = 0 /\ handling[s].id = NoId
            BY DEF AtRest, NoEvent
        <3> QED
            BY <3>1, <3>2 DEF Followed, LastEvent, SaysRight
    <2>2. \A i \in OnSide(s) \cap opening : i \notin DOMAIN entries[s]
        BY DEF LogInv, Follows, NeverHeard
    <2> QED
        BY <2>1, <2>2 DEF LogInv, Known, ShowsRight
<1> QED
    BY <1>1, LogInvInit, LogInvNext, PTL DEF LogSpec

-----------------------------------------------------------------------------
(* The event log: packets.  While the channel has dropped nothing, every   *)
(* data event is counted, in hand or in the queue.                         *)

\* Data events of a queue, the one in hand, and the packets a side's table counts.
DataIn(q) == {k \in 1..Len(q) : q[k].kind = "data"}
InHand(s) == IF handling[s].kind = "data" THEN 1 ELSE 0
PacketsOf(s) == [i \in DOMAIN entries[s] |-> entries[s][i].packets]

Counts(s) ==
    ~lagged[s] => Tally(PacketsOf(s)) + Cardinality(DataIn(events[s])) + InHand(s) = dataSent[s]

LEMMA DataInQueue ==
    ASSUME NEW q \in Seq(Event)
    PROVE  IsFiniteSet(DataIn(q)) /\ Cardinality(DataIn(q)) \in Nat
<1>1. Len(q) \in Nat
    BY LenProperties
<1>2. IsFiniteSet(1..Len(q)) /\ DataIn(q) \subseteq 1..Len(q)
    BY <1>1, FS_Interval DEF DataIn
<1> QED
    BY <1>2, FS_Subset, FS_CardinalityType

LEMMA DataInLonger ==
    ASSUME NEW q \in Seq(Event), NEW t \in Seq(Event), Len(t) = Len(q) + 1,
           \A k \in 1..Len(q) : t[k] = q[k]
    PROVE  Cardinality(DataIn(t)) =
               Cardinality(DataIn(q)) + (IF t[Len(t)].kind = "data" THEN 1 ELSE 0)
<1>1. Len(q) \in Nat /\ Len(t) \in Nat
    BY LenProperties
<1>2. Len(t) \notin DataIn(q)
    BY <1>1 DEF DataIn
<1>3. CASE t[Len(t)].kind = "data"
    <2>1. DataIn(t) = DataIn(q) \cup {Len(t)}
        BY <1>1, <1>3 DEF DataIn
    <2> QED
        BY <1>2, <1>3, <2>1, DataInQueue, FS_AddElement
<1>4. CASE t[Len(t)].kind # "data"
    <2>1. DataIn(t) = DataIn(q)
        BY <1>1, <1>4 DEF DataIn
    <2> QED
        BY <1>4, <2>1, DataInQueue
<1> QED
    BY <1>3, <1>4

LEMMA DataInRest ==
    ASSUME NEW q \in Seq(Event), NEW t \in Seq(Event), Len(q) > 0, Len(t) = Len(q) - 1,
           \A k \in 1..Len(t) : t[k] = q[k + 1]
    PROVE  Cardinality(DataIn(q)) =
               Cardinality(DataIn(t)) + (IF q[1].kind = "data" THEN 1 ELSE 0)
<1>1. Len(q) \in Nat /\ Len(t) \in Nat
    BY LenProperties
<1> DEFINE rest == DataIn(q) \ {1}
           next == [k \in DataIn(t) |-> k + 1]
<1>2. \A k : k \in DataIn(t) <=> k \in 1..Len(t) /\ q[k + 1].kind = "data"
    BY DEF DataIn
<1>3. \A k : k \in rest <=> k \in 2..Len(q) /\ q[k].kind = "data"
    BY <1>1 DEF DataIn
<1>4. \A k \in rest : k - 1 \in DataIn(t) /\ (k - 1) + 1 = k
    <2> SUFFICES ASSUME NEW k \in rest PROVE k - 1 \in DataIn(t) /\ (k - 1) + 1 = k
        OBVIOUS
    <2>1. k \in 2..Len(q) /\ q[k].kind = "data"
        BY <1>3
    <2>2. k - 1 \in 1..Len(t) /\ (k - 1) + 1 = k
        BY <1>1, <2>1
    <2> QED
        BY <1>2, <2>1, <2>2
<1>5. \A k \in DataIn(t) : k + 1 \in rest /\ k \in Nat
    BY <1>1, <1>2, <1>3
<1> HIDE DEF rest
<1>6. next \in Bijection(DataIn(t), rest)
    <2>1. next \in [DataIn(t) -> rest] /\ \A k \in DataIn(t) : next[k] = k + 1
        BY <1>5
    <2> HIDE DEF next
    <2>2. \A j, k \in DataIn(t) : next[j] = next[k] => j = k
        BY <1>5, <2>1
    <2>3. \A k \in rest : \E j \in DataIn(t) : next[j] = k
        BY <1>4, <2>1
    <2> QED
        BY <2>1, <2>2, <2>3 DEF Bijection, Injection, Surjection, IsInjective
<1>7. Cardinality(rest) = Cardinality(DataIn(t))
    BY <1>6, DataInQueue, FS_Bijection DEF ExistsBijection
<1>8. Cardinality(rest) = IF 1 \in DataIn(q) THEN Cardinality(DataIn(q)) - 1 ELSE Cardinality(DataIn(q))
    BY DataInQueue, FS_RemoveElement DEF rest
<1>9. 1 \in DataIn(q) <=> q[1].kind = "data"
    BY <1>1 DEF DataIn
<1> QED
    BY <1>7, <1>8, <1>9, DataInQueue

LEMMA PacketsType ==
    ASSUME LogTypeOK, NEW s \in LinkSides
    PROVE  /\ IsFiniteSet(DOMAIN entries[s])
           /\ PacketsOf(s) \in [DOMAIN entries[s] -> Nat] /\ Tally(PacketsOf(s)) \in Nat
<1>1. IsFiniteSet(Ids) /\ DOMAIN entries[s] \subseteq Ids
    BY LogAssumption DEF LogTypeOK
<1>2. IsFiniteSet(DOMAIN entries[s])
    BY <1>1, FS_Subset
<1>3. PacketsOf(s) \in [DOMAIN entries[s] -> Nat]
    BY DEF PacketsOf, LogTypeOK, Entry
<1> QED
    BY <1>2, <1>3, TallyType

\* An event about link i is emitted on a side: it counts when it is data.
LEMMA EmitCounts ==
    ASSUME LogTypeOK, NEW s \in LinkSides, NEW i \in Ids, NEW kind \in EventKinds, Emit(s, i, kind),
           \A r \in LinkSides : Counts(r), UNCHANGED <<handling, entries>>,
           \A r \in LinkSides :
               dataSent'[r] = dataSent[r] + (IF r = s /\ kind = "data" THEN 1 ELSE 0)
    PROVE  \A r \in LinkSides : Counts(r)'
<1>1. TAKE r \in LinkSides
<1>2. Tally(PacketsOf(r))' = Tally(PacketsOf(r)) /\ InHand(r)' = InHand(r)
    BY DEF PacketsOf, InHand
<1>3. /\ events[r] \in Seq(Event) /\ events'[r] \in Seq(Event) /\ dataSent[r] \in Nat
      /\ Tally(PacketsOf(r)) \in Nat /\ InHand(r) \in Nat
      /\ Cardinality(DataIn(events[r])) \in Nat
    <2>1. events[r] \in Seq(Event) /\ events'[r] \in Seq(Event) /\ dataSent[r] \in Nat
        <3>1. events'[r] \in Seq(Event)
            BY EmitIsLast
        <3>2. dataSent[r] \in 0..MaxData /\ events[r] \in Seq(Event)
            BY DEF LogTypeOK
        <3> QED
            BY <3>1, <3>2
    <2> QED
        BY <2>1, PacketsType, DataInQueue DEF InHand
<1>4. CASE r # s
    <2>1. events'[r] = events[r] /\ lagged'[r] = lagged[r]
        BY <1>4, EmitIsLast
    <2>2. dataSent'[r] = dataSent[r]
        BY <1>3, <1>4
    <2> QED
        BY <1>2, <2>1, <2>2 DEF Counts
<1>5. CASE r = s
    <2> SUFFICES ASSUME ~lagged'[r]
                 PROVE  Tally(PacketsOf(r))' + Cardinality(DataIn(events'[r])) + InHand(r)' = dataSent'[r]
        BY DEF Counts
    <2> DEFINE q == events[r]
               t == events'[r]
    <2>0. ~lagged'[s]
        BY <1>5
    <2>e. /\ ~lagged[s] /\ Len(events'[s]) = Len(events[s]) + 1
          /\ events'[s][Len(events'[s])] = [id |-> i, kind |-> kind]
          /\ \A k \in 1..Len(events[s]) : events'[s][k] = events[s][k]
        BY <2>0, EmitIsLast
    <2>1. /\ ~lagged[r] /\ Len(t) = Len(q) + 1 /\ t[Len(t)].kind = kind
          /\ \A k \in 1..Len(q) : t[k] = q[k]
        BY <1>5, <2>e
    <2>2. Cardinality(DataIn(t)) = Cardinality(DataIn(q)) + (IF kind = "data" THEN 1 ELSE 0)
        <3> HIDE DEF q, t
        <3>1. q \in Seq(Event) /\ t \in Seq(Event)
            BY <1>3 DEF q, t
        <3>2. Cardinality(DataIn(t)) = Cardinality(DataIn(q)) + (IF t[Len(t)].kind = "data" THEN 1 ELSE 0)
            BY <2>1, <3>1, DataInLonger
        <3> QED
            BY <2>1, <3>2
    <2>3. Tally(PacketsOf(r)) + Cardinality(DataIn(q)) + InHand(r) = dataSent[r]
        BY <2>1 DEF Counts
    <2>4. dataSent'[r] = dataSent[r] + (IF kind = "data" THEN 1 ELSE 0)
        BY <1>5
    <2> HIDE DEF q, t
    <2> QED
        BY <1>2, <1>3, <2>2, <2>3, <2>4 DEF q, t
<1> QED
    BY <1>4, <1>5

LEMMA CountsInit == LogInit => \A s \in LinkSides : Counts(s)
<1> SUFFICES ASSUME LogInit, NEW s \in LinkSides PROVE Counts(s)
    OBVIOUS
<1>1. events[s] = <<>> /\ handling[s] = NoEvent /\ dataSent[s] = 0 /\ DOMAIN entries[s] = {}
    BY DEF LogInit
<1>2. DataIn(events[s]) = {} /\ InHand(s) = 0
    BY <1>1 DEF DataIn, InHand, NoEvent
<1>3. Tally(PacketsOf(s)) = 0
    BY <1>1, TallyZero DEF PacketsOf
<1>4. Cardinality(DataIn(events[s])) = 0
    BY <1>2, FS_EmptySet
<1> QED
    BY <1>1, <1>2, <1>3, <1>4 DEF Counts

LEMMA CountsNext ==
    LogInv /\ (\A s \in LinkSides : Counts(s)) /\ [LogNext]_logVars => \A s \in LinkSides : Counts(s)'
<1> SUFFICES ASSUME LogInv, \A s \in LinkSides : Counts(s), [LogNext]_logVars
             PROVE  \A s \in LinkSides : Counts(s)'
    OBVIOUS
<1>t. LogTypeOK /\ LinkTables
    BY DEF LogInv
<1>u. /\ side \in [Ids -> LinkSides \cup {"none"}] /\ alive \subseteq Ids
      /\ DOMAIN events = LinkSides /\ DOMAIN entries = LinkSides /\ EventQueues
      /\ EntryTables
      /\ handling \in [LinkSides -> {NoEvent} \cup Handled]
      /\ dataSent \in [LinkSides -> 0..MaxData]
      /\ \A s \in LinkSides : dataSent[s] \in Nat /\ handling[s] \in {NoEvent} \cup Handled
    BY <1>t, LogAssumption DEF LogTypeOK, EventQueues, EntryTables
<1>1. ASSUME NEW i \in Ids, NEW s \in LinkSides, LinkUp(s, i) PROVE \A r \in LinkSides : Counts(r)'
    <2>1. Emit(s, i, "activated") /\ UNCHANGED <<handling, entries, dataSent>>
        BY <1>1 DEF LinkUp
    <2>2. "activated" \in EventKinds /\ "activated" # "data"
        BY DEF EventKinds
    <2>3. \A r \in LinkSides :
              dataSent'[r] = dataSent[r] + (IF r = s /\ "activated" = "data" THEN 1 ELSE 0)
        BY <1>u, <2>1, <2>2
    <2> QED
        BY <1>t, <2>1, <2>2, <2>3, EmitCounts
<1>2. ASSUME NEW i \in Ids, LinkData(i) PROVE \A r \in LinkSides : Counts(r)'
    <2> DEFINE s == side[i]
    <2>1. /\ i \in alive /\ dataSent' = [dataSent EXCEPT ![s] = @ + 1]
          /\ Emit(s, i, "data") /\ UNCHANGED <<handling, entries>>
        BY <1>2 DEF LinkData
    <2>2. s \in LinkSides
        BY <1>t, <1>u, <2>1 DEF LinkTables
    <2> HIDE DEF s
    <2>3. \A r \in LinkSides :
              dataSent'[r] = dataSent[r] + (IF r = s /\ "data" = "data" THEN 1 ELSE 0)
        BY <1>u, <2>1, <2>2
    <2> QED
        BY <1>t, <2>1, <2>2, <2>3, EmitCounts DEF EventKinds
<1>3. ASSUME NEW i \in Ids, LinkDown(i) PROVE \A r \in LinkSides : Counts(r)'
    <2> DEFINE s == side[i]
    <2>1. i \in alive /\ Emit(s, i, "closed") /\ UNCHANGED <<handling, entries, dataSent>>
        BY <1>3 DEF LinkDown
    <2>2. s \in LinkSides
        BY <1>t, <1>u, <2>1 DEF LinkTables
    <2> HIDE DEF s
    <2>3. "closed" \in EventKinds /\ "closed" # "data"
        BY DEF EventKinds
    <2>4. \A r \in LinkSides :
              dataSent'[r] = dataSent[r] + (IF r = s /\ "closed" = "data" THEN 1 ELSE 0)
        BY <1>u, <2>1, <2>3
    <2> QED
        BY <1>t, <2>1, <2>2, <2>3, <2>4, EmitCounts
<1>4. ASSUME NEW s \in LinkSides, ResolveLink(s) PROVE \A r \in LinkSides : Counts(r)'
    <2> DEFINE q == events[s]
               e == Head(q)
               h == [id |-> e.id, kind |-> e.kind, resolved |-> Found(s, e.id)]
               t == Tail(q)
    <2>1. /\ handling[s] = NoEvent /\ q # <<>> /\ handling' = [handling EXCEPT ![s] = h]
          /\ events' = [events EXCEPT ![s] = t]
          /\ UNCHANGED <<entries, dataSent, lagged>>
        BY <1>4 DEF ResolveLink
    <2>2. q \in Seq(Event) /\ Len(q) \in Nat
        BY <1>u, LenProperties DEF EventQueues
    <2>3. /\ e = q[1] /\ t \in Seq(Event) /\ Len(t) = Len(q) - 1 /\ Len(q) > 0
          /\ \A k \in 1..Len(t) : t[k] = q[k + 1]
        BY <2>1, <2>2, HeadTailProperties, EmptySeq
    <2> HIDE DEF e, t
    <2>4. h.kind = e.kind
        OBVIOUS
    <2> HIDE DEF h, q
    <2>5. Cardinality(DataIn(q)) = Cardinality(DataIn(t)) + (IF e.kind = "data" THEN 1 ELSE 0)
        BY <2>2, <2>3, DataInRest
    <2>6. handling'[s] = h /\ events'[s] = t
          /\ \A r \in LinkSides \ {s} : handling'[r] = handling[r] /\ events'[r] = events[r]
        BY <1>u, <2>1
    <2>7. \A r \in LinkSides : Tally(PacketsOf(r))' = Tally(PacketsOf(r))
        BY <2>1 DEF PacketsOf
    <2>8. ASSUME NEW r \in LinkSides, r # s PROVE Counts(r)'
        <3>1. InHand(r)' = InHand(r) /\ events'[r] = events[r]
            BY <2>6, <2>8 DEF InHand
        <3> QED
            BY <2>1, <2>7, <3>1 DEF Counts
    <2>9. Counts(s)'
        <3>1. InHand(s) = 0 /\ InHand(s)' = IF e.kind = "data" THEN 1 ELSE 0
            BY <2>1, <2>4, <2>6 DEF InHand, NoEvent
        <3>2. Cardinality(DataIn(t)) \in Nat /\ Tally(PacketsOf(s)) \in Nat
            BY <1>t, <2>3, DataInQueue, PacketsType
        <3>3. ~lagged[s] => Tally(PacketsOf(s)) + Cardinality(DataIn(q)) + InHand(s) = dataSent[s]
            BY DEF Counts, q
        <3>4. ~lagged[s] => Tally(PacketsOf(s)) + Cardinality(DataIn(t)) + InHand(s)' = dataSent[s]
            BY <2>5, <3>1, <3>2, <3>3
        <3> QED
            BY <2>1, <2>6, <2>7, <3>4 DEF Counts
    <2> QED
        BY <2>8, <2>9
<1>5. ASSUME NEW s \in LinkSides, Record(s) PROVE \A r \in LinkSides : Counts(r)'
    <2> DEFINE h == handling[s]
               i == h.resolved
               m == PacketsSoFar(s, i)
               one == IF h.kind = "data" THEN 1 ELSE 0
               new == [status |-> StatusOf(h.kind), packets |-> m + one]
               f == [j \in DOMAIN entries[s] \cup {i} |-> IF j = i THEN new ELSE entries[s][j]]
               old == PacketsOf(s)
    <2>1. /\ h # NoEvent /\ entries' = [entries EXCEPT ![s] = f]
          /\ handling' = [handling EXCEPT ![s] = NoEvent]
          /\ UNCHANGED <<events, dataSent, lagged>>
        BY <1>5 DEF Record
    <2>2. /\ entries'[s] = f /\ handling'[s] = NoEvent
          /\ \A r \in LinkSides \ {s} : handling'[r] = handling[r] /\ entries'[r] = entries[r]
        <3> HIDE DEF h, f
        <3> QED
            BY <1>u, <2>1
    <2>3. m \in Nat /\ m = (IF i \in DOMAIN old THEN old[i] ELSE 0)
        BY <1>u DEF PacketsSoFar, EntryTables, Entry, PacketsOf
    <2>4. new.packets = m + one
        OBVIOUS
    <2>5. /\ DOMAIN old = DOMAIN entries[s]
          /\ \A j \in DOMAIN old : old[j] = entries[s][j].packets
        BY DEF PacketsOf
    <2> DEFINE now == [j \in DOMAIN f |-> f[j].packets]
    <2>6. /\ DOMAIN now = DOMAIN old \cup {i} /\ now[i] = m + one
          /\ \A j \in DOMAIN old : j # i => now[j] = old[j]
        <3> HIDE DEF new, old
        <3> QED
            BY <2>4, <2>5
    <2>7. PacketsOf(s)' = now
        BY <2>2 DEF PacketsOf
    <2>8. IsFiniteSet(DOMAIN old) /\ old \in [DOMAIN old -> Nat] /\ Tally(old) \in Nat
        BY <1>t, <2>5, PacketsType
    <2> HIDE DEF h, i, m, new, f, old, now
    <2>9. Tally(now) = Tally(old) + one
        <3>1. \A u : u \in Units(old) <=> u \in (DOMAIN old) \X Nat /\ u[2] \in 1..old[u[1]]
            BY UnitsAre
        <3>2. \A u : u \in Units(now) <=> u \in (DOMAIN now) \X Nat /\ u[2] \in 1..now[u[1]]
            BY UnitsAre
        <3>3. CASE h.kind = "data"
            <4> DEFINE u == <<i, m + 1>>
            <4>1. now[i] = m + 1 /\ one = 1
                BY <2>6, <3>3
            <4>2. u \notin Units(old)
                BY <2>3, <3>1
            <4>3. ASSUME NEW v PROVE v \in Units(now) <=> v \in Units(old) \/ v = u
                <5>1. CASE v \notin (DOMAIN now) \X Nat
                    BY <2>3, <2>6, <3>1, <3>2, <5>1
                <5>2. CASE v \in (DOMAIN now) \X Nat /\ v[1] = i
                    <6>1. v = <<i, v[2]>> /\ v[2] \in Nat /\ v[1] \in DOMAIN now
                        BY <5>2
                    <6>2. v \in Units(now) <=> v[2] \in 1..m + 1
                        BY <3>2, <4>1, <5>2
                    <6>3. v \in Units(old) <=> v[2] \in 1..m
                        BY <2>3, <3>1, <5>2, <6>1
                    <6> QED
                        BY <2>3, <6>1, <6>2, <6>3
                <5>3. CASE v \in (DOMAIN now) \X Nat /\ v[1] # i
                    <6>1. v[1] \in DOMAIN old /\ now[v[1]] = old[v[1]] /\ v # u
                        BY <2>6, <5>3
                    <6>2. v \in (DOMAIN old) \X Nat
                        BY <5>3, <6>1
                    <6> QED
                        BY <3>1, <3>2, <5>3, <6>1, <6>2
                <5> QED
                    BY <5>1, <5>2, <5>3
            <4> HIDE DEF u
            <4>4. Units(now) = Units(old) \cup {u}
                BY <4>3
            <4> QED
                BY <2>8, <4>1, <4>2, <4>4, TallyOneMore
        <3>4. CASE h.kind # "data"
            <4>1. now[i] = m /\ one = 0
                BY <2>3, <2>6, <3>4
            <4>2. ASSUME NEW v PROVE v \in Units(now) <=> v \in Units(old)
                <5>1. CASE v \notin (DOMAIN now) \X Nat
                    BY <2>6, <3>1, <3>2, <5>1
                <5>2. CASE v \in (DOMAIN now) \X Nat /\ v[1] = i
                    <6>1. v = <<i, v[2]>> /\ v[2] \in Nat /\ v[1] \in DOMAIN now
                        BY <5>2
                    <6>2. v \in Units(now) <=> v[2] \in 1..m
                        BY <3>2, <4>1, <5>2
                    <6>3. v \in Units(old) <=> v[2] \in 1..m
                        BY <2>3, <3>1, <5>2, <6>1
                    <6> QED
                        BY <6>2, <6>3
                <5>3. CASE v \in (DOMAIN now) \X Nat /\ v[1] # i
                    <6>1. v[1] \in DOMAIN old /\ now[v[1]] = old[v[1]]
                        BY <2>6, <5>3
                    <6>2. v \in (DOMAIN old) \X Nat
                        BY <5>3, <6>1
                    <6> QED
                        BY <3>1, <3>2, <5>3, <6>1, <6>2
                <5> QED
                    BY <5>1, <5>2, <5>3
            <4>3. Units(now) = Units(old)
                BY <4>2
            <4> QED
                BY <2>8, <4>1, <4>3 DEF Tally
        <3> QED
            BY <3>3, <3>4
    <2>10. ASSUME NEW r \in LinkSides, r # s PROVE Counts(r)'
        <3>1. InHand(r)' = InHand(r) /\ PacketsOf(r)' = PacketsOf(r)
            BY <2>2, <2>10 DEF InHand, PacketsOf
        <3>2. events'[r] = events[r] /\ dataSent'[r] = dataSent[r] /\ lagged'[r] = lagged[r]
            BY <2>1
        <3>3. Counts(r)
            OBVIOUS
        <3> QED
            BY <3>1, <3>2, <3>3 DEF Counts
    <2>11. Counts(s)'
        <3>1. InHand(s)' = 0 /\ InHand(s) = one
            BY <2>2 DEF InHand, NoEvent, h
        <3>2. Cardinality(DataIn(events[s])) \in Nat
            BY <1>u, DataInQueue DEF EventQueues
        <3>3. ~lagged[s] => Tally(old) + Cardinality(DataIn(events[s])) + one = dataSent[s]
            BY <3>1 DEF Counts, old
        <3>4. one \in Nat
            OBVIOUS
        <3> HIDE DEF one
        <3>5. ~lagged[s] => Tally(now) + Cardinality(DataIn(events[s])) + 0 = dataSent[s]
            BY <2>8, <2>9, <3>2, <3>3, <3>4
        <3> QED
            BY <2>1, <2>7, <3>1, <3>5 DEF Counts
    <2> QED
        BY <2>10, <2>11
<1>6. CASE UNCHANGED logVars \/ \E i \in Ids : LinkRequested(i)
    <2>1. UNCHANGED <<events, handling, entries, dataSent, lagged>>
        BY <1>6 DEF logVars, LinkRequested
    <2>2. \A s \in LinkSides : InHand(s)' = InHand(s) /\ PacketsOf(s)' = PacketsOf(s)
        BY <2>1 DEF InHand, PacketsOf
    <2> QED
        BY <2>1, <2>2 DEF Counts
<1> QED
    BY <1>1, <1>2, <1>3, <1>4, <1>5, <1>6 DEF LogNext

\* Once a task of the gateway has recorded every event and its channel dropped
\* none, the packets its table counts are those that arrived, for any number of
\* links and events (gateway_reticulum.rs handle_link_event).
THEOREM PacketsAreCounted == LogSpec => []DataCounted
<1>1. LogInit => LogInv /\ \A s \in LinkSides : Counts(s)
    BY LogInvInit, CountsInit
<1>2. /\ LogInv /\ \A s \in LinkSides : Counts(s)
      /\ [LogNext]_logVars
      => (LogInv /\ \A s \in LinkSides : Counts(s))'
    BY LogInvNext, CountsNext
<1>3. LogInv /\ (\A s \in LinkSides : Counts(s)) => DataCounted
    <2> SUFFICES ASSUME LogInv, NEW s \in LinkSides, Counts(s), AtRest(s), ~lagged[s]
                 PROVE  Tally(PacketsOf(s)) = dataSent[s]
        BY DEF DataCounted, PacketsOf
    <2>1. DataIn(events[s]) = {} /\ InHand(s) = 0
        BY DEF AtRest, DataIn, InHand, NoEvent
    <2>2. Cardinality(DataIn(events[s])) = 0
        BY <2>1, FS_EmptySet
    <2>3. Tally(PacketsOf(s)) \in Nat
        BY PacketsType DEF LogInv
    <2> QED
        BY <2>1, <2>2, <2>3 DEF Counts
<1> QED
    BY <1>1, <1>2, <1>3, PTL DEF LogSpec


-----------------------------------------------------------------------------
(* Their product.  A step of it is a step of one component and leaves the  *)
(* others alone: its behaviours are behaviours of each.                    *)

trafficVars == <<which, tableVars, forwardVars, atakVars, audioVars, radioVars, feedVars, logVars>>

Parts == {"table", "forward", "atak", "audio", "radio", "feed", "log"}

LEMMA TrafficParts ==
    TrafficSpec => /\ TableSpec /\ ForwardSpec /\ AtakSpec /\ AudioSpec /\ RadioSpec /\ FeedSpec
                   /\ LogSpec /\ [](which \in Parts)
<1>1. TrafficInit => /\ TableInit /\ ForwardInit /\ AtakInit /\ AudioInit /\ RadioInit
                     /\ FeedInit /\ LogInit /\ which \in Parts
    BY DEF TrafficInit, Parts
<1>2. ASSUME [TrafficNext]_trafficVars
      PROVE  /\ [TableNext]_tableVars /\ [ForwardNext]_forwardVars /\ [AtakNext]_atakVars
             /\ [AudioNext]_audioVars /\ [RadioNext]_radioVars /\ [FeedNext]_feedVars
             /\ [LogNext]_logVars /\ which' = which
    BY <1>2, Zenon DEF TrafficNext, trafficVars
<1>3. TrafficSpec => TableSpec
    <2>1. TrafficInit => TableInit
        BY <1>1
    <2>2. [TrafficNext]_trafficVars => [TableNext]_tableVars
        BY <1>2
    <2> QED
        BY <2>1, <2>2, PTL DEF TrafficSpec, trafficVars, TableSpec
<1>4. TrafficSpec => ForwardSpec
    <2>1. TrafficInit => ForwardInit
        BY <1>1
    <2>2. [TrafficNext]_trafficVars => [ForwardNext]_forwardVars
        BY <1>2
    <2> QED
        BY <2>1, <2>2, PTL DEF TrafficSpec, trafficVars, ForwardSpec
<1>5. TrafficSpec => AtakSpec
    <2>1. TrafficInit => AtakInit
        BY <1>1
    <2>2. [TrafficNext]_trafficVars => [AtakNext]_atakVars
        BY <1>2
    <2> QED
        BY <2>1, <2>2, PTL DEF TrafficSpec, trafficVars, AtakSpec
<1>6. TrafficSpec => AudioSpec
    <2>1. TrafficInit => AudioInit
        BY <1>1
    <2>2. [TrafficNext]_trafficVars => [AudioNext]_audioVars
        BY <1>2
    <2> QED
        BY <2>1, <2>2, PTL DEF TrafficSpec, trafficVars, AudioSpec
<1>7. TrafficSpec => RadioSpec
    <2>1. TrafficInit => RadioInit
        BY <1>1
    <2>2. [TrafficNext]_trafficVars => [RadioNext]_radioVars
        BY <1>2
    <2> QED
        BY <2>1, <2>2, PTL DEF TrafficSpec, trafficVars, RadioSpec
<1>8. TrafficSpec => FeedSpec
    <2>1. TrafficInit => FeedInit
        BY <1>1
    <2>2. [TrafficNext]_trafficVars => [FeedNext]_feedVars
        BY <1>2
    <2> QED
        BY <2>1, <2>2, PTL DEF TrafficSpec, trafficVars, FeedSpec
<1>9. TrafficSpec => LogSpec
    <2>1. TrafficInit => LogInit
        BY <1>1
    <2>2. [TrafficNext]_trafficVars => [LogNext]_logVars
        BY <1>2
    <2> QED
        BY <2>1, <2>2, PTL DEF TrafficSpec, trafficVars, LogSpec
<1>10. TrafficSpec => [](which \in Parts)
    <2>1. TrafficInit => which \in Parts
        BY <1>1
    <2>2. which \in Parts /\ [TrafficNext]_trafficVars => (which \in Parts)'
        BY <1>2
    <2> QED
        BY <2>1, <2>2, PTL DEF TrafficSpec, trafficVars
<1> QED
    BY <1>3, <1>4, <1>5, <1>6, <1>7, <1>8, <1>9, <1>10

\* Each component keeps its types, in whatever product they run, for any number of
\* peers, datagrams, requests, sockets and links (MCTraffic.TypesOK).
THEOREM TrafficTypes == TrafficSpec => []TypesOK
<1>1. TableSpec => []TableTypeOK
    <2>1. TableInv => TableTypeOK
        BY DEF TableInv
    <2> QED
        BY <2>1, TableInvInit, TableInvNext, PTL DEF TableSpec
<1>2. ForwardSpec => []ForwardTypeOK
    <2>1. ForwardInv => ForwardTypeOK
        BY DEF ForwardInv
    <2> QED
        BY <2>1, ForwardInvInit, ForwardInvNext, PTL DEF ForwardSpec
<1>3. AtakSpec => []AtakTypeOK
    <2>1. AtakInv => AtakTypeOK
        BY DEF AtakInv
    <2> QED
        BY <2>1, AtakInvInit, AtakInvNext, PTL DEF AtakSpec
<1>4. AudioSpec => []AudioTypeOK
    BY AudioInitType, AudioNextType, PTL DEF AudioSpec
<1>5. RadioSpec => []RadioTypeOK
    BY RadioTypeInit, RadioTypeNext, PTL DEF RadioSpec
<1>6. FeedSpec => []FeedTypeOK
    <2>1. FeedInv => FeedTypeOK
        BY DEF FeedInv
    <2> QED
        BY <2>1, FeedInvInit, FeedInvNext, PTL DEF FeedSpec
<1>7. LogSpec => []LogTypeOK
    <2>1. LogInv => LogTypeOK
        BY DEF LogInv
    <2> QED
        BY <2>1, LogInvInit, LogInvNext, PTL DEF LogSpec
<1>8. /\ which \in Parts
      /\ TableTypeOK /\ ForwardTypeOK /\ AtakTypeOK /\ AudioTypeOK /\ RadioTypeOK /\ FeedTypeOK
      /\ LogTypeOK
      => TypesOK
    BY Zenon DEF TypesOK, Parts
<1> QED
    BY TrafficParts, <1>1, <1>2, <1>3, <1>4, <1>5, <1>6, <1>7, <1>8, PTL

\* A packet is sent to the peer it is for and credited to no more than were
\* counted (MCTraffic.PacketsAttributed): for any peers, routes and packets, the
\* table and the forwarding together.
THEOREM PacketsFindTheirPeer == TrafficSpec => []PacketsAttributed
<1>1. TableIsLookup /\ AddressingExact /\ PeerCountsBounded => PacketsAttributed
    BY DEF PacketsAttributed, TableCorrect
<1> QED
    BY TrafficParts, TableIsRight, PeersAreCredited, <1>1, PTL
=============================================================================

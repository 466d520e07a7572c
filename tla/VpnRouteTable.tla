--------------------------- MODULE VpnRouteTable ---------------------------
(***************************************************************************)
(* The address arithmetic of kaonic-vpn and the routing table built on it  *)
(* (runtime.rs "Route helpers", router.rs RouteTable).                     *)
(*                                                                         *)
(* RouteTable::build visits the peers in the order of a hash map, so a     *)
(* step here adds any peer that is left; VpnRoutes takes the whole build   *)
(* as one set expression, which TableIsLookup justifies.  An IPv4 address  *)
(* has Width bits, and a destination hash is the number its bytes fold to. *)
(***************************************************************************)
EXTENDS Naturals, FiniteSets, SequencesExt

CONSTANTS
    Gateways,         \* the remote gateways
    NoGateway,
    Width,            \* bits of an address: 32 in the code
    Network,          \* the tunnel network, as <<prefix length, first address>>
    Offered,          \* the routes peers may announce, as such pairs too
    Seeds,            \* what destination hashes fold to
    FirstAlias, LastAlias   \* third octets of aliases: 100 and 254 in the code

Addresses == 0 .. 2^Width - 1
Size(route) == 2^(Width - route[1])
AllCidrs == {r \in (0..Width) \X Addresses : r[2] % Size(r) = 0}

ASSUME AddressingAssumption ==
    /\ Width \in Nat /\ FirstAlias \in Nat /\ LastAlias \in Nat
    /\ FirstAlias < LastAlias
    /\ IsFiniteSet(Gateways) /\ NoGateway \notin Gateways
    /\ Offered \subseteq AllCidrs
    /\ Network \in AllCidrs /\ Network[1] + 2 <= Width   \* validate_network
    /\ Seeds \subseteq Nat

VARIABLES
    seed,             \* each gateway's destination hash, folded
    ownSeed,          \* this gateway's
    offers,           \* per peer: its routes, and whether their deadline passed
    pending,          \* peers build has still to visit
    tunnel,           \* RouteTable.tunnel_ips: address -> peer
    claimed, conflicts,
    subnets           \* RouteTable.subnets: <<route, owner>>, longest first

tableVars == <<seed, ownSeed, offers, pending, tunnel, claimed, conflicts, subnets>>

-----------------------------------------------------------------------------
(* Addresses.                                                              *)

\* The `cidr` crate: an address lies in a subnet when it has its prefix.
InCidr(route, ip) == ip \div Size(route) = route[2] \div Size(route)

CidrBounds(route) == <<route[2], route[2] + Size(route) - 1>>

\* (mutant) Touching ends do not count.
OverlapStrict(a, b) ==
    CidrBounds(a)[1] < CidrBounds(b)[2] /\ CidrBounds(b)[1] < CidrBounds(a)[2]

RoutesOverlap(a, b) ==
    CidrBounds(a)[1] <= CidrBounds(b)[2] /\ CidrBounds(b)[1] <= CidrBounds(a)[2]

DeriveTunnelIp(hash) == Network[2] + (hash % (Size(Network) - 2)) + 1

\* export_local_route, for a /24 in 192.168.0.0/16 with this third octet.
ExportLocalRoute(octet, hash) ==
    LET third == FirstAlias + (hash % (LastAlias - FirstAlias + 1)) IN
    IF third # octet THEN third
    ELSE IF third = LastAlias THEN FirstAlias ELSE third + 1

-----------------------------------------------------------------------------
(* RouteTable::build.                                                      *)

TableInit ==
    /\ seed \in [Gateways -> Seeds]
    /\ ownSeed \in Seeds
    /\ offers \in [Gateways -> [routes : SUBSET Offered, expired : BOOLEAN]]
    /\ pending = Gateways
    /\ tunnel = [ip \in {} |-> NoGateway]
    /\ claimed = [route \in {} |-> NoGateway]
    /\ conflicts = {}
    /\ subnets = <<>>

OwnTunnelIp == DeriveTunnelIp(ownSeed)

\* Routes of an expired peer count for nothing.
Live(p) == IF offers[p].expired THEN {} ELSE offers[p].routes

\* Nobody gets a subnet that contains our own tunnel address.
Refused(p) == {r \in Live(p) : InCidr(r, OwnTunnelIp)}

\* (mutant) A later claim is only ignored.
DisputedNever(p) == {}

Disputed(p) == {r \in Live(p) \ Refused(p) : r \in DOMAIN claimed}

\* One peer of build's loop: its tunnel address overwrites an equal one, its
\* routes are claimed unless they already are.
VisitPeer(p) ==
    /\ p \in pending
    /\ pending' = pending \ {p}
    /\ LET mine == DeriveTunnelIp(seed[p]) IN
       tunnel' = [ip \in DOMAIN tunnel \cup {mine} |-> IF ip = mine THEN p ELSE tunnel[ip]]
    /\ claimed' = [r \in DOMAIN claimed \cup (Live(p) \ Refused(p)) |->
                      IF r \in DOMAIN claimed THEN claimed[r] ELSE p]
    /\ conflicts' = conflicts \cup Refused(p) \cup Disputed(p)
    /\ UNCHANGED <<seed, ownSeed, offers, subnets>>

\* (mutant) The shortest prefix comes first.
LongerNot(a, b) == a[1][1] < b[1][1]

LongerPrefix(a, b) == a[1][1] > b[1][1]

\* What is not in conflict, by prefix length; the sort's order among equals
\* depends on a hash map and is any.
Sort ==
    /\ pending = {} /\ subnets = <<>>
    /\ LET kept == {<<r, claimed[r]>> : r \in DOMAIN claimed \ conflicts} IN
       /\ kept # {}
       /\ subnets' \in {s \in SetToSeqs(kept) :
                           \A i, j \in 1..Len(s) : LongerPrefix(s[i], s[j]) => i < j}
    /\ UNCHANGED <<seed, ownSeed, offers, pending, tunnel, claimed, conflicts>>

TableNext == Sort \/ \E p \in Gateways : VisitPeer(p)

TableSpec == TableInit /\ [][TableNext]_tableVars

\* RouteTable::resolve.
Resolve(ip) ==
    LET hit == SelectInSeq(subnets, LAMBDA e : InCidr(e[1], ip)) IN
    IF ip \in DOMAIN tunnel THEN tunnel[ip]
    ELSE IF hit # 0 THEN subnets[hit][2]
    ELSE NoGateway

-----------------------------------------------------------------------------
TableTypeOK ==
    /\ seed \in [Gateways -> Seeds] /\ ownSeed \in Seeds
    /\ offers \in [Gateways -> [routes : SUBSET Offered, expired : BOOLEAN]]
    /\ pending \subseteq Gateways
    /\ DOMAIN tunnel \subseteq Addresses
    /\ \A ip \in DOMAIN tunnel : tunnel[ip] \in Gateways \ pending
    /\ DOMAIN claimed \subseteq Offered
    /\ \A r \in DOMAIN claimed : claimed[r] \in Gateways \ pending
    /\ conflicts \subseteq Offered
    /\ subnets \in Seq(Offered \X Gateways)

Claimants(r) == {p \in Gateways : r \in Live(p)}
Routable == {r \in Offered : Cardinality(Claimants(r)) = 1 /\ ~InCidr(r, OwnTunnelIp)}
Matching(ip) == {r \in Routable : InCidr(r, ip)}

\* Whatever order the hash maps give, a finished table resolves an address to
\* a peer with that tunnel address, else to the one live peer that claims the
\* longest subnet around it, else to nobody (router.rs build and resolve).
TableIsLookup ==
    pending = {} /\ (subnets # <<>> \/ DOMAIN claimed \subseteq conflicts) =>
        \A ip \in Addresses :
            LET named == {p \in Gateways : DeriveTunnelIp(seed[p]) = ip} IN
            IF named # {} THEN Resolve(ip) \in named
            ELSE IF Matching(ip) = {} THEN Resolve(ip) = NoGateway
            ELSE \E r \in Matching(ip) :
                   /\ \A s \in Matching(ip) : s[1] <= r[1]
                   /\ Claimants(r) = {Resolve(ip)}

\* Two subnets overlap exactly when they share an address (runtime.rs
\* cidr_bounds, routes_overlap).
OverlapExact ==
    \A a, b \in AllCidrs :
        RoutesOverlap(a, b) <=> \E ip \in Addresses : InCidr(a, ip) /\ InCidr(b, ip)

\* The arithmetic at its boundaries: OverlapExact; a tunnel address is inside
\* the network and neither its first nor its last; and a LAN's alias is never
\* the LAN itself, nor outside the alias range (runtime.rs derive_tunnel_ip,
\* export_local_route).
AddressingExact ==
    /\ OverlapExact
    /\ LET ip == OwnTunnelIp IN
         InCidr(Network, ip) /\ ip \notin {CidrBounds(Network)[1], CidrBounds(Network)[2]}
    /\ \A octet \in FirstAlias..LastAlias :
         /\ ExportLocalRoute(octet, ownSeed) # octet
         /\ ExportLocalRoute(octet, ownSeed) \in FirstAlias..LastAlias
=============================================================================

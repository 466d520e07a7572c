---------------------------- MODULE MCVpnRoutes ----------------------------
(* VpnRoutes on small instances.                                           *)
EXTENDS VpnRoutes, TLC

CONSTANT c1

\* An ordinary LAN, which overlaps itself when we have it too.
MCOverlaps == {<<c1, c1>>}

Symmetry == Permutations(Peers) \cup Permutations(Workers)
=============================================================================

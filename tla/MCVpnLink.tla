----------------------------- MODULE MCVpnLink -----------------------------
(* VpnLink on small instances.                                             *)
EXTENDS VpnLink, TLC

\* Records and request tasks are interchangeable.
Symmetry == Permutations(Objs) \cup Permutations(Reqs)
=============================================================================

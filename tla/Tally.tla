------------------------------- MODULE Tally --------------------------------
(***************************************************************************)
(* The sum of counters: of a function f to natural numbers, over all it is *)
(* defined for.  It is counted, one pair for each unit of each value, so   *)
(* that a proof can follow one more unit without an induction.             *)
(***************************************************************************)
EXTENDS Naturals, FiniteSets

Units(f) == UNION {{x} \X (1..f[x]) : x \in DOMAIN f}

Tally(f) == Cardinality(Units(f))
=============================================================================

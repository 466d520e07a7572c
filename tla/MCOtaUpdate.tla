--------------------------- MODULE MCOtaUpdate ---------------------------
(* OtaUpdate with a version that does not stay up.                         *)
EXTENDS OtaUpdate

CONSTANT v3

MCBroken == {v3}
=============================================================================

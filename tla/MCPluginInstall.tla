------------------------- MODULE MCPluginInstall -------------------------
(* PluginInstall with two versions, one of which asks for a symlink.       *)
EXTENDS PluginInstall

CONSTANT v2

MCLinked == {v2}
=============================================================================

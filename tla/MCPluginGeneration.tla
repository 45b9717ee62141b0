-------------------------- MODULE MCPluginGeneration --------------------------
(* Small instance of PluginGeneration: g1 and g3 carry the same identifier. *)
EXTENDS PluginGeneration, TLC

CONSTANTS g1, g2, g3

MCIdOf == g1 :> "a" @@ g2 :> "b" @@ g3 :> "a"

=============================================================================

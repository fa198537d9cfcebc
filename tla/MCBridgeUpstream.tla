-------------------------- MODULE MCBridgeUpstream --------------------------
(* BridgeUpstream for TLC: the symmetry of its model values. *)
EXTENDS BridgeUpstream, TLC

Interchangeable == Permutations(Bridges) \cup Permutations(Workers)

=============================================================================

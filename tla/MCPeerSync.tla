----------------------------- MODULE MCPeerSync -----------------------------
(* PeerSync for TLC: the symmetry of its model values. *)
EXTENDS PeerSync, TLC

Interchangeable == Permutations(Peers) \cup Permutations(Workers)

=============================================================================

-------------------------- MODULE MCBridgeFailover --------------------------
(* BridgeFailover for TLC: named targets, and one list of candidates. *)
EXTENDS BridgeFailover

CONSTANTS main, spare

MainThenSpare == [b \in Bridges |-> <<main, spare>>]

=============================================================================

-------------------------- MODULE MCHostAllocation --------------------------
(* HostAllocation for TLC: the symmetry of its model values. *)
EXTENDS HostAllocation, TLC

Interchangeable == Permutations(Keys) \cup Permutations(Workers)

=============================================================================

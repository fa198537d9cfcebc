----------------------------- MODULE FlapHistory -----------------------------
(***************************************************************************)
(* One server that is probed again and again, with the results of all its  *)
(* probes so far: the counters of FlapProtection against what they are     *)
(* supposed to say about that history.                                     *)
(***************************************************************************)
EXTENDS FlapProtection, Sequences

CONSTANT MaxProbes   \* bound on the length of the history

ASSUME MaxProbesAssumption == MaxProbes \in Nat

VARIABLES state, history

vars == <<state, history>>

Results == {"yes", "no"}

TypeOK == state \in ProbeState /\ history \in Seq(Results)

Init == state = Unprobed /\ history = <<>>

Probe(result) ==
    /\ Len(history) < MaxProbes
    /\ state' = UpdateState(state, result = "yes")
    /\ history' = Append(history, result)

Next == \E result \in Results : Probe(result)

Spec == Init /\ [][Next]_vars

-----------------------------------------------------------------------------

\* The Consecutive probes of h up to the i-th all had this result.
RunEndsAt(h, i, result) ==
    i >= Consecutive /\ \A j \in 1 .. i : i - j < Consecutive => h[j] = result

\* The latest run of Consecutive equal results in h had this result.
LastRunIs(h, result) ==
    \E i \in 1 .. Len(h) :
        /\ RunEndsAt(h, i, result)
        /\ \A later \in i .. Len(h), other \in Results \ {result} : ~RunEndsAt(h, later, other)

(***************************************************************************)
(* A server is known as reachable exactly if the latest run of three equal *)
(* results was a run of successes, as unreachable if it was one of         *)
(* failures, and otherwise nothing is known (the comment on updateState).  *)
(***************************************************************************)
ReachableIsLastRun == \A result \in Results : state.reachable = result <=> LastRunIs(history, result)

=============================================================================

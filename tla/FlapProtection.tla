--------------------------- MODULE FlapProtection ---------------------------
(***************************************************************************)
(* updateState of backend/src/bridges/bridge-failover.service.ts: what one *)
(* probe of a server does to the state kept for it.  A server counts as    *)
(* reachable or unreachable only after Consecutive equal results in a row. *)
(***************************************************************************)
EXTENDS Integers

CONSTANT Consecutive   \* FLAP_PROTECTION_CONSECUTIVE, 3 in the code

ASSUME ConsecutiveAssumption == Consecutive \in Nat \ {0}

ProbeState == [reachable : {"unknown", "yes", "no"},
               consecutiveOk : 0 .. Consecutive, consecutiveFail : 0 .. Consecutive]

Unprobed == [reachable |-> "unknown", consecutiveOk |-> 0, consecutiveFail |-> 0]

\* The counters are only compared with the threshold, so they stop there.
Counted(n) == IF n < Consecutive THEN n + 1 ELSE n

\* Mutant: a success does not end a run of failures.
UpdateStateKeepsFailures(state, ok) ==
    IF ok
      THEN [reachable |-> IF Counted(state.consecutiveOk) = Consecutive THEN "yes" ELSE state.reachable,
            consecutiveOk |-> Counted(state.consecutiveOk),
            consecutiveFail |-> state.consecutiveFail]
      ELSE [reachable |-> IF Counted(state.consecutiveFail) = Consecutive THEN "no" ELSE state.reachable,
            consecutiveOk |-> 0,
            consecutiveFail |-> Counted(state.consecutiveFail)]

UpdateState(state, ok) ==
    IF ok
      THEN [reachable |-> IF Counted(state.consecutiveOk) = Consecutive THEN "yes" ELSE state.reachable,
            consecutiveOk |-> Counted(state.consecutiveOk),
            consecutiveFail |-> 0]
      ELSE [reachable |-> IF Counted(state.consecutiveFail) = Consecutive THEN "no" ELSE state.reachable,
            consecutiveOk |-> 0,
            consecutiveFail |-> Counted(state.consecutiveFail)]

=============================================================================

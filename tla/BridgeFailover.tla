--------------------------- MODULE BridgeFailover ---------------------------
(***************************************************************************)
(* The failover mode of a bridge: every twenty seconds a poll of           *)
(* backend/src/bridges/bridge-failover.service.ts reads the bridges, makes *)
(* a TCP connection to the SSH port of every candidate, and moves a bridge *)
(* to the first candidate that is known to be reachable.  Moving it is     *)
(* setUpstream (BridgeUpstream), which a poll runs as a worker of its own; *)
(* the probes are counted by updateState (FlapProtection).                 *)
(*                                                                         *)
(* All bridges are in failover mode and each candidate is on a server of   *)
(* its own.  Probes time out long before the next poll, so the probes of   *)
(* one poll are one step; the switches that follow them may take longer    *)
(* than twenty seconds, so polls overlap.                                  *)
(***************************************************************************)
EXTENDS BridgeUpstream, FlapProtection, FiniteSets, Sequences

CONSTANTS
    Pollers,      \* polls that may be in progress at the same time
    Candidates,   \* the candidates of each bridge, by priority
    MaxFlips,     \* bound on changes of the servers' availability
    MaxHiccups    \* bound on probes of available servers that fail anyway

ASSUME PollersAssumption == Pollers \subseteq Workers
ASSUME CandidatesAssumption == Candidates \in [Bridges -> Seq(Targets)]
ASSUME FewTargetsAssumption == IsFiniteSet(Targets)
ASSUME FailoverBoundsAssumption == MaxFlips \in Nat /\ MaxHiccups \in Nat

VARIABLES
    answers,    \* the targets whose servers are up
    steady,     \* those that never were down: an observation, not program state
    probes,     \* stateByServerId
    poll,       \* what each poll read and has yet to do
    flips,
    hiccups

environment == <<answers, steady, flips, hiccups>>

failoverVars == <<vars, environment, probes, poll>>

\* seen and todo are what reconcileBridge uses of the bridges as they were read.
Poll == [stage : {"idle", "probing", "reconciling"},
         seen : [Bridges -> Targets \cup {NoTarget}], todo : SUBSET Bridges]

FailoverTypeOK ==
    /\ TypeOK
    /\ answers \subseteq Targets
    /\ steady \subseteq answers
    /\ probes \in [Targets -> ProbeState]
    /\ poll \in [Pollers -> Poll]
    /\ flips \in 0 .. MaxFlips
    /\ hiccups \in 0 .. MaxHiccups

IdlePoll == [stage |-> "idle", seen |-> [b \in Bridges |-> NoTarget], todo |-> {}]

FailoverInit ==
    /\ Init
    /\ answers = Targets
    /\ steady = Targets
    /\ probes = [t \in Targets |-> Unprobed]
    /\ poll = [p \in Pollers |-> IdlePoll]
    /\ flips = 0
    /\ hiccups = 0

-----------------------------------------------------------------------------
(* A poll.                                                                 *)

\* The bridges are read; one that is being configured will be passed over.
PollReads(p) ==
    /\ poll[p].stage = "idle"
    /\ poll' = [poll EXCEPT ![p] =
                  [stage |-> "probing", seen |-> [b \in Bridges |-> row[b].upstream],
                   todo |-> {b \in Bridges : row[b].status # "configuring"}]]
    /\ UNCHANGED <<vars, environment, probes>>

\* Every candidate is probed; missed are the servers that are up and still do not answer.
PollProbes(p) ==
    /\ poll[p].stage = "probing"
    /\ \E missed \in SUBSET answers :
        /\ hiccups + Cardinality(missed) <= MaxHiccups
        /\ hiccups' = hiccups + Cardinality(missed)
        /\ probes' = [t \in Targets |-> UpdateState(probes[t], t \in answers \ missed)]
    /\ poll' = [poll EXCEPT ![p].stage = "reconciling"]
    /\ UNCHANGED <<vars, answers, steady, flips>>

\* Mutant: the search goes through the candidates from the last one.
BestFromTheEnd(b) ==
    LET known == {i \in 1 .. Len(Candidates[b]) : probes[Candidates[b][i]].reachable = "yes"}
    IN  IF known = {} THEN NoTarget ELSE Candidates[b][CHOOSE i \in known : \A j \in known : i >= j]

\* The first candidate that is known to be reachable.
Best(b) ==
    LET known == {i \in 1 .. Len(Candidates[b]) : probes[Candidates[b][i]].reachable = "yes"}
    IN  IF known = {} THEN NoTarget ELSE Candidates[b][CHOOSE i \in known : \A j \in known : i <= j]

\* Mutant: a bridge stays where it is while that server is known to be reachable.
ReconcileStays(p, b) ==
    /\ poll[p].stage = "reconciling"
    /\ op[p].stage = "idle"
    /\ b \in poll[p].todo
    /\ poll' = [poll EXCEPT ![p].todo = @ \ {b}]
    /\ IF \/ Best(b) \in {NoTarget, poll[p].seen[b]}
          \/ poll[p].seen[b] # NoTarget /\ probes[poll[p].seen[b]].reachable = "yes"
         THEN UNCHANGED op
         ELSE Start(p, b, Best(b), "loaded")
    /\ UNCHANGED <<row, live, tunnel, routed, bounds, environment, probes>>

\* One bridge after the other: nothing known to be reachable, or already the
\* upstream that was read, or else setUpstream is called, which loads the bridge.
Reconcile(p, b) ==
    /\ poll[p].stage = "reconciling"
    /\ op[p].stage = "idle"
    /\ b \in poll[p].todo
    /\ poll' = [poll EXCEPT ![p].todo = @ \ {b}]
    /\ IF Best(b) \in {NoTarget, poll[p].seen[b]}
         THEN UNCHANGED op
         ELSE Start(p, b, Best(b), "loaded")
    /\ UNCHANGED <<row, live, tunnel, routed, bounds, environment, probes>>

PollEnds(p) ==
    /\ poll[p].stage = "reconciling"
    /\ op[p].stage = "idle"
    /\ poll[p].todo = {}
    /\ poll' = [poll EXCEPT ![p] = IdlePoll]
    /\ UNCHANGED <<vars, environment, probes>>

PollStep(p) ==
    \/ PollReads(p) \/ PollProbes(p) \/ PollEnds(p)
    \/ \E b \in Bridges : Reconcile(p, b)
    \/ Continue(p) /\ UNCHANGED <<environment, probes, poll>>

-----------------------------------------------------------------------------

\* A candidate's server goes down or comes back.
Flip(t) ==
    /\ flips < MaxFlips
    /\ flips' = flips + 1
    /\ answers' = IF t \in answers THEN answers \ {t} ELSE answers \cup {t}
    /\ steady' = steady \ {t}
    /\ UNCHANGED <<vars, probes, poll, hiccups>>

\* What was known about the servers is lost as well.
FailoverRestart ==
    /\ Restart
    /\ probes' = [t \in Targets |-> Unprobed]
    /\ poll' = [p \in Pollers |-> IdlePoll]
    /\ UNCHANGED environment

FailoverNext ==
    \/ \E p \in Pollers :
        \/ PollStep(p)
        \/ SshFails(p) /\ UNCHANGED <<environment, probes, poll>>
    \/ \E t \in Targets : Flip(t)
    \/ FailoverRestart
    \/ Reboot /\ UNCHANGED <<environment, probes, poll>>

FailoverSafety == FailoverInit /\ [][FailoverNext]_failoverVars

\* The interval timer and the event loop keep every poll going.
FailoverSpec == FailoverSafety /\ \A p \in Pollers : WF_failoverVars(PollStep(p))

-----------------------------------------------------------------------------
(* Properties.                                                             *)

\* What the bridge should be connected to: its first candidate that is up.
FirstAnswering(b) ==
    LET up == {i \in 1 .. Len(Candidates[b]) : Candidates[b][i] \in answers}
    IN  IF up = {} THEN NoTarget ELSE Candidates[b][CHOOSE i \in up : \A j \in up : i <= j]

\* The bridge's traffic goes through a tunnel that the target accepts.
Served(b, t) == tunnel[b] \in live /\ tunnel[b][1] = t /\ b \in routed

\* No failure of SSH, no restart of the backend and no reboot of its host yet.
Undisturbed == faults = 0 /\ restarts = 0 /\ reboots = 0

(***************************************************************************)
(* Once the servers stay up or down, every bridge ends up, and stays,      *)
(* connected to the first of its candidates that is up, unless something   *)
(* disturbed the switches (README, failover mode: the upstream is kept on  *)
(* the first available candidate and returns to the main one when that is  *)
(* back).                                                                  *)
(***************************************************************************)
Settles ==
    []Undisturbed =>
        \A b \in Bridges, t \in Targets :
            <>[](FirstAnswering(b) = t) => <>[](Served(b, t) /\ row[b].upstream = t)

Before(b, t, u) ==
    \E i, j \in 1 .. Len(Candidates[b]) : i < j /\ Candidates[b][i] = t /\ Candidates[b][j] = u

(***************************************************************************)
(* A bridge is never moved away from a server that has been up all the     *)
(* time, except to a better candidate: it takes more than single failed    *)
(* probes (the comment on FLAP_PROTECTION_CONSECUTIVE).  That a lost probe *)
(* right after a restart is enough is left out by the condition.           *)
(***************************************************************************)
SteadyUpstreamKept ==
    [][\A p \in Pollers, b \in Bridges :
        /\ Reconcile(p, b)
        /\ op'[p].stage = "loaded"
        /\ row[b].upstream \in steady
        /\ restarts = 0 \/ hiccups = 0
        => op'[p].target = row[b].upstream \/ Before(b, op'[p].target, row[b].upstream)]_failoverVars

=============================================================================

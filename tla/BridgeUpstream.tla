--------------------------- MODULE BridgeUpstream ---------------------------
(***************************************************************************)
(* How a bridge is moved from one upstream server to another: setUpstream  *)
(* of backend/src/bridges/bridges.service.ts, with the row of the bridge,  *)
(* the tunnel and the routing rules on the host of the panel, and the      *)
(* system peers that the bridges use on the upstream servers.              *)
(*                                                                         *)
(* setUpstream is called by an administrator, by the load balancing timer, *)
(* by the failover timer and when a server is removed; nothing keeps two   *)
(* of these calls apart.  A worker is one call, suspended at an await.     *)
(* A call holds the bridge as it was loaded and each save writes all of it.*)
(*                                                                         *)
(* That a system peer is created or revoked on its server in one step is   *)
(* PeerSync's subject.  Numbers of peers are used again once nothing       *)
(* mentions them any more.                                                 *)
(***************************************************************************)
EXTENDS Integers

CONSTANTS
    Bridges,      \* the bridges of the one self-server
    Targets,      \* active protocols on upstream servers
    NoTarget,     \* no upstream yet
    Reserved,     \* the targets with a reservedUpstreamPeer
    MaxMade,      \* bound on the peers made on the fly that exist at once on a target
    NoPeer,       \* no peer; as the state of a tunnel: it is down
    Workers,      \* calls that may be suspended at the same time
    Serial,       \* TRUE: a call starts only when no other is in progress
    Fragile,      \* the stages in which SSH may fail
    MaxFaults,    \* bound on SSH failures
    MaxRestarts,  \* bound on restarts of the backend
    MaxReboots    \* bound on reboots of the self-server

Numbers == 0 .. MaxMade

\* A system peer: the target and a number, 0 for the reserved one.
Peers == Targets \X Numbers

ASSUME NamesAssumption == NoTarget \notin Targets /\ NoPeer \notin Peers
ASSUME SomethingAssumption == Bridges # {} /\ Targets # {}
ASSUME ReservedAssumption == Reserved \subseteq Targets
ASSUME BoundsAssumption ==
    /\ MaxMade \in Nat
    /\ Serial \in BOOLEAN
    /\ MaxFaults \in Nat
    /\ MaxRestarts \in Nat
    /\ MaxReboots \in Nat

VARIABLES
    row,      \* bridges: upstreamServerProtocolId, upstreamPeerId and status
    live,     \* the system peers that are active on their servers
    tunnel,   \* the peer each bridge's upstream interface is up with
    routed,   \* the bridges whose NAT and policy routing rules are installed
    op,       \* the call each worker is executing
    faults,
    restarts,
    reboots

vars == <<row, live, tunnel, routed, op, faults, restarts, reboots>>

Status == {"not_configured", "configuring", "active", "error"}

\* The recorded peer is one of the recorded upstream.
Row == [upstream : {NoTarget}, peer : {NoPeer}, status : Status]
         \cup UNION {[upstream : {t}, peer : {t} \X Numbers, status : Status] : t \in Targets}

Stages == {"idle", "editing", "loaded", "marked", "creating", "disconnecting",
           "connecting", "routing", "saving", "revoking", "undoing", "failing"}

\* held is the Bridge object in the memory of the call.  alone is an
\* observation, not program state: nothing else happened since the call began.
Call == [stage : Stages, bridge : Bridges, target : Targets, held : Row,
         peer : Peers \cup {NoPeer}, reused : BOOLEAN, alone : BOOLEAN]

Busy == {w \in Workers : op[w].stage # "idle"}

TypeOK ==
    /\ row \in [Bridges -> Row]
    /\ live \subseteq Peers
    /\ tunnel \in [Bridges -> Peers \cup {NoPeer}]
    /\ routed \subseteq Bridges
    /\ op \in [Workers -> Call]
    /\ faults \in Nat
    /\ restarts \in Nat
    /\ reboots \in Nat

\* Any record will do for a worker that is idle.
Idle == [stage |-> "idle", bridge |-> CHOOSE b \in Bridges : TRUE, target |-> CHOOSE t \in Targets : TRUE,
         held |-> [upstream |-> NoTarget, peer |-> NoPeer, status |-> "not_configured"],
         peer |-> NoPeer, reused |-> FALSE, alone |-> FALSE]

Init ==
    /\ row = [b \in Bridges |-> [upstream |-> NoTarget, peer |-> NoPeer, status |-> "not_configured"]]
    /\ live = {<<t, 0>> : t \in Reserved}
    /\ tunnel = [b \in Bridges |-> NoPeer]
    /\ routed = {}
    /\ op = [w \in Workers |-> Idle]
    /\ faults = 0
    /\ restarts = 0
    /\ reboots = 0

bounds == <<faults, restarts, reboots>>

-----------------------------------------------------------------------------
(* The steps of a call that go well.                                       *)

Start(w, b, t, stage) ==
    /\ op[w].stage = "idle"
    /\ Serial => Busy = {}
    /\ op' = [v \in Workers |->
                IF v = w
                  THEN [Idle EXCEPT !.stage = stage, !.bridge = b, !.target = t,
                                    !.held = row[b], !.alone = (Busy = {})]
                  ELSE [op[v] EXCEPT !.alone = FALSE]]

\* setUpstream loads the bridge and an active target.
BeginSwitch(w, b, t) ==
    /\ Start(w, b, t, "loaded")
    /\ UNCHANGED <<row, live, tunnel, routed, bounds>>

\* update and setMode load the bridge; what they change of it is not modelled.
BeginEdit(w, b) ==
    /\ Start(w, b, Idle.target, "editing")
    /\ UNCHANGED <<row, live, tunnel, routed, bounds>>

\* They save everything they loaded.
SaveEdit(w) ==
    /\ op[w].stage = "editing"
    /\ row' = [row EXCEPT ![op[w].bridge] = op[w].held]
    /\ op' = [op EXCEPT ![w] = Idle]
    /\ UNCHANGED <<live, tunnel, routed, bounds>>

\* Mutant: the status is only changed in memory, to be saved at the end.
MarkInMemory(w) ==
    /\ op[w].stage = "loaded"
    /\ op' = [op EXCEPT ![w].stage = "marked", ![w].held.status = "configuring"]
    /\ UNCHANGED <<row, live, tunnel, routed, bounds>>

MarkConfiguring(w) ==
    /\ op[w].stage = "loaded"
    /\ row' = [row EXCEPT ![op[w].bridge] = [op[w].held EXCEPT !.status = "configuring"]]
    /\ op' = [op EXCEPT ![w].stage = "marked", ![w].held.status = "configuring"]
    /\ UNCHANGED <<live, tunnel, routed, bounds>>

\* tryReuseReservedPeer: the target has a reserved peer, active, and no other row names it.
ReserveFree(w) ==
    /\ op[w].target \in Reserved
    /\ <<op[w].target, 0>> \in live
    /\ \A b \in Bridges \ {op[w].bridge} : row[b].peer # <<op[w].target, 0>>

\* Mutant: the reserved peer is taken without asking who has it.
ChoosePeerAnyReserve(w) ==
    /\ op[w].stage = "marked"
    /\ op' = IF op[w].target \in Reserved
               THEN [op EXCEPT ![w].stage = "disconnecting", ![w].peer = <<op[w].target, 0>>, ![w].reused = TRUE]
               ELSE [op EXCEPT ![w].stage = "creating"]
    /\ UNCHANGED <<row, live, tunnel, routed, bounds>>

ChoosePeer(w) ==
    /\ op[w].stage = "marked"
    /\ op' = IF ReserveFree(w)
               THEN [op EXCEPT ![w].stage = "disconnecting", ![w].peer = <<op[w].target, 0>>, ![w].reused = TRUE]
               ELSE [op EXCEPT ![w].stage = "creating"]
    /\ UNCHANGED <<row, live, tunnel, routed, bounds>>

Mentioned(p) ==
    \/ p \in live
    \/ \E b \in Bridges : p \in {row[b].peer, tunnel[b]}
    \/ \E w \in Busy : p \in {op[w].peer, op[w].held.peer}

\* createSystemPeer: a new key pair, known to the target's server.
CreatePeer(w) ==
    /\ op[w].stage = "creating"
    /\ \E n \in Numbers \ {0} :
        LET p == <<op[w].target, n>>
        IN  /\ ~Mentioned(p)
            /\ live' = live \cup {p}
            /\ op' = [op EXCEPT ![w].stage = "disconnecting", ![w].peer = p]
    /\ UNCHANGED <<row, tunnel, routed, bounds>>

\* disconnectAsClient, when the bridge had an upstream.
Disconnect(w) ==
    /\ op[w].stage = "disconnecting"
    /\ tunnel' = IF op[w].held.upstream = NoTarget THEN tunnel
                                                   ELSE [tunnel EXCEPT ![op[w].bridge] = NoPeer]
    /\ op' = [op EXCEPT ![w].stage = "connecting"]
    /\ UNCHANGED <<row, live, routed, bounds>>

\* connectAsClient: whatever the interface was, it is replaced.
Connect(w) ==
    /\ op[w].stage = "connecting"
    /\ tunnel' = [tunnel EXCEPT ![op[w].bridge] = op[w].peer]
    /\ op' = [op EXCEPT ![w].stage = "routing"]
    /\ UNCHANGED <<row, live, routed, bounds>>

\* Mutant: the rules are installed with the first upstream only.
ConfigureNatOnce(w) ==
    /\ op[w].stage = "routing"
    /\ routed' = IF op[w].held.upstream = NoTarget THEN routed \cup {op[w].bridge} ELSE routed
    /\ op' = [op EXCEPT ![w].stage = "saving"]
    /\ UNCHANGED <<row, live, tunnel, bounds>>

ConfigureNat(w) ==
    /\ op[w].stage = "routing"
    /\ routed' = routed \cup {op[w].bridge}
    /\ op' = [op EXCEPT ![w].stage = "saving"]
    /\ UNCHANGED <<row, live, tunnel, bounds>>

Configured(w) == [upstream |-> op[w].target, peer |-> op[w].peer, status |-> "active"]

\* The old peer, unless it was the reserve of the old upstream, is revoked next.
SaveActive(w) ==
    /\ op[w].stage = "saving"
    /\ row' = [row EXCEPT ![op[w].bridge] = Configured(w)]
    /\ op' = [op EXCEPT ![w] =
                IF op[w].held.peer \notin {NoPeer, <<op[w].held.upstream, 0>>}
                  THEN [@ EXCEPT !.stage = "revoking", !.held = Configured(w), !.peer = op[w].held.peer]
                  ELSE Idle]
    /\ UNCHANGED <<live, tunnel, routed, bounds>>

RevokePrevious(w) ==
    /\ op[w].stage = "revoking"
    /\ live' = live \ {op[w].peer}
    /\ op' = [op EXCEPT ![w] = Idle]
    /\ UNCHANGED <<row, tunnel, routed, bounds>>

-----------------------------------------------------------------------------
(* The steps of a call that fails.                                         *)

\* Where a call goes when SSH fails.  Until connectAsClient has returned, a peer made
\* on the fly is taken back; from then on it is not.
AfterFailure(w) ==
    IF op[w].stage \in {"disconnecting", "connecting"} /\ ~op[w].reused THEN "undoing" ELSE "failing"

\* What a failure leaves of the tunnel: it may already have been taken down, and in
\* connectAsClient the new one may be up when the route through it fails.
Remains(w) ==
    {tunnel[op[w].bridge]}
      \cup (IF op[w].stage \in {"disconnecting", "connecting"} THEN {NoPeer} ELSE {})
      \cup (IF op[w].stage = "connecting" THEN {op[w].peer} ELSE {})

\* Rules that are there in part count as not there.
SshFails(w) ==
    /\ op[w].stage \in Fragile \cap {"creating", "disconnecting", "connecting", "routing", "revoking", "undoing"}
    /\ faults < MaxFaults
    /\ faults' = faults + 1
    /\ \E p \in Remains(w) : tunnel' = [tunnel EXCEPT ![op[w].bridge] = p]
    /\ op' = [op EXCEPT ![w].stage = AfterFailure(w)]
    /\ UNCHANGED <<row, live, routed, restarts, reboots>>

\* Mutant: the peer made for the failed switch stays on the target.
UndoNothing(w) ==
    /\ op[w].stage = "undoing"
    /\ op' = [op EXCEPT ![w].stage = "failing"]
    /\ UNCHANGED <<row, live, tunnel, routed, bounds>>

\* The inner catch: the system peer nobody will use is revoked.
Undo(w) ==
    /\ op[w].stage = "undoing"
    /\ live' = live \ {op[w].peer}
    /\ op' = [op EXCEPT ![w].stage = "failing"]
    /\ UNCHANGED <<row, tunnel, routed, bounds>>

\* The outer catch.
MarkError(w) ==
    /\ op[w].stage = "failing"
    /\ row' = [row EXCEPT ![op[w].bridge] = [op[w].held EXCEPT !.status = "error"]]
    /\ op' = [op EXCEPT ![w] = Idle]
    /\ UNCHANGED <<live, tunnel, routed, bounds>>

\* The backend restarts: the calls are gone, nothing resumes them.
Restart ==
    /\ restarts < MaxRestarts
    /\ restarts' = restarts + 1
    /\ op' = [w \in Workers |-> Idle]
    /\ UNCHANGED <<row, live, tunnel, routed, faults, reboots>>

\* The self-server reboots: interfaces and rules are kernel state.
Reboot ==
    /\ reboots < MaxReboots
    /\ reboots' = reboots + 1
    /\ tunnel' = [b \in Bridges |-> NoPeer]
    /\ routed' = {}
    /\ op' = [w \in Workers |-> [op[w] EXCEPT !.alone = FALSE]]
    /\ UNCHANGED <<row, live, faults, restarts>>

Continue(w) ==
    \/ SaveEdit(w) \/ MarkConfiguring(w) \/ ChoosePeer(w) \/ CreatePeer(w) \/ Disconnect(w)
    \/ Connect(w) \/ ConfigureNat(w) \/ SaveActive(w) \/ RevokePrevious(w) \/ Undo(w) \/ MarkError(w)

Next ==
    \/ \E w \in Workers :
        \/ \E b \in Bridges : BeginEdit(w, b) \/ \E t \in Targets : BeginSwitch(w, b, t)
        \/ Continue(w)
        \/ SshFails(w)
    \/ Restart
    \/ Reboot

Spec == Init /\ [][Next]_vars

-----------------------------------------------------------------------------
(* Properties.                                                             *)

(***************************************************************************)
(* With one call at a time, a bridge whose row says active really is up:   *)
(* its tunnel runs with the recorded peer, that peer is accepted by its    *)
(* server and the routing rules are there, whatever failed or was cut off  *)
(* by a restart before (the order of the steps of setUpstream).  The first *)
(* reboot of the host ends this: nothing brings the tunnels back.          *)
(***************************************************************************)
ActiveMeansConnected ==
    reboots = 0 => \A b \in Bridges : row[b].status = "active" =>
        /\ tunnel[b] = row[b].peer
        /\ row[b].peer \in live
        /\ b \in routed

(***************************************************************************)
(* Whatever overlapping calls, failures, restarts and reboots left behind, *)
(* a switch that ran undisturbed ends with the tunnel up, its peer         *)
(* accepted and owned by no other bridge, and the rules installed (the     *)
(* comment in setUpstream: every switch repairs what may have been lost).  *)
(***************************************************************************)
SwitchRepairs ==
    [][\A w \in Workers : op[w].alone /\ SaveActive(w) =>
        LET b == op[w].bridge
        IN  /\ tunnel[b] = row'[b].peer
            /\ row'[b].peer \in live
            /\ b \in routed
            /\ \A other \in Bridges \ {b} : row[other].peer # row'[b].peer]_vars

\* The calls that work on a bridge, from their first save to their last step.
SwitchesOf(b) ==
    {w \in Workers : op[w].bridge = b /\ op[w].stage \notin {"idle", "editing", "loaded"}}

\* A switch that failed or was cut off left the bridge running with a key that is
\* not the one in its row, and the row does not say active.
Stray(b) ==
    /\ row[b].status \in {"configuring", "error"}
    /\ tunnel[b] \notin {NoPeer, row[b].peer}
    /\ \A w \in SwitchesOf(b) : op[w].stage \notin {"routing", "saving"}

(***************************************************************************)
(* With one call at a time two bridges do not run their tunnels with the   *)
(* same key, whatever fails and whenever backend or host restart, unless   *)
(* one of them is what a failed switch left running: its row does not name *)
(* that key, so tryReuseReservedPeer counts it as free (the comment on     *)
(* reservedUpstreamPeer: used again only if no other bridge has it).       *)
(***************************************************************************)
SeparateKeys ==
    \A b, other \in Bridges :
        b # other /\ tunnel[b] = tunnel[other] /\ tunnel[b] # NoPeer => Stray(b) \/ Stray(other)

(***************************************************************************)
(* With one call at a time, failures up to the connection only and no      *)
(* restart, no system peer outlives its use: each one made on the fly      *)
(* belongs to a bridge (the inner catch and the revocation at the end of   *)
(* setUpstream).                                                           *)
(***************************************************************************)
NoOrphanPeers ==
    restarts = 0 /\ Busy = {} => \A p \in live : p[2] # 0 => \E b \in Bridges : row[b].peer = p

-----------------------------------------------------------------------------
(* Refinement: calls that do not overlap keep what the page promises.      *)

\* What the page shows of the bridges.
Shown == [b \in Bridges |-> [upstream |-> row[b].upstream, status |-> row[b].status]]

\* The servers through which the traffic of the bridges leaves.
Ways == [b \in Bridges |-> IF tunnel[b] \in live /\ b \in routed THEN tunnel[b][1] ELSE NoTarget]

\* What the call had made of the tunnel and of the rules went with a reboot.
WentLate(w) ==
    \/ op[w].stage \in {"routing", "saving"} /\ tunnel[op[w].bridge] # op[w].peer
    \/ op[w].stage = "saving" /\ op[w].bridge \notin routed

Switching == {b \in Bridges : SwitchesOf(b) # {}}
CutOff == {b \in Bridges : \E w \in SwitchesOf(b) : WentLate(w)}

Service == INSTANCE BridgeService
    WITH shown <- Shown, way <- Ways, switching <- Switching, cut <- CutOff

(***************************************************************************)
(* One call at a time keeps what the page promises: a switch changes the   *)
(* way of its own bridge only, and only while that is shown as being       *)
(* configured; it ends as active with the way that is shown, or as an      *)
(* error with the upstream as before (setUpstream with both of its catch   *)
(* blocks, whatever fails and whenever backend or host restart).           *)
(***************************************************************************)
ImplementsService == Service!Spec

=============================================================================

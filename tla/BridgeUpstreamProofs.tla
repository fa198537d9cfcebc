------------------------ MODULE BridgeUpstreamProofs ------------------------
(***************************************************************************)
(* Proofs about BridgeUpstream: the type invariant and that an undisturbed *)
(* switch repairs what there is to repair, for any overlap of calls; for   *)
(* one call at a time, that a bridge whose row says active is connected,   *)
(* whatever fails in whichever stage and whenever the backend restarts;    *)
(* that setUpstream implements BridgeService, what the page promises; that *)
(* bridges share a key only if one is what a failed switch left running;   *)
(* and, if nothing fails after the connection, that no peer outlives its   *)
(* use.  And about BridgeFailover, for any overlap of polls: its polls are *)
(* callers of setUpstream like all others, and leave a server that never   *)
(* was down only for a better one.                                         *)
(***************************************************************************)
EXTENDS BridgeFailover, FiniteSetTheorems, WellFoundedInduction, TLAPS

-----------------------------------------------------------------------------
(* The inductive invariants.                                               *)

\* The stages between the choice of the new peer and the last save.
WithPeer == {"disconnecting", "connecting", "routing", "saving"}

\* What Row asks of the row that SaveActive will write.
PeersOfTarget ==
    \A w \in Workers : op[w].stage \in WithPeer => op[w].peer \in {op[w].target} \X Numbers

TypeInv == TypeOK /\ PeersOfTarget

\* From here on there is one call at a time.
OneCall == \A v, w \in Busy : v = w

\* The object in memory is the row.
HeldIsRow(w) == op[w].held = row[op[w].bridge]

\* While a switch works on the tunnel, the row does not say active.
NotActiveYet(w) ==
    op[w].stage \in WithPeer \cup {"marked", "creating", "undoing"}
      => row[op[w].bridge].status = "configuring"

\* The peer of a switch is accepted by its server and is in no other row.
PeerReady(w) ==
    op[w].stage \in WithPeer =>
        /\ op[w].peer \in live
        /\ \A b \in Bridges \ {op[w].bridge} : row[b].peer # op[w].peer

\* A peer made on the fly is in no row at all; the reserve has number 0.
FreshOrReserve(w) ==
    op[w].stage \in WithPeer \cup {"undoing"} =>
        IF op[w].reused /\ op[w].stage # "undoing"
          THEN op[w].peer = <<op[w].target, 0>>
          ELSE \A b \in Bridges : row[b].peer # op[w].peer

\* Whether the reserve is used is decided by ChoosePeer.
NothingReused(w) == op[w].stage \in {"loaded", "marked", "creating"} => ~op[w].reused

\* The peer that is about to be revoked is in no row.
PreviousIsGone(w) ==
    op[w].stage = "revoking" => \A b \in Bridges : row[b].peer # op[w].peer

\* How far the new connection is.
Progress(w) ==
    reboots = 0 =>
        /\ op[w].stage \in {"routing", "saving"} => tunnel[op[w].bridge] = op[w].peer
        /\ op[w].stage = "saving" => op[w].bridge \in routed

CallInv(w) ==
    /\ HeldIsRow(w) /\ NotActiveYet(w) /\ PeerReady(w) /\ NothingReused(w)
    /\ FreshOrReserve(w) /\ PreviousIsGone(w) /\ Progress(w)

\* No two bridges have the same peer in their rows.
OwnPeers == \A b, other \in Bridges : b # other /\ row[b].peer = row[other].peer => row[b].peer = NoPeer

SerialInv ==
    /\ OneCall
    /\ \A w \in Busy : CallInv(w)
    /\ OwnPeers
    /\ ActiveMeansConnected

-----------------------------------------------------------------------------
(* Types.                                                                  *)

\* A status can be changed in any row: bridges.service.ts assigns it alone.
LEMMA StatusKeepsRow ==
    ASSUME NEW r \in Row, NEW s \in Status
    PROVE  [r EXCEPT !.status = s] \in Row
<1>1. CASE r \in [upstream : {NoTarget}, peer : {NoPeer}, status : Status]
  BY <1>1 DEF Row
<1>2. CASE r \in UNION {[upstream : {t}, peer : {t} \X Numbers, status : Status] : t \in Targets}
  <2>1. PICK t \in Targets : r \in [upstream : {t}, peer : {t} \X Numbers, status : Status]
    BY <1>2
  <2>2. [r EXCEPT !.status = s] \in [upstream : {t}, peer : {t} \X Numbers, status : Status]
    BY <2>1
  <2> QED
    BY <2>2 DEF Row
<1> QED
  BY <1>1, <1>2 DEF Row

\* A target with one of its own peers makes a row: what setUpstream saves at the end.
LEMMA ConfiguredRow ==
    ASSUME NEW t \in Targets, NEW p \in {t} \X Numbers
    PROVE  [upstream |-> t, peer |-> p, status |-> "active"] \in Row
<1>1. [upstream |-> t, peer |-> p, status |-> "active"] \in [upstream : {t}, peer : {t} \X Numbers, status : Status]
  BY DEF Status
<1> QED
  BY <1>1 DEF Row

\* The parts of a row: its peer is no peer or one of Peers, and never without an upstream.
LEMMA RowParts ==
    ASSUME NEW r \in Row
    PROVE  /\ r.upstream \in Targets \cup {NoTarget}
           /\ r.peer \in Peers \cup {NoPeer}
           /\ r.status \in Status
           /\ r.peer # NoPeer => r.upstream \in Targets /\ r.peer \in {r.upstream} \X Numbers
<1>1. CASE r \in [upstream : {NoTarget}, peer : {NoPeer}, status : Status]
  BY <1>1
<1>2. CASE r \in UNION {[upstream : {t}, peer : {t} \X Numbers, status : Status] : t \in Targets}
  <2>1. PICK t \in Targets : r \in [upstream : {t}, peer : {t} \X Numbers, status : Status]
    BY <1>2
  <2>2. r.upstream = t /\ r.peer \in {t} \X Numbers /\ r.status \in Status
    BY <2>1
  <2> QED
    BY <2>2 DEF Peers
<1> QED
  BY <1>1, <1>2 DEF Row

\* The record of a worker that has nothing to do.
LEMMA IdleType == Idle \in Call /\ Idle.stage = "idle" /\ ~Idle.reused
<1>1. (CHOOSE b \in Bridges : TRUE) \in Bridges
  BY SomethingAssumption, Zenon
<1>2. (CHOOSE t \in Targets : TRUE) \in Targets
  BY SomethingAssumption, Zenon
<1> DEFINE someBridge == CHOOSE b \in Bridges : TRUE
           someTarget == CHOOSE t \in Targets : TRUE
           empty == [upstream |-> NoTarget, peer |-> NoPeer, status |-> "not_configured"]
<1>3. empty \in Row
  BY DEF Row, Status
<1>4. Idle = [stage |-> "idle", bridge |-> someBridge, target |-> someTarget, held |-> empty,
              peer |-> NoPeer, reused |-> FALSE, alone |-> FALSE]
  BY DEF Idle
<1>5. someBridge \in Bridges /\ someTarget \in Targets
  BY <1>1, <1>2
<1> HIDE DEF someBridge, someTarget, empty
<1> QED
  BY <1>3, <1>4, <1>5 DEF Call, Stages

\* What Start puts into op.
LEMMA StartType ==
    ASSUME TypeOK, NEW w \in Workers, NEW b \in Bridges, NEW t \in Targets,
           NEW stage \in {"loaded", "editing"}, Start(w, b, t, stage)
    PROVE  /\ op' \in [Workers -> Call]
           /\ op'[w].stage = stage /\ op'[w].bridge = b /\ op'[w].target = t /\ op'[w].held = row[b]
           /\ ~op'[w].reused
           /\ \A v \in Workers \ {w} :
                /\ op'[v].stage = op[v].stage /\ op'[v].bridge = op[v].bridge
                /\ op'[v].target = op[v].target /\ op'[v].held = op[v].held
                /\ op'[v].peer = op[v].peer /\ op'[v].reused = op[v].reused
<1> DEFINE mine == [Idle EXCEPT !.stage = stage, !.bridge = b, !.target = t,
                                !.held = row[b], !.alone = (Busy = {})]
<1>1. mine \in Call /\ mine.stage = stage /\ mine.bridge = b /\ mine.target = t /\ mine.held = row[b]
      /\ ~mine.reused
  <2>1. row[b] \in Row
    BY DEF TypeOK
  <2>2. (Busy = {}) \in BOOLEAN
    OBVIOUS
  <2> QED
    BY <2>1, <2>2, IdleType DEF Call, Stages
<1>2. \A v \in Workers : [op[v] EXCEPT !.alone = FALSE] \in Call
  BY DEF TypeOK, Call
<1>3. op' = [v \in Workers |-> IF v = w THEN mine ELSE [op[v] EXCEPT !.alone = FALSE]]
  BY DEF Start
<1> HIDE DEF mine
<1>4. op' \in [Workers -> Call] /\ op'[w] = mine
  BY <1>1, <1>2, <1>3
<1>5. ASSUME NEW v \in Workers \ {w}
      PROVE  /\ op'[v].stage = op[v].stage /\ op'[v].bridge = op[v].bridge
             /\ op'[v].target = op[v].target /\ op'[v].held = op[v].held
             /\ op'[v].peer = op[v].peer /\ op'[v].reused = op[v].reused
  <2>1. op'[v] = [op[v] EXCEPT !.alone = FALSE]
    BY <1>3
  <2>2. op[v] \in Call
    BY DEF TypeOK
  <2> QED
    BY <2>1, <2>2 DEF Call
<1> QED
  BY <1>1, <1>4, <1>5

\* The type invariant is kept by every step.
LEMMA NextType == TypeInv /\ [Next]_vars => TypeInv'
<1> SUFFICES ASSUME TypeInv, [Next]_vars PROVE TypeInv'
  OBVIOUS
<1> USE IdleType, BoundsAssumption
<1>0. TypeOK /\ PeersOfTarget
  BY DEF TypeInv
<1>1. ASSUME NEW w \in Workers, NEW b \in Bridges, NEW t \in Targets, BeginSwitch(w, b, t) PROVE TypeInv'
  <2>1. Start(w, b, t, "loaded")
    BY <1>1 DEF BeginSwitch
  <2>2. op' \in [Workers -> Call] /\ op'[w].stage = "loaded"
    BY <1>0, <2>1, StartType
  <2>3. \A v \in Workers \ {w} : op'[v].stage = op[v].stage /\ op'[v].peer = op[v].peer /\ op'[v].target = op[v].target
    BY <1>0, <2>1, StartType
  <2>4. PeersOfTarget'
    <3> SUFFICES ASSUME NEW v \in Workers, op'[v].stage \in WithPeer PROVE op'[v].peer \in {op'[v].target} \X Numbers
      BY DEF PeersOfTarget
    <3>2. CASE v = w
      BY <2>2, <3>2 DEF WithPeer
    <3>3. CASE v # w
      BY <1>0, <2>3, <3>3 DEF PeersOfTarget
    <3> QED
      BY <3>2, <3>3
  <2> QED
    BY <1>0, <1>1, <2>2, <2>4 DEF BeginSwitch, bounds, TypeInv, TypeOK
<1>2. ASSUME NEW w \in Workers, NEW b \in Bridges, BeginEdit(w, b) PROVE TypeInv'
  <2>0. Idle.target \in Targets
    BY DEF Call
  <2>1. Start(w, b, Idle.target, "editing")
    BY <1>2 DEF BeginEdit
  <2>2. op' \in [Workers -> Call] /\ op'[w].stage = "editing"
    BY <1>0, <2>0, <2>1, StartType
  <2>3. \A v \in Workers \ {w} : op'[v].stage = op[v].stage /\ op'[v].peer = op[v].peer /\ op'[v].target = op[v].target
    BY <1>0, <2>0, <2>1, StartType
  <2>4. PeersOfTarget'
    <3> SUFFICES ASSUME NEW v \in Workers, op'[v].stage \in WithPeer PROVE op'[v].peer \in {op'[v].target} \X Numbers
      BY DEF PeersOfTarget
    <3>2. CASE v = w
      BY <2>2, <3>2 DEF WithPeer
    <3>3. CASE v # w
      BY <1>0, <2>3, <3>3 DEF PeersOfTarget
    <3> QED
      BY <3>2, <3>3
  <2> QED
    BY <1>0, <1>2, <2>2, <2>4 DEF BeginEdit, bounds, TypeInv, TypeOK
<1>3. ASSUME NEW w \in Workers, SaveEdit(w) PROVE TypeInv'
  BY <1>0, <1>3 DEF SaveEdit, bounds, TypeInv, TypeOK, Call, PeersOfTarget, WithPeer
<1>4. ASSUME NEW w \in Workers, MarkConfiguring(w) PROVE TypeInv'
  <2> DEFINE marked == [op[w].held EXCEPT !.status = "configuring"]
  <2>1. op[w].held \in Row
    BY <1>0 DEF TypeOK, Call
  <2>2. marked \in Row
    BY <2>1, StatusKeepsRow DEF Status
  <2>3. row' = [row EXCEPT ![op[w].bridge] = marked]
    BY <1>4 DEF MarkConfiguring
  <2>4. op' \in [Workers -> Call] /\ op'[w].stage = "marked" /\ \A v \in Workers \ {w} : op'[v] = op[v]
    <3>1. op' = [op EXCEPT ![w] = [op[w] EXCEPT !.stage = "marked", !.held = marked]]
      BY <1>0, <1>4 DEF MarkConfiguring, TypeOK, Call
    <3> HIDE DEF marked
    <3>2. [op[w] EXCEPT !.stage = "marked", !.held = marked] \in Call
      BY <1>0, <2>2 DEF TypeOK, Call, Stages
    <3> QED
      BY <1>0, <3>1, <3>2 DEF TypeOK, Call
  <2> HIDE DEF marked
  <2> QED
    BY <1>0, <1>4, <2>2, <2>3, <2>4 DEF MarkConfiguring, bounds, TypeInv, TypeOK, PeersOfTarget, WithPeer
<1>5. ASSUME NEW w \in Workers, ChoosePeer(w) PROVE TypeInv'
  <2> DEFINE reserve == [op[w] EXCEPT !.stage = "disconnecting", !.peer = <<op[w].target, 0>>, !.reused = TRUE]
             fresh == [op[w] EXCEPT !.stage = "creating"]
  <2>1. 0 \in Numbers /\ op[w].target \in Targets
    BY <1>0 DEF Numbers, TypeOK, Call
  <2>2. reserve \in Call /\ fresh \in Call /\ reserve.peer \in {reserve.target} \X Numbers /\ fresh.stage = "creating"
    BY <1>0, <2>1 DEF TypeOK, Call, Stages, Peers
  <2>3. op' = [op EXCEPT ![w] = reserve] \/ op' = [op EXCEPT ![w] = fresh]
    BY <1>0, <1>5 DEF ChoosePeer, TypeOK, Call
  <2> HIDE DEF reserve, fresh
  <2> QED
    BY <1>0, <1>5, <2>2, <2>3 DEF ChoosePeer, bounds, TypeInv, TypeOK, PeersOfTarget, WithPeer
<1>6. ASSUME NEW w \in Workers, CreatePeer(w) PROVE TypeInv'
  <2>1. PICK n \in Numbers \ {0} :
          /\ live' = live \cup {<<op[w].target, n>>}
          /\ op' = [op EXCEPT ![w].stage = "disconnecting", ![w].peer = <<op[w].target, n>>]
    BY <1>6 DEF CreatePeer
  <2> DEFINE made == <<op[w].target, n>>
             call == [op[w] EXCEPT !.stage = "disconnecting", !.peer = made]
  <2>2. made \in {op[w].target} \X Numbers /\ made \in Peers
    BY <1>0 DEF TypeOK, Call, Peers
  <2>3. live' = live \cup {made}
    BY <2>1
  <2>4. op' = [op EXCEPT ![w] = call]
    BY <1>0, <2>1 DEF TypeOK, Call
  <2> HIDE DEF made
  <2>5. call \in Call /\ call.peer \in {call.target} \X Numbers
    BY <1>0, <2>2 DEF TypeOK, Call, Stages
  <2> HIDE DEF call
  <2> QED
    BY <1>0, <1>6, <2>2, <2>3, <2>4, <2>5 DEF CreatePeer, bounds, TypeInv, TypeOK, PeersOfTarget, WithPeer
<1>7. ASSUME NEW w \in Workers, Disconnect(w) \/ Connect(w) \/ ConfigureNat(w) PROVE TypeInv'
  <2>1. PICK stage \in {"connecting", "routing", "saving"} : op' = [op EXCEPT ![w].stage = stage]
    BY <1>7 DEF Disconnect, Connect, ConfigureNat
  <2>2. op' \in [Workers -> Call] /\ \A v \in Workers : op'[v].peer = op[v].peer /\ op'[v].target = op[v].target
    BY <1>0, <2>1 DEF TypeOK, Call, Stages
  <2>3. op[w].stage \in WithPeer /\ \A v \in Workers \ {w} : op'[v].stage = op[v].stage
    BY <1>0, <1>7, <2>1 DEF Disconnect, Connect, ConfigureNat, WithPeer, TypeOK, Call
  <2>4. PeersOfTarget'
    BY <1>0, <2>2, <2>3 DEF PeersOfTarget
  <2>5. op[w].bridge \in Bridges /\ op[w].peer \in Peers \cup {NoPeer}
    BY <1>0 DEF TypeOK, Call
  <2>6. tunnel' \in [Bridges -> Peers \cup {NoPeer}] /\ routed' \subseteq Bridges
    BY <1>0, <1>7, <2>5 DEF Disconnect, Connect, ConfigureNat, TypeOK
  <2> QED
    BY <1>0, <1>7, <2>2, <2>4, <2>6 DEF Disconnect, Connect, ConfigureNat, bounds, TypeInv, TypeOK
<1>8. ASSUME NEW w \in Workers, SaveActive(w) PROVE TypeInv'
  <2> DEFINE configured == Configured(w)
             revoke == [op[w] EXCEPT !.stage = "revoking", !.held = configured, !.peer = op[w].held.peer]
  <2>1. op[w] \in Call /\ op[w].peer \in {op[w].target} \X Numbers
    BY <1>0, <1>8 DEF SaveActive, TypeOK, PeersOfTarget, WithPeer
  <2>2. configured \in Row
    BY <2>1, ConfiguredRow DEF Configured, Call
  <2>3. row' = [row EXCEPT ![op[w].bridge] = configured]
    BY <1>8 DEF SaveActive
  <2>4. op' = [op EXCEPT ![w] = revoke] \/ op' = [op EXCEPT ![w] = Idle]
    BY <1>0, <1>8 DEF SaveActive, TypeOK, Call
  <2> HIDE DEF configured
  <2>5. op[w].held.peer \in Peers \cup {NoPeer}
    BY <2>1, RowParts DEF Call
  <2>6. revoke \in Call /\ revoke.stage = "revoking"
    BY <2>1, <2>2, <2>5 DEF Call, Stages
  <2>7. op[w].bridge \in Bridges
    BY <2>1 DEF Call
  <2> HIDE DEF revoke
  <2> QED
    BY <1>0, <1>8, <2>2, <2>3, <2>4, <2>6, <2>7 DEF SaveActive, bounds, TypeInv, TypeOK, PeersOfTarget, WithPeer
<1>9. ASSUME NEW w \in Workers, RevokePrevious(w) \/ Undo(w) PROVE TypeInv'
  <2>1. op' = [op EXCEPT ![w] = Idle] \/ op' = [op EXCEPT ![w].stage = "failing"]
    BY <1>9 DEF RevokePrevious, Undo
  <2>2. op' \in [Workers -> Call] /\ op'[w].stage \notin WithPeer /\ \A v \in Workers \ {w} : op'[v] = op[v]
    BY <1>0, <2>1 DEF TypeOK, Call, Stages, WithPeer
  <2> QED
    BY <1>0, <1>9, <2>2 DEF RevokePrevious, Undo, bounds, TypeInv, TypeOK, PeersOfTarget
<1>10. ASSUME NEW w \in Workers, MarkError(w) PROVE TypeInv'
  <2> DEFINE marked == [op[w].held EXCEPT !.status = "error"]
  <2>1. op[w].held \in Row
    BY <1>0 DEF TypeOK, Call
  <2>2. marked \in Row
    BY <2>1, StatusKeepsRow DEF Status
  <2>3. row' = [row EXCEPT ![op[w].bridge] = marked]
    BY <1>10 DEF MarkError
  <2> HIDE DEF marked
  <2> QED
    BY <1>0, <1>10, <2>2, <2>3 DEF MarkError, bounds, TypeInv, TypeOK, PeersOfTarget, WithPeer
<1>11. ASSUME NEW w \in Workers, SshFails(w) PROVE TypeInv'
  <2>1. op' = [op EXCEPT ![w].stage = AfterFailure(w)] /\ AfterFailure(w) \in {"undoing", "failing"}
    BY <1>11 DEF SshFails, AfterFailure
  <2>2. op' \in [Workers -> Call] /\ op'[w].stage \notin WithPeer /\ \A v \in Workers \ {w} : op'[v] = op[v]
    BY <1>0, <2>1 DEF TypeOK, Call, Stages, WithPeer
  <2>3. tunnel' \in [Bridges -> Peers \cup {NoPeer}]
    BY <1>0, <1>11 DEF SshFails, Remains, TypeOK, Call
  <2> QED
    BY <1>0, <1>11, <2>2, <2>3 DEF SshFails, TypeInv, TypeOK, PeersOfTarget
<1>12. CASE Restart
  BY <1>0, <1>12 DEF Restart, TypeInv, TypeOK, PeersOfTarget, WithPeer
<1>13. CASE Reboot
  <2>1. op' \in [Workers -> Call]
    BY <1>0, <1>13 DEF Reboot, TypeOK, Call
  <2>2. \A v \in Workers : op'[v].stage = op[v].stage /\ op'[v].peer = op[v].peer /\ op'[v].target = op[v].target
    BY <1>0, <1>13 DEF Reboot, TypeOK, Call
  <2> QED
    BY <1>0, <1>13, <2>1, <2>2 DEF Reboot, TypeInv, TypeOK, PeersOfTarget
<1>14. CASE UNCHANGED vars
  BY <1>0, <1>14 DEF vars, TypeInv, TypeOK, PeersOfTarget
<1> QED
  BY <1>1, <1>2, <1>3, <1>4, <1>5, <1>6, <1>7, <1>8, <1>9, <1>10, <1>11, <1>12, <1>13, <1>14
  DEF Next, Continue

\* The initial state has the types.
LEMMA InitType == Init => TypeInv
<1> SUFFICES ASSUME Init PROVE TypeInv
  OBVIOUS
<1>1. [upstream |-> NoTarget, peer |-> NoPeer, status |-> "not_configured"] \in Row
  BY DEF Row, Status
<1>2. live \subseteq Peers
  BY ReservedAssumption, BoundsAssumption DEF Init, Peers, Numbers
<1>3. op \in [Workers -> Call] /\ \A w \in Workers : op[w].stage = "idle"
  BY IdleType DEF Init
<1> QED
  BY <1>1, <1>2, <1>3 DEF Init, TypeInv, TypeOK, PeersOfTarget, WithPeer

(***************************************************************************)
(* Every reachable state has its types, for any calls that overlap, any    *)
(* failures, restarts and reboots: in particular the peer a row records is *)
(* always one of the upstream it records (TypeORM maps the upstream twice, *)
(* as a column and as a relation).                                         *)
(***************************************************************************)
THEOREM TypeCorrect == Spec => []TypeOK
<1>1. Init => TypeInv
  BY InitType
<1>2. TypeInv /\ [Next]_vars => TypeInv'
  BY NextType
<1>3. TypeInv => TypeOK
  BY DEF TypeInv
<1> QED
  BY <1>1, <1>2, <1>3, PTL DEF Spec

-----------------------------------------------------------------------------
(* One call at a time.                                                     *)

\* What one worker does is all there is to know of the calls.
LEMMA OnlyThisCall ==
    ASSUME TypeOK, OneCall, NEW w \in Workers, op[w].stage # "idle",
           \A v \in Workers \ {w} : op'[v] = op[v],
           op'[w].stage # "idle" => CallInv(w)'
    PROVE  OneCall' /\ \A v \in Busy' : CallInv(v)'
<1>1. \A v \in Workers \ {w} : op'[v].stage = "idle"
  BY DEF OneCall, Busy
<1>2. \A v \in Busy' : v = w
  BY <1>1 DEF Busy
<1>3. OneCall'
  BY <1>2 DEF OneCall
<1>4. ASSUME NEW v \in Busy' PROVE CallInv(v)'
  <2>1. v = w /\ op'[v].stage # "idle"
    BY <1>2 DEF Busy
  <2> QED
    BY <2>1
<1> QED
  BY <1>3, <1>4

\* A call that starts finds nobody else and takes the row as it is.
LEMMA CallStarts ==
    ASSUME TypeOK, Serial, SerialInv, NEW w \in Workers, NEW b \in Bridges, NEW t \in Targets,
           NEW stage \in {"loaded", "editing"}, Start(w, b, t, stage),
           UNCHANGED <<row, live, tunnel, routed, bounds>>
    PROVE  SerialInv'
<1>1. Busy = {}
  BY DEF Start
<1>2. \A v \in Workers : op[v].stage = "idle"
  BY <1>1 DEF Busy
<1>3. \A v \in Workers \ {w} : op'[v].stage = "idle"
  BY <1>2, StartType
<1>4. op'[w].stage = stage /\ op'[w].bridge = b /\ op'[w].held = row[b] /\ ~op'[w].reused
  BY StartType
<1>5. Busy' = {w}
  BY <1>3, <1>4 DEF Busy
<1>6. CallInv(w)'
  BY <1>4 DEF CallInv, HeldIsRow, NotActiveYet, PeerReady, FreshOrReserve, NothingReused,
     PreviousIsGone, Progress, WithPeer, bounds
<1>7. OneCall' /\ \A v \in Busy' : CallInv(v)'
  BY <1>5, <1>6 DEF OneCall
<1> QED
  BY <1>7 DEF SerialInv, OwnPeers, ActiveMeansConnected, bounds

\* An edit writes back what it loaded, which is still the row.
LEMMA EditKeeps == ASSUME TypeInv, SerialInv, NEW w \in Workers, SaveEdit(w) PROVE SerialInv'
<1>0. TypeOK /\ op[w].stage # "idle" /\ w \in Busy
  BY DEF TypeInv, SaveEdit, Busy
<1>1. op[w].held = row[op[w].bridge] /\ op[w].bridge \in Bridges
  BY <1>0 DEF SerialInv, CallInv, HeldIsRow, TypeOK, Call
<1>2. row' = row
  BY <1>0, <1>1 DEF SaveEdit, TypeOK
<1>3. op'[w].stage = "idle" /\ \A v \in Workers \ {w} : op'[v] = op[v]
  BY <1>0, IdleType DEF SaveEdit, TypeOK
<1>4. OneCall' /\ \A v \in Busy' : CallInv(v)'
  BY <1>0, <1>3, OnlyThisCall DEF SerialInv
<1> QED
  BY <1>2, <1>4 DEF SerialInv, OwnPeers, ActiveMeansConnected, SaveEdit, bounds

\* The first save changes the status only.
LEMMA MarkKeeps == ASSUME TypeInv, SerialInv, NEW w \in Workers, MarkConfiguring(w) PROVE SerialInv'
<1>0. TypeOK /\ op[w].stage = "loaded" /\ w \in Busy
  BY DEF TypeInv, MarkConfiguring, Busy
<1>1. /\ op[w].held = row[op[w].bridge] /\ op[w].bridge \in Bridges /\ op[w].held \in Row
      /\ ~op[w].reused
  BY <1>0 DEF SerialInv, CallInv, HeldIsRow, NothingReused, TypeOK, Call
<1> DEFINE marked == [op[w].held EXCEPT !.status = "configuring"]
<1>2. marked.upstream = op[w].held.upstream /\ marked.peer = op[w].held.peer /\ marked.status = "configuring"
  BY <1>1, StatusKeepsRow, RowParts DEF Status, Row
<1>3. row' = [row EXCEPT ![op[w].bridge] = marked]
  BY DEF MarkConfiguring
<1>4. /\ op'[w].stage = "marked" /\ op'[w].bridge = op[w].bridge /\ op'[w].held = marked
      /\ op'[w].reused = op[w].reused
      /\ \A v \in Workers \ {w} : op'[v] = op[v]
  BY <1>0 DEF MarkConfiguring, TypeOK, Call
<1> HIDE DEF marked
<1>5. row'[op[w].bridge] = marked /\ \A b \in Bridges \ {op[w].bridge} : row'[b] = row[b]
  BY <1>0, <1>1, <1>3 DEF TypeOK
<1>6. CallInv(w)'
  BY <1>1, <1>2, <1>4, <1>5 DEF CallInv, HeldIsRow, NotActiveYet, PeerReady, FreshOrReserve, NothingReused,
     PreviousIsGone, Progress, WithPeer
<1>7. OneCall' /\ \A v \in Busy' : CallInv(v)'
  BY <1>0, <1>4, <1>6, OnlyThisCall DEF SerialInv
<1>8. \A b \in Bridges : row'[b].peer = row[b].peer
  BY <1>1, <1>2, <1>5
<1>9. OwnPeers'
  BY <1>8 DEF SerialInv, OwnPeers
<1>10. ActiveMeansConnected'
  BY <1>1, <1>2, <1>5 DEF SerialInv, ActiveMeansConnected, MarkConfiguring, bounds
<1> QED
  BY <1>7, <1>9, <1>10 DEF SerialInv

\* The reserve is taken only if no other row names it.
LEMMA ChooseKeeps == ASSUME TypeInv, SerialInv, NEW w \in Workers, ChoosePeer(w) PROVE SerialInv'
<1>0. TypeOK /\ op[w].stage = "marked" /\ w \in Busy
  BY DEF TypeInv, ChoosePeer, Busy
<1>1. CallInv(w) /\ op[w].bridge \in Bridges
  BY <1>0 DEF SerialInv, TypeOK, Call
<1>2. /\ op'[w].bridge = op[w].bridge /\ op'[w].held = op[w].held /\ op'[w].target = op[w].target
      /\ \A v \in Workers \ {w} : op'[v] = op[v]
  BY <1>0 DEF ChoosePeer, TypeOK, Call
<1>3. \/ op'[w].stage = "creating"
      \/ /\ ReserveFree(w) /\ op'[w].stage = "disconnecting"
         /\ op'[w].peer = <<op[w].target, 0>> /\ op'[w].reused = TRUE
  BY <1>0 DEF ChoosePeer, TypeOK, Call
<1>4. CallInv(w)'
  <2>1. UNCHANGED <<row, live, tunnel, routed, bounds>>
    BY DEF ChoosePeer
  <2>2. HeldIsRow(w)' /\ NotActiveYet(w)'
    BY <1>0, <1>1, <1>2, <2>1 DEF CallInv, HeldIsRow, NotActiveYet, WithPeer
  <2>3. CASE op'[w].stage = "creating"
    <3>1. ~op[w].reused /\ op'[w].reused = op[w].reused
      BY <1>0, <1>1, <2>3 DEF CallInv, NothingReused, ChoosePeer, TypeOK, Call
    <3> QED
      BY <2>2, <2>3, <3>1 DEF CallInv, PeerReady, FreshOrReserve, NothingReused, PreviousIsGone, Progress, WithPeer
  <2>4. CASE op'[w].stage = "disconnecting"
    <3>1. /\ ReserveFree(w) /\ op'[w].target = op[w].target /\ op'[w].bridge = op[w].bridge
          /\ op'[w].peer = <<op[w].target, 0>> /\ op'[w].reused = TRUE
      BY <1>2, <1>3, <2>4
    <3>2. PeerReady(w)'
      BY <2>1, <3>1 DEF PeerReady, ReserveFree
    <3>3. FreshOrReserve(w)'
      BY <2>4, <3>1 DEF FreshOrReserve
    <3> QED
      BY <2>2, <2>4, <3>2, <3>3 DEF CallInv, NothingReused, PreviousIsGone, Progress
  <2> QED
    BY <1>3, <2>3, <2>4
<1>5. OneCall' /\ \A v \in Busy' : CallInv(v)'
  BY <1>0, <1>2, <1>4, OnlyThisCall DEF SerialInv
<1> QED
  BY <1>5 DEF SerialInv, OwnPeers, ActiveMeansConnected, ChoosePeer, bounds

\* A peer made on the fly is new to every row.
LEMMA CreateKeeps == ASSUME TypeInv, SerialInv, NEW w \in Workers, CreatePeer(w) PROVE SerialInv'
<1>0. TypeOK /\ op[w].stage = "creating" /\ w \in Busy
  BY DEF TypeInv, CreatePeer, Busy
<1>1. CallInv(w) /\ op[w].bridge \in Bridges
  BY <1>0 DEF SerialInv, TypeOK, Call
<1>2. PICK n \in Numbers \ {0} :
        /\ ~Mentioned(<<op[w].target, n>>)
        /\ live' = live \cup {<<op[w].target, n>>}
        /\ op' = [op EXCEPT ![w].stage = "disconnecting", ![w].peer = <<op[w].target, n>>]
  BY DEF CreatePeer
<1> DEFINE made == <<op[w].target, n>>
<1>3. \A b \in Bridges : row[b].peer # made
  BY <1>2 DEF Mentioned
<1>4. /\ op'[w].bridge = op[w].bridge /\ op'[w].held = op[w].held /\ op'[w].reused = op[w].reused
      /\ op'[w].stage = "disconnecting" /\ op'[w].peer = made
      /\ \A v \in Workers \ {w} : op'[v] = op[v]
  BY <1>0, <1>2 DEF TypeOK, Call
<1>5. live' = live \cup {made} /\ UNCHANGED <<row, tunnel, routed, bounds>>
  BY <1>2 DEF CreatePeer
<1>6. ~op[w].reused
  BY <1>0, <1>1 DEF CallInv, NothingReused
<1> HIDE DEF made
<1>7. CallInv(w)'
  BY <1>0, <1>1, <1>3, <1>4, <1>5, <1>6 DEF CallInv, HeldIsRow, NotActiveYet, PeerReady, FreshOrReserve, NothingReused,
     PreviousIsGone, Progress, WithPeer
<1>8. OneCall' /\ \A v \in Busy' : CallInv(v)'
  BY <1>0, <1>4, <1>7, OnlyThisCall DEF SerialInv
<1> QED
  BY <1>5, <1>8 DEF SerialInv, OwnPeers, ActiveMeansConnected, bounds

\* Taking the old tunnel down, bringing the new one up, installing the rules: all
\* of this happens to a bridge whose row does not say active.
LEMMA TunnelKeeps ==
    ASSUME TypeInv, SerialInv, NEW w \in Workers, Disconnect(w) \/ Connect(w) \/ ConfigureNat(w)
    PROVE  SerialInv'
<1>0. TypeOK /\ op[w].stage \in {"disconnecting", "connecting", "routing"} /\ w \in Busy
  BY DEF TypeInv, Disconnect, Connect, ConfigureNat, Busy
<1>1. CallInv(w) /\ op[w].bridge \in Bridges /\ row[op[w].bridge].status = "configuring"
  BY <1>0 DEF SerialInv, TypeOK, Call, CallInv, NotActiveYet, WithPeer
<1>2. /\ op'[w].bridge = op[w].bridge /\ op'[w].held = op[w].held /\ op'[w].target = op[w].target
      /\ op'[w].peer = op[w].peer /\ op'[w].reused = op[w].reused
      /\ \A v \in Workers \ {w} : op'[v] = op[v]
  BY <1>0 DEF Disconnect, Connect, ConfigureNat, TypeOK, Call
<1>3. /\ \/ Disconnect(w) /\ op'[w].stage = "connecting"
         \/ Connect(w) /\ op'[w].stage = "routing" /\ tunnel'[op[w].bridge] = op[w].peer
         \/ /\ ConfigureNat(w) /\ op'[w].stage = "saving" /\ op[w].stage = "routing"
            /\ tunnel' = tunnel /\ op[w].bridge \in routed'
      /\ UNCHANGED <<row, live, bounds>>
      /\ \A b \in Bridges \ {op[w].bridge} : tunnel'[b] = tunnel[b]
      /\ routed \subseteq routed'
  BY <1>0, <1>1 DEF Disconnect, Connect, ConfigureNat, TypeOK, Call
<1>4. CallInv(w)'
  <2>1. HeldIsRow(w)' /\ NotActiveYet(w)' /\ PeerReady(w)'
    BY <1>0, <1>1, <1>2, <1>3 DEF CallInv, HeldIsRow, NotActiveYet, PeerReady, WithPeer
  <2>2. NothingReused(w)' /\ FreshOrReserve(w)' /\ PreviousIsGone(w)'
    BY <1>0, <1>1, <1>2, <1>3 DEF CallInv, NothingReused, FreshOrReserve, PreviousIsGone, WithPeer
  <2>3. Progress(w)'
    BY <1>1, <1>2, <1>3 DEF CallInv, Progress, bounds
  <2> QED
    BY <2>1, <2>2, <2>3 DEF CallInv
<1>5. OneCall' /\ \A v \in Busy' : CallInv(v)'
  BY <1>0, <1>2, <1>4, OnlyThisCall DEF SerialInv
<1>6. ActiveMeansConnected'
  BY <1>1, <1>3 DEF SerialInv, ActiveMeansConnected, bounds
<1> QED
  BY <1>3, <1>5, <1>6 DEF SerialInv, OwnPeers

\* The last save: the row becomes active when everything it says is true.
LEMMA SaveKeeps == ASSUME TypeInv, SerialInv, NEW w \in Workers, SaveActive(w) PROVE SerialInv'
<1>0. TypeOK /\ op[w].stage = "saving" /\ w \in Busy
  BY DEF TypeInv, SaveActive, Busy
<1>1. CallInv(w) /\ op[w] \in Call /\ op[w].bridge \in Bridges /\ op[w].held \in Row
  BY <1>0 DEF SerialInv, TypeOK, Call
<1> DEFINE b == op[w].bridge
           new == op[w].peer
           old == op[w].held.peer
<1>2. /\ row'[b].peer = new /\ row'[b].status = "active" /\ row'[b] = Configured(w)
      /\ \A c \in Bridges \ {b} : row'[c] = row[c]
      /\ UNCHANGED <<live, tunnel, routed, bounds>>
  BY <1>0, <1>1 DEF SaveActive, Configured, TypeOK
<1>3. /\ op[w].held = row[b] /\ new \in live
      /\ \A c \in Bridges \ {b} : row[c].peer # new
      /\ reboots = 0 => tunnel[b] = new /\ b \in routed
  BY <1>0, <1>1 DEF CallInv, HeldIsRow, PeerReady, Progress, WithPeer
<1>4. new # NoPeer /\ new \in {op[w].target} \X Numbers
  BY <1>0, <1>1, NamesAssumption DEF TypeInv, PeersOfTarget, WithPeer, Peers, Call
<1>5. OwnPeers'
  BY <1>1, <1>2, <1>3 DEF SerialInv, OwnPeers
<1>6. ActiveMeansConnected'
  BY <1>1, <1>2, <1>3 DEF SerialInv, ActiveMeansConnected, bounds
<1>7. \A v \in Workers \ {w} : op'[v] = op[v]
  BY <1>0 DEF SaveActive, TypeOK
<1>8. ASSUME op'[w].stage # "idle" PROVE CallInv(w)'
  <2>1. old \notin {NoPeer, <<op[w].held.upstream, 0>>}
    BY <1>0, <1>8, IdleType DEF SaveActive, TypeOK
  <2>2. op' = [op EXCEPT ![w] = [op[w] EXCEPT !.stage = "revoking", !.held = Configured(w), !.peer = old]]
    BY <2>1 DEF SaveActive
  <2>3. op'[w].stage = "revoking" /\ op'[w].held = Configured(w) /\ op'[w].peer = old /\ op'[w].bridge = b
    BY <1>0, <1>1, <2>2 DEF TypeOK, Call
  <2>4. old # new
    <3>1. CASE op[w].reused
      <4>1. new = <<op[w].target, 0>>
        BY <1>0, <1>1, <3>1 DEF CallInv, FreshOrReserve, WithPeer
      <4>2. old \in {op[w].held.upstream} \X Numbers
        BY <1>1, <2>1, RowParts
      <4> QED
        BY <2>1, <4>1, <4>2
    <3>2. CASE ~op[w].reused
      BY <1>0, <1>1, <1>3, <3>2 DEF CallInv, FreshOrReserve, WithPeer
    <3> QED
      BY <3>1, <3>2
  <2>5. \A c \in Bridges : row'[c].peer # old
    BY <1>1, <1>2, <1>3, <2>1, <2>4 DEF SerialInv, OwnPeers
  <2> QED
    BY <1>2, <2>3, <2>5 DEF CallInv, HeldIsRow, NotActiveYet, PeerReady, FreshOrReserve, NothingReused,
       PreviousIsGone, Progress, WithPeer
<1>9. OneCall' /\ \A v \in Busy' : CallInv(v)'
  BY <1>0, <1>7, <1>8, OnlyThisCall DEF SerialInv
<1> QED
  BY <1>5, <1>6, <1>9 DEF SerialInv

\* Both revocations concern a peer that no row names.
LEMMA RevokeKeeps ==
    ASSUME TypeInv, SerialInv, NEW w \in Workers, RevokePrevious(w) \/ Undo(w) PROVE SerialInv'
<1>0. TypeOK /\ op[w].stage \in {"revoking", "undoing"} /\ w \in Busy
  BY DEF TypeInv, RevokePrevious, Undo, Busy
<1>1. CallInv(w) /\ op[w].bridge \in Bridges
  BY <1>0 DEF SerialInv, TypeOK, Call
<1>2. \A b \in Bridges : row[b].peer # op[w].peer
  BY <1>0, <1>1 DEF CallInv, PreviousIsGone, FreshOrReserve
<1>3. live' = live \ {op[w].peer} /\ UNCHANGED <<row, tunnel, routed, bounds>>
  BY DEF RevokePrevious, Undo
<1>4. /\ \A v \in Workers \ {w} : op'[v] = op[v]
      /\ op'[w].stage # "idle" => /\ op'[w].stage = "failing" /\ op'[w].held = op[w].held
                                  /\ op'[w].bridge = op[w].bridge
  BY <1>0, IdleType DEF RevokePrevious, Undo, TypeOK, Call
<1>5. op'[w].stage # "idle" => CallInv(w)'
  BY <1>1, <1>3, <1>4 DEF CallInv, HeldIsRow, NotActiveYet, PeerReady, FreshOrReserve, NothingReused,
     PreviousIsGone, Progress, WithPeer
<1>6. OneCall' /\ \A v \in Busy' : CallInv(v)'
  BY <1>0, <1>4, <1>5, OnlyThisCall DEF SerialInv
<1> QED
  BY <1>2, <1>3, <1>6 DEF SerialInv, OwnPeers, ActiveMeansConnected, bounds

\* A failure hits the tunnel only where the row does not say active.
LEMMA FailureKeeps == ASSUME TypeInv, SerialInv, NEW w \in Workers, SshFails(w) PROVE SerialInv'
<1>0. TypeOK /\ op[w].stage # "idle" /\ w \in Busy
  BY DEF TypeInv, SshFails, Busy
<1>1. CallInv(w) /\ op[w].bridge \in Bridges
  BY <1>0 DEF SerialInv, TypeOK, Call
<1>2. /\ \A v \in Workers \ {w} : op'[v] = op[v]
      /\ op'[w].stage = AfterFailure(w) /\ op'[w].bridge = op[w].bridge /\ op'[w].held = op[w].held
      /\ op'[w].peer = op[w].peer /\ op'[w].reused = op[w].reused
  BY <1>0 DEF SshFails, TypeOK, Call
<1>3. /\ UNCHANGED <<row, live, routed, restarts, reboots>>
      /\ \A b \in Bridges : row[b].status = "active" => tunnel'[b] = tunnel[b]
  <2>1. CASE op[w].stage \in {"disconnecting", "connecting"}
    <3>1. row[op[w].bridge].status # "active"
      BY <1>1, <2>1 DEF CallInv, NotActiveYet, WithPeer
    <3> QED
      BY <1>0, <1>1, <2>1, <3>1 DEF SshFails, TypeOK
  <2>2. CASE op[w].stage \notin {"disconnecting", "connecting"}
    BY <1>0, <2>2 DEF SshFails, Remains, TypeOK
  <2> QED
    BY <2>1, <2>2
<1>4. CallInv(w)'
  <2>1. CASE AfterFailure(w) = "failing"
    BY <1>1, <1>2, <1>3, <2>1 DEF CallInv, HeldIsRow, NotActiveYet, PeerReady, FreshOrReserve, NothingReused,
       PreviousIsGone, Progress, WithPeer
  <2>2. CASE AfterFailure(w) = "undoing"
    <3>1. op[w].stage \in {"disconnecting", "connecting"} /\ ~op[w].reused
      BY <2>2 DEF AfterFailure
    <3> QED
      BY <1>1, <1>2, <1>3, <2>2, <3>1 DEF CallInv, HeldIsRow, NotActiveYet, PeerReady, FreshOrReserve, NothingReused,
         PreviousIsGone, Progress, WithPeer
  <2> QED
    BY <2>1, <2>2 DEF AfterFailure
<1>5. OneCall' /\ \A v \in Busy' : CallInv(v)'
  BY <1>0, <1>2, <1>4, OnlyThisCall DEF SerialInv
<1> QED
  BY <1>3, <1>5 DEF SerialInv, OwnPeers, ActiveMeansConnected

\* The failed call says so in the row, which keeps its old upstream and peer.
LEMMA ErrorKeeps == ASSUME TypeInv, SerialInv, NEW w \in Workers, MarkError(w) PROVE SerialInv'
<1>0. TypeOK /\ op[w].stage = "failing" /\ w \in Busy
  BY DEF TypeInv, MarkError, Busy
<1>1. op[w].held = row[op[w].bridge] /\ op[w].bridge \in Bridges /\ op[w].held \in Row
  BY <1>0 DEF SerialInv, CallInv, HeldIsRow, TypeOK, Call
<1> DEFINE marked == [op[w].held EXCEPT !.status = "error"]
<1>2. marked.peer = op[w].held.peer /\ marked.status = "error"
  BY <1>1, RowParts DEF Status, Row
<1>3. row' = [row EXCEPT ![op[w].bridge] = marked] /\ UNCHANGED <<live, tunnel, routed, bounds>>
  BY DEF MarkError
<1> HIDE DEF marked
<1>4. row'[op[w].bridge] = marked /\ \A b \in Bridges \ {op[w].bridge} : row'[b] = row[b]
  BY <1>0, <1>1, <1>3 DEF TypeOK
<1>5. op'[w].stage = "idle" /\ \A v \in Workers \ {w} : op'[v] = op[v]
  BY <1>0, IdleType DEF MarkError, TypeOK
<1>6. OneCall' /\ \A v \in Busy' : CallInv(v)'
  BY <1>0, <1>5, OnlyThisCall DEF SerialInv
<1>7. \A b \in Bridges : row'[b].peer = row[b].peer
  BY <1>1, <1>2, <1>4
<1>8. OwnPeers'
  BY <1>7 DEF SerialInv, OwnPeers
<1>9. ActiveMeansConnected'
  BY <1>1, <1>2, <1>3, <1>4 DEF SerialInv, ActiveMeansConnected, bounds
<1> QED
  BY <1>6, <1>8, <1>9 DEF SerialInv

\* A restart ends the call wherever it is.
LEMMA RestartKeeps == TypeInv /\ SerialInv /\ Restart => SerialInv'
<1> SUFFICES ASSUME TypeInv, SerialInv, Restart PROVE SerialInv'
  OBVIOUS
<1>1. \A w \in Workers : op'[w].stage = "idle"
  BY IdleType DEF Restart
<1>2. Busy' = {}
  BY <1>1 DEF Busy
<1> QED
  BY <1>2 DEF Restart, SerialInv, OneCall, OwnPeers, ActiveMeansConnected

\* A reboot takes tunnels and rules away; what is said of them ends with it.
LEMMA RebootKeeps == TypeInv /\ SerialInv /\ Reboot => SerialInv'
<1> SUFFICES ASSUME TypeInv, SerialInv, Reboot PROVE SerialInv'
  OBVIOUS
<1>1. TypeOK /\ reboots' # 0
  BY DEF TypeInv, TypeOK, Reboot
<1>2. ASSUME NEW v \in Workers
      PROVE  /\ op'[v].stage = op[v].stage /\ op'[v].bridge = op[v].bridge
             /\ op'[v].target = op[v].target /\ op'[v].held = op[v].held
             /\ op'[v].peer = op[v].peer /\ op'[v].reused = op[v].reused
  <2>1. op'[v] = [op[v] EXCEPT !.alone = FALSE]
    BY DEF Reboot
  <2>2. op[v] \in Call
    BY <1>1 DEF TypeOK
  <2> QED
    BY <2>1, <2>2 DEF Call
<1>3. Busy' = Busy
  BY <1>2 DEF Busy
<1>4. ASSUME NEW v \in Busy PROVE CallInv(v)'
  <2>1. v \in Workers /\ CallInv(v)
    BY DEF SerialInv, Busy
  <2> QED
    BY <1>1, <1>2, <2>1 DEF Reboot, CallInv, HeldIsRow, NotActiveYet, PeerReady, FreshOrReserve, NothingReused,
       PreviousIsGone, Progress, WithPeer
<1> QED
  BY <1>1, <1>3, <1>4 DEF Reboot, SerialInv, OneCall, OwnPeers, ActiveMeansConnected

\* All steps together.
LEMMA SerialStep == Serial /\ TypeInv /\ SerialInv /\ [Next]_vars => SerialInv'
<1> SUFFICES ASSUME Serial, TypeInv, SerialInv, [Next]_vars PROVE SerialInv'
  OBVIOUS
<1>0. TypeOK
  BY DEF TypeInv
<1>1. ASSUME NEW w \in Workers, NEW b \in Bridges, NEW t \in Targets, BeginSwitch(w, b, t) PROVE SerialInv'
  BY <1>0, <1>1, CallStarts DEF BeginSwitch
<1>2. ASSUME NEW w \in Workers, NEW b \in Bridges, BeginEdit(w, b) PROVE SerialInv'
  <2>1. Idle.target \in Targets
    BY IdleType DEF Call
  <2> QED
    BY <1>0, <1>2, <2>1, CallStarts DEF BeginEdit
<1>3. ASSUME NEW w \in Workers, Continue(w) PROVE SerialInv'
  BY <1>3, EditKeeps, MarkKeeps, ChooseKeeps, CreateKeeps, TunnelKeeps, SaveKeeps, RevokeKeeps, ErrorKeeps DEF Continue
<1>4. ASSUME NEW w \in Workers, SshFails(w) PROVE SerialInv'
  BY <1>4, FailureKeeps
<1>5. CASE UNCHANGED vars
  <2>1. UNCHANGED <<row, live, tunnel, routed, op, reboots>>
    BY <1>5 DEF vars
  <2> QED
    BY <2>1 DEF SerialInv, OneCall, Busy, CallInv, HeldIsRow, NotActiveYet, PeerReady, FreshOrReserve, NothingReused,
       PreviousIsGone, Progress, OwnPeers, ActiveMeansConnected
<1> QED
  BY <1>1, <1>2, <1>3, <1>4, <1>5, RestartKeeps, RebootKeeps DEF Next

LEMMA SerialStarts == Init => SerialInv
<1> SUFFICES ASSUME Init PROVE SerialInv
  OBVIOUS
<1>1. Busy = {}
  BY IdleType DEF Init, Busy
<1> QED
  BY <1>1 DEF Init, SerialInv, OneCall, OwnPeers, ActiveMeansConnected

(***************************************************************************)
(* With one call at a time, a row that says active is true until the host  *)
(* reboots: the tunnel runs with the recorded peer, the peer is accepted   *)
(* and the rules are there (setUpstream saves ACTIVE last, and CONFIGURING *)
(* or ERROR in every other case).  SSH may fail in any stage, any number   *)
(* of times, and the backend may restart between any two steps.            *)
(***************************************************************************)
THEOREM ActiveIsConnected ==
    ASSUME Serial
    PROVE  Spec => []ActiveMeansConnected
<1>1. Init => TypeInv /\ SerialInv
  BY InitType, SerialStarts
<1>2. (TypeInv /\ SerialInv) /\ [Next]_vars => (TypeInv /\ SerialInv)'
  BY NextType, SerialStep
<1>3. SerialInv => ActiveMeansConnected
  BY DEF SerialInv
<1> QED
  BY <1>1, <1>2, <1>3, PTL DEF Spec

-----------------------------------------------------------------------------
(* Peers made on the fly.  Here SSH fails in the stages up to the          *)
(* connection only.                                                        *)

UpToConnection == {"creating", "disconnecting", "connecting"}

\* The call has a peer that it has not recorded or revoked yet.
Handling(w) == op[w].stage \in WithPeer \cup {"undoing", "revoking"}

\* A peer made on the fly is in a row, or a call is about to record or revoke it.
PeersAreKnown ==
    \A p \in live : p[2] # 0 =>
        \/ \E b \in Bridges : row[b].peer = p
        \/ \E w \in Busy : Handling(w) /\ op[w].peer = p

UseInv == restarts = 0 => PeersAreKnown

\* With one call at a time only the call that makes a step has to be looked at, ...
Known(w) ==
    \A p \in live : p[2] # 0 =>
        (\E b \in Bridges : row[b].peer = p) \/ (Handling(w) /\ op[w].peer = p)

LEMMA OnlyOneToAsk ==
    ASSUME OneCall, NEW w \in Busy, UseInv, restarts = 0
    PROVE  Known(w)
<1>1. \A v \in Busy : v = w
  BY DEF OneCall
<1> QED
  BY <1>1 DEF UseInv, PeersAreKnown, Known

\* ... before and after it.
LEMMA OnlyOneToTell ==
    ASSUME OneCall, NEW w \in Busy, UNCHANGED restarts, restarts = 0 => Known(w)',
           \A v \in Workers \ {w} : op'[v] = op[v]
    PROVE  UseInv'
<1>1. \A v \in Workers \ {w} : op'[v].stage = "idle"
  BY DEF OneCall, Busy
<1> SUFFICES ASSUME restarts' = 0 PROVE PeersAreKnown'
  BY DEF UseInv
<1>2. Known(w)'
  OBVIOUS
<1>3. Busy' \subseteq {w} /\ (op'[w].stage # "idle" <=> w \in Busy')
  BY <1>1 DEF Busy
<1>4. Handling(w)' => w \in Busy'
  BY <1>3 DEF Handling, WithPeer
<1> QED
  BY <1>2, <1>3, <1>4 DEF PeersAreKnown, Known

\* Before a call starts every peer is in a row.
LEMMA StartKeepsUse ==
    ASSUME Serial, TypeOK, UseInv, NEW w \in Workers, NEW b \in Bridges, NEW t \in Targets,
           NEW stage \in {"loaded", "editing"}, Start(w, b, t, stage),
           UNCHANGED <<row, live, restarts>>
    PROVE  UseInv'
<1>1. Busy = {}
  BY DEF Start
<1>2. restarts = 0 => \A p \in live : p[2] # 0 => \E c \in Bridges : row[c].peer = p
  BY <1>1 DEF UseInv, PeersAreKnown
<1> QED
  BY <1>2 DEF UseInv, PeersAreKnown

\* The steps of a call that leave peers alone.
LEMMA QuietKeepsUse ==
    ASSUME TypeInv, SerialInv, UseInv, NEW w \in Workers,
           SaveEdit(w) \/ MarkConfiguring(w) \/ ChoosePeer(w) \/ MarkError(w)
    PROVE  UseInv'
<1>0. TypeOK /\ w \in Busy /\ op[w].stage \in {"editing", "loaded", "marked", "failing"}
  BY DEF TypeInv, SaveEdit, MarkConfiguring, ChoosePeer, MarkError, Busy
<1>1. op[w].held = row[op[w].bridge] /\ op[w].bridge \in Bridges /\ op[w].held \in Row
  BY <1>0 DEF SerialInv, CallInv, HeldIsRow, TypeOK, Call
<1>2. ASSUME NEW s \in Status
      PROVE  [op[w].held EXCEPT !.status = s].peer = row[op[w].bridge].peer
  BY <1>1 DEF Row
<1>3. \A b \in Bridges : row'[b].peer = row[b].peer
  <2>1. CASE SaveEdit(w)
    BY <1>0, <1>1, <2>1 DEF SaveEdit, TypeOK
  <2>2. CASE MarkConfiguring(w)
    BY <1>0, <1>1, <1>2, <2>2 DEF MarkConfiguring, TypeOK, Status
  <2>3. CASE ChoosePeer(w)
    BY <2>3 DEF ChoosePeer
  <2>4. CASE MarkError(w)
    BY <1>0, <1>1, <1>2, <2>4 DEF MarkError, TypeOK, Status
  <2> QED
    BY <2>1, <2>2, <2>3, <2>4
<1>4. UNCHANGED <<live, restarts>>
  BY DEF SaveEdit, MarkConfiguring, ChoosePeer, MarkError, bounds
<1>5. \A v \in Workers \ {w} : op'[v] = op[v]
  BY <1>0 DEF SaveEdit, MarkConfiguring, ChoosePeer, MarkError, TypeOK
<1>6. restarts = 0 => Known(w)
  BY <1>0, OnlyOneToAsk DEF SerialInv
<1>7. ASSUME restarts = 0 PROVE Known(w)'
  <2>1. \A p \in live' : p[2] # 0 => \E b \in Bridges : row[b].peer = p
    BY <1>0, <1>4, <1>6, <1>7 DEF Known, Handling, WithPeer
  <2>2. \A p \in live' : p[2] # 0 => \E b \in Bridges : row'[b].peer = p
    BY <1>3, <2>1
  <2> QED
    BY <2>2 DEF Known
<1> QED
  BY <1>0, <1>4, <1>5, <1>7, OnlyOneToTell DEF SerialInv

LEMMA CreateKeepsUse ==
    ASSUME TypeInv, SerialInv, UseInv, NEW w \in Workers, CreatePeer(w) PROVE UseInv'
<1>0. TypeOK /\ w \in Busy /\ op[w].stage = "creating"
  BY DEF TypeInv, CreatePeer, Busy
<1>1. PICK n \in Numbers \ {0} :
        /\ live' = live \cup {<<op[w].target, n>>}
        /\ op' = [op EXCEPT ![w].stage = "disconnecting", ![w].peer = <<op[w].target, n>>]
  BY DEF CreatePeer
<1> DEFINE made == <<op[w].target, n>>
<1>2. op'[w].stage = "disconnecting" /\ op'[w].peer = made /\ \A v \in Workers \ {w} : op'[v] = op[v]
  BY <1>0, <1>1 DEF TypeOK, Call
<1>3. live' = live \cup {made} /\ UNCHANGED <<row, restarts>>
  BY <1>1 DEF CreatePeer, bounds
<1> HIDE DEF made
<1>4. restarts = 0 => Known(w)
  BY <1>0, OnlyOneToAsk DEF SerialInv
<1>5. ASSUME restarts = 0 PROVE Known(w)'
  <2>1. \A p \in live : p[2] # 0 => \E b \in Bridges : row'[b].peer = p
    BY <1>0, <1>3, <1>4, <1>5 DEF Known, Handling, WithPeer
  <2>2. Handling(w)'
    BY <1>2 DEF Handling, WithPeer
  <2> QED
    BY <1>2, <1>3, <2>1, <2>2 DEF Known
<1> QED
  BY <1>0, <1>2, <1>3, <1>5, OnlyOneToTell DEF SerialInv

\* The work on the tunnel and the rules does not concern the peers.
LEMMA TunnelKeepsUse ==
    ASSUME TypeInv, SerialInv, UseInv, NEW w \in Workers, Disconnect(w) \/ Connect(w) \/ ConfigureNat(w)
    PROVE  UseInv'
<1>0. TypeOK /\ w \in Busy /\ op[w].stage \in {"disconnecting", "connecting", "routing"}
      /\ op[w].bridge \in Bridges
  BY DEF TypeInv, Disconnect, Connect, ConfigureNat, Busy, TypeOK, Call
<1>1. op'[w].peer = op[w].peer /\ op'[w].stage \in WithPeer
      /\ \A v \in Workers \ {w} : op'[v] = op[v]
  BY <1>0 DEF Disconnect, Connect, ConfigureNat, TypeOK, Call, WithPeer
<1>2. UNCHANGED <<row, live, restarts>>
  BY DEF Disconnect, Connect, ConfigureNat, bounds
<1>3. restarts = 0 => Known(w)
  BY <1>0, OnlyOneToAsk DEF SerialInv
<1>4. restarts = 0 => Known(w)'
  BY <1>0, <1>1, <1>2, <1>3 DEF Known, Handling, WithPeer
<1> QED
  BY <1>0, <1>1, <1>2, <1>4, OnlyOneToTell DEF SerialInv

\* The new peer gets into the row, the old one is about to be revoked.
LEMMA SaveKeepsUse ==
    ASSUME TypeInv, SerialInv, UseInv, NEW w \in Workers, SaveActive(w) PROVE UseInv'
<1>0. TypeOK /\ w \in Busy /\ op[w].stage = "saving" /\ op[w].bridge \in Bridges /\ op[w].held \in Row
  BY DEF TypeInv, SaveActive, Busy, TypeOK, Call
<1>1. op[w].held = row[op[w].bridge]
  BY <1>0 DEF SerialInv, CallInv, HeldIsRow
<1> DEFINE b == op[w].bridge
           old == op[w].held.peer
<1>2. row'[b].peer = op[w].peer /\ (\A c \in Bridges \ {b} : row'[c] = row[c])
      /\ UNCHANGED <<live, restarts>>
  BY <1>0 DEF SaveActive, Configured, TypeOK, bounds
<1>3. \/ old = NoPeer \/ old = <<op[w].held.upstream, 0>>
      \/ op'[w].stage = "revoking" /\ op'[w].peer = old
  <2>1. ASSUME old \notin {NoPeer, <<op[w].held.upstream, 0>>}
        PROVE  op'[w].stage = "revoking" /\ op'[w].peer = old
    <3>1. op' = [op EXCEPT ![w] = [op[w] EXCEPT !.stage = "revoking", !.held = Configured(w), !.peer = old]]
      BY <2>1 DEF SaveActive
    <3> QED
      BY <1>0, <3>1 DEF TypeOK, Call
  <2> QED
    BY <2>1
<1>4. restarts = 0 => Known(w)
  BY <1>0, OnlyOneToAsk DEF SerialInv
<1>5. op'[w].stage \in {"idle", "revoking"} /\ \A v \in Workers \ {w} : op'[v] = op[v]
  BY <1>0, IdleType DEF SaveActive, TypeOK, Call
<1>6. ASSUME restarts = 0 PROVE Known(w)'
  <2>1. ASSUME NEW p \in live', p[2] # 0
        PROVE  (\E c \in Bridges : row'[c].peer = p) \/ (Handling(w)' /\ op'[w].peer = p)
    <3>1. CASE op[w].peer = p
      <4>1. row'[b].peer = p /\ b \in Bridges
        BY <1>0, <1>2, <3>1
      <4> HIDE DEF b
      <4> QED
        BY <4>1
    <3>2. CASE \E c \in Bridges \ {b} : row[c].peer = p
      <4>1. PICK c \in Bridges \ {b} : row[c].peer = p
        BY <3>2
      <4>2. row'[c].peer = p /\ c \in Bridges
        BY <1>2, <4>1
      <4> QED
        BY <4>2
    <3>3. CASE row[b].peer = p
      <4>1. p \in Peers /\ p # NoPeer
        BY <1>0, <1>2, <2>1, NamesAssumption DEF TypeOK
      <4> QED
        BY <1>1, <1>3, <2>1, <3>3, <4>1 DEF Handling
    <3> QED
      BY <1>0, <1>2, <1>4, <1>6, <2>1, <3>1, <3>2, <3>3 DEF Known
  <2> QED
    BY <2>1 DEF Known
<1> QED
  BY <1>0, <1>2, <1>5, <1>6, OnlyOneToTell DEF SerialInv

\* Both revocations take the peer of the call away.
LEMMA RevokeKeepsUse ==
    ASSUME TypeInv, SerialInv, UseInv, NEW w \in Workers, RevokePrevious(w) \/ Undo(w) PROVE UseInv'
<1>0. TypeOK /\ w \in Busy /\ op[w].stage \in {"revoking", "undoing"}
  BY DEF TypeInv, RevokePrevious, Undo, Busy
<1>1. live' = live \ {op[w].peer} /\ UNCHANGED <<row, restarts>>
  BY DEF RevokePrevious, Undo, bounds
<1>2. \A v \in Workers \ {w} : op'[v] = op[v]
  BY <1>0 DEF RevokePrevious, Undo, TypeOK
<1>3. restarts = 0 => Known(w)
  BY <1>0, OnlyOneToAsk DEF SerialInv
<1>4. restarts = 0 => Known(w)'
  BY <1>0, <1>1, <1>3 DEF Known
<1> QED
  BY <1>0, <1>1, <1>2, <1>4, OnlyOneToTell DEF SerialInv

\* A call that fails before the connection takes back the peer it made.
LEMMA FailureKeepsUse ==
    ASSUME Fragile \subseteq UpToConnection, TypeInv, SerialInv, UseInv, NEW w \in Workers, SshFails(w)
    PROVE  UseInv'
<1>0. TypeOK /\ w \in Busy /\ op[w].stage \in UpToConnection
  BY DEF TypeInv, SshFails, Busy, UpToConnection
<1>1. UNCHANGED <<row, live, restarts>>
  BY DEF SshFails
<1>2. /\ op'[w].stage = AfterFailure(w) /\ op'[w].peer = op[w].peer
      /\ \A v \in Workers \ {w} : op'[v] = op[v]
  BY <1>0 DEF SshFails, TypeOK, Call
<1>3. restarts = 0 => Known(w)
  BY <1>0, OnlyOneToAsk DEF SerialInv
<1>4. op[w].stage \in {"disconnecting", "connecting"} /\ op[w].reused => op[w].peer[2] = 0
  BY <1>0 DEF SerialInv, CallInv, FreshOrReserve, WithPeer
<1>5. restarts = 0 => Known(w)'
  BY <1>0, <1>1, <1>2, <1>3, <1>4 DEF Known, Handling, WithPeer, AfterFailure, UpToConnection
<1> QED
  BY <1>0, <1>1, <1>2, <1>5, OnlyOneToTell DEF SerialInv

\* All steps together; a restart ends what is said, a reboot does not concern it.
LEMMA UseStep ==
    Serial /\ Fragile \subseteq UpToConnection /\ TypeInv /\ SerialInv /\ UseInv /\ [Next]_vars => UseInv'
<1> SUFFICES ASSUME Serial, Fragile \subseteq UpToConnection, TypeInv, SerialInv, UseInv, [Next]_vars
             PROVE  UseInv'
  OBVIOUS
<1>0. TypeOK
  BY DEF TypeInv
<1>1. ASSUME NEW w \in Workers, NEW b \in Bridges, NEW t \in Targets, BeginSwitch(w, b, t) PROVE UseInv'
  BY <1>0, <1>1, StartKeepsUse DEF BeginSwitch, bounds
<1>2. ASSUME NEW w \in Workers, NEW b \in Bridges, BeginEdit(w, b) PROVE UseInv'
  <2>1. Idle.target \in Targets
    BY IdleType DEF Call
  <2> QED
    BY <1>0, <1>2, <2>1, StartKeepsUse DEF BeginEdit, bounds
<1>3. ASSUME NEW w \in Workers, Continue(w) PROVE UseInv'
  BY <1>3, QuietKeepsUse, CreateKeepsUse, TunnelKeepsUse, SaveKeepsUse, RevokeKeepsUse DEF Continue
<1>4. ASSUME NEW w \in Workers, SshFails(w) PROVE UseInv'
  BY <1>4, FailureKeepsUse
<1>5. CASE Restart
  <2>1. restarts' # 0
    BY <1>0, <1>5 DEF Restart, TypeOK
  <2> QED
    BY <2>1 DEF UseInv
<1>6. CASE Reboot
  <2>1. /\ \A v \in Workers : op'[v].stage = op[v].stage /\ op'[v].peer = op[v].peer
        /\ UNCHANGED <<row, live, restarts>>
    BY <1>0, <1>6 DEF Reboot, TypeOK, Call
  <2>2. Busy' = Busy
    BY <2>1 DEF Busy
  <2> QED
    BY <2>1, <2>2 DEF UseInv, PeersAreKnown, Handling, Busy
<1>7. CASE UNCHANGED vars
  BY <1>7 DEF vars, UseInv, PeersAreKnown, Handling, Busy
<1> QED
  BY <1>1, <1>2, <1>3, <1>4, <1>5, <1>6, <1>7 DEF Next

LEMMA UseInvariant ==
    ASSUME Serial, Fragile \subseteq UpToConnection
    PROVE  Spec => [](TypeInv /\ SerialInv /\ UseInv)
<1>1. Init => TypeInv /\ SerialInv /\ UseInv
  <2> SUFFICES ASSUME Init PROVE TypeInv /\ SerialInv /\ UseInv
    OBVIOUS
  <2>1. UseInv
    BY DEF Init, UseInv, PeersAreKnown
  <2> QED
    BY <2>1, InitType, SerialStarts
<1>2. (TypeInv /\ SerialInv /\ UseInv) /\ [Next]_vars => (TypeInv /\ SerialInv /\ UseInv)'
  BY NextType, SerialStep, UseStep
<1> QED
  BY <1>1, <1>2, PTL DEF Spec

(***************************************************************************)
(* No peer made on the fly outlives its use: the inner catch of            *)
(* setUpstream revokes it when the connection fails, and the next switch   *)
(* that succeeds revokes the one before.                                   *)
(***************************************************************************)
THEOREM PeersAreUsed ==
    ASSUME Serial, Fragile \subseteq UpToConnection
    PROVE  Spec => []NoOrphanPeers
<1>1. UseInv => NoOrphanPeers
  BY DEF UseInv, PeersAreKnown, NoOrphanPeers
<1> QED
  BY <1>1, UseInvariant, PTL

-----------------------------------------------------------------------------
(* A switch that runs undisturbed, for any overlap of calls before it.     *)

\* Nobody else is at work, and the new connection is as far as the call is.
OnItsOwn(w) ==
    /\ \A v \in Workers \ {w} : op[v].stage = "idle"
    /\ PeerReady(w)
    /\ op[w].stage \in {"routing", "saving"} => tunnel[op[w].bridge] = op[w].peer
    /\ op[w].stage = "saving" => op[w].bridge \in routed

AloneInv == \A w \in Workers : op[w].alone => op[w].stage # "idle" /\ OnItsOwn(w)

\* The steps of a call are the call's own, and do not begin anything.
Begins(w) == \E b \in Bridges : BeginEdit(w, b) \/ \E t \in Targets : BeginSwitch(w, b, t)

LEMMA AloneStarts == Init => AloneInv
BY DEF Init, AloneInv, Idle

LEMMA BeginKeepsAlone ==
    ASSUME TypeInv, AloneInv, NEW w \in Workers, Begins(w)
    PROVE  AloneInv'
<1>1. /\ op[w].stage = "idle"
      /\ op'[w].alone = (Busy = {}) /\ op'[w].stage \in {"editing", "loaded"}
      /\ \A v \in Workers \ {w} : op'[v].alone = FALSE /\ op'[v].stage = op[v].stage
  <2>1. PICK b \in Bridges, t \in Targets \cup {Idle.target}, stage \in {"editing", "loaded"} : Start(w, b, t, stage)
    BY DEF Begins, BeginEdit, BeginSwitch
  <2>2. /\ op[w].stage = "idle" /\ (Busy = {}) \in BOOLEAN
        /\ op' = [v \in Workers |->
                    IF v = w
                      THEN [Idle EXCEPT !.stage = stage, !.bridge = b, !.target = t,
                                        !.held = row[b], !.alone = (Busy = {})]
                      ELSE [op[v] EXCEPT !.alone = FALSE]]
    BY <2>1 DEF Start
  <2>3. op'[w].alone = (Busy = {}) /\ op'[w].stage = stage
    BY <2>2 DEF Idle
  <2>4. \A v \in Workers \ {w} : op'[v].alone = FALSE /\ op'[v].stage = op[v].stage
    BY <2>2 DEF TypeInv, TypeOK, Call
  <2> QED
    BY <2>2, <2>3, <2>4
<1> SUFFICES ASSUME op'[w].alone PROVE op'[w].stage # "idle" /\ OnItsOwn(w)'
  BY <1>1 DEF AloneInv
<1>2. \A v \in Workers : op[v].stage = "idle"
  BY <1>1 DEF Busy
<1> QED
  BY <1>1, <1>2 DEF OnItsOwn, PeerReady, WithPeer

LEMMA ContinueKeepsAlone ==
    ASSUME TypeInv, AloneInv, NEW w \in Workers, Continue(w) \/ SshFails(w)
    PROVE  AloneInv'
<1>1. op[w].stage # "idle"
  BY DEF Continue, SaveEdit, MarkConfiguring, ChoosePeer, CreatePeer, Disconnect, Connect, ConfigureNat,
         SaveActive, RevokePrevious, Undo, MarkError, SshFails
<1>2. \A v \in Workers \ {w} : op'[v] = op[v] /\ ~op[v].alone
  BY <1>1 DEF Continue, SaveEdit, MarkConfiguring, ChoosePeer, CreatePeer, Disconnect, Connect, ConfigureNat,
         SaveActive, RevokePrevious, Undo, MarkError, SshFails, TypeInv, TypeOK, AloneInv, OnItsOwn
<1> SUFFICES ASSUME op'[w].alone PROVE op'[w].stage # "idle" /\ OnItsOwn(w)'
  BY <1>2 DEF AloneInv
<1>3. ~Idle.alone
  BY DEF Idle
<1>4. op[w] \in Call
  BY DEF TypeInv, TypeOK
<1>5. CASE SaveEdit(w) \/ RevokePrevious(w) \/ MarkError(w)
  BY <1>3, <1>5 DEF SaveEdit, RevokePrevious, MarkError, TypeInv, TypeOK
<1>6. CASE MarkConfiguring(w) \/ Undo(w) \/ SshFails(w)
  <2>1. /\ op'[w].alone = op[w].alone
        /\ op'[w].stage \in {"marked", "failing", "undoing"}
    <3>1. CASE MarkConfiguring(w)
      BY <1>4, <3>1 DEF MarkConfiguring, TypeInv, TypeOK, Call
    <3>2. CASE Undo(w)
      BY <1>4, <3>2 DEF Undo, TypeInv, TypeOK, Call
    <3>3. CASE SshFails(w)
      <4>1. op' = [op EXCEPT ![w].stage = "undoing"] \/ op' = [op EXCEPT ![w].stage = "failing"]
        BY <3>3 DEF SshFails, AfterFailure
      <4> QED
        BY <1>4, <4>1 DEF TypeInv, TypeOK, Call
    <3> QED
      BY <1>6, <3>1, <3>2, <3>3
  <2> QED
    BY <1>2, <2>1 DEF AloneInv, OnItsOwn, PeerReady, WithPeer
<1>7. CASE ChoosePeer(w)
  <2>1. /\ op'[w].alone = op[w].alone /\ op'[w].bridge = op[w].bridge
        /\ \/ op'[w].stage = "creating"
           \/ ReserveFree(w) /\ op'[w].stage = "disconnecting" /\ op'[w].peer = <<op[w].target, 0>>
        /\ row' = row /\ live' = live
    BY <1>4, <1>7 DEF ChoosePeer, TypeInv, TypeOK, Call
  <2> QED
    BY <1>2, <2>1 DEF AloneInv, OnItsOwn, PeerReady, ReserveFree, WithPeer
<1>8. CASE CreatePeer(w)
  <2>1. PICK n \in Numbers \ {0} :
          /\ ~Mentioned(<<op[w].target, n>>)
          /\ live' = live \cup {<<op[w].target, n>>}
          /\ op' = [op EXCEPT ![w].stage = "disconnecting", ![w].peer = <<op[w].target, n>>]
          /\ row' = row
    BY <1>8 DEF CreatePeer
  <2>2. /\ op'[w].alone = op[w].alone /\ op'[w].bridge = op[w].bridge
        /\ op'[w].stage = "disconnecting" /\ op'[w].peer = <<op[w].target, n>>
    BY <1>4, <2>1 DEF TypeInv, TypeOK, Call
  <2>3. \A b \in Bridges : row[b].peer # <<op[w].target, n>>
    BY <2>1 DEF Mentioned
  <2> DEFINE p == <<op[w].target, n>>
  <2>4. p \in live' /\ \A b \in Bridges : row'[b].peer # p
    BY <2>1, <2>3
  <2>5. op'[w].peer = p
    BY <2>2
  <2> HIDE DEF p
  <2>6. PeerReady(w)'
    BY <2>4, <2>5 DEF PeerReady
  <2> QED
    BY <1>2, <2>2, <2>6 DEF AloneInv, OnItsOwn
<1>9. CASE Disconnect(w) \/ Connect(w) \/ ConfigureNat(w)
  <2>1. /\ op'[w].alone = op[w].alone /\ op'[w].bridge = op[w].bridge /\ op'[w].peer = op[w].peer
        /\ op[w].stage \in WithPeer /\ op'[w].stage \in WithPeer
        /\ row' = row /\ live' = live
    <3>1. PICK stage \in {"connecting", "routing", "saving"} : op' = [op EXCEPT ![w].stage = stage]
      BY <1>9 DEF Disconnect, Connect, ConfigureNat
    <3> QED
      BY <1>4, <1>9, <3>1 DEF Disconnect, Connect, ConfigureNat, TypeInv, TypeOK, Call, WithPeer
  <2>2. OnItsOwn(w) /\ op[w].bridge \in Bridges
    BY <1>4, <2>1 DEF AloneInv, Call
  <2>3. PeerReady(w)'
    BY <2>1, <2>2 DEF OnItsOwn, PeerReady
  <2>4. CASE Disconnect(w)
    BY <1>2, <1>4, <2>1, <2>2, <2>3, <2>4 DEF Disconnect, OnItsOwn, TypeInv, TypeOK, Call
  <2>5. CASE Connect(w)
    BY <1>2, <1>4, <2>1, <2>2, <2>3, <2>5 DEF Connect, OnItsOwn, TypeInv, TypeOK, Call
  <2>6. CASE ConfigureNat(w)
    BY <1>2, <1>4, <2>1, <2>2, <2>3, <2>6 DEF ConfigureNat, OnItsOwn, TypeInv, TypeOK, Call
  <2> QED
    BY <1>9, <2>1, <2>4, <2>5, <2>6 DEF WithPeer
<1>10. CASE SaveActive(w)
  <2>1. op'[w].stage \in {"idle", "revoking"} /\ op'[w].alone => op'[w].stage = "revoking" /\ op[w].alone
    BY <1>3, <1>4, <1>10 DEF SaveActive, TypeInv, TypeOK, Call
  <2>2. op'[w].stage \in {"idle", "revoking"}
    BY <1>4, <1>10, IdleType DEF SaveActive, TypeInv, TypeOK, Call, Idle
  <2> QED
    BY <1>2, <2>1, <2>2 DEF AloneInv, OnItsOwn, PeerReady, WithPeer
<1> QED
  BY <1>5, <1>6, <1>7, <1>8, <1>9, <1>10 DEF Continue

LEMMA AloneStep == TypeInv /\ AloneInv /\ [Next]_vars => AloneInv'
<1> SUFFICES ASSUME TypeInv, AloneInv, [Next]_vars PROVE AloneInv'
  OBVIOUS
<1>1. ASSUME NEW w \in Workers, Begins(w) PROVE AloneInv'
  BY <1>1, BeginKeepsAlone
<1>2. ASSUME NEW w \in Workers, Continue(w) \/ SshFails(w) PROVE AloneInv'
  BY <1>2, ContinueKeepsAlone
<1>3. CASE Restart
  BY <1>3 DEF Restart, AloneInv, Idle
<1>4. CASE Reboot
  BY <1>4 DEF Reboot, AloneInv, TypeInv, TypeOK, Call
<1>5. CASE UNCHANGED vars
  BY <1>5 DEF vars, AloneInv, OnItsOwn, PeerReady
<1> QED
  BY <1>1, <1>2, <1>3, <1>4, <1>5 DEF Next, Begins

(***************************************************************************)
(* A switch during which nothing else happened ends with the tunnel up     *)
(* with the recorded peer, accepted and in no other row, and with the      *)
(* rules installed, whatever overlaps, failures, restarts and reboots came *)
(* before it: setUpstream asks for nothing it does not set up itself.      *)
(***************************************************************************)
THEOREM UndisturbedSwitchesRepair == Spec => SwitchRepairs
<1> DEFINE Repairs ==
      \A w \in Workers : op[w].alone /\ SaveActive(w) =>
        LET b == op[w].bridge
        IN  /\ tunnel[b] = row'[b].peer
            /\ row'[b].peer \in live
            /\ b \in routed
            /\ \A other \in Bridges \ {b} : row[other].peer # row'[b].peer
<1>1. TypeInv /\ AloneInv /\ [Next]_vars => [Repairs]_vars
  <2> SUFFICES ASSUME TypeInv, AloneInv, NEW w \in Workers, op[w].alone, SaveActive(w)
               PROVE  LET b == op[w].bridge
                      IN  /\ tunnel[b] = row'[b].peer
                          /\ row'[b].peer \in live
                          /\ b \in routed
                          /\ \A other \in Bridges \ {b} : row[other].peer # row'[b].peer
    OBVIOUS
  <2>1. op[w].stage = "saving" /\ op[w].bridge \in Bridges /\ OnItsOwn(w)
    BY DEF SaveActive, AloneInv, TypeInv, TypeOK, Call
  <2>2. row'[op[w].bridge].peer = op[w].peer
    BY <2>1 DEF SaveActive, Configured, TypeInv, TypeOK
  <2> QED
    BY <2>1, <2>2 DEF OnItsOwn, PeerReady, WithPeer
<1>2. Init => TypeInv /\ AloneInv
  BY InitType, AloneStarts
<1>3. TypeInv /\ AloneInv /\ [Next]_vars => TypeInv' /\ AloneInv'
  BY NextType, AloneStep
<1> QED
  BY <1>1, <1>2, <1>3, PTL DEF Spec, SwitchRepairs

-----------------------------------------------------------------------------
(* Whose tunnels are whose, with one call at a time, whatever fails.        *)

\* No call, and no other bridge, has to do with the tunnel of a bridge, unless it runs
\* with the reserved peer, which is never revoked.
TunnelsApart ==
    \A b, other \in Bridges :
        b # other /\ tunnel[other] = row[b].peer => tunnel[other] \in {NoPeer} \cup (Targets \X {0})

\* Unless the row says that a switch is on its way or has failed, the bridge runs with
\* the peer of its row or not at all.
AtRest(b) == row[b].status \notin {"configuring", "error"} => tunnel[b] \in {NoPeer, row[b].peer}

\* What a call has made, or is to revoke, is in no tunnel but the one it brought up,
\* which a failed connection may leave.
Unused(p) == p # NoPeer /\ \A b \in Bridges : tunnel[b] # p
UnusedButAt(b, p) == p # NoPeer /\ \A c \in Bridges \ {b} : tunnel[c] # p

TunnelFits(w) ==
    /\ op[w].stage \in {"disconnecting", "connecting"} /\ ~op[w].reused => Unused(op[w].peer)
    /\ op[w].stage = "undoing" => UnusedButAt(op[w].bridge, op[w].peer)
    /\ op[w].stage = "revoking" => Unused(op[w].peer)
    /\ op[w].stage \in {"routing", "saving"} =>
        /\ tunnel[op[w].bridge] \in {NoPeer, op[w].peer}
        /\ ~op[w].reused => \A b \in Bridges \ {op[w].bridge} : tunnel[b] # op[w].peer

WaysInv == TunnelsApart /\ (\A b \in Bridges : AtRest(b)) /\ \A w \in Busy : TunnelFits(w)

LEMMA WaysStart == Init => WaysInv
<1> SUFFICES ASSUME Init PROVE WaysInv
  OBVIOUS
<1>1. Busy = {}
  BY IdleType DEF Init, Busy
<1> QED
  BY <1>1 DEF Init, WaysInv, TunnelsApart, AtRest

\* With one call at a time only the call that makes a step has to be looked at.
LEMMA OnlyThisFits ==
    ASSUME SerialInv, NEW w \in Busy, \A v \in Workers \ {w} : op'[v] = op[v],
           op'[w].stage # "idle" => TunnelFits(w)'
    PROVE  \A v \in Busy' : TunnelFits(v)'
<1>1. \A v \in Workers \ {w} : op'[v].stage = "idle"
  BY DEF SerialInv, OneCall, Busy
<1> QED
  BY <1>1 DEF Busy

\* The stages that have not got a peer yet, and those at the ends of a call.
Peerless == {"editing", "loaded", "marked", "creating", "failing"}

LEMMA NothingToFit == ASSUME NEW w \in Workers, op'[w].stage \in Peerless PROVE TunnelFits(w)'
BY DEF TunnelFits, Peerless

LEMMA ChoiceKeepsWays ==
    ASSUME TypeInv, SerialInv, WaysInv, NEW w \in Busy, ChoosePeer(w) \/ CreatePeer(w)
    PROVE  WaysInv'
<1>0. TypeOK /\ w \in Workers /\ UNCHANGED <<row, tunnel>> /\ \A v \in Workers \ {w} : op'[v] = op[v]
  BY DEF TypeInv, TypeOK, Busy, ChoosePeer, CreatePeer
<1>1. ASSUME op'[w].stage # "idle" PROVE TunnelFits(w)'
  <2>1. CASE ChoosePeer(w)
    <3>1. op'[w].stage = "creating" \/ (op'[w].stage = "disconnecting" /\ op'[w].reused)
      BY <1>0, <2>1 DEF ChoosePeer, TypeOK, Call
    <3> QED
      BY <3>1 DEF TunnelFits
  <2>2. CASE CreatePeer(w)
    <3>1. PICK n \in Numbers \ {0} :
            ~Mentioned(<<op[w].target, n>>) /\ op' = [op EXCEPT ![w].stage = "disconnecting", ![w].peer = <<op[w].target, n>>]
      BY <2>2 DEF CreatePeer
    <3>2. op'[w].stage = "disconnecting" /\ op'[w].peer = <<op[w].target, n>>
      BY <1>0, <3>1 DEF TypeOK, Call
    <3>3. \A b \in Bridges : tunnel[b] # <<op[w].target, n>>
      BY <3>1 DEF Mentioned
    <3>4. <<op[w].target, n>> # NoPeer
      BY <1>0, NamesAssumption DEF TypeOK, Call, Peers
    <3> QED
      BY <1>0, <3>2, <3>3, <3>4 DEF TunnelFits, Unused
  <2> QED
    BY <2>1, <2>2
<1>2. \A v \in Busy' : TunnelFits(v)'
  BY <1>0, <1>1, OnlyThisFits
<1> QED
  BY <1>0, <1>2 DEF WaysInv, TunnelsApart, AtRest

\* What happens to the tunnel of the bridge that is being switched.
LEMMA ConnectionKeepsWays ==
    ASSUME TypeInv, SerialInv, WaysInv, NEW w \in Busy,
           Disconnect(w) \/ Connect(w) \/ ConfigureNat(w) \/ SshFails(w)
    PROVE  WaysInv'
<1>0. TypeOK /\ w \in Workers /\ op[w].bridge \in Bridges /\ TunnelFits(w) /\ CallInv(w)
  BY DEF TypeInv, TypeOK, Call, Busy, WaysInv, SerialInv
<1> DEFINE b == op[w].bridge
           p == op[w].peer
<1>1. /\ row' = row
      /\ op'[w].bridge = b /\ op'[w].peer = p /\ op'[w].reused = op[w].reused /\ op'[w].target = op[w].target
      /\ \A v \in Workers \ {w} : op'[v] = op[v]
      /\ \A c \in Bridges \ {b} : tunnel'[c] = tunnel[c]
      /\ tunnel'[b] \in {tunnel[b], NoPeer, p}
  BY <1>0 DEF Disconnect, Connect, ConfigureNat, SshFails, Remains, TypeOK, Call
<1>2. tunnel'[b] = p /\ tunnel[b] # p => op[w].stage = "connecting" \/ p = NoPeer
  BY <1>0 DEF Disconnect, Connect, ConfigureNat, SshFails, Remains, TypeOK, Call
<1>3. p \in Peers \cup {NoPeer}
  BY <1>0 DEF TypeOK, Call
<1>4. TunnelsApart'
  <2> SUFFICES ASSUME NEW a \in Bridges, NEW c \in Bridges, a # c, tunnel'[c] = row[a].peer, tunnel'[c] # NoPeer
               PROVE  tunnel'[c] \in Targets \X {0}
    BY <1>1 DEF TunnelsApart
  <2>1. CASE tunnel'[c] = tunnel[c]
    BY <2>1 DEF WaysInv, TunnelsApart
  <2>2. CASE tunnel'[c] # tunnel[c]
    <3>1. c = b /\ tunnel'[c] = p /\ op[w].stage = "connecting"
      BY <1>1, <1>2, <2>2
    <3> QED
      BY <1>0, <3>1 DEF CallInv, PeerReady, WithPeer
  <2> QED
    BY <2>1, <2>2
<1>5. \A c \in Bridges : AtRest(c)'
  <2>1. tunnel'[b] # tunnel[b] => op[w].stage \in {"disconnecting", "connecting"}
    BY <1>0 DEF Disconnect, Connect, ConfigureNat, SshFails, Remains, TypeOK, Call
  <2>2. tunnel'[b] # tunnel[b] => row[b].status = "configuring"
    BY <1>0, <2>1 DEF CallInv, NotActiveYet, WithPeer
  <2> QED
    BY <1>0, <1>1, <2>2 DEF WaysInv, AtRest
<1>6. ASSUME op'[w].stage # "idle" PROVE TunnelFits(w)'
  <2>1. CASE Disconnect(w)
    <3>1. op[w].stage = "disconnecting" /\ op'[w].stage = "connecting" /\ p \in Peers /\ tunnel'[b] \in {tunnel[b], NoPeer}
      BY <1>0, <2>1 DEF Disconnect, TypeOK, Call, TypeInv, PeersOfTarget, WithPeer, Peers
    <3> QED
      BY <1>0, <1>1, <3>1, NamesAssumption DEF TunnelFits, Unused
  <2>2. CASE Connect(w)
    <3>1. op[w].stage = "connecting" /\ op'[w].stage = "routing" /\ tunnel'[b] = p
      BY <1>0, <2>2 DEF Connect, TypeOK, Call
    <3> QED
      BY <1>0, <1>1, <3>1 DEF TunnelFits, Unused
  <2>3. CASE ConfigureNat(w)
    <3>1. op[w].stage = "routing" /\ op'[w].stage = "saving" /\ tunnel' = tunnel
      BY <1>0, <2>3 DEF ConfigureNat, TypeOK, Call
    <3> QED
      BY <1>0, <1>1, <3>1 DEF TunnelFits, Unused
  <2>4. CASE SshFails(w)
    <3>1. op'[w].stage = AfterFailure(w)
      BY <1>0, <2>4 DEF SshFails, TypeOK, Call
    <3>2. CASE AfterFailure(w) = "undoing"
      <4>1. op[w].stage \in {"disconnecting", "connecting"} /\ ~op[w].reused
        BY <3>2 DEF AfterFailure
      <4>2. p \in Peers
        BY <1>0, <4>1 DEF TypeInv, PeersOfTarget, TypeOK, Call, WithPeer, Peers
      <4> QED
        BY <1>0, <1>1, <3>1, <3>2, <4>1, <4>2 DEF TunnelFits, Unused, UnusedButAt
    <3>3. CASE AfterFailure(w) = "failing"
      BY <3>1, <3>3, NothingToFit, <1>0 DEF Peerless
    <3> QED
      BY <3>2, <3>3 DEF AfterFailure
  <2> QED
    BY <2>1, <2>2, <2>3, <2>4
<1>7. \A v \in Busy' : TunnelFits(v)'
  BY <1>1, <1>6, OnlyThisFits
<1> QED
  BY <1>4, <1>7, <1>5 DEF WaysInv

LEMMA SaveKeepsWays ==
    ASSUME TypeInv, SerialInv, WaysInv, NEW w \in Busy, SaveActive(w)
    PROVE  WaysInv'
<1>0. /\ TypeOK /\ w \in Workers /\ op[w].bridge \in Bridges /\ TunnelFits(w) /\ CallInv(w)
      /\ op[w].stage = "saving" /\ op[w].held \in Row
  BY DEF TypeInv, TypeOK, Call, Busy, WaysInv, SerialInv, SaveActive
<1> DEFINE b == op[w].bridge
           new == op[w].peer
           old == op[w].held.peer
<1>1. /\ row'[b].peer = new /\ tunnel' = tunnel
      /\ \A c \in Bridges \ {b} : row'[c] = row[c]
      /\ \A v \in Workers \ {w} : op'[v] = op[v]
  BY <1>0 DEF SaveActive, Configured, TypeOK
<1>2. /\ tunnel[b] \in {NoPeer, new} /\ new \in {op[w].target} \X Numbers /\ op[w].target \in Targets
      /\ old = row[b].peer
      /\ \A c \in Bridges \ {b} : row[c].peer # new
  BY <1>0 DEF TunnelFits, TypeInv, PeersOfTarget, WithPeer, CallInv, HeldIsRow, PeerReady, TypeOK, Call
<1>3. IF op[w].reused THEN new \in Targets \X {0} ELSE \A c \in Bridges : (c # b => tunnel[c] # new) /\ row[c].peer # new
  BY <1>0, <1>2 DEF TunnelFits, CallInv, FreshOrReserve, WithPeer
<1>4. TunnelsApart'
  <2> SUFFICES ASSUME NEW a \in Bridges, NEW c \in Bridges, a # c, tunnel[c] = row'[a].peer, tunnel[c] # NoPeer
               PROVE  tunnel[c] \in Targets \X {0}
    BY <1>1 DEF TunnelsApart
  <2>1. CASE a = b
    BY <1>1, <1>3, <2>1
  <2>2. CASE a # b
    BY <1>1, <2>2 DEF WaysInv, TunnelsApart
  <2> QED
    BY <2>1, <2>2
<1>5. ASSUME op'[w].stage # "idle" PROVE TunnelFits(w)'
  <2>1. /\ old \notin {NoPeer, <<op[w].held.upstream, 0>>}
        /\ op' = [op EXCEPT ![w] = [op[w] EXCEPT !.stage = "revoking", !.held = Configured(w), !.peer = old]]
    BY <1>0, <1>5, IdleType DEF SaveActive, TypeOK
  <2>2. op'[w].stage = "revoking" /\ op'[w].peer = old
    BY <1>0, <2>1 DEF TypeOK, Call
  <2>3. old \in {op[w].held.upstream} \X Numbers
    BY <1>0, <2>1, RowParts
  <2>4. old \notin Targets \X {0}
    BY <2>1, <2>3
  <2>5. old # new
    BY <1>0, <1>2, <1>3, <2>4
  <2>6. \A c \in Bridges : tunnel[c] # old
    BY <1>0, <1>2, <2>1, <2>4, <2>5 DEF WaysInv, TunnelsApart
  <2> QED
    BY <1>1, <2>1, <2>2, <2>6 DEF TunnelFits, Unused
<1>6. \A v \in Busy' : TunnelFits(v)'
  BY <1>1, <1>5, OnlyThisFits
<1>7. \A c \in Bridges : AtRest(c)'
  BY <1>0, <1>1, <1>2 DEF WaysInv, AtRest
<1> QED
  BY <1>4, <1>6, <1>7 DEF WaysInv

\* A call that saves the row as it was, or with another status, and the last steps.
LEMMA RowKeepsWays ==
    ASSUME TypeInv, SerialInv, WaysInv, NEW w \in Busy,
           SaveEdit(w) \/ MarkConfiguring(w) \/ MarkError(w) \/ RevokePrevious(w) \/ Undo(w)
    PROVE  WaysInv'
<1>0. TypeOK /\ w \in Workers /\ op[w].bridge \in Bridges /\ CallInv(w) /\ op[w].held \in Row
  BY DEF TypeInv, TypeOK, Call, Busy, WaysInv, SerialInv
<1>1. op[w].held = row[op[w].bridge]
  BY <1>0 DEF CallInv, HeldIsRow
<1>2. \A b \in Bridges : row'[b].peer = row[b].peer /\ row'[b].status \in {row[b].status, "configuring", "error"}
  <2> DEFINE held == op[w].held
             marked == [held EXCEPT !.status = "configuring"]
             failed == [held EXCEPT !.status = "error"]
  <2>1. /\ marked.peer = held.peer /\ failed.peer = held.peer
        /\ marked.status = "configuring" /\ failed.status = "error"
    BY <1>0 DEF Row
  <2>2. row' \in {row, [row EXCEPT ![op[w].bridge] = held], [row EXCEPT ![op[w].bridge] = marked],
                  [row EXCEPT ![op[w].bridge] = failed]}
    BY DEF SaveEdit, MarkConfiguring, MarkError, RevokePrevious, Undo
  <2> HIDE DEF marked, failed
  <2> QED
    BY <1>0, <1>1, <2>1, <2>2 DEF TypeOK
<1>3. tunnel' = tunnel /\ \A v \in Workers \ {w} : op'[v] = op[v]
  BY <1>0 DEF SaveEdit, MarkConfiguring, MarkError, RevokePrevious, Undo, TypeOK
<1>4. op'[w].stage # "idle" => op'[w].stage \in Peerless
  BY <1>0, IdleType DEF SaveEdit, MarkConfiguring, MarkError, RevokePrevious, Undo, TypeOK, Call, Peerless
<1>5. \A v \in Busy' : TunnelFits(v)'
  BY <1>0, <1>3, <1>4, NothingToFit, OnlyThisFits
<1> QED
  BY <1>2, <1>3, <1>5 DEF WaysInv, TunnelsApart, AtRest

LEMMA RebootKeepsWays == TypeInv /\ SerialInv /\ WaysInv /\ Reboot => WaysInv'
<1> SUFFICES ASSUME TypeInv, SerialInv, WaysInv, Reboot PROVE WaysInv'
  OBVIOUS
<1>1. ASSUME NEW v \in Workers
      PROVE  /\ op'[v].stage = op[v].stage /\ op'[v].bridge = op[v].bridge
             /\ op'[v].peer = op[v].peer /\ op'[v].reused = op[v].reused
  BY DEF Reboot, TypeInv, TypeOK, Call
<1>2. row' = row /\ \A b \in Bridges : tunnel'[b] = NoPeer
  BY DEF Reboot
<1>3. ASSUME NEW v \in Busy' PROVE TunnelFits(v)'
  <2>1. v \in Workers /\ op[v].bridge \in Bridges
    BY DEF Busy, TypeInv, TypeOK, Call
  <2>2. op[v].stage \in {"disconnecting", "connecting", "routing", "saving"} => op[v].peer \in Peers
    BY <2>1 DEF TypeInv, PeersOfTarget, WithPeer, TypeOK, Call, Peers
  <2>3. TunnelFits(v)
    BY <1>1 DEF WaysInv, Busy
  <2> QED
    BY <1>1, <1>2, <2>1, <2>2, <2>3, NamesAssumption DEF TunnelFits, Unused, UnusedButAt
<1> QED
  BY <1>2, <1>3 DEF WaysInv, TunnelsApart, AtRest

LEMMA WaysStep == Serial /\ TypeInv /\ SerialInv /\ WaysInv /\ [Next]_vars => WaysInv'
<1> SUFFICES ASSUME Serial, TypeInv, SerialInv, WaysInv, [Next]_vars PROVE WaysInv'
  OBVIOUS
<1>1. ASSUME NEW w \in Workers, NEW b \in Bridges, NEW t \in Targets, NEW stage \in {"loaded", "editing"},
             Start(w, b, t, stage), UNCHANGED <<row, tunnel>>
      PROVE  WaysInv'
  <2>1. op'[w].stage \in Peerless /\ \A v \in Workers \ {w} : op'[v].stage = op[v].stage
    BY <1>1, StartType DEF TypeInv, Peerless
  <2>2. \A v \in Workers : op[v].stage = "idle"
    BY <1>1 DEF Start, Busy
  <2>3. Busy' = {w}
    BY <2>1, <2>2 DEF Busy, Peerless
  <2> QED
    BY <1>1, <2>1, <2>3, NothingToFit DEF WaysInv, TunnelsApart, AtRest
<1>2. ASSUME NEW w \in Workers, NEW b \in Bridges, BeginEdit(w, b) \/ \E t \in Targets : BeginSwitch(w, b, t) PROVE WaysInv'
  <2>1. Idle.target \in Targets
    BY IdleType DEF Call
  <2> QED
    BY <1>1, <1>2, <2>1 DEF BeginEdit, BeginSwitch
<1>3. ASSUME NEW w \in Workers, Continue(w) \/ SshFails(w) PROVE WaysInv'
  <2>1. w \in Busy
    BY <1>3 DEF Continue, SaveEdit, MarkConfiguring, ChoosePeer, CreatePeer, Disconnect, Connect, ConfigureNat,
       SaveActive, RevokePrevious, Undo, MarkError, SshFails, Busy
  <2> QED
    BY <1>3, <2>1, ChoiceKeepsWays, ConnectionKeepsWays, SaveKeepsWays, RowKeepsWays DEF Continue
<1>4. CASE Restart
  <2>1. Busy' = {}
    BY <1>4, IdleType DEF Restart, Busy
  <2> QED
    BY <1>4, <2>1 DEF Restart, WaysInv, TunnelsApart, AtRest
<1>5. CASE UNCHANGED vars
  <2>1. UNCHANGED <<row, tunnel, op>>
    BY <1>5 DEF vars
  <2> QED
    BY <2>1 DEF WaysInv, TunnelsApart, AtRest, Busy, TunnelFits, Unused, UnusedButAt
<1> QED
  BY <1>2, <1>3, <1>4, <1>5, RebootKeepsWays DEF Next

LEMMA WaysInvariant == ASSUME Serial PROVE Spec => [](TypeInv /\ SerialInv /\ WaysInv)
<1>1. Init => TypeInv /\ SerialInv /\ WaysInv
  BY InitType, SerialStarts, WaysStart
<1>2. TypeInv /\ SerialInv /\ WaysInv /\ [Next]_vars => (TypeInv /\ SerialInv /\ WaysInv)'
  BY NextType, SerialStep, WaysStep
<1> QED
  BY <1>1, <1>2, PTL DEF Spec

(***************************************************************************)
(* Two bridges do not run their tunnels with the same key, whatever fails  *)
(* in whichever stage and whenever backend or host restart, unless one of  *)
(* them is what a failed or cut-off switch left: tryReuseReservedPeer      *)
(* takes the reserve only if no other row names it, and every other peer   *)
(* is new.                                                                 *)
(***************************************************************************)
THEOREM KeysAreSeparate ==
    ASSUME Serial
    PROVE  Spec => []SeparateKeys
<1>1. TypeInv /\ SerialInv /\ WaysInv => SeparateKeys
  <2> SUFFICES ASSUME TypeInv, SerialInv, WaysInv, NEW b \in Bridges, NEW other \in Bridges, b # other,
                      tunnel[b] = tunnel[other], tunnel[b] # NoPeer, ~Stray(b), ~Stray(other)
               PROVE  FALSE
    BY DEF SeparateKeys
  <2> DEFINE Recorded(w, c) == w \in Busy /\ op[w].bridge = c /\ op[w].stage \in {"routing", "saving"}
  <2>1. ASSUME NEW c \in Bridges, ~Stray(c), tunnel[c] # NoPeer
        PROVE  tunnel[c] = row[c].peer \/ \E w \in Workers : Recorded(w, c)
    BY <2>1 DEF WaysInv, AtRest, Stray, SwitchesOf, Busy
  <2>2. ASSUME NEW c \in Bridges, NEW w \in Workers, Recorded(w, c), tunnel[c] # NoPeer
        PROVE  tunnel[c] = op[w].peer /\ \A a \in Bridges \ {c} : row[a].peer # op[w].peer
    BY <2>2 DEF WaysInv, TunnelFits, SerialInv, CallInv, PeerReady, WithPeer
  <2>3. ASSUME NEW v \in Workers, NEW w \in Workers PROVE ~(Recorded(v, b) /\ Recorded(w, other))
    BY DEF SerialInv, OneCall
  <2> HIDE DEF Recorded
  <2>4. CASE tunnel[b] = row[b].peer /\ tunnel[other] = row[other].peer
    BY <2>4 DEF SerialInv, OwnPeers
  <2>5. CASE \E w \in Workers : Recorded(w, b)
    BY <2>1, <2>2, <2>3, <2>5
  <2>6. CASE \E w \in Workers : Recorded(w, other)
    BY <2>1, <2>2, <2>3, <2>6
  <2> QED
    BY <2>1, <2>4, <2>5, <2>6
<1> QED
  BY <1>1, WaysInvariant, PTL

-----------------------------------------------------------------------------
(* BridgeService: what the page promises, seen in the one call in progress. *)

\* The call has made its first save.
Switches(w) == op[w].stage \notin {"idle", "editing", "loaded"}

LEMMA OnlyThisSwitches ==
    ASSUME NEW w \in Workers, \A v \in Workers \ {w} : op[v].stage = "idle" /\ op'[v].stage = "idle"
    PROVE  /\ Switching = {b \in Bridges : b = op[w].bridge /\ Switches(w)}
           /\ CutOff = {b \in Bridges : b = op[w].bridge /\ Switches(w) /\ WentLate(w)}
           /\ Switching' = {b \in Bridges : b = op'[w].bridge /\ Switches(w)'}
           /\ CutOff' = {b \in Bridges : b = op'[w].bridge /\ Switches(w)' /\ WentLate(w)'}
<1>1. \A b \in Bridges : SwitchesOf(b) = {v \in {w} : b = op[w].bridge /\ Switches(w)}
  BY DEF SwitchesOf, Switches
<1>2. \A b \in Bridges : SwitchesOf(b)' = {v \in {w} : b = op'[w].bridge /\ Switches(w)'}
  BY DEF SwitchesOf, Switches
<1> QED
  BY <1>1, <1>2 DEF Switching, CutOff

\* A peer that is in no tunnel leads nobody anywhere.
LEMMA UnusedKeepsWays ==
    ASSUME NEW p \in Peers, \A b \in Bridges : tunnel[b] # p,
           live' \in {live, live \cup {p}, live \ {p}}, UNCHANGED <<tunnel, routed>>
    PROVE  Ways' = Ways
BY DEF Ways

LEMMA WaysLeadToTargets ==
    ASSUME live' \subseteq Peers, NEW b \in Bridges PROVE Ways'[b] \in Targets \cup {NoTarget}
<1>1. Ways'[b] = IF tunnel'[b] \in live' /\ b \in routed' THEN tunnel'[b][1] ELSE NoTarget
  BY DEF Ways
<1>2. \A p \in Targets \X Numbers : p[1] \in Targets
  OBVIOUS
<1> QED
  BY <1>1, <1>2 DEF Peers

\* The steps before the switch, those that only choose, and those that tidy up.
LEMMA QuietSteps ==
    ASSUME TypeInv, SerialInv, WaysInv, NEW w \in Busy,
           SaveEdit(w) \/ MarkConfiguring(w) \/ ChoosePeer(w) \/ CreatePeer(w) \/ RevokePrevious(w) \/ Undo(w)
    PROVE  [Service!Next]_Service!serviceVars
<1>0. TypeOK /\ w \in Workers /\ op[w].bridge \in Bridges /\ op[w].held = row[op[w].bridge] /\ op[w].held \in Row
      /\ TunnelFits(w)
  BY DEF TypeInv, TypeOK, Call, Busy, SerialInv, CallInv, HeldIsRow, WaysInv
<1> DEFINE b == op[w].bridge
<1>1. \A v \in Workers \ {w} : op[v].stage = "idle" /\ op'[v].stage = "idle"
  BY <1>0 DEF SerialInv, OneCall, Busy, SaveEdit, MarkConfiguring, ChoosePeer, CreatePeer, RevokePrevious, Undo, TypeOK
<1>2. CASE SaveEdit(w)
  <2>1. row' = row /\ UNCHANGED <<live, tunnel, routed>>
    BY <1>0, <1>2 DEF SaveEdit, TypeOK
  <2>2. op[w].stage = "editing" /\ op'[w].stage = "idle"
    BY <1>0, <1>2, IdleType DEF SaveEdit, TypeOK
  <2>3. UNCHANGED <<Shown, Ways>>
    BY <2>1 DEF Shown, Ways
  <2>4. UNCHANGED <<Switching, CutOff>>
    BY <1>0, <1>1, <2>2, OnlyThisSwitches DEF Switches
  <2> QED
    BY <2>3, <2>4 DEF Service!serviceVars
<1>3. CASE MarkConfiguring(w)
  <2> DEFINE marked == [op[w].held EXCEPT !.status = "configuring"]
  <2>1. row' = [row EXCEPT ![b] = marked] /\ UNCHANGED <<live, tunnel, routed>>
    BY <1>3 DEF MarkConfiguring
  <2>2. marked.upstream = row[b].upstream /\ marked.status = "configuring"
    BY <1>0 DEF Row
  <2>3. op[w].stage = "loaded" /\ op'[w].stage = "marked" /\ op'[w].bridge = b
    BY <1>0, <1>3 DEF MarkConfiguring, TypeOK, Call
  <2> HIDE DEF marked
  <2>4. Shown' = [Shown EXCEPT ![b].status = "configuring"]
    BY <1>0, <2>1, <2>2 DEF Shown, TypeOK
  <2>5. Switching = {} /\ CutOff = {} /\ Switching' = {b} /\ CutOff' = {}
    BY <1>0, <1>1, <2>3, OnlyThisSwitches DEF Switches, WentLate
  <2>6. Ways' = Ways
    BY <2>1 DEF Ways
  <2>7. Service!Begin(b)
    BY <2>4, <2>5, <2>6 DEF Service!Begin
  <2> QED
    BY <1>0, <2>7 DEF Service!Next
<1>4. CASE ChoosePeer(w) \/ CreatePeer(w)
  <2>1. /\ UNCHANGED <<row, tunnel, routed>> /\ op[w].stage \in {"marked", "creating"}
        /\ op'[w].stage \in {"creating", "disconnecting"} /\ op'[w].bridge = b
    <3>1. CASE ChoosePeer(w)
      BY <1>0, <3>1 DEF ChoosePeer, TypeOK, Call
    <3>2. CASE CreatePeer(w)
      BY ZenonT(40), <1>0, <3>2 DEF CreatePeer, TypeOK, Call
    <3> QED
      BY <1>4, <3>1, <3>2
  <2>2. Ways' = Ways
    <3>1. CASE ChoosePeer(w)
      BY <3>1 DEF ChoosePeer, Ways
    <3>2. CASE CreatePeer(w)
      <4>1. PICK n \in Numbers \ {0} : ~Mentioned(<<op[w].target, n>>) /\ live' = live \cup {<<op[w].target, n>>}
        BY <3>2 DEF CreatePeer
      <4>2. <<op[w].target, n>> \in Peers
        BY <1>0 DEF TypeOK, Call, Peers
      <4>3. \A c \in Bridges : tunnel[c] # <<op[w].target, n>>
        BY <4>1 DEF Mentioned
      <4> QED
        BY <2>1, <4>1, <4>2, <4>3, UnusedKeepsWays
    <3> QED
      BY <1>4, <3>1, <3>2
  <2>3. UNCHANGED <<Switching, CutOff>>
    BY <1>0, <1>1, <2>1, OnlyThisSwitches DEF Switches, WentLate
  <2>4. Shown' = Shown
    BY <2>1 DEF Shown
  <2> QED
    BY <2>2, <2>3, <2>4 DEF Service!serviceVars
<1>5. CASE RevokePrevious(w) \/ Undo(w)
  <2>1. /\ UNCHANGED <<row, tunnel, routed>> /\ live' = live \ {op[w].peer}
        /\ op[w].stage \in {"revoking", "undoing"}
        /\ RevokePrevious(w) => op'[w].stage = "idle" /\ op[w].stage = "revoking"
        /\ Undo(w) => op'[w].stage = "failing" /\ op'[w].bridge = b /\ op[w].stage = "undoing"
    BY <1>0, <1>5, IdleType DEF RevokePrevious, Undo, TypeOK, Call
  <2>2. op[w].peer \in Peers
    BY <1>0, <2>1 DEF TunnelFits, Unused, UnusedButAt, TypeOK, Call
  <2>3. Shown' = Shown
    BY <2>1 DEF Shown
  <2>4. CASE RevokePrevious(w)
    <3>1. Switching' = {} /\ CutOff' = {}
      BY <1>0, <1>1, <2>1, <2>4, OnlyThisSwitches DEF Switches, WentLate
    <3>2. Ways' = Ways
      BY <1>0, <2>1, <2>2, <2>4, UnusedKeepsWays DEF TunnelFits, Unused
    <3> QED
      BY <2>3, <3>1, <3>2 DEF Service!Next, Service!Stop
  <2>5. CASE Undo(w)
    <3>1. Switching = {b} /\ UNCHANGED <<Switching, CutOff>>
      BY <1>0, <1>1, <2>1, <2>5, OnlyThisSwitches DEF Switches, WentLate
    <3>2. Shown[b].status = "configuring"
      BY <1>0, <2>1, <2>5 DEF SerialInv, CallInv, NotActiveYet, Shown
    <3>3. \A c \in Bridges \ {b} : tunnel[c] # op[w].peer
      BY <1>0, <2>1, <2>5 DEF TunnelFits, UnusedButAt
    <3>4. Ways' = [Ways EXCEPT ![b] = Ways'[b]]
      BY <1>0, <2>1, <3>3 DEF Ways
    <3>5. Ways'[b] \in Targets \cup {NoTarget}
      BY <1>0, <2>1, WaysLeadToTargets DEF TypeOK
    <3>6. Service!Work(b)
      BY <2>3, <3>1, <3>2, <3>4, <3>5 DEF Service!Work
    <3> QED
      BY <1>0, <3>6 DEF Service!Next
  <2> QED
    BY <1>5, <2>4, <2>5
<1> QED
  BY <1>2, <1>3, <1>4, <1>5

\* The steps that work on the tunnel and the rules, and the failures of SSH.
LEMMA WorkingSteps ==
    ASSUME TypeInv, SerialInv, WaysInv, NEW w \in Busy,
           Disconnect(w) \/ Connect(w) \/ ConfigureNat(w) \/ SshFails(w)
    PROVE  [Service!Next]_Service!serviceVars
<1>0. /\ TypeOK /\ w \in Workers /\ op[w].bridge \in Bridges
      /\ NotActiveYet(w)
  BY DEF TypeInv, TypeOK, Call, Busy, SerialInv, CallInv
<1> DEFINE b == op[w].bridge
<1>1. \A v \in Workers \ {w} : op[v].stage = "idle" /\ op'[v].stage = "idle"
  BY <1>0 DEF SerialInv, OneCall, Busy, Disconnect, Connect, ConfigureNat, SshFails, TypeOK
<1>2. /\ UNCHANGED <<row, live>> /\ op'[w].bridge = b /\ op'[w].peer = op[w].peer
      /\ op[w].stage \notin {"idle", "editing", "loaded"} /\ op'[w].stage \notin {"idle", "editing", "loaded"}
      /\ \A c \in Bridges \ {b} : tunnel'[c] = tunnel[c] /\ (c \in routed' <=> c \in routed)
  BY <1>0 DEF Disconnect, Connect, ConfigureNat, SshFails, AfterFailure, TypeOK, Call
<1>3. Switching = {b} /\ Switching' = {b}
  BY <1>0, <1>1, <1>2, OnlyThisSwitches DEF Switches
<1>4. WentLate(w)' => WentLate(w)
  <2>1. CASE Disconnect(w)
    BY <1>0, <2>1 DEF Disconnect, TypeOK, Call, WentLate
  <2>2. CASE Connect(w)
    BY <1>0, <2>2 DEF Connect, TypeOK, Call, WentLate
  <2>3. CASE ConfigureNat(w)
    BY <1>0, <2>3 DEF ConfigureNat, TypeOK, Call, WentLate
  <2>4. CASE SshFails(w)
    BY <1>0, <2>4 DEF SshFails, AfterFailure, TypeOK, Call, WentLate
  <2> QED
    BY <2>1, <2>2, <2>3, <2>4
<1>5. CutOff' \subseteq CutOff
  BY <1>1, <1>2, <1>4, <1>0, OnlyThisSwitches DEF Switches
<1>6. Shown' = Shown
  BY <1>2 DEF Shown
<1>7. CASE op[w].stage \in WithPeer \cup {"marked", "creating", "undoing"}
  <2>1. Shown[b].status = "configuring"
    BY <1>0, <1>7 DEF NotActiveYet, Shown
  <2>2. Ways' = [Ways EXCEPT ![b] = Ways'[b]]
    BY <1>0, <1>2 DEF Ways
  <2>3. Ways'[b] \in Targets \cup {NoTarget}
    BY <1>0, <1>2, WaysLeadToTargets DEF TypeOK
  <2>4. Service!Work(b)
    BY <1>3, <1>5, <1>6, <2>1, <2>2, <2>3 DEF Service!Work
  <2> QED
    BY <1>0, <2>4 DEF Service!Next
<1>8. CASE op[w].stage \notin WithPeer \cup {"marked", "creating", "undoing"}
  <2>1. op[w].stage = "revoking" /\ UNCHANGED <<tunnel, routed>> /\ op'[w].stage = "failing"
    BY <1>0, <1>8 DEF WithPeer, Disconnect, Connect, ConfigureNat, SshFails, Remains, AfterFailure, TypeOK, Call
  <2>2. Ways' = Ways
    BY <1>2, <2>1 DEF Ways
  <2>3. CutOff' = CutOff
    BY <1>0, <1>1, <2>1, OnlyThisSwitches DEF WentLate
  <2> QED
    BY <1>3, <1>6, <2>2, <2>3 DEF Service!serviceVars
<1> QED
  BY <1>7, <1>8

\* The last save but for the clean-up.
LEMMA CompletingStep ==
    ASSUME TypeInv, SerialInv, WaysInv, NEW w \in Busy, SaveActive(w)
    PROVE  [Service!Next]_Service!serviceVars
<1>0. /\ TypeOK /\ w \in Workers /\ op[w].bridge \in Bridges /\ op[w].target \in Targets /\ TunnelFits(w)
      /\ NotActiveYet(w) /\ PeerReady(w) /\ op[w].stage = "saving"
      /\ op[w].peer \in {op[w].target} \X Numbers
  BY DEF TypeInv, PeersOfTarget, WithPeer, TypeOK, Call, Busy, SerialInv, CallInv, WaysInv, SaveActive
<1> DEFINE b == op[w].bridge
<1>1. \A v \in Workers \ {w} : op[v].stage = "idle" /\ op'[v].stage = "idle"
  BY <1>0 DEF SerialInv, OneCall, Busy, SaveActive, TypeOK
<1>2. UNCHANGED <<live, tunnel, routed>>
  BY DEF SaveActive
<1>3. Shown' = [Shown EXCEPT ![b] = [upstream |-> op[w].target, status |-> "active"]]
  BY <1>0 DEF SaveActive, Configured, Shown, TypeOK
<1>4. Shown[b].status = "configuring"
  BY <1>0 DEF NotActiveYet, Shown, WithPeer
<1>5. op'[w].stage \in {"idle", "revoking"} /\ (op'[w].stage = "revoking" => op'[w].bridge = b)
  BY <1>0, IdleType DEF SaveActive, TypeOK, Call
<1>6. Switching = {b} /\ Switching' \subseteq {b} /\ CutOff' = {}
  BY <1>0, <1>1, <1>5, OnlyThisSwitches DEF Switches, WentLate
<1>7. Ways[b] = op[w].target \/ b \in CutOff
  <2>1. CASE WentLate(w)
    BY <1>0, <1>1, <2>1, OnlyThisSwitches DEF Switches
  <2>2. CASE ~WentLate(w)
    <3>1. tunnel[b] = op[w].peer /\ b \in routed /\ op[w].peer \in live
      BY <1>0, <2>2 DEF WentLate, PeerReady, WithPeer
    <3> QED
      BY <1>0, <3>1 DEF Ways
  <2> QED
    BY <2>1, <2>2
<1>8. Ways' = Ways
  BY <1>2 DEF Ways
<1>9. Service!Complete(b)
  BY <1>0, <1>3, <1>4, <1>6, <1>7, <1>8 DEF Service!Complete
<1> QED
  BY <1>0, <1>9 DEF Service!Next

\* The outer catch.
LEMMA FailingStep ==
    ASSUME TypeInv, SerialInv, NEW w \in Busy, MarkError(w)
    PROVE  [Service!Next]_Service!serviceVars
<1>0. /\ TypeOK /\ w \in Workers /\ op[w].bridge \in Bridges /\ op[w].held = row[op[w].bridge]
      /\ op[w].held \in Row /\ op[w].stage = "failing"
  BY DEF TypeInv, TypeOK, Call, Busy, SerialInv, CallInv, HeldIsRow, MarkError
<1> DEFINE b == op[w].bridge
           failed == [op[w].held EXCEPT !.status = "error"]
<1>1. \A v \in Workers \ {w} : op[v].stage = "idle" /\ op'[v].stage = "idle"
  BY <1>0 DEF SerialInv, OneCall, Busy, MarkError, TypeOK
<1>2. row' = [row EXCEPT ![b] = failed] /\ UNCHANGED <<live, tunnel, routed>> /\ op'[w].stage = "idle"
  BY <1>0, IdleType DEF MarkError, TypeOK
<1>3. failed.upstream = row[b].upstream /\ failed.status = "error"
  BY <1>0 DEF Row
<1> HIDE DEF failed
<1>4. Shown' = [Shown EXCEPT ![b].status = "error"]
  BY <1>0, <1>2, <1>3 DEF Shown, TypeOK
<1>5. Switching = {b} /\ Switching' = {} /\ CutOff' = {}
  BY <1>0, <1>1, <1>2, OnlyThisSwitches DEF Switches
<1>6. Ways' = Ways
  BY <1>2 DEF Ways
<1>7. Service!Fail(b)
  BY <1>4, <1>5, <1>6 DEF Service!Fail
<1> QED
  BY <1>0, <1>7 DEF Service!Next

\* A call begins: nothing of it is seen yet.
LEMMA BeginningStep ==
    ASSUME Serial, TypeInv, NEW w \in Workers, NEW b \in Bridges,
           BeginEdit(w, b) \/ \E t \in Targets : BeginSwitch(w, b, t)
    PROVE  UNCHANGED Service!serviceVars
<1>1. PICK t \in Targets, stage \in {"loaded", "editing"} :
        Start(w, b, t, stage) /\ UNCHANGED <<row, live, tunnel, routed>>
  <2>1. Idle.target \in Targets
    BY IdleType DEF Call
  <2> QED
    BY <2>1 DEF BeginEdit, BeginSwitch
<1>2. op'[w].stage = stage /\ \A v \in Workers \ {w} : op'[v].stage = op[v].stage
  BY <1>1, StartType DEF TypeInv
<1>3. \A v \in Workers : op[v].stage = "idle"
  BY <1>1 DEF Start, Busy
<1>4. UNCHANGED <<Switching, CutOff>>
  BY <1>2, <1>3, OnlyThisSwitches DEF Switches
<1>5. UNCHANGED <<Shown, Ways>>
  BY <1>1 DEF Shown, Ways
<1> QED
  BY <1>4, <1>5 DEF Service!serviceVars

\* The backend restarts: its calls are gone.
LEMMA RestartingStep == Restart => Service!Next
<1> SUFFICES ASSUME Restart PROVE Service!Next
  OBVIOUS
<1>1. UNCHANGED <<Shown, Ways>>
  BY DEF Restart, Shown, Ways
<1>2. Switching' = {} /\ CutOff' = {}
  BY IdleType DEF Restart, Switching, CutOff, SwitchesOf
<1> QED
  BY <1>1, <1>2 DEF Service!Next, Service!Stop

\* The host reboots.
LEMMA RebootingStep == TypeInv /\ SerialInv /\ Reboot => Service!Next
<1> SUFFICES ASSUME TypeInv, SerialInv, Reboot PROVE Service!Next
  OBVIOUS
<1>1. \A w \in Workers : op'[w].stage = op[w].stage /\ op'[w].bridge = op[w].bridge
  BY DEF Reboot, TypeInv, TypeOK, Call
<1>2. \A b \in Bridges : SwitchesOf(b)' = SwitchesOf(b)
  BY <1>1 DEF SwitchesOf
<1>3. Switching' = Switching
  BY <1>2 DEF Switching
<1>4. Shown' = Shown
  BY DEF Reboot, Shown
<1>5. Ways' = [b \in Bridges |-> NoTarget]
  BY DEF Reboot, Ways
<1>6. CutOff' \subseteq {b \in Switching : Shown[b].status = "configuring"}
  <2> SUFFICES ASSUME NEW b \in Bridges, NEW w \in SwitchesOf(b), WentLate(w)'
               PROVE  b \in Switching /\ Shown[b].status = "configuring"
    BY <1>2 DEF CutOff
  <2>1. w \in Busy /\ op[w].bridge = b /\ op[w].stage \in {"routing", "saving"}
    BY <1>1 DEF SwitchesOf, Busy, WentLate
  <2> QED
    BY <2>1 DEF SerialInv, CallInv, NotActiveYet, WithPeer, Shown, Switching
<1> QED
  BY <1>3, <1>4, <1>5, <1>6 DEF Service!Next, Service!Reboot

(***************************************************************************)
(* With one call at a time BridgeUpstream implements BridgeService, for    *)
(* any bridges, targets and reserves, failures in any stage, restarts and  *)
(* reboots: what the page shows of a bridge, and the way of its traffic,   *)
(* change together in the few steps that the abstract specification has,   *)
(* and only for the bridge that is being switched.                         *)
(***************************************************************************)
THEOREM CallsKeepTheService == ASSUME Serial PROVE Spec => ImplementsService
<1>1. Init => Service!Init
  <2> SUFFICES ASSUME Init PROVE Service!Init
    OBVIOUS
  <2>1. Shown = [b \in Bridges |-> [upstream |-> NoTarget, status |-> "not_configured"]]
    BY DEF Init, Shown
  <2>2. Ways = [b \in Bridges |-> NoTarget]
    BY DEF Init, Ways
  <2>3. Switching = {} /\ CutOff = {}
    BY IdleType DEF Init, Switching, CutOff, SwitchesOf
  <2> QED
    BY <2>1, <2>2, <2>3 DEF Service!Init
<1>2. TypeInv /\ SerialInv /\ WaysInv /\ [Next]_vars => [Service!Next]_Service!serviceVars
  <2> SUFFICES ASSUME TypeInv, SerialInv, WaysInv, [Next]_vars
               PROVE  [Service!Next]_Service!serviceVars
    OBVIOUS
  <2>1. ASSUME NEW w \in Workers, NEW b \in Bridges, BeginEdit(w, b) \/ \E t \in Targets : BeginSwitch(w, b, t)
        PROVE  UNCHANGED Service!serviceVars
    BY <2>1, BeginningStep
  <2>2. ASSUME NEW w \in Workers, Continue(w) \/ SshFails(w)
        PROVE  [Service!Next]_Service!serviceVars
    <3>1. w \in Busy
      BY <2>2 DEF Continue, SaveEdit, MarkConfiguring, ChoosePeer, CreatePeer, Disconnect, Connect, ConfigureNat,
         SaveActive, RevokePrevious, Undo, MarkError, SshFails, Busy
    <3> QED
      BY <2>2, <3>1, QuietSteps, WorkingSteps, CompletingStep, FailingStep DEF Continue
  <2>3. CASE UNCHANGED vars
    <3>1. UNCHANGED <<row, live, tunnel, routed, op>>
      BY <2>3 DEF vars
    <3> QED
      BY <3>1 DEF Service!serviceVars, Shown, Ways, Switching, CutOff, SwitchesOf, WentLate
  <2> QED
    BY <2>1, <2>2, <2>3, RestartingStep, RebootingStep DEF Next
<1> QED
  BY <1>1, <1>2, WaysInvariant, PTL DEF Spec, ImplementsService, Service!Spec

-----------------------------------------------------------------------------
(* BridgeFailover: the polls are callers of setUpstream among others.      *)

LEMMA SmallestIsIn ==
    ASSUME NEW T, T \subseteq Nat, T # {}
    PROVE  \E x \in T : \A y \in T : x <= y
<1>1. PICK x \in T : \A y \in T : ~(<<y, x>> \in OpToRel(<, Nat))
  BY NatLessThanWellFounded, WFMin
<1>2. \A y \in T : x <= y
  <2> SUFFICES ASSUME NEW y \in T, y < x PROVE FALSE
    BY SMT
  <2>1. <<y, x>> \in Nat \X Nat /\ <<y, x>>[1] < <<y, x>>[2]
    BY SMT
  <2>2. <<y, x>> \in OpToRel(<, Nat)
    BY <2>1, Zenon DEF OpToRel
  <2> QED
    BY <2>2, <1>1, Zenon
<1> QED
  BY <1>2

\* The targets a bridge may be moved to.
Listed(b) == {Candidates[b][i] : i \in 1 .. Len(Candidates[b])}

\* The best candidate is listed, known to be reachable, and the first of those.
LEMMA BestIsFirst ==
    ASSUME NEW b \in Bridges, Best(b) # NoTarget
    PROVE  /\ Best(b) \in Listed(b) /\ Best(b) \in Targets
           /\ probes[Best(b)].reachable = "yes"
           /\ \A t \in Listed(b) : probes[t].reachable = "yes" => t = Best(b) \/ Before(b, Best(b), t)
<1> DEFINE known == {i \in 1 .. Len(Candidates[b]) : probes[Candidates[b][i]].reachable = "yes"}
<1>1. Candidates[b] \in Seq(Targets)
  BY CandidatesAssumption
<1>2. known # {} /\ known \subseteq Nat /\ Best(b) = Candidates[b][CHOOSE i \in known : \A j \in known : i <= j]
  BY <1>1 DEF Best
<1>3. PICK k \in known : Best(b) = Candidates[b][k] /\ \A j \in known : k <= j
  <2> HIDE DEF known
  <2> QED
    BY <1>2, SmallestIsIn
<1>4. ASSUME NEW t \in Listed(b), probes[t].reachable = "yes" PROVE t = Best(b) \/ Before(b, Best(b), t)
  <2>1. PICK j \in 1 .. Len(Candidates[b]) : t = Candidates[b][j]
    BY <1>4 DEF Listed
  <2>2. j \in known
    BY <2>1, <1>4
  <2> QED
    BY <2>1, <2>2, <1>1, <1>3 DEF Before
<1>5. Best(b) \in Targets
  BY <1>1, <1>3
<1> QED
  BY <1>3, <1>4, <1>5 DEF Listed

LEMMA PollsAreCallers == [FailoverNext]_failoverVars => [Next]_vars
<1> SUFFICES ASSUME FailoverNext PROVE [Next]_vars
  BY DEF failoverVars
<1>1. ASSUME NEW p \in Pollers, PollReads(p) \/ PollProbes(p) \/ PollEnds(p) PROVE UNCHANGED vars
  BY <1>1 DEF PollReads, PollProbes, PollEnds
<1>2. ASSUME NEW p \in Pollers, NEW b \in Bridges, Reconcile(p, b) PROVE [Next]_vars
  <2>1. CASE UNCHANGED op
    BY <1>2, <2>1 DEF Reconcile, vars, bounds
  <2>2. CASE ~UNCHANGED op
    <3>1. Best(b) # NoTarget /\ Start(p, b, Best(b), "loaded") /\ UNCHANGED <<row, live, tunnel, routed, bounds>>
      BY <1>2, <2>2 DEF Reconcile
    <3>2. Best(b) \in Targets /\ p \in Workers
      BY <3>1, BestIsFirst, PollersAssumption
    <3> QED
      BY <3>1, <3>2 DEF BeginSwitch, Next
  <2> QED
    BY <2>1, <2>2
<1>3. ASSUME NEW p \in Pollers, Continue(p) \/ SshFails(p) PROVE Next
  BY <1>3, PollersAssumption DEF Next
<1>4. ASSUME NEW t \in Targets, Flip(t) PROVE UNCHANGED vars
  BY <1>4 DEF Flip
<1> QED
  BY <1>1, <1>2, <1>3, <1>4 DEF FailoverNext, PollStep, FailoverRestart, Next

(***************************************************************************)
(* The failover mode is one more caller of setUpstream: every behaviour of *)
(* its polls is one of BridgeUpstream, so that all that is proved of that  *)
(* for any overlap of calls holds of the polls (reconcileBridge in         *)
(* bridge-failover.service.ts).                                            *)
(***************************************************************************)
THEOREM FailoverCallsSetUpstream == FailoverSafety => Spec
<1>1. FailoverInit => Init
  BY DEF FailoverInit
<1> QED
  BY <1>1, PollsAreCallers, PTL DEF FailoverSafety, Spec

-----------------------------------------------------------------------------
(* BridgeFailover: bridges stay with servers that never were down.         *)

\* A call takes a bridge nowhere but where it was and where it is to go.
Within(f) ==
    /\ \A b \in Bridges : row[b].upstream \in f[b]
    /\ \A w \in Workers : op[w].stage # "idle" =>
        op[w].target \in f[op[w].bridge] /\ op[w].held.upstream \in f[op[w].bridge]

LEMMA CallsStayWithin ==
    ASSUME TypeInv, NEW f, Within(f), NEW w \in Workers, Continue(w) \/ SshFails(w)
    PROVE  Within(f)'
<1>0. op \in [Workers -> Call] /\ op[w] \in Call /\ row \in [Bridges -> Row]
  BY DEF TypeInv, TypeOK
<1>1. op[w].stage # "idle"
  BY DEF Continue, SaveEdit, MarkConfiguring, ChoosePeer, CreatePeer, Disconnect, Connect, ConfigureNat,
         SaveActive, RevokePrevious, Undo, MarkError, SshFails
<1> DEFINE b == op[w].bridge
<1>2. b \in Bridges /\ op[w].target \in f[b] /\ op[w].held.upstream \in f[b]
  BY <1>0, <1>1 DEF Within, Call
<1>3. \A v \in Workers \ {w} : op'[v] = op[v]
  BY <1>0 DEF Continue, SaveEdit, MarkConfiguring, ChoosePeer, CreatePeer, Disconnect, Connect, ConfigureNat,
         SaveActive, RevokePrevious, Undo, MarkError, SshFails
<1>4. ASSUME \A c \in Bridges : row'[c].upstream \in {row[c].upstream} \cup f[c],
             \/ op'[w].stage = "idle"
             \/ /\ op'[w].bridge = b /\ op'[w].target = op[w].target
                /\ op'[w].held.upstream \in {op[w].held.upstream, op[w].target}
      PROVE  Within(f)'
  BY <1>2, <1>3, <1>4 DEF Within
<1>5. CASE ChoosePeer(w)
  BY <1>0, <1>4, <1>5 DEF ChoosePeer, Call
<1>6. CASE CreatePeer(w)
  <2>1. op'[w].bridge = b /\ op'[w].target = op[w].target /\ op'[w].held = op[w].held /\ row' = row
    BY <1>0, <1>6 DEF CreatePeer, Call
  <2> QED
    BY <1>4, <2>1
<1>7. CASE Disconnect(w) \/ Connect(w) \/ ConfigureNat(w) \/ Undo(w) \/ SshFails(w)
  <2>1. PICK stage : op' = [op EXCEPT ![w].stage = stage]
    BY <1>7 DEF Disconnect, Connect, ConfigureNat, Undo, SshFails
  <2>2. row' = row
    BY <1>7 DEF Disconnect, Connect, ConfigureNat, Undo, SshFails
  <2> QED
    BY <1>0, <1>4, <2>1, <2>2 DEF Call
<1>8. CASE MarkConfiguring(w)
  <2>1. row'[b].upstream = op[w].held.upstream /\ \A c \in Bridges \ {b} : row'[c] = row[c]
    BY <1>0, <1>2, <1>8, RowParts DEF MarkConfiguring, Call, Row
  <2>2. op'[w].bridge = b /\ op'[w].target = op[w].target /\ op'[w].held.upstream = op[w].held.upstream
    BY <1>0, <1>8 DEF MarkConfiguring, Call, Row
  <2> QED
    BY <1>2, <1>4, <2>1, <2>2
<1>9. CASE SaveActive(w)
  <2>1. row'[b].upstream = op[w].target /\ \A c \in Bridges \ {b} : row'[c] = row[c]
    BY <1>0, <1>2, <1>9 DEF SaveActive, Configured
  <2>2. op'[w] = Idle \/ op'[w] = [op[w] EXCEPT !.stage = "revoking", !.held = Configured(w), !.peer = op[w].held.peer]
    BY <1>0, <1>9 DEF SaveActive
  <2>3. CASE op'[w] = Idle
    BY <1>2, <1>4, <2>1, <2>3, IdleType
  <2>4. CASE op'[w] # Idle
    <3>1. op'[w].bridge = b /\ op'[w].target = op[w].target /\ op'[w].held = Configured(w)
      BY <1>0, <2>2, <2>4 DEF Call
    <3> QED
      BY <1>2, <1>4, <2>1, <3>1 DEF Configured
  <2> QED
    BY <2>3, <2>4
<1>10. CASE SaveEdit(w) \/ RevokePrevious(w) \/ MarkError(w)
  <2>1. op'[w].stage = "idle"
    BY <1>0, <1>10, IdleType DEF SaveEdit, RevokePrevious, MarkError
  <2>2. \A c \in Bridges : row'[c].upstream \in {row[c].upstream} \cup f[c]
    <3>1. CASE SaveEdit(w) \/ RevokePrevious(w)
      BY <1>0, <1>2, <3>1 DEF SaveEdit, RevokePrevious
    <3>2. CASE MarkError(w)
      BY <1>0, <1>2, <3>2 DEF MarkError, Call, Row
    <3> QED
      BY <1>10, <3>1, <3>2
  <2> QED
    BY <1>4, <2>1, <2>2
<1> QED
  BY <1>5, <1>6, <1>7, <1>8, <1>9, <1>10 DEF Continue

\* Without a restart, where a bridge goes has been found reachable once.
Eligible(b) == {NoTarget} \cup {t \in Listed(b) : restarts = 0 => probes[t].reachable # "unknown"}

AtEligible == Within([b \in Bridges |-> Eligible(b)])

FailoverTables ==
    /\ answers \subseteq Targets /\ steady \subseteq answers
    /\ probes \in [Targets -> ProbeState]
    /\ hiccups \in 0 .. MaxHiccups

\* A server that never was down fails a probe only when a hiccup is spent on it.
SteadyAnswer ==
    \A t \in steady : probes[t].consecutiveFail <= hiccups /\ probes[t].reachable # "no"

\* Without hiccups, no server is found reachable before one that never was down.
SteadyFirst ==
    hiccups = 0 =>
        \A t \in steady, u \in Targets :
            /\ probes[u].consecutiveOk <= probes[t].consecutiveOk
            /\ probes[u].reachable = "yes" => probes[t].reachable = "yes"

FailoverInv == FailoverTables /\ SteadyAnswer /\ SteadyFirst /\ AtEligible

LEMMA ListedAreTargets == \A b \in Bridges : Listed(b) \subseteq Targets
BY CandidatesAssumption DEF Listed

LEMMA UnprobedIsAState == Unprobed \in ProbeState
BY ConsecutiveAssumption DEF Unprobed, ProbeState

LEMMA FailoverStarts == FailoverInit => FailoverInv
<1> SUFFICES ASSUME FailoverInit PROVE FailoverInv
  OBVIOUS
<1>1. \A b \in Bridges : row[b].upstream = NoTarget
  BY DEF FailoverInit, Init
<1>2. \A w \in Workers : op[w].stage = "idle"
  BY IdleType DEF FailoverInit, Init
<1>3. AtEligible
  BY <1>1, <1>2 DEF AtEligible, Within, Eligible
<1>4. hiccups = 0 /\ 0 \in 0 .. MaxHiccups
  BY FailoverBoundsAssumption DEF FailoverInit
<1>5. FailoverTables
  BY <1>4, UnprobedIsAState DEF FailoverInit, FailoverTables
<1>6. \A t \in Targets : probes[t] = Unprobed
  BY DEF FailoverInit
<1>7. SteadyAnswer /\ SteadyFirst
  BY <1>4, <1>5, <1>6 DEF SteadyAnswer, SteadyFirst, Unprobed, FailoverTables
<1> QED
  BY <1>3, <1>5, <1>7 DEF FailoverInv

\* What updateState does to the counters and the verdict.
Succeeded(s) == UpdateState(s, TRUE)
Failed(s) == UpdateState(s, FALSE)

LEMMA CountedFits ==
    ASSUME NEW n \in 0 .. Consecutive
    PROVE  Counted(n) \in 0 .. Consecutive /\ Counted(n) <= n + 1 /\ n <= Counted(n)
BY ConsecutiveAssumption DEF Counted

LEMMA ProbeSucceeds ==
    ASSUME NEW s \in ProbeState, NEW new, new = Succeeded(s)
    PROVE  /\ new \in ProbeState /\ new.consecutiveFail = 0
           /\ new.consecutiveOk = Counted(s.consecutiveOk)
           /\ new.reachable \in {s.reachable, "yes"}
           /\ new.consecutiveOk = Consecutive => new.reachable = "yes"
           /\ new.reachable = "yes" => s.reachable = "yes" \/ new.consecutiveOk = Consecutive
<1>0. PICK n, verdict :
        n = Counted(s.consecutiveOk) /\ verdict = IF n = Consecutive THEN "yes" ELSE s.reachable
  OBVIOUS
<1>1. n \in 0 .. Consecutive /\ 0 \in 0 .. Consecutive
  BY <1>0, CountedFits, ConsecutiveAssumption DEF ProbeState
<1>2. verdict \in {"unknown", "yes", "no"} /\ verdict \in {s.reachable, "yes"}
  BY <1>0 DEF ProbeState
<1>3. (n = Consecutive => verdict = "yes") /\ (verdict = "yes" => s.reachable = "yes" \/ n = Consecutive)
  BY <1>0
<1>4. new = [reachable |-> verdict, consecutiveOk |-> n, consecutiveFail |-> 0]
  BY <1>0 DEF Succeeded, UpdateState
<1>5. new \in ProbeState /\ new.reachable = verdict /\ new.consecutiveOk = n /\ new.consecutiveFail = 0
  BY <1>1, <1>2, <1>4 DEF ProbeState
<1> QED
  BY <1>0, <1>2, <1>3, <1>5

LEMMA ProbeFails ==
    ASSUME NEW s \in ProbeState, NEW new, new = Failed(s)
    PROVE  /\ new \in ProbeState /\ new.consecutiveOk = 0
           /\ new.consecutiveFail <= s.consecutiveFail + 1
           /\ new.reachable \in {s.reachable, "no"}
           /\ new.reachable = "no" => s.reachable = "no" \/ s.consecutiveFail + 1 >= Consecutive
<1>0. PICK n, verdict :
        n = Counted(s.consecutiveFail) /\ verdict = IF n = Consecutive THEN "no" ELSE s.reachable
  OBVIOUS
<1>1. n \in 0 .. Consecutive /\ 0 \in 0 .. Consecutive /\ n <= s.consecutiveFail + 1
  BY <1>0, CountedFits, ConsecutiveAssumption DEF ProbeState
<1>2. verdict \in {"unknown", "yes", "no"} /\ verdict \in {s.reachable, "no"}
  BY <1>0 DEF ProbeState
<1>3. verdict = "no" => s.reachable = "no" \/ n = Consecutive
  BY <1>0
<1>4. new = [reachable |-> verdict, consecutiveOk |-> 0, consecutiveFail |-> n]
  BY <1>0 DEF Failed, UpdateState
<1>5. new \in ProbeState /\ new.reachable = verdict /\ new.consecutiveOk = 0 /\ new.consecutiveFail = n
  BY <1>1, <1>2, <1>4 DEF ProbeState
<1> QED
  BY <1>0, <1>1, <1>2, <1>3, <1>5, ConsecutiveAssumption

LEMMA ProbesKeep ==
    ASSUME MaxHiccups < Consecutive, TypeInv, FailoverInv, NEW p \in Pollers, PollProbes(p)
    PROVE  FailoverInv'
<1>1. PICK missed \in SUBSET answers :
        /\ hiccups + Cardinality(missed) <= MaxHiccups
        /\ hiccups' = hiccups + Cardinality(missed)
        /\ probes' = [t \in Targets |-> UpdateState(probes[t], t \in answers \ missed)]
  BY DEF PollProbes
<1>2. UNCHANGED <<row, op, restarts, answers, steady>>
  BY DEF PollProbes, vars, bounds
<1>3. IsFiniteSet(missed) /\ Cardinality(missed) \in Nat /\ (missed # {} => Cardinality(missed) >= 1)
  BY FewTargetsAssumption, FS_Subset, FS_CardinalityType, FS_EmptySet DEF FailoverInv, FailoverTables
<1>4. hiccups \in Nat /\ hiccups' \in 0 .. MaxHiccups /\ hiccups' >= hiccups
  BY <1>1, <1>3, FailoverBoundsAssumption DEF FailoverInv, FailoverTables
<1>5. ASSUME NEW t \in Targets
      PROVE  /\ probes[t] \in ProbeState
             /\ t \in answers \ missed => probes'[t] = Succeeded(probes[t])
             /\ t \notin answers \ missed => probes'[t] = Failed(probes[t])
  <2>1. probes'[t] = UpdateState(probes[t], t \in answers \ missed)
    BY <1>1
  <2> QED
    BY <2>1 DEF Succeeded, Failed, UpdateState, FailoverInv, FailoverTables
<1>6. FailoverTables'
  <2>1. \A t \in Targets : probes'[t] \in ProbeState
    BY <1>5, ProbeSucceeds, ProbeFails
  <2>2. probes' \in [Targets -> ProbeState]
    <3>1. DOMAIN probes' = Targets /\ probes' = [t \in Targets |-> probes'[t]]
      BY <1>1
    <3> QED
      BY <2>1, <3>1
  <2> QED
    BY <1>2, <1>4, <2>2 DEF FailoverInv, FailoverTables
<1>7. SteadyAnswer'
  <2> SUFFICES ASSUME NEW t \in steady PROVE probes'[t].consecutiveFail <= hiccups' /\ probes'[t].reachable # "no"
    BY <1>2 DEF SteadyAnswer
  <2>1. t \in Targets /\ t \in answers /\ probes[t].consecutiveFail <= hiccups /\ probes[t].reachable # "no"
    BY DEF FailoverInv, FailoverTables, SteadyAnswer
  <2>2. probes[t].consecutiveFail \in Nat
    <3>1. probes[t] \in ProbeState
      BY <1>5, <2>1
    <3>2. probes[t].consecutiveFail \in 0 .. Consecutive
      BY <3>1 DEF ProbeState
    <3> QED
      BY <3>2
  <2>3. CASE t \in missed
    <3>1. hiccups' >= hiccups + 1
      BY <1>1, <1>3, <1>4, <2>3
    <3>2. hiccups + 1 <= MaxHiccups
      BY <1>4, <3>1, FailoverBoundsAssumption
    <3>3. /\ probes'[t].consecutiveFail <= probes[t].consecutiveFail + 1 /\ probes'[t].consecutiveFail \in Nat
          /\ probes'[t].reachable = "no" => probes[t].consecutiveFail + 1 >= Consecutive
      <4>1. probes[t] \in ProbeState /\ probes'[t] = Failed(probes[t])
        BY <1>5, <2>1, <2>3
      <4>2. /\ probes'[t] \in ProbeState /\ probes'[t].consecutiveFail <= probes[t].consecutiveFail + 1
            /\ probes'[t].reachable = "no" => probes[t].reachable = "no" \/ probes[t].consecutiveFail + 1 >= Consecutive
        BY <4>1, ProbeFails
      <4> QED
        BY <2>1, <4>2, ConsecutiveAssumption DEF ProbeState
    <3> QED
      BY <1>4, <2>1, <2>2, <3>1, <3>2, <3>3, ConsecutiveAssumption, FailoverBoundsAssumption
  <2>4. CASE t \notin missed
    <3>1. probes'[t].consecutiveFail = 0 /\ probes'[t].reachable # "no"
      <4>1. probes[t] \in ProbeState /\ probes'[t] = Succeeded(probes[t])
        BY <1>5, <2>1, <2>4
      <4> QED
        BY <2>1, <4>1, ProbeSucceeds
    <3> QED
      BY <1>4, <3>1
  <2> QED
    BY <2>3, <2>4
<1>8. SteadyFirst'
  <2> SUFFICES ASSUME hiccups' = 0, NEW t \in steady, NEW u \in Targets
               PROVE  /\ probes'[u].consecutiveOk <= probes'[t].consecutiveOk
                      /\ probes'[u].reachable = "yes" => probes'[t].reachable = "yes"
    BY <1>2 DEF SteadyFirst
  <2>1. hiccups = 0 /\ missed = {}
    BY <1>1, <1>3, <1>4
  <2>2. /\ probes[u].consecutiveOk <= probes[t].consecutiveOk
        /\ probes[u].reachable = "yes" => probes[t].reachable = "yes"
    BY <2>1 DEF FailoverInv, SteadyFirst
  <2>3. t \in Targets /\ t \in answers \ missed
    BY <2>1 DEF FailoverInv, FailoverTables
  <2>4. /\ probes'[t].consecutiveOk = Counted(probes[t].consecutiveOk)
        /\ (probes[t].reachable = "yes" \/ probes'[t].consecutiveOk = Consecutive) => probes'[t].reachable = "yes"
    <3>1. probes[t] \in ProbeState /\ probes'[t] = Succeeded(probes[t])
      BY <1>5, <2>3
    <3> QED
      BY <3>1, ProbeSucceeds
  <2>5. /\ probes'[u].consecutiveOk \in {0, Counted(probes[u].consecutiveOk)}
        /\ probes'[u].reachable = "yes" => probes[u].reachable = "yes" \/ probes'[u].consecutiveOk = Consecutive
    <3>1. CASE u \in answers \ missed
      <4>1. probes[u] \in ProbeState /\ probes'[u] = Succeeded(probes[u])
        BY <1>5, <3>1
      <4> QED
        BY <4>1, ProbeSucceeds
    <3>2. CASE u \notin answers \ missed
      <4>1. probes[u] \in ProbeState /\ probes'[u] = Failed(probes[u])
        BY <1>5, <3>2
      <4>2. probes'[u].consecutiveOk = 0 /\ probes'[u].reachable \in {probes[u].reachable, "no"}
        BY <4>1, ProbeFails
      <4> QED
        BY <4>2
    <3> QED
      BY <3>1, <3>2
  <2>6. probes[u].consecutiveOk \in 0 .. Consecutive /\ probes[t].consecutiveOk \in 0 .. Consecutive
    BY <1>5, <2>3 DEF ProbeState
  <2>7. probes'[u].consecutiveOk <= probes'[t].consecutiveOk /\ probes'[t].consecutiveOk <= Consecutive
    BY <2>2, <2>4, <2>5, <2>6, ConsecutiveAssumption DEF Counted
  <2>8. probes'[u].consecutiveOk = Consecutive => probes'[t].consecutiveOk = Consecutive
    BY <2>4, <2>5, <2>6, <2>7, ConsecutiveAssumption DEF Counted
  <2> QED
    BY <2>2, <2>4, <2>5, <2>7, <2>8
<1>9. AtEligible'
  <2>1. \A b \in Bridges : Eligible(b) \subseteq Eligible(b)'
    <3> SUFFICES ASSUME NEW b \in Bridges, NEW t \in Listed(b), restarts = 0, probes[t].reachable # "unknown"
                 PROVE  probes'[t].reachable # "unknown"
      BY <1>2 DEF Eligible, Listed
    <3>1. t \in Targets
      BY ListedAreTargets
    <3>2. probes'[t].reachable \in {probes[t].reachable, "yes", "no"}
      <4>1. CASE t \in answers \ missed
        BY <1>5, <3>1, <4>1, ProbeSucceeds
      <4>2. CASE t \notin answers \ missed
        BY <1>5, <3>1, <4>2, ProbeFails
      <4> QED
        BY <4>1, <4>2
    <3> QED
      BY <3>2
  <2>2. \A w \in Workers : op[w].bridge \in Bridges
    BY DEF TypeInv, TypeOK, Call
  <2> QED
    BY <1>2, <2>1, <2>2 DEF FailoverInv, AtEligible, Within
<1> QED
  BY <1>6, <1>7, <1>8, <1>9 DEF FailoverInv

\* Nothing but a probe changes what is known of the servers.
LEMMA NoProbeKeeps ==
    ASSUME FailoverInv, UNCHANGED <<probes, hiccups, restarts>>,
           answers' \subseteq Targets, steady' \subseteq steady, steady' \subseteq answers',
           Within([b \in Bridges |-> Eligible(b)])'
    PROVE  FailoverInv'
<1>1. FailoverTables' /\ SteadyAnswer' /\ SteadyFirst'
  BY DEF FailoverInv, FailoverTables, SteadyAnswer, SteadyFirst
<1> QED
  BY <1>1 DEF FailoverInv, AtEligible

LEMMA SwitchesGoToEligible ==
    ASSUME TypeInv, FailoverInv, NEW p \in Pollers, NEW b \in Bridges, Reconcile(p, b)
    PROVE  FailoverInv'
<1>1. UNCHANGED <<row, restarts, answers, steady, probes, hiccups>>
  BY DEF Reconcile, bounds, environment
<1>2. \A c \in Bridges : Eligible(c)' = Eligible(c)
  BY <1>1 DEF Eligible, Listed
<1>3. AtEligible'
  <2>1. CASE UNCHANGED op
    BY <1>1, <1>2, <2>1 DEF FailoverInv, AtEligible, Within
  <2>2. CASE ~UNCHANGED op
    <3>1. Best(b) # NoTarget /\ Start(p, b, Best(b), "loaded")
      BY <2>2 DEF Reconcile
    <3>2. Best(b) \in Targets /\ Best(b) \in Eligible(b) /\ p \in Workers
      BY <3>1, BestIsFirst, PollersAssumption DEF Eligible
    <3>3. /\ op'[p].bridge = b /\ op'[p].target = Best(b) /\ op'[p].held = row[b]
          /\ \A v \in Workers \ {p} :
                /\ op'[v].stage = op[v].stage /\ op'[v].bridge = op[v].bridge
                /\ op'[v].target = op[v].target /\ op'[v].held = op[v].held
      BY <3>1, <3>2, StartType DEF TypeInv
    <3>4. \A c \in Bridges : row[c].upstream \in Eligible(c)
      BY DEF FailoverInv, AtEligible, Within
    <3>5. ASSUME NEW v \in Workers \ {p}, op[v].stage # "idle"
          PROVE  op[v].target \in Eligible(op[v].bridge) /\ op[v].held.upstream \in Eligible(op[v].bridge)
      <4>1. op[v].bridge \in Bridges
        BY DEF TypeInv, TypeOK, Call
      <4> QED
        BY <3>5, <4>1 DEF FailoverInv, AtEligible, Within
    <3>6. \A v \in Workers : op'[v].bridge \in Bridges
      BY <3>3 DEF TypeInv, TypeOK, Call
    <3>7. \A c \in Bridges : row'[c].upstream \in Eligible(c)'
      BY <1>1, <1>2, <3>4
    <3>8. ASSUME NEW v \in Workers, op'[v].stage # "idle"
          PROVE  op'[v].target \in Eligible(op'[v].bridge) /\ op'[v].held.upstream \in Eligible(op'[v].bridge)
      <4>1. CASE v = p
        BY <3>2, <3>3, <3>4, <4>1
      <4>2. CASE v # p
        BY <3>3, <3>5, <3>8, <4>2
      <4> QED
        BY <4>1, <4>2
    <3> QED
      BY <1>2, <3>6, <3>7, <3>8 DEF AtEligible, Within
  <2> QED
    BY <2>1, <2>2
<1> QED
  BY <1>1, <1>3, NoProbeKeeps DEF FailoverInv, FailoverTables, AtEligible

LEMMA FailoverContinues ==
    ASSUME MaxHiccups < Consecutive
    PROVE  TypeInv /\ FailoverInv /\ [FailoverNext]_failoverVars => FailoverInv'
<1> SUFFICES ASSUME TypeInv, FailoverInv, [FailoverNext]_failoverVars PROVE FailoverInv'
  OBVIOUS
<1>0. answers \subseteq Targets /\ steady \subseteq answers
  BY DEF FailoverInv, FailoverTables
<1>1. ASSUME UNCHANGED <<row, op, restarts, probes, hiccups>>,
             answers' \subseteq Targets, steady' \subseteq steady, steady' \subseteq answers'
      PROVE  FailoverInv'
  <2>1. \A b \in Bridges : Eligible(b)' = Eligible(b)
    BY <1>1 DEF Eligible, Listed
  <2>2. Within([b \in Bridges |-> Eligible(b)])'
    BY <1>1, <2>1 DEF FailoverInv, AtEligible, Within
  <2> QED
    BY <1>1, <2>2, NoProbeKeeps
<1>2. ASSUME NEW p \in Pollers, PollReads(p) \/ PollEnds(p) PROVE FailoverInv'
  BY <1>0, <1>1, <1>2 DEF PollReads, PollEnds, vars, environment, bounds
<1>3. ASSUME NEW p \in Pollers, PollProbes(p) PROVE FailoverInv'
  BY <1>3, ProbesKeep
<1>4. ASSUME NEW p \in Pollers, NEW b \in Bridges, Reconcile(p, b) PROVE FailoverInv'
  BY <1>4, SwitchesGoToEligible
<1>5. ASSUME NEW p \in Pollers, Continue(p) \/ SshFails(p), UNCHANGED <<environment, probes, poll>>
      PROVE  FailoverInv'
  <2>1. restarts' = restarts
    BY <1>5 DEF Continue, SaveEdit, MarkConfiguring, ChoosePeer, CreatePeer, Disconnect, Connect, ConfigureNat,
           SaveActive, RevokePrevious, Undo, MarkError, SshFails, bounds
  <2>2. PICK f : f = [b \in Bridges |-> Eligible(b)]
    OBVIOUS
  <2>3. Within(f)'
    BY <1>5, <2>2, CallsStayWithin, PollersAssumption DEF FailoverInv, AtEligible
  <2>4. \A b \in Bridges : Eligible(b)' = Eligible(b)
    BY <1>5, <2>1 DEF Eligible, Listed, environment
  <2>5. f = [b \in Bridges |-> Eligible(b)']
    BY <2>2, <2>4
  <2>6. Within([b \in Bridges |-> Eligible(b)])'
    BY <2>3, <2>5
  <2> QED
    BY <1>0, <1>5, <2>1, <2>6, NoProbeKeeps DEF environment
<1>6. ASSUME NEW t \in Targets, Flip(t) PROVE FailoverInv'
  BY <1>0, <1>1, <1>6 DEF Flip, vars, bounds
<1>7. CASE FailoverRestart
  <2>1. UNCHANGED <<row, answers, steady, hiccups>> /\ op' = [w \in Workers |-> Idle] /\ restarts' = restarts + 1
    BY <1>7 DEF FailoverRestart, Restart, environment
  <2>2. probes' = [t \in Targets |-> Unprobed]
    BY <1>7 DEF FailoverRestart
  <2>3. restarts' # 0
    BY <2>1 DEF TypeInv, TypeOK
  <2>4. \A b \in Bridges : Eligible(b) \subseteq Eligible(b)'
    BY <2>3 DEF Eligible, Listed
  <2>5. AtEligible'
    BY <2>1, <2>4, IdleType DEF FailoverInv, AtEligible, Within
  <2>6. FailoverTables'
    BY <2>1, <2>2, UnprobedIsAState DEF FailoverInv, FailoverTables
  <2>7. hiccups \in Nat
    BY FailoverBoundsAssumption DEF FailoverInv, FailoverTables
  <2>8. SteadyAnswer' /\ SteadyFirst'
    BY <1>0, <2>1, <2>2, <2>7 DEF SteadyAnswer, SteadyFirst, Unprobed
  <2> QED
    BY <2>5, <2>6, <2>8 DEF FailoverInv
<1>8. CASE Reboot /\ UNCHANGED <<environment, probes, poll>>
  <2>1. /\ UNCHANGED <<row, restarts, probes, hiccups, answers, steady>>
        /\ \A w \in Workers : /\ op'[w].stage = op[w].stage /\ op'[w].bridge = op[w].bridge
                              /\ op'[w].target = op[w].target /\ op'[w].held = op[w].held
    BY <1>8 DEF Reboot, environment, TypeInv, TypeOK, Call
  <2>2. \A b \in Bridges : Eligible(b)' = Eligible(b)
    BY <2>1 DEF Eligible, Listed
  <2>3. Within([b \in Bridges |-> Eligible(b)])'
    BY <2>1, <2>2 DEF FailoverInv, AtEligible, Within
  <2> QED
    BY <1>0, <2>1, <2>3, NoProbeKeeps
<1>9. CASE UNCHANGED failoverVars
  BY <1>0, <1>1, <1>9 DEF failoverVars, vars, environment, bounds
<1> QED
  BY <1>2, <1>3, <1>4, <1>5, <1>6, <1>7, <1>8, <1>9 DEF FailoverNext, PollStep

(***************************************************************************)
(* For any bridges, candidates and overlap of polls, failures and reboots, *)
(* and fewer lost probes than FLAP_PROTECTION_CONSECUTIVE: a bridge leaves *)
(* a server that has been up all the time only for a better candidate      *)
(* (updateState and reconcileBridge in bridge-failover.service.ts).        *)
(***************************************************************************)
THEOREM SteadyUpstreamsAreKept ==
    ASSUME MaxHiccups < Consecutive PROVE FailoverSafety => SteadyUpstreamKept
<1> DEFINE Keeps == \A p \in Pollers, b \in Bridges :
        /\ Reconcile(p, b)
        /\ op'[p].stage = "loaded"
        /\ row[b].upstream \in steady
        /\ restarts = 0 \/ hiccups = 0
        => op'[p].target = row[b].upstream \/ Before(b, op'[p].target, row[b].upstream)
<1>1. TypeInv /\ FailoverInv => Keeps
  <2> SUFFICES ASSUME TypeInv, FailoverInv, NEW p \in Pollers, NEW b \in Bridges, Reconcile(p, b),
                      op'[p].stage = "loaded", row[b].upstream \in steady, restarts = 0 \/ hiccups = 0
               PROVE  op'[p].target = row[b].upstream \/ Before(b, op'[p].target, row[b].upstream)
    OBVIOUS
  <2> DEFINE t == row[b].upstream
  <2>1. Best(b) # NoTarget /\ Start(p, b, Best(b), "loaded")
    BY DEF Reconcile
  <2>2. Best(b) \in Targets /\ p \in Workers /\ probes[Best(b)].reachable = "yes"
    BY <2>1, BestIsFirst, PollersAssumption
  <2>3. op'[p].target = Best(b)
    BY <2>1, <2>2, StartType DEF TypeInv
  <2>4. t \in Targets /\ t \in Eligible(b) /\ t # NoTarget /\ probes[t].reachable # "no"
    BY NamesAssumption DEF FailoverInv, FailoverTables, AtEligible, Within, SteadyAnswer
  <2>5. t \in Listed(b) /\ (restarts = 0 => probes[t].reachable # "unknown")
    BY <2>4 DEF Eligible
  <2>6. probes[t].reachable = "yes"
    <3>1. CASE restarts = 0
      BY <2>4, <2>5, <3>1 DEF FailoverInv, FailoverTables, ProbeState
    <3>2. CASE hiccups = 0
      BY <2>2, <3>2 DEF FailoverInv, SteadyFirst
    <3> QED
      BY <3>1, <3>2
  <2> QED
    BY <2>1, <2>3, <2>5, <2>6, BestIsFirst
<1>2. TypeInv /\ FailoverInv /\ [FailoverNext]_failoverVars => [Keeps]_failoverVars
  BY <1>1
<1>3. FailoverInit => TypeInv /\ FailoverInv
  BY InitType, FailoverStarts DEF FailoverInit
<1>4. TypeInv /\ [FailoverNext]_failoverVars => TypeInv'
  BY NextType, PollsAreCallers
<1>5. TypeInv /\ FailoverInv /\ [FailoverNext]_failoverVars => FailoverInv'
  BY FailoverContinues
<1> HIDE DEF Keeps
<1>6. FailoverSafety => [][Keeps]_failoverVars
  BY <1>2, <1>3, <1>4, <1>5, PTL DEF FailoverSafety
<1> QED
  BY <1>6 DEF Keeps, SteadyUpstreamKept

=============================================================================

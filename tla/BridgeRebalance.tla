-------------------------- MODULE BridgeRebalance --------------------------
(***************************************************************************)
(* The balancing timer of backend/src/bridges/bridges.service.ts: every    *)
(* five minutes it moves each bridge in mode AUTO to a server whose load   *)
(* is lower by at least REBALANCE_THRESHOLD.  The peer through which a     *)
(* bridge uses its upstream counts in that load, unless it is the reserved *)
(* peer of the server, which is there in any case.  A round is taken to    *)
(* end before the timer starts the next one.                               *)
(***************************************************************************)
EXTENDS Naturals, FiniteSets

CONSTANTS
    AutoBridges,  \* the bridges in mode AUTO
    Upstreams,    \* active protocols of one kind on servers that carry no bridge
    Spare,        \* the upstreams with a reserved peer
    Capacity,     \* maxPeers of the server of each
    MaxClients,   \* bound on the other peers of an upstream
    MaxChanges    \* bound on what happens besides balancing

ASSUME RebalanceAssumption ==
    /\ IsFiniteSet(AutoBridges) /\ AutoBridges # {}
    /\ IsFiniteSet(Upstreams) /\ Upstreams # {}
    /\ Spare \subseteq Upstreams
    /\ Capacity \in [Upstreams -> Nat]
    /\ MaxClients \in Nat /\ MaxChanges \in Nat

VARIABLES
    upstreamOf, \* bridges: upstreamServerProtocolId
    madePeer,   \* the bridges whose peer was made for them; the others use a reserved one
    clients,    \* active peers of other kinds on each upstream
    round,      \* the loop of the timer: the bridges to do, and the upstreams it read
    changes

rebalanceVars == <<upstreamOf, madePeer, clients, round, changes>>

RebalanceTypeOK ==
    /\ upstreamOf \in [AutoBridges -> Upstreams]
    /\ madePeer \subseteq AutoBridges
    /\ clients \in [Upstreams -> 0 .. MaxClients]
    /\ round \in [todo : SUBSET AutoBridges, read : [AutoBridges -> Upstreams]]
    /\ changes \in 0 .. MaxChanges

RebalanceInit ==
    /\ upstreamOf \in [AutoBridges -> Upstreams]
    /\ madePeer = AutoBridges
    /\ clients \in [Upstreams -> 0 .. MaxClients]
    /\ round = [todo |-> {}, read |-> upstreamOf]
    /\ changes = 0

Active(u) ==
    clients[u] + Cardinality({u} \cap Spare)
               + Cardinality({b \in madePeer : upstreamOf[b] = u})

\* The load of u as a fraction; a server without capacity counts as full.
Share(u) == IF Capacity[u] > 0 THEN <<Active(u), Capacity[u]>> ELSE <<1, 1>>

Less(u, v) == Share(u)[1] * Share(v)[2] < Share(v)[1] * Share(u)[2]

\* The load of v exceeds that of u by more than a fifth, or by a fifth exactly:
\* then the floating point difference may be found on either side of 0.2.
Above(u, v) ==
    5 * (Share(v)[1] * Share(u)[2]) > 5 * (Share(u)[1] * Share(v)[2]) + Share(u)[2] * Share(v)[2]
AboutAbove(u, v) ==
    5 * (Share(v)[1] * Share(u)[2]) = 5 * (Share(u)[1] * Share(v)[2]) + Share(u)[2] * Share(v)[2]

\* Mutant: the servers are not sorted by their load.
Others(v) == Upstreams \ {v}

LeastLoaded(v) == {u \in Upstreams \ {v} : \A w \in Upstreams \ {v} : ~Less(w, u)}

\* Mutant: no threshold.
BetterAtAll(v) == {u \in LeastLoaded(v) : Less(u, v)}

\* findBetterCandidate, for a bridge whose upstream was read as v.
Better(v) == {u \in LeastLoaded(v) : Above(u, v) \/ AboutAbove(u, v)}

\* setUpstream takes the reserved peer when no other bridge has it.
Move(b, u) ==
    /\ upstreamOf' = [upstreamOf EXCEPT ![b] = u]
    /\ madePeer' = IF u \in Spare /\ ~\E c \in AutoBridges \ (madePeer \cup {b}) : upstreamOf[c] = u
                     THEN madePeer \ {b} ELSE madePeer \cup {b}

-----------------------------------------------------------------------------

StartRound ==
    /\ round.todo = {}
    /\ round' = [todo |-> AutoBridges, read |-> upstreamOf]
    /\ UNCHANGED <<upstreamOf, madePeer, clients, changes>>

\* One bridge of the round; the loads are counted anew for each.
Balance(b) ==
    /\ b \in round.todo
    /\ round' = [round EXCEPT !.todo = @ \ {b}]
    /\ LET v == round.read[b]
       IN  \/ \E u \in Better(v) : Move(b, u)
           \/ (\A u \in Better(v) : ~Above(u, v)) /\ UNCHANGED <<upstreamOf, madePeer>>
    /\ UNCHANGED <<clients, changes>>

\* Clients come and go, an administrator moves a bridge, also during a round.
ClientsChange(u) ==
    /\ changes < MaxChanges
    /\ changes' = changes + 1
    /\ \E n \in 0 .. MaxClients : clients' = [clients EXCEPT ![u] = n]
    /\ UNCHANGED <<upstreamOf, madePeer, round>>

MoveByHand(b, u) ==
    /\ changes < MaxChanges
    /\ changes' = changes + 1
    /\ Move(b, u)
    /\ UNCHANGED <<clients, round>>

RebalanceNext ==
    \/ StartRound
    \/ \E b \in AutoBridges : Balance(b)
    \/ \E u \in Upstreams : ClientsChange(u) \/ \E b \in AutoBridges : MoveByHand(b, u)

\* The interval timer never stops, and a round gets to each of its bridges.
RebalanceFairness ==
    WF_rebalanceVars(StartRound) /\ \A b \in AutoBridges : WF_rebalanceVars(Balance(b))

RebalanceSpec == RebalanceInit /\ [][RebalanceNext]_rebalanceVars /\ RebalanceFairness

-----------------------------------------------------------------------------
(* Properties.                                                             *)

(***************************************************************************)
(* Balancing comes to rest: bridges do not go back and forth between       *)
(* servers for ever (the comment on REBALANCE_THRESHOLD), although each    *)
(* move changes the loads the next one is decided on.                      *)
(***************************************************************************)
BalancingSettles == <>[][UNCHANGED upstreamOf]_rebalanceVars

\* One more client is less than the threshold; no capacity at all counts as full.
RoomEnough == \A u \in Upstreams : Capacity[u] = 0 \/ Capacity[u] > 5

(***************************************************************************)
(* A bridge that the timer has moved is where the timer wants it: of all   *)
(* servers, the one it left included, none would be found better, although *)
(* the move itself changed two loads (the comment on REBALANCE_THRESHOLD). *)
(* With servers of five clients or fewer this is not so: the bridge itself *)
(* is then more than the threshold.                                        *)
(***************************************************************************)
MovesLast ==
    [][\A b \in AutoBridges, u \in Upstreams :
        upstreamOf[b] # u /\ upstreamOf'[b] = u /\ round.read[b] = upstreamOf[b] /\ Balance(b) /\ RoomEnough
          => Better(u)' = {}]_rebalanceVars

=============================================================================

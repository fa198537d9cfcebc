--------------------------- MODULE PeerPlacement ---------------------------
(***************************************************************************)
(* Where the peer of a person of an organization is put: the choices and   *)
(* checks of backend/src/peers/peers.service.ts for the panel (create), the *)
(* bot and the portal (createForTelegramRegistration and its variant for   *)
(* two protocols), and of load-balancer.service.ts, while administrators   *)
(* change what the organization may use and make bridges.  The users of    *)
(* the panel itself may use everything and are left out; so is what a      *)
(* creation does on the server (PeerSync), and that a peer which the       *)
(* server refuses is counted until its row is gone again.                  *)
(***************************************************************************)
EXTENDS Naturals, FiniteSets, FiniteSetsExt, Functions

CONSTANTS
    Gates,        \* bridges that may be made
    Hosts,        \* servers; SelfHost is the one that carries the bridges
    SelfHost,
    Limit,        \* maxPeers of every bridge
    HostLimit,    \* maxPeers of every server
    Clerks,       \* requests that may be in progress at the same time
    Revokers,     \* revocations that may be in progress at the same time
    Unguarded,    \* TRUE: requests also come while a bridge is being made
    MaxPlaced,    \* bound on the peers
    MaxDecisions, \* bound on what administrators change
    MaxRefusals,  \* bound on servers that fail while a peer is created
    Nowhere       \* no choice was made

ASSUME PlacementAssumption ==
    /\ SelfHost \in Hosts /\ Gates \cap Hosts = {}
    /\ Nowhere \notin Gates \cup Hosts
    /\ Limit > 0
    /\ {Limit, HostLimit, MaxPlaced, MaxDecisions, MaxRefusals} \subseteq Nat
    /\ Unguarded \in BOOLEAN /\ IsFiniteSet(Clerks) /\ IsFiniteSet(Revokers)

VARIABLES
    fitted,    \* the protocols of each bridge's client interfaces
    made,      \* the bridges whose row is saved
    foreign,   \* of them, those of another organization
    running,   \* the interfaces whose protocol is ACTIVE
    access,    \* of the organization: allowed (servers), blocked (bridges)
    placed,    \* active peers of each interface
    revoking,  \* the interface of the peer of each revocation that is not over
    clerk,     \* the request of each clerk
    decisions, refusals

placementVars == <<fitted, made, foreign, running, access, placed, revoking, clerk, decisions, refusals>>

\* An interface is named by its bridge or server and its protocol.
VpnKinds == {"wireguard", "amneziawg"}
Doors == (Gates \cup Hosts) \X VpnKinds
HostOf(d) == IF d[1] \in Gates THEN SelfHost ELSE d[1]

NoErrand == [stage |-> "idle", desk |-> "bot", kinds |-> {}, choice |-> Nowhere,
             offered |-> {}, within |-> {}, to |-> << >>, could |-> {}, own |-> {}]

PlacementTypeOK ==
    /\ fitted \in [Gates -> SUBSET VpnKinds] /\ foreign \subseteq made /\ made \subseteq Gates
    /\ running \subseteq Doors
    /\ access \in [allowed : SUBSET Hosts, blocked : SUBSET Gates]
    /\ placed \in [Doors -> 0 .. MaxPlaced + Cardinality(Revokers) + Cardinality(Clerks)]
    /\ revoking \in [Revokers -> SUBSET Doors]
    /\ \A c \in Clerks :
        /\ clerk[c].stage \in {"idle", "choosing", "resolving", "creating", "undoing", "taking"}
        /\ clerk[c].kinds \subseteq VpnKinds
        /\ clerk[c].choice \in Gates \cup Hosts \cup {Nowhere}
        /\ clerk[c].could \subseteq Doors /\ clerk[c].own \subseteq Gates

PlacementInit ==
    /\ fitted = [g \in Gates |-> {}] /\ made = {} /\ foreign = {}
    /\ running = Hosts \X VpnKinds
    /\ access \in [allowed : SUBSET Hosts, blocked : {{}}]
    /\ placed = [d \in Doors |-> 0] /\ revoking = [r \in Revokers |-> {}]
    /\ clerk = [c \in Clerks |-> NoErrand]
    /\ decisions = 0 /\ refusals = 0

-----------------------------------------------------------------------------
(* What the code finds when it looks for interfaces.                       *)

\* Bridges of the organization or of nobody in particular, those blocked left out.
Candidates == (made \ foreign) \ access.blocked

\* findActiveServerProtocolByServer: the only active interface of that kind, if no bridge has it.
DirectDoors(h, k) ==
    LET found == {d \in running : HostOf(d) = h /\ d[2] = k}
    IN  IF Cardinality(found) = 1 THEN {d \in found : d[1] \notin made} ELSE {}

GatePeers(g) == placed[<<g, "wireguard">>] + placed[<<g, "amneziawg">>]

\* Mutant: the two protocols of a bridge are counted apart.
HasRoomPerKind(g) == \E k \in VpnKinds : placed[<<g, k>>] < Limit

\* assertBridgeCapacity, for both protocols of the bridge together.
HasRoom(g) == GatePeers(g) < Limit

\* findBridgeClientProtocol and findBridgeClientProtocolByBridge.
GateDoors(g, k) == {d \in running : d = <<g, k>> /\ g \in made /\ HasRoom(g)}

\* pickServerProtocol: the least loaded interface that is no bridge's.
BalancedDoors(k, within) ==
    LET free == {d \in running : /\ d[2] = k /\ d[1] \notin made
                                 /\ HostOf(d) \in within /\ placed[d] < HostLimit}
    IN  {d \in free : \A e \in free : placed[d] <= placed[e]}

\* The doors behind a choice, for each protocol that was asked for.
At(choice, kinds) ==
    {f \in [kinds -> running] :
        \A k \in kinds : f[k] \in IF choice \in Gates THEN GateDoors(choice, k)
                                                      ELSE DirectDoors(choice, k)}

\* Mutant: the bridges that are blocked are left in when there are two protocols.
GateOptionsForgetful(kinds) ==
    {g \in IF kinds = VpnKinds THEN made \ foreign ELSE Candidates : {g} \X kinds \subseteq running}

\* The bridges of listUpstreamOptions and listMultiProtocolUpstreamOptions: neither
\* looks at capacity.
GateOptions(kinds) == {g \in Candidates : {g} \X kinds \subseteq running}

\* The servers with the protocol, or with both; whose the interfaces are does not matter.
HostsWith(kinds) == {h \in access.allowed : \A k \in kinds : \E d \in running : d[2] = k /\ HostOf(d) = h}

Options(kinds) == GateOptions(kinds) \cup HostsWith(kinds)

\* pickServerProtocolForOrganization: one candidate, be it usable or not, and only
\* without candidates the servers, by their load.
UnchosenOne(kinds) ==
    IF Candidates # {} THEN UNION {At(g, kinds) : g \in Candidates}
    ELSE {f \in [kinds -> running] : \A k \in kinds : f[k] \in BalancedDoors(k, access.allowed)}

\* pickMultiProtocolServerProtocolForOrganization: a candidate made for both, or a server with both.
UnchosenPair(kinds) ==
    LET both == {g \in Candidates : kinds \subseteq fitted[g]}
    IN  UNION {At(choice, kinds) : choice \in IF both # {} THEN both ELSE HostsWith(kinds)}

Unchosen(kinds) == IF Cardinality(kinds) > 1 THEN UnchosenPair(kinds) ELSE UnchosenOne(kinds)

-----------------------------------------------------------------------------
(* Administrators.  A request gathers what its organization had at some    *)
(* time while it was in progress: in clerk[c].could the interfaces of      *)
(* servers it was allowed and of bridges not blocked for it, in            *)
(* clerk[c].own the bridges that were its own or nobody's in particular.   *)

Usable(rights) ==
    {d \in Doors : IF d[1] \in Gates THEN d[1] \notin rights.blocked ELSE d[1] \in rights.allowed}

Noted ==
    clerk' = [c \in Clerks |->
                IF clerk[c].stage = "idle" THEN clerk[c]
                ELSE [clerk[c] EXCEPT !.could = clerk[c].could \cup Usable(access'),
                                      !.own = clerk[c].own \cup (made' \ foreign')]]

Decision == decisions < MaxDecisions /\ decisions' = decisions + 1

\* update of an organization writes the lists as they were sent.
SetAccess ==
    /\ Decision
    /\ access' \in [allowed : SUBSET Hosts, blocked : SUBSET Gates]
    /\ UNCHANGED <<fitted, made, foreign, running, placed, revoking, refusals>>
    /\ Noted

\* The interfaces of a new bridge become active before its row is saved.
InstallGate(g, kinds) ==
    /\ fitted[g] = {}
    /\ Unguarded \/ \A c \in Clerks : clerk[c].stage = "idle"
    /\ Decision
    /\ fitted' = [fitted EXCEPT ![g] = kinds]
    /\ running' = running \cup {g} \X kinds
    /\ UNCHANGED <<made, foreign, access, placed, revoking, clerk, refusals>>

SaveGate(g) ==
    /\ fitted[g] # {} /\ g \notin made
    /\ made' = made \cup {g}
    /\ foreign' \in {foreign, foreign \cup {g}}
    /\ UNCHANGED <<fitted, running, access, placed, revoking, decisions, refusals>>
    /\ Noted

\* update of a bridge hands it to another organization, or back.
HandOver(g) ==
    /\ g \in made
    /\ Decision
    /\ foreign' = IF g \in foreign THEN foreign \ {g} ELSE foreign \cup {g}
    /\ UNCHANGED <<fitted, made, running, access, placed, revoking, refusals>>
    /\ Noted

\* A protocol breaks (a new installation of it fails).
Break(d) ==
    /\ Decision
    /\ running' = running \ {d}
    /\ UNCHANGED <<fitted, made, foreign, access, placed, revoking, clerk, refusals>>

\* revokeInternal saves the peer as REVOKED, and it is not counted any more, before the
\* server is told.
RevokePeer(r, d) ==
    /\ revoking[r] = {} /\ placed[d] > 0
    /\ placed' = [placed EXCEPT ![d] = @ - 1]
    /\ revoking' = [revoking EXCEPT ![r] = {d}]
    /\ UNCHANGED <<fitted, made, foreign, running, access, clerk, decisions, refusals>>

\* The server was told, and no call is left that may make the peer ACTIVE again.
RevocationEnds(r) ==
    /\ revoking[r] # {}
    /\ revoking' = [revoking EXCEPT ![r] = {}]
    /\ UNCHANGED <<fitted, made, foreign, running, access, placed, clerk, decisions, refusals>>

\* The server does not answer and the status is put back; or a call that read the peer
\* before the revocation (update) saves the row it read.
PeerReturns(r) ==
    /\ \E d \in revoking[r] : placed' = [placed EXCEPT ![d] = @ + 1]
    /\ revoking' = [revoking EXCEPT ![r] = {}]
    /\ UNCHANGED <<fitted, made, foreign, running, access, clerk, decisions, refusals>>

-----------------------------------------------------------------------------
(* A request.                                                              *)

Quiet == Unguarded \/ \A g \in Gates \ made : fitted[g] = {}

\* create: what was chosen in the form is checked against the organization; without
\* a choice the servers it may use are handed to the balancer.
AskPanel(c, choice, kinds) ==
    /\ Quiet
    /\ clerk[c].stage = "idle"
    /\ choice \notin access.blocked
    /\ choice \in Hosts => choice \in access.allowed
    /\ choice = Nowhere => access.allowed # {}
    /\ clerk' = [clerk EXCEPT ![c] =
                    [NoErrand EXCEPT !.stage = "resolving", !.desk = "panel", !.kinds = kinds,
                                     !.choice = choice, !.within = access.allowed,
                                     !.could = Usable(access), !.own = made \ foreign]]
    /\ UNCHANGED <<fitted, made, foreign, running, access, placed, revoking, decisions, refusals>>

\* The bot and the portal show the options, and one is chosen later.
AskBot(c, kinds) ==
    /\ Quiet
    /\ clerk[c].stage = "idle"
    /\ clerk' = [clerk EXCEPT ![c] =
                    [NoErrand EXCEPT !.stage = "choosing", !.kinds = kinds, !.offered = Options(kinds),
                                     !.could = Usable(access), !.own = made \ foreign]]
    /\ UNCHANGED <<fitted, made, foreign, running, access, placed, revoking, decisions, refusals>>

\* resolveUpstreamOption trusts the choice: what the organization may use is not asked again.
ChooseOption(c) ==
    /\ clerk[c].stage = "choosing"
    /\ \E choice \in clerk[c].offered \cup {Nowhere} :
        clerk' = [clerk EXCEPT ![c] = [clerk[c] EXCEPT !.stage = "resolving", !.choice = choice, !.offered = {}]]
    /\ UNCHANGED <<fitted, made, foreign, running, access, placed, revoking, decisions, refusals>>

\* The interfaces a request may end up with.  The panel chooses for each protocol by itself.
Targets(q) ==
    IF q.choice \in Gates \cup Hosts
      THEN {f \in At(q.choice, q.kinds) : q.desk = "panel" => q.choice \notin foreign}
      ELSE IF q.desk = "bot" THEN Unchosen(q.kinds)
      ELSE {f \in [q.kinds -> running] : \A k \in q.kinds : f[k] \in BalancedDoors(k, q.within)}

\* The reads of one resolution are taken as one.
Resolve(c) ==
    /\ clerk[c].stage = "resolving"
    /\ \/ \E f \in Targets(clerk[c]) :
            clerk' = [clerk EXCEPT ![c] = [NoErrand EXCEPT !.stage = "creating", !.to = f,
                                                           !.kinds = clerk[c].kinds, !.could = clerk[c].could,
                                                           !.own = clerk[c].own]]
       \/ Targets(clerk[c]) = {} /\ clerk' = [clerk EXCEPT ![c] = NoErrand]
    /\ UNCHANGED <<fitted, made, foreign, running, access, placed, revoking, decisions, refusals>>

\* createInternal for one protocol after the other, WireGuard first.
Place(c, k) ==
    /\ clerk[c].stage = "creating"
    /\ k \in clerk[c].kinds /\ (k = "amneziawg" => "wireguard" \notin clerk[c].kinds)
    /\ SumFunction(placed) < MaxPlaced
    /\ placed' = [placed EXCEPT ![clerk[c].to[k]] = @ + 1]
    /\ clerk' = [clerk EXCEPT ![c] = IF clerk[c].kinds = {k} THEN NoErrand
                                     ELSE [clerk[c] EXCEPT !.kinds = clerk[c].kinds \ {k}]]
    /\ UNCHANGED <<fitted, made, foreign, running, access, revoking, decisions, refusals>>

\* The server refuses: the first peer of a pair is taken back.
PlaceFails(c) ==
    /\ clerk[c].stage = "creating"
    /\ refusals < MaxRefusals /\ refusals' = refusals + 1
    /\ clerk' = [clerk EXCEPT ![c] = IF DOMAIN clerk[c].to = clerk[c].kinds THEN NoErrand
                                     ELSE [clerk[c] EXCEPT !.stage = "undoing"]]
    /\ UNCHANGED <<fitted, made, foreign, running, access, placed, revoking, decisions>>

\* revokeInternal again: the peer is saved as REVOKED, if a revocation has not done so.
TakeBack(c) ==
    /\ clerk[c].stage = "undoing"
    /\ LET d == clerk[c].to["wireguard"]
       IN  placed' \in {placed, [placed EXCEPT ![d] = IF @ > 0 THEN @ - 1 ELSE 0]}
    /\ clerk' = [clerk EXCEPT ![c] = [clerk[c] EXCEPT !.stage = "taking"]]
    /\ UNCHANGED <<fitted, made, foreign, running, access, revoking, decisions, refusals>>

\* The server is told and the row removed, or it fails as well and the peer is ACTIVE again.
TakenBack(c) ==
    /\ clerk[c].stage = "taking"
    /\ clerk' = [clerk EXCEPT ![c] = NoErrand]
    /\ LET d == clerk[c].to["wireguard"]
       IN  \/ UNCHANGED <<placed, refusals>>
           \/ /\ refusals < MaxRefusals /\ refusals' = refusals + 1
              /\ placed' = [placed EXCEPT ![d] = @ + 1]
    /\ UNCHANGED <<fitted, made, foreign, running, access, revoking, decisions>>

-----------------------------------------------------------------------------

PlacementNext ==
    \/ SetAccess
    \/ \E g \in Gates : SaveGate(g) \/ HandOver(g) \/ \E kinds \in (SUBSET VpnKinds) \ {{}} : InstallGate(g, kinds)
    \/ \E d \in Doors : Break(d) \/ \E r \in Revokers : RevokePeer(r, d)
    \/ \E r \in Revokers : RevocationEnds(r) \/ PeerReturns(r)
    \/ \E c \in Clerks, kinds \in (SUBSET VpnKinds) \ {{}} :
        \/ AskBot(c, kinds)
        \/ \E choice \in made \cup Hosts \cup {Nowhere} : AskPanel(c, choice, kinds)
    \/ \E c \in Clerks :
        \/ ChooseOption(c) \/ Resolve(c) \/ PlaceFails(c) \/ TakeBack(c) \/ TakenBack(c)
        \/ \E k \in VpnKinds : Place(c, k)

PlacementSpec == PlacementInit /\ [][PlacementNext]_placementVars

-----------------------------------------------------------------------------
(* Properties.                                                             *)

(***************************************************************************)
(* Whichever way a request takes (form, bot, portal, balancer, fallback),  *)
(* its peers go to a server its organization was allowed at some time      *)
(* while the request was in progress, or to a bridge that was not blocked  *)
(* for it at some time and its own or nobody's at some time (the comments  *)
(* on allowedServerIds and blockedBridgeIds in organization.entity.ts),    *)
(* provided no bridge is half made meanwhile.  The two need not have been  *)
(* so together: the form asks for the one, and later for the other.        *)
(***************************************************************************)
AccessRespected ==
    \A c \in Clerks : clerk[c].stage = "creating" =>
        \A k \in clerk[c].kinds :
            LET d == clerk[c].to[k]
            IN  d \in clerk[c].could /\ (d[1] \in Gates => d[1] \in clerk[c].own)

\* The peers of a request that are decided for a bridge and not made yet; while the first
\* of a pair is taken back, which may leave it, it counts in the place of the second.
ComingFrom(q, g) ==
    {k \in VpnKinds :
        q.stage \in {"creating", "undoing", "taking"} /\ k \in q.kinds /\ q.to[k][1] = g}

\* Of all requests.
Coming(g) == {e \in Clerks \X VpnKinds : e[2] \in ComingFrom(clerk[e[1]], g)}

\* The revocations that may give a bridge its peer back.
Returning(g) == {r \in Revokers : \E d \in revoking[r] : d[1] = g}

(***************************************************************************)
(* The limit of a bridge (the comment on assertBridgeCapacity) is exceeded *)
(* by no more than the requests that were let in together and the          *)
(* revocations that were in progress account for: each request may still   *)
(* add two peers after the last count below the limit, and a peer that was *)
(* not counted because it was being revoked may come back.                 *)
(***************************************************************************)
LimitNearlyKept ==
    \A g \in Gates :
        g \in made /\ ~Unguarded =>
            GatePeers(g) + Cardinality(Coming(g)) + Cardinality(Returning(g))
                <= Limit - 1 + 2 * Cardinality(Clerks) + Cardinality(Revokers)

=============================================================================

-------------------------- MODULE BridgeLifecycle --------------------------
(***************************************************************************)
(* The rows of servers, protocols and bridges: what create and remove of   *)
(* backend/src/bridges/bridges.service.ts and of servers.service.ts do to  *)
(* them, with the foreign keys of the schema, and the upstreams that the   *)
(* panel chooses by itself (when a server is removed, and when balancing). *)
(*                                                                         *)
(* setUpstream is one step here that goes well or ends in ERROR; what      *)
(* happens inside it is BridgeUpstream's subject.                          *)
(***************************************************************************)
EXTENDS Naturals, FiniteSetsExt

CONSTANTS
    Rows,        \* server rows that may be made
    BridgeRows,  \* bridges that may be made
    Kinds,       \* WireGuard, AmneziaWG
    Nothing,
    Admins,      \* calls that may be in progress at the same time
    OneAdmin,    \* TRUE: a call that writes starts only when no other is in progress
    Neighbours,  \* TRUE: some choose the client interface of another bridge as upstream
    MaxTable,    \* bound on the numbers of routing tables
    MaxIncidents \* bound on failures and restarts

ASSUME LifecycleAssumption ==
    /\ OneAdmin \in BOOLEAN /\ Neighbours \in BOOLEAN /\ {MaxTable, MaxIncidents} \subseteq Nat
    /\ IsFiniteSet(Rows) /\ Rows \cap BridgeRows = {}

VARIABLES
    server,     \* rows: own (it is the host of the panel, not a column), isSelf
    protocol,   \* rows: on (serverId) and ok (status is ACTIVE, not ERROR)
    bridge,     \* rows: upstream, status, auto (mode), table; byHand is not a column
    admin,      \* the call of each admin that takes several steps
    incidents

lifecycleVars == <<server, protocol, bridge, admin, incidents>>

\* A protocol is named by the server it was installed on, or by the bridge
\* whose client interface it is, and its kind.
Protocols == (Rows \cup BridgeRows) \X Kinds

FirstTable == 1

NoCall == [stage |-> "idle", row |-> Nothing, bridge |-> Nothing, kinds |-> {},
           dead |-> {}, todo |-> {}, self |-> {}, table |-> 0]

ServerRow == [own : BOOLEAN, isSelf : BOOLEAN]
ProtocolRow == [on : Rows, ok : BOOLEAN]
BridgeRow == [upstream : Protocols \cup {Nothing}, status : {"not_configured", "active", "error"},
              auto : BOOLEAN, table : FirstTable .. MaxTable, byHand : BOOLEAN]

\* Nothing is no name and no row.
ASSUME NothingAssumption ==
    /\ Nothing \notin Rows \cup Protocols
    /\ Nothing \notin ServerRow /\ Nothing \notin ProtocolRow /\ Nothing \notin BridgeRow

LifecycleTypeOK ==
    /\ server \in [Rows -> ServerRow \cup {Nothing}]
    /\ protocol \in [Protocols -> ProtocolRow \cup {Nothing}]
    /\ bridge \in [BridgeRows -> BridgeRow \cup {Nothing}]
    /\ \A a \in Admins : admin[a].stage \in {"idle", "installing", "numbering", "reassigning"}

LifecycleInit ==
    /\ server = [r \in Rows |-> Nothing]
    /\ protocol = [p \in Protocols |-> Nothing]
    /\ bridge = [b \in BridgeRows |-> Nothing]
    /\ admin = [a \in Admins |-> NoCall]
    /\ incidents = 0

Made == {b \in BridgeRows : bridge[b] # Nothing}
Working == {p \in Protocols : protocol[p] # Nothing /\ protocol[p].ok}

\* The client interfaces of a bridge, and the servers that carry some.
Clients(b) == {p \in {b} \X Kinds : protocol[p] # Nothing}
SelfServers == {protocol[p].on : p \in UNION {Clients(b) : b \in Made}}

MayStart == OneAdmin => \A a \in Admins : admin[a].stage = "idle"

Incident == incidents < MaxIncidents /\ incidents' = incidents + 1

-----------------------------------------------------------------------------
(* Servers and their protocols.                                            *)

AddServer(r) ==
    /\ MayStart
    /\ server[r] = Nothing
    /\ server' = [server EXCEPT ![r] = [own |-> FALSE, isSelf |-> FALSE]]
    /\ UNCHANGED <<protocol, bridge, admin, incidents>>

\* The list of servers, which any page may ask for at any time, repairs isSelf.
ListServers ==
    /\ \E r \in Rows : server[r] # Nothing /\ server[r].isSelf # (r \in SelfServers)
    /\ server' = [r \in Rows |-> IF server[r] = Nothing THEN Nothing
                                 ELSE [server[r] EXCEPT !.isSelf = r \in SelfServers]]
    /\ UNCHANGED <<protocol, bridge, admin, incidents>>

\* An installation that goes wrong leaves a row with status ERROR.
Installed(p, r) ==
    \/ protocol' = [protocol EXCEPT ![p] = [on |-> r, ok |-> TRUE]] /\ UNCHANGED incidents
    \/ protocol' = [protocol EXCEPT ![p] = [on |-> r, ok |-> FALSE]] /\ Incident

InstallProtocol(r, k) ==
    /\ MayStart
    /\ server[r] # Nothing
    /\ <<r, k>> \notin Working
    /\ Installed(<<r, k>>, r)
    /\ UNCHANGED <<server, bridge, admin>>

-----------------------------------------------------------------------------
(* Creating a bridge: the self-server is the row that says so, or a new    *)
(* one from the credentials that the form asks for when there is none.     *)

BeginCreate(a, b, kinds) ==
    /\ MayStart
    /\ admin[a].stage = "idle"
    /\ bridge[b] = Nothing /\ Clients(b) = {}
    /\ \A c \in Admins : admin[c].bridge # b
    /\ kinds # {}
    /\ \E r \in Rows :
        /\ \/ server[r] # Nothing /\ server[r].isSelf /\ UNCHANGED server
           \/ /\ \A q \in Rows : server[q] # Nothing => ~server[q].isSelf
              /\ server[r] = Nothing
              /\ server' = [server EXCEPT ![r] = [own |-> TRUE, isSelf |-> TRUE]]
        /\ admin' = [admin EXCEPT ![a] = [NoCall EXCEPT !.stage = "installing", !.row = r,
                                                        !.bridge = b, !.kinds = kinds]]
    /\ UNCHANGED <<protocol, bridge, incidents>>

\* One client interface after the other; the call ends with the first that fails.
InstallClient(a, k) ==
    /\ admin[a].stage = "installing"
    /\ k \in admin[a].kinds
    /\ server[admin[a].row] # Nothing
    /\ Installed(<<admin[a].bridge, k>>, admin[a].row)
    /\ admin' = [admin EXCEPT ![a] = IF protocol'[<<admin[a].bridge, k>>].ok
                                       THEN [admin[a] EXCEPT !.kinds = @ \ {k}] ELSE NoCall]
    /\ UNCHANGED <<server, bridge>>

\* Mutant: the number of bridges, although one before the last may be gone.
NextTableByCount == Cardinality(Made) + FirstTable

NextTable == Max({bridge[b].table : b \in Made} \cup {FirstTable - 1}) + 1

\* allocateRouteTable: a transaction that reads all bridges and stores nothing.
AllocateTable(a) ==
    /\ admin[a].stage = "installing" /\ admin[a].kinds = {}
    /\ NextTable <= MaxTable
    /\ admin' = [admin EXCEPT ![a] = [admin[a] EXCEPT !.stage = "numbering", !.table = NextTable]]
    /\ UNCHANGED <<server, protocol, bridge, incidents>>

SaveBridge(a) ==
    /\ admin[a].stage = "numbering"
    /\ bridge' = [bridge EXCEPT ![admin[a].bridge] =
                    IF Clients(admin[a].bridge) = {} THEN Nothing
                    ELSE [upstream |-> Nothing, status |-> "not_configured", auto |-> FALSE,
                          table |-> admin[a].table, byHand |-> FALSE]]
    /\ admin' = [admin EXCEPT ![a] = NoCall]
    /\ UNCHANGED <<server, protocol, incidents>>

-----------------------------------------------------------------------------
(* Choosing an upstream.                                                   *)

\* What setUpstream leaves behind; a failure keeps the old upstream.
Switched(b, p, byHand) ==
    \/ /\ bridge' = [bridge EXCEPT ![b] = [bridge[b] EXCEPT !.upstream = p, !.status = "active", !.byHand = byHand]]
       /\ UNCHANGED incidents
    \/ /\ bridge' = [bridge EXCEPT ![b].status = "error"]
       /\ Incident

\* An administrator may choose anything but the bridge's own client interfaces.
SetUpstream(b, p) ==
    /\ MayStart
    /\ b \in Made
    /\ p \in Working \ (IF Neighbours THEN Clients(b) ELSE BridgeRows \X Kinds)
    /\ Switched(b, p, TRUE)
    /\ UNCHANGED <<server, protocol, admin>>

SetAuto(b) ==
    /\ MayStart
    /\ b \in Made
    /\ bridge[b].upstream # Nothing \/ bridge[b].auto
    /\ bridge' = [bridge EXCEPT ![b].auto = ~@]
    /\ UNCHANGED <<server, protocol, admin, incidents>>

\* Mutant: the panel's own host is as good as any.
AlternativesAnywhere(p, self) == {q \in Working \ {p} : q[2] = p[2]}

\* Protocols of the same kind on servers that carry no bridge.
Alternatives(p, self) == {q \in Working \ {p} : q[2] = p[2] /\ protocol[q].on \notin self}

\* The timer moves a balanced bridge to a server with less load; load is not modelled.
Rebalance(b) ==
    /\ MayStart
    /\ b \in Made
    /\ bridge[b].auto /\ bridge[b].upstream # Nothing
    /\ \E q \in Alternatives(bridge[b].upstream, SelfServers) : Switched(b, q, FALSE)
    /\ UNCHANGED <<server, protocol, admin>>

-----------------------------------------------------------------------------
(* Removal.                                                                *)

\* Deleting protocols deletes the bridges whose client interfaces they are,
\* and the references of other bridges (ON DELETE CASCADE, SET NULL).
Deleted(dead) ==
    /\ protocol' = [p \in Protocols |-> IF p \in dead THEN Nothing ELSE protocol[p]]
    /\ bridge' = [b \in BridgeRows |->
                    IF b \notin Made \/ Clients(b) \cap dead # {} THEN Nothing
                    ELSE IF bridge[b].upstream \in dead THEN [bridge[b] EXCEPT !.upstream = Nothing]
                    ELSE bridge[b]]

BeginRemoval(a, dead, row) ==
    /\ MayStart
    /\ admin[a].stage = "idle"
    /\ admin' = [admin EXCEPT ![a] =
                    [NoCall EXCEPT !.stage = "reassigning", !.row = row, !.dead = dead, !.self = SelfServers,
                                   !.todo = {b \in Made : bridge[b].upstream \in dead}]]
    /\ UNCHANGED <<server, protocol, bridge, incidents>>

RemoveServer(a, r) ==
    /\ server[r] # Nothing
    /\ BeginRemoval(a, {p \in Protocols : protocol[p] # Nothing /\ protocol[p].on = r}, r)

\* The client interface of a bridge cannot be removed by itself.
RemoveProtocol(a, p) ==
    /\ protocol[p] # Nothing
    /\ p \notin UNION {Clients(b) : b \in Made}
    /\ BeginRemoval(a, {p}, Nothing)

\* Mutant: a bridge for which there is no other server is only logged.
ReassignSome(a, b) ==
    /\ admin[a].stage = "reassigning"
    /\ b \in admin[a].todo
    /\ admin' = [admin EXCEPT ![a].todo = @ \ {b}]
    /\ LET p == bridge[b].upstream
           others == Alternatives(p, admin[a].self) \ admin[a].dead
       IN  IF b \in Made /\ p # Nothing /\ others # {} THEN \E q \in others : Switched(b, q, FALSE)
           ELSE UNCHANGED <<bridge, incidents>>
    /\ UNCHANGED <<server, protocol>>

\* reassignUpstreamAwayFrom: to another server, or marked as broken.
Reassign(a, b) ==
    /\ admin[a].stage = "reassigning"
    /\ b \in admin[a].todo
    /\ admin' = [admin EXCEPT ![a].todo = @ \ {b}]
    /\ LET p == bridge[b].upstream
           others == Alternatives(p, admin[a].self) \ admin[a].dead
       IN  IF b \notin Made \/ p = Nothing THEN UNCHANGED <<bridge, incidents>>
           ELSE IF others # {} THEN \E q \in others : Switched(b, q, FALSE)
           ELSE /\ bridge' = [bridge EXCEPT ![b] = [bridge[b] EXCEPT !.upstream = Nothing, !.status = "error"]]
                /\ UNCHANGED incidents
    /\ UNCHANGED <<server, protocol>>

FinishRemoval(a) ==
    /\ admin[a].stage = "reassigning" /\ admin[a].todo = {}
    /\ Deleted(admin[a].dead)
    /\ server' = [r \in Rows |-> IF r = admin[a].row THEN Nothing ELSE server[r]]
    /\ admin' = [admin EXCEPT ![a] = NoCall]
    /\ UNCHANGED incidents

\* remove of a bridge first takes its peer off the upstream server, which may fail.
RemoveBridge(b) ==
    /\ MayStart
    /\ b \in Made
    /\ \/ Deleted(Clients(b)) /\ UNCHANGED incidents
       \/ bridge[b].upstream # Nothing /\ Incident /\ UNCHANGED <<protocol, bridge>>
    /\ UNCHANGED <<server, admin>>

-----------------------------------------------------------------------------

\* A restart abandons the calls in progress.
LifecycleRestart ==
    /\ \E a \in Admins : admin[a].stage # "idle"
    /\ Incident
    /\ admin' = [a \in Admins |-> NoCall]
    /\ UNCHANGED <<server, protocol, bridge>>

LifecycleNext ==
    \/ \E r \in Rows : AddServer(r)
    \/ \E r \in Rows, k \in Kinds : InstallProtocol(r, k)
    \/ ListServers
    \/ \E b \in BridgeRows : SetAuto(b) \/ Rebalance(b) \/ RemoveBridge(b)
    \/ \E b \in BridgeRows, p \in Protocols : SetUpstream(b, p)
    \/ \E a \in Admins :
        \/ \E b \in BridgeRows, kinds \in SUBSET Kinds : BeginCreate(a, b, kinds)
        \/ \E k \in Kinds : InstallClient(a, k)
        \/ AllocateTable(a) \/ SaveBridge(a) \/ FinishRemoval(a)
        \/ \E r \in Rows : RemoveServer(a, r)
        \/ \E p \in Protocols : RemoveProtocol(a, p)
        \/ \E b \in BridgeRows : Reassign(a, b)
    \/ LifecycleRestart

LifecycleSpec == LifecycleInit /\ [][LifecycleNext]_lifecycleVars

-----------------------------------------------------------------------------
(* Properties.                                                             *)

(***************************************************************************)
(* A bridge that is shown as active has an upstream, whatever was removed  *)
(* (the comment in reassignUpstreamAwayFrom on bridges that stayed ACTIVE  *)
(* when their upstream server was removed).                                *)
(***************************************************************************)
ActiveBridgeHasUpstream ==
    \A b \in Made : bridge[b].status = "active" => bridge[b].upstream # Nothing

(***************************************************************************)
(* An upstream that the panel chose by itself is not on the panel's own    *)
(* host, where the traffic would go round in a circle (the comment on      *)
(* selfServerIds), provided the host was entered once as a server.         *)
(***************************************************************************)
EnteredOnce == Cardinality({r \in Rows : server[r] # Nothing /\ server[r].own}) <= 1

ChosenUpstreamLeavesHost ==
    EnteredOnce =>
        \A b \in Made :
            bridge[b].upstream # Nothing /\ ~bridge[b].byHand
                => ~server[protocol[bridge[b].upstream].on].own

(***************************************************************************)
(* No two bridges share a routing table, however many were created and     *)
(* removed before (the comment on routeTable in bridge.entity.ts).         *)
(***************************************************************************)
RouteTablesDistinct ==
    \A b, c \in Made : b # c => bridge[b].table # bridge[c].table

=============================================================================

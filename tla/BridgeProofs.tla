---------------------------- MODULE BridgeProofs ----------------------------
(***************************************************************************)
(* What is proved of bridges beside the switch of the upstream: their rows *)
(* (BridgeLifecycle), the lists that bypass them (BypassRules), the        *)
(* histories on which failover relies (FlapHistory), the moves of the      *)
(* balancing timer (BridgeRebalance) and what goes through a bridge to     *)
(* Telegram (TelegramRouting), for any numbers of rows, destinations,      *)
(* results, servers and clients.                                           *)
(***************************************************************************)
EXTENDS BridgeLifecycle, BypassRules, FlapHistory, BridgeRebalance, TelegramRouting,
        FiniteSetTheorems, WellFoundedInduction, TLAPS

-----------------------------------------------------------------------------
(* BridgeLifecycle: the rows of servers, protocols and bridges.            *)

CallRow == [stage : {"idle", "installing", "numbering", "reassigning"},
            row : Rows \cup {Nothing}, bridge : BridgeRows \cup {Nothing}, kinds : SUBSET Kinds,
            dead : SUBSET Protocols, todo : SUBSET BridgeRows, self : SUBSET Rows, table : Nat]

LifecycleTables ==
    /\ server \in [Rows -> ServerRow \cup {Nothing}]
    /\ protocol \in [Protocols -> ProtocolRow \cup {Nothing}]
    /\ bridge \in [BridgeRows -> BridgeRow \cup {Nothing}]
    /\ admin \in [Admins -> CallRow]

OneAtWork == \A a, c \in Admins : admin[a].stage # "idle" /\ admin[c].stage # "idle" => a = c

\* A protocol has its server, and its name; the self-server is the host of the panel.
ServersStand ==
    /\ \A p \in Protocols : protocol[p] # Nothing =>
        /\ server[protocol[p].on] # Nothing
        /\ p[1] \in Rows => protocol[p].on = p[1]
    /\ \A r \in Rows : server[r] # Nothing /\ server[r].isSelf => server[r].own

\* The client interfaces of a bridge are on one row of the host, and a bridge has some.
OnHost(b, r) == server[r] # Nothing /\ server[r].own /\ \A p \in Clients(b) : protocol[p].on = r

BridgesStand == \A b \in Made : Clients(b) # {} /\ \E r \in Rows : OnHost(b, r)

\* An upstream exists, is no client interface of a bridge, and if the panel chose it,
\* is not on the row that carries the bridge.
UpstreamsStand ==
    \A b \in Made : bridge[b].upstream # Nothing =>
        LET p == bridge[b].upstream
        IN  /\ protocol[p] # Nothing
            /\ ~Neighbours => p[1] \notin Made
            /\ ~bridge[b].byHand => \A q \in Clients(b) : protocol[q].on # protocol[p].on

RowsInv ==
    /\ ServersStand /\ BridgesStand /\ UpstreamsStand
    /\ ~Neighbours => ActiveBridgeHasUpstream
    /\ RouteTablesDistinct

\* What holds while a bridge is made, ...
Creating(a) ==
    LET b == admin[a].bridge
    IN  /\ b \in BridgeRows /\ bridge[b] = Nothing
        /\ admin[a].row \in Rows /\ OnHost(b, admin[a].row)
        /\ \A c \in Made : bridge[c].upstream # Nothing => bridge[c].upstream[1] # b
        /\ admin[a].stage = "numbering" =>
            admin[a].table \in FirstTable .. MaxTable /\ \A c \in Made : bridge[c].table < admin[a].table

\* ... and while something is removed.
Removing(a) ==
    /\ admin[a].self = SelfServers
    /\ \A p \in Protocols : protocol[p] # Nothing /\ protocol[p].on = admin[a].row => p \in admin[a].dead
    /\ \A b \in Made : bridge[b].upstream \in admin[a].dead /\ bridge[b].status = "active" => b \in admin[a].todo

CallsInv ==
    \A a \in Admins :
        /\ admin[a].stage \in {"installing", "numbering"} => Creating(a)
        /\ admin[a].stage = "reassigning" => Removing(a)

LifecycleInv == LifecycleTables /\ OneAtWork /\ RowsInv /\ CallsInv

LEMMA NoCallIsACall == NoCall \in CallRow /\ NoCall.stage = "idle"
BY DEF NoCall, CallRow

LEMMA ClientsAre ==
    \A b, p : p \in Clients(b) <=> p \in {b} \X Kinds /\ protocol[p] # Nothing
BY DEF Clients

LEMMA ClientNames ==
    ASSUME NEW b \in BridgeRows, NEW p \in Clients(b)
    PROVE  p \in Protocols /\ p[1] = b /\ p[1] \notin Rows /\ protocol[p] # Nothing
BY LifecycleAssumption DEF Clients, Protocols

LEMMA SelfServersAre ==
    \A r : r \in SelfServers <=> \E b \in Made : \E p \in Clients(b) : protocol[p].on = r
BY DEF SelfServers

\* A table has no row or one of its kind.
LEMMA RowTypes ==
    ASSUME LifecycleTables
    PROVE  /\ \A r \in Rows : server[r] # Nothing => server[r] \in ServerRow
           /\ \A p \in Protocols : protocol[p] # Nothing => protocol[p] \in ProtocolRow
           /\ \A b \in Made : b \in BridgeRows /\ bridge[b] \in BridgeRow
BY DEF LifecycleTables, Made

LEMMA LifecycleStarts == LifecycleInit => LifecycleInv
<1> SUFFICES ASSUME LifecycleInit PROVE LifecycleInv
  OBVIOUS
<1>1. Made = {}
  BY DEF LifecycleInit, Made
<1>2. LifecycleTables /\ OneAtWork /\ CallsInv
  BY NoCallIsACall DEF LifecycleInit, LifecycleTables, OneAtWork, CallsInv
<1>3. ServersStand
  BY DEF LifecycleInit, ServersStand
<1> QED
  BY <1>1, <1>2, <1>3 DEF LifecycleInv, RowsInv, BridgesStand, UpstreamsStand, ActiveBridgeHasUpstream,
                          RouteTablesDistinct

-----------------------------------------------------------------------------
(* Servers.                                                                *)

\* Rows of servers may be added and their flag set, as long as it is true.
LEMMA ServersMayGrow ==
    ASSUME LifecycleInv, server' \in [Rows -> ServerRow \cup {Nothing}],
           \A r \in Rows : server[r] # Nothing => server'[r] # Nothing /\ server'[r].own = server[r].own,
           \A r \in Rows : server'[r] # Nothing /\ server'[r].isSelf => server'[r].own,
           UNCHANGED <<protocol, bridge>>
    PROVE  /\ RowsInv'
           /\ Made' = Made /\ SelfServers' = SelfServers
           /\ \A b : Clients(b)' = Clients(b)
           /\ \A b \in BridgeRows, r \in Rows : OnHost(b, r) => OnHost(b, r)'
<1>1. Made' = Made /\ SelfServers' = SelfServers /\ \A b : Clients(b)' = Clients(b)
  BY DEF Made, SelfServers, Clients
<1>2. \A b \in BridgeRows, r \in Rows : OnHost(b, r) => OnHost(b, r)'
  BY <1>1 DEF OnHost
<1>3. ServersStand'
  BY RowTypes DEF LifecycleInv, RowsInv, ServersStand, ProtocolRow
<1>4. BridgesStand'
  BY <1>1, <1>2, RowTypes DEF LifecycleInv, RowsInv, BridgesStand
<1>5. UpstreamsStand' /\ RouteTablesDistinct' /\ (~Neighbours => ActiveBridgeHasUpstream)'
  BY <1>1 DEF LifecycleInv, RowsInv, UpstreamsStand, RouteTablesDistinct, ActiveBridgeHasUpstream
<1> QED
  BY <1>1, <1>2, <1>3, <1>4, <1>5 DEF RowsInv

LEMMA ServersKeep ==
    ASSUME LifecycleInv, (\E r \in Rows : AddServer(r)) \/ ListServers
    PROVE  LifecycleInv'
<1>1. UNCHANGED <<protocol, bridge, admin>>
  BY DEF AddServer, ListServers
<1> DEFINE Grown ==
      /\ server' \in [Rows -> ServerRow \cup {Nothing}]
      /\ \A r \in Rows : server[r] # Nothing => server'[r] # Nothing /\ server'[r].own = server[r].own
      /\ \A r \in Rows : server'[r] # Nothing /\ server'[r].isSelf => server'[r].own
<1>2. Grown
  <2>1. ASSUME NEW r \in Rows, AddServer(r) PROVE Grown
    <3>1. [own |-> FALSE, isSelf |-> FALSE] \in ServerRow
      BY DEF ServerRow
    <3> QED
      BY <2>1, <3>1 DEF AddServer, LifecycleInv, LifecycleTables, RowsInv, ServersStand
  <2>2. CASE ListServers
    <3>1. \A r \in SelfServers : r \in Rows => server[r].own
      BY SelfServersAre DEF LifecycleInv, RowsInv, BridgesStand, OnHost
    <3>2. ASSUME NEW r \in Rows
          PROVE  /\ server[r] = Nothing => server'[r] = Nothing
                 /\ server[r] # Nothing => server'[r] \in ServerRow /\ server'[r].own = server[r].own
                                           /\ (server'[r].isSelf => r \in SelfServers)
      <4>1. CASE server[r] = Nothing
        BY <2>2, <4>1 DEF ListServers
      <4>2. CASE server[r] # Nothing
        <5>1. server'[r] = [server[r] EXCEPT !.isSelf = r \in SelfServers]
          BY <2>2, <4>2 DEF ListServers
        <5>2. server[r] \in ServerRow /\ (r \in SelfServers) \in BOOLEAN
          BY <4>2, RowTypes DEF LifecycleInv
        <5> QED
          BY <4>2, <5>1, <5>2 DEF ServerRow
      <4> QED
        BY <4>1, <4>2
    <3>3. server' = [r \in Rows |-> server'[r]]
      BY <2>2 DEF ListServers
    <3> QED
      BY <3>1, <3>2, <3>3, NothingAssumption
  <2> QED
    BY <2>1, <2>2
<1>3. /\ RowsInv'
      /\ Made' = Made /\ SelfServers' = SelfServers
      /\ \A b \in BridgeRows, r \in Rows : OnHost(b, r) => OnHost(b, r)'
  BY <1>1, <1>2, ServersMayGrow
<1>4. CallsInv'
  BY <1>1, <1>3 DEF LifecycleInv, CallsInv, Creating, Removing
<1> QED
  BY <1>1, <1>2, <1>3, <1>4 DEF LifecycleInv, LifecycleTables, OneAtWork

-----------------------------------------------------------------------------
(* Protocols, and the creation of a bridge.                                *)

\* A row is made, or made again, for a protocol of no bridge.
LEMMA ProtocolMade ==
    ASSUME LifecycleInv, NEW p \in Protocols, NEW r \in Rows, NEW ok \in BOOLEAN,
           server[r] # Nothing, p[1] \notin Made, p[1] \in Rows => p[1] = r,
           protocol[p] # Nothing => protocol[p].on = r,
           protocol' = [protocol EXCEPT ![p] = [on |-> r, ok |-> ok]],
           UNCHANGED <<server, bridge>>
    PROVE  /\ RowsInv'
           /\ protocol' \in [Protocols -> ProtocolRow \cup {Nothing}]
           /\ Made' = Made
           /\ protocol'[p].on = r
           /\ \A b \in BridgeRows : b # p[1] => Clients(b)' = Clients(b)
           /\ \A q \in Protocols \ {p} : protocol'[q] = protocol[q]
<1> DEFINE new == [on |-> r, ok |-> ok]
<1>1. new \in ProtocolRow /\ new # Nothing /\ new.on = r
  BY NothingAssumption DEF ProtocolRow
<1>2. protocol' = [protocol EXCEPT ![p] = new]
  OBVIOUS
<1> HIDE DEF new
<1>3. /\ protocol' \in [Protocols -> ProtocolRow \cup {Nothing}] /\ protocol'[p] = new
      /\ \A q \in Protocols \ {p} : protocol'[q] = protocol[q]
  BY <1>1, <1>2 DEF LifecycleInv, LifecycleTables
<1>4. Made' = Made
  BY DEF Made
<1>5. ASSUME NEW b \in BridgeRows, b # p[1] PROVE Clients(b)' = Clients(b)
  <2>1. \A q \in {b} \X Kinds : q \in Protocols /\ q # p
    BY <1>5 DEF Protocols
  <2> QED
    BY <1>3, <2>1 DEF Clients
<1>6. \A b \in Made : b \in BridgeRows /\ b # p[1] /\ Clients(b)' = Clients(b)
  BY <1>5, RowTypes DEF LifecycleInv
<1>7. \A b \in Made : \A q \in Clients(b) : q \in Protocols /\ protocol'[q] = protocol[q]
  BY <1>3, <1>6, ClientNames
<1>8. ServersStand'
  BY <1>1, <1>3 DEF LifecycleInv, RowsInv, ServersStand
<1>9. BridgesStand'
  <2>1. ASSUME NEW b \in Made, NEW host \in Rows, OnHost(b, host) PROVE OnHost(b, host)'
    BY <1>6, <1>7, <2>1 DEF OnHost
  <2> QED
    BY <1>4, <1>6, <2>1 DEF LifecycleInv, RowsInv, BridgesStand
<1>10. UpstreamsStand'
  <2> SUFFICES ASSUME NEW b \in Made, bridge[b].upstream # Nothing
               PROVE  LET q == bridge[b].upstream
                      IN  /\ protocol'[q] # Nothing
                          /\ ~Neighbours => q[1] \notin Made
                          /\ ~bridge[b].byHand => \A c \in Clients(b)' : protocol'[c].on # protocol'[q].on
    BY <1>4 DEF UpstreamsStand
  <2> DEFINE q == bridge[b].upstream
  <2>1. q \in Protocols
    BY RowTypes DEF LifecycleInv, BridgeRow
  <2>2. /\ protocol[q] # Nothing /\ (~Neighbours => q[1] \notin Made)
        /\ ~bridge[b].byHand => \A c \in Clients(b) : protocol[c].on # protocol[q].on
    BY DEF LifecycleInv, RowsInv, UpstreamsStand
  <2>3. protocol'[q] # Nothing /\ protocol'[q].on = protocol[q].on
    BY <1>1, <1>3, <2>1, <2>2
  <2> HIDE DEF q
  <2>4. \A c \in Clients(b)' : c \in Clients(b) /\ protocol'[c] = protocol[c]
    BY <1>6, <1>7
  <2>5. ~bridge[b].byHand => \A c \in Clients(b)' : protocol'[c].on # protocol'[q].on
    BY <2>2, <2>3, <2>4
  <2> QED
    BY <2>2, <2>3, <2>5 DEF q
<1>11. RouteTablesDistinct' /\ (~Neighbours => ActiveBridgeHasUpstream)'
  BY <1>4 DEF LifecycleInv, RowsInv, RouteTablesDistinct, ActiveBridgeHasUpstream
<1> QED
  BY <1>1, <1>3, <1>4, <1>5, <1>8, <1>9, <1>10, <1>11 DEF RowsInv

LEMMA InstallKeeps ==
    ASSUME OneAdmin, LifecycleInv, NEW r \in Rows, NEW k \in Kinds, InstallProtocol(r, k)
    PROVE  LifecycleInv'
<1> DEFINE p == <<r, k>>
<1>1. PICK ok \in BOOLEAN : protocol' = [protocol EXCEPT ![p] = [on |-> r, ok |-> ok]]
  BY DEF InstallProtocol, Installed
<1>2. server[r] # Nothing /\ UNCHANGED <<server, bridge, admin>>
      /\ \A a \in Admins : admin[a].stage = "idle"
  BY DEF InstallProtocol, MayStart
<1>3. p \in Protocols /\ p[1] = r /\ p[1] \notin Made
  BY LifecycleAssumption DEF Protocols, Made
<1>4. protocol[p] # Nothing => protocol[p].on = r
  BY <1>3 DEF LifecycleInv, RowsInv, ServersStand
<1> HIDE DEF p
<1>5. RowsInv' /\ protocol' \in [Protocols -> ProtocolRow \cup {Nothing}]
  BY <1>1, <1>2, <1>3, <1>4, ProtocolMade
<1> QED
  BY <1>2, <1>5 DEF LifecycleInv, LifecycleTables, OneAtWork, CallsInv

\* While one call is in progress, only that one has to be looked at.
LEMMA OnlyCall ==
    ASSUME OneAtWork, NEW a \in Admins, admin[a].stage # "idle", admin' \in [Admins -> CallRow],
           \A c \in Admins \ {a} : admin'[c] = admin[c]
    PROVE  /\ OneAtWork'
           /\ \A c \in Admins \ {a} : admin'[c].stage = "idle"
BY DEF OneAtWork

LEMMA ClientKeeps ==
    ASSUME LifecycleInv, NEW a \in Admins, NEW k \in Kinds, InstallClient(a, k)
    PROVE  LifecycleInv'
<1>1. admin[a].stage = "installing" /\ server[admin[a].row] # Nothing /\ UNCHANGED <<server, bridge>>
  BY DEF InstallClient
<1>3. Creating(a)
  BY <1>1 DEF LifecycleInv, CallsInv
<1>0. PICK b \in BridgeRows, r \in Rows : b = admin[a].bridge /\ r = admin[a].row
  BY <1>3 DEF Creating
<1> DEFINE p == <<b, k>>
<1>2. PICK ok \in BOOLEAN : protocol' = [protocol EXCEPT ![p] = [on |-> r, ok |-> ok]]
  BY <1>0 DEF InstallClient, Installed
<1>4. p \in Protocols /\ p[1] = b /\ b \notin Made /\ b \notin Rows /\ r \in Rows /\ b \in BridgeRows
  BY <1>0, <1>3, LifecycleAssumption DEF Creating, Protocols, Made
<1>5. protocol[p] # Nothing => protocol[p].on = r
  BY <1>0, <1>3, <1>4 DEF Creating, OnHost, Clients
<1> HIDE DEF p
<1>6. /\ RowsInv' /\ protocol' \in [Protocols -> ProtocolRow \cup {Nothing}] /\ Made' = Made
      /\ protocol'[p].on = r /\ \A q \in Protocols \ {p} : protocol'[q] = protocol[q]
  BY <1>0, <1>1, <1>2, <1>4, <1>5, ProtocolMade
<1>7. admin' = [admin EXCEPT ![a] = IF protocol'[p].ok THEN [admin[a] EXCEPT !.kinds = @ \ {k}] ELSE NoCall]
  BY <1>0 DEF InstallClient, p
<1>8. admin[a] \in CallRow
  BY DEF LifecycleInv, LifecycleTables
<1>9. [admin[a] EXCEPT !.kinds = @ \ {k}] \in CallRow
  BY <1>8 DEF CallRow
<1>10. /\ admin' \in [Admins -> CallRow]
       /\ \A c \in Admins \ {a} : admin'[c] = admin[c]
       /\ \/ admin'[a] = NoCall
          \/ admin'[a].stage = "installing" /\ admin'[a].row = r /\ admin'[a].bridge = b
  BY <1>0, <1>1, <1>7, <1>8, <1>9, NoCallIsACall DEF LifecycleInv, LifecycleTables, CallRow
<1>11. OneAtWork' /\ \A c \in Admins \ {a} : admin'[c].stage = "idle"
  BY <1>1, <1>10, OnlyCall DEF LifecycleInv
<1>12. OnHost(b, r)'
  <2>1. \A q \in Clients(b)' : q = p \/ q \in Clients(b)
    <3>1. ASSUME NEW q \in {b} \X Kinds, q # p, protocol'[q] # Nothing PROVE protocol[q] # Nothing
      <4>1. q \in Protocols \ {p}
        BY <1>4, <3>1 DEF Protocols
      <4>2. protocol'[q] = protocol[q]
        BY <1>6, <4>1
      <4> QED
        BY <3>1, <4>2
    <3>2. \A q \in Clients(b)' : q \in {b} \X Kinds /\ protocol'[q] # Nothing
      BY DEF Clients
    <3> QED
      BY <3>1, <3>2 DEF Clients
  <2>2. \A q \in Clients(b) : q \in Protocols /\ protocol[q].on = r
    BY <1>0, <1>3, <1>4, ClientNames DEF Creating, OnHost
  <2>3. \A q \in Clients(b)' : protocol'[q].on = r
    BY <1>6, <2>1, <2>2
  <2> QED
    BY <1>0, <1>1, <1>3, <2>3 DEF Creating, OnHost
<1>13. admin'[a].stage # "idle" => Creating(a)'
  BY <1>0, <1>1, <1>3, <1>4, <1>6, <1>10, <1>12, NoCallIsACall DEF Creating
<1>14. CallsInv'
  BY <1>10, <1>11, <1>13, NoCallIsACall DEF CallsInv
<1> QED
  BY <1>1, <1>6, <1>10, <1>11, <1>14 DEF LifecycleInv, LifecycleTables

LEMMA BeginCreateKeeps ==
    ASSUME OneAdmin, LifecycleInv, NEW a \in Admins, NEW b \in BridgeRows, NEW kinds \in SUBSET Kinds,
           BeginCreate(a, b, kinds)
    PROVE  LifecycleInv'
<1>1. /\ \A c \in Admins : admin[c].stage = "idle"
      /\ bridge[b] = Nothing /\ Clients(b) = {} /\ UNCHANGED <<protocol, bridge>>
  BY DEF BeginCreate, MayStart
<1> DEFINE Call(r) == [NoCall EXCEPT !.stage = "installing", !.row = r, !.bridge = b, !.kinds = kinds]
<1>2. PICK r \in Rows :
        /\ \/ server[r] # Nothing /\ server[r].isSelf /\ UNCHANGED server
           \/ server[r] = Nothing /\ server' = [server EXCEPT ![r] = [own |-> TRUE, isSelf |-> TRUE]]
        /\ admin' = [admin EXCEPT ![a] = Call(r)]
  BY DEF BeginCreate
<1>3. Call(r) \in CallRow /\ Call(r).stage = "installing" /\ Call(r).row = r /\ Call(r).bridge = b
  BY DEF NoCall, CallRow
<1> HIDE DEF Call
<1>4. /\ admin' \in [Admins -> CallRow] /\ admin'[a] = Call(r)
      /\ \A c \in Admins \ {a} : admin'[c].stage = "idle"
  BY <1>1, <1>2, <1>3 DEF LifecycleInv, LifecycleTables
<1>5. [own |-> TRUE, isSelf |-> TRUE] \in ServerRow
  BY DEF ServerRow
<1>6. /\ server' \in [Rows -> ServerRow \cup {Nothing}]
      /\ \A q \in Rows : server[q] # Nothing => server'[q] # Nothing /\ server'[q].own = server[q].own
      /\ \A q \in Rows : server'[q] # Nothing /\ server'[q].isSelf => server'[q].own
      /\ server'[r] # Nothing /\ server'[r].own
  <2>1. server \in [Rows -> ServerRow \cup {Nothing}] /\ \A q \in Rows : server[q] # Nothing /\ server[q].isSelf => server[q].own
    BY DEF LifecycleInv, LifecycleTables, RowsInv, ServersStand
  <2>2. CASE server[r] # Nothing /\ server[r].isSelf /\ UNCHANGED server
    BY <2>1, <2>2
  <2>3. CASE server[r] = Nothing /\ server' = [server EXCEPT ![r] = [own |-> TRUE, isSelf |-> TRUE]]
    <3>1. server'[r] = [own |-> TRUE, isSelf |-> TRUE] /\ \A q \in Rows \ {r} : server'[q] = server[q]
      BY <2>1, <2>3
    <3>2. server' \in [Rows -> ServerRow \cup {Nothing}]
      BY <1>5, <2>1, <2>3
    <3>3. server'[r] # Nothing
      BY <1>5, <3>1, NothingAssumption
    <3> QED
      BY <2>1, <2>3, <3>1, <3>2, <3>3
  <2> QED
    BY <1>2, <2>2, <2>3
<1>7. RowsInv' /\ Made' = Made /\ Clients(b)' = {}
  BY <1>1, <1>6, ServersMayGrow
<1>8. \A c \in Made : bridge[c].upstream # Nothing => bridge[c].upstream[1] # b
  <2> SUFFICES ASSUME NEW c \in Made, bridge[c].upstream # Nothing, bridge[c].upstream[1] = b PROVE FALSE
    OBVIOUS
  <2> DEFINE p == bridge[c].upstream
  <2>1. p \in Protocols /\ protocol[p] # Nothing
    BY RowTypes DEF LifecycleInv, BridgeRow, RowsInv, UpstreamsStand
  <2>2. p \in {b} \X Kinds
    BY <2>1 DEF Protocols
  <2> QED
    BY <1>1, <2>1, <2>2, ClientsAre
<1>9. Creating(a)'
  BY <1>1, <1>3, <1>4, <1>6, <1>7, <1>8 DEF Creating, OnHost
<1>10. CallsInv' /\ OneAtWork'
  BY <1>3, <1>4, <1>9 DEF CallsInv, OneAtWork
<1> QED
  BY <1>1, <1>4, <1>6, <1>7, <1>10 DEF LifecycleInv, LifecycleTables

\* Numbers up to a bound have a greatest one.
LEMMA GreatestTable ==
    ASSUME NEW S \in SUBSET (0 .. MaxTable), S # {}
    PROVE  Max(S) \in S /\ \A x \in S : x <= Max(S)
<1>0. MaxTable \in Nat
  BY LifecycleAssumption
<1> DEFINE T == {n \in Nat : \E x \in S : n = MaxTable - x}
<1>1. T \subseteq Nat /\ T # {}
  <2>1. PICK x \in S : x \in 0 .. MaxTable
    OBVIOUS
  <2>2. MaxTable - x \in T
    BY <1>0, <2>1
  <2> QED
    BY <2>2
<1>2. \A R : IsWellFoundedOn(R, Nat) => \E x \in T : \A y \in T : ~ (<<y, x>> \in R)
  BY <1>1, WFMin
<1>3. \E x \in T : \A y \in T : ~ (<<y, x>> \in OpToRel(<, Nat))
  BY <1>2, NatLessThanWellFounded
<1>4. PICK n \in T : \A m \in T : ~ (m < n)
  <2>1. \A m, n \in Nat : m < n => <<m, n>> \in OpToRel(<, Nat)
    BY DEF OpToRel
  <2> QED
    BY <1>1, <1>3, <2>1
<1>5. PICK x \in S : n = MaxTable - x
  OBVIOUS
<1>6. \A y \in S : x >= y
  BY <1>0, <1>4, <1>5
<1>7. \E z \in S : \A y \in S : z >= y
  BY <1>6
<1> QED
  BY <1>0, <1>7 DEF Max

LEMMA NextTableIsFree ==
    ASSUME LifecycleTables
    PROVE  NextTable \in Nat /\ NextTable >= FirstTable /\ \A b \in Made : bridge[b].table < NextTable
<1> DEFINE S == {bridge[b].table : b \in Made} \cup {FirstTable - 1}
<1>1. MaxTable \in Nat
  BY LifecycleAssumption
<1>2. \A b \in Made : bridge[b].table \in FirstTable .. MaxTable
  BY RowTypes DEF BridgeRow
<1>3. S \in SUBSET (0 .. MaxTable) /\ S # {}
  BY <1>1, <1>2 DEF FirstTable
<1>4. \A b \in Made : bridge[b].table \in S
  OBVIOUS
<1> HIDE DEF S
<1>5. Max(S) \in S /\ \A x \in S : x <= Max(S)
  BY <1>3, GreatestTable
<1>6. NextTable = Max(S) + 1
  BY DEF NextTable, S
<1>7. Max(S) \in Nat /\ NextTable \in Nat /\ NextTable >= 1
  <2>1. Max(S) \in 0 .. MaxTable
    BY <1>3, <1>5
  <2> HIDE DEF NextTable
  <2> QED
    BY <1>1, <1>6, <2>1
<1>8. ASSUME NEW b \in Made PROVE bridge[b].table < NextTable
  BY <1>1, <1>2, <1>4, <1>5, <1>6, <1>7 DEF FirstTable
<1> QED
  BY <1>7, <1>8 DEF FirstTable

LEMMA AllocateKeeps ==
    ASSUME LifecycleInv, NEW a \in Admins, AllocateTable(a)
    PROVE  LifecycleInv'
<1> DEFINE call == [admin[a] EXCEPT !.stage = "numbering", !.table = NextTable]
<1>1. /\ admin[a].stage = "installing" /\ NextTable <= MaxTable
      /\ admin' = [admin EXCEPT ![a] = call] /\ UNCHANGED <<server, protocol, bridge>>
  BY DEF AllocateTable
<1>2. /\ admin[a] \in CallRow /\ NextTable \in FirstTable .. MaxTable /\ NextTable \in Nat
      /\ \A b \in Made : bridge[b].table < NextTable
  BY <1>1, NextTableIsFree, LifecycleAssumption DEF LifecycleInv, LifecycleTables, FirstTable
<1>3. /\ call \in CallRow /\ call.stage = "numbering" /\ call.table = NextTable
      /\ call.row = admin[a].row /\ call.bridge = admin[a].bridge
  BY <1>2 DEF CallRow
<1> HIDE DEF call
<1>4. /\ admin' \in [Admins -> CallRow] /\ admin'[a] = call
      /\ \A c \in Admins \ {a} : admin'[c] = admin[c]
  BY <1>1, <1>3 DEF LifecycleInv, LifecycleTables
<1>5. OneAtWork' /\ \A c \in Admins \ {a} : admin'[c].stage = "idle"
  BY <1>1, <1>4, OnlyCall DEF LifecycleInv
<1>6. Creating(a)
  BY <1>1 DEF LifecycleInv, CallsInv
<1>7. RowsInv' /\ Made' = Made /\ \A b \in BridgeRows, r \in Rows : OnHost(b, r) => OnHost(b, r)'
  BY <1>1, ServersMayGrow DEF LifecycleInv, LifecycleTables, RowsInv, ServersStand
<1>8. Creating(a)'
  <2>1. PICK b \in BridgeRows, r \in Rows : b = admin[a].bridge /\ r = admin[a].row
    BY <1>6 DEF Creating
  <2>2. OnHost(b, r)'
    BY <1>6, <1>7, <2>1 DEF Creating
  <2>3. admin'[a].bridge = b /\ admin'[a].row = r
    BY <1>3, <1>4, <2>1
  <2> QED
    BY <1>1, <1>2, <1>3, <1>4, <1>6, <1>7, <2>1, <2>2, <2>3 DEF Creating
<1>9. CallsInv'
  BY <1>3, <1>4, <1>5, <1>8 DEF CallsInv
<1> QED
  BY <1>1, <1>4, <1>5, <1>7, <1>9 DEF LifecycleInv, LifecycleTables

LEMMA SaveKeeps ==
    ASSUME LifecycleInv, NEW a \in Admins, SaveBridge(a)
    PROVE  LifecycleInv'
<1>1. admin[a].stage = "numbering" /\ UNCHANGED <<server, protocol>> /\ admin' = [admin EXCEPT ![a] = NoCall]
  BY DEF SaveBridge
<1>2. Creating(a)
  BY <1>1 DEF LifecycleInv, CallsInv
<1>3. PICK b \in BridgeRows, r \in Rows, t \in FirstTable .. MaxTable :
        /\ b = admin[a].bridge /\ r = admin[a].row /\ t = admin[a].table
        /\ bridge[b] = Nothing /\ OnHost(b, r)
        /\ \A c \in Made : bridge[c].upstream # Nothing => bridge[c].upstream[1] # b
        /\ \A c \in Made : bridge[c].table < t
  BY <1>1, <1>2 DEF Creating
<1> DEFINE new == [upstream |-> Nothing, status |-> "not_configured", auto |-> FALSE, table |-> t, byHand |-> FALSE]
<1>4. bridge' = [bridge EXCEPT ![b] = IF Clients(b) = {} THEN Nothing ELSE new]
  BY <1>3 DEF SaveBridge
<1>5. /\ new \in BridgeRow /\ new # Nothing /\ new.upstream = Nothing /\ new.status = "not_configured"
      /\ new.table = t
  <2>1. new \in BridgeRow
    BY DEF BridgeRow
  <2> QED
    BY <2>1, NothingAssumption
<1> HIDE DEF new
<1>6. /\ admin' \in [Admins -> CallRow] /\ admin'[a] = NoCall
      /\ \A c \in Admins \ {a} : admin'[c] = admin[c]
  BY <1>1, NoCallIsACall DEF LifecycleInv, LifecycleTables
<1>7. OneAtWork' /\ \A c \in Admins : admin'[c].stage = "idle"
  BY <1>1, <1>6, NoCallIsACall, OnlyCall DEF LifecycleInv
<1>8. bridge' \in [BridgeRows -> BridgeRow \cup {Nothing}]
  BY <1>4, <1>5 DEF LifecycleInv, LifecycleTables
<1>9. /\ \A c \in Made : c # b /\ bridge'[c] = bridge[c] /\ c \in BridgeRows
      /\ Made' \subseteq Made \cup {b}
      /\ b \in Made' => bridge'[b] = new /\ Clients(b) # {}
  BY <1>3, <1>4, <1>5 DEF LifecycleInv, LifecycleTables, Made
<1>10. \A c : Clients(c)' = Clients(c)
  BY <1>1 DEF Clients
<1>11. ServersStand'
  BY <1>1 DEF LifecycleInv, RowsInv, ServersStand
<1>12. BridgesStand'
  <2>1. \A c, q : OnHost(c, q)' <=> OnHost(c, q)
    BY <1>1, <1>10 DEF OnHost
  <2> QED
    BY <1>3, <1>9, <1>10, <2>1 DEF LifecycleInv, RowsInv, BridgesStand
<1>13. UpstreamsStand'
  <2> SUFFICES ASSUME NEW c \in Made', bridge'[c].upstream # Nothing
               PROVE  LET p == bridge'[c].upstream
                      IN  /\ protocol'[p] # Nothing
                          /\ ~Neighbours => p[1] \notin Made'
                          /\ ~bridge'[c].byHand => \A q \in Clients(c)' : protocol'[q].on # protocol'[p].on
    BY DEF UpstreamsStand
  <2>1. c \in Made /\ bridge'[c] = bridge[c]
    BY <1>5, <1>9
  <2> QED
    BY <1>1, <1>3, <1>9, <1>10, <2>1 DEF LifecycleInv, RowsInv, UpstreamsStand
<1>14. (~Neighbours => ActiveBridgeHasUpstream)'
  BY <1>5, <1>9 DEF LifecycleInv, RowsInv, ActiveBridgeHasUpstream
<1>15. RouteTablesDistinct'
  <2>1. \A c \in Made : bridge[c].table \in Nat /\ bridge[c].table < t
    BY <1>3, RowTypes DEF LifecycleInv, BridgeRow, FirstTable
  <2> QED
    BY <1>5, <1>9, <2>1 DEF LifecycleInv, RowsInv, RouteTablesDistinct
<1> QED
  BY <1>1, <1>6, <1>7, <1>8, <1>11, <1>12, <1>13, <1>14, <1>15
     DEF LifecycleInv, LifecycleTables, RowsInv, CallsInv

-----------------------------------------------------------------------------
(* The choice of an upstream.                                              *)

\* What may be written to a bridge: an upstream that stands, or none.
MayHave(b, new) ==
    /\ new \in BridgeRow /\ new.table = bridge[b].table
    /\ new.upstream # Nothing =>
        /\ protocol[new.upstream] # Nothing
        /\ ~Neighbours => new.upstream[1] \notin Made
        /\ ~new.byHand => \A q \in Clients(b) : protocol[q].on # protocol[new.upstream].on
    /\ ~Neighbours /\ new.status = "active" => new.upstream # Nothing

LEMMA BridgeChanges ==
    ASSUME LifecycleInv, NEW b \in Made, NEW new, MayHave(b, new),
           bridge' = [bridge EXCEPT ![b] = new], UNCHANGED <<server, protocol>>
    PROVE  /\ RowsInv' /\ bridge' \in [BridgeRows -> BridgeRow \cup {Nothing}]
           /\ Made' = Made /\ SelfServers' = SelfServers
           /\ bridge'[b] = new /\ \A c \in Made \ {b} : bridge'[c] = bridge[c]
<1>1. b \in BridgeRows /\ new \in BridgeRow /\ new # Nothing
  BY NothingAssumption DEF MayHave, Made
<1>2. /\ bridge' \in [BridgeRows -> BridgeRow \cup {Nothing}]
      /\ bridge'[b] = new /\ \A c \in BridgeRows \ {b} : bridge'[c] = bridge[c]
  BY <1>1 DEF LifecycleInv, LifecycleTables
<1>3. Made' = Made
  BY <1>1, <1>2 DEF Made
<1>4. \A c : Clients(c)' = Clients(c)
  BY DEF Clients
<1>5. SelfServers' = SelfServers
  BY <1>3 DEF SelfServers, Clients
<1>6. ServersStand' /\ BridgesStand'
  BY <1>3, <1>4 DEF LifecycleInv, RowsInv, ServersStand, BridgesStand, OnHost
<1>7. \A c \in Made : c \in BridgeRows /\ (c # b => bridge'[c] = bridge[c])
  BY <1>2 DEF Made
<1>8. UpstreamsStand'
  <2> SUFFICES ASSUME NEW c \in Made, bridge'[c].upstream # Nothing
               PROVE  LET p == bridge'[c].upstream
                      IN  /\ protocol'[p] # Nothing
                          /\ ~Neighbours => p[1] \notin Made'
                          /\ ~bridge'[c].byHand => \A q \in Clients(c)' : protocol'[q].on # protocol'[p].on
    BY <1>3 DEF UpstreamsStand
  <2>1. CASE c = b
    BY <1>2, <1>3, <1>4, <2>1 DEF MayHave
  <2>2. CASE c # b
    BY <1>3, <1>4, <1>7, <2>2 DEF LifecycleInv, RowsInv, UpstreamsStand
  <2> QED
    BY <2>1, <2>2
<1>9. (~Neighbours => ActiveBridgeHasUpstream)'
  BY <1>2, <1>3, <1>7 DEF LifecycleInv, RowsInv, ActiveBridgeHasUpstream, MayHave
<1>10. \A c \in Made : bridge'[c].table = bridge[c].table
  BY <1>2, <1>7 DEF MayHave
<1>11. RouteTablesDistinct'
  BY <1>3, <1>10 DEF LifecycleInv, RowsInv, RouteTablesDistinct
<1> QED
  BY <1>2, <1>3, <1>5, <1>6, <1>7, <1>8, <1>9, <1>11 DEF RowsInv

\* What a switch leaves, when it went well and when it did not.
LEMMA SwitchedIs ==
    ASSUME LifecycleInv, NEW b \in Made, NEW p \in Protocols, NEW byHand \in BOOLEAN, Switched(b, p, byHand),
           protocol[p] # Nothing, ~Neighbours => p[1] \notin Made,
           ~byHand => \A q \in Clients(b) : protocol[q].on # protocol[p].on
    PROVE  \E new : /\ MayHave(b, new) /\ bridge' = [bridge EXCEPT ![b] = new]
                    /\ new.status = "active" => new.upstream = p
<1>1. bridge[b] \in BridgeRow /\ p # Nothing
  BY RowTypes, NothingAssumption DEF LifecycleInv
<1>2. CASE bridge' = [bridge EXCEPT ![b] = [bridge[b] EXCEPT !.upstream = p, !.status = "active", !.byHand = byHand]]
  <2> DEFINE new == [bridge[b] EXCEPT !.upstream = p, !.status = "active", !.byHand = byHand]
  <2>1. new \in BridgeRow /\ new.table = bridge[b].table /\ new.upstream = p /\ new.byHand = byHand
    BY <1>1 DEF BridgeRow
  <2>2. bridge' = [bridge EXCEPT ![b] = new]
    BY <1>2
  <2> HIDE DEF new
  <2> QED
    BY <1>1, <2>1, <2>2 DEF MayHave
<1>3. CASE bridge' = [bridge EXCEPT ![b].status = "error"]
  <2> DEFINE new == [bridge[b] EXCEPT !.status = "error"]
  <2>1. /\ new \in BridgeRow /\ new.table = bridge[b].table /\ new.upstream = bridge[b].upstream
        /\ new.byHand = bridge[b].byHand /\ new.status = "error"
    BY <1>1 DEF BridgeRow
  <2>2. bridge' = [bridge EXCEPT ![b] = new]
    BY <1>3
  <2>3. bridge[b].upstream # Nothing =>
          /\ protocol[bridge[b].upstream] # Nothing
          /\ ~Neighbours => bridge[b].upstream[1] \notin Made
          /\ ~bridge[b].byHand => \A q \in Clients(b) : protocol[q].on # protocol[bridge[b].upstream].on
    BY DEF LifecycleInv, RowsInv, UpstreamsStand
  <2> HIDE DEF new
  <2>4. MayHave(b, new)
    BY <2>1, <2>3 DEF MayHave
  <2> QED
    BY <2>1, <2>2, <2>4
<1> QED
  BY <1>2, <1>3 DEF Switched

\* The alternatives are on servers that carry no bridge.
LEMMA AlternativesStand ==
    ASSUME LifecycleInv, NEW b \in Made, NEW p, NEW q \in Alternatives(p, SelfServers)
    PROVE  /\ q \in Protocols /\ protocol[q] # Nothing /\ q[1] \notin Made
           /\ \A c \in Clients(b) : protocol[c].on # protocol[q].on
<1>1. q \in Protocols /\ protocol[q] # Nothing /\ protocol[q].on \notin SelfServers
  BY DEF Alternatives, Working
<1>2. q[1] \notin Made
  <2> SUFFICES ASSUME q[1] \in Made PROVE FALSE
    OBVIOUS
  <2>1. q \in {q[1]} \X Kinds
    BY <1>1 DEF Protocols
  <2> QED
    BY <1>1, <2>1, ClientsAre, SelfServersAre
<1> QED
  BY <1>1, <1>2, SelfServersAre

\* While no call is in progress, the rows are all that there is to look at.
LEMMA QuietKeeps ==
    ASSUME LifecycleInv, \A a \in Admins : admin[a].stage = "idle", UNCHANGED <<server, protocol, admin>>,
           RowsInv', bridge' \in [BridgeRows -> BridgeRow \cup {Nothing}]
    PROVE  LifecycleInv'
BY DEF LifecycleInv, LifecycleTables, OneAtWork, CallsInv

LEMMA SetUpstreamKeeps ==
    ASSUME OneAdmin, LifecycleInv, NEW b \in BridgeRows, NEW p \in Protocols, SetUpstream(b, p)
    PROVE  LifecycleInv'
<1>1. /\ \A a \in Admins : admin[a].stage = "idle"
      /\ b \in Made /\ protocol[p] # Nothing /\ Switched(b, p, TRUE) /\ UNCHANGED <<server, protocol, admin>>
  BY DEF SetUpstream, MayStart, Working
<1>2. ~Neighbours => p[1] \notin Made
  <2> SUFFICES ASSUME ~Neighbours, p[1] \in Made PROVE FALSE
    OBVIOUS
  <2>1. p \in BridgeRows \X Kinds
    BY DEF Protocols, Made
  <2> QED
    BY <2>1 DEF SetUpstream
<1>3. \E new : MayHave(b, new) /\ bridge' = [bridge EXCEPT ![b] = new]
  BY <1>1, <1>2, SwitchedIs
<1> QED
  BY <1>1, <1>3, BridgeChanges, QuietKeeps

LEMMA RebalanceKeeps ==
    ASSUME OneAdmin, LifecycleInv, NEW b \in BridgeRows, Rebalance(b)
    PROVE  LifecycleInv'
<1>1. /\ \A a \in Admins : admin[a].stage = "idle"
      /\ b \in Made /\ UNCHANGED <<server, protocol, admin>>
  BY DEF Rebalance, MayStart
<1>2. PICK q \in Alternatives(bridge[b].upstream, SelfServers) : Switched(b, q, FALSE)
  BY DEF Rebalance
<1>3. \E new : MayHave(b, new) /\ bridge' = [bridge EXCEPT ![b] = new]
  BY <1>1, <1>2, AlternativesStand, SwitchedIs
<1> QED
  BY <1>1, <1>3, BridgeChanges, QuietKeeps

LEMMA SetAutoKeeps ==
    ASSUME OneAdmin, LifecycleInv, NEW b \in BridgeRows, SetAuto(b)
    PROVE  LifecycleInv'
<1> DEFINE new == [bridge[b] EXCEPT !.auto = ~@]
<1>1. /\ \A a \in Admins : admin[a].stage = "idle"
      /\ b \in Made /\ UNCHANGED <<server, protocol, admin>> /\ bridge' = [bridge EXCEPT ![b] = new]
  BY DEF SetAuto, MayStart
<1>2. bridge[b] \in BridgeRow
  BY <1>1, RowTypes DEF LifecycleInv
<1>3. /\ new \in BridgeRow /\ new.table = bridge[b].table /\ new.upstream = bridge[b].upstream
      /\ new.byHand = bridge[b].byHand /\ new.status = bridge[b].status
  BY <1>2 DEF BridgeRow
<1> HIDE DEF new
<1>4. MayHave(b, new)
  BY <1>1, <1>3 DEF LifecycleInv, RowsInv, UpstreamsStand, ActiveBridgeHasUpstream, MayHave
<1> QED
  BY <1>1, <1>4, BridgeChanges, QuietKeeps

-----------------------------------------------------------------------------
(* Removal.                                                                *)

LEMMA BeginRemovalKeeps ==
    ASSUME OneAdmin, LifecycleInv, NEW a \in Admins, NEW dead \in SUBSET Protocols, NEW row \in Rows \cup {Nothing},
           \A p \in Protocols : protocol[p] # Nothing /\ protocol[p].on = row => p \in dead,
           BeginRemoval(a, dead, row)
    PROVE  LifecycleInv'
<1> DEFINE todo == {b \in Made : bridge[b].upstream \in dead}
           call == [NoCall EXCEPT !.stage = "reassigning", !.row = row, !.dead = dead, !.self = SelfServers,
                                  !.todo = todo]
<1>1. /\ \A c \in Admins : admin[c].stage = "idle" /\ UNCHANGED <<server, protocol, bridge>>
      /\ admin' = [admin EXCEPT ![a] = call]
  BY DEF BeginRemoval, MayStart
<1>2. SelfServers \in SUBSET Rows /\ todo \in SUBSET BridgeRows
  <2>1. \A b \in Made : b \in BridgeRows
    BY DEF Made
  <2>2. \A b \in Made : \A p \in Clients(b) : protocol[p].on \in Rows
    BY <2>1, ClientNames, RowTypes DEF LifecycleInv, ProtocolRow
  <2> QED
    BY <2>1, <2>2, SelfServersAre
<1>3. /\ call \in CallRow /\ call.stage = "reassigning" /\ call.row = row /\ call.dead = dead
      /\ call.self = SelfServers /\ call.todo = todo
  BY <1>2 DEF NoCall, CallRow
<1> HIDE DEF call
<1>4. /\ admin' \in [Admins -> CallRow] /\ admin'[a] = call
      /\ \A c \in Admins \ {a} : admin'[c].stage = "idle"
  BY <1>1, <1>3 DEF LifecycleInv, LifecycleTables
<1>5. RowsInv' /\ Made' = Made /\ SelfServers' = SelfServers
  BY <1>1, ServersMayGrow DEF LifecycleInv, LifecycleTables, RowsInv, ServersStand
<1>6. Removing(a)'
  BY <1>1, <1>3, <1>4, <1>5 DEF Removing
<1>7. CallsInv' /\ OneAtWork'
  BY <1>3, <1>4, <1>6 DEF CallsInv, OneAtWork
<1> QED
  BY <1>1, <1>4, <1>5, <1>7 DEF LifecycleInv, LifecycleTables

LEMMA RemovalsBegin ==
    ASSUME OneAdmin, LifecycleInv, NEW a \in Admins,
           (\E r \in Rows : RemoveServer(a, r)) \/ \E p \in Protocols : RemoveProtocol(a, p)
    PROVE  LifecycleInv'
<1>1. ASSUME NEW r \in Rows, RemoveServer(a, r) PROVE LifecycleInv'
  BY <1>1, BeginRemovalKeeps DEF RemoveServer
<1>2. ASSUME NEW p \in Protocols, RemoveProtocol(a, p) PROVE LifecycleInv'
  <2>1. \A q \in Protocols : protocol[q] # Nothing => protocol[q].on # Nothing
    BY RowTypes, NothingAssumption DEF LifecycleInv, ProtocolRow
  <2> QED
    BY <1>2, <2>1, BeginRemovalKeeps DEF RemoveProtocol
<1> QED
  BY <1>1, <1>2

LEMMA ReassignKeeps ==
    ASSUME LifecycleInv, NEW a \in Admins, NEW b \in BridgeRows, Reassign(a, b)
    PROVE  LifecycleInv'
<1> DEFINE call == [admin[a] EXCEPT !.todo = @ \ {b}]
           p == bridge[b].upstream
           others == Alternatives(p, admin[a].self) \ admin[a].dead
<1>1. /\ admin[a].stage = "reassigning" /\ UNCHANGED <<server, protocol>>
      /\ admin' = [admin EXCEPT ![a] = call]
  BY DEF Reassign
<1>2. admin[a] \in CallRow /\ Removing(a)
  BY <1>1 DEF LifecycleInv, LifecycleTables, CallsInv
<1>3. /\ call \in CallRow /\ call.stage = "reassigning" /\ call.row = admin[a].row /\ call.dead = admin[a].dead
      /\ call.self = admin[a].self /\ call.todo = admin[a].todo \ {b}
  BY <1>1, <1>2 DEF CallRow
<1> HIDE DEF call
<1>4. /\ admin' \in [Admins -> CallRow] /\ admin'[a] = call
      /\ \A c \in Admins \ {a} : admin'[c] = admin[c]
  BY <1>1, <1>3 DEF LifecycleInv, LifecycleTables
<1>5. OneAtWork' /\ \A c \in Admins \ {a} : admin'[c].stage = "idle"
  BY <1>1, <1>4, OnlyCall DEF LifecycleInv
<1> DEFINE Kept ==
      /\ RowsInv' /\ bridge' \in [BridgeRows -> BridgeRow \cup {Nothing}]
      /\ Made' = Made /\ SelfServers' = SelfServers
      /\ \A c \in Made \ {b} : bridge'[c] = bridge[c]
      /\ b \in Made /\ bridge'[b].upstream \in admin[a].dead => bridge'[b].status # "active"
<1>6. Kept
  <2>1. CASE (b \notin Made \/ p = Nothing) /\ UNCHANGED <<bridge, incidents>>
    <3>1. Nothing \notin admin[a].dead
      BY <1>2, NothingAssumption DEF CallRow
    <3>2. RowsInv' /\ Made' = Made /\ SelfServers' = SelfServers
      BY <1>1, <2>1, ServersMayGrow DEF LifecycleInv, LifecycleTables, RowsInv, ServersStand
    <3> QED
      BY <2>1, <3>1, <3>2 DEF LifecycleInv, LifecycleTables
  <2>2. ASSUME b \in Made, NEW new, MayHave(b, new), bridge' = [bridge EXCEPT ![b] = new],
               new.status = "active" => new.upstream \notin admin[a].dead
        PROVE  Kept
    BY <1>1, <2>2, BridgeChanges
  <2>3. ASSUME b \in Made, NEW q \in others, Switched(b, q, FALSE)
        PROVE  Kept
    <3>1. q \in Alternatives(p, SelfServers) /\ q \notin admin[a].dead
      BY <1>2 DEF Removing
    <3>2. /\ q \in Protocols /\ protocol[q] # Nothing /\ q[1] \notin Made
          /\ \A c \in Clients(b) : protocol[c].on # protocol[q].on
      <4> HIDE DEF p, others
      <4> QED
        BY <2>3, <3>1, AlternativesStand
    <3>3. \E new : /\ MayHave(b, new) /\ bridge' = [bridge EXCEPT ![b] = new]
                   /\ new.status = "active" => new.upstream = q
      BY <2>3, <3>2, SwitchedIs
    <3> QED
      BY <2>2, <2>3, <3>1, <3>3
  <2>4. CASE b \in Made /\ bridge' = [bridge EXCEPT ![b] = [bridge[b] EXCEPT !.upstream = Nothing, !.status = "error"]]
    <3> DEFINE new == [bridge[b] EXCEPT !.upstream = Nothing, !.status = "error"]
    <3>1. bridge[b] \in BridgeRow
      BY <2>4, RowTypes DEF LifecycleInv
    <3>2. new \in BridgeRow /\ new.table = bridge[b].table /\ new.upstream = Nothing /\ new.status = "error"
      BY <3>1 DEF BridgeRow
    <3>3. bridge' = [bridge EXCEPT ![b] = new]
      BY <2>4
    <3> HIDE DEF new
    <3>4. MayHave(b, new)
      BY <3>2 DEF MayHave
    <3> QED
      BY <2>2, <2>4, <3>2, <3>3, <3>4
  <2> QED
    BY <2>1, <2>3, <2>4 DEF Reassign
<1>7. Removing(a)'
  BY <1>1, <1>2, <1>3, <1>4, <1>6 DEF Removing
<1>8. CallsInv'
  BY <1>3, <1>4, <1>5, <1>7 DEF CallsInv
<1> QED
  BY <1>1, <1>4, <1>5, <1>6, <1>8 DEF LifecycleInv, LifecycleTables

\* Rows go, and those that depend on them.
LEMMA RowsGo ==
    ASSUME LifecycleInv, NEW dead \in SUBSET Protocols, NEW row \in Rows \cup {Nothing}, Deleted(dead),
           \A r \in Rows \ {row} : server'[r] = server[r],
           server' \in [Rows -> ServerRow \cup {Nothing}],
           \A r \in Rows : server'[r] # Nothing => server'[r] = server[r],
           \A p \in Protocols : protocol[p] # Nothing /\ protocol[p].on = row => p \in dead,
           ~Neighbours => \A b \in Made : bridge[b].upstream \in dead /\ bridge[b].status = "active"
                                            => Clients(b) \cap dead # {}
    PROVE  /\ RowsInv'
           /\ protocol' \in [Protocols -> ProtocolRow \cup {Nothing}]
           /\ bridge' \in [BridgeRows -> BridgeRow \cup {Nothing}]
<1>1. protocol' \in [Protocols -> ProtocolRow \cup {Nothing}]
  BY DEF Deleted, LifecycleInv, LifecycleTables
<1>2. \A p \in Protocols : protocol'[p] # Nothing => p \notin dead /\ protocol'[p] = protocol[p]
  BY DEF Deleted
<1>3. \A p \in Protocols \ dead : protocol'[p] = protocol[p]
  BY DEF Deleted
<1> DEFINE Cut(b) == [bridge[b] EXCEPT !.upstream = Nothing]
<1>4. \A b \in Made : /\ b \in BridgeRows /\ bridge[b] \in BridgeRow /\ Cut(b) \in BridgeRow
                      /\ Cut(b).upstream = Nothing
                      /\ Cut(b).status = bridge[b].status /\ Cut(b).table = bridge[b].table
  BY RowTypes DEF LifecycleInv, BridgeRow
<1>5. \A b \in BridgeRows :
        bridge'[b] = IF b \notin Made \/ Clients(b) \cap dead # {} THEN Nothing
                     ELSE IF bridge[b].upstream \in dead THEN Cut(b) ELSE bridge[b]
  BY DEF Deleted
<1> HIDE DEF Cut
<1>6. bridge' \in [BridgeRows -> BridgeRow \cup {Nothing}]
  <2>1. \A b \in BridgeRows : bridge'[b] \in BridgeRow \cup {Nothing}
    BY <1>4, <1>5
  <2>2. bridge' = [b \in BridgeRows |-> bridge'[b]]
    BY DEF Deleted
  <2> QED
    BY <2>1, <2>2
<1>7. ASSUME NEW b \in Made'
      PROVE  /\ b \in Made /\ b \in BridgeRows /\ Clients(b) \cap dead = {}
             /\ bridge[b].upstream \in dead => bridge'[b] = Cut(b)
             /\ bridge[b].upstream \notin dead => bridge'[b] = bridge[b]
             /\ bridge'[b].table = bridge[b].table /\ bridge'[b].status = bridge[b].status
  <2>1. b \in BridgeRows /\ bridge'[b] # Nothing
    BY DEF Made
  <2>2. b \in Made /\ Clients(b) \cap dead = {}
    BY <1>5, <2>1
  <2> QED
    BY <1>4, <1>5, <2>1, <2>2
<1>8. ASSUME NEW b \in Made' PROVE Clients(b)' = Clients(b) /\ \A p \in Clients(b) : p \in Protocols /\ protocol'[p] = protocol[p]
  <2>1. \A p \in {b} \X Kinds : p \in Protocols
    BY <1>7 DEF Protocols
  <2>2. \A p \in Clients(b) : p \in Protocols \ dead
    BY <1>7, <2>1, ClientsAre
  <2>3. \A p \in Clients(b)' : p \in {b} \X Kinds /\ protocol'[p] # Nothing
    BY DEF Clients
  <2>4. \A p \in Clients(b)' : p \in Clients(b)
    BY <1>2, <2>1, <2>3, ClientsAre
  <2>5. \A p \in Clients(b) : protocol'[p] = protocol[p] /\ p \in Clients(b)'
    BY <1>3, <2>2, ClientsAre DEF Clients
  <2> QED
    BY <2>2, <2>4, <2>5
<1>9. \A p \in Protocols : protocol'[p] # Nothing =>
        /\ protocol'[p] = protocol[p] /\ protocol[p] # Nothing /\ protocol[p].on \in Rows \ {row}
        /\ server'[protocol[p].on] = server[protocol[p].on]
  <2> SUFFICES ASSUME NEW p \in Protocols, protocol'[p] # Nothing
               PROVE  /\ protocol'[p] = protocol[p] /\ protocol[p] # Nothing /\ protocol[p].on \in Rows \ {row}
                      /\ server'[protocol[p].on] = server[protocol[p].on]
    OBVIOUS
  <2>1. protocol'[p] = protocol[p] /\ p \notin dead
    BY <1>2
  <2>2. protocol[p].on \in Rows
    BY <2>1, RowTypes DEF LifecycleInv, ProtocolRow
  <2> QED
    BY <2>1, <2>2
<1>10. ServersStand'
  BY <1>9 DEF LifecycleInv, RowsInv, ServersStand
<1>11. BridgesStand'
  <2> SUFFICES ASSUME NEW b \in Made' PROVE Clients(b)' # {} /\ \E r \in Rows : OnHost(b, r)'
    BY DEF BridgesStand
  <2>1. Clients(b) # {} /\ \E r \in Rows : OnHost(b, r)
    BY <1>7 DEF LifecycleInv, RowsInv, BridgesStand
  <2>2. PICK r \in Rows : OnHost(b, r)
    BY <2>1
  <2>3. PICK p \in Clients(b) : TRUE
    BY <2>1
  <2>4. /\ p \in Protocols /\ protocol'[p] = protocol[p] /\ protocol[p].on = r /\ protocol[p] # Nothing
    BY <1>8, <2>2, ClientsAre DEF OnHost
  <2>5. server'[r] = server[r]
    BY <1>9, <2>4
  <2>6. OnHost(b, r)'
    BY <1>8, <2>2, <2>5 DEF OnHost
  <2> QED
    BY <1>8, <2>1, <2>6
<1>12. UpstreamsStand'
  <2> SUFFICES ASSUME NEW b \in Made', bridge'[b].upstream # Nothing
               PROVE  LET p == bridge'[b].upstream
                      IN  /\ protocol'[p] # Nothing
                          /\ ~Neighbours => p[1] \notin Made'
                          /\ ~bridge'[b].byHand => \A q \in Clients(b)' : protocol'[q].on # protocol'[p].on
    BY DEF UpstreamsStand
  <2>1. b \in Made /\ bridge[b].upstream \notin dead /\ bridge'[b] = bridge[b]
    BY <1>4, <1>7
  <2> DEFINE p == bridge[b].upstream
  <2>2. p \in Protocols
    BY <1>4, <2>1 DEF BridgeRow
  <2>3. /\ protocol[p] # Nothing /\ (~Neighbours => p[1] \notin Made)
        /\ ~bridge[b].byHand => \A q \in Clients(b) : protocol[q].on # protocol[p].on
    BY <2>1 DEF LifecycleInv, RowsInv, UpstreamsStand
  <2>4. protocol'[p] = protocol[p]
    BY <1>3, <2>1, <2>2
  <2>5. \A q \in Clients(b)' : q \in Clients(b) /\ protocol'[q] = protocol[q]
    BY <1>8
  <2>6. ~bridge[b].byHand => \A q \in Clients(b)' : protocol'[q].on # protocol'[p].on
    BY <2>3, <2>4, <2>5
  <2>7. ~Neighbours => p[1] \notin Made'
    BY <1>7, <2>3
  <2> HIDE DEF p
  <2> QED
    BY <2>1, <2>3, <2>4, <2>6, <2>7 DEF p
<1>13. (~Neighbours => ActiveBridgeHasUpstream)'
  BY <1>7 DEF LifecycleInv, RowsInv, ActiveBridgeHasUpstream
<1>14. RouteTablesDistinct'
  BY <1>7 DEF LifecycleInv, RowsInv, RouteTablesDistinct
<1> QED
  BY <1>1, <1>6, <1>10, <1>11, <1>12, <1>13, <1>14 DEF RowsInv

LEMMA FinishKeeps ==
    ASSUME LifecycleInv, NEW a \in Admins, FinishRemoval(a)
    PROVE  LifecycleInv'
<1>1. /\ admin[a].stage = "reassigning" /\ admin[a].todo = {} /\ Deleted(admin[a].dead)
      /\ server' = [r \in Rows |-> IF r = admin[a].row THEN Nothing ELSE server[r]]
      /\ admin' = [admin EXCEPT ![a] = NoCall]
  BY DEF FinishRemoval
<1>2. admin[a] \in CallRow /\ Removing(a)
  BY <1>1 DEF LifecycleInv, LifecycleTables, CallsInv
<1>3. admin[a].dead \in SUBSET Protocols /\ admin[a].row \in Rows \cup {Nothing}
  BY <1>2 DEF CallRow
<1>4. /\ server' \in [Rows -> ServerRow \cup {Nothing}]
      /\ \A r \in Rows \ {admin[a].row} : server'[r] = server[r]
      /\ \A r \in Rows : server'[r] # Nothing => server'[r] = server[r]
  BY <1>1 DEF LifecycleInv, LifecycleTables
<1>5. \A b \in Made : ~(bridge[b].upstream \in admin[a].dead /\ bridge[b].status = "active")
  BY <1>1, <1>2 DEF Removing
<1>6. /\ RowsInv' /\ protocol' \in [Protocols -> ProtocolRow \cup {Nothing}]
      /\ bridge' \in [BridgeRows -> BridgeRow \cup {Nothing}]
  BY <1>1, <1>2, <1>3, <1>4, <1>5, RowsGo DEF Removing
<1>7. /\ admin' \in [Admins -> CallRow] /\ admin'[a] = NoCall
      /\ \A c \in Admins \ {a} : admin'[c] = admin[c]
  BY <1>1, NoCallIsACall DEF LifecycleInv, LifecycleTables
<1>8. OneAtWork' /\ \A c \in Admins : admin'[c].stage = "idle"
  BY <1>1, <1>7, NoCallIsACall, OnlyCall DEF LifecycleInv
<1> QED
  BY <1>4, <1>6, <1>7, <1>8 DEF LifecycleInv, LifecycleTables, CallsInv

LEMMA RemoveBridgeKeeps ==
    ASSUME OneAdmin, LifecycleInv, NEW b \in BridgeRows, RemoveBridge(b)
    PROVE  LifecycleInv'
<1>1. /\ \A a \in Admins : admin[a].stage = "idle"
      /\ b \in Made /\ UNCHANGED <<server, admin>>
  BY DEF RemoveBridge, MayStart
<1>2. CASE UNCHANGED <<protocol, bridge>>
  <2>1. RowsInv'
    BY <1>1, <1>2, ServersMayGrow DEF LifecycleInv, LifecycleTables, RowsInv, ServersStand
  <2> QED
    BY <1>1, <1>2, <2>1, QuietKeeps DEF LifecycleInv, LifecycleTables
<1>3. CASE Deleted(Clients(b))
  <2>1. Clients(b) \in SUBSET Protocols /\ \A p \in Protocols : p \in Clients(b) => p[1] = b
    BY ClientNames
  <2>2. \A p \in Protocols : protocol[p] # Nothing => protocol[p].on # Nothing
    BY RowTypes, NothingAssumption DEF LifecycleInv, ProtocolRow
  <2>3. ~Neighbours => \A c \in Made : bridge[c].upstream \notin Clients(b)
    <3>1. ASSUME ~Neighbours, NEW c \in Made, bridge[c].upstream \in Clients(b) PROVE FALSE
      <4>1. bridge[c].upstream \in Protocols /\ bridge[c].upstream[1] = b /\ bridge[c].upstream # Nothing
        BY <2>1, <3>1, NothingAssumption
      <4> QED
        BY <1>1, <3>1, <4>1 DEF LifecycleInv, RowsInv, UpstreamsStand
    <3> QED
      BY <3>1
  <2>4. /\ server' \in [Rows -> ServerRow \cup {Nothing}]
        /\ \A r \in Rows : server'[r] = server[r]
    BY <1>1 DEF LifecycleInv, LifecycleTables
  <2>5. /\ RowsInv' /\ protocol' \in [Protocols -> ProtocolRow \cup {Nothing}]
        /\ bridge' \in [BridgeRows -> BridgeRow \cup {Nothing}]
    BY <1>3, <2>1, <2>2, <2>3, <2>4, RowsGo
  <2> QED
    BY <1>1, <2>4, <2>5 DEF LifecycleInv, LifecycleTables, OneAtWork, CallsInv
<1> QED
  BY <1>2, <1>3 DEF RemoveBridge

-----------------------------------------------------------------------------

LEMMA AbandonKeeps ==
    ASSUME LifecycleInv, LifecycleRestart
    PROVE  LifecycleInv'
<1>1. UNCHANGED <<server, protocol, bridge>> /\ admin' = [a \in Admins |-> NoCall]
  BY DEF LifecycleRestart
<1>2. admin' \in [Admins -> CallRow] /\ \A a \in Admins : admin'[a].stage = "idle"
  BY <1>1, NoCallIsACall
<1>3. RowsInv'
  BY <1>1, ServersMayGrow DEF LifecycleInv, LifecycleTables, RowsInv, ServersStand
<1> QED
  BY <1>1, <1>2, <1>3 DEF LifecycleInv, LifecycleTables, OneAtWork, CallsInv

LEMMA LifecycleStep ==
    ASSUME OneAdmin, LifecycleInv, [LifecycleNext]_lifecycleVars
    PROVE  LifecycleInv'
<1>1. CASE UNCHANGED lifecycleVars
  <2>1. RowsInv' /\ Made' = Made /\ SelfServers' = SelfServers
        /\ \A b \in BridgeRows, r \in Rows : OnHost(b, r) => OnHost(b, r)'
    BY <1>1, ServersMayGrow DEF lifecycleVars, LifecycleInv, LifecycleTables, RowsInv, ServersStand
  <2>2. CallsInv'
    BY <1>1, <2>1 DEF lifecycleVars, LifecycleInv, CallsInv, Creating, Removing
  <2> QED
    BY <1>1, <2>1, <2>2 DEF lifecycleVars, LifecycleInv, LifecycleTables, OneAtWork
<1>2. CASE (\E r \in Rows : AddServer(r)) \/ ListServers
  BY <1>2, ServersKeep
<1>3. CASE \E r \in Rows, k \in Kinds : InstallProtocol(r, k)
  BY <1>3, InstallKeeps
<1>4. CASE \E b \in BridgeRows : SetAuto(b) \/ Rebalance(b) \/ RemoveBridge(b)
  BY <1>4, SetAutoKeeps, RebalanceKeeps, RemoveBridgeKeeps
<1>5. CASE \E b \in BridgeRows, p \in Protocols : SetUpstream(b, p)
  BY <1>5, SetUpstreamKeeps
<1>6. ASSUME NEW a \in Admins, \E b \in BridgeRows, kinds \in SUBSET Kinds : BeginCreate(a, b, kinds)
      PROVE  LifecycleInv'
  BY <1>6, BeginCreateKeeps
<1>7. ASSUME NEW a \in Admins, \E k \in Kinds : InstallClient(a, k) PROVE LifecycleInv'
  BY <1>7, ClientKeeps
<1>8. ASSUME NEW a \in Admins, AllocateTable(a) \/ SaveBridge(a) \/ FinishRemoval(a) PROVE LifecycleInv'
  BY <1>8, AllocateKeeps, SaveKeeps, FinishKeeps
<1>9. ASSUME NEW a \in Admins,
             (\E r \in Rows : RemoveServer(a, r)) \/ \E p \in Protocols : RemoveProtocol(a, p)
      PROVE  LifecycleInv'
  BY <1>9, RemovalsBegin
<1>10. ASSUME NEW a \in Admins, \E b \in BridgeRows : Reassign(a, b) PROVE LifecycleInv'
  BY <1>10, ReassignKeeps
<1>11. CASE LifecycleRestart
  BY <1>11, AbandonKeeps
<1> QED
  BY <1>1, <1>2, <1>3, <1>4, <1>5, <1>6, <1>7, <1>8, <1>9, <1>10, <1>11 DEF LifecycleNext

LEMMA LifecycleHolds ==
    ASSUME OneAdmin
    PROVE  LifecycleSpec => []LifecycleInv
<1>1. LifecycleInv /\ [LifecycleNext]_lifecycleVars => LifecycleInv'
  BY LifecycleStep
<1> QED
  BY <1>1, LifecycleStarts, PTL DEF LifecycleSpec

-----------------------------------------------------------------------------

\* A set of at most one element has no two.
LEMMA AtMostOne ==
    ASSUME NEW S, IsFiniteSet(S), Cardinality(S) <= 1, NEW x \in S, NEW y \in S
    PROVE  x = y
<1>1. IsFiniteSet(S \ {x}) /\ Cardinality(S \ {x}) = Cardinality(S) - 1
  BY FS_RemoveElement
<1>2. Cardinality(S) \in Nat /\ Cardinality(S \ {x}) \in Nat
  BY <1>1, FS_CardinalityType
<1>3. Cardinality(S \ {x}) = 0
  BY <1>1, <1>2
<1>4. S \ {x} = {}
  BY <1>1, <1>3, FS_EmptySet
<1> QED
  BY <1>4

LEMMA ChosenLeave ==
    ASSUME LifecycleInv
    PROVE  ChosenUpstreamLeavesHost
<1> SUFFICES ASSUME EnteredOnce, NEW b \in Made, bridge[b].upstream # Nothing, ~bridge[b].byHand,
                    server[protocol[bridge[b].upstream].on].own
             PROVE  FALSE
  BY DEF ChosenUpstreamLeavesHost
<1> DEFINE own == {r \in Rows : server[r] # Nothing /\ server[r].own}
           p == bridge[b].upstream
<1>1. p \in Protocols /\ protocol[p] # Nothing
  BY RowTypes DEF LifecycleInv, BridgeRow, RowsInv, UpstreamsStand
<1>2. PICK q \in Clients(b), r \in Rows : OnHost(b, r) /\ protocol[q].on = r
  BY DEF LifecycleInv, RowsInv, BridgesStand, OnHost
<1>3. protocol[p].on # r
  BY <1>2 DEF LifecycleInv, RowsInv, UpstreamsStand
<1>4. protocol[p].on \in Rows /\ server[protocol[p].on] # Nothing
  BY <1>1, RowTypes DEF LifecycleInv, RowsInv, ServersStand, ProtocolRow
<1>5. protocol[p].on \in own /\ r \in own
  BY <1>2, <1>4 DEF OnHost
<1>6. IsFiniteSet(own) /\ Cardinality(own) <= 1
  BY LifecycleAssumption, FS_Subset DEF EnteredOnce
<1> QED
  BY <1>3, <1>5, <1>6, AtMostOne

(***************************************************************************)
(* When only one call that writes is in progress at a time, the rows of    *)
(* servers, protocols and bridges are what the schema says (the entities   *)
(* under backend/src, and the foreign keys among them).                    *)
(***************************************************************************)
THEOREM LifecycleTyped ==
    ASSUME OneAdmin
    PROVE  LifecycleSpec => []LifecycleTypeOK
<1>1. LifecycleInv => LifecycleTypeOK
  BY DEF LifecycleInv, LifecycleTables, LifecycleTypeOK, CallRow
<1> QED
  BY <1>1, LifecycleHolds, PTL

(***************************************************************************)
(* Whatever servers, protocols and bridges are created and removed, one    *)
(* call after the other and with failures and restarts in between, and as  *)
(* long as no bridge is the upstream of another, a bridge that is shown as *)
(* active has an upstream (reassignUpstreamAwayFrom in bridges.service.ts, *)
(* and the foreign keys of bridge.entity.ts).                              *)
(***************************************************************************)
THEOREM ActiveBridgesAreConnected ==
    ASSUME OneAdmin, ~Neighbours
    PROVE  LifecycleSpec => []ActiveBridgeHasUpstream
<1>1. LifecycleInv => ActiveBridgeHasUpstream
  BY DEF LifecycleInv, RowsInv
<1> QED
  BY <1>1, LifecycleHolds, PTL

(***************************************************************************)
(* An upstream that the panel chose by itself, balancing or taking bridges *)
(* away from a server that is removed, is not on the panel's own host, if  *)
(* the host was entered once as a server (getSelfServerContext and its     *)
(* callers in bridges.service.ts).                                         *)
(***************************************************************************)
THEOREM UpstreamsLeaveTheHost ==
    ASSUME OneAdmin
    PROVE  LifecycleSpec => []ChosenUpstreamLeavesHost
<1>1. LifecycleInv => ChosenUpstreamLeavesHost
  BY ChosenLeave
<1> QED
  BY <1>1, LifecycleHolds, PTL

(***************************************************************************)
(* No two bridges share a routing table, however many were created and     *)
(* removed before (allocateRouteTable in bridges.service.ts, called by one *)
(* create at a time).                                                      *)
(***************************************************************************)
THEOREM TablesAreDistinct ==
    ASSUME OneAdmin
    PROVE  LifecycleSpec => []RouteTablesDistinct
<1>1. LifecycleInv => RouteTablesDistinct
  BY DEF LifecycleInv, RowsInv
<1> QED
  BY <1>1, LifecycleHolds, PTL

-----------------------------------------------------------------------------
(* BypassRules: renewing a list leaves no gap.                             *)

SyncTables ==
    /\ sync \in [Callers -> [stage : Stages, list : SUBSET Destinations, left : SUBSET Destinations]]
    /\ bypassList \subseteq Destinations

\* Unless calls overlap, only one is in progress.
OneAtATime == ~mixed => \A c, d \in Callers : c # d => sync[c].stage = "idle" \/ sync[d].stage = "idle"

\* What is not yet in the temporary set is still to be added.
TmpFills ==
    \A c \in Callers :
        /\ sync[c].stage = "create" => sync[c].list \subseteq sync[c].left
        /\ ~mixed /\ sync[c].stage = "add" /\ "tmp" \in DOMAIN ipsets
            => sync[c].list \subseteq ipsets["tmp"] \cup sync[c].left

(***************************************************************************)
(* What makes it inductive: the call that fills the temporary set is the   *)
(* only one that touches it.                                               *)
(***************************************************************************)
BypassInv == SyncTables /\ OneAtATime /\ TmpFills

LEMMA BypassStarts == BypassInit => BypassInv
<1> SUFFICES ASSUME BypassInit PROVE BypassInv
  OBVIOUS
<1>1. Resting \in [stage : Stages, list : SUBSET Destinations, left : SUBSET Destinations] /\ Resting.stage = "idle"
  BY DEF Resting, Stages
<1>2. SyncTables
  BY <1>1 DEF BypassInit, SyncTables
<1>3. \A c \in Callers : sync[c].stage = "idle"
  BY <1>1 DEF BypassInit
<1> QED
  BY <1>2, <1>3 DEF BypassInv, OneAtATime, TmpFills

(***************************************************************************)
(* A step of a call changes the record of that call only.                  *)
(***************************************************************************)
Moved(c, record) ==
    /\ record \in [stage : Stages, list : SUBSET Destinations, left : SUBSET Destinations]
    /\ sync' = [sync EXCEPT ![c] = record]

LEMMA GoesMoves ==
    ASSUME BypassInv, NEW c \in Callers, NEW from, NEW to \in Stages, Goes(c, from, to)
    PROVE  /\ Moved(c, [sync[c] EXCEPT !.stage = to])
           /\ [sync[c] EXCEPT !.stage = to].stage = to
           /\ [sync[c] EXCEPT !.stage = to].left = sync[c].left
           /\ [sync[c] EXCEPT !.stage = to].list = sync[c].list
           /\ sync[c].stage = from
<1>1. sync[c] \in [stage : Stages, list : SUBSET Destinations, left : SUBSET Destinations]
  BY DEF BypassInv, SyncTables
<1> QED
  BY <1>1 DEF Moved, Goes

LEMMA OnlyMoves ==
    ASSUME BypassInv, NEW c \in Callers, NEW record, Moved(c, record), sync[c].stage # "idle",
           mixed' = mixed, bypassList' = bypassList,
           record.stage = "create" => record.list \subseteq record.left,
           ~mixed /\ record.stage = "add" /\ "tmp" \in DOMAIN ipsets'
               => record.list \subseteq ipsets'["tmp"] \cup record.left
    PROVE  BypassInv'
<1>1. sync' \in [Callers -> [stage : Stages, list : SUBSET Destinations, left : SUBSET Destinations]]
  BY DEF Moved, BypassInv, SyncTables
<1>2. sync'[c] = record /\ \A d \in Callers \ {c} : sync'[d] = sync[d]
  BY DEF Moved, BypassInv, SyncTables
<1>3. ~mixed => \A d \in Callers \ {c} : sync[d].stage = "idle"
  BY DEF BypassInv, OneAtATime
<1>4. SyncTables'
  BY <1>1 DEF BypassInv, SyncTables
<1>5. OneAtATime'
  BY <1>2, <1>3 DEF OneAtATime
<1>6. TmpFills'
  <2> SUFFICES ASSUME NEW d \in Callers
               PROVE  /\ sync'[d].stage = "create" => sync'[d].list \subseteq sync'[d].left
                      /\ ~mixed' /\ sync'[d].stage = "add" /\ "tmp" \in DOMAIN ipsets'
                            => sync'[d].list \subseteq ipsets'["tmp"] \cup sync'[d].left
    BY DEF TmpFills
  <2>1. CASE d = c
    BY <1>2, <2>1
  <2>2. CASE d # c
    BY <1>2, <1>3, <2>2 DEF BypassInv, TmpFills
  <2> QED
    BY <2>1, <2>2
<1> QED
  BY <1>4, <1>5, <1>6 DEF BypassInv

LEMMA BeginKeeps ==
    ASSUME BypassInv, NEW c \in Callers, NEW list \in SUBSET Destinations, Begin(c, list),
           bypassList' \subseteq Destinations, ipsets' = ipsets
    PROVE  BypassInv'
<1> DEFINE record == [stage |-> "resolve", list |-> list, left |-> {}]
<1>1. record \in [stage : Stages, list : SUBSET Destinations, left : SUBSET Destinations] /\ record.stage = "resolve"
  BY DEF Stages
<1>2. sync' = [sync EXCEPT ![c] = record] /\ mixed' = \E d \in Callers \ {c} : sync[d].stage # "idle"
  BY DEF Begin
<1> HIDE DEF record
<1>3. /\ sync' \in [Callers -> [stage : Stages, list : SUBSET Destinations, left : SUBSET Destinations]]
      /\ sync'[c] = record
      /\ \A d \in Callers \ {c} : sync'[d] = sync[d]
  BY <1>1, <1>2 DEF BypassInv, SyncTables
<1>4. ~mixed' => \A d \in Callers \ {c} : sync'[d].stage = "idle"
  BY <1>2, <1>3
<1>5. SyncTables'
  BY <1>3 DEF SyncTables
<1>6. OneAtATime'
  BY <1>4 DEF OneAtATime
<1>7. TmpFills'
  <2> SUFFICES ASSUME NEW d \in Callers
               PROVE  /\ sync'[d].stage = "create" => sync'[d].list \subseteq sync'[d].left
                      /\ ~mixed' /\ sync'[d].stage = "add" /\ "tmp" \in DOMAIN ipsets'
                            => sync'[d].list \subseteq ipsets'["tmp"] \cup sync'[d].left
    BY DEF TmpFills
  <2>1. CASE d = c
    BY <1>1, <1>3, <2>1
  <2>2. CASE d # c
    BY <1>3, <1>4, <2>2 DEF BypassInv, TmpFills
  <2> QED
    BY <2>1, <2>2
<1> QED
  BY <1>5, <1>6, <1>7 DEF BypassInv

LEMMA SyncStepKeeps ==
    ASSUME BypassInv, NEW c \in Callers, SyncStep(c)
    PROVE  BypassInv'
<1>0. sync[c] \in [stage : Stages, list : SUBSET Destinations, left : SUBSET Destinations]
  BY DEF BypassInv, SyncTables
<1>1. CASE Resolve(c)
  <2>1. PICK lost \in SUBSET (DomainNames \cap sync[c].list) :
          sync' = [sync EXCEPT ![c] = [stage |-> "create", list |-> sync[c].list \ lost, left |-> sync[c].list \ lost]]
    BY <1>1, <1>0 DEF Resolve
  <2> DEFINE record == [stage |-> "create", list |-> sync[c].list \ lost, left |-> sync[c].list \ lost]
  <2>2. Moved(c, record) /\ record.stage = "create"
    BY <1>0, <2>1 DEF Moved, Stages
  <2>3. record.list \subseteq record.left
    OBVIOUS
  <2> HIDE DEF record
  <2>4. mixed' = mixed /\ bypassList' = bypassList /\ sync[c].stage # "idle"
    BY <1>1 DEF Resolve
  <2> QED
    BY <2>2, <2>3, <2>4, OnlyMoves
<1>2. CASE CreateSets(c)
  <2> DEFINE record == [sync[c] EXCEPT !.stage = "add"]
  <2>1. /\ Moved(c, record) /\ record.left = sync[c].left /\ record.list = sync[c].list
        /\ record.stage = "add" /\ sync[c].stage = "create"
    BY ZenonT(40), <1>2, GoesMoves DEF CreateSets, Stages
  <2> HIDE DEF record
  <2>2. mixed' = mixed /\ bypassList' = bypassList
    BY <1>2 DEF CreateSets
  <2>3. record.list \subseteq record.left
    BY <2>1 DEF BypassInv, TmpFills
  <2> QED
    BY <2>1, <2>2, <2>3, OnlyMoves
<1>3. CASE AddAddress(c)
  <2>1. PICK d \in sync[c].left :
          /\ sync' = [sync EXCEPT ![c] = [sync[c] EXCEPT !.left = @ \ {d}]]
          /\ ipsets' = [ipsets EXCEPT !["tmp"] = @ \cup {d}]
    BY <1>3 DEF AddAddress
  <2> DEFINE record == [sync[c] EXCEPT !.left = @ \ {d}]
  <2>2. /\ Moved(c, record) /\ record.left = sync[c].left \ {d} /\ record.list = sync[c].list
        /\ record.stage = sync[c].stage
    BY <1>0, <2>1 DEF Moved
  <2> HIDE DEF record
  <2>3. /\ mixed' = mixed /\ bypassList' = bypassList /\ sync[c].stage = "add"
        /\ "tmp" \in DOMAIN ipsets /\ ipsets'["tmp"] = ipsets["tmp"] \cup {d}
    BY <1>3, <2>1 DEF AddAddress
  <2>4. ~mixed => record.list \subseteq ipsets'["tmp"] \cup record.left
    BY <2>2, <2>3 DEF BypassInv, TmpFills
  <2> QED
    BY <2>2, <2>3, <2>4, OnlyMoves
<1>4. CASE SwapSets(c) \/ DestroyTmp(c) \/ AddRules(c)
  <2>1. PICK from \in {"add", "destroy", "rules"}, to \in {"destroy", "rules", "idle"} : Goes(c, from, to)
    BY <1>4 DEF SwapSets, DestroyTmp, AddRules
  <2> DEFINE record == [sync[c] EXCEPT !.stage = to]
  <2>0. to \in Stages
    BY DEF Stages
  <2>2. Moved(c, record) /\ record.stage = to /\ sync[c].stage = from
    BY <2>0, <2>1, GoesMoves
  <2> HIDE DEF record
  <2>3. mixed' = mixed /\ bypassList' = bypassList
    BY <1>4 DEF SwapSets, DestroyTmp, AddRules
  <2> QED
    BY <2>2, <2>3, OnlyMoves
<1>5. CASE CommandFails(c)
  <2>1. Moved(c, Resting) /\ Resting.stage = "idle"
    BY <1>5 DEF CommandFails, Moved, Resting, Stages
  <2>2. mixed' = mixed /\ bypassList' = bypassList /\ sync[c].stage # "idle"
    BY <1>5 DEF CommandFails
  <2> QED
    BY <2>1, <2>2, OnlyMoves
<1> QED
  BY <1>1, <1>2, <1>3, <1>4, <1>5 DEF SyncStep

LEMMA BypassContinues == BypassInv /\ [BypassNext]_bypassVars => BypassInv'
<1> SUFFICES ASSUME BypassInv, [BypassNext]_bypassVars PROVE BypassInv'
  OBVIOUS
<1>1. ASSUME NEW list \in SUBSET Destinations, EditList(list) PROVE BypassInv'
  BY <1>1, BeginKeeps DEF EditList, Callers
<1>2. CASE Refresh
  <2>1. bypassList \in SUBSET Destinations /\ bypassList' = bypassList /\ ipsets' = ipsets
    BY <1>2 DEF Refresh, BypassInv, SyncTables
  <2> QED
    BY <1>2, <2>1, BeginKeeps DEF Refresh, Callers
<1>3. ASSUME NEW c \in Callers, SyncStep(c) PROVE BypassInv'
  BY <1>3, SyncStepKeeps
<1>4. CASE BypassRestart
  <2>1. Resting \in [stage : Stages, list : SUBSET Destinations, left : SUBSET Destinations] /\ Resting.stage = "idle"
    BY DEF Resting, Stages
  <2>2. sync' = [c \in Callers |-> Resting] /\ bypassList' = bypassList /\ mixed' = mixed
    BY <1>4 DEF BypassRestart
  <2>3. SyncTables'
    BY <2>1, <2>2 DEF BypassInv, SyncTables
  <2>4. \A c \in Callers : sync'[c].stage = "idle"
    BY <2>1, <2>2
  <2> QED
    BY <2>3, <2>4 DEF BypassInv, OneAtATime, TmpFills
<1>5. CASE UNCHANGED bypassVars
  BY <1>5 DEF bypassVars, BypassInv, SyncTables, OneAtATime, TmpFills
<1> QED
  BY <1>1, <1>2, <1>3, <1>4, <1>5 DEF BypassNext

(***************************************************************************)
(* A destination that was reachable directly and is still to be stays so   *)
(* while a call that runs alone renews the set: what the swap brings into  *)
(* force is complete (the comment on swap in setupBridgeBypass).           *)
(***************************************************************************)
THEOREM RenewalLeavesNoGap == BypassSpec => NoGap
<1> DEFINE kept == \A c \in Callers :
        SyncStep(c) /\ ~mixed /\ "live" \in DOMAIN ipsets
            => ipsets["live"] \cap sync[c].list \subseteq ipsets'["live"]
<1>1. BypassInv /\ [BypassNext]_bypassVars => [kept]_bypassVars
  <2> SUFFICES ASSUME BypassInv, NEW c \in Callers, SyncStep(c), ~mixed, "live" \in DOMAIN ipsets
               PROVE  ipsets["live"] \cap sync[c].list \subseteq ipsets'["live"]
    OBVIOUS
  <2>1. CASE Resolve(c) \/ AddRules(c) \/ CommandFails(c)
    BY <2>1 DEF Resolve, AddRules, CommandFails
  <2>2. CASE CreateSets(c)
    BY <2>2 DEF CreateSets
  <2>3. CASE AddAddress(c)
    BY <2>3 DEF AddAddress
  <2>4. CASE SwapSets(c)
    <3>1. sync[c].stage = "add" /\ sync[c].left = {} /\ "tmp" \in DOMAIN ipsets /\ ipsets'["live"] = ipsets["tmp"]
      BY <2>4 DEF SwapSets, Goes
    <3> QED
      BY <3>1 DEF BypassInv, TmpFills
  <2>5. CASE DestroyTmp(c)
    BY <2>5 DEF DestroyTmp, Restrict
  <2> QED
    BY <2>1, <2>2, <2>3, <2>4, <2>5 DEF SyncStep
<1> QED
  BY <1>1, BypassStarts, BypassContinues, PTL DEF BypassSpec, NoGap

(***************************************************************************)
(* How far a call that runs alone has brought its list: read from the row, *)
(* without the names that did not resolve, on its way through the          *)
(* temporary set, in force.                                                *)
(***************************************************************************)
Applied(record, sets, list) ==
    /\ record.stage = "resolve" => record.list = list
    /\ record.stage \in {"create", "add", "destroy", "rules"}
        => record.list \subseteq list /\ list \ DomainNames \subseteq record.list
    /\ record.stage = "create" => record.left = record.list
    /\ record.stage = "add" /\ "tmp" \in DOMAIN sets
        => record.left \subseteq record.list /\ sets["tmp"] \cup record.left = record.list
    /\ record.stage \in {"destroy", "rules"} => "live" \in DOMAIN sets /\ sets["live"] = record.list
    /\ record.stage # "swap"

LoneInv == ~mixed => \A c \in Callers : Applied(sync[c], ipsets, bypassList)

LEMMA LoneStarts == BypassInit => LoneInv
  BY DEF BypassInit, LoneInv, Applied, Resting

LEMMA LoneMoves ==
    ASSUME BypassInv, LoneInv, NEW c \in Callers, NEW record, Moved(c, record), sync[c].stage # "idle",
           mixed' = mixed, ~mixed => Applied(record, ipsets', bypassList')
    PROVE  LoneInv'
<1>1. sync'[c] = record /\ \A d \in Callers \ {c} : sync'[d] = sync[d]
  BY DEF Moved, BypassInv, SyncTables
<1>2. ~mixed => \A d \in Callers \ {c} : sync[d].stage = "idle"
  BY DEF BypassInv, OneAtATime
<1>3. \A r : r.stage = "idle" => Applied(r, ipsets', bypassList')
  BY DEF Applied
<1> QED
  BY <1>1, <1>2, <1>3 DEF LoneInv

LEMMA LoneBegins ==
    ASSUME BypassInv, LoneInv, NEW c \in Callers, NEW list, Begin(c, list), bypassList' = list
    PROVE  LoneInv'
<1>1. PICK record : record = [stage |-> "resolve", list |-> list, left |-> {}]
  OBVIOUS
<1>2. sync' = [sync EXCEPT ![c] = record] /\ mixed' = \E d \in Callers \ {c} : sync[d].stage # "idle"
  BY <1>1 DEF Begin
<1>3. sync'[c] = record /\ \A d \in Callers \ {c} : sync'[d] = sync[d]
  BY <1>2 DEF BypassInv, SyncTables
<1>4. Applied(record, ipsets', bypassList')
  BY <1>1 DEF Applied
<1>5. \A r : r.stage = "idle" => Applied(r, ipsets', bypassList')
  BY DEF Applied
<1> QED
  BY <1>2, <1>3, <1>4, <1>5 DEF LoneInv

LEMMA LoneStepKeeps ==
    ASSUME BypassInv, LoneInv, NEW c \in Callers, SyncStep(c)
    PROVE  LoneInv'
<1>0. sync[c] \in [stage : Stages, list : SUBSET Destinations, left : SUBSET Destinations]
  BY DEF BypassInv, SyncTables
<1>a. ~mixed => Applied(sync[c], ipsets, bypassList)
  BY DEF LoneInv
<1>1. CASE Resolve(c)
  <2>1. PICK lost \in SUBSET (DomainNames \cap sync[c].list) :
          sync' = [sync EXCEPT ![c] = [stage |-> "create", list |-> sync[c].list \ lost, left |-> sync[c].list \ lost]]
    BY <1>1, <1>0 DEF Resolve
  <2>2. PICK record :
          record = [stage |-> "create", list |-> sync[c].list \ lost, left |-> sync[c].list \ lost]
    OBVIOUS
  <2>3. Moved(c, record)
    BY <1>0, <2>1, <2>2 DEF Moved, Stages
  <2>4. mixed' = mixed /\ bypassList' = bypassList /\ sync[c].stage = "resolve"
    BY <1>1 DEF Resolve
  <2>5. ~mixed => Applied(record, ipsets', bypassList')
    BY <1>a, <2>2, <2>4 DEF Applied
  <2> QED
    BY <2>3, <2>4, <2>5, LoneMoves
<1>2. CASE AddAddress(c)
  <2>1. PICK d \in sync[c].left :
          /\ sync' = [sync EXCEPT ![c] = [sync[c] EXCEPT !.left = @ \ {d}]]
          /\ ipsets' = [ipsets EXCEPT !["tmp"] = @ \cup {d}]
    BY <1>2 DEF AddAddress
  <2>2. PICK record : record = [sync[c] EXCEPT !.left = @ \ {d}]
    OBVIOUS
  <2>3. /\ Moved(c, record) /\ record.left = sync[c].left \ {d} /\ record.list = sync[c].list
        /\ record.stage = sync[c].stage
    BY <1>0, <2>1, <2>2 DEF Moved
  <2>4. /\ mixed' = mixed /\ bypassList' = bypassList /\ sync[c].stage = "add"
        /\ "tmp" \in DOMAIN ipsets /\ ipsets'["tmp"] = ipsets["tmp"] \cup {d}
    BY <1>2, <2>1 DEF AddAddress
  <2>5. ~mixed => record.left \subseteq record.list /\ ipsets'["tmp"] \cup record.left = record.list
    BY <1>a, <2>3, <2>4 DEF Applied
  <2>6. ~mixed => Applied(record, ipsets', bypassList')
    BY <1>a, <2>3, <2>4, <2>5 DEF Applied
  <2> QED
    BY <2>3, <2>4, <2>6, LoneMoves
<1>3. CASE CommandFails(c)
  <2>1. Moved(c, Resting) /\ Resting.stage = "idle"
    BY <1>3 DEF CommandFails, Moved, Resting, Stages
  <2>2. mixed' = mixed /\ sync[c].stage # "idle"
    BY <1>3 DEF CommandFails
  <2>3. Applied(Resting, ipsets', bypassList')
    BY <2>1 DEF Applied
  <2> QED
    BY <2>1, <2>2, <2>3, LoneMoves
<1>4. CASE CreateSets(c) \/ SwapSets(c) \/ DestroyTmp(c) \/ AddRules(c)
  <2>1. PICK from, to \in Stages :
          /\ Goes(c, from, to)
          /\ \/ CreateSets(c) /\ from = "create" /\ to = "add"
             \/ SwapSets(c) /\ from = "add" /\ to = "destroy"
             \/ DestroyTmp(c) /\ from = "destroy" /\ to = "rules"
             \/ AddRules(c) /\ from = "rules" /\ to = "idle"
    BY <1>4 DEF CreateSets, SwapSets, DestroyTmp, AddRules, Stages
  <2>2. PICK record : record = [sync[c] EXCEPT !.stage = to]
    OBVIOUS
  <2>3. /\ Moved(c, record) /\ record.left = sync[c].left /\ record.list = sync[c].list
        /\ record.stage = to /\ sync[c].stage = from
    BY <2>1, <2>2, GoesMoves
  <2>4. mixed' = mixed /\ bypassList' = bypassList /\ sync[c].stage # "idle"
    BY <1>4, <2>1, <2>3 DEF CreateSets, SwapSets, DestroyTmp, AddRules
  <2>5. ~mixed => Applied(record, ipsets', bypassList')
    <3>1. CASE CreateSets(c) /\ from = "create" /\ to = "add"
      <4>1. ipsets'["tmp"] = {}
        BY <3>1 DEF CreateSets
      <4> QED
        BY <3>1, <4>1, <1>a, <2>3, <2>4 DEF Applied
    <3>2. CASE SwapSets(c) /\ from = "add" /\ to = "destroy"
      <4>1. /\ sync[c].left = {} /\ "tmp" \in DOMAIN ipsets
            /\ "live" \in DOMAIN ipsets' /\ ipsets'["live"] = ipsets["tmp"]
        BY <3>2 DEF SwapSets
      <4> QED
        BY <3>2, <4>1, <1>a, <2>3, <2>4 DEF Applied
    <3>3. CASE DestroyTmp(c) /\ from = "destroy" /\ to = "rules"
      <4>1. "live" \in DOMAIN ipsets => "live" \in DOMAIN ipsets' /\ ipsets'["live"] = ipsets["live"]
        BY <3>3 DEF DestroyTmp, Restrict
      <4> QED
        BY <3>3, <4>1, <1>a, <2>3, <2>4 DEF Applied
    <3>4. CASE AddRules(c) /\ from = "rules" /\ to = "idle"
      BY <3>4, <2>3 DEF Applied
    <3> QED
      BY <2>1, <3>1, <3>2, <3>3, <3>4
  <2> QED
    BY <2>3, <2>4, <2>5, LoneMoves
<1> QED
  BY <1>1, <1>2, <1>3, <1>4 DEF SyncStep

LEMMA LoneContinues == BypassInv /\ LoneInv /\ [BypassNext]_bypassVars => LoneInv'
<1> SUFFICES ASSUME BypassInv, LoneInv, [BypassNext]_bypassVars PROVE LoneInv'
  OBVIOUS
<1>1. ASSUME NEW list \in SUBSET Destinations, EditList(list) PROVE LoneInv'
  BY <1>1, LoneBegins DEF EditList, Callers
<1>2. CASE Refresh
  BY <1>2, LoneBegins DEF Refresh, Callers
<1>3. ASSUME NEW c \in Callers, SyncStep(c) PROVE LoneInv'
  BY <1>3, LoneStepKeeps
<1>4. CASE BypassRestart
  <2>1. \A c \in Callers : sync'[c].stage = "idle"
    BY <1>4 DEF BypassRestart, Resting
  <2> QED
    BY <2>1 DEF LoneInv, Applied
<1>5. CASE UNCHANGED bypassVars
  BY <1>5 DEF bypassVars, LoneInv
<1> QED
  BY <1>1, <1>2, <1>3, <1>4, <1>5 DEF BypassNext

(***************************************************************************)
(* A call that ran alone to its end leaves the list of the row in force,   *)
(* but for names that did not resolve, whatever overlapping, failed or     *)
(* interrupted calls of setupBridgeBypass had left in the sets.            *)
(***************************************************************************)
THEOREM LoneCallsApply == BypassSpec => LoneSyncApplies
<1> DEFINE applied == \A c \in Callers : AddRules(c) /\ ~mixed =>
        /\ ruled' /\ "live" \in DOMAIN ipsets'
        /\ ipsets'["live"] \subseteq bypassList'
        /\ bypassList' \ DomainNames \subseteq ipsets'["live"]
<1>1. LoneInv /\ [BypassNext]_bypassVars => [applied]_bypassVars
  <2> SUFFICES ASSUME LoneInv, NEW c \in Callers, AddRules(c), ~mixed
               PROVE  /\ ruled' /\ "live" \in DOMAIN ipsets'
                      /\ ipsets'["live"] \subseteq bypassList'
                      /\ bypassList' \ DomainNames \subseteq ipsets'["live"]
    OBVIOUS
  <2>1. Applied(sync[c], ipsets, bypassList) /\ sync[c].stage = "rules"
    BY DEF LoneInv, AddRules, Goes
  <2>2. ruled' /\ ipsets' = ipsets /\ bypassList' = bypassList
    BY DEF AddRules
  <2> QED
    BY <2>1, <2>2 DEF Applied
<1> QED
  BY <1>1, BypassStarts, BypassContinues, LoneStarts, LoneContinues, PTL DEF BypassSpec, LoneSyncApplies

-----------------------------------------------------------------------------
(* FlapHistory: histories of any length and any threshold.                 *)

\* The counter that a result lengthens.
Counter(s, result) == IF result = "yes" THEN s.consecutiveOk ELSE s.consecutiveFail

\* n is the length, up to the threshold, of the run of this result that ends h.
Counts(h, n, result) ==
    /\ n <= Len(h)
    /\ \A j \in 1 .. Len(h) : Len(h) - j < n => h[j] = result
    /\ n < Consecutive /\ n < Len(h) => h[Len(h) - n] # result

CountersInv == \A result \in Results : Counts(history, Counter(state, result), result)

(***************************************************************************)
(* What a probe does to the state, with its counters taken by name.        *)
(***************************************************************************)
LEMMA UpdateStateFacts ==
    ASSUME NEW s \in ProbeState, NEW result \in Results
    PROVE  LET t == UpdateState(s, result = "yes")
           IN  /\ t \in ProbeState
               /\ \A r \in Results : Counter(t, r) \in 0 .. Consecutive
               /\ Counter(t, result) = Counted(Counter(s, result))
               /\ \A other \in Results \ {result} : Counter(t, other) = 0
               /\ t.reachable = IF Counter(t, result) = Consecutive THEN result ELSE s.reachable
<1> USE ConsecutiveAssumption DEF UpdateState, Counter, Results, ProbeState
<1>1. \A n \in 0 .. Consecutive : Counted(n) \in 0 .. Consecutive
  BY DEF Counted
<1>2. CASE result = "yes"
  BY <1>1, <1>2
<1>3. CASE result = "no"
  BY <1>1, <1>3
<1> QED
  BY <1>2, <1>3

(***************************************************************************)
(* States and histories keep their types.                                  *)
(***************************************************************************)
LEMMA TypeCorrect == Spec => []TypeOK
<1>1. Init => TypeOK
  BY ConsecutiveAssumption DEF Init, TypeOK, Unprobed, ProbeState
<1>2. ASSUME TypeOK, [Next]_vars PROVE TypeOK'
  <2>1. ASSUME NEW result \in Results, Probe(result) PROVE TypeOK'
    <3>1. state' \in ProbeState
      BY <1>2, <2>1, UpdateStateFacts DEF TypeOK, Probe
    <3> QED
      BY <1>2, <2>1, <3>1 DEF TypeOK, Probe
  <2> QED
    BY <1>2, <2>1 DEF Next, vars, TypeOK
<1> QED
  BY <1>1, <1>2, PTL DEF Spec

(***************************************************************************)
(* What appending a result does to a history.                              *)
(***************************************************************************)
LEMMA Appended ==
    ASSUME NEW h \in Seq(Results), NEW result \in Results
    PROVE  LET g == Append(h, result)
           IN  /\ g \in Seq(Results)
               /\ Len(h) \in Nat
               /\ Len(g) = Len(h) + 1
               /\ \A j \in 1 .. Len(h) : g[j] = h[j]
               /\ g[Len(h) + 1] = result
OBVIOUS

(***************************************************************************)
(* A probe lengthens the run of its own result by one and ends the other.  *)
(***************************************************************************)
LEMMA ProbeCounts ==
    ASSUME NEW h \in Seq(Results), NEW result \in Results,
           NEW n \in 0 .. Consecutive, Counts(h, n, result)
    PROVE  /\ Counts(Append(h, result), Counted(n), result)
           /\ \A other \in Results \ {result} : Counts(Append(h, result), 0, other)
<1> USE ConsecutiveAssumption
<1> DEFINE g == Append(h, result)
           m == Counted(n)
<1>1. m \in 0 .. Consecutive /\ m <= n + 1 /\ (m < Consecutive => m = n + 1)
  BY DEF Counted
<1>2. /\ Len(h) \in Nat
      /\ Len(g) = Len(h) + 1
      /\ \A j \in 1 .. Len(h) : g[j] = h[j]
      /\ g[Len(h) + 1] = result
  BY Appended
<1> HIDE DEF g, m
<1>3. m <= Len(g)
  BY <1>1, <1>2 DEF Counts
<1>4. ASSUME NEW j \in 1 .. Len(g), Len(g) - j < m PROVE g[j] = result
  <2>1. CASE j = Len(h) + 1
    BY <1>2, <2>1
  <2>2. CASE j # Len(h) + 1
    <3>1. j \in 1 .. Len(h) /\ Len(h) - j < n
      BY <1>1, <1>2, <1>4, <2>2
    <3> QED
      BY <1>2, <3>1 DEF Counts
  <2> QED
    BY <2>1, <2>2
<1>5. ASSUME m < Consecutive, m < Len(g) PROVE g[Len(g) - m] # result
  <2>1. /\ n < Consecutive /\ n < Len(h)
        /\ Len(g) - m = Len(h) - n
        /\ Len(h) - n \in 1 .. Len(h)
    BY <1>1, <1>2, <1>5
  <2> QED
    BY <1>2, <2>1 DEF Counts
<1>6. Counts(g, m, result)
  BY <1>3, <1>4, <1>5 DEF Counts
<1>7. \A other \in Results \ {result} : Counts(g, 0, other)
  BY <1>2 DEF Counts
<1> QED
  BY <1>6, <1>7 DEF g, m

(***************************************************************************)
(* A run of Consecutive equal results ends the history exactly when its    *)
(* counter has reached the threshold.                                      *)
(***************************************************************************)
LEMMA RunsAtTheEnd ==
    ASSUME NEW h, Len(h) \in Nat, NEW n \in 0 .. Consecutive, NEW result, Counts(h, n, result)
    PROVE  RunEndsAt(h, Len(h), result) <=> n = Consecutive
<1> USE ConsecutiveAssumption
<1>1. CASE n = Consecutive
  BY <1>1 DEF Counts, RunEndsAt
<1>2. CASE n < Consecutive /\ n < Len(h)
  <2>1. h[Len(h) - n] # result
    BY <1>2 DEF Counts
  <2>2. Len(h) - n \in 1 .. Len(h) /\ Len(h) - (Len(h) - n) < Consecutive
    BY <1>2
  <2> QED
    BY <1>2, <2>1, <2>2 DEF RunEndsAt
<1>3. CASE n < Consecutive /\ n = Len(h)
  BY <1>3 DEF RunEndsAt
<1> QED
  BY <1>1, <1>2, <1>3 DEF Counts

(***************************************************************************)
(* The latest run changes only if the new probe completes a run.           *)
(***************************************************************************)
LEMMA LatestRun ==
    ASSUME NEW h \in Seq(Results), NEW result \in Results, NEW v \in Results
    PROVE  LET g == Append(h, result)
           IN  LastRunIs(g, v) <=> IF RunEndsAt(g, Len(g), result) THEN v = result ELSE LastRunIs(h, v)
<1> USE ConsecutiveAssumption
<1> DEFINE g == Append(h, result)
           n == Len(h)
<1>1. /\ n \in Nat
      /\ Len(g) = n + 1
      /\ \A j \in 1 .. n : g[j] = h[j]
      /\ g[n + 1] = result
  BY Appended
<1>2. Len(h) = n
  OBVIOUS
<1> HIDE DEF g, n
<1>3. \A i \in 1 .. n, u \in Results : RunEndsAt(g, i, u) <=> RunEndsAt(h, i, u)
  BY <1>1 DEF RunEndsAt
<1>4. \A u \in Results \ {result} : ~RunEndsAt(g, n + 1, u)
  <2>1. n + 1 \in 1 .. n + 1 /\ (n + 1) - (n + 1) < Consecutive
    BY <1>1
  <2> QED
    BY <1>1, <2>1 DEF RunEndsAt
<1>5. \A i \in 1 .. n + 1 : n + 1 \in i .. n + 1
  BY <1>1
<1>6. LastRunIs(g, v) <=> \E i \in 1 .. n + 1 :
          /\ RunEndsAt(g, i, v)
          /\ \A later \in i .. n + 1, other \in Results \ {v} : ~RunEndsAt(g, later, other)
  BY <1>1 DEF LastRunIs
<1>7. LastRunIs(h, v) <=> \E i \in 1 .. n :
          /\ RunEndsAt(h, i, v)
          /\ \A later \in i .. n, other \in Results \ {v} : ~RunEndsAt(h, later, other)
  BY <1>2 DEF LastRunIs
<1>8. CASE RunEndsAt(g, n + 1, result)
  <2>1. CASE v = result
    <3>1. n + 1 \in 1 .. n + 1 /\ \A later \in n + 1 .. n + 1 : later = n + 1
      BY <1>1
    <3>2. \A later \in n + 1 .. n + 1, other \in Results \ {v} : ~RunEndsAt(g, later, other)
      BY <1>4, <2>1, <3>1
    <3>3. RunEndsAt(g, n + 1, v)
      BY <1>8, <2>1
    <3>4. LastRunIs(g, v)
      BY <1>6, <3>1, <3>2, <3>3
    <3> QED
      BY <1>1, <1>8, <2>1, <3>4 DEF g
  <2>2. CASE v # result
    <3>1. ~LastRunIs(g, v)
      BY <1>5, <1>6, <1>8, <2>2
    <3> QED
      BY <1>1, <1>8, <2>2, <3>1 DEF g
  <2> QED
    BY <2>1, <2>2
<1>9. CASE ~RunEndsAt(g, n + 1, result)
  <2>1. \A u \in Results : ~RunEndsAt(g, n + 1, u)
    BY <1>4, <1>9
  <2>2. ASSUME LastRunIs(h, v) PROVE LastRunIs(g, v)
    <3>1. PICK i \in 1 .. n :
             /\ RunEndsAt(h, i, v)
             /\ \A later \in i .. n, other \in Results \ {v} : ~RunEndsAt(h, later, other)
      BY <1>7, <2>2
    <3>2. ASSUME NEW later \in i .. n + 1, NEW other \in Results \ {v} PROVE ~RunEndsAt(g, later, other)
      <4>1. CASE later = n + 1
        BY <2>1, <4>1
      <4>2. CASE later # n + 1
        <5>1. later \in i .. n /\ later \in 1 .. n
          BY <1>1, <4>2
        <5> QED
          BY <1>3, <3>1, <5>1
      <4> QED
        BY <4>1, <4>2
    <3>3. RunEndsAt(g, i, v)
      BY <1>3, <3>1
    <3>4. i \in 1 .. n + 1
      BY <1>1
    <3> QED
      BY <1>6, <3>2, <3>3, <3>4
  <2>3. ASSUME LastRunIs(g, v) PROVE LastRunIs(h, v)
    <3>1. PICK i \in 1 .. n + 1 :
             /\ RunEndsAt(g, i, v)
             /\ \A later \in i .. n + 1, other \in Results \ {v} : ~RunEndsAt(g, later, other)
      BY <1>6, <2>3
    <3>2. i # n + 1
      BY <2>1, <3>1
    <3>3. i \in 1 .. n
      BY <1>1, <3>2
    <3>4. ASSUME NEW later \in i .. n, NEW other \in Results \ {v} PROVE ~RunEndsAt(h, later, other)
      <4>1. later \in i .. n + 1 /\ later \in 1 .. n
        BY <1>1, <3>3
      <4> QED
        BY <1>3, <3>1, <4>1
    <3>5. RunEndsAt(h, i, v)
      BY <1>3, <3>1, <3>3
    <3> QED
      BY <1>7, <3>3, <3>4, <3>5
  <2> QED
    BY <1>1, <1>9, <2>2, <2>3 DEF g
<1> QED
  BY <1>8, <1>9

(***************************************************************************)
(* A server is known as reachable exactly if the latest run of Consecutive *)
(* equal results was a run of successes, and as unreachable if it was one  *)
(* of failures.                                                            *)
(***************************************************************************)
THEOREM FlapProtectionIsCorrect == Spec => []ReachableIsLastRun
<1>1. Init => CountersInv /\ ReachableIsLastRun
  BY ConsecutiveAssumption
     DEF Init, CountersInv, Counter, Counts, ReachableIsLastRun, LastRunIs, Unprobed, Results
<1>2. ASSUME TypeOK, CountersInv, ReachableIsLastRun, [Next]_vars
      PROVE  CountersInv' /\ ReachableIsLastRun'
  <2>1. ASSUME NEW result \in Results, Probe(result) PROVE CountersInv' /\ ReachableIsLastRun'
    <3>1. state \in ProbeState /\ state' = UpdateState(state, result = "yes")
      BY <1>2, <2>1 DEF TypeOK, Probe
    <3>2. history \in Seq(Results) /\ history' = Append(history, result) /\ Len(history') \in Nat
      BY <1>2, <2>1, Appended DEF Probe, TypeOK
    <3>3. /\ Counter(state', result) = Counted(Counter(state, result))
          /\ Counter(state', result) \in 0 .. Consecutive
          /\ \A other \in Results \ {result} : Counter(state', other) = 0
          /\ state'.reachable = IF Counter(state', result) = Consecutive THEN result ELSE state.reachable
      BY <3>1, UpdateStateFacts
    <3>4. Counter(state, result) \in 0 .. Consecutive /\ Counts(history, Counter(state, result), result)
      BY <1>2, <3>1 DEF CountersInv, Counter, ProbeState
    <3>5. /\ Counts(history', Counter(state', result), result)
          /\ \A other \in Results \ {result} : Counts(history', Counter(state', other), other)
      BY <3>2, <3>3, <3>4, ProbeCounts
    <3>6. RunEndsAt(history', Len(history'), result) <=> Counter(state', result) = Consecutive
      BY <3>2, <3>3, <3>5, RunsAtTheEnd
    <3>7. CountersInv'
      BY <3>5 DEF CountersInv
    <3>8. \A v \in Results : LastRunIs(history', v)
              <=> IF RunEndsAt(history', Len(history'), result) THEN v = result ELSE LastRunIs(history, v)
      BY <3>2, LatestRun
    <3>9. ReachableIsLastRun'
      BY <1>2, <3>3, <3>6, <3>8 DEF ReachableIsLastRun
    <3> QED
      BY <3>7, <3>9
  <2>2. CASE UNCHANGED vars
    BY <1>2, <2>2 DEF vars, CountersInv, ReachableIsLastRun
  <2> QED
    BY <1>2, <2>1, <2>2 DEF Next
<1> QED
  BY <1>1, <1>2, TypeCorrect, PTL DEF Spec

-----------------------------------------------------------------------------
(* BridgeRebalance: what a move does to the loads, and that it lasts.        *)

LEMMA MoveType ==
    ASSUME RebalanceTypeOK, NEW b \in AutoBridges, NEW u \in Upstreams, Move(b, u)
    PROVE  upstreamOf' \in [AutoBridges -> Upstreams] /\ madePeer' \subseteq AutoBridges
BY DEF RebalanceTypeOK, Move

LEMMA RebalanceTypeStep == RebalanceTypeOK /\ [RebalanceNext]_rebalanceVars => RebalanceTypeOK'
<1> SUFFICES ASSUME RebalanceTypeOK, [RebalanceNext]_rebalanceVars PROVE RebalanceTypeOK'
  OBVIOUS
<1> USE RebalanceAssumption
<1>1. CASE StartRound
  BY <1>1 DEF RebalanceTypeOK, StartRound
<1>2. ASSUME NEW b \in AutoBridges, Balance(b) PROVE RebalanceTypeOK'
  <2>1. round' \in [todo : SUBSET AutoBridges, read : [AutoBridges -> Upstreams]] /\ UNCHANGED <<clients, changes>>
    BY <1>2 DEF RebalanceTypeOK, Balance
  <2>2. upstreamOf' \in [AutoBridges -> Upstreams] /\ madePeer' \subseteq AutoBridges
    <3>1. CASE UNCHANGED <<upstreamOf, madePeer>>
      BY <3>1 DEF RebalanceTypeOK
    <3>2. ASSUME NEW u \in Better(round.read[b]), Move(b, u)
          PROVE  upstreamOf' \in [AutoBridges -> Upstreams] /\ madePeer' \subseteq AutoBridges
      BY <3>2, MoveType DEF Better, LeastLoaded
    <3> QED
      BY <1>2, <3>1, <3>2 DEF Balance
  <2> QED
    BY <2>1, <2>2 DEF RebalanceTypeOK
<1>3. ASSUME NEW u \in Upstreams, ClientsChange(u) PROVE RebalanceTypeOK'
  BY <1>3 DEF RebalanceTypeOK, ClientsChange
<1>4. ASSUME NEW u \in Upstreams, NEW b \in AutoBridges, MoveByHand(b, u) PROVE RebalanceTypeOK'
  <2>1. upstreamOf' \in [AutoBridges -> Upstreams] /\ madePeer' \subseteq AutoBridges
    BY <1>4, MoveType DEF MoveByHand
  <2> QED
    BY <1>4, <2>1 DEF RebalanceTypeOK, MoveByHand
<1>5. CASE UNCHANGED rebalanceVars
  BY <1>5 DEF rebalanceVars, RebalanceTypeOK
<1> QED
  BY <1>1, <1>2, <1>3, <1>4, <1>5 DEF RebalanceNext

(***************************************************************************)
(* The type invariant of BridgeRebalance: bridges stay on the servers that *)
(* handleAutoRebalance may choose.                                         *)
(***************************************************************************)
THEOREM RebalanceTyped == RebalanceSpec => []RebalanceTypeOK
<1>1. RebalanceInit => RebalanceTypeOK
  BY RebalanceAssumption DEF RebalanceInit, RebalanceTypeOK
<1> QED
  BY <1>1, RebalanceTypeStep, PTL DEF RebalanceSpec

\* The bridges that count in the load of u.
On(u) == {b \in madePeer : upstreamOf[b] = u}

LEMMA OnIsFinite ==
    ASSUME RebalanceTypeOK, NEW u
    PROVE  IsFiniteSet(On(u)) /\ Cardinality(On(u)) \in Nat
<1>1. On(u) \subseteq AutoBridges
  BY DEF On, RebalanceTypeOK
<1> QED
  BY <1>1, RebalanceAssumption, FS_Subset, FS_CardinalityType

\* One more element, at most.
LEMMA OneMore ==
    ASSUME NEW S, NEW T, NEW x, IsFiniteSet(S), IsFiniteSet(T), T \subseteq S \cup {x}
    PROVE  Cardinality(T) <= Cardinality(S) + 1
<1>1. IsFiniteSet(S \cup {x}) /\ Cardinality(S \cup {x}) <= Cardinality(S) + 1
  <2>1. Cardinality(S) \in Nat
    BY FS_CardinalityType
  <2> QED
    BY <2>1, FS_AddElement
<1>2. Cardinality(T) <= Cardinality(S \cup {x})
  BY <1>1, FS_Subset
<1>3. Cardinality(S) \in Nat /\ Cardinality(T) \in Nat /\ Cardinality(S \cup {x}) \in Nat
  BY <1>1, FS_CardinalityType
<1> QED
  BY <1>1, <1>2, <1>3

\* A move changes the load of the two servers by one client at most, and no other.
LEMMA MoveCounts ==
    ASSUME RebalanceTypeOK, RebalanceTypeOK', NEW b \in AutoBridges, NEW u \in Upstreams,
           NEW v \in Upstreams, upstreamOf[b] = v, u # v, Move(b, u), clients' = clients
    PROVE  /\ \A w \in Upstreams : Active(w) \in Nat /\ Active(w)' \in Nat
           /\ Active(u)' <= Active(u) + 1
           /\ Active(v) <= Active(v)' + 1
           /\ \A w \in Upstreams \ {u, v} : Active(w)' = Active(w)
<1>1. \A c \in AutoBridges \ {b} : upstreamOf'[c] = upstreamOf[c] /\ (c \in madePeer' <=> c \in madePeer)
  BY DEF Move, RebalanceTypeOK
<1>2. upstreamOf'[b] = u /\ madePeer \subseteq AutoBridges /\ madePeer' \subseteq AutoBridges
  BY DEF Move, RebalanceTypeOK
<1>3. /\ On(u)' \subseteq On(u) \cup {b}
      /\ On(v) \subseteq On(v)' \cup {b}
      /\ \A w \in Upstreams \ {u, v} : On(w)' = On(w)
  BY <1>1, <1>2 DEF On
<1>4. ASSUME NEW w \in Upstreams
      PROVE  /\ IsFiniteSet(On(w)) /\ Cardinality(On(w)) \in Nat
             /\ IsFiniteSet(On(w)') /\ Cardinality(On(w)') \in Nat
  <2>1. On(w)' \subseteq AutoBridges
    BY <1>2 DEF On
  <2> QED
    BY <2>1, OnIsFinite, RebalanceAssumption, FS_Subset, FS_CardinalityType
<1>5. ASSUME NEW w \in Upstreams PROVE clients[w] \in Nat /\ Cardinality({w} \cap Spare) \in Nat
  <2>1. IsFiniteSet({w} \cap Spare)
    BY FS_Singleton, FS_Subset
  <2> QED
    BY <2>1, FS_CardinalityType, RebalanceAssumption DEF RebalanceTypeOK
<1>6. ASSUME NEW w \in Upstreams
      PROVE  /\ Active(w) = clients[w] + Cardinality({w} \cap Spare) + Cardinality(On(w))
             /\ Active(w)' = clients[w] + Cardinality({w} \cap Spare) + Cardinality(On(w)')
  BY DEF Active, On
<1>7. Cardinality(On(u)') <= Cardinality(On(u)) + 1 /\ Cardinality(On(v)) <= Cardinality(On(v)') + 1
  BY <1>3, <1>4, OneMore
<1>8. ASSUME NEW w \in Upstreams
      PROVE  \E n \in Nat : /\ Active(w) = n + Cardinality(On(w))
                            /\ Active(w)' = n + Cardinality(On(w)')
  <2>1. clients[w] + Cardinality({w} \cap Spare) \in Nat
    BY <1>5
  <2> QED
    BY <1>6, <2>1
<1>9. \A w \in Upstreams : Active(w) \in Nat /\ Active(w)' \in Nat
  BY <1>4, <1>8
<1>10. Active(u)' <= Active(u) + 1
  <2>1. PICK n \in Nat : Active(u) = n + Cardinality(On(u)) /\ Active(u)' = n + Cardinality(On(u)')
    BY <1>8
  <2> QED
    BY <1>4, <1>7, <2>1
<1>11. Active(v) <= Active(v)' + 1
  <2>1. PICK n \in Nat : Active(v) = n + Cardinality(On(v)) /\ Active(v)' = n + Cardinality(On(v)')
    BY <1>8
  <2> QED
    BY <1>4, <1>7, <2>1
<1>12. \A w \in Upstreams \ {u, v} : Active(w)' = Active(w)
  BY <1>3, <1>6
<1> QED
  BY <1>9, <1>10, <1>11, <1>12

\* With room for more than five, one client is less than the threshold of a fifth.
LEMMA OneIsLess ==
    ASSUME NEW a \in Nat, NEW more \in Nat, NEW c \in Nat, NEW d \in Nat, d > 0, c > 0,
           more = a \/ (more <= a + 1 /\ c > 5)
    PROVE  5 * (more * d) < 5 * (a * d) + c * d
<1>1. a * d \in Nat /\ c * d \in Nat /\ more * d \in Nat
  OBVIOUS
<1>2. c * d > 0
  OBVIOUS
<1>3. CASE more = a
  BY <1>1, <1>2, <1>3
<1>4. CASE more <= a + 1 /\ c > 5
  <2>1. more * d <= (a + 1) * d
    BY <1>4
  <2>2. (a + 1) * d = a * d + d
    OBVIOUS
  <2>3. PICK e \in Nat : c = 6 + e
    <3>1. c - 6 \in Nat /\ c = 6 + (c - 6)
      BY <1>4
    <3> QED
      BY <3>1
  <2>4. c * d = 6 * d + e * d /\ e * d \in Nat
    BY <2>3
  <2> QED
    BY <1>1, <2>1, <2>2, <2>4
<1> QED
  BY <1>3, <1>4

\* The load of a server before and after a move, as a fraction.
LEMMA Shares ==
    ASSUME NEW u \in Upstreams, Active(u) \in Nat, Active(u)' \in Nat
    PROVE  \E c \in Nat \ {0}, a \in Nat, new \in Nat :
             /\ Share(u)[1] = a /\ Share(u)[2] = c
             /\ Share(u)'[1] = new /\ Share(u)'[2] = c
             /\ IF Capacity[u] > 0 THEN a = Active(u) /\ new = Active(u)' /\ c = Capacity[u] ELSE a = 1 /\ new = 1
<1>1. Capacity[u] \in Nat
  BY RebalanceAssumption
<1>2. CASE Capacity[u] > 0
  <2>1. Share(u) = <<Active(u), Capacity[u]>> /\ Share(u)' = <<Active(u)', Capacity[u]>>
    BY <1>2 DEF Share
  <2>2. Capacity[u] \in Nat \ {0}
    BY <1>1, <1>2
  <2> QED
    BY <1>2, <2>1, <2>2
<1>3. CASE ~(Capacity[u] > 0)
  <2>1. Share(u) = <<1, 1>> /\ Share(u)' = <<1, 1>>
    BY <1>3 DEF Share
  <2> QED
    BY <1>3, <2>1
<1> QED
  BY <1>2, <1>3

LEMMA MoveLasts ==
    ASSUME RebalanceTypeOK, RebalanceTypeOK', NEW b \in AutoBridges, NEW u \in Upstreams,
           upstreamOf[b] # u, upstreamOf'[b] = u, round.read[b] = upstreamOf[b], Balance(b), RoomEnough
    PROVE  Better(u)' = {}
<1>1. PICK v \in Upstreams : upstreamOf[b] = v /\ u # v /\ clients' = clients
  BY DEF RebalanceTypeOK, Balance
<1>2. u \in Better(v) /\ Move(b, u)
  <2>1. PICK x \in Better(v) : Move(b, x)
    BY <1>1 DEF Balance
  <2>2. x = u
    BY <1>1, <2>1 DEF Move, RebalanceTypeOK
  <2> QED
    BY <2>1, <2>2
<1>3. /\ \A w \in Upstreams : Active(w) \in Nat /\ Active(w)' \in Nat
      /\ Active(u)' <= Active(u) + 1
      /\ Active(v) <= Active(v)' + 1
      /\ \A w \in Upstreams \ {u, v} : Active(w)' = Active(w)
  BY <1>1, <1>2, MoveCounts
<1>4. PICK cu \in Nat \ {0}, au \in Nat, au1 \in Nat :
        /\ Share(u)[1] = au /\ Share(u)[2] = cu /\ Share(u)'[1] = au1 /\ Share(u)'[2] = cu
        /\ IF Capacity[u] > 0 THEN au = Active(u) /\ au1 = Active(u)' /\ cu = Capacity[u] ELSE au = 1 /\ au1 = 1
  BY <1>3, Shares
<1>5. PICK cv \in Nat \ {0}, av \in Nat, av1 \in Nat :
        /\ Share(v)[1] = av /\ Share(v)[2] = cv /\ Share(v)'[1] = av1 /\ Share(v)'[2] = cv
        /\ IF Capacity[v] > 0 THEN av = Active(v) /\ av1 = Active(v)' /\ cv = Capacity[v] ELSE av = 1 /\ av1 = 1
  BY <1>1, <1>3, Shares
<1>6. /\ au1 = au \/ (au1 <= au + 1 /\ cu > 5)
      /\ av = av1 \/ (av <= av1 + 1 /\ cv > 5)
  BY <1>1, <1>3, <1>4, <1>5, RebalanceAssumption DEF RoomEnough
<1>7. 5 * (au * cv) + cu * cv <= 5 * (av * cu)
  <2>1. Above(u, v) \/ AboutAbove(u, v)
    BY <1>2 DEF Better
  <2>2. au * cv \in Nat /\ av * cu \in Nat /\ cu * cv \in Nat
    OBVIOUS
  <2> QED
    BY <1>4, <1>5, <2>1, <2>2 DEF Above, AboutAbove
<1> SUFFICES ASSUME NEW w \in Upstreams, w # u, (Above(w, u) \/ AboutAbove(w, u))' PROVE FALSE
  BY DEF Better, LeastLoaded
<1>8. PICK cw \in Nat \ {0}, aw \in Nat, aw1 \in Nat :
        /\ Share(w)[1] = aw /\ Share(w)[2] = cw /\ Share(w)'[1] = aw1 /\ Share(w)'[2] = cw
        /\ IF Capacity[w] > 0 THEN aw = Active(w) /\ aw1 = Active(w)' /\ cw = Capacity[w] ELSE aw = 1 /\ aw1 = 1
  BY <1>3, Shares
<1>9. 5 * (aw1 * cu) + cw * cu <= 5 * (au1 * cw)
  <2>1. au1 * cw \in Nat /\ aw1 * cu \in Nat /\ cw * cu \in Nat
    OBVIOUS
  <2>2. \/ 5 * (Share(u)'[1] * Share(w)'[2]) > 5 * (Share(w)'[1] * Share(u)'[2]) + Share(w)'[2] * Share(u)'[2]
        \/ 5 * (Share(u)'[1] * Share(w)'[2]) = 5 * (Share(w)'[1] * Share(u)'[2]) + Share(w)'[2] * Share(u)'[2]
    BY DEF Above, AboutAbove
  <2> QED
    BY <1>4, <1>8, <2>2, <2>1
<1>10. 5 * (au1 * cw) < 5 * (au * cw) + cu * cw
  BY <1>6, OneIsLess
<1>11. cu * cw = cw * cu /\ cu * cv = cv * cu
  OBVIOUS
<1>12. CASE w # v
  <2>1. ~Less(w, u)
    BY <1>2, <1>12 DEF Better, LeastLoaded
  <2>2. au * cw <= aw * cu
    <3>1. au * cw \in Nat /\ aw * cu \in Nat
      OBVIOUS
    <3> QED
      BY <1>4, <1>8, <2>1, <3>1 DEF Less
  <2>3. aw1 = aw
    BY <1>3, <1>8, <1>12
  <2>4. au1 * cw \in Nat /\ au * cw \in Nat /\ aw * cu \in Nat /\ cu * cw \in Nat /\ cw * cu \in Nat
    OBVIOUS
  <2> QED
    BY <1>9, <1>10, <1>11, <2>2, <2>3, <2>4
<1>13. CASE w = v
  <2>1. cw = cv /\ aw1 = av1
    BY <1>5, <1>8, <1>13
  <2>2. 5 * (av * cu) < 5 * (av1 * cu) + cv * cu
    BY <1>6, OneIsLess
  <2>3. /\ au1 * cv \in Nat /\ au * cv \in Nat /\ av * cu \in Nat /\ av1 * cu \in Nat
        /\ cu * cv \in Nat /\ cv * cu \in Nat
    OBVIOUS
  <2> QED
    BY <1>7, <1>9, <1>10, <1>11, <2>1, <2>2, <2>3
<1> QED
  BY <1>12, <1>13

(***************************************************************************)
(* For any bridges, servers and clients, with room for more than five on   *)
(* each server or none at all: a bridge that the timer has moved stays     *)
(* until something else changes (findBetterCandidate and its threshold).   *)
(***************************************************************************)
THEOREM BalancedBridgesStay == RebalanceSpec => MovesLast
<1>1. RebalanceTypeOK /\ RebalanceTypeOK' =>
        [\A b \in AutoBridges, u \in Upstreams :
           upstreamOf[b] # u /\ upstreamOf'[b] = u /\ round.read[b] = upstreamOf[b] /\ Balance(b) /\ RoomEnough
             => Better(u)' = {}]_rebalanceVars
  BY MoveLasts
<1> QED
  BY <1>1, RebalanceTyped, PTL DEF MovesLast

-----------------------------------------------------------------------------
(* TelegramRouting: the rules that lead bot and proxy through a bridge.      *)

\* Tables are of bridges that were chosen; while that is one bridge, a flow has
\* one table at most.
RoutesOf(f) ==
    /\ routes[f] \in Seq(since)
    /\ \A b \in since : since = {b} => routes[f] \in {<<>>, <<b>>}

\* While no call failed, what is needed is there or on its way.
NotForgotten(f) ==
    chosen # NoBridge /\ since = {chosen} /\ ~missed /\ (f = "bot" \/ hasProxy)
        => <<f, chosen>> \in tasks \/ routes[f] # <<>>

RoutingInv ==
    /\ chosen \in RouteBridges \cup {NoBridge}
    /\ chosen # NoBridge => chosen \in since
    /\ since \subseteq RouteBridges
    /\ tasks \subseteq Flows \X since
    /\ routes \in [Flows -> Seq(RouteBridges)]
    /\ \A f \in Flows : RoutesOf(f) /\ NotForgotten(f)

LEMMA RoutingStep == RoutingInv /\ [RoutingNext]_routingVars => RoutingInv'
<1> SUFFICES ASSUME RoutingInv, [RoutingNext]_routingVars PROVE RoutingInv'
  OBVIOUS
<1> USE RoutingAssumption
<1>1. ASSUME NEW b \in RouteBridges \cup {NoBridge}, ChooseBridge(b) PROVE RoutingInv'
  <2>1. /\ chosen' = b /\ b # chosen /\ tasks' = tasks \cup Needed(b)
        /\ since' = since \cup ({b} \ {NoBridge}) /\ UNCHANGED <<hasProxy, routes, missed>>
    BY <1>1 DEF ChooseBridge
  <2>2. Needed(b) \subseteq Flows \X since'
    BY <2>1 DEF Needed, Flows
  <2>3. tasks' \subseteq Flows \X since'
    BY <2>1, <2>2 DEF RoutingInv
  <2>4. ASSUME NEW f \in Flows PROVE RoutesOf(f)'
    <3>0. RoutesOf(f) /\ since \subseteq since'
      BY <2>1 DEF RoutingInv
    <3>1. \A i \in 1 .. Len(routes[f]) : routes[f][i] \in since'
      BY <3>0 DEF RoutesOf
    <3>2. routes'[f] \in Seq(since')
      BY <2>1, <3>0, <3>1 DEF RoutesOf
    <3>3. ASSUME NEW c \in since', since' = {c} PROVE routes'[f] \in {<<>>, <<c>>}
      <4>1. CASE since = {}
        <5>1. routes[f] = <<>>
          BY <3>0, <4>1 DEF RoutesOf
        <5> QED
          BY <2>1, <5>1
      <4>2. CASE since # {}
        <5>1. since = {c}
          BY <3>0, <3>3, <4>2
        <5> QED
          BY <2>1, <3>0, <5>1 DEF RoutesOf
      <4> QED
        BY <4>1, <4>2
    <3> QED
      BY <3>2, <3>3 DEF RoutesOf
  <2>5. ASSUME NEW f \in Flows PROVE NotForgotten(f)'
    <3>1. b # NoBridge /\ (f = "bot" \/ hasProxy) => <<f, b>> \in Needed(b)
      BY DEF Needed, Flows
    <3> QED
      BY <2>1, <3>1 DEF NotForgotten
  <2> QED
    BY <2>1, <2>3, <2>4, <2>5 DEF RoutingInv
<1>2. CASE InstallProxy
  <2>1. /\ UNCHANGED <<chosen, routes, missed, since>> /\ hasProxy'
        /\ tasks' = tasks \cup (IF chosen = NoBridge THEN {} ELSE {<<"proxy", chosen>>})
    BY <1>2 DEF InstallProxy
  <2>2. tasks' \subseteq Flows \X since'
    BY <2>1 DEF RoutingInv, Flows
  <2>3. \A f \in Flows : RoutesOf(f)' /\ NotForgotten(f)'
    BY <2>1 DEF RoutingInv, RoutesOf, NotForgotten, Flows
  <2> QED
    BY <2>1, <2>2, <2>3 DEF RoutingInv
<1>3. ASSUME NEW f \in Flows, NEW b \in RouteBridges, ApplyRoute(f, b) PROVE RoutingInv'
  <2>1. /\ <<f, b>> \in tasks /\ b \in since /\ tasks' = tasks \ {<<f, b>>}
        /\ routes' = [routes EXCEPT ![f] = IF Contains(routes[f], b) THEN routes[f] ELSE Append(routes[f], b)]
        /\ UNCHANGED <<chosen, hasProxy, missed, since>>
    BY <1>3 DEF ApplyRoute, RoutingInv
  <2>2. \A g \in Flows \ {f} : routes'[g] = routes[g]
    BY <2>1 DEF RoutingInv
  <2>3. /\ routes'[f] \in Seq(since) /\ routes'[f] # <<>>
        /\ \A c \in since : since = {c} => routes'[f] \in {<<>>, <<c>>}
    <3>0. routes[f] \in Seq(since) /\ RoutesOf(f)
      BY DEF RoutingInv, RoutesOf
    <3>1. CASE Contains(routes[f], b)
      <4>1. routes'[f] = routes[f]
        BY <2>1, <3>1 DEF RoutingInv
      <4>2. routes[f] # <<>>
        BY <3>1 DEF Contains
      <4> QED
        BY <3>0, <4>1, <4>2 DEF RoutesOf
    <3>2. CASE ~Contains(routes[f], b)
      <4>1. routes'[f] = Append(routes[f], b)
        BY <2>1, <3>2 DEF RoutingInv
      <4>2. ASSUME NEW c \in since, since = {c} PROVE routes'[f] = <<c>>
        <5>1. b = c
          BY <2>1, <4>2
        <5>2. routes[f] # <<c>>
          <6> SUFFICES ASSUME routes[f] = <<b>> PROVE FALSE
            BY <5>1
          <6>1. 1 \in 1 .. Len(routes[f]) /\ routes[f][1] = b
            OBVIOUS
          <6> QED
            BY <3>2, <6>1 DEF Contains
        <5>3. routes[f] = <<>>
          BY <3>0, <4>2, <5>2 DEF RoutesOf
        <5> QED
          BY <4>1, <5>1, <5>3
      <4> QED
        BY <2>1, <3>0, <4>1, <4>2
    <3> QED
      BY <3>1, <3>2
  <2>4. \A g \in Flows : RoutesOf(g)'
    BY <2>1, <2>2, <2>3 DEF RoutingInv, RoutesOf
  <2>5. \A g \in Flows : NotForgotten(g)'
    BY <2>1, <2>2, <2>3 DEF RoutingInv, NotForgotten
  <2>6. routes' \in [Flows -> Seq(RouteBridges)]
    <3>1. routes[f] \in Seq(RouteBridges) /\ Append(routes[f], b) \in Seq(RouteBridges)
      BY DEF RoutingInv
    <3> QED
      BY <2>1, <3>1 DEF RoutingInv
  <2> QED
    BY <2>1, <2>4, <2>5, <2>6 DEF RoutingInv
<1>4. ASSUME NEW f \in Flows, NEW b \in RouteBridges, RouteFails(f, b) PROVE RoutingInv'
  <2>1. UNCHANGED <<chosen, hasProxy, routes, since>> /\ missed' /\ tasks' \subseteq tasks
    BY <1>4 DEF RouteFails
  <2>2. \A g \in Flows : RoutesOf(g)' /\ NotForgotten(g)'
    BY <2>1 DEF RoutingInv, RoutesOf, NotForgotten
  <2> QED
    BY <2>1, <2>2 DEF RoutingInv
<1>5. CASE StartBackend
  <2>1. /\ tasks' = Needed(chosen) /\ UNCHANGED <<chosen, hasProxy>>
        /\ \/ UNCHANGED <<routes, since>>
           \/ routes' = [f \in Flows |-> <<>>] /\ since' = {chosen} \ {NoBridge}
    BY <1>5 DEF StartBackend
  <2>2. chosen # NoBridge => chosen \in since'
    BY <2>1 DEF RoutingInv
  <2>3. tasks' \subseteq Flows \X since'
    BY <2>1, <2>2 DEF Needed, Flows
  <2>4. ASSUME NEW f \in Flows PROVE NotForgotten(f)'
    <3>1. chosen # NoBridge /\ (f = "bot" \/ hasProxy) => <<f, chosen>> \in Needed(chosen)
      BY DEF Needed, Flows
    <3> QED
      BY <2>1, <3>1 DEF NotForgotten
  <2>5. routes' \in [Flows -> Seq(RouteBridges)] /\ since' \subseteq RouteBridges
    <3>1. <<>> \in Seq(RouteBridges)
      OBVIOUS
    <3> QED
      BY <2>1, <3>1 DEF RoutingInv
  <2>6. ASSUME NEW f \in Flows PROVE RoutesOf(f)'
    <3>1. CASE UNCHANGED <<routes, since>>
      BY <3>1 DEF RoutingInv, RoutesOf
    <3>2. CASE routes' = [g \in Flows |-> <<>>]
      <4>1. routes'[f] = <<>> /\ <<>> \in Seq(since')
        BY <3>2
      <4> QED
        BY <4>1 DEF RoutesOf
    <3> QED
      BY <2>1, <3>1, <3>2
  <2> QED
    BY <2>1, <2>2, <2>3, <2>4, <2>5, <2>6 DEF RoutingInv
<1>6. CASE UNCHANGED routingVars
  BY <1>6 DEF routingVars, RoutingInv, RoutesOf, NotForgotten
<1> QED
  BY <1>1, <1>2, <1>3, <1>4, <1>5, <1>6 DEF RoutingNext

(***************************************************************************)
(* For any bridges, choices, failures, restarts and reboots: while only    *)
(* one bridge was chosen since the host booted and no call failed, bot and *)
(* proxy go through it, or through none and the call is on its way.        *)
(***************************************************************************)
THEOREM RoutesAreOnTheirWay == RoutingSpec => []RoutedOrOnTheWay
<1>1. RoutingInit => RoutingInv
  <2> SUFFICES ASSUME RoutingInit PROVE RoutingInv
    OBVIOUS
  <2>1. \A f \in Flows : routes[f] = <<>>
    BY DEF RoutingInit
  <2>2. <<>> \in Seq(since) /\ <<>> \in Seq(RouteBridges)
    OBVIOUS
  <2>3. routes \in [Flows -> Seq(RouteBridges)]
    BY <2>2 DEF RoutingInit
  <2>4. \A f \in Flows : RoutesOf(f) /\ NotForgotten(f)
    BY <2>1, <2>2 DEF RoutingInit, RoutesOf, NotForgotten
  <2> QED
    BY <2>3, <2>4 DEF RoutingInit, RoutingInv
<1>2. RoutingInv => RoutedOrOnTheWay
  <2> SUFFICES ASSUME RoutingInv, chosen # NoBridge, since = {chosen}, ~missed, NEW f \in Flows, f = "bot" \/ hasProxy
               PROVE  routes[f] = <<chosen>> \/ (routes[f] = <<>> /\ <<f, chosen>> \in tasks)
    BY DEF RoutedOrOnTheWay
  <2> QED
    BY DEF RoutingInv, RoutesOf, NotForgotten
<1> QED
  BY <1>1, <1>2, RoutingStep, PTL DEF RoutingSpec

=============================================================================

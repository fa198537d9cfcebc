-------------------------- MODULE AllocationProofs --------------------------
(***************************************************************************)
(* Where a peer is put and which address it gets: proofs about             *)
(* PeerPlacement and HostAllocation, for any servers, bridges, keys,       *)
(* address range, overlapping calls and faults.                            *)
(***************************************************************************)
EXTENDS PeerPlacement, HostAllocation, FiniteSetTheorems, TLAPS

-----------------------------------------------------------------------------
(* PeerPlacement: the server or bridge.                                    *)

Ways == {<< >>} \cup UNION {[kinds -> Doors] : kinds \in SUBSET VpnKinds}

Errands ==
    [stage : {"idle", "choosing", "resolving", "creating", "undoing", "taking"}, desk : {"bot", "panel"},
     kinds : SUBSET VpnKinds, choice : Gates \cup Hosts \cup {Nowhere}, offered : SUBSET (Gates \cup Hosts),
     within : SUBSET Hosts, to : Ways, could : SUBSET Doors, own : SUBSET Gates]

Rights == [allowed : SUBSET Hosts, blocked : SUBSET Gates]

PlacementTables ==
    /\ fitted \in [Gates -> SUBSET VpnKinds] /\ made \in SUBSET Gates /\ foreign \in SUBSET Gates
    /\ running \in SUBSET Doors /\ access \in Rights /\ placed \in [Doors -> Nat]
    /\ clerk \in [Clerks -> Errands] /\ revoking \in [Revokers -> SUBSET Doors]

\* No request while a bridge is half made, and no peer on one that is not made.
NoneHalfMade ==
    /\ \A c \in Clerks : clerk[c].stage # "idle" => \A g \in Gates : fitted[g] # {} => g \in made
    /\ \A d \in running : d[1] \in Gates => fitted[d[1]] # {}
    /\ \A d \in Doors : d[1] \in Gates /\ placed[d] # 0 => d[1] \in made
    /\ \A r \in Revokers : \A d \in revoking[r] : d[1] \in Gates => d[1] \in made

\* A server or bridge, or an interface, that the organization of request q could use.
Open(q, o) == {o} \X VpnKinds \subseteq q.could
Fine(q, o) == Open(q, o) /\ (o \in Gates => o \in q.own)
Right(q, d) == d \in Doors /\ d \in q.could /\ (d[1] \in Gates => d[1] \in q.own)

\* Where the peers of a request go: to one bridge that is made, if to any.
Placing == {"creating", "undoing", "taking"}
Together(q, bridges) ==
    /\ q.kinds \subseteq DOMAIN q.to
    /\ \A k, l \in DOMAIN q.to : q.to[k][1] \in Gates => q.to[k][1] \in bridges /\ q.to[l][1] = q.to[k][1]

\* What a request knows is what its organization could use.
Justified(q, rights, bridges, open) ==
    /\ q.kinds # {}
    /\ q.stage \in Placing => Together(q, bridges)
    /\ q.stage \in {"undoing", "taking"} => "wireguard" \in DOMAIN q.to
    /\ Usable(rights) \subseteq q.could /\ open \subseteq q.own
    /\ q.stage = "choosing" => q.desk = "bot" /\ \A o \in q.offered : Fine(q, o)
    /\ q.stage = "resolving" =>
        /\ q.choice \in Gates \cup Hosts => Open(q, q.choice)
        /\ q.choice \in Gates /\ q.desk = "bot" => q.choice \in q.own
        /\ q.choice = Nowhere /\ q.desk = "panel" => \A h \in q.within : Open(q, h)
    /\ q.stage = "creating" =>
        \A k \in q.kinds : Right(q, q.to[k])

AllJustified == \A c \in Clerks : clerk[c].stage # "idle" => Justified(clerk[c], access, made, made \ foreign)

Bounded(g) ==
    GatePeers(g) + Cardinality(Coming(g)) + Cardinality(Returning(g))
        <= Limit - 1 + 2 * Cardinality(Clerks) + Cardinality(Revokers)

PlacementInv == PlacementTables /\ NoneHalfMade /\ AllJustified /\ \A g \in Gates : Bounded(g)

LEMMA NoErrandIs == NoErrand \in Errands /\ NoErrand.stage = "idle"
BY DEF NoErrand, Errands, Ways

LEMMA UsableAre == \A rights, d : d \in Usable(rights) <=> d \in Doors /\ IF d[1] \in Gates THEN d[1] \notin rights.blocked ELSE d[1] \in rights.allowed
BY DEF Usable

LEMMA PairsOfOne ==
    ASSUME NEW o \in Gates \cup Hosts
    PROVE  \A k \in VpnKinds : <<o, k>> \in Doors /\ <<o, k>>[1] = o
BY DEF Doors

LEMMA DoorIs ==
    ASSUME NEW d \in Doors
    PROVE  d[1] \in Gates \cup Hosts /\ d[2] \in VpnKinds /\ d \in {d[1]} \X VpnKinds
BY DEF Doors

-----------------------------------------------------------------------------
(* What is offered, and where a request ends up.                           *)

LEMMA UsableIsOpen ==
    ASSUME PlacementTables, NEW q, Usable(access) \subseteq q.could, made \ foreign \subseteq q.own
    PROVE  /\ \A h \in access.allowed : Open(q, h)
           /\ \A g \in Gates : g \notin access.blocked => Open(q, g)
           /\ \A g \in Candidates : Fine(q, g)
<1>1. access.allowed \subseteq Hosts /\ Gates \cap Hosts = {} /\ made \subseteq Gates
  BY PlacementAssumption DEF PlacementTables, Rights
<1>2. ASSUME NEW o \in Gates \cup Hosts, IF o \in Gates THEN o \notin access.blocked ELSE o \in access.allowed
      PROVE  Open(q, o)
  <2>1. ASSUME NEW d \in {o} \X VpnKinds PROVE d \in Usable(access)
    <3>1. d \in Doors /\ d[1] = o
      BY DEF Doors
    <3> QED
      BY <1>2, <3>1 DEF Usable
  <2> QED
    BY <2>1 DEF Open
<1>3. \A h \in access.allowed : Open(q, h)
  BY <1>1, <1>2
<1>4. \A g \in Gates : g \notin access.blocked => Open(q, g)
  BY <1>2
<1>5. \A g \in Candidates : Fine(q, g)
  BY <1>1, <1>4 DEF Candidates, Fine
<1> QED
  BY <1>3, <1>4, <1>5

\* While a request is in progress the interface of a bridge that is not made is no interface.
LEMMA RunningAre ==
    ASSUME PlacementTables, NoneHalfMade, NEW c \in Clerks, clerk[c].stage # "idle", NEW d \in running
    PROVE  /\ d \in Doors /\ d[1] \in Gates => d[1] \in made
           /\ d[1] \notin made => d[1] \in Hosts /\ HostOf(d) = d[1]
<1>1. d \in Doors
  BY DEF PlacementTables
<1>2. d[1] \in Gates => d[1] \in made
  BY DEF NoneHalfMade
<1> QED
  BY <1>1, <1>2, DoorIs DEF HostOf

LEMMA GateDoorsAre ==
    ASSUME NEW g, NEW k, NEW d \in GateDoors(g, k)
    PROVE  d \in running /\ d = <<g, k>> /\ d[1] = g /\ g \in made /\ HasRoom(g)
BY DEF GateDoors

LEMMA DirectDoorsAre ==
    ASSUME PlacementTables, NoneHalfMade, NEW c \in Clerks, clerk[c].stage # "idle",
           NEW h, NEW k, NEW d \in DirectDoors(h, k)
    PROVE  d \in running /\ d[1] = h /\ d[1] \in Hosts
<1>1. d \in running /\ HostOf(d) = h /\ d[1] \notin made
  BY DEF DirectDoors
<1> QED
  BY <1>1, RunningAre

LEMMA BalancedDoorsAre ==
    ASSUME PlacementTables, NoneHalfMade, NEW c \in Clerks, clerk[c].stage # "idle",
           NEW within, NEW k, NEW d \in BalancedDoors(k, within)
    PROVE  d \in running /\ d[1] \in within /\ d[1] \in Hosts
<1>1. d \in running /\ HostOf(d) \in within /\ d[1] \notin made
  BY DEF BalancedDoors
<1> QED
  BY <1>1, RunningAre

\* A door of something open.
LEMMA DoorIsRight ==
    ASSUME NEW q, NEW d \in Doors, Open(q, d[1]), d[1] \in Gates => d[1] \in q.own
    PROVE  Right(q, d)
<1>1. d \in {d[1]} \X VpnKinds
  BY DoorIs
<1> QED
  BY <1>1 DEF Open, Right

\* The doors of a bridge with room, or of no bridge at all.
Roomy(d) == d[1] \in Gates => d[1] \in made /\ HasRoom(d[1])

LEMMA AtIs ==
    ASSUME PlacementTables, NoneHalfMade, NEW c \in Clerks, clerk[c].stage # "idle",
           NEW choice, NEW kinds, NEW f \in At(choice, kinds), NEW k \in kinds
    PROVE  f[k] \in Doors /\ f[k][1] = choice /\ Roomy(f[k]) /\ (choice \notin Gates => choice \in Hosts)
           /\ (choice \in Gates => choice \in made)
<1>1. CASE choice \in Gates
  <2>1. f[k] \in GateDoors(choice, k)
    BY <1>1 DEF At
  <2> QED
    BY <1>1, <2>1, GateDoorsAre DEF Roomy, PlacementTables
<1>2. CASE choice \notin Gates
  <2>1. f[k] \in DirectDoors(choice, k)
    BY <1>2 DEF At
  <2> QED
    BY <1>2, <2>1, DirectDoorsAre, PlacementAssumption DEF Roomy, PlacementTables
<1> QED
  BY <1>1, <1>2

LEMMA UnchosenIs ==
    ASSUME PlacementTables, NoneHalfMade, NEW c \in Clerks, clerk[c].stage # "idle", Justified(clerk[c], access, made, made \ foreign),
           NEW kinds, NEW f \in Unchosen(kinds), NEW k \in kinds
    PROVE  Right(clerk[c], f[k]) /\ Roomy(f[k])
<1>1. /\ \A h \in access.allowed : Open(clerk[c], h)
      /\ \A g \in Candidates : Fine(clerk[c], g) /\ g \in Gates
  BY UsableIsOpen DEF Justified, Candidates, PlacementTables
<1>2. ASSUME NEW choice \in Candidates \cup access.allowed, f \in At(choice, kinds)
      PROVE  Right(clerk[c], f[k]) /\ Roomy(f[k])
  <2>1. f[k] \in Doors /\ f[k][1] = choice /\ Roomy(f[k]) /\ (choice \notin Gates => choice \in Hosts)
    BY <1>2, AtIs
  <2>2. Open(clerk[c], choice) /\ (choice \in Gates => choice \in clerk[c].own)
    BY <1>1, <1>2, PlacementAssumption DEF Fine, PlacementTables, Rights
  <2> QED
    BY <2>1, <2>2, DoorIsRight
<1>3. CASE f \in UnchosenPair(kinds)
  <2>1. PICK choice \in Candidates \cup HostsWith(kinds) : f \in At(choice, kinds)
    BY <1>3 DEF UnchosenPair
  <2>2. HostsWith(kinds) \subseteq access.allowed
    BY DEF HostsWith
  <2> QED
    BY <1>2, <2>1, <2>2
<1>4. CASE f \in UnchosenOne(kinds)
  <2>1. CASE Candidates # {}
    <3>1. PICK choice \in Candidates : f \in At(choice, kinds)
      BY <1>4, <2>1 DEF UnchosenOne
    <3> QED
      BY <1>2, <3>1
  <2>2. CASE Candidates = {}
    <3>1. f[k] \in BalancedDoors(k, access.allowed)
      BY <1>4, <2>2 DEF UnchosenOne
    <3>2. f[k] \in running /\ f[k][1] \in access.allowed /\ f[k][1] \in Hosts
      BY <3>1, BalancedDoorsAre
    <3>3. f[k] \in Doors /\ f[k][1] \notin Gates
      BY <3>2, PlacementAssumption DEF PlacementTables
    <3> QED
      BY <1>1, <3>2, <3>3, DoorIsRight DEF Roomy
  <2> QED
    BY <2>1, <2>2
<1> QED
  BY <1>3, <1>4 DEF Unchosen

LEMMA TargetsAre ==
    ASSUME PlacementTables, NoneHalfMade, NEW c \in Clerks, clerk[c].stage = "resolving", Justified(clerk[c], access, made, made \ foreign),
           NEW f \in Targets(clerk[c]), NEW k \in clerk[c].kinds
    PROVE  Right(clerk[c], f[k]) /\ Roomy(f[k])
<1> DEFINE q == clerk[c]
<1>1. q \in Errands
  BY DEF PlacementTables
<1>2. CASE q.choice \in Gates \cup Hosts
  <2>1. f \in At(q.choice, q.kinds) /\ (q.desk = "panel" => q.choice \notin foreign)
    BY <1>2 DEF Targets
  <2>2. f[k] \in Doors /\ f[k][1] = q.choice /\ Roomy(f[k]) /\ (q.choice \in Gates => q.choice \in made)
    BY <2>1, AtIs
  <2>3. Open(q, q.choice)
    BY <1>2 DEF Justified
  <2>4. q.choice \in Gates => q.choice \in q.own
    BY <1>1, <2>1, <2>2 DEF Justified, Errands
  <2> QED
    BY <2>2, <2>3, <2>4, DoorIsRight
<1>3. CASE q.choice \notin Gates \cup Hosts
  <2>1. q.choice = Nowhere
    BY <1>1, <1>3 DEF Errands
  <2>2. CASE q.desk = "bot"
    BY <1>3, <2>2, UnchosenIs DEF Targets
  <2>3. CASE q.desk # "bot"
    <3>1. q.desk = "panel"
      BY <1>1, <2>3 DEF Errands
    <3>2. f[k] \in BalancedDoors(k, q.within)
      BY <1>3, <2>3 DEF Targets
    <3>3. f[k] \in running /\ f[k][1] \in q.within /\ f[k][1] \in Hosts
      BY <3>2, BalancedDoorsAre
    <3>4. Open(q, f[k][1])
      BY <2>1, <3>1, <3>3 DEF Justified
    <3>5. f[k] \in Doors /\ f[k][1] \notin Gates
      BY <3>3, PlacementAssumption DEF PlacementTables
    <3> QED
      BY <3>4, <3>5, DoorIsRight DEF Roomy
  <2> QED
    BY <2>2, <2>3
<1> QED
  BY <1>2, <1>3

\* The peers of a pair go to the same bridge.
LEMMA TargetsTogether ==
    ASSUME PlacementTables, NoneHalfMade, NEW c \in Clerks, clerk[c].stage = "resolving",
           NEW f \in Targets(clerk[c]), NEW k \in clerk[c].kinds, NEW l \in clerk[c].kinds, f[k][1] \in Gates
    PROVE  f[l][1] = f[k][1]
<1> DEFINE kinds == clerk[c].kinds
<1>1. ASSUME NEW choice, f \in At(choice, kinds) PROVE f[l][1] = f[k][1]
  BY <1>1, AtIs
<1>2. ASSUME NEW within, f[k] \in BalancedDoors(k, within) PROVE FALSE
  BY <1>2, BalancedDoorsAre, PlacementAssumption
<1>3. ASSUME f \in Unchosen(kinds)
      PROVE  (\E choice : f \in At(choice, kinds)) \/ (\E within : f[k] \in BalancedDoors(k, within))
  BY <1>3 DEF Unchosen, UnchosenOne, UnchosenPair
<1>4. (\E choice : f \in At(choice, kinds)) \/ (\E within : f[k] \in BalancedDoors(k, within))
  BY <1>3 DEF Targets
<1> QED
  BY <1>1, <1>2, <1>4

-----------------------------------------------------------------------------
(* What each step leaves.                                                  *)

\* A request keeps its justification when what it gathered grows.
LEMMA JustifiedGrows ==
    ASSUME NEW q, NEW rights, NEW bridges, NEW open, Justified(q, rights, bridges, open),
           NEW p, NEW rights2, NEW bridges2, NEW open2,
           p.stage = q.stage, p.desk = q.desk, p.offered = q.offered, p.choice = q.choice,
           p.within = q.within, p.kinds = q.kinds, p.to = q.to,
           q.could \subseteq p.could, q.own \subseteq p.own, bridges \subseteq bridges2,
           Usable(rights2) \subseteq p.could, open2 \subseteq p.own
    PROVE  Justified(p, rights2, bridges2, open2)
BY DEF Justified, Right, Fine, Open, Together, Placing

LEMMA NotedKeeps ==
    ASSUME PlacementInv, Noted, access' \in Rights, made' \in SUBSET Gates, made \subseteq made',
           foreign' \in SUBSET Gates
    PROVE  /\ clerk' \in [Clerks -> Errands] /\ AllJustified'
           /\ \A c \in Clerks : /\ clerk'[c].stage = clerk[c].stage
                                /\ \A g : ComingFrom(clerk'[c], g) = ComingFrom(clerk[c], g)
<1> SUFFICES ASSUME NEW c \in Clerks
             PROVE  /\ clerk'[c] \in Errands /\ clerk'[c].stage = clerk[c].stage
                    /\ \A g : ComingFrom(clerk'[c], g) = ComingFrom(clerk[c], g)
                    /\ clerk[c].stage # "idle" => Justified(clerk'[c], access', made', made' \ foreign')
  BY DEF Noted, AllJustified
<1>1. clerk[c] \in Errands
  BY DEF PlacementInv, PlacementTables
<1>2. CASE clerk[c].stage = "idle"
  BY <1>1, <1>2 DEF Noted
<1>3. CASE clerk[c].stage # "idle"
  <2> DEFINE could == clerk[c].could \cup Usable(access')
             own == clerk[c].own \cup (made' \ foreign')
  <2>1. clerk'[c] = [clerk[c] EXCEPT !.could = could, !.own = own]
    BY <1>3 DEF Noted
  <2>2. could \in SUBSET Doors /\ own \in SUBSET Gates
    BY <1>1, UsableAre DEF Errands
  <2>3. /\ clerk[c].could \subseteq could /\ Usable(access') \subseteq could
        /\ clerk[c].own \subseteq own /\ made' \ foreign' \subseteq own
    OBVIOUS
  <2> HIDE DEF could, own
  <2>4. /\ clerk'[c] \in Errands /\ clerk'[c].stage = clerk[c].stage /\ clerk'[c].desk = clerk[c].desk
        /\ clerk'[c].offered = clerk[c].offered /\ clerk'[c].choice = clerk[c].choice
        /\ clerk'[c].within = clerk[c].within /\ clerk'[c].kinds = clerk[c].kinds /\ clerk'[c].to = clerk[c].to
        /\ clerk'[c].could = could /\ clerk'[c].own = own
    BY <1>1, <2>1, <2>2 DEF Errands
  <2>5. Justified(clerk[c], access, made, made \ foreign)
    BY <1>3 DEF PlacementInv, AllJustified
  <2>6. Justified(clerk'[c], access', made', made' \ foreign')
    BY <2>3, <2>4, <2>5, JustifiedGrows
  <2> QED
    BY <2>4, <2>6 DEF ComingFrom
<1> QED
  BY <1>2, <1>3

LEMMA ComingIs == \A g, e : e \in Coming(g) <=> e \in Clerks \X VpnKinds /\ e[2] \in ComingFrom(clerk[e[1]], g)
BY DEF Coming

LEMMA FewPairs ==
    ASSUME NEW S \in SUBSET (Clerks \X VpnKinds)
    PROVE  /\ IsFiniteSet(S) /\ Cardinality(S) \in Nat
           /\ Cardinality(S) <= 2 * Cardinality(Clerks) /\ Cardinality(Clerks) \in Nat
<1>1. IsFiniteSet(VpnKinds) /\ Cardinality(VpnKinds) = 2
  <2>1. IsFiniteSet({"wireguard"}) /\ Cardinality({"wireguard"}) = 1
    BY FS_Singleton
  <2>2. VpnKinds = {"wireguard"} \cup {"amneziawg"} /\ "amneziawg" \notin {"wireguard"}
    BY DEF VpnKinds
  <2>3. IsFiniteSet(VpnKinds) /\ Cardinality(VpnKinds) = Cardinality({"wireguard"}) + 1
    BY <2>1, <2>2, FS_AddElement
  <2> QED
    BY <2>1, <2>3
<1>2. IsFiniteSet(Clerks) /\ Cardinality(Clerks) \in Nat
  BY PlacementAssumption, FS_CardinalityType
<1>3. /\ IsFiniteSet(Clerks \X VpnKinds)
      /\ Cardinality(Clerks \X VpnKinds) = Cardinality(Clerks) * Cardinality(VpnKinds)
  BY <1>1, <1>2, FS_Product
<1>4. Cardinality(Clerks \X VpnKinds) = 2 * Cardinality(Clerks)
  BY <1>1, <1>2, <1>3
<1>5. IsFiniteSet(S) /\ Cardinality(S) <= Cardinality(Clerks \X VpnKinds)
  BY <1>3, FS_Subset
<1> QED
  BY <1>2, <1>4, <1>5, FS_CardinalityType

LEMMA FewAreComing ==
    \A g : /\ IsFiniteSet(Coming(g)) /\ Cardinality(Coming(g)) \in Nat
           /\ Cardinality(Coming(g)) <= 2 * Cardinality(Clerks) /\ Cardinality(Clerks) \in Nat
<1>1. \A g : Coming(g) \in SUBSET (Clerks \X VpnKinds)
  BY DEF Coming
<1> QED
  BY <1>1, FewPairs

LEMMA FewReturn ==
    \A g : /\ IsFiniteSet(Returning(g)) /\ Cardinality(Returning(g)) \in Nat
           /\ Cardinality(Returning(g)) <= Cardinality(Revokers) /\ Cardinality(Revokers) \in Nat
<1>1. \A g : Returning(g) \subseteq Revokers
  BY DEF Returning
<1> QED
  BY <1>1, PlacementAssumption, FS_Subset, FS_CardinalityType

\* What a count of a bridge is made of.
LEMMA CountsAre ==
    ASSUME placed \in [Doors -> Nat], NEW g \in Gates
    PROVE  /\ <<g, "wireguard">> \in Doors /\ <<g, "amneziawg">> \in Doors
           /\ <<g, "wireguard">> # <<g, "amneziawg">> /\ GatePeers(g) \in Nat
<1>1. <<g, "wireguard">> \in Doors /\ <<g, "amneziawg">> \in Doors
  BY DEF Doors, VpnKinds
<1> QED
  BY <1>1 DEF GatePeers

LEMMA BridgeDoor == ASSUME NEW d \in Doors PROVE d = <<d[1], "wireguard">> \/ d = <<d[1], "amneziawg">>
BY DEF Doors, VpnKinds

\* No more peers, no more to come, no more to return.
LEMMA StaysBounded ==
    ASSUME PlacementInv, placed' \in [Doors -> Nat], \A d \in Doors : placed'[d] <= placed[d],
           \A c \in Clerks : \A g \in Gates : ComingFrom(clerk'[c], g) \subseteq ComingFrom(clerk[c], g),
           \A r \in Revokers : revoking'[r] \subseteq revoking[r]
    PROVE  \A g \in Gates : Bounded(g)'
<1> SUFFICES ASSUME NEW g \in Gates PROVE Bounded(g)'
  OBVIOUS
<1>1. \A e \in Coming(g)' : e \in Clerks \X VpnKinds /\ e[2] \in ComingFrom(clerk'[e[1]], g)
  BY DEF Coming
<1>2. Coming(g)' \subseteq Coming(g) /\ Returning(g)' \subseteq Returning(g)
  BY <1>1, ComingIs DEF Returning
<1>3. /\ Cardinality(Coming(g)') <= Cardinality(Coming(g)) /\ Cardinality(Coming(g)') \in Nat
      /\ Cardinality(Returning(g)') <= Cardinality(Returning(g)) /\ Cardinality(Returning(g)') \in Nat
      /\ Cardinality(Coming(g)) \in Nat /\ Cardinality(Clerks) \in Nat
      /\ Cardinality(Returning(g)) \in Nat /\ Cardinality(Revokers) \in Nat
  BY <1>2, FewAreComing, FewReturn, FS_Subset, FS_CardinalityType
<1>4. placed \in [Doors -> Nat]
  BY DEF PlacementInv, PlacementTables
<1>5. GatePeers(g)' <= GatePeers(g) /\ GatePeers(g)' \in Nat /\ GatePeers(g) \in Nat
  BY <1>4, CountsAre DEF GatePeers
<1>6. Bounded(g) /\ Limit \in Nat
  BY PlacementAssumption DEF PlacementInv
<1>7. Cardinality(Coming(g))' = Cardinality(Coming(g)') /\ Cardinality(Returning(g))' = Cardinality(Returning(g)')
  OBVIOUS
<1> HIDE DEF GatePeers, Coming, Returning
<1> QED
  BY <1>3, <1>5, <1>6, <1>7 DEF Bounded

\* One more peer, of those that were to come.
LEMMA OneArrives ==
    ASSUME PlacementInv, NEW d \in Doors, NEW c \in Clerks, NEW k \in VpnKinds,
           placed' \in [Doors -> Nat], placed'[d] = placed[d] + 1, \A e \in Doors \ {d} : placed'[e] = placed[e],
           \A b \in Clerks \ {c} : clerk'[b] = clerk[b], revoking' = revoking,
           \A g : ComingFrom(clerk'[c], g) \subseteq ComingFrom(clerk[c], g) \ {k},
           d[1] \in Gates => k \in ComingFrom(clerk[c], d[1])
    PROVE  \A g \in Gates : Bounded(g)'
<1> SUFFICES ASSUME NEW g \in Gates PROVE Bounded(g)'
  OBVIOUS
<1>1. \A e : e \in Coming(g)' <=> e \in Clerks \X VpnKinds /\ e[2] \in ComingFrom(clerk'[e[1]], g)
  BY DEF Coming
<1>2. ASSUME NEW e \in Coming(g)' PROVE e \in Coming(g) \ {<<c, k>>}
  <2>1. e \in Clerks \X VpnKinds /\ e[2] \in ComingFrom(clerk'[e[1]], g)
    BY <1>1, <1>2
  <2>2. CASE e[1] = c
    <3>1. e[2] \in ComingFrom(clerk[c], g) /\ e[2] # k
      BY <2>1, <2>2
    <3> QED
      BY <2>1, <2>2, <3>1, ComingIs
  <2>3. CASE e[1] # c
    BY <2>1, <2>3, ComingIs
  <2> QED
    BY <2>2, <2>3
<1>3. /\ IsFiniteSet(Coming(g)) /\ Cardinality(Coming(g)) \in Nat /\ Cardinality(Clerks) \in Nat
      /\ Cardinality(Returning(g)) \in Nat /\ Cardinality(Revokers) \in Nat
      /\ Bounded(g) /\ Limit \in Nat /\ Cardinality(Coming(g))' = Cardinality(Coming(g)')
      /\ Cardinality(Returning(g))' = Cardinality(Returning(g))
  <2>1. Bounded(g)
    BY DEF PlacementInv
  <2>2. Returning(g)' = Returning(g)
    BY DEF Returning
  <2> QED
    BY <2>1, <2>2, FewAreComing, FewReturn, PlacementAssumption
<1>4. placed \in [Doors -> Nat]
  BY DEF PlacementInv, PlacementTables
<1>5. CASE d[1] = g
  <2>1. <<c, k>> \in Coming(g)
    BY <1>5, ComingIs
  <2>2. /\ IsFiniteSet(Coming(g) \ {<<c, k>>})
        /\ Cardinality(Coming(g) \ {<<c, k>>}) = Cardinality(Coming(g)) - 1
    BY <1>3, <2>1, FS_RemoveElement
  <2>3. /\ Cardinality(Coming(g)') <= Cardinality(Coming(g)) - 1
        /\ Cardinality(Coming(g)') \in Nat
    BY <1>2, <2>2, FS_Subset, FS_CardinalityType
  <2>4. d = <<g, "wireguard">> \/ d = <<g, "amneziawg">>
    BY <1>5, BridgeDoor
  <2>5. GatePeers(g)' = GatePeers(g) + 1 /\ GatePeers(g) \in Nat
    BY <1>4, <2>4, CountsAre DEF GatePeers
  <2> HIDE DEF GatePeers, Coming, Returning
  <2> QED
    BY <1>3, <2>3, <2>5 DEF Bounded
<1>6. CASE d[1] # g
  <2>1. /\ Cardinality(Coming(g)') <= Cardinality(Coming(g)) /\ Cardinality(Coming(g)') \in Nat
    BY <1>2, <1>3, FS_Subset, FS_CardinalityType
  <2>2. d # <<g, "wireguard">> /\ d # <<g, "amneziawg">>
    BY <1>6
  <2>3. GatePeers(g)' = GatePeers(g) /\ GatePeers(g) \in Nat
    BY <1>4, <2>2, CountsAre DEF GatePeers
  <2> HIDE DEF GatePeers, Coming, Returning
  <2> QED
    BY <1>3, <2>1, <2>3 DEF Bounded
<1> QED
  BY <1>5, <1>6

-----------------------------------------------------------------------------
(* Administrators.                                                         *)

LEMMA DecisionKeeps ==
    ASSUME PlacementInv, SetAccess \/ \E g \in Gates : SaveGate(g) \/ HandOver(g)
    PROVE  PlacementInv'
<1>1. /\ UNCHANGED <<fitted, running, placed, revoking>> /\ Noted
      /\ access' \in Rights /\ made' \in SUBSET Gates /\ made \subseteq made' /\ foreign' \in SUBSET Gates
  <2>1. CASE SetAccess
    BY <2>1 DEF SetAccess, PlacementInv, PlacementTables, Rights
  <2>2. ASSUME NEW g \in Gates, SaveGate(g)
        PROVE  /\ UNCHANGED <<fitted, running, placed, revoking, access>> /\ Noted
               /\ made' \in SUBSET Gates /\ made \subseteq made' /\ foreign' \in SUBSET Gates
    BY <2>2 DEF SaveGate, PlacementInv, PlacementTables
  <2>3. ASSUME NEW g \in Gates, HandOver(g)
        PROVE  /\ UNCHANGED <<fitted, running, placed, revoking, access>> /\ Noted
               /\ made' \in SUBSET Gates /\ made \subseteq made' /\ foreign' \in SUBSET Gates
    BY <2>3 DEF HandOver, PlacementInv, PlacementTables
  <2> QED
    BY <2>1, <2>2, <2>3 DEF PlacementInv, PlacementTables
<1>2. /\ clerk' \in [Clerks -> Errands] /\ AllJustified'
      /\ \A c \in Clerks : /\ clerk'[c].stage = clerk[c].stage
                           /\ \A g : ComingFrom(clerk'[c], g) = ComingFrom(clerk[c], g)
  BY <1>1, NotedKeeps
<1>3. NoneHalfMade'
  BY <1>1, <1>2 DEF PlacementInv, NoneHalfMade
<1>4. \A g \in Gates : Bounded(g)'
  BY <1>1, <1>2, StaysBounded DEF PlacementInv, PlacementTables
<1> QED
  BY <1>1, <1>2, <1>3, <1>4 DEF PlacementInv, PlacementTables

LEMMA InstallGateKeeps ==
    ASSUME ~Unguarded, PlacementInv, NEW g \in Gates, NEW kinds \in SUBSET VpnKinds, kinds # {},
           InstallGate(g, kinds)
    PROVE  PlacementInv'
<1>1. /\ UNCHANGED <<made, foreign, access, placed, revoking, clerk>>
      /\ \A c \in Clerks : clerk[c].stage = "idle"
      /\ fitted' = [fitted EXCEPT ![g] = kinds] /\ running' = running \cup {g} \X kinds
  BY DEF InstallGate
<1>2. \A d \in {g} \X kinds : d \in Doors /\ d[1] = g
  BY DEF Doors
<1>3. /\ fitted' \in [Gates -> SUBSET VpnKinds] /\ running' \in SUBSET Doors
      /\ fitted'[g] = kinds /\ \A h \in Gates \ {g} : fitted'[h] = fitted[h]
  BY <1>1, <1>2 DEF PlacementInv, PlacementTables
<1>4. NoneHalfMade'
  <2>1. ASSUME NEW d \in running', d[1] \in Gates PROVE fitted'[d[1]] # {}
    BY <1>1, <1>2, <1>3, <2>1 DEF PlacementInv, NoneHalfMade
  <2> QED
    BY <1>1, <2>1 DEF PlacementInv, NoneHalfMade
<1>5. AllJustified'
  BY <1>1 DEF AllJustified
<1>6. \A h \in Gates : Bounded(h)'
  BY <1>1 DEF PlacementInv, Bounded, GatePeers, Coming, Returning
<1> QED
  BY <1>1, <1>3, <1>4, <1>5, <1>6 DEF PlacementInv, PlacementTables

LEMMA BreakKeeps ==
    ASSUME PlacementInv, NEW d \in Doors, Break(d)
    PROVE  PlacementInv'
<1>1. UNCHANGED <<fitted, made, foreign, access, placed, revoking, clerk>> /\ running' \subseteq running
  BY DEF Break
<1>2. NoneHalfMade' /\ AllJustified'
  BY <1>1 DEF PlacementInv, NoneHalfMade, AllJustified
<1>3. \A h \in Gates : Bounded(h)'
  BY <1>1 DEF PlacementInv, Bounded, GatePeers, Coming, Returning
<1> QED
  BY <1>1, <1>2, <1>3 DEF PlacementInv, PlacementTables

\* The rest of what a step keeps that changes peers and revocations only.
LEMMA RevocationKeeps ==
    ASSUME PlacementInv, UNCHANGED <<fitted, made, foreign, running, access, clerk>>,
           placed' \in [Doors -> Nat], revoking' \in [Revokers -> SUBSET Doors],
           \A d \in Doors : d[1] \in Gates /\ placed'[d] # 0 => d[1] \in made,
           \A r \in Revokers : \A d \in revoking'[r] : d[1] \in Gates => d[1] \in made
    PROVE  PlacementTables' /\ NoneHalfMade' /\ AllJustified'
<1>1. PlacementTables'
  BY DEF PlacementInv, PlacementTables
<1>2. NoneHalfMade' /\ AllJustified'
  BY DEF PlacementInv, NoneHalfMade, AllJustified
<1> QED
  BY <1>1, <1>2

LEMMA RevokePeerKeeps ==
    ASSUME PlacementInv, NEW d \in Doors, NEW r \in Revokers, RevokePeer(r, d)
    PROVE  PlacementInv'
<1>1. /\ UNCHANGED <<fitted, made, foreign, running, access, clerk>> /\ placed[d] > 0 /\ revoking[r] = {}
      /\ placed' = [placed EXCEPT ![d] = placed[d] - 1] /\ revoking' = [revoking EXCEPT ![r] = {d}]
  BY DEF RevokePeer
<1>2. /\ placed \in [Doors -> Nat] /\ placed' \in [Doors -> Nat] /\ revoking' \in [Revokers -> SUBSET Doors]
      /\ placed'[d] = placed[d] - 1 /\ revoking'[r] = {d}
      /\ \A e \in Doors \ {d} : placed'[e] = placed[e]
      /\ \A q \in Revokers \ {r} : revoking'[q] = revoking[q]
  BY <1>1 DEF PlacementInv, PlacementTables
<1>3. /\ \A e \in Doors : e[1] \in Gates /\ placed'[e] # 0 => e[1] \in made
      /\ \A q \in Revokers : \A e \in revoking'[q] : e[1] \in Gates => e[1] \in made
  BY <1>1, <1>2 DEF PlacementInv, NoneHalfMade
<1>4. PlacementTables' /\ NoneHalfMade' /\ AllJustified'
  BY <1>1, <1>2, <1>3, RevocationKeeps
<1>5. ASSUME NEW g \in Gates PROVE Bounded(g)'
  <2>1. /\ Cardinality(Coming(g)) \in Nat /\ Cardinality(Clerks) \in Nat
        /\ IsFiniteSet(Returning(g)) /\ Cardinality(Returning(g)) \in Nat /\ Cardinality(Revokers) \in Nat
        /\ Bounded(g) /\ Limit \in Nat /\ Cardinality(Coming(g))' = Cardinality(Coming(g))
        /\ Cardinality(Returning(g))' = Cardinality(Returning(g)')
    BY <1>1, FewAreComing, FewReturn, PlacementAssumption DEF PlacementInv, Coming
  <2>2. Returning(g)' \subseteq Returning(g) \cup {r}
    BY <1>2 DEF Returning
  <2>3. /\ IsFiniteSet(Returning(g) \cup {r}) /\ r \notin Returning(g)
        /\ Cardinality(Returning(g) \cup {r}) = Cardinality(Returning(g)) + 1
    BY <1>1, <2>1, FS_AddElement DEF Returning
  <2>4. CASE d[1] = g
    <3>1. d = <<g, "wireguard">> \/ d = <<g, "amneziawg">>
      BY <2>4, BridgeDoor
    <3>2. GatePeers(g)' = GatePeers(g) - 1 /\ GatePeers(g) \in Nat
      BY <1>2, <3>1, CountsAre DEF GatePeers
    <3>3. Cardinality(Returning(g)') <= Cardinality(Returning(g)) + 1 /\ Cardinality(Returning(g)') \in Nat
      BY <2>2, <2>3, FS_Subset, FS_CardinalityType
    <3> HIDE DEF GatePeers, Coming, Returning
    <3> QED
      BY <2>1, <3>2, <3>3 DEF Bounded
  <2>5. CASE d[1] # g
    <3>1. Returning(g)' \subseteq Returning(g)
      BY <1>2, <2>5 DEF Returning
    <3>2. Cardinality(Returning(g)') <= Cardinality(Returning(g)) /\ Cardinality(Returning(g)') \in Nat
      BY <2>1, <3>1, FS_Subset, FS_CardinalityType
    <3>3. d # <<g, "wireguard">> /\ d # <<g, "amneziawg">>
      BY <2>5
    <3>4. GatePeers(g)' = GatePeers(g) /\ GatePeers(g) \in Nat
      BY <1>2, <3>3, CountsAre DEF GatePeers
    <3> HIDE DEF GatePeers, Coming, Returning
    <3> QED
      BY <2>1, <3>2, <3>4 DEF Bounded
  <2> QED
    BY <2>4, <2>5
<1> QED
  BY <1>4, <1>5 DEF PlacementInv

LEMMA RevocationEndsKeeps ==
    ASSUME PlacementInv, NEW r \in Revokers, RevocationEnds(r)
    PROVE  PlacementInv'
<1>1. /\ UNCHANGED <<fitted, made, foreign, running, access, placed, clerk>>
      /\ revoking' = [revoking EXCEPT ![r] = {}]
  BY DEF RevocationEnds
<1>2. /\ placed' \in [Doors -> Nat] /\ revoking' \in [Revokers -> SUBSET Doors]
      /\ \A q \in Revokers : revoking'[q] \subseteq revoking[q] /\ revoking[q] \subseteq Doors
      /\ \A d \in Doors : placed'[d] <= placed[d]
  BY <1>1 DEF PlacementInv, PlacementTables
<1>3. /\ \A e \in Doors : e[1] \in Gates /\ placed'[e] # 0 => e[1] \in made
      /\ \A q \in Revokers : \A e \in revoking'[q] : e[1] \in Gates => e[1] \in made
  BY <1>1, <1>2 DEF PlacementInv, NoneHalfMade
<1>4. \A g \in Gates : Bounded(g)'
  BY <1>1, <1>2, StaysBounded
<1> QED
  BY <1>1, <1>2, <1>3, <1>4, RevocationKeeps DEF PlacementInv

LEMMA PeerReturnsKeeps ==
    ASSUME PlacementInv, NEW r \in Revokers, PeerReturns(r)
    PROVE  PlacementInv'
<1>1. PICK d \in revoking[r] : placed' = [placed EXCEPT ![d] = placed[d] + 1]
  BY DEF PeerReturns
<1>2. /\ UNCHANGED <<fitted, made, foreign, running, access, clerk>>
      /\ revoking' = [revoking EXCEPT ![r] = {}]
  BY DEF PeerReturns
<1>3. /\ d \in Doors /\ placed \in [Doors -> Nat] /\ placed' \in [Doors -> Nat]
      /\ revoking' \in [Revokers -> SUBSET Doors]
      /\ placed'[d] = placed[d] + 1 /\ revoking'[r] = {}
      /\ \A e \in Doors \ {d} : placed'[e] = placed[e]
      /\ \A q \in Revokers \ {r} : revoking'[q] = revoking[q]
  BY <1>1, <1>2 DEF PlacementInv, PlacementTables
<1>4. /\ \A e \in Doors : e[1] \in Gates /\ placed'[e] # 0 => e[1] \in made
      /\ \A q \in Revokers : \A e \in revoking'[q] : e[1] \in Gates => e[1] \in made
  BY <1>1, <1>3 DEF PlacementInv, NoneHalfMade
<1>5. PlacementTables' /\ NoneHalfMade' /\ AllJustified'
  BY <1>2, <1>3, <1>4, RevocationKeeps
<1>6. ASSUME NEW g \in Gates PROVE Bounded(g)'
  <2>1. /\ Cardinality(Coming(g)) \in Nat /\ Cardinality(Clerks) \in Nat
        /\ IsFiniteSet(Returning(g)) /\ Cardinality(Returning(g)) \in Nat /\ Cardinality(Revokers) \in Nat
        /\ Bounded(g) /\ Limit \in Nat /\ Cardinality(Coming(g))' = Cardinality(Coming(g))
        /\ Cardinality(Returning(g))' = Cardinality(Returning(g)')
    BY <1>2, FewAreComing, FewReturn, PlacementAssumption DEF PlacementInv, Coming
  <2>2. Returning(g)' \subseteq Returning(g) \ {r}
    BY <1>3 DEF Returning
  <2>3. CASE d[1] = g
    <3>1. d = <<g, "wireguard">> \/ d = <<g, "amneziawg">>
      BY <1>3, <2>3, BridgeDoor
    <3>2. GatePeers(g)' = GatePeers(g) + 1 /\ GatePeers(g) \in Nat
      BY <1>3, <3>1, CountsAre DEF GatePeers
    <3>3. r \in Returning(g)
      BY <1>1, <2>3 DEF Returning
    <3>4. /\ IsFiniteSet(Returning(g) \ {r})
          /\ Cardinality(Returning(g) \ {r}) = Cardinality(Returning(g)) - 1
      BY <2>1, <3>3, FS_RemoveElement
    <3>5. Cardinality(Returning(g)') <= Cardinality(Returning(g)) - 1 /\ Cardinality(Returning(g)') \in Nat
      BY <2>2, <3>4, FS_Subset, FS_CardinalityType
    <3> HIDE DEF GatePeers, Coming, Returning
    <3> QED
      BY <2>1, <3>2, <3>5 DEF Bounded
  <2>4. CASE d[1] # g
    <3>1. Cardinality(Returning(g)') <= Cardinality(Returning(g)) /\ Cardinality(Returning(g)') \in Nat
      BY <2>1, <2>2, FS_Subset, FS_CardinalityType
    <3>2. d # <<g, "wireguard">> /\ d # <<g, "amneziawg">>
      BY <2>4
    <3>3. GatePeers(g)' = GatePeers(g) /\ GatePeers(g) \in Nat
      BY <1>3, <3>2, CountsAre DEF GatePeers
    <3> HIDE DEF GatePeers, Coming, Returning
    <3> QED
      BY <2>1, <3>1, <3>3 DEF Bounded
  <2> QED
    BY <2>3, <2>4
<1> QED
  BY <1>5, <1>6 DEF PlacementInv

-----------------------------------------------------------------------------
(* Requests.                                                               *)

\* One request moves on, and nothing else changes but the peers.
LEMMA ClerkMoves ==
    ASSUME PlacementInv, NEW c \in Clerks, NEW q \in Errands, clerk' = [clerk EXCEPT ![c] = q],
           UNCHANGED <<fitted, made, foreign, running, access, revoking>>, placed' \in [Doors -> Nat],
           q.stage # "idle" => Justified(q, access, made, made \ foreign),
           q.stage # "idle" => clerk[c].stage # "idle" \/ \A g \in Gates \ made : fitted[g] = {},
           \A d \in Doors : d[1] \in Gates /\ placed'[d] # 0 => d[1] \in made
    PROVE  /\ PlacementTables' /\ NoneHalfMade' /\ AllJustified'
           /\ clerk'[c] = q /\ \A b \in Clerks \ {c} : clerk'[b] = clerk[b]
<1>1. /\ clerk' \in [Clerks -> Errands]
      /\ clerk'[c] = q /\ \A b \in Clerks \ {c} : clerk'[b] = clerk[b]
  BY DEF PlacementInv, PlacementTables
<1>2. NoneHalfMade'
  <2>1. ASSUME NEW b \in Clerks, clerk'[b].stage # "idle", NEW g \in Gates, fitted[g] # {} PROVE g \in made
    BY <1>1, <2>1 DEF PlacementInv, NoneHalfMade
  <2> QED
    BY <2>1 DEF PlacementInv, NoneHalfMade
<1>3. AllJustified'
  BY <1>1 DEF PlacementInv, AllJustified
<1> QED
  BY <1>1, <1>2, <1>3 DEF PlacementInv, PlacementTables

\* A request that creates nothing new.
LEMMA IdleMoves ==
    ASSUME PlacementInv, NEW c \in Clerks, NEW q \in Errands, clerk' = [clerk EXCEPT ![c] = q],
           UNCHANGED <<fitted, made, foreign, running, access, placed, revoking>>,
           q.stage # "idle" => Justified(q, access, made, made \ foreign),
           q.stage # "idle" => clerk[c].stage # "idle" \/ \A g \in Gates \ made : fitted[g] = {},
           \A g : ComingFrom(q, g) \subseteq ComingFrom(clerk[c], g)
    PROVE  PlacementInv'
<1>1. /\ PlacementTables' /\ NoneHalfMade' /\ AllJustified'
      /\ clerk'[c] = q /\ \A b \in Clerks \ {c} : clerk'[b] = clerk[b]
  BY ClerkMoves DEF PlacementInv, PlacementTables, NoneHalfMade
<1>2. \A b \in Clerks : \A g \in Gates : ComingFrom(clerk'[b], g) \subseteq ComingFrom(clerk[b], g)
  BY <1>1
<1>3. \A g \in Gates : Bounded(g)'
  BY <1>2, StaysBounded DEF PlacementInv, PlacementTables
<1> QED
  BY <1>1, <1>3 DEF PlacementInv

LEMMA AskPanelKeeps ==
    ASSUME ~Unguarded, PlacementInv, NEW c \in Clerks, NEW kinds \in SUBSET VpnKinds, kinds # {},
           NEW choice \in made \cup Hosts \cup {Nowhere}, AskPanel(c, choice, kinds)
    PROVE  PlacementInv'
<1> DEFINE q == [NoErrand EXCEPT !.stage = "resolving", !.desk = "panel", !.kinds = kinds,
                                 !.choice = choice, !.within = access.allowed,
                                 !.could = Usable(access), !.own = made \ foreign]
<1>1. /\ UNCHANGED <<fitted, made, foreign, running, access, placed, revoking>> /\ clerk' = [clerk EXCEPT ![c] = q]
      /\ \A g \in Gates \ made : fitted[g] = {}
      /\ choice \notin access.blocked /\ (choice \in Hosts => choice \in access.allowed)
  BY DEF AskPanel, Quiet
<1>2. /\ access.allowed \in SUBSET Hosts /\ Usable(access) \in SUBSET Doors /\ made \ foreign \in SUBSET Gates
      /\ choice \in Gates \cup Hosts \cup {Nowhere}
  BY UsableAre DEF PlacementInv, PlacementTables, Rights
<1>3. /\ q \in Errands /\ q.stage = "resolving" /\ q.desk = "panel" /\ q.choice = choice
      /\ q.within = access.allowed /\ q.could = Usable(access) /\ q.own = made \ foreign /\ q.kinds = kinds
  BY <1>2 DEF NoErrand, Errands, Ways
<1> HIDE DEF q
<1>4. /\ \A h \in access.allowed : Open(q, h)
      /\ \A g \in Gates : g \notin access.blocked => Open(q, g)
  BY <1>3, UsableIsOpen DEF PlacementInv
<1>5. Justified(q, access, made, made \ foreign)
  BY <1>1, <1>3, <1>4 DEF Justified, Placing
<1> QED
  BY <1>1, <1>3, <1>5, IdleMoves DEF ComingFrom

LEMMA AskBotKeeps ==
    ASSUME ~Unguarded, PlacementInv, NEW c \in Clerks, NEW kinds \in SUBSET VpnKinds, kinds # {}, AskBot(c, kinds)
    PROVE  PlacementInv'
<1> DEFINE q == [NoErrand EXCEPT !.stage = "choosing", !.kinds = kinds, !.offered = Options(kinds),
                                 !.could = Usable(access), !.own = made \ foreign]
<1>1. /\ UNCHANGED <<fitted, made, foreign, running, access, placed, revoking>> /\ clerk' = [clerk EXCEPT ![c] = q]
      /\ \A g \in Gates \ made : fitted[g] = {}
  BY DEF AskBot, Quiet
<1>2. Options(kinds) \subseteq Candidates \cup access.allowed
  BY DEF Options, GateOptions, HostsWith
<1>3. /\ access.allowed \in SUBSET Hosts /\ Usable(access) \in SUBSET Doors /\ made \ foreign \in SUBSET Gates
      /\ Candidates \in SUBSET Gates
  BY UsableAre DEF PlacementInv, PlacementTables, Rights, Candidates
<1>4. /\ q \in Errands /\ q.stage = "choosing" /\ q.desk = "bot" /\ q.offered = Options(kinds)
      /\ q.could = Usable(access) /\ q.own = made \ foreign /\ q.kinds = kinds
  BY <1>2, <1>3 DEF NoErrand, Errands, Ways
<1> HIDE DEF q
<1>5. /\ \A h \in access.allowed : Open(q, h)
      /\ \A g \in Candidates : Fine(q, g)
  BY <1>4, UsableIsOpen DEF PlacementInv
<1>6. \A o \in q.offered : Fine(q, o)
  BY <1>2, <1>3, <1>4, <1>5, PlacementAssumption DEF Fine
<1>7. Justified(q, access, made, made \ foreign)
  BY <1>4, <1>6 DEF Justified, Placing
<1> QED
  BY <1>1, <1>4, <1>7, IdleMoves DEF ComingFrom

LEMMA ChooseKeeps ==
    ASSUME PlacementInv, NEW c \in Clerks, ChooseOption(c)
    PROVE  PlacementInv'
<1>1. PICK choice \in clerk[c].offered \cup {Nowhere} :
        clerk' = [clerk EXCEPT ![c] = [clerk[c] EXCEPT !.stage = "resolving", !.choice = choice, !.offered = {}]]
  BY DEF ChooseOption
<1> DEFINE q == [clerk[c] EXCEPT !.stage = "resolving", !.choice = choice, !.offered = {}]
<1>2. /\ UNCHANGED <<fitted, made, foreign, running, access, placed, revoking>> /\ clerk' = [clerk EXCEPT ![c] = q]
      /\ clerk[c].stage = "choosing"
  BY <1>1 DEF ChooseOption
<1>3. clerk[c] \in Errands /\ Justified(clerk[c], access, made, made \ foreign)
  BY <1>2 DEF PlacementInv, PlacementTables, AllJustified
<1>4. choice \in Gates \cup Hosts \cup {Nowhere}
  BY <1>3 DEF Errands
<1>5. /\ q \in Errands /\ q.stage = "resolving" /\ q.desk = clerk[c].desk /\ q.choice = choice
      /\ q.could = clerk[c].could /\ q.own = clerk[c].own /\ q.kinds = clerk[c].kinds
  BY <1>3, <1>4 DEF Errands
<1> HIDE DEF q
<1>6. choice \in Gates \cup Hosts => choice \in clerk[c].offered
  BY <1>4, PlacementAssumption
<1>7. Justified(q, access, made, made \ foreign)
  BY <1>2, <1>3, <1>5, <1>6 DEF Justified, Fine, Open, Placing
<1> QED
  BY <1>2, <1>5, <1>7, IdleMoves DEF ComingFrom

LEMMA ResolveKeeps ==
    ASSUME PlacementInv, NEW c \in Clerks, Resolve(c)
    PROVE  PlacementInv'
<1>1. /\ UNCHANGED <<fitted, made, foreign, running, access, placed, revoking>> /\ clerk[c].stage = "resolving"
  BY DEF Resolve
<1>2. clerk[c] \in Errands /\ Justified(clerk[c], access, made, made \ foreign)
  BY <1>1 DEF PlacementInv, PlacementTables, AllJustified
<1>3. CASE clerk' = [clerk EXCEPT ![c] = NoErrand]
  BY <1>1, <1>3, NoErrandIs, IdleMoves DEF ComingFrom
<1>4. ASSUME NEW f \in Targets(clerk[c]),
             clerk' = [clerk EXCEPT ![c] = [NoErrand EXCEPT !.stage = "creating", !.to = f,
                                                            !.kinds = clerk[c].kinds, !.could = clerk[c].could,
                                                            !.own = clerk[c].own]]
      PROVE  PlacementInv'
  <2> DEFINE q == [NoErrand EXCEPT !.stage = "creating", !.to = f, !.kinds = clerk[c].kinds,
                                   !.could = clerk[c].could, !.own = clerk[c].own]
  <2>1. \A k \in clerk[c].kinds : Right(clerk[c], f[k]) /\ Roomy(f[k])
    BY <1>1, <1>2, TargetsAre DEF PlacementInv
  <2>2. f \in [clerk[c].kinds -> Doors]
    <3>1. \E S : f \in [clerk[c].kinds -> S]
      <4>1. \A choice, kinds : At(choice, kinds) \subseteq [kinds -> running]
        BY DEF At
      <4>2. \A kinds : Unchosen(kinds) \subseteq [kinds -> running]
        BY <4>1 DEF Unchosen, UnchosenOne, UnchosenPair
      <4> QED
        BY <1>4, <4>1, <4>2 DEF Targets
    <3> QED
      BY <2>1, <3>1 DEF Right
  <2>3. f \in Ways
    BY <1>2, <2>2 DEF Ways, Errands
  <2>4. clerk' = [clerk EXCEPT ![c] = q]
    BY <1>4
  <2>5. /\ q \in Errands /\ q.stage = "creating" /\ q.to = f /\ q.kinds = clerk[c].kinds
        /\ q.could = clerk[c].could /\ q.own = clerk[c].own
    BY <1>2, <2>3 DEF NoErrand, Errands
  <2> HIDE DEF q
  <2>6. Justified(q, access, made, made \ foreign)
    <3>1. \A k, l \in clerk[c].kinds : f[k][1] \in Gates => f[k][1] \in made /\ f[l][1] = f[k][1]
      BY <1>1, <2>1, TargetsTogether DEF PlacementInv, Roomy
    <3>2. Together(q, made)
      BY <2>2, <2>5, <3>1 DEF Together
    <3> QED
      BY <1>2, <2>1, <2>5, <3>2 DEF Justified, Right
  <2>7. /\ PlacementTables' /\ NoneHalfMade' /\ AllJustified'
        /\ clerk'[c] = q /\ \A b \in Clerks \ {c} : clerk'[b] = clerk[b]
    BY <1>1, <2>4, <2>5, <2>6, ClerkMoves DEF PlacementInv, PlacementTables, NoneHalfMade
  <2>8. ASSUME NEW g \in Gates PROVE Bounded(g)'
    <3>1. CASE \E k \in q.kinds : q.to[k][1] = g
      <4>1. HasRoom(g)
        BY <2>1, <2>5, <3>1 DEF Roomy
      <4>2. <<g, "wireguard">> \in Doors /\ <<g, "amneziawg">> \in Doors
        BY DEF Doors, VpnKinds
      <4>3. /\ GatePeers(g)' = GatePeers(g) /\ GatePeers(g) \in Nat
            /\ Cardinality(Returning(g))' = Cardinality(Returning(g)) /\ Cardinality(Returning(g)) \in Nat
            /\ Cardinality(Returning(g)) <= Cardinality(Revokers) /\ Cardinality(Revokers) \in Nat
        <5>1. GatePeers(g)' = GatePeers(g) /\ GatePeers(g) \in Nat
          BY <1>1, <4>2 DEF GatePeers, PlacementInv, PlacementTables
        <5>2. Returning(g)' = Returning(g)
          BY <1>1 DEF Returning
        <5> QED
          BY <5>1, <5>2, FewReturn
      <4>4. /\ Cardinality(Coming(g))' <= 2 * Cardinality(Clerks)
            /\ Cardinality(Coming(g))' \in Nat /\ Cardinality(Clerks) \in Nat
        <5>1. Coming(g)' \in SUBSET (Clerks \X VpnKinds)
          BY DEF Coming
        <5>2. Cardinality(Coming(g)') <= 2 * Cardinality(Clerks) /\ Cardinality(Coming(g)') \in Nat
          BY <5>1, FewPairs
        <5> QED
          BY <5>2, FewAreComing
      <4>5. Limit \in Nat
        BY PlacementAssumption
      <4> HIDE DEF GatePeers, Coming, Returning
      <4> QED
        BY <4>1, <4>3, <4>4, <4>5 DEF HasRoom, Bounded
    <3>2. CASE \A k \in q.kinds : q.to[k][1] # g
      <4>1. ComingFrom(clerk'[c], g) = {}
        BY <2>7, <3>2 DEF ComingFrom
      <4>2. \A e : e \in Coming(g)' <=> e \in Clerks \X VpnKinds /\ e[2] \in ComingFrom(clerk'[e[1]], g)
        BY DEF Coming
      <4>3. Coming(g)' \subseteq Coming(g)
        BY <2>7, <4>1, <4>2, ComingIs
      <4>4. /\ Cardinality(Coming(g)') <= Cardinality(Coming(g)) /\ Cardinality(Coming(g)') \in Nat
            /\ Cardinality(Coming(g)) \in Nat /\ Cardinality(Clerks) \in Nat
        BY <4>3, FewAreComing, FS_Subset, FS_CardinalityType
      <4>5. <<g, "wireguard">> \in Doors /\ <<g, "amneziawg">> \in Doors
        BY DEF Doors, VpnKinds
      <4>6. /\ GatePeers(g)' = GatePeers(g) /\ GatePeers(g) \in Nat
            /\ Cardinality(Returning(g))' = Cardinality(Returning(g)) /\ Cardinality(Returning(g)) \in Nat
            /\ Cardinality(Revokers) \in Nat
        <5>1. GatePeers(g)' = GatePeers(g) /\ GatePeers(g) \in Nat
          BY <1>1, <4>5 DEF GatePeers, PlacementInv, PlacementTables
        <5>2. Returning(g)' = Returning(g)
          BY <1>1 DEF Returning
        <5> QED
          BY <5>1, <5>2, FewReturn
      <4>7. Bounded(g) /\ Limit \in Nat /\ Cardinality(Coming(g))' = Cardinality(Coming(g)')
        BY PlacementAssumption DEF PlacementInv
      <4> HIDE DEF GatePeers, Coming, Returning
      <4> QED
        BY <4>4, <4>6, <4>7 DEF Bounded
    <3> QED
      BY <3>1, <3>2
  <2> QED
    BY <2>7, <2>8 DEF PlacementInv
<1> QED
  BY <1>3, <1>4 DEF Resolve

LEMMA PlaceKeeps ==
    ASSUME PlacementInv, NEW c \in Clerks, NEW k \in VpnKinds, Place(c, k)
    PROVE  PlacementInv'
<1>1. /\ UNCHANGED <<fitted, made, foreign, running, access, revoking>>
      /\ clerk[c].stage = "creating" /\ k \in clerk[c].kinds
  BY DEF Place
<1>2. clerk[c] \in Errands /\ Justified(clerk[c], access, made, made \ foreign)
  BY <1>1 DEF PlacementInv, PlacementTables, AllJustified
<1>3. PICK d \in Doors : d = clerk[c].to[k]
  BY <1>1, <1>2 DEF Justified, Right
<1>4. placed' = [placed EXCEPT ![d] = placed[d] + 1]
  BY <1>3 DEF Place
<1>5. /\ placed' \in [Doors -> Nat] /\ placed'[d] = placed[d] + 1
      /\ \A e \in Doors \ {d} : placed'[e] = placed[e]
  BY <1>4 DEF PlacementInv, PlacementTables
<1>6. d[1] \in Gates => d[1] \in made
  <2>1. k \in DOMAIN clerk[c].to
    BY <1>1, <1>2 DEF Justified, Together, Placing
  <2> QED
    BY <1>1, <1>2, <1>3, <2>1 DEF Justified, Together, Placing
<1> DEFINE rest == [clerk[c] EXCEPT !.kinds = clerk[c].kinds \ {k}]
           q == IF clerk[c].kinds = {k} THEN NoErrand ELSE rest
<1>7. clerk' = [clerk EXCEPT ![c] = q]
  BY DEF Place
<1>8. /\ rest \in Errands /\ rest.stage = "creating" /\ rest.kinds = clerk[c].kinds \ {k}
      /\ rest.to = clerk[c].to /\ rest.could = clerk[c].could /\ rest.own = clerk[c].own
  BY <1>1, <1>2 DEF Errands
<1> HIDE DEF rest
<1>9. q \in Errands /\ (q.stage # "idle" => Justified(q, access, made, made \ foreign))
  <2>1. CASE clerk[c].kinds = {k}
    BY <2>1, NoErrandIs
  <2>2. CASE clerk[c].kinds # {k}
    <3>1. clerk[c].kinds \ {k} # {}
      BY <1>1, <2>2
    <3>2. Justified(rest, access, made, made \ foreign)
      BY <1>1, <1>2, <1>8, <3>1 DEF Justified, Right, Together, Placing
    <3> QED
      BY <1>8, <2>2, <3>2
  <2> QED
    BY <2>1, <2>2
<1>10. \A g : ComingFrom(q, g) \subseteq ComingFrom(clerk[c], g) \ {k}
  BY <1>1, <1>8, NoErrandIs DEF ComingFrom
<1> HIDE DEF q
<1>11. \A e \in Doors : e[1] \in Gates /\ placed'[e] # 0 => e[1] \in made
  BY <1>5, <1>6 DEF PlacementInv, NoneHalfMade
<1>12. /\ PlacementTables' /\ NoneHalfMade' /\ AllJustified'
       /\ clerk'[c] = q /\ \A b \in Clerks \ {c} : clerk'[b] = clerk[b]
  BY <1>1, <1>5, <1>7, <1>9, <1>11, ClerkMoves
<1>13. k \in ComingFrom(clerk[c], d[1])
  BY <1>1, <1>3 DEF ComingFrom
<1>14. \A g \in Gates : Bounded(g)'
  BY <1>1, <1>5, <1>10, <1>12, <1>13, OneArrives
<1> QED
  BY <1>12, <1>14 DEF PlacementInv

LEMMA RefusalKeeps ==
    ASSUME PlacementInv, NEW c \in Clerks, PlaceFails(c)
    PROVE  PlacementInv'
<1> DEFINE undoing == [clerk[c] EXCEPT !.stage = "undoing"]
           q == IF DOMAIN clerk[c].to = clerk[c].kinds THEN NoErrand ELSE undoing
<1>1. /\ UNCHANGED <<fitted, made, foreign, running, access, placed, revoking>> /\ clerk' = [clerk EXCEPT ![c] = q]
      /\ clerk[c].stage = "creating"
  BY DEF PlaceFails
<1>2. clerk[c] \in Errands /\ Justified(clerk[c], access, made, made \ foreign)
  BY <1>1 DEF PlacementInv, PlacementTables, AllJustified
<1>3. /\ undoing \in Errands /\ undoing.stage = "undoing"
      /\ undoing.could = clerk[c].could /\ undoing.own = clerk[c].own
      /\ undoing.kinds = clerk[c].kinds /\ undoing.to = clerk[c].to
  BY <1>2 DEF Errands
<1> HIDE DEF undoing
<1>4. q \in Errands /\ (q.stage # "idle" => Justified(q, access, made, made \ foreign))
  <2>1. CASE DOMAIN clerk[c].to = clerk[c].kinds
    BY <2>1, NoErrandIs
  <2>2. CASE DOMAIN clerk[c].to # clerk[c].kinds
    <3>1. /\ DOMAIN clerk[c].to \subseteq VpnKinds
          /\ clerk[c].kinds \subseteq DOMAIN clerk[c].to /\ clerk[c].kinds # {}
      BY <1>1, <1>2 DEF Errands, Ways, Justified, Together, Placing
    <3>2. "wireguard" \in DOMAIN clerk[c].to
      BY <2>2, <3>1 DEF VpnKinds
    <3>3. Justified(undoing, access, made, made \ foreign)
      BY <1>1, <1>2, <1>3, <3>2 DEF Justified, Together, Placing
    <3> QED
      BY <1>3, <2>2, <3>3
  <2> QED
    BY <2>1, <2>2
<1>5. \A g : ComingFrom(q, g) \subseteq ComingFrom(clerk[c], g)
  BY <1>1, <1>3, NoErrandIs DEF ComingFrom
<1> HIDE DEF q
<1> QED
  BY <1>1, <1>4, <1>5, IdleMoves

\* The first peer of a pair, which is taken back.
LEMMA FirstOfPair ==
    ASSUME PlacementInv, NEW c \in Clerks, clerk[c].stage \in {"undoing", "taking"}
    PROVE  /\ clerk[c] \in Errands /\ Justified(clerk[c], access, made, made \ foreign)
           /\ clerk[c].to["wireguard"] \in Doors
           /\ clerk[c].to["wireguard"][1] \in Gates =>
                /\ clerk[c].to["wireguard"][1] \in made
                /\ \E k \in VpnKinds : k \in ComingFrom(clerk[c], clerk[c].to["wireguard"][1])
<1>1. clerk[c] \in Errands /\ Justified(clerk[c], access, made, made \ foreign)
  BY DEF PlacementInv, PlacementTables, AllJustified
<1>2. "wireguard" \in DOMAIN clerk[c].to /\ Together(clerk[c], made) /\ clerk[c].kinds # {}
  BY <1>1 DEF Justified, Placing
<1>3. clerk[c].to["wireguard"] \in Doors
  <2>1. PICK kinds \in SUBSET VpnKinds : clerk[c].to \in [kinds -> Doors]
    BY <1>1, <1>2 DEF Errands, Ways
  <2> QED
    BY <1>2, <2>1
<1>4. ASSUME clerk[c].to["wireguard"][1] \in Gates
      PROVE  /\ clerk[c].to["wireguard"][1] \in made
             /\ \E k \in VpnKinds : k \in ComingFrom(clerk[c], clerk[c].to["wireguard"][1])
  <2>1. PICK k \in clerk[c].kinds : TRUE
    BY <1>2
  <2>2. k \in DOMAIN clerk[c].to /\ k \in VpnKinds
    BY <1>1, <1>2, <2>1 DEF Together, Errands
  <2>3. clerk[c].to[k][1] = clerk[c].to["wireguard"][1] /\ clerk[c].to["wireguard"][1] \in made
    BY <1>2, <1>4, <2>2 DEF Together
  <2> QED
    BY <2>1, <2>2, <2>3 DEF ComingFrom
<1> QED
  BY <1>1, <1>3, <1>4

LEMMA TakeBackKeeps ==
    ASSUME PlacementInv, NEW c \in Clerks, TakeBack(c)
    PROVE  PlacementInv'
<1> DEFINE d == clerk[c].to["wireguard"]
           q == [clerk[c] EXCEPT !.stage = "taking"]
<1>1. /\ UNCHANGED <<fitted, made, foreign, running, access, revoking>> /\ clerk' = [clerk EXCEPT ![c] = q]
      /\ clerk[c].stage = "undoing"
      /\ placed' = placed \/ placed' = [placed EXCEPT ![d] = IF placed[d] > 0 THEN placed[d] - 1 ELSE 0]
  BY DEF TakeBack
<1>2. /\ clerk[c] \in Errands /\ Justified(clerk[c], access, made, made \ foreign) /\ d \in Doors
  BY <1>1, FirstOfPair
<1>3. /\ q \in Errands /\ q.stage = "taking" /\ q.kinds = clerk[c].kinds /\ q.to = clerk[c].to
      /\ q.could = clerk[c].could /\ q.own = clerk[c].own
  BY <1>2 DEF Errands
<1> HIDE DEF q, d
<1>4. placed \in [Doors -> Nat] /\ placed' \in [Doors -> Nat] /\ \A e \in Doors : placed'[e] <= placed[e]
  BY <1>1, <1>2 DEF PlacementInv, PlacementTables
<1>5. \A e \in Doors : e[1] \in Gates /\ placed'[e] # 0 => e[1] \in made
  BY <1>4 DEF PlacementInv, NoneHalfMade
<1>6. Justified(q, access, made, made \ foreign)
  BY <1>1, <1>2, <1>3 DEF Justified, Together, Placing
<1>7. /\ PlacementTables' /\ NoneHalfMade' /\ AllJustified'
      /\ clerk'[c] = q /\ \A b \in Clerks \ {c} : clerk'[b] = clerk[b]
  BY <1>1, <1>3, <1>4, <1>5, <1>6, ClerkMoves
<1>8. \A b \in Clerks : \A g \in Gates : ComingFrom(clerk'[b], g) \subseteq ComingFrom(clerk[b], g)
  BY <1>1, <1>3, <1>7 DEF ComingFrom
<1>9. \A g \in Gates : Bounded(g)'
  BY <1>1, <1>4, <1>8, StaysBounded
<1> QED
  BY <1>7, <1>9 DEF PlacementInv

LEMMA TakenBackKeeps ==
    ASSUME PlacementInv, NEW c \in Clerks, TakenBack(c)
    PROVE  PlacementInv'
<1> DEFINE d == clerk[c].to["wireguard"]
<1>1. /\ UNCHANGED <<fitted, made, foreign, running, access, revoking>> /\ clerk' = [clerk EXCEPT ![c] = NoErrand]
      /\ clerk[c].stage = "taking"
  BY DEF TakenBack
<1>2. /\ d \in Doors
      /\ d[1] \in Gates => d[1] \in made /\ \E k \in VpnKinds : k \in ComingFrom(clerk[c], d[1])
  BY <1>1, FirstOfPair
<1>3. CASE UNCHANGED placed
  BY <1>1, <1>3, NoErrandIs, IdleMoves DEF ComingFrom
<1>4. CASE placed' = [placed EXCEPT ![d] = placed[d] + 1]
  <2> HIDE DEF d
  <2>1. /\ placed' \in [Doors -> Nat] /\ placed'[d] = placed[d] + 1
        /\ \A e \in Doors \ {d} : placed'[e] = placed[e]
    BY <1>2, <1>4 DEF PlacementInv, PlacementTables
  <2>2. \A e \in Doors : e[1] \in Gates /\ placed'[e] # 0 => e[1] \in made
    BY <1>2, <2>1 DEF PlacementInv, NoneHalfMade
  <2>3. /\ PlacementTables' /\ NoneHalfMade' /\ AllJustified'
        /\ clerk'[c] = NoErrand /\ \A b \in Clerks \ {c} : clerk'[b] = clerk[b]
    BY <1>1, <2>1, <2>2, NoErrandIs, ClerkMoves
  <2>4. PICK k \in VpnKinds : d[1] \in Gates => k \in ComingFrom(clerk[c], d[1])
    BY <1>2 DEF VpnKinds
  <2>5. \A g : ComingFrom(clerk'[c], g) = {}
    BY <2>3, NoErrandIs DEF ComingFrom
  <2>6. \A g \in Gates : Bounded(g)'
    BY <1>1, <1>2, <2>1, <2>3, <2>4, <2>5, OneArrives
  <2> QED
    BY <2>3, <2>6 DEF PlacementInv
<1> QED
  BY <1>3, <1>4 DEF TakenBack

-----------------------------------------------------------------------------

LEMMA PlacementStarts == PlacementInit => PlacementInv
<1> SUFFICES ASSUME PlacementInit PROVE PlacementInv
  OBVIOUS
<1>1. \A d \in Hosts \X VpnKinds : d \in Doors /\ d[1] \notin Gates
  BY PlacementAssumption DEF Doors
<1>2. access \in Rights
  BY DEF PlacementInit, Rights
<1>3. PlacementTables
  BY <1>1, <1>2, NoErrandIs DEF PlacementInit, PlacementTables
<1>4. NoneHalfMade /\ AllJustified
  BY <1>1, NoErrandIs DEF PlacementInit, NoneHalfMade, AllJustified
<1>5. ASSUME NEW g \in Gates PROVE Bounded(g)
  <2>1. \A e : e \notin Coming(g)
    BY NoErrandIs, ComingIs DEF PlacementInit, ComingFrom
  <2>2. Cardinality(Coming(g)) = 0 /\ Cardinality(Clerks) \in Nat
    BY <2>1, FewAreComing, FS_EmptySet
  <2>6. Cardinality(Returning(g)) = 0 /\ Cardinality(Revokers) \in Nat
    <3>1. Returning(g) = {}
      BY DEF PlacementInit, Returning
    <3> QED
      BY <3>1, FewReturn, FS_EmptySet
  <2>3. <<g, "wireguard">> \in Doors /\ <<g, "amneziawg">> \in Doors
    BY DEF Doors, VpnKinds
  <2>4. GatePeers(g) = 0
    BY <2>3 DEF PlacementInit, GatePeers
  <2>5. Limit \in Nat /\ Limit > 0
    BY PlacementAssumption
  <2> HIDE DEF GatePeers, Coming, Returning
  <2> QED
    BY <2>2, <2>4, <2>5, <2>6 DEF Bounded
<1> QED
  BY <1>3, <1>4, <1>5 DEF PlacementInv

LEMMA PlacementStep ==
    ASSUME ~Unguarded, PlacementInv, [PlacementNext]_placementVars
    PROVE  PlacementInv'
<1>1. CASE UNCHANGED placementVars
  BY <1>1 DEF placementVars, PlacementInv, PlacementTables, NoneHalfMade, AllJustified, Bounded, GatePeers, Coming, Returning
<1>2. CASE SetAccess \/ \E g \in Gates : SaveGate(g) \/ HandOver(g)
  BY <1>2, DecisionKeeps
<1>3. ASSUME NEW g \in Gates, NEW kinds \in (SUBSET VpnKinds) \ {{}}, InstallGate(g, kinds) PROVE PlacementInv'
  <2>1. kinds \in SUBSET VpnKinds /\ kinds \notin {{}}
    BY <1>3
  <2>2. kinds # {}
    BY <2>1
  <2> QED
    BY <1>3, <2>1, <2>2, InstallGateKeeps
<1>4. CASE \E d \in Doors : Break(d) \/ \E r \in Revokers : RevokePeer(r, d)
  BY <1>4, BreakKeeps, RevokePeerKeeps
<1>8. CASE \E r \in Revokers : RevocationEnds(r) \/ PeerReturns(r)
  BY <1>8, RevocationEndsKeeps, PeerReturnsKeeps
<1>5. ASSUME NEW c \in Clerks, NEW kinds \in (SUBSET VpnKinds) \ {{}},
             AskBot(c, kinds) \/ \E choice \in made \cup Hosts \cup {Nowhere} : AskPanel(c, choice, kinds)
      PROVE  PlacementInv'
  <2>1. kinds \in SUBSET VpnKinds /\ kinds \notin {{}}
    BY <1>5
  <2>2. kinds # {}
    BY <2>1
  <2> QED
    BY <1>5, <2>1, <2>2, AskBotKeeps, AskPanelKeeps
<1>6. ASSUME NEW c \in Clerks, ChooseOption(c) \/ Resolve(c) \/ PlaceFails(c) \/ TakeBack(c) \/ TakenBack(c) PROVE PlacementInv'
  BY <1>6, ChooseKeeps, ResolveKeeps, RefusalKeeps, TakeBackKeeps, TakenBackKeeps
<1>7. ASSUME NEW c \in Clerks, NEW k \in VpnKinds, Place(c, k) PROVE PlacementInv'
  BY <1>7, PlaceKeeps
<1> QED
  BY <1>1, <1>2, <1>3, <1>4, <1>5, <1>6, <1>7, <1>8 DEF PlacementNext

LEMMA PlacementHolds ==
    ASSUME ~Unguarded
    PROVE  PlacementSpec => []PlacementInv
<1>1. PlacementInv /\ [PlacementNext]_placementVars => PlacementInv'
  BY PlacementStep
<1> QED
  BY <1>1, PlacementStarts, PTL DEF PlacementSpec

(***************************************************************************)
(* As long as no request comes while a bridge is half made, a peer goes    *)
(* only to a server or a bridge that its organization could use, whichever *)
(* way the request takes, however many are in progress, and whatever       *)
(* administrators change meanwhile (create, createForTelegramRegistration, *)
(* createMultiForTelegramRegistration and what they call in                *)
(* peers.service.ts, pickServerProtocol in load-balancer.service.ts).      *)
(***************************************************************************)
THEOREM PeersGoWhereTheyMay ==
    ASSUME ~Unguarded
    PROVE  PlacementSpec => []AccessRespected
<1>1. PlacementInv => AccessRespected
  BY DEF PlacementInv, AllJustified, Justified, Right, AccessRespected
<1> QED
  BY <1>1, PlacementHolds, PTL

(***************************************************************************)
(* The limit of a bridge is exceeded by no more than what the requests in  *)
(* progress may add after the last count that was below it                 *)
(* (assertBridgeCapacity in peers.service.ts, which counts before the peer *)
(* is created) and the peers that were not counted because they were being *)
(* revoked (revokeInternal, which makes them ACTIVE again if the server    *)
(* does not answer).                                                       *)
(***************************************************************************)
THEOREM LimitsAreNearlyKept ==
    ASSUME ~Unguarded
    PROVE  PlacementSpec => []LimitNearlyKept
<1>1. PlacementInv => LimitNearlyKept
  BY DEF PlacementInv, Bounded, LimitNearlyKept
<1> QED
  BY <1>1, PlacementHolds, PTL

-----------------------------------------------------------------------------
(* HostAllocation: the address.                                            *)

(***************************************************************************)
(* The variables keep their types: neither allocateIp nor the bump after   *)
(* an import moves the counter more than one past the last host.           *)
(***************************************************************************)
THEOREM TypeCorrect == Spec => []TypeOK
<1> USE ConstantsAssumption DEF Octets
<1>1. Init => TypeOK
  <2>1. Idle \in Call /\ NoScan \in [Keys -> 0 .. MaxOctet]
    BY DEF Idle, CallAt, NoScan, Call, Stages
  <2>2. Init => op \in [Workers -> Call]
    BY <2>1 DEF Init
  <2>3. Init => rowOctet \in [Keys -> 0 .. MaxOctet] /\ confOctet \in [Keys -> 0 .. MaxOctet]
    BY <2>1 DEF Init
  <2>4. FirstOctet \in FirstOctet .. MaxOctet + 1
    OBVIOUS
  <2>5. Init => reserved \in BOOLEAN
    BY Zenon DEF Init
  <2>6. Init => faults \in Nat /\ origin \in [Keys -> {"unused", "panel", "hand"}]
    BY DEF Init
  <2> QED
    BY <2>2, <2>3, <2>4, <2>5, <2>6 DEF Init, TypeOK
<1>2. TypeOK /\ [Next]_vars => TypeOK'
  <2> SUFFICES ASSUME TypeOK, [Next]_vars PROVE TypeOK'
    OBVIOUS
  <2>0. Idle \in Call
    BY DEF Idle, CallAt, NoScan, Call, Stages
  <2>1. ASSUME NEW w \in Workers, NEW keeps \in {"nothing", "row"}, Draw(w, keeps), reserved' \in BOOLEAN
        PROVE  TypeOK'
    <3>1. PICK k \in Keys :
            /\ nextHostOctet <= MaxOctet
            /\ nextHostOctet' = nextHostOctet + 1
            /\ origin' = [origin EXCEPT ![k] = "panel"]
            /\ Start(w, CallAt("allocated", [NoScan EXCEPT ![k] = nextHostOctet], {k}, keeps, FirstOctet))
            /\ UNCHANGED <<rowOctet, twice, confOctet, faults>>
      BY <2>1 DEF Draw
    <3> DEFINE call == CallAt("allocated", [NoScan EXCEPT ![k] = nextHostOctet], {k}, keeps, FirstOctet)
    <3>2. call \in Call
      <4>1. [NoScan EXCEPT ![k] = nextHostOctet] \in [Keys -> 0 .. MaxOctet]
        BY <3>1 DEF NoScan, TypeOK
      <4>2. {k} \in SUBSET Keys /\ 0 \in 0 .. MaxOctet /\ FirstOctet \in FirstOctet .. MaxOctet + 1
        OBVIOUS
      <4> QED
        BY <4>1, <4>2 DEF CallAt, Call, Stages
    <3>3. op' = [op EXCEPT ![w] = call]
      BY <3>1 DEF Start
    <3> HIDE DEF call
    <3> QED
      BY <2>1, <3>1, <3>2, <3>3 DEF TypeOK
  <2>2. ASSUME NEW w \in Workers, InsertCreated(w) PROVE TypeOK'
    <3>1. op[w] \in Call
      BY DEF TypeOK
    <3>2. [op[w] EXCEPT !.stage = "inserted"] \in Call
      BY <3>1 DEF Call, Stages
    <3>3. rowOctet' \in [Keys -> 0 .. MaxOctet]
      BY <2>2, <3>1 DEF InsertCreated, TypeOK, Call
    <3> QED
      BY <2>2, <3>2, <3>3 DEF InsertCreated, TypeOK
  <2>3. ASSUME NEW w \in Workers, SyncCreated(w) \/ SyncRefused(w) PROVE TypeOK'
    <3>0. op[w] \in Call
      BY DEF TypeOK
    <3>1. [op[w] EXCEPT !.stage = "holding"] \in Call
      BY <3>0 DEF Call, Stages
    <3> QED
      BY <2>0, <2>3, <3>1 DEF SyncCreated, SyncRefused, Fault, TypeOK
  <2>4. ASSUME NEW w \in Workers, Scan(w) PROVE TypeOK'
    <3> DEFINE call == CallAt("scanned", confOctet, {}, "nothing", FirstOctet)
    <3>1. call \in Call
      BY DEF CallAt, Call, Stages, TypeOK
    <3>2. op' = [op EXCEPT ![w] = call]
      BY <2>4 DEF Scan, Start
    <3> HIDE DEF call
    <3> QED
      BY <2>4, <3>1, <3>2 DEF Scan, TypeOK
  <2>5. ASSUME NEW w \in Workers, ReadExisting(w) PROVE TypeOK'
    <3> DEFINE new == {k \in Keys : op[w].scan[k] # 0} \ Stored
               kept == [k \in Keys |-> IF k \in new THEN op[w].scan[k] ELSE 0]
               call == [op[w] EXCEPT !.stage = "importing", !.todo = new, !.scan = kept]
    <3>1. new \in SUBSET Keys /\ kept \in [Keys -> 0 .. MaxOctet]
      BY DEF TypeOK, Call
    <3>2. op' = [op EXCEPT ![w] = call]
      BY <2>5 DEF ReadExisting, TypeOK, Call
    <3> HIDE DEF new, kept
    <3>3. call \in Call
      <4>1. op[w] \in Call
        BY DEF TypeOK
      <4> QED
        BY <3>1, <4>1 DEF Call, Stages
    <3> HIDE DEF call
    <3>4. op' \in [Workers -> Call]
      BY <3>2, <3>3 DEF TypeOK
    <3> QED
      BY <2>5, <3>4 DEF ReadExisting, TypeOK
  <2>6. ASSUME NEW w \in Workers, ImportOne(w) PROVE TypeOK'
    <3>1. PICK k \in op[w].todo :
            /\ rowOctet' = [rowOctet EXCEPT ![k] = op[w].scan[k]]
            /\ twice' = IF k \in Stored THEN twice \cup {k} ELSE twice
            /\ op' = [op EXCEPT ![w] = [op[w] EXCEPT !.todo = @ \ {k}, !.scan[k] = 0, !.imported = TRUE]]
      BY <2>6 DEF ImportOne
    <3>2. k \in Keys
      BY DEF TypeOK, Call
    <3> DEFINE call == [op[w] EXCEPT !.todo = @ \ {k}, !.scan[k] = 0, !.imported = TRUE]
    <3>3. call \in Call
      <4>1. op[w] \in Call
        BY DEF TypeOK
      <4>2. op[w].todo \ {k} \in SUBSET Keys /\ [op[w].scan EXCEPT ![k] = 0] \in [Keys -> 0 .. MaxOctet]
        BY <3>2, <4>1 DEF Call
      <4> QED
        BY <4>1, <4>2 DEF Call
    <3>4. op' = [op EXCEPT ![w] = call]
      BY <3>1
    <3> HIDE DEF call
    <3>5. rowOctet' \in [Keys -> 0 .. MaxOctet] /\ twice' \subseteq Keys
      BY <3>1, <3>2 DEF TypeOK, Call, Stored
    <3> QED
      BY <2>6, <3>3, <3>4, <3>5 DEF ImportOne, TypeOK
  <2>7. ASSUME NEW w \in Workers, ImportBreaks(w) PROVE TypeOK'
    BY <2>0, <2>7 DEF ImportBreaks, Fault, TypeOK
  <2>8. ASSUME NEW w \in Workers, ImportDone(w) PROVE TypeOK'
    <3>1. [op[w] EXCEPT !.stage = "measuring"] \in Call
      BY DEF TypeOK, Call, Stages
    <3>2. op' \in [Workers -> Call]
      BY <2>0, <2>8, <3>1 DEF ImportDone, TypeOK
    <3> QED
      BY <2>8, <3>2 DEF ImportDone, TypeOK
  <2>9. ASSUME NEW w \in Workers, ReadMax(w) PROVE TypeOK'
    <3>1. PICK m \in {rowOctet[k] : k \in Keys} \cup {1} :
            op' = [op EXCEPT ![w].stage = "bumping", ![w].max = m]
      BY <2>9 DEF ReadMax
    <3>2. m \in 0 .. MaxOctet
      BY <3>1 DEF TypeOK
    <3>3. [op[w] EXCEPT !.stage = "bumping", !.max = m] \in Call
      BY ZenonT(40), <3>2 DEF TypeOK, Call, Stages
    <3>4. op' = [op EXCEPT ![w] = [op[w] EXCEPT !.stage = "bumping", !.max = m]]
      BY <3>1 DEF TypeOK
    <3> QED
      BY <2>9, <3>3, <3>4 DEF ReadMax, TypeOK
  <2>10. ASSUME NEW w \in Workers, Bump(w) PROVE TypeOK'
    BY <2>0, <2>10 DEF Bump, TypeOK, Call
  <2>15. ASSUME NEW w \in Workers, LoadProtocol(w) PROVE TypeOK'
    <3> DEFINE call == CallAt("holding", NoScan, {}, "row", nextHostOctet)
    <3>1. call \in Call
      BY DEF CallAt, NoScan, Call, Stages, TypeOK
    <3>2. op' = [op EXCEPT ![w] = call]
      BY <2>15 DEF LoadProtocol, Start
    <3> HIDE DEF call
    <3> QED
      BY <2>15, <3>1, <3>2 DEF LoadProtocol, TypeOK
  <2>16. ASSUME NEW w \in Workers, SaveProtocol(w) \/ ProtocolSilent(w) PROVE TypeOK'
    <3>1. op[w].held \in FirstOctet .. MaxOctet + 1
      BY DEF TypeOK, Call
    <3> QED
      BY <2>0, <2>16, <3>1 DEF SaveProtocol, ProtocolSilent, Fault, TypeOK
  <2>11. CASE AddByHand
    BY <2>11 DEF AddByHand, TypeOK
  <2>12. CASE RemovePeer
    BY <2>12 DEF RemovePeer, TypeOK, Stored
  <2>13. CASE Restart
    BY <2>0, <2>13 DEF Restart, Fault, TypeOK
  <2>14. CASE UNCHANGED vars
    BY <2>14 DEF vars, TypeOK
  <2> QED
    <3>1. ASSUME NEW w \in Workers, Allocate(w) \/ AllocateReserve(w) PROVE TypeOK'
      BY <2>1, <3>1 DEF Allocate, AllocateReserve, TypeOK
    <3> QED
      BY <3>1, <2>2, <2>3, <2>4, <2>5, <2>6, <2>7, <2>8, <2>9, <2>10, <2>11, <2>12, <2>13, <2>14, <2>15, <2>16
      DEF Next
<1> QED
  BY <1>1, <1>2, PTL DEF Spec

-----------------------------------------------------------------------------
(* Addresses of the panel.                                                 *)

\* Address o is attached to key k somewhere: in its row, in the file, or in the
\* memory of a call that will still store it.
Carries(k, o) == o # 0 /\ (rowOctet[k] = o \/ confOctet[k] = o \/ \E w \in Workers : op[w].scan[k] = o)

\* A key that was never made has no address yet.
UnusedCarryNothing == \A k \in Keys, o \in 0 .. MaxOctet : Carries(k, o) => origin[k] # "unused"

\* The counter is ahead of every address the panel gave out.
PanelBehindCounter ==
    \A k \in Keys, o \in 0 .. MaxOctet : Carries(k, o) /\ origin[k] = "panel" => o < nextHostOctet

\* CreatedAddressesUnique, for every place an address can come back from.
PanelCarriesApart ==
    \A k, other \in Keys, o \in 0 .. MaxOctet :
        /\ Carries(k, o) /\ origin[k] = "panel"
        /\ Carries(other, o) /\ origin[other] = "panel"
        => k = other

\* No call is about to write back a counter it loaded earlier.
NoRowHeld == \A w \in Workers : op[w].keeps = "nothing" /\ op[w].stage # "holding"

AddressInv == UnusedCarryNothing /\ PanelBehindCounter /\ PanelCarriesApart

(***************************************************************************)
(* Where ServersService saves no protocol row, no call ever holds one.     *)
(***************************************************************************)
LEMMA RowsAreNotHeld ==
    ASSUME RowWriters = {}
    PROVE  Spec => []NoRowHeld
<1> USE ConstantsAssumption
<1>1. Init => NoRowHeld
  BY DEF Init, NoRowHeld, Idle, CallAt
<1>2. TypeOK /\ NoRowHeld /\ [Next]_vars => NoRowHeld'
  <2> SUFFICES ASSUME TypeOK, NoRowHeld, [Next]_vars PROVE NoRowHeld'
    OBVIOUS
  <2> USE DEF NoRowHeld, TypeOK, Call
  <2>0. Idle.stage = "idle" /\ Idle.keeps = "nothing"
    BY DEF Idle, CallAt
  <2>1. ASSUME NEW w \in Workers, Allocate(w) PROVE NoRowHeld'
    <3>1. PICK k \in Keys : op' = [op EXCEPT ![w] = CallAt("allocated", [NoScan EXCEPT ![k] = nextHostOctet], {k}, "nothing", FirstOctet)]
      BY <2>1 DEF Allocate, Draw, Start
    <3> QED
      BY <3>1 DEF CallAt
  <2>2. ASSUME NEW w \in Workers, Scan(w) PROVE NoRowHeld'
    BY <2>2 DEF Scan, Start, CallAt
  <2>3. ASSUME NEW w \in Workers, InsertCreated(w) \/ SyncCreated(w) \/ SyncRefused(w) PROVE NoRowHeld'
    <3>1. CASE InsertCreated(w)
      BY <3>1 DEF InsertCreated
    <3>2. CASE SyncCreated(w)
      BY <2>0, <3>2 DEF SyncCreated
    <3>3. CASE SyncRefused(w)
      BY <2>0, <3>3 DEF SyncRefused
    <3> QED
      BY <2>3, <3>1, <3>2, <3>3
  <2>4. ASSUME NEW w \in Workers, ReadExisting(w) PROVE NoRowHeld'
    BY ZenonT(40), <2>4 DEF ReadExisting
  <2>5. ASSUME NEW w \in Workers, ImportOne(w) PROVE NoRowHeld'
    BY <2>5 DEF ImportOne
  <2>6. ASSUME NEW w \in Workers, ImportBreaks(w) \/ ImportDone(w) \/ ReadMax(w) \/ Bump(w) PROVE NoRowHeld'
    BY <2>0, <2>6 DEF ImportBreaks, ImportDone, ReadMax, Bump
  <2>7. CASE AddByHand \/ RemovePeer \/ Restart \/ UNCHANGED vars
    BY <2>0, <2>7 DEF AddByHand, RemovePeer, Restart, vars
  <2>8. \A w \in Workers : ~AllocateReserve(w) /\ ~LoadProtocol(w) /\ ~SaveProtocol(w) /\ ~ProtocolSilent(w)
    BY DEF AllocateReserve, LoadProtocol, SaveProtocol, ProtocolSilent
  <2> QED
    BY <2>1, <2>2, <2>3, <2>4, <2>5, <2>6, <2>7, <2>8 DEF Next
<1> QED
  BY <1>1, <1>2, TypeCorrect, PTL DEF Spec

(***************************************************************************)
(* A step that attaches no new address to a key, makes no key and does not *)
(* turn the counter back keeps the invariant.                              *)
(***************************************************************************)
LEMMA NothingNew ==
    ASSUME TypeOK, TypeOK', AddressInv, UNCHANGED origin, nextHostOctet' >= nextHostOctet,
           \A k \in Keys, o \in 0 .. MaxOctet : Carries(k, o)' => Carries(k, o)
    PROVE  AddressInv'
<1> USE ConstantsAssumption
<1>1. UnusedCarryNothing'
  BY DEF AddressInv, UnusedCarryNothing
<1>2. PanelBehindCounter'
  BY DEF AddressInv, PanelBehindCounter, TypeOK
<1>3. PanelCarriesApart'
  BY DEF AddressInv, PanelCarriesApart
<1> QED
  BY <1>1, <1>2, <1>3 DEF AddressInv

(***************************************************************************)
(* Every step keeps the invariant.                                         *)
(***************************************************************************)
LEMMA AddressStep ==
    ASSUME RowWriters = {}
    PROVE  TypeOK /\ TypeOK' /\ NoRowHeld /\ AddressInv /\ [Next]_vars => AddressInv'
<1> USE ConstantsAssumption
<1> SUFFICES ASSUME TypeOK, TypeOK', NoRowHeld, AddressInv, [Next]_vars PROVE AddressInv'
  OBVIOUS
<1>0. \A w \in Workers : ~AllocateReserve(w) /\ ~LoadProtocol(w) /\ ~SaveProtocol(w) /\ ~ProtocolSilent(w)
  BY DEF NoRowHeld, AllocateReserve, LoadProtocol, SaveProtocol, ProtocolSilent
<1>1. ASSUME NEW w \in Workers, Allocate(w) PROVE AddressInv'
  <2>1. PICK k \in Keys :
          /\ origin[k] = "unused"
          /\ nextHostOctet <= MaxOctet
          /\ nextHostOctet' = nextHostOctet + 1
          /\ origin' = [origin EXCEPT ![k] = "panel"]
          /\ Start(w, CallAt("allocated", [NoScan EXCEPT ![k] = nextHostOctet], {k}, "nothing", FirstOctet))
          /\ UNCHANGED <<rowOctet, twice, confOctet, faults>>
    BY <1>1 DEF Allocate, Draw
  <2>2. /\ op[w].stage = "idle"
        /\ op'[w].scan = [NoScan EXCEPT ![k] = nextHostOctet]
        /\ \A v \in Workers \ {w} : op'[v] = op[v]
    BY <2>1 DEF Start, CallAt, TypeOK
  <2>3. \A o \in 0 .. MaxOctet, other \in Keys \ {k} : Carries(other, o)' => Carries(other, o)
    BY <2>1, <2>2 DEF Carries, NoScan, TypeOK
  <2>4. \A o \in 0 .. MaxOctet : ~Carries(k, o)
    BY <2>1 DEF AddressInv, UnusedCarryNothing
  <2>5. \A o \in 0 .. MaxOctet : Carries(k, o)' => o = nextHostOctet
    BY <2>1, <2>2, <2>4 DEF Carries, NoScan, TypeOK
  <2>6. UnusedCarryNothing'
    BY <2>1, <2>3 DEF AddressInv, UnusedCarryNothing, TypeOK
  <2>7. PanelBehindCounter'
    BY <2>1, <2>3, <2>5 DEF AddressInv, PanelBehindCounter, TypeOK
  <2>8. PanelCarriesApart'
    <3> SUFFICES ASSUME NEW a \in Keys, NEW b \in Keys, NEW o \in 0 .. MaxOctet,
                        Carries(a, o)', origin'[a] = "panel", Carries(b, o)', origin'[b] = "panel"
                 PROVE  a = b
      BY DEF PanelCarriesApart
    <3>1. \A other \in Keys \ {k} : Carries(other, o)' /\ origin'[other] = "panel" => o < nextHostOctet
      BY <2>1, <2>3 DEF AddressInv, PanelBehindCounter, TypeOK
    <3>2. CASE a # k /\ b # k
      BY <2>1, <2>3, <3>2 DEF AddressInv, PanelCarriesApart, TypeOK
    <3>3. CASE a = k \/ b = k
      BY <2>5, <3>1, <3>3 DEF TypeOK
    <3> QED
      BY <3>2, <3>3
  <2> QED
    BY <2>6, <2>7, <2>8 DEF AddressInv
<1>2. CASE AddByHand
  <2>1. PICK k \in Keys \ (Listed \cup Stored), new \in Octets :
          /\ origin[k] # "panel"
          /\ origin' = [origin EXCEPT ![k] = "hand"]
          /\ confOctet' = [confOctet EXCEPT ![k] = new]
          /\ UNCHANGED <<rowOctet, twice, nextHostOctet, op, faults>>
    BY <1>2 DEF AddByHand
  <2>2. \A o \in 0 .. MaxOctet, other \in Keys \ {k} : Carries(other, o)' => Carries(other, o)
    BY <2>1 DEF Carries, TypeOK
  <2>3. \A other \in Keys : other # k => origin'[other] = origin[other]
    BY <2>1 DEF TypeOK
  <2>4. origin'[k] = "hand"
    BY <2>1 DEF TypeOK
  <2> QED
    BY <2>1, <2>2, <2>3, <2>4 DEF AddressInv, UnusedCarryNothing, PanelBehindCounter, PanelCarriesApart
<1>3. ASSUME NEW w \in Workers, InsertCreated(w) \/ SyncCreated(w) \/ SyncRefused(w) PROVE AddressInv'
  <2>1. \A k \in Keys, o \in 0 .. MaxOctet : Carries(k, o)' => Carries(k, o)
    <3>1. CASE InsertCreated(w)
      BY <3>1 DEF InsertCreated, Carries, TypeOK, Call
    <3>2. CASE SyncCreated(w)
      BY <3>2 DEF SyncCreated, Carries, Idle, CallAt, NoScan, NoRowHeld, TypeOK, Call
    <3>3. CASE SyncRefused(w)
      BY <3>3 DEF SyncRefused, Carries, Idle, CallAt, NoScan, TypeOK, Call
    <3> QED
      BY <1>3, <3>1, <3>2, <3>3
  <2> QED
    BY <1>3, <2>1, NothingNew DEF InsertCreated, SyncCreated, SyncRefused, TypeOK
<1>4. ASSUME NEW w \in Workers, Scan(w) \/ ReadExisting(w) \/ ImportOne(w) PROVE AddressInv'
  <2>1. \A k \in Keys, o \in 0 .. MaxOctet : Carries(k, o)' => Carries(k, o)
    <3>1. CASE Scan(w)
      <4>1. op' = [op EXCEPT ![w] = CallAt("scanned", confOctet, {}, "nothing", FirstOctet)]
        BY <3>1 DEF Scan, Start
      <4>2. op'[w].scan = confOctet /\ \A v \in Workers \ {w} : op'[v] = op[v]
        BY <4>1 DEF CallAt, TypeOK
      <4> QED
        BY <3>1, <4>2 DEF Scan, Carries
    <3>2. CASE ReadExisting(w)
      <4> DEFINE new == {k \in Keys : op[w].scan[k] # 0} \ Stored
      <4>1. /\ op'[w].scan = [k \in Keys |-> IF k \in new THEN op[w].scan[k] ELSE 0]
            /\ \A v \in Workers \ {w} : op'[v] = op[v]
        BY <3>2 DEF ReadExisting, TypeOK, Call
      <4>2. UNCHANGED <<rowOctet, confOctet>>
        BY <3>2 DEF ReadExisting
      <4> HIDE DEF new
      <4> QED
        BY <4>1, <4>2 DEF Carries
    <3>3. CASE ImportOne(w)
      <4>1. PICK k \in op[w].todo :
              /\ rowOctet' = [rowOctet EXCEPT ![k] = op[w].scan[k]]
              /\ op' = [op EXCEPT ![w] = [op[w] EXCEPT !.todo = @ \ {k}, !.scan[k] = 0, !.imported = TRUE]]
        BY <3>3 DEF ImportOne
      <4>2. /\ op'[w].scan = [op[w].scan EXCEPT ![k] = 0]
            /\ \A v \in Workers \ {w} : op'[v] = op[v]
        BY <4>1 DEF TypeOK, Call
      <4> QED
        BY <3>3, <4>1, <4>2 DEF ImportOne, Carries, TypeOK, Call
    <3> QED
      BY <1>4, <3>1, <3>2, <3>3
  <2>2. UNCHANGED <<origin, nextHostOctet>>
    BY <1>4 DEF Scan, ReadExisting, ImportOne
  <2>3. nextHostOctet' >= nextHostOctet
    BY <2>2 DEF TypeOK
  <2> QED
    BY <2>1, <2>2, <2>3, NothingNew
<1>5. ASSUME NEW w \in Workers, ImportBreaks(w) \/ ImportDone(w) \/ ReadMax(w) \/ Bump(w) PROVE AddressInv'
  <2>1. UNCHANGED <<rowOctet, confOctet, origin>> /\ nextHostOctet' >= nextHostOctet
    BY <1>5 DEF ImportBreaks, ImportDone, ReadMax, Bump, TypeOK, Call
  <2>2. \A v \in Workers : op'[v].scan = op[v].scan \/ op'[v].scan = NoScan
    <3>0. Idle.scan = NoScan
      BY DEF Idle, CallAt
    <3>1. CASE ImportBreaks(w) \/ Bump(w)
      BY <3>0, <3>1 DEF ImportBreaks, Bump, TypeOK
    <3>2. CASE ImportDone(w)
      BY <3>0, <3>2 DEF ImportDone, TypeOK, Call
    <3>3. CASE ReadMax(w)
      BY <3>3 DEF ReadMax, TypeOK, Call
    <3> QED
      BY <1>5, <3>1, <3>2, <3>3
  <2>3. \A k \in Keys, o \in 0 .. MaxOctet : Carries(k, o)' => Carries(k, o)
    BY <2>1, <2>2 DEF Carries, NoScan
  <2> QED
    BY <2>1, <2>3, NothingNew
<1>6. CASE RemovePeer
  <2>1. \A k \in Keys, o \in 0 .. MaxOctet : Carries(k, o)' => Carries(k, o)
    BY <1>6 DEF RemovePeer, Carries, TypeOK, Stored
  <2> QED
    BY <1>6, <2>1, NothingNew DEF RemovePeer, TypeOK
<1>7. CASE Restart
  <2>1. \A k \in Keys, o \in 0 .. MaxOctet : Carries(k, o)' => Carries(k, o)
    BY <1>7 DEF Restart, Carries, Idle, CallAt, NoScan
  <2> QED
    BY <1>7, <2>1, NothingNew DEF Restart, TypeOK
<1>8. CASE UNCHANGED vars
  BY <1>8 DEF vars, AddressInv, UnusedCarryNothing, PanelBehindCounter, PanelCarriesApart, Carries
<1> QED
  BY <1>0, <1>1, <1>2, <1>3, <1>4, <1>5, <1>6, <1>7, <1>8 DEF Next

(***************************************************************************)
(* Two keys made by the panel never share an address, however creations,   *)
(* imports, hand edits, failures and restarts interleave, as long as       *)
(* ServersService writes no protocol row back.                             *)
(***************************************************************************)
THEOREM CreatedAddressesStayUnique ==
    ASSUME RowWriters = {}
    PROVE  Spec => []CreatedAddressesUnique
<1> USE ConstantsAssumption
<1>1. Init => AddressInv
  BY DEF Init, AddressInv, UnusedCarryNothing, PanelBehindCounter, PanelCarriesApart, Carries, NoScan, Idle, CallAt
<1>2. TypeOK /\ AddressInv => CreatedAddressesUnique
  BY DEF AddressInv, PanelCarriesApart, Carries, CreatedAddressesUnique, SharesAddress, TypeOK
<1> QED
  BY <1>1, <1>2, AddressStep, RowsAreNotHeld, TypeCorrect, PTL DEF Spec

(***************************************************************************)
(* No step turns the counter back: the import compares under the lock      *)
(* before it overwrites what creations have drawn since it read the rows.  *)
(* Again ServersService must not write a row back.                         *)
(***************************************************************************)
THEOREM CounterGrows ==
    ASSUME RowWriters = {}
    PROVE  Spec => CounterNeverFallsBack
<1> USE ConstantsAssumption
<1>1. TypeOK /\ NoRowHeld /\ [Next]_vars => [nextHostOctet' >= nextHostOctet]_vars
  <2> SUFFICES ASSUME TypeOK, NoRowHeld, [Next]_vars PROVE nextHostOctet' >= nextHostOctet
    OBVIOUS
  <2>1. ASSUME NEW w \in Workers, Allocate(w) PROVE nextHostOctet' >= nextHostOctet
    BY <2>1 DEF Allocate, Draw, TypeOK
  <2>2. ASSUME NEW w \in Workers, Bump(w) PROVE nextHostOctet' >= nextHostOctet
    BY <2>2 DEF Bump, TypeOK, Call
  <2>3. \/ nextHostOctet' = nextHostOctet
        \/ \E w \in Workers : Allocate(w) \/ Bump(w)
    BY DEF Next, vars, AddByHand, InsertCreated, SyncCreated, SyncRefused, RemovePeer,
           Scan, ReadExisting, ImportOne, ImportBreaks, ImportDone, ReadMax, Restart,
           NoRowHeld, AllocateReserve, LoadProtocol, SaveProtocol, ProtocolSilent
  <2> QED
    BY <2>1, <2>2, <2>3 DEF TypeOK
<1> QED
  BY <1>1, RowsAreNotHeld, TypeCorrect, PTL DEF Spec, CounterNeverFallsBack

-----------------------------------------------------------------------------
(* One call at a time.                                                     *)

OneCall == \A v, w \in Workers : v = w \/ op[v].stage = "idle" \/ op[w].stage = "idle"

\* What an import is about to insert has no row.
ImportsAreNew == \A w \in Workers : op[w].stage = "importing" => op[w].todo \cap Stored = {}

SerialInv == OneCall /\ twice = {} /\ ImportsAreNew

RowsApart == \A k, other \in Keys : ~SharesAddress(k, other)

\* The file disagrees with the rows while a new peer is not in it yet: it may
\* have come by hand to the address that the counter gave.
Creating == \E w \in Workers : op[w].stage \in {"allocated", "inserted"}

FileApart ==
    \A k, other \in Keys :
        k # other /\ confOctet[k] # 0 => confOctet[k] \notin {confOctet[other], rowOctet[other]}

\* The counter is behind what an import inserted until it is bumped.
Importing ==
    \E w \in Workers : op[w].stage \in {"measuring", "bumping"} \/ (op[w].stage = "importing" /\ op[w].imported)

RowsBehindCounter == \A k \in Keys : rowOctet[k] < nextHostOctet

StageFits(w) ==
    /\ op[w].stage \in {"allocated", "inserted"} => op[w].keeps = "nothing"
    /\ op[w].stage = "allocated" => \E k \in Keys :
        /\ op[w].todo = {k}
        /\ op[w].scan[k] < nextHostOctet /\ \A other \in Keys : rowOctet[other] < op[w].scan[k]
    /\ op[w].stage = "scanned" => op[w].scan = confOctet
    /\ op[w].stage = "importing" => \A k \in op[w].todo : op[w].scan[k] = confOctet[k]
    /\ op[w].stage = "bumping" => \A k \in Keys : rowOctet[k] <= op[w].max
    /\ op[w].stage = "holding" => op[w].held = nextHostOctet

PlainInv ==
    /\ RowsApart
    /\ ~Creating => FileApart
    /\ ~Importing => RowsBehindCounter
    /\ \A w \in Workers : StageFits(w)

Plain == faults = 0 /\ ~reserved

LEMMA ImportOneDoes ==
    ASSUME TypeOK, NEW w \in Workers, ImportOne(w)
    PROVE  \E k \in op[w].todo :
            /\ k \in Keys
            /\ rowOctet' = [rowOctet EXCEPT ![k] = op[w].scan[k]]
            /\ \A v \in Workers \ {w} : op'[v] = op[v]
            /\ op'[w].stage = "importing" /\ op'[w].imported /\ op'[w].todo = op[w].todo \ {k}
            /\ op'[w].scan = [op[w].scan EXCEPT ![k] = 0]
<1>1. PICK k \in op[w].todo :
        /\ rowOctet' = [rowOctet EXCEPT ![k] = op[w].scan[k]]
        /\ op' = [op EXCEPT ![w] = [op[w] EXCEPT !.todo = @ \ {k}, !.scan[k] = 0, !.imported = TRUE]]
  BY DEF ImportOne
<1> DEFINE call == [op[w] EXCEPT !.todo = @ \ {k}, !.scan[k] = 0, !.imported = TRUE]
<1>2. op[w] \in Call /\ op[w].stage = "importing"
  BY DEF TypeOK, ImportOne
<1>3. /\ call.stage = "importing" /\ call.imported /\ call.todo = op[w].todo \ {k}
      /\ call.scan = [op[w].scan EXCEPT ![k] = 0]
  BY <1>2 DEF Call
<1>4. op' = [op EXCEPT ![w] = call]
  BY <1>1
<1> HIDE DEF call
<1>5. op'[w] = call /\ \A v \in Workers \ {w} : op'[v] = op[v]
  BY <1>4 DEF TypeOK
<1>6. k \in Keys
  BY <1>2 DEF Call
<1> QED
  BY <1>1, <1>3, <1>5, <1>6

\* A step is taken by one call, which works alone or is the first to start.
LEMMA OneMoves ==
    ASSUME Serial, TypeOK, OneCall, [Next]_vars
    PROVE  \/ op' = op
           \/ \A w \in Workers : op'[w].stage = "idle"
           \/ \E w \in Workers : \A v \in Workers \ {w} : op'[v] = op[v] /\ op[v].stage = "idle"
<1>1. ASSUME NEW w \in Workers, NEW call, Start(w, call)
      PROVE  \A v \in Workers \ {w} : op'[v] = op[v] /\ op[v].stage = "idle"
  BY <1>1 DEF Start, InFlight, TypeOK
<1>2. ASSUME NEW w \in Workers,
             \/ Allocate(w) \/ AllocateReserve(w) \/ Scan(w) \/ LoadProtocol(w)
      PROVE  \A v \in Workers \ {w} : op'[v] = op[v] /\ op[v].stage = "idle"
  BY <1>1, <1>2 DEF Allocate, AllocateReserve, Draw, Scan, LoadProtocol
<1>3. ASSUME NEW w \in Workers,
             \/ InsertCreated(w) \/ SyncCreated(w) \/ SyncRefused(w)
             \/ ReadExisting(w) \/ ImportOne(w) \/ ImportBreaks(w) \/ ImportDone(w)
             \/ ReadMax(w) \/ Bump(w) \/ SaveProtocol(w) \/ ProtocolSilent(w)
      PROVE  \A v \in Workers \ {w} : op'[v] = op[v] /\ op[v].stage = "idle"
  <2>1. op[w].stage # "idle"
    BY <1>3 DEF InsertCreated, SyncCreated, SyncRefused, ReadExisting, ImportOne, ImportBreaks, ImportDone,
                ReadMax, Bump, SaveProtocol, ProtocolSilent
  <2>2. \A v \in Workers \ {w} : op'[v] = op[v]
    BY <1>3 DEF InsertCreated, SyncCreated, SyncRefused, ReadExisting, ImportOne, ImportBreaks, ImportDone,
                ReadMax, Bump, SaveProtocol, ProtocolSilent, TypeOK
  <2> QED
    BY <2>1, <2>2 DEF OneCall
<1>4. CASE AddByHand \/ RemovePeer \/ UNCHANGED vars
  BY <1>4 DEF AddByHand, RemovePeer, vars
<1>5. CASE Restart
  BY <1>5 DEF Restart, Idle, CallAt
<1> QED
  BY <1>2, <1>3, <1>4, <1>5 DEF Next

LEMMA SerialAddresses ==
    ASSUME Serial
    PROVE  TypeOK /\ SerialInv /\ [Next]_vars => SerialInv'
<1> SUFFICES ASSUME TypeOK, SerialInv, [Next]_vars PROVE SerialInv'
  OBVIOUS
<1>0. Idle.stage = "idle"
  BY DEF Idle, CallAt
<1>1. OneCall'
  BY OneMoves DEF SerialInv, OneCall
<1>2. twice' = {}
  <2>1. ASSUME NEW w \in Workers, ImportOne(w) PROVE twice' = {}
    BY <2>1 DEF ImportOne, SerialInv, ImportsAreNew
  <2>2. CASE RemovePeer
    BY <2>2 DEF RemovePeer, SerialInv
  <2>3. ASSUME ~RemovePeer, \A w \in Workers : ~ImportOne(w) PROVE twice' = twice
    BY <2>3 DEF Next, vars, Allocate, AllocateReserve, Draw, InsertCreated, SyncCreated, SyncRefused, Scan,
                ReadExisting, ImportBreaks, ImportDone, ReadMax, Bump, LoadProtocol, SaveProtocol,
                ProtocolSilent, AddByHand, Restart
  <2> QED
    BY <2>1, <2>2, <2>3 DEF SerialInv
<1>3. ImportsAreNew'
  <2> SUFFICES ASSUME NEW w \in Workers, op'[w].stage = "importing" PROVE op'[w].todo \cap Stored' = {}
    BY DEF ImportsAreNew
  <2>1. CASE ReadExisting(w)
    <3> DEFINE new == {k \in Keys : op[w].scan[k] # 0} \ Stored
    <3>1. op'[w].todo = new
      BY ZenonT(40), <2>1 DEF ReadExisting, TypeOK, Call
    <3>2. Stored' = Stored
      BY <2>1 DEF ReadExisting, Stored
    <3> QED
      BY <3>1, <3>2
  <2>2. CASE ImportOne(w)
    <3>1. PICK k \in op[w].todo :
            rowOctet' = [rowOctet EXCEPT ![k] = op[w].scan[k]] /\ op'[w].todo = op[w].todo \ {k}
      BY <2>2, ImportOneDoes
    <3>2. op'[w].todo = op[w].todo \ {k} /\ op[w].stage = "importing"
      BY <2>2, <3>1 DEF ImportOne
    <3>3. Stored' \subseteq Stored \cup {k}
      BY <3>1 DEF Stored, TypeOK
    <3> QED
      BY <3>2, <3>3 DEF SerialInv, ImportsAreNew
  <2>3. CASE ~ReadExisting(w) /\ ~ImportOne(w)
    <3>1. CASE UNCHANGED vars
      BY <3>1 DEF vars, SerialInv, ImportsAreNew, Stored
    <3>2. CASE AddByHand \/ RemovePeer
      <4>1. op' = op /\ InFlight = {}
        BY <3>2 DEF AddByHand, RemovePeer
      <4> QED
        BY <4>1 DEF InFlight
    <3>3. CASE Restart
      BY <3>3, <1>0 DEF Restart
    <3>4. ASSUME NEW v \in Workers,
                 \/ Allocate(v) \/ AllocateReserve(v) \/ Scan(v) \/ LoadProtocol(v)
          PROVE  FALSE
      <4>1. op'[w].stage \in {"allocated", "scanned", "holding"} \/ op[w].stage = op'[w].stage
        BY <3>4 DEF Allocate, AllocateReserve, Draw, Scan, LoadProtocol, Start, CallAt, TypeOK
      <4>2. InFlight = {}
        BY <3>4 DEF Allocate, AllocateReserve, Draw, Scan, LoadProtocol, Start
      <4> QED
        BY <4>1, <4>2 DEF InFlight
    <3>5. ASSUME NEW v \in Workers,
                 \/ InsertCreated(v) \/ SyncCreated(v) \/ SyncRefused(v)
                 \/ ReadExisting(v) \/ ImportOne(v) \/ ImportBreaks(v) \/ ImportDone(v)
                 \/ ReadMax(v) \/ Bump(v) \/ SaveProtocol(v) \/ ProtocolSilent(v)
          PROVE  FALSE
      <4>1. CASE v = w
        BY <1>0, <3>5, <4>1, <2>3
           DEF InsertCreated, SyncCreated, SyncRefused, ImportBreaks, ImportDone, ReadMax, Bump, SaveProtocol,
               ProtocolSilent, TypeOK, Call
      <4>2. CASE v # w
        <5>1. op[v].stage # "idle" /\ op'[w] = op[w]
          BY <3>5, <4>2 DEF InsertCreated, SyncCreated, SyncRefused, ReadExisting, ImportOne, ImportBreaks,
               ImportDone, ReadMax, Bump, SaveProtocol, ProtocolSilent, TypeOK
        <5> QED
          BY <5>1, <4>2 DEF SerialInv, OneCall
      <4> QED
        BY <4>1, <4>2
    <3> QED
      BY <3>1, <3>2, <3>3, <3>4, <3>5 DEF Next
  <2> QED
    BY <2>1, <2>2, <2>3
<1> QED
  BY <1>1, <1>2, <1>3 DEF SerialInv

LEMMA SerialAddressInvariant ==
    ASSUME Serial
    PROVE  Spec => []SerialInv
<1>1. Init => SerialInv
  BY DEF Init, SerialInv, OneCall, ImportsAreNew, Idle, CallAt
<1> QED
  BY <1>1, SerialAddresses, TypeCorrect, PTL DEF Spec

(***************************************************************************)
(* With one call at a time, and whatever breaks off or restarts, an import *)
(* that is repeated stores no key twice (importScannedPeers in             *)
(* peers.service.ts reads which keys have a row before it inserts).        *)
(***************************************************************************)
THEOREM ImportsCanBeRepeated ==
    ASSUME Serial
    PROVE  Spec => []ImportRepeatable
<1>1. SerialInv => ImportRepeatable
  BY DEF SerialInv, ImportRepeatable
<1> QED
  BY <1>1, SerialAddressInvariant, PTL

-----------------------------------------------------------------------------
(* One call at a time, as long as nothing failed and no reserve was made.  *)

\* The step of one call, in terms of what the invariant says of it.
LEMMA PlainStepOf ==
    ASSUME PlainInv, NEW w \in Workers,
           \A v \in Workers \ {w} : op'[v] = op[v] /\ op[v].stage = "idle",
           RowsApart', StageFits(w)',
           op'[w].stage \notin {"allocated", "inserted"} => FileApart',
           op'[w].stage \notin {"measuring", "bumping"} /\ ~(op'[w].stage = "importing" /\ op'[w].imported)
               => RowsBehindCounter'
    PROVE  PlainInv'
<1>1. \A v \in Workers : StageFits(v)'
  BY DEF StageFits
<1> QED
  BY <1>1 DEF PlainInv, Creating, Importing

LEMMA PlainCreates ==
    ASSUME Serial, TypeOK, SerialInv, PlainInv, Plain', NEW w \in Workers, Allocate(w)
    PROVE  PlainInv'
<1> USE ConstantsAssumption
<1>1. PICK k \in Keys :
        /\ nextHostOctet' = nextHostOctet + 1
        /\ Start(w, CallAt("allocated", [NoScan EXCEPT ![k] = nextHostOctet], {k}, "nothing", FirstOctet))
        /\ UNCHANGED <<rowOctet, twice, confOctet, faults>>
  BY DEF Allocate, Draw
<1>2. /\ op'[w].stage = "allocated" /\ op'[w].keeps = "nothing" /\ op'[w].todo = {k}
      /\ op'[w].scan = [NoScan EXCEPT ![k] = nextHostOctet]
  BY <1>1 DEF Start, CallAt, TypeOK
<1>3. (\A v \in Workers \ {w} : op'[v] = op[v] /\ op[v].stage = "idle") /\ InFlight = {}
  BY <1>1 DEF Start, InFlight, TypeOK
<1>4. RowsBehindCounter
  BY <1>3 DEF PlainInv, Importing, InFlight
<1>5. op'[w].scan[k] = nextHostOctet
  BY <1>2 DEF NoScan
<1>6. StageFits(w)'
  BY <1>1, <1>2, <1>4, <1>5 DEF StageFits, RowsBehindCounter, TypeOK
<1>7. RowsApart' /\ RowsBehindCounter'
  BY <1>1, <1>4 DEF PlainInv, RowsApart, SharesAddress, RowsBehindCounter, TypeOK
<1> QED
  BY <1>2, <1>3, <1>6, <1>7, PlainStepOf

LEMMA PlainInserts ==
    ASSUME Serial, TypeOK, SerialInv, PlainInv, NEW w \in Workers, InsertCreated(w) \/ SyncCreated(w)
    PROVE  PlainInv'
<1> USE ConstantsAssumption
<1>0. op[w].stage \in {"allocated", "inserted"} /\ op[w].keeps = "nothing" /\ StageFits(w)
  BY DEF InsertCreated, SyncCreated, PlainInv, StageFits
<1>1. \A v \in Workers \ {w} : op'[v] = op[v] /\ op[v].stage = "idle"
  BY <1>0 DEF InsertCreated, SyncCreated, SerialInv, OneCall, TypeOK
<1>2. RowsBehindCounter
  <2>1. ~Importing
    BY <1>0, <1>1 DEF Importing
  <2> QED
    BY <2>1 DEF PlainInv
<1>3. CASE InsertCreated(w)
  <2>1. PICK k \in Keys :
          /\ op[w].todo = {k}
          /\ op[w].scan[k] < nextHostOctet /\ \A other \in Keys : rowOctet[other] < op[w].scan[k]
    BY <1>0, <1>3 DEF InsertCreated, StageFits
  <2>2. rowOctet' = [j \in Keys |-> IF j = k THEN op[w].scan[k] ELSE rowOctet[j]]
    BY <1>3, <2>1 DEF InsertCreated
  <2>3. op'[w].stage = "inserted" /\ op'[w].keeps = "nothing" /\ UNCHANGED nextHostOctet
    BY <1>0, <1>3 DEF InsertCreated, TypeOK, Call
  <2>4. RowsApart'
    BY <2>1, <2>2 DEF PlainInv, RowsApart, SharesAddress, TypeOK
  <2>5. RowsBehindCounter'
    BY <2>1, <2>2, <2>3, <1>2 DEF RowsBehindCounter
  <2>6. StageFits(w)'
    BY <2>3 DEF StageFits
  <2> QED
    BY <1>1, <2>3, <2>4, <2>5, <2>6, PlainStepOf
<1>4. CASE SyncCreated(w)
  <2>1. op'[w] = Idle /\ confOctet' = rowOctet /\ UNCHANGED <<rowOctet, nextHostOctet>>
    BY <1>0, <1>4 DEF SyncCreated, TypeOK
  <2>2. op'[w].stage = "idle"
    BY <2>1 DEF Idle, CallAt
  <2>3. RowsApart' /\ FileApart' /\ RowsBehindCounter'
    BY <2>1, <1>2 DEF PlainInv, RowsApart, FileApart, SharesAddress, RowsBehindCounter
  <2>4. StageFits(w)'
    BY <2>2 DEF StageFits
  <2> QED
    BY <1>1, <2>2, <2>3, <2>4, PlainStepOf
<1> QED
  BY <1>3, <1>4

LEMMA PlainReads ==
    ASSUME Serial, TypeOK, SerialInv, PlainInv, NEW w \in Workers,
           Scan(w) \/ ReadExisting(w) \/ ReadMax(w) \/ LoadProtocol(w)
    PROVE  PlainInv'
<1> USE ConstantsAssumption
<1>0. UNCHANGED <<rowOctet, confOctet, nextHostOctet>>
  BY DEF Scan, ReadExisting, ReadMax, LoadProtocol
<1>1. \A v \in Workers \ {w} : op'[v] = op[v] /\ op[v].stage = "idle"
  <2>1. CASE Scan(w) \/ LoadProtocol(w)
    BY <2>1 DEF Scan, LoadProtocol, Start, InFlight, TypeOK
  <2>2. CASE ReadExisting(w) \/ ReadMax(w)
    BY <2>2 DEF ReadExisting, ReadMax, SerialInv, OneCall, TypeOK
  <2> QED
    BY <2>1, <2>2
<1>2. FileApart /\ RowsApart
  <2>1. op[w].stage \in {"idle", "scanned", "measuring"}
    BY DEF Scan, ReadExisting, ReadMax, LoadProtocol, Start
  <2> QED
    BY <1>1, <2>1 DEF PlainInv, Creating
<1>3. FileApart' /\ RowsApart'
  BY <1>0, <1>2 DEF FileApart, RowsApart, SharesAddress
<1>4. RowsBehindCounter => RowsBehindCounter'
  BY <1>0 DEF RowsBehindCounter
<1>5. op[w].stage \in {"idle", "scanned"} => RowsBehindCounter
  BY <1>1 DEF PlainInv, Importing
<1>6. CASE Scan(w)
  <2>1. op'[w].stage = "scanned" /\ op'[w].scan = confOctet /\ op[w].stage = "idle"
    BY <1>6 DEF Scan, Start, CallAt, TypeOK
  <2>2. StageFits(w)'
    BY <1>0, <2>1 DEF StageFits
  <2> QED
    BY <1>1, <1>3, <1>4, <1>5, <2>1, <2>2, PlainStepOf
<1>7. CASE ReadExisting(w)
  <2> DEFINE new == {k \in Keys : op[w].scan[k] # 0} \ Stored
  <2>1. /\ op'[w].stage = "importing" /\ op'[w].todo = new
        /\ op'[w].scan = [k \in Keys |-> IF k \in new THEN op[w].scan[k] ELSE 0]
    BY <1>7 DEF ReadExisting, TypeOK, Call
  <2>2. op[w].stage = "scanned" /\ op[w].scan = confOctet
    BY <1>7 DEF ReadExisting, PlainInv, StageFits
  <2>3. StageFits(w)'
    BY <1>0, <2>1, <2>2 DEF StageFits
  <2> QED
    BY <1>1, <1>3, <1>4, <1>5, <2>1, <2>2, <2>3, PlainStepOf
<1>8. CASE ReadMax(w)
  <2>1. PICK m \in {rowOctet[k] : k \in Keys} \cup {1} :
          /\ \A k \in Keys : rowOctet[k] <= m
          /\ op' = [op EXCEPT ![w].stage = "bumping", ![w].max = m]
    BY <1>8 DEF ReadMax
  <2>2. op'[w].stage = "bumping" /\ op'[w].max = m
    BY <2>1 DEF TypeOK, Call
  <2>3. StageFits(w)'
    BY <1>0, <2>1, <2>2 DEF StageFits
  <2> QED
    BY <1>1, <1>3, <2>2, <2>3, PlainStepOf
<1>9. CASE LoadProtocol(w)
  <2>1. op'[w].stage = "holding" /\ op'[w].held = nextHostOctet /\ op[w].stage = "idle"
    BY <1>9 DEF LoadProtocol, Start, CallAt, TypeOK
  <2>2. StageFits(w)'
    BY <1>0, <2>1 DEF StageFits
  <2> QED
    BY <1>1, <1>3, <1>4, <1>5, <2>1, <2>2, PlainStepOf
<1> QED
  BY <1>6, <1>7, <1>8, <1>9

LEMMA PlainImports ==
    ASSUME Serial, TypeOK, SerialInv, PlainInv, NEW w \in Workers, ImportOne(w)
    PROVE  PlainInv'
<1>1. PICK k \in op[w].todo :
        /\ k \in Keys
        /\ rowOctet' = [rowOctet EXCEPT ![k] = op[w].scan[k]]
        /\ \A v \in Workers \ {w} : op'[v] = op[v]
        /\ op'[w].stage = "importing" /\ op'[w].imported /\ op'[w].todo = op[w].todo \ {k}
        /\ op'[w].scan = [op[w].scan EXCEPT ![k] = 0]
  BY ImportOneDoes
<1>2. op[w].stage = "importing" /\ UNCHANGED <<confOctet, nextHostOctet>>
  BY DEF ImportOne
<1>3. \A v \in Workers \ {w} : op'[v] = op[v] /\ op[v].stage = "idle"
  BY <1>1, <1>2 DEF SerialInv, OneCall
<1>4. FileApart /\ RowsApart
  BY <1>2, <1>3 DEF PlainInv, Creating
<1>5. \A j \in op[w].todo : op[w].scan[j] = confOctet[j]
  BY <1>2 DEF PlainInv, StageFits
<1>6. rowOctet'[k] = confOctet[k] /\ \A j \in Keys \ {k} : rowOctet'[j] = rowOctet[j]
  BY <1>1, <1>5 DEF TypeOK
<1>7. RowsApart'
  BY <1>1, <1>4, <1>6 DEF RowsApart, FileApart, SharesAddress, TypeOK
<1>8. FileApart'
  <2> SUFFICES ASSUME NEW a \in Keys, NEW b \in Keys, a # b, confOctet[a] # 0
               PROVE  confOctet[a] # confOctet[b] /\ confOctet[a] # rowOctet'[b]
    BY <1>2 DEF FileApart
  <2>1. confOctet[a] # confOctet[b] /\ confOctet[a] # rowOctet[b]
    BY <1>4 DEF FileApart
  <2> QED
    BY <1>6, <2>1
<1>9. op[w].todo \subseteq Keys /\ op[w].scan \in [Keys -> 0 .. MaxOctet]
  BY DEF TypeOK, Call
<1>10. \A j \in op[w].todo \ {k} : op'[w].scan[j] = confOctet'[j]
  BY <1>1, <1>2, <1>5, <1>9
<1>11. StageFits(w)'
  BY <1>1, <1>10 DEF StageFits
<1> QED
  BY <1>1, <1>3, <1>7, <1>8, <1>11, PlainStepOf

LEMMA PlainCounts ==
    ASSUME Serial, TypeOK, SerialInv, PlainInv, NEW w \in Workers,
           ImportDone(w) \/ Bump(w) \/ SaveProtocol(w)
    PROVE  PlainInv'
<1> USE ConstantsAssumption
<1>0. Idle.stage = "idle" /\ op[w] \in Call
  BY DEF Idle, CallAt, TypeOK
<1>1. op[w].stage \in {"importing", "bumping", "holding"} /\ UNCHANGED <<rowOctet, confOctet>>
  BY DEF ImportDone, Bump, SaveProtocol
<1>2. \A v \in Workers \ {w} : op'[v] = op[v] /\ op[v].stage = "idle"
  BY <1>1 DEF ImportDone, Bump, SaveProtocol, SerialInv, OneCall, TypeOK
<1>3. FileApart /\ RowsApart /\ StageFits(w)
  BY <1>1, <1>2 DEF PlainInv, Creating
<1>4. FileApart' /\ RowsApart'
  BY <1>1, <1>3 DEF FileApart, RowsApart, SharesAddress
<1>5. op'[w].stage \in {"idle", "measuring"}
  BY <1>0 DEF ImportDone, Bump, SaveProtocol, TypeOK, Call
<1>6. StageFits(w)'
  BY <1>5 DEF StageFits
<1>7. ASSUME op'[w].stage = "idle" PROVE RowsBehindCounter'
  <2>1. CASE Bump(w)
    BY <1>1, <1>3, <2>1 DEF Bump, StageFits, RowsBehindCounter, TypeOK, Call
  <2>2. CASE SaveProtocol(w)
    <3>1. op[w].stage = "holding" /\ nextHostOctet' = nextHostOctet
      BY <1>3, <2>2 DEF SaveProtocol, StageFits
    <3>2. RowsBehindCounter
      BY <3>1, <1>2 DEF PlainInv, Importing
    <3> QED
      BY <1>1, <3>1, <3>2 DEF RowsBehindCounter
  <2>3. CASE ImportDone(w)
    <3>1. ~op[w].imported /\ op[w].stage = "importing" /\ UNCHANGED nextHostOctet
      BY <1>0, <1>7, <2>3 DEF ImportDone, TypeOK, Call
    <3>2. RowsBehindCounter
      BY <3>1, <1>2 DEF PlainInv, Importing
    <3> QED
      BY <1>1, <3>1, <3>2 DEF RowsBehindCounter
  <2> QED
    BY <2>1, <2>2, <2>3
<1> QED
  BY <1>2, <1>4, <1>5, <1>6, <1>7, PlainStepOf

LEMMA PlainRests ==
    ASSUME Serial, TypeOK, SerialInv, PlainInv, AddByHand \/ RemovePeer
    PROVE  PlainInv'
<1> USE ConstantsAssumption
<1>1. op' = op /\ nextHostOctet' = nextHostOctet /\ \A w \in Workers : op[w].stage = "idle"
  BY DEF AddByHand, RemovePeer, InFlight
<1>2. RowsApart /\ FileApart /\ RowsBehindCounter
  BY <1>1 DEF PlainInv, Creating, Importing
<1>3. CASE AddByHand
  <2>1. PICK k \in Keys, o \in Octets :
          /\ \A other \in Keys : o \notin {rowOctet[other], confOctet[other]}
          /\ confOctet' = [confOctet EXCEPT ![k] = o] /\ rowOctet' = rowOctet
    BY <1>3 DEF AddByHand
  <2>2. confOctet'[k] = o /\ \A j \in Keys \ {k} : confOctet'[j] = confOctet[j]
    BY <2>1 DEF TypeOK
  <2>3. FileApart'
    BY <1>2, <2>1, <2>2 DEF FileApart
  <2>4. RowsApart' /\ RowsBehindCounter'
    BY <1>1, <1>2, <2>1 DEF RowsApart, SharesAddress, RowsBehindCounter
  <2> QED
    BY <1>1, <2>3, <2>4 DEF PlainInv, StageFits
<1>4. CASE RemovePeer
  <2>1. confOctet' = rowOctet' /\ \A k \in Keys : rowOctet'[k] \in {0, rowOctet[k]}
    BY <1>4 DEF RemovePeer, Stored, TypeOK
  <2>2. RowsApart'
    BY <1>2, <2>1 DEF RowsApart, SharesAddress
  <2>3. FileApart'
    BY <2>1, <2>2 DEF RowsApart, FileApart, SharesAddress
  <2>4. RowsBehindCounter'
    BY <1>1, <1>2, <2>1 DEF RowsBehindCounter, TypeOK
  <2> QED
    BY <1>1, <2>2, <2>3, <2>4 DEF PlainInv, StageFits
<1> QED
  BY <1>3, <1>4

\* A failure ends the plain part of a behaviour, and so does a reserve.
LEMMA PlainEnds ==
    ASSUME TypeOK, Plain', NEW w \in Workers
    PROVE  ~SyncRefused(w) /\ ~ImportBreaks(w) /\ ~ProtocolSilent(w) /\ ~Restart /\ ~AllocateReserve(w)
BY DEF TypeOK, Plain, SyncRefused, ImportBreaks, ProtocolSilent, Restart, AllocateReserve, Fault

LEMMA PlainBefore == TypeOK /\ [Next]_vars /\ Plain' => Plain
<1> SUFFICES ASSUME TypeOK, [Next]_vars, Plain' PROVE Plain
  OBVIOUS
<1>1. faults' = faults \/ (faults \in Nat /\ faults' = faults + 1)
  BY DEF TypeOK, Next, vars, Allocate, AllocateReserve, Draw, InsertCreated, SyncCreated, SyncRefused, Scan,
         ReadExisting, ImportOne, ImportBreaks, ImportDone, ReadMax, Bump, LoadProtocol, SaveProtocol,
         ProtocolSilent, AddByHand, RemovePeer, Restart, Fault
<1>2. reserved' = reserved \/ reserved' = TRUE
  BY DEF Next, vars, Allocate, AllocateReserve, Draw, InsertCreated, SyncCreated, SyncRefused, Scan,
         ReadExisting, ImportOne, ImportBreaks, ImportDone, ReadMax, Bump, LoadProtocol, SaveProtocol,
         ProtocolSilent, AddByHand, RemovePeer, Restart
<1> QED
  BY <1>1, <1>2 DEF Plain

LEMMA PlainAddresses ==
    ASSUME Serial
    PROVE  TypeOK /\ SerialInv /\ (Plain => PlainInv) /\ [Next]_vars => (Plain => PlainInv)'
<1> SUFFICES ASSUME TypeOK, SerialInv, Plain => PlainInv, [Next]_vars, Plain' PROVE PlainInv'
  OBVIOUS
<1>1. PlainInv
  BY PlainBefore
<1>2. CASE UNCHANGED vars
  BY <1>1, <1>2 DEF vars, PlainInv, RowsApart, SharesAddress, Creating, FileApart, Importing,
                   RowsBehindCounter, StageFits
<1>3. ASSUME NEW w \in Workers, Allocate(w) PROVE PlainInv'
  BY <1>1, <1>3, PlainCreates
<1>4. ASSUME NEW w \in Workers, InsertCreated(w) \/ SyncCreated(w) PROVE PlainInv'
  BY <1>1, <1>4, PlainInserts
<1>5. ASSUME NEW w \in Workers, Scan(w) \/ ReadExisting(w) \/ ReadMax(w) \/ LoadProtocol(w) PROVE PlainInv'
  BY <1>1, <1>5, PlainReads
<1>6. ASSUME NEW w \in Workers, ImportOne(w) PROVE PlainInv'
  BY <1>1, <1>6, PlainImports
<1>7. ASSUME NEW w \in Workers, ImportDone(w) \/ Bump(w) \/ SaveProtocol(w) PROVE PlainInv'
  BY <1>1, <1>7, PlainCounts
<1>8. CASE AddByHand \/ RemovePeer
  BY <1>1, <1>8, PlainRests
<1>9. CASE Restart
  BY <1>9 DEF Restart, Fault, Plain, TypeOK
<1> QED
  BY <1>2, <1>3, <1>4, <1>5, <1>6, <1>7, <1>8, <1>9, PlainEnds DEF Next

(***************************************************************************)
(* For any keys and addresses, one call at a time: until something fails   *)
(* or a reserve is made, no two stored peers share an address, whether the *)
(* panel made them or imported them, and although ServersService saves     *)
(* whole rows (createInternal, importScannedPeers and bumpNextHostOctet-   *)
(* PastAllocated in peers.service.ts).                                     *)
(***************************************************************************)
THEOREM StoredAddressesAreUnique ==
    ASSUME Serial
    PROVE  Spec => []NoSharedAddress
<1>1. Init => (Plain => PlainInv)
  BY ConstantsAssumption
     DEF Init, PlainInv, RowsApart, SharesAddress, FileApart, RowsBehindCounter, StageFits, NoScan, Idle, CallAt
<1>2. (Plain => PlainInv) => NoSharedAddress
  BY DEF Plain, PlainInv, RowsApart, NoSharedAddress
<1> QED
  BY <1>1, <1>2, PlainAddresses, SerialAddressInvariant, TypeCorrect, PTL DEF Spec

=============================================================================

---------------------------- MODULE ReportsProofs ---------------------------
(***************************************************************************)
(* What the dashboard reports: the traffic that polls save                 *)
(* (TrafficHistory) and the sums over it (TrafficReports), for any numbers *)
(* of polls, peers, organizations and samples.                             *)
(***************************************************************************)
EXTENDS TrafficReports, TrafficHistory, FiniteSetTheorems, TLAPS

-----------------------------------------------------------------------------
(* TrafficReports: the sums over the samples.                              *)

\* Peers of bridges are nobody's, in the table, in a poll and in the rows.
Nobodys(peers) == \A p \in DOMAIN peers : p[1] \in Transits => peers[p] = NoOrganization

ReportsInv ==
    /\ ReportsTypeOK
    /\ Nobodys(owner) /\ Nobodys(polled)
    /\ \A row \in ledger : row.peer[1] \in Transits => row.organization = NoOrganization
    /\ IsFiniteSet(ledger)
    /\ samples \subseteq ledger
    /\ \A row \in ledger : row.age <= Kept => row \in samples

\* Nothing of an owner, of a poll or of what stands is new.
LEMMA NobodyRead == DOMAIN << >> = {} /\ Range(<< >>) = {}
BY DEF Range

LEMMA ReportsStart == ReportsInit => ReportsInv
<1> SUFFICES ASSUME ReportsInit PROVE ReportsInv
  OBVIOUS
<1>1. DOMAIN owner = Sampled /\ Range(owner) \subseteq Owners
  BY DEF ReportsInit, Range, Owners
<1>4. Nobodys(owner)
  BY DEF ReportsInit, Nobodys
<1>2. DOMAIN polled = {} /\ Range(polled) = {}
  BY NobodyRead DEF ReportsInit
<1>3. IsFiniteSet(ledger)
  BY FS_EmptySet DEF ReportsInit
<1> QED
  BY <1>1, <1>2, <1>3, <1>4 DEF ReportsInit, ReportsInv, ReportsTypeOK, Nobodys

\* A row that has got older is the same row.
Older(row) == [row EXCEPT !.age = IF @ > Kept THEN @ ELSE @ + 1]

LEMMA OlderRow ==
    ASSUME NEW row \in Rows
    PROVE  /\ Older(row) \in Rows
           /\ Older(row).peer = row.peer /\ Older(row).organization = row.organization
           /\ (Older(row).age <= Kept => row.age <= Kept)
<1> DEFINE age == IF row.age > Kept THEN row.age ELSE row.age + 1
<1>1. Year \in Nat /\ row.age \in 0 .. (Year + 2) /\ Kept = Year + 1
  BY ReportsAssumption DEF Rows, Kept
<1>2. age \in 0 .. (Year + 2) /\ (age <= Kept => row.age <= Kept)
  BY <1>1
<1>3. Older(row) = [row EXCEPT !.age = age]
  BY DEF Older
<1> HIDE DEF age
<1>4. Older(row) \in Rows /\ Older(row).age = age
      /\ Older(row).peer = row.peer /\ Older(row).organization = row.organization
  BY <1>2, <1>3 DEF Rows
<1> QED
  BY <1>2, <1>4

LEMMA AddKeeps ==
    ASSUME ReportsInv, NEW p \in Sampled, AddSample(p)
    PROVE  ReportsInv'
<1> DEFINE row == [id |-> Cardinality(ledger) + 1, peer |-> p, organization |-> polled[p], age |-> 0]
<1>1. Cardinality(ledger) \in Nat
  BY FS_CardinalityType DEF ReportsInv
<1>2. polled[p] \in Owners
  BY DEF AddSample, ReportsInv, ReportsTypeOK, Range
<1>3. Year \in Nat /\ MaxSamples \in Nat
  BY ReportsAssumption
<1>4. Cardinality(ledger) + 1 \in 1 .. MaxSamples
  BY <1>1, <1>3 DEF AddSample
<1>5. 0 \in 0 .. (Year + 2)
  BY <1>3
<1>6. row \in Rows
  BY <1>2, <1>4, <1>5 DEF Rows
<1>7. samples' = samples \cup {row} /\ ledger' = ledger \cup {row} /\ UNCHANGED <<owner, standing, polled>>
  BY DEF AddSample
<1>9. row.peer = p /\ row.organization = polled[p]
  OBVIOUS
<1> HIDE DEF row
<1>a. row.peer[1] \in Transits => row.organization = NoOrganization
  BY <1>9 DEF AddSample, ReportsInv, Nobodys
<1>8. IsFiniteSet(ledger')
  BY <1>7, FS_AddElement DEF ReportsInv
<1> QED
  BY <1>6, <1>7, <1>8, <1>a DEF ReportsInv, ReportsTypeOK, Nobodys, Range

LEMMA TimeKeeps ==
    ASSUME ReportsInv, TimePasses
    PROVE  ReportsInv'
<1>1. samples' = {Older(row) : row \in samples} /\ ledger' = {Older(row) : row \in ledger}
      /\ UNCHANGED <<owner, standing, polled>>
  BY DEF TimePasses, Aged, Older
<1>2. samples \subseteq Rows /\ ledger \subseteq Rows
  BY DEF ReportsInv, ReportsTypeOK
<1>3. samples' \subseteq Rows /\ ledger' \subseteq Rows
  BY <1>1, <1>2, OlderRow
<1>4. IsFiniteSet(ledger')
  <2> DEFINE older == [row \in ledger |-> Older(row)]
  <2>1. older \in Surjection(ledger, ledger')
    BY <1>1 DEF Surjection
  <2> QED
    BY <2>1, FS_Surjection DEF ReportsInv
<1>5. samples' \subseteq ledger'
  BY <1>1 DEF ReportsInv
<1>6. ASSUME NEW new \in ledger', new.age <= Kept PROVE new \in samples'
  <2>1. PICK row \in ledger : new = Older(row)
    BY <1>1
  <2>2. row.age <= Kept
    BY <1>2, <1>6, <2>1, OlderRow
  <2> QED
    BY <1>1, <2>1, <2>2 DEF ReportsInv
<1>7. \A row \in ledger' : row.peer[1] \in Transits => row.organization = NoOrganization
  BY <1>1, <1>2, OlderRow DEF ReportsInv
<1> QED
  BY <1>1, <1>3, <1>4, <1>5, <1>6, <1>7 DEF ReportsInv, ReportsTypeOK, Nobodys, Range, Kept

LEMMA ReportsStep == ReportsInv /\ [ReportsNext]_reportVars => ReportsInv'
<1> SUFFICES ASSUME ReportsInv, [ReportsNext]_reportVars PROVE ReportsInv'
  OBVIOUS
<1>1. CASE ReadPeers
  BY <1>1 DEF ReadPeers, ReportsInv, ReportsTypeOK, Nobodys, Kept
<1>2. CASE PruneOldSamples
  BY <1>2 DEF PruneOldSamples, ReportsInv, ReportsTypeOK, Nobodys, Kept
<1>3. ASSUME NEW p \in Sampled, RemoveSampledPeer(p) PROVE ReportsInv'
  <2>1. DOMAIN owner' \subseteq DOMAIN owner /\ \A q \in DOMAIN owner' : owner'[q] = owner[q]
    BY <1>3 DEF RemoveSampledPeer, Restrict
  <2>2. Range(owner') \subseteq Range(owner)
    BY <2>1 DEF Range
  <2> QED
    BY <1>3, <2>1, <2>2 DEF RemoveSampledPeer, ReportsInv, ReportsTypeOK, Nobodys, Kept
<1>4. ASSUME NEW p \in Sampled, NEW organization \in Owners, GivePeer(p, organization)
      PROVE  ReportsInv'
  <2>1. DOMAIN owner' = DOMAIN owner
        /\ \A q \in DOMAIN owner' : owner'[q] = organization \/ owner'[q] = owner[q]
    BY <1>4 DEF GivePeer
  <2>3. Nobodys(owner')
    BY <1>4, ReportsAssumption DEF GivePeer, ReportsInv, Nobodys
  <2>2. Range(owner') \subseteq Range(owner) \cup {organization}
    BY <2>1 DEF Range
  <2> QED
    BY <1>4, <2>1, <2>2, <2>3 DEF GivePeer, ReportsInv, ReportsTypeOK, Nobodys, Kept
<1>5. ASSUME NEW organization \in Organizations, RemoveOrganization(organization)
      PROVE  ReportsInv'
  <2>1. DOMAIN owner' = DOMAIN owner
        /\ \A q \in DOMAIN owner' : owner'[q] = NoOrganization \/ owner'[q] = owner[q]
    BY <1>5 DEF RemoveOrganization
  <2>2. Range(owner') \subseteq Range(owner) \cup {NoOrganization}
    BY <2>1 DEF Range
  <2> QED
    BY <1>5, <2>1, <2>2 DEF RemoveOrganization, ReportsInv, ReportsTypeOK, Nobodys, Owners, Kept
<1>6. CASE UNCHANGED reportVars
  BY <1>6 DEF reportVars, ReportsInv, ReportsTypeOK, Nobodys, Kept
<1> QED
  BY <1>1, <1>2, <1>3, <1>4, <1>5, <1>6, AddKeeps, TimeKeeps DEF ReportsNext

LEMMA ReportsInvariant == ReportsSpec => []ReportsInv
BY ReportsStart, ReportsStep, PTL DEF ReportsSpec

(***************************************************************************)
(* The samples keep their types for any peers, organizations and servers   *)
(* (peer-traffic-sample.entity.ts).                                        *)
(***************************************************************************)
THEOREM ReportsTyped == ReportsSpec => []ReportsTypeOK
<1>1. ReportsInv => ReportsTypeOK
  BY DEF ReportsInv
<1> QED
  BY <1>1, ReportsInvariant, PTL

(***************************************************************************)
(* Over a range up to the year the table has the rows that were written.   *)
(***************************************************************************)
LEMMA NothingMissingInRange ==
    ASSUME ReportsInv, NEW range \in Nat, range <= Year
    PROVE  InRange(range) = {row \in ledger : row.age <= range}
<1>1. Year \in Nat /\ Kept = Year + 1
  BY ReportsAssumption DEF Kept
<1>2. \A row \in ledger : row.age \in Nat
  BY <1>1 DEF ReportsInv, ReportsTypeOK, Rows
<1>3. \A row \in ledger : row.age <= range => row \in samples
  BY <1>1, <1>2 DEF ReportsInv
<1> QED
  BY <1>3 DEF InRange, ReportsInv

(***************************************************************************)
(* For any peers, servers, organizations and ranges up to the year: each   *)
(* of the four reports shows what was recorded, with its filters, whatever *)
(* became of the peer, the organization and the server since (the queries  *)
(* and the pruning in dashboard.service.ts).                               *)
(***************************************************************************)
THEOREM ReportsAreExact == ReportsSpec => []ReportsShowWhatWasRecorded
<1>1. ReportsInv => ReportsShowWhatWasRecorded
  <2> SUFFICES ASSUME ReportsInv, NEW recorded \in ledger, NEW range \in recorded.age .. Year
               PROVE  LET p == recorded.peer
                          organization == recorded.organization
                          rows == {row \in ledger : row.age <= range /\ row.peer[2] = p[2]}
                          own == {row \in rows : row.organization = organization /\ row.peer[1] \in Clients}
                      IN /\ Cell(TrafficByServer(range, Owners), p[2]) = Cardinality(rows)
                         /\ Cell(TrafficByOrganization(range, {p[2]}), organization) = Cardinality(own)
                         /\ organization # NoOrganization =>
                                Cell(TrafficByServer(range, {organization}), p[2]) = Cardinality(own)
                         /\ Cell(TrafficByPeer(range, {organization}, {p[2]}), p)
                                = Cardinality({row \in own : row.peer = p})
                         /\ Cell(TrafficMonthly(range + 1, Owners), <<recorded.age, p[2]>>)
                                = Cardinality({row \in rows : row.age = recorded.age})
    BY DEF ReportsShowWhatWasRecorded
  <2> DEFINE p == recorded.peer
             organization == recorded.organization
             rows == {row \in ledger : row.age <= range /\ row.peer[2] = p[2]}
             own == {row \in rows : row.organization = organization /\ row.peer[1] \in Clients}
             all == {row \in ledger : row.age <= range}
  <2>1. range \in Nat /\ range <= Year /\ recorded \in Rows /\ recorded.age <= range
    BY ReportsAssumption DEF ReportsInv, ReportsTypeOK, Rows
  <2>2. InRange(range) = all
    BY <2>1, NothingMissingInRange
  <2>3. \A row \in ledger : row.organization \in Owners /\ row.age \in Nat
                /\ (row.peer[1] \notin Transits <=> row.peer[1] \in Clients)
    BY ReportsAssumption DEF ReportsInv, ReportsTypeOK, Rows, Sampled
  <2>4. Cell(TrafficByServer(range, Owners), p[2]) = Cardinality(rows)
    <3> DEFINE shown == {row \in InRange(range) : row.organization \in Owners}
    <3>1. shown = all
      BY <2>2, <2>3
    <3>2. {row \in shown : row.peer[2] = p[2]} = rows
      BY <3>1
    <3>3. p[2] \in {row.peer[2] : row \in shown}
      BY <2>1, <3>1
    <3> QED
      BY <3>2, <3>3 DEF Cell, TrafficByServer
  <2>5. Cell(TrafficByOrganization(range, {p[2]}), organization) = Cardinality(own)
    <3> DEFINE shown == {row \in OfClients(InRange(range)) : row.peer[2] \in {p[2]}}
               mine == {row \in shown : row.organization = organization}
               keys == {row.organization : row \in shown}
    <3>1. mine = own
      BY <2>2, <2>3 DEF OfClients
    <3>2. organization \notin keys => mine = {}
      OBVIOUS
    <3>3. Cell(TrafficByOrganization(range, {p[2]}), organization)
            = IF organization \in keys THEN Cardinality(mine) ELSE 0
      BY DEF Cell, TrafficByOrganization
    <3> QED
      BY <3>1, <3>2, <3>3, FS_EmptySet
  <2>6. ASSUME organization # NoOrganization
        PROVE  Cell(TrafficByServer(range, {organization}), p[2]) = Cardinality(own)
    <3> DEFINE shown == {row \in InRange(range) : row.organization \in {organization}}
               mine == {row \in shown : row.peer[2] = p[2]}
               keys == {row.peer[2] : row \in shown}
    <3>1. \A row \in ledger : row.organization = organization => row.peer[1] \notin Transits
      BY <2>6 DEF ReportsInv
    <3>2. mine = own
      BY <2>2, <2>3, <3>1
    <3>3. p[2] \in keys
      BY <2>1, <2>2
    <3>4. Cell(TrafficByServer(range, {organization}), p[2])
            = IF p[2] \in keys THEN Cardinality(mine) ELSE 0
      BY DEF Cell, TrafficByServer
    <3> QED
      BY <3>2, <3>3, <3>4
  <2>7. Cell(TrafficByPeer(range, {organization}, {p[2]}), p) = Cardinality({row \in own : row.peer = p})
    <3> DEFINE shown == {row \in OfClients(InRange(range)) :
                            row.organization \in {organization} /\ row.peer[2] \in {p[2]}}
               mine == {row \in shown : row.peer = p}
               keys == {row.peer : row \in shown}
    <3>1. mine = {row \in own : row.peer = p}
      BY <2>2, <2>3 DEF OfClients
    <3>2. p \notin keys => mine = {}
      OBVIOUS
    <3>3. Cell(TrafficByPeer(range, {organization}, {p[2]}), p)
            = IF p \in keys THEN Cardinality(mine) ELSE 0
      BY DEF Cell, TrafficByPeer
    <3> QED
      BY <3>1, <3>2, <3>3, FS_EmptySet
  <2>8. Cell(TrafficMonthly(range + 1, Owners), <<recorded.age, p[2]>>)
            = Cardinality({row \in rows : row.age = recorded.age})
    <3> DEFINE key == <<recorded.age, p[2]>>
               shown == {row \in samples : (row.age < range + 1 \/ row.age = 0) /\ row.organization \in Owners}
               mine == {row \in shown : <<row.age, row.peer[2]>> = key}
               keys == {<<row.age, row.peer[2]>> : row \in shown}
    <3>1. shown = all
      BY <2>1, <2>2, <2>3 DEF InRange, ReportsInv
    <3>2. mine = {row \in rows : row.age = recorded.age}
      BY <3>1, <2>1
    <3>3. key \in keys
      BY <3>1, <2>1
    <3>4. Cell(TrafficMonthly(range + 1, Owners), key)
            = IF key \in keys THEN Cardinality(mine) ELSE 0
      BY DEF Cell, TrafficMonthly
    <3> QED
      BY <3>2, <3>3, <3>4
  <2> QED
    BY <2>4, <2>5, <2>6, <2>7, <2>8
<1> QED
  BY <1>1, ReportsInvariant, PTL

-----------------------------------------------------------------------------
(* TrafficHistory: from the counter to the samples.                        *)

PollRecord == [stage : {"idle", "read"}, seen : 0 .. MaxTraffic \cup {NotSeen},
               after : SUBSET Polls, late : BOOLEAN]

Reading(w) == poll[w].stage = "read"
Seen(w) == poll[w].seen # NotSeen

TrafficTables ==
    /\ moved \in 0 .. MaxTraffic /\ counter \in 0 .. moved /\ saved \in Nat
    /\ poll \in [Polls -> PollRecord]
    /\ \A w \in Polls : poll[w].after \subseteq {v \in Polls \ {w} : Reading(v)}
    /\ due \in BOOLEAN /\ misled \in BOOLEAN
    /\ last \in 0 .. MaxTraffic \cup {NotSeen}

(***************************************************************************)
(* What the peer had moved when each poll read its total, at[w], and when  *)
(* the one read that saved last, base: nothing in the panel knows these,   *)
(* and every total is judged by them.                                      *)
(***************************************************************************)
ReadAt(at, base) ==
    /\ base \in 0 .. moved /\ at \in [Polls -> 0 .. moved]
    /\ saved <= base
    /\ last # NotSeen => counter + base <= moved + last

\* A poll nothing overtook read after the one that saved last, and its total went up
\* by no more than was moved in between.
ReadSinceLast(at, base) ==
    \A w \in Polls : Reading(w) =>
        /\ Seen(w) => counter + at[w] <= moved + poll[w].seen
        /\ ~poll[w].late =>
            /\ base <= at[w]
            /\ Seen(w) /\ last # NotSeen => poll[w].seen + base <= at[w] + last

\* The same of two polls in progress.
ReadInOrder(at) ==
    \A v, w \in Polls : Reading(v) /\ Reading(w) /\ v # w /\ v \notin poll[w].after =>
        /\ at[w] <= at[v]
        /\ Seen(v) /\ Seen(w) => poll[v].seen + at[w] <= at[v] + poll[w].seen

Judged(at, base) == ReadAt(at, base) /\ ReadSinceLast(at, base) /\ ReadInOrder(at)

TrafficInv == TrafficTables /\ (misled \/ \E at \in [Polls -> Nat], base \in Nat : Judged(at, base))

LEMMA TrafficIsBounded == MaxTraffic \in Nat
BY TrafficAssumption

USE DEF Reading, Seen

LEMMA TrafficStarts == TrafficInit => TrafficInv
<1> SUFFICES ASSUME TrafficInit PROVE TrafficInv
  OBVIOUS
<1>1. Idle \in PollRecord /\ Idle.stage = "idle" /\ Idle.after = {}
  BY DEF Idle, PollRecord
<1>2. poll = [w \in Polls |-> Idle]
  BY DEF TrafficInit
<1>a. moved \in 0 .. MaxTraffic /\ counter \in 0 .. moved /\ saved \in Nat
  BY TrafficIsBounded DEF TrafficInit
<1>b. due \in BOOLEAN /\ misled \in BOOLEAN /\ last \in 0 .. MaxTraffic \cup {NotSeen}
  BY DEF TrafficInit
<1>c. poll \in [Polls -> PollRecord] /\ \A w \in Polls : poll[w].after = {}
  BY <1>1, <1>2
<1>3. TrafficTables
  BY <1>a, <1>b, <1>c DEF TrafficTables
<1> DEFINE at == [w \in Polls |-> 0]
<1>4. Judged(at, 0)
  BY <1>1, <1>2 DEF TrafficInit, Judged, ReadAt, ReadSinceLast, ReadInOrder
<1> QED
  BY <1>3, <1>4 DEF TrafficInv

LEMMA TransferKeeps == TrafficInv /\ Transfer => TrafficInv'
<1> SUFFICES ASSUME TrafficInv, Transfer PROVE TrafficInv'
  OBVIOUS
<1>1. TrafficTables'
  BY TrafficIsBounded DEF TrafficInv, TrafficTables, Transfer
<1>2. ASSUME NEW at \in [Polls -> Nat], NEW base \in Nat, Judged(at, base)
      PROVE  Judged(at, base)'
  BY <1>2, TrafficIsBounded DEF TrafficInv, TrafficTables, Transfer, Judged, ReadAt, ReadSinceLast, ReadInOrder, PollRecord
<1> QED
  BY <1>1, <1>2 DEF TrafficInv, Transfer

LEMMA CycleKeeps == TrafficInv /\ CycleCounter => TrafficInv'
<1> SUFFICES ASSUME TrafficInv, CycleCounter PROVE TrafficInv'
  OBVIOUS
<1>1. TrafficTables'
  BY TrafficIsBounded DEF TrafficInv, TrafficTables, CycleCounter
<1>2. ASSUME NEW at \in [Polls -> Nat], NEW base \in Nat, Judged(at, base)
      PROVE  Judged(at, base)'
  BY <1>2, TrafficIsBounded DEF TrafficInv, TrafficTables, CycleCounter, Judged, ReadAt, ReadSinceLast, ReadInOrder, PollRecord
<1> QED
  BY <1>1, <1>2 DEF TrafficInv, CycleCounter

LEMMA RestartKeeps == TrafficInv /\ PanelRestarts => TrafficInv'
<1> SUFFICES ASSUME TrafficInv, PanelRestarts PROVE TrafficInv'
  OBVIOUS
<1>1. Idle \in PollRecord /\ Idle.stage = "idle" /\ Idle.after = {}
  BY DEF Idle, PollRecord
<1>2. poll' = [w \in Polls |-> Idle] /\ last' = NotSeen
  BY DEF PanelRestarts
<1>3. TrafficTables'
  BY <1>1, <1>2 DEF TrafficInv, TrafficTables, PanelRestarts
<1>4. ASSUME NEW at \in [Polls -> Nat], NEW base \in Nat, Judged(at, base)
      PROVE  Judged(at, base)'
  BY <1>1, <1>2, <1>4 DEF PanelRestarts, Judged, ReadAt, ReadSinceLast, ReadInOrder
<1> QED
  BY <1>3, <1>4 DEF TrafficInv, PanelRestarts

(***************************************************************************)
(* A poll that reads the counter, or nothing.                              *)
(***************************************************************************)
LEMMA PollKeeps ==
    ASSUME TrafficInv, NEW w \in Polls, PollServer(w)
    PROVE  TrafficInv'
<1>1. PICK total \in 0 .. MaxTraffic \cup {NotSeen} :
        /\ Reads(w, total)
        /\ total = NotSeen \/ total = counter \/ misled'
  <2>1. 0 \in 0 .. MaxTraffic /\ counter \in 0 .. MaxTraffic
    BY TrafficIsBounded DEF TrafficInv, TrafficTables
  <2>2. CASE Reads(w, counter) \/ Reads(w, NotSeen)
    BY <2>1, <2>2
  <2>3. CASE Reads(w, 0) /\ misled' = (misled \/ counter # 0)
    BY <2>1, <2>3
  <2> QED
    BY <2>2, <2>3 DEF PollServer
<1> DEFINE before == {v \in Polls : poll[v].stage = "read"}
           new == [stage |-> "read", seen |-> total, after |-> before, late |-> FALSE]
<1>2. poll' = [poll EXCEPT ![w] = new]
  BY <1>1 DEF Reads
<1>3. new \in PollRecord
  BY DEF PollRecord
<1>4. poll' \in [Polls -> PollRecord] /\ poll'[w] = new /\ \A v \in Polls \ {w} : poll'[v] = poll[v]
  BY <1>2, <1>3 DEF TrafficInv, TrafficTables
<1>5. UNCHANGED <<moved, counter, due, last, saved>> /\ ~Reading(w) /\ misled' \in BOOLEAN
      /\ (misled => misled')
  BY DEF PollServer, TrafficInv, TrafficTables
<1>6. TrafficTables'
  BY <1>4, <1>5 DEF TrafficInv, TrafficTables
<1>7. ASSUME NEW at \in [Polls -> Nat], NEW base \in Nat, Judged(at, base), ~misled'
      PROVE  \E new_at \in [Polls -> Nat] : Judged(new_at, base)'
  <2>1. moved \in Nat /\ counter \in Nat
    BY TrafficIsBounded DEF TrafficInv, TrafficTables
  <2>m. PICK total_moved \in Nat : total_moved = moved
    BY <2>1
  <2> DEFINE now == [at EXCEPT ![w] = total_moved]
  <2>2. now \in [Polls -> Nat] /\ now[w] = moved /\ \A v \in Polls \ {w} : now[v] = at[v]
    BY <2>m
  <2>3. ReadAt(now, base)'
    BY <1>5, <1>7, <2>1, <2>2 DEF Judged, ReadAt
  <2>4. \A v \in Polls : at[v] \in 0 .. moved
    BY <1>7 DEF Judged, ReadAt
  <2>5. ReadSinceLast(now, base)'
    <3> SUFFICES ASSUME NEW v \in Polls, poll'[v].stage = "read"
                 PROVE  /\ poll'[v].seen # NotSeen => counter + now[v] <= moved + poll'[v].seen
                        /\ ~poll'[v].late =>
                            /\ base <= now[v]
                            /\ poll'[v].seen # NotSeen /\ last # NotSeen
                                    => poll'[v].seen + base <= now[v] + last
      BY <1>5 DEF ReadSinceLast
    <3>1. CASE v = w
      <4>1. poll'[v].seen = NotSeen \/ poll'[v].seen = counter
        BY <1>1, <1>4, <1>7, <3>1
      <4> QED
        BY <4>1, <3>1, <2>1, <2>2, <1>7 DEF Judged, ReadAt
    <3>2. CASE v # w
      BY <1>4, <1>7, <2>2, <3>2 DEF Judged, ReadSinceLast
    <3> QED
      BY <3>1, <3>2
  <2>6. ReadInOrder(now)'
    <3> SUFFICES ASSUME NEW u \in Polls, NEW v \in Polls, poll'[u].stage = "read",
                        poll'[v].stage = "read", u # v, u \notin poll'[v].after
                 PROVE  /\ now[v] <= now[u]
                        /\ poll'[u].seen # NotSeen /\ poll'[v].seen # NotSeen
                                => poll'[u].seen + now[v] <= now[u] + poll'[v].seen
      BY DEF ReadInOrder
    <3>1. CASE v = w
      BY <1>4, <3>1
    <3>2. CASE u = w
      <4>1. poll'[u].seen = NotSeen \/ poll'[u].seen = counter
        BY <1>1, <1>4, <1>7, <3>2
      <4>2. Reading(v) /\ poll'[v] = poll[v]
        BY <1>4, <3>2
      <4>3. Seen(v) => counter + at[v] <= moved + poll[v].seen
        BY <4>2, <1>7 DEF Judged, ReadSinceLast
      <4> QED
        BY <4>1, <4>2, <4>3, <3>2, <2>1, <2>2, <2>4
    <3>3. CASE u # w /\ v # w
      <4>1. poll'[u] = poll[u] /\ poll'[v] = poll[v] /\ now[u] = at[u] /\ now[v] = at[v]
        BY <1>4, <2>2, <3>3
      <4> QED
        BY <4>1, <1>7 DEF Judged, ReadInOrder
    <3> QED
      BY <3>1, <3>2, <3>3
  <2> QED
    BY <2>2, <2>3, <2>5, <2>6 DEF Judged
<1> QED
  BY <1>5, <1>6, <1>7 DEF TrafficInv

(***************************************************************************)
(* What the end of a poll leaves of the others.                            *)
(***************************************************************************)
LEMMA EndedOne ==
    ASSUME TrafficTables, NEW w \in Polls, NEW saves \in BOOLEAN, Ended(w, saves)
    PROVE  /\ poll' \in [Polls -> PollRecord]
           /\ poll'[w].stage = "idle" /\ poll'[w].after = {}
           /\ \A v \in Polls \ {w} :
                /\ poll'[v].stage = poll[v].stage /\ poll'[v].seen = poll[v].seen
                /\ poll'[v].after = poll[v].after \ {w}
                /\ poll[v].late => poll'[v].late
                /\ saves /\ v \in poll[w].after => poll'[v].late
<1>1. Idle \in PollRecord /\ Idle.stage = "idle" /\ Idle.after = {}
  BY DEF Idle, PollRecord
<1>2. poll'[w] = Idle /\ DOMAIN poll' = Polls /\ poll' = [v \in Polls |-> poll'[v]]
  BY DEF Ended
<1>3. ASSUME NEW v \in Polls \ {w}
      PROVE  /\ poll'[v] \in PollRecord
             /\ poll'[v].stage = poll[v].stage /\ poll'[v].seen = poll[v].seen
             /\ poll'[v].after = poll[v].after \ {w}
             /\ poll[v].late => poll'[v].late
             /\ saves /\ v \in poll[w].after => poll'[v].late
  <2> DEFINE late == poll[v].late \/ (saves /\ v \in poll[w].after)
             rest == poll[v].after \ {w}
  <2>1. poll'[v] = [poll[v] EXCEPT !.after = rest, !.late = late]
    BY DEF Ended
  <2>2. poll[v] \in PollRecord /\ late \in BOOLEAN /\ rest \in SUBSET Polls
    BY DEF TrafficTables, PollRecord
  <2>3. (poll[v].late => late) /\ (saves /\ v \in poll[w].after => late)
    OBVIOUS
  <2> HIDE DEF late, rest
  <2>4. poll'[v] = [stage |-> poll[v].stage, seen |-> poll[v].seen, after |-> rest, late |-> late]
    BY <2>1, <2>2 DEF PollRecord
  <2>5. poll'[v] \in PollRecord
    BY <2>2, <2>4 DEF PollRecord
  <2> QED
    BY <2>3, <2>4, <2>5 DEF rest
<1> QED
  BY <1>1, <1>2, <1>3

LEMMA PersistKeeps ==
    ASSUME TrafficInv, NEW w \in Polls, Persist(w)
    PROVE  TrafficInv'
<1>1. /\ poll' \in [Polls -> PollRecord]
      /\ poll'[w].stage = "idle" /\ poll'[w].after = {}
      /\ \A v \in Polls \ {w} :
           /\ poll'[v].stage = poll[v].stage /\ poll'[v].seen = poll[v].seen
           /\ poll'[v].after = poll[v].after \ {w}
           /\ poll[v].late => poll'[v].late
           /\ due /\ v \in poll[w].after => poll'[v].late
  BY EndedOne DEF Persist, TrafficInv, TrafficTables
<1>2. UNCHANGED <<moved, counter>> /\ Reading(w) /\ poll[w] \in PollRecord
  BY DEF Persist, TrafficInv, TrafficTables
<1>3. moved \in Nat /\ counter \in Nat /\ saved \in Nat
  BY DEF TrafficInv, TrafficTables
<1>4. Difference(poll[w].seen) \in Nat
  BY <1>2, TrafficIsBounded DEF Difference, TrafficInv, TrafficTables, PollRecord
<1>a. due \in BOOLEAN /\ misled \in BOOLEAN /\ last \in 0 .. MaxTraffic \cup {NotSeen}
  BY DEF TrafficInv, TrafficTables
<1>b. poll[w].late \in BOOLEAN /\ poll[w].seen \in 0 .. MaxTraffic \cup {NotSeen}
  BY <1>2 DEF PollRecord
<1>c. saved' \in Nat
  BY <1>3, <1>4 DEF Persist
<1>d. due' \in BOOLEAN /\ last' \in 0 .. MaxTraffic \cup {NotSeen}
  BY <1>a, <1>b DEF Persist
<1>e. misled' = misled \/ misled' = (misled \/ poll[w].late)
  BY DEF Persist
<1>5. /\ saved' \in Nat /\ due' \in BOOLEAN /\ misled' \in BOOLEAN
      /\ last' \in 0 .. MaxTraffic \cup {NotSeen} /\ (misled => misled')
  BY <1>a, <1>b, <1>c, <1>d, <1>e
<1>6. TrafficTables'
  BY <1>1, <1>2, <1>5 DEF TrafficInv, TrafficTables
<1>7. ASSUME NEW at \in [Polls -> Nat], NEW base \in Nat, Judged(at, base), ~misled'
      PROVE  \E new_base \in Nat : Judged(at, new_base)'
  <2>1. \A v \in Polls : at[v] \in 0 .. moved
    BY <1>7 DEF Judged, ReadAt
  <2>2. ReadInOrder(at)'
    <3> SUFFICES ASSUME NEW u \in Polls, NEW v \in Polls, poll'[u].stage = "read",
                        poll'[v].stage = "read", u # v, u \notin poll'[v].after
                 PROVE  /\ at[v] <= at[u]
                        /\ poll'[u].seen # NotSeen /\ poll'[v].seen # NotSeen
                                => poll'[u].seen + at[v] <= at[u] + poll'[v].seen
      BY DEF ReadInOrder
    <3>1. u # w /\ v # w
      BY <1>1
    <3>2. Reading(u) /\ Reading(v) /\ u \notin poll[v].after
      BY <1>1, <3>1
    <3> QED
      BY <1>1, <1>7, <3>1, <3>2 DEF Judged, ReadInOrder
  <2>3. CASE ~due
    <3>1. UNCHANGED <<last, saved>>
      BY <2>3 DEF Persist
    <3>2. ReadAt(at, base)'
      BY <1>2, <1>7, <3>1 DEF Judged, ReadAt
    <3>3. ReadSinceLast(at, base)'
      BY <1>1, <1>2, <1>7, <3>1 DEF Judged, ReadSinceLast
    <3> QED
      BY <2>2, <3>2, <3>3 DEF Judged
  <2>4. CASE due
    <3>1. last' = poll[w].seen /\ ~poll[w].late
          /\ (saved' = saved + Difference(poll[w].seen) \/ saved' = saved)
      BY <1>7, <2>4 DEF Persist
    <3>2. /\ Seen(w) => counter + at[w] <= moved + poll[w].seen
          /\ base <= at[w]
          /\ Seen(w) /\ last # NotSeen => poll[w].seen + base <= at[w] + last
      BY <1>2, <1>7, <3>1 DEF Judged, ReadSinceLast
    <3>3. saved <= base
      BY <1>7 DEF Judged, ReadAt
    <3>4. saved' <= at[w]
      <4>1. CASE saved' = saved
        BY <4>1, <3>2, <3>3, <1>3, <2>1
      <4>2. CASE saved' = saved + Difference(poll[w].seen)
        <5>1. CASE Seen(w) /\ last # NotSeen /\ poll[w].seen > last
          <6>1. poll[w].seen \in Nat /\ last \in Nat
            BY <5>1, <1>2 DEF PollRecord, TrafficInv, TrafficTables
          <6>2. Difference(poll[w].seen) = poll[w].seen - last
            BY <5>1 DEF Difference
          <6> QED
            BY <6>1, <6>2, <5>1, <4>2, <3>2, <3>3, <1>3, <2>1
        <5>2. CASE ~(Seen(w) /\ last # NotSeen /\ poll[w].seen > last)
          <6>1. Difference(poll[w].seen) = 0
            BY <5>2 DEF Difference
          <6> QED
            BY <6>1, <4>2, <3>2, <3>3, <1>3, <2>1
        <5> QED
          BY <5>1, <5>2
      <4> QED
        BY <3>1, <4>1, <4>2
    <3>5. ReadAt(at, at[w])'
      BY <1>2, <1>7, <2>1, <3>1, <3>2, <3>4 DEF Judged, ReadAt
    <3>6. ReadSinceLast(at, at[w])'
      <4> SUFFICES ASSUME NEW v \in Polls, poll'[v].stage = "read"
                   PROVE  /\ poll'[v].seen # NotSeen => counter + at[v] <= moved + poll'[v].seen
                          /\ ~poll'[v].late =>
                              /\ at[w] <= at[v]
                              /\ poll'[v].seen # NotSeen /\ last' # NotSeen
                                      => poll'[v].seen + at[w] <= at[v] + last'
        BY <1>2 DEF ReadSinceLast
      <4>1. v # w /\ Reading(v) /\ poll'[v].seen = poll[v].seen
        BY <1>1
      <4>2. poll[v].seen # NotSeen => counter + at[v] <= moved + poll[v].seen
        BY <4>1, <1>7 DEF Judged, ReadSinceLast
      <4>3. ~poll'[v].late => v \notin poll[w].after
        BY <1>1, <2>4, <4>1
      <4>4. v \notin poll[w].after =>
                /\ at[w] <= at[v]
                /\ Seen(v) /\ Seen(w) => poll[v].seen + at[w] <= at[v] + poll[w].seen
        BY <4>1, <1>2, <1>7 DEF Judged, ReadInOrder
      <4> QED
        BY <3>1, <4>1, <4>2, <4>3, <4>4
    <3> QED
      BY <2>2, <3>5, <3>6 DEF Judged
  <2> QED
    BY <1>3, <2>3, <2>4 DEF TrafficInv, TrafficTables
<1> QED
  BY <1>5, <1>6, <1>7 DEF TrafficInv

LEMMA TrafficStep == TrafficInv /\ [TrafficNext]_trafficVars => TrafficInv'
<1> SUFFICES ASSUME TrafficInv, [TrafficNext]_trafficVars PROVE TrafficInv'
  OBVIOUS
<1>1. CASE QuarterPasses
  <2>1. TrafficTables'
    BY <1>1 DEF QuarterPasses, TrafficInv, TrafficTables
  <2>2. \A at \in [Polls -> Nat], base \in Nat : Judged(at, base) => Judged(at, base)'
    BY <1>1 DEF QuarterPasses, Judged, ReadAt, ReadSinceLast, ReadInOrder
  <2> QED
    BY <1>1, <2>1, <2>2 DEF QuarterPasses, TrafficInv
<1>2. CASE UNCHANGED trafficVars
  <2>1. TrafficTables'
    BY <1>2 DEF trafficVars, TrafficInv, TrafficTables
  <2>2. \A at \in [Polls -> Nat], base \in Nat : Judged(at, base) => Judged(at, base)'
    BY <1>2 DEF trafficVars, Judged, ReadAt, ReadSinceLast, ReadInOrder
  <2> QED
    BY <1>2, <2>1, <2>2 DEF trafficVars, TrafficInv
<1> QED
  BY <1>1, <1>2, TransferKeeps, CycleKeeps, RestartKeeps, PollKeeps, PersistKeeps DEF TrafficNext

LEMMA TrafficInvariant == TrafficSpec => []TrafficInv
BY TrafficStarts, TrafficStep, PTL DEF TrafficSpec

(***************************************************************************)
(* Counters, polls and what was seen last keep their types for any number  *)
(* of polls in progress (poll in dashboard.service.ts).                    *)
(***************************************************************************)
THEOREM TrafficTyped == TrafficSpec => []TrafficTypeOK
<1>1. TrafficInv => TrafficTypeOK
  BY TrafficIsBounded DEF TrafficInv, TrafficTables, TrafficTypeOK, PollRecord
<1> QED
  BY <1>1, TrafficInvariant, PTL

(***************************************************************************)
(* The reports never say more than the peer has moved, however many polls  *)
(* overlap, with restarts of the panel, resets of the counter, outages and *)
(* lost inserts, unless a failed reading passed for 0 or a poll was        *)
(* overtaken (persistTrafficSamples in dashboard.service.ts, which takes   *)
(* the difference to what it saw last).                                    *)
(***************************************************************************)
THEOREM NothingInvented == TrafficSpec => []ReportsOnlyWhatMoved
<1>1. TrafficInv => ReportsOnlyWhatMoved
  BY DEF TrafficInv, TrafficTables, Judged, ReadAt, ReportsOnlyWhatMoved
<1> QED
  BY <1>1, TrafficInvariant, PTL

=============================================================================

--------------------------- MODULE TrafficReports ---------------------------
(***************************************************************************)
(* The reports of dashboard.service.ts on peer_traffic_samples: the same   *)
(* rows are summed by server, by organization and by peer over a range,    *)
(* while peers change hands and are removed, organizations are removed,    *)
(* time passes and old rows are pruned.  A row is a snapshot that outlives *)
(* what it is about (peer-traffic-sample.entity.ts).  TrafficHistory has   *)
(* how the amount in a row comes about; here each row is one unit.         *)
(***************************************************************************)
EXTENDS Integers, FiniteSets, Functions

CONSTANTS
    Clients,        \* names of ordinary peers
    Transits,       \* names of the system peers of bridges (BRIDGE_UPSTREAM)
    SampledServers, \* each peer is on one server
    Organizations,
    NoOrganization, \* organizationId is null
    Year,           \* the longest range; a range is the age of its oldest rows
    MaxSamples,     \* bound on the rows ever written
    MaxChanges      \* bound on the changes of peers and organizations

ASSUME ReportsAssumption ==
    /\ Clients \cap Transits = {}
    /\ NoOrganization \notin Organizations
    /\ Year \in Nat /\ MaxSamples \in Nat /\ MaxChanges \in Nat

VARIABLES
    owner,     \* the peers that exist: their organization
    standing,  \* the organizations that exist
    polled,    \* the peers and their organizations as the poll in progress read them
    samples,   \* peer_traffic_samples
    ledger,    \* every row as it was written, with its age: what the reports are about
    changes

reportVars == <<owner, standing, polled, samples, ledger, changes>>

Ranges == 0..Year
Sampled == (Clients \cup Transits) \X SampledServers
Owners == Organizations \cup {NoOrganization}

\* Mutant: just the rows of a year are kept.
KeptForLess == Year - 1

\* TRAFFIC_RETENTION_DAYS: more than a year.
Kept == Year + 1

Rows == [id : 1..MaxSamples, peer : Sampled, organization : Owners, age : 0..(Year + 2)]

ReportsTypeOK ==
    /\ DOMAIN owner \subseteq Sampled /\ Range(owner) \subseteq Owners
    /\ standing \subseteq Organizations
    /\ DOMAIN polled \subseteq Sampled /\ Range(polled) \subseteq Owners
    /\ samples \subseteq Rows /\ ledger \subseteq Rows

\* createSystemPeer gives no organization.
ReportsInit ==
    /\ owner = [p \in Sampled |-> NoOrganization]
    /\ standing = Organizations
    /\ polled = << >>
    /\ samples = {} /\ ledger = {} /\ changes = 0

Change == changes < MaxChanges /\ changes' = changes + 1

-----------------------------------------------------------------------------
(* What happens to peers, organizations and rows                           *)

\* buildSnapshot loads the peers, then waits for the servers.
ReadPeers ==
    /\ polled' = owner
    /\ UNCHANGED <<owner, standing, samples, ledger, changes>>

\* persistTrafficSamples
AddSample(p) ==
    /\ p \in DOMAIN polled /\ Cardinality(ledger) < MaxSamples
    /\ LET row == [id |-> Cardinality(ledger) + 1, peer |-> p, organization |-> polled[p], age |-> 0]
       IN samples' = samples \cup {row} /\ ledger' = ledger \cup {row}
    /\ UNCHANGED <<owner, standing, polled, changes>>

\* PeersService.update: the peer becomes another client's.
GivePeer(p, organization) ==
    /\ Change
    /\ p \in DOMAIN owner /\ p[1] \in Clients
    /\ organization \in standing \cup {NoOrganization}
    /\ owner' = [owner EXCEPT ![p] = organization]
    /\ UNCHANGED <<standing, polled, samples, ledger>>

\* A peer is purged, or goes with its server.
RemoveSampledPeer(p) ==
    /\ Change
    /\ owner' = Restrict(owner, DOMAIN owner \ {p})
    /\ UNCHANGED <<standing, polled, samples, ledger>>

\* OrganizationsService.remove: its peers remain, without a client.
RemoveOrganization(organization) ==
    /\ Change
    /\ organization \in standing
    /\ standing' = standing \ {organization}
    /\ owner' = [p \in DOMAIN owner |-> IF owner[p] = organization THEN NoOrganization ELSE owner[p]]
    /\ UNCHANGED <<polled, samples, ledger>>

\* Some time goes by; ages past the last one kept are all the same.
Aged(rows) == {[row EXCEPT !.age = IF @ > Kept THEN @ ELSE @ + 1] : row \in rows}

TimePasses ==
    /\ samples' = Aged(samples) /\ ledger' = Aged(ledger)
    /\ UNCHANGED <<owner, standing, polled, changes>>

\* pruneOldTrafficSamples
PruneOldSamples ==
    /\ samples' = {row \in samples : row.age <= Kept}
    /\ UNCHANGED <<owner, standing, polled, ledger, changes>>

ReportsNext ==
    \/ ReadPeers \/ TimePasses \/ PruneOldSamples
    \/ \E p \in Sampled :
        \/ AddSample(p) \/ RemoveSampledPeer(p)
        \/ \E organization \in Owners : GivePeer(p, organization)
    \/ \E organization \in Organizations : RemoveOrganization(organization)

ReportsSpec == ReportsInit /\ [][ReportsNext]_reportVars

-----------------------------------------------------------------------------
(* The reports: what each group sums up to.  A filter that is not given is *)
(* the set of all values.                                                  *)

InRange(range) == {row \in samples : row.age <= range}

\* getTrafficByServer; NoOrganization cannot be asked for.
TrafficByServer(range, organizations) ==
    LET rows == {row \in InRange(range) : row.organization \in organizations}
    IN [server \in {row.peer[2] : row \in rows} |-> Cardinality({row \in rows : row.peer[2] = server})]

\* Without BRIDGE_UPSTREAM.
OfClients(rows) == {row \in rows : row.peer[1] \notin Transits}

\* getTrafficByOrganization
TrafficByOrganization(range, servers) ==
    LET rows == {row \in OfClients(InRange(range)) : row.peer[2] \in servers}
    IN [organization \in {row.organization : row \in rows} |->
            Cardinality({row \in rows : row.organization = organization})]

\* getTrafficByPeer
TrafficByPeer(range, organizations, servers) ==
    LET rows == {row \in OfClients(InRange(range)) :
                    row.organization \in organizations /\ row.peer[2] \in servers}
    IN [p \in {row.peer : row \in rows} |-> Cardinality({row \in rows : row.peer = p})]

\* getTrafficMonthly: a month is an age; the current one is always there.
TrafficMonthly(months, organizations) ==
    LET rows == {row \in samples :
                    (row.age < months \/ row.age = 0) /\ row.organization \in organizations}
    IN [cell \in {<<row.age, row.peer[2]>> : row \in rows} |->
            Cardinality({row \in rows : <<row.age, row.peer[2]>> = cell})]

-----------------------------------------------------------------------------

Cell(report, key) == IF key \in DOMAIN report THEN report[key] ELSE 0

(***************************************************************************)
(* Each report shows what was recorded, for every range up to the year and *)
(* with its filters: a row counts for the client its peer had when it was *)
(* polled and is not lost before it is out of the year, whatever becomes   *)
(* of peer, client and server (the comments on PeerTrafficSample and       *)
(* TRAFFIC_RETENTION_DAYS); the four views agree with each other.          *)
(***************************************************************************)
ReportsShowWhatWasRecorded ==
    \A recorded \in ledger : \A range \in recorded.age..Year :
        LET p == recorded.peer
            organization == recorded.organization
            rows == {row \in ledger : row.age <= range /\ row.peer[2] = p[2]}
            own == {row \in rows : row.organization = organization /\ row.peer[1] \in Clients}
        IN /\ Cell(TrafficByServer(range, Owners), p[2]) = Cardinality(rows)
           /\ Cell(TrafficByOrganization(range, {p[2]}), organization) = Cardinality(own)
           /\ organization # NoOrganization =>
                Cell(TrafficByServer(range, {organization}), p[2]) = Cardinality(own)
           /\ Cell(TrafficByPeer(range, {organization}, {p[2]}), p)
                = Cardinality({row \in own : row.peer = p})
           /\ Cell(TrafficMonthly(range + 1, Owners), <<recorded.age, p[2]>>)
                = Cardinality({row \in rows : row.age = recorded.age})

=============================================================================

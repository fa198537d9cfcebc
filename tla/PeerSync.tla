------------------------------ MODULE PeerSync ------------------------------
(***************************************************************************)
(* The life of the peers of ONE installed protocol (one ServerProtocol     *)
(* row): backend/src/peers/peers.service.ts keeps the rows in Postgres and *)
(* pushes them, over SSH, into the configuration file and the interface of *)
(* the VPN server (syncServerPeers, then the driver's applyPeers).         *)
(*                                                                         *)
(* Nothing serialises the calls: every HTTP request, every bot message and *)
(* every timer tick is an async function that is suspended at each await.  *)
(* A worker is one such call.  The steps of a call are its awaits: load    *)
(* the entity, save it, read the rows to apply, write the file, cycle the  *)
(* interface, and undo the save when the server refused.                   *)
(*                                                                         *)
(* Which address a peer gets is HostAllocation's subject.                  *)
(*                                                                         *)
(* Serial, MaxFailures, LateFailures and MaxCrashes select the environment *)
(* of a run; MaxTime bounds the clock.                                     *)
(***************************************************************************)
EXTENDS Integers

CONSTANTS
    Peers,         \* the key pairs that calls will generate, each at most once
    NoPeer,        \* the peer of a call that concerns none (an idle worker, a tick)
    Workers,       \* calls that may be suspended at the same time
    Serial,        \* TRUE: a call starts only when no other is in progress
    MaxTime,       \* bound on the clock
    MaxFailures,   \* bound on SSH failures
    LateFailures,  \* TRUE: SSH may also fail after it changed the server
    MaxCrashes     \* bound on restarts of the backend

ASSUME PeersAssumption == NoPeer \notin Peers
ASSUME EnvironmentAssumption ==
    /\ Serial \in BOOLEAN
    /\ LateFailures \in BOOLEAN
    /\ MaxTime \in Nat
    /\ MaxFailures \in Nat
    /\ MaxCrashes \in Nat
VARIABLES
    rows,           \* peers: the row of each peer, as stored
    made,           \* the key pairs generated so far
    now,            \* the wall clock
    conf,           \* the peers in the configuration file on the server
    iface,          \* the peers the running interface accepts
    appliedExpiry,  \* PeersService.appliedExpiry: expiry already handled, 0 if none
    op,             \* the call each worker is executing
    failures,       \* SSH failures so far
    crashes         \* restarts so far

vars == <<rows, made, now, conf, iface, appliedExpiry, op,
          failures, crashes>>

database == <<rows, made>>
server   == <<conf, iface>>
budget   == <<failures, crashes>>

NoExpiry == 0   \* expiresAt is null

Row == [status : {"absent", "active", "revoked"}, expiresAt : 0 .. MaxTime]

Absent == [status |-> "absent", expiresAt |-> NoExpiry]
Fresh  == [status |-> "active", expiresAt |-> NoExpiry]

Stages == {"idle", "loaded", "saved", "read", "written", "restore", "removing"}

Kinds == {"none", "create", "revoke", "dismiss", "update", "rename", "purge", "tick"}

\* entity is the Peer object the call holds in memory, before the same object as
\* it was loaded; snap is the list read by syncServerPeers.  alone is an
\* observation, not program state: no other call overlapped this one so far.
Call == [stage : Stages, kind : Kinds, peer : Peers \cup {NoPeer},
         entity : Row, before : Row, snap : SUBSET Peers, alone : BOOLEAN]

\* A call without an entity has nothing to save, to restore or to remove.
CallsHoldTheirEntity ==
    \A w \in Workers :
        /\ op[w].kind = "none" => op[w].stage = "idle"
        /\ op[w].kind \in {"none", "tick"} <=> op[w].peer = NoPeer
        /\ op[w].peer = NoPeer => op[w].stage \notin {"loaded", "restore", "removing"}

Idle == [stage |-> "idle", kind |-> "none", peer |-> NoPeer,
         entity |-> Absent, before |-> Absent, snap |-> {}, alone |-> FALSE]

TypeOK ==
    /\ rows \in [Peers -> Row]
    /\ made \subseteq Peers
    /\ now \in 0 .. MaxTime
    /\ conf \subseteq Peers
    /\ iface \subseteq Peers
    /\ appliedExpiry \in [Peers -> 0 .. MaxTime]
    /\ op \in [Workers -> Call]
    /\ CallsHoldTheirEntity
    /\ failures \in Nat
    /\ crashes \in Nat

Lapsed(row) == row.expiresAt # NoExpiry /\ row.expiresAt <= now

Expired == {p \in Peers : rows[p].status = "active" /\ Lapsed(rows[p])}

\* The rows syncServerPeers selects: active, without a term or before its end.
Desired == {p \in Peers : rows[p].status = "active" /\ ~Lapsed(rows[p])}

Active == {p \in Peers : rows[p].status = "active"}

InFlight == {w \in Workers : op[w].stage # "idle"}

Init ==
    /\ rows = [p \in Peers |-> Absent]
    /\ made = {}
    /\ now = 0
    /\ conf = {}
    /\ iface = {}
    /\ appliedExpiry = [p \in Peers |-> 0]
    /\ op = [w \in Workers |-> Idle]
    /\ failures = 0
    /\ crashes = 0

-----------------------------------------------------------------------------
(* The first step of each call.                                            *)

\* Worker w takes up a call; the calls already in progress are no longer alone.
Start(w, kind, p, entity, before, stage) ==
    /\ op[w].stage = "idle"
    /\ Serial => InFlight = {}
    /\ op' = [v \in Workers |->
                IF v = w
                  THEN [stage |-> stage, kind |-> kind, peer |-> p,
                        entity |-> entity, before |-> before, snap |-> {},
                        alone |-> InFlight = {}]
                  ELSE [op[v] EXCEPT !.alone = FALSE]]

\* create / createSystemPeer -> createInternal: a new key pair.
BeginCreate(w) ==
    \E p \in Peers \ made :
        /\ made' = made \cup {p}
        /\ Start(w, "create", p, Fresh, Absent, "loaded")
        /\ UNCHANGED <<rows, now, server, appliedExpiry, budget>>

\* revoke / revokeSystemPeer load the row whatever its status; the paths of the
\* bot (reissue, removal of a registration) load active rows and also delete them.
BeginRevoke(w) ==
    \E p \in Peers :
        /\ \/ rows[p].status # "absent" /\ Start(w, "revoke", p, [rows[p] EXCEPT !.status = "revoked"], rows[p], "loaded")
           \/ rows[p].status = "active" /\ Start(w, "dismiss", p, [rows[p] EXCEPT !.status = "revoked"], rows[p], "loaded")
        /\ UNCHANGED <<database, now, server, appliedExpiry, budget>>

\* update: with a new term (any date, past ones too), or only a new name.
BeginUpdate(w) ==
    \E p \in Peers :
        /\ rows[p].status # "absent"
        /\ \/ \E t \in 0 .. MaxTime :
                Start(w, "update", p, [rows[p] EXCEPT !.expiresAt = t], rows[p], "loaded")
           \/ Start(w, "rename", p, rows[p], rows[p], "loaded")
        /\ UNCHANGED <<database, now, server, appliedExpiry, budget>>

\* purge: refused unless the row it loaded is revoked.
BeginPurge(w) ==
    \E p \in Peers :
        /\ rows[p].status = "revoked"
        /\ Start(w, "purge", p, rows[p], rows[p], "removing")
        /\ UNCHANGED <<database, now, server, appliedExpiry, budget>>

\* Mutant: a peer handled once is never looked at again.
TickOncePerPeer(w) ==
    /\ \E p \in Expired : appliedExpiry[p] = 0
    /\ appliedExpiry' = [p \in Peers |-> IF p \in Expired THEN rows[p].expiresAt ELSE appliedExpiry[p]]
    /\ Start(w, "tick", NoPeer, Absent, Absent, "saved")
    /\ UNCHANGED <<database, now, server, budget>>

\* checkExpiredPeers that finds a term it has not handled: it is marked handled
\* before the server is told.
Tick(w) ==
    /\ \E p \in Expired : appliedExpiry[p] # rows[p].expiresAt
    /\ appliedExpiry' = [p \in Peers |-> IF p \in Expired THEN rows[p].expiresAt ELSE 0]
    /\ Start(w, "tick", NoPeer, Absent, Absent, "saved")
    /\ UNCHANGED <<database, now, server, budget>>

\* checkExpiredPeers with nothing new: it only forgets the peers that were prolonged.
TickForgets ==
    /\ \A p \in Expired : appliedExpiry[p] = rows[p].expiresAt
    /\ appliedExpiry' = [p \in Peers |-> IF p \in Expired THEN rows[p].expiresAt ELSE 0]
    /\ appliedExpiry' # appliedExpiry
    /\ UNCHANGED <<database, now, server, op, budget>>

-----------------------------------------------------------------------------
(* The later steps.                                                        *)

\* TypeORM's save writes the whole object the call holds, and inserts it again
\* if the row has meanwhile been deleted.
Save(w) ==
    /\ op[w].stage = "loaded"
    /\ rows' = [rows EXCEPT ![op[w].peer] = op[w].entity]
    /\ op' = [op EXCEPT ![w] = IF op[w].kind = "rename" THEN Idle ELSE [@ EXCEPT !.stage = "saved"]]
    /\ UNCHANGED <<made, now, server, appliedExpiry, budget>>

\* syncServerPeers: the list to apply is read once, here.
ReadPeers(w) ==
    /\ op[w].stage = "saved"
    /\ op' = [op EXCEPT ![w].stage = "read", ![w].snap = Desired]
    /\ UNCHANGED <<database, now, server, appliedExpiry, budget>>

\* Mutant: peers are appended to the file, the old ones stay.
WriteConfAppends(w) ==
    /\ op[w].stage = "read"
    /\ conf' = conf \cup op[w].snap
    /\ op' = [op EXCEPT ![w].stage = "written"]
    /\ UNCHANGED <<database, now, iface, appliedExpiry, budget>>

\* applyPeers: the whole file is rewritten from the list.
WriteConf(w) ==
    /\ op[w].stage = "read"
    /\ conf' = op[w].snap
    /\ op' = [op EXCEPT ![w].stage = "written"]
    /\ UNCHANGED <<database, now, iface, appliedExpiry, budget>>

\* What the call does once the server answered that the interface is up.
Applied(w) == IF op[w].kind = "dismiss" THEN [op[w] EXCEPT !.stage = "removing"] ELSE Idle

\* quick down; quick up: the interface loads the file as it is at this moment.
CycleInterface(w) ==
    /\ op[w].stage = "written"
    /\ iface' = conf
    /\ op' = [op EXCEPT ![w] = Applied(w)]
    /\ UNCHANGED <<database, now, conf, appliedExpiry, budget>>

\* The answer never came or was an error.  Early: nothing was changed.  Late: the
\* file was written after all, or the interface is down, or it came up.
ApplyFails(w) ==
    /\ failures < MaxFailures
    /\ failures' = failures + 1
    /\ \/ /\ op[w].stage = "read"
          /\ conf' \in IF LateFailures THEN {conf, op[w].snap} ELSE {conf}
          /\ UNCHANGED iface
       \/ /\ LateFailures
          /\ op[w].stage = "written"
          /\ iface' \in {iface, {}, conf}
          /\ UNCHANGED conf
    /\ op' = [op EXCEPT ![w] = IF op[w].kind = "tick" THEN Idle ELSE [@ EXCEPT !.stage = "restore"]]
    /\ UNCHANGED <<database, now, appliedExpiry, crashes>>

\* The catch blocks: createInternal deletes the row it inserted, revokeInternal and
\* update save the object with the status or the term it had when loaded.
Restore(w) ==
    /\ op[w].stage = "restore"
    /\ rows' = [rows EXCEPT ![op[w].peer] = op[w].before]
    /\ op' = [op EXCEPT ![w] = Idle]
    /\ UNCHANGED <<made, now, server, appliedExpiry, budget>>

\* peersRepository.remove, in purge and after a dismissal.
Remove(w) ==
    /\ op[w].stage = "removing"
    /\ rows' = [rows EXCEPT ![op[w].peer] = Absent]
    /\ op' = [op EXCEPT ![w] = Idle]
    /\ UNCHANGED <<made, now, server, appliedExpiry, budget>>

TimePasses ==
    /\ now < MaxTime
    /\ now' = now + 1
    /\ UNCHANGED <<database, server, appliedExpiry, op, budget>>

\* The backend restarts: calls in progress and the map are lost, nothing is resumed.
Crash ==
    /\ crashes < MaxCrashes
    /\ crashes' = crashes + 1
    /\ op' = [w \in Workers |-> Idle]
    /\ appliedExpiry' = [p \in Peers |-> 0]
    /\ UNCHANGED <<database, now, server, failures>>

Begin(w) == BeginCreate(w) \/ BeginRevoke(w) \/ BeginUpdate(w) \/ BeginPurge(w)

Continue(w) ==
    \/ Save(w) \/ ReadPeers(w) \/ WriteConf(w) \/ CycleInterface(w)
    \/ Restore(w) \/ Remove(w)

Next ==
    \/ \E w \in Workers : Begin(w) \/ Tick(w) \/ Continue(w) \/ ApplyFails(w)
    \/ TickForgets
    \/ TimePasses
    \/ Crash

Spec == Init /\ [][Next]_vars

(***************************************************************************)
(* A call that was started is run to its end by the event loop, and the    *)
(* timer keeps firing; operators need not do anything.                     *)
(***************************************************************************)
FairSpec ==
    /\ Spec
    /\ \A w \in Workers : WF_vars(Continue(w))
    /\ SF_vars(\E w \in Workers : Tick(w))

-----------------------------------------------------------------------------
(* Properties.                                                             *)

(***************************************************************************)
(* Whatever earlier overlaps, failures and restarts left behind, a call    *)
(* that ran without another one beside it and whose sync succeeded leaves  *)
(* on the server exactly the active peers: all those whose term runs, and  *)
(* none that is revoked or deleted (syncServerPeers rebuilds the whole     *)
(* list instead of sending a difference).                                  *)
(***************************************************************************)
SyncHeals ==
    [][\A w \in Workers :
        op[w].alone /\ CycleInterface(w) => Desired \subseteq iface' /\ iface' \subseteq Active]_vars

(***************************************************************************)
(* With one call at a time and a server that either applies a list or      *)
(* leaves everything as it was, the server and the database agree between  *)
(* calls: this is what the rollbacks of createInternal, revokeInternal and *)
(* update are for.                                                         *)
(***************************************************************************)
ServerMatchesDatabase ==
    InFlight = {} =>
        /\ conf = iface
        /\ Desired \subseteq iface
        /\ iface \subseteq Active

(***************************************************************************)
(* A peer whose term has passed loses access, through any later sync or    *)
(* through the periodic check (comments at EXPIRY_CHECK_INTERVAL_MS and    *)
(* checkExpiredPeers).                                                     *)
(***************************************************************************)
ExpiryEnforced ==
    \A p \in Peers : p \in iface \cap Expired ~> p \notin iface \cap Expired

(***************************************************************************)
(* The comment in createInternal: no phantom peer is left in the database  *)
(* that looks active but is not configured on the server.                  *)
(***************************************************************************)
NoPhantomPeer == InFlight = {} => Desired \subseteq iface

(***************************************************************************)
(* The comment on purge: revoking first guarantees that the peer is off    *)
(* the server before its row is forgotten.                                 *)
(***************************************************************************)
PurgedPeersAreOff ==
    [][\A w \in Workers :
        op[w].kind = "purge" /\ Remove(w) => op[w].peer \notin iface]_vars

-----------------------------------------------------------------------------
(* Refinement: calls that neither overlap nor die are atomic.              *)

\* The call that works on peer p, if there is one.
Holder(p) == CHOOSE w \in InFlight : op[w].peer = p

\* A change that is saved but not yet applied on the server does not count.
Settled ==
    [p \in Peers |->
        IF \E w \in InFlight : op[w].peer = p /\ op[w].stage \in {"saved", "read", "written", "restore"}
          THEN op[Holder(p)].before
          ELSE rows[p]]

Registry == INSTANCE PeerRegistry WITH account <- Settled, access <- iface, clock <- now

(***************************************************************************)
(* One call at a time is a transaction on the pair (database, server): it  *)
(* changes both in one step, or neither.                                   *)
(***************************************************************************)
ImplementsRegistry == Registry!Spec

=============================================================================

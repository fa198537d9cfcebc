# TLA+ models of VPN Manager

VPN Manager is a panel (NestJS backend, PostgreSQL, React frontend) that administers WireGuard
and AmneziaWG on rented servers over SSH. This directory holds TLA+ modules for the parts of it
where the order of events matters, the TLC configurations that check them on small instances, and
proofs for TLAPS. Paths below are relative to `backend/src/` unless they begin with `frontend/`.

How to run: `tlc -config PeerSync_concurrent.cfg MCPeerSync` checks one configuration, `tlapm
PeerSyncProofs.tla` checks the proofs of a module. `PROJECT.json` lists every run, the hazards each
property is meant to catch, a mutant of the model that breaks it, and the source lines each
definition stands for.

## What makes this system hard

The backend is one Node.js process. Nothing in it takes a lock over more than one database
transaction: every HTTP request, every bot message and every `@Interval` or `@Cron` timer is an async
function that is suspended at each `await` and can be overtaken there by any other. Most operations do
two things that cannot be done in one transaction, a row in PostgreSQL and a command on a remote host,
and undo one when the other fails. A call over SSH may fail before or after it took effect. The
backend may restart between any two steps (the panel updates itself by restarting), and nothing is
resumed afterwards. Entities are loaded, kept for seconds while SSH runs, and saved whole.

The modules therefore have one shape. A call in progress is a record (`op`, `admin`, `install`,
`request`, `issue`, ...) with its stage and what it has in memory; each action is the code between
two awaits; restarts, failures, edits and the clock are bounded by constants. Where calls may or may
not overlap, a constant says so: `Serial`, `OneAdmin` and `OneInstaller` are TRUE for an administrator alone
with the panel, and FALSE lets calls overlap at every await.

## Inventory

| Component | State | Operations | Talks to | Hard behaviour | What makes it correct |
|---|---|---|---|---|---|
| Peers (`peers/`) | `Peer` rows: status, term, address; map `appliedExpiry` in memory | create, update, revoke, purge, multi-configs, import, expiry timer, system peers | PostgreSQL, driver, load balancer, bot | row and server changed in turn, rollbacks, lost memory after a restart | server and database agree; terms are enforced; addresses are unique; peers go where their organization may |
| Bridges (`bridges/bridges.service.ts`) | `Bridge` rows: clients, upstream, upstream peer, status, table; tunnel, rules and ipset on the host | create, update, setUpstream, setMode, candidates, bypass list, rebalance timer, reassign, remove | peers (system peers), provisioning | long calls over two hosts with undo; four callers; whole-row saves | an active bridge is connected; bridges do not share keys or tables; no orphan peers; balancing comes to rest |
| Failover (`bridges/bridge-failover.service.ts`) | counters of probes per server, in memory | poll every 20 s | bridges | overlapping polls, flapping, restart | the bridge ends up on its first available candidate, and does not jump for a single lost probe |
| Servers (`servers/`) | `Server`, `ServerProtocol` rows with the address counter and the reserved peer | add, credentials, install, remove, version check, package update, detect and import | provisioning, bridges, peers | whole-row saves after SSH, removal with reassignment | ports and networks are distinct; nothing refers to a removed protocol |
| Provisioning and drivers (`vpn/`) | files, interfaces, packages on the servers | install, uninstall, applyPeers, scan, detect, client tunnel, NAT, bypass | ssh | sequences of commands that stop half-way | what a row tells clients is what the server answers; repeated runs converge |
| SSH (`ssh/`) | pinned host key of a server | connect with retry, exec with timeout | servers | retries, connections that have to be disposed of | every connection is closed |
| Load balancer (`load-balancer/`) | none | choose a protocol by load | peers | counts are stale when used | limits are exceeded only by requests that came together |
| Telegram (`telegram-bot/`) | registrations, dialogue drafts in memory, broadcasts | poll, dialogue, portal, approve, issue, reissue, remove, broadcast | peers, notifications | decisions on rows read before an await; drafts lost on restart; repeated updates | an old config stops working; a message can be taken back |
| Dashboard (`dashboard/`) | last counters in memory, traffic samples | poll every few seconds, prune, reports | provisioning | counters that reset, overlapping polls, rows that outlive peers | traffic is not counted twice; all reports tell of the same rows |
| MTProxy (`servers/mtproxy.service.ts`) | port, secret and date on the server row | install, rotate | ssh | server changed before the row | the shown link works again |
| Settings, nginx, certificates (`system/`) | settings row, generated file, certificate files, routing rules for Telegram | change domain, renew, choose a bridge for Telegram | docker, certbot, ssh | several steps with rollback; kernel state | nginx never gets a file it refuses, and follows the row |
| Update, backup, restore (`system/`) | the checkout, the images, the schema | update, restore | docker, git, psql | no transaction around the steps; the process that runs them ends | a failure leaves something that runs; a restored database is the dump |
| Authentication (`auth/`, `users/`) | lockout counter, token version | login, refresh, password change | | read, wait for bcrypt, save | changed passwords end sessions |
| Terminal (`terminal/`) | map of sessions per socket | start, input, disconnect | ssh | start overtaken by disconnect | no shell outlives its socket |
| Pages (`frontend/src/`) | query cache, tokens | queries, polls, calls, socket events | backend | answers out of order | a page shows what it was told |
| Audit log, bridge log, notifications, organizations, seed | rows | append, send, edit | | none that spans steps | |

Interactions: peers and bridges share `Peer` rows (the *system peers* of bridges), servers and peers
share the `ServerProtocol` row (counter, reserve), servers and MTProxy the `Server` row, bridges call
peers to create and revoke system peers, failover and the rebalance timer call `setUpstream`, removal
of a server calls `reassignUpstreamAwayFrom`, bot and portal call peers, settings and MTProxy call the
routing of Telegram, the update renders the nginx file of the settings.

## Modules

| Module | Models | Kind |
|---|---|---|
| `PeerRegistry` | what the panel promises about the peers of one protocol | abstract specification |
| `PeerSync` | `peers.service.ts` and `applyPeers` for one protocol | detailed specification, implements `PeerRegistry` |
| `HostAllocation` | the address counter, imports, whole-row saves | specification |
| `PeerPlacement` | which server or bridge a peer is put on, and `load-balancer.service.ts` | specification |
| `BridgeService` | what the panel promises about bridges: the upstream and status it shows, and the way of the traffic | abstract specification |
| `BridgeUpstream` | `setUpstream` for all bridges of the self-server | detailed specification, implements `BridgeService` |
| `BridgeLifecycle` | rows of servers, protocols and bridges, and their removal | specification |
| `BridgeRebalance` | the balancing timer | specification |
| `BypassRules` | bypass lists and `setupBridgeBypass` | specification |
| `FlapProtection` | `updateState` of the failover service | operators |
| `FlapHistory` | one server probed again and again | `FlapProtection` against its meaning |
| `BridgeFailover` | polls of the failover service | composes `BridgeUpstream` and `FlapProtection` |
| `ProtocolInstall` | the protocols of one server: install, uninstall, detect, reboot | specification |
| `MtProxy` | port and secret of the Telegram proxy, on the host and in the row | specification |
| `TelegramRouting` | the rules that lead bot and proxy through a bridge | specification |
| `TelegramDesk` | bot, portal and registrations, and the peers they issue | specification |
| `TelegramMail` | broadcasts and their removal | specification |
| `TrafficHistory`, `TrafficReports` | samples as they are taken, and the reports on them | specifications |
| `HttpsSettings` | settings, certificates and the nginx file | specification |
| `SelfUpdate` | `update.service.ts` | specification |
| `DatabaseRestore` | `restore.service.ts`, the seed, `synchronize` | specification |
| `Session` | login, lock, password changes, and the tokens in the browser | specification |
| `TerminalShells` | `terminal.gateway.ts` and its connections | specification |
| `PageData` | the query cache of the pages | specification |
| `PeerSyncProofs` | about `PeerSync` and `PeerRegistry` | proofs |
| `AllocationProofs` | about `HostAllocation` and `PeerPlacement` | proofs |
| `BridgeUpstreamProofs` | about `BridgeUpstream`, `BridgeService` and `BridgeFailover` | proofs |
| `BridgeProofs` | about `BridgeLifecycle`, `BypassRules`, `FlapHistory`, `BridgeRebalance` and `TelegramRouting` | proofs |
| `SystemProofs` | about `HttpsSettings`, `SelfUpdate`, `DatabaseRestore`, `ProtocolInstall` and `MtProxy` | proofs |
| `AccessProofs` | about `Session` and `TerminalShells` | proofs |
| `ReportsProofs` | about `TrafficHistory` and `TrafficReports` | proofs |
| `NewsProofs` | about `TelegramMail`, `TelegramDesk` and `PageData` | proofs |
| `MCPeerSync`, `MCHostAllocation`, `MCBridgeUpstream`, `MCBridgeFailover` | symmetry and lists of candidates for TLC | |
| `MCRequests`, `MCPanel`, `MCTimers` | parts that share no variable, in one run each | sums for TLC |

The parts of `MCRequests`, `MCPanel` and `MCTimers` share no variable and no constant that matters. A
behaviour of such a sum belongs to the part that the variable `part` names from the first state on, and
the others stay as they begin; the sum therefore has the states of its parts added, not multiplied, and
its properties are those of the parts. They are summed so that the runs stay few enough to
read. `MCRequests` has the addresses with calls that overlap, placement, pages, broadcasts, restores and
reports; `MCPanel` has life cycle, installation, settings, sessions, traffic, the Telegram desk and the
terminal; `MCTimers` has the parts with properties about what timers and retries bring about in the
end, and about their single steps: balancing, probes, bypass lists, MTProxy, the routing of Telegram and the update.

`CHECK_DEADLOCK FALSE` stands in the configurations in which the bounds let a behaviour stop: every
edit, failure and restart is used up and no call is in progress. (`BridgeFailover` polls for ever.)

### PeerSync

`rows` is the table of peers of one protocol; `conf` and `iface` are the peers in the file on the
server and those the running interface accepts, which differ when the connection is lost between
writing the file and cycling the interface. A call goes through *loaded* (entity in memory), *saved*,
*read* (the list `syncServerPeers` selected), *written* (file) and back to idle; on failure through
*restore* (the catch blocks of `createInternal`, `revokeInternal`, `update`); purge and the bot's
removals through *removing*. `Save` writes the whole object that was loaded, as TypeORM does, and
inserts it again when the row is gone. `Tick` is `checkExpiredPeers`; it stores the handled terms in
`appliedExpiry` before it syncs, as the code does, and its failure is only logged. `alone` marks a
call that nothing overlapped; it is an observation for `SyncHeals` and influences nothing.

| Run | Question | Bounds |
|---|---|---|
| `PeerSync_concurrent` | does an undisturbed sync repair whatever overlaps, a failure and a restart left behind? (`SyncHeals`) | 2 peers, 2 calls, 1 failure early or late, 1 restart |
| `PeerSync_atomic` | are calls transactions on (database, server)? (`ImplementsRegistry`) | 2 peers, one call at a time, 3 clean failures, clock 0..2 |
| `PeerSync_expiry` | is a lapsed term enforced? (`ExpiryEnforced`, liveness) | 2 peers, 1 restart, clock 0..2 |
| `PeerSync_lapsed` (violation) | one failed sync and the term is never enforced | 1 peer, 1 failure |

The concurrent run leaves the clock out (`MaxTime = 0`): with `MaxTime = 1` and no restart it has 7.5
million states and finds nothing either. Two calls and two peers suffice for the races: each hazard is
between two calls over one shared list, and a third call only repeats the part of one of them. The
clock needs a moment before and after a term, and one more for a prolonged term.

### HostAllocation

`nextHostOctet` is the counter on the `ServerProtocol` row, `rowOctet` the stored addresses,
`confOctet` the file on the server, which may also be edited by hand. Creation draws an address in a
locked transaction; import scans, looks up existing keys, inserts one by one, reads the maximum, and
bumps the counter under the lock. `RowWriters` says which calls of `ServersService` also save the row
they loaded: `"reserve"` (`ensureReservedUpstreamPeer` after an installation) and `"refresh"`
(`checkProtocolVersion`, `updateProtocolPackage`, `detectExisting`). TypeORM's save writes every
column that differs from the stored row, so such a save turns the counter back.

| Run | Question | Bounds |
|---|---|---|
| `Requests`, part `addresses` | are the panel's own addresses unique, and does the counter only grow, without such saves? (`CreatedAddressesUnique`, `CounterNeverFallsBack`) | 2 keys, 2 calls that overlap, 1 fault, addresses 2..3, no row writers |
| `HostAllocation_serial` | with one call at a time, can an import that broke off be repeated (`ImportRepeatable`), and are imported addresses never handed out again (`NoSharedAddress`, until something fails or a reserve is made)? | 3 keys, addresses 2..5, 2 faults, all row writers |
| `HostAllocation_reserve` (violation) | the save after the reserve is made | 2 keys |

With overlapping calls the range is as long as the number of keys, and an address drawn by a creation that
fails is not given back, so it is exhausted there.

### PeerPlacement

`clerk` is a request for a peer, or a pair of peers for both protocols, with the way it came: `AskPanel`
with a chosen server or bridge or none, `AskBot` with an option that is resolved later, and the balancer
where nothing was chosen. Administrators change what the organization may use (`SetAccess`), and make
bridges in three steps: the client interface is installed, the row is saved, the bridge is handed over.
A revocation (`revoking`, and the stages *undoing* and *taking* of a request that takes the first of a pair back)
is two steps, as in `revokeInternal`: the peer is saved as REVOKED and counts no more; then the server was told, or
it was not and the peer is ACTIVE again. The row that `createInternal` saves and deletes again when the server refuses is not
counted apart: it stands where the peer of the request is counted as coming.
`could` and `own` remember, for `AccessRespected`, what was open to the organization at some time of the
request: the interfaces of its servers and of the bridges that were not blocked for it, and the bridges that
were its own or nobody's. For a bridge both are asked, but not necessarily of the same moment (see Findings).

Part `placement` of run `Requests`: `AccessRespected` and `LimitNearlyKept` with one bridge, two servers
(one carries the bridge), limits of one peer, 2 peers, 2 decisions, 2 refusals and one revocation at a time (`Revokers`). A limit of one makes every
pair reach it. A second request, or a revocation, is in progress at the same time only where the organization has nothing but the bridge
and before anything else is decided (`OverlapBound` of `MCRequests`), which is where the limit can be
passed by requests that each found room, or room that a revocation gave back and took again. The theorem has no such bound. `Unguarded = FALSE` keeps requests from
coming while a bridge is half made (see Findings).

### BridgeUpstream

`row` is the bridge table (upstream, its peer, status), `live` the system peers that are accepted on
their servers (number 0 is the reserved one), `tunnel` the peer each bridge's client interface runs
with, `routed` the bridges whose NAT and policy routing rules are installed. One call is one
`setUpstream`: mark CONFIGURING, take the reserve or make a peer, take the old tunnel down, bring
the new one up, install the rules, save, revoke the old peer; with the inner catch (take back a peer
made for nothing) and the outer one (status ERROR, old upstream kept). A failure leaves of the tunnel what was
done before it (`Remains`): in the connection the new one may be up already, because `connectAsClient` adds the
route after `quick up`. `BeginEdit`/`SaveEdit` are the
other calls that save the whole bridge (`update`, `setMode`). `Fragile` lists the stages where SSH may
fail in a run. `NoOrphanPeers` holds only when failures stop before the rules: after
that the inner catch of `setUpstream` does not reach, and a peer made on the fly stays on the target. `ImplementsService` and `SeparateKeys` hold with all stages in `Fragile` as well,
which their theorems cover; with failures everywhere the run would have to do without the other one. `SeparateKeys`
excuses a bridge that a failed or cut-off switch left running with a key its row does not name (`Stray`).

| Run | Question | Bounds |
|---|---|---|
| `BridgeUpstream_serial` | does a call keep what the page promises of every bridge (`ImplementsService`); are keys not shared, but for strays, and without the restart peers not orphaned (`SeparateKeys`, `NoOrphanPeers`)? | 2 bridges, 2 targets (one with a reserve), one call at a time, 3 failures before the rules, 1 restart, 1 reboot |
| `BridgeUpstream_concurrent` | does an undisturbed switch repair what overlapping ones left? (`SwitchRepairs`) | 2 bridges, 2 calls, 1 failure anywhere, 1 reboot of the host |

`BridgeService` knows no calls, peers or SSH: a bridge is shown with an upstream and a status, its traffic has a
way, and one bridge at a time is switched. While it is shown as configuring, its own way may be lost or changed and no other;
it is then shown as active with the way it has, or as an error with the upstream that was shown before. The
mapping: a bridge has a way when its tunnel runs with an accepted peer and its rules are there (`Ways`), and a call is
a switch from its first save to its last step (`SwitchesOf`). After a reboot in the middle of a call the panel
may still save ACTIVE for what the reboot took away, because nothing looks again (`WentLate`): `cut` allows that for the
bridge being switched, and nothing more.

Peers made on the fly are numbered; a number is used again when nothing mentions it, so the bound
`MaxMade` limits how many exist at once, not how many are ever made.

### BridgeLifecycle, BridgeRebalance, BypassRules

`BridgeLifecycle` has the rows and their foreign keys: servers are added and removed (which first moves
the bridges away, `reassignUpstreamAwayFrom`), protocols come and go, bridges are made with the next
route table and removed, the list of servers sets `isSelf`. A switch is one step that ends ACTIVE or ERROR. Part
`lifecycle` of run `Panel`: `ActiveBridgeHasUpstream`, `ChosenUpstreamLeavesHost`, `RouteTablesDistinct` with 3
servers, 2 bridges, 1 kind, 2 tables and 1 incident, one administrator.

`BridgeRebalance` compares loads as the code does, in whole numbers that stand for its floating-point
comparison. The peer of a bridge counts in the load of its upstream unless it is the reserved one, so a
move changes what the next bridge sees. Part `rebalance` of run `Timers` begins in any state with 2
bridges, 3 servers of capacities 6, 11 and 11, up to 4 other clients and 1 change: `BalancingSettles`, and
`MovesLast`, that right after a move the timer would not move the same bridge again. The third server makes the
choice among the better ones matter, and 6 is the smallest capacity for which `MovesLast` holds (`RoomEnough`, see Findings).

`BypassRules` has `setupBridgeBypass` command by command: the temporary set, the swap, the rules, for an edit
and the timer, which may overlap. Part `bypass` of run `Timers`, with an address and a name, 2 edits and
2 troubles: the list is in force in the end (`BypassConverges`), its renewal leaves no gap (`NoGap`), and a call
that ran alone leaves nothing but its list in force, whatever was in the sets before (`LoneSyncApplies`, which
is proved and in no run: what `BypassConverges` shows of its single step).

### FlapProtection, FlapHistory, BridgeFailover

`UpdateState` is `updateState`, with counters that stop at the threshold (they are only compared with
it). `FlapHistory` keeps all results of one server and states what `reachable` means: the result of
the latest full run of equal results (part `probes` of run `Timers`, all histories of 9 probes with
threshold 3). `BridgeFailover` extends `BridgeUpstream`: a poll reads the bridges, probes all
candidates in one step (a probe times out long before the next poll), and then, bridge after bridge,
calls `setUpstream` as a worker of `BridgeUpstream`. `answers` is which servers are up; it changes at
most `MaxFlips` times, and `MaxHiccups` probes of servers that are up are lost.

Run `BridgeFailover`: does the bridge end up on its first available candidate (`Settles`, when no SSH call
failed and nothing restarted), and is a server that was always up never left for a worse one
(`SteadyUpstreamKept`, with failures, a restart and a reboot)? Main and spare, 3 flips, 1 lost probe,
1 SSH failure anywhere, 1 restart, 1 reboot, threshold 3. One bridge is enough, because a poll treats
bridges one after the other.

### ProtocolInstall

`row` says what clients are told (port, network, public key), `files`, `enabled` and `running` what the
server has and answers with. An installation chooses from the rows, writes file and keys, starts the
interface and saves the row; a failure leaves what it has done. A protocol is removed with or without its
interface; `DetectExistingInstallations` enters what it finds; a reboot starts what is enabled. Part `install` of
run `Panel`: `ActiveProtocolAnswers` with three interface names (the default ones and one of a bridge), 2
rows, 3 installations, 2 faults, 2 ports.

### HttpsSettings, SelfUpdate, DatabaseRestore

`HttpsSettings`: calls (`update`, renewal by hand and by timer) with the row as they read it, certificates on
disk, and the file nginx runs with. Part `https` of run `Panel`: `ServesOwnCertificate`, and
`NginxFollowsSettings` for a call that ran alone; 2 domains, 2 calls at a time, 3 in all, 2 mishaps.

`SelfUpdate`: the sequence of `update.service.ts`; every commit changes template and code together, which is
the worst case, so a file made by old code from a new template is one that nginx refuses. `Updates` are the
sequences that may run at a time, as `triggerUpdate` asks nothing; a new backend runs none of them. Part `update` of run
`Timers`: `NginxKeepsRunning` and `UpdateCompletes`, 2 sequences, 3 commits, 3 failures or reboots. Neither property says
anything once two sequences have overlapped (see Findings), so `MCTimers` follows no behaviour further than that.

`DatabaseRestore`: a table is there, keyed, and has rows of the dump, others or both; psql runs statement by
statement and goes on after errors. Part `restore` of run `Requests`: `RestoredIsTheDump` with 2 tables, 2
restores, 1 write of the panel and 1 fault.

### Session, TerminalShells, PageData

`Session`: one account; a login reads the row, waits for bcrypt and saves it whole; the page in the browser
has several requests that share a renewal. A request carries the token it was sent with: it is *late* when that expired
before the request was checked, and its 401 may come at any time, also after the others have a new token, and then
asks for one more renewal. Part `session` of run `Panel`:
`OldSessionsEnd` and `NoRequestRejected`, with a guesser, 2 requests, 2 attempts, 1 change of the password.

`TerminalShells`: sockets, the connections opened for them and the map by which they are found again; a channel that was
ended still has its close event to come. Part
`terminal` of run `Panel`: `ShellsEndWithSocket` with 2 sockets, 3 connections and 2 attempts.

`PageData`: a table is the number of its changes, a query the number it read. To invalidate a query is to drop the fetch in
progress for a new one, if there are data already; a first load is joined, as in React Query 5, and `behind` has the
queries whose first load the backend had answered by then. `Page` has, for each page, its
queries, those that poll, and the queries each of its calls refreshes. Part `pages` of run `Requests`: `ToldIsShown`,
all pages, 2 edits, 1 failure. A behaviour has one page; `Gaps` names the three omissions of the code.

### TelegramDesk, TelegramMail, TelegramRouting, MtProxy

`TelegramDesk`: one person and one device; updates stay in Telegram's queue until a poll confirms them, so that they
come again after a restart; dialogue and requests are in memory. `peers` are those that servers accept; each has a row, which
`revokeInternal` saves as REVOKED before the server is told (`SaveRevoked`), and which goes after that (`Dropped`) or is
put back (`PutBack`); `LaterSync` is any other sync of the protocol. Part `desk` of run `Panel`: `OldConfigStops` with
2 issues, 1 pending update, 1 fault; what is once excused stays so, and `MCPanel` follows it no further.

`TelegramMail`: broadcast and removal message by message; a request may do its work and still fail. Part `mail` of
run `Requests`: `MessagesCanBeTakenBack` with 2 chats, 2 broadcasts, 2 removals at a time and 2 faults.

`TelegramRouting`: of rules with equal priority the first decides, and all are lost when the host reboots. Part
`routing` of run `Timers`: `TelegramThroughChosen` in the end, and `RoutedOrOnTheWay` in the meantime, 2
bridges, 3 choices, 3 troubles. `MtProxy`: part `proxy` of run `Timers`, `LinkOpensAgain` with 2 ports, 6 secrets, 3
failures; `LoneSavesOpen`, for a call that nothing overlapped (`crossed` observes that), is proved and in no run.

### TrafficHistory, TrafficReports

`TrafficHistory` follows the bytes of one peer from the interface into the samples, with polls that overlap.
Part `traffic` of run `Panel`: `ReportsOnlyWhatMoved` with 3 bytes, 2 polls and 3 mishaps. `TrafficReports` has the
rows, and the reports by server, organization, peer and month over them, while peers change hands and go. Part
`reports` of run `Requests`: `ReportsShowWhatWasRecorded` against a ledger of every row as it was written; a client and
a system peer on 2 servers, 2 organizations, 2 samples, 2 changes.

Each of these bounds lets the case its property is about happen, which the mutants in `PROJECT.json` show: each
is a plausible bug in the code behind the property, and the run finds it with the same bounds.

## Fairness

Safety runs assume none. `FairSpec` of `PeerSync` has weak fairness of `Continue` (the event loop
runs a started call to its end; SSH commands have timeouts) and strong fairness of `Tick` (the
interval timer fires for ever; strong, because other calls may occupy the worker in between; the
timer itself never waits for them). `FailoverSpec` has weak fairness of every poll step: interval timer
and event loop. `BridgeRebalance`, `BypassRules` and `MtProxy` have it of their timers, which never stop, and of
the steps of calls, which end. `TelegramRouting` lets each call have its turn, to succeed or to fail.
`SelfUpdate` lets the steps of a sequence and the helper come to an end, again to succeed or to fail. `MCTimers`
takes over the fairness of the part whose behaviour it is. Operators, failures, restarts and the clock
are never fair. The liveness properties hold without failures that recur for ever only because failures
are bounded, which is what "the server answers again" means.

## Findings

Two runs are marked *violation*; `PROJECT.json` quotes the line each of them contradicts:

* `PeerSync_lapsed`: the expiry check marks a term as handled before it is, so one failed SSH call
  leaves a peer with a lapsed term connected.
* `HostAllocation_reserve`: `ensureReservedUpstreamPeer` saves the reserve's id on an object that still
  holds the old address counter; the next peer gets the address of the reserve.

Further disagreements between code and comments that a change to one configuration shows:

* `peers.service.ts:365` (no phantom peer): `PeerSync_concurrent` without failure and restart, checking
  `NoPhantomPeer`. Nothing serialises syncs of a protocol; the one that read first may write last.
* `peers.service.ts:393` (purge only after the server was told): the same, checking
  `PurgedPeersAreOff`. Purge trusts a status that is stored before the server is told.
* `peers.service.ts:952` (imported addresses are not handed out): `HostAllocation_reserve` with one fault
  and `RowWriters = {}`, checking `NewAddressIsFree`. An import cut off before the bump is never made
  good, because its repetition imports nothing.
* `server-protocol.entity.ts:83` (a reserve is used again only if no other bridge has it): `BridgeUpstream_serial`,
  checking `SeparateKeys` without `Stray`. A reserve counts as free until the last save of the switch: a switch that
  fails after `quick up`, or that a restart cuts off, leaves its bridge running with the reserve, which no row names and the
  next bridge takes.
* `README.md:120` (the bridge returns to the first available candidate): `BridgeFailover`, checking `Settles`
  without its condition: a failed switch is not repeated when the row already names the best
  candidate, and a bridge that was CONFIGURING when the backend restarted is passed over for ever. With
  two pollers it fails with the condition as well: overlapping polls switch one bridge twice at a time.
* `bridge-failover.service.ts:13` (no jump on a single lost probe): `BridgeFailover`, checking
  `SteadyUpstreamKept` without its last condition. After a restart the servers become known one by one.
* `Panel` with `Neighbours = TRUE`: the removal of a bridge does not reassign the bridges that use its client
  interface, which stay ACTIVE without an upstream. With `OneAdmin = FALSE` two bridges get the same
  table, and a switch that overlaps a removal leaves one ACTIVE without upstream.
* `Requests` with `Unguarded = TRUE`: while a bridge is being made, its client interface counts as an ordinary
  protocol of the panel's own server, and a peer of an organization that may not use it is put there.

What the properties excuse, or the model leaves to a bound, because the code does go wrong there:

* Servers: a host that is entered twice loses `isSelf` in one of the rows, and an automatic choice may then lead
  to the own host (`EnteredOnce`). `testConnection` and `updateCredentials` save whole rows read before SSH.
* Rebalancing: with a capacity of 5 or less one move is more than the threshold, and bridges go back and forth
  (`RoomEnough`).
* Bypass lists: one that was emptied while the host did not answer stays in force for ever; an edit and a refresh
  that overlap share the temporary set (`mixed`); a name that does not resolve drops out of the list.
* Placement: `resolveUpstreamOption` does not ask again whether the choice is still allowed; the form looks at
  the list of blocked bridges first and at the organization of the bridge later, so that a bridge may be taken
  that the organization could use at no single moment (`could` and `own` are separate for that reason); the limit of a bridge is
  counted before the peer is created, so that pairs and requests that overlap exceed it, and so does a peer that was being
  revoked at that moment and is ACTIVE again because its server did not answer;
  `pickServerProtocolForOrganization` refuses when the default bridge lacks the protocol, though others would do;
  a pair whose second peer fails may stay half if its removal fails too.
* Installation: one that failed after its interface was up blocks the next on the same name; the blocked one has
  by then overwritten keys and file, so that `detectExisting` enters keys the interface does not run with;
  `detectExisting` writes to any row of the kind, and marks it ACTIVE without an interface; a failed installation
  stays enabled and may take the port at the next boot (`unclear`); a second installation of a kind
  overwrites the default interface's keys; overlapping ones choose the same port.
* Settings: a renewal saves the row it read and reverts a domain changed meanwhile; a certificate that is not
  issued for a new domain turns HTTPS off although the old one is valid.
* MTProxy: a save of an older row leaves a wrong port in the link that nothing repairs.
* Routing of Telegram: after another bridge was chosen, the old rule with the same priority stays first until the host
  reboots (`since`).
* Update: an update that begins while the helper of the last one works is cut off half-way (`again`); `triggerUpdate`
  does not keep two sequences apart, and when one pulls and renders between the render and the recreation of
  the other, nginx is recreated onto a file it refused (`again` as well); a reboot after a file nginx refused leaves
  nginx down (`rebooted`).
* Restore: psql goes on after errors and reports 100 % whatever failed, also at the end of a dump that was cut
  off; rows the panel writes between CREATE TABLE and ADD KEY make the key fail, and then the
  backend does not start again, because `synchronize` cannot add it either; a second restore cuts off the first.
* Sessions: a failed login that overlaps a change of the password writes back the old hash and token version, or
  inserts a removed user again (`overtaken`); the counter of attempts is not reset when a lock runs out; a renewal that is not
  answered signs out a session that still holds (`RenewalLost`).
* Terminal: the connection of a socket that went while it was set up, of a start that another overtook, and
  one whose shell was refused, stay open (`left`). The close event of a channel that a new start replaced comes later
  and closes the session of the new start, because it looks for the socket only.
* Pages: the three `Gaps` (BridgePage does not refresh the candidate servers, contrary to its comment at
  101-103); a call that failed refreshes nothing although the backend may have saved ERROR; what a socket
  missed is not caught up on; a call that succeeds, or an event that comes, while a query loads for the first time does not
  start it anew, and an answer that the backend gave before it is shown until the next fetch (`behind`).
* Bot and portal: a single config over a pair leaves one peer of the pair; bot and portal at the same time issue two
  (`excused`); a restart between creation and link leaves a peer nobody finds; one between the save of REVOKED and the
  sync leaves the old peer on the server, where it works until something else syncs the protocol: reissue and removal look for
  ACTIVE peers only (`peers.service.ts:682`, `855`, `883`) and do not find it again (`LeftBehind`).
* Broadcasts: a message that was sent but not answered in time, a restart in the middle, and a refused deletion
  leave messages that nothing takes back (`stranded`).
* Traffic: a failed `wg show` counts as zero, and the next difference counts everything again; a poll that was
  overtaken counts twice (`misled`). In the reports, "all rows of a peer have the same organization" is not
  so once it changed hands.

## What is proved

Proofs hold for all values of the constants that the `ASSUME`s of the modules allow: any number of peers,
servers, bridges, calls in progress, failures, restarts and edits. A theorem that needs more says so in its
`ASSUME`; these are the conditions (`Findings` has what happens without most of them):

| Condition | Meaning | Theorems |
|---|---|---|
| `OneCallAtATime` (`PeerSync`), `Serial` (`HostAllocation`, `BridgeUpstream`) | no two calls overlap; in `PeerSync` also no late failure and no restart | as named below |
| `OneAdmin`, `OneInstaller` | one administrator at work | all of `BridgeLifecycle`; `InstallTyped`, `ClientsAreToldTheTruth` |
| `~Neighbours` | no bridge has a client interface of another as its upstream | `ActiveBridgesAreConnected` |
| `~Unguarded` | no request comes while a bridge is half made | both of `PeerPlacement` |
| `RowWriters = {}` | `ServersService` saves no row it read earlier | `CreatedAddressesStayUnique`, `CounterGrows` |
| `RoomEnough`, inside `MovesLast` | every server takes more than five clients, or none at all | `BalancedBridgesStay` |
| `Fragile` within creating, disconnecting, connecting | SSH fails before the rules are installed, or not | `PeersAreUsed` |
| `MaxHiccups < Consecutive` | fewer probes of a server that is up are lost than it takes to give it up | `SteadyUpstreamsAreKept` |

Where no condition is named below, calls overlap in every way.

**`PeerSyncProofs`.** `TypeCorrect`. `SerialCalls` and `ServerFollowsDatabase`, with `OneCallAtATime`: server and
database agree between calls. In the middle of a call they differ, so the invariant says what holds at each
stage (the database with the pending change taken back agrees with the server, and from *written* on the file
is the list read). `CallsAreTransactions`, under the same condition: every step of `PeerSync` is one of `PeerRegistry`
or leaves its variables unchanged, under the mapping `Settled` (a row that is saved but not applied counts as
what it was before). `LoneSyncsHeal`, an action property, for any overlap before the call: `AloneFits` says that
the list it read lies between the peers that are desired and those that are active, which time may not change
while nobody else saves a row.

**`AllocationProofs`.** *Addresses*: `TypeCorrect`. `CreatedAddressesStayUnique` and `CounterGrows`: an address can come
back from a row, from the file and from the memory of a call, so uniqueness is strengthened to every place that
`Carries` an address, with the counter ahead of all addresses of the panel. With `Serial`,
`ImportsCanBeRepeated` (what an import is about to insert has no row), and on top of it `StoredAddressesAreUnique`,
which needs that file and counter are in order whenever nobody is in the middle of a creation or an import:
`PlainInv` says for each stage what is not in order yet. It holds only as long as nothing failed and no reserve was
made; as neither is ever undone, a step that ends with them so also began so.
*Placement*: `PeersGoWhereTheyMay` and `LimitsAreNearlyKept`. `Justified` says that what a request knows at each stage
(the options shown, the choice, the interfaces it may fall back to) was open to its organization at some time;
the limit needs that each request in progress adds at most two to what was counted and each revocation at most one, and
lemmas that the pairs still coming and the revocations are finitely many.

**`BridgeUpstreamProofs`.** `TypeCorrect` (the type of a row says that its peer belongs to its upstream, so the
invariant has to know whose peer a call is holding). With `Serial`, `ActiveIsConnected`, with failures in
every stage, more than the run allows: a revocation is the step that could break it, and `PreviousIsGone` and
`FreshOrReserve` say that the revoked peer is in no row, which needs `OwnPeers` (rows do not share peers) and
`HeldIsRow` (the object in memory is the row). With `Serial` and the condition on `Fragile`, `PeersAreUsed`: a
peer made on the fly is in a row or in the hands of a call. `KeysAreSeparate` needs `Serial` only, and rests on the invariant
of `CallsKeepTheService` (`WaysInv`, below): a bridge that is no stray runs with the peer of its row or with the one its call
is about to record, and rows do not share peers. `UndisturbedSwitchesRepair`, for any overlap before
the switch: `OnItsOwn` says how far the connection is at each stage of a call that is alone.
`CallsKeepTheService`, with `Serial`: every step of `BridgeUpstream` is one of `BridgeService` or leaves its variables
unchanged, and only the bridge of the call changes. A way is lost when its peer is revoked, so the invariant
`WaysInv` has to say whose tunnels run with which peers: no tunnel but its own runs with the peer a row records, unless it is a reserve
(`TunnelsApart`), and what a call has made or is to revoke is in no tunnel but the one it brought up (`TunnelFits`).
`FailoverCallsSetUpstream` maps each step of a poll to a call of `setUpstream`, or to none: the failover mode is
one more caller, and the invariants above that need no `Serial` are its own too. `SteadyUpstreamsAreKept`, an action
property of overlapping polls: a server that never was down fails no more probes than were lost, and without
lost probes no server is found reachable before it (`SteadyFirst`); `AtEligible` follows where calls in progress,
rows and memory may still take a bridge.

**`BridgeProofs`.** *Rows*: `LifecycleTyped`, `ActiveBridgesAreConnected`, `UpstreamsLeaveTheHost`, `TablesAreDistinct`. `RowsInv`
relates the tables (every upstream exists, no automatic one is on the row that carries the bridge), and
`CallsInv` says what is true while a bridge is made (nothing refers to it yet; its table is above all others) or
something removed (what hangs on it is still on the list of the removal). *Bypass lists*: `RenewalLeavesNoGap`, an action
property. The swap is the step that could make a gap; `TmpFills` says that what is missing from the temporary set
is still to be added, if no other call touches that set. `LoneCallsApply`, on top of it: `Applied` says, for each stage of a call
that is alone, where its list is (in what is left to add, in the temporary set, in force). *Moves*: `BalancedBridgesStay`, an
action property: a move changes two loads by one client each (`MoveCounts`, about the cardinalities of `On`), and one
client is less than a fifth of a capacity above five (`OneIsLess`); of the better servers the least loaded was
taken, so none is better afterwards. `RebalanceTyped` gives the loads their type. *Telegram*: `RoutesAreOnTheirWay`: `RoutingInv` says
that the tables of a flow are of bridges that were chosen, and that what is needed is there or among the calls in progress while
none of them failed. *Probes*: `FlapProtectionIsCorrect`: each counter
is tied to the length of the run at the end of the history.

**`SystemProofs`.** `HttpsTyped` and `InstallTyped`, the types. `NoMissingCertificate`, and `LoneCallReachesNginx`, an action property: a call that nothing
overlapped renders the row that is in the table (`RendersWhatIsSaved`). `NginxStays`: what nginx runs with is not
enough, because the file on disk may be one that it refuses; `FileStaysGood` adds that while a sequence is about to
recreate the container, the file is good, and stays so when settings are saved at that moment. As long as sequences have not
overlapped one at most is running, which is why the theorem stops there; a helper of an earlier one may be at work
beside it. `RestoreIsWhole`:
`TablesFollow` says, for each statement of the running restore, what each table that nothing else wrote looks like
before and after it; `EndsAreFinal`, that a restore which reported its end, or whose process ended, runs no more
statements. `ClientsAreToldTheTruth`: the file of an active protocol has to be right as well as its interface, for
the next boot (`Answers`), no two active rows may name one interface, and an installation in progress keeps away
from interfaces and networks in use (`Apart`), which lets it reclaim those of anything left behind.
`LoneSavesGiveTheProxy`, an action property: `JobFits` says how far a call that is alone has brought row and host together, which is all that can be
said, since a save may be lost and an older row written at any other time.

**`AccessProofs`.** `SessionTyped` and `ShellsTyped`, the types. `PageSeesNoRefusal` (a request is repeated only with a token that is still good; that
a session goes on is not claimed) and
`RenewedForThisPassword`, an action property (every copy of the row, and the token of the page, have the version
that belongs to their password). `ShellsEnd`: a shell that opens overwrites the entry of its socket, so `StartsAlone`
says that a start nothing overtook finds that entry empty; `HasSocket` and `NamesItsOwn` tie connections,
sockets and entries together.

**`ReportsProofs`.** `ReportsTyped` and `ReportsAreExact`: the four reports are sums over the samples, compared with sums
over the ledger; the rows in their range are the same, because only rows older than the longest range are pruned.
`TrafficTyped` and `NothingInvented`: what had been moved when a poll read its total is known to nothing in the
model, so the invariant says that such numbers exist (`at`, `base`) by which every total in memory can be `Judged`,
and the proof gives the new ones after each step.

**`NewsProofs`.** `BroadcastsCanBeTakenBack`: a removal knows of each message that it is gone, refused or still to do.
`DeskKeepsTypes`, the types of `TelegramDesk`: with them that the bot never handles an update it has not fetched.
`OldPeersAreGone`: from the revocation on nothing else is linked (`OldsAreFound`), if issues did not overlap; a call may write
back what it has read, so the peers that have to be of one issue are those that are linked and those in the hands of calls (`Claimed`).
`PagesShowWhatTheyKnow`: an answer on its way is never older than what the page was told, unless it is a first load that was joined
(`ReadIsShown`), which needs, page by page, that each call refreshes the queries that show what it writes.

Some theorems state formulas that no run checks, because a property of a run says nearly the same within its bounds:
`ServerFollowsDatabase` (`ImplementsRegistry` says it but for the file of the server being that of its interface),
`ActiveIsConnected` (`ImplementsService` says it until the host reboots), `LoneCallsApply` and `LoneSavesGiveTheProxy` (see above); and
the type theorems, whose formulas are conjuncts of what other invariants rest on.

What is only model-checked, and why:

* liveness: `ExpiryEnforced`, `Settles`, `BalancingSettles`, `BypassConverges`, `LinkOpensAgain`, `TelegramThroughChosen` and
  `UpdateCompletes` are about fairness, which is out of the prover's reach. What they need of single steps is proved where it can be
  said so: `BalancedBridgesStay`, `LoneCallsApply`, `LoneSavesGiveTheProxy`, `RoutesAreOnTheirWay`;
* the bound on `placed` in `PlacementTypeOK`, which `PlacementTables` has only as a number.

`FewTargetsAssumption`, that there are finitely many servers, is in `BridgeFailover` because the failover takes the
first of those that are reachable.

## What is not modelled, and the plan

Left out everywhere: keys and the text of configs, formatting, logging, progress messages and validation of
forms; no property here depends on them. Also left out, with the reason:

* timeouts of SSH commands and the pinned host key: a call is a step that succeeds, fails early or late (a
  command whose call timed out and that still runs is the late failure);
* news and instructions of the bot, audit log, bridge log, notifications of administrators: rows and sends
  on which no later step depends;
* fail2ban, version checks of packages, the parsing of command output: one command each, no state;
* the candidate list of a bridge changes by `setUpstreamCandidates`; `BridgeFailover` takes it as a constant;
* the snapshot of the dashboard with its rates, labels of organizations, and rendering in the frontend:
  shown and forgotten;
* forms and dialogs of the pages: what a user types is an input of the call it becomes;
* deployment files: configuration, of which `SelfUpdate` has how it is rebuilt.

What would come next: pairs of peers inside `PeerSync` (their two syncs are independent calls there).

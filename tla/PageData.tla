------------------------------ MODULE PageData ------------------------------
(***************************************************************************)
(* What the pages of the panel show: the query cache of one browser tab    *)
(* (src/frontend/src/main.tsx, React Query), the queries and the calls of  *)
(* each page (src/frontend/src/pages), and the tables of the backend,      *)
(* which other people and the timers of the backend change as well.        *)
(*                                                                         *)
(* A table is the number of changes it has seen; a query holds the number  *)
(* it read.  Forms, their fields and the rendering are left out.           *)
(***************************************************************************)
EXTENDS Naturals, FiniteSets, FiniteSetsExt

CONSTANTS
    MaxEdits,  \* bound on the changes of all tables together
    MaxUpsets  \* bound on calls and fetches that fail

ASSUME PageAssumption == {MaxEdits, MaxUpsets} \subseteq Nat

VARIABLES
    table,   \* the changes each table has seen
    page,    \* the page that is open; another page begins another behaviour
    cache,   \* queries: what their data was read at; 0 for no data
    fetch,   \* queries: the fetch in progress
    call,    \* the mutation in progress
    told,    \* tables: the newest change that the open page has been told of
    behind,  \* queries whose first answer the backend gave before the page was told of a change
    news,    \* the newest event on its way on the socket of BridgePage; 0 for none
    upsets

pageVars == <<table, page, cache, fetch, call, told, behind, news, upsets>>

-----------------------------------------------------------------------------
(* The pages: the queries they show, those that poll, and their calls with *)
(* the tables that the backend then changes, of those the page shows, and  *)
(* the queries that the page refreshes when the call succeeded.            *)

Edit(writes, refreshes) == [writes |-> writes, refreshes |-> refreshes]

\* The table whose rows a query lists.
Reads == [peers |-> "peers", organizations |-> "organizations", users |-> "users",
          servers |-> "servers", candidateServers |-> "servers", mtproxyStatus |-> "mtproxy",
          bridges |-> "bridges", candidateStatus |-> "bridges",
          settings |-> "settings", systemSettings |-> "settings", version |-> "release",
          registrations |-> "registrations", news |-> "news", instructions |-> "instructions",
          broadcasts |-> "broadcasts", portalStatus |-> "peers", upstreamOptions |-> "bridges"]

Queries == DOMAIN Reads
Tables == {Reads[q] : q \in Queries}

\* Creation, revocation, purge and change of a peer.
PeersPage == [shows |-> {"peers", "organizations", "servers", "bridges"}, polls |-> {},
              does |-> {Edit({"peers"}, {"peers"})}]

\* Servers and their protocols: every call comes back to one list.
ServersPage == [shows |-> {"servers"}, polls |-> {"servers"},
                does |-> {Edit({"servers"}, {"servers"})}]

\* The card of the self-server.
ServerCard == [shows |-> {"servers", "mtproxyStatus"}, polls |-> {"servers"},
               does |-> {Edit({"mtproxy"}, {"mtproxyStatus"}), Edit({"servers"}, {"servers"})}]

\* The page of bridges: creation and removal.
BridgePage == [shows |-> {"bridges", "candidateServers", "organizations"}, polls |-> {},
               does |-> {Edit({"bridges", "servers"}, {"bridges"})}]

\* The card of a bridge: its upstream, mode, candidates, limit and bypass list.
BridgeCard == [shows |-> {"bridges", "candidateServers", "organizations", "candidateStatus"},
               polls |-> {"candidateStatus"},
               does |-> {Edit({"bridges"}, {"bridges"})}]

\* Each form of the settings fetches them again; that of the branch, the version as well.
SettingsPage == [shows |-> {"version", "systemSettings", "bridges"}, polls |-> {},
                 does |-> {Edit({"settings"}, {"systemSettings"}),
                           Edit({"settings", "release"}, {"systemSettings", "version"})}]

\* Texts, news, instructions and broadcasts of the bot, and its registrations.
TelegramBotPage == [shows |-> {"registrations", "settings", "news", "instructions", "broadcasts"}, polls |-> {},
                    does |-> {Edit({"settings"}, {"settings"}), Edit({"registrations"}, {"registrations"}),
                              Edit({"news"}, {"news"}), Edit({"instructions"}, {"instructions"}),
                              Edit({"broadcasts"}, {"broadcasts"})}]

UsersPage == [shows |-> {"users", "organizations"}, polls |-> {}, does |-> {Edit({"users"}, {"users"})}]

\* Removing an organization leaves its peers without one.
OrganizationsPage == [shows |-> {"organizations", "peers"}, polls |-> {},
                      does |-> {Edit({"organizations"}, {"organizations"}),
                                Edit({"organizations", "peers"}, {"organizations"})}]

ClientDetailPage == [shows |-> {"organizations", "users", "peers", "servers", "bridges"}, polls |-> {},
                     does |-> {Edit({"organizations"}, {"organizations"}), Edit({"users"}, {"users"})}]

\* The public page of a person: the status polls, the options belong to the open dialog.
PortalPage == [shows |-> {"portalStatus", "upstreamOptions"}, polls |-> {"portalStatus"},
               does |-> {Edit({"peers"}, {"portalStatus"})}]

DashboardPage == [shows |-> {"organizations", "servers"}, polls |-> {}, does |-> {}]

Page == [PeersPage |-> PeersPage, ServersPage |-> ServersPage, ServerCard |-> ServerCard,
         BridgePage |-> BridgePage, BridgeCard |-> BridgeCard, SettingsPage |-> SettingsPage,
         TelegramBotPage |-> TelegramBotPage, UsersPage |-> UsersPage,
         OrganizationsPage |-> OrganizationsPage, ClientDetailPage |-> ClientDetailPage,
         PortalPage |-> PortalPage, DashboardPage |-> DashboardPage]

Pages == DOMAIN Page
Shown == Page[page].shows

-----------------------------------------------------------------------------

NoFetch == [stage |-> "none", version |-> 0]
Asked == [stage |-> "asked", version |-> 0]
NoCallSent == [stage |-> "idle", edit |-> Edit({}, {}), saw |-> [t \in {} |-> 0]]

\* A fetch that the page before started and nobody dropped: the new page waits for it.
Left == [stage |-> "read", version |-> 1]

PageTypeOK ==
    /\ table \in [Tables -> 1 .. MaxEdits + 1]
    /\ page \in Pages
    /\ cache \in [Queries -> 0 .. MaxEdits + 1]
    /\ fetch \in [Queries -> [stage : {"none", "asked", "read", "failed"}, version : 0 .. MaxEdits + 1]]
    /\ call.stage \in {"idle", "sent", "saved"}
    /\ told \in [Tables -> 0 .. MaxEdits + 1]
    /\ behind \subseteq Queries
    /\ news \in 0 .. MaxEdits + 1

\* A page has been opened, and one answer is still on its way.
PageInit ==
    /\ table = [t \in Tables |-> 1]
    /\ page \in Pages
    /\ \E late \in Shown :
        /\ cache = [q \in Queries |-> IF q \in Shown \ {late} THEN 1 ELSE 0]
        /\ fetch = [q \in Queries |-> IF q = late THEN Left ELSE NoFetch]
    /\ call = NoCallSent
    /\ told = [t \in Tables |-> 0] /\ behind = {}
    /\ news = 0 /\ upsets = 0

Changes(ts) ==
    /\ MapThenSumSet(LAMBDA t : table[t] - 1, Tables) + Cardinality(ts) <= MaxEdits
    /\ table' = [t \in Tables |-> IF t \in ts THEN table[t] + 1 ELSE table[t]]

Upset == upsets < MaxUpsets /\ upsets' = upsets + 1

\* The first load of a query, which has no data yet.
Loading(q) == cache[q] = 0 /\ fetch[q].stage \in {"asked", "read"}

\* Mutant: a fetch that is in progress already counts as the new one.
RefreshedJoining(qs) ==
    [q \in Queries |-> IF q \in qs \cap Shown /\ fetch[q].stage \in {"none", "failed"} THEN Asked ELSE fetch[q]]

\* invalidateQueries and refetch: a fetch in progress is dropped for a new one if there are
\* data already (React Query), and the first load of a query counts as the new one.
Refreshed(qs) == [q \in Queries |-> IF q \in qs \cap Shown /\ ~Loading(q) THEN Asked ELSE fetch[q]]

\* A first load that counts as the new fetch although the backend has answered it.
Overtaken(qs) ==
    LET joined == {q \in qs \cap Shown : Loading(q)}
    IN  (behind \ (qs \ joined)) \cup {q \in joined : fetch[q].stage = "read"}

-----------------------------------------------------------------------------
(* Queries.                                                                *)

\* The backend reads the rows, and the answer arrives later.
ReadRows(q) ==
    /\ fetch[q].stage = "asked"
    /\ fetch' = [fetch EXCEPT ![q] = [stage |-> "read", version |-> table[Reads[q]]]]
    /\ UNCHANGED <<table, page, cache, call, told, behind, news, upsets>>

Arrive(q) ==
    /\ fetch[q].stage = "read"
    /\ cache' = [cache EXCEPT ![q] = fetch[q].version]
    /\ fetch' = [fetch EXCEPT ![q] = NoFetch]
    /\ UNCHANGED <<table, page, call, told, behind, news, upsets>>

\* There is no retry: the old data stay until something asks again.
FetchFails(q) ==
    /\ fetch[q].stage \in {"asked", "read"}
    /\ Upset
    /\ fetch' = [fetch EXCEPT ![q] = [stage |-> "failed", version |-> 0]]
    /\ UNCHANGED <<table, page, cache, call, told, behind, news>>

\* refetchInterval; it does not disturb a fetch in progress.
Poll(q) ==
    /\ q \in Page[page].polls
    /\ fetch[q].stage \in {"none", "failed"}
    /\ fetch' = [fetch EXCEPT ![q] = Asked] /\ behind' = behind \ {q}
    /\ UNCHANGED <<table, page, cache, call, told, news, upsets>>

-----------------------------------------------------------------------------
(* Calls that change something.                                            *)

Send(e) ==
    /\ call.stage = "idle"
    /\ e \in Page[page].does
    /\ call' = [NoCallSent EXCEPT !.stage = "sent", !.edit = e]
    /\ UNCHANGED <<table, page, cache, fetch, told, behind, news, upsets>>

Save ==
    /\ call.stage = "sent"
    /\ Changes(call.edit.writes)
    /\ call' = [call EXCEPT !.stage = "saved", !.saw = [t \in call.edit.writes |-> table'[t]]]
    /\ UNCHANGED <<page, cache, fetch, told, behind, news, upsets>>

\* onSuccess.
Succeed ==
    /\ call.stage = "saved"
    /\ fetch' = Refreshed(call.edit.refreshes) /\ behind' = Overtaken(call.edit.refreshes)
    /\ told' = [t \in Tables |-> IF t \in call.edit.writes THEN call.saw[t] ELSE told[t]]
    /\ call' = NoCallSent
    /\ UNCHANGED <<table, page, cache, news, upsets>>

\* onError shows the message and refreshes nothing, although something may be saved.
Fail ==
    /\ call.stage \in {"sent", "saved"}
    /\ Upset
    /\ call' = NoCallSent
    /\ UNCHANGED <<table, page, cache, fetch, told, behind, news>>

\* Somebody else, or a timer, changes what the page shows.
OtherEdit(t) ==
    /\ \E q \in Shown : Reads[q] = t
    /\ Changes({t})
    /\ UNCHANGED <<page, cache, fetch, call, told, behind, news, upsets>>

\* A switch of an upstream, good or bad, is saved and then announced.
OtherSwitch ==
    /\ page \in {"BridgePage", "BridgeCard"}
    /\ Changes({"bridges"})
    /\ news' = table'["bridges"]
    /\ UNCHANGED <<page, cache, fetch, call, told, behind, upsets>>

HearNews ==
    /\ news > 0
    /\ news' = 0
    /\ fetch' = Refreshed({"bridges"}) /\ behind' = Overtaken({"bridges"})
    /\ told' = [told EXCEPT !["bridges"] = IF news > @ THEN news ELSE @]
    /\ UNCHANGED <<table, page, cache, call, upsets>>

\* The page is not told what the socket missed.
SocketDrops ==
    /\ news > 0
    /\ Upset
    /\ news' = 0
    /\ UNCHANGED <<table, page, cache, fetch, call, told, behind>>

PageNext ==
    \/ \E q \in Queries : ReadRows(q) \/ Arrive(q) \/ FetchFails(q) \/ Poll(q)
    \/ \E e \in Page[page].does : Send(e)
    \/ Save \/ Succeed \/ Fail
    \/ \E t \in Tables : OtherEdit(t)
    \/ OtherSwitch \/ HearNews \/ SocketDrops

PageSpec == PageInit /\ [][PageNext]_pageVars

-----------------------------------------------------------------------------
(* Properties.                                                             *)

\* What the code leaves out: the servers after a bridge was made or removed, the
\* peers without organization after one was removed, and the state of the candidates
\* after they were edited, until the next poll.
Gaps == {<<"BridgePage", "candidateServers">>, <<"OrganizationsPage", "peers">>,
         <<"BridgeCard", "candidateStatus">>}

(***************************************************************************)
(* A page whose queries rest shows nothing older than what it has been     *)
(* told of, by the success of its own calls or by an event, however its    *)
(* fetches, polls and the changes of others overlap (the onSuccess of the  *)
(* pages), but for the gaps above, for fetches that failed, and for a      *)
(* query whose first answer was on its way when the page was told: that    *)
(* answer is not asked for again.                                          *)
(***************************************************************************)
ToldIsShown ==
    \A q \in Shown :
        fetch[q].stage = "none" /\ <<page, q>> \notin Gaps /\ q \notin behind => cache[q] >= told[Reads[q]]

=============================================================================

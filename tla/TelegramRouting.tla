-------------------------- MODULE TelegramRouting --------------------------
(***************************************************************************)
(* The rules on the panel's host that send its own traffic to Telegram     *)
(* through the bridge that the settings name: that of the bot (forwarded   *)
(* from its container) and that of the proxy (made on the host).  Each     *)
(* flow has one mark and one priority; of rules with the same priority     *)
(* the one that was added first decides.  They are kernel state.           *)
(***************************************************************************)
EXTENDS Naturals, SequencesExt

CONSTANTS
    RouteBridges, NoBridge,
    MaxChoices,         \* bound on changes of the setting
    MaxRouteTroubles    \* bound on failures, restarts and reboots

ASSUME RoutingAssumption == NoBridge \notin RouteBridges /\ MaxChoices \in Nat /\ MaxRouteTroubles \in Nat

VARIABLES
    chosen,     \* SystemSettings.telegramBridgeId
    hasProxy,   \* the host's row has an mtProxyPort
    routes,     \* of each flow: the tables its mark is looked up in, by bridge
    tasks,      \* calls of setup...Routing that nobody waits for
    missed,     \* such a call failed since the backend started
    since,      \* the bridges that were chosen since the host booted
    choices, routeTroubles

routingVars == <<chosen, hasProxy, routes, tasks, missed, since, choices, routeTroubles>>

Flows == {"bot", "proxy"}

RoutingTypeOK ==
    /\ chosen \in RouteBridges \cup {NoBridge}
    /\ routes \in [Flows -> SeqOf(RouteBridges, Cardinality(RouteBridges))]
    /\ tasks \subseteq Flows \X RouteBridges
    /\ since \subseteq RouteBridges
    /\ \A f \in Flows : IsInjective(routes[f])

RoutingInit ==
    /\ chosen = NoBridge /\ hasProxy = FALSE
    /\ routes = [f \in Flows |-> <<>>]
    /\ tasks = {} /\ missed = FALSE /\ since = {}
    /\ choices = 0 /\ routeTroubles = 0

\* Mutant: the proxy is forgotten.
BotOnly(b) == IF b = NoBridge THEN {} ELSE {<<"bot", b>>}

\* setupTelegramRoutingBestEffort: for the bot, and for the proxy if there is one.
Needed(b) == IF b = NoBridge THEN {} ELSE {<<"bot", b>>} \cup (IF hasProxy THEN {<<"proxy", b>>} ELSE {})

-----------------------------------------------------------------------------

\* Nothing takes the rules for the previous bridge away.
ChooseBridge(b) ==
    /\ choices < MaxChoices /\ choices' = choices + 1
    /\ b # chosen
    /\ chosen' = b
    /\ tasks' = tasks \cup Needed(b)
    /\ since' = since \cup ({b} \ {NoBridge})
    /\ UNCHANGED <<hasProxy, routes, missed, routeTroubles>>

InstallProxy ==
    /\ ~hasProxy
    /\ hasProxy' = TRUE
    /\ tasks' = tasks \cup (IF chosen = NoBridge THEN {} ELSE {<<"proxy", chosen>>})
    /\ UNCHANGED <<chosen, routes, missed, since, choices, routeTroubles>>

\* The rule is added unless there is one for this table.
ApplyRoute(f, b) ==
    /\ <<f, b>> \in tasks
    /\ tasks' = tasks \ {<<f, b>>}
    /\ routes' = [routes EXCEPT ![f] = IF Contains(@, b) THEN @ ELSE Append(@, b)]
    /\ UNCHANGED <<chosen, hasProxy, missed, since, choices, routeTroubles>>

RouteTrouble == routeTroubles < MaxRouteTroubles /\ routeTroubles' = routeTroubles + 1

RouteFails(f, b) ==
    /\ <<f, b>> \in tasks
    /\ RouteTrouble
    /\ tasks' = tasks \ {<<f, b>>}
    /\ missed' = TRUE
    /\ UNCHANGED <<chosen, hasProxy, routes, since, choices>>

\* Mutant: nothing is done at the start, as before the incident.
StartBackendIdle ==
    /\ RouteTrouble
    /\ tasks' = {}
    /\ missed' = FALSE
    /\ \/ UNCHANGED <<routes, since>>
       \/ routes' = [f \in Flows |-> <<>>] /\ since' = {chosen} \ {NoBridge}
    /\ UNCHANGED <<chosen, hasProxy, choices>>

\* onModuleInit of SettingsService, and the same after a reboot of the host.
StartBackend ==
    /\ RouteTrouble
    /\ tasks' = Needed(chosen)
    /\ missed' = FALSE
    /\ \/ UNCHANGED <<routes, since>>
       \/ routes' = [f \in Flows |-> <<>>] /\ since' = {chosen} \ {NoBridge}
    /\ UNCHANGED <<chosen, hasProxy, choices>>

RoutingNext ==
    \/ \E b \in RouteBridges \cup {NoBridge} : ChooseBridge(b)
    \/ InstallProxy \/ StartBackend
    \/ \E f \in Flows, b \in RouteBridges : ApplyRoute(f, b) \/ RouteFails(f, b)

\* Each call gets its turn.
RoutingFairness ==
    \A f \in Flows, b \in RouteBridges : WF_routingVars(ApplyRoute(f, b) \/ RouteFails(f, b))

RoutingSpec == RoutingInit /\ [][RoutingNext]_routingVars /\ RoutingFairness

-----------------------------------------------------------------------------

(***************************************************************************)
(* Bot and proxy reach Telegram through the chosen bridge, also after the  *)
(* host rebooted (the incident told in the comment on onModuleInit), if    *)
(* no call failed since the backend started and no other bridge was chosen *)
(* since the host booted.                                                  *)
(***************************************************************************)
TelegramThroughChosen ==
    <>[](chosen # NoBridge /\ since = {chosen} /\ ~missed
           => \A f \in Flows : f = "bot" \/ hasProxy => routes[f] = <<chosen>>)

(***************************************************************************)
(* Under the same conditions no flow goes through another bridge in the    *)
(* meantime, and one that goes through none yet has a call on its way that *)
(* will lead it there: no order of choices, installations and restarts     *)
(* loses the call (setupTelegramRoutingBestEffort, which nobody waits for).*)
(***************************************************************************)
RoutedOrOnTheWay ==
    chosen # NoBridge /\ since = {chosen} /\ ~missed
        => \A f \in Flows : f = "bot" \/ hasProxy =>
            routes[f] = <<chosen>> \/ (routes[f] = <<>> /\ <<f, chosen>> \in tasks)

=============================================================================

------------------------------ MODULE MCTimers ------------------------------
(***************************************************************************)
(* Parts of the panel that share no state and whose properties are about   *)
(* what timers and retries bring about in the end, checked in one run:     *)
(* each behaviour is one of the part that its first state names, while the *)
(* others stay as they begin.                                              *)
(***************************************************************************)
EXTENDS BridgeRebalance, FlapHistory, BypassRules, MtProxy, TelegramRouting, SelfUpdate, TLC

VARIABLE part

timersVars == <<part, rebalanceVars, vars, bypassVars, mtProxyVars, routingVars, updateVars>>

Parts == {"rebalance", "probes", "bypass", "proxy", "routing", "update"}

\* Balancing begins in any state when its turn it is, else in one of them.
Parked ==
    /\ \A b, c \in AutoBridges : upstreamOf[b] = upstreamOf[c]
    /\ \A b \in AutoBridges : upstreamOf[b] \in Spare
    /\ \A u \in Upstreams : clients[u] = 0

TimersInit ==
    /\ part \in Parts
    /\ RebalanceInit /\ Init /\ BypassInit /\ MtProxyInit /\ RoutingInit /\ UpdateInit
    /\ part # "rebalance" => Parked

\* Everything but the named part stays.
Rebalancing == part = "rebalance" /\ RebalanceNext
    /\ UNCHANGED <<vars, bypassVars, mtProxyVars, routingVars, updateVars>>
Probing == part = "probes" /\ Next
    /\ UNCHANGED <<rebalanceVars, bypassVars, mtProxyVars, routingVars, updateVars>>
Bypassing == part = "bypass" /\ BypassNext
    /\ UNCHANGED <<rebalanceVars, vars, mtProxyVars, routingVars, updateVars>>
Proxying == part = "proxy" /\ MtProxyNext
    /\ UNCHANGED <<rebalanceVars, vars, bypassVars, routingVars, updateVars>>
Routing == part = "routing" /\ RoutingNext
    /\ UNCHANGED <<rebalanceVars, vars, bypassVars, mtProxyVars, updateVars>>
\* Once sequences overlapped both properties of the part hold whatever follows.
Updating == part = "update" /\ "sequence" \notin again /\ UpdateNext
    /\ UNCHANGED <<rebalanceVars, vars, bypassVars, mtProxyVars, routingVars>>

TimersNext ==
    /\ UNCHANGED part
    /\ Rebalancing \/ Probing \/ Bypassing \/ Proxying \/ Routing \/ Updating

\* The fairness that the modules state, of the part whose behaviour it is.
TimersFairness ==
    /\ WF_rebalanceVars(part = "rebalance" /\ StartRound)
    /\ \A b \in AutoBridges : WF_rebalanceVars(part = "rebalance" /\ Balance(b))
    /\ WF_bypassVars(part = "bypass" /\ Refresh)
    /\ \A c \in Callers : WF_bypassVars(part = "bypass" /\ SyncStep(c))
    /\ WF_mtProxyVars(part = "proxy" /\ BeginRotation)
    /\ WF_mtProxyVars(part = "proxy" /\ ReplaceSecret)
    /\ WF_mtProxyVars(part = "proxy" /\ Deploy)
    /\ \A j \in Jobs : WF_mtProxyVars(part = "proxy" /\ SaveLink(j))
    /\ \A f \in Flows, b \in RouteBridges :
        WF_routingVars(part = "routing" /\ (ApplyRoute(f, b) \/ RouteFails(f, b)))
    /\ \A u \in Updates :
        /\ WF_updateVars(part = "update" /\ Pull(u))
        /\ WF_updateVars(part = "update" /\ RenderFile(u))
        /\ WF_updateVars(part = "update" /\ RecreateFront(u))
        /\ WF_updateVars(part = "update" /\ StartHelper(u))
    /\ WF_updateVars(part = "update" /\ RecreateBackend)

TimersSpec == TimersInit /\ [][TimersNext]_timersVars /\ TimersFairness

TimersTypeOK ==
    /\ part \in Parts
    /\ RebalanceTypeOK /\ TypeOK /\ BypassTypeOK /\ MtProxyTypeOK /\ RoutingTypeOK /\ UpdateTypeOK

MCCapacity == [u \in Upstreams |-> IF u \in Spare THEN 6 ELSE 11]

=============================================================================

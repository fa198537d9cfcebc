---------------------------- MODULE BridgeService ---------------------------
(***************************************************************************)
(* What the panel promises about bridges, without calls, peers or SSH: the *)
(* upstream and status it shows for each, and the server through which the *)
(* traffic of each really leaves.  One switch is made at a time, and only  *)
(* the bridge that is switched loses or changes its way while it is shown  *)
(* as configuring.  It is shown as active when it has the way that is      *)
(* shown, unless its host rebooted too late to be noticed.                 *)
(***************************************************************************)

CONSTANTS Bridges, Targets, NoTarget

VARIABLES
    shown,      \* the upstream and the status of each bridge on the page
    way,        \* the server through which each bridge leads its clients
    switching,  \* the bridge that is being switched, if there is one
    cut         \* the same, if a reboot took away what the switch had done

serviceVars == <<shown, way, switching, cut>>

Init ==
    /\ shown = [b \in Bridges |-> [upstream |-> NoTarget, status |-> "not_configured"]]
    /\ way = [b \in Bridges |-> NoTarget]
    /\ switching = {} /\ cut = {}

\* A switch begins, also of a bridge that an earlier one left half-way.
Begin(b) ==
    /\ switching = {} /\ switching' = {b}
    /\ shown' = [shown EXCEPT ![b].status = "configuring"]
    /\ UNCHANGED <<way, cut>>

\* The old way is given up, the new one is found; what was cut off is noticed.
Work(b) ==
    /\ b \in switching
    /\ shown[b].status = "configuring"
    /\ \E t \in Targets \cup {NoTarget} : way' = [way EXCEPT ![b] = t]
    /\ cut' \subseteq cut
    /\ UNCHANGED <<shown, switching>>

\* The bridge is shown with the way it has; the switch may go on to tidy up.
Complete(b) ==
    /\ b \in switching
    /\ shown[b].status = "configuring"
    /\ \E t \in Targets :
        /\ shown' = [shown EXCEPT ![b] = [upstream |-> t, status |-> "active"]]
        /\ way[b] = t \/ b \in cut
    /\ switching' \subseteq switching
    /\ cut' = {}
    /\ UNCHANGED way

\* The last upstream that was shown stays, whatever way the bridge has now.
Fail(b) ==
    /\ b \in switching
    /\ shown' = [shown EXCEPT ![b].status = "error"]
    /\ switching' = {} /\ cut' = {}
    /\ UNCHANGED way

\* A switch has tidied up, or the panel restarts and forgets it.
Stop ==
    /\ switching' = {} /\ cut' = {}
    /\ UNCHANGED <<shown, way>>

\* The host reboots: no bridge has a way, and nothing shows it.
Reboot ==
    /\ way' = [b \in Bridges |-> NoTarget]
    /\ cut' \subseteq {b \in switching : shown[b].status = "configuring"}
    /\ UNCHANGED <<shown, switching>>

Next == (\E b \in Bridges : Begin(b) \/ Work(b) \/ Complete(b) \/ Fail(b)) \/ Stop \/ Reboot

Spec == Init /\ [][Next]_serviceVars

=============================================================================

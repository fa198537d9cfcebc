---------------------------- MODULE BypassRules ----------------------------
(***************************************************************************)
(* The destinations that clients of a bridge reach directly, not through   *)
(* its upstream: the list in the row, the ipset and the rules on the host, *)
(* and setupBridgeBypass, which update and the timer refreshBypassRules    *)
(* run, perhaps at the same time.                                          *)
(***************************************************************************)
EXTENDS Naturals, Functions

CONSTANTS
    Destinations,  \* addresses and domain names that a list may hold
    DomainNames,   \* those that are resolved; a name may fail to resolve
    MaxEdits,      \* bound on the changes of the list
    MaxTroubles    \* bound on failed commands, unresolved names, restarts, reboots

ASSUME BypassAssumption == DomainNames \subseteq Destinations /\ MaxEdits \in Nat /\ MaxTroubles \in Nat

VARIABLES
    bypassList,  \* Bridge.bypassDestinations
    ipsets,      \* the sets of the bridge on the host: contents, by name, of those there are
    ruled,       \* the rules of iptables and ip rule refer to the set
    sync,        \* setupBridgeBypass, as update and as the timer run it
    mixed,       \* the calls in progress ran at the same time as another
    edits, troubles

bypassVars == <<bypassList, ipsets, ruled, sync, mixed, edits, troubles>>

Callers == {"update", "refresh"}
Stages == {"idle", "resolve", "create", "add", "swap", "destroy", "rules"}
Resting == [stage |-> "idle", list |-> {}, left |-> {}]

BypassTypeOK ==
    /\ bypassList \in SUBSET Destinations
    /\ DOMAIN ipsets \subseteq {"live", "tmp"}
    /\ \A n \in DOMAIN ipsets : ipsets[n] \subseteq Destinations
    /\ ruled \in BOOLEAN /\ mixed \in BOOLEAN
    /\ \A c \in Callers : sync[c].stage \in Stages /\ sync[c].left \subseteq Destinations

BypassInit ==
    /\ bypassList = {} /\ ipsets = <<>> /\ ruled = FALSE
    /\ sync = [c \in Callers |-> Resting]
    /\ mixed = FALSE /\ edits = 0 /\ troubles = 0

Trouble == troubles < MaxTroubles /\ troubles' = troubles + 1

Begin(c, list) ==
    /\ sync[c].stage = "idle"
    /\ sync' = [sync EXCEPT ![c] = [stage |-> "resolve", list |-> list, left |-> {}]]
    /\ mixed' = \E d \in Callers \ {c} : sync[d].stage # "idle"

Goes(c, from, to) == sync[c].stage = from /\ sync' = [sync EXCEPT ![c].stage = to]

-----------------------------------------------------------------------------

\* The new list is saved first, whatever becomes of the host.
EditList(list) ==
    /\ edits < MaxEdits /\ edits' = edits + 1
    /\ bypassList' = list
    /\ Begin("update", list)
    /\ UNCHANGED <<ipsets, ruled, troubles>>

\* Mutant: a bridge whose rules are there is left out.
RefreshOnce ==
    /\ bypassList # {} /\ ~ruled
    /\ Begin("refresh", bypassList)
    /\ UNCHANGED <<bypassList, ipsets, ruled, edits, troubles>>

\* The timer leaves out a bridge with an empty list, even if its set is not.
Refresh ==
    /\ bypassList # {}
    /\ Begin("refresh", bypassList)
    /\ UNCHANGED <<bypassList, ipsets, ruled, edits, troubles>>

\* getent: a name that does not resolve just gives no address.
Resolve(c) ==
    /\ sync[c].stage = "resolve"
    /\ \E lost \in SUBSET (DomainNames \cap sync[c].list) :
        /\ IF lost = {} THEN UNCHANGED troubles ELSE Trouble
        /\ sync' = [sync EXCEPT ![c] = [stage |-> "create", list |-> @.list \ lost, left |-> @.list \ lost]]
    /\ UNCHANGED <<bypassList, ipsets, ruled, mixed, edits>>

\* Mutant: the set in force is flushed as well.
CreateSetsInPlace(c) ==
    /\ Goes(c, "create", "add")
    /\ ipsets' = [n \in {"live", "tmp"} |-> {}]
    /\ UNCHANGED <<bypassList, ruled, mixed, edits, troubles>>

\* Both sets are created unless they exist, and the temporary one is flushed.
CreateSets(c) ==
    /\ Goes(c, "create", "add")
    /\ ipsets' = [n \in {"live", "tmp"} |-> IF n = "live" /\ n \in DOMAIN ipsets THEN ipsets[n] ELSE {}]
    /\ UNCHANGED <<bypassList, ruled, mixed, edits, troubles>>

AddAddress(c) ==
    /\ sync[c].stage = "add" /\ "tmp" \in DOMAIN ipsets
    /\ \E d \in sync[c].left :
        /\ sync' = [sync EXCEPT ![c].left = @ \ {d}]
        /\ ipsets' = [ipsets EXCEPT !["tmp"] = @ \cup {d}]
    /\ UNCHANGED <<bypassList, ruled, mixed, edits, troubles>>

SwapSets(c) ==
    /\ sync[c].left = {} /\ "tmp" \in DOMAIN ipsets
    /\ Goes(c, "add", "destroy")
    /\ ipsets' = [live |-> ipsets["tmp"], tmp |-> ipsets["live"]]
    /\ UNCHANGED <<bypassList, ruled, mixed, edits, troubles>>

DestroyTmp(c) ==
    /\ "tmp" \in DOMAIN ipsets
    /\ Goes(c, "destroy", "rules")
    /\ ipsets' = Restrict(ipsets, {"live"})
    /\ UNCHANGED <<bypassList, ruled, mixed, edits, troubles>>

\* Each rule is added unless it is there.
AddRules(c) ==
    /\ Goes(c, "rules", "idle")
    /\ ruled' = TRUE
    /\ UNCHANGED <<bypassList, ipsets, mixed, edits, troubles>>

\* A command finds the temporary set gone, or SSH fails; both callers only log it.
CommandFails(c) ==
    /\ sync[c].stage # "idle"
    /\ IF sync[c].stage \in {"add", "destroy"} /\ "tmp" \notin DOMAIN ipsets THEN UNCHANGED troubles ELSE Trouble
    /\ sync' = [sync EXCEPT ![c] = Resting]
    /\ UNCHANGED <<bypassList, ipsets, ruled, mixed, edits>>

BypassRestart ==
    /\ Trouble
    /\ sync' = [c \in Callers |-> Resting]
    /\ UNCHANGED <<bypassList, mixed, edits>>
    /\ \/ UNCHANGED <<ipsets, ruled>>
       \/ ipsets' = <<>> /\ ruled' = FALSE   \* the host reboots, and the panel with it

SyncStep(c) ==
    Resolve(c) \/ CreateSets(c) \/ AddAddress(c) \/ SwapSets(c) \/ DestroyTmp(c) \/ AddRules(c) \/ CommandFails(c)

BypassNext ==
    \/ \E list \in SUBSET Destinations : EditList(list)
    \/ Refresh
    \/ \E c \in Callers : SyncStep(c)
    \/ BypassRestart

\* The timer comes round, and SSH commands end.
BypassFairness == WF_bypassVars(Refresh) /\ \A c \in Callers : WF_bypassVars(SyncStep(c))

BypassSpec == BypassInit /\ [][BypassNext]_bypassVars /\ BypassFairness

-----------------------------------------------------------------------------
(* Properties.                                                             *)

(***************************************************************************)
(* A list that is not empty is in force in the end, whatever failed: the   *)
(* timer catches up (the comment in update on best effort).                *)
(***************************************************************************)
BypassConverges ==
    <>[](bypassList # {} => ruled /\ "live" \in DOMAIN ipsets /\ ipsets["live"] = bypassList)

(***************************************************************************)
(* A destination that was reachable directly and is still to be stays so   *)
(* while a call that runs alone renews the set (the comment on swap).      *)
(***************************************************************************)
NoGap ==
    [][\A c \in Callers :
        SyncStep(c) /\ ~mixed /\ "live" \in DOMAIN ipsets
            => ipsets["live"] \cap sync[c].list \subseteq ipsets'["live"]]_bypassVars

(***************************************************************************)
(* A call that ran alone to its end leaves the list of the row in force:   *)
(* all of it but names that did not resolve, and nothing else, whatever    *)
(* overlapping or interrupted calls had left in the sets before (the       *)
(* comment on the temporary set in setupBridgeBypass).                     *)
(***************************************************************************)
LoneSyncApplies ==
    [][\A c \in Callers : AddRules(c) /\ ~mixed =>
        /\ ruled' /\ "live" \in DOMAIN ipsets'
        /\ ipsets'["live"] \subseteq bypassList'
        /\ bypassList' \ DomainNames \subseteq ipsets'["live"]]_bypassVars

=============================================================================

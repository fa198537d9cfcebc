----------------------------- MODULE MCRequests -----------------------------
(***************************************************************************)
(* Parts of the panel that share no state, checked in one run: addresses   *)
(* and imports with calls that overlap, where peers are put, what the      *)
(* pages show, broadcasts, restores of the database and traffic reports.   *)
(* Each behaviour is one of the part that its first state names, while the *)
(* others stay as they begin.                                              *)
(***************************************************************************)
EXTENDS HostAllocation, PeerPlacement, PageData, TelegramMail, DatabaseRestore, TrafficReports, TLC

VARIABLE part

requestVars == <<part, vars, placementVars, pageVars, mailVars, restoreVars, reportVars>>

Parts == {"addresses", "placement", "pages", "mail", "restore", "reports"}

\* The initial choices of a part that does not run are fixed.
RequestsInit ==
    /\ part \in Parts
    /\ Init /\ PlacementInit /\ PageInit /\ MailInit /\ RestoreInit /\ ReportsInit
    /\ part # "placement" => access.allowed = {}
    /\ part # "pages" => page = "UsersPage" /\ cache["users"] = 0

\* Requests for peers and revocations overlap where the organization has only bridges,
\* once these are made, in behaviours without another decision and without a refusal
\* until then.
OverlapBound ==
    \/ Cardinality({c \in Clerks : clerk'[c].stage # "idle"}) > 1
    \/ \E r \in Revokers : revoking'[r] # {}
    => /\ made' = Gates /\ foreign' = {} /\ access'.allowed = {}
       /\ decisions' = Cardinality(Gates) /\ refusals' = 0

\* Everything but the named part stays.
Addresses ==
    /\ part = "addresses" /\ Next
    /\ UNCHANGED <<placementVars, pageVars, mailVars, restoreVars, reportVars>>
Placement ==
    /\ part = "placement" /\ PlacementNext /\ OverlapBound
    /\ UNCHANGED <<vars, pageVars, mailVars, restoreVars, reportVars>>
Showing ==
    /\ part = "pages" /\ PageNext
    /\ UNCHANGED <<vars, placementVars, mailVars, restoreVars, reportVars>>
Mailing ==
    /\ part = "mail" /\ MailNext
    /\ UNCHANGED <<vars, placementVars, pageVars, restoreVars, reportVars>>
Restoring ==
    /\ part = "restore" /\ RestoreNext
    /\ UNCHANGED <<vars, placementVars, pageVars, mailVars, reportVars>>
Reporting ==
    /\ part = "reports" /\ ReportsNext
    /\ UNCHANGED <<vars, placementVars, pageVars, mailVars, restoreVars>>

RequestsNext ==
    /\ UNCHANGED part
    /\ Addresses \/ Placement \/ Showing \/ Mailing \/ Restoring \/ Reporting

RequestsSpec == RequestsInit /\ [][RequestsNext]_requestVars

Interchangeable == Permutations(Clerks)

=============================================================================

------------------------------- MODULE MtProxy -------------------------------
(***************************************************************************)
(* The proxy for Telegram clients on the panel's own host: its port and    *)
(* secret as the host has them, and as the row of the server has them,     *)
(* from which the link for clients is made (mtproxy.service.ts).  The list *)
(* of servers saves that row too, to repair isSelf.  Each call works on    *)
(* the row as it read it at its beginning, and saves all of it.            *)
(***************************************************************************)
EXTENDS Naturals

CONSTANTS
    Ports, Secrets,  \* those that may be drawn
    NoProxy,
    MaxFailures      \* bound on installations, failed calls and repairs of isSelf

ASSUME MtProxyAssumption ==
    /\ MaxFailures \in Nat
    /\ NoProxy \notin [port : Ports, secret : Secrets]

VARIABLES
    proxy,     \* on the host: port and secret in config.py of the running unit
    link,      \* in the row: mtProxyPort, mtProxySecretEnc
    job,       \* the calls in progress, with the row as they read it
    crossed,   \* the calls in progress ran at the same time as another
    failures

mtProxyVars == <<proxy, link, job, crossed, failures>>

Jobs == {"install", "rotate", "list"}

Proxies == [port : Ports, secret : Secrets] \cup {NoProxy}

NoJob == [stage |-> "idle", copy |-> NoProxy]

MtProxyTypeOK ==
    /\ {proxy, link} \subseteq Proxies
    /\ job \in [Jobs -> [stage : {"idle", "read", "save"}, copy : Proxies]]
    /\ crossed \in BOOLEAN

MtProxyInit ==
    /\ proxy = NoProxy /\ link = NoProxy
    /\ job = [j \in Jobs |-> NoJob]
    /\ crossed = FALSE /\ failures = 0

\* toStatus: the panel and the portal show the row, once it has port and secret.
LinksShown == {link} \ {NoProxy}

Incidental == failures < MaxFailures /\ failures' = failures + 1

\* A call reads the row of the server.
ReadRow(j, stage) ==
    /\ job[j].stage = "idle"
    /\ job' = [job EXCEPT ![j] = [stage |-> stage, copy |-> link]]
    /\ crossed' = \E k \in Jobs \ {j} : job[k].stage # "idle"

\* The timer passes over a server without a port.
BeginRotation ==
    /\ link # NoProxy
    /\ ReadRow("rotate", "read")
    /\ UNCHANGED <<proxy, link, failures>>

BeginJob(j) ==
    /\ j # "rotate"
    /\ Incidental
    /\ ReadRow(j, IF j = "list" THEN "save" ELSE "read")
    /\ UNCHANGED <<proxy, link>>

\* Keys are random; a port is taken only if nothing listens there.
NewSecrets == Secrets \ {p.secret : p \in ({proxy, link} \cup {job[j].copy : j \in Jobs}) \ {NoProxy}}
FreePorts == Ports \ {p.port : p \in {proxy} \ {NoProxy}}

\* deployService of an installation: everything new, and the unit restarts.
Deploy ==
    /\ job["install"].stage = "read"
    /\ \E port \in FreePorts, secret \in NewSecrets :
        /\ proxy' = [port |-> port, secret |-> secret]
        /\ job' = [job EXCEPT !["install"] = [stage |-> "save", copy |-> proxy']]
    /\ UNCHANGED <<link, crossed, failures>>

\* Mutant: the row that is saved keeps its secret.
ReplaceSecretUnsaved ==
    /\ job["rotate"].stage = "read" /\ proxy # NoProxy
    /\ \E secret \in NewSecrets :
        /\ proxy' = [proxy EXCEPT !.secret = secret]
        /\ job' = [job EXCEPT !["rotate"].stage = "save"]
    /\ UNCHANGED <<link, crossed, failures>>

\* rotateSecretFor: sed puts the new secret into config.py and leaves the port.
ReplaceSecret ==
    /\ job["rotate"].stage = "read" /\ proxy # NoProxy
    /\ \E secret \in NewSecrets :
        /\ proxy' = [proxy EXCEPT !.secret = secret]
        /\ job' = [job EXCEPT !["rotate"] = [stage |-> "save", copy |-> [@.copy EXCEPT !.secret = secret]]]
    /\ UNCHANGED <<link, crossed, failures>>

SaveLink(j) ==
    /\ job[j].stage = "save"
    /\ link' = job[j].copy
    /\ job' = [job EXCEPT ![j] = NoJob]
    /\ UNCHANGED <<proxy, crossed, failures>>

\* A command or the save fails, or the backend restarts.
JobFails(j) ==
    /\ job[j].stage # "idle"
    /\ Incidental
    /\ job' = [job EXCEPT ![j] = NoJob]
    /\ UNCHANGED <<proxy, link, crossed>>

MtProxyNext ==
    \/ BeginRotation \/ Deploy \/ ReplaceSecret
    \/ \E j \in Jobs : BeginJob(j) \/ SaveLink(j) \/ JobFails(j)

\* The daily timer never stops, and calls end.
MtProxyFairness ==
    /\ WF_mtProxyVars(BeginRotation) /\ WF_mtProxyVars(ReplaceSecret) /\ WF_mtProxyVars(Deploy)
    /\ \A j \in Jobs : WF_mtProxyVars(SaveLink(j))

MtProxySpec == MtProxyInit /\ [][MtProxyNext]_mtProxyVars /\ MtProxyFairness

-----------------------------------------------------------------------------

(***************************************************************************)
(* A link that lost its secret, in a save that failed or one that wrote an *)
(* older row, works again after a rotation, as long as it names the port   *)
(* (the comment on rotateSecrets: links keep resolving).  A wrong port is  *)
(* repaired by nobody.                                                     *)
(***************************************************************************)
LinkOpensAgain ==
    []<>(\A shown \in LinksShown : shown = proxy \/ shown.port # proxy.port)

(***************************************************************************)
(* What a call saves that ran alone opens the proxy: an installation in    *)
(* any case, a rotation unless the row named a wrong port before (the      *)
(* comment on rotateSecrets again), whatever earlier calls that failed or  *)
(* wrote older rows have left on the host and in the row.                  *)
(***************************************************************************)
LoneSavesOpen ==
    [][\A j \in {"install", "rotate"} : SaveLink(j) /\ ~crossed =>
        \/ link' = proxy'
        \/ j = "rotate" /\ link.port # proxy.port]_mtProxyVars

=============================================================================

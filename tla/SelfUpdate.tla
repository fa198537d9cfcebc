----------------------------- MODULE SelfUpdate -----------------------------
(***************************************************************************)
(* The panel updates itself (backend/src/system/update.service.ts): git,   *)
(* the file that nginx loads, the containers of nginx and frontend, and    *)
(* last the container of the backend, by a helper that outlives it.  The   *)
(* nginx file is made by the code of the running backend from the template *)
(* on disk, and a commit may change the two together: then nginx refuses   *)
(* what old code makes of the new template.                                *)
(***************************************************************************)
EXTENDS Naturals

CONSTANTS
    Updates,      \* sequences that may run at a time
    MaxCommit,    \* bound on the commits that are pushed
    MaxBreakages  \* bound on steps that fail and on reboots of the host

ASSUME UpdateAssumption == MaxCommit \in Nat \ {0} /\ MaxBreakages \in Nat

VARIABLES
    remote,     \* the latest commit of the deploy branch
    checkout,   \* the commit on disk
    code,       \* the commit that backend and frontend run
    file,       \* the nginx file on disk: the template and the code it was made of
    loaded,     \* the file that the running nginx loaded
    update,     \* the sequences, and whether nginx took the file of each
    helper,     \* the helper container waits to recreate the backend
    rebooted,   \* the host rebooted
    again,      \* an update began while a helper waited, or while another sequence ran
    breakages

updateVars == <<remote, checkout, code, file, loaded, update, helper, rebooted, again, breakages>>

Commits == 1 .. MaxCommit
Files == [template : Commits, by : Commits]

UpdateTypeOK ==
    /\ {remote, checkout} \subseteq Commits
    /\ code \in [{"backend", "frontend"} -> Commits]
    /\ {file, loaded} \subseteq Files
    /\ update \in [Updates -> [stage : {"idle", "git", "render", "front", "help"}, ok : BOOLEAN]]
    /\ {helper, rebooted} \subseteq BOOLEAN
    /\ again \subseteq {"helper", "sequence"}

NoUpdates == [u \in Updates |-> [stage |-> "idle", ok |-> TRUE]]

UpdateInit ==
    /\ remote = 1 /\ checkout = 1
    /\ code = [s \in {"backend", "frontend"} |-> 1]
    /\ file = [template |-> 1, by |-> 1] /\ loaded = file
    /\ update = NoUpdates
    /\ helper = FALSE /\ rebooted = FALSE /\ again = {} /\ breakages = 0

\* nginx -t: every commit changes template and code together, the worst case.
Accepts(f) == f.template = f.by

Breakage == breakages < MaxBreakages /\ breakages' = breakages + 1
At(u, stage, next) == update[u].stage = stage /\ update' = [update EXCEPT ![u].stage = next]

-----------------------------------------------------------------------------

Push ==
    /\ remote < MaxCommit
    /\ remote' = remote + 1
    /\ UNCHANGED <<checkout, code, file, loaded, update, helper, rebooted, again, breakages>>

\* Nothing keeps it from starting a sequence beside others.
TriggerUpdate(u) ==
    /\ At(u, "idle", "git")
    /\ again' = again \cup (IF helper THEN {"helper"} ELSE {})
                      \cup (IF \E v \in Updates : update[v].stage # "idle" THEN {"sequence"} ELSE {})
    /\ UNCHANGED <<remote, checkout, code, file, loaded, helper, rebooted, breakages>>

\* fetch, checkout and pull; HEAD may have moved when a later part fails.
Pull(u) ==
    /\ \/ At(u, "git", "render") /\ checkout' = remote /\ UNCHANGED breakages
       \/ At(u, "git", "idle") /\ checkout' \in {checkout, remote} /\ Breakage
    /\ UNCHANGED <<remote, code, file, loaded, helper, rebooted, again>>

\* render writes the file before nginx has a chance to refuse it.
RenderFile(u) ==
    /\ update[u].stage = "render"
    /\ file' = [template |-> checkout, by |-> code["backend"]]
    /\ loaded' = IF Accepts(file') THEN file' ELSE loaded
    /\ update' = [update EXCEPT ![u] = [stage |-> "front", ok |-> Accepts(file')]]
    /\ UNCHANGED <<remote, checkout, code, helper, rebooted, again, breakages>>

\* Mutant: also with a file that nginx has refused.
RecreateFrontAlways(u) ==
    /\ UNCHANGED <<remote, checkout, file, helper, rebooted, again>>
    /\ \/ /\ At(u, "front", "help")
          /\ code' = [code EXCEPT !["frontend"] = checkout]
          /\ loaded' = file
          /\ UNCHANGED breakages
       \/ At(u, "front", "idle") /\ Breakage /\ UNCHANGED <<code, loaded>>

\* The new container of nginx loads what is on disk.
RecreateFront(u) ==
    /\ UNCHANGED <<remote, checkout, file, helper, rebooted, again>>
    /\ \/ /\ At(u, "front", "help")
          /\ code' = [code EXCEPT !["frontend"] = checkout]
          /\ loaded' = IF update[u].ok THEN file ELSE loaded
          /\ UNCHANGED breakages
       \/ At(u, "front", "idle") /\ Breakage /\ UNCHANGED <<code, loaded>>

\* Mutant: the backend replaces itself, and the command ends with it.
StartHelperDirectly(u) ==
    /\ At(u, "help", "idle")
    /\ \/ UNCHANGED <<helper, breakages>>
       \/ Breakage /\ UNCHANGED helper
    /\ UNCHANGED <<remote, checkout, code, file, loaded, rebooted, again>>

StartHelper(u) ==
    /\ At(u, "help", "idle")
    /\ \/ helper' = TRUE /\ UNCHANGED breakages
       \/ Breakage /\ UNCHANGED helper
    /\ UNCHANGED <<remote, checkout, code, file, loaded, rebooted, again>>

\* The helper builds and replaces the backend, and with it the sequences that were
\* started meanwhile; the new backend renders the file.  If the build fails the
\* old container stays.
RecreateBackend ==
    /\ helper
    /\ helper' = FALSE
    /\ \/ /\ code' = [code EXCEPT !["backend"] = checkout]
          /\ file' = [template |-> checkout, by |-> checkout] /\ loaded' = file'
          /\ update' = NoUpdates
          /\ UNCHANGED breakages
       \/ Breakage /\ UNCHANGED <<code, file, loaded, update>>
    /\ UNCHANGED <<remote, checkout, rebooted, again>>

\* Settings are saved: render, and nginx keeps what it has if it refuses.
SaveSettingsMeanwhile ==
    /\ file' = [template |-> checkout, by |-> code["backend"]]
    /\ loaded' = IF Accepts(file') THEN file' ELSE loaded
    /\ UNCHANGED <<remote, checkout, code, update, helper, rebooted, again, breakages>>

\* All containers start again, nginx with the file on disk; the backend renders.
RebootHost ==
    /\ Breakage
    /\ rebooted' = TRUE
    /\ file' = [template |-> checkout, by |-> code["backend"]] /\ loaded' = file'
    /\ update' = NoUpdates
    /\ helper' = FALSE
    /\ UNCHANGED <<remote, checkout, code, again>>

UpdateNext ==
    \/ Push
    \/ \E u \in Updates :
        TriggerUpdate(u) \/ Pull(u) \/ RenderFile(u) \/ RecreateFront(u) \/ StartHelper(u)
    \/ RecreateBackend \/ SaveSettingsMeanwhile \/ RebootHost

\* The steps of a sequence and the helper come to an end.
UpdateFairness ==
    /\ \A u \in Updates :
        /\ WF_updateVars(Pull(u)) /\ WF_updateVars(RenderFile(u))
        /\ WF_updateVars(RecreateFront(u)) /\ WF_updateVars(StartHelper(u))
    /\ WF_updateVars(RecreateBackend)

UpdateSpec == UpdateInit /\ [][UpdateNext]_updateVars /\ UpdateFairness

-----------------------------------------------------------------------------
(* Properties.                                                             *)

(***************************************************************************)
(* Until the host reboots, nginx runs with a configuration it accepted,    *)
(* although an update may leave a file on disk that it would refuse (the   *)
(* incident told in the comment in runUpdateSequence).  Excused are        *)
(* sequences that overlap: what nginx took in one is stale once the other  *)
(* has pulled and rendered.                                                *)
(***************************************************************************)
NginxKeepsRunning == Accepts(loaded) \/ rebooted \/ "sequence" \in again

(***************************************************************************)
(* An update during which nothing fails ends with the backend, the         *)
(* frontend and the nginx file all of the commit on disk, although the     *)
(* process that runs it is replaced on the way, unless updates overlap or  *)
(* one began before the helper of another was done.                        *)
(***************************************************************************)
UpdateCompletes ==
    \A n \in 0 .. MaxBreakages, u \in Updates :
        update[u].stage = "render" /\ breakages = n
            ~> \/ breakages # n \/ again # {}
               \/ /\ code["backend"] = checkout /\ code["frontend"] = checkout
                  /\ Accepts(loaded) /\ loaded.by = checkout

=============================================================================

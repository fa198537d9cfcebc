---------------------------- MODULE SystemProofs ----------------------------
(***************************************************************************)
(* The panel itself: an update does not take nginx down (SelfUpdate), a    *)
(* restore replaces the database by the dump (DatabaseRestore), and nginx  *)
(* serves what the settings say (HttpsSettings); and what it sets up on    *)
(* servers: clients are told what answers them (ProtocolInstall), users of *)
(* the proxy for Telegram too (MtProxy).  For any numbers of commits,      *)
(* tables, domains, protocols, ports, calls and failures.                  *)
(***************************************************************************)
EXTENDS HttpsSettings, SelfUpdate, DatabaseRestore, ProtocolInstall, MtProxy,
        WellFoundedInduction, TLAPS

-----------------------------------------------------------------------------
(* HttpsSettings: settings and certificates.                               *)

HttpsStages == {"idle", "challenge", "issue", "renew", "save", "save_failure", "render"}
HttpsRequest == [stage : HttpsStages, copy : SettingsRow, alone : BOOLEAN]
NginxConfiguration ==
    [ssl : Domains \cup {NoDomain}, challenge : BOOLEAN, port80 : {"redirect", "closed", "panel"}]

HttpsTables ==
    /\ settings \in SettingsRow
    /\ certs \subseteq Domains
    /\ nginx \in NginxConfiguration
    /\ request \in [Requests -> HttpsRequest]
    /\ mishaps \in Nat

\* Certificates are asked for a domain.
Asking(q) == request[q].stage \in {"challenge", "issue"}

AsksForADomain == \A q \in Requests : Asking(q) => request[q].copy.domain \in Domains

\* A call that is said to be alone is the only one in progress ...
AloneIsAlone ==
    \A q \in Requests : request[q].stage # "idle" /\ request[q].alone =>
        \A p \in Requests \ {q} : request[p].stage = "idle"

\* ... and gives nginx the row as it is in the table.
RendersWhatIsSaved ==
    \A q \in Requests : request[q].stage = "render" /\ request[q].alone => request[q].copy = settings

HttpsInv == HttpsTables /\ AsksForADomain /\ AloneIsAlone /\ RendersWhatIsSaved /\ ServesOwnCertificate

LEMMA ConfigurationIsSound ==
    ASSUME NEW s \in SettingsRow, certs \subseteq Domains
    PROVE  Configuration(s) \in NginxConfiguration /\ Configuration(s).ssl \in certs \cup {NoDomain}
BY DEF Configuration, NginxConfiguration, SettingsRow

LEMMA FirstSettingsAreARow == FirstSettings \in SettingsRow /\ NoRequest \in HttpsRequest
BY DEF FirstSettings, SettingsRow, NoRequest, HttpsRequest, HttpsStages

LEMMA HttpsStarts == HttpsInit => HttpsInv
<1> SUFFICES ASSUME HttpsInit PROVE HttpsInv
  OBVIOUS
<1>1. settings \in SettingsRow /\ certs \subseteq Domains
  BY FirstSettingsAreARow DEF HttpsInit
<1>2. nginx \in NginxConfiguration /\ nginx.ssl \in certs \cup {NoDomain}
  BY <1>1, ConfigurationIsSound DEF HttpsInit
<1>3. request \in [Requests -> HttpsRequest] /\ \A q \in Requests : request[q].stage = "idle"
  BY FirstSettingsAreARow DEF HttpsInit, NoRequest
<1> QED
  BY <1>1, <1>2, <1>3 DEF HttpsInit, HttpsInv, HttpsTables, AsksForADomain, Asking, AloneIsAlone,
                          RendersWhatIsSaved, ServesOwnCertificate

(***************************************************************************)
(* What a step of a call does to the calls, whichever it is.               *)
(***************************************************************************)
LEMMA ContinueKeepsCalls ==
    ASSUME HttpsTables, AloneIsAlone, NEW q \in Requests,
           NEW stage \in HttpsStages, NEW copy \in SettingsRow,
           request[q].stage # "idle", Continue(q, stage, copy)
    PROVE  /\ request' \in [Requests -> HttpsRequest]
           /\ AloneIsAlone'
           /\ request'[q] = [stage |-> stage, copy |-> copy, alone |-> request[q].alone]
           /\ \A p \in Requests \ {q} : request'[p] = request[p]
<1> DEFINE next == [stage |-> stage, copy |-> copy, alone |-> request[q].alone]
<1>1. next \in HttpsRequest /\ request[q] \in HttpsRequest
  BY DEF HttpsTables, HttpsRequest
<1>2. request' = [request EXCEPT ![q] = next]
  BY DEF Continue
<1>3. request' \in [Requests -> HttpsRequest] /\ request'[q] = next
      /\ \A p \in Requests \ {q} : request'[p] = request[p]
  BY <1>1, <1>2 DEF HttpsTables
<1>4. AloneIsAlone'
  BY <1>3 DEF AloneIsAlone
<1> QED
  BY <1>3, <1>4

LEMMA BeginKeepsInv ==
    ASSUME HttpsInv, NEW q \in Requests, NEW stage \in HttpsStages \ {"issue", "render"},
           NEW copy \in SettingsRow, stage = "challenge" => copy.domain \in Domains,
           BeginRequest(q, stage, copy)
    PROVE  HttpsInv'
<1> DEFINE others == {p \in Requests \ {q} : request[p].stage # "idle"}
           new == [stage |-> stage, copy |-> copy, alone |-> others = {}]
<1>1. UNCHANGED <<settings, certs, nginx, mishaps>>
  BY DEF BeginRequest
<1>2. request' = [p \in Requests |-> IF p = q THEN new ELSE [request[p] EXCEPT !.alone = FALSE]]
  BY DEF BeginRequest
<1>3. new \in HttpsRequest
  BY DEF HttpsRequest
<1>4. ASSUME NEW p \in Requests \ {q}
      PROVE  /\ request'[p] \in HttpsRequest
             /\ request'[p].stage = request[p].stage /\ ~request'[p].alone
             /\ request'[p].copy = request[p].copy
  <2>1. request[p] \in HttpsRequest
    BY DEF HttpsInv, HttpsTables
  <2>2. request'[p] = [request[p] EXCEPT !.alone = FALSE]
    BY <1>2
  <2> QED
    BY <2>1, <2>2 DEF HttpsRequest
<1>5. request'[q] = new
  BY <1>2
<1>6. request' \in [Requests -> HttpsRequest]
  <2>1. DOMAIN request' = Requests /\ request' = [p \in Requests |-> request'[p]]
    BY <1>2
  <2> QED
    BY <2>1, <1>3, <1>4, <1>5
<1>7. AloneIsAlone'
  <2>1. request'[q].alone = (others = {})
    BY <1>5
  <2>2. request'[q].alone => \A p \in Requests \ {q} : request[p].stage = "idle"
    BY <2>1
  <2> QED
    BY <2>2, <1>4 DEF AloneIsAlone
<1>8. RendersWhatIsSaved'
  BY <1>4, <1>5 DEF RendersWhatIsSaved
<1>9. AsksForADomain'
  BY <1>4, <1>5 DEF HttpsInv, AsksForADomain, Asking
<1> QED
  BY <1>1, <1>6, <1>7, <1>8, <1>9 DEF HttpsInv, HttpsTables, ServesOwnCertificate

LEMMA HttpsStep == HttpsInv /\ [HttpsNext]_httpsVars => HttpsInv'
<1> SUFFICES ASSUME HttpsInv, [HttpsNext]_httpsVars PROVE HttpsInv'
  OBVIOUS
<1> USE DEF HttpsInv
<1>1. ASSUME NEW q \in Requests, NEW domain \in Domains \cup {NoDomain},
             NEW newEmail \in BOOLEAN, NEW http \in BOOLEAN, NEW https \in BOOLEAN,
             Update(q, domain, newEmail, http, https)
      PROVE  HttpsInv'
  <2> DEFINE copy == [domain |-> domain, email |-> settings.email \/ newEmail,
                      http |-> http, https |-> https]
             issue == https /\ (~settings.https \/ domain # settings.domain \/ newEmail)
             stage == IF issue THEN "challenge" ELSE "save"
  <2>1. copy \in SettingsRow
    BY DEF SettingsRow, HttpsTables
  <2>2. stage \in HttpsStages \ {"issue", "render"} /\ (stage = "challenge" => copy.domain \in Domains)
    BY <1>1 DEF HttpsStages, Update
  <2>3. BeginRequest(q, stage, copy)
    BY <1>1 DEF Update
  <2> QED
    BY <2>1, <2>2, <2>3, BeginKeepsInv
<1>2. ASSUME NEW q \in Requests, BeginRenewal(q)
      PROVE  HttpsInv'
  <2>1. settings \in SettingsRow /\ "renew" \in HttpsStages \ {"issue", "render"}
    BY DEF HttpsTables, HttpsStages
  <2> QED
    BY <1>2, <2>1, BeginKeepsInv DEF BeginRenewal
<1> DEFINE OwnRow(q) == request[q] \in HttpsRequest /\ request[q].copy \in SettingsRow
<1>c. \A q \in Requests : OwnRow(q)
  BY DEF HttpsTables, HttpsRequest
<1>3. ASSUME NEW q \in Requests, ServeChallenge(q)
      PROVE  HttpsInv'
  <2> DEFINE copy == [request[q].copy EXCEPT !.https = FALSE]
  <2>1. copy \in SettingsRow
    BY <1>c DEF SettingsRow
  <2>2. PICK stage \in HttpsStages \ {"render"}, next \in SettingsRow :
           Continue(q, stage, next) /\ (stage # "idle" => next = request[q].copy)
    BY <1>3, <1>c, FirstSettingsAreARow DEF ServeChallenge, HttpsStages
  <2>3. /\ request' \in [Requests -> HttpsRequest] /\ AloneIsAlone'
        /\ request'[q] = [stage |-> stage, copy |-> next, alone |-> request[q].alone]
        /\ \A p \in Requests \ {q} : request'[p] = request[p]
    BY <1>3, <2>2, ContinueKeepsCalls DEF ServeChallenge
  <2>4. UNCHANGED <<settings, certs>> /\ (nginx' = Configuration(copy) \/ UNCHANGED nginx)
    BY <1>3 DEF ServeChallenge
  <2>5. nginx' \in NginxConfiguration /\ nginx'.ssl \in certs \cup {NoDomain}
    BY <2>1, <2>4, ConfigurationIsSound DEF HttpsTables, ServesOwnCertificate
  <2>6. mishaps' \in Nat
    BY <1>3 DEF ServeChallenge, Mishap, HttpsTables
  <2> QED
    BY <1>3, <2>2, <2>3, <2>4, <2>5, <2>6 DEF HttpsTables, ServesOwnCertificate, RendersWhatIsSaved,
         AsksForADomain, Asking, ServeChallenge
<1>4. ASSUME NEW q \in Requests, Issue(q) \/ IssueFails(q) \/ Renew(q)
      PROVE  HttpsInv'
  <2>1. /\ [request[q].copy EXCEPT !.https = TRUE] \in SettingsRow
        /\ [request[q].copy EXCEPT !.https = FALSE] \in SettingsRow
    BY <1>c DEF SettingsRow
  <2>2. PICK stage \in HttpsStages \ {"challenge", "issue", "render"}, next \in SettingsRow :
           Continue(q, stage, next)
    BY <1>4, <1>c, <2>1 DEF Issue, IssueFails, Renew, HttpsStages
  <2>3. /\ request' \in [Requests -> HttpsRequest] /\ AloneIsAlone'
        /\ request'[q] = [stage |-> stage, copy |-> next, alone |-> request[q].alone]
        /\ \A p \in Requests \ {q} : request'[p] = request[p]
    BY <1>4, <2>2, ContinueKeepsCalls DEF Issue, IssueFails, Renew
  <2>4. UNCHANGED <<settings, nginx>> /\ mishaps' \in Nat
    BY <1>4 DEF Issue, IssueFails, Renew, Mishap, HttpsTables
  <2>5. certs' \subseteq Domains /\ certs \subseteq certs'
    <3>1. CASE Issue(q)
      <4>1. nginx.challenge /\ certs' = certs \cup {request[q].copy.domain}
        BY <3>1 DEF Issue
      <4>2. request[q].copy.domain \in Domains
        BY <3>1 DEF Issue, AsksForADomain, Asking
      <4> QED
        BY <4>1, <4>2 DEF HttpsTables
    <3> QED
      BY <1>4, <3>1 DEF IssueFails, Renew, HttpsTables
  <2> QED
    BY <2>2, <2>3, <2>4, <2>5 DEF HttpsTables, ServesOwnCertificate, RendersWhatIsSaved,
         AsksForADomain, Asking
<1>5. ASSUME NEW q \in Requests, SaveSettings(q)
      PROVE  HttpsInv'
  <2>1. PICK stage \in HttpsStages \ {"challenge", "issue"} : Continue(q, stage, request[q].copy)
    BY <1>5 DEF SaveSettings, HttpsStages
  <2>2. /\ request' \in [Requests -> HttpsRequest] /\ AloneIsAlone'
        /\ request'[q] = [stage |-> stage, copy |-> request[q].copy, alone |-> request[q].alone]
        /\ \A p \in Requests \ {q} : request'[p] = request[p]
    BY <1>5, <1>c, <2>1, ContinueKeepsCalls DEF SaveSettings
  <2>3. settings' = request[q].copy /\ UNCHANGED <<certs, nginx, mishaps>>
    BY <1>5 DEF SaveSettings
  <2>4. ASSUME NEW p \in Requests, request'[p].stage = "render", request'[p].alone
        PROVE  request'[p].copy = settings'
    <3>1. CASE p = q
      BY <3>1, <2>2, <2>3
    <3>2. CASE p # q
      BY <1>5, <2>2, <2>4, <3>2 DEF AloneIsAlone, SaveSettings
    <3> QED
      BY <3>1, <3>2
  <2> QED
    BY <1>c, <2>2, <2>3, <2>4 DEF HttpsTables, ServesOwnCertificate, RendersWhatIsSaved,
         AsksForADomain, Asking
<1>6. ASSUME NEW q \in Requests, Render(q)
      PROVE  HttpsInv'
  <2>1. Continue(q, "idle", FirstSettings) /\ "idle" \in HttpsStages
    BY <1>6 DEF Render, HttpsStages
  <2>2. /\ request' \in [Requests -> HttpsRequest] /\ AloneIsAlone'
        /\ request'[q] = [stage |-> "idle", copy |-> FirstSettings, alone |-> request[q].alone]
        /\ \A p \in Requests \ {q} : request'[p] = request[p]
    BY <1>6, <2>1, FirstSettingsAreARow, ContinueKeepsCalls DEF Render
  <2>3. UNCHANGED <<settings, certs>> /\ (nginx' = Configuration(request[q].copy) \/ UNCHANGED nginx)
    BY <1>6 DEF Render
  <2>4. nginx' \in NginxConfiguration /\ nginx'.ssl \in certs \cup {NoDomain}
    BY <1>c, <2>3, ConfigurationIsSound DEF HttpsTables, ServesOwnCertificate
  <2>5. mishaps' \in Nat
    BY <1>6 DEF Render, Mishap, HttpsTables
  <2> QED
    BY <2>2, <2>3, <2>4, <2>5 DEF HttpsTables, ServesOwnCertificate, RendersWhatIsSaved,
         AsksForADomain, Asking
<1>7. ASSUME RestartPanel
      PROVE  HttpsInv'
  <2>1. UNCHANGED settings /\ certs' \subseteq Domains /\ nginx' = Configuration(settings)' /\ mishaps' \in Nat
    BY <1>7 DEF RestartPanel, Mishap, HttpsTables
  <2>2. nginx' \in NginxConfiguration /\ nginx'.ssl \in certs' \cup {NoDomain}
    BY <2>1 DEF HttpsTables, Configuration, NginxConfiguration, SettingsRow
  <2>3. request' \in [Requests -> HttpsRequest] /\ \A q \in Requests : request'[q].stage = "idle"
    BY <1>7, FirstSettingsAreARow DEF RestartPanel, NoRequest
  <2> QED
    BY <2>1, <2>2, <2>3 DEF HttpsTables, ServesOwnCertificate, AloneIsAlone, RendersWhatIsSaved,
         AsksForADomain, Asking
<1>8. CASE UNCHANGED httpsVars
  BY <1>8 DEF httpsVars, HttpsTables, AsksForADomain, Asking, AloneIsAlone, RendersWhatIsSaved, ServesOwnCertificate
<1> QED
  BY <1>1, <1>2, <1>3, <1>4, <1>5, <1>6, <1>7, <1>8 DEF HttpsNext

LEMMA HttpsInvariant == HttpsSpec => []HttpsInv
BY HttpsStarts, HttpsStep, PTL DEF HttpsSpec

(***************************************************************************)
(* For any domains and calls, and whichever of their steps fail: nginx is  *)
(* never told to serve HTTPS with a certificate that is not there (render  *)
(* in nginx-config.service.ts).                                            *)
(***************************************************************************)
THEOREM NoMissingCertificate == HttpsSpec => []ServesOwnCertificate
<1>1. HttpsInv => ServesOwnCertificate
  BY DEF HttpsInv
<1> QED
  BY <1>1, HttpsInvariant, PTL

(***************************************************************************)
(* Settings, certificates, calls and the file of nginx have their types,   *)
(* for any domains and calls (settings.service.ts, nginx-                  *)
(* config.service.ts).                                                     *)
(***************************************************************************)
THEOREM HttpsTyped == HttpsSpec => []HttpsTypeOK
<1>1. HttpsInv => HttpsTypeOK
  BY DEF HttpsInv, HttpsTables, HttpsTypeOK, HttpsRequest, NginxConfiguration
<1> QED
  BY <1>1, HttpsInvariant, PTL

(***************************************************************************)
(* For any domains and calls: one that ran alone and reached nginx leaves  *)
(* it with what the row says, also when no certificate was issued (update  *)
(* and renewCertificateNow in settings.service.ts).                        *)
(***************************************************************************)
THEOREM LoneCallReachesNginx == HttpsSpec => NginxFollowsSettings
<1> DEFINE Follows == \A q \in Requests :
                        Render(q) /\ request[q].alone /\ UNCHANGED mishaps
                            => nginx' = Configuration(settings)
<1>1. HttpsInv /\ [HttpsNext]_httpsVars => [Follows]_httpsVars
  <2> SUFFICES ASSUME HttpsInv, NEW q \in Requests, Render(q), request[q].alone, UNCHANGED mishaps
               PROVE  nginx' = Configuration(settings)
    OBVIOUS
  <2>1. request[q].copy = settings
    BY DEF HttpsInv, RendersWhatIsSaved, Render
  <2>2. ~Mishap
    BY DEF Mishap, HttpsInv, HttpsTables
  <2> QED
    BY <2>1, <2>2 DEF Render
<1> QED
  BY <1>1, HttpsInvariant, PTL DEF HttpsSpec, NginxFollowsSettings

-----------------------------------------------------------------------------
(* SelfUpdate: an update of the panel.                                     *)

(***************************************************************************)
(* What makes it inductive: from the moment nginx took the file until the  *)
(* containers are recreated, the template on disk and the code that runs   *)
(* stay of one commit, so that settings which are saved meanwhile give a   *)
(* file that nginx takes as well; while sequences do not overlap there is  *)
(* one at most that could change them.                                     *)
(***************************************************************************)
FileStaysGood ==
    /\ UpdateTypeOK
    /\ "sequence" \notin again =>
        /\ \A u, v \in Updates : u = v \/ update[u].stage = "idle" \/ update[v].stage = "idle"
        /\ \A u \in Updates : update[u].stage = "front" /\ update[u].ok => checkout = code["backend"] /\ Accepts(file)
        /\ Accepts(loaded) \/ rebooted

UpdateCall == [stage : {"idle", "git", "render", "front", "help"}, ok : BOOLEAN]

LEMMA UpdateStarts == UpdateInit => FileStaysGood
<1> SUFFICES ASSUME UpdateInit PROVE FileStaysGood
  OBVIOUS
<1>1. 1 \in Commits
  BY UpdateAssumption DEF Commits
<1>2. code \in [{"backend", "frontend"} -> Commits]
  BY <1>1 DEF UpdateInit
<1>3. {file, loaded} \subseteq Files
  BY <1>1 DEF UpdateInit, Files
<1>4. update \in [Updates -> UpdateCall] /\ \A u \in Updates : update[u].stage = "idle"
  BY DEF UpdateInit, NoUpdates, UpdateCall
<1>5. {helper, rebooted} \subseteq BOOLEAN /\ again = {}
  BY DEF UpdateInit
<1>6. UpdateTypeOK
  BY <1>1, <1>2, <1>3, <1>4, <1>5 DEF UpdateInit, UpdateTypeOK, UpdateCall
<1> QED
  BY <1>4, <1>6 DEF UpdateInit, FileStaysGood, Accepts

\* The steps of one sequence, as the others see them.
LEMMA StageMoves ==
    ASSUME UpdateTypeOK, NEW u \in Updates, NEW from, NEW to \in {"idle", "git", "render", "front", "help"},
           At(u, from, to)
    PROVE  /\ update' \in [Updates -> UpdateCall] /\ update[u].stage = from
           /\ update'[u].stage = to /\ update'[u].ok = update[u].ok
           /\ \A v \in Updates \ {u} : update'[v] = update[v]
<1>1. update \in [Updates -> UpdateCall]
  BY DEF UpdateTypeOK, UpdateCall
<1>2. PICK new : new = [update[u] EXCEPT !.stage = to]
  OBVIOUS
<1>3. new \in UpdateCall /\ new.stage = to /\ new.ok = update[u].ok
  BY <1>1, <1>2 DEF UpdateCall
<1>4. update' = [update EXCEPT ![u] = new] /\ update[u].stage = from
  BY <1>2 DEF At
<1> QED
  BY <1>1, <1>3, <1>4

LEMMA UpdateContinues == FileStaysGood /\ [UpdateNext]_updateVars => FileStaysGood'
<1> SUFFICES ASSUME FileStaysGood, [UpdateNext]_updateVars PROVE FileStaysGood'
  OBVIOUS
<1> USE DEF FileStaysGood
<1>0. /\ checkout \in Commits /\ remote \in Commits /\ code \in [{"backend", "frontend"} -> Commits]
      /\ file \in Files /\ loaded \in Files /\ update \in [Updates -> UpdateCall]
      /\ helper \in BOOLEAN /\ rebooted \in BOOLEAN /\ again \subseteq {"helper", "sequence"}
  BY DEF UpdateTypeOK, UpdateCall
<1>a. [template |-> checkout, by |-> code["backend"]] \in Files /\ [template |-> checkout, by |-> checkout] \in Files
  BY <1>0 DEF Files
<1> DEFINE Types ==
        /\ checkout' \in Commits /\ remote' \in Commits /\ code' \in [{"backend", "frontend"} -> Commits]
        /\ file' \in Files /\ loaded' \in Files /\ update' \in [Updates -> UpdateCall]
        /\ helper' \in BOOLEAN /\ rebooted' \in BOOLEAN /\ again' \subseteq {"helper", "sequence"}
<1>b. Types => UpdateTypeOK'
  BY DEF UpdateTypeOK, UpdateCall
<1>1. CASE Push
  <2>1. remote' \in Commits
    BY <1>0, <1>1, UpdateAssumption DEF Push, Commits
  <2>2. UNCHANGED <<checkout, code, file, loaded, update, helper, rebooted, again>>
    BY <1>1 DEF Push
  <2> QED
    BY <1>0, <1>b, <2>1, <2>2 DEF Accepts
<1>2. ASSUME NEW u \in Updates, TriggerUpdate(u) PROVE FileStaysGood'
  <2>1. At(u, "idle", "git") /\ UNCHANGED <<remote, checkout, code, file, loaded, helper, rebooted>>
    BY <1>2 DEF TriggerUpdate
  <2>2. /\ update' \in [Updates -> UpdateCall] /\ update'[u].stage = "git"
        /\ \A v \in Updates \ {u} : update'[v] = update[v]
    BY <2>1, StageMoves
  <2>3. /\ again' \subseteq {"helper", "sequence"} /\ again \subseteq again'
        /\ (\E v \in Updates : update[v].stage # "idle") => "sequence" \in again'
    BY <1>0, <1>2 DEF TriggerUpdate
  <2>4. Types
    BY <1>0, <2>1, <2>2, <2>3
  <2> QED
    BY <1>b, <2>1, <2>2, <2>3, <2>4 DEF Accepts
<1>3. ASSUME NEW u \in Updates, Pull(u) PROVE FileStaysGood'
  <2>1. /\ At(u, "git", "render") \/ At(u, "git", "idle")
        /\ checkout' \in {checkout, remote}
        /\ UNCHANGED <<remote, code, file, loaded, helper, rebooted, again>>
    BY <1>3 DEF Pull
  <2>2. /\ update' \in [Updates -> UpdateCall] /\ update[u].stage = "git" /\ update'[u].stage # "front"
        /\ \A v \in Updates \ {u} : update'[v] = update[v]
    BY <2>1, StageMoves
  <2>3. Types
    BY <1>0, <2>1, <2>2
  <2> QED
    BY <1>b, <2>1, <2>2, <2>3 DEF Accepts
<1>4. ASSUME NEW u \in Updates, RenderFile(u) PROVE FileStaysGood'
  <2>1. PICK ok \in BOOLEAN : ok = Accepts(file')
    BY DEF Accepts
  <2>2. PICK new : new = [stage |-> "front", ok |-> ok]
    OBVIOUS
  <2>3. new \in UpdateCall /\ new.stage = "front" /\ new.ok = ok
    BY <2>2 DEF UpdateCall
  <2>4. /\ update[u].stage = "render" /\ update' = [update EXCEPT ![u] = new]
        /\ file' = [template |-> checkout, by |-> code["backend"]]
        /\ loaded' = (IF Accepts(file') THEN file' ELSE loaded)
        /\ UNCHANGED <<remote, checkout, code, helper, rebooted, again>>
    BY <1>4, <2>1, <2>2 DEF RenderFile
  <2>5. /\ update' \in [Updates -> UpdateCall] /\ update'[u] = new
        /\ \A v \in Updates \ {u} : update'[v] = update[v]
    BY <1>0, <2>3, <2>4
  <2>6. Types
    BY <1>0, <1>a, <2>4, <2>5
  <2>7. Accepts(file') => checkout = code["backend"]
    BY <2>4 DEF Accepts
  <2>8. ASSUME "sequence" \notin again
        PROVE  /\ \A v, w \in Updates : v = w \/ update'[v].stage = "idle" \/ update'[w].stage = "idle"
               /\ \A v \in Updates : update'[v].stage = "front" /\ update'[v].ok => checkout' = code'["backend"] /\ Accepts(file')
               /\ Accepts(loaded') \/ rebooted'
    <3>1. \A v \in Updates \ {u} : update'[v].stage = "idle"
      BY <2>4, <2>5, <2>8
    <3>2. Accepts(loaded') \/ rebooted'
      BY <2>4, <2>8
    <3>3. update'[u].ok => checkout' = code'["backend"] /\ Accepts(file')
      BY <2>1, <2>3, <2>4, <2>5, <2>7
    <3> QED
      BY <3>1, <3>2, <3>3
  <2> QED
    BY <1>b, <2>4, <2>6, <2>8 DEF Accepts
<1>5. ASSUME NEW u \in Updates, RecreateFront(u) PROVE FileStaysGood'
  <2>1. /\ At(u, "front", "help") \/ At(u, "front", "idle")
        /\ code' = [code EXCEPT !["frontend"] = checkout] \/ code' = code
        /\ loaded' = loaded \/ (update[u].ok /\ loaded' = file)
        /\ UNCHANGED <<remote, checkout, file, helper, rebooted, again>>
    BY <1>5 DEF RecreateFront
  <2>2. /\ update' \in [Updates -> UpdateCall] /\ update[u].stage = "front" /\ update'[u].stage # "front"
        /\ \A v \in Updates \ {u} : update'[v] = update[v]
    BY <2>1, StageMoves
  <2>3. code' \in [{"backend", "frontend"} -> Commits] /\ code'["backend"] = code["backend"]
    BY <1>0, <2>1
  <2>4. Types
    BY <1>0, <2>1, <2>2, <2>3
  <2> QED
    BY <1>b, <2>1, <2>2, <2>3, <2>4 DEF Accepts
<1>6. ASSUME NEW u \in Updates, StartHelper(u) PROVE FileStaysGood'
  <2>1. /\ At(u, "help", "idle") /\ helper' \in {helper, TRUE}
        /\ UNCHANGED <<remote, checkout, code, file, loaded, rebooted, again>>
    BY <1>6 DEF StartHelper
  <2>2. /\ update' \in [Updates -> UpdateCall] /\ update'[u].stage = "idle"
        /\ \A v \in Updates \ {u} : update'[v] = update[v]
    BY <2>1, StageMoves
  <2>3. Types
    BY <1>0, <2>1, <2>2
  <2> QED
    BY <1>b, <2>1, <2>2, <2>3 DEF Accepts
<1>n. NoUpdates \in [Updates -> UpdateCall] /\ \A u \in Updates : NoUpdates[u].stage = "idle"
  BY DEF NoUpdates, UpdateCall
<1>7. CASE RecreateBackend
  <2>1. /\ helper' = FALSE /\ UNCHANGED <<remote, checkout, rebooted, again>>
        /\ \/ UNCHANGED <<code, file, loaded, update>>
           \/ /\ code' = [code EXCEPT !["backend"] = checkout]
              /\ file' = [template |-> checkout, by |-> checkout] /\ loaded' = file'
              /\ update' = NoUpdates
    BY <1>7 DEF RecreateBackend
  <2>2. CASE UNCHANGED <<code, file, loaded, update>>
    BY <1>0, <1>b, <2>1, <2>2 DEF Accepts
  <2>3. CASE /\ code' = [code EXCEPT !["backend"] = checkout]
             /\ file' = [template |-> checkout, by |-> checkout] /\ loaded' = file'
             /\ update' = NoUpdates
    <3>1. code' \in [{"backend", "frontend"} -> Commits] /\ Accepts(loaded')
      BY <1>0, <2>3 DEF Accepts
    <3>2. Types
      BY <1>0, <1>a, <1>n, <2>1, <2>3, <3>1
    <3> QED
      BY <1>b, <1>n, <2>1, <2>3, <3>1, <3>2 DEF Accepts
  <2> QED
    BY <2>1, <2>2, <2>3
<1>8. CASE SaveSettingsMeanwhile
  <2>1. /\ file' = [template |-> checkout, by |-> code["backend"]]
        /\ loaded' = (IF Accepts(file') THEN file' ELSE loaded)
        /\ UNCHANGED <<remote, checkout, code, update, helper, rebooted, again>>
    BY <1>8 DEF SaveSettingsMeanwhile
  <2>2. Types
    BY <1>0, <1>a, <2>1
  <2> QED
    BY <1>b, <2>1, <2>2 DEF Accepts
<1>9. CASE RebootHost
  <2>1. /\ rebooted' = TRUE /\ helper' = FALSE /\ update' = NoUpdates
        /\ file' = [template |-> checkout, by |-> code["backend"]] /\ loaded' = file'
        /\ UNCHANGED <<remote, checkout, code, again>>
    BY <1>9 DEF RebootHost
  <2>2. Types
    BY <1>0, <1>a, <1>n, <2>1
  <2> QED
    BY <1>b, <1>n, <2>1, <2>2
<1>10. CASE UNCHANGED updateVars
  <2>1. UNCHANGED <<remote, checkout, code, file, loaded, update, helper, rebooted, again>>
    BY <1>10 DEF updateVars
  <2> QED
    BY <1>0, <1>b, <2>1 DEF Accepts
<1> QED
  BY <1>1, <1>2, <1>3, <1>4, <1>5, <1>6, <1>7, <1>8, <1>9, <1>10 DEF UpdateNext

(***************************************************************************)
(* Until the host reboots, nginx runs with a configuration it accepted,    *)
(* whatever commits come, and whichever steps of their updates fail        *)
(* (runUpdateSequence recreates nginx only after a successful reload);     *)
(* nothing is claimed once sequences have overlapped, which triggerUpdate  *)
(* does not prevent.                                                       *)
(***************************************************************************)
THEOREM NginxStays == UpdateSpec => []NginxKeepsRunning
<1>1. FileStaysGood => NginxKeepsRunning
  BY DEF FileStaysGood, NginxKeepsRunning
<1> QED
  BY <1>1, UpdateStarts, UpdateContinues, PTL DEF UpdateSpec

-----------------------------------------------------------------------------
(* DatabaseRestore: a restore of a dump.                                   *)

Table == [there : BOOLEAN, keyed : BOOLEAN, rows : Contents]

Whole == [there |-> TRUE, keyed |-> TRUE, rows |-> {"dump"}]

\* A table that just this restore has written, at each step of it.
Made == [there |-> TRUE, keyed |-> FALSE, rows |-> {}]
Filled == [there |-> TRUE, keyed |-> FALSE, rows |-> {"dump"}]

Expected(step, waits) ==
    CASE step = "create" -> IF waits THEN Absent ELSE Made
      [] step = "copy" -> IF waits THEN Made ELSE Filled
      [] step = "key" -> IF waits THEN Filled ELSE Whole

Running == {"create", "copy", "key"}

\* The statements that a restore has run are what its tables show.
TablesFollow ==
    \A r \in Restores : restore[r].step \in Running =>
        \A t \in Stores \ touched[r] :
            database[t] = Expected(restore[r].step, t \in restore[r].todo)

\* A restore that reported its end runs no more statements, nor does one whose
\* process has ended.
EndsAreFinal ==
    /\ \A r \in Restores : progress[r] = "done" => restore[r].step \in {"exit", "ended"}
    /\ ~alive => \A r \in Restores : restore[r].step \in {"new", "ended"}

(***************************************************************************)
(* What makes it inductive: each table that nothing else wrote is exactly  *)
(* as far as the statements of the restore have come.                      *)
(***************************************************************************)
RestoreInv == RestoreTypeOK /\ TablesFollow /\ EndsAreFinal /\ RestoredIsTheDump

LEMMA RestoreStarts == RestoreInit => RestoreInv
<1> SUFFICES ASSUME RestoreInit PROVE RestoreInv
  OBVIOUS
<1>1. database \in [Stores -> [there : BOOLEAN, keyed : BOOLEAN, rows : Contents]]
  BY DEF RestoreInit, Contents
<1>2. restore \in [Restores -> [step : Steps, todo : SUBSET Stores, whole : BOOLEAN]]
  BY DEF RestoreInit, NewRestore, Steps
<1>3. progress \in [Restores -> {"none", "done", "error"}] /\ touched \in [Restores -> SUBSET Stores]
  BY DEF RestoreInit
<1>4. \A r \in Restores : restore[r].step = "new" /\ progress[r] = "none"
  BY DEF RestoreInit, NewRestore
<1> QED
  BY <1>1, <1>2, <1>3, <1>4 DEF RestoreInit, RestoreInv, RestoreTypeOK, TablesFollow, EndsAreFinal,
     RestoredIsTheDump, Running

\* A table is its three fields.
LEMMA TableFields ==
    ASSUME NEW d \in Table, NEW e \in Table, d.there = e.there, d.keyed = e.keyed, d.rows = e.rows
    PROVE  d = e
BY DEF Table

LEMMA Constants ==
    /\ Absent \in Table /\ Made \in Table /\ Filled \in Table /\ Whole \in Table
    /\ Absent.there = FALSE /\ Absent.keyed = FALSE /\ Absent.rows = {}
    /\ Made.there = TRUE /\ Made.keyed = FALSE /\ Made.rows = {}
    /\ Filled.there = TRUE /\ Filled.keyed = FALSE /\ Filled.rows = {"dump"}
    /\ Whole.there = TRUE /\ Whole.keyed = TRUE /\ Whole.rows = {"dump"}
<1>1. {} \in Contents /\ {"dump"} \in Contents
  BY DEF Contents
<1>2. Absent \in Table /\ Absent.there = FALSE /\ Absent.keyed = FALSE /\ Absent.rows = {}
  BY <1>1 DEF Absent, Table
<1>3. Made \in Table /\ Made.there = TRUE /\ Made.keyed = FALSE /\ Made.rows = {}
  BY <1>1 DEF Made, Table
<1>4. Filled \in Table /\ Filled.there = TRUE /\ Filled.keyed = FALSE /\ Filled.rows = {"dump"}
  BY <1>1 DEF Filled, Table
<1>5. Whole \in Table /\ Whole.there = TRUE /\ Whole.keyed = TRUE /\ Whole.rows = {"dump"}
  BY <1>1 DEF Whole, Table
<1> QED
  BY <1>2, <1>3, <1>4, <1>5

\* Any statement, and the start of the backend, leave a table a table.
LEMMA StatementsType ==
    ASSUME NEW d \in Table
    PROVE  /\ Absent \in Table /\ Created(d) \in Table /\ Copied(d) \in Table /\ Keyed(d) \in Table
           /\ Synchronized(d) \in Table /\ Seeded(Synchronized(d)) \in Table
<1>1. Absent \in Table
  BY DEF Absent, Table, Contents
<1>2. Created(d) \in Table
  BY DEF Created, Table
<1>3. Copied(d) \in Table
  <2> DEFINE more == d.rows \cup {"dump"} \cup (IF "dump" \in d.rows THEN {"other"} ELSE {})
  <2>1. more \in Contents
    BY DEF Table, Contents
  <2>2. Copied(d) = d \/ Copied(d) = [d EXCEPT !.rows = more]
    BY DEF Copied
  <2> HIDE DEF more
  <2> QED
    BY <2>1, <2>2 DEF Table
<1>4. Keyed(d) \in Table
  BY DEF Keyed, Table
<1>5. Synchronized(d) \in Table
  BY DEF Synchronized, Table
<1>6. ASSUME NEW e \in Table PROVE Seeded(e) \in Table
  <2>1. {"other"} \in Contents
    BY DEF Contents
  <2> QED
    BY <2>1 DEF Seeded, Table
<1> QED
  BY <1>1, <1>2, <1>3, <1>4, <1>5, <1>6

\* What the statements do to the tables of their own restore, and a start of the
\* backend to those of a whole dump.
LEMMA StatementsMake ==
    /\ Created(Absent) = Made
    /\ Copied(Made) = Filled
    /\ Keyed(Filled) = Whole
    /\ Synchronized(Whole) = Whole
    /\ Seeded(Whole) = Whole
<1> USE Constants, StatementsType
<1>1. Created(Absent) = Made
  <2>1. Created(Absent).there = TRUE /\ Created(Absent).keyed = FALSE /\ Created(Absent).rows = {}
    BY DEF Created, Table
  <2> QED
    BY <2>1, TableFields
<1>2. Copied(Made) = Filled
  <2>1. Copied(Made).there = TRUE /\ Copied(Made).keyed = FALSE /\ Copied(Made).rows = {"dump"}
    BY DEF Copied, Table
  <2> QED
    BY <2>1, TableFields
<1>3. Keyed(Filled) = Whole
  <2>1. Keyed(Filled).there = TRUE /\ Keyed(Filled).keyed = TRUE /\ Keyed(Filled).rows = {"dump"}
    BY DEF Keyed, Table
  <2> QED
    BY <2>1, TableFields
<1>4. Synchronized(Whole) = Whole
  <2>1. /\ Synchronized(Whole).there = TRUE /\ Synchronized(Whole).keyed = TRUE
        /\ Synchronized(Whole).rows = {"dump"}
    BY DEF Synchronized, Table
  <2> QED
    BY <2>1, TableFields
<1>5. Seeded(Whole) = Whole
  <2>1. Seeded(Whole).there = TRUE /\ Seeded(Whole).keyed = TRUE /\ Seeded(Whole).rows = {"dump"}
    BY DEF Seeded, Table
  <2>2. Seeded(Whole) \in Table
    BY <1>4
  <2> QED
    BY <2>1, <2>2, TableFields
<1> QED
  BY <1>1, <1>2, <1>3, <1>4, <1>5

Records == [step : Steps, todo : SUBSET Stores, whole : BOOLEAN]

\* Restore r comes to a step, with these tables to do; the others stay.
Comes(r, step, todo) ==
    /\ restore' \in [Restores -> Records]
    /\ restore'[r].step = step /\ restore'[r].todo = todo /\ restore'[r].whole = restore[r].whole
    /\ \A s \in Restores \ {r} : restore'[s] = restore[s]

LEMMA StepComes ==
    ASSUME RestoreTypeOK, NEW r \in Restores, NEW step \in Steps, NEW todo \in SUBSET Stores,
           restore' = [restore EXCEPT ![r] = [restore[r] EXCEPT !.step = step, !.todo = todo]]
    PROVE  Comes(r, step, todo)
<1> DEFINE record == [restore[r] EXCEPT !.step = step, !.todo = todo]
<1>1. record \in Records /\ record.step = step /\ record.todo = todo /\ record.whole = restore[r].whole
  BY DEF RestoreTypeOK, Records
<1> HIDE DEF record
<1>2. restore' = [restore EXCEPT ![r] = record]
  BY DEF record
<1> QED
  BY <1>1, <1>2 DEF RestoreTypeOK, Records, Comes

\* All restores in progress end.
LEMMA AllEnd ==
    ASSUME RestoreInv, restore' = Stopped, alive' = FALSE,
           UNCHANGED <<database, progress, touched>>
    PROVE  RestoreInv'
<1>1. ASSUME NEW s \in Restores
      PROVE  /\ Stopped[s] \in Records /\ Stopped[s].whole = restore[s].whole
             /\ Stopped[s].step \in {"new", "ended"}
             /\ restore[s].step # "new" => Stopped[s].step = "ended"
  BY DEF Stopped, RestoreInv, RestoreTypeOK, Records, Steps
<1>2. Stopped \in [Restores -> Records]
  BY <1>1 DEF Stopped
<1>3. RestoreTypeOK'
  BY <1>2 DEF RestoreInv, RestoreTypeOK, Records
<1>4. TablesFollow'
  BY <1>1 DEF TablesFollow, Running
<1>5. EndsAreFinal'
  BY <1>1 DEF RestoreInv, EndsAreFinal
<1>6. RestoredIsTheDump'
  BY <1>1 DEF RestoreInv, RestoredIsTheDump
<1> QED
  BY <1>3, <1>4, <1>5, <1>6 DEF RestoreInv

LEMMA RestoreContinues == RestoreInv /\ [RestoreNext]_restoreVars => RestoreInv'
<1> SUFFICES ASSUME RestoreInv, [RestoreNext]_restoreVars PROVE RestoreInv'
  OBVIOUS
<1>0. /\ database \in [Stores -> Table] /\ restore \in [Restores -> Records]
      /\ progress \in [Restores -> {"none", "done", "error"}]
      /\ touched \in [Restores -> SUBSET Stores] /\ alive \in BOOLEAN
  BY DEF RestoreInv, RestoreTypeOK, Table, Records
<1>1. ASSUME NEW r \in Restores, NEW whole \in BOOLEAN, TerminateConnections(r, whole) PROVE RestoreInv'
  <2>1. /\ restore[r].step = "new" /\ alive
        /\ UNCHANGED <<database, touched, alive>>
    BY <1>1 DEF TerminateConnections
  <2> DEFINE cut == {s \in Restores \ {r} : restore[s].step \in {"create", "copy", "key"}}
  <2>2. /\ restore' = [s \in Restores |->
                IF s = r THEN [step |-> "clear", todo |-> {}, whole |-> whole]
                ELSE IF s \in cut THEN [restore[s] EXCEPT !.step = "ended"] ELSE restore[s]]
        /\ progress' = [s \in Restores |-> IF s \in cut THEN "error" ELSE progress[s]]
    BY <1>1 DEF TerminateConnections
  <2>3. restore'[r].step = "clear" /\ restore'[r] \in Records
    BY <2>2 DEF Records, Steps
  <2>4. ASSUME NEW s \in Restores \ {r}
        PROVE  /\ restore'[s] \in Records /\ restore'[s].whole = restore[s].whole
               /\ IF s \in cut THEN restore'[s].step = "ended" /\ progress'[s] = "error"
                  ELSE restore'[s] = restore[s] /\ progress'[s] = progress[s]
    BY <1>0, <2>2 DEF Records, Steps
  <2>5. progress'[r] = progress[r] /\ progress[r] # "done"
    BY <2>1, <2>2 DEF RestoreInv, EndsAreFinal
  <2>6. restore' \in [Restores -> Records]
    BY <2>2, <2>3, <2>4
  <2>7. progress' \in [Restores -> {"none", "done", "error"}]
    BY <1>0, <2>2
  <2>8. RestoreTypeOK'
    BY <2>1, <2>6, <2>7 DEF RestoreInv, RestoreTypeOK, Records
  <2>9. TablesFollow'
    BY <2>3, <2>4 DEF TablesFollow, Running
  <2>10. EndsAreFinal'
    BY <2>1, <2>4, <2>5 DEF RestoreInv, EndsAreFinal
  <2>11. RestoredIsTheDump'
    BY <2>1, <2>4, <2>5 DEF RestoreInv, RestoredIsTheDump
  <2> QED
    BY <2>8, <2>9, <2>10, <2>11 DEF RestoreInv
<1>2. ASSUME NEW r \in Restores, ClearSchema(r) PROVE RestoreInv'
  <2>1. /\ restore[r].step = "clear"
        /\ database' = [t \in Stores |-> Absent]
        /\ touched' = [TouchedBy(r, Stores) EXCEPT ![r] = {}]
        /\ restore' = [restore EXCEPT ![r] = [restore[r] EXCEPT !.step = "create", !.todo = Stores]]
        /\ UNCHANGED <<progress, alive>>
    BY <1>0, <1>2 DEF ClearSchema, Cleared, Records
  <2>2. Comes(r, "create", Stores)
    BY <2>1, StepComes DEF RestoreInv, Steps
  <2>3. /\ touched' \in [Restores -> SUBSET Stores] /\ touched'[r] = {}
        /\ \A s \in Restores \ {r} : touched'[s] = Stores
    BY <1>0, <2>1 DEF TouchedBy
  <2>4. progress[r] # "done" /\ alive
    BY <1>0, <2>1 DEF RestoreInv, EndsAreFinal
  <2>5. RestoreTypeOK'
    BY <2>1, <2>2, <2>3, Constants DEF RestoreInv, RestoreTypeOK, Comes, Records, Table
  <2>6. TablesFollow'
    BY <2>1, <2>2, <2>3 DEF TablesFollow, Comes, Expected
  <2>7. EndsAreFinal'
    BY <2>1, <2>2, <2>4 DEF RestoreInv, EndsAreFinal, Comes
  <2>8. RestoredIsTheDump'
    BY <2>1, <2>3, <2>4 DEF RestoredIsTheDump
  <2> QED
    BY <2>5, <2>6, <2>7, <2>8 DEF RestoreInv
<1>3. ASSUME NEW r \in Restores, RunStatement(r) PROVE RestoreInv'
  <2> DEFINE step == restore[r].step
  <2>1. PICK t \in restore[r].todo :
          /\ database' = [database EXCEPT ![t] = Run(step, @)]
          /\ touched' = TouchedBy(r, {t})
          /\ restore' = [restore EXCEPT ![r].todo = @ \ {t}]
    BY <1>3 DEF RunStatement
  <2>2. step \in Running /\ t \in Stores /\ progress[r] # "done" /\ alive /\ UNCHANGED <<progress, alive>>
    BY <1>0, <1>3 DEF RunStatement, Running, Records, RestoreInv, EndsAreFinal
  <2>3. Comes(r, step, restore[r].todo \ {t})
    <3>1. [restore[r] EXCEPT !.todo = @ \ {t}] = [restore[r] EXCEPT !.step = step, !.todo = restore[r].todo \ {t}]
      BY <1>0 DEF Records
    <3>2. restore' = [restore EXCEPT ![r] = [restore[r] EXCEPT !.todo = @ \ {t}]]
      BY <2>1
    <3>3. step \in Steps /\ restore[r].todo \ {t} \in SUBSET Stores
      BY <1>0 DEF Records
    <3>4. restore' = [restore EXCEPT ![r] = [restore[r] EXCEPT !.step = step, !.todo = restore[r].todo \ {t}]]
      BY <3>1, <3>2
    <3> HIDE DEF step
    <3> QED
      BY <3>3, <3>4, StepComes DEF RestoreInv
  <2>4. /\ touched' \in [Restores -> SUBSET Stores] /\ touched'[r] = touched[r]
        /\ \A s \in Restores \ {r} : touched'[s] = touched[s] \cup {t}
    BY <1>0, <2>1, <2>2 DEF TouchedBy
  <2>5. Run(step, database[t]) \in Table
    BY <1>0, <2>2, StatementsType DEF Run, Running
  <2>6. /\ database' \in [Stores -> Table]
        /\ database'[t] = Run(step, database[t])
        /\ \A u \in Stores \ {t} : database'[u] = database[u]
    BY <1>0, <2>1, <2>2, <2>5
  <2>7. t \notin touched[r] => database'[t] = Expected(step, FALSE)
    BY <2>1, <2>2, <2>6, StatementsMake DEF RestoreInv, TablesFollow, Running, Run, Expected
  <2> HIDE DEF step
  <2>8. RestoreTypeOK'
    BY <1>0, <2>2, <2>3, <2>4, <2>6 DEF RestoreTypeOK, Comes, Records, Table
  <2>9. TablesFollow'
    <3> SUFFICES ASSUME NEW s \in Restores, restore'[s].step \in Running, NEW u \in Stores \ touched'[s]
                 PROVE  database'[u] = Expected(restore'[s].step, u \in restore'[s].todo)
      BY DEF TablesFollow
    <3>1. CASE s = r /\ u = t
      <4>1. (u \in restore'[r].todo) = FALSE
        BY <2>3, <3>1 DEF Comes
      <4>2. restore'[r].step = step /\ t \notin touched[r]
        BY <2>3, <2>4, <3>1 DEF Comes
      <4>3. Expected(restore'[s].step, u \in restore'[s].todo) = Expected(step, FALSE)
        BY <3>1, <4>1, <4>2
      <4> QED
        BY <2>7, <3>1, <4>2, <4>3
    <3>2. CASE s = r /\ u # t
      <4>1. database[u] = Expected(restore[r].step, u \in restore[r].todo)
        BY <2>2, <2>4, <3>2 DEF RestoreInv, TablesFollow, step
      <4>2. (u \in restore'[r].todo) = (u \in restore[r].todo)
        BY <2>3, <3>2 DEF Comes
      <4>3. restore'[r].step = restore[r].step /\ database'[u] = database[u]
        BY <2>3, <2>6, <3>2 DEF Comes, step
      <4> QED
        BY <3>2, <4>1, <4>2, <4>3
    <3>3. CASE s # r
      <4>1. restore'[s] = restore[s] /\ u \in Stores \ touched[s] /\ u # t
        BY <2>3, <2>4, <3>3 DEF Comes
      <4> QED
        BY <2>6, <4>1 DEF RestoreInv, TablesFollow
    <3> QED
      BY <3>1, <3>2, <3>3
  <2>10. EndsAreFinal'
    BY <2>2, <2>3 DEF RestoreInv, EndsAreFinal, Comes
  <2>11. RestoredIsTheDump'
    BY <2>2, <2>3, <2>4, <2>6 DEF RestoreInv, RestoredIsTheDump, Comes
  <2> QED
    BY <2>8, <2>9, <2>10, <2>11 DEF RestoreInv
<1>4. ASSUME NEW r \in Restores, NextStatements(r) PROVE RestoreInv'
  <2> DEFINE step == restore[r].step
             next == After(step)
             todo == IF step = "key" THEN {} ELSE Stores
  <2>1. /\ step \in Running /\ restore[r].todo = {}
        /\ restore' = [restore EXCEPT ![r].step = After(@), ![r].todo = todo]
        /\ progress' = [progress EXCEPT ![r] = IF step = "key" THEN "done" ELSE @]
        /\ UNCHANGED <<database, touched, alive>>
    BY <1>4 DEF NextStatements, Running
  <2>2. /\ next \in Steps /\ todo \in SUBSET Stores /\ next # "new" /\ next # "ended"
        /\ next \in Running <=> step # "key"
        /\ step = "key" => next = "exit"
    BY <2>1 DEF Running, After, Steps
  <2>3. step \in Running /\ step # "key" => Expected(step, FALSE) = Expected(next, TRUE)
    BY DEF Running, After, Expected
  <2>4. step = "key" => Expected(step, FALSE) = Whole
    BY DEF Expected
  <2>5. alive /\ progress[r] # "done"
    BY <2>1 DEF RestoreInv, EndsAreFinal, Running
  <2>6. Comes(r, next, todo)
    <3>1. restore' = [restore EXCEPT ![r] = [restore[r] EXCEPT !.step = next, !.todo = todo]]
      BY <1>0, <2>1
    <3> HIDE DEF next, todo
    <3> QED
      BY <2>2, <3>1, StepComes DEF RestoreInv
  <2>7. /\ progress' \in [Restores -> {"none", "done", "error"}]
        /\ progress'[r] = "done" <=> step = "key"
        /\ \A s \in Restores \ {r} : progress'[s] = progress[s]
    BY <1>0, <2>1, <2>5
  <2>8. \A u \in Stores \ touched[r] : database[u] = Expected(step, FALSE)
    <3> SUFFICES ASSUME NEW u \in Stores \ touched[r] PROVE database[u] = Expected(step, FALSE)
      OBVIOUS
    <3>1. database[u] = Expected(step, u \in restore[r].todo)
      BY <2>1 DEF RestoreInv, TablesFollow
    <3>2. (u \in restore[r].todo) = FALSE
      BY <2>1
    <3> QED
      BY <3>1, <3>2
  <2>9. step # "key" => todo = Stores
    OBVIOUS
  <2> HIDE DEF step, next, todo
  <2>10. RestoreTypeOK'
    BY <1>0, <2>1, <2>6, <2>7 DEF RestoreTypeOK, Comes, Records, Table
  <2>11. TablesFollow'
    <3> SUFFICES ASSUME NEW s \in Restores, restore'[s].step \in Running, NEW u \in Stores \ touched'[s]
                 PROVE  database'[u] = Expected(restore'[s].step, u \in restore'[s].todo)
      BY DEF TablesFollow
    <3>1. CASE s = r
      <4>1. restore'[s].step = next /\ step # "key" /\ (u \in restore'[s].todo) = TRUE
        BY <2>2, <2>6, <2>9, <3>1 DEF Comes
      <4>2. Expected(restore'[s].step, u \in restore'[s].todo) = Expected(next, TRUE)
        BY <4>1
      <4>3. database'[u] = Expected(step, FALSE)
        BY <2>1, <2>8, <3>1
      <4> QED
        BY <2>1, <2>3, <4>1, <4>2, <4>3
    <3>2. CASE s # r
      BY <2>1, <2>6, <3>2 DEF RestoreInv, TablesFollow, Comes
    <3> QED
      BY <3>1, <3>2
  <2>12. EndsAreFinal'
    BY <2>1, <2>2, <2>5, <2>6, <2>7 DEF RestoreInv, EndsAreFinal, Comes
  <2>13. RestoredIsTheDump'
    <3> SUFFICES ASSUME NEW s \in Restores, progress'[s] = "done", restore'[s].whole,
                        NEW u \in Stores \ touched'[s]
                 PROVE  database'[u] = Whole
      BY DEF RestoredIsTheDump, Whole
    <3>1. CASE s = r
      BY <2>1, <2>4, <2>7, <2>8, <3>1
    <3>2. CASE s # r
      BY <2>1, <2>6, <2>7, <3>2 DEF RestoreInv, RestoredIsTheDump, Whole, Comes
    <3> QED
      BY <3>1, <3>2
  <2> QED
    BY <2>10, <2>11, <2>12, <2>13 DEF RestoreInv
<1>5. ASSUME NEW r \in Restores, DumpEnds(r) PROVE RestoreInv'
  <2>1. /\ restore[r].step \in Running /\ ~restore[r].whole
        /\ restore' = [restore EXCEPT ![r].step = "exit", ![r].todo = {}]
        /\ progress' = [progress EXCEPT ![r] = "done"]
        /\ UNCHANGED <<database, touched, alive>>
    BY <1>5 DEF DumpEnds, Running
  <2>2. Comes(r, "exit", {})
    <3>1. restore' = [restore EXCEPT ![r] = [restore[r] EXCEPT !.step = "exit", !.todo = {}]]
      BY <1>0, <2>1
    <3> QED
      BY <3>1, StepComes DEF RestoreInv, Steps
  <2>3. alive
    BY <2>1 DEF RestoreInv, EndsAreFinal, Running
  <2>4. RestoreTypeOK'
    BY <1>0, <2>1, <2>2 DEF RestoreTypeOK, Comes, Records, Table
  <2>5. TablesFollow'
    BY <2>1, <2>2 DEF RestoreInv, TablesFollow, Comes, Running
  <2>6. EndsAreFinal'
    BY <1>0, <2>1, <2>2, <2>3 DEF RestoreInv, EndsAreFinal, Comes
  <2>7. RestoredIsTheDump'
    BY <1>0, <2>1, <2>2 DEF RestoreInv, RestoredIsTheDump, Comes
  <2> QED
    BY <2>4, <2>5, <2>6, <2>7 DEF RestoreInv
<1>6. ASSUME NEW r \in Restores, RestoreFails(r) PROVE RestoreInv'
  <2>1. /\ restore[r].step \in {"clear"} \cup Running
        /\ restore' = [restore EXCEPT ![r].step = "ended"]
        /\ progress' = [progress EXCEPT ![r] = "error"]
        /\ UNCHANGED <<database, touched, alive>>
    BY <1>6 DEF RestoreFails, Running
  <2>2. Comes(r, "ended", restore[r].todo)
    <3>1. restore' = [restore EXCEPT ![r] = [restore[r] EXCEPT !.step = "ended", !.todo = restore[r].todo]]
      BY <1>0, <2>1 DEF Records
    <3>2. restore[r].todo \in SUBSET Stores
      BY <1>0 DEF Records
    <3> QED
      BY <3>1, <3>2, StepComes DEF RestoreInv, Steps
  <2>3. RestoreTypeOK'
    BY <1>0, <2>1, <2>2 DEF RestoreTypeOK, Comes, Records, Table
  <2>4. TablesFollow'
    BY <2>1, <2>2 DEF RestoreInv, TablesFollow, Comes, Running
  <2>5. EndsAreFinal'
    BY <1>0, <2>1, <2>2 DEF RestoreInv, EndsAreFinal, Comes
  <2>6. RestoredIsTheDump'
    BY <1>0, <2>1, <2>2 DEF RestoreInv, RestoredIsTheDump, Comes
  <2> QED
    BY <2>3, <2>4, <2>5, <2>6 DEF RestoreInv
<1>7. ASSUME NEW r \in Restores, ExitBackend(r) PROVE RestoreInv'
  BY <1>7, AllEnd DEF ExitBackend
<1>8. ASSUME NEW t \in Stores, PanelWrites(t) PROVE RestoreInv'
  <2>1. /\ alive /\ UNCHANGED <<restore, progress, alive>>
        /\ touched' = [r \in Restores |-> touched[r] \cup {t}]
    BY <1>8 DEF PanelWrites
  <2>2. PICK rows \in {{"other"}} \cup {database[t].rows \cup {"other"}} :
            database' = [database EXCEPT ![t].rows = rows]
    BY <1>8 DEF PanelWrites
  <2>3. rows \in Contents
    BY <1>0, <2>2 DEF Table, Contents
  <2>4. /\ database' \in [Stores -> Table]
        /\ \A u \in Stores \ {t} : database'[u] = database[u]
    BY <1>0, <2>2, <2>3 DEF Table
  <2>5. /\ touched' \in [Restores -> SUBSET Stores]
        /\ \A r \in Restores : t \in touched'[r] /\ touched[r] \subseteq touched'[r]
    BY <1>0, <2>1
  <2>6. RestoreTypeOK'
    BY <1>0, <2>1, <2>4, <2>5 DEF RestoreTypeOK, Records, Table
  <2>7. TablesFollow'
    BY <2>1, <2>4, <2>5 DEF RestoreInv, TablesFollow
  <2>8. EndsAreFinal'
    BY <2>1 DEF RestoreInv, EndsAreFinal
  <2>9. RestoredIsTheDump'
    BY <2>1, <2>4, <2>5 DEF RestoreInv, RestoredIsTheDump
  <2> QED
    BY <2>6, <2>7, <2>8, <2>9 DEF RestoreInv
<1>9. CASE BackendDies
  BY <1>9, AllEnd DEF BackendDies
<1>10. CASE StartBackend
  <2>1. /\ ~alive /\ alive' = TRUE /\ UNCHANGED <<restore, progress, touched>>
        /\ database' = [t \in Stores |->
               IF t = Users THEN Seeded(Synchronized(database[t])) ELSE Synchronized(database[t])]
    BY <1>10 DEF StartBackend
  <2>2. \A t \in Stores : Seeded(Synchronized(database[t])) \in Table /\ Synchronized(database[t]) \in Table
    BY <1>0, StatementsType
  <2>3. database' \in [Stores -> Table]
    BY <2>1, <2>2
  <2>4. \A t \in Stores : database[t] = Whole => database'[t] = Whole
    BY <2>1, StatementsMake
  <2>5. \A s \in Restores : restore[s].step \in {"new", "ended"}
    BY <2>1 DEF RestoreInv, EndsAreFinal
  <2>6. RestoreTypeOK'
    BY <1>0, <2>1, <2>3 DEF RestoreTypeOK, Records, Table
  <2>7. TablesFollow'
    BY <2>1, <2>5 DEF TablesFollow, Running
  <2>8. EndsAreFinal'
    BY <2>1 DEF RestoreInv, EndsAreFinal
  <2>9. RestoredIsTheDump'
    BY <2>1, <2>4 DEF RestoreInv, RestoredIsTheDump, Whole
  <2> QED
    BY <2>6, <2>7, <2>8, <2>9 DEF RestoreInv
<1>11. CASE UNCHANGED restoreVars
  BY <1>11 DEF restoreVars, RestoreInv, RestoreTypeOK, TablesFollow, EndsAreFinal, RestoredIsTheDump
<1> QED
  BY <1>1, <1>2, <1>3, <1>4, <1>5, <1>6, <1>7, <1>8, <1>9, <1>10, <1>11 DEF RestoreNext

(***************************************************************************)
(* Whatever the number of tables, restores, writes and failures: when a    *)
(* restore of a whole dump has reported its end, each table that nothing   *)
(* else wrote since is the dump's, with its key (restore.service.ts).      *)
(***************************************************************************)
THEOREM RestoreIsWhole == RestoreSpec => []RestoredIsTheDump
<1>1. RestoreInv => RestoredIsTheDump
  BY DEF RestoreInv
<1> QED
  BY <1>1, RestoreStarts, RestoreContinues, PTL DEF RestoreSpec

-----------------------------------------------------------------------------
(* ProtocolInstall: what clients are told.                                 *)

Installation ==
    [stage : {"idle", "save", "kernel", "files", "reclaim", "up", "active"},
     row : ProtocolRows \cup {NoRow}, iface : Interfaces \cup {NoRow},
     port : 0 .. MaxPort, net : 0 .. MaxPort, key : 0 .. MaxInstalls]

InstallTables ==
    /\ row \in [ProtocolRows -> InstalledRow \cup {NoRow}]
    /\ enabled \subseteq DOMAIN files /\ DOMAIN files \subseteq Interfaces
    /\ DOMAIN running \subseteq enabled
    /\ \A i \in DOMAIN files : files[i] \in Live
    /\ \A i \in DOMAIN running : running[i] \in Live
    /\ install \in [Installers -> Installation]
    /\ installs \in 0 .. MaxInstalls
    /\ unclear \in BOOLEAN

OneAtWork == \A c, d \in Installers : c = d \/ install[c].stage = "idle" \/ install[d].stage = "idle"

\* What an installation made is what its row will say.
LiveOf(d) == [port |-> d.port, net |-> d.net, key |-> d.key]
InstallingRow(d) ==
    [kind |-> KindOf[d.iface], iface |-> NoRow, port |-> d.port, net |-> d.net, status |-> "installing", key |-> 0]

\* It stays away from the interfaces and the networks of the protocols in use.
Apart(d) ==
    \A r \in ProtocolRows :
        row[r] # NoRow /\ row[r].status = "active" =>
            r # d.row /\ row[r].iface # d.iface /\ row[r].net # d.net

InstallFollows(d) ==
    /\ d.row \in ProtocolRows /\ d.iface \in Interfaces /\ {d.port, d.net} \subseteq 1 .. MaxPort
    /\ Apart(d)
    /\ d.stage # "save" => row[d.row] = InstallingRow(d)
    /\ d.stage \in {"reclaim", "up", "active"} => d.iface \in DOMAIN files /\ files[d.iface] = LiveOf(d)
    /\ d.stage \in {"up", "active"} => d.iface \in enabled
    /\ d.stage = "active" => d.iface \in DOMAIN running /\ running[d.iface] = LiveOf(d)

InstallsFollow == \A c \in Installers : install[c].stage # "idle" => InstallFollows(install[c])

\* Only the row of an active protocol names its interface.
NamesInterface(r) ==
    IF row[r].status = "active" THEN row[r].iface \in Interfaces ELSE row[r].iface = NoRow

RowsNameInterfaces == \A r \in ProtocolRows : row[r] # NoRow => NamesInterface(r)

\* The configuration has to be right as well, for the next boot.
Answers(r) ==
    /\ row[r].iface \in DOMAIN running /\ running[row[r].iface] = ClientConfig(r)
    /\ files[row[r].iface] = ClientConfig(r)

InUse == {r \in ProtocolRows : row[r] # NoRow /\ row[r].status = "active"}

InUseAnswer ==
    /\ \A r \in InUse : Answers(r)
    /\ \A r, o \in InUse : r = o \/ row[r].iface # row[o].iface

InstallInv ==
    /\ InstallTables /\ OneAtWork /\ InstallsFollow /\ RowsNameInterfaces
    /\ ~unclear => InUseAnswer

LEMMA MinIsIn ==
    ASSUME NEW T, T \subseteq Nat, T # {}
    PROVE  Min(T) \in T
<1>1. PICK x \in T : \A y \in T : ~(<<y, x>> \in OpToRel(<, Nat))
  BY NatLessThanWellFounded, WFMin
<1>2. \A y \in T : x <= y
  <2> SUFFICES ASSUME NEW y \in T, y < x PROVE FALSE
    BY SMT
  <2>1. <<y, x>> \in Nat \X Nat /\ <<y, x>>[1] < <<y, x>>[2]
    BY SMT
  <2>2. <<y, x>> \in OpToRel(<, Nat)
    BY <2>1, Zenon DEF OpToRel
  <2> QED
    BY <2>2, <1>1, Zenon
<1> QED
  BY <1>2 DEF Min

\* There is a number beyond those in use.
LEMMA FreeIsUnused ==
    ASSUME NEW n \in 1 .. MaxPort, NEW used, used \subseteq 1 .. MaxPort
    PROVE  FirstFree(n, used) \notin used
<1> DEFINE T == {m \in n .. MaxPort + 1 : m \notin used}
<1>1. MaxPort + 1 \in T /\ T \subseteq Nat
  BY InstallAssumption
<1>2. Min(T) \in T
  <2> HIDE DEF T
  <2> QED
    BY <1>1, MinIsIn
<1> QED
  BY <1>2 DEF FirstFree

LEMMA NoInstallIsOne == NoInstall \in Installation /\ NoInstall.stage = "idle"
BY InstallAssumption DEF NoInstall, Installation

LEMMA InstallStarts == InstallInit => InstallInv
<1> SUFFICES ASSUME InstallInit PROVE InstallInv
  OBVIOUS
<1>1. DOMAIN << >> = {}
  OBVIOUS
<1>2. InstallTables
  <2>1. row \in [ProtocolRows -> InstalledRow \cup {NoRow}] /\ install \in [Installers -> Installation]
    BY NoInstallIsOne DEF InstallInit
  <2>2. installs \in 0 .. MaxInstalls /\ unclear \in BOOLEAN
    <3>1. MaxInstalls \in Nat
      BY InstallAssumption
    <3>2. installs = 0 /\ unclear = FALSE
      BY Zenon DEF InstallInit
    <3>3. installs \in 0 .. MaxInstalls
      BY <3>1, <3>2
    <3> QED
      BY <3>2, <3>3
  <2>3. DOMAIN files = {} /\ DOMAIN running = {} /\ enabled = {}
    BY <1>1 DEF InstallInit
  <2> QED
    BY <2>1, <2>2, <2>3 DEF InstallTables
<1>3. \A c \in Installers : install[c].stage = "idle"
  BY NoInstallIsOne DEF InstallInit
<1> QED
  BY <1>2, <1>3 DEF InstallInit, InstallInv, OneAtWork, InstallsFollow, RowsNameInterfaces, InUseAnswer, InUse

\* A call takes a step: it is the only one, and has to follow its stages.
LEMMA InstallerSteps ==
    ASSUME InstallTables, OneAtWork, NEW c \in Installers,
           install[c].stage # "idle" \/ \A e \in Installers : install[e].stage = "idle",
           NEW d \in Installation, install' = [install EXCEPT ![c] = d],
           d.stage # "idle" => InstallFollows(d)'
    PROVE  install' \in [Installers -> Installation] /\ OneAtWork' /\ InstallsFollow'
<1>1. \A e \in Installers \ {c} : install[e].stage = "idle"
  BY DEF OneAtWork
<1>2. install'[c] = d /\ \A e \in Installers \ {c} : install'[e] = install[e]
  BY DEF InstallTables
<1>3. install' \in [Installers -> Installation]
  BY DEF InstallTables
<1>4. OneAtWork'
  BY <1>1, <1>2 DEF OneAtWork
<1>5. InstallsFollow'
  <2> SUFFICES ASSUME NEW e \in Installers, install'[e].stage # "idle" PROVE InstallFollows(install[e])'
    BY DEF InstallsFollow
  <2>1. e = c /\ install'[e] = d
    BY <1>1, <1>2
  <2>2. InstallFollows(d)'
    BY <2>1
  <2> QED
    BY <2>1, <2>2 DEF InstallFollows, Apart, InstallingRow, LiveOf
<1> QED
  BY <1>3, <1>4, <1>5

\* With no call in progress there is nothing to follow.
LEMMA NobodyInstalls ==
    ASSUME install' \in [Installers -> Installation], \A c \in Installers : install'[c].stage = "idle"
    PROVE  OneAtWork' /\ InstallsFollow'
BY DEF OneAtWork, InstallsFollow

-----------------------------------------------------------------------------
(* The steps of an installation.                                           *)

LEMMA BeginKeeps ==
    ASSUME OneInstaller, InstallInv, NEW c \in Installers, NEW i \in Interfaces, NEW port \in 1 .. MaxPort,
           BeginInstall(c, i, port)
    PROVE  InstallInv'
<1> DEFINE existing == {r \in Present : row[r].kind = KindOf[i] /\ row[r].port = port}
<1>1. PICK r \in IF existing # {} THEN existing ELSE ProtocolRows \ Present :
        LET others == Others(r, KindOf[i])
            free == FirstFree(port, {row[o].port : o \in others})
            net == FirstFree(1, {row[o].net : o \in others})
        IN  /\ {free, net} \subseteq 1 .. MaxPort
            /\ install' = [install EXCEPT ![c] =
                 [stage |-> "save", row |-> r, iface |-> i, port |-> free, net |-> net, key |-> installs']]
  BY Zenon DEF BeginInstall
<1>2. /\ \A e \in existing : row[e].status # "active"
      /\ \A e \in Present : row[e].iface # i
      /\ installs < MaxInstalls /\ installs' = installs + 1
      /\ row' = row /\ files' = files /\ enabled' = enabled /\ running' = running /\ unclear' = unclear
      /\ \A e \in Installers : install[e].stage = "idle"
  BY DEF BeginInstall, serverVars, MayBegin
<1> DEFINE nets == {row[o].net : o \in Others(r, KindOf[i])}
<1> DEFINE ports == {row[o].port : o \in Others(r, KindOf[i])}
<1>3. PICK free, net : free = FirstFree(port, ports) /\ net = FirstFree(1, nets)
  OBVIOUS
<1>4. {free, net} \subseteq 1 .. MaxPort
  BY <1>1, <1>3
<1>5. r \in ProtocolRows /\ (row[r] # NoRow => row[r].status # "active")
  BY <1>1, <1>2 DEF Present
<1>6. net \notin nets
  <2>1. nets \subseteq 1 .. MaxPort
    BY DEF Others, Present, InstallInv, InstallTables, InstalledRow
  <2>2. 1 \in 1 .. MaxPort
    BY <1>4, InstallAssumption
  <2> HIDE DEF nets
  <2> QED
    BY <1>3, <2>1, <2>2, FreeIsUnused
<1>7. PICK d : d = [stage |-> "save", row |-> r, iface |-> i, port |-> free, net |-> net, key |-> installs']
  OBVIOUS
<1>8. install' = [install EXCEPT ![c] = d]
  BY <1>1, <1>3, <1>7
<1>9. /\ d.stage = "save" /\ d.row = r /\ d.iface = i /\ d.port = free /\ d.net = net
      /\ d \in Installation
  <2>1. installs' \in 0 .. MaxInstalls /\ free \in 0 .. MaxPort /\ net \in 0 .. MaxPort
    BY <1>2, <1>4, InstallAssumption DEF InstallInv, InstallTables
  <2> QED
    BY <1>5, <1>7, <2>1 DEF Installation
<1>10. Apart(d)'
  <2> SUFFICES ASSUME NEW q \in ProtocolRows, row[q] # NoRow, row[q].status = "active"
               PROVE  q # d.row /\ row[q].iface # d.iface /\ row[q].net # d.net
    BY <1>2 DEF Apart
  <2>1. q # r
    BY <1>5
  <2>2. q \in Others(r, KindOf[i])
    BY <2>1 DEF Others, Present
  <2> QED
    BY <2>1, <2>2, <1>2, <1>6, <1>9 DEF Present
<1>11. InstallFollows(d)'
  BY <1>4, <1>5, <1>9, <1>10 DEF InstallFollows
<1>12. install' \in [Installers -> Installation] /\ OneAtWork' /\ InstallsFollow'
  BY <1>2, <1>8, <1>9, <1>11, InstallerSteps DEF InstallInv
<1>13. installs' \in 0 .. MaxInstalls
  BY <1>2, InstallAssumption DEF InstallInv, InstallTables
<1>14. RowsNameInterfaces' /\ (~unclear' => InUseAnswer')
  BY <1>2 DEF InstallInv, RowsNameInterfaces, NamesInterface, InUseAnswer, InUse, Answers, ClientConfig
<1> QED
  BY <1>2, <1>12, <1>13, <1>14 DEF InstallInv, InstallTables

\* The call c comes to a stage and is the same otherwise.
ComesTo(d, c, stage) ==
    /\ install' = [install EXCEPT ![c] = d]
    /\ d.stage = stage
    /\ d.row = install[c].row /\ d.iface = install[c].iface /\ d.port = install[c].port
    /\ d.net = install[c].net /\ d.key = install[c].key
    /\ d.row \in ProtocolRows /\ d.iface \in Interfaces /\ {d.port, d.net} \subseteq 1 .. MaxPort
    /\ LiveOf(d) \in Live /\ InstallingRow(d) \in InstalledRow

LEMMA InstallerProceeds ==
    ASSUME InstallInv, NEW c \in Installers, NEW stage \in {"kernel", "files", "reclaim", "up", "active"},
           install[c].stage # "idle", install' = [install EXCEPT ![c].stage = stage]
    PROVE  \E d \in Installation : ComesTo(d, c, stage)
<1>1. install[c] \in Installation /\ InstallFollows(install[c])
  BY DEF InstallInv, InstallTables, InstallsFollow
<1>2. PICK d : d = [install[c] EXCEPT !.stage = stage]
  OBVIOUS
<1>3. /\ d \in Installation /\ d.stage = stage
      /\ d.row = install[c].row /\ d.iface = install[c].iface /\ d.port = install[c].port
      /\ d.net = install[c].net /\ d.key = install[c].key
  BY <1>1, <1>2 DEF Installation
<1>4. d.row \in ProtocolRows /\ d.iface \in Interfaces /\ {d.port, d.net} \subseteq 1 .. MaxPort
  BY <1>1, <1>3 DEF InstallFollows
<1>5. install' = [install EXCEPT ![c] = d]
  BY <1>1, <1>2 DEF Installation, InstallInv, InstallTables
<1>6. d.key \in 0 .. MaxInstalls
  BY <1>3 DEF Installation
<1>7. LiveOf(d) \in Live
  BY <1>4, <1>6 DEF LiveOf, Live
<1>8. InstallingRow(d) \in InstalledRow
  BY <1>4, <1>6, InstallAssumption DEF InstallingRow, InstalledRow, Statuses, Range
<1> QED
  BY <1>3, <1>4, <1>5, <1>7, <1>8 DEF ComesTo

LEMMA SaveInstallingKeeps ==
    ASSUME InstallInv, NEW c \in Installers, SaveInstalling(c)
    PROVE  InstallInv'
<1>1. install[c].stage = "save" /\ InstallFollows(install[c])
  BY DEF SaveInstalling, InstallInv, InstallsFollow
<1>2. PICK d \in Installation : ComesTo(d, c, "kernel")
  BY <1>1, InstallerProceeds DEF SaveInstalling
<1>3. /\ row' = [row EXCEPT ![d.row] = InstallingRow(d)]
      /\ UNCHANGED <<files, enabled, running, installs, unclear>>
  BY <1>2 DEF SaveInstalling, serverVars, InstallingRow, ComesTo
<1>4. Apart(d)
  BY <1>1, <1>2 DEF InstallFollows, Apart, ComesTo
<1>5. row' \in [ProtocolRows -> InstalledRow \cup {NoRow}] /\ row'[d.row] = InstallingRow(d)
      /\ \A r \in ProtocolRows \ {d.row} : row'[r] = row[r]
  BY <1>2, <1>3 DEF InstallInv, InstallTables, ComesTo
<1>6. InstallingRow(d).status = "installing" /\ InstallingRow(d).iface = NoRow
  BY DEF InstallingRow
<1>7. InUse' = InUse /\ d.row \notin InUse
  BY <1>2, <1>4, <1>5, <1>6 DEF InUse, Apart, ComesTo
<1>8. InstallFollows(d)'
  BY <1>2, <1>4, <1>5, <1>6 DEF InstallFollows, Apart, InstallingRow, ComesTo
<1>9. install' \in [Installers -> Installation] /\ OneAtWork' /\ InstallsFollow'
  BY <1>1, <1>2, <1>8, InstallerSteps DEF InstallInv, ComesTo
<1>10. RowsNameInterfaces'
  BY <1>5, <1>6 DEF InstallInv, RowsNameInterfaces, NamesInterface
<1>11. ~unclear' => InUseAnswer'
  BY <1>3, <1>5, <1>7 DEF InstallInv, InUseAnswer, InUse, Answers, ClientConfig
<1> QED
  BY <1>3, <1>5, <1>9, <1>10, <1>11 DEF InstallInv, InstallTables

\* The steps on the server leave the rows alone.
LEMMA RowsStay ==
    ASSUME InstallInv, NEW c \in Installers, NEW from, NEW stage \in {"files", "reclaim", "up", "active"},
           Proceed(c, from, stage), from # "idle", from # "save",
           enabled' \subseteq DOMAIN files', DOMAIN files' \subseteq Interfaces, DOMAIN running' \subseteq enabled',
           \A i \in DOMAIN files' : files'[i] \in Live,
           \A i \in DOMAIN running' : running'[i] \in Live,
           stage \in {"reclaim", "up", "active"} =>
             install[c].iface \in DOMAIN files' /\ files'[install[c].iface] = LiveOf(install[c]),
           stage \in {"up", "active"} => install[c].iface \in enabled',
           stage = "active" =>
             install[c].iface \in DOMAIN running' /\ running'[install[c].iface] = LiveOf(install[c]),
           \A i \in DOMAIN running :
             i # install[c].iface /\ running[i].net # install[c].net =>
               i \in DOMAIN running' /\ running'[i] = running[i] /\ files'[i] = files[i]
    PROVE  InstallInv'
<1>1. /\ install[c].stage = from /\ InstallFollows(install[c])
      /\ install' = [install EXCEPT ![c].stage = stage]
      /\ row' = row /\ installs' = installs /\ unclear' = unclear
  BY DEF Proceed, InstallInv, InstallsFollow
<1>2. PICK d \in Installation : ComesTo(d, c, stage)
  BY <1>1, InstallerProceeds
<1>3. LiveOf(d) = LiveOf(install[c]) /\ InstallingRow(d) = InstallingRow(install[c])
  BY <1>2 DEF LiveOf, InstallingRow, ComesTo
<1>4. Apart(d) /\ row[d.row] = InstallingRow(d)
  BY <1>1, <1>2, <1>3 DEF InstallFollows, Apart, ComesTo
<1>5. InstallFollows(d)'
  <2>1. Apart(d)' /\ row'[d.row] = InstallingRow(d)
    BY <1>1, <1>4 DEF Apart
  <2>2. d.stage \in {"reclaim", "up", "active"} => d.iface \in DOMAIN files' /\ files'[d.iface] = LiveOf(d)
    BY <1>2, <1>3 DEF ComesTo
  <2>3. d.stage \in {"up", "active"} => d.iface \in enabled'
    BY <1>2 DEF ComesTo
  <2>4. d.stage = "active" => d.iface \in DOMAIN running' /\ running'[d.iface] = LiveOf(d)
    BY <1>2, <1>3 DEF ComesTo
  <2> QED
    BY <1>2, <2>1, <2>2, <2>3, <2>4 DEF InstallFollows, InstallingRow, LiveOf, ComesTo
<1>6. install' \in [Installers -> Installation] /\ OneAtWork' /\ InstallsFollow'
  BY <1>1, <1>2, <1>5, InstallerSteps DEF InstallInv, ComesTo
<1>7. ASSUME ~unclear PROVE InUseAnswer'
  <2>1. InUseAnswer /\ InUse' = InUse
    BY <1>1, <1>7 DEF InstallInv, InUse
  <2>2. \A r \in InUse : ClientConfig(r)' = ClientConfig(r) /\ ClientConfig(r).net = row[r].net
    BY <1>1 DEF ClientConfig
  <2>3. ASSUME NEW r \in InUse PROVE Answers(r)'
    <3>1. Answers(r) /\ row[r].iface # install[c].iface /\ row[r].net # install[c].net
      BY <1>2, <1>4, <2>1 DEF InUseAnswer, Apart, InUse, ComesTo
    <3>2. running[row[r].iface].net = row[r].net
      BY <3>1, <2>2 DEF Answers
    <3> QED
      BY <1>1, <2>2, <3>1, <3>2 DEF Answers
  <2> QED
    BY <1>1, <2>1, <2>3 DEF InUseAnswer
<1>8. RowsNameInterfaces'
  BY <1>1 DEF InstallInv, RowsNameInterfaces, NamesInterface
<1> QED
  BY <1>1, <1>6, <1>7, <1>8 DEF InstallInv, InstallTables

LEMMA ServerStepsKeep ==
    ASSUME InstallInv, NEW c \in Installers, KernelReady(c) \/ WriteFiles(c) \/ Reclaim(c) \/ BringUp(c)
    PROVE  InstallInv'
<1>1. PICK d \in Installation : d = install[c] /\ (d.stage # "idle" => InstallFollows(d))
  BY DEF InstallInv, InstallTables, InstallsFollow
<1>2. /\ enabled \subseteq DOMAIN files /\ DOMAIN files \subseteq Interfaces /\ DOMAIN running \subseteq enabled
      /\ \A i \in DOMAIN files : files[i] \in Live
      /\ \A i \in DOMAIN running : running[i] \in Live
  BY DEF InstallInv, InstallTables
<1>3. CASE KernelReady(c)
  <2>1. Proceed(c, "kernel", "files") /\ UNCHANGED <<files, enabled, running>>
    BY <1>3 DEF KernelReady, serverVars
  <2> QED
    BY <2>1, <1>2, RowsStay
<1>4. CASE WriteFiles(c)
  <2>1. Proceed(c, "files", "reclaim") /\ enabled' = enabled /\ running' = running
    BY <1>4 DEF WriteFiles
  <2>2. files' = With(files, d.iface, LiveOf(d)) /\ d.stage = "files"
    BY <1>1, <1>4, <2>1 DEF WriteFiles, LiveOf, Proceed
  <2>3. d.iface \in Interfaces /\ LiveOf(d) \in Live
    BY <1>1, <2>2 DEF InstallFollows, LiveOf, Live, Installation
  <2>4. /\ DOMAIN files' = DOMAIN files \cup {d.iface} /\ files'[d.iface] = LiveOf(d)
        /\ \A i \in DOMAIN files \ {d.iface} : files'[i] = files[i]
    BY <2>2 DEF With
  <2>5. \A i \in DOMAIN files' : files'[i] \in Live
    BY <1>2, <2>3, <2>4
  <2> QED
    BY <1>1, <1>2, <2>1, <2>3, <2>4, <2>5, RowsStay
<1>5. CASE Reclaim(c)
  <2> DEFINE stale == {i \in DOMAIN running \ {d.iface} : running[i].net = d.net}
  <2>1. /\ Proceed(c, "reclaim", "up") /\ files' = files
        /\ running' = Without(running, stale) /\ enabled' = (enabled \ stale) \cup {d.iface}
    BY <1>1, <1>5 DEF Reclaim
  <2>2. d.stage = "reclaim" /\ d.iface \in DOMAIN files /\ files[d.iface] = LiveOf(d)
    BY <1>1, <2>1 DEF Proceed, InstallFollows
  <2>3. DOMAIN running' = DOMAIN running \ stale /\ \A i \in DOMAIN running \ stale : running'[i] = running[i]
    BY <2>1 DEF Without, Restrict
  <2>4. enabled' \subseteq DOMAIN files' /\ DOMAIN running' \subseteq enabled' /\ d.iface \in enabled'
    BY <1>2, <2>1, <2>2, <2>3
  <2>5. \A i \in DOMAIN running : i # d.iface /\ running[i].net # d.net => i \in DOMAIN running' /\ running'[i] = running[i]
    BY <2>3
  <2>6. \A i \in DOMAIN running' : running'[i] \in Live
    BY <1>2, <2>3
  <2> HIDE DEF stale
  <2> QED
    BY <1>1, <1>2, <2>1, <2>2, <2>4, <2>5, <2>6, RowsStay
<1>6. CASE BringUp(c)
  <2>1. /\ Proceed(c, "up", "active") /\ files' = files /\ enabled' = enabled
        /\ running' = With(running, d.iface, files[d.iface])
    BY <1>1, <1>6 DEF BringUp
  <2>2. d.stage = "up" /\ d.iface \in DOMAIN files /\ files[d.iface] = LiveOf(d) /\ d.iface \in enabled
    BY <1>1, <2>1 DEF Proceed, InstallFollows
  <2>3. /\ DOMAIN running' = DOMAIN running \cup {d.iface} /\ running'[d.iface] = LiveOf(d)
        /\ \A i \in DOMAIN running \ {d.iface} : running'[i] = running[i]
    BY <2>1, <2>2 DEF With
  <2>4. \A i \in DOMAIN running' : running'[i] \in Live
    BY <1>2, <2>2, <2>3
  <2> QED
    BY <1>1, <1>2, <2>1, <2>2, <2>3, <2>4, RowsStay
<1> QED
  BY <1>3, <1>4, <1>5, <1>6

\* The call ends, and the row of its protocol is active or says that it failed.
LEMMA EndKeeps ==
    ASSUME InstallInv, NEW c \in Installers, SaveActive(c) \/ InstallFails(c)
    PROVE  InstallInv'
<1>1. PICK d \in Installation : d = install[c]
  BY DEF InstallInv, InstallTables
<1>2. d.stage \in {"kernel", "files", "reclaim", "up", "active"} /\ InstallFollows(d)
  BY <1>1 DEF SaveActive, InstallFails, InstallInv, InstallsFollow
<1>3. /\ install' = [install EXCEPT ![c] = NoInstall]
      /\ UNCHANGED <<files, enabled, running, installs, unclear>>
  BY DEF SaveActive, InstallFails, serverVars
<1>4. install' \in [Installers -> Installation] /\ OneAtWork' /\ InstallsFollow'
  BY <1>1, <1>2, <1>3, NoInstallIsOne, InstallerSteps DEF InstallInv
<1>5. row[d.row] = InstallingRow(d) /\ d.row \in ProtocolRows /\ d.iface \in Interfaces /\ Apart(d)
      /\ {d.port, d.net} \subseteq 1 .. MaxPort /\ d.key \in 0 .. MaxInstalls
  BY <1>2 DEF InstallFollows, Installation
<1>6. ASSUME NEW new \in InstalledRow, row' = [row EXCEPT ![d.row] = new],
             \/ new.status = "error" /\ new.iface = NoRow
             \/ /\ new.status = "active" /\ new.iface = d.iface /\ d.stage = "active"
                /\ LiveOf(d) = [port |-> new.port, net |-> new.net, key |-> new.key]
      PROVE  InstallInv'
  <2>1. /\ row' \in [ProtocolRows -> InstalledRow \cup {NoRow}] /\ row'[d.row] = new
        /\ \A r \in ProtocolRows \ {d.row} : row'[r] = row[r]
    BY <1>5, <1>6 DEF InstallInv, InstallTables
  <2>2. RowsNameInterfaces'
    BY <1>5, <1>6, <2>1 DEF InstallInv, RowsNameInterfaces, NamesInterface
  <2>3. ASSUME ~unclear PROVE InUseAnswer'
    <3>1. \A r \in InUse : Answers(r) /\ r # d.row /\ row[r].iface # d.iface
      BY <1>5, <2>3 DEF InstallInv, InUseAnswer, InUse, Apart
    <3>2. \A r \in InUse' \ {d.row} : r \in InUse /\ row'[r] = row[r]
      BY <2>1 DEF InUse
    <3>3. \A r \in InUse' \ {d.row} : Answers(r)'
      BY <3>1, <3>2, <1>3 DEF Answers, ClientConfig
    <3>4. ASSUME d.row \in InUse' PROVE Answers(d.row)' /\ row'[d.row].iface = d.iface
      <4>1. new.status = "active"
        BY <3>4, <2>1 DEF InUse
      <4>2. new.iface = d.iface /\ d.stage = "active" /\ LiveOf(d) = [port |-> new.port, net |-> new.net, key |-> new.key]
        BY <1>6, <4>1
      <4>3. d.iface \in DOMAIN files /\ files[d.iface] = LiveOf(d) /\ d.iface \in DOMAIN running /\ running[d.iface] = LiveOf(d)
        BY <1>2, <4>2 DEF InstallFollows
      <4> QED
        BY <1>3, <2>1, <4>2, <4>3 DEF Answers, ClientConfig
    <3>5. \A r, o \in InUse' : r = o \/ row'[r].iface # row'[o].iface
      BY <2>3, <3>1, <3>2, <3>4 DEF InstallInv, InUseAnswer
    <3> QED
      BY <3>3, <3>4, <3>5 DEF InUseAnswer
  <2> QED
    BY <1>3, <1>4, <2>1, <2>2, <2>3 DEF InstallInv, InstallTables
<1>7. InstallingRow(d) \in InstalledRow
  BY <1>5, InstallAssumption DEF InstallingRow, InstalledRow, Statuses, Range
<1>8. CASE SaveActive(c)
  <2> DEFINE new == [InstallingRow(d) EXCEPT !.status = "active", !.key = d.key, !.iface = d.iface]
  <2>1. row' = [row EXCEPT ![d.row] = new] /\ d.stage = "active"
    BY <1>1, <1>5, <1>8 DEF SaveActive, InstallInv, InstallTables
  <2>2. /\ new \in InstalledRow /\ new.status = "active" /\ new.iface = d.iface
        /\ LiveOf(d) = [port |-> new.port, net |-> new.net, key |-> new.key]
    BY <1>5, <1>7 DEF InstallingRow, InstalledRow, Statuses, LiveOf
  <2> HIDE DEF new
  <2> QED
    BY <1>6, <2>1, <2>2
<1>9. CASE InstallFails(c)
  <2> DEFINE new == [InstallingRow(d) EXCEPT !.status = "error"]
  <2>1. row' = [row EXCEPT ![d.row] = new]
    BY <1>1, <1>5, <1>9 DEF InstallFails, InstallInv, InstallTables
  <2>2. new \in InstalledRow /\ new.status = "error" /\ new.iface = NoRow
    BY <1>7 DEF InstallingRow, InstalledRow, Statuses
  <2> HIDE DEF new
  <2> QED
    BY <1>6, <2>1, <2>2
<1> QED
  BY <1>8, <1>9

-----------------------------------------------------------------------------
(* The steps between installations.                                        *)

LEMMA RestartKeepsRows ==
    ASSUME InstallInv, RestartInstallers
    PROVE  InstallInv'
<1>1. install' \in [Installers -> Installation] /\ \A c \in Installers : install'[c].stage = "idle"
  BY NoInstallIsOne DEF RestartInstallers
<1>2. OneAtWork' /\ InstallsFollow'
  BY <1>1, NobodyInstalls
<1>3. UNCHANGED <<row, files, enabled, running, installs, unclear>>
  BY DEF RestartInstallers, serverVars
<1>4. RowsNameInterfaces' /\ (~unclear' => InUseAnswer')
  BY <1>3 DEF InstallInv, RowsNameInterfaces, NamesInterface, InUseAnswer, InUse, Answers, ClientConfig
<1> QED
  BY <1>1, <1>2, <1>3, <1>4 DEF InstallInv, InstallTables

\* Nobody installs, and a row goes or becomes what was found.
LEMMA Idles ==
    ASSUME OneInstaller, InstallInv, MayBegin, UNCHANGED <<install, installs>>
    PROVE  install' \in [Installers -> Installation] /\ OneAtWork' /\ InstallsFollow' /\ installs' \in 0 .. MaxInstalls
<1>1. install' \in [Installers -> Installation] /\ \A c \in Installers : install'[c].stage = "idle"
  BY DEF MayBegin, InstallInv, InstallTables
<1> QED
  BY <1>1, NobodyInstalls DEF InstallInv, InstallTables

LEMMA RemovalKeepsRows ==
    ASSUME OneInstaller, InstallInv, NEW r \in ProtocolRows, RemoveInstalled(r) \/ DropRow(r)
    PROVE  InstallInv'
<1>1. install' \in [Installers -> Installation] /\ OneAtWork' /\ InstallsFollow' /\ installs' \in 0 .. MaxInstalls
  BY Idles DEF RemoveInstalled, DropRow
<1>2. PICK gone \in {{}, {row[r].iface}} :
        /\ DOMAIN files' = DOMAIN files \ gone /\ \A i \in DOMAIN files' : files'[i] = files[i]
        /\ DOMAIN running' = DOMAIN running \ gone /\ \A i \in DOMAIN running' : running'[i] = running[i]
        /\ enabled' = enabled \ gone
  <2>1. CASE RemoveInstalled(r)
    BY <2>1 DEF RemoveInstalled, Without, Restrict
  <2>2. CASE DropRow(r)
    BY <2>2 DEF DropRow, serverVars
  <2> QED
    BY <2>1, <2>2
<1>3. row' = [row EXCEPT ![r] = NoRow] /\ unclear' = unclear /\ row[r] # NoRow
  BY DEF RemoveInstalled, DropRow, Present
<1>4. /\ row' \in [ProtocolRows -> InstalledRow \cup {NoRow}] /\ row'[r] = NoRow
      /\ \A q \in ProtocolRows \ {r} : row'[q] = row[q]
  BY <1>3 DEF InstallInv, InstallTables
<1>5. RowsNameInterfaces'
  BY <1>4 DEF InstallInv, RowsNameInterfaces, NamesInterface
<1>6. InUse' \subseteq InUse \ {r}
  BY <1>4 DEF InUse
<1>7. ASSUME ~unclear PROVE InUseAnswer'
  <2>1. \A q \in InUse' : Answers(q) /\ row'[q] = row[q] /\ row[q].iface \notin gone
    <3> SUFFICES ASSUME NEW q \in InUse' PROVE Answers(q) /\ row'[q] = row[q] /\ row[q].iface # row[r].iface
      BY <1>2
    <3>1. q \in InUse /\ q # r /\ Answers(q) /\ row'[q] = row[q]
      BY <1>4, <1>6, <1>7 DEF InUse, InstallInv, InUseAnswer
    <3>2. CASE r \in InUse
      BY <3>1, <3>2, <1>7 DEF InstallInv, InUseAnswer
    <3>3. CASE r \notin InUse
      <4>1. row[r].iface = NoRow /\ row[q].iface \in Interfaces
        BY <3>1, <3>3, <1>3 DEF InUse, InstallInv, RowsNameInterfaces, NamesInterface
      <4> QED
        BY <3>1, <4>1, InstallAssumption
    <3> QED
      BY <3>2, <3>3
  <2>2. \A q \in InUse' : Answers(q)'
    <3> SUFFICES ASSUME NEW q \in InUse' PROVE Answers(q)'
      OBVIOUS
    <3>1. PICK i : i = row[q].iface
      OBVIOUS
    <3>2. i \in DOMAIN running /\ i \in DOMAIN files /\ i \notin gone /\ row'[q].iface = i
      BY <2>1, <3>1 DEF Answers, InstallInv, InstallTables
    <3>3. /\ i \in DOMAIN running' /\ running'[i] = running[i]
          /\ i \in DOMAIN files' /\ files'[i] = files[i]
      BY <1>2, <3>2
    <3>4. ClientConfig(q)' = ClientConfig(q)
      BY <2>1 DEF ClientConfig
    <3> QED
      BY <2>1, <3>1, <3>2, <3>3, <3>4 DEF Answers
  <2>3. \A p, q \in InUse' : p = q \/ row'[p].iface # row'[q].iface
    BY <1>6, <1>7, <2>1 DEF InstallInv, InUseAnswer
  <2> QED
    BY <2>2, <2>3 DEF InUseAnswer
<1>8. /\ enabled' \subseteq DOMAIN files' /\ DOMAIN files' \subseteq Interfaces /\ DOMAIN running' \subseteq enabled'
      /\ \A i \in DOMAIN files' : files'[i] \in Live
      /\ \A i \in DOMAIN running' : running'[i] \in Live
  BY <1>2 DEF InstallInv, InstallTables
<1> QED
  BY <1>1, <1>3, <1>4, <1>5, <1>7, <1>8 DEF InstallInv, InstallTables

LEMMA DetectionKeeps ==
    ASSUME OneInstaller, InstallInv, NEW kind, DetectExisting(kind)
    PROVE  InstallInv'
<1>1. install' \in [Installers -> Installation] /\ OneAtWork' /\ InstallsFollow' /\ installs' \in 0 .. MaxInstalls
  BY Idles DEF DetectExisting
<1>2. PICK i \in DOMAIN files, r \in ProtocolRows :
        row' = [row EXCEPT ![r] = FoundAt(i)] /\ unclear' = (unclear \/ ~Fits(i, r))
  BY DEF DetectExisting, Likely, Present
<1>3. UNCHANGED <<files, enabled, running>>
  BY DEF DetectExisting, serverVars
<1>4. PICK new : new = FoundAt(i)
  OBVIOUS
<1>5. /\ new \in InstalledRow /\ new.status = "active" /\ new.iface = i
      /\ new.port = files[i].port /\ new.net = files[i].net /\ new.key = files[i].key
      /\ files[i] \in Live /\ i \in Interfaces
  BY <1>4, InstallAssumption DEF FoundAt, InstalledRow, Statuses, Live, Range, InstallInv, InstallTables
<1>6. /\ row' \in [ProtocolRows -> InstalledRow \cup {NoRow}] /\ row'[r] = new
      /\ \A q \in ProtocolRows \ {r} : row'[q] = row[q]
  BY <1>2, <1>4, <1>5 DEF InstallInv, InstallTables
<1>7. RowsNameInterfaces'
  BY <1>5, <1>6 DEF InstallInv, RowsNameInterfaces, NamesInterface
<1>8. unclear' \in BOOLEAN
  BY <1>2
<1>9. ASSUME ~unclear' PROVE InUseAnswer'
  <2>1. ~unclear /\ Fits(i, r)
    BY <1>2, <1>9
  <2>2. i \in DOMAIN running /\ running[i] = files[i] /\ \A q \in ProtocolRows \ {r} : row[q] # NoRow => row[q].iface # i
    BY <2>1 DEF Fits, Present
  <2>3. \A q \in InUse' \ {r} : q \in InUse /\ row'[q] = row[q] /\ row[q].iface # i
    BY <1>6, <2>2 DEF InUse
  <2>4. \A q \in InUse' \ {r} : Answers(q)'
    BY <1>3, <2>1, <2>3 DEF InstallInv, InUseAnswer, Answers, ClientConfig
  <2>5. Answers(r)'
    <3>1. files[i] = [port |-> new.port, net |-> new.net, key |-> new.key]
      BY <1>5 DEF Live
    <3> QED
      BY <1>3, <1>5, <1>6, <2>2, <3>1 DEF Answers, ClientConfig
  <2>6. \A p, q \in InUse' : p = q \/ row'[p].iface # row'[q].iface
    BY <1>5, <1>6, <2>1, <2>3 DEF InstallInv, InUseAnswer
  <2> QED
    BY <2>4, <2>5, <2>6 DEF InUseAnswer
<1> QED
  BY <1>1, <1>3, <1>6, <1>7, <1>8, <1>9 DEF InstallInv, InstallTables

LEMMA RebootKeeps ==
    ASSUME OneInstaller, InstallInv, RebootServer
    PROVE  InstallInv'
<1>1. install' \in [Installers -> Installation] /\ OneAtWork' /\ InstallsFollow' /\ installs' \in 0 .. MaxInstalls
  BY Idles DEF RebootServer
<1>2. PICK up \in SUBSET enabled : running' = Restrict(files, up) /\ unclear' = (unclear \/ up # enabled)
  BY DEF RebootServer
<1>3. UNCHANGED <<row, files, enabled>>
  BY DEF RebootServer
<1>4. DOMAIN running' = up /\ (\A i \in up : running'[i] = files[i]) /\ unclear' \in BOOLEAN
  BY <1>2 DEF Restrict
<1>5. DOMAIN running' \subseteq enabled' /\ \A i \in DOMAIN running' : running'[i] \in Live
  BY <1>3, <1>4 DEF InstallInv, InstallTables
<1>6. RowsNameInterfaces'
  BY <1>3 DEF InstallInv, RowsNameInterfaces, NamesInterface
<1>7. ASSUME ~unclear' PROVE InUseAnswer'
  <2>1. ~unclear /\ up = enabled
    BY <1>2, <1>7
  <2>2. InUse' = InUse /\ \A r \in InUse : Answers(r)
    BY <1>3, <2>1 DEF InUse, InstallInv, InUseAnswer
  <2>3. \A r \in InUse : Answers(r)'
    BY <1>3, <1>4, <2>1, <2>2 DEF Answers, ClientConfig, InstallInv, InstallTables
  <2> QED
    BY <1>3, <2>1, <2>2, <2>3 DEF InstallInv, InUseAnswer
<1> QED
  BY <1>1, <1>3, <1>4, <1>5, <1>6, <1>7 DEF InstallInv, InstallTables

LEMMA InstallContinues ==
    ASSUME OneInstaller PROVE InstallInv /\ [InstallNext]_installVars => InstallInv'
<1> SUFFICES ASSUME InstallInv, [InstallNext]_installVars PROVE InstallInv'
  OBVIOUS
<1>1. ASSUME NEW c \in Installers, NEW i \in Interfaces, NEW port \in 1 .. MaxPort, BeginInstall(c, i, port)
      PROVE  InstallInv'
  BY <1>1, BeginKeeps
<1>2. ASSUME NEW c \in Installers,
             \/ SaveInstalling(c) \/ KernelReady(c) \/ WriteFiles(c) \/ Reclaim(c) \/ BringUp(c)
             \/ SaveActive(c) \/ InstallFails(c)
      PROVE  InstallInv'
  BY <1>2, SaveInstallingKeeps, ServerStepsKeep, EndKeeps
<1>3. ASSUME NEW r \in ProtocolRows, RemoveInstalled(r) \/ DropRow(r) PROVE InstallInv'
  BY <1>3, RemovalKeepsRows
<1>4. CASE DetectExistingInstallations
  BY <1>4, DetectionKeeps DEF DetectExistingInstallations
<1>5. CASE UNCHANGED installVars
  BY <1>5 DEF installVars, serverVars, InstallInv, InstallTables, OneAtWork, InstallsFollow, InstallFollows,
              Apart, RowsNameInterfaces, NamesInterface, InUseAnswer, InUse, Answers, ClientConfig
<1> QED
  BY <1>1, <1>2, <1>3, <1>4, <1>5, RestartKeepsRows, RebootKeeps DEF InstallNext

(***************************************************************************)
(* With one installation at a time, and for any protocols, ports, faults   *)
(* and reboots: what the row of an active protocol tells clients is what   *)
(* answers on the server (installProtocol of vpn-provisioning.service.ts   *)
(* with usedCidrs and reclaimConflictingInterface of the drivers, and      *)
(* detectExisting, unless what it found or a reboot was ambiguous).        *)
(***************************************************************************)
THEOREM ClientsAreToldTheTruth ==
    ASSUME OneInstaller PROVE InstallSpec => []ActiveProtocolAnswers
<1>1. InstallInv => ActiveProtocolAnswers
  BY DEF InstallInv, InUseAnswer, InUse, Answers, ActiveProtocolAnswers, Present
<1> QED
  BY <1>1, InstallStarts, InstallContinues, PTL DEF InstallSpec

(***************************************************************************)
(* Rows, files, interfaces and installations have their types, with one    *)
(* installation at a time: every file and every interface that runs has a  *)
(* port, a network and a key (installProtocol, detectExisting).            *)
(***************************************************************************)
THEOREM InstallTyped ==
    ASSUME OneInstaller PROVE InstallSpec => []InstallTypeOK
<1>1. InstallInv => InstallTypeOK
  BY DEF InstallInv, InstallTables, InstallTypeOK, Installation
<1> QED
  BY <1>1, InstallStarts, InstallContinues, PTL DEF InstallSpec

-----------------------------------------------------------------------------
(* MtProxy: the link and the proxy.                                        *)

ProxyJobs == [stage : {"idle", "read", "save"}, copy : Proxies]

ProxyTables ==
    /\ proxy \in Proxies /\ link \in Proxies
    /\ job \in [Jobs -> ProxyJobs]
    /\ failures \in Nat

\* The timer passes over a server without a port.
RotatesAProxy == job["rotate"].stage # "idle" => job["rotate"].copy # NoProxy

\* Unless calls overlap, only one is in progress.
OneProxyJob == ~crossed => \A j, k \in Jobs : j # k => job[j].stage = "idle" \/ job[k].stage = "idle"

\* How far a call that runs alone has brought the row and the host together.
JobFits(j, record, host, saved) ==
    /\ j = "install" /\ record.stage = "save" => record.copy = host
    /\ j = "rotate" /\ record.stage = "read" => record.copy = saved /\ saved # NoProxy
    /\ j = "rotate" /\ record.stage = "save" =>
        /\ host # NoProxy /\ saved # NoProxy /\ record.copy # NoProxy
        /\ record.copy.port = saved.port /\ record.copy.secret = host.secret

LoneJobsFit == ~crossed => \A j \in Jobs : JobFits(j, job[j], proxy, link)

MtProxyInv == ProxyTables /\ RotatesAProxy /\ OneProxyJob /\ LoneJobsFit

LEMMA NoJobIsIdle == NoJob \in ProxyJobs /\ NoJob.stage = "idle"
  BY DEF NoJob, ProxyJobs, Proxies

LEMMA MtProxyStarts == MtProxyInit => MtProxyInv
<1> SUFFICES ASSUME MtProxyInit PROVE MtProxyInv
  OBVIOUS
<1>1. \A j \in Jobs : job[j].stage = "idle"
  BY NoJobIsIdle DEF MtProxyInit
<1>2. ProxyTables
  BY NoJobIsIdle DEF MtProxyInit, ProxyTables, Proxies
<1> QED
  BY <1>1, <1>2 DEF MtProxyInv, RotatesAProxy, OneProxyJob, LoneJobsFit, JobFits, Jobs

\* A step of a call changes the record of that call only.
LEMMA ProxyJobMoves ==
    ASSUME MtProxyInv, NEW j \in Jobs, NEW record \in ProxyJobs, job' = [job EXCEPT ![j] = record],
           job[j].stage # "idle", crossed' = crossed,
           proxy' \in Proxies, link' \in Proxies, failures' \in Nat,
           j = "rotate" /\ record.stage # "idle" => record.copy # NoProxy,
           ~crossed => JobFits(j, record, proxy', link')
    PROVE  MtProxyInv'
<1>1. /\ job' \in [Jobs -> ProxyJobs] /\ job'[j] = record
      /\ \A k \in Jobs \ {j} : job'[k] = job[k]
  BY DEF MtProxyInv, ProxyTables
<1>2. ~crossed => \A k \in Jobs \ {j} : job[k].stage = "idle"
  BY DEF MtProxyInv, OneProxyJob
<1>3. \A k, r : r.stage = "idle" => JobFits(k, r, proxy', link')
  BY DEF JobFits
<1>4. ProxyTables'
  BY <1>1 DEF ProxyTables
<1>5. OneProxyJob'
  BY <1>1, <1>2 DEF OneProxyJob
<1>6. LoneJobsFit'
  BY <1>1, <1>2, <1>3 DEF LoneJobsFit
<1>7. RotatesAProxy'
  BY <1>1 DEF RotatesAProxy, MtProxyInv, Jobs
<1> QED
  BY <1>4, <1>5, <1>6, <1>7 DEF MtProxyInv

LEMMA ProxyReadKeeps ==
    ASSUME MtProxyInv, NEW j \in Jobs, NEW stage \in {"read", "save"}, ReadRow(j, stage),
           UNCHANGED <<proxy, link>>, failures' \in Nat,
           j = "rotate" => stage = "read" /\ link # NoProxy, j = "install" => stage = "read"
    PROVE  MtProxyInv'
<1>1. PICK record : record = [stage |-> stage, copy |-> link]
  OBVIOUS
<1>2. record \in ProxyJobs /\ record.stage = stage /\ record.copy = link
  BY <1>1 DEF ProxyJobs, MtProxyInv, ProxyTables
<1>3. /\ job' = [job EXCEPT ![j] = record]
      /\ crossed' = \E k \in Jobs \ {j} : job[k].stage # "idle"
  BY <1>1 DEF ReadRow
<1>4. /\ job' \in [Jobs -> ProxyJobs] /\ job'[j] = record
      /\ \A k \in Jobs \ {j} : job'[k] = job[k]
  BY <1>2, <1>3 DEF MtProxyInv, ProxyTables
<1>5. ProxyTables'
  BY <1>4 DEF MtProxyInv, ProxyTables
<1>6. OneProxyJob'
  BY <1>3, <1>4 DEF OneProxyJob
<1>7. \A k, r : r.stage = "idle" => JobFits(k, r, proxy', link')
  BY DEF JobFits
<1>8. JobFits(j, record, proxy', link')
  BY <1>2 DEF JobFits
<1>9. LoneJobsFit'
  BY <1>3, <1>4, <1>7, <1>8 DEF LoneJobsFit
<1>10. RotatesAProxy'
  BY <1>2, <1>4 DEF RotatesAProxy, MtProxyInv, Jobs
<1> QED
  BY <1>5, <1>6, <1>9, <1>10 DEF MtProxyInv

LEMMA DeployKeeps ==
    ASSUME MtProxyInv, Deploy
    PROVE  MtProxyInv'
<1>1. PICK port \in Ports, secret \in Secrets :
        /\ proxy' = [port |-> port, secret |-> secret]
        /\ job' = [job EXCEPT !["install"] = [stage |-> "save", copy |-> proxy']]
  BY DEF Deploy, FreePorts, NewSecrets
<1>2. PICK record : record = [stage |-> "save", copy |-> proxy']
  OBVIOUS
<1>3. proxy' \in Proxies
  BY <1>1 DEF Proxies
<1>4. record \in ProxyJobs /\ JobFits("install", record, proxy', link')
  BY <1>2, <1>3 DEF ProxyJobs, JobFits
<1>5. /\ "install" \in Jobs /\ job["install"].stage # "idle"
      /\ crossed' = crossed /\ link' \in Proxies /\ failures' \in Nat
  BY DEF Deploy, Jobs, MtProxyInv, ProxyTables
<1> QED
  BY <1>1, <1>2, <1>3, <1>4, <1>5, ProxyJobMoves

LEMMA ReplaceSecretKeeps ==
    ASSUME MtProxyInv, ReplaceSecret
    PROVE  MtProxyInv'
<1>0. /\ "rotate" \in Jobs /\ job["rotate"].stage = "read" /\ proxy # NoProxy
      /\ crossed' = crossed /\ link' = link /\ failures' = failures
  BY DEF ReplaceSecret, Jobs
<1>a. /\ job["rotate"] \in ProxyJobs /\ proxy \in Proxies /\ link \in Proxies /\ failures \in Nat
  BY <1>0 DEF MtProxyInv, ProxyTables
<1>1. PICK secret \in Secrets :
        /\ proxy' = [proxy EXCEPT !.secret = secret]
        /\ job' = [job EXCEPT !["rotate"] = [stage |-> "save", copy |-> [job["rotate"].copy EXCEPT !.secret = secret]]]
  BY <1>0 DEF ReplaceSecret, NewSecrets
<1>2. /\ proxy' \in Proxies
      /\ proxy' \in [port : Ports, secret : Secrets] /\ proxy'.secret = secret
  BY <1>0, <1>a, <1>1 DEF Proxies
<1>3. PICK copy : copy = [job["rotate"].copy EXCEPT !.secret = secret]
  OBVIOUS
<1>4. job["rotate"].copy \in [port : Ports, secret : Secrets]
  BY <1>0, <1>a DEF MtProxyInv, RotatesAProxy, ProxyJobs, Proxies
<1>5. /\ copy \in [port : Ports, secret : Secrets] /\ copy.secret = secret
      /\ copy.port = job["rotate"].copy.port
  BY <1>3, <1>4
<1>6. PICK record : record = [stage |-> "save", copy |-> copy]
  OBVIOUS
<1>7. record \in ProxyJobs /\ record.stage = "save" /\ record.copy = copy
  BY <1>5, <1>6 DEF ProxyJobs, Proxies
<1>8. job' = [job EXCEPT !["rotate"] = record]
  BY <1>1, <1>3, <1>6
<1>9. \A p \in [port : Ports, secret : Secrets] : p # NoProxy
  BY MtProxyAssumption
<1>10. ~crossed => JobFits("rotate", record, proxy', link')
  BY <1>0, <1>2, <1>5, <1>7, <1>9 DEF JobFits, MtProxyInv, LoneJobsFit
<1> QED
  BY <1>0, <1>a, <1>2, <1>5, <1>7, <1>8, <1>9, <1>10, ProxyJobMoves

LEMMA SaveLinkKeeps ==
    ASSUME MtProxyInv, NEW j \in Jobs, SaveLink(j)
    PROVE  MtProxyInv'
<1>1. job[j].copy \in Proxies
  BY DEF MtProxyInv, ProxyTables, ProxyJobs
<1>2. /\ job' = [job EXCEPT ![j] = NoJob] /\ job[j].stage # "idle" /\ crossed' = crossed
      /\ proxy' \in Proxies /\ link' \in Proxies /\ failures' \in Nat
  BY <1>1 DEF SaveLink, MtProxyInv, ProxyTables
<1>3. JobFits(j, NoJob, proxy', link')
  BY NoJobIsIdle DEF JobFits
<1> QED
  BY <1>2, <1>3, NoJobIsIdle, ProxyJobMoves

LEMMA JobFailsKeeps ==
    ASSUME MtProxyInv, NEW j \in Jobs, JobFails(j)
    PROVE  MtProxyInv'
<1>1. /\ job' = [job EXCEPT ![j] = NoJob] /\ job[j].stage # "idle" /\ crossed' = crossed
      /\ proxy' \in Proxies /\ link' \in Proxies /\ failures' \in Nat
  BY DEF JobFails, Incidental, MtProxyInv, ProxyTables
<1>2. JobFits(j, NoJob, proxy', link')
  BY NoJobIsIdle DEF JobFits
<1> QED
  BY <1>1, <1>2, NoJobIsIdle, ProxyJobMoves

LEMMA MtProxyContinues == MtProxyInv /\ [MtProxyNext]_mtProxyVars => MtProxyInv'
<1> SUFFICES ASSUME MtProxyInv, [MtProxyNext]_mtProxyVars PROVE MtProxyInv'
  OBVIOUS
<1>1. CASE BeginRotation
  BY <1>1, ProxyReadKeeps DEF BeginRotation, Jobs, MtProxyInv, ProxyTables
<1>2. ASSUME NEW j \in Jobs, BeginJob(j) PROVE MtProxyInv'
  <2>1. PICK stage \in {"read", "save"} : stage = (IF j = "list" THEN "save" ELSE "read")
    OBVIOUS
  <2>2. /\ ReadRow(j, stage) /\ UNCHANGED <<proxy, link>> /\ failures' \in Nat
        /\ j # "rotate" /\ (j = "install" => stage = "read")
    BY <1>2, <2>1 DEF BeginJob, Incidental, MtProxyInv, ProxyTables
  <2> QED
    BY <2>2, ProxyReadKeeps
<1>3. CASE Deploy
  BY <1>3, DeployKeeps
<1>4. CASE ReplaceSecret
  BY <1>4, ReplaceSecretKeeps
<1>5. ASSUME NEW j \in Jobs, SaveLink(j) \/ JobFails(j) PROVE MtProxyInv'
  BY <1>5, SaveLinkKeeps, JobFailsKeeps
<1>6. CASE UNCHANGED mtProxyVars
  BY <1>6 DEF mtProxyVars, MtProxyInv, ProxyTables, RotatesAProxy, OneProxyJob, LoneJobsFit
<1> QED
  BY <1>1, <1>2, <1>3, <1>4, <1>5, <1>6 DEF MtProxyNext

(***************************************************************************)
(* For any ports, secrets, failures and overlaps before it: what an        *)
(* installation or a rotation saves that ran alone is the proxy on the     *)
(* host, unless the row of a rotation named a wrong port already (install  *)
(* and rotateSecretFor of mtproxy.service.ts).                             *)
(***************************************************************************)
THEOREM LoneSavesGiveTheProxy == MtProxySpec => LoneSavesOpen
<1> DEFINE opened == \A j \in {"install", "rotate"} : SaveLink(j) /\ ~crossed =>
        \/ link' = proxy'
        \/ j = "rotate" /\ link.port # proxy.port
<1>1. MtProxyInv /\ [MtProxyNext]_mtProxyVars => [opened]_mtProxyVars
  <2> SUFFICES ASSUME MtProxyInv, NEW j \in {"install", "rotate"}, SaveLink(j), ~crossed
               PROVE  link' = proxy' \/ (j = "rotate" /\ link.port # proxy.port)
    OBVIOUS
  <2>1. /\ JobFits(j, job[j], proxy, link) /\ job[j].stage = "save"
        /\ link' = job[j].copy /\ proxy' = proxy
    BY DEF SaveLink, MtProxyInv, LoneJobsFit, Jobs
  <2>2. CASE j = "install"
    BY <2>1, <2>2 DEF JobFits
  <2>3. CASE j = "rotate"
    <3>1. /\ job[j].copy \in [port : Ports, secret : Secrets] /\ proxy \in [port : Ports, secret : Secrets]
          /\ job[j].copy.port = link.port /\ job[j].copy.secret = proxy.secret
      BY <2>1, <2>3 DEF JobFits, MtProxyInv, ProxyTables, ProxyJobs, Proxies, Jobs
    <3>2. job[j].copy = [port |-> link.port, secret |-> proxy.secret]
      BY <3>1
    <3>3. proxy = [port |-> proxy.port, secret |-> proxy.secret]
      BY <3>1
    <3> QED
      BY <2>1, <2>3, <3>2, <3>3
  <2> QED
    BY <2>2, <2>3
<1> QED
  BY <1>1, MtProxyStarts, MtProxyContinues, PTL DEF MtProxySpec, LoneSavesOpen

=============================================================================

--------------------------- MODULE HttpsSettings ---------------------------
(***************************************************************************)
(* The settings row, the certificates on disk and what nginx was told to   *)
(* serve: update, renewCertificateNow and autoRenew of                     *)
(* backend/src/system/settings.service.ts, render of                       *)
(* nginx-config.service.ts and the calls of certbot.  Each call works on   *)
(* the row as it read it at its beginning, and saves all of it.            *)
(***************************************************************************)
EXTENDS Naturals

CONSTANTS
    Domains, NoDomain,
    Requests,      \* calls that may be in progress at the same time
    MaxRequests,   \* bound on the calls
    MaxMishaps     \* bound on failures of certbot and nginx, restarts, moves to another host

ASSUME HttpsAssumption == NoDomain \notin Domains /\ MaxRequests \in Nat /\ MaxMishaps \in Nat

VARIABLES
    settings,  \* domain, whether there is an email, httpEnabled, httpsEnabled
    certs,     \* domains with a certificate on disk
    nginx,     \* the configuration it runs with
    request,   \* the calls in progress
    requests, mishaps

httpsVars == <<settings, certs, nginx, request, requests, mishaps>>

SettingsRow == [domain : Domains \cup {NoDomain}, email : BOOLEAN, http : BOOLEAN, https : BOOLEAN]
FirstSettings == [domain |-> NoDomain, email |-> FALSE, http |-> TRUE, https |-> FALSE]

\* Mutant: HTTPS whenever the row says so.
ConfigurationAlways(s) ==
    IF s.https THEN [ssl |-> s.domain, challenge |-> TRUE, port80 |-> IF s.http THEN "redirect" ELSE "closed"]
    ELSE [ssl |-> NoDomain, challenge |-> s.domain # NoDomain, port80 |-> "panel"]

\* The configuration that render makes of a row: HTTPS only with a certificate,
\* and the whole panel on port 80 otherwise, whatever httpEnabled says.
Configuration(s) ==
    IF s.https /\ s.domain \in certs
      THEN [ssl |-> s.domain, challenge |-> TRUE, port80 |-> IF s.http THEN "redirect" ELSE "closed"]
      ELSE [ssl |-> NoDomain, challenge |-> s.domain # NoDomain, port80 |-> "panel"]

NoRequest == [stage |-> "idle", copy |-> FirstSettings, alone |-> TRUE]

HttpsTypeOK ==
    /\ settings \in SettingsRow
    /\ certs \subseteq Domains
    /\ nginx.ssl \in Domains \cup {NoDomain}
    /\ \A q \in Requests : request[q].copy \in SettingsRow

HttpsInit ==
    /\ settings = FirstSettings
    /\ certs = {}
    /\ nginx = Configuration(settings)
    /\ request = [q \in Requests |-> NoRequest]
    /\ requests = 0 /\ mishaps = 0

Mishap == mishaps < MaxMishaps /\ mishaps' = mishaps + 1

\* A call begins; from now on none of those in progress is alone.
BeginRequest(q, stage, copy) ==
    /\ request[q].stage = "idle"
    /\ requests < MaxRequests /\ requests' = requests + 1
    /\ LET others == {p \in Requests \ {q} : request[p].stage # "idle"}
       IN  request' = [p \in Requests |->
                         IF p = q THEN [stage |-> stage, copy |-> copy, alone |-> others = {}]
                         ELSE [request[p] EXCEPT !.alone = FALSE]]
    /\ UNCHANGED <<settings, certs, nginx, mishaps>>

\* The call goes on with its own copy of the row.
Continue(q, stage, copy) ==
    request' = [request EXCEPT ![q] = [stage |-> stage, copy |-> copy, alone |-> request[q].alone]]

-----------------------------------------------------------------------------

\* update: what is not given stays; HTTPS that is new, or for another domain or
\* email, needs a certificate first.
Update(q, domain, newEmail, http, https) ==
    /\ http \/ https
    /\ LET copy == [domain |-> domain, email |-> settings.email \/ newEmail, http |-> http, https |-> https]
           issue == https /\ (~settings.https \/ domain # settings.domain \/ newEmail)
       IN  /\ domain # NoDomain \/ settings.domain = NoDomain
           /\ issue => domain # NoDomain /\ copy.email
           /\ BeginRequest(q, IF issue THEN "challenge" ELSE "save", copy)

\* The button and the nightly timer, which leaves a panel without HTTPS alone.
BeginRenewal(q) ==
    /\ settings.domain # NoDomain /\ settings.email
    /\ BeginRequest(q, "renew", settings)

\* nginx serves the challenge over HTTP while certbot is asked.
ServeChallenge(q) ==
    /\ request[q].stage = "challenge"
    /\ \/ /\ nginx' = Configuration([request[q].copy EXCEPT !.https = FALSE])
          /\ Continue(q, "issue", request[q].copy)
          /\ UNCHANGED mishaps
       \/ /\ Mishap
          /\ Continue(q, "idle", FirstSettings)
          /\ UNCHANGED nginx
    /\ UNCHANGED <<settings, certs, requests>>

Issue(q) ==
    /\ request[q].stage = "issue"
    /\ nginx.challenge
    /\ certs' = certs \cup {request[q].copy.domain}
    /\ Continue(q, "save", [request[q].copy EXCEPT !.https = TRUE])
    /\ UNCHANGED <<settings, nginx, requests, mishaps>>

\* Mutant: nginx is told that HTTPS is off, the row is not.
IssueFailsUnsaved(q) ==
    /\ request[q].stage = "issue"
    /\ Mishap
    /\ Continue(q, "render", [request[q].copy EXCEPT !.https = FALSE])
    /\ UNCHANGED <<settings, certs, nginx, requests>>

\* Then HTTPS is off, also if it was on for another domain before.
IssueFails(q) ==
    /\ request[q].stage = "issue"
    /\ Mishap
    /\ Continue(q, "save", [request[q].copy EXCEPT !.https = FALSE])
    /\ UNCHANGED <<settings, certs, nginx, requests>>

\* certbot renews what there is; a failure is saved, and nginx not told.
Renew(q) ==
    /\ request[q].stage = "renew"
    /\ \/ Continue(q, "save", request[q].copy) /\ UNCHANGED mishaps
       \/ Continue(q, "save_failure", request[q].copy) /\ Mishap
    /\ UNCHANGED <<settings, certs, nginx, requests>>

SaveSettings(q) ==
    /\ request[q].stage \in {"save", "save_failure"}
    /\ settings' = request[q].copy
    /\ Continue(q, IF request[q].stage = "save" THEN "render" ELSE "idle", request[q].copy)
    /\ UNCHANGED <<certs, nginx, requests, mishaps>>

\* render of the copy; if nginx cannot be reloaded it keeps what it has.
Render(q) ==
    /\ request[q].stage = "render"
    /\ \/ nginx' = Configuration(request[q].copy) /\ UNCHANGED mishaps
       \/ Mishap /\ UNCHANGED nginx
    /\ Continue(q, "idle", FirstSettings)
    /\ UNCHANGED <<settings, certs, requests>>

\* At every start nginx is told what the row says; on a new host with a
\* restored database there are no certificates yet.
RestartPanel ==
    /\ Mishap
    /\ request' = [q \in Requests |-> NoRequest]
    /\ UNCHANGED <<settings, requests>>
    /\ certs' \in {certs, {}}
    /\ nginx' = Configuration(settings)'

HttpsNext ==
    \/ \E q \in Requests :
        \/ \E domain \in Domains \cup {NoDomain}, newEmail, http, https \in BOOLEAN :
             Update(q, domain, newEmail, http, https)
        \/ BeginRenewal(q) \/ ServeChallenge(q) \/ Issue(q) \/ IssueFails(q) \/ Renew(q)
        \/ SaveSettings(q) \/ Render(q)
    \/ RestartPanel

HttpsSpec == HttpsInit /\ [][HttpsNext]_httpsVars

-----------------------------------------------------------------------------
(* Properties.                                                             *)

(***************************************************************************)
(* nginx is never told to serve HTTPS with a certificate that is not       *)
(* there, whatever the row says (the invariant in the comment on           *)
(* NginxConfigService).                                                    *)
(***************************************************************************)
ServesOwnCertificate == nginx.ssl \in certs \cup {NoDomain}

(***************************************************************************)
(* A call that ran alone and got nginx to reload leaves it with what the   *)
(* row says, also when no certificate was issued for a new domain.         *)
(***************************************************************************)
NginxFollowsSettings ==
    [][\A q \in Requests :
        Render(q) /\ request[q].alone /\ UNCHANGED mishaps
            => nginx' = Configuration(settings)]_httpsVars

=============================================================================

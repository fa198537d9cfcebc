------------------------------- MODULE Session -------------------------------
(***************************************************************************)
(* One account of the panel: its row (users), the sign-ins and the        *)
(* changes of its password that may overlap (auth.service.ts,             *)
(* users.service.ts), and the page in the browser that holds its tokens   *)
(* and renews them for all of its requests at once (api/client.ts).       *)
(* A save writes every column as the call read it; save of a deleted row  *)
(* inserts it again.                                                      *)
(***************************************************************************)
EXTENDS Naturals

CONSTANTS
    Guesses,            \* calls of login by somebody else than the page
    Pages,              \* requests the page may have in flight
    MaxFailedAttempts,  \* MAX_FAILED_ATTEMPTS
    NoToken,
    MaxPasswords,       \* bound on changes of the password
    MaxLapses           \* bound on expired tokens and lost answers

ASSUME SessionAssumption ==
    /\ MaxFailedAttempts \in Nat \ {0}
    /\ {MaxPasswords, MaxLapses} \subseteq Nat

VARIABLES
    account,   \* the row of the user
    deleted,
    calls,     \* login and updateForRequester with the row as they read it
    overtaken, \* a call has saved a row whose password was out of date
    storage,   \* tokenStorage: access and refresh token
    renewal,   \* refreshPromise
    page,      \* the requests of the page
    lapses

sessionVars == <<account, deleted, calls, overtaken, storage, renewal, page, lapses>>

\* Passwords are numbered; version is tokenVersion; the lock is lockedUntil.
Account ==
    [password : 0 .. MaxPasswords, version : 0 .. MaxPasswords,
     attempts : 0 .. MaxFailedAttempts, lock : {"none", "on", "past"}]

\* A refresh token carries the version, and (for the property) the password
\* it was issued for.
RefreshTokens == [version : 0 .. MaxPasswords, password : 0 .. MaxPasswords]

Callers == Guesses \cup {"page", "admin"}

SessionTypeOK ==
    /\ account \in Account
    /\ {deleted, overtaken} \subseteq BOOLEAN
    /\ \A c \in Callers : calls[c].stage \in {"idle", "compare"} /\ calls[c].row \in Account
    /\ storage \in [access : {"none", "valid", "expired"}, refresh : RefreshTokens \cup {NoToken}]
    /\ renewal \in {"none", "asked", "granted", "refused", "stale"}
    /\ page \in [Pages -> {"idle", "sent", "late", "waiting", "again", "rejected"}]

NewAccount == [password |-> 0, version |-> 0, attempts |-> 0, lock |-> "none"]

SessionInit ==
    /\ account = NewAccount
    /\ deleted = FALSE
    /\ calls = [c \in Callers |-> [stage |-> "idle", row |-> NewAccount]]
    /\ overtaken = FALSE
    /\ storage = [access |-> "none", refresh |-> NoToken]
    /\ renewal = "none"
    /\ page = [q \in Pages |-> "idle"]
    /\ lapses = 0

accountVars == <<account, deleted, overtaken>>
browser == <<storage, renewal, page>>

\* save(user): all columns that differ from the row, so all of the copy.
Save(row, copy) ==
    /\ account' = row
    /\ deleted' = FALSE
    /\ overtaken' = (overtaken \/ deleted \/ copy.password # account.password)

Ends(c) == calls' = [calls EXCEPT ![c].stage = "idle"]

-----------------------------------------------------------------------------
(* The server *)

\* login: the row is read, and a lock that is in force refuses.
LoginReads(c) ==
    /\ c # "admin" /\ calls[c].stage = "idle"
    /\ c = "page" => storage.refresh = NoToken /\ \A q \in Pages : page[q] = "idle"
    /\ ~deleted /\ account.lock # "on"
    /\ calls' = [calls EXCEPT ![c] = [stage |-> "compare", row |-> account]]
    /\ UNCHANGED <<accountVars, browser, lapses>>

\* The counter goes on after a lock has passed, so one more failure locks again.
Counted(row) == IF row.attempts < MaxFailedAttempts THEN row.attempts + 1 ELSE row.attempts

LoginRefused(c) ==
    /\ c # "admin" /\ calls[c].stage = "compare"
    /\ LET row == calls[c].row
           attempts == Counted(row)
       IN  Save([row EXCEPT !.attempts = attempts,
                            !.lock = IF attempts >= MaxFailedAttempts THEN "on" ELSE @], row)
    /\ Ends(c)
    /\ UNCHANGED <<browser, lapses>>

\* The password matches the row that was read; only a row with failures is saved.
LoginAccepted ==
    /\ calls["page"].stage = "compare"
    /\ LET row == calls["page"].row
       IN  /\ IF row.attempts > 0 \/ row.lock # "none"
              THEN Save([row EXCEPT !.attempts = 0, !.lock = "none"], row)
              ELSE UNCHANGED accountVars
           /\ storage' = [access |-> "valid",
                          refresh |-> [version |-> row.version, password |-> row.password]]
    /\ Ends("page")
    /\ UNCHANGED <<renewal, page, lapses>>

ChangeReads ==
    /\ calls["admin"].stage = "idle"
    /\ ~deleted /\ account.password < MaxPasswords
    /\ calls' = [calls EXCEPT !["admin"] = [stage |-> "compare", row |-> account]]
    /\ UNCHANGED <<accountVars, browser, lapses>>

\* Mutant: tokenVersion stays.
ChangePasswordOnly ==
    /\ calls["admin"].stage = "compare"
    /\ LET row == calls["admin"].row
       IN  Save([row EXCEPT !.password = @ + 1], row)
    /\ Ends("admin")
    /\ UNCHANGED <<browser, lapses>>

\* updateForRequester after the await of the hash.
ChangePassword ==
    /\ calls["admin"].stage = "compare"
    /\ LET row == calls["admin"].row
       IN  Save([row EXCEPT !.password = @ + 1, !.version = @ + 1], row)
    /\ Ends("admin")
    /\ UNCHANGED <<browser, lapses>>

RemoveUser ==
    /\ ~deleted
    /\ deleted' = TRUE
    /\ UNCHANGED <<account, calls, overtaken, browser, lapses>>

LockPasses ==
    /\ account.lock = "on"
    /\ account' = [account EXCEPT !.lock = "past"]
    /\ UNCHANGED <<deleted, calls, overtaken, browser, lapses>>

-----------------------------------------------------------------------------
(* The page *)

\* The signature and the term of an access token are all that is checked; late is
\* a request whose token has expired before it was.
Send(q) ==
    /\ page[q] = "idle" /\ storage.access # "none"
    /\ page' = [page EXCEPT ![q] = IF storage.access = "valid" THEN "sent" ELSE "late"]
    /\ UNCHANGED <<accountVars, calls, storage, renewal, lapses>>

Answered(q) ==
    /\ page[q] \in {"sent", "again"}
    /\ page[q] = "again" => storage.access = "valid"
    /\ page' = [page EXCEPT ![q] = "idle"]
    /\ UNCHANGED <<accountVars, calls, storage, renewal, lapses>>

\* The interceptor: the first 401 of a request asks for a token, or joins the
\* question that is open, even when the others have a new token by now; the second
\* one is the page's.
Unauthorised(q) ==
    /\ \/ /\ page[q] = "late"
          /\ page' = [page EXCEPT ![q] = "waiting"]
          /\ renewal' = IF renewal = "none" THEN "asked" ELSE renewal
       \/ /\ page[q] = "again" /\ storage.access # "valid"
          /\ page' = [page EXCEPT ![q] = "rejected"]
          /\ UNCHANGED renewal
    /\ UNCHANGED <<accountVars, calls, storage, lapses>>

Acceptable == ~deleted /\ storage.refresh # NoToken /\ storage.refresh.version = account.version

\* AuthService.refresh
Refresh ==
    /\ renewal = "asked"
    /\ renewal' = IF Acceptable THEN "granted" ELSE "refused"
    /\ UNCHANGED <<accountVars, calls, storage, page, lapses>>

\* Mutant: the promise is kept after it was settled.
TokenArrivesAndStays ==
    /\ renewal \in {"granted", "stale"}
    /\ \E q \in Pages : page[q] = "waiting"
    /\ storage' = [storage EXCEPT !.access = IF renewal = "granted" THEN "valid" ELSE @]
    /\ renewal' = "stale"
    /\ page' = [q \in Pages |-> IF page[q] = "waiting" THEN "again" ELSE page[q]]
    /\ UNCHANGED <<accountVars, calls, lapses>>

\* The promise is settled: every request that waits for it goes on at once.
TokenArrives ==
    /\ renewal = "granted"
    /\ storage' = [storage EXCEPT !.access = "valid"]
    /\ renewal' = "none"
    /\ page' = [q \in Pages |-> IF page[q] = "waiting" THEN "again" ELSE page[q]]
    /\ UNCHANGED <<accountVars, calls, lapses>>

\* The tokens are cleared and the page loads /login: its requests are gone.
SignedOut ==
    /\ storage' = [access |-> "none", refresh |-> NoToken]
    /\ renewal' = "none"
    /\ page' = [q \in Pages |-> "idle"]

RenewalFails ==
    /\ renewal = "refused"
    /\ SignedOut
    /\ UNCHANGED <<accountVars, calls, lapses>>

\* The backend does not answer the renewal, which is taken for a refusal.
RenewalLost ==
    /\ renewal \in {"asked", "granted"}
    /\ lapses < MaxLapses /\ lapses' = lapses + 1
    /\ SignedOut
    /\ UNCHANGED <<accountVars, calls>>

\* A term far longer than it takes to repeat a request; of those sent with the token
\* some have been checked before.
TokenExpires ==
    /\ storage.access = "valid"
    /\ \A q \in Pages : page[q] # "again"
    /\ lapses < MaxLapses /\ lapses' = lapses + 1
    /\ storage' = [storage EXCEPT !.access = "expired"]
    /\ \E checked \in SUBSET {q \in Pages : page[q] = "sent"} :
        page' = [q \in Pages |-> IF page[q] = "sent" /\ q \notin checked THEN "late" ELSE page[q]]
    /\ UNCHANGED <<accountVars, calls, renewal>>

SessionNext ==
    \/ \E c \in Callers : LoginReads(c) \/ LoginRefused(c)
    \/ LoginAccepted \/ ChangeReads \/ ChangePassword \/ RemoveUser \/ LockPasses
    \/ \E q \in Pages : Send(q) \/ Answered(q) \/ Unauthorised(q)
    \/ Refresh \/ TokenArrives \/ RenewalFails \/ RenewalLost \/ TokenExpires

SessionSpec == SessionInit /\ [][SessionNext]_sessionVars

-----------------------------------------------------------------------------

(***************************************************************************)
(* After a change of the password no token issued for an earlier one is    *)
(* renewed (user.entity.ts on tokenVersion), unless a sign-in or a change  *)
(* that had read the row before has written its copy over it.              *)
(***************************************************************************)
OldSessionsEnd ==
    [][Refresh /\ Acceptable => overtaken \/ storage.refresh.password = account.password]_sessionVars

(***************************************************************************)
(* However requests, answers and the renewals they share interleave, a     *)
(* token that expires shows the page no 401: a request is repeated with a  *)
(* valid token, or the page is signed out, as it is when the answer to a   *)
(* renewal is lost, be the session still good or not.                      *)
(***************************************************************************)
NoRequestRejected == \A q \in Pages : page[q] # "rejected"

=============================================================================

---------------------------- MODULE AccessProofs ----------------------------
(***************************************************************************)
(* Sessions of users (Session) and connections of the terminal             *)
(* (TerminalShells), for any numbers of requests, guesses, sockets and     *)
(* connections.                                                            *)
(***************************************************************************)
EXTENDS Session, TerminalShells, TLAPS

-----------------------------------------------------------------------------
(* Session: passwords, locks and tokens.                                   *)

Tokens == [access : {"none", "valid", "expired"}, refresh : RefreshTokens \cup {NoToken}]

SessionTables ==
    /\ account \in Account
    /\ deleted \in BOOLEAN /\ overtaken \in BOOLEAN
    /\ calls \in [Callers -> [stage : {"idle", "compare"}, row : Account]]
    /\ storage \in Tokens
    /\ renewal \in {"none", "asked", "granted", "refused", "stale"}
    /\ page \in [Pages -> {"idle", "sent", "late", "waiting", "again", "rejected"}]

\* Only passwords that may still be changed are read in order to change them.
ChangeIsCounted == calls["admin"].stage = "compare" => calls["admin"].row.password < MaxPasswords

\* Every row, in the table or in memory, and the token of the page have the version
\* of their password.
VersionsFollow ==
    /\ account.version = account.password
    /\ \A c \in Callers : calls[c].row.version = calls[c].row.password
    /\ storage.refresh # NoToken => storage.refresh.version = storage.refresh.password

\* A request is repeated with a token that is still good.
RepeatedWithToken == \A q \in Pages : page[q] = "again" => storage.access = "valid"

SessionInv == SessionTables /\ ChangeIsCounted /\ VersionsFollow /\ RepeatedWithToken /\ NoRequestRejected

LEMMA SessionStarts == SessionInit => SessionInv
<1> SUFFICES ASSUME SessionInit PROVE SessionInv
  OBVIOUS
<1>1. NewAccount \in Account /\ NewAccount.version = NewAccount.password
  BY SessionAssumption DEF NewAccount, Account
<1>2. [stage |-> "idle", row |-> NewAccount] \in [stage : {"idle", "compare"}, row : Account]
  BY <1>1
<1>3. SessionTables
  BY <1>1, <1>2 DEF SessionInit, SessionTables, Tokens
<1>4. \A c \in Callers : calls[c].stage = "idle" /\ calls[c].row = NewAccount
  BY DEF SessionInit
<1> QED
  BY <1>1, <1>3, <1>4 DEF SessionInit, SessionInv, ChangeIsCounted, VersionsFollow,
                          RepeatedWithToken, NoRequestRejected, Callers

\* What the calls make of the row they read.
LEMMA RowWithAttempts ==
    ASSUME NEW r \in Account, r.version = r.password,
           NEW a \in 0 .. MaxFailedAttempts, NEW l \in {"none", "on", "past"}
    PROVE  LET new == [r EXCEPT !.attempts = a, !.lock = l]
           IN  new \in Account /\ new.version = new.password
BY DEF Account

LEMMA RowWithPassword ==
    ASSUME NEW r \in Account, r.version = r.password, r.password < MaxPasswords
    PROVE  LET new == [r EXCEPT !.password = @ + 1, !.version = @ + 1]
           IN  new \in Account /\ new.version = new.password
<1> DEFINE n == r.password + 1
<1>1. n \in 0 .. MaxPasswords
  BY SessionAssumption DEF Account
<1>2. [r EXCEPT !.password = n, !.version = n] \in Account
  BY <1>1 DEF Account
<1>3. [r EXCEPT !.password = n, !.version = n] = [r EXCEPT !.password = @ + 1, !.version = @ + 1]
  OBVIOUS
<1> QED
  BY <1>2, <1>3 DEF Account

\* A call that ends leaves the others, and its copy, alone.
LEMMA EndsKeeps ==
    ASSUME SessionTables, NEW c \in Callers, Ends(c)
    PROVE  /\ calls' \in [Callers -> [stage : {"idle", "compare"}, row : Account]]
           /\ \A d \in Callers : /\ calls'[d].row = calls[d].row
                                 /\ calls'[d].stage \in {"idle", calls[d].stage}
<1> DEFINE call == [calls[c] EXCEPT !.stage = "idle"]
<1>1. calls \in [Callers -> [stage : {"idle", "compare"}, row : Account]]
  BY DEF SessionTables
<1>2. call \in [stage : {"idle", "compare"}, row : Account] /\ call.stage = "idle" /\ call.row = calls[c].row
  BY <1>1
<1>3. calls' = [calls EXCEPT ![c] = call]
  BY <1>1 DEF Ends
<1> HIDE DEF call
<1> QED
  BY <1>1, <1>2, <1>3

\* A save leaves a well-formed row, and no token or page is touched.
LEMMA SaveKeeps ==
    ASSUME SessionInv, NEW c \in Callers, NEW row \in Account, row.version = row.password,
           Save(row, calls[c].row), Ends(c), UNCHANGED <<browser, lapses>>
    PROVE  SessionInv'
<1>1. /\ account' = row /\ deleted' \in BOOLEAN /\ overtaken' \in BOOLEAN
  BY DEF Save
<1>2. /\ calls' \in [Callers -> [stage : {"idle", "compare"}, row : Account]]
      /\ \A d \in Callers : /\ calls'[d].row = calls[d].row
                            /\ calls'[d].stage \in {"idle", calls[d].stage}
  BY DEF Ends, SessionInv, SessionTables
<1>3. UNCHANGED <<storage, renewal, page>>
  BY DEF browser
<1>4. SessionTables'
  BY <1>1, <1>2, <1>3 DEF SessionInv, SessionTables
<1>5. ChangeIsCounted' /\ VersionsFollow'
  BY <1>1, <1>2, <1>3 DEF SessionInv, ChangeIsCounted, VersionsFollow, Callers
<1>6. RepeatedWithToken' /\ NoRequestRejected'
  BY <1>3 DEF SessionInv, RepeatedWithToken, NoRequestRejected
<1> QED
  BY <1>4, <1>5, <1>6 DEF SessionInv

LEMMA ReadKeeps ==
    ASSUME SessionInv, NEW c \in Callers, c = "admin" => account.password < MaxPasswords,
           calls' = [calls EXCEPT ![c] = [stage |-> "compare", row |-> account]],
           UNCHANGED <<accountVars, browser, lapses>>
    PROVE  SessionInv'
<1>1. UNCHANGED <<account, deleted, overtaken, storage, renewal, page>>
  BY DEF accountVars, browser
<1>2. account \in Account /\ account.version = account.password
  BY DEF SessionInv, SessionTables, VersionsFollow
<1>3. /\ calls' \in [Callers -> [stage : {"idle", "compare"}, row : Account]]
      /\ calls'[c].row = account
      /\ \A d \in Callers \ {c} : calls'[d] = calls[d]
  BY <1>2 DEF SessionInv, SessionTables
<1> QED
  BY <1>1, <1>2, <1>3 DEF SessionInv, SessionTables, ChangeIsCounted, VersionsFollow,
                          RepeatedWithToken, NoRequestRejected, Callers

\* Steps of the page leave the account and the calls alone.
LEMMA PageKeeps ==
    ASSUME SessionInv, UNCHANGED <<accountVars, calls>>,
           storage' \in Tokens,
           storage'.refresh \in {NoToken, storage.refresh},
           renewal' \in {"none", "asked", "granted", "refused", "stale"},
           page' \in [Pages -> {"idle", "sent", "late", "waiting", "again"}],
           \A q \in Pages : page'[q] = "again" => storage'.access = "valid"
    PROVE  SessionInv'
<1>1. UNCHANGED <<account, deleted, overtaken, calls>>
  BY DEF accountVars
<1>2. SessionTables'
  BY <1>1 DEF SessionInv, SessionTables
<1>3. ChangeIsCounted' /\ VersionsFollow'
  BY <1>1 DEF SessionInv, ChangeIsCounted, VersionsFollow
<1>4. RepeatedWithToken' /\ NoRequestRejected'
  BY DEF RepeatedWithToken, NoRequestRejected
<1> QED
  BY <1>2, <1>3, <1>4 DEF SessionInv

LEMMA SessionContinues == SessionInv /\ [SessionNext]_sessionVars => SessionInv'
<1> SUFFICES ASSUME SessionInv, [SessionNext]_sessionVars PROVE SessionInv'
  OBVIOUS
<1> USE SessionAssumption
<1>t. SessionTables /\ page \in [Pages -> {"idle", "sent", "late", "waiting", "again"}]
  BY DEF SessionInv, SessionTables, NoRequestRejected
<1>c. "admin" \in Callers /\ "page" \in Callers
  BY DEF Callers
<1>1. ASSUME NEW c \in Callers, LoginReads(c) PROVE SessionInv'
  BY <1>1, ReadKeeps DEF LoginReads
<1>2. ASSUME NEW c \in Callers, LoginRefused(c) PROVE SessionInv'
  <2> DEFINE row == calls[c].row
             lock == IF Counted(row) >= MaxFailedAttempts THEN "on" ELSE row.lock
             new == [row EXCEPT !.attempts = Counted(row), !.lock = lock]
  <2>1. row \in Account /\ row.version = row.password
    BY <1>t DEF SessionInv, SessionTables, VersionsFollow
  <2>2. new \in Account /\ new.version = new.password
    <3>1. Counted(row) \in 0 .. MaxFailedAttempts /\ lock \in {"none", "on", "past"}
      BY <2>1 DEF Account, Counted
    <3> HIDE DEF lock
    <3> QED
      BY <2>1, <3>1, RowWithAttempts
  <2>3. Save(new, calls[c].row) /\ Ends(c) /\ UNCHANGED <<browser, lapses>>
    BY <1>2 DEF LoginRefused
  <2> HIDE DEF new
  <2> QED
    BY <2>2, <2>3, SaveKeeps
<1>3. CASE LoginAccepted
  <2> DEFINE row == calls["page"].row
             new == [row EXCEPT !.attempts = 0, !.lock = "none"]
             token == [version |-> row.version, password |-> row.password]
  <2>1. row \in Account /\ row.version = row.password
    BY <1>t, <1>c DEF SessionInv, SessionTables, VersionsFollow
  <2>2. new \in Account /\ new.version = new.password
    <3>1. 0 \in 0 .. MaxFailedAttempts
      OBVIOUS
    <3> QED
      BY <2>1, <3>1, RowWithAttempts
  <2>3. token \in RefreshTokens /\ token.version = token.password
    BY <2>1 DEF Account, RefreshTokens
  <2>4. /\ account' \in Account /\ deleted' \in BOOLEAN /\ overtaken' \in BOOLEAN
        /\ account'.version = account'.password
    <3>1. CASE Save(new, row)
      BY <2>2, <3>1 DEF Save
    <3>2. CASE UNCHANGED accountVars
      BY <3>2, <1>t DEF accountVars, SessionInv, SessionTables, VersionsFollow
    <3> QED
      BY <1>3, <3>1, <3>2 DEF LoginAccepted
  <2>5. /\ storage' = [access |-> "valid", refresh |-> token]
        /\ Ends("page") /\ UNCHANGED <<renewal, page>>
    BY <1>3 DEF LoginAccepted
  <2>6. /\ calls' \in [Callers -> [stage : {"idle", "compare"}, row : Account]]
        /\ \A d \in Callers : /\ calls'[d].row = calls[d].row
                              /\ calls'[d].stage \in {"idle", calls[d].stage}
    BY <2>5, <1>t, EndsKeeps DEF Callers
  <2> HIDE DEF new, token
  <2>7. SessionTables'
    BY <2>3, <2>4, <2>5, <2>6, <1>t DEF SessionTables, Tokens
  <2>8. ChangeIsCounted' /\ VersionsFollow'
    BY <2>3, <2>4, <2>5, <2>6, <1>c DEF SessionInv, ChangeIsCounted, VersionsFollow
  <2>9. RepeatedWithToken' /\ NoRequestRejected'
    BY <2>5 DEF SessionInv, RepeatedWithToken, NoRequestRejected
  <2> QED
    BY <2>7, <2>8, <2>9 DEF SessionInv
<1>4. CASE ChangeReads
  BY <1>4, <1>c, ReadKeeps DEF ChangeReads
<1>5. CASE ChangePassword
  <2> DEFINE row == calls["admin"].row
             new == [row EXCEPT !.password = @ + 1, !.version = @ + 1]
  <2>1. row \in Account /\ row.version = row.password /\ row.password < MaxPasswords
    BY <1>5, <1>t, <1>c DEF ChangePassword, SessionInv, SessionTables, VersionsFollow, ChangeIsCounted
  <2>2. new \in Account /\ new.version = new.password
    BY <2>1, RowWithPassword
  <2>3. Save(new, row) /\ Ends("admin") /\ UNCHANGED <<browser, lapses>>
    BY <1>5 DEF ChangePassword
  <2> HIDE DEF new
  <2> QED
    BY <2>2, <2>3, <1>c, SaveKeeps
<1>6. CASE RemoveUser
  BY <1>6 DEF RemoveUser, browser, SessionInv, SessionTables, ChangeIsCounted, VersionsFollow,
              RepeatedWithToken, NoRequestRejected
<1>7. CASE LockPasses
  <2>1. /\ account' \in Account /\ account'.version = account.version
        /\ account'.password = account.password
    BY <1>7, <1>t DEF LockPasses, SessionTables, Account
  <2> QED
    BY <1>7, <2>1 DEF LockPasses, browser, SessionInv, SessionTables, ChangeIsCounted, VersionsFollow,
                      RepeatedWithToken, NoRequestRejected
<1>8. ASSUME NEW q \in Pages, Send(q) \/ Answered(q) \/ Unauthorised(q) PROVE SessionInv'
  <2>1. UNCHANGED <<accountVars, calls, storage>>
    BY <1>8 DEF Send, Answered, Unauthorised
  <2>2. page' \in [Pages -> {"idle", "sent", "late", "waiting", "again"}]
    BY <1>8, <1>t DEF Send, Answered, Unauthorised, SessionInv, RepeatedWithToken
  <2>3. \A p \in Pages : page'[p] = "again" => page[p] = "again"
    BY <1>8, <1>t DEF Send, Answered, Unauthorised
  <2>4. renewal' \in {renewal, "asked"}
    BY <1>8 DEF Send, Answered, Unauthorised
  <2> QED
    BY <1>t, <2>1, <2>2, <2>3, <2>4, PageKeeps DEF SessionTables, Tokens, SessionInv, RepeatedWithToken
<1>9. CASE Refresh
  BY <1>9, <1>t, PageKeeps DEF Refresh, SessionTables, Tokens, SessionInv, RepeatedWithToken
<1>10. CASE TokenArrives
  <2>1. UNCHANGED <<accountVars, calls>> /\ renewal' = "none"
    BY <1>10 DEF TokenArrives
  <2>2. storage' \in Tokens /\ storage'.access = "valid" /\ storage'.refresh = storage.refresh
    BY <1>10, <1>t DEF TokenArrives, SessionTables, Tokens
  <2>3. page' \in [Pages -> {"idle", "sent", "late", "waiting", "again"}]
    BY <1>10, <1>t DEF TokenArrives
  <2> QED
    BY <2>1, <2>2, <2>3, PageKeeps
<1>11. CASE RenewalFails \/ RenewalLost
  <2>1. SignedOut /\ UNCHANGED <<accountVars, calls>>
    BY <1>11 DEF RenewalFails, RenewalLost
  <2>2. storage' \in Tokens /\ storage'.refresh = NoToken
    BY <2>1 DEF SignedOut, Tokens
  <2>3. renewal' = "none" /\ page' = [q \in Pages |-> "idle"]
    BY <2>1 DEF SignedOut
  <2> QED
    BY <2>1, <2>2, <2>3, PageKeeps
<1>12. CASE TokenExpires
  <2>1. UNCHANGED <<accountVars, calls, renewal>>
    BY <1>12 DEF TokenExpires
  <2>2. storage' \in Tokens /\ storage'.refresh = storage.refresh
    BY <1>12, <1>t DEF TokenExpires, SessionTables, Tokens
  <2>3. page' \in [Pages -> {"idle", "sent", "late", "waiting", "again"}] /\ \A q \in Pages : page'[q] # "again"
    BY <1>12, <1>t DEF TokenExpires
  <2> QED
    BY <2>1, <2>2, <2>3, <1>t, PageKeeps DEF SessionTables
<1>13. CASE UNCHANGED sessionVars
  BY <1>13 DEF sessionVars, SessionInv, SessionTables, ChangeIsCounted, VersionsFollow,
               RepeatedWithToken, NoRequestRejected
<1> QED
  BY <1>1, <1>2, <1>3, <1>4, <1>5, <1>6, <1>7, <1>8, <1>9, <1>10, <1>11, <1>12, <1>13 DEF SessionNext

LEMMA SessionHolds == SessionSpec => []SessionInv
BY SessionStarts, SessionContinues, PTL DEF SessionSpec

(***************************************************************************)
(* For any number of requests that are refused, at the same time or after  *)
(* a renewal has ended, and however their answers and the renewals they    *)
(* share interleave: an access token that expires shows the page no 401    *)
(* (the interceptor in frontend/src/api/client.ts).  That a session which  *)
(* still holds goes on is not claimed: a renewal that is not answered ends *)
(* it as well.                                                             *)
(***************************************************************************)
THEOREM PageSeesNoRefusal == SessionSpec => []NoRequestRejected
<1>1. SessionInv => NoRequestRejected
  BY DEF SessionInv
<1> QED
  BY <1>1, SessionHolds, PTL

(***************************************************************************)
(* The account, copies of it in memory, tokens and requests have their     *)
(* types, for any sign-ins and requests (auth.service.ts, client.ts).      *)
(***************************************************************************)
THEOREM SessionTyped == SessionSpec => []SessionTypeOK
<1>1. SessionInv => SessionTypeOK
  BY DEF SessionInv, SessionTables, SessionTypeOK, Tokens
<1> QED
  BY <1>1, SessionHolds, PTL

(***************************************************************************)
(* After a change of the password no token of an earlier one is renewed,   *)
(* however sign-ins, guesses, locks and changes overlap, unless a copy of  *)
(* the row that was read before was written over it (refresh in            *)
(* auth.service.ts, updateForRequester in users.service.ts).               *)
(***************************************************************************)
THEOREM RenewedForThisPassword == SessionSpec => OldSessionsEnd
<1>1. SessionInv => (Refresh /\ Acceptable => overtaken \/ storage.refresh.password = account.password)
  BY DEF SessionInv, VersionsFollow, Acceptable
<1>2. SessionInv /\ [SessionNext]_sessionVars =>
        [Refresh /\ Acceptable => overtaken \/ storage.refresh.password = account.password]_sessionVars
  BY <1>1
<1> QED
  BY <1>2, SessionHolds, PTL DEF SessionSpec, OldSessionsEnd

-----------------------------------------------------------------------------
(* TerminalShells: connections end with their socket.                      *)

ShellRecord == [socket : Sockets \cup {NoShell},
                stage : {"unused", "connecting", "ending", "closed"} \cup Opened, attempt : Nat]

Tables ==
    /\ socket \in [Sockets -> {"new", "here", "gone"}]
    /\ shell \in [Shells -> ShellRecord]
    /\ session \in [Sockets -> Shells \cup {NoShell}]

\* A connection in use belongs to a socket that has been there.
HasSocket ==
    \A h \in Shells : Stage(h) # "unused" =>
        shell[h].socket \in Sockets /\ socket[shell[h].socket] # "new"

\* The table names connections of the socket.
NamesItsOwn ==
    \A s \in Sockets : session[s] # NoShell =>
        shell[session[s]].socket = s /\ Stage(session[s]) # "unused"

\* While a start is under way, the table has nothing for its socket, and no
\* other start of that socket is under way, or they are among what is left over.
UnderWay(h) == Stage(h) \in {"connecting", "connected"}

StartsAlone ==
    \A h \in Shells : UnderWay(h) =>
        /\ session[shell[h].socket] # NoShell => {h, session[shell[h].socket]} \subseteq left
        /\ \A k \in Shells \ {h} : UnderWay(k) /\ shell[k].socket = shell[h].socket => h \in left

(***************************************************************************)
(* What makes it inductive: a start that nothing overtook finds the entry  *)
(* of its socket empty, so that its shell takes no other one's place.      *)
(***************************************************************************)
ShellsInv == Tables /\ HasSocket /\ NamesItsOwn /\ StartsAlone /\ ShellsEndWithSocket

USE DEF Opened, Stage, UnderWay

LEMMA ShellsStart == TerminalInit => ShellsInv
<1> SUFFICES ASSUME TerminalInit PROVE ShellsInv
  OBVIOUS
<1>1. Unused \in ShellRecord /\ Unused.stage = "unused"
  BY DEF Unused, ShellRecord
<1>2. shell = [h \in Shells |-> Unused] /\ \A h \in Shells : shell[h].stage = "unused"
  BY <1>1 DEF TerminalInit
<1>3. Tables
  BY <1>1, <1>2 DEF TerminalInit, Tables
<1>4. HasSocket /\ NamesItsOwn /\ StartsAlone /\ ShellsEndWithSocket
  BY <1>2 DEF TerminalInit, HasSocket, NamesItsOwn, StartsAlone, ShellsEndWithSocket
<1> QED
  BY <1>3, <1>4 DEF ShellsInv

(***************************************************************************)
(* closeSession changes the stage of one connection at most, to ending.    *)
(***************************************************************************)
LEMMA ClosedOne ==
    ASSUME Tables, NEW s \in Sockets
    PROVE  /\ Closed(s) \in [Shells -> ShellRecord]
           /\ \A h \in Shells :
                /\ Closed(s)[h].socket = shell[h].socket
                /\ IF session[s] = h THEN Closed(s)[h].stage \in {"ending", shell[h].stage}
                   ELSE Closed(s)[h] = shell[h]
           /\ session[s] # NoShell => Closed(s)[session[s]].stage = "ending"
<1>1. CASE session[s] = NoShell
  BY <1>1 DEF Closed, Tables, ShellRecord
<1>2. CASE session[s] # NoShell
  <2>1. session[s] \in Shells
    BY <1>2 DEF Tables
  <2> DEFINE closed == [shell[session[s]] EXCEPT !.stage = "ending"]
  <2>2. closed \in ShellRecord /\ closed.stage = "ending" /\ closed.socket = shell[session[s]].socket
    BY <2>1 DEF Tables, ShellRecord
  <2>3. Closed(s) = [shell EXCEPT ![session[s]] = closed]
    BY <1>2 DEF Closed
  <2> HIDE DEF closed
  <2> QED
    BY <1>2, <2>1, <2>2, <2>3 DEF Tables
<1> QED
  BY <1>1, <1>2

LEMMA ShellsContinue == ShellsInv /\ [TerminalNext]_terminalVars => ShellsInv'
<1> SUFFICES ASSUME ShellsInv, [TerminalNext]_terminalVars PROVE ShellsInv'
  OBVIOUS
<1> USE DEF ShellsInv
<1>1. ASSUME NEW s \in Sockets, Connects(s) PROVE ShellsInv'
  <2>1. /\ socket' \in [Sockets -> {"new", "here", "gone"}]
        /\ \A t \in Sockets : socket'[t] = IF t = s THEN "here" ELSE socket[t]
        /\ socket[s] = "new"
    BY <1>1 DEF Connects, Tables
  <2> QED
    BY <1>1, <2>1 DEF Connects, Tables, HasSocket, NamesItsOwn, StartsAlone, ShellsEndWithSocket
<1>2. ASSUME NEW s \in Sockets, Start(s) PROVE ShellsInv'
  <2>1. PICK h \in Shells :
          /\ Stage(h) = "unused"
          /\ shell' = [Closed(s) EXCEPT ![h] = [socket |-> s, stage |-> "connecting", attempt |-> 1]]
          /\ left' = left \cup Overtaken(s, h)
    BY <1>2 DEF Start
  <2> DEFINE begun == [socket |-> s, stage |-> "connecting", attempt |-> 1]
  <2>2. begun \in ShellRecord /\ begun.socket = s /\ begun.stage = "connecting"
    BY DEF ShellRecord
  <2>3. shell' = [Closed(s) EXCEPT ![h] = begun]
    BY <2>1
  <2> HIDE DEF begun
  <2>4. /\ shell' \in [Shells -> ShellRecord]
        /\ shell'[h] = begun
        /\ \A k \in Shells \ {h} : shell'[k] = Closed(s)[k]
    BY <2>2, <2>3, ClosedOne
  <2>5. /\ socket' = socket /\ socket[s] = "here"
        /\ session' \in [Sockets -> Shells \cup {NoShell}]
        /\ session'[s] = NoShell
        /\ \A t \in Sockets \ {s} : session'[t] = session[t]
    BY <1>2 DEF Start, Tables
  <2>6. Tables'
    BY <2>4, <2>5 DEF Tables
  <2>7. HasSocket'
    <3> SUFFICES ASSUME NEW k \in Shells, shell'[k].stage # "unused"
                 PROVE  shell'[k].socket \in Sockets /\ socket'[shell'[k].socket] # "new"
      BY DEF HasSocket
    <3>1. CASE k = h
      BY <2>2, <2>4, <2>5, <3>1
    <3>2. CASE k # h
      <4>1. shell'[k].socket = shell[k].socket
        BY <2>4, <3>2, ClosedOne
      <4>2. shell[k].stage # "unused"
        <5>1. CASE session[s] = k
          BY <5>1, TerminalAssumption DEF NamesItsOwn
        <5>2. CASE session[s] # k
          BY <2>4, <3>2, <5>2, ClosedOne
        <5> QED
          BY <5>1, <5>2
      <4> QED
        BY <2>5, <4>1, <4>2 DEF HasSocket
    <3> QED
      BY <3>1, <3>2
  <2>8. left \subseteq left' /\ \A k \in Shells \ {h} : UnderWay(k) /\ shell[k].socket = s => {k, h} \subseteq left'
    BY <2>1 DEF Overtaken, Of
  <2>9. \A k \in Shells \ {h} : UnderWay(k)' => UnderWay(k) /\ shell'[k].socket = shell[k].socket
    BY <2>4, ClosedOne DEF Tables
  <2>10. StartsAlone'
    <3> SUFFICES ASSUME NEW k \in Shells, UnderWay(k)'
                 PROVE  /\ session'[shell'[k].socket] # NoShell
                            => {k, session'[shell'[k].socket]} \subseteq left'
                        /\ \A j \in Shells \ {k} :
                            UnderWay(j)' /\ shell'[j].socket = shell'[k].socket => k \in left'
      BY DEF StartsAlone
    <3>2. CASE k = h
      <4>1. shell'[k].socket = s
        BY <2>2, <2>4, <3>2
      <4>2. ASSUME NEW j \in Shells \ {k}, UnderWay(j)', shell'[j].socket = s PROVE k \in left'
        BY <2>8, <2>9, <3>2, <4>2
      <4> QED
        BY <2>5, <4>1, <4>2
    <3>3. CASE k # h
      <4>1. UnderWay(k) /\ shell'[k].socket = shell[k].socket
        BY <2>9, <3>3
      <4>2. CASE shell[k].socket = s
        <5>1. k \in left'
          BY <2>8, <3>3, <4>1, <4>2
        <5> QED
          BY <2>5, <4>1, <4>2, <5>1
      <4>3. CASE shell[k].socket # s
        <5>1. shell[k].socket \in Sockets /\ session'[shell[k].socket] = session[shell[k].socket]
          BY <2>5, <4>1, <4>3 DEF HasSocket
        <5>2. ASSUME NEW j \in Shells \ {k}, UnderWay(j)', shell'[j].socket = shell'[k].socket
              PROVE k \in left'
          <6>1. j # h
            BY <2>2, <2>4, <4>1, <4>3, <5>2
          <6> QED
            BY <2>8, <2>9, <4>1, <5>2, <6>1 DEF StartsAlone
        <5> QED
          BY <2>8, <4>1, <5>1, <5>2 DEF StartsAlone
      <4> QED
        BY <4>2, <4>3
    <3> QED
      BY <3>2, <3>3
  <2>11. ShellsEndWithSocket'
    <3> SUFFICES ASSUME NEW k \in Shells, k \notin left', shell'[k].stage \in {"open", "hanging"}
                 PROVE  socket'[shell'[k].socket] = "here" /\ session'[shell'[k].socket] = k
      BY DEF ShellsEndWithSocket
    <3>1. k # h /\ k \notin left
      BY <2>2, <2>4, <2>8
    <3>2. shell[k].stage \in {"open", "hanging"} /\ shell'[k].socket = shell[k].socket
      BY <2>4, <3>1, ClosedOne DEF Tables
    <3>3. socket[shell[k].socket] = "here" /\ session[shell[k].socket] = k /\ shell[k].socket \in Sockets
      BY <3>1, <3>2 DEF ShellsEndWithSocket, HasSocket
    <3>4. shell[k].socket # s
      <4> SUFFICES ASSUME shell[k].socket = s PROVE FALSE
        OBVIOUS
      <4>1. session[s] = k
        BY <3>3
      <4> QED
        BY <2>4, <3>1, <3>2, <4>1, ClosedOne, TerminalAssumption
    <3> QED
      BY <2>5, <3>2, <3>3, <3>4
  <2>12. NamesItsOwn'
    <3> SUFFICES ASSUME NEW t \in Sockets, session'[t] # NoShell
                 PROVE  shell'[session'[t]].socket = t /\ shell'[session'[t]].stage # "unused"
      BY DEF NamesItsOwn
    <3>1. t # s /\ session'[t] = session[t]
      BY <2>5
    <3>2. session[t] \in Shells /\ shell[session[t]].socket = t /\ shell[session[t]].stage # "unused"
      BY <3>1 DEF NamesItsOwn, Tables
    <3>3. session[t] # h
      BY <2>1, <3>2
    <3> QED
      BY <2>4, <3>1, <3>2, <3>3, ClosedOne
  <2> QED
    BY <2>6, <2>7, <2>10, <2>11, <2>12
<1>3. ASSUME NEW h \in Shells, Connected(h) PROVE ShellsInv'
  <2>1. /\ shell' \in [Shells -> ShellRecord]
        /\ \A k \in Shells : shell'[k].socket = shell[k].socket
        /\ \A k \in Shells \ {h} : shell'[k] = shell[k]
        /\ shell[h].stage = "connecting" /\ shell'[h].stage \in {"connecting", "connected", "closed"}
    <3> DEFINE next == {[shell[h] EXCEPT !.stage = "connected"], [shell[h] EXCEPT !.attempt = @ + 1],
                        [shell[h] EXCEPT !.stage = "closed"]}
    <3>1. \E r \in next : shell' = [shell EXCEPT ![h] = r]
      BY <1>3 DEF Connected
    <3>2. shell[h].stage = "connecting"
      BY <1>3 DEF Connected
    <3>3. \A r \in next : /\ r \in ShellRecord /\ r.socket = shell[h].socket
                          /\ r.stage \in {"connecting", "connected", "closed"}
      BY <3>2 DEF Tables, ShellRecord
    <3> HIDE DEF next
    <3> QED
      BY <3>1, <3>2, <3>3 DEF Tables
  <2>2. socket' = socket /\ session' = session /\ left' = left
    BY <1>3 DEF Connected
  <2>3. Tables' /\ HasSocket'
    BY <2>1, <2>2 DEF Tables, HasSocket
  <2>4. NamesItsOwn'
    BY <2>1, <2>2 DEF Tables, NamesItsOwn
  <2>5. StartsAlone'
    BY <2>1, <2>2 DEF StartsAlone
  <2>6. ShellsEndWithSocket'
    BY <2>1, <2>2 DEF ShellsEndWithSocket
  <2> QED
    BY <2>3, <2>4, <2>5, <2>6
<1>4. ASSUME NEW h \in Shells, ShellOpens(h) PROVE ShellsInv'
  <2> DEFINE s == shell[h].socket
  <2>1. shell[h].stage = "connected" /\ s \in Sockets /\ socket[s] \in {"here", "gone"}
    BY <1>4 DEF ShellOpens, HasSocket, Tables
  <2>2. /\ shell' \in [Shells -> ShellRecord]
        /\ \A k \in Shells : shell'[k].socket = shell[k].socket
        /\ \A k \in Shells \ {h} : shell'[k] = shell[k]
        /\ shell'[h].stage = "open"
    <3> DEFINE open == [shell[h] EXCEPT !.stage = "open"]
    <3>1. open \in ShellRecord /\ open.socket = shell[h].socket /\ open.stage = "open"
      BY DEF Tables, ShellRecord
    <3>2. shell' = [shell EXCEPT ![h] = open]
      BY <1>4 DEF ShellOpens
    <3> HIDE DEF open
    <3> QED
      BY <3>1, <3>2 DEF Tables
  <2>3. /\ socket' = socket
        /\ session' \in [Sockets -> Shells \cup {NoShell}]
        /\ session'[s] = h
        /\ \A t \in Sockets \ {s} : session'[t] = session[t]
        /\ left \subseteq left' /\ (socket[s] = "gone" => h \in left')
    BY <1>4, <2>1 DEF ShellOpens, Tables
  <2> HIDE DEF s
  <2>4. shell[h].socket = s
    BY DEF s
  <2>5. Tables' /\ HasSocket'
    BY <2>1, <2>2, <2>3 DEF Tables, HasSocket
  <2>6. NamesItsOwn'
    BY <2>1, <2>2, <2>3, <2>4 DEF Tables, NamesItsOwn
  <2>7. StartsAlone'
    BY <2>1, <2>2, <2>3, <2>4 DEF StartsAlone, HasSocket
  <2>8. ShellsEndWithSocket'
    <3> SUFFICES ASSUME NEW k \in Shells, k \notin left', shell'[k].stage \in {"open", "hanging"}
                 PROVE  socket'[shell'[k].socket] = "here" /\ session'[shell'[k].socket] = k
      BY DEF ShellsEndWithSocket
    <3>1. CASE k = h
      BY <2>1, <2>2, <2>3, <2>4, <3>1
    <3>2. CASE k # h
      <4>1. /\ socket[shell[k].socket] = "here" /\ session[shell[k].socket] = k
            /\ shell[k].socket \in Sockets /\ k \notin left /\ shell'[k] = shell[k]
        BY <2>2, <2>3, <3>2 DEF ShellsEndWithSocket, HasSocket
      <4>2. shell[k].socket # s
        <5> SUFFICES ASSUME shell[k].socket = s PROVE FALSE
          OBVIOUS
        <5> QED
          BY <2>1, <2>4, <4>1, TerminalAssumption DEF StartsAlone
      <4> QED
        BY <2>3, <4>1, <4>2
    <3> QED
      BY <3>1, <3>2
  <2> QED
    BY <2>5, <2>6, <2>7, <2>8
<1>5. ASSUME NEW h \in Shells, ShellRefused(h) PROVE ShellsInv'
  <2>1. /\ shell' \in [Shells -> ShellRecord]
        /\ \A k \in Shells : shell'[k].socket = shell[k].socket
        /\ \A k \in Shells \ {h} : shell'[k] = shell[k]
        /\ shell[h].stage = "connected" /\ shell'[h].stage = "hanging"
    <3> DEFINE hanging == [shell[h] EXCEPT !.stage = "hanging"]
    <3>1. hanging \in ShellRecord /\ hanging.socket = shell[h].socket /\ hanging.stage = "hanging"
      BY DEF Tables, ShellRecord
    <3>2. shell' = [shell EXCEPT ![h] = hanging] /\ shell[h].stage = "connected"
      BY <1>5 DEF ShellRefused
    <3> HIDE DEF hanging
    <3> QED
      BY <3>1, <3>2 DEF Tables
  <2>2. socket' = socket /\ session' = session /\ left' = left \cup {h}
    BY <1>5 DEF ShellRefused
  <2>3. Tables' /\ HasSocket'
    BY <2>1, <2>2 DEF Tables, HasSocket
  <2>4. NamesItsOwn'
    BY <2>1, <2>2 DEF Tables, NamesItsOwn
  <2>5. StartsAlone'
    BY <2>1, <2>2 DEF StartsAlone
  <2>6. ShellsEndWithSocket'
    BY <2>1, <2>2 DEF ShellsEndWithSocket
  <2> QED
    BY <2>3, <2>4, <2>5, <2>6
<1>6. ASSUME NEW s \in Sockets, socket' \in [Sockets -> {"new", "here", "gone"}], left' = left,
             \A t \in Sockets : socket[t] # "new" => socket'[t] # "new",
             \A t \in Sockets \ {s} : socket'[t] = socket[t],
             session' = [session EXCEPT ![s] = NoShell],
             shell' \in [Shells -> ShellRecord],
             \A k \in Shells : /\ shell'[k].socket = shell[k].socket
                               /\ UnderWay(k)' => UnderWay(k)
                               /\ shell'[k].stage = "unused" <=> shell[k].stage = "unused",
             \A k \in Shells \ left : shell'[k].stage \in {"open", "hanging"} =>
                shell[k].stage \in {"open", "hanging"} /\ shell[k].socket # s
      PROVE  ShellsInv'
  <2>1. /\ session' \in [Sockets -> Shells \cup {NoShell}]
        /\ session'[s] = NoShell
        /\ \A t \in Sockets \ {s} : session'[t] = session[t]
    BY <1>6 DEF Tables
  <2>2. Tables' /\ HasSocket'
    BY <1>6, <2>1 DEF Tables, HasSocket
  <2>3. NamesItsOwn'
    BY <1>6, <2>1 DEF Tables, NamesItsOwn
  <2>4. StartsAlone'
    BY <1>6, <2>1 DEF StartsAlone, HasSocket
  <2>5. ShellsEndWithSocket'
    BY <1>6, <2>1 DEF ShellsEndWithSocket, HasSocket
  <2> QED
    BY <2>2, <2>3, <2>4, <2>5
<1>7. ASSUME NEW h \in Shells, ChannelCloses(h) PROVE ShellsInv'
  <2> DEFINE s == shell[h].socket
  <2>1. shell[h].stage \in {"open", "ending"} /\ s \in Sockets /\ h \in Shells
    BY <1>7 DEF ChannelCloses, HasSocket
  <2> DEFINE ends == IF shell[h].stage = "open" /\ session[s] # h THEN "hanging" ELSE "closed"
             ended == [Closed(s)[h] EXCEPT !.stage = ends]
  <2>2. shell' = [Closed(s) EXCEPT ![h] = ended]
    BY <1>7 DEF ChannelCloses
  <2>3. ended \in ShellRecord /\ ended.socket = s /\ ended.stage = ends
    BY <2>1, ClosedOne DEF ShellRecord
  <2>4. socket' = socket /\ left' = left /\ session' = [session EXCEPT ![s] = NoShell]
    BY <1>7 DEF ChannelCloses
  <2>5. h \notin left => ends = "closed"
    BY <2>1 DEF ShellsEndWithSocket
  <2>6. ends \in {"closed", "hanging"}
    OBVIOUS
  <2> HIDE DEF ended, ends
  <2>7. shell[h].socket = s
    OBVIOUS
  <2> HIDE DEF s
  <2>8. /\ shell' \in [Shells -> ShellRecord]
        /\ shell'[h] = ended
        /\ \A k \in Shells \ {h} : shell'[k] = Closed(s)[k]
    BY <2>1, <2>2, <2>3, ClosedOne
  <2>9. \A k \in Shells : /\ shell'[k].socket = shell[k].socket
                          /\ UnderWay(k)' => UnderWay(k)
    BY <2>1, <2>3, <2>6, <2>7, <2>8, ClosedOne
  <2>10. \A k \in Shells : shell'[k].stage = "unused" <=> shell[k].stage = "unused"
    BY <2>1, <2>3, <2>6, <2>8, ClosedOne, TerminalAssumption DEF NamesItsOwn
  <2>11. ASSUME NEW k \in Shells \ left, shell'[k].stage \in {"open", "hanging"}
         PROVE  shell[k].stage \in {"open", "hanging"} /\ shell[k].socket # s
    <3>1. k # h
      BY <2>3, <2>5, <2>8, <2>11
    <3>2. shell[k].stage \in {"open", "hanging"} /\ session[s] # k
      BY <2>1, <2>8, <2>11, <3>1, ClosedOne, TerminalAssumption
    <3> QED
      BY <3>2 DEF ShellsEndWithSocket
  <2> QED
    BY <1>6, <2>1, <2>4, <2>8, <2>9, <2>10, <2>11 DEF Tables
<1>8. ASSUME NEW s \in Sockets, Disconnects(s) PROVE ShellsInv'
  <2>1. /\ socket' = [socket EXCEPT ![s] = "gone"] /\ left' = left /\ shell' = Closed(s)
        /\ session' = [session EXCEPT ![s] = NoShell]
    BY <1>8 DEF Disconnects
  <2>2. /\ shell' \in [Shells -> ShellRecord]
        /\ \A k \in Shells : shell'[k].socket = shell[k].socket /\ (UnderWay(k)' => UnderWay(k))
    BY <2>1, ClosedOne
  <2>3. \A k \in Shells : shell'[k].stage = "unused" <=> shell[k].stage = "unused"
    BY <2>1, ClosedOne, TerminalAssumption DEF NamesItsOwn
  <2>4. ASSUME NEW k \in Shells \ left, shell'[k].stage \in {"open", "hanging"}
        PROVE  shell[k].stage \in {"open", "hanging"} /\ shell[k].socket # s
    <3>1. shell[k].stage \in {"open", "hanging"} /\ session[s] # k
      BY <2>1, <2>4, ClosedOne, TerminalAssumption
    <3> QED
      BY <3>1 DEF ShellsEndWithSocket
  <2>5. /\ socket' \in [Sockets -> {"new", "here", "gone"}]
        /\ \A t \in Sockets : socket[t] # "new" => socket'[t] # "new"
        /\ \A t \in Sockets \ {s} : socket'[t] = socket[t]
    BY <2>1 DEF Tables
  <2> QED
    BY <1>6, <2>1, <2>2, <2>3, <2>4, <2>5
<1>9. CASE UNCHANGED terminalVars
  BY <1>9 DEF terminalVars, Tables, HasSocket, NamesItsOwn, StartsAlone, ShellsEndWithSocket
<1> QED
  BY <1>1, <1>2, <1>3, <1>4, <1>5, <1>7, <1>8, <1>9 DEF TerminalNext

(***************************************************************************)
(* A connection with a shell ends with its socket and with its entry in    *)
(* the table, except those that are left over (the comments on connect and *)
(* on sessions), whatever starts, refusals and reconnections there were.   *)
(***************************************************************************)
THEOREM ShellsEnd == TerminalSpec => []ShellsEndWithSocket
<1>1. ShellsInv => ShellsEndWithSocket
  BY DEF ShellsInv
<1> QED
  BY <1>1, ShellsStart, ShellsContinue, PTL DEF TerminalSpec

LEMMA TypeOfShellsContinues ==
    ShellsInv /\ TerminalTypeOK /\ [TerminalNext]_terminalVars => TerminalTypeOK'
<1> SUFFICES ASSUME ShellsInv, TerminalTypeOK, [TerminalNext]_terminalVars PROVE TerminalTypeOK'
  OBVIOUS
<1>0. ShellsInv' /\ Tables /\ Tables'
  BY ShellsContinue DEF ShellsInv
<1>1. \A h \in Shells : shell[h].attempt \in 0 .. Attempts /\ left \subseteq Shells
  BY DEF TerminalTypeOK
<1> SUFFICES (\A h \in Shells : shell'[h].attempt \in 0 .. Attempts) /\ left' \subseteq Shells
  BY <1>0 DEF Tables, ShellRecord, TerminalTypeOK
<1>2. ASSUME NEW s \in Sockets, Connects(s)
      PROVE (\A h \in Shells : shell'[h].attempt \in 0 .. Attempts) /\ left' \subseteq Shells
  BY <1>1, <1>2 DEF Connects, TerminalTypeOK
<1>3. \A s \in Sockets : \A h \in Shells : Closed(s)[h].attempt = shell[h].attempt
  BY <1>0 DEF Closed, Tables, ShellRecord
<1>4. ASSUME NEW s \in Sockets, Start(s)
      PROVE (\A h \in Shells : shell'[h].attempt \in 0 .. Attempts) /\ left' \subseteq Shells
  <2>1. PICK h \in Shells :
          /\ shell' = [Closed(s) EXCEPT ![h] = [socket |-> s, stage |-> "connecting", attempt |-> 1]]
          /\ left' = left \cup Overtaken(s, h)
    BY <1>4 DEF Start
  <2>2. left' \subseteq Shells
    BY <1>1, <2>1 DEF Overtaken, Of, TerminalTypeOK
  <2>3. 1 \in 0 .. Attempts
    BY TerminalAssumption
  <2>4. \A k \in Shells \ {h} : shell'[k].attempt = shell[k].attempt
    BY <1>0, <1>3, <2>1 DEF Closed, Tables
  <2>5. shell'[h].attempt = 1
    BY <1>0, <2>1 DEF Closed, Tables
  <2> QED
    BY <1>1, <2>2, <2>3, <2>4, <2>5
<1>5. ASSUME NEW s \in Sockets, Disconnects(s)
      PROVE (\A h \in Shells : shell'[h].attempt \in 0 .. Attempts) /\ left' \subseteq Shells
  BY <1>1, <1>3, <1>5 DEF Disconnects, TerminalTypeOK
<1>6. ASSUME NEW h \in Shells, Connected(h)
      PROVE (\A k \in Shells : shell'[k].attempt \in 0 .. Attempts) /\ left' \subseteq Shells
  <2>1. left' = left
    BY <1>6 DEF Connected
  <2>2. CASE shell' = [shell EXCEPT ![h].stage = "connected"] \/ shell' = [shell EXCEPT ![h].stage = "closed"]
    BY <1>0, <1>1, <2>1, <2>2 DEF Tables, ShellRecord, TerminalTypeOK
  <2>3. CASE shell[h].attempt < Attempts /\ shell' = [shell EXCEPT ![h].attempt = @ + 1]
    <3>1. shell'[h].attempt = shell[h].attempt + 1 /\ \A k \in Shells \ {h} : shell'[k] = shell[k]
      BY <1>0, <2>3 DEF Tables, ShellRecord
    <3>2. shell[h].attempt + 1 \in 0 .. Attempts
      BY <1>1, <2>3, TerminalAssumption
    <3> QED
      BY <1>1, <2>1, <3>1, <3>2 DEF TerminalTypeOK
  <2> QED
    BY <1>6, <2>2, <2>3 DEF Connected
<1>7. ASSUME NEW h \in Shells, ShellOpens(h) \/ ShellRefused(h)
      PROVE (\A k \in Shells : shell'[k].attempt \in 0 .. Attempts) /\ left' \subseteq Shells
  <2>1. left' \subseteq left \cup {h}
    BY <1>7 DEF ShellOpens, ShellRefused
  <2>2. \A k \in Shells : shell'[k].attempt = shell[k].attempt
    BY <1>0, <1>7 DEF ShellOpens, ShellRefused, Tables, ShellRecord
  <2> QED
    BY <1>1, <2>1, <2>2 DEF TerminalTypeOK
<1>8. ASSUME NEW h \in Shells, ChannelCloses(h)
      PROVE (\A k \in Shells : shell'[k].attempt \in 0 .. Attempts) /\ left' \subseteq Shells
  <2>1. PICK stage : shell' = [Closed(shell[h].socket) EXCEPT ![h].stage = stage]
    BY <1>8 DEF ChannelCloses
  <2>2. shell[h].socket \in Sockets
    BY <1>8 DEF ChannelCloses, ShellsInv, HasSocket
  <2>3. \A k \in Shells : Closed(shell[h].socket)[k].attempt = shell[k].attempt
    BY <1>3, <2>2
  <2>4. \A k \in Shells : shell'[k].attempt = shell[k].attempt
    BY ZenonT(40), <1>0, <2>1, <2>3 DEF Closed, Tables, ShellRecord
  <2> QED
    BY <1>1, <1>8, <2>4 DEF ChannelCloses, TerminalTypeOK
<1>9. CASE UNCHANGED terminalVars
  BY <1>1, <1>9 DEF terminalVars, TerminalTypeOK
<1> QED
  BY <1>2, <1>4, <1>5, <1>6, <1>7, <1>8, <1>9 DEF TerminalNext

(***************************************************************************)
(* Sockets, connections and the table of sessions have their types; in     *)
(* particular connectWithRetry never makes more attempts than it may       *)
(* (terminal.gateway.ts, ssh.service.ts).                                  *)
(***************************************************************************)
THEOREM ShellsTyped == TerminalSpec => []TerminalTypeOK
<1>1. TerminalInit => TerminalTypeOK
  BY TerminalAssumption DEF TerminalInit, TerminalTypeOK, Unused
<1> QED
  BY <1>1, ShellsStart, ShellsContinue, TypeOfShellsContinues, PTL DEF TerminalSpec

=============================================================================

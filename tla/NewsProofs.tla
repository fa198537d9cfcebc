----------------------------- MODULE NewsProofs -----------------------------
(***************************************************************************)
(* What reaches those who look: the messages of a broadcast in the chats   *)
(* (TelegramMail), the configs that the bot and the portal issue           *)
(* (TelegramDesk) and the state of the panel on the open page (PageData),  *)
(* for any numbers of chats, broadcasts, issues, calls, edits and failures.*)
(***************************************************************************)
EXTENDS TelegramMail, TelegramDesk, PageData, FiniteSetTheorems, TLAPS

-----------------------------------------------------------------------------
(* TelegramMail: broadcasts can be taken back.                             *)

Chat == [messages : SUBSET Mails, pinned : SUBSET Mails]
Sending == [stage : {"new", "sending", "ended"}, pin : BOOLEAN,
            todo : SUBSET Chats, deliveries : SUBSET Chats]
Removing == [mail : Mails \cup {NoMail}, todo : SUBSET Chats, refused : SUBSET Chats]

MailTables ==
    /\ inbox \in [Chats -> Chat]
    /\ sending \in [Mails -> Sending]
    /\ approved \subseteq Chats
    /\ DOMAIN broadcasts \subseteq Mails
    /\ broadcasts = [m \in DOMAIN broadcasts |-> broadcasts[m]]
    /\ \A m \in DOMAIN broadcasts : broadcasts[m] \subseteq Chats
    /\ removing \in [Removers -> Removing]
    /\ stranded \subseteq Chats \X Mails

\* A row is written when its broadcast has ended, and it is not sent again.
RowsAreOfEnded ==
    /\ \A m \in DOMAIN broadcasts : sending[m].stage = "ended"
    /\ \A m \in Mails : sending[m].stage = "new" => sending[m].deliveries = {}

\* What a call that deletes a broadcast has behind it is gone from the chats, or it
\* knows that Telegram refused.
RemovalKnows ==
    \A r \in Removers : removing[r].mail # NoMail =>
        /\ sending[removing[r].mail].stage = "ended"
        /\ removing[r].mail \in DOMAIN broadcasts =>
            \A c \in broadcasts[removing[r].mail] :
                removing[r].mail \in inbox[c].messages => c \in removing[r].todo \cup removing[r].refused

MailInv == MailTables /\ RowsAreOfEnded /\ RemovalKnows /\ MessagesCanBeTakenBack

LEMMA MailStarts == MailInit => MailInv
<1> SUFFICES ASSUME MailInit PROVE MailInv
  OBVIOUS
<1>1. NotSending \in Sending
  BY DEF NotSending, Sending
<1>2. NotRemoving \in Removing
      /\ NotRemoving.mail = NoMail
  BY DEF NotRemoving, Removing
<1>3. DOMAIN broadcasts = {}
  BY DEF MailInit
<1>4. MailTables
  BY <1>1, <1>2, <1>3 DEF MailInit, MailTables, Sending, Chat, Removing
<1>5. RowsAreOfEnded /\ RemovalKnows /\ MessagesCanBeTakenBack
  BY <1>2, <1>3 DEF MailInit, NotSending, RowsAreOfEnded, RemovalKnows, MessagesCanBeTakenBack
<1> QED
  BY <1>4, <1>5 DEF MailInv

LEMMA MailContinues == MailInv /\ [MailNext]_mailVars => MailInv'
<1> SUFFICES ASSUME MailInv, [MailNext]_mailVars PROVE MailInv'
  OBVIOUS
<1> USE DEF MailInv
<1>1. ASSUME NEW c \in Chats, ChangeApproved(c) PROVE MailInv'
  BY <1>1 DEF ChangeApproved, MailTables, Sending, Chat, Removing, RowsAreOfEnded, RemovalKnows, MessagesCanBeTakenBack
<1>2. ASSUME NEW m \in Mails, SendNext(m) PROVE MailInv'
  <2>1. PICK c \in sending[m].todo, sent \in Outcomes, pin \in Outcomes :
          /\ Posted(c, m, sent, IF sending[m].pin THEN pin ELSE "refused")
          /\ sending' = [sending EXCEPT ![m] =
                [sending[m] EXCEPT !.todo = @ \ {c},
                                   !.deliveries = IF Recorded(sent, pin) THEN @ \cup {c} ELSE @]]
          /\ stranded' = IF sent = "unanswered" THEN stranded \cup {<<c, m>>} ELSE stranded
    BY <1>2 DEF SendNext, Outcomes
  <2>2. c \in Chats /\ sending[m].stage = "sending"
    BY <1>2 DEF SendNext, MailTables, Sending, Chat, Removing
  <2>3. m \notin DOMAIN broadcasts /\ \A r \in Removers : removing[r].mail # m
    BY <2>2, MailAssumption DEF RowsAreOfEnded, RemovalKnows, MailTables, Sending, Chat, Removing
  <2>4. /\ inbox' \in [Chats -> Chat]
        /\ \A d \in Chats : inbox'[d].messages \subseteq
                inbox[d].messages \cup (IF d = c /\ sent # "refused" THEN {m} ELSE {})
    BY <2>1, <2>2 DEF Posted, MailTables, Sending, Chat, Removing
  <2>5. /\ sending' \in [Mails -> Sending]
        /\ \A n \in Mails : /\ sending'[n].stage = sending[n].stage
                            /\ sending[n].deliveries \subseteq sending'[n].deliveries
                            /\ n # m => sending'[n] = sending[n]
        /\ sent = "answered" => c \in sending'[m].deliveries
    <3> DEFINE one == [sending[m] EXCEPT !.todo = @ \ {c},
                                        !.deliveries = IF Recorded(sent, pin) THEN @ \cup {c} ELSE @]
    <3>1. sending[m] \in Sending
      BY DEF MailTables, Sending, Chat, Removing
    <3>2. /\ one \in Sending /\ one.stage = sending[m].stage
          /\ sending[m].deliveries \subseteq one.deliveries
          /\ sent = "answered" => c \in one.deliveries
      BY <2>2, <3>1 DEF Sending, Recorded
    <3>3. sending' = [sending EXCEPT ![m] = one]
      BY <2>1
    <3> HIDE DEF one
    <3> QED
      BY <3>2, <3>3 DEF MailTables, Sending, Chat, Removing
  <2>6. UNCHANGED <<approved, broadcasts, removing>>
    BY <1>2 DEF SendNext
  <2>7. stranded \subseteq stranded' /\ stranded' \subseteq Chats \X Mails
        /\ (sent = "unanswered" => <<c, m>> \in stranded')
    BY <2>1, <2>2 DEF MailTables, Sending, Chat, Removing
  <2>8. MailTables'
    BY <2>4, <2>5, <2>6, <2>7 DEF MailTables, Sending, Chat, Removing
  <2>9. RowsAreOfEnded' /\ RemovalKnows'
    <3>1. RowsAreOfEnded'
      BY <2>2, <2>3, <2>5, <2>6 DEF MailTables, RowsAreOfEnded
    <3>2. ASSUME NEW r \in Removers, removing'[r].mail # NoMail
          PROVE  /\ sending'[removing'[r].mail].stage = "ended"
                 /\ removing'[r].mail \in DOMAIN broadcasts' =>
                     \A d \in broadcasts'[removing'[r].mail] :
                        removing'[r].mail \in inbox'[d].messages => d \in removing'[r].todo \cup removing'[r].refused
      <4>1. PICK k \in Mails : k = removing[r].mail /\ k # m
        BY <2>3, <2>6, <3>2 DEF MailTables, Removing
      <4>2. sending'[k].stage = "ended"
        BY <2>5, <2>6, <3>2, <4>1 DEF RemovalKnows
      <4>3. \A d \in Chats : k \in inbox'[d].messages => k \in inbox[d].messages
        BY <2>4, <4>1
      <4> QED
        BY <2>6, <3>2, <4>1, <4>2, <4>3 DEF RemovalKnows, MailTables
    <3> QED
      BY <3>1, <3>2 DEF RemovalKnows
  <2>10. MessagesCanBeTakenBack'
    <3> SUFFICES ASSUME NEW d \in Chats, NEW k \in inbox'[d].messages
                 PROVE  \/ <<d, k>> \in stranded'
                        \/ d \in sending'[k].deliveries
                        \/ k \in DOMAIN broadcasts /\ d \in broadcasts[k]
      BY <2>6 DEF MessagesCanBeTakenBack
    <3>1. CASE k \in inbox[d].messages
      BY <2>5, <2>7, <3>1 DEF MailTables, Sending, Chat, Removing, MessagesCanBeTakenBack
    <3>2. CASE k \notin inbox[d].messages
      BY <2>4, <2>5, <2>7, <3>2 DEF Outcomes
    <3> QED
      BY <3>1, <3>2
  <2> QED
    BY <2>8, <2>9, <2>10
<1>3. ASSUME NEW m \in Mails, SaveBroadcast(m) PROVE MailInv'
  <2>1. /\ UNCHANGED <<approved, inbox, removing, stranded>>
        /\ sending[m].stage = "sending"
        /\ broadcasts' = [k \in DOMAIN broadcasts \cup {m} |->
                            IF k = m THEN sending[m].deliveries ELSE broadcasts[k]]
        /\ sending' = [sending EXCEPT ![m] = [NotSending EXCEPT !.stage = "ended"]]
    BY <1>3 DEF SaveBroadcast
  <2>2. \A r \in Removers : removing[r].mail # m
    BY <2>1, MailAssumption DEF RemovalKnows, MailTables, Sending, Chat, Removing
  <2>3. /\ sending' \in [Mails -> Sending]
        /\ sending'[m].stage = "ended"
        /\ \A n \in Mails \ {m} : sending'[n] = sending[n]
    BY <2>1 DEF MailTables, Sending, Chat, Removing, NotSending
  <2>4. /\ DOMAIN broadcasts' = DOMAIN broadcasts \cup {m}
        /\ broadcasts'[m] = sending[m].deliveries
        /\ \A k \in DOMAIN broadcasts \ {m} : broadcasts'[k] = broadcasts[k]
    BY <2>1
  <2>a. sending[m].deliveries \subseteq Chats
    BY DEF MailTables, Sending
  <2>5. MailTables'
    BY <2>1, <2>3, <2>4, <2>a DEF MailTables
  <2>6. RowsAreOfEnded' /\ RemovalKnows' /\ MessagesCanBeTakenBack'
    BY <2>1, <2>2, <2>3, <2>4 DEF MailTables, Sending, Chat, Removing, RowsAreOfEnded, RemovalKnows, MessagesCanBeTakenBack
  <2> QED
    BY <2>5, <2>6
<1>4. ASSUME NEW m \in Mails, NEW pin \in BOOLEAN, BeginBroadcast(m, pin) PROVE MailInv'
  <2>1. /\ UNCHANGED <<approved, inbox, broadcasts, removing, stranded>>
        /\ sending[m].stage = "new"
        /\ sending' = [sending EXCEPT ![m] =
                        [stage |-> "sending", pin |-> pin, todo |-> approved, deliveries |-> {}]]
    BY <1>4 DEF BeginBroadcast
  <2>2. sending[m].deliveries = {}
    BY <2>1 DEF RowsAreOfEnded
  <2> QED
    BY <2>1, <2>2 DEF MailTables, Sending, Chat, Removing, RowsAreOfEnded, RemovalKnows, MessagesCanBeTakenBack
<1>5. ASSUME NEW m \in Mails, NEW r \in Removers, BeginRemoval(r, m) PROVE MailInv'
  <2>1. /\ UNCHANGED <<approved, inbox, sending, broadcasts, stranded>>
        /\ m \in DOMAIN broadcasts
        /\ removing' = [removing EXCEPT ![r] = [mail |-> m, todo |-> broadcasts[m], refused |-> {}]]
    BY <1>5 DEF BeginRemoval
  <2> QED
    BY <2>1 DEF MailTables, Sending, Chat, Removing, RowsAreOfEnded, RemovalKnows, MessagesCanBeTakenBack
<1>6. ASSUME NEW r \in Removers, DeleteNext(r) PROVE MailInv'
  <2>1. PICK c \in removing[r].todo, outcome \in Outcomes :
          /\ Deleted(c, removing[r].mail, outcome)
          /\ removing' = [removing EXCEPT ![r].todo = @ \ {c},
                                          ![r].refused = IF outcome = "refused" THEN @ \cup {c} ELSE @]
    BY <1>6 DEF DeleteNext
  <2>2. UNCHANGED <<approved, sending, broadcasts, stranded>>
    BY <1>6 DEF DeleteNext
  <2>3. c \in Chats
    BY DEF MailTables, Sending, Chat, Removing
  <2>4. /\ inbox' \in [Chats -> Chat]
        /\ \A d \in Chats : inbox'[d].messages \subseteq inbox[d].messages
        /\ outcome # "refused" => removing[r].mail \notin inbox'[c].messages
    <3>1. CASE outcome = "refused"
      BY <2>1, <3>1 DEF Deleted, MailTables, Sending, Chat, Removing
    <3>2. CASE outcome # "refused"
      <4> DEFINE one == [messages |-> inbox[c].messages \ {removing[r].mail},
                         pinned |-> inbox[c].pinned \ {removing[r].mail}]
      <4>1. inbox[c] \in Chat
        BY <2>3 DEF MailTables, Sending, Chat, Removing
      <4>2. one \in Chat /\ one.messages = inbox[c].messages \ {removing[r].mail}
        BY <4>1 DEF Chat
      <4>3. inbox' = [inbox EXCEPT ![c] = one]
        BY <2>1, <3>2 DEF Deleted
      <4> HIDE DEF one
      <4> QED
        BY <2>3, <4>2, <4>3 DEF MailTables, Sending, Chat, Removing
    <3> QED
      BY <3>1, <3>2
  <2>5. /\ removing' \in [Removers -> Removing]
        /\ \A q \in Removers : /\ removing'[q].mail = removing[q].mail
                               /\ q # r => removing'[q] = removing[q]
        /\ removing'[r].todo = removing[r].todo \ {c}
        /\ removing'[r].refused = IF outcome = "refused" THEN removing[r].refused \cup {c}
                                                         ELSE removing[r].refused
    BY ZenonT(40), <2>1, <2>3 DEF MailTables, Sending, Chat, Removing
  <2>6. MailTables'
    BY <2>2, <2>4, <2>5 DEF MailTables, Sending, Chat, Removing
  <2>7. RowsAreOfEnded' /\ MessagesCanBeTakenBack'
    BY <2>2, <2>4 DEF MailTables, Sending, Chat, Removing, RowsAreOfEnded, MessagesCanBeTakenBack
  <2>8. RemovalKnows'
    BY <2>1, <2>2, <2>4, <2>5 DEF MailTables, Sending, Chat, Removing, RemovalKnows
  <2> QED
    BY <2>6, <2>7, <2>8
<1>7. ASSUME NEW r \in Removers, RemoveBroadcast(r) PROVE MailInv'
  <2> DEFINE m == removing[r].mail
  <2>1. /\ UNCHANGED <<approved, inbox, sending>>
        /\ m # NoMail /\ removing[r].todo = {}
        /\ broadcasts' = [k \in DOMAIN broadcasts \ {m} |-> broadcasts[k]]
        /\ stranded' = stranded \cup (removing[r].refused \X {m})
        /\ removing' = [removing EXCEPT ![r] = NotRemoving]
    BY <1>7 DEF RemoveBroadcast, Restrict
  <2>2. m \in Mails
    BY <2>1 DEF MailTables, Sending, Chat, Removing
  <2>3. /\ removing' \in [Removers -> Removing]
        /\ removing'[r].mail = NoMail
        /\ \A q \in Removers \ {r} : removing'[q] = removing[q]
    BY <2>1 DEF MailTables, Sending, Chat, Removing, NotRemoving
  <2>4. /\ DOMAIN broadcasts' = DOMAIN broadcasts \ {m}
        /\ \A k \in DOMAIN broadcasts' : broadcasts'[k] = broadcasts[k]
    BY <2>1
  <2>5. /\ stranded \subseteq stranded' /\ stranded' \subseteq Chats \X Mails
        /\ \A c \in removing[r].refused : <<c, m>> \in stranded'
    BY <2>1, <2>2 DEF MailTables, Sending, Chat, Removing
  <2>6. MailTables'
    BY <2>1, <2>3, <2>4, <2>5 DEF MailTables, Sending, Chat, Removing
  <2>7. RowsAreOfEnded'
    BY <2>1, <2>4 DEF RowsAreOfEnded
  <2>8. RemovalKnows'
    BY <2>1, <2>3, <2>4 DEF RemovalKnows
  <2>9. MessagesCanBeTakenBack'
    <3> SUFFICES ASSUME NEW c \in Chats, NEW k \in inbox[c].messages
                 PROVE  \/ <<c, k>> \in stranded'
                        \/ c \in sending[k].deliveries
                        \/ k \in DOMAIN broadcasts' /\ c \in broadcasts'[k]
      BY <2>1 DEF MessagesCanBeTakenBack
    <3>1. CASE k = m
      BY <2>1, <2>5, <3>1 DEF MessagesCanBeTakenBack, RemovalKnows
    <3>2. CASE k # m
      BY <2>4, <2>5, <3>2 DEF MessagesCanBeTakenBack
    <3> QED
      BY <3>1, <3>2
  <2> QED
    BY <2>6, <2>7, <2>8, <2>9
<1>8. CASE MailRestart
  <2>1. /\ UNCHANGED <<approved, inbox, broadcasts>>
        /\ stranded' = stranded \cup UNION {sending[m].deliveries \X {m} : m \in Mails}
        /\ sending' = [m \in Mails |-> IF sending[m].stage = "new" THEN NotSending
                                       ELSE [NotSending EXCEPT !.stage = "ended"]]
        /\ removing' = [r \in Removers |-> NotRemoving]
    BY <1>8 DEF MailRestart
  <2>2. /\ sending' \in [Mails -> Sending]
        /\ \A m \in Mails : /\ sending[m].stage = "ended" => sending'[m].stage = "ended"
                            /\ sending'[m].deliveries = {}
    BY <2>1 DEF NotSending, MailTables, Sending, Chat, Removing
  <2>3. /\ removing' \in [Removers -> Removing]
        /\ \A r \in Removers : removing'[r].mail = NoMail
    BY <2>1 DEF NotRemoving, Removing
  <2>4. /\ stranded' \subseteq Chats \X Mails
        /\ stranded \subseteq stranded'
        /\ \A m \in Mails : \A c \in sending[m].deliveries : <<c, m>> \in stranded'
    BY <2>1 DEF MailTables, Sending, Chat, Removing
  <2>5. MailTables'
    BY <2>1, <2>2, <2>3, <2>4 DEF MailTables
  <2>6. RowsAreOfEnded' /\ RemovalKnows'
    BY <2>1, <2>2, <2>3 DEF MailTables, Sending, Chat, Removing, RowsAreOfEnded, RemovalKnows
  <2>7. MessagesCanBeTakenBack'
    BY <2>1, <2>4 DEF MailTables, Sending, Chat, Removing, MessagesCanBeTakenBack
  <2> QED
    BY <2>5, <2>6, <2>7
<1>9. CASE UNCHANGED mailVars
  BY <1>9 DEF mailVars, MailTables, Sending, Chat, Removing, RowsAreOfEnded, RemovalKnows, MessagesCanBeTakenBack
<1> QED
  BY <1>1, <1>2, <1>3, <1>4, <1>5, <1>6, <1>7, <1>8, <1>9 DEF MailNext

(***************************************************************************)
(* For any chats, broadcasts and calls that remove them: each message of a *)
(* broadcast that is in a chat has its delivery in a row or in the call    *)
(* that will save one, so that deleteBroadcast reaches it, but for the     *)
(* messages left over by an unanswered send, a restart or a refused        *)
(* deletion (broadcast and deleteBroadcast in telegram-                    *)
(* registrations.service.ts).                                              *)
(***************************************************************************)
THEOREM BroadcastsCanBeTakenBack == MailSpec => []MessagesCanBeTakenBack
<1>1. MailInit => MailInv
  BY MailStarts
<1>2. MailInv /\ [MailNext]_mailVars => MailInv'
  BY MailContinues
<1>3. MailInv => MessagesCanBeTakenBack
  BY DEF MailInv
<1> QED
  BY <1>1, <1>2, <1>3, PTL DEF MailSpec

-----------------------------------------------------------------------------
(* PageData: what the open page shows.                                     *)

FetchRecord == [stage : {"none", "asked", "read", "failed"}, version : Nat]

PageTables ==
    /\ table \in [Tables -> Nat] /\ told \in [Tables -> Nat] /\ news \in Nat
    /\ page \in Pages
    /\ cache \in [Queries -> Nat]
    /\ fetch \in [Queries -> FetchRecord] /\ behind \in SUBSET Queries

\* A call is one of the page, and saw what it changed.
CallOfPage ==
    /\ call = [stage |-> call.stage, edit |-> call.edit, saw |-> call.saw]
    /\ call.stage # "idle" => call.edit \in Page[page].does
    /\ call.stage = "saved" => \A t \in call.edit.writes : call.saw[t] \in Nat /\ call.saw[t] <= table[t]

\* A page is told of what has happened, and hears of switches if it shows bridges.
ToldWhatHappened ==
    /\ \A t \in Tables : told[t] <= table[t]
    /\ news <= table["bridges"]
    /\ news > 0 => page \in {"BridgePage", "BridgeCard"}

\* An answer on its way is not older than what the page knows either.
ReadIsShown ==
    \A q \in Shown : fetch[q].stage = "read" /\ <<page, q>> \notin Gaps /\ q \notin behind =>
        fetch[q].version >= told[Reads[q]]

PageInv == PageTables /\ CallOfPage /\ ToldWhatHappened /\ ReadIsShown /\ ToldIsShown

-----------------------------------------------------------------------------
(* What the pages are made of: on every page a call refreshes the queries  *)
(* that show what it writes, and an event the bridges, but for the gaps.   *)

LEMMA QueriesAreRead == \A q \in Queries : Reads[q] \in Tables
BY DEF Tables

LEMMA PagesShowQueries ==
    /\ "bridges" \in Tables
    /\ \A p \in Pages : Page[p].shows \subseteq Queries
BY DEF Pages, Page, Queries, Tables, Reads, Edit, PeersPage, ServersPage, ServerCard, BridgePage, BridgeCard,
       SettingsPage, TelegramBotPage, UsersPage, OrganizationsPage, ClientDetailPage, PortalPage, DashboardPage

LEMMA CallsRefreshWhatTheyWrite ==
    \A p \in Pages : \A e \in Page[p].does, q \in Page[p].shows :
        Reads[q] \in e.writes /\ <<p, q>> \notin Gaps => q \in e.refreshes
BY DEF Pages, Page, Reads, Edit, Gaps, PeersPage, ServersPage, ServerCard, BridgePage, BridgeCard,
       SettingsPage, TelegramBotPage, UsersPage, OrganizationsPage, ClientDetailPage, PortalPage, DashboardPage

LEMMA CallsWriteTables ==
    \A p \in Pages : \A e \in Page[p].does : e.writes \subseteq Tables
<1>1. {"peers", "organizations", "users", "servers", "mtproxy", "bridges", "settings", "release",
       "registrations", "news", "instructions", "broadcasts"} \subseteq Tables
  BY DEF Tables, Queries, Reads
<1> QED
  BY <1>1 DEF Pages, Page, Edit, PeersPage, ServersPage, ServerCard, BridgePage, BridgeCard,
       SettingsPage, TelegramBotPage, UsersPage, OrganizationsPage, ClientDetailPage, PortalPage, DashboardPage

LEMMA EventsRefreshBridges ==
    \A p \in {"BridgePage", "BridgeCard"} : \A q \in Page[p].shows :
        Reads[q] = "bridges" /\ <<p, q>> \notin Gaps => q = "bridges"
BY DEF Page, Reads, Gaps, BridgePage, BridgeCard

-----------------------------------------------------------------------------

LEMMA PageStarts == PageInit => PageInv
<1> SUFFICES ASSUME PageInit PROVE PageInv
  OBVIOUS
<1>1. PICK late \in Shown : /\ cache = [q \in Queries |-> IF q \in Shown \ {late} THEN 1 ELSE 0]
                            /\ fetch = [q \in Queries |-> IF q = late THEN Left ELSE NoFetch]
  BY DEF PageInit
<1>2. Left \in FetchRecord /\ NoFetch \in FetchRecord
  BY DEF Left, NoFetch, FetchRecord
<1>3. PageTables
  BY <1>1, <1>2 DEF PageInit, PageTables
<1>4. CallOfPage
  BY DEF PageInit, CallOfPage, NoCallSent
<1>5. ToldWhatHappened
  BY PagesShowQueries DEF PageInit, ToldWhatHappened
<1>6. Shown \subseteq Queries
  BY PagesShowQueries DEF PageInit, Shown
<1>7. ReadIsShown /\ ToldIsShown
  BY <1>1, <1>3, <1>6, QueriesAreRead DEF PageInit, PageTables, FetchRecord, ReadIsShown, ToldIsShown
<1> QED
  BY <1>3, <1>4, <1>5, <1>7 DEF PageInv

\* A query that was refreshed is asked again, unless its first load is in progress.
LEMMA RefreshedOnes ==
    ASSUME PageInv, NEW qs, fetch' = Refreshed(qs), behind' = Overtaken(qs)
    PROVE  /\ fetch' \in [Queries -> FetchRecord] /\ behind' \in SUBSET Queries
           /\ \A q \in Queries : q \notin qs \cap Shown => fetch'[q] = fetch[q]
           /\ \A q \in qs \cap Shown :
                \/ fetch'[q].stage = "asked"
                \/ fetch'[q] = fetch[q] /\ fetch[q].stage = "read" /\ q \in behind'
           /\ \A q \in Shown \ qs : q \in behind => q \in behind'
<1>1. Asked \in FetchRecord /\ Asked.stage = "asked"
  BY DEF Asked, FetchRecord
<1>2. fetch' \in [Queries -> FetchRecord]
  BY <1>1 DEF Refreshed, PageInv, PageTables
<1>3. Shown \subseteq Queries
  BY PagesShowQueries DEF Shown, PageInv, PageTables
<1>4. \A q \in Queries : fetch'[q] = IF q \in qs \cap Shown /\ ~Loading(q) THEN Asked ELSE fetch[q]
  BY DEF Refreshed
<1>5. ASSUME NEW q \in qs \cap Shown
      PROVE  \/ fetch'[q].stage = "asked"
             \/ fetch'[q] = fetch[q] /\ fetch[q].stage = "read" /\ q \in behind'
  <2>1. CASE ~Loading(q)
    BY <1>1, <1>3, <1>4, <2>1
  <2>2. CASE Loading(q) /\ fetch[q].stage = "asked"
    BY <1>3, <1>4, <2>2
  <2>3. CASE Loading(q) /\ fetch[q].stage = "read"
    BY <1>3, <1>4, <2>3 DEF Overtaken
  <2> QED
    BY <2>1, <2>2, <2>3 DEF Loading
<1>6. behind' \in SUBSET Queries /\ \A q \in Shown \ qs : q \in behind => q \in behind'
  BY <1>3 DEF Overtaken, PageInv, PageTables
<1> QED
  BY <1>2, <1>4, <1>5, <1>6

\* Changes let no table fall behind.
LEMMA ChangesGrow ==
    ASSUME PageInv, NEW ts, Changes(ts)
    PROVE  table' \in [Tables -> Nat] /\ \A t \in Tables : table[t] <= table'[t]
<1>1. table' = [t \in Tables |-> IF t \in ts THEN table[t] + 1 ELSE table[t]]
  BY DEF Changes
<1> QED
  BY <1>1 DEF PageInv, PageTables

\* When tables change the page knows no more than before.
LEMMA GrowthKeeps ==
    ASSUME PageInv, table' \in [Tables -> Nat], \A t \in Tables : table[t] <= table'[t],
           UNCHANGED <<page, cache, fetch, told, behind>>, CallOfPage',
           news' \in Nat, news' = news \/ (news' <= table'["bridges"] /\ page \in {"BridgePage", "BridgeCard"})
    PROVE  PageInv'
<1>1. PageTables' /\ ToldWhatHappened'
  BY PagesShowQueries DEF PageInv, PageTables, ToldWhatHappened
<1>2. ReadIsShown' /\ ToldIsShown'
  BY DEF PageInv, ReadIsShown, ToldIsShown, Shown
<1> QED
  BY <1>1, <1>2 DEF PageInv

\* And what a call saw stays true.
LEMMA SeenStays ==
    ASSUME PageInv, table' \in [Tables -> Nat], \A t \in Tables : table[t] <= table'[t],
           UNCHANGED <<page, call>>
    PROVE  CallOfPage'
<1>1. call.stage = "saved" => call.edit.writes \subseteq Tables
  BY CallsWriteTables DEF PageInv, CallOfPage, PageTables
<1>2. ASSUME call.stage = "saved", NEW t \in call.edit.writes
      PROVE  call.saw[t] \in Nat /\ call.saw[t] <= table'[t]
  BY <1>1, <1>2 DEF PageInv, CallOfPage, PageTables
<1> QED
  BY <1>2 DEF PageInv, CallOfPage

\* What the answer to a fetch, its failure or a new one does to the query.
LEMMA QueryKeeps ==
    ASSUME PageInv, NEW q \in Queries, ReadRows(q) \/ Arrive(q) \/ FetchFails(q) \/ Poll(q)
    PROVE  PageInv'
<1>1. UNCHANGED <<table, page, call, told, news>>
  BY DEF ReadRows, Arrive, FetchFails, Poll
<1>2. PICK new \in FetchRecord :
        /\ fetch' = [fetch EXCEPT ![q] = new]
        /\ \/ new.stage = "read" /\ new.version = table[Reads[q]] /\ UNCHANGED cache
           \/ fetch[q].stage = "read" /\ new.stage = "none" /\ cache' = [cache EXCEPT ![q] = fetch[q].version]
           \/ new.stage \in {"asked", "failed"} /\ UNCHANGED cache
        /\ behind' \in {behind, behind \ {q}} /\ (new.stage # "asked" => behind' = behind)
  <2>1. table[Reads[q]] \in Nat
    BY QueriesAreRead DEF PageInv, PageTables
  <2>2. [stage |-> "read", version |-> table[Reads[q]]] \in FetchRecord /\ NoFetch \in FetchRecord
        /\ [stage |-> "failed", version |-> 0] \in FetchRecord /\ Asked \in FetchRecord
    BY <2>1 DEF FetchRecord, NoFetch, Asked
  <2>3. CASE ReadRows(q)
    BY <2>2, <2>3 DEF ReadRows
  <2>4. CASE Arrive(q)
    BY <2>2, <2>4 DEF Arrive, NoFetch
  <2>5. CASE FetchFails(q)
    BY <2>2, <2>5 DEF FetchFails
  <2>6. CASE Poll(q)
    BY <2>2, <2>6 DEF Poll, Asked
  <2> QED
    BY <2>3, <2>4, <2>5, <2>6
<1>3. fetch[q] \in FetchRecord /\ fetch'[q] = new /\ \A r \in Queries \ {q} : fetch'[r] = fetch[r]
  BY <1>2 DEF PageInv, PageTables
<1>4. PageTables'
  <2>1. behind' \in SUBSET Queries
    BY <1>2 DEF PageInv, PageTables
  <2> QED
    BY <1>1, <1>2, <1>3, <2>1 DEF PageInv, PageTables, FetchRecord
<1>5. CallOfPage' /\ ToldWhatHappened'
  BY <1>1 DEF PageInv, CallOfPage, ToldWhatHappened
<1>6. Shown \subseteq Queries /\ Shown' = Shown
  BY <1>1, PagesShowQueries DEF PageInv, PageTables, Shown
<1>7. \A r \in Queries : told[Reads[r]] <= table[Reads[r]]
  BY QueriesAreRead DEF PageInv, ToldWhatHappened
<1>8. ReadIsShown'
  <2> SUFFICES ASSUME NEW r \in Shown, fetch'[r].stage = "read", <<page, r>> \notin Gaps, r \notin behind'
               PROVE  fetch'[r].version >= told[Reads[r]]
    BY <1>1, <1>6 DEF ReadIsShown
  <2>1. CASE r = q
    BY <1>2, <1>3, <1>7, <2>1, QueriesAreRead DEF PageInv, PageTables
  <2>2. CASE r # q
    BY <1>2, <1>3, <1>6, <2>2 DEF PageInv, ReadIsShown
  <2> QED
    BY <2>1, <2>2
<1>9. ToldIsShown'
  <2> SUFFICES ASSUME NEW r \in Shown, fetch'[r].stage = "none", <<page, r>> \notin Gaps, r \notin behind'
               PROVE  cache'[r] >= told[Reads[r]]
    BY <1>1, <1>6 DEF ToldIsShown
  <2>1. CASE r = q
    BY <1>2, <1>3, <2>1 DEF PageInv, PageTables, ReadIsShown
  <2>2. CASE r # q
    BY <1>2, <1>3, <1>6, <2>2 DEF PageInv, PageTables, ToldIsShown
  <2> QED
    BY <2>1, <2>2
<1> QED
  BY <1>4, <1>5, <1>8, <1>9 DEF PageInv

\* Whatever the page is told of, it asks for.
LEMMA TellingKeeps ==
    ASSUME PageInv, NEW qs, fetch' = Refreshed(qs), behind' = Overtaken(qs), UNCHANGED <<table, page, cache>>,
           told' \in [Tables -> Nat], \A t \in Tables : told'[t] <= table[t],
           \A q \in Shown : told'[Reads[q]] # told[Reads[q]] /\ <<page, q>> \notin Gaps => q \in qs,
           CallOfPage', news' \in {0, news}
    PROVE  PageInv'
<1>1. Shown \subseteq Queries /\ Shown' = Shown
  BY PagesShowQueries DEF PageInv, PageTables, Shown
<1>2. PageTables' /\ ToldWhatHappened'
  BY RefreshedOnes, PagesShowQueries DEF PageInv, PageTables, ToldWhatHappened
<1>3. ASSUME NEW q \in Shown, <<page, q>> \notin Gaps, fetch'[q].stage \in {"read", "none"}, q \notin behind'
      PROVE  fetch'[q] = fetch[q] /\ told'[Reads[q]] = told[Reads[q]] /\ q \notin behind
  BY <1>1, <1>3, RefreshedOnes
<1>4. ReadIsShown'
  BY <1>1, <1>3 DEF PageInv, ReadIsShown
<1>5. ToldIsShown'
  BY <1>1, <1>3 DEF PageInv, ToldIsShown
<1> QED
  BY <1>2, <1>4, <1>5 DEF PageInv

LEMMA CallKeeps ==
    ASSUME PageInv, Save \/ Succeed \/ Fail \/ \E e \in Page[page].does : Send(e)
    PROVE  PageInv'
<1>1. ASSUME NEW e \in Page[page].does, Send(e) PROVE PageInv'
  <2>3. call' = [stage |-> "sent", edit |-> e, saw |-> NoCallSent.saw]
    BY <1>1 DEF Send, NoCallSent
  <2>1. CallOfPage'
    BY <1>1, <2>3 DEF CallOfPage, Send
  <2>2. UNCHANGED <<table, page, cache, fetch, told, behind, news>>
    BY <1>1 DEF Send
  <2> QED
    BY <2>1, <2>2 DEF PageInv, PageTables, ToldWhatHappened, ReadIsShown, ToldIsShown, Shown
<1>2. CASE Save
  <2> DEFINE saw == [t \in call.edit.writes |-> table'[t]]
  <2>1. call.stage = "sent" /\ Changes(call.edit.writes) /\ UNCHANGED <<page, cache, fetch, told, behind, news>>
        /\ call' = [call EXCEPT !.stage = "saved", !.saw = saw]
    BY <1>2 DEF Save
  <2>2. call' = [stage |-> "saved", edit |-> call.edit, saw |-> saw]
    BY <2>1 DEF PageInv, CallOfPage
  <2>3. table' \in [Tables -> Nat] /\ \A t \in Tables : table[t] <= table'[t]
    BY <2>1, ChangesGrow
  <2>4. call.edit \in Page[page].does /\ call.edit.writes \subseteq Tables
    BY <2>1, CallsWriteTables DEF PageInv, CallOfPage, PageTables
  <2>7. \A t \in call.edit.writes : saw[t] \in Nat /\ saw[t] <= table'[t]
    BY <2>3, <2>4
  <2> HIDE DEF saw
  <2>8. call'.stage = "saved" /\ call'.edit = call.edit /\ call'.saw = saw
    BY <2>2
  <2>5. CallOfPage'
    BY <2>1, <2>2, <2>4, <2>7, <2>8 DEF CallOfPage
  <2>6. news \in Nat
    BY DEF PageInv, PageTables
  <2> QED
    BY <2>1, <2>3, <2>5, <2>6, GrowthKeeps
<1>3. CASE Succeed
  <2> DEFINE written == call.edit.writes
  <2>1. /\ call.stage = "saved" /\ fetch' = Refreshed(call.edit.refreshes) /\ behind' = Overtaken(call.edit.refreshes)
        /\ told' = [t \in Tables |-> IF t \in written THEN call.saw[t] ELSE told[t]]
        /\ call' = NoCallSent /\ UNCHANGED <<table, page, cache, news>>
    BY <1>3 DEF Succeed
  <2>2. call.edit \in Page[page].does /\ \A t \in written : call.saw[t] \in Nat /\ call.saw[t] <= table[t]
    BY <2>1 DEF PageInv, CallOfPage
  <2>3. told' \in [Tables -> Nat] /\ \A t \in Tables : told'[t] <= table[t]
    BY <2>1, <2>2 DEF PageInv, PageTables, ToldWhatHappened
  <2>4. CallOfPage'
    BY <2>1 DEF CallOfPage, NoCallSent
  <2>5. \A q \in Shown : told'[Reads[q]] # told[Reads[q]] /\ <<page, q>> \notin Gaps
                            => q \in call.edit.refreshes
    <3>1. \A q \in Shown : q \in Queries /\ Reads[q] \in Tables
      BY PagesShowQueries, QueriesAreRead DEF Shown, PageInv, PageTables
    <3>2. \A q \in Shown : told'[Reads[q]] # told[Reads[q]] => Reads[q] \in written
      BY <2>1, <3>1
    <3> QED
      BY <2>2, <3>2, CallsRefreshWhatTheyWrite DEF Shown, PageInv, PageTables
  <2> QED
    BY <2>1, <2>3, <2>4, <2>5, TellingKeeps
<1>4. CASE Fail
  <2>1. CallOfPage'
    BY <1>4 DEF CallOfPage, Fail, NoCallSent
  <2>2. UNCHANGED <<table, page, cache, fetch, told, behind, news>>
    BY <1>4 DEF Fail
  <2> QED
    BY <2>1, <2>2 DEF PageInv, PageTables, ToldWhatHappened, ReadIsShown, ToldIsShown, Shown
<1> QED
  BY <1>1, <1>2, <1>3, <1>4

\* What others do, and the socket.
LEMMA OthersKeep ==
    ASSUME PageInv, (\E t \in Tables : OtherEdit(t)) \/ OtherSwitch
    PROVE  PageInv'
<1>1. PICK ts : Changes(ts)
  BY DEF OtherEdit, OtherSwitch
<1>2. table' \in [Tables -> Nat] /\ \A t \in Tables : table[t] <= table'[t]
  BY <1>1, ChangesGrow
<1>3. UNCHANGED <<page, cache, fetch, call, told, behind>>
  BY DEF OtherEdit, OtherSwitch
<1>4. news' \in Nat /\ (news' = news \/ (news' <= table'["bridges"] /\ page \in {"BridgePage", "BridgeCard"}))
  <2>1. table'["bridges"] \in Nat /\ news \in Nat
    BY <1>2, PagesShowQueries DEF PageInv, PageTables
  <2>2. news' = news \/ (news' = table'["bridges"] /\ page \in {"BridgePage", "BridgeCard"})
    BY DEF OtherEdit, OtherSwitch
  <2> QED
    BY <2>1, <2>2
<1> QED
  BY <1>2, <1>3, <1>4, SeenStays, GrowthKeeps

LEMMA NewsKeeps ==
    ASSUME PageInv, HearNews \/ SocketDrops
    PROVE  PageInv'
<1>1. CASE HearNews
  <2> DEFINE newest == IF news > told["bridges"] THEN news ELSE told["bridges"]
  <2>1. /\ news > 0 /\ news' = 0 /\ fetch' = Refreshed({"bridges"}) /\ behind' = Overtaken({"bridges"})
        /\ told' = [told EXCEPT !["bridges"] = newest]
        /\ UNCHANGED <<table, page, cache, call>>
    BY <1>1 DEF HearNews
  <2>2. newest \in Nat /\ newest <= table["bridges"] /\ page \in {"BridgePage", "BridgeCard"}
    BY <2>1, PagesShowQueries DEF PageInv, PageTables, ToldWhatHappened
  <2> HIDE DEF newest
  <2>3. /\ told' \in [Tables -> Nat]
        /\ \A t \in Tables : told'[t] <= table[t]
        /\ \A t \in Tables \ {"bridges"} : told'[t] = told[t]
    BY <2>1, <2>2, PagesShowQueries DEF PageInv, PageTables, ToldWhatHappened
  <2>4. \A q \in Shown : Reads[q] \in Tables
    BY PagesShowQueries, QueriesAreRead DEF Shown, PageInv, PageTables
  <2>5. \A q \in Shown : told'[Reads[q]] # told[Reads[q]] /\ <<page, q>> \notin Gaps => q \in {"bridges"}
    BY <2>2, <2>3, <2>4, EventsRefreshBridges DEF Shown
  <2>6. CallOfPage'
    BY <2>1 DEF PageInv, CallOfPage
  <2> QED
    BY <2>1, <2>3, <2>5, <2>6, TellingKeeps
<1>2. CASE SocketDrops
  BY <1>2, PagesShowQueries DEF SocketDrops, PageInv, PageTables, CallOfPage, ToldWhatHappened, ReadIsShown,
                                ToldIsShown, Shown
<1> QED
  BY <1>1, <1>2

LEMMA PageStep == PageInv /\ [PageNext]_pageVars => PageInv'
<1>1. PageInv /\ UNCHANGED pageVars => PageInv'
  BY DEF pageVars, PageInv, PageTables, CallOfPage, ToldWhatHappened, ReadIsShown, ToldIsShown, Shown
<1> QED
  BY <1>1, QueryKeeps, CallKeeps, OthersKeep, NewsKeeps DEF PageNext

(***************************************************************************)
(* For any number of edits by others and of failures, and however fetches, *)
(* polls and calls overlap: a page whose queries rest shows nothing older  *)
(* than what it has been told of, but for the gaps that ToldIsShown names, *)
(* and for first loads whose answer was on its way when it was told (the   *)
(* queries and invalidations of frontend/src/pages).                       *)
(***************************************************************************)
THEOREM PagesShowWhatTheyKnow == PageSpec => []ToldIsShown
<1>1. PageInv => ToldIsShown
  BY DEF PageInv
<1> QED
  BY <1>1, PageStarts, PageStep, PTL DEF PageSpec

-----------------------------------------------------------------------------
(* TelegramDesk: the old config.                                           *)

PeerRow == [issue : Nat, second : BOOLEAN, linked : BOOLEAN, revoked : BOOLEAN]
IssueCall ==
    [stage : {"idle", "revoke", "revoking", "create", "second", "back", "link"}, number : Nat,
     multi : BOOLEAN, olds : SUBSET PeerRow, now : SUBSET PeerRow, kept : BOOLEAN]
RemovalCall == [stage : {"idle", "remove", "revoking"}, found : SUBSET PeerRow, now : SUBSET PeerRow]

\* What a call holds at which stage.
Orderly(c) ==
    /\ c.stage \notin {"revoke", "revoking"} => c.olds = {}
    /\ c.stage \notin {"revoking", "back"} => c.now = {}
    /\ c.stage = "back" => \A p \in c.now : ~p.linked

DeskTables ==
    /\ peers \subseteq PeerRow /\ IsFiniteSet(peers)
    /\ issue \in [Desks -> IssueCall] /\ \A d \in Desks : Orderly(issue[d])
    /\ removal \in RemovalCall
    /\ issues \in Nat

\* A reissue begins alone, or the property does not speak of it.
OneIssue ==
    /\ \A d, e \in Desks : d = e \/ At(d, "idle") \/ At(e, "idle")
    /\ removal.found \cup removal.now # {} => \A d \in Desks : At(d, "idle")

\* What is linked is still to be revoked, or is gone before the new peers are made.
OldsAreFound ==
    \A d \in Desks :
        /\ issue[d].stage \in {"revoke", "revoking"} => Linked \subseteq issue[d].olds
        /\ issue[d].stage \in {"create", "second", "back", "link"} => Linked = {}

\* The peers that are linked, and those a call may still write back as linked.
Claimed ==
    {p \in Linked \cup removal.found \cup removal.now
           \cup UNION {issue[d].olds \cup issue[d].now : d \in Desks} : p.linked}

OfOneIssue == \A p, q \in Claimed : p.issue = q.issue

DeskInv ==
    /\ DeskTables
    /\ excused \in BOOLEAN
    /\ ~excused => OneIssue /\ OldsAreFound /\ OfOneIssue

LEMMA NoIssueIsOne == NoIssue \in IssueCall /\ NoIssue.stage = "idle" /\ NoIssue.olds = {} /\ NoIssue.now = {} /\ Orderly(NoIssue)
BY DEF NoIssue, IssueCall, Orderly

LEMMA NoRemovalIsOne == NoRemoval \in RemovalCall /\ NoRemoval.found = {} /\ NoRemoval.now = {}
BY DEF NoRemoval, RemovalCall

LEMMA DeskStarts == DeskInit => DeskInv
<1> SUFFICES ASSUME DeskInit PROVE DeskInv
  OBVIOUS
<1>1. Linked = {}
  BY DEF DeskInit, Linked
<1>2. issue \in [Desks -> IssueCall] /\ \A d \in Desks : issue[d] = NoIssue
  BY NoIssueIsOne DEF DeskInit
<1>3. DeskTables
  BY <1>2, NoIssueIsOne, NoRemovalIsOne, FS_EmptySet DEF DeskInit, DeskTables
<1>4. \A d \in Desks : At(d, "idle")
  BY <1>2, NoIssueIsOne DEF At
<1>5. Claimed = {}
  BY <1>1, <1>2, NoIssueIsOne, NoRemovalIsOne DEF DeskInit, Claimed
<1> QED
  BY <1>1, <1>3, <1>4, <1>5 DEF DeskInit, DeskInv, OneIssue, OldsAreFound, OfOneIssue, At

\* With one linked peer, it is the one that is revoked.
LEMMA OldsAreAll ==
    ASSUME DeskTables, NEW multi \in BOOLEAN, ~(~multi /\ Cardinality(Linked) > 1),
           NEW olds \in IF Linked = {} THEN {{}} ELSE Olds(multi)
    PROVE  olds = Linked /\ olds \subseteq PeerRow
<1>1. CASE Linked = {} \/ multi
  BY <1>1 DEF Olds, DeskTables, Linked
<1>2. CASE Linked # {} /\ ~multi
  <2>1. PICK p \in Linked : olds = {p}
    BY <1>2 DEF Olds
  <2>2. IsFiniteSet(Linked)
    BY FS_Subset DEF DeskTables, Linked
  <2>3. ASSUME NEW q \in Linked, q # p PROVE FALSE
    <3>1. Cardinality({p, q}) = 2
      <4>1. IsFiniteSet({p}) /\ Cardinality({p}) = 1
        BY FS_Singleton
      <4>2. Cardinality({p} \cup {q}) = Cardinality({p}) + 1
        BY <4>1, <2>3, FS_AddElement
      <4>3. {p, q} = {p} \cup {q}
        OBVIOUS
      <4> QED
        BY <4>1, <4>2, <4>3
    <3>2. Cardinality({p, q}) <= Cardinality(Linked)
      BY <2>1, <2>2, <2>3, FS_Subset
    <3>3. Cardinality(Linked) \in Nat
      BY <2>2, FS_CardinalityType
    <3> QED
      BY <3>1, <3>2, <3>3, <1>2
  <2> QED
    BY <2>1, <2>3 DEF DeskTables, Linked
<1> QED
  BY <1>1, <1>2

LEMMA ImageIsFinite ==
    ASSUME NEW S, IsFiniteSet(S), NEW f
    PROVE  IsFiniteSet({f[x] : x \in S})
<1> DEFINE T == {f[x] : x \in S}
<1> DEFINE g == [x \in S |-> f[x]]
<1>1. g \in [S -> T] /\ \A y \in T : \E x \in S : g[x] = y
  OBVIOUS
<1> HIDE DEF g, T
<1>2. g \in Surjection(S, T)
  BY <1>1 DEF Surjection
<1>3. IsFiniteSet(T)
  BY <1>2, FS_Surjection
<1> QED
  BY <1>3 DEF T

\* Steps that leave the peers and the calls alone.
LEMMA DeskIdles ==
    ASSUME DeskInv, UNCHANGED <<peers, issue, removal, issues, excused>>
    PROVE  DeskInv'
BY DEF DeskInv, DeskTables, OneIssue, OldsAreFound, OfOneIssue, Claimed, Linked, At

\* The call of one desk changes.
LEMMA CallChanges ==
    ASSUME DeskTables, NEW d \in Desks, NEW new \in IssueCall, Orderly(new),
           issue' = [issue EXCEPT ![d] = new]
    PROVE  /\ issue' \in [Desks -> IssueCall] /\ \A e \in Desks : Orderly(issue'[e])
           /\ issue'[d] = new /\ \A e \in Desks \ {d} : issue'[e] = issue[e]
<1>1. issue' \in [Desks -> IssueCall] /\ issue'[d] = new /\ \A e \in Desks \ {d} : issue'[e] = issue[e]
  BY DEF DeskTables
<1> QED
  BY <1>1 DEF DeskTables

\* What the writes of a revocation leave.
LEMMA RowIsSaved ==
    ASSUME DeskTables, NEW p \in PeerRow, SaveRevoked(p) \/ Dropped(p) \/ PutBack(p)
    PROVE  /\ peers' \subseteq PeerRow /\ IsFiniteSet(peers')
           /\ Linked' \subseteq Linked \cup {p}
           /\ SaveRevoked(p) \/ Dropped(p) => Linked' \subseteq Linked \ {p}
<1> DEFINE others == peers \ SameRow(p)
<1>1. others \subseteq peers /\ p \notin others /\ IsFiniteSet(others)
  BY FS_Subset DEF SameRow, DeskTables
<1> HIDE DEF others
<1>2. CASE Dropped(p)
  BY <1>1, <1>2 DEF Dropped, others, DeskTables, Linked
<1>3. ASSUME NEW row \in PeerRow, peers' = others \cup {row}, row = p \/ row.revoked
      PROVE  /\ peers' \subseteq PeerRow /\ IsFiniteSet(peers')
             /\ Linked' \subseteq Linked \cup {p}
             /\ row.revoked => Linked' \subseteq Linked \ {p}
  <2>1. IsFiniteSet(peers')
    BY <1>1, <1>3, FS_AddElement
  <2> QED
    BY <1>1, <1>3, <2>1 DEF DeskTables, Linked
<1>4. CASE PutBack(p) /\ ~SaveRevoked(p)
  <2>1. ~Dropped(p) \/ peers' = others
    BY DEF Dropped, others
  <2> QED
    BY <1>2, <1>3, <1>4 DEF PutBack, others
<1>5. CASE SaveRevoked(p)
  <2>1. PICK row : row = [p EXCEPT !.revoked = TRUE]
    OBVIOUS
  <2>2. row \in PeerRow /\ row.revoked
    BY <2>1 DEF PeerRow
  <2> QED
    BY <1>3, <1>5, <2>1, <2>2 DEF SaveRevoked, others
<1> QED
  BY <1>2, <1>4, <1>5

\* A call ends or goes on with what it holds, and no other peer is claimed.
LEMMA CallKeepsClaims ==
    ASSUME DeskTables, NEW d \in Desks,
           (\A e \in Desks \ {d} : issue'[e] = issue[e]), removal' = removal,
           issue'[d].olds \cup issue'[d].now \subseteq issue[d].olds \cup issue[d].now,
           Linked' \subseteq Linked \cup issue[d].now
    PROVE  Claimed' \subseteq Claimed
<1>1. \A e \in Desks : issue'[e].olds \cup issue'[e].now \subseteq issue[e].olds \cup issue[e].now
  OBVIOUS
<1>2. UNION {issue'[e].olds \cup issue'[e].now : e \in Desks} \subseteq UNION {issue[e].olds \cup issue[e].now : e \in Desks}
  BY <1>1
<1>3. issue[d].now \subseteq UNION {issue[e].olds \cup issue[e].now : e \in Desks}
  OBVIOUS
<1> QED
  BY <1>2, <1>3 DEF Claimed

LEMMA IssueBegins ==
    ASSUME DeskInv, NEW d \in Desks, NEW multi \in BOOLEAN, At(d, "idle"), BeginIssue(d, multi),
           UNCHANGED <<peers, removal>>
    PROVE  DeskInv'
<1>1. PICK olds \in IF Linked = {} THEN {{}} ELSE Olds(multi) :
        issue' = [issue EXCEPT ![d] =
            [stage |-> "revoke", number |-> issues + 1, multi |-> multi, olds |-> olds,
             now |-> {}, kept |-> TRUE]]
  BY DEF BeginIssue
<1>2. Linked' = Linked
  BY DEF Linked
<1>3. olds \subseteq Linked /\ Linked \subseteq PeerRow
  BY <1>1 DEF Olds, Linked, DeskInv, DeskTables
<1>4. PICK begun : begun = [stage |-> "revoke", number |-> issues + 1, multi |-> multi, olds |-> olds,
                            now |-> {}, kept |-> TRUE]
  OBVIOUS
<1>5. begun \in IssueCall /\ begun.stage = "revoke" /\ begun.olds = olds /\ begun.now = {}
  BY <1>3, <1>4 DEF IssueCall, DeskInv, DeskTables
<1>6. Orderly(begun)
  BY <1>5 DEF Orderly
<1>7. issue' = [issue EXCEPT ![d] = begun]
  BY <1>1, <1>4
<1>8. /\ issue' \in [Desks -> IssueCall] /\ \A e \in Desks : Orderly(issue'[e])
      /\ issue'[d] = begun /\ \A e \in Desks \ {d} : issue'[e] = issue[e]
  BY <1>5, <1>6, <1>7, CallChanges DEF DeskInv
<1>9. DeskTables' /\ excused' \in BOOLEAN
  <2>1. issues' = issues + 1 /\ excused' \in BOOLEAN
    BY DEF BeginIssue, DeskInv
  <2> QED
    BY <1>8, <2>1 DEF DeskInv, DeskTables
<1>10. ASSUME ~excused' PROVE (OneIssue /\ OldsAreFound /\ OfOneIssue)'
  <2>1. /\ ~excused /\ (\A e \in Desks \ {d} : At(e, "idle")) /\ ~(~multi /\ Cardinality(Linked) > 1)
        /\ removal.found \cup removal.now = {}
    BY <1>10 DEF BeginIssue, At
  <2>2. olds = Linked
    BY <2>1, <1>1, OldsAreAll DEF DeskInv
  <2>3. OneIssue'
    BY <2>1, <1>8 DEF OneIssue, At
  <2>4. OldsAreFound'
    BY <2>1, <2>2, <1>8, <1>2, <1>5 DEF OldsAreFound, At
  <2>5. \A e \in Desks : issue'[e].olds \cup issue'[e].now \subseteq issue[e].olds \cup issue[e].now \cup Linked
    BY <1>8, <1>5, <1>3
  <2>6. UNION {issue'[e].olds \cup issue'[e].now : e \in Desks}
          \subseteq Linked \cup UNION {issue[e].olds \cup issue[e].now : e \in Desks}
    BY <2>5
  <2>7. Claimed' \subseteq Claimed
    BY <2>6, <1>2 DEF Claimed
  <2> QED
    BY <2>1, <2>3, <2>4, <2>7 DEF DeskInv, OfOneIssue
<1> QED
  BY <1>9, <1>10 DEF DeskInv

\* A call goes on, or ends: its desk holds nothing new, and what it writes it held.
LEMMA CallGoesOn ==
    ASSUME DeskInv, NEW d \in Desks, NEW new \in IssueCall, Orderly(new),
           issue' = [issue EXCEPT ![d] = new], UNCHANGED <<removal, issues, excused>>,
           ~At(d, "idle"),
           new.olds \cup new.now \subseteq issue[d].olds \cup issue[d].now,
           peers' \subseteq PeerRow, IsFiniteSet(peers'),
           Linked' \subseteq Linked \cup issue[d].now,
           ~excused => /\ new.stage \in {"revoke", "revoking"} => Linked' \subseteq new.olds
                       /\ new.stage \in {"create", "second", "back", "link"} => Linked' = {}
    PROVE  DeskInv'
<1>1. /\ issue' \in [Desks -> IssueCall] /\ \A e \in Desks : Orderly(issue'[e])
      /\ issue'[d] = new /\ \A e \in Desks \ {d} : issue'[e] = issue[e]
  BY CallChanges DEF DeskInv
<1>2. DeskTables'
  BY <1>1 DEF DeskInv, DeskTables
<1>3. Claimed' \subseteq Claimed
  BY <1>1, CallKeepsClaims DEF DeskInv
<1>4. ASSUME ~excused PROVE (OneIssue /\ OldsAreFound /\ OfOneIssue)'
  <2>1. OneIssue /\ OldsAreFound /\ OfOneIssue
    BY <1>4 DEF DeskInv
  <2>2. (\A e \in Desks \ {d} : At(e, "idle")) /\ removal.found \cup removal.now = {}
    BY <2>1 DEF OneIssue
  <2>3. OneIssue'
    BY <2>2, <1>1 DEF OneIssue, At
  <2>4. OldsAreFound'
    BY <2>2, <1>1, <1>4 DEF OldsAreFound, At
  <2> QED
    BY <2>1, <2>3, <2>4, <1>3 DEF OfOneIssue
<1> QED
  BY <1>2, <1>4 DEF DeskInv

LEMMA IssueEndKeeps ==
    ASSUME DeskInv, NEW d \in Desks, IssueEnds(d), ~At(d, "idle"), UNCHANGED <<removal, issues, excused>>,
           peers' \subseteq PeerRow, IsFiniteSet(peers'), Linked' \subseteq Linked \cup issue[d].now
    PROVE  DeskInv'
BY NoIssueIsOne, CallGoesOn DEF IssueEnds

LEMMA RevokeKeeps ==
    ASSUME DeskInv, NEW d \in Desks, RevokeOld(d)
    PROVE  DeskInv'
<1>0. /\ issue[d] \in IssueCall /\ issue[d].stage = "revoke" /\ ~At(d, "idle") /\ issue[d].now = {}
      /\ UNCHANGED <<removal, issues, excused>>
  <2>1. At(d, "revoke") /\ UNCHANGED <<removal, issues, excused>>
    BY DEF RevokeOld, deskBounds
  <2> QED
    BY <2>1 DEF DeskInv, DeskTables, At, Orderly
<1>a. ~excused => Linked \subseteq issue[d].olds
  BY <1>0 DEF DeskInv, OldsAreFound
<1>1. CASE issue[d].olds = {} /\ issue' = [issue EXCEPT ![d].stage = "create"] /\ UNCHANGED peers
  <2>1. PICK new : new = [issue[d] EXCEPT !.stage = "create"]
    OBVIOUS
  <2>2. new \in IssueCall /\ new.stage = "create" /\ new.olds = {} /\ new.now = {}
    BY <1>0, <1>1, <2>1 DEF IssueCall
  <2>3. issue' = [issue EXCEPT ![d] = new]
    BY <1>1, <2>1
  <2>4. Linked' = Linked /\ peers' \subseteq PeerRow /\ IsFiniteSet(peers')
    BY <1>1 DEF Linked, DeskInv, DeskTables
  <2>5. Orderly(new)
    BY <2>2 DEF Orderly
  <2> QED
    BY <1>0, <1>1, <1>a, <2>2, <2>3, <2>4, <2>5, CallGoesOn
<1>2. ASSUME NEW p \in issue[d].olds, SaveRevoked(p),
             issue' = [issue EXCEPT ![d] = Revoking(issue[d], p)]
      PROVE  DeskInv'
  <2>1. PICK new : new = Revoking(issue[d], p)
    OBVIOUS
  <2>2. p \in PeerRow
    BY <1>0 DEF IssueCall
  <2>3. new \in IssueCall /\ new.stage = "revoking" /\ new.olds = issue[d].olds \ {p} /\ new.now = {p}
    BY <1>0, <2>1, <2>2 DEF IssueCall, Revoking
  <2>4. issue' = [issue EXCEPT ![d] = new]
    BY <1>2, <2>1
  <2>5. peers' \subseteq PeerRow /\ IsFiniteSet(peers') /\ Linked' \subseteq Linked \ {p}
    BY <1>2, <2>2, RowIsSaved DEF DeskInv
  <2>6. Orderly(new)
    BY <2>3 DEF Orderly
  <2> QED
    BY <1>0, <1>a, <2>3, <2>4, <2>5, <2>6, CallGoesOn
<1>3. CASE IssueEnds(d) /\ UNCHANGED peers
  <2>1. Linked' = Linked /\ peers' \subseteq PeerRow /\ IsFiniteSet(peers')
    BY <1>3 DEF Linked, DeskInv, DeskTables
  <2> QED
    BY <1>0, <1>3, <2>1, IssueEndKeeps
<1> QED
  BY <1>1, <1>2, <1>3 DEF RevokeOld

LEMMA RevocationKeeps ==
    ASSUME DeskInv, NEW d \in Desks, RevocationEnds(d) \/ RevocationFails(d)
    PROVE  DeskInv'
<1>0. /\ issue[d] \in IssueCall /\ issue[d].stage \in {"revoking", "back"} /\ ~At(d, "idle")
      /\ issue[d].now \subseteq PeerRow /\ UNCHANGED <<removal, issues, excused>>
  BY DEF DeskInv, DeskTables, RevocationEnds, RevocationFails, At, deskBounds, IssueCall
<1>1. CASE RevocationEnds(d)
  <2>1. PICK p \in issue[d].now : Dropped(p)
    BY <1>1 DEF RevocationEnds
  <2>2. peers' \subseteq PeerRow /\ IsFiniteSet(peers') /\ Linked' \subseteq Linked
    BY <1>0, <2>1, RowIsSaved DEF DeskInv
  <2>3. CASE IssueEnds(d)
    BY <1>0, <2>2, <2>3, IssueEndKeeps
  <2>4. CASE At(d, "revoking") /\ issue' = [issue EXCEPT ![d] = [issue[d] EXCEPT !.stage = "revoke", !.now = {}]]
    <3>1. PICK new : new = [issue[d] EXCEPT !.stage = "revoke", !.now = {}]
      OBVIOUS
    <3>2. new \in IssueCall /\ new.stage = "revoke" /\ new.olds = issue[d].olds /\ new.now = {}
      BY <1>0, <3>1 DEF IssueCall
    <3>3. issue' = [issue EXCEPT ![d] = new]
      BY <2>4, <3>1
    <3>4. ~excused => Linked \subseteq issue[d].olds
      BY <2>4 DEF DeskInv, OldsAreFound, At
    <3>5. Orderly(new)
      BY <3>2 DEF Orderly
    <3> QED
      BY <1>0, <2>2, <3>2, <3>3, <3>4, <3>5, CallGoesOn
  <2> QED
    BY <1>1, <2>3, <2>4 DEF RevocationEnds
<1>2. CASE RevocationFails(d)
  <2>1. PICK p \in issue[d].now : UNCHANGED peers \/ PutBack(p)
    BY <1>2 DEF RevocationFails
  <2>2. peers' \subseteq PeerRow /\ IsFiniteSet(peers') /\ Linked' \subseteq Linked \cup issue[d].now
    <3>1. CASE UNCHANGED peers
      BY <3>1 DEF DeskInv, DeskTables, Linked
    <3>2. CASE PutBack(p)
      BY <1>0, <3>2, RowIsSaved DEF DeskInv
    <3> QED
      BY <2>1, <3>1, <3>2
  <2> QED
    BY <1>0, <1>2, <2>2, IssueEndKeeps DEF RevocationFails
<1> QED
  BY <1>1, <1>2

LEMMA CreateKeeps ==
    ASSUME DeskInv, NEW d \in Desks, CreateOne(d) \/ CreateSecond(d)
    PROVE  DeskInv'
<1>0. /\ issue[d] \in IssueCall /\ issue[d].stage \in {"create", "second"} /\ ~At(d, "idle")
      /\ issue[d].olds = {} /\ issue[d].now = {} /\ UNCHANGED <<removal, issues, excused>>
  BY DEF DeskInv, DeskTables, CreateOne, CreateSecond, At, Orderly
<1>a. ~excused => Linked = {}
  BY <1>0 DEF DeskInv, OldsAreFound
<1>b. \A second \in BOOLEAN : MadePeer(d, second) \in PeerRow /\ ~MadePeer(d, second).linked
  BY <1>0 DEF MadePeer, PeerRow, IssueCall
<1>1. ASSUME NEW second \in BOOLEAN, NEW stage \in {"second", "link"}, peers' = peers \cup {MadePeer(d, second)},
             issue' = [issue EXCEPT ![d].stage = stage]
      PROVE  DeskInv'
  <2>1. PICK new : new = [issue[d] EXCEPT !.stage = stage]
    OBVIOUS
  <2>2. new \in IssueCall /\ new.stage = stage /\ new.olds = {} /\ new.now = {}
    BY <1>0, <2>1 DEF IssueCall
  <2>3. issue' = [issue EXCEPT ![d] = new]
    BY <1>1, <2>1
  <2>4. peers' \subseteq PeerRow /\ IsFiniteSet(peers') /\ Linked' = Linked
    BY <1>1, <1>b, FS_AddElement DEF DeskInv, DeskTables, Linked
  <2>5. Orderly(new)
    BY <2>2 DEF Orderly
  <2> QED
    BY <1>0, <1>a, <2>2, <2>3, <2>4, <2>5, CallGoesOn
<1>2. CASE IssueEnds(d) /\ UNCHANGED peers
  <2>1. Linked' = Linked /\ peers' \subseteq PeerRow /\ IsFiniteSet(peers')
    BY <1>2 DEF Linked, DeskInv, DeskTables
  <2> QED
    BY <1>0, <1>2, <2>1, IssueEndKeeps
<1>3. CASE CreateOne(d)
  BY <1>3, <1>1, <1>2 DEF CreateOne
<1>4. CASE /\ SaveRevoked(MadePeer(d, FALSE))
           /\ issue' = [issue EXCEPT ![d] = [issue[d] EXCEPT !.stage = "back", !.now = {MadePeer(d, FALSE)}]]
  <2>1. PICK new : new = [issue[d] EXCEPT !.stage = "back", !.now = {MadePeer(d, FALSE)}]
    OBVIOUS
  <2>2. new \in IssueCall /\ new.stage = "back" /\ new.olds = {} /\ new.now = {MadePeer(d, FALSE)}
    BY <1>0, <1>b, <2>1 DEF IssueCall
  <2>3. issue' = [issue EXCEPT ![d] = new]
    BY <1>4, <2>1
  <2>4. peers' \subseteq PeerRow /\ IsFiniteSet(peers') /\ Linked' \subseteq Linked
    BY <1>4, <1>b, RowIsSaved DEF DeskInv
  <2>5. Orderly(new)
    BY <2>2, <1>b DEF Orderly
  \* The peer that is taken back is not linked, so it is no claim.
  <2>6. /\ issue' \in [Desks -> IssueCall] /\ \A e \in Desks : Orderly(issue'[e])
        /\ issue'[d] = new /\ \A e \in Desks \ {d} : issue'[e] = issue[e]
    BY <2>2, <2>3, <2>5, CallChanges DEF DeskInv
  <2>7. DeskTables'
    BY <1>0, <2>4, <2>6 DEF DeskInv, DeskTables
  <2>8. \A e \in Desks : issue'[e].olds \cup issue'[e].now \subseteq issue[e].olds \cup issue[e].now \cup {MadePeer(d, FALSE)}
    BY <2>2, <2>6, <1>0
  <2>9. UNION {issue'[e].olds \cup issue'[e].now : e \in Desks}
          \subseteq {MadePeer(d, FALSE)} \cup UNION {issue[e].olds \cup issue[e].now : e \in Desks}
    BY <2>8
  <2>10. Claimed' \subseteq Claimed
    BY <1>0, <1>b, <2>4, <2>9 DEF Claimed
  <2>11. ASSUME ~excused PROVE (OneIssue /\ OldsAreFound /\ OfOneIssue)'
    <3>1. OneIssue /\ OldsAreFound /\ OfOneIssue
      BY <2>11 DEF DeskInv
    <3>2. (\A e \in Desks \ {d} : At(e, "idle")) /\ removal.found \cup removal.now = {}
      BY <3>1, <1>0 DEF OneIssue
    <3>3. OneIssue'
      BY <1>0, <3>2, <2>6 DEF OneIssue, At
    <3>4. OldsAreFound'
      BY <3>2, <2>2, <2>4, <2>6, <1>a, <2>11 DEF OldsAreFound, At
    <3> QED
      BY <3>1, <3>3, <3>4, <2>10 DEF OfOneIssue
  <2> QED
    BY <1>0, <2>7, <2>11 DEF DeskInv
<1>5. CASE CreateSecond(d)
  BY <1>5, <1>1, <1>4 DEF CreateSecond
<1> QED
  BY <1>3, <1>5

LEMMA LinkKeeps ==
    ASSUME DeskInv, NEW d \in Desks, Link(d)
    PROVE  DeskInv'
<1>0. /\ issue[d] \in IssueCall /\ issue[d].stage = "link" /\ ~At(d, "idle") /\ IssueEnds(d)
      /\ issue[d].olds = {} /\ issue[d].now = {} /\ UNCHANGED <<removal, issues, excused>>
  BY DEF DeskInv, DeskTables, Link, At, Orderly, deskBounds
<1>1. CASE peers' = peers
  BY <1>0, <1>1, IssueEndKeeps DEF DeskInv, DeskTables, Linked
<1>2. CASE peers' = {IF p.issue = issue[d].number THEN [p EXCEPT !.linked = TRUE] ELSE p : p \in peers}
  <2> DEFINE now(p) == IF p.issue = issue[d].number THEN [p EXCEPT !.linked = TRUE] ELSE p
  <2>1. \A p \in peers : /\ now(p) \in PeerRow /\ now(p).issue = p.issue /\ now(p).revoked = p.revoked
                         /\ now(p).linked => p.linked \/ p.issue = issue[d].number
    BY DEF DeskInv, DeskTables, PeerRow
  <2>2. \A q \in peers' :
            /\ q \in PeerRow
            /\ q.linked => \/ q.issue = issue[d].number
                           \/ \E p \in peers : p.linked /\ p.issue = q.issue /\ p.revoked = q.revoked
    BY <1>2, <2>1
  <2>3. IsFiniteSet(peers')
    <3> DEFINE f == [p \in peers |-> now(p)]
    <3>1. IsFiniteSet({f[p] : p \in peers})
      <4> HIDE DEF f
      <4> QED
        BY ImageIsFinite DEF DeskInv, DeskTables
    <3>2. peers' = {f[p] : p \in peers}
      BY <1>2
    <3> QED
      BY <3>1, <3>2
  <2>4. /\ issue' \in [Desks -> IssueCall] /\ (\A e \in Desks : Orderly(issue'[e]))
        /\ issue'[d] = NoIssue /\ \A e \in Desks \ {d} : issue'[e] = issue[e]
    BY <1>0, NoIssueIsOne, CallChanges DEF IssueEnds, DeskInv
  <2>5. DeskTables'
    BY <1>0, <2>2, <2>3, <2>4 DEF DeskInv, DeskTables
  <2>6. ASSUME ~excused PROVE (OneIssue /\ OldsAreFound /\ OfOneIssue)'
    <3>1. OneIssue /\ OldsAreFound /\ OfOneIssue
      BY <2>6 DEF DeskInv
    <3>2. Linked = {} /\ removal.found \cup removal.now = {} /\ \A e \in Desks \ {d} : At(e, "idle")
      BY <3>1, <1>0 DEF OldsAreFound, OneIssue
    <3>3. \A q \in Linked' : q.issue = issue[d].number
      BY <2>2, <3>2 DEF Linked
    <3>4. \A e \in Desks : At(e, "idle")'
      BY <3>2, <2>4, NoIssueIsOne DEF At
    <3>5. \A e \in Desks : issue'[e].olds \cup issue'[e].now = {}
      BY <2>4, <3>4 DEF Orderly, At
    <3>6. Claimed' \subseteq Linked'
      BY <1>0, <3>2, <3>5 DEF Claimed
    <3>7. OfOneIssue'
      BY <3>3, <3>6 DEF OfOneIssue
    <3> QED
      BY <3>4, <3>7 DEF OneIssue, OldsAreFound, At
  <2> QED
    BY <1>0, <2>5, <2>6 DEF DeskInv
<1> QED
  BY <1>1, <1>2 DEF Link

\* Steps between which no desk works on what a removal holds.
LEMMA RemovalGoesOn ==
    ASSUME DeskInv, NEW new \in RemovalCall, removal' = new, UNCHANGED <<issue, issues, excused>>,
           new.found \cup new.now \subseteq removal.found \cup removal.now,
           peers' \subseteq PeerRow, IsFiniteSet(peers'), Linked' \subseteq Linked \cup removal.now
    PROVE  DeskInv'
<1>1. DeskTables'
  BY DEF DeskInv, DeskTables
<1>2. Claimed' \subseteq Claimed
  BY DEF Claimed
<1>3. ASSUME ~excused PROVE (OneIssue /\ OldsAreFound /\ OfOneIssue)'
  <2>1. OneIssue /\ OldsAreFound /\ OfOneIssue
    BY <1>3 DEF DeskInv
  <2>2. OneIssue'
    BY <2>1 DEF OneIssue, At
  <2>3. OldsAreFound'
    <3>1. CASE removal.now = {}
      BY <2>1, <3>1 DEF OldsAreFound, At
    <3>2. CASE removal.now # {}
      BY <2>1, <3>2 DEF OneIssue, OldsAreFound, At
    <3> QED
      BY <3>1, <3>2
  <2> QED
    BY <2>1, <2>2, <2>3, <1>2 DEF OfOneIssue
<1> QED
  BY <1>1, <1>3 DEF DeskInv

LEMMA RemovalBegins ==
    ASSUME DeskInv, RequestRemoval
    PROVE  DeskInv'
<1>1. PICK found \in {{}, Linked} :
        /\ removal' = [stage |-> "remove", found |-> found, now |-> {}]
        /\ excused' = (excused \/ (found # {} /\ \E d \in Desks : issue[d].stage # "idle"))
        /\ UNCHANGED <<peers, issue, issues>>
  BY DEF RequestRemoval
<1>2. Linked' = Linked /\ found \subseteq Linked /\ Linked \subseteq PeerRow
  BY <1>1 DEF Linked, DeskInv, DeskTables
<1>3. PICK new : new = [stage |-> "remove", found |-> found, now |-> {}]
  OBVIOUS
<1>4. removal' = new /\ new \in RemovalCall /\ new.found = found /\ new.now = {}
  BY <1>1, <1>2, <1>3 DEF RemovalCall
<1>5. DeskTables' /\ excused' \in BOOLEAN
  BY <1>1, <1>4 DEF DeskInv, DeskTables
<1>6. Claimed' \subseteq Claimed
  BY <1>1, <1>2, <1>4 DEF Claimed
<1>7. ASSUME ~excused' PROVE (OneIssue /\ OldsAreFound /\ OfOneIssue)'
  <2>1. OneIssue /\ OldsAreFound /\ OfOneIssue /\ (found = {} \/ \A d \in Desks : At(d, "idle"))
    BY <1>1, <1>7 DEF DeskInv, At
  <2>2. OneIssue'
    BY <2>1, <1>1, <1>4 DEF OneIssue, At
  <2>3. OldsAreFound'
    BY <2>1, <1>1, <1>2 DEF OldsAreFound, At
  <2> QED
    BY <2>1, <2>2, <2>3, <1>6 DEF OfOneIssue
<1> QED
  BY <1>5, <1>7 DEF DeskInv

LEMMA FoundKeeps ==
    ASSUME DeskInv, RevokeFound \/ FoundIsRevoked
    PROVE  DeskInv'
<1>0. UNCHANGED <<issue, issues, excused>> /\ removal \in RemovalCall
  BY DEF RevokeFound, FoundIsRevoked, deskBounds, DeskInv, DeskTables
<1>1. CASE RevokeFound
  <2>1. PICK p \in removal.found :
          SaveRevoked(p) /\ removal' = [stage |-> "revoking", found |-> removal.found \ {p}, now |-> {p}]
    BY <1>1 DEF RevokeFound
  <2>2. p \in PeerRow
    BY <1>0 DEF RemovalCall
  <2>3. /\ removal' \in RemovalCall
        /\ removal'.found \cup removal'.now \subseteq removal.found \cup removal.now
    BY <1>0, <2>1, <2>2 DEF RemovalCall
  <2>4. peers' \subseteq PeerRow /\ IsFiniteSet(peers') /\ Linked' \subseteq Linked
    BY <2>1, <2>2, RowIsSaved DEF DeskInv
  <2> QED
    BY <1>0, <2>3, <2>4, RemovalGoesOn
<1>2. CASE FoundIsRevoked
  <2>1. PICK p \in removal.now : Dropped(p) \/ PutBack(p)
    BY <1>2 DEF FoundIsRevoked
  <2>2. p \in PeerRow
    BY <1>0 DEF RemovalCall
  <2>3. PICK new : new = [removal EXCEPT !.stage = "remove", !.now = {}]
    OBVIOUS
  <2>4. /\ removal' = new /\ new \in RemovalCall
        /\ new.found \cup new.now \subseteq removal.found \cup removal.now
    BY <1>0, <1>2, <2>3 DEF FoundIsRevoked, RemovalCall
  <2>5. peers' \subseteq PeerRow /\ IsFiniteSet(peers') /\ Linked' \subseteq Linked \cup removal.now
    BY <2>1, <2>2, RowIsSaved DEF DeskInv
  <2> QED
    BY <1>0, <2>4, <2>5, RemovalGoesOn
<1> QED
  BY <1>1, <1>2

\* Peers go, or are unlinked, or the calls end: nothing new is claimed.
LEMMA FewerKeep ==
    ASSUME DeskInv, issue' \in [Desks -> IssueCall], \A d \in Desks : Orderly(issue'[d]),
           removal' \in RemovalCall, UNCHANGED <<issues, excused>>,
           peers' \subseteq PeerRow, IsFiniteSet(peers'), Linked' \subseteq Linked,
           removal'.found \cup removal'.now \subseteq removal.found \cup removal.now,
           \A d \in Desks : \/ issue'[d].stage = "idle"
                            \/ /\ issue'[d].stage = issue[d].stage
                               /\ issue'[d].olds = issue[d].olds /\ issue'[d].now = issue[d].now
    PROVE  DeskInv'
<1>1. DeskTables'
  BY DEF DeskInv, DeskTables
<1>2. \A d \in Desks : issue'[d].olds \cup issue'[d].now \subseteq issue[d].olds \cup issue[d].now
  BY DEF Orderly
<1>3. Claimed' \subseteq Claimed
  <2>1. UNION {issue'[e].olds \cup issue'[e].now : e \in Desks} \subseteq UNION {issue[e].olds \cup issue[e].now : e \in Desks}
    BY <1>2
  <2> QED
    BY <2>1 DEF Claimed
<1>4. ASSUME ~excused PROVE (OneIssue /\ OldsAreFound /\ OfOneIssue)'
  <2>1. OneIssue /\ OldsAreFound /\ OfOneIssue
    BY <1>4 DEF DeskInv
  <2>2. OneIssue'
    BY <2>1 DEF OneIssue, At
  <2>3. OldsAreFound'
    BY <2>1 DEF OldsAreFound
  <2> QED
    BY <2>1, <2>2, <2>3, <1>3 DEF OfOneIssue
<1> QED
  BY <1>1, <1>4 DEF DeskInv

LEMMA SyncKeeps ==
    ASSUME DeskInv, LaterSync
    PROVE  DeskInv'
<1>1. /\ peers' \subseteq peers /\ UNCHANGED <<issue, removal, issues, excused>>
  BY DEF LaterSync, deskBounds
<1>2. peers' \subseteq PeerRow /\ IsFiniteSet(peers') /\ Linked' \subseteq Linked
  BY <1>1, FS_Subset DEF DeskInv, DeskTables, Linked
<1> QED
  BY <1>1, <1>2, FewerKeep DEF DeskInv, DeskTables

LEMMA RegistrationGoes ==
    ASSUME DeskInv, RemoveRegistration
    PROVE  DeskInv'
<1>1. /\ issue' = [d \in Desks |-> [issue[d] EXCEPT !.kept = FALSE]] /\ removal' = NoRemoval
      /\ UNCHANGED <<issues, excused>>
  BY DEF RemoveRegistration, deskBounds
<1>2. \A d \in Desks : /\ issue'[d] \in IssueCall /\ issue'[d].stage = issue[d].stage
                       /\ issue'[d].olds = issue[d].olds /\ issue'[d].now = issue[d].now
  <2>1. ASSUME NEW d \in Desks
        PROVE  /\ issue'[d] \in IssueCall /\ issue'[d].stage = issue[d].stage
               /\ issue'[d].olds = issue[d].olds /\ issue'[d].now = issue[d].now
    <3>1. issue'[d] = [issue[d] EXCEPT !.kept = FALSE] /\ issue[d] \in IssueCall
      BY <1>1 DEF DeskInv, DeskTables
    <3> QED
      BY <3>1 DEF IssueCall
  <2> QED
    BY <2>1
<1>3. issue' \in [Desks -> IssueCall] /\ \A d \in Desks : Orderly(issue'[d])
  <2>1. issue' \in [Desks -> IssueCall]
    BY <1>1, <1>2
  <2>2. \A d \in Desks : Orderly(issue'[d])
    BY <1>2 DEF Orderly, DeskInv, DeskTables
  <2> QED
    BY <2>1, <2>2
<1> DEFINE unlinked(p) == [p EXCEPT !.linked = FALSE]
<1>4. peers' = {unlinked(p) : p \in peers}
  BY DEF RemoveRegistration
<1>5. \A p \in peers : unlinked(p) \in PeerRow /\ ~unlinked(p).linked
  BY DEF DeskInv, DeskTables, PeerRow
<1>6. IsFiniteSet(peers')
  <2> DEFINE f == [p \in peers |-> unlinked(p)]
  <2>1. IsFiniteSet({f[p] : p \in peers})
    <3> HIDE DEF f
    <3> QED
      BY ImageIsFinite DEF DeskInv, DeskTables
  <2>2. peers' = {f[p] : p \in peers}
    BY <1>4
  <2> QED
    BY <2>1, <2>2
<1>7. peers' \subseteq PeerRow /\ Linked' \subseteq Linked
  BY <1>4, <1>5 DEF Linked
<1> QED
  BY <1>1, <1>2, <1>3, <1>6, <1>7, NoRemovalIsOne, FewerKeep

LEMMA RestartKeeps ==
    ASSUME DeskInv, DeskRestarts
    PROVE  DeskInv'
<1>1. /\ issue' = [d \in Desks |-> NoIssue] /\ removal' = NoRemoval /\ UNCHANGED <<peers, issues, excused>>
  BY DEF DeskRestarts
<1>2. issue' \in [Desks -> IssueCall] /\ \A d \in Desks : issue'[d].stage = "idle" /\ Orderly(issue'[d])
  BY <1>1, NoIssueIsOne
<1> QED
  BY <1>1, <1>2, NoRemovalIsOne, FewerKeep DEF DeskInv, DeskTables, Linked

\* The bot handles an update: it may begin a reissue, and nothing else changes here.
LEMMA BotKeeps ==
    ASSUME DeskInv,
           \/ HandleStart \/ HandleText \/ HandleDevice \/ HandleProtocol \/ HandleUpstream \/ HandleAnswer
    PROVE  DeskInv'
<1>1. UNCHANGED <<peers, removal>> /\ At("bot", "idle")
  BY DEF HandleStart, HandleText, HandleDevice, HandleProtocol, HandleUpstream, HandleAnswer, TakeUpdate
<1>2. NoIssueBegins \/ \E multi \in BOOLEAN : BeginIssue("bot", multi)
  <2>1. CASE HandleStart \/ HandleText \/ HandleDevice
    BY <2>1 DEF HandleStart, HandleText, HandleDevice
  <2>2. \A r : (r.protocol = "multi") \in BOOLEAN
    OBVIOUS
  <2>3. \A r : ConfirmOrIssue(r) => NoIssueBegins \/ BeginIssue("bot", r.protocol = "multi")
    BY DEF ConfirmOrIssue
  <2>4. CASE HandleProtocol
    BY <2>2, <2>3, <2>4 DEF HandleProtocol
  <2>5. CASE HandleUpstream
    BY <2>2, <2>3, <2>5 DEF HandleUpstream
  <2>6. CASE HandleAnswer
    BY <2>2, <2>6 DEF HandleAnswer
  <2> QED
    BY <2>1, <2>4, <2>5, <2>6
<1>3. "bot" \in Desks
  BY DEF Desks
<1> QED
  BY <1>1, <1>2, <1>3, DeskIdles, IssueBegins DEF NoIssueBegins

LEMMA DeskContinues == DeskInv /\ [DeskNext]_deskVars => DeskInv'
<1> SUFFICES ASSUME DeskInv, [DeskNext]_deskVars PROVE DeskInv'
  OBVIOUS
<1>1. ASSUME NEW d \in Desks,
             \/ RevokeOld(d) \/ RevocationEnds(d) \/ RevocationFails(d)
             \/ CreateOne(d) \/ CreateSecond(d) \/ Link(d)
      PROVE  DeskInv'
  BY <1>1, RevokeKeeps, RevocationKeeps, CreateKeeps, LinkKeeps
<1>2. CASE PortalIssues
  <2>1. "portal" \in Desks
    BY DEF Desks
  <2> QED
    BY <1>2, <2>1, IssueBegins DEF PortalIssues
<1>3. CASE PortalRegisters \/ Approve \/ GetUpdates
  BY <1>3, DeskIdles DEF PortalRegisters, Approve, GetUpdates, deskBounds
<1>4. ASSUME NEW u \in Buttons \cup Texts, Press(u) PROVE DeskInv'
  BY <1>4, DeskIdles DEF Press, deskBounds
<1>5. CASE UNCHANGED deskVars
  BY <1>5, DeskIdles DEF deskVars
<1> QED
  BY <1>1, <1>2, <1>3, <1>4, <1>5, SyncKeeps, RemovalBegins, FoundKeeps, RegistrationGoes, BotKeeps, RestartKeeps DEF DeskNext

(***************************************************************************)
(* For any number of issues, pending updates, refusals, restarts and       *)
(* removals, and any order of bot, portal and administrator: the peers     *)
(* linked to the device come from one issue, but for issues that overlap,  *)
(* a single config over a pair, and a peer whose revocation a restart cut  *)
(* off (issuePeer in telegram-bot.service.ts, issueConfig in               *)
(* telegram-portal.service.ts, reissueForTelegramRegistration and          *)
(* revokeInternal in peers.service.ts).                                    *)
(***************************************************************************)
THEOREM OldPeersAreGone == DeskSpec => []OldConfigStops
<1>1. DeskInv => OldConfigStops
  <2> SUFFICES ASSUME DeskInv, ~excused, NEW p \in peers, NEW q \in peers,
                      p.linked, ~LeftBehind(p), q.linked, ~LeftBehind(q)
               PROVE  p.issue = q.issue
    BY DEF OldConfigStops
  <2>1. ASSUME NEW r \in peers, r.linked, ~LeftBehind(r)
        PROVE  \E c \in Claimed : c.issue = r.issue
    <3>1. r \in PeerRow
      BY DEF DeskInv, DeskTables
    <3>2. CASE ~r.revoked
      BY <2>1, <3>2 DEF Claimed, Linked
    <3>3. CASE r.revoked
      <4>1. PICK c \in {issue[d] : d \in Desks} \cup {removal} : [r EXCEPT !.revoked = FALSE] \in c.now
        BY <2>1, <3>3 DEF LeftBehind
      <4>2. PICK old : old = [r EXCEPT !.revoked = FALSE]
        OBVIOUS
      <4>3. old.issue = r.issue /\ old.linked
        BY <2>1, <3>1, <4>2 DEF PeerRow
      <4>4. old \in removal.now \cup UNION {issue[d].olds \cup issue[d].now : d \in Desks}
        <5>1. CASE c = removal
          BY <4>1, <4>2, <5>1
        <5>2. ASSUME NEW d \in Desks, c = issue[d] PROVE old \in UNION {issue[e].olds \cup issue[e].now : e \in Desks}
          <6>1. old \in issue[d].olds \cup issue[d].now
            BY <4>1, <4>2, <5>2
          <6> QED
            BY <6>1
        <5> QED
          BY <4>1, <5>1, <5>2
      <4> QED
        BY <4>3, <4>4 DEF Claimed
    <3> QED
      BY <3>2, <3>3
  <2> QED
    BY <2>1 DEF DeskInv, OfOneIssue
<1> QED
  BY <1>1, DeskStarts, DeskContinues, PTL DEF DeskSpec

-----------------------------------------------------------------------------
(* TelegramDesk: its types.                                                *)

TypedCall ==
    [stage : {"idle", "revoke", "revoking", "create", "second", "back", "link"}, number : 0 .. MaxIssues,
     multi : BOOLEAN, olds : SUBSET Peers, now : SUBSET Peers, kept : BOOLEAN]

TypedRemoval == [stage : {"idle", "remove", "revoking"}, found : SUBSET Peers, now : SUBSET Peers]

Registrations == [status : {"none", "pending", "approved"}, chat : BOOLEAN]

PeerRequests == [protocol : {"none", "single", "multi"}, replace : BOOLEAN, options : BOOLEAN]

Offsets == {o \in [fetched : Nat, handled : Nat] : o.handled <= o.fetched /\ o.fetched <= Len(queue)}

(***************************************************************************)
(* What makes the types inductive: every call has the number of an issue,  *)
(* and of the updates none is fetched that is not in the queue.            *)
(***************************************************************************)
DeskTyped ==
    /\ registration \in Registrations
    /\ draft \in {"none", "organization", "name"}
    /\ peerRequest \in PeerRequests \cup {NoPeerRequest}
    /\ queue \in Seq(Buttons \cup Texts)
    /\ offset \in Offsets
    /\ peers \subseteq Peers
    /\ issue \in [Desks -> TypedCall]
    /\ \A d \in Desks : ~At(d, "idle") => issue[d].number # 0
    /\ removal \in TypedRemoval
    /\ issues \in 0 .. MaxIssues

LEMMA RegistrationsMade ==
    /\ [status |-> "none", chat |-> FALSE] \in Registrations
    /\ [status |-> "pending", chat |-> FALSE] \in Registrations
    /\ [status |-> "pending", chat |-> TRUE] \in Registrations
BY DEF Registrations

LEMMA NoIssueIsTyped == NoIssue \in TypedCall /\ NoIssue.stage = "idle" /\ NoRemoval \in TypedRemoval
BY DeskAssumption DEF NoIssue, TypedCall, NoRemoval, TypedRemoval

LEMMA RevokedIsTyped ==
    ASSUME NEW p \in Peers, peers \subseteq Peers, SaveRevoked(p) \/ Dropped(p) \/ PutBack(p)
    PROVE  peers' \subseteq Peers
<1>1. [p EXCEPT !.revoked = TRUE] \in Peers
  BY DEF Peers
<1> QED
  BY <1>1 DEF SaveRevoked, Dropped, PutBack

\* A step changes the call of one desk only.
LEMMA CallIsTyped ==
    ASSUME DeskTyped, NEW d \in Desks, NEW record \in TypedCall, issue' = [issue EXCEPT ![d] = record],
           record.stage # "idle" => record.number # 0
    PROVE  issue' \in [Desks -> TypedCall] /\ \A e \in Desks : ~At(e, "idle")' => issue'[e].number # 0
<1>1. issue' \in [Desks -> TypedCall] /\ issue'[d] = record /\ \A e \in Desks \ {d} : issue'[e] = issue[e]
  BY DEF DeskTyped
<1> QED
  BY <1>1 DEF DeskTyped, At

LEMMA IssueBeginsTyped ==
    ASSUME DeskTyped, NEW d \in Desks, NEW multi \in BOOLEAN, BeginIssue(d, multi)
    PROVE  /\ issue' \in [Desks -> TypedCall] /\ \A e \in Desks : ~At(e, "idle")' => issue'[e].number # 0
           /\ issues' \in 0 .. MaxIssues
<1>1. PICK olds \in IF Linked = {} THEN {{}} ELSE Olds(multi) :
        issue' = [issue EXCEPT ![d] =
            [stage |-> "revoke", number |-> issues + 1, multi |-> multi, olds |-> olds,
             now |-> {}, kept |-> TRUE]]
  BY DEF BeginIssue
<1>2. olds \subseteq Peers
  BY <1>1 DEF Olds, Linked, DeskTyped
<1>3. issues' = issues + 1 /\ issues + 1 \in 1 .. MaxIssues
  BY DeskAssumption DEF BeginIssue, DeskTyped
<1>4. PICK new : new = [stage |-> "revoke", number |-> issues + 1, multi |-> multi, olds |-> olds,
                        now |-> {}, kept |-> TRUE]
  OBVIOUS
<1>5. new \in TypedCall /\ (new.stage # "idle" => new.number # 0)
  BY <1>2, <1>3, <1>4 DEF TypedCall
<1>6. issue' = [issue EXCEPT ![d] = new]
  BY <1>1, <1>4
<1>7. issue' \in [Desks -> TypedCall] /\ \A e \in Desks : ~At(e, "idle")' => issue'[e].number # 0
  BY <1>5, <1>6, CallIsTyped
<1>8. issues' \in 0 .. MaxIssues
  BY <1>3
<1> QED
  BY <1>7, <1>8

LEMMA DeskCallTyped ==
    ASSUME DeskTyped, NEW d \in Desks,
           \/ RevokeOld(d) \/ RevocationEnds(d) \/ RevocationFails(d)
           \/ CreateOne(d) \/ CreateSecond(d) \/ Link(d)
    PROVE  DeskTyped'
<1>0. /\ UNCHANGED <<registration, draft, queue, offset, removal, issues>>
      /\ peerRequest' \in PeerRequests \cup {NoPeerRequest}
  BY DEF RevokeOld, RevocationEnds, RevocationFails, CreateOne, CreateSecond, Link, ForgetRequest, DeskTyped,
         deskBounds
<1>a. issue[d] \in TypedCall /\ issue[d].number \in 1 .. MaxIssues
  <2>1. issue[d] \in TypedCall
    BY DEF DeskTyped
  <2>2. ~At(d, "idle")
    BY DEF At, RevokeOld, RevocationEnds, RevocationFails, CreateOne, CreateSecond, Link
  <2>3. issue[d].number # 0
    BY <2>2 DEF DeskTyped
  <2>4. issue[d].number \in 0 .. MaxIssues
    BY <2>1 DEF TypedCall
  <2> QED
    BY <2>1, <2>3, <2>4, DeskAssumption
<1>b. \A second \in BOOLEAN : MadePeer(d, second) \in Peers
  BY <1>a DEF MadePeer, Peers
<1>1. peers' \subseteq Peers
  <2>1. CASE Link(d)
    <3>1. \A p \in Peers : [p EXCEPT !.linked = TRUE] \in Peers
      BY DEF Peers
    <3> QED
      BY <2>1, <3>1 DEF Link, DeskTyped
  <2>2. CASE RevokeOld(d) \/ RevocationEnds(d) \/ RevocationFails(d)
    <3>1. \/ UNCHANGED peers
          \/ \E p \in issue[d].olds \cup issue[d].now : SaveRevoked(p) \/ Dropped(p) \/ PutBack(p)
      BY <2>2 DEF RevokeOld, RevocationEnds, RevocationFails
    <3>2. issue[d].olds \cup issue[d].now \subseteq Peers
      BY <1>a DEF TypedCall
    <3> QED
      BY <3>1, <3>2, RevokedIsTyped DEF DeskTyped
  <2>3. CASE CreateOne(d) \/ CreateSecond(d)
    <3>1. \/ UNCHANGED peers
          \/ \E second \in BOOLEAN : peers' = peers \cup {MadePeer(d, second)} \/ SaveRevoked(MadePeer(d, second))
      BY <2>3 DEF CreateOne, CreateSecond
    <3> QED
      BY <1>b, <3>1, RevokedIsTyped DEF DeskTyped
  <2> QED
    BY <2>1, <2>2, <2>3
<1>2. \E new \in TypedCall :
        issue' = [issue EXCEPT ![d] = new] /\ (new.stage # "idle" => new.number # 0)
  <2>1. CASE IssueEnds(d)
    BY <2>1, NoIssueIsTyped DEF IssueEnds
  <2>2. ASSUME NEW to \in {"create", "second", "link"}, issue' = [issue EXCEPT ![d].stage = to]
        PROVE  \E new \in TypedCall :
                 issue' = [issue EXCEPT ![d] = new] /\ (new.stage # "idle" => new.number # 0)
    <3>1. PICK new : new = [issue[d] EXCEPT !.stage = to]
      OBVIOUS
    <3>2. new \in TypedCall /\ new.number # 0
      BY <1>a, <3>1 DEF TypedCall
    <3>3. issue' = [issue EXCEPT ![d] = new]
      BY <2>2, <3>1 DEF DeskTyped
    <3> QED
      BY <3>2, <3>3
  <2>3. ASSUME NEW p \in issue[d].olds, issue' = [issue EXCEPT ![d] = Revoking(issue[d], p)]
        PROVE  \E new \in TypedCall :
                 issue' = [issue EXCEPT ![d] = new] /\ (new.stage # "idle" => new.number # 0)
    <3>1. PICK new : new = Revoking(issue[d], p)
      OBVIOUS
    <3>2. new \in TypedCall
      BY <1>a, <3>1 DEF TypedCall, Revoking
    <3>3. new.number = issue[d].number
      BY <1>a, <3>1 DEF TypedCall, Revoking
    <3>4. new.number # 0
      BY <1>a, <3>3
    <3> QED
      BY <2>3, <3>1, <3>2, <3>4, Zenon
  <2>4. ASSUME NEW to \in {"revoke", "back"}, NEW now \in SUBSET Peers,
               issue' = [issue EXCEPT ![d] = [issue[d] EXCEPT !.stage = to, !.now = now]]
        PROVE  \E new \in TypedCall :
                 issue' = [issue EXCEPT ![d] = new] /\ (new.stage # "idle" => new.number # 0)
    <3>1. PICK new : new = [issue[d] EXCEPT !.stage = to, !.now = now]
      OBVIOUS
    <3>2. new \in TypedCall
      BY <1>a, <3>1 DEF TypedCall
    <3>3. new.number = issue[d].number
      BY <1>a, <3>1 DEF TypedCall
    <3>4. new.number # 0
      BY <1>a, <3>3
    <3> QED
      BY <2>4, <3>1, <3>2, <3>4, Zenon
  <2>5. CASE RevokeOld(d)
    BY <2>1, <2>2, <2>3, <2>5 DEF RevokeOld
  <2>6. CASE RevocationEnds(d) \/ RevocationFails(d)
    <3>1. IssueEnds(d) \/ issue' = [issue EXCEPT ![d] = [issue[d] EXCEPT !.stage = "revoke", !.now = {}]]
      BY <2>6 DEF RevocationEnds, RevocationFails
    <3>2. {} \in SUBSET Peers
      OBVIOUS
    <3> QED
      BY <2>1, <2>4, <3>1, <3>2, Zenon
  <2>7. CASE CreateOne(d) \/ Link(d)
    BY <2>1, <2>2, <2>7 DEF CreateOne, Link
  <2>8. CASE CreateSecond(d)
    <3>1. \/ issue' = [issue EXCEPT ![d].stage = "link"]
          \/ issue' = [issue EXCEPT ![d] = [issue[d] EXCEPT !.stage = "back", !.now = {MadePeer(d, FALSE)}]]
      BY <2>8 DEF CreateSecond
    <3>2. {MadePeer(d, FALSE)} \in SUBSET Peers
      BY <1>b
    <3> QED
      BY <2>2, <2>4, <3>1, <3>2, Zenon
  <2> QED
    BY <2>5, <2>6, <2>7, <2>8
<1>3. issue' \in [Desks -> TypedCall] /\ \A e \in Desks : ~At(e, "idle")' => issue'[e].number # 0
  BY <1>2, CallIsTyped
<1> QED
  BY <1>0, <1>1, <1>3 DEF DeskTyped, Offsets

\* Registrations and peers: nothing else changes.
LEMMA RegistryTyped ==
    ASSUME DeskTyped,
           \/ PortalRegisters \/ Approve \/ LaterSync
           \/ RequestRemoval \/ RevokeFound \/ FoundIsRevoked \/ RemoveRegistration
    PROVE  DeskTyped'
<1>0. UNCHANGED <<draft, peerRequest, queue, offset, issues>>
  BY DEF PortalRegisters, Approve, LaterSync, RequestRemoval, RevokeFound, FoundIsRevoked, RemoveRegistration,
         bot, deskBounds
<1>1. registration' \in Registrations
  <2>1. CASE Approve
    BY <2>1 DEF Approve, DeskTyped, Registrations
  <2>2. CASE PortalRegisters \/ RemoveRegistration
    BY <2>2, RegistrationsMade DEF PortalRegisters, RemoveRegistration
  <2>3. CASE LaterSync \/ RequestRemoval \/ RevokeFound \/ FoundIsRevoked
    BY <2>3 DEF LaterSync, RequestRemoval, RevokeFound, FoundIsRevoked, DeskTyped
  <2> QED
    BY <2>1, <2>2, <2>3
<1>2. peers' \subseteq Peers
  <2>1. CASE RemoveRegistration
    <3>1. \A p \in Peers : [p EXCEPT !.linked = FALSE] \in Peers
      BY DEF Peers
    <3> QED
      BY <2>1, <3>1 DEF RemoveRegistration, DeskTyped
  <2>2. CASE PortalRegisters \/ Approve \/ LaterSync \/ RequestRemoval
    BY <2>2 DEF PortalRegisters, Approve, LaterSync, RequestRemoval, DeskTyped
  <2>3. CASE RevokeFound \/ FoundIsRevoked
    BY <2>3, RevokedIsTyped DEF RevokeFound, FoundIsRevoked, DeskTyped, TypedRemoval
  <2> QED
    BY <2>1, <2>2, <2>3
<1>3. removal' \in TypedRemoval
  <2>1. CASE PortalRegisters \/ Approve \/ LaterSync
    BY <2>1 DEF PortalRegisters, Approve, LaterSync, DeskTyped
  <2>2. CASE RequestRemoval
    BY <2>2 DEF RequestRemoval, DeskTyped, TypedRemoval, Linked
  <2>3. CASE RevokeFound
    BY <2>3 DEF RevokeFound, DeskTyped, TypedRemoval
  <2>4. CASE FoundIsRevoked
    BY <2>4 DEF FoundIsRevoked, DeskTyped, TypedRemoval
  <2>5. CASE RemoveRegistration
    BY <2>5, NoIssueIsTyped DEF RemoveRegistration
  <2> QED
    BY <2>1, <2>2, <2>3, <2>4, <2>5
<1>4. issue' \in [Desks -> TypedCall] /\ \A e \in Desks : ~At(e, "idle")' => issue'[e].number # 0
  <2>1. CASE UNCHANGED issue
    BY <2>1 DEF DeskTyped, At
  <2>2. CASE RemoveRegistration
    <3>1. ASSUME NEW e \in Desks
          PROVE  /\ issue'[e] \in TypedCall /\ issue'[e].stage = issue[e].stage
                 /\ issue'[e].number = issue[e].number
      <4>1. issue'[e] = [issue[e] EXCEPT !.kept = FALSE] /\ issue[e] \in TypedCall
        BY <2>2 DEF RemoveRegistration, DeskTyped
      <4> QED
        BY <4>1 DEF TypedCall
    <3>2. issue' \in [Desks -> TypedCall]
      BY <2>2, <3>1 DEF RemoveRegistration
    <3> QED
      BY <3>1, <3>2 DEF DeskTyped, At
  <2> QED
    BY <2>1, <2>2 DEF PortalRegisters, Approve, LaterSync, RequestRemoval, RevokeFound, FoundIsRevoked
<1> QED
  BY <1>0, <1>1, <1>2, <1>3, <1>4 DEF DeskTyped, Offsets

LEMMA QueueTyped ==
    ASSUME DeskTyped, (\E u \in Buttons \cup Texts : Press(u)) \/ GetUpdates
    PROVE  DeskTyped'
<1>0. UNCHANGED <<registration, draft, peerRequest, peers, issue, removal, issues>>
  BY DEF Press, GetUpdates, deskBounds
<1>1. queue' \in Seq(Buttons \cup Texts) /\ offset' \in Offsets'
  <2>1. ASSUME NEW u \in Buttons \cup Texts, Press(u) PROVE queue' \in Seq(Buttons \cup Texts) /\ offset' \in Offsets'
    <3>1. queue' \in Seq(Buttons \cup Texts) /\ Len(queue') = Len(queue) + 1 /\ offset' = offset
      BY <2>1 DEF Press, DeskTyped
    <3>2. Len(queue) \in Nat
      BY DEF DeskTyped
    <3> QED
      BY <3>1, <3>2 DEF DeskTyped, Offsets
  <2>2. CASE GetUpdates
    <3>1. queue \in Seq(Buttons \cup Texts) /\ Len(queue) \in Nat /\ offset.handled \in Nat /\ offset.handled <= Len(queue)
      BY DEF DeskTyped, Offsets
    <3>2. queue' = SubSeq(queue, offset.handled + 1, Len(queue)) /\ offset' = [fetched |-> Len(queue'), handled |-> 0]
      BY <2>2 DEF GetUpdates
    <3>3. queue' \in Seq(Buttons \cup Texts)
      BY <3>1, <3>2
    <3>4. Len(queue') \in Nat
      BY <3>3
    <3> QED
      BY <3>2, <3>3, <3>4 DEF Offsets
  <2> QED
    BY <2>1, <2>2
<1> QED
  BY <1>0, <1>1 DEF DeskTyped, At

LEMMA UpdateTyped ==
    ASSUME DeskTyped, NEW u, TakeUpdate(u),
           registration' \in Registrations,
           draft' \in {"none", "organization", "name"},
           peerRequest' \in PeerRequests \cup {NoPeerRequest},
           NoIssueBegins \/ \E multi \in BOOLEAN : BeginIssue("bot", multi)
    PROVE  DeskTyped'
<1>1. UNCHANGED <<queue, peers, removal>> /\ offset' = [offset EXCEPT !.handled = @ + 1] /\ offset.handled < offset.fetched
  BY DEF TakeUpdate
<1>2. offset' \in Offsets'
  BY <1>1 DEF DeskTyped, Offsets
<1>3. /\ issue' \in [Desks -> TypedCall] /\ \A e \in Desks : ~At(e, "idle")' => issue'[e].number # 0
      /\ issues' \in 0 .. MaxIssues
  <2>1. CASE NoIssueBegins
    BY <2>1 DEF NoIssueBegins, DeskTyped, At
  <2>2. ASSUME NEW multi \in BOOLEAN, BeginIssue("bot", multi)
        PROVE  /\ issue' \in [Desks -> TypedCall] /\ \A e \in Desks : ~At(e, "idle")' => issue'[e].number # 0
               /\ issues' \in 0 .. MaxIssues
    BY <2>2, IssueBeginsTyped DEF Desks
  <2> QED
    BY <2>1, <2>2
<1> QED
  BY <1>1, <1>2, <1>3 DEF DeskTyped

LEMMA DialogueTyped ==
    ASSUME DeskTyped, HandleStart \/ HandleText \/ HandleDevice
    PROVE  DeskTyped'
<1>1. PICK u : TakeUpdate(u)
  BY DEF HandleStart, HandleText, HandleDevice
<1>2. NoIssueBegins
  BY DEF HandleStart, HandleText, HandleDevice
<1>3. registration' \in Registrations
  <2>1. CASE HandleStart
    <3>1. registration' \in {registration, [registration EXCEPT !.chat = TRUE]}
      BY <2>1 DEF HandleStart
    <3>2. [registration EXCEPT !.chat = TRUE] \in Registrations
      BY DEF DeskTyped, Registrations
    <3> QED
      BY <3>1, <3>2 DEF DeskTyped
  <2>2. CASE HandleText
    <3>1. registration' \in {registration, [status |-> "pending", chat |-> TRUE]}
      BY <2>2 DEF HandleText
    <3> QED
      BY <3>1, RegistrationsMade DEF DeskTyped
  <2>3. CASE HandleDevice
    BY <2>3 DEF HandleDevice, DeskTyped
  <2> QED
    BY <2>1, <2>2, <2>3
<1>4. draft' \in {"none", "organization", "name"}
  BY DEF HandleStart, HandleText, HandleDevice, DeskTyped
<1>5. peerRequest' \in PeerRequests \cup {NoPeerRequest}
  <2>1. CASE HandleDevice
    <3>1. PICK r \in BOOLEAN : peerRequest' \in {peerRequest, [protocol |-> "none", replace |-> r, options |-> FALSE]}
      <4>1. PICK v \in {"device", "change"} :
              peerRequest' \in {peerRequest, [protocol |-> "none", replace |-> v = "change", options |-> FALSE]}
        BY <2>1 DEF HandleDevice
      <4> QED
        BY <4>1
    <3>2. [protocol |-> "none", replace |-> r, options |-> FALSE] \in PeerRequests
      BY DEF PeerRequests
    <3> QED
      BY <3>1, <3>2 DEF DeskTyped
  <2>2. CASE HandleStart \/ HandleText
    BY <2>2 DEF HandleStart, HandleText, DeskTyped
  <2> QED
    BY <2>1, <2>2
<1> QED
  BY <1>1, <1>2, <1>3, <1>4, <1>5, UpdateTyped

LEMMA ConfirmTyped ==
    ASSUME NEW r \in PeerRequests, ConfirmOrIssue(r)
    PROVE  peerRequest' \in PeerRequests /\ (NoIssueBegins \/ \E multi \in BOOLEAN : BeginIssue("bot", multi))
BY DEF ConfirmOrIssue

LEMMA ChoiceTyped ==
    ASSUME DeskTyped, HandleProtocol \/ HandleUpstream \/ HandleAnswer
    PROVE  DeskTyped'
<1>1. PICK u : TakeUpdate(u)
  BY DEF HandleProtocol, HandleUpstream, HandleAnswer
<1>2. UNCHANGED <<registration, draft>>
  BY DEF HandleProtocol, HandleUpstream, HandleAnswer
<1>3. /\ peerRequest' \in PeerRequests \cup {NoPeerRequest}
      /\ NoIssueBegins \/ \E multi \in BOOLEAN : BeginIssue("bot", multi)
  <2>1. CASE HandleProtocol
    <3>1. PICK v \in {"single", "multi"} :
            \/ UNCHANGED peerRequest /\ NoIssueBegins
            \/ peerRequest # NoPeerRequest
               /\ \/ peerRequest' = NoPeerRequest /\ NoIssueBegins
                  \/ ConfirmOrIssue([peerRequest EXCEPT !.protocol = Chosen(v)])
                  \/ peerRequest' = [[peerRequest EXCEPT !.protocol = Chosen(v)] EXCEPT !.options = TRUE] /\ NoIssueBegins
      BY <2>1 DEF HandleProtocol
    <3>2. ASSUME peerRequest # NoPeerRequest
          PROVE  /\ [peerRequest EXCEPT !.protocol = Chosen(v)] \in PeerRequests
                 /\ [[peerRequest EXCEPT !.protocol = Chosen(v)] EXCEPT !.options = TRUE] \in PeerRequests
      <4>1. PICK c \in {"none", "single", "multi"} : c = Chosen(v)
        BY <3>1 DEF Chosen
      <4> QED
        BY <3>2, <4>1 DEF DeskTyped, PeerRequests
    <3> QED
      BY <3>1, <3>2, ConfirmTyped DEF DeskTyped
  <2>2. CASE HandleUpstream
    <3>1. \/ UNCHANGED peerRequest /\ NoIssueBegins
          \/ peerRequest # NoPeerRequest /\ ConfirmOrIssue(peerRequest)
      BY <2>2 DEF HandleUpstream
    <3> QED
      BY <3>1, ConfirmTyped DEF DeskTyped
  <2>3. CASE HandleAnswer
    BY <2>3 DEF HandleAnswer, DeskTyped
  <2> QED
    BY <2>1, <2>2, <2>3
<1> QED
  BY <1>1, <1>2, <1>3, UpdateTyped DEF DeskTyped

LEMMA DeskStaysTyped == DeskTyped /\ [DeskNext]_deskVars => DeskTyped'
<1> SUFFICES ASSUME DeskTyped, [DeskNext]_deskVars PROVE DeskTyped'
  OBVIOUS
<1>1. ASSUME NEW d \in Desks,
             \/ RevokeOld(d) \/ RevocationEnds(d) \/ RevocationFails(d)
             \/ CreateOne(d) \/ CreateSecond(d) \/ Link(d)
      PROVE  DeskTyped'
  BY <1>1, DeskCallTyped
<1>2. CASE PortalIssues
  <2>1. PICK multi \in BOOLEAN : BeginIssue("portal", multi)
    BY <1>2 DEF PortalIssues
  <2>2. UNCHANGED <<registration, draft, peerRequest, queue, offset, peers, removal>>
    BY <1>2 DEF PortalIssues, bot
  <2>3. /\ issue' \in [Desks -> TypedCall] /\ \A e \in Desks : ~At(e, "idle")' => issue'[e].number # 0
        /\ issues' \in 0 .. MaxIssues
    BY <2>1, IssueBeginsTyped DEF Desks
  <2> QED
    BY <2>2, <2>3 DEF DeskTyped, Offsets
<1>3. CASE \/ PortalRegisters \/ Approve \/ LaterSync
           \/ RequestRemoval \/ RevokeFound \/ FoundIsRevoked \/ RemoveRegistration
  BY <1>3, RegistryTyped
<1>4. CASE (\E u \in Buttons \cup Texts : Press(u)) \/ GetUpdates
  BY <1>4, QueueTyped
<1>5. CASE HandleStart \/ HandleText \/ HandleDevice
  BY <1>5, DialogueTyped
<1>6. CASE HandleProtocol \/ HandleUpstream \/ HandleAnswer
  BY <1>6, ChoiceTyped
<1>7. CASE DeskRestarts
  <2>1. /\ UNCHANGED <<registration, queue, peers, issues>>
        /\ draft' = "none" /\ peerRequest' = NoPeerRequest
        /\ offset' = [fetched |-> 0, handled |-> 0] /\ issue' = [d \in Desks |-> NoIssue]
        /\ removal' = NoRemoval
    BY <1>7 DEF DeskRestarts
  <2>2. offset' \in Offsets'
    BY <2>1 DEF Offsets, DeskTyped
  <2> QED
    BY <2>1, <2>2, NoIssueIsTyped DEF DeskTyped, At
<1>8. CASE UNCHANGED deskVars
  BY <1>8 DEF deskVars, DeskTyped, Offsets, At
<1> QED
  BY <1>1, <1>2, <1>3, <1>4, <1>5, <1>6, <1>7, <1>8 DEF DeskNext

(***************************************************************************)
(* Registration, dialogue, requests, queue and peers have their types, for *)
(* any person, updates, restarts and refusals; in particular the bot never *)
(* handles an update it has not fetched, nor has one that is not in the    *)
(* queue.                                                                  *)
(***************************************************************************)
THEOREM DeskKeepsTypes == DeskSpec => []DeskTypeOK
<1>1. DeskInit => DeskTyped
  BY NoIssueIsTyped, DeskAssumption DEF DeskInit, DeskTyped, Offsets, Registrations, At
<1>2. DeskTyped => DeskTypeOK
  BY DEF DeskTyped, DeskTypeOK, Offsets, TypedCall, TypedRemoval, PeerRequests, Registrations
<1> QED
  BY <1>1, <1>2, DeskStaysTyped, PTL DEF DeskSpec

=============================================================================

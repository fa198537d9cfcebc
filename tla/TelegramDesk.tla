---------------------------- MODULE TelegramDesk ----------------------------
(***************************************************************************)
(* One person and one device at the counter where configs are handed out:  *)
(* the bot with its dialogue in memory and its offset in Telegram's queue  *)
(* (telegram-bot.service.ts), the page that does the same without a        *)
(* dialogue (telegram-portal.service.ts), the administrator who approves   *)
(* and removes registrations (telegram-registrations.service.ts), and the  *)
(* peers they make and revoke (peers.service.ts): a row is saved as        *)
(* revoked, the server is told, and then the row goes or, if the server    *)
(* cannot be told, is as it was.                                           *)
(***************************************************************************)
EXTENDS Naturals, Sequences, FiniteSets

CONSTANTS
    NoPeerRequest,
    MaxIssues,       \* bound on the configs asked for
    MaxPending,      \* bound on updates that are not confirmed
    MaxDeskFaults    \* bound on refusals of servers, restarts and removals; the
                     \* revocations of these, and of half a pair, may be refused, too

ASSUME DeskAssumption == {MaxIssues, MaxPending, MaxDeskFaults} \subseteq Nat

VARIABLES
    registration, \* its row: status, and whether a chat is linked
    draft,        \* drafts: the step of the dialogue
    peerRequest,  \* peerRequests
    queue,        \* updates Telegram keeps until a poll confirms them
    offset,       \* of them fetched, and handled, by the bot
    peers,        \* those of the device that servers accept, as their rows say
    issue,        \* calls that hand out a config
    removal,      \* the call that removes the registration: peers it has found
    issues, deskFaults,
    excused       \* see OldConfigStops

deskVars == <<registration, draft, peerRequest, queue, offset, peers, issue, removal,
              issues, deskFaults, excused>>

\* The issue a peer comes from, which of a pair it is (the second one has the other
\* protocol), whether its row has the registration, and whether it says revoked.
Peers == [issue : 1 .. MaxIssues, second : BOOLEAN, linked : BOOLEAN, revoked : BOOLEAN]

\* Of a call: the peers to revoke, the one that is being revoked, both as they were
\* read, and whether its registration is still there.
Desks == {"bot", "portal"}
NoIssue == [stage |-> "idle", number |-> 0, multi |-> FALSE, olds |-> {}, now |-> {}, kept |-> TRUE]
NoRemoval == [stage |-> "idle", found |-> {}, now |-> {}]

Buttons == {"device", "change", "single", "multi", "upstream", "yes", "no"}
Texts == {"start", "token", "text"}

DeskTypeOK ==
    /\ registration \in [status : {"none", "pending", "approved"}, chat : BOOLEAN]
    /\ draft \in {"none", "organization", "name"}
    /\ peerRequest \in [protocol : {"none", "single", "multi"}, replace : BOOLEAN, options : BOOLEAN] \cup {NoPeerRequest}
    /\ queue \in Seq(Buttons \cup Texts)
    /\ offset.handled <= offset.fetched /\ offset.fetched <= Len(queue)
    /\ peers \subseteq Peers
    /\ \A d \in Desks :
        /\ issue[d].stage \in {"idle", "revoke", "revoking", "create", "second", "back", "link"}
        /\ issue[d].olds \cup issue[d].now \subseteq Peers
    /\ removal.stage \in {"idle", "remove", "revoking"}
    /\ removal.found \cup removal.now \subseteq Peers

DeskInit ==
    /\ registration = [status |-> "approved", chat |-> TRUE]
    /\ draft = "none" /\ peerRequest = NoPeerRequest
    /\ queue = <<>> /\ offset = [fetched |-> 0, handled |-> 0]
    /\ peers = {}
    /\ issue = [d \in Desks |-> NoIssue]
    /\ removal = NoRemoval
    /\ issues = 0 /\ deskFaults = 0
    /\ excused = FALSE

deskBounds == <<issues, deskFaults>>
bot == <<draft, peerRequest, queue, offset>>

DeskFault == deskFaults < MaxDeskFaults /\ deskFaults' = deskFaults + 1

\* What a lookup by registration and device finds: active peers only.
Linked == {p \in peers : p.linked /\ ~p.revoked}

-----------------------------------------------------------------------------
(* revokeInternal and the removal of the row, for one of its callers *)

SameRow(p) == {q \in peers : q.issue = p.issue /\ q.second = p.second}

\* Saved as revoked, before the server is told; a row that is gone is there again.
SaveRevoked(p) == peers' = (peers \ SameRow(p)) \cup {[p EXCEPT !.revoked = TRUE]}

\* The server is told, the row is removed.
Dropped(p) == peers' = peers \ SameRow(p)

\* The server cannot be told: the row is saved as it was.
PutBack(p) == peers' = (peers \ SameRow(p)) \cup {p}

\* The list of active peers is written to the server for some other reason.
LaterSync ==
    /\ \E p \in peers : p.revoked /\ peers' = peers \ {p}
    /\ UNCHANGED <<registration, bot, issue, removal, deskBounds, excused>>

-----------------------------------------------------------------------------
(* Handing out a config *)

\* Mutant: one peer of a pair is taken for the whole of it.
OldsOne(multi) == {{p} : p \in Linked}

\* reissueMulti... takes every active peer of the device, reissue... only one.
Olds(multi) == IF multi THEN {Linked} ELSE {{p} : p \in Linked}

\* issuePeer and issueConfig: with a config in force it is a reissue.
BeginIssue(d, multi) ==
    /\ issues < MaxIssues /\ issues' = issues + 1
    /\ \E olds \in IF Linked = {} THEN {{}} ELSE Olds(multi) :
        issue' = [issue EXCEPT ![d] =
            [stage |-> "revoke", number |-> issues + 1, multi |-> multi, olds |-> olds,
             now |-> {}, kept |-> TRUE]]
    /\ excused' = \/ excused
                  \/ \E e \in Desks \ {d} : issue[e].stage # "idle"
                  \/ removal.found \cup removal.now # {}
                  \/ ~multi /\ Cardinality(Linked) > 1

IssueEnds(d) == issue' = [issue EXCEPT ![d] = NoIssue]

At(d, stage) == issue[d].stage = stage

\* The finally of issuePeer.
ForgetRequest(d) == peerRequest' = IF d = "bot" THEN NoPeerRequest ELSE peerRequest

\* A call turns to one of the old peers.
Revoking(c, p) == [c EXCEPT !.stage = "revoking", !.now = {p}, !.olds = @ \ {p}]

\* Without its registration a row is not saved, the reference is refused.
RevokeOld(d) ==
    /\ At(d, "revoke")
    /\ \/ /\ issue[d].olds = {}
          /\ issue' = [issue EXCEPT ![d].stage = "create"]
          /\ UNCHANGED <<peers, peerRequest>>
       \/ /\ issue[d].kept
          /\ \E p \in issue[d].olds :
                /\ SaveRevoked(p)
                /\ issue' = [issue EXCEPT ![d] = Revoking(issue[d], p)]
          /\ UNCHANGED peerRequest
       \/ /\ issue[d].olds # {} /\ ~issue[d].kept
          /\ IssueEnds(d) /\ ForgetRequest(d)
          /\ UNCHANGED peers
    /\ UNCHANGED <<registration, draft, queue, offset, removal, deskBounds, excused>>

\* After the old ones the new ones follow; half a pair that was taken back was all.
RevocationEnds(d) ==
    /\ issue[d].stage \in {"revoking", "back"}
    /\ \E p \in issue[d].now : Dropped(p)
    /\ IF At(d, "revoking")
         THEN issue' = [issue EXCEPT ![d] = [issue[d] EXCEPT !.stage = "revoke", !.now = {}]] /\ UNCHANGED peerRequest
         ELSE IssueEnds(d) /\ ForgetRequest(d)
    /\ UNCHANGED <<registration, draft, queue, offset, removal, deskBounds, excused>>

RevocationFails(d) ==
    /\ issue[d].stage \in {"revoking", "back"}
    /\ IF At(d, "revoking") THEN DeskFault ELSE UNCHANGED deskFaults
    /\ \E p \in issue[d].now : IF p.linked /\ ~issue[d].kept THEN UNCHANGED peers ELSE PutBack(p)
    /\ IssueEnds(d) /\ ForgetRequest(d)
    /\ UNCHANGED <<registration, draft, queue, offset, removal, issues, excused>>

MadePeer(d, second) == [issue |-> issue[d].number, second |-> second, linked |-> FALSE, revoked |-> FALSE]

CreateOne(d) ==
    /\ At(d, "create")
    /\ \/ /\ peers' = peers \cup {MadePeer(d, FALSE)}
          /\ issue' = [issue EXCEPT ![d].stage = IF issue[d].multi THEN "second" ELSE "link"]
          /\ UNCHANGED <<peerRequest, deskFaults>>
       \/ /\ DeskFault
          /\ IssueEnds(d) /\ ForgetRequest(d)
          /\ UNCHANGED peers
    /\ UNCHANGED <<registration, draft, queue, offset, removal, issues, excused>>

\* The second one of a pair; if it fails, the first one is taken back.
CreateSecond(d) ==
    /\ At(d, "second")
    /\ \/ /\ peers' = peers \cup {MadePeer(d, TRUE)}
          /\ issue' = [issue EXCEPT ![d].stage = "link"]
          /\ UNCHANGED deskFaults
       \/ /\ DeskFault
          /\ SaveRevoked(MadePeer(d, FALSE))
          /\ issue' = [issue EXCEPT ![d] = [issue[d] EXCEPT !.stage = "back", !.now = {MadePeer(d, FALSE)}]]
    /\ UNCHANGED <<registration, draft, peerRequest, queue, offset, removal, issues, excused>>

\* The peers are saved again with the registration; without its row the
\* reference is refused and they stay as they are.
Link(d) ==
    /\ At(d, "link")
    /\ peers' = IF ~issue[d].kept THEN peers
                ELSE {IF p.issue = issue[d].number THEN [p EXCEPT !.linked = TRUE] ELSE p : p \in peers}
    /\ IssueEnds(d) /\ ForgetRequest(d)
    /\ UNCHANGED <<registration, draft, queue, offset, removal, deskBounds, excused>>

PortalIssues ==
    /\ At("portal", "idle")
    /\ registration.status = "approved" /\ registration.chat
    /\ \E multi \in BOOLEAN : BeginIssue("portal", multi)
    /\ UNCHANGED <<registration, bot, peers, removal, deskFaults>>

-----------------------------------------------------------------------------
(* Registrations *)

PortalRegisters ==
    /\ registration.status = "none"
    /\ registration' = [status |-> "pending", chat |-> FALSE]
    /\ UNCHANGED <<bot, peers, issue, removal, deskBounds, excused>>

Approve ==
    /\ registration.status = "pending"
    /\ registration' = [registration EXCEPT !.status = "approved"]
    /\ UNCHANGED <<bot, peers, issue, removal, deskBounds, excused>>

RequestRemoval ==
    /\ registration.status # "none" /\ removal.stage = "idle"
    /\ DeskFault
    /\ \E found \in {{}, Linked} :
        /\ removal' = [stage |-> "remove", found |-> found, now |-> {}]
        /\ excused' = (excused \/ (found # {} /\ \E d \in Desks : issue[d].stage # "idle"))
    /\ UNCHANGED <<registration, bot, peers, issue, issues>>

\* revokeAllPeers...: a peer that cannot be revoked is only logged.
RevokeFound ==
    /\ removal.stage = "remove"
    /\ \E p \in removal.found :
        /\ SaveRevoked(p)
        /\ removal' = [stage |-> "revoking", found |-> removal.found \ {p}, now |-> {p}]
    /\ UNCHANGED <<registration, bot, issue, deskBounds, excused>>

FoundIsRevoked ==
    /\ removal.stage = "revoking"
    /\ \E p \in removal.now : Dropped(p) \/ PutBack(p)
    /\ removal' = [removal EXCEPT !.stage = "remove", !.now = {}]
    /\ UNCHANGED <<registration, bot, issue, deskBounds, excused>>

\* ON DELETE SET NULL
RemoveRegistration ==
    /\ removal.stage = "remove" /\ removal.found = {}
    /\ removal' = NoRemoval
    /\ registration' = [status |-> "none", chat |-> FALSE]
    /\ peers' = {[p EXCEPT !.linked = FALSE] : p \in peers}
    /\ issue' = [d \in Desks |-> [issue[d] EXCEPT !.kept = FALSE]]
    /\ UNCHANGED <<bot, deskBounds, excused>>

-----------------------------------------------------------------------------
(* The bot *)

Known == registration.status # "none" /\ registration.chat
Approved == Known /\ registration.status = "approved"

\* The person writes, or presses any button that is still in the chat; of the
\* texts only those of a registration matter here.
Press(u) ==
    /\ Len(queue) < MaxPending
    /\ u \in Texts => ~Known \/ draft # "none"
    /\ queue' = Append(queue, u)
    /\ UNCHANGED <<registration, draft, peerRequest, offset, peers, issue, removal, deskBounds, excused>>

\* getUpdates confirms what lies before the offset.
GetUpdates ==
    /\ offset.handled = offset.fetched /\ At("bot", "idle")
    /\ queue' = SubSeq(queue, offset.handled + 1, Len(queue))
    /\ offset' = [fetched |-> Len(queue'), handled |-> 0]
    /\ UNCHANGED <<registration, draft, peerRequest, peers, issue, removal, deskBounds, excused>>

\* The offset moves before the update is handled, and one is handled at a time.
TakeUpdate(u) ==
    /\ offset.handled < offset.fetched /\ At("bot", "idle")
    /\ queue[offset.handled + 1] = u
    /\ offset' = [offset EXCEPT !.handled = @ + 1]
    /\ UNCHANGED <<queue, peers, removal, deskFaults>>

NoIssueBegins == UNCHANGED <<issue, issues, excused>>

\* handleStart: a known chat gets an answer, a token links the chat, anything
\* else begins a dialogue.
HandleStart ==
    \E u \in {"start", "token"} :
        /\ TakeUpdate(u)
        /\ \/ Known /\ UNCHANGED <<registration, draft>>
           \/ /\ ~Known /\ u = "token" /\ registration.status # "none"
              /\ registration' = [registration EXCEPT !.chat = TRUE]
              /\ UNCHANGED draft
           \/ /\ ~Known /\ (u = "start" \/ registration.status = "none")
              /\ draft' = "organization"
              /\ UNCHANGED registration
        /\ UNCHANGED peerRequest
        /\ NoIssueBegins

\* handleDraftStep: whatever is written, a key of the keyboard too, is the name of
\* an organization, found or not, and then of the person, who is registered; in
\* a chat that is known by then that is refused.  Someone who registered in the
\* portal without linking the chat gets a second registration, which is another
\* one than this.  Outside a dialogue a text only gets an answer.
HandleText ==
    /\ \E u \in {"text", "device", "change"} :
        /\ TakeUpdate(u)
        /\ draft = "none" => u = "text"
    /\ \/ draft = "none" /\ UNCHANGED <<registration, draft>>
       \/ draft = "organization" /\ draft' \in {"name", "none"} /\ UNCHANGED registration
       \/ /\ draft = "name" /\ ~Known
          /\ draft' = "none"
          /\ registration' = IF registration.status = "none" THEN [status |-> "pending", chat |-> TRUE]
                             ELSE registration
       \/ draft = "name" /\ Known /\ UNCHANGED <<registration, draft>>
    /\ UNCHANGED peerRequest
    /\ NoIssueBegins

\* The keyboard: devices, and the change of a config in force.
HandleDevice ==
    \E u \in {"device", "change"} :
        /\ TakeUpdate(u) /\ draft = "none"
        /\ peerRequest' = IF Approved /\ (u = "change" => Linked # {})
                      THEN [protocol |-> "none", replace |-> u = "change", options |-> FALSE]
                      ELSE peerRequest
        /\ UNCHANGED <<registration, draft>>
        /\ NoIssueBegins

\* confirmOrIssue: a question first when a config is in force, unless the
\* person came to replace it.
ConfirmOrIssue(r) ==
    IF Linked # {} /\ ~r.replace
    THEN peerRequest' = r /\ NoIssueBegins
    ELSE peerRequest' = r /\ BeginIssue("bot", r.protocol = "multi")

\* A protocol, once chosen, is not cleared: multi wins over what is pressed later.
Chosen(u) == IF peerRequest.protocol = "multi" THEN "multi" ELSE u

\* proceedAfterProtocol: no option, one (or a default one), or a list.
HandleProtocol ==
    \E u \in {"single", "multi"} :
        /\ TakeUpdate(u)
        /\ \/ /\ ~Approved \/ peerRequest = NoPeerRequest
              /\ UNCHANGED peerRequest /\ NoIssueBegins
           \/ /\ Approved /\ peerRequest # NoPeerRequest
              /\ LET r == [peerRequest EXCEPT !.protocol = Chosen(u)]
                 IN  \/ peerRequest' = NoPeerRequest /\ NoIssueBegins
                     \/ ConfirmOrIssue(r)
                     \/ peerRequest' = [r EXCEPT !.options = TRUE] /\ NoIssueBegins
        /\ UNCHANGED <<registration, draft>>

HandleUpstream ==
    /\ TakeUpdate("upstream")
    /\ IF Approved /\ peerRequest # NoPeerRequest /\ peerRequest.options
       THEN ConfirmOrIssue(peerRequest)
       ELSE UNCHANGED peerRequest /\ NoIssueBegins
    /\ UNCHANGED <<registration, draft>>

Answerable == Approved /\ IF peerRequest = NoPeerRequest THEN FALSE ELSE peerRequest.protocol # "none"

HandleAnswer ==
    \E u \in {"yes", "no"} :
        /\ TakeUpdate(u)
        /\ IF u = "yes" /\ Answerable
           THEN BeginIssue("bot", peerRequest.protocol = "multi") /\ UNCHANGED peerRequest
           ELSE /\ peerRequest' = IF u = "no" /\ Approved THEN NoPeerRequest ELSE peerRequest
                /\ NoIssueBegins
        /\ UNCHANGED <<registration, draft>>

\* Dialogues, requests, the offset and all calls are in memory.
DeskRestarts ==
    /\ DeskFault
    /\ draft' = "none" /\ peerRequest' = NoPeerRequest
    /\ offset' = [fetched |-> 0, handled |-> 0]
    /\ issue' = [d \in Desks |-> NoIssue]
    /\ removal' = NoRemoval
    /\ UNCHANGED <<registration, queue, peers, issues, excused>>

DeskNext ==
    \/ \E d \in Desks :
        \/ RevokeOld(d) \/ RevocationEnds(d) \/ RevocationFails(d)
        \/ CreateOne(d) \/ CreateSecond(d) \/ Link(d)
    \/ LaterSync
    \/ PortalIssues \/ PortalRegisters \/ Approve
    \/ RequestRemoval \/ RevokeFound \/ FoundIsRevoked \/ RemoveRegistration
    \/ \E u \in Buttons \cup Texts : Press(u)
    \/ GetUpdates \/ HandleStart \/ HandleText \/ HandleDevice \/ HandleProtocol
    \/ HandleUpstream \/ HandleAnswer
    \/ DeskRestarts

DeskSpec == DeskInit /\ [][DeskNext]_deskVars

-----------------------------------------------------------------------------

\* A row that was left saying revoked, its server never told, by a restart: no call
\* works on it, and none finds it again.
LeftBehind(p) ==
    /\ p.revoked
    /\ \A c \in {issue[d] : d \in Desks} \cup {removal} : [p EXCEPT !.revoked = FALSE] \notin c.now

(***************************************************************************)
(* The old config stops working (the bot's question before a reissue):     *)
(* the peers of the device that servers accept come from one issue,        *)
(* through repeated updates, refusals and restarts.  Excused are two calls *)
(* that overlap, a single config asked for over a pair, of which one peer  *)
(* stays, and a peer whose revocation a restart cut off.                   *)
(***************************************************************************)
OldConfigStops ==
    excused \/ \A p, q \in {r \in peers : r.linked /\ ~LeftBehind(r)} : p.issue = q.issue

=============================================================================

---------------------------- MODULE TelegramMail ----------------------------
(***************************************************************************)
(* Broadcasts to the people the bot knows: telegram-registrations.service.ts *)
(* sends a message to one chat after the other, saves afterwards where it  *)
(* went, and takes it back from there when the broadcast is deleted.       *)
(* Every call of the Telegram API is a request with a timeout              *)
(* (notifications.service.ts), so it may do its work and still fail.       *)
(***************************************************************************)
EXTENDS Naturals, Functions

CONSTANTS
    Chats,          \* of registrations
    Mails,          \* broadcasts that may be sent
    Removers,       \* calls of deleteBroadcast that may be in progress at the same time
    NoMail,
    MaxMailFaults   \* bound on calls that fail, restarts and changes of who is approved

ASSUME MailAssumption == NoMail \notin Mails /\ MaxMailFaults \in Nat

VARIABLES
    approved,    \* chats of registrations that are approved
    inbox,       \* what is in each chat: the broadcasts, and those that are pinned
    sending,     \* the calls of broadcast: chats to come, deliveries
    broadcasts,  \* the rows of telegram_broadcasts: the deliveries of each
    removing,    \* the calls of deleteBroadcast: chats to come, chats that refused
    stranded,    \* messages of calls that were cut off, or that could not be deleted
    mailFaults

mailVars == <<approved, inbox, sending, broadcasts, removing, stranded, mailFaults>>

NotSending == [stage |-> "new", pin |-> FALSE, todo |-> {}, deliveries |-> {}]
NotRemoving == [mail |-> NoMail, todo |-> {}, refused |-> {}]

MailTypeOK ==
    /\ approved \subseteq Chats
    /\ inbox \in [Chats -> [messages : SUBSET Mails, pinned : SUBSET Mails]]
    /\ \A m \in Mails : sending[m].stage \in {"new", "sending", "ended"} /\ sending[m].todo \subseteq Chats
    /\ DOMAIN broadcasts \subseteq Mails
    /\ \A r \in Removers : removing[r].mail \in Mails \cup {NoMail}
    /\ stranded \subseteq Chats \X Mails

MailInit ==
    /\ approved = Chats
    /\ inbox = [c \in Chats |-> [messages |-> {}, pinned |-> {}]]
    /\ sending = [m \in Mails |-> NotSending]
    /\ broadcasts = << >>
    /\ removing = [r \in Removers |-> NotRemoving]
    /\ stranded = {} /\ mailFaults = 0

MailFault == mailFaults < MaxMailFaults /\ mailFaults' = mailFaults + 1

\* A registration is approved or removed.
ChangeApproved(c) ==
    /\ MailFault
    /\ approved' = IF c \in approved THEN approved \ {c} ELSE approved \cup {c}
    /\ UNCHANGED <<inbox, sending, broadcasts, removing, stranded>>

-----------------------------------------------------------------------------
(* Calls of the Telegram API                                               *)

\* post: an answer, a refusal, or none in time although it was done.
Outcomes == {"answered", "refused", "unanswered"}
Costs(outcomes) == IF outcomes = {"answered"} THEN UNCHANGED mailFaults ELSE MailFault

\* sendToChat, then pinChatMessage if asked for.
Posted(c, m, sent, pin) ==
    inbox' = [inbox EXCEPT ![c] =
        [messages |-> IF sent # "refused" THEN @.messages \cup {m} ELSE @.messages,
         pinned |-> IF sent = "answered" /\ pin # "refused" THEN @.pinned \cup {m} ELSE @.pinned]]

\* deleteMessage
Deleted(c, m, outcome) ==
    IF outcome = "refused" THEN UNCHANGED inbox
    ELSE inbox' = [inbox EXCEPT ![c] = [messages |-> @.messages \ {m}, pinned |-> @.pinned \ {m}]]

-----------------------------------------------------------------------------
(* broadcast                                                               *)

BeginBroadcast(m, pin) ==
    /\ sending[m].stage = "new"
    /\ sending' = [sending EXCEPT ![m] =
                    [stage |-> "sending", pin |-> pin, todo |-> approved, deliveries |-> {}]]
    /\ UNCHANGED <<approved, inbox, broadcasts, removing, stranded, mailFaults>>

\* Mutant: a message that cannot be pinned is not noted.
RecordedIfPinned(sent, pin) == sent = "answered" /\ pin = "answered"

\* The delivery is noted once its message is known; a failed pin is only logged.
Recorded(sent, pin) == sent = "answered"

SendNext(m) ==
    /\ sending[m].stage = "sending"
    /\ \E c \in sending[m].todo, sent \in Outcomes :
        \E pin \in IF sending[m].pin /\ sent = "answered" THEN Outcomes ELSE {"answered"} :
            /\ Costs({sent, pin})
            /\ Posted(c, m, sent, IF sending[m].pin THEN pin ELSE "refused")
            /\ sending' = [sending EXCEPT ![m] =
                    [sending[m] EXCEPT !.todo = @ \ {c},
                                       !.deliveries = IF Recorded(sent, pin) THEN @ \cup {c} ELSE @]]
            /\ stranded' = IF sent = "unanswered" THEN stranded \cup {<<c, m>>} ELSE stranded
    /\ UNCHANGED <<approved, broadcasts, removing>>

SaveBroadcast(m) ==
    /\ sending[m].stage = "sending" /\ sending[m].todo = {}
    /\ broadcasts' = [k \in DOMAIN broadcasts \cup {m} |->
                        IF k = m THEN sending[m].deliveries ELSE broadcasts[k]]
    /\ sending' = [sending EXCEPT ![m] = [NotSending EXCEPT !.stage = "ended"]]
    /\ UNCHANGED <<approved, inbox, removing, stranded, mailFaults>>

-----------------------------------------------------------------------------
(* deleteBroadcast; two administrators may delete the same one.            *)

BeginRemoval(r, m) ==
    /\ removing[r].mail = NoMail
    /\ m \in DOMAIN broadcasts
    /\ removing' = [removing EXCEPT ![r] = [mail |-> m, todo |-> broadcasts[m], refused |-> {}]]
    /\ UNCHANGED <<approved, inbox, sending, broadcasts, stranded, mailFaults>>

\* A message that is too old, or gone, or in a chat that blocked the bot, is refused.
DeleteNext(r) ==
    /\ \E c \in removing[r].todo, outcome \in Outcomes :
        /\ Costs({outcome})
        /\ Deleted(c, removing[r].mail, outcome)
        /\ removing' = [removing EXCEPT ![r].todo = @ \ {c},
                                        ![r].refused = IF outcome = "refused" THEN @ \cup {c} ELSE @]
    /\ UNCHANGED <<approved, sending, broadcasts, stranded>>

RemoveBroadcast(r) ==
    /\ removing[r].mail # NoMail /\ removing[r].todo = {}
    /\ broadcasts' = Restrict(broadcasts, DOMAIN broadcasts \ {removing[r].mail})
    /\ stranded' = stranded \cup (removing[r].refused \X {removing[r].mail})
    /\ removing' = [removing EXCEPT ![r] = NotRemoving]
    /\ UNCHANGED <<approved, inbox, sending, mailFaults>>

\* The deliveries of a broadcast that is being sent were only in memory.
MailRestart ==
    /\ MailFault
    /\ stranded' = stranded \cup UNION {sending[m].deliveries \X {m} : m \in Mails}
    /\ sending' = [m \in Mails |-> IF sending[m].stage = "new" THEN NotSending
                                   ELSE [NotSending EXCEPT !.stage = "ended"]]
    /\ removing' = [r \in Removers |-> NotRemoving]
    /\ UNCHANGED <<approved, inbox, broadcasts>>

MailNext ==
    \/ \E c \in Chats : ChangeApproved(c)
    \/ \E m \in Mails :
        \/ SendNext(m) \/ SaveBroadcast(m)
        \/ \E pin \in BOOLEAN : BeginBroadcast(m, pin)
        \/ \E r \in Removers : BeginRemoval(r, m)
    \/ \E r \in Removers : DeleteNext(r) \/ RemoveBroadcast(r)
    \/ MailRestart

MailSpec == MailInit /\ [][MailNext]_mailVars

-----------------------------------------------------------------------------

(***************************************************************************)
(* A message of a broadcast that is in a chat can be taken back: a row, or *)
(* the call that will save it, has its delivery (the comment on broadcast).*)
(* What is left over comes from a send that was not answered in time, a    *)
(* restart while a broadcast was sent, or a deletion Telegram refused.     *)
(***************************************************************************)
MessagesCanBeTakenBack ==
    \A c \in Chats : \A m \in inbox[c].messages :
        \/ <<c, m>> \in stranded
        \/ c \in sending[m].deliveries
        \/ m \in DOMAIN broadcasts /\ c \in broadcasts[m]

=============================================================================

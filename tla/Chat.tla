------------------------------- MODULE Chat -------------------------------
(***************************************************************************)
(* The two chat channels of a project, their read marks, and the           *)
(* notifications about messages: mentions, written with the message, and   *)
(* activity, written later by the consumer of the message's event.         *)
(*                                                                         *)
(*   src/modules/collab/chat/chat.service.ts        post, mark as read     *)
(*   src/modules/collab/notification/               mentions, activity     *)
(*   src/modules/collab/member/member.service.ts    members                *)
(*   src/jobs/prune-notifications.ts                retention              *)
(*                                                                         *)
(* A message is stamped when its transaction begins and becomes visible    *)
(* when it commits, so messages may appear out of the order of their       *)
(* stamps.  markChatAsRead is three statements with no transaction around  *)
(* them, and "up to" compares stamps: of messages for read marks and       *)
(* mentions, but of the notification itself for activity.                  *)
(***************************************************************************)
EXTENDS Integers, FiniteSets

CONSTANTS
  Message,     \* ids of project_chat_messages
  Account,     \* user subs
  RoleOf,      \* their role in the identity service: role changes are Identity's
  Joined,      \* members of the project at first, under their own role
  Channel,     \* the channels in use
  MaxClock     \* bound: stamps given

ASSUME ChatAssumption ==
  /\ IsFiniteSet(Message)
  /\ RoleOf \in [Account -> {"admin", "worker", "client"}]
  /\ Joined \subseteq Account
  /\ Channel \subseteq {"internal", "external"}
  /\ MaxClock \in Nat

VARIABLES
  clock,       \* stamps given so far
  member,      \* project_members: role, or "none"
  message,     \* project_chat_messages
  readMark,    \* project_chat_message_reads
  mention,     \* project_mention_notifications: unseen, seen, pruned
  activity,    \* project_activity_notifications of the chat, with their stamp
  reader,      \* one request of markChatAsRead in flight for each user
  excused      \* history: (user, message) a seen mark without a read mark is
               \* owed to: marked by hand, or committed while the user was reading

chatVars == <<clock, member, message, readMark, mention, activity, reader, excused>>

NoMessage == [st |-> "none"]
NoReader == [pc |-> "idle"]

ChatInit ==
  /\ clock = 0
  /\ member = [u \in Account |-> IF u \in Joined THEN RoleOf[u] ELSE "none"]
  /\ message = [m \in Message |-> NoMessage]
  /\ readMark = {}
  /\ mention = [n \in Account \X Message |-> "none"]
  /\ activity = [n \in Account \X Message |-> [st |-> "none", at |-> 0]]
  /\ reader = [u \in Account |-> NoReader]
  /\ excused = {}

Stamp == clock < MaxClock /\ clock' = clock + 1

-----------------------------------------------------------------------------
(* Members and guards.                                                     *)

\* assertProjectAccess: an admin has access as a virtual member.
MemberRole(u) == IF RoleOf[u] = "admin" THEN "admin" ELSE member[u]
HasAccess(u) == MemberRole(u) # "none"

CanUse(u, ch) == HasAccess(u) /\ (ch = "internal" => MemberRole(u) \in {"admin", "worker"})

\* assertProjectMemberRoleCompatibility.
\* Faulty variant: any role for anybody.
CompatibleAny(identity, role) == TRUE

Compatible(identity, role) ==
  \/ role = identity
  \/ role = "worker" /\ identity = "admin"

WithRole(u, role) == [member EXCEPT ![u] = role]

UpsertProjectMember(u, role) ==
  /\ Compatible(RoleOf[u], role)
  /\ member' = WithRole(u, role)
  /\ UNCHANGED <<clock, message, readMark, mention, activity, reader, excused>>

\* allowedMentionRolesByActor and canReceiveMentionInChannel.
\* Faulty variant: the channel is not looked at.
MayMentionAnywhere(u, v, ch) ==
  /\ member[v] # "none"
  /\ RoleOf[u] = "client" => member[v] # "client"

MayMention(u, v, ch) ==
  /\ member[v] # "none"
  /\ RoleOf[u] = "client" => member[v] # "client"
  /\ ch = "internal" => member[v] \in {"admin", "worker"}

-----------------------------------------------------------------------------
(* Posting.                                                                *)

\* The checks, on the members of the moment, and the beginning of the transaction.
PostChatMessage(u, m, ch, mentioned) ==
  /\ message[m] = NoMessage
  /\ CanUse(u, ch) /\ \A v \in mentioned : MayMention(u, v, ch)
  /\ Stamp
  /\ message' = [message EXCEPT ![m] = [st |-> "open", author |-> u, channel |-> ch,
                                        mentioned |-> mentioned, at |-> clock']]
  /\ UNCHANGED <<member, readMark, mention, activity, reader, excused>>

Visible(m) == message[m].st = "posted"

\* Users whose markChatAsRead has read the table already and is not done.
Reading(ch) == {u \in Account : reader[u] # NoReader /\ reader[u].channel = ch}

\* createMentionNotifications: none for the author.
Mentioned(m) ==
  [n \in Account \X Message |->
     IF n[2] = m /\ n[1] \in message[m].mentioned \ {message[m].author} THEN "unseen" ELSE mention[n]]

\* The transaction commits: message, mentions, their notifications, the author's read mark and the events.
CommitChatMessage(m) ==
  /\ message[m].st = "open"
  /\ mention' = Mentioned(m)
  /\ message' = [message EXCEPT ![m].st = "posted"]
  /\ readMark' = readMark \cup {<<message[m].author, m>>}
  /\ excused' = excused \cup (Reading(message[m].channel) \X {m})
  /\ UNCHANGED <<clock, member, activity, reader>>

PostFails(m) ==
  /\ message[m].st = "open"
  /\ message' = [message EXCEPT ![m] = NoMessage]
  /\ UNCHANGED <<clock, member, readMark, mention, activity, reader, excused>>

-----------------------------------------------------------------------------
(* Activity: the consumer of chat.message.internal and .external.          *)

\* resolveActivityRecipients: not the author, not those mentioned, and no client
\* on the internal channel.
\* Faulty variant: those mentioned are not left out.
RecipientsAll(m) ==
  {u \in Account : /\ member[u] # "none" /\ u # message[m].author
                   /\ message[m].channel = "external" \/ member[u] # "client"}

Recipients(m) ==
  {u \in Account : /\ member[u] # "none" /\ u # message[m].author
                   /\ u \notin message[m].mentioned
                   /\ message[m].channel = "external" \/ member[u] # "client"}

\* persistActivityNotification, for an event delivered once or again: an insert
\* that leaves the rows there are, and stamps the new ones.
PersistActivityNotification(m) ==
  /\ Visible(m)
  /\ LET new == {u \in Recipients(m) : activity[<<u, m>>].st \in {"none", "pruned"}}
     IN  /\ new # {}
         /\ Stamp
         /\ activity' = [n \in Account \X Message |->
                           IF n[2] = m /\ n[1] \in new THEN [st |-> "unseen", at |-> clock']
                           ELSE activity[n]]
  /\ UNCHANGED <<member, message, readMark, mention, reader, excused>>

-----------------------------------------------------------------------------
(* Reading.                                                                *)

\* Messages of the channel up to the stamp of the last one read.
UpTo(ch, at) == {m \in Message : Visible(m) /\ message[m].channel = ch /\ message[m].at <= at}

\* markMentionNotificationsSeenUpTo looks at the message's channel.
\* Faulty variant: at no channel.
MentionsUpToAny(ch, at) == {m \in Message : Visible(m) /\ message[m].at <= at}

MentionsUpTo(ch, at) == UpTo(ch, at)

Seen(rows, S) == [n \in DOMAIN rows |-> IF n \in S /\ rows[n] = "unseen" THEN "seen" ELSE rows[n]]

\* findChatMessageByIdInChannel, then markChatMessagesReadUpTo.
MarkChatAsRead(u, ch, m) ==
  /\ reader[u] = NoReader /\ CanUse(u, ch)
  /\ Visible(m) /\ message[m].channel = ch
  /\ readMark' = readMark \cup ({u} \X UpTo(ch, message[m].at))
  /\ reader' = [reader EXCEPT ![u] = [pc |-> "mentions", channel |-> ch, at |-> message[m].at]]
  /\ UNCHANGED <<clock, member, message, mention, activity, excused>>

MarkMentionsSeen(u) ==
  /\ reader[u] # NoReader /\ reader[u].pc = "mentions"
  /\ mention' = Seen(mention, {u} \X MentionsUpTo(reader[u].channel, reader[u].at))
  /\ reader' = [reader EXCEPT ![u].pc = "activity"]
  /\ UNCHANGED <<clock, member, message, readMark, activity, excused>>

\* markChatActivitiesSeenUpTo: the rows of the channel stamped no later than the
\* message, although a row is always stamped after its own message.
MarkActivitiesSeen(u) ==
  /\ reader[u] # NoReader /\ reader[u].pc = "activity"
  /\ activity' = [n \in Account \X Message |->
       IF /\ n[1] = u /\ activity[n].st = "unseen"
          /\ message[n[2]].channel = reader[u].channel /\ activity[n].at <= reader[u].at
       THEN [activity[n] EXCEPT !.st = "seen"] ELSE activity[n]]
  /\ reader' = [reader EXCEPT ![u] = NoReader]
  /\ UNCHANGED <<clock, member, message, readMark, mention, excused>>

ReadFails(u) ==
  /\ reader[u] # NoReader
  /\ reader' = [reader EXCEPT ![u] = NoReader]
  /\ UNCHANGED <<clock, member, message, readMark, mention, activity, excused>>

\* markChatAsRead with message ids: read marks and mentions, not activity.
MarkMessageRead(u, ch, m) ==
  /\ CanUse(u, ch)
  /\ Visible(m) /\ message[m].channel = ch
  /\ readMark' = readMark \cup {<<u, m>>}
  /\ mention' = Seen(mention, {<<u, m>>})
  /\ UNCHANGED <<clock, member, message, activity, reader, excused>>

\* markSeen.
SeenActivity(n) == [activity EXCEPT ![n].st = "seen"]

\* markNotificationSeen, of activity or else of a mention.
MarkNotificationSeen(n) ==
  /\ \/ /\ activity[n].st = "unseen"
        /\ activity' = SeenActivity(n) /\ UNCHANGED mention
     \/ /\ mention[n] = "unseen"
        /\ mention' = [mention EXCEPT ![n] = "seen"] /\ UNCHANGED activity
  /\ excused' = excused \cup {n}
  /\ UNCHANGED <<clock, member, message, readMark, reader>>

\* listUnreadNotifications and countUnreadNotifications, for messages: a client's
\* leave out the internal channel.
Listed(u, m) == RoleOf[u] = "client" => message[m].channel # "internal"
UnreadMentions(u) == {m \in Message : mention[<<u, m>>] = "unseen" /\ Listed(u, m)}
UnreadActivities(u) == {m \in Message : activity[<<u, m>>].st = "unseen" /\ Listed(u, m)}
UnreadCount(u) == Cardinality(UnreadMentions(u)) + Cardinality(UnreadActivities(u))

\* pruneReadNotifications: rows seen long enough ago.
PruneReadNotifications(n) ==
  /\ \/ /\ activity[n].st = "seen"
        /\ activity' = [activity EXCEPT ![n] = [st |-> "pruned", at |-> 0]] /\ UNCHANGED mention
     \/ /\ mention[n] = "seen"
        /\ mention' = [mention EXCEPT ![n] = "pruned"] /\ UNCHANGED activity
  /\ UNCHANGED <<clock, member, message, readMark, reader, excused>>

ChatNext ==
  \/ \E u \in Account, role \in {"admin", "worker", "client"} : UpsertProjectMember(u, role)
  \/ \E u \in Account, m \in Message, ch \in Channel, mentioned \in SUBSET Account :
       PostChatMessage(u, m, ch, mentioned)
  \/ \E m \in Message : CommitChatMessage(m) \/ PostFails(m) \/ PersistActivityNotification(m)
  \/ \E u \in Account, ch \in Channel, m \in Message :
       MarkChatAsRead(u, ch, m) \/ MarkMessageRead(u, ch, m)
  \/ \E u \in Account : MarkMentionsSeen(u) \/ MarkActivitiesSeen(u) \/ ReadFails(u)
  \/ \E n \in Account \X Message : MarkNotificationSeen(n) \/ PruneReadNotifications(n)

ChatSpec == ChatInit /\ [][ChatNext]_chatVars

-----------------------------------------------------------------------------
(* Properties.                                                             *)

ChatTypeOK ==
  /\ clock \in 0..MaxClock
  /\ member \in [Account -> {"admin", "worker", "client", "none"}]
  /\ \A u \in Account : member[u] \in {"none", RoleOf[u]} \/ (RoleOf[u] = "admin" /\ member[u] = "worker")
  /\ message \in [Message -> {NoMessage} \cup
       [st : {"open", "posted"}, author : Account, channel : Channel,
        mentioned : SUBSET Account, at : 1..MaxClock]]
  /\ readMark \subseteq Account \X Message
  /\ mention \in [Account \X Message -> {"none", "unseen", "seen", "pruned"}]
  /\ activity \in [Account \X Message ->
       [st : {"none", "unseen", "seen", "pruned"}, at : 0..MaxClock]]
  /\ reader \in [Account -> {NoReader} \cup
       [pc : {"mentions", "activity"}, channel : Channel, at : 1..MaxClock]]
  /\ excused \subseteq Account \X Message

\* A user is told of a message once: by the mention written with it or by the
\* activity its event gives rise to later, never by both, and its author by
\* neither, whoever became a member or changed role in between and however often
\* the event is delivered.  So the unread count is one of messages.
NotifiedOnce ==
  \A u \in Account :
    /\ UnreadCount(u) = Cardinality(UnreadMentions(u) \cup UnreadActivities(u))
    /\ \A m \in Message :
         LET told == mention[<<u, m>>] # "none"
             active == activity[<<u, m>>].st # "none"
         IN  ~ (told /\ active) /\ (told \/ active => message[m].author # u)

\* Reading marks as seen no notification about a message it did not mark as read:
\* the three statements of markChatAsRead run one by one, and compare the stamp of
\* the last message read with those of messages and with those of notifications.
\* The exceptions are a notification marked by hand, and a message with an older
\* stamp that was committed between the statements.
SeenMeansRead ==
  \A n \in (Account \X Message) \ excused :
    mention[n] \in {"seen", "pruned"} \/ activity[n].st \in {"seen", "pruned"} => n \in readMark

\* Nothing of the internal channel reaches a client: no message to read, no
\* mention and no activity, although members are read before the transaction of a
\* message and again, later, by the consumer of its event.
InternalStaysInside ==
  \A u \in Account, m \in Message :
    RoleOf[u] = "client" /\ Visible(m) /\ message[m].channel = "internal" =>
      /\ <<u, m>> \notin readMark
      /\ mention[<<u, m>>] = "none" /\ activity[<<u, m>>].st = "none"

=============================================================================

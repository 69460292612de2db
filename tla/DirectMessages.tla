---------------------------- MODULE DirectMessages ----------------------------
(***************************************************************************)
(* Direct messages (apps/monolith/src/dm) on top of Friends: only friends  *)
(* may write to each other, and a friendship can end while a message is on *)
(* its way.  The tables conversations and messages; the socket room of     *)
(* each user; calls made of one database statement per step.               *)
(***************************************************************************)
EXTENDS Friends, FiniteSets

CONSTANTS DmCalls,      \* slots for calls to the dm endpoints and events
          MaxMessages   \* bound on the messages ever created

\* The sort in getOrCreateConversation compares the user ids.
ASSUME UsersAssumption == Users \subseteq Nat

VARIABLES
  conversations,  \* rows <<user1Id, user2Id>>, @@unique([user1Id, user2Id])
  messages,       \* rows
  online,         \* users with a socket in their room "user:<id>"
  newMessages,    \* history: pairs <<user, message id>> delivered live
  dmCall          \* call slot -> what the call is about to do

dmVars == <<conversations, messages, online, newMessages, dmCall>>
allVars == <<friendsVars, dmVars>>

Conversation == Users \X Users

Message == [id : Nat, conversation : Conversation, senderId : Users, read : BOOLEAN]

SendCall == [step : {"conversation", "insert", "message", "emit"}, senderId : Users,
             receiverId : Users, live : BOOLEAN, conversation : Conversation, id : Nat]

ReadCall == [step : {"markRead"}, userId : Users, conversation : Conversation]

\* Every message belongs to a conversation that is there.
DmTypeOK ==
  /\ FriendsTypeOK
  /\ conversations \subseteq Conversation
  /\ messages \subseteq Message
  /\ \A m \in messages : m.conversation \in conversations
  /\ online \subseteq Users
  /\ newMessages \subseteq Users \X Nat
  /\ dmCall \in [DmCalls -> {Idle} \cup SendCall \cup ReadCall]

DmInit ==
  /\ FriendsInit
  /\ conversations = {} /\ messages = {} /\ online = {} /\ newMessages = {}
  /\ dmCall = [d \in DmCalls |-> Idle]

-----------------------------------------------------------------------------
(* sendMessage, over HTTP or over the socket (live).                       *)

Proceed(d, next) == dmCall' = [dmCall EXCEPT ![d] = next]

\* Mutant: the two ids in the order of the call.
Unsorted(u, v) == <<u, v>>

Canonical(u, v) == IF u < v THEN <<u, v>> ELSE <<v, u>>

\* Mutant: anybody may write to anybody.
SendToAnyone(d, u, v, live) ==
  /\ dmCall[d].step = "idle" /\ u # v /\ (live => u \in online)
  /\ Proceed(d, [step |-> "conversation", senderId |-> u, receiverId |-> v,
                 live |-> live, conversation |-> <<u, v>>, id |-> 0])
  /\ UNCHANGED <<conversations, messages, online, newMessages>>

\* friendship.findFirst found one.  A live message comes in on a socket.
SendMessage(d, u, v, live) ==
  /\ dmCall[d].step = "idle" /\ u # v /\ (live => u \in online)
  /\ FriendshipsBetween(u, v) # {}
  /\ Proceed(d, [step |-> "conversation", senderId |-> u, receiverId |-> v,
                 live |-> live, conversation |-> <<u, v>>, id |-> 0])
  /\ UNCHANGED <<conversations, messages, online, newMessages>>

\* getOrCreateConversation: the read of the upsert.
FindConversation(d) ==
  LET m == dmCall[d]
      pair == Canonical(m.senderId, m.receiverId) IN
  /\ m.step = "conversation"
  /\ Proceed(d, [m EXCEPT !.step = IF pair \in conversations THEN "message" ELSE "insert",
                          !.conversation = pair])
  /\ UNCHANGED <<conversations, messages, online, newMessages>>

\* Mutant: no row is written.
SkipInsert(d) ==
  /\ dmCall[d].step = "insert"
  /\ Proceed(d, [dmCall[d] EXCEPT !.step = "message"])
  /\ UNCHANGED <<conversations, messages, online, newMessages>>

\* The insert of the upsert.  When another first message has inserted the row
\* in between, the unique index makes the call go on with that row (ON CONFLICT)
\* or fail (P2002), by the statement Prisma has chosen for the upsert.
InsertConversation(d) ==
  LET m == dmCall[d] IN
  /\ m.step = "insert"
  /\ conversations' = conversations \cup {m.conversation}
  /\ \/ Proceed(d, [m EXCEPT !.step = "message"])
     \/ m.conversation \in conversations /\ Proceed(d, Idle)
  /\ UNCHANGED <<messages, online, newMessages>>

\* message.create.
CreateMessage(d) ==
  LET m == dmCall[d]
      id == Cardinality(messages) + 1 IN
  /\ m.step = "message" /\ id <= MaxMessages
  /\ messages' = messages \cup
       {[id |-> id, conversation |-> m.conversation, senderId |-> m.senderId, read |-> FALSE]}
  /\ Proceed(d, IF m.live THEN [m EXCEPT !.step = "emit", !.id = id] ELSE Idle)
  /\ UNCHANGED <<conversations, online, newMessages>>

\* Mutant: server.emit instead of server.to(room).emit.
EmitToAll(d) ==
  /\ dmCall[d].step = "emit"
  /\ newMessages' = newMessages \cup {<<w, dmCall[d].id>> : w \in online}
  /\ Proceed(d, Idle)
  /\ UNCHANGED <<conversations, messages, online>>

\* handleSendMessage: to the room of the receiver and to the sender's own.
EmitMessage(d) ==
  LET m == dmCall[d] IN
  /\ m.step = "emit"
  /\ newMessages' = newMessages \cup
       {<<w, m.id>> : w \in online \cap {m.receiverId, m.senderId}}
  /\ Proceed(d, Idle)
  /\ UNCHANGED <<conversations, messages, online>>

-----------------------------------------------------------------------------
\* markRead: the conversation exists and the caller is one of its two users.
MarkRead(d, u, c) ==
  /\ dmCall[d].step = "idle" /\ c \in conversations /\ u \in {c[1], c[2]}
  /\ Proceed(d, [step |-> "markRead", userId |-> u, conversation |-> c])
  /\ UNCHANGED <<conversations, messages, online, newMessages>>

\* Mutant: updateMany without "senderId: { not: userId }".
MarkAllRead(d) ==
  LET hit == {x \in messages : x.conversation = dmCall[d].conversation} IN
  /\ dmCall[d].step = "markRead"
  /\ messages' = (messages \ hit) \cup {[x EXCEPT !.read = TRUE] : x \in hit}
  /\ Proceed(d, Idle)
  /\ UNCHANGED <<conversations, online, newMessages>>

\* message.updateMany: what the other one wrote, by the time it executes.
CommitMarkRead(d) ==
  LET hit == {x \in messages : /\ x.conversation = dmCall[d].conversation
                               /\ x.senderId # dmCall[d].userId} IN
  /\ dmCall[d].step = "markRead"
  /\ messages' = (messages \ hit) \cup {[x EXCEPT !.read = TRUE] : x \in hit}
  /\ Proceed(d, Idle)
  /\ UNCHANGED <<conversations, online, newMessages>>

-----------------------------------------------------------------------------
(* What a user is shown.                                                   *)

MessagesOf(c) == {m \in messages : m.conversation = c}

\* getConversations: those with a message, each with its last one.
GetConversations(u) ==
  {[contact |-> IF c[1] = u THEN c[2] ELSE c[1],
    lastMessage |-> CHOOSE m \in MessagesOf(c) : \A x \in MessagesOf(c) : x.id <= m.id] :
     c \in {c \in conversations : u \in {c[1], c[2]} /\ MessagesOf(c) # {}}}

\* The conversations that the findFirst of getMessages may pick.
Histories(u, v) == {c \in conversations : {c[1], c[2]} = {u, v}}

-----------------------------------------------------------------------------
HandleConnection(u) ==
  /\ u \notin online /\ online' = online \cup {u}
  /\ UNCHANGED <<conversations, messages, newMessages, dmCall>>

HandleDisconnect(u) ==
  /\ u \in online /\ online' = online \ {u}
  /\ UNCHANGED <<conversations, messages, newMessages, dmCall>>

DmStep ==
  \/ \E d \in DmCalls :
       \/ \E u, v \in Users, live \in BOOLEAN : SendMessage(d, u, v, live)
       \/ FindConversation(d) \/ InsertConversation(d)
       \/ CreateMessage(d) \/ EmitMessage(d)
       \/ \E u \in Users, c \in conversations : MarkRead(d, u, c)
       \/ CommitMarkRead(d)
  \/ \E u \in Users : HandleConnection(u) \/ HandleDisconnect(u)

DmNext ==
  \/ FriendsNext /\ UNCHANGED dmVars
  \/ DmStep /\ UNCHANGED friendsVars

DmSpec == DmInit /\ [][DmNext]_allVars

-----------------------------------------------------------------------------
(* Properties.                                                             *)

\* However many first messages cross, nothing two users wrote is hidden from
\* either: the history either of them opens holds every message between them, and
\* both inboxes have one entry for the other, with the same last message.
NothingHidden ==
  \A m \in messages :
    LET u == m.conversation[1]
        v == m.conversation[2]
        entries(x, y) == {e \in GetConversations(x) : e.contact = y} IN
    /\ \A c \in Histories(u, v) : m \in MessagesOf(c)
    /\ \E e \in entries(u, v) :
         /\ entries(u, v) = {e} /\ e.lastMessage.id >= m.id
         /\ {f.lastMessage : f \in entries(v, u)} = {e.lastMessage}

\* Who writes to whom has at some time been accepted as a friend.
MessagesNeedConsent ==
  \A m \in messages :
    \E u, v \in Users :
      m.conversation = Canonical(u, v) /\ <<u, v>> \in asked \cap agreed

\* A live message reaches its two users' sockets and nobody else's.
LiveOnlyToParticipants ==
  \A n \in newMessages :
    \E m \in messages : m.id = n[2] /\ n[1] \in {m.conversation[1], m.conversation[2]}

\* A message becomes read only by a call of the one who did not write it.
ReadByReceiver ==
  [][\A m \in messages, n \in messages' :
       m.id = n.id /\ m # n =>
         \E d \in DmCalls :
           /\ dmCall[d].step = "markRead" /\ dmCall'[d] = Idle
           /\ dmCall[d].userId # m.senderId
           /\ dmCall[d].userId \in {m.conversation[1], m.conversation[2]}]_allVars
=============================================================================

------------------------- MODULE DirectMessagesProofs -------------------------
(***************************************************************************)
(* Proofs about DirectMessages.tla, for any users with numbers as ids, any *)
(* number of calls at the same time and any bounds.  What is known of the  *)
(* friendships comes from FriendsProofs.tla.                               *)
(***************************************************************************)
EXTENDS DirectMessages, FriendsProofs, FiniteSetTheorems

-----------------------------------------------------------------------------
(* Tables whose rows are numbered by counting.                             *)

\* An update that keeps the ids of the rows keeps their number.
LEMMA SameIdsSameSize ==
  ASSUME NEW S, NEW T, IsFiniteSet(S),
         \A x, y \in S : x.id = y.id => x = y,
         \A x, y \in T : x.id = y.id => x = y,
         \A x \in S : \E y \in T : y.id = x.id,
         \A y \in T : \E x \in S : x.id = y.id
  PROVE  IsFiniteSet(T) /\ Cardinality(T) = Cardinality(S)
  <1> DEFINE f == [x \in S |-> CHOOSE y \in T : y.id = x.id]
  <1>1. \A x \in S : f[x] \in T /\ f[x].id = x.id
    OBVIOUS
  <1>2. f \in [S -> T]
    BY <1>1
  <1> HIDE DEF f
  <1>3. f \in Bijection(S, T)
    BY <1>1, <1>2 DEF Bijection, Injection, Surjection, IsInjective
  <1> QED
    BY <1>3, FS_Bijection DEF ExistsBijection

\* Some row of a bounded set of numbers has the greatest one.
LEMMA GreatestNumber ==
  ASSUME NEW S \in SUBSET Nat, S # {}, NEW k \in Nat, \A n \in S : n <= k
  PROVE  \E m \in S : \A n \in S : n <= m
  <1> DEFINE T == {k - n : n \in S}
  <1>1. \A n \in S : n \in Nat /\ n <= k /\ k - n \in Nat
    OBVIOUS
  <1>2. T \subseteq Nat /\ T # {}
    BY <1>1
  <1>3. PICK t \in T : \A s \in T : <<s, t>> \notin OpToRel(<, Nat)
    BY <1>2, NatLessThanWellFounded, WFMin
  <1>4. \A s \in T : ~(s < t)
    BY <1>2, <1>3 DEF OpToRel
  <1>5. PICK m \in S : t = k - m
    OBVIOUS
  <1>6. ASSUME NEW n \in S
        PROVE  n <= m
    <2>1. ~(k - n < k - m)
      BY <1>4, <1>5
    <2> QED
      BY <1>1, <2>1
  <1> QED
    BY <1>6

-----------------------------------------------------------------------------
(* The calls, and the tables they write.                                   *)

\* One of the two has asked the other, who has agreed.
Consented(u, v) == <<u, v>> \in asked \cap agreed \/ <<v, u>> \in asked \cap agreed

\* A call that sends does so between two users who were friends once, and works
\* on the one conversation the two have, which is there when the message is written.
SendsBetweenFriends ==
  \A d \in DmCalls :
    LET m == dmCall[d] IN
    /\ m.step \in {"conversation", "insert", "message", "emit"} =>
         m.senderId # m.receiverId /\ Consented(m.senderId, m.receiverId)
    /\ m.step \in {"insert", "message", "emit"} =>
         m.conversation = Canonical(m.senderId, m.receiverId)
    /\ m.step \in {"message", "emit"} => m.conversation \in conversations

\* A call that marks as read was made by one of the two users.
ReadsOwn ==
  \A d \in DmCalls :
    dmCall[d].step = "markRead" =>
      dmCall[d].userId \in {dmCall[d].conversation[1], dmCall[d].conversation[2]}

\* A live message on its way is in the table.
EmitsWritten ==
  \A d \in DmCalls :
    dmCall[d].step = "emit" =>
      \E m \in messages : m.id = dmCall[d].id /\ m.conversation = dmCall[d].conversation

\* Conversations have their users in order, so that two users have one at most.
Sorted == \A c \in conversations : c[1] < c[2]

\* The id of a message is its key, and the messages are numbered.
MessageKeys ==
  /\ IsFiniteSet(messages)
  /\ \A m \in messages : m.id \in 1..Cardinality(messages)
  /\ \A m, n \in messages : m.id = n.id => m = n

DmInv ==
  /\ FriendsInv
  /\ DmTypeOK
  /\ SendsBetweenFriends
  /\ ReadsOwn
  /\ EmitsWritten
  /\ Sorted
  /\ MessageKeys
  /\ MessagesNeedConsent
  /\ LiveOnlyToParticipants

\* The step of a call says which fields it has.
LEMMA DmCallKinds ==
  ASSUME DmTypeOK, NEW d \in DmCalls
  PROVE  /\ dmCall[d].step \in {"conversation", "insert", "message", "emit"} =>
              dmCall[d] \in SendCall
         /\ dmCall[d].step = "markRead" => dmCall[d] \in ReadCall
  BY DEF DmTypeOK, Idle, SendCall, ReadCall

\* The conversation of two users does not depend on who writes, and has them in
\* order.
LEMMA CanonicalPair ==
  ASSUME NEW u \in Users, NEW v \in Users, u # v
  PROVE  /\ Canonical(u, v) = Canonical(v, u)
         /\ Canonical(u, v) \in Conversation
         /\ Canonical(u, v)[1] < Canonical(u, v)[2]
         /\ {Canonical(u, v)[1], Canonical(u, v)[2]} = {u, v}
  <1>1. u \in Nat /\ v \in Nat
    BY UsersAssumption
  <1>2. CASE u < v
    <2>1. Canonical(u, v) = <<u, v>> /\ Canonical(v, u) = <<u, v>>
      BY <1>1, <1>2 DEF Canonical
    <2> QED
      BY <1>2, <2>1 DEF Conversation
  <1>3. CASE v < u
    <2>1. Canonical(u, v) = <<v, u>> /\ Canonical(v, u) = <<v, u>>
      BY <1>1, <1>3 DEF Canonical
    <2> QED
      BY <1>3, <2>1 DEF Conversation
  <1> QED
    BY <1>1, <1>2, <1>3

\* Nobody forgets who asked and who agreed.
LEMMA ConsentStays ==
  ASSUME [FriendsNext]_friendsVars
  PROVE  asked \subseteq asked' /\ agreed \subseteq agreed'
  BY DEF FriendsNext, FriendsStep, friendsVars, SendRequest, SendChecksFriends, SendCreates,
         AcceptRequest, RejectRequest, CancelRequest, CommitAccept, CommitReject,
         CommitCancel, Unfriend, CommitUnfriend

\* A step of the friends' tables does not touch the messages.
LEMMA FriendsStepKeeps ==
  ASSUME DmInv, [FriendsNext]_friendsVars, UNCHANGED dmVars
  PROVE  DmInv'
  <1>1. FriendsInv' /\ FriendsTypeOK'
    BY FriendsInvStep DEF DmInv, FriendsInv
  <1>2. asked \subseteq asked' /\ agreed \subseteq agreed'
    BY ConsentStays
  <1>3. DmTypeOK'
    BY <1>1 DEF DmInv, DmTypeOK, dmVars
  <1>4. SendsBetweenFriends'
    BY <1>2 DEF DmInv, SendsBetweenFriends, Consented, dmVars
  <1>5. ReadsOwn' /\ EmitsWritten' /\ Sorted' /\ MessageKeys'
    BY DEF DmInv, ReadsOwn, EmitsWritten, Sorted, MessageKeys, dmVars
  <1>6. MessagesNeedConsent'
    BY <1>2 DEF DmInv, MessagesNeedConsent, dmVars
  <1>7. LiveOnlyToParticipants'
    BY DEF DmInv, LiveOnlyToParticipants, dmVars
  <1> QED
    BY <1>1, <1>3, <1>4, <1>5, <1>6, <1>7 DEF DmInv

\* The friends' tables stay as they are in a step of the messages.
LEMMA FriendsUntouched ==
  ASSUME DmInv, UNCHANGED friendsVars
  PROVE  /\ FriendsInv' /\ FriendsTypeOK'
         /\ asked' = asked /\ agreed' = agreed
  BY FriendsInvStep DEF DmInv, FriendsInv, friendsVars

\* What a step that writes no message must show.
LEMMA NoMessageWritten ==
  ASSUME DmInv, UNCHANGED friendsVars, messages' = messages,
         conversations' \subseteq Conversation, conversations \subseteq conversations',
         Sorted', online' \subseteq Users,
         newMessages' \subseteq Users \X Nat,
         dmCall' \in [DmCalls -> {Idle} \cup SendCall \cup ReadCall],
         SendsBetweenFriends', ReadsOwn', EmitsWritten', LiveOnlyToParticipants'
  PROVE  DmInv'
  <1>1. FriendsInv' /\ FriendsTypeOK' /\ asked' = asked /\ agreed' = agreed
    BY FriendsUntouched
  <1>2. DmTypeOK'
    BY <1>1 DEF DmInv, DmTypeOK
  <1>3. MessageKeys' /\ MessagesNeedConsent'
    BY <1>1 DEF DmInv, MessageKeys, MessagesNeedConsent
  <1> QED
    BY <1>1, <1>2, <1>3 DEF DmInv

\* A call that moves on and leaves the tables alone.
LEMMA ProceedKeeps ==
  ASSUME DmInv, UNCHANGED friendsVars, NEW d \in DmCalls,
         NEW next \in {Idle} \cup SendCall \cup ReadCall, Proceed(d, next),
         UNCHANGED <<messages, newMessages, online>>,
         conversations' \subseteq Conversation, conversations \subseteq conversations', Sorted',
         next.step \in {"conversation", "insert", "message", "emit"} =>
           next.senderId # next.receiverId /\ Consented(next.senderId, next.receiverId),
         next.step \in {"insert", "message", "emit"} =>
           next.conversation = Canonical(next.senderId, next.receiverId),
         next.step \in {"message", "emit"} => next.conversation \in conversations',
         next.step # "emit",
         next.step = "markRead" =>
           next.userId \in {next.conversation[1], next.conversation[2]}
  PROVE  DmInv'
  <1>1. /\ dmCall' \in [DmCalls -> {Idle} \cup SendCall \cup ReadCall]
        /\ \A e \in DmCalls : dmCall'[e] = IF e = d THEN next ELSE dmCall[e]
    BY DEF DmInv, DmTypeOK, Proceed
  <1>2. asked' = asked /\ agreed' = agreed
    BY FriendsUntouched
  <1>3. SendsBetweenFriends'
    BY <1>1, <1>2 DEF DmInv, SendsBetweenFriends, Consented, Canonical
  <1>4. ReadsOwn'
    BY <1>1 DEF DmInv, ReadsOwn
  <1>5. EmitsWritten'
    BY <1>1 DEF DmInv, EmitsWritten
  <1>6. LiveOnlyToParticipants'
    BY DEF DmInv, LiveOnlyToParticipants
  <1>7. online' \subseteq Users /\ newMessages' \subseteq Users \X Nat
    BY DEF DmInv, DmTypeOK
  <1> QED
    BY <1>1, <1>3, <1>4, <1>5, <1>6, <1>7, NoMessageWritten

\* friendship.findFirst found a friendship: both had wanted it.
LEMMA SendMessageKeeps ==
  ASSUME DmInv, UNCHANGED friendsVars, NEW d \in DmCalls, NEW u \in Users, NEW v \in Users,
         NEW live \in BOOLEAN, SendMessage(d, u, v, live)
  PROVE  DmInv'
  <1> DEFINE next == [step |-> "conversation", senderId |-> u, receiverId |-> v,
                      live |-> live, conversation |-> <<u, v>>, id |-> 0]
  <1>1. next \in SendCall
    BY Zenon DEF SendCall, Conversation
  <1>2. /\ next.step = "conversation" /\ next.senderId = u /\ next.receiverId = v
        /\ u # v
    BY DEF SendMessage
  <1>3. Consented(u, v)
    <2>1. PICK f \in friendships : {f.user1Id, f.user2Id} = {u, v}
      BY DEF SendMessage, FriendshipsBetween
    <2>2. <<f.user1Id, f.user2Id>> \in asked \cap agreed
      BY DEF DmInv, FriendsInv, MutualConsent
    <2>3. \/ f.user1Id = u /\ f.user2Id = v
          \/ f.user1Id = v /\ f.user2Id = u
      BY <2>1
    <2> QED
      BY <2>2, <2>3 DEF Consented
  <1>4. /\ Proceed(d, next) /\ UNCHANGED <<conversations, messages, newMessages, online>>
        /\ conversations' \subseteq Conversation /\ Sorted'
    BY DEF SendMessage, DmInv, DmTypeOK, Sorted
  <1> HIDE DEF next
  <1> QED
    BY <1>1, <1>2, <1>3, <1>4, ProceedKeeps

\* The read of the upsert.
LEMMA FindConversationKeeps ==
  ASSUME DmInv, UNCHANGED friendsVars, NEW d \in DmCalls, FindConversation(d)
  PROVE  DmInv'
  <1> DEFINE m == dmCall[d]
             pair == Canonical(m.senderId, m.receiverId)
             step == IF pair \in conversations THEN "message" ELSE "insert"
             next == [m EXCEPT !.step = step, !.conversation = pair]
  <1>1. /\ m \in SendCall /\ m.senderId # m.receiverId
        /\ m.senderId \in Users /\ m.receiverId \in Users
        /\ Consented(m.senderId, m.receiverId)
    BY DmCallKinds DEF FindConversation, DmInv, SendsBetweenFriends, SendCall
  <1>2. pair \in Conversation
    BY <1>1, CanonicalPair
  <1>3. step \in {"message", "insert"} /\ (step = "message" => pair \in conversations)
    OBVIOUS
  <1>4. /\ Proceed(d, next) /\ UNCHANGED <<conversations, messages, newMessages, online>>
        /\ conversations' \subseteq Conversation /\ Sorted'
    BY DEF FindConversation, DmInv, DmTypeOK, Sorted
  <1> HIDE DEF step, pair
  <1>5. /\ next \in SendCall /\ next.step = step
        /\ next.senderId = m.senderId /\ next.receiverId = m.receiverId
        /\ next.conversation = pair
    BY <1>1, <1>2, <1>3 DEF SendCall
  <1> HIDE DEF next
  <1> QED
    BY <1>1, <1>3, <1>4, <1>5, ProceedKeeps DEF pair

\* The insert of the upsert.
LEMMA InsertConversationKeeps ==
  ASSUME DmInv, UNCHANGED friendsVars, NEW d \in DmCalls, InsertConversation(d)
  PROVE  DmInv'
  <1> DEFINE m == dmCall[d]
             next == [m EXCEPT !.step = "message"]
  <1>1. /\ m \in SendCall /\ m.senderId # m.receiverId
        /\ m.senderId \in Users /\ m.receiverId \in Users
        /\ Consented(m.senderId, m.receiverId)
        /\ m.conversation = Canonical(m.senderId, m.receiverId)
    BY DmCallKinds DEF InsertConversation, DmInv, SendsBetweenFriends, SendCall
  <1>2. /\ conversations' = conversations \cup {m.conversation}
        /\ UNCHANGED <<messages, newMessages, online>>
        /\ Proceed(d, next) \/ Proceed(d, Idle)
    BY DEF InsertConversation
  <1>3. conversations' \subseteq Conversation /\ Sorted'
    BY <1>1, <1>2, CanonicalPair DEF DmInv, DmTypeOK, Sorted
  <1>4. /\ next \in SendCall /\ next.step = "message"
        /\ next.senderId = m.senderId /\ next.receiverId = m.receiverId
        /\ next.conversation = m.conversation
    BY <1>1 DEF SendCall
  <1> HIDE DEF next
  <1>5. CASE Proceed(d, next)
    BY <1>1, <1>2, <1>3, <1>4, <1>5, ProceedKeeps
  <1>6. CASE Proceed(d, Idle)
    BY <1>2, <1>3, <1>6, ProceedKeeps DEF Idle
  <1> QED
    BY <1>2, <1>5, <1>6

\* message.create: a new number, in a conversation that is there.
LEMMA CreateMessageKeeps ==
  ASSUME DmInv, UNCHANGED friendsVars, NEW d \in DmCalls, CreateMessage(d)
  PROVE  DmInv'
  <1> DEFINE m == dmCall[d]
             id == Cardinality(messages) + 1
             row == [id |-> id, conversation |-> m.conversation,
                     senderId |-> m.senderId, read |-> FALSE]
             emitting == [m EXCEPT !.step = "emit", !.id = id]
  <1>1. /\ m \in SendCall /\ m.senderId # m.receiverId
        /\ m.senderId \in Users /\ m.receiverId \in Users
        /\ Consented(m.senderId, m.receiverId)
        /\ m.conversation = Canonical(m.senderId, m.receiverId)
        /\ m.conversation \in conversations /\ m.conversation \in Conversation
    BY DmCallKinds DEF CreateMessage, DmInv, SendsBetweenFriends, SendCall
  <1>2. /\ IsFiniteSet(messages) /\ Cardinality(messages) \in Nat /\ id \in Nat
        /\ \A x \in messages : x.id \in 1..Cardinality(messages)
        /\ \A x, y \in messages : x.id = y.id => x = y
    BY FS_CardinalityType DEF DmInv, MessageKeys
  <1>3. /\ messages' = messages \cup {row}
        /\ UNCHANGED <<conversations, newMessages, online>>
        /\ Proceed(d, IF m.live THEN emitting ELSE Idle)
    BY DEF CreateMessage
  <1>4. row \in Message /\ row.id = id /\ row.conversation = m.conversation
    BY <1>1, <1>2 DEF Message
  <1>5. /\ emitting \in SendCall /\ emitting.step = "emit" /\ emitting.id = id
        /\ emitting.senderId = m.senderId /\ emitting.receiverId = m.receiverId
        /\ emitting.conversation = m.conversation
    BY <1>1, <1>2 DEF SendCall
  <1>6. /\ Cardinality(messages') = Cardinality(messages) + 1 /\ IsFiniteSet(messages')
        /\ \A x \in messages : x.id # id
    <2>1. \A x \in messages : x.id # id
      BY <1>2
    <2>2. row \notin messages
      BY <1>4, <2>1
    <2> QED
      BY <1>2, <1>3, <2>1, <2>2, FS_AddElement
  <1>7. PICK next \in {emitting, Idle} : Proceed(d, next)
    BY <1>3
  <1>8. /\ dmCall' \in [DmCalls -> {Idle} \cup SendCall \cup ReadCall]
        /\ \A e \in DmCalls : dmCall'[e] = IF e = d THEN next ELSE dmCall[e]
    BY <1>5, <1>7 DEF DmInv, DmTypeOK, Proceed
  <1>9. FriendsInv' /\ FriendsTypeOK' /\ asked' = asked /\ agreed' = agreed
    BY FriendsUntouched
  <1> HIDE DEF row, emitting
  <1>10. DmTypeOK'
    BY <1>1, <1>3, <1>4, <1>8, <1>9 DEF DmInv, DmTypeOK
  <1>11. SendsBetweenFriends'
    BY <1>1, <1>3, <1>5, <1>7, <1>8, <1>9
       DEF DmInv, SendsBetweenFriends, Consented, Canonical, Idle
  <1>12. ReadsOwn'
    BY <1>5, <1>7, <1>8 DEF DmInv, ReadsOwn, Idle
  <1>13. EmitsWritten'
    BY <1>3, <1>4, <1>5, <1>7, <1>8 DEF DmInv, EmitsWritten, Idle
  <1>14. Sorted' /\ LiveOnlyToParticipants'
    BY <1>3 DEF DmInv, Sorted, LiveOnlyToParticipants
  <1>15. MessageKeys'
    BY <1>2, <1>3, <1>4, <1>6 DEF MessageKeys
  <1>16. MessagesNeedConsent'
    <2>1. PICK u \in Users, v \in Users :
            m.conversation = Canonical(u, v) /\ <<u, v>> \in asked \cap agreed
      BY <1>1, CanonicalPair DEF Consented
    <2> QED
      BY <1>3, <1>4, <1>9, <2>1 DEF DmInv, MessagesNeedConsent, Canonical
  <1> QED
    BY <1>9, <1>10, <1>11, <1>12, <1>13, <1>14, <1>15, <1>16 DEF DmInv

\* handleSendMessage: the message goes to its two users.
LEMMA EmitMessageKeeps ==
  ASSUME DmInv, UNCHANGED friendsVars, NEW d \in DmCalls, EmitMessage(d)
  PROVE  DmInv'
  <1> DEFINE m == dmCall[d]
  <1>1. /\ m \in SendCall /\ m.step = "emit" /\ m.id \in Nat
        /\ m.senderId \in Users /\ m.receiverId \in Users /\ m.senderId # m.receiverId
        /\ m.conversation = Canonical(m.senderId, m.receiverId)
    BY DmCallKinds DEF EmitMessage, DmInv, SendsBetweenFriends, SendCall
  <1>2. /\ newMessages' = newMessages \cup
                            {<<w, m.id>> : w \in online \cap {m.receiverId, m.senderId}}
        /\ UNCHANGED <<conversations, messages, online>> /\ Proceed(d, Idle)
    BY DEF EmitMessage
  <1>3. /\ dmCall' \in [DmCalls -> {Idle} \cup SendCall \cup ReadCall]
        /\ \A e \in DmCalls : dmCall'[e] = IF e = d THEN Idle ELSE dmCall[e]
    BY <1>2 DEF DmInv, DmTypeOK, Proceed
  <1>4. asked' = asked /\ agreed' = agreed
    BY FriendsUntouched
  <1>5. PICK x \in messages : x.id = m.id /\ x.conversation = m.conversation
    BY <1>1 DEF DmInv, EmitsWritten
  <1>6. {x.conversation[1], x.conversation[2]} = {m.senderId, m.receiverId}
    BY <1>1, <1>5, CanonicalPair
  <1>7. newMessages' \subseteq Users \X Nat
    BY <1>1, <1>2 DEF DmInv, DmTypeOK
  <1>8. LiveOnlyToParticipants'
    <2> SUFFICES ASSUME NEW n \in newMessages'
                 PROVE  \E y \in messages :
                          y.id = n[2] /\ n[1] \in {y.conversation[1], y.conversation[2]}
      BY <1>2 DEF LiveOnlyToParticipants
    <2>1. CASE n \in newMessages
      BY <2>1 DEF DmInv, LiveOnlyToParticipants
    <2>2. CASE n \notin newMessages
      <3>1. PICK w \in {m.receiverId, m.senderId} : n = <<w, m.id>>
        BY <1>2, <2>2
      <3> QED
        BY <1>5, <1>6, <3>1
    <2> QED
      BY <2>1, <2>2
  <1>9. SendsBetweenFriends'
    BY <1>2, <1>3, <1>4 DEF DmInv, SendsBetweenFriends, Consented, Canonical, Idle
  <1>10. ReadsOwn' /\ EmitsWritten' /\ Sorted'
    BY <1>2, <1>3 DEF DmInv, ReadsOwn, EmitsWritten, Sorted, Idle
  <1>11. conversations' \subseteq Conversation /\ online' \subseteq Users
    BY <1>2 DEF DmInv, DmTypeOK
  <1> QED
    BY <1>2, <1>3, <1>7, <1>8, <1>9, <1>10, <1>11, NoMessageWritten

\* markRead: the caller is one of the two.
LEMMA MarkReadKeeps ==
  ASSUME DmInv, UNCHANGED friendsVars, NEW d \in DmCalls, NEW u \in Users,
         NEW c \in conversations, MarkRead(d, u, c)
  PROVE  DmInv'
  <1> DEFINE next == [step |-> "markRead", userId |-> u, conversation |-> c]
  <1>1. /\ next \in ReadCall /\ next.step = "markRead"
        /\ next.userId \in {next.conversation[1], next.conversation[2]}
    BY DEF ReadCall, MarkRead, DmInv, DmTypeOK
  <1>2. /\ Proceed(d, next) /\ UNCHANGED <<conversations, messages, newMessages, online>>
        /\ conversations' \subseteq Conversation /\ Sorted'
    BY DEF MarkRead, DmInv, DmTypeOK, Sorted
  <1> HIDE DEF next
  <1> QED
    BY <1>1, <1>2, ProceedKeeps

\* message.updateMany changes nothing of a row but its "read": each row has its
\* successor, with the same id, conversation and writer, and no row is new.
LEMMA ReadMarks ==
  ASSUME DmInv, NEW d \in DmCalls, CommitMarkRead(d)
  PROVE  /\ messages' \subseteq Message
         /\ \A x \in messages : \E y \in messages' :
              y.id = x.id /\ y.conversation = x.conversation /\ y.senderId = x.senderId
         /\ \A y \in messages' : \E x \in messages :
              /\ x.id = y.id /\ x.conversation = y.conversation /\ x.senderId = y.senderId
              /\ x = y \/ ( x.conversation = dmCall[d].conversation
                            /\ x.senderId # dmCall[d].userId )
         /\ \A x, y \in messages' : x.id = y.id => x = y
  <1> DEFINE hit == {x \in messages : /\ x.conversation = dmCall[d].conversation
                                      /\ x.senderId # dmCall[d].userId}
             marked(x) == [x EXCEPT !.read = TRUE]
  <1>1. /\ messages \subseteq Message
        /\ \A x, y \in messages : x.id = y.id => x = y
    BY DEF DmInv, DmTypeOK, MessageKeys
  <1>2. messages' = (messages \ hit) \cup {marked(x) : x \in hit}
    BY DEF CommitMarkRead
  <1>3. \A x \in Message :
          /\ marked(x) \in Message /\ marked(x).id = x.id
          /\ marked(x).conversation = x.conversation /\ marked(x).senderId = x.senderId
    BY DEF Message
  <1>4. /\ hit \subseteq messages
        /\ \A x \in hit : /\ x.conversation = dmCall[d].conversation
                          /\ x.senderId # dmCall[d].userId
    OBVIOUS
  <1> HIDE DEF hit, marked
  <1>5. messages' \subseteq Message
    BY <1>1, <1>2, <1>3, <1>4
  <1>6. ASSUME NEW x \in messages
        PROVE  \E y \in messages' :
                 y.id = x.id /\ y.conversation = x.conversation /\ y.senderId = x.senderId
    BY <1>1, <1>2, <1>3
  <1>7. ASSUME NEW y \in messages'
        PROVE  \E x \in messages :
                 /\ x.id = y.id /\ x.conversation = y.conversation /\ x.senderId = y.senderId
                 /\ x = y \/ ( x.conversation = dmCall[d].conversation
                               /\ x.senderId # dmCall[d].userId )
    <2>1. CASE y \in messages
      BY <2>1
    <2>2. CASE y \notin messages
      <3>1. PICK x \in hit : y = marked(x)
        BY <1>2, <2>2
      <3> QED
        BY <1>1, <1>3, <1>4, <3>1
    <2> QED
      BY <2>1, <2>2
  <1>8. ASSUME NEW x \in messages', NEW y \in messages', x.id = y.id
        PROVE  x = y
    <2>1. \A z \in messages' : \/ z \in messages /\ z \notin hit
                               \/ \E w \in hit : z = marked(w) /\ z.id = w.id
      BY <1>1, <1>2, <1>3, <1>4
    <2> QED
      BY <1>1, <1>4, <1>8, <2>1
  <1> QED
    BY <1>5, <1>6, <1>7, <1>8

\* The read marks only change rows that are addressed to the caller.
LEMMA CommitMarkReadKeeps ==
  ASSUME DmInv, UNCHANGED friendsVars, NEW d \in DmCalls, CommitMarkRead(d)
  PROVE  DmInv'
  <1>1. /\ messages' \subseteq Message
        /\ \A x \in messages : \E y \in messages' :
             y.id = x.id /\ y.conversation = x.conversation /\ y.senderId = x.senderId
        /\ \A y \in messages' : \E x \in messages :
             x.id = y.id /\ x.conversation = y.conversation /\ x.senderId = y.senderId
        /\ \A x, y \in messages' : x.id = y.id => x = y
    BY ReadMarks
  <1>2. UNCHANGED <<conversations, online, newMessages>> /\ Proceed(d, Idle)
    BY DEF CommitMarkRead
  <1>3. /\ dmCall' \in [DmCalls -> {Idle} \cup SendCall \cup ReadCall]
        /\ \A e \in DmCalls : dmCall'[e] = IF e = d THEN Idle ELSE dmCall[e]
    BY <1>2 DEF DmInv, DmTypeOK, Proceed
  <1>4. FriendsInv' /\ FriendsTypeOK' /\ asked' = asked /\ agreed' = agreed
    BY FriendsUntouched
  <1>5. DmTypeOK'
    BY <1>1, <1>2, <1>3, <1>4 DEF DmInv, DmTypeOK
  <1>6. SendsBetweenFriends'
    BY <1>2, <1>3, <1>4 DEF DmInv, SendsBetweenFriends, Consented, Canonical, Idle
  <1>7. ReadsOwn' /\ Sorted'
    BY <1>2, <1>3 DEF DmInv, ReadsOwn, Sorted, Idle
  <1>8. EmitsWritten'
    BY <1>1, <1>3 DEF DmInv, EmitsWritten, Idle
  <1>9. MessageKeys'
    <2>1. /\ IsFiniteSet(messages)
          /\ \A x, y \in messages : x.id = y.id => x = y
          /\ \A x \in messages : x.id \in 1..Cardinality(messages)
      BY DEF DmInv, MessageKeys
    <2>2. IsFiniteSet(messages') /\ Cardinality(messages') = Cardinality(messages)
      <3>1. /\ \A x \in messages : \E y \in messages' : y.id = x.id
            /\ \A y \in messages' : \E x \in messages : x.id = y.id
            /\ \A x, y \in messages' : x.id = y.id => x = y
        BY <1>1
      <3> QED
        BY <2>1, <3>1, SameIdsSameSize
    <2> QED
      BY <1>1, <2>1, <2>2 DEF MessageKeys
  <1>10. MessagesNeedConsent'
    <2> SUFFICES ASSUME NEW y \in messages'
                 PROVE  \E u, v \in Users :
                          y.conversation = Canonical(u, v) /\ <<u, v>> \in asked \cap agreed
      BY <1>4 DEF MessagesNeedConsent, Canonical
    <2>1. PICK x \in messages : x.conversation = y.conversation
      BY <1>1
    <2> QED
      BY <2>1 DEF DmInv, MessagesNeedConsent
  <1>11. LiveOnlyToParticipants'
    BY <1>1, <1>2 DEF DmInv, LiveOnlyToParticipants
  <1> QED
    BY <1>4, <1>5, <1>6, <1>7, <1>8, <1>9, <1>10, <1>11 DEF DmInv

\* A socket that comes or goes.
LEMMA SocketsKeep ==
  ASSUME DmInv, UNCHANGED friendsVars, NEW u \in Users,
         HandleConnection(u) \/ HandleDisconnect(u)
  PROVE  DmInv'
  <1>1. /\ online' \subseteq Users
        /\ UNCHANGED <<conversations, messages, newMessages, dmCall>>
    BY DEF HandleConnection, HandleDisconnect, DmInv, DmTypeOK
  <1>2. asked' = asked /\ agreed' = agreed
    BY FriendsUntouched
  <1>3. SendsBetweenFriends' /\ ReadsOwn' /\ EmitsWritten' /\ Sorted'
        /\ LiveOnlyToParticipants'
    BY <1>1, <1>2 DEF DmInv, SendsBetweenFriends, Consented, ReadsOwn, EmitsWritten, Sorted,
                      LiveOnlyToParticipants
  <1>4. /\ conversations' \subseteq Conversation /\ newMessages' \subseteq Users \X Nat
        /\ dmCall' \in [DmCalls -> {Idle} \cup SendCall \cup ReadCall]
    BY <1>1 DEF DmInv, DmTypeOK
  <1> QED
    BY <1>1, <1>3, <1>4, NoMessageWritten

\* Every step keeps the invariant.
LEMMA DmInvStep ==
  ASSUME DmInv, [DmNext]_allVars
  PROVE  DmInv'
  <1>1. CASE FriendsNext /\ UNCHANGED dmVars
    BY <1>1, FriendsStepKeeps
  <1>2. CASE DmStep /\ UNCHANGED friendsVars
    BY <1>2, SendMessageKeeps, FindConversationKeeps, InsertConversationKeeps,
       CreateMessageKeeps, EmitMessageKeeps, MarkReadKeeps, CommitMarkReadKeeps, SocketsKeep
       DEF DmStep
  <1>3. CASE UNCHANGED allVars
    BY <1>3, FriendsStepKeeps DEF allVars
  <1> QED
    BY <1>1, <1>2, <1>3 DEF DmNext

\* The invariant holds in every state.
LEMMA DmInvariant == DmSpec => []DmInv
  <1>1. DmInit => DmInv
    <2> SUFFICES ASSUME DmInit
                 PROVE  DmInv
      OBVIOUS
    <2>1. FriendsInv /\ FriendsTypeOK
      BY FriendsInvInit DEF DmInit, FriendsInv
    <2>2. MessageKeys
      BY FS_EmptySet DEF DmInit, MessageKeys
    <2> QED
      BY <2>1, <2>2 DEF DmInit, DmInv, DmTypeOK, SendsBetweenFriends, ReadsOwn, EmitsWritten,
                        Sorted, MessagesNeedConsent, LiveOnlyToParticipants, Idle
  <1> QED
    BY <1>1, DmInvStep, PTL DEF DmSpec

-----------------------------------------------------------------------------
\* The tables, the sockets and the calls in progress have their types, and every
\* message has its conversation.
THEOREM DmTypeCorrect == DmSpec => []DmTypeOK
  BY DmInvariant, PTL DEF DmInv

\* Who writes to whom has at some time been accepted as a friend, although the
\* friendship can be over before the message is written.
THEOREM WritersConsented == DmSpec => []MessagesNeedConsent
  BY DmInvariant, PTL DEF DmInv

\* A live message reaches its two users and nobody else.
THEOREM LiveToTheTwo == DmSpec => []LiveOnlyToParticipants
  BY DmInvariant, PTL DEF DmInv

\* A message becomes read only by a call of the one it was written to.
THEOREM OnlyReceiverReads == DmSpec => ReadByReceiver
  <1> DEFINE Step == \A m \in messages, n \in messages' :
                       m.id = n.id /\ m # n =>
                         \E d \in DmCalls :
                           /\ dmCall[d].step = "markRead" /\ dmCall'[d] = Idle
                           /\ dmCall[d].userId # m.senderId
                           /\ dmCall[d].userId \in {m.conversation[1], m.conversation[2]}
  <1>1. ASSUME DmInv, NEW d \in DmCalls, CommitMarkRead(d)
        PROVE  Step
    <2> SUFFICES ASSUME NEW m \in messages, NEW n \in messages', m.id = n.id, m # n
                 PROVE  /\ dmCall[d].step = "markRead" /\ dmCall'[d] = Idle
                        /\ dmCall[d].userId # m.senderId
                        /\ dmCall[d].userId \in {m.conversation[1], m.conversation[2]}
      OBVIOUS
    <2>1. PICK x \in messages :
            /\ x.id = n.id
            /\ x = n \/ ( x.conversation = dmCall[d].conversation
                          /\ x.senderId # dmCall[d].userId )
      BY <1>1, ReadMarks
    <2>2. x = m
      BY <1>1, <2>1 DEF DmInv, MessageKeys
    <2>3. dmCall[d].step = "markRead" /\ dmCall'[d] = Idle
      BY <1>1 DEF CommitMarkRead, Proceed, DmInv, DmTypeOK
    <2> QED
      BY <1>1, <2>1, <2>2, <2>3 DEF DmInv, ReadsOwn
  <1>2. ASSUME DmInv, NEW d \in DmCalls, CreateMessage(d)
        PROVE  Step
    <2> DEFINE row == [id |-> Cardinality(messages) + 1,
                       conversation |-> dmCall[d].conversation,
                       senderId |-> dmCall[d].senderId, read |-> FALSE]
    <2>1. messages' = messages \cup {row} /\ row.id = Cardinality(messages) + 1
      BY <1>2 DEF CreateMessage
    <2>2. /\ Cardinality(messages) \in Nat
          /\ \A x \in messages : x.id \in 1..Cardinality(messages)
          /\ \A x, y \in messages : x.id = y.id => x = y
      BY <1>2, FS_CardinalityType DEF DmInv, MessageKeys
    <2> HIDE DEF row
    <2> QED
      BY <2>1, <2>2
  <1>3. ASSUME DmInv, messages' = messages
        PROVE  Step
    BY <1>3 DEF DmInv, MessageKeys
  <1>4. ASSUME [DmNext]_allVars,
               ~ \E d \in DmCalls : CommitMarkRead(d) \/ CreateMessage(d)
        PROVE  messages' = messages
    BY <1>4 DEF DmNext, DmStep, SendMessage, FindConversation, InsertConversation, EmitMessage,
                MarkRead, HandleConnection, HandleDisconnect, allVars, dmVars
  <1> HIDE DEF Step
  <1>5. DmInv /\ [DmNext]_allVars => [Step]_allVars
    BY <1>1, <1>2, <1>3, <1>4
  <1> QED
    BY <1>5, DmInvariant, PTL DEF DmSpec, ReadByReceiver, Step

-----------------------------------------------------------------------------
(* Nothing is hidden: the inbox of a user has one entry for each other user*)
(* there are messages with, because the two have one conversation only.    *)

LastMessage(c) == CHOOSE m \in MessagesOf(c) : \A x \in MessagesOf(c) : x.id <= m.id

\* A conversation with messages has a last one.
LEMMA LastMessageExists ==
  ASSUME DmInv, NEW c, MessagesOf(c) # {}
  PROVE  \A x \in MessagesOf(c) : x.id <= LastMessage(c).id
  <1> DEFINE ids == {x.id : x \in MessagesOf(c)}
  <1>1. /\ Cardinality(messages) \in Nat
        /\ \A x \in messages : x.id \in 1..Cardinality(messages)
    BY FS_CardinalityType DEF DmInv, MessageKeys
  <1>2. ids # {} /\ ids \in SUBSET Nat /\ \A n \in ids : n <= Cardinality(messages)
    BY <1>1 DEF MessagesOf
  <1>3. PICK k \in ids : \A n \in ids : n <= k
    BY <1>1, <1>2, GreatestNumber
  <1>4. PICK m \in MessagesOf(c) : \A x \in MessagesOf(c) : x.id <= m.id
    BY <1>3
  <1> QED
    BY <1>4 DEF LastMessage

\* The entries of x about y: one, with the last message of their conversation.
LEMMA OneEntry ==
  ASSUME DmInv, NEW x \in Users, NEW y \in Users, x # y,
         NEW c \in conversations, {c[1], c[2]} = {x, y}, MessagesOf(c) # {}
  PROVE  {e \in GetConversations(x) : e.contact = y} =
           {[contact |-> y, lastMessage |-> LastMessage(c)]}
  <1> DEFINE shown == {k \in conversations : x \in {k[1], k[2]} /\ MessagesOf(k) # {}}
             entry(k) == [contact |-> IF k[1] = x THEN k[2] ELSE k[1],
                          lastMessage |-> LastMessage(k)]
  <1>1. GetConversations(x) = {entry(k) : k \in shown}
    BY DEF GetConversations, LastMessage
  <1>2. c \in shown
    BY DEF shown
  <1>3. (IF c[1] = x THEN c[2] ELSE c[1]) = y
    OBVIOUS
  <1>4. ASSUME NEW k \in shown, entry(k).contact = y
        PROVE  k = c
    <2>1. {k[1], k[2]} = {x, y}
      BY <1>4
    <2>2. /\ k \in Users \X Users /\ c \in Users \X Users
          /\ k[1] < k[2] /\ c[1] < c[2]
      BY DEF DmInv, DmTypeOK, Conversation, Sorted
    <2>3. k[1] \in Nat /\ k[2] \in Nat /\ c[1] \in Nat /\ c[2] \in Nat
      BY <2>2, UsersAssumption
    <2>4. k[1] = c[1] /\ k[2] = c[2]
      BY <2>1, <2>2, <2>3
    <2> QED
      BY <2>2, <2>4
  <1>5. entry(c) = [contact |-> y, lastMessage |-> LastMessage(c)]
    BY <1>3
  <1>6. entry(c).contact = y
    BY <1>5
  <1> HIDE DEF entry, shown
  <1> QED
    BY <1>1, <1>2, <1>4, <1>5, <1>6

\* However many first messages crossed, all that two users wrote is in the one
\* history that both open, and heads both their inboxes.
THEOREM HidesNothing == DmSpec => []NothingHidden
  <1>1. ASSUME DmInv
        PROVE  NothingHidden
    <2> SUFFICES ASSUME NEW m \in messages
                 PROVE  LET u == m.conversation[1]
                            v == m.conversation[2]
                            entries(x, y) == {e \in GetConversations(x) : e.contact = y} IN
                        /\ \A c \in Histories(u, v) : m \in MessagesOf(c)
                        /\ \E e \in entries(u, v) :
                             /\ entries(u, v) = {e} /\ e.lastMessage.id >= m.id
                             /\ {f.lastMessage : f \in entries(v, u)} = {e.lastMessage}
      BY DEF NothingHidden
    <2> DEFINE k == m.conversation
               u == k[1]
               v == k[2]
               last == LastMessage(k)
    <2>1. /\ k \in conversations /\ k \in Users \X Users /\ u \in Users /\ v \in Users
          /\ u < v /\ u \in Nat /\ v \in Nat /\ u # v
      <3>1. k \in conversations
        BY <1>1 DEF DmInv, DmTypeOK
      <3>2. k \in Users \X Users /\ u < v
        BY <1>1, <3>1 DEF DmInv, DmTypeOK, Conversation, Sorted
      <3>3. u \in Nat /\ v \in Nat /\ u \in Users /\ v \in Users
        BY <3>2, UsersAssumption
      <3> QED
        BY <3>1, <3>2, <3>3
    <2>2. m \in MessagesOf(k)
      BY DEF MessagesOf
    <2>3. \A c \in Histories(u, v) : c = k
      <3> SUFFICES ASSUME NEW c \in conversations, {c[1], c[2]} = {u, v}
                   PROVE  c = k
        BY DEF Histories
      <3>1. c \in Users \X Users /\ c[1] < c[2] /\ c[1] \in Nat /\ c[2] \in Nat
        BY <1>1, UsersAssumption DEF DmInv, DmTypeOK, Conversation, Sorted
      <3>2. c[1] = u /\ c[2] = v
        BY <2>1, <3>1
      <3> QED
        BY <2>1, <3>1, <3>2
    <2>4. /\ {e \in GetConversations(u) : e.contact = v} =
               {[contact |-> v, lastMessage |-> last]}
          /\ {e \in GetConversations(v) : e.contact = u} =
               {[contact |-> u, lastMessage |-> last]}
      BY <1>1, <2>1, <2>2, OneEntry
    <2>5. m.id <= last.id
      BY <1>1, <2>2, LastMessageExists
    <2>6. m.id \in Nat /\ last.id \in Nat
      <3>1. last \in MessagesOf(k)
        BY <1>1, <2>2, LastMessageExists DEF LastMessage
      <3> QED
        BY <1>1, <3>1 DEF MessagesOf, DmInv, DmTypeOK, Message
    <2> DEFINE e == [contact |-> v, lastMessage |-> last]
    <2>7. e.lastMessage = last /\ e.lastMessage.id >= m.id
      BY <2>5, <2>6
    <2>8. {f.lastMessage : f \in {x \in GetConversations(v) : x.contact = u}} = {last}
      <3> DEFINE entries == {x \in GetConversations(v) : x.contact = u}
                 only == [contact |-> u, lastMessage |-> last]
      <3>1. entries = {only} /\ only.lastMessage = last
        BY <2>4
      <3> HIDE DEF entries, only
      <3>2. {f.lastMessage : f \in entries} = {last}
        BY <3>1
      <3> QED
        BY <3>2 DEF entries
    <2> HIDE DEF last, e
    <2> QED
      BY <2>2, <2>3, <2>4, <2>7, <2>8 DEF e
  <1> QED
    BY <1>1, DmInvariant, PTL
=============================================================================

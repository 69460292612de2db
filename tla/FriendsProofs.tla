---------------------------- MODULE FriendsProofs ----------------------------
(***************************************************************************)
(* Proofs about Friends.tla, for any users, any number of calls at the     *)
(* same time and any bound on the rows.                                    *)
(*                                                                         *)
(* A call works with what an earlier statement of it returned.  So the     *)
(* inductive invariant is mostly about calls in progress: what a stale     *)
(* request, once answered, still has in common with the table.             *)
(***************************************************************************)
EXTENDS Friends, TLAPS

Asks(r) == <<r.senderId, r.receiverId>>

\* A call that is going to ask has not been told to ask its own user.
AsksOthers ==
  \A c \in Calls :
    call[c].step \in {"alreadyFriends", "create"} => call[c].senderId # call[c].receiverId

\* The id of a request is its key, and ids are given out in order.
RequestKeys ==
  /\ \A r \in friendRequests : r.id < nextId
  /\ \A r, s \in friendRequests : r.id = s.id => r = s

\* A call that answers a request, stale as its copy may be, has the row's users.
AnswersRow ==
  \A c \in Calls :
    call[c].step \in {"accept", "reject", "cancel"} =>
      /\ call[c].request.id < nextId
      /\ \A r \in friendRequests :
           r.id = call[c].request.id => Asks(r) = Asks(call[c].request)

\* Every request in the table was made, and an accept in progress is of a
\* request that was made and by the one it was made to.
Consent ==
  /\ \A r \in friendRequests : Asks(r) \in asked
  /\ \A c \in Calls :
       call[c].step = "accept" => Asks(call[c].request) \in asked \cap agreed

\* The unique index of friendships.
OneFriendshipPerPair ==
  \A f, g \in friendships :
    f.user1Id = g.user1Id /\ f.user2Id = g.user2Id => f = g

FriendsInv ==
  /\ FriendsTypeOK
  /\ AsksOthers
  /\ RequestKeys
  /\ AnswersRow
  /\ Consent
  /\ OneFriendshipPerPair
  /\ MutualConsent

\* The step of a call says which fields it has.
LEMMA CallKinds ==
  ASSUME FriendsTypeOK, NEW c \in Calls
  PROVE  /\ call[c].step \in {"alreadyFriends", "create"} => call[c] \in Sending
         /\ call[c].step \in {"accept", "reject", "cancel"} =>
              call[c] \in Answering /\ call[c].request \in FriendRequest
         /\ call[c].step = "unfriend" =>
              call[c] \in Unfriending /\ call[c].friendship \in Friendship
  BY DEF FriendsTypeOK, Idle, Sending, Answering, Unfriending

\* What a step that only moves call c on to "next" must show: the tables and the
\* ids stay, and "next" is what the invariant says of a call.
LEMMA MoveKeeps ==
  ASSUME FriendsInv, NEW c \in Calls,
         NEW next \in {Idle} \cup Sending \cup Answering \cup Unfriending,
         Goto(c, next),
         UNCHANGED <<friendRequests, friendships, nextId, asked>>,
         agreed \subseteq agreed', agreed' \subseteq Users \X Users,
         next.step \in {"alreadyFriends", "create"} => next.senderId # next.receiverId,
         next.step \in {"accept", "reject", "cancel"} => next.request \in friendRequests,
         next.step = "accept" => Asks(next.request) \in agreed'
  PROVE  FriendsInv'
  <1>1. /\ call' \in [Calls -> {Idle} \cup Sending \cup Answering \cup Unfriending]
        /\ \A d \in Calls : call'[d] = IF d = c THEN next ELSE call[d]
    BY DEF FriendsInv, FriendsTypeOK, Goto
  <1>2. FriendsTypeOK'
    BY <1>1 DEF FriendsInv, FriendsTypeOK
  <1>3. AsksOthers'
    BY <1>1 DEF FriendsInv, AsksOthers
  <1>4. RequestKeys'
    BY DEF FriendsInv, RequestKeys
  <1>5. AnswersRow'
    BY <1>1 DEF FriendsInv, AnswersRow, RequestKeys
  <1>6. Consent'
    BY <1>1 DEF FriendsInv, Consent
  <1>7. OneFriendshipPerPair' /\ MutualConsent'
    BY DEF FriendsInv, OneFriendshipPerPair, MutualConsent
  <1> QED
    BY <1>2, <1>3, <1>4, <1>5, <1>6, <1>7 DEF FriendsInv

\* friendRequest.create: the new row has a fresh id, so that no answer in
\* progress is about it.
LEMMA CreateKeeps ==
  ASSUME FriendsInv, NEW c \in Calls, SendCreates(c)
  PROVE  FriendsInv'
  <1> DEFINE u == call[c].senderId
             v == call[c].receiverId
             row == [id |-> nextId, senderId |-> u, receiverId |-> v, status |-> "PENDING"]
  <1>1. /\ u \in Users /\ v \in Users /\ u # v
        /\ nextId \in Nat
    BY CallKinds DEF SendCreates, At, FriendsInv, AsksOthers, Sending, FriendsTypeOK
  <1>2. CASE \E r \in friendRequests : r.senderId = u /\ r.receiverId = v
    <2>1. /\ Goto(c, Idle)
          /\ UNCHANGED <<friendRequests, friendships, nextId, asked, agreed>>
      BY <1>2 DEF SendCreates
    <2>2. FriendsTypeOK
      BY DEF FriendsInv
    <2> QED
      BY <2>1, <2>2, MoveKeeps DEF Idle, FriendsTypeOK
  <1>3. CASE ~ \E r \in friendRequests : r.senderId = u /\ r.receiverId = v
    <2>1. /\ friendRequests' = friendRequests \cup {row}
          /\ nextId' = nextId + 1
          /\ asked' = asked \cup {<<u, v>>}
          /\ friendships' = friendships /\ agreed' = agreed
      BY <1>3 DEF SendCreates
    <2>2. /\ call' \in [Calls -> {Idle} \cup Sending \cup Answering \cup Unfriending]
          /\ \A d \in Calls : call'[d] = IF d = c THEN Idle ELSE call[d]
      BY DEF SendCreates, FriendsInv, FriendsTypeOK, Goto
    <2>3. /\ row \in FriendRequest /\ Asks(row) = <<u, v>>
          /\ row.senderId # row.receiverId /\ row.id = nextId
      BY <1>1 DEF FriendRequest, Status, Asks
    <2> HIDE DEF row, u, v
    <2>4. FriendsTypeOK'
      BY <1>1, <2>1, <2>2, <2>3 DEF FriendsInv, FriendsTypeOK
    <2>5. AsksOthers'
      BY <2>2 DEF FriendsInv, AsksOthers, Idle
    <2>6. RequestKeys'
      BY <1>1, <2>1, <2>3 DEF FriendsInv, RequestKeys, FriendsTypeOK, FriendRequest
    <2>7. AnswersRow'
      <3> SUFFICES ASSUME NEW d \in Calls, call'[d].step \in {"accept", "reject", "cancel"}
                   PROVE  /\ call'[d].request.id < nextId'
                          /\ \A r \in friendRequests' :
                               r.id = call'[d].request.id => Asks(r) = Asks(call'[d].request)
        BY DEF AnswersRow
      <3>1. call'[d] = call[d] /\ call[d].step \in {"accept", "reject", "cancel"}
        BY <2>2 DEF Idle
      <3>2. call[d].request.id < nextId /\ call[d].request.id \in Nat
        BY <3>1, CallKinds DEF FriendsInv, AnswersRow, FriendRequest
      <3> QED
        BY <1>1, <2>1, <2>3, <3>1, <3>2 DEF FriendsInv, AnswersRow
    <2>8. Consent'
      BY <2>1, <2>2, <2>3 DEF FriendsInv, Consent, Idle
    <2>9. OneFriendshipPerPair' /\ MutualConsent'
      BY <2>1 DEF FriendsInv, OneFriendshipPerPair, MutualConsent
    <2> QED
      BY <2>4, <2>5, <2>6, <2>7, <2>8, <2>9 DEF FriendsInv
  <1> QED
    BY <1>2, <1>3

\* Taking rows out, or changing the status of some, leaves ids and users as they
\* were, so that what is known of every call in progress stays true.
LEMMA RowsKeep ==
  ASSUME FriendsInv, NEW c \in Calls, Goto(c, Idle),
         friendRequests' \subseteq FriendRequest,
         \A r \in friendRequests' : \E s \in friendRequests : r.id = s.id /\ Asks(r) = Asks(s),
         \A r, s \in friendRequests' : r.id = s.id => r = s,
         nextId' \in Nat, nextId <= nextId',
         UNCHANGED <<asked, agreed>>,
         friendships' \subseteq Friendship, OneFriendshipPerPair', MutualConsent'
  PROVE  FriendsInv'
  <1>1. /\ call' \in [Calls -> {Idle} \cup Sending \cup Answering \cup Unfriending]
        /\ \A d \in Calls : call'[d] = IF d = c THEN Idle ELSE call[d]
    BY DEF FriendsInv, FriendsTypeOK, Goto
  <1>2. \A r \in friendRequests' : r.senderId # r.receiverId
    BY DEF FriendsInv, FriendsTypeOK, Asks
  <1>3. FriendsTypeOK'
    BY <1>1, <1>2 DEF FriendsInv, FriendsTypeOK
  <1>4. AsksOthers'
    BY <1>1 DEF FriendsInv, AsksOthers, Idle
  <1>5. RequestKeys'
    BY DEF FriendsInv, RequestKeys, FriendsTypeOK, FriendRequest
  <1>6. AnswersRow'
    <2> SUFFICES ASSUME NEW d \in Calls, call'[d].step \in {"accept", "reject", "cancel"}
                 PROVE  /\ call'[d].request.id < nextId'
                        /\ \A r \in friendRequests' :
                             r.id = call'[d].request.id => Asks(r) = Asks(call'[d].request)
      BY DEF AnswersRow
    <2>1. call'[d] = call[d] /\ call[d].step \in {"accept", "reject", "cancel"}
      BY <1>1 DEF Idle
    <2>2. call[d].request.id < nextId /\ call[d].request.id \in Nat /\ nextId \in Nat
      BY <2>1, CallKinds DEF FriendsInv, AnswersRow, FriendRequest, FriendsTypeOK
    <2> QED
      BY <2>1, <2>2 DEF FriendsInv, AnswersRow
  <1>7. Consent'
    BY <1>1 DEF FriendsInv, Consent, Idle
  <1> QED
    BY <1>3, <1>4, <1>5, <1>6, <1>7 DEF FriendsInv

\* Setting the status of a row keeps its key and its users.
LEMMA SetStatusKeeps ==
  ASSUME FriendsInv, NEW r \in FriendRequest, NEW status \in Status, SetStatus(r, status)
  PROVE  /\ friendRequests' \subseteq FriendRequest
         /\ \A x \in friendRequests' :
              \E y \in friendRequests : x.id = y.id /\ Asks(x) = Asks(y)
         /\ \A x, y \in friendRequests' : x.id = y.id => x = y
  <1> DEFINE marked(x) == [x EXCEPT !.status = status]
  <1>1. /\ friendRequests \subseteq FriendRequest
        /\ \A x, y \in friendRequests : x.id = y.id => x = y
    BY DEF FriendsInv, FriendsTypeOK, RequestKeys
  <1>2. \A x \in FriendRequest :
          marked(x) \in FriendRequest /\ marked(x).id = x.id /\ Asks(marked(x)) = Asks(x)
    BY DEF FriendRequest, Asks
  <1>3. \A x \in friendRequests' :
          \/ x \in friendRequests /\ x.id # r.id
          \/ \E y \in friendRequests : y.id = r.id /\ x = marked(y)
    BY DEF SetStatus, Current
  <1> HIDE DEF marked
  <1>4. ASSUME NEW x \in friendRequests'
        PROVE  /\ x \in FriendRequest
               /\ \E y \in friendRequests : x.id = y.id /\ Asks(x) = Asks(y)
    <2>1. CASE x \in friendRequests
      BY <1>1, <2>1
    <2>2. CASE \E y \in friendRequests : y.id = r.id /\ x = marked(y)
      BY <1>1, <1>2, <2>2
    <2> QED
      BY <1>3, <2>1, <2>2
  <1>5. ASSUME NEW x \in friendRequests', NEW y \in friendRequests', x.id = y.id
        PROVE  x = y
    <2>1. CASE x.id = r.id
      <3>1. PICK x1 \in friendRequests : x1.id = r.id /\ x = marked(x1)
        BY <1>3, <2>1
      <3>2. PICK y1 \in friendRequests : y1.id = r.id /\ y = marked(y1)
        BY <1>3, <1>5, <2>1
      <3> QED
        BY <1>1, <3>1, <3>2
    <2>2. CASE x.id # r.id
      <3>1. x \in friendRequests /\ y \in friendRequests
        BY <1>1, <1>2, <1>3, <1>5, <2>2
      <3> QED
        BY <1>1, <1>5, <3>1
    <2> QED
      BY <2>1, <2>2
  <1> QED
    BY <1>4, <1>5

\* The transaction of an accept: the friendship it inserts is one both wanted.
LEMMA CommitAcceptKeeps ==
  ASSUME FriendsInv, NEW c \in Calls, CommitAccept(c)
  PROVE  FriendsInv'
  <1> DEFINE r == call[c].request
             row == [id |-> nextId, user1Id |-> r.senderId, user2Id |-> r.receiverId]
  <1>1. /\ r \in FriendRequest /\ Asks(r) \in asked \cap agreed
        /\ nextId \in Nat /\ Goto(c, Idle)
        /\ UNCHANGED <<asked, agreed>>
    BY CallKinds DEF CommitAccept, At, FriendsInv, Consent, FriendsTypeOK
  <1>2. CASE \/ Current(r) = {}
             \/ \E f \in friendships : f.user1Id = r.senderId /\ f.user2Id = r.receiverId
    <2>1. UNCHANGED <<friendRequests, friendships, nextId>>
      BY <1>2 DEF CommitAccept
    <2>2. FriendsTypeOK
      BY DEF FriendsInv
    <2> QED
      BY <1>1, <2>1, <2>2, MoveKeeps DEF Idle, FriendsTypeOK
  <1>3. CASE ~ \/ Current(r) = {}
               \/ \E f \in friendships : f.user1Id = r.senderId /\ f.user2Id = r.receiverId
    <2>1. /\ friendships' = friendships \cup {row}
          /\ nextId' = nextId + 1
          /\ SetStatus(r, "ACCEPTED")
      BY <1>3 DEF CommitAccept
    <2>2. /\ row \in Friendship /\ <<row.user1Id, row.user2Id>> \in asked \cap agreed
          /\ row.user1Id = r.senderId /\ row.user2Id = r.receiverId
      BY <1>1 DEF Friendship, FriendRequest, Asks
    <2> HIDE DEF row
    <2>3. friendships' \subseteq Friendship
      BY <2>1, <2>2 DEF FriendsInv, FriendsTypeOK
    <2>4. OneFriendshipPerPair'
      BY <1>3, <2>1, <2>2 DEF FriendsInv, OneFriendshipPerPair
    <2>5. MutualConsent'
      BY <1>1, <2>1, <2>2 DEF FriendsInv, MutualConsent
    <2>6. /\ friendRequests' \subseteq FriendRequest
          /\ \A x \in friendRequests' :
               \E y \in friendRequests : x.id = y.id /\ Asks(x) = Asks(y)
          /\ \A x, y \in friendRequests' : x.id = y.id => x = y
      BY <1>1, <2>1, SetStatusKeeps DEF Status
    <2>7. nextId' \in Nat /\ nextId <= nextId'
      BY <1>1, <2>1
    <2> QED
      BY <1>1, <2>3, <2>4, <2>5, <2>6, <2>7, RowsKeep
  <1> QED
    BY <1>2, <1>3

\* Every step keeps the invariant.
LEMMA FriendsInvStep ==
  ASSUME FriendsInv, [FriendsNext]_friendsVars
  PROVE  FriendsInv'
  <1> USE DEF FriendsInv
  <1>1. /\ FriendsTypeOK /\ nextId \in Nat
        /\ friendRequests \subseteq FriendRequest
    BY DEF FriendsTypeOK
  <1> DEFINE Same == UNCHANGED <<friendRequests, friendships, nextId, asked>>
  <1>2. ASSUME NEW c \in Calls, NEW u \in Users, NEW v \in Users, SendRequest(c, u, v)
        PROVE  FriendsInv'
    <2> DEFINE next == [step |-> "alreadyFriends", senderId |-> u, receiverId |-> v]
    <2>1. next \in Sending /\ next.step = "alreadyFriends" /\ u # v
      BY <1>2 DEF SendRequest, Sending
    <2> QED
      BY <1>1, <1>2, <2>1, MoveKeeps DEF SendRequest, FriendsTypeOK
  <1>3. ASSUME NEW c \in Calls, SendChecksFriends(c)
        PROVE  FriendsInv'
    <2> DEFINE created == [call[c] EXCEPT !.step = "create"]
    <2>1. call[c] \in Sending /\ call[c].senderId # call[c].receiverId
      BY <1>3, CallKinds DEF SendChecksFriends, At, AsksOthers
    <2>2. /\ created \in Sending /\ created.step = "create"
          /\ created.senderId # created.receiverId
      BY <2>1 DEF Sending
    <2>3. \/ Goto(c, created)
          \/ Goto(c, Idle)
      BY <1>3 DEF SendChecksFriends
    <2>4. /\ UNCHANGED <<friendRequests, friendships, nextId, asked>>
          /\ agreed \subseteq agreed' /\ agreed' \subseteq Users \X Users
      BY <1>3, <1>1 DEF SendChecksFriends, FriendsTypeOK
    <2> HIDE DEF created
    <2>5. CASE Goto(c, created)
      BY <2>2, <2>4, <2>5, MoveKeeps
    <2>6. CASE Goto(c, Idle)
      BY <2>4, <2>6, MoveKeeps DEF Idle
    <2> QED
      BY <2>3, <2>5, <2>6
  <1>4. ASSUME NEW c \in Calls, NEW u \in Users, NEW r \in friendRequests,
               AcceptRequest(c, u, r)
        PROVE  FriendsInv'
    <2> DEFINE next == [step |-> "accept", request |-> r]
    <2>1. next \in Answering /\ next.step = "accept" /\ next.request = r
      BY <1>1 DEF Answering
    <2>2. /\ agreed' = agreed \cup {Asks(r)} /\ Asks(r) \in Users \X Users
          /\ UNCHANGED <<friendRequests, friendships, nextId, asked>>
          /\ Goto(c, next)
      BY <1>1, <1>4 DEF AcceptRequest, MayAnswer, Asks, FriendRequest
    <2>3. agreed \subseteq agreed' /\ agreed' \subseteq Users \X Users
      BY <1>1, <2>2 DEF FriendsTypeOK
    <2> HIDE DEF next
    <2> QED
      BY <2>1, <2>2, <2>3, MoveKeeps
  <1>5. ASSUME NEW c \in Calls, NEW u \in Users, NEW r \in friendRequests,
               RejectRequest(c, u, r) \/ CancelRequest(c, u, r)
        PROVE  FriendsInv'
    <2>1. PICK step \in {"reject", "cancel"} :
            /\ Goto(c, [step |-> step, request |-> r])
            /\ UNCHANGED <<friendRequests, friendships, nextId, asked, agreed>>
      BY <1>5 DEF RejectRequest, CancelRequest
    <2> DEFINE next == [step |-> step, request |-> r]
    <2>2. next \in Answering /\ next.step \in {"reject", "cancel"} /\ next.request = r
      BY <1>1 DEF Answering
    <2>3. Goto(c, next) /\ agreed' \subseteq Users \X Users
      BY <1>1, <2>1 DEF FriendsTypeOK
    <2> HIDE DEF next
    <2> QED
      BY <2>1, <2>2, <2>3, MoveKeeps
  <1>6. ASSUME NEW c \in Calls, CommitReject(c)
        PROVE  FriendsInv'
    <2>1. /\ call[c].request \in FriendRequest
          /\ SetStatus(call[c].request, "REJECTED") /\ Goto(c, Idle)
          /\ UNCHANGED <<friendships, nextId, asked, agreed>>
      BY <1>6, CallKinds DEF CommitReject, At
    <2>2. /\ friendships' \subseteq Friendship /\ OneFriendshipPerPair' /\ MutualConsent'
          /\ nextId' \in Nat /\ nextId <= nextId'
      BY <1>1, <2>1 DEF FriendsTypeOK, OneFriendshipPerPair, MutualConsent
    <2> HIDE DEF FriendsInv
    <2>3. /\ friendRequests' \subseteq FriendRequest
          /\ \A x \in friendRequests' :
               \E y \in friendRequests : x.id = y.id /\ Asks(x) = Asks(y)
          /\ \A x, y \in friendRequests' : x.id = y.id => x = y
      BY <2>1, SetStatusKeeps DEF Status
    <2> QED
      BY <2>1, <2>2, <2>3, RowsKeep
  <1>7. ASSUME NEW c \in Calls, CommitCancel(c)
        PROVE  FriendsInv'
    <2>1. /\ friendRequests' \subseteq friendRequests /\ Goto(c, Idle)
          /\ UNCHANGED <<friendships, nextId, asked, agreed>>
      BY <1>7 DEF CommitCancel
    <2>2. /\ friendships' \subseteq Friendship /\ OneFriendshipPerPair' /\ MutualConsent'
          /\ nextId' \in Nat /\ nextId <= nextId'
      BY <1>1, <2>1 DEF FriendsTypeOK, OneFriendshipPerPair, MutualConsent
    <2>3. \A x, y \in friendRequests' : x.id = y.id => x = y
      BY <2>1 DEF RequestKeys
    <2> HIDE DEF FriendsInv
    <2> QED
      BY <1>1, <2>1, <2>2, <2>3, RowsKeep
  <1>8. ASSUME NEW c \in Calls, NEW u \in Users, NEW v \in Users, NEW f \in friendships,
               Unfriend(c, u, v, f)
        PROVE  FriendsInv'
    <2> DEFINE next == [step |-> "unfriend", friendship |-> f]
    <2>1. next \in Unfriending /\ next.step = "unfriend"
      BY <1>1 DEF Unfriending, FriendsTypeOK
    <2>2. /\ Goto(c, next) /\ agreed' \subseteq Users \X Users
          /\ UNCHANGED <<friendRequests, friendships, nextId, asked, agreed>>
      BY <1>1, <1>8 DEF Unfriend, FriendsTypeOK
    <2> HIDE DEF next
    <2> QED
      BY <2>1, <2>2, MoveKeeps
  <1>9. ASSUME NEW c \in Calls, CommitUnfriend(c)
        PROVE  FriendsInv'
    <2>1. /\ friendships' \subseteq friendships /\ Goto(c, Idle)
          /\ UNCHANGED <<friendRequests, nextId, asked, agreed>>
      BY <1>9 DEF CommitUnfriend
    <2>2. /\ friendships' \subseteq Friendship /\ OneFriendshipPerPair' /\ MutualConsent'
          /\ nextId' \in Nat /\ nextId <= nextId'
      BY <1>1, <2>1 DEF FriendsTypeOK, OneFriendshipPerPair, MutualConsent
    <2>3. \A x, y \in friendRequests' : x.id = y.id => x = y
      BY <2>1 DEF RequestKeys
    <2> HIDE DEF FriendsInv
    <2> QED
      BY <1>1, <2>1, <2>2, <2>3, RowsKeep
  <1>10. CASE UNCHANGED friendsVars
    BY <1>10 DEF friendsVars, FriendsTypeOK, AsksOthers, RequestKeys, AnswersRow, Consent,
                 OneFriendshipPerPair, MutualConsent
  <1> QED
    BY <1>2, <1>3, <1>4, <1>5, <1>6, <1>7, <1>8, <1>9, <1>10, CreateKeeps, CommitAcceptKeeps
       DEF FriendsNext, FriendsStep

\* The invariant holds to begin with.
LEMMA FriendsInvInit == FriendsInit => FriendsInv
  BY DEF FriendsInit, FriendsInv, FriendsTypeOK, AsksOthers, RequestKeys, AnswersRow, Consent,
         OneFriendshipPerPair, MutualConsent, Idle

\* The invariant holds in every state.
LEMMA FriendsInvariant == FriendsSpec => []FriendsInv
  BY FriendsInvInit, FriendsInvStep, PTL DEF FriendsSpec

-----------------------------------------------------------------------------
\* The tables and the calls in progress have their types, and no request is of
\* a user to itself.
THEOREM FriendsTypeCorrect == FriendsSpec => []FriendsTypeOK
  BY FriendsInvariant, PTL DEF FriendsInv

\* Nobody becomes a friend without having asked or without having agreed.
THEOREM FriendsConsented == FriendsSpec => []MutualConsent
  BY FriendsInvariant, PTL DEF FriendsInv

\* A friend is listed twice only when the two had asked each other.
THEOREM ListedOnce == FriendsSpec => []FriendListedOnce
  <1>1. ASSUME FriendsInv
        PROVE  FriendListedOnce
    <2> SUFFICES ASSUME NEW u \in Users, NEW x \in GetFriends(u), NEW y \in GetFriends(u),
                        x # y, x.friend = y.friend
                 PROVE  <<u, x.friend>> \in asked /\ <<x.friend, u>> \in asked
      BY DEF FriendListedOnce
    <2> DEFINE entry(f) == [friendshipId |-> f.id,
                            friend |-> IF f.user1Id = u THEN f.user2Id ELSE f.user1Id]
    <2>1. PICK f \in friendships : u \in {f.user1Id, f.user2Id} /\ x = entry(f)
      BY DEF GetFriends
    <2>2. PICK g \in friendships : u \in {g.user1Id, g.user2Id} /\ y = entry(g)
      BY DEF GetFriends
    <2>3. f # g
      BY <2>1, <2>2
    <2>4. /\ x.friend = (IF f.user1Id = u THEN f.user2Id ELSE f.user1Id)
          /\ y.friend = (IF g.user1Id = u THEN g.user2Id ELSE g.user1Id)
      BY <2>1, <2>2
    <2>5. f.user1Id # g.user1Id \/ f.user2Id # g.user2Id
      BY <1>1, <2>3 DEF FriendsInv, OneFriendshipPerPair
    <2>6. <<f.user1Id, f.user2Id>> \in asked /\ <<g.user1Id, g.user2Id>> \in asked
      BY <1>1 DEF FriendsInv, MutualConsent
    <2> QED
      BY <2>1, <2>2, <2>4, <2>5, <2>6
  <1> QED
    BY <1>1, FriendsInvariant, PTL

\* A friendship appears only together with its request turning ACCEPTED, however
\* stale the call's copy of the request is.
THEOREM AcceptAtomic == FriendsSpec => AcceptIsAtomic
  <1> DEFINE Step == \A f \in friendships' \ friendships :
                       \E r \in friendRequests' :
                         /\ r.senderId = f.user1Id /\ r.receiverId = f.user2Id
                         /\ r.status = "ACCEPTED"
  <1>1. ASSUME FriendsInv, NEW c \in Calls, CommitAccept(c)
        PROVE  Step
    <2> DEFINE r == call[c].request
    <2> SUFFICES ASSUME NEW f \in friendships' \ friendships
                 PROVE  \E x \in friendRequests' :
                          /\ x.senderId = f.user1Id /\ x.receiverId = f.user2Id
                          /\ x.status = "ACCEPTED"
      OBVIOUS
    <2>1. /\ Current(r) # {}
          /\ f = [id |-> nextId, user1Id |-> r.senderId, user2Id |-> r.receiverId]
          /\ SetStatus(r, "ACCEPTED")
      BY <1>1 DEF CommitAccept
    <2>2. PICK x \in friendRequests : x.id = r.id
      BY <2>1 DEF Current
    <2>3. x \in FriendRequest /\ Asks(x) = Asks(r)
      BY <1>1, <2>2 DEF CommitAccept, At, FriendsInv, FriendsTypeOK, AnswersRow
    <2>4. [x EXCEPT !.status = "ACCEPTED"] \in friendRequests'
      BY <2>1, <2>2 DEF SetStatus, Current
    <2> QED
      BY <2>1, <2>3, <2>4 DEF Asks, FriendRequest
  <1>2. ASSUME [FriendsNext]_friendsVars, ~ \E c \in Calls : CommitAccept(c)
        PROVE  friendships' \subseteq friendships
    BY <1>2 DEF FriendsNext, FriendsStep, SendRequest, SendChecksFriends, SendCreates,
                AcceptRequest, RejectRequest, CancelRequest, CommitReject, CommitCancel,
                Unfriend, CommitUnfriend, friendsVars
  <1>3. FriendsInv /\ [FriendsNext]_friendsVars => [Step]_friendsVars
    <2> HIDE DEF Step
    <2> SUFFICES ASSUME FriendsInv, [FriendsNext]_friendsVars
                 PROVE  Step
      OBVIOUS
    <2>1. CASE \E c \in Calls : CommitAccept(c)
      BY <1>1, <2>1
    <2>2. CASE ~ \E c \in Calls : CommitAccept(c)
      BY <1>2, <2>2 DEF Step
    <2> QED
      BY <2>1, <2>2
  <1> QED
    BY <1>3, FriendsInvariant, PTL DEF FriendsSpec, AcceptIsAtomic
=============================================================================

------------------------------- MODULE Friends -------------------------------
(***************************************************************************)
(* Friend requests and friendships (apps/monolith/src/friends): the tables *)
(* friend_requests and friendships and the calls that work on them.        *)
(*                                                                         *)
(* A call is a sequence of database statements with other calls' in        *)
(* between; what an earlier one returned may be stale at the next.  A step *)
(* is one statement (a $transaction is one).  A call that is turned down   *)
(* by its first statement leaves no trace and is not a step.               *)
(***************************************************************************)
EXTENDS Naturals

CONSTANTS Users,
          Calls,    \* slots for HTTP calls in progress at the same time
          MaxRows   \* bound on the rows ever inserted

ASSUME MaxRowsAssumption == MaxRows \in Nat

VARIABLES
  friendRequests,  \* rows, @@unique([senderId, receiverId])
  friendships,     \* rows, @@unique([user1Id, user2Id])
  nextId,          \* the next fresh row id
  call,            \* call slot -> what the call is about to do
  asked,           \* history: pairs <<sender, receiver>> ever inserted
  agreed           \* history: pairs whose receiver called accept

friendsVars == <<friendRequests, friendships, nextId, call, asked, agreed>>

Status == {"PENDING", "ACCEPTED", "REJECTED"}

FriendRequest == [id : Nat, senderId : Users, receiverId : Users, status : Status]

Friendship == [id : Nat, user1Id : Users, user2Id : Users]

Idle == [step |-> "idle"]

Sending == [step : {"alreadyFriends", "create"}, senderId : Users, receiverId : Users]

Answering == [step : {"accept", "reject", "cancel"}, request : FriendRequest]

Unfriending == [step : {"unfriend"}, friendship : Friendship]

\* Nobody is asked by, or befriends, themselves.
FriendsTypeOK ==
  /\ friendRequests \subseteq FriendRequest
  /\ \A r \in friendRequests : r.senderId # r.receiverId
  /\ friendships \subseteq Friendship
  /\ nextId \in Nat
  /\ call \in [Calls -> {Idle} \cup Sending \cup Answering \cup Unfriending]
  /\ asked \subseteq Users \X Users
  /\ agreed \subseteq Users \X Users

FriendsInit ==
  /\ friendRequests = {} /\ friendships = {}
  /\ nextId = 1
  /\ call = [c \in Calls |-> Idle]
  /\ asked = {} /\ agreed = {}

-----------------------------------------------------------------------------
RequestsBetween(u, v) ==
  {r \in friendRequests : {r.senderId, r.receiverId} = {u, v}}

FriendshipsBetween(u, v) ==
  {f \in friendships : {f.user1Id, f.user2Id} = {u, v}}

Goto(c, next) == call' = [call EXCEPT ![c] = next]

At(c, step) == call[c].step = step

\* Mutant: without the test of line 15.
SendToSelf(c, u, v) ==
  /\ At(c, "idle") /\ RequestsBetween(u, v) = {}
  /\ Goto(c, [step |-> "alreadyFriends", senderId |-> u, receiverId |-> v])
  /\ UNCHANGED <<friendRequests, friendships, nextId, asked, agreed>>

\* friendRequest.findFirst found none, in either direction.
SendRequest(c, u, v) ==
  /\ At(c, "idle") /\ u # v /\ RequestsBetween(u, v) = {}
  /\ Goto(c, [step |-> "alreadyFriends", senderId |-> u, receiverId |-> v])
  /\ UNCHANGED <<friendRequests, friendships, nextId, asked, agreed>>

\* friendship.findFirst.
SendChecksFriends(c) ==
  /\ At(c, "alreadyFriends")
  /\ Goto(c, IF FriendshipsBetween(call[c].senderId, call[c].receiverId) = {}
               THEN [call[c] EXCEPT !.step = "create"] ELSE Idle)
  /\ UNCHANGED <<friendRequests, friendships, nextId, asked, agreed>>

\* friendRequest.create, which the unique index may refuse.
SendCreates(c) ==
  LET u == call[c].senderId
      v == call[c].receiverId IN
  /\ At(c, "create") /\ nextId <= MaxRows
  /\ Goto(c, Idle)
  /\ IF \E r \in friendRequests : r.senderId = u /\ r.receiverId = v
       THEN UNCHANGED <<friendRequests, nextId, asked>>
       ELSE /\ friendRequests' = friendRequests \cup
                 {[id |-> nextId, senderId |-> u, receiverId |-> v, status |-> "PENDING"]}
            /\ nextId' = nextId + 1
            /\ asked' = asked \cup {<<u, v>>}
  /\ UNCHANGED <<friendships, agreed>>

\* Mutant: the receiver check of findPendingRequestForReceiver is missing.
AnyoneMayAnswer(u, r) ==
  r \in friendRequests /\ r.status = "PENDING" /\ u \in {r.senderId, r.receiverId}

\* findPendingRequestForReceiver returned r.
MayAnswer(u, r) ==
  r \in friendRequests /\ r.status = "PENDING" /\ r.receiverId = u

AcceptRequest(c, u, r) ==
  /\ At(c, "idle") /\ MayAnswer(u, r)
  /\ Goto(c, [step |-> "accept", request |-> r])
  /\ agreed' = agreed \cup {<<r.senderId, u>>}
  /\ UNCHANGED <<friendRequests, friendships, nextId, asked>>

RejectRequest(c, u, r) ==
  /\ At(c, "idle") /\ MayAnswer(u, r)
  /\ Goto(c, [step |-> "reject", request |-> r])
  /\ UNCHANGED <<friendRequests, friendships, nextId, asked, agreed>>

CancelRequest(c, u, r) ==
  /\ At(c, "idle")
  /\ r \in friendRequests /\ r.status = "PENDING" /\ r.senderId = u
  /\ Goto(c, [step |-> "cancel", request |-> r])
  /\ UNCHANGED <<friendRequests, friendships, nextId, asked, agreed>>

\* The row with the id of r, whatever has become of it.
Current(r) == {x \in friendRequests : x.id = r.id}

SetStatus(r, status) ==
  friendRequests' = (friendRequests \ Current(r))
                      \cup {[x EXCEPT !.status = status] : x \in Current(r)}

\* Mutant: friendship.create and friendRequest.update outside a transaction.
AcceptInTwoWrites(c) ==
  LET r == call[c].request IN
  /\ At(c, "accept") /\ nextId <= MaxRows
  /\ Goto(c, Idle)
  /\ IF \E f \in friendships : f.user1Id = r.senderId /\ f.user2Id = r.receiverId
       THEN UNCHANGED <<friendRequests, friendships, nextId>>
       ELSE /\ friendships' = friendships \cup
                 {[id |-> nextId, user1Id |-> r.senderId, user2Id |-> r.receiverId]}
            /\ nextId' = nextId + 1
            /\ SetStatus(r, "ACCEPTED")
  /\ UNCHANGED <<asked, agreed>>

\* Mutant: the schema without @@unique([user1Id, user2Id]).
AcceptUnindexed(c) ==
  LET r == call[c].request IN
  /\ At(c, "accept") /\ nextId <= MaxRows
  /\ Goto(c, Idle)
  /\ IF Current(r) = {}
       THEN UNCHANGED <<friendRequests, friendships, nextId>>
       ELSE /\ friendships' = friendships \cup
                 {[id |-> nextId, user1Id |-> r.senderId, user2Id |-> r.receiverId]}
            /\ nextId' = nextId + 1
            /\ SetStatus(r, "ACCEPTED")
  /\ UNCHANGED <<asked, agreed>>

\* The transaction: rolled back when the friendship exists already, or when the
\* request is gone.
CommitAccept(c) ==
  LET r == call[c].request IN
  /\ At(c, "accept") /\ nextId <= MaxRows
  /\ Goto(c, Idle)
  /\ IF \/ Current(r) = {}
        \/ \E f \in friendships : f.user1Id = r.senderId /\ f.user2Id = r.receiverId
       THEN UNCHANGED <<friendRequests, friendships, nextId>>
       ELSE /\ friendships' = friendships \cup
                 {[id |-> nextId, user1Id |-> r.senderId, user2Id |-> r.receiverId]}
            /\ nextId' = nextId + 1
            /\ SetStatus(r, "ACCEPTED")
  /\ UNCHANGED <<asked, agreed>>

CommitReject(c) ==
  /\ At(c, "reject")
  /\ Goto(c, Idle)
  /\ SetStatus(call[c].request, "REJECTED")
  /\ UNCHANGED <<friendships, nextId, asked, agreed>>

CommitCancel(c) ==
  /\ At(c, "cancel")
  /\ Goto(c, Idle)
  /\ friendRequests' = friendRequests \ Current(call[c].request)
  /\ UNCHANGED <<friendships, nextId, asked, agreed>>

\* friendship.findFirst returned f, one of the friendships between the two.
Unfriend(c, u, v, f) ==
  /\ At(c, "idle") /\ f \in FriendshipsBetween(u, v)
  /\ Goto(c, [step |-> "unfriend", friendship |-> f])
  /\ UNCHANGED <<friendRequests, friendships, nextId, asked, agreed>>

CommitUnfriend(c) ==
  /\ At(c, "unfriend")
  /\ Goto(c, Idle)
  /\ friendships' = {f \in friendships : f.id # call[c].friendship.id}
  /\ UNCHANGED <<friendRequests, nextId, asked, agreed>>

-----------------------------------------------------------------------------
(* The lists a user is shown.                                              *)

GetFriends(u) ==
  {[friendshipId |-> f.id, friend |-> IF f.user1Id = u THEN f.user2Id ELSE f.user1Id] :
     f \in {f \in friendships : u \in {f.user1Id, f.user2Id}}}

GetReceivedRequests(u) ==
  {r \in friendRequests : r.receiverId = u /\ r.status = "PENDING"}

GetSentRequests(u) ==
  {r \in friendRequests : r.senderId = u /\ r.status = "PENDING"}

-----------------------------------------------------------------------------
FriendsStep(c) ==
  \/ \E u, v \in Users : SendRequest(c, u, v)
  \/ SendChecksFriends(c) \/ SendCreates(c)
  \/ \E u \in Users, r \in friendRequests :
       AcceptRequest(c, u, r) \/ RejectRequest(c, u, r) \/ CancelRequest(c, u, r)
  \/ CommitAccept(c) \/ CommitReject(c) \/ CommitCancel(c)
  \/ \E u, v \in Users, f \in friendships : Unfriend(c, u, v, f)
  \/ CommitUnfriend(c)

FriendsNext == \E c \in Calls : FriendsStep(c)

FriendsSpec == FriendsInit /\ [][FriendsNext]_friendsVars

-----------------------------------------------------------------------------
(* Properties.                                                             *)

\* Nobody becomes a friend without having asked, or without having agreed,
\* whatever calls cross: user1 sent the request and user2 accepted it.
MutualConsent ==
  \A f \in friendships : <<f.user1Id, f.user2Id>> \in asked \cap agreed

\* A friendship appears only together with its request turning ACCEPTED: an
\* accept that loses to a cancel leaves nothing behind.
AcceptIsAtomic ==
  [][\A f \in friendships' \ friendships :
       \E r \in friendRequests' :
         /\ r.senderId = f.user1Id /\ r.receiverId = f.user2Id
         /\ r.status = "ACCEPTED"]_friendsVars

\* A friend is listed once, however often a request is accepted at the same time
\* and whatever is undone in between, unless the two had asked each other.
FriendListedOnce ==
  \A u \in Users : \A x, y \in GetFriends(u) :
    x # y /\ x.friend = y.friend =>
      <<u, x.friend>> \in asked /\ <<x.friend, u>> \in asked
=============================================================================

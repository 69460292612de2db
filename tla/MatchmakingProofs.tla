-------------------------- MODULE MatchmakingProofs --------------------------
(***************************************************************************)
(* Proofs about the match flow, for any users, levels, sockets and bounds  *)
(* and for both brokers, faults included.                                  *)
(***************************************************************************)
EXTENDS MatchmakingProps, SequenceTheorems, TLAPS

-----------------------------------------------------------------------------
(* Type correctness, one lemma per owner of the state.                     *)

\* Taking the head of a queue yields an event of the kind it says.
LEMMA ArrivalType ==
  ASSUME TypeOK, NEW p \in Publishers, toMatching[p] # <<>>
  PROVE  /\ Head(toMatching[p]) \in Message
         /\ Head(toMatching[p]).kind = "join" => Head(toMatching[p]) \in MatchRequestEvent
         /\ Head(toMatching[p]).kind = "cancel" => Head(toMatching[p]) \in MatchCancelEvent
         /\ Tail(toMatching[p]) \in Seq(Message)
  <1>1. toMatching[p] \in Seq(Message)
    BY DEF TypeOK
  <1>2. Head(toMatching[p]) \in Message /\ Tail(toMatching[p]) \in Seq(Message)
    BY <1>1, HeadTailProperties
  <1>3. /\ \A m \in MatchRequestEvent : m.kind = "join"
        /\ \A m \in MatchCancelEvent : m.kind = "cancel"
    BY DEF MatchRequestEvent, MatchCancelEvent
  <1> QED BY <1>2, <1>3 DEF Message

\* The part of a queue that a restart leaves over is a queue.
LEMMA DropType ==
  ASSUME NEW S, NEW q \in Seq(S), NEW n \in 0..Len(q)
  PROVE  /\ Drop(n, q) \in Seq(S)
         /\ Len(Drop(n, q)) = Len(q) - n
         /\ \A i \in 1..Len(Drop(n, q)) : Drop(n, q)[i] = q[i + n]
  <1>1. \A i \in (n + 1)..Len(q) : q[i] \in S
    BY ElementOfSeq, LenProperties
  <1>2. Len(q) \in Nat
    BY LenProperties
  <1> QED BY <1>1, <1>2, SubSeqProperties DEF Drop

\* The number of messages a restarting subscriber misses is at most all of them.
LEMMA MissedIsPrefix ==
  ASSUME NEW n \in Nat, NEW k \in Missed(n)
  PROVE  k \in 0..n
  BY DEF Missed

\* The event handleJoin builds from the popped entry and the join is a
\* MatchFoundEvent.
LEMMA FoundEventType ==
  ASSUME NEW w \in PoolEntry, NEW e \in MatchRequestEvent, NEW c \in Nat
  PROVE  FoundEvent(w, e, c) \in MatchFoundEvent
  BY DEF FoundEvent, PoolEntry, MatchRequestEvent, MatchFoundEvent, Uids

\* Every step keeps the types of the matching service's state.
LEMMA MatchingTypes ==
  ASSUME TypeOK, [Next]_vars
  PROVE  MatchingTypeOK'
  <1> USE DEF TypeOK
  <1>0. CASE UNCHANGED matchingVars
    BY <1>0 DEF MatchingTypeOK, matchingVars
  <1>1. ASSUME NEW p \in Publishers, NEW ok \in BOOLEAN, OnJoin(p, ok)
        PROVE  MatchingTypeOK'
    <2> DEFINE e == Head(toMatching[p])
    <2>1. e \in MatchRequestEvent
      BY <1>1, ArrivalType DEF OnJoin, Arrives
    <2>2. e.level \in Levels /\ e.userId \in Users /\ e.topics \in Nat
      BY <2>1 DEF MatchRequestEvent
    <2>3. CASE JoinWaits(e)
      BY <2>2, <2>3 DEF JoinWaits, MatchingTypeOK, PoolEntry
    <2>4. CASE JoinMatches(e)
      <3>1. pool[e.level] \in PoolEntry /\ minted + 1 \in Nat
        BY <2>2, <2>4 DEF JoinMatches, MatchingTypeOK
      <3>2. FoundEvent(pool[e.level], e, minted + 1) \in MatchFoundEvent
        BY <2>1, <3>1, FoundEventType
      <3> QED BY <2>2, <2>4, <3>1, <3>2 DEF JoinMatches, MatchingTypeOK, JoinHandler
    <2>5. CASE ~ok
      BY <1>0, <1>1, <2>5 DEF OnJoin
    <2> QED BY <1>1, <2>3, <2>4, <2>5 DEF OnJoin, HandleJoin
  <1>2. ASSUME NEW p \in Publishers, NEW ok \in BOOLEAN, OnCancel(p, ok)
        PROVE  MatchingTypeOK'
    <2> DEFINE e == Head(toMatching[p])
    <2>1. e \in MatchCancelEvent
      BY <1>2, ArrivalType DEF OnCancel, Arrives
    <2>2. CASE HandleCancel(e)
      BY <2>1, <2>2 DEF HandleCancel, MatchingTypeOK
    <2>3. CASE ~ok
      BY <1>0, <1>2, <2>3 DEF OnCancel
    <2> QED BY <1>2, <2>2, <2>3 DEF OnCancel
  <1>3. ASSUME NEW ok \in BOOLEAN, FinishCancel(ok)
        PROVE  MatchingTypeOK'
    <2>1. cancelling # <<>> /\ cancelling' = Tail(cancelling)
      BY <1>3 DEF FinishCancel, DeleteEntry, DeleteFails
    <2>2. Head(cancelling) \in MatchCancelEvent /\ cancelling' \in Seq(MatchCancelEvent)
      BY <2>1, HeadTailProperties DEF MatchingTypeOK
    <2>3. pool' \in [Levels -> PoolEntry \cup {None}]
      BY <1>3, <2>2 DEF FinishCancel, DeleteEntry, DeleteFails, MatchingTypeOK, MatchCancelEvent
    <2> QED BY <1>3, <2>2, <2>3 DEF FinishCancel, DeleteEntry, DeleteFails, MatchingTypeOK
  <1>4. ASSUME NEW h \in joining, NEW ok \in BOOLEAN,
               WriteHop1(h, ok) \/ PublishFound(h, ok)
        PROVE  MatchingTypeOK'
    BY <1>4 DEF WriteHop1, PublishFound, RecordHop1, EmitFound, MatchingTypeOK, JoinHandler
  <1>5. CASE CrashMatching
    BY <1>5 DEF CrashMatching, MatchingRestart, MatchingTypeOK
  <1>6. CASE Clients
    BY <1>0, <1>6 DEF Clients, JoinMatch, CancelMatch, Connect, Register, Close
  <1>7. CASE Notification
    BY <1>0, <1>7 DEF Notification, Disconnect, OnMatchFound, WriteHop2, CrashNotification
  <1>8. CASE UNCHANGED vars
    BY <1>0, <1>8 DEF vars
  <1> QED BY <1>1, <1>2, <1>3, <1>4, <1>5, <1>6, <1>7, <1>8 DEF Next, Matching

\* Every step keeps the types of the notification service's state.
LEMMA NotificationTypes ==
  ASSUME TypeOK, [Next]_vars
  PROVE  NotificationTypeOK'
  <1> USE DEF TypeOK, NotificationTypeOK, RegistryEntry
  <1>0. CASE UNCHANGED notificationVars
    BY <1>0 DEF notificationVars
  <1>1. ASSUME NEW ws \in Sockets, NEW u \in Users, Connect(ws, u)
        PROVE  NotificationTypeOK'
    BY <1>1, NoUser DEF Connect, HandleConnection
  <1>2. ASSUME NEW ws \in Sockets, NEW l \in Levels, Register(ws, l)
        PROVE  NotificationTypeOK'
    BY <1>2 DEF Register, HandleRegister
  <1>3. ASSUME NEW ws \in Sockets, Close(ws)
        PROVE  NotificationTypeOK'
    BY <1>3 DEF Close, ClientCloses
  <1>4. ASSUME NEW ws \in Sockets, NEW ok \in BOOLEAN, Disconnect(ws, ok)
        PROVE  NotificationTypeOK'
    BY <1>4 DEF Disconnect, HandleDisconnect
  <1>5. CASE OnMatchFound
    <2> DEFINE f == Head(toNotification)
    <2>1. f \in MatchFoundEvent
      BY <1>5, HeadTailProperties DEF OnMatchFound
    <2>2. NoticeUser1(f) \in Notice /\ NoticeUser2(f) \in Notice /\ f.channelName \in Nat
      BY <2>1 DEF NoticeUser1, NoticeUser2, Notice, MatchFoundEvent
    <2> QED BY <1>5, <2>2 DEF OnMatchFound, HandleMatchFound
  <1>6. ASSUME NEW c \in updating, NEW ok \in BOOLEAN, WriteHop2(c, ok)
        PROVE  NotificationTypeOK'
    BY <1>6 DEF WriteHop2, UpdateDone
  <1>7. CASE CrashNotification
    BY <1>7 DEF CrashNotification, NotificationRestart
  <1>8. ASSUME NEW u \in Users, NEW l \in Levels, NEW ok \in BOOLEAN,
               JoinMatch(u, l, ok) \/ CancelMatch(u, l, ok)
        PROVE  NotificationTypeOK'
    BY <1>0, <1>8 DEF JoinMatch, CancelMatch
  <1>9. CASE Matching
    BY <1>0, <1>9 DEF Matching, OnJoin, OnCancel, FinishCancel, WriteHop1, PublishFound,
                      CrashMatching
  <1>10. CASE UNCHANGED vars
    BY <1>0, <1>10 DEF vars
  <1> QED BY <1>1, <1>2, <1>3, <1>4, <1>5, <1>6, <1>7, <1>8, <1>9, <1>10
          DEF Next, Clients, Notification

\* What a step does to a queue of messages: a suffix stays, or one is added.
LEMMA PublishType ==
  ASSUME TypeOK, NEW p \in Publishers, NEW msgs \in Seq(Message), Publish(p, msgs)
  PROVE  toMatching' \in [Publishers -> Seq(Message)]
  BY ConcatProperties DEF TypeOK, Publish

\* Taking a message off a queue leaves queues of messages.
LEMMA TakeType ==
  ASSUME TypeOK, NEW p \in Publishers, toMatching[p] # <<>>, Take(p)
  PROVE  toMatching' \in [Publishers -> Seq(Message)]
  BY ArrivalType DEF TypeOK, Take

\* What the API publishes for a join or a cancel is a message.
LEMMA EventTypes ==
  ASSUME NEW u \in Users, NEW l \in Levels, NEW t \in Nat
  PROVE  JoinEvent(u, l, t) \in Message /\ CancelEvent(u, l) \in Message
  BY DEF JoinEvent, CancelEvent, Message, MatchRequestEvent, MatchCancelEvent

\* Counting a fault keeps the counter a number.
LEMMA AttemptType ==
  ASSUME TypeOK, NEW ok \in BOOLEAN, Attempt(ok)
  PROVE  faults' \in Nat
  BY DEF TypeOK, Attempt

\* The variables that the composition itself adds.
OwnTypes ==
  /\ measurements \subseteq MatchMeasurement
  /\ toMatching \in [Publishers -> Seq(Message)]
  /\ toNotification \in Seq(MatchFoundEvent)
  /\ requests \in Seq(Request)
  /\ cancels \in Nat /\ connects \in Nat /\ faults \in Nat

\* A step of a client keeps the types of the queues, the table and the budgets.
LEMMA ClientTypes ==
  ASSUME TypeOK, Clients
  PROVE  OwnTypes'
  <1> USE DEF TypeOK, OwnTypes
  <1>1. ASSUME NEW u \in Users, NEW l \in Levels, NEW ok \in BOOLEAN, JoinMatch(u, l, ok)
        PROVE  OwnTypes'
    <2>1. Len(requests) + 1 \in Nat
      BY LenProperties
    <2>2. (IF ok THEN <<JoinEvent(u, l, Len(requests) + 1)>> ELSE <<>>) \in Seq(Message)
      BY <2>1, EventTypes
    <2>3. toMatching' \in [Publishers -> Seq(Message)]
      BY <1>1, <2>2, PublishType DEF JoinMatch, Publishers
    <2>4. requests' \in Seq(Request)
      BY <1>1 DEF JoinMatch, Request
    <2> QED BY <1>1, <2>3, <2>4, AttemptType DEF JoinMatch
  <1>2. ASSUME NEW u \in Users, NEW l \in Levels, NEW ok \in BOOLEAN, CancelMatch(u, l, ok)
        PROVE  OwnTypes'
    <2>1. (IF ok THEN <<CancelEvent(u, l)>> ELSE <<>>) \in Seq(Message)
      BY EventTypes
    <2>2. toMatching' \in [Publishers -> Seq(Message)]
      BY <1>2, <2>1, PublishType DEF CancelMatch, Publishers
    <2> QED BY <1>2, <2>2, AttemptType DEF CancelMatch
  <1>3. ASSUME NEW ws \in Sockets, NEW u \in Users, Connect(ws, u)
        PROVE  OwnTypes'
    BY <1>3 DEF Connect, brokerVars
  <1>4. ASSUME NEW ws \in Sockets,
               (\E l \in Levels : Register(ws, l)) \/ Close(ws)
        PROVE  OwnTypes'
    BY <1>4 DEF Register, Close, brokerVars, budgetVars
  <1> QED BY <1>1, <1>2, <1>3, <1>4 DEF Clients

\* So does a step of the matching service.
LEMMA MatchingOwnTypes ==
  ASSUME TypeOK, Matching
  PROVE  OwnTypes'
  <1> USE DEF TypeOK, OwnTypes
  <1>1. ASSUME NEW p \in Publishers, NEW ok \in BOOLEAN, OnJoin(p, ok) \/ OnCancel(p, ok)
        PROVE  OwnTypes'
    <2>1. toMatching' \in [Publishers -> Seq(Message)]
      BY <1>1, TakeType DEF OnJoin, OnCancel, Arrives
    <2> QED BY <1>1, <2>1, AttemptType DEF OnJoin, OnCancel
  <1>2. ASSUME NEW ok \in BOOLEAN, FinishCancel(ok)
        PROVE  OwnTypes'
    BY <1>2, AttemptType DEF FinishCancel, brokerVars
  <1>3. ASSUME NEW h \in joining, NEW ok \in BOOLEAN, WriteHop1(h, ok)
        PROVE  OwnTypes'
    <2>1. h.found.channelName \in Nat
      BY DEF MatchingTypeOK, JoinHandler, MatchFoundEvent
    <2>2. [channelName |-> h.found.channelName, hop2 |-> FALSE] \in MatchMeasurement
      BY <2>1, Zenon DEF MatchMeasurement
    <2>3. measurements' \subseteq MatchMeasurement
      BY <1>3, <2>2, Zenon DEF WriteHop1, CreateMeasurement
    <2> QED BY <1>3, <2>3, AttemptType DEF WriteHop1, brokerVars
  <1>4. ASSUME NEW h \in joining, NEW ok \in BOOLEAN, PublishFound(h, ok)
        PROVE  OwnTypes'
    <2>1. h.found \in MatchFoundEvent
      BY DEF MatchingTypeOK, JoinHandler
    <2>2. toNotification' \in Seq(MatchFoundEvent)
      BY <1>4, <2>1 DEF PublishFound
    <2> QED BY <1>4, <2>2, AttemptType DEF PublishFound
  <1>5. CASE CrashMatching
    <2>1. PICK a \in Missed(Len(toMatching["api"])),
               n \in Missed(Len(toMatching["notification"])) :
               toMatching' = [toMatching EXCEPT !["api"] = Drop(a, @),
                                                !["notification"] = Drop(n, @)]
      BY <1>5 DEF CrashMatching
    <2>2. /\ toMatching["api"] \in Seq(Message)
          /\ toMatching["notification"] \in Seq(Message)
      BY DEF Publishers
    <2>3. /\ a \in 0..Len(toMatching["api"])
          /\ n \in 0..Len(toMatching["notification"])
      BY <2>2, MissedIsPrefix, LenProperties
    <2>4. /\ Drop(a, toMatching["api"]) \in Seq(Message)
          /\ Drop(n, toMatching["notification"]) \in Seq(Message)
      BY <2>2, <2>3, DropType
    <2>5. toMatching' \in [Publishers -> Seq(Message)]
      BY <2>1, <2>4
    <2>6. faults' \in Nat
      BY <1>5 DEF CrashMatching, Crash
    <2>7. UNCHANGED <<measurements, toNotification, requests, cancels, connects>>
      BY <1>5 DEF CrashMatching
    <2> QED BY <2>5, <2>6, <2>7
  <1> QED BY <1>1, <1>2, <1>3, <1>4, <1>5 DEF Matching

\* So does a step of the notification service.
LEMMA NotificationOwnTypes ==
  ASSUME TypeOK, Notification
  PROVE  OwnTypes'
  <1> USE DEF TypeOK, OwnTypes
  <1>1. ASSUME NEW ws \in Sockets, NEW ok \in BOOLEAN, Disconnect(ws, ok)
        PROVE  OwnTypes'
    <2> DEFINE msgs == IF ok THEN DisconnectCancels(ws) ELSE <<>>
    <2>1. msgs \in Seq(Message)
      <3>1. CASE ok /\ registry[owner[ws]] # None
        <4>1. owner[ws] \in Users /\ registry[owner[ws]].level \in Levels
          BY <1>1, <3>1 DEF Disconnect, HandleDisconnect, NotificationTypeOK, RegistryEntry
        <4> QED BY <3>1, <4>1, EventTypes DEF DisconnectCancels
      <3>2. CASE ~ok \/ registry[owner[ws]] = None
        BY <3>2 DEF DisconnectCancels
      <3> QED BY <3>1, <3>2
    <2>2. toMatching' \in [Publishers -> Seq(Message)]
      BY <1>1, <2>1, PublishType DEF Disconnect, Publishers
    <2> QED BY <1>1, <2>2, AttemptType DEF Disconnect
  <1>2. CASE OnMatchFound
    <2>1. toNotification' \in Seq(MatchFoundEvent)
      BY <1>2, HeadTailProperties DEF OnMatchFound
    <2> QED BY <1>2, <2>1 DEF OnMatchFound, budgetVars
  <1>3. ASSUME NEW c \in updating, NEW ok \in BOOLEAN, WriteHop2(c, ok)
        PROVE  OwnTypes'
    <2>1. \A r \in measurements :
            [channelName |-> r.channelName, hop2 |-> TRUE] \in MatchMeasurement
      <3>1. \A r \in measurements : r.channelName \in Nat
        BY DEF MatchMeasurement
      <3> QED BY <3>1, Zenon DEF MatchMeasurement
    <2>2. measurements' \subseteq MatchMeasurement
      <3>1. CASE ok
        <4> SUFFICES ASSUME NEW r \in measurements' PROVE r \in MatchMeasurement
          OBVIOUS
        <4>1. \/ r \in measurements
              \/ \E x \in measurements : r = [channelName |-> x.channelName, hop2 |-> TRUE]
          BY <1>3, <3>1 DEF WriteHop2, UpdateMeasurement
        <4> QED BY <2>1, <4>1, Zenon
      <3>2. CASE ~ok
        BY <1>3, <3>2 DEF WriteHop2
      <3> QED BY <3>1, <3>2
    <2> QED BY <1>3, <2>2, AttemptType DEF WriteHop2, brokerVars
  <1>4. CASE CrashNotification
    <2>1. PICK n \in Missed(Len(toNotification)) : toNotification' = Drop(n, toNotification)
      BY <1>4 DEF CrashNotification
    <2>2. n \in 0..Len(toNotification)
      BY <2>1, MissedIsPrefix, LenProperties
    <2>3. toNotification' \in Seq(MatchFoundEvent)
      BY <2>1, <2>2, DropType
    <2> QED BY <1>4, <2>3 DEF CrashNotification, Crash
  <1> QED BY <1>1, <1>2, <1>3, <1>4 DEF Notification

\* Every step keeps the types.
LEMMA TypeStep ==
  ASSUME TypeOK, [Next]_vars
  PROVE  TypeOK'
  <1>1. ASSUME UNCHANGED vars PROVE OwnTypes'
    BY <1>1 DEF vars, OwnTypes, TypeOK, brokerVars, budgetVars
  <1>2. OwnTypes'
    BY <1>1, ClientTypes, MatchingOwnTypes, NotificationOwnTypes DEF Next
  <1> QED BY <1>2, MatchingTypes, NotificationTypes DEF OwnTypes, TypeOK

\* Every reachable state has the types that TypeOK says.
THEOREM TypeCorrect == Spec => []TypeOK
  <1>1. Init => TypeOK
    BY DEF Init, TypeOK, MatchingInit, MatchingTypeOK, NotificationInit, NotificationTypeOK
  <1>2. TypeOK /\ [Next]_vars => TypeOK'
    BY TypeStep
  <1> QED BY <1>1, <1>2, PTL DEF Spec

-----------------------------------------------------------------------------
(* Every request is used at most once, and every match joins two requests  *)
(* of one level.  Neither is inductive alone.  What is missing says where  *)
(* a request's number can be: only the API publishes joins, a queued join  *)
(* and a pool entry repeat the request they name, and no two queued joins  *)
(* name the same one.                                                      *)

Faithful(q, rs) ==
  \A i \in Joins(q) :
    /\ q[i].topics \in DOMAIN rs
    /\ rs[q[i].topics] = [userId |-> q[i].userId, level |-> q[i].level]

Once(q) == \A i, j \in Joins(q) : q[i].topics = q[j].topics => i = j

PoolFaithful ==
  \A l \in Levels :
    pool[l] # None =>
      /\ pool[l].topics \in DOMAIN requests
      /\ requests[pool[l].topics] = [userId |-> pool[l].userId, level |-> l]

QueueInv ==
  /\ Joins(toMatching["notification"]) = {}
  /\ Faithful(toMatching["api"], requests)
  /\ Once(toMatching["api"])

IInv == TypeOK /\ QueueInv /\ PoolFaithful /\ MatchFaithful /\ RequestUsedOnce

\* Dropping n messages from the front of a queue adds nothing to it, and takes
\* the request of a join at the front out of it.
LEMMA SuffixKeeps ==
  ASSUME NEW q \in Seq(Message), NEW r \in Seq(Message), NEW n \in 0..Len(q),
         Len(r) = Len(q) - n, \A i \in 1..Len(r) : r[i] = q[i + n]
  PROVE  /\ Joins(q) = {} => Joins(r) = {}
         /\ \A rs : Faithful(q, rs) => Faithful(r, rs)
         /\ Once(q) => Once(r)
         /\ TopicsOf(r) \subseteq TopicsOf(q)
         /\ Once(q) /\ n > 0 /\ 1 \in Joins(q) => q[1].topics \notin TopicsOf(r)
  <1>1. DOMAIN q = 1..Len(q) /\ DOMAIN r = 1..Len(r) /\ Len(q) \in Nat
    BY LenProperties
  <1>2. \A i \in Joins(r) : i + n \in Joins(q) /\ r[i] = q[i + n] /\ i \in Nat \ {0}
    BY <1>1 DEF Joins
  <1>3. \A rs : Faithful(q, rs) => Faithful(r, rs)
    BY <1>2 DEF Faithful
  <1>4. Once(q) => Once(r)
    <2> SUFFICES ASSUME Once(q), NEW i \in Joins(r), NEW j \in Joins(r),
                        r[i].topics = r[j].topics
                 PROVE  i = j
      BY DEF Once
    <2>1. i + n = j + n
      BY <1>2 DEF Once
    <2> QED BY <1>1, <1>2, <2>1
  <1>5. TopicsOf(r) \subseteq TopicsOf(q)
    BY <1>2 DEF TopicsOf
  <1>6. Once(q) /\ n > 0 /\ 1 \in Joins(q) => q[1].topics \notin TopicsOf(r)
    <2> SUFFICES ASSUME Once(q), n > 0, 1 \in Joins(q), NEW i \in Joins(r)
                 PROVE  r[i].topics # q[1].topics
      BY DEF TopicsOf
    <2>1. i + n # 1
      BY <1>1, <1>2
    <2> QED BY <1>2, <2>1 DEF Once
  <1> QED BY <1>2, <1>3, <1>4, <1>5, <1>6

\* Publishing messages that are not joins leaves the joins of a queue alone.
LEMMA CancelKeeps ==
  ASSUME NEW q \in Seq(Message), NEW msgs \in Seq(Message), Joins(msgs) = {}
  PROVE  /\ Joins(q \o msgs) = Joins(q)
         /\ \A rs : Faithful(q, rs) => Faithful(q \o msgs, rs)
         /\ Once(q) => Once(q \o msgs)
         /\ TopicsOf(q \o msgs) = TopicsOf(q)
  <1>1. /\ q \o msgs \in Seq(Message) /\ Len(q \o msgs) = Len(q) + Len(msgs)
        /\ \A i \in 1..(Len(q) + Len(msgs)) :
             (q \o msgs)[i] = IF i <= Len(q) THEN q[i] ELSE msgs[i - Len(q)]
    BY ConcatProperties
  <1>2. /\ DOMAIN q = 1..Len(q) /\ DOMAIN msgs = 1..Len(msgs)
        /\ DOMAIN (q \o msgs) = 1..(Len(q) + Len(msgs))
        /\ Len(q) \in Nat /\ Len(msgs) \in Nat
    BY <1>1, LenProperties
  <1>3. Joins(q \o msgs) = Joins(q)
    <2>1. \A i \in 1..(Len(q) + Len(msgs)) :
            i > Len(q) => i - Len(q) \in DOMAIN msgs /\ (q \o msgs)[i] = msgs[i - Len(q)]
      BY <1>1, <1>2
    <2>2. \A i \in DOMAIN msgs : msgs[i].kind # "join"
      BY DEF Joins
    <2> QED BY <1>1, <1>2, <2>1, <2>2 DEF Joins
  <1>4. \A i \in Joins(q) : (q \o msgs)[i] = q[i]
    BY <1>1, <1>2 DEF Joins
  <1> QED BY <1>3, <1>4 DEF Faithful, Once, TopicsOf

\* Publishing the join of a new request adds that request.
LEMMA JoinAdds ==
  ASSUME NEW q \in Seq(Message), NEW rs \in Seq(Request), Faithful(q, rs), Once(q),
         NEW u \in Users, NEW l \in Levels
  PROVE  LET r == q \o <<JoinEvent(u, l, Len(rs) + 1)>>
             rs1 == Append(rs, [userId |-> u, level |-> l])
         IN /\ Faithful(r, rs1) /\ Once(r)
            /\ TopicsOf(r) = TopicsOf(q) \cup {Len(rs) + 1}
  <1> DEFINE t == Len(rs) + 1
             e == JoinEvent(u, l, t)
             r == q \o <<e>>
             rs1 == Append(rs, [userId |-> u, level |-> l])
  <1>1. t \in Nat /\ e \in Message /\ DOMAIN rs = 1..Len(rs) /\ Len(rs) \in Nat
    BY LenProperties, EventTypes
  <1>2. r \in Seq(Message) /\ Len(r) = Len(q) + 1
        /\ \A i \in 1..(Len(q) + 1) : r[i] = IF i <= Len(q) THEN q[i] ELSE e
    BY <1>1, ConcatProperties
  <1>3. DOMAIN q = 1..Len(q) /\ DOMAIN r = 1..(Len(q) + 1) /\ Len(q) \in Nat
    BY <1>2, LenProperties
  <1>4. /\ DOMAIN rs1 = 1..(Len(rs) + 1)
        /\ rs1[t] = [userId |-> u, level |-> l]
        /\ \A i \in 1..Len(rs) : rs1[i] = rs[i]
    BY <1>1
  <1>5. e.kind = "join" /\ e.userId = u /\ e.level = l /\ e.topics = t
    BY DEF JoinEvent
  <1>6. Joins(r) = Joins(q) \cup {Len(q) + 1}
    BY <1>2, <1>3, <1>5 DEF Joins
  <1>7. (\A i \in Joins(q) : r[i] = q[i] /\ i # Len(q) + 1) /\ r[Len(q) + 1] = e
    BY <1>2, <1>3 DEF Joins
  <1>8. \A i \in Joins(q) : q[i].topics \in 1..Len(rs)
    BY <1>1 DEF Faithful
  <1> HIDE DEF e, r, rs1
  <1>9. Faithful(r, rs1)
    <2> SUFFICES ASSUME NEW i \in Joins(r)
                 PROVE  /\ r[i].topics \in DOMAIN rs1
                        /\ rs1[r[i].topics] = [userId |-> r[i].userId, level |-> r[i].level]
      BY DEF Faithful
    <2>1. CASE i \in Joins(q)
      <3>1. /\ q[i].topics \in 1..Len(rs)
            /\ rs[q[i].topics] = [userId |-> q[i].userId, level |-> q[i].level]
        BY <1>8, <2>1 DEF Faithful
      <3>2. rs1[q[i].topics] = rs[q[i].topics] /\ q[i].topics \in 1..(Len(rs) + 1)
        BY <1>1, <1>4, <3>1
      <3> QED BY <1>4, <1>7, <2>1, <3>1, <3>2
    <2>2. CASE i = Len(q) + 1
      BY <1>1, <1>4, <1>5, <1>7, <2>2
    <2> QED BY <1>6, <2>1, <2>2
  <1>10. Once(r)
    BY <1>1, <1>5, <1>6, <1>7, <1>8 DEF Once
  <1>11. TopicsOf(r) = TopicsOf(q) \cup {t}
    BY <1>5, <1>6, <1>7 DEF TopicsOf
  <1> QED BY <1>9, <1>10, <1>11 DEF e, r, rs1

\* A request is in the pool when the entry of some level is it; now and next.
LEMMA InPoolDef ==
  /\ \A t : t \in InPool <=> \E l \in Levels : pool[l] # None /\ pool[l].topics = t
  /\ \A t : t \in InPool' <=> \E l \in Levels : pool'[l] # None /\ pool'[l].topics = t
  BY DEF InPool, Waiting

\* A request is paired when some match has it on one side; now and next.
LEMMA PairedDef ==
  /\ \A t : t \in Paired <=> \E f \in matched : t = f.topicsUser1 \/ t = f.topicsUser2
  /\ \A t : t \in Paired' <=> \E f \in matched' : t = f.topicsUser1 \/ t = f.topicsUser2
  BY DEF Paired

\* Requests that leave the queue or the pool, and nothing else, do no harm.
LEMMA Shrinks ==
  ASSUME IInv, TypeOK', QueueInv', Queued' \subseteq Queued,
         \A l \in Levels : pool'[l] \in {pool[l], None},
         requests' = requests, matched' = matched
  PROVE  IInv'
  <1>1. PoolFaithful'
    BY DEF IInv, PoolFaithful
  <1>2. MatchFaithful'
    BY DEF IInv, MatchFaithful
  <1>3. InPool' \subseteq InPool
    BY InPoolDef
  <1>4. Paired' = Paired
    BY DEF Paired
  <1>5. RequestUsedOnce'
    BY <1>3, <1>4 DEF IInv, RequestUsedOnce
  <1> QED BY <1>1, <1>2, <1>5 DEF IInv

\* A step that leaves queues, requests, pool and matches alone keeps IInv.
LEMMA Untouched ==
  ASSUME IInv, TypeOK', UNCHANGED <<toMatching, requests, pool, matched>>
  PROVE  IInv'
  <1>1. QueueInv' /\ Queued' = Queued
    BY DEF IInv, QueueInv, Queued
  <1>2. \A l \in Levels : pool'[l] \in {pool[l], None}
    OBVIOUS
  <1> QED BY <1>1, <1>2, Shrinks

\* Taking the head of a queue: the other requests in it stay in order, and the
\* request of a join at the head is gone from it.
LEMMA TakeKeeps ==
  ASSUME IInv, NEW p \in Publishers, toMatching[p] # <<>>, Take(p), requests' = requests
  PROVE  /\ QueueInv' /\ Queued' \subseteq Queued
         /\ Head(toMatching[p]).kind = "join" =>
              /\ p = "api"
              /\ Head(toMatching[p]).topics \in Queued \ Queued'
              /\ Head(toMatching[p]).topics \in DOMAIN requests
              /\ requests[Head(toMatching[p]).topics] =
                   [userId |-> Head(toMatching[p]).userId, level |-> Head(toMatching[p]).level]
  <1> DEFINE q == toMatching[p]
             r == Tail(q)
  <1>1. q \in Seq(Message) /\ toMatching \in [Publishers -> Seq(Message)]
    BY DEF IInv, TypeOK
  <1>2. /\ r \in Seq(Message) /\ Len(r) = Len(q) - 1
        /\ \A i \in 1..Len(r) : r[i] = q[i + 1]
        /\ Head(q) = q[1] /\ Len(q) \in Nat \ {0} /\ DOMAIN q = 1..Len(q)
    BY <1>1, HeadTailProperties, EmptySeq, LenProperties
  <1> HIDE DEF r
  <1>3. /\ Joins(q) = {} => Joins(r) = {}
        /\ \A rs : Faithful(q, rs) => Faithful(r, rs)
        /\ Once(q) => Once(r)
        /\ TopicsOf(r) \subseteq TopicsOf(q)
        /\ Once(q) /\ 1 \in Joins(q) => q[1].topics \notin TopicsOf(r)
    <2>1. 1 \in 0..Len(q)
      BY <1>2
    <2>2. 1 > 0
      OBVIOUS
    <2> QED BY <1>1, <1>2, <2>1, <2>2, SuffixKeeps
  <1>4. toMatching'[p] = r /\ \A o \in Publishers : o # p => toMatching'[o] = toMatching[o]
    BY <1>1 DEF Take, r
  <1>5. "api" \in Publishers /\ "notification" \in Publishers
    BY DEF Publishers
  <1>6. QueueInv'
    BY <1>3, <1>4, <1>5 DEF IInv, QueueInv, Publishers
  <1>7. Queued' \subseteq Queued
    BY <1>3, <1>4, <1>5 DEF Queued, Publishers
  <1>8. ASSUME Head(q).kind = "join"
        PROVE  /\ p = "api"
               /\ q[1].topics \in Queued \ Queued'
               /\ q[1].topics \in DOMAIN requests
               /\ requests[q[1].topics] = [userId |-> q[1].userId, level |-> q[1].level]
    <2>1. 1 \in Joins(q)
      BY <1>2, <1>8 DEF Joins
    <2>2. p = "api"
      BY <2>1 DEF IInv, QueueInv, Publishers
    <2>3. Faithful(q, requests) /\ Once(q)
      BY <2>2 DEF IInv, QueueInv
    <2>4. q[1].topics \in TopicsOf(q)
      BY <2>1 DEF TopicsOf
    <2>5. q[1].topics \in Queued \ Queued'
      BY <1>3, <1>4, <2>1, <2>2, <2>3, <2>4 DEF Queued
    <2> QED BY <2>1, <2>2, <2>3, <2>5 DEF Faithful
  <1> QED BY <1>2, <1>6, <1>7, <1>8

\* Publishing messages that are not joins keeps what IInv says of the queues.
LEMMA CancelPublished ==
  ASSUME IInv, NEW p \in Publishers, NEW msgs \in Seq(Message), Joins(msgs) = {},
         Publish(p, msgs), requests' = requests
  PROVE  QueueInv' /\ Queued' = Queued
  <1> DEFINE q == toMatching[p]
  <1>1. q \in Seq(Message) /\ toMatching \in [Publishers -> Seq(Message)]
    BY DEF IInv, TypeOK
  <1>2. /\ Joins(q \o msgs) = Joins(q)
        /\ \A rs : Faithful(q, rs) => Faithful(q \o msgs, rs)
        /\ Once(q) => Once(q \o msgs)
        /\ TopicsOf(q \o msgs) = TopicsOf(q)
    BY <1>1, CancelKeeps
  <1>3. toMatching'[p] = q \o msgs
        /\ \A o \in Publishers : o # p => toMatching'[o] = toMatching[o]
    BY <1>1 DEF Publish
  <1>4. "api" \in Publishers /\ "notification" \in Publishers
    BY DEF Publishers
  <1> QED BY <1>2, <1>3, <1>4 DEF IInv, QueueInv, Queued, Publishers

\* What a cancelling handler publishes: one cancel or nothing, and no join.
LEMMA NoMessage == <<>> \in Seq(Message) /\ Joins(<<>>) = {}
  BY DEF Joins

\* One cancel is a sequence of messages without a join.
LEMMA OneCancel ==
  ASSUME NEW u \in Users, NEW l \in Levels
  PROVE  <<CancelEvent(u, l)>> \in Seq(Message) /\ Joins(<<CancelEvent(u, l)>>) = {}
  <1>1. CancelEvent(u, l) \in Message
    BY EventTypes
  <1>2. CancelEvent(u, l).kind = "cancel"
    BY DEF CancelEvent
  <1> HIDE DEF CancelEvent
  <1> QED BY <1>1, <1>2 DEF Joins

\* What a restart leaves of a queue is as faithful to the requests as it was.
LEMMA DropKeeps ==
  ASSUME NEW q \in Seq(Message), NEW n \in 0..Len(q)
  PROVE  /\ Joins(q) = {} => Joins(Drop(n, q)) = {}
         /\ \A rs : Faithful(q, rs) => Faithful(Drop(n, q), rs)
         /\ Once(q) => Once(Drop(n, q))
         /\ TopicsOf(Drop(n, q)) \subseteq TopicsOf(q)
  <1> DEFINE r == Drop(n, q)
  <1>1. r \in Seq(Message) /\ Len(r) = Len(q) - n /\ \A i \in 1..Len(r) : r[i] = q[i + n]
    BY DropType
  <1> HIDE DEF r
  <1>2. /\ Joins(q) = {} => Joins(r) = {}
        /\ \A rs : Faithful(q, rs) => Faithful(r, rs)
        /\ Once(q) => Once(r)
        /\ TopicsOf(r) \subseteq TopicsOf(q)
    BY <1>1, SuffixKeeps
  <1> QED BY <1>2 DEF r

\* A new request: its number is in nobody's hands yet.
LEMMA NewRequest ==
  ASSUME IInv, TypeOK', NEW u \in Users, NEW l \in Levels, NEW ok \in BOOLEAN,
         requests' = Append(requests, [userId |-> u, level |-> l]),
         Publish("api", IF ok THEN <<JoinEvent(u, l, Len(requests) + 1)>> ELSE <<>>),
         UNCHANGED <<pool, matched>>
  PROVE  IInv'
  <1> DEFINE q == toMatching["api"]
             t == Len(requests) + 1
  <1>1. /\ q \in Seq(Message) /\ requests \in Seq(Request)
        /\ toMatching \in [Publishers -> Seq(Message)]
        /\ DOMAIN requests = 1..Len(requests) /\ Len(requests) \in Nat
    BY LenProperties DEF IInv, TypeOK, Publishers
  <1>2. /\ requests' = Append(requests, [userId |-> u, level |-> l])
        /\ pool' = pool /\ matched' = matched
    OBVIOUS
  <1>3. /\ DOMAIN requests \subseteq DOMAIN requests' /\ t \notin DOMAIN requests
        /\ \A i \in DOMAIN requests : requests'[i] = requests[i]
    BY <1>1, <1>2
  <1>4. toMatching'["notification"] = toMatching["notification"]
    BY <1>1 DEF Publish, Publishers
  <1>5. /\ Faithful(toMatching'["api"], requests') /\ Once(toMatching'["api"])
        /\ Queued' \subseteq Queued \cup {t}
    <2>1. Faithful(q, requests) /\ Once(q)
      BY DEF IInv, QueueInv
    <2>2. CASE ok
      <3>1. toMatching'["api"] = q \o <<JoinEvent(u, l, t)>>
        BY <1>1, <2>2 DEF Publish, Publishers
      <3>2. /\ Faithful(q \o <<JoinEvent(u, l, t)>>, requests')
            /\ Once(q \o <<JoinEvent(u, l, t)>>)
            /\ TopicsOf(q \o <<JoinEvent(u, l, t)>>) = TopicsOf(q) \cup {t}
        BY <1>1, <1>2, <2>1, JoinAdds
      <3> QED BY <3>1, <3>2 DEF Queued
    <2>3. CASE ~ok
      <3>1. toMatching'["api"] = q
        <4>1. toMatching'["api"] = q \o <<>>
          BY <1>1, <2>3 DEF Publish, Publishers
        <4> QED BY <1>1, <4>1, ConcatEmptySeq
      <3> QED BY <1>3, <2>1, <3>1 DEF Faithful, Queued
    <2> QED BY <2>2, <2>3
  <1>6. QueueInv'
    BY <1>4, <1>5 DEF IInv, QueueInv
  <1>7. PoolFaithful'
    BY <1>2, <1>3 DEF IInv, PoolFaithful
  <1>8. MatchFaithful'
    BY <1>2, <1>3 DEF IInv, MatchFaithful
  <1>9. InPool' = InPool /\ Paired' = Paired
    BY <1>2 DEF InPool, Waiting, Paired
  <1>10. t \notin InPool
    <2> SUFFICES ASSUME NEW k \in Levels, pool[k] # None, pool[k].topics = t
                 PROVE  FALSE
      BY InPoolDef
    <2>1. pool[k].topics \in DOMAIN requests
      BY DEF IInv, PoolFaithful
    <2> QED BY <1>3, <2>1
  <1>11. t \notin Paired
    BY <1>3, PairedDef DEF IInv, MatchFaithful, Pairing
  <1>12. RequestUsedOnce'
    BY <1>2, <1>5, <1>9, <1>10, <1>11 DEF IInv, RequestUsedOnce
  <1> QED BY <1>6, <1>7, <1>8, <1>12 DEF IInv

\* POST /match/join makes one.
LEMMA JoinMatchStep ==
  ASSUME IInv, TypeOK', NEW u \in Users, NEW l \in Levels, NEW ok \in BOOLEAN,
         JoinMatch(u, l, ok)
  PROVE  IInv'
  BY NewRequest DEF JoinMatch, matchingVars

\* A join that finds nobody moves its request from the queue to the pool.
LEMMA JoinWaitsStep ==
  ASSUME IInv, TypeOK', NEW p \in Publishers, OnJoin(p, TRUE),
         JoinWaits(Head(toMatching[p]))
  PROVE  IInv'
  <1> DEFINE e == Head(toMatching[p])
  <1>1. toMatching[p] # <<>> /\ e.kind = "join" /\ Take(p) /\ requests' = requests
    BY DEF OnJoin, Arrives
  <1>2. /\ QueueInv' /\ Queued' \subseteq Queued
        /\ e.topics \in Queued \ Queued' /\ e.topics \in DOMAIN requests
        /\ requests[e.topics] = [userId |-> e.userId, level |-> e.level]
    BY <1>1, TakeKeeps
  <1>3. e.level \in Levels
    BY <1>1, ArrivalType DEF IInv, MatchRequestEvent
  <1>4. /\ pool'[e.level] = [userId |-> e.userId, topics |-> e.topics]
        /\ \A l \in Levels : l # e.level => pool'[l] = pool[l]
        /\ matched' = matched
    BY <1>3 DEF JoinWaits, IInv, TypeOK, MatchingTypeOK
  <1> HIDE DEF e
  <1>5. PoolFaithful'
    BY <1>1, <1>2, <1>4 DEF IInv, PoolFaithful
  <1>6. MatchFaithful'
    BY <1>1, <1>4 DEF IInv, MatchFaithful
  <1>7. InPool' \subseteq InPool \cup {e.topics}
    BY <1>4, InPoolDef
  <1>8. Paired' = Paired
    BY <1>4 DEF Paired
  <1>9. RequestUsedOnce'
    BY <1>2, <1>4, <1>7, <1>8 DEF IInv, RequestUsedOnce
  <1> QED BY <1>2, <1>5, <1>6, <1>9 DEF IInv

\* A join that finds a partner moves both requests into one new match.
LEMMA JoinMatchesStep ==
  ASSUME IInv, TypeOK', NEW p \in Publishers, OnJoin(p, TRUE),
         JoinMatches(Head(toMatching[p]))
  PROVE  IInv'
  <1> DEFINE e == Head(toMatching[p])
             w == pool[e.level]
             f == FoundEvent(w, e, minted + 1)
  <1>1. toMatching[p] # <<>> /\ e.kind = "join" /\ Take(p) /\ requests' = requests
    BY DEF OnJoin, Arrives
  <1>2. /\ QueueInv' /\ Queued' \subseteq Queued
        /\ e.topics \in Queued \ Queued' /\ e.topics \in DOMAIN requests
        /\ requests[e.topics] = [userId |-> e.userId, level |-> e.level]
    BY <1>1, TakeKeeps
  <1>3. e.level \in Levels
    BY <1>1, ArrivalType DEF IInv, MatchRequestEvent
  <1>4. /\ w # None
        /\ pool'[e.level] = None
        /\ \A l \in Levels : l # e.level => pool'[l] = pool[l]
        /\ matched' = matched \cup {f}
    BY <1>3 DEF JoinMatches, IInv, TypeOK, MatchingTypeOK
  <1>5. /\ f.topicsUser1 = w.topics /\ f.topicsUser2 = e.topics
        /\ f.user1Id = w.userId /\ f.user2Id = e.userId
    BY DEF FoundEvent
  <1> HIDE DEF e, f
  <1>6. /\ w.topics \in DOMAIN requests
        /\ requests[w.topics] = [userId |-> w.userId, level |-> e.level]
    BY <1>3, <1>4 DEF IInv, PoolFaithful
  <1>7. PoolFaithful'
    BY <1>1, <1>4 DEF IInv, PoolFaithful
  <1>8. MatchFaithful'
    <2> SUFFICES ASSUME NEW g \in matched'
                 PROVE  \E r, s \in DOMAIN requests :
                          /\ Pairing(g) = <<r, s>>
                          /\ requests[r].level = requests[s].level
                          /\ g.user1Id = requests[r].userId
                          /\ g.user2Id = requests[s].userId
      BY <1>1 DEF MatchFaithful
    <2>1. CASE g \in matched
      BY <2>1 DEF IInv, MatchFaithful
    <2>2. CASE g = f
      BY <1>2, <1>5, <1>6, <2>2 DEF Pairing
    <2> QED BY <1>4, <2>1, <2>2
  <1>9. InPool' \subseteq InPool /\ w.topics \in InPool
    BY <1>3, <1>4, InPoolDef
  <1>10. w.topics \notin InPool'
    <2> SUFFICES ASSUME NEW l \in Levels, pool'[l] # None, pool'[l].topics = w.topics
                 PROVE  FALSE
      BY InPoolDef
    <2>1. l # e.level /\ pool[l] # None /\ pool[l].topics = w.topics
      BY <1>4
    <2>2. requests[pool[l].topics] = [userId |-> pool[l].userId, level |-> l]
      BY <2>1 DEF IInv, PoolFaithful
    <2>3. requests[w.topics].level = l /\ requests[w.topics].level = e.level
      BY <1>6, <2>1, <2>2
    <2> QED BY <2>1, <2>3
  <1>11. Paired' = Paired \cup {w.topics, e.topics}
    BY <1>4, <1>5 DEF Paired
  <1>12. w.topics \notin Paired /\ e.topics \notin Paired /\ w.topics # e.topics
         /\ e.topics \notin InPool /\ w.topics \notin Queued
    BY <1>2, <1>9 DEF IInv, RequestUsedOnce
  <1>13. /\ Queued' \cap InPool' = {}
         /\ Queued' \cap Paired' = {}
         /\ InPool' \cap Paired' = {}
    BY <1>2, <1>9, <1>10, <1>11, <1>12 DEF IInv, RequestUsedOnce
  <1>14. \A g \in matched : {g.topicsUser1, g.topicsUser2} \cap {w.topics, e.topics} = {}
    BY <1>12, PairedDef
  <1>15. \A g, h \in matched' :
           g # h => {g.topicsUser1, g.topicsUser2} \cap {h.topicsUser1, h.topicsUser2} = {}
    BY <1>4, <1>5, <1>14 DEF IInv, RequestUsedOnce
  <1>16. \A g \in matched' : g.topicsUser1 # g.topicsUser2
    BY <1>4, <1>5, <1>12 DEF IInv, RequestUsedOnce
  <1>17. RequestUsedOnce'
    BY <1>13, <1>15, <1>16 DEF RequestUsedOnce
  <1> QED BY <1>2, <1>7, <1>8, <1>17 DEF IInv

\* Each other step takes requests out of the queue or the pool, or touches
\* neither.
LEMMA OtherSteps ==
  ASSUME IInv, TypeOK', [Next]_vars,
         ~ \E u \in Users, l \in Levels, ok \in BOOLEAN : JoinMatch(u, l, ok),
         ~ \E p \in Publishers : OnJoin(p, TRUE)
  PROVE  IInv'
  <1> USE DEF matchingVars, notificationVars, brokerVars, budgetVars
  <1>1. ASSUME NEW u \in Users, NEW l \in Levels, NEW ok \in BOOLEAN, CancelMatch(u, l, ok)
        PROVE  IInv'
    <2>1. PICK msgs \in {<<CancelEvent(u, l)>>, <<>>} : Publish("api", msgs)
      BY <1>1 DEF CancelMatch
    <2>2. msgs \in Seq(Message) /\ Joins(msgs) = {}
      BY <2>1, OneCancel, NoMessage
    <2>3. UNCHANGED <<requests, pool, matched>>
      BY <1>1 DEF CancelMatch
    <2> QED BY <2>1, <2>2, <2>3, CancelPublished, Shrinks DEF Publishers
  <1>2. ASSUME NEW ws \in Sockets, NEW ok \in BOOLEAN, Disconnect(ws, ok)
        PROVE  IInv'
    <2>1. PICK msgs : /\ msgs \in {DisconnectCancels(ws), <<>>}
                      /\ Publish("notification", msgs)
      BY <1>2 DEF Disconnect
    <2>2. /\ owner[ws] \in Users
          /\ registry[owner[ws]] # None => registry[owner[ws]].level \in Levels
      BY <1>2 DEF IInv, TypeOK, NotificationTypeOK, RegistryEntry, Disconnect, HandleDisconnect
    <2>3. msgs \in Seq(Message) /\ Joins(msgs) = {}
      <3>1. CASE msgs = <<>>
        BY <3>1, NoMessage
      <3>2. CASE msgs # <<>>
        <4>1. /\ msgs = <<CancelEvent(owner[ws], registry[owner[ws]].level)>>
              /\ registry[owner[ws]] # None
          BY <2>1, <3>2 DEF DisconnectCancels
        <4> QED BY <2>2, <4>1, OneCancel
      <3> QED BY <3>1, <3>2
    <2>4. UNCHANGED <<requests, pool, matched>>
      BY <1>2 DEF Disconnect
    <2> QED BY <2>1, <2>3, <2>4, CancelPublished, Shrinks DEF Publishers
  <1>3. ASSUME NEW p \in Publishers, NEW ok \in BOOLEAN,
               (OnJoin(p, ok) /\ ~ok) \/ OnCancel(p, ok)
        PROVE  IInv'
    <2>1. toMatching[p] # <<>> /\ Take(p) /\ requests' = requests
      BY <1>3 DEF OnJoin, OnCancel, Arrives
    <2>2. UNCHANGED <<pool, matched>>
      BY <1>3 DEF OnJoin, OnCancel, HandleCancel
    <2> QED BY <2>1, <2>2, TakeKeeps, Shrinks
  <1>4. ASSUME NEW ok \in BOOLEAN, FinishCancel(ok)
        PROVE  IInv'
    <2>1. UNCHANGED <<toMatching, requests, matched>>
      BY <1>4 DEF FinishCancel, DeleteEntry, DeleteFails
    <2>2. \A l \in Levels : pool'[l] \in {pool[l], None}
      BY <1>4 DEF FinishCancel, DeleteEntry, DeleteFails, IInv, TypeOK, MatchingTypeOK
    <2>3. QueueInv' /\ Queued' = Queued
      BY <2>1 DEF IInv, QueueInv, Queued
    <2> QED BY <2>1, <2>2, <2>3, Shrinks
  <1>5. CASE CrashMatching
    <2> DEFINE q == toMatching["api"]
               s == toMatching["notification"]
    <2>1. PICK a \in Missed(Len(q)), n \in Missed(Len(s)) :
            toMatching' = [toMatching EXCEPT !["api"] = Drop(a, @),
                                             !["notification"] = Drop(n, @)]
      BY <1>5 DEF CrashMatching
    <2>2. /\ toMatching \in [Publishers -> Seq(Message)]
          /\ q \in Seq(Message) /\ s \in Seq(Message)
      BY DEF IInv, TypeOK, Publishers
    <2>3. toMatching'["api"] = Drop(a, q) /\ toMatching'["notification"] = Drop(n, s)
      BY <2>1, <2>2 DEF Publishers
    <2>4. a \in 0..Len(q) /\ n \in 0..Len(s)
      BY <2>2, MissedIsPrefix, LenProperties
    <2> HIDE DEF q, s
    <2>5. /\ \A rs : Faithful(q, rs) => Faithful(Drop(a, q), rs)
          /\ Once(q) => Once(Drop(a, q))
          /\ TopicsOf(Drop(a, q)) \subseteq TopicsOf(q)
      BY <2>2, <2>4, DropKeeps
    <2>6. Joins(s) = {} => Joins(Drop(n, s)) = {}
      BY <2>2, <2>4, DropKeeps
    <2>7. UNCHANGED <<requests, pool, matched>>
      BY <1>5 DEF CrashMatching, MatchingRestart
    <2>8. QueueInv' /\ Queued' \subseteq Queued
      BY <2>3, <2>5, <2>6, <2>7 DEF IInv, QueueInv, Queued, q, s
    <2> QED BY <2>7, <2>8, Shrinks
  <1>6. ASSUME NEW ws \in Sockets,
               \/ \E u \in Users : Connect(ws, u)
               \/ \E l \in Levels : Register(ws, l)
               \/ Close(ws)
        PROVE  IInv'
    BY <1>6, Untouched DEF Connect, Register, Close
  <1>7. ASSUME NEW h \in joining, NEW ok \in BOOLEAN, WriteHop1(h, ok) \/ PublishFound(h, ok)
        PROVE  IInv'
    BY <1>7, Untouched DEF WriteHop1, RecordHop1, PublishFound, EmitFound
  <1>8. CASE OnMatchFound \/ CrashNotification
    BY <1>8, Untouched DEF OnMatchFound, CrashNotification
  <1>9. ASSUME NEW c \in updating, NEW ok \in BOOLEAN, WriteHop2(c, ok)
        PROVE  IInv'
    BY <1>9, Untouched DEF WriteHop2
  <1>10. CASE UNCHANGED vars
    BY <1>10, Untouched DEF vars
  <1> QED BY <1>1, <1>2, <1>3, <1>4, <1>5, <1>6, <1>7, <1>8, <1>9, <1>10
          DEF Next, Clients, Matching, Notification

\* At the start no request is anywhere.
LEMMA IInvStart == Init => IInv
  <1> SUFFICES ASSUME Init PROVE IInv
    OBVIOUS
  <1>1. TypeOK
    BY DEF Init, TypeOK, MatchingInit, MatchingTypeOK, NotificationInit, NotificationTypeOK
  <1>2. /\ toMatching["api"] = <<>> /\ toMatching["notification"] = <<>>
        /\ matched = {} /\ \A l \in Levels : pool[l] = None
    BY DEF Init, MatchingInit, Publishers
  <1>3. Joins(<<>>) = {}
    BY DEF Joins
  <1>4. QueueInv
    BY <1>2, <1>3 DEF QueueInv, Faithful, Once
  <1>5. Queued = {} /\ InPool = {} /\ Paired = {}
    BY <1>2, <1>3 DEF Queued, TopicsOf, InPool, Waiting, Paired
  <1> QED BY <1>1, <1>2, <1>4, <1>5 DEF IInv, PoolFaithful, MatchFaithful, RequestUsedOnce

\* Every step keeps the inductive invariant: types, queues that carry each request at
\* most once, a pool whose entries are requests made at that level, and the two
\* properties.
LEMMA IInvStep ==
  ASSUME IInv, [Next]_vars
  PROVE  IInv'
  <1>1. TypeOK'
    BY TypeStep DEF IInv
  <1>2. ASSUME NEW p \in Publishers, OnJoin(p, TRUE) PROVE IInv'
    BY <1>1, <1>2, JoinWaitsStep, JoinMatchesStep DEF OnJoin, HandleJoin
  <1> QED BY <1>1, <1>2, JoinMatchStep, OtherSteps

\* So it always holds.
LEMMA IInvInductive == Spec => []IInv
  <1>1. IInv /\ [Next]_vars => IInv'
    BY IInvStep
  <1> QED BY <1>1, IInvStart, PTL DEF Spec

\* Under every interleaving and any number of faults a request ends up in one
\* match at most, and is gone from queue and pool when it does.
THEOREM UsedOnce == Spec => []RequestUsedOnce
  BY IInvInductive, PTL DEF IInv

\* Every match joins two requests made at one level, and names their users.
THEOREM Faithfulness == Spec => []MatchFaithful
  BY IInvInductive, PTL DEF IInv
=============================================================================

---------------------------- MODULE LoadTestProofs ----------------------------
(***************************************************************************)
(* Proofs about LoadTest.tla, for any number of virtual users, sockets and *)
(* iterations, under any faults.  The load test drives the match flow, so  *)
(* that its steps are steps of Matchmaking.tla, but for two kinds of fault;*)
(* the invariants of MatchmakingProofs.tla and MatchFlowProofs.tla carry   *)
(* over.                                                                   *)
(***************************************************************************)
EXTENDS LoadTest, MatchFlowProofs, FiniteSetTheorems, WellFoundedInduction

-----------------------------------------------------------------------------
(* The invariant.                                                          *)

\* A connection that a virtual user holds is open and its own, and register was sent
\* on one.
VuInv ==
  /\ vu \in [Users -> VirtualUser]
  /\ \A u \in Users :
       /\ vu[u].ws # None => readyState[vu[u].ws] = "open" /\ owner[vu[u].ws] = u
       /\ vu[u].registering => vu[u].ws # None

CountersTyped ==
  /\ k6 \in [iterations : Nat, samples : SUBSET Sample, matchTimeouts : Nat, joinErrors : Nat]
  /\ prom \in [requests : Nat, matches : Nat, hop2 : Nat]

\* What waits to be handled was received by that user, and a sample is of a received
\* message that does not wait any more.
MailInv ==
  /\ \A u \in Users : \A n \in vu[u].mail : n \in inbox /\ n.userId = u
  /\ \A s \in k6.samples :
       s.notice \in inbox /\ s.notice.userId = s.userId /\ s.notice \notin vu[s.userId].mail
  /\ \A s, t \in k6.samples : s.notice = t.notice => s = t

LoadInv == IInv /\ FlowInv /\ VuInv /\ CountersTyped /\ MailInv

-----------------------------------------------------------------------------
(* The steps of the match flow under the load test.                        *)

\* A fault that only the client sees: no answer to a connect or to a join.
Unanswered ==
  UNCHANGED <<matchingVars, notificationVars, measurements, brokerVars,
              requests, cancels, connects>>

\* A join that is accepted while its answer is lost.
AnswerLost(u) ==
  /\ requests' = Append(requests, [userId |-> u, level |-> LEVEL])
  /\ Publish("api", <<JoinEvent(u, LEVEL, Len(requests) + 1)>>)
  /\ UNCHANGED <<matchingVars, notificationVars, measurements, toNotification,
                 cancels, connects>>

\* A step of the load test is a step of the match flow or one of these two faults.
LEMMA LoadStepCases ==
  ASSUME VuInv, [LoadNext]_loadVars
  PROVE  \/ [Next]_vars
         \/ /\ Crash
            /\ Unanswered \/ \E u \in Users : AnswerLost(u)
  <1> DEFINE Flow == [Next]_vars
             Fault == Crash /\ (Unanswered \/ \E u \in Users : AnswerLost(u))
  <1> SUFFICES Flow \/ Fault
    OBVIOUS
  <1>1. ASSUME NEW u \in Users, StartIteration(u)
        PROVE  Flow
    <2>1. (CHOOSE ws \in FreeSockets : TRUE) \in Sockets
      BY <1>1 DEF StartIteration, FreeSockets
    <2> QED
      BY <1>1, <2>1 DEF StartIteration, Next, Clients
  <1>2. ASSUME NEW u \in Users, HandleRegistering(u)
        PROVE  Flow
    <2>1. vu[u].ws \in Sockets
      BY <1>2 DEF VuInv, VirtualUser, HandleRegistering
    <2> QED
      BY <1>2, <2>1, LevelAssumption DEF HandleRegistering, Next, Clients
  <1>3. ASSUME NEW u \in Users, NEW ok \in BOOLEAN, PostJoin(u, ok)
        PROVE  Flow
    BY <1>3, LevelAssumption DEF PostJoin, Next, Clients
  <1>4. ASSUME NEW u \in Users, (\E n \in vu[u].mail : OnMessage(u, n)) \/ OnTimeout(u) \/ OnError(u)
        PROVE  Flow
    BY <1>4 DEF OnMessage, OnTimeout, OnError
  <1>5. ASSUME NEW u \in Users, EndIteration(u)
        PROVE  Flow
    <2>1. vu[u].ws # None => vu[u].ws \in Sockets
      BY DEF VuInv, VirtualUser
    <2> QED
      BY <1>5, <2>1 DEF EndIteration, Next, Clients
  <1>6. ASSUME NEW u \in Users, ConnectRefused(u)
        PROVE  Fault
    BY <1>6 DEF ConnectRefused, Unanswered
  <1>7. ASSUME NEW u \in Users, PostFails(u)
        PROVE  Fault
    <2>1. Crash /\ (Unanswered \/ AnswerLost(u))
      BY <1>7 DEF PostFails, Unanswered, AnswerLost, brokerVars
    <2> QED
      BY <2>1
  <1>8. ASSUME NEW ok \in BOOLEAN, Services(ok)
        PROVE  Flow
    BY <1>8 DEF Services, CountJoin, CountMatch, Uncounted, Next, Matching, Notification
  <1>9. CASE DeliverFound \/ MatchingLost \/ NotificationLost
    BY <1>9 DEF DeliverFound, MatchingLost, NotificationLost, Next, Matching, Notification
  <1>10. CASE UNCHANGED loadVars
    BY <1>10 DEF loadVars
  <1> HIDE DEF Flow, Fault
  <1>11. ASSUME NEW u \in Users,
                \/ StartIteration(u) \/ Iteration(u)
                \/ ConnectRefused(u) \/ PostJoin(u, FALSE) \/ PostFails(u)
         PROVE  Flow \/ Fault
    <2>1. ASSUME Iteration(u)
          PROVE  Flow
      BY <1>2, <1>3, <1>4, <1>5, <2>1 DEF Iteration
    <2> QED
      BY <1>1, <1>3, <1>6, <1>7, <1>11, <2>1
  <1>12. CASE LoadNext
    <2>1. CASE \E u \in Users :
                 \/ StartIteration(u) \/ Iteration(u)
                 \/ ConnectRefused(u) \/ PostJoin(u, FALSE) \/ PostFails(u)
      BY <1>11, <2>1
    <2>2. CASE \E ok \in BOOLEAN : Services(ok)
      BY <1>8, <2>2
    <2> QED
      BY <1>9, <1>12, <2>1, <2>2 DEF LoadNext
  <1> QED
    BY <1>10, <1>12

\* The two faults keep what is known of the match flow.
LEMMA FaultKeepsFlow ==
  ASSUME IInv, FlowInv, Crash, Unanswered \/ \E u \in Users : AnswerLost(u)
  PROVE  IInv' /\ FlowInv'
  <1> USE DEF matchingVars, notificationVars, brokerVars
  <1>1. faults \in Nat /\ faults' = faults + 1
    BY DEF Crash, IInv, TypeOK
  <1>2. CASE Unanswered
    <2>1. TypeOK'
      BY <1>1, <1>2 DEF Unanswered, IInv, TypeOK, MatchingTypeOK, NotificationTypeOK
    <2>2. IInv'
      BY <1>2, <2>1, Untouched DEF Unanswered
    <2>3. FlowInv'
      BY <1>1, <1>2, FlowUntouched DEF Unanswered
    <2> QED
      BY <2>2, <2>3
  <1>3. ASSUME NEW u \in Users, AnswerLost(u)
        PROVE  IInv' /\ FlowInv'
    <2>1. LEVEL \in Levels /\ Len(requests) + 1 \in Nat
      BY LevelAssumption, LenProperties DEF IInv, TypeOK
    <2>2. <<JoinEvent(u, LEVEL, Len(requests) + 1)>> \in Seq(Message)
      BY <2>1, EventTypes
    <2>3. toMatching' \in [Publishers -> Seq(Message)]
      BY <1>3, <2>2, PublishType DEF AnswerLost, IInv, Publishers
    <2>4. requests' \in Seq(Request)
      BY <1>3, <2>1 DEF AnswerLost, IInv, TypeOK, Request
    <2>5. TypeOK'
      BY <1>1, <1>3, <2>3, <2>4
         DEF AnswerLost, IInv, TypeOK, MatchingTypeOK, NotificationTypeOK
    <2>6. IInv'
      <3>1. Publish("api", IF TRUE THEN <<JoinEvent(u, LEVEL, Len(requests) + 1)>> ELSE <<>>)
        BY <1>3 DEF AnswerLost
      <3> QED
        BY <1>3, <2>1, <2>5, <3>1, NewRequest DEF AnswerLost
    <2>7. FlowInv'
      BY <1>1, <1>3, FlowUntouched DEF AnswerLost
    <2> QED
      BY <2>6, <2>7
  <1> QED
    BY <1>2, <1>3

\* So every step of the load test keeps it.
LEMMA FlowKept ==
  ASSUME IInv, FlowInv, VuInv, [LoadNext]_loadVars
  PROVE  IInv' /\ FlowInv'
  <1>1. TypeOK
    BY DEF IInv
  <1> QED
    BY <1>1, LoadStepCases, FaultKeepsFlow, IInvStep, FlowStep

-----------------------------------------------------------------------------
(* The virtual users.                                                      *)

\* An idle virtual user.
LEMMA IdleIs ==
  ASSUME NEW i \in Nat
  PROVE  /\ Idle(i) \in VirtualUser
         /\ Idle(i).ws = None /\ ~Idle(i).registering /\ Idle(i).mail = {}
  BY DEF Idle, VirtualUser

\* One virtual user goes on while the others keep their connections.
LEMMA OneVu ==
  ASSUME VuInv, NEW u \in Users, NEW x \in VirtualUser, vu' = [vu EXCEPT ![u] = x],
         x.ws # None => readyState'[x.ws] = "open" /\ owner'[x.ws] = u,
         x.registering => x.ws # None,
         \A v \in Users : v # u /\ vu[v].ws # None =>
            readyState'[vu[v].ws] = "open" /\ owner'[vu[v].ws] = v
  PROVE  VuInv'
  <1>1. /\ vu' \in [Users -> VirtualUser]
        /\ vu'[u] = x /\ \A v \in Users : v # u => vu'[v] = vu[v]
    BY DEF VuInv
  <1> QED
    BY <1>1 DEF VuInv

\* Nothing is measured and nobody gets a message.
LEMMA MailShrinks ==
  ASSUME CountersTyped, MailInv, k6'.samples = k6.samples, inbox' = inbox,
         \A v \in Users : vu'[v].mail \subseteq vu[v].mail
  PROVE  MailInv'
  <1>1. \A s \in k6.samples : s.userId \in Users
    BY DEF CountersTyped, Sample
  <1> QED
    BY <1>1 DEF MailInv

\* An iteration begins on a free socket, which nobody else holds.
LEMMA StartIterationKeeps ==
  ASSUME VuInv, CountersTyped, MailInv, TypeOK, NEW u \in Users, StartIteration(u)
  PROVE  VuInv' /\ CountersTyped' /\ MailInv'
  <1> DEFINE ws == CHOOSE ws \in FreeSockets : TRUE
             start == Idle(vu[u].iteration + 1)
             x == [start EXCEPT !.step = "open", !.ws = ws, !.registering = TRUE, !.timer = TRUE]
  <1>1. ws \in Sockets /\ readyState[ws] = "closed"
    BY DEF StartIteration, FreeSockets
  <1>2. /\ vu' = [vu EXCEPT ![u] = x] /\ UNCHANGED <<k6, prom, inbox>>
        /\ readyState' = [readyState EXCEPT ![ws] = "open"]
        /\ owner' = [owner EXCEPT ![ws] = u]
    <2>1. vu \in [Users -> VirtualUser]
      BY DEF VuInv
    <2> QED
      BY <2>1 DEF StartIteration, Connect, HandleConnection
  <1> HIDE DEF ws
  <1>3. /\ readyState'[ws] = "open" /\ owner'[ws] = u
        /\ \A s \in Sockets : s # ws => readyState'[s] = readyState[s] /\ owner'[s] = owner[s]
    BY <1>1, <1>2 DEF TypeOK, NotificationTypeOK
  <1>4. start \in VirtualUser /\ start.mail = {}
    BY IdleIs DEF VuInv, VirtualUser
  <1> HIDE DEF start
  <1>5. x \in VirtualUser /\ x.ws = ws /\ x.mail = {}
    BY <1>1, <1>4 DEF VirtualUser
  <1> HIDE DEF x
  <1>6. \A v \in Users : vu[v].ws # None => vu[v].ws \in Sockets
    BY DEF VuInv, VirtualUser
  <1>7. \A v \in Users : v # u /\ vu[v].ws # None =>
          readyState'[vu[v].ws] = "open" /\ owner'[vu[v].ws] = v
    BY <1>1, <1>3, <1>6 DEF VuInv
  <1>8. VuInv'
    <2>1. ws # None => readyState'[ws] = "open" /\ owner'[ws] = u
      BY <1>3
    <2>2. x.registering => x.ws # None
      BY <1>1, <1>5, NoSocket
    <2> QED
      BY <1>2, <1>5, <1>7, <2>1, <2>2, OneVu
  <1>9. \A v \in Users : vu'[v].mail \subseteq vu[v].mail
    BY <1>2, <1>5 DEF VuInv
  <1> QED
    BY <1>2, <1>8, <1>9, MailShrinks DEF CountersTyped

\* The server reads a register, the join is posted, the timer fires, the connection
\* turns out to be lost: the virtual user keeps its connection, or has none.
LEMMA VuGoesOn ==
  ASSUME VuInv, CountersTyped, MailInv, NEW u \in Users,
         UNCHANGED <<readyState, owner, inbox>>,
         \/ HandleRegistering(u) \/ (\E ok \in BOOLEAN : PostJoin(u, ok)) \/ PostFails(u)
         \/ OnTimeout(u) \/ OnError(u)
  PROVE  VuInv' /\ CountersTyped' /\ MailInv'
  <1>1. vu[u] \in VirtualUser /\ vu \in [Users -> VirtualUser]
    BY DEF VuInv
  <1>2. PICK x \in VirtualUser :
          /\ vu' = [vu EXCEPT ![u] = x] /\ x.ws = vu[u].ws /\ x.mail = vu[u].mail
          /\ x.registering => vu[u].registering
    <2>1. CASE HandleRegistering(u)
      <3> DEFINE x == [vu[u] EXCEPT !.registering = FALSE]
      <3>1. /\ x \in VirtualUser /\ x.ws = vu[u].ws /\ x.mail = vu[u].mail
            /\ ~x.registering
        BY <1>1 DEF VirtualUser
      <3> QED
        BY <1>1, <2>1, <3>1 DEF HandleRegistering
    <2>2. CASE (\E ok \in BOOLEAN : PostJoin(u, ok)) \/ PostFails(u) \/ OnError(u)
      <3> DEFINE x(step) == [vu[u] EXCEPT !.step = step]
      <3>1. ASSUME NEW step \in {"waiting", "closed"}
            PROVE  /\ x(step) \in VirtualUser
                   /\ x(step).ws = vu[u].ws /\ x(step).mail = vu[u].mail
                   /\ x(step).registering = vu[u].registering
        BY <1>1 DEF VirtualUser
      <3>2. \E step \in {"waiting", "closed"} : vu' = [vu EXCEPT ![u] = x(step)]
        BY <1>1, <2>2 DEF PostJoin, PostFails, OnError
      <3> QED
        BY <3>1, <3>2
    <2>3. CASE OnTimeout(u)
      <3> DEFINE x == [vu[u] EXCEPT !.timer = FALSE,
                          !.step = IF vu[u].matchReceived THEN @ ELSE "closed"]
      <3>1. /\ x \in VirtualUser /\ x.ws = vu[u].ws /\ x.mail = vu[u].mail
            /\ x.registering = vu[u].registering
        BY <1>1 DEF VirtualUser
      <3> QED
        BY <1>1, <2>3, <3>1 DEF OnTimeout
    <2> QED
      BY <2>1, <2>2, <2>3
  <1>3. k6'.samples = k6.samples /\ CountersTyped'
    BY DEF HandleRegistering, PostJoin, PostFails, OnTimeout, OnError, CountersTyped
  <1>4. VuInv'
    <2>1. x.ws # None => readyState'[x.ws] = "open" /\ owner'[x.ws] = u
      BY <1>2 DEF VuInv
    <2>2. x.registering => x.ws # None
      BY <1>2 DEF VuInv
    <2>3. \A v \in Users : v # u /\ vu[v].ws # None =>
            readyState'[vu[v].ws] = "open" /\ owner'[vu[v].ws] = v
      BY DEF VuInv
    <2> QED
      BY <1>2, <2>1, <2>2, <2>3, OneVu
  <1>5. \A v \in Users : vu'[v].mail \subseteq vu[v].mail
    BY <1>1, <1>2
  <1> QED
    BY <1>3, <1>4, <1>5, MailShrinks

\* The latency of a match is measured: its message waits no more.
LEMMA OnMessageKeeps ==
  ASSUME VuInv, CountersTyped, MailInv, TypeOK, NEW u \in Users, NEW n \in vu[u].mail,
         OnMessage(u, n)
  PROVE  VuInv' /\ CountersTyped' /\ MailInv'
  <1> DEFINE x == [vu[u] EXCEPT !.step = "closed", !.matchReceived = TRUE, !.mail = @ \ {n}]
             s == [userId |-> u, iteration |-> vu[u].iteration, notice |-> n]
  <1>1. vu[u] \in VirtualUser /\ vu \in [Users -> VirtualUser]
    BY DEF VuInv
  <1>2. /\ x \in VirtualUser /\ x.ws = vu[u].ws /\ x.mail = vu[u].mail \ {n}
        /\ x.registering = vu[u].registering
    BY <1>1 DEF VirtualUser
  <1>3. vu' = [vu EXCEPT ![u] = x] /\ UNCHANGED <<readyState, owner, inbox, prom>>
    BY <1>1 DEF OnMessage, vars, notificationVars
  <1>4. s \in Sample /\ s.userId = u /\ s.notice = n
    <2>1. n \in Notice /\ vu[u].iteration \in Nat
      BY <1>1 DEF VirtualUser
    <2> QED
      BY <2>1 DEF Sample
  <1>5. k6'.samples = k6.samples \cup {s} /\ CountersTyped'
    <2>1. k6' = [k6 EXCEPT !.samples = @ \cup {s}]
      BY DEF OnMessage
    <2> HIDE DEF s
    <2> QED
      BY <1>3, <1>4, <2>1 DEF CountersTyped
  <1> HIDE DEF x, s
  <1>6. VuInv'
    <2>1. x.ws # None => readyState'[x.ws] = "open" /\ owner'[x.ws] = u
      BY <1>2, <1>3 DEF VuInv
    <2>2. x.registering => x.ws # None
      BY <1>2 DEF VuInv
    <2>3. \A v \in Users : v # u /\ vu[v].ws # None =>
            readyState'[vu[v].ws] = "open" /\ owner'[vu[v].ws] = v
      BY <1>3 DEF VuInv
    <2> QED
      BY <1>2, <1>3, <2>1, <2>2, <2>3, OneVu
  <1>7. /\ vu'[u].mail = vu[u].mail \ {n}
        /\ \A v \in Users : v # u => vu'[v].mail = vu[v].mail
    BY <1>1, <1>2, <1>3
  <1>8. \A t \in k6.samples : t.userId \in Users /\ t.notice # n
    <2>1. \A t \in k6.samples : t.userId \in Users
      BY DEF CountersTyped, Sample
    <2> QED
      BY <2>1 DEF MailInv
  <1>9. n \in inbox /\ n.userId = u
    BY DEF MailInv
  <1>10. MailInv'
    <2>1. \A v \in Users : \A m \in vu'[v].mail : m \in inbox' /\ m.userId = v
      BY <1>3, <1>7 DEF MailInv
    <2>2. \A t \in k6'.samples :
            t.notice \in inbox' /\ t.notice.userId = t.userId /\ t.notice \notin vu'[t.userId].mail
      BY <1>3, <1>4, <1>5, <1>7, <1>8, <1>9 DEF MailInv
    <2>3. \A r, t \in k6'.samples : r.notice = t.notice => r = t
      BY <1>4, <1>5, <1>8 DEF MailInv
    <2> QED
      BY <2>1, <2>2, <2>3 DEF MailInv
  <1> QED
    BY <1>5, <1>6, <1>10

\* An iteration ends: the connection is given back, and nobody else has it.
LEMMA EndIterationKeeps ==
  ASSUME VuInv, CountersTyped, MailInv, TypeOK, NEW u \in Users, EndIteration(u)
  PROVE  VuInv' /\ CountersTyped' /\ MailInv'
  <1> DEFINE x == Idle(vu[u].iteration)
  <1>1. vu[u] \in VirtualUser /\ vu \in [Users -> VirtualUser]
    BY DEF VuInv
  <1>2. x \in VirtualUser /\ x.ws = None /\ ~x.registering /\ x.mail = {}
    BY <1>1, IdleIs DEF VirtualUser
  <1>3. /\ vu' = [vu EXCEPT ![u] = x] /\ UNCHANGED <<owner, inbox, prom>>
        /\ k6'.samples = k6.samples /\ CountersTyped'
    BY <1>1 DEF EndIteration, vars, notificationVars, Close, ClientCloses, CountersTyped
  <1> HIDE DEF x
  <1>4. \A v \in Users : v # u /\ vu[v].ws # None =>
          readyState'[vu[v].ws] = "open" /\ owner'[vu[v].ws] = v
    <2> SUFFICES ASSUME NEW v \in Users, v # u, vu[v].ws # None
                 PROVE  readyState'[vu[v].ws] = "open" /\ owner'[vu[v].ws] = v
      OBVIOUS
    <2>1. vu[v].ws \in Sockets /\ readyState[vu[v].ws] = "open" /\ owner[vu[v].ws] = v
      BY DEF VuInv, VirtualUser
    <2>2. CASE vu[u].ws = None
      BY <2>1, <2>2 DEF EndIteration, vars, notificationVars
    <2>3. CASE vu[u].ws # None
      <3>1. owner[vu[u].ws] = u /\ vu[u].ws \in Sockets
        BY <1>1, <2>3 DEF VuInv, VirtualUser
      <3>2. readyState' = [readyState EXCEPT ![vu[u].ws] = "closing"] /\ owner' = owner
        BY <2>3 DEF EndIteration, Close, ClientCloses
      <3> QED
        BY <2>1, <3>1, <3>2 DEF TypeOK, NotificationTypeOK
    <2> QED
      BY <2>2, <2>3
  <1>5. VuInv'
    BY <1>2, <1>3, <1>4, OneVu
  <1>6. \A v \in Users : vu'[v].mail \subseteq vu[v].mail
    BY <1>1, <1>2, <1>3
  <1> QED
    BY <1>3, <1>5, <1>6, MailShrinks

\* The services close no connection that is open.
LEMMA ServicesKeep ==
  ASSUME VuInv, CountersTyped, MailInv, TypeOK, NEW ok \in BOOLEAN, Services(ok)
  PROVE  VuInv' /\ CountersTyped' /\ MailInv'
  <1>1. UNCHANGED <<vu, k6>> /\ prom' \in [requests : Nat, matches : Nat, hop2 : Nat]
    BY DEF Services, CountJoin, CountMatch, Uncounted, CountersTyped
  <1>2. \A ws \in Sockets : readyState[ws] = "open" =>
          readyState'[ws] = "open" /\ owner'[ws] = owner[ws]
    <2>1. \/ UNCHANGED <<readyState, owner>>
          \/ \E ws \in Sockets : HandleDisconnect(ws)
      BY DEF Services, CountJoin, CountMatch, Uncounted, OnJoin, OnCancel, FinishCancel,
             WriteHop1, PublishFound, Disconnect, WriteHop2, UpdateDone, notificationVars
    <2>2. ASSUME NEW ws \in Sockets, HandleDisconnect(ws)
          PROVE  \A s \in Sockets : readyState[s] = "open" =>
                   readyState'[s] = "open" /\ owner'[s] = owner[s]
      BY <2>2 DEF HandleDisconnect, TypeOK, NotificationTypeOK
    <2> QED
      BY <2>1, <2>2
  <1>3. inbox' = inbox
    BY DEF Services, CountJoin, CountMatch, Uncounted, OnJoin, OnCancel, FinishCancel,
           WriteHop1, PublishFound, Disconnect, HandleDisconnect, WriteHop2, UpdateDone,
           notificationVars
  <1>4. VuInv'
    <2>1. \A v \in Users : vu[v].ws # None => vu[v].ws \in Sockets
      BY DEF VuInv, VirtualUser
    <2> QED
      BY <1>1, <1>2, <2>1 DEF VuInv
  <1> QED
    BY <1>1, <1>3, <1>4, MailShrinks DEF CountersTyped

\* match_found reaches the virtual users that wait for it.  It is new to them: nobody
\* has had a message about this match.
LEMMA DeliverFoundKeeps ==
  ASSUME VuInv, CountersTyped, MailInv, TypeOK, TypeOK', DeliverFound
  PROVE  VuInv' /\ CountersTyped' /\ MailInv'
  <1> DEFINE new(u) == {n \in inbox' \ inbox : n.userId = u}
             told(u) == [vu[u] EXCEPT !.mail = @ \cup new(u)]
  <1>1. /\ UNCHANGED <<readyState, owner, k6>> /\ inbox \subseteq inbox'
        /\ vu' = [u \in Users |->
                    IF vu[u].step \in {"open", "waiting"} /\ vu[u].ws # None
                      THEN told(u) ELSE vu[u]]
    BY DEF DeliverFound, OnMatchFound, HandleMatchFound
  <1>2. inbox' \subseteq Notice
    BY DEF TypeOK, NotificationTypeOK
  <1>3. ASSUME NEW u \in Users
        PROVE  /\ told(u) \in VirtualUser
               /\ told(u).ws = vu[u].ws /\ told(u).registering = vu[u].registering
               /\ told(u).mail = vu[u].mail \cup new(u)
    <2>1. vu[u] \in VirtualUser /\ new(u) \subseteq Notice
      BY <1>2 DEF VuInv
    <2> HIDE DEF new
    <2> QED
      BY <2>1 DEF VirtualUser
  <1>4. \A u \in Users : \A n \in new(u) : n \in inbox' /\ n \notin inbox /\ n.userId = u
    OBVIOUS
  <1> HIDE DEF new, told
  <1>5. VuInv'
    BY <1>1, <1>3 DEF VuInv
  <1>6. CountersTyped'
    BY <1>1 DEF DeliverFound, CountersTyped
  <1>7. \A u \in Users : vu'[u].mail \subseteq vu[u].mail \cup new(u)
    BY <1>1, <1>3
  <1>8. \A s \in k6.samples : s.userId \in Users
    BY DEF CountersTyped, Sample
  <1>9. MailInv'
    BY <1>1, <1>4, <1>7, <1>8 DEF MailInv
  <1> QED
    BY <1>5, <1>6, <1>9

\* A crash of the notification service takes every connection, that of the matching
\* service none.
LEMMA LostKeeps ==
  ASSUME VuInv, CountersTyped, MailInv, TypeOK, MatchingLost \/ NotificationLost
  PROVE  VuInv' /\ CountersTyped' /\ MailInv'
  <1>1. /\ k6' = k6 /\ inbox' = inbox
        /\ prom' \in [requests : Nat, matches : Nat, hop2 : Nat]
    <2>1. k6' = k6 /\ inbox' = inbox
      BY DEF MatchingLost, NotificationLost, CrashMatching, CrashNotification,
             NotificationRestart, notificationVars
    <2>2. CASE prom' = [prom EXCEPT !.requests = 0, !.matches = 0]
      BY <2>1, <2>2 DEF CountersTyped
    <2>3. CASE prom' = [prom EXCEPT !.hop2 = 0]
      BY <2>1, <2>3 DEF CountersTyped
    <2> QED
      BY <2>2, <2>3 DEF MatchingLost, NotificationLost
  <1>2. VuInv' /\ \A u \in Users : vu'[u].mail \subseteq vu[u].mail
    <2>1. CASE MatchingLost
      BY <2>1 DEF MatchingLost, CrashMatching, notificationVars, VuInv
    <2>2. CASE NotificationLost
      <3> DEFINE lost(u) == [vu[u] EXCEPT !.ws = None, !.registering = FALSE]
      <3>1. vu' = [u \in Users |-> lost(u)]
        BY <2>2 DEF NotificationLost
      <3>2. ASSUME NEW u \in Users
            PROVE  /\ lost(u) \in VirtualUser /\ lost(u).ws = None
                   /\ ~lost(u).registering /\ lost(u).mail = vu[u].mail
        <4>1. vu[u] \in VirtualUser
          BY DEF VuInv
        <4> QED
          BY <4>1 DEF VirtualUser
      <3> HIDE DEF lost
      <3> QED
        BY <3>1, <3>2 DEF VuInv
    <2> QED
      BY <2>1, <2>2
  <1> QED
    BY <1>1, <1>2, MailShrinks DEF CountersTyped

\* Every step keeps the invariant.
LEMMA LoadInvStep ==
  ASSUME LoadInv, [LoadNext]_loadVars
  PROVE  LoadInv'
  <1> DEFINE Own == VuInv /\ CountersTyped /\ MailInv
  <1> SUFFICES Own'
    BY FlowKept DEF LoadInv
  <1>1. VuInv /\ CountersTyped /\ MailInv /\ TypeOK /\ TypeOK'
    BY FlowKept DEF LoadInv, IInv
  <1>2. ASSUME UNCHANGED <<vu, k6, prom, readyState, owner, inbox>>
        PROVE  Own'
    BY <1>1, <1>2 DEF VuInv, CountersTyped, MailInv
  <1>3. ASSUME NEW u \in Users, Iteration(u)
        PROVE  Own'
    <2>1. CASE \/ HandleRegistering(u) \/ PostJoin(u, TRUE) \/ OnTimeout(u) \/ OnError(u)
      <3>1. UNCHANGED <<readyState, owner, inbox>>
        BY <2>1 DEF HandleRegistering, Register, HandleRegister, PostJoin, JoinMatch,
                    OnTimeout, OnError, vars, notificationVars
      <3> QED
        BY <1>1, <2>1, <3>1, VuGoesOn
    <2>2. CASE (\E n \in vu[u].mail : OnMessage(u, n)) \/ EndIteration(u)
      BY <1>1, <2>2, OnMessageKeeps, EndIterationKeeps
    <2> QED
      BY <1>3, <2>1, <2>2 DEF Iteration
  <1>4. ASSUME NEW u \in Users, PostJoin(u, FALSE) \/ PostFails(u)
        PROVE  Own'
    <2>1. UNCHANGED <<readyState, owner, inbox>>
      BY <1>4 DEF PostJoin, JoinMatch, PostFails, notificationVars
    <2> QED
      BY <1>1, <1>4, <2>1, VuGoesOn
  <1>5. ASSUME NEW u \in Users, ConnectRefused(u)
        PROVE  Own'
    <2>1. UNCHANGED <<vu, prom, readyState, owner, inbox>> /\ k6'.samples = k6.samples
          /\ CountersTyped'
      BY <1>1, <1>5 DEF ConnectRefused, notificationVars, CountersTyped
    <2> QED
      BY <1>1, <2>1 DEF VuInv, MailInv
  <1>6. ASSUME NEW u \in Users, StartIteration(u)
        PROVE  Own'
    BY <1>1, <1>6, StartIterationKeeps
  <1>7. ASSUME NEW ok \in BOOLEAN, Services(ok)
        PROVE  Own'
    BY <1>1, <1>7, ServicesKeep
  <1>8. ASSUME DeliverFound \/ MatchingLost \/ NotificationLost
        PROVE  Own'
    BY <1>1, <1>8, DeliverFoundKeeps, LostKeeps
  <1>9. ASSUME UNCHANGED loadVars
        PROVE  Own'
    BY <1>2, <1>9 DEF loadVars, vars, notificationVars
  <1> HIDE DEF Own
  <1> QED
    BY <1>3, <1>4, <1>5, <1>6, <1>7, <1>8, <1>9 DEF LoadNext

\* At the start every virtual user is idle.
LEMMA LoadInvStart == LoadInit => LoadInv
  <1> SUFFICES ASSUME LoadInit PROVE LoadInv
    OBVIOUS
  <1>1. IInv /\ FlowInv
    BY IInvStart, FlowStart DEF LoadInit
  <1>2. VuInv
    BY IdleIs DEF LoadInit, VuInv
  <1>3. CountersTyped /\ MailInv
    <2>1. \A u \in Users : vu[u].mail = {}
      BY IdleIs DEF LoadInit
    <2> QED
      BY <2>1 DEF LoadInit, CountersTyped, MailInv
  <1> QED
    BY <1>1, <1>2, <1>3 DEF LoadInv

\* So it always holds.
LEMMA LoadInvariant == LoadSpec => []LoadInv
  <1>1. LoadInv /\ [LoadNext]_loadVars => LoadInv'
    BY LoadInvStep
  <1> QED
    BY <1>1, LoadInvStart, PTL DEF LoadSpec

\* Every reachable state of the load test has the types that LoadTypeOK says, and a
\* connection that a virtual user holds belongs to it.
THEOREM LoadTypeCorrect ==
  LoadSpec => []LoadTypeOK
  <1>1. LoadInv => LoadTypeOK
    BY DEF LoadInv, IInv, VuInv, CountersTyped, LoadTypeOK
  <1> QED
    BY <1>1, LoadInvariant, PTL

\* No join is measured twice: two samples are about two requests, and each is about a
\* request of the virtual user that took it.
THEOREM SampledOnce ==
  LoadSpec => []EachJoinSampledOnce
  <1>1. ASSUME LoadInv
        PROVE  EachJoinSampledOnce
    <2>1. ASSUME NEW n \in inbox
          PROVE  \E f \in matched : n \in {NoticeUser1(f), NoticeUser2(f)}
      BY <1>1 DEF LoadInv, FlowInv, ChannelInv
    <2>2. ASSUME NEW f \in matched
          PROVE  /\ NoticeUser1(f).myTopics = f.topicsUser1 /\ NoticeUser1(f).userId = f.user1Id
                 /\ NoticeUser2(f).myTopics = f.topicsUser2 /\ NoticeUser2(f).userId = f.user2Id
                 /\ requests[f.topicsUser1].userId = f.user1Id
                 /\ requests[f.topicsUser2].userId = f.user2Id
      BY <1>1 DEF NoticeUser1, NoticeUser2, LoadInv, IInv, MatchFaithful, Pairing
    <2>3. \A n, m \in inbox : n.myTopics = m.myTopics => n = m
      <3> SUFFICES ASSUME NEW n \in inbox, NEW m \in inbox, n.myTopics = m.myTopics
                   PROVE  n = m
        OBVIOUS
      <3>1. PICK f \in matched : n \in {NoticeUser1(f), NoticeUser2(f)}
        BY <2>1
      <3>2. PICK g \in matched : m \in {NoticeUser1(g), NoticeUser2(g)}
        BY <2>1
      <3>3. f = g
        <4>1. /\ n.myTopics \in {f.topicsUser1, f.topicsUser2}
              /\ m.myTopics \in {g.topicsUser1, g.topicsUser2}
          BY <2>2, <3>1, <3>2
        <4>2. {f.topicsUser1, f.topicsUser2} \cap {g.topicsUser1, g.topicsUser2} # {}
          BY <4>1
        <4> QED
          BY <1>1, <4>2 DEF LoadInv, IInv, RequestUsedOnce
      <3>4. f.topicsUser1 # f.topicsUser2
        BY <1>1 DEF LoadInv, IInv, RequestUsedOnce
      <3> QED
        BY <2>2, <3>1, <3>2, <3>3, <3>4
    <2>4. \A n \in inbox : requests[n.myTopics].userId = n.userId
      BY <2>1, <2>2
    <2> QED
      BY <1>1, <2>3, <2>4 DEF LoadInv, MailInv, EachJoinSampledOnce
  <1> QED
    BY <1>1, LoadInvariant, PTL

\* Under the load test too the match flow implements Matchmaker: the two kinds of fault
\* that only a client sees are a request that is made, or nothing.
THEOREM LoadImplementsMatchmaker ==
  LoadSpec => ImplementsMatchmaker
  <1>1. ASSUME IInv, Unanswered
        PROVE  UNCHANGED Abstract!absVars
    BY <1>1 DEF Unanswered, Abstract!absVars, Queued, Waiting, Pairing, matchingVars, brokerVars
  <1>2. ASSUME IInv, NEW u \in Users, AnswerLost(u)
        PROVE  Abstract!Next
    <2>1. Queued' = Queued \cup {Len(requests) + 1}
      BY <1>2, LevelAssumption, JoinQueued DEF AnswerLost
    <2>2. \A l \in Levels : Waiting(l)' = Waiting(l)
      BY <1>2 DEF AnswerLost, Waiting, matchingVars
    <2>3. matched' = matched
      BY <1>2 DEF AnswerLost, matchingVars
    <2> QED
      BY <1>2, <2>1, <2>2, <2>3, LevelAssumption, Submits DEF AnswerLost
  <1>3. LoadInv /\ [LoadNext]_loadVars => [Abstract!Next]_(Abstract!absVars)
    BY <1>1, <1>2, LoadStepCases, MatchmakerSteps DEF LoadInv
  <1>4. LoadInit => Abstract!Init
    BY MatchmakerStart DEF LoadInit
  <1> QED
    BY <1>3, <1>4, LoadInvariant, PTL DEF LoadSpec, ImplementsMatchmaker, Abstract!Spec

-----------------------------------------------------------------------------
(* The monitors.                                                           *)

\* Without faults a join request is counted once it has left the queue, a match once
\* its handler is done, and a delivery once match.found has left the broker.
Counted ==
  faults = 0 =>
    /\ prom.requests + Cardinality(Queued) = Len(requests)
    /\ prom.matches + Cardinality(joining) = Cardinality(matched)
    /\ prom.hop2 + Len(toNotification) = prom.matches

RowsOfMatches == \A r \in measurements : \E f \in matched : f.channelName = r.channelName

MonitorInv ==
  /\ IsFiniteSet(matched) /\ IsFiniteSet(joining)
  /\ RowsOfMatches
  /\ Counted

\* The requests in the queue can be counted: they have been made.
LEMMA QueuedFinite ==
  ASSUME IInv
  PROVE  /\ Queued \subseteq DOMAIN requests /\ DOMAIN requests = 1..Len(requests)
         /\ IsFiniteSet(Queued) /\ Cardinality(Queued) \in Nat
         /\ Len(requests) \in Nat /\ Len(requests) + 1 \notin Queued
  <1>1. Queued \subseteq DOMAIN requests
    BY DEF IInv, QueueInv, Faithful, Queued, TopicsOf
  <1>2. DOMAIN requests = 1..Len(requests) /\ Len(requests) \in Nat
    BY LenProperties DEF IInv, TypeOK
  <1>3. IsFiniteSet(1..Len(requests))
    BY <1>2, FS_Interval
  <1>4. IsFiniteSet(Queued)
    BY <1>1, <1>2, <1>3, FS_Subset
  <1>5. Len(requests) + 1 \notin DOMAIN requests
    BY <1>2
  <1> QED
    BY <1>1, <1>2, <1>4, <1>5, FS_CardinalityType

\* A step that the monitors do not notice.
LEMMA StillCounted ==
  ASSUME MonitorInv, faults' = 0 => faults = 0,
         UNCHANGED <<matched, joining, toNotification, measurements, prom>>,
         Queued' = Queued, requests' = requests
  PROVE  MonitorInv'
  BY DEF MonitorInv, RowsOfMatches, Counted

\* A join is posted: it is in the queue, or there was a fault.
LEMMA PostJoinCounted ==
  ASSUME IInv, CountersTyped, MonitorInv, NEW u \in Users, NEW ok \in BOOLEAN, PostJoin(u, ok)
  PROVE  MonitorInv'
  <1>1. /\ UNCHANGED <<matched, joining, toNotification, measurements, prom>>
        /\ JoinMatch(u, LEVEL, ok) /\ Attempt(ok)
    BY DEF PostJoin, JoinMatch, matchingVars
  <1>2. TypeOK /\ requests \in Seq(Request)
    BY DEF IInv, TypeOK
  <1>3. LEVEL \in Levels
    BY LevelAssumption
  <1>4. ASSUME faults' = 0
        PROVE  faults = 0 /\ prom.requests + Cardinality(Queued') = Len(requests')
    <2>1. ok /\ faults = 0
      BY <1>1, <1>2, <1>4, FaultsGrow
    <2>2. /\ Queued' = Queued \cup {Len(requests) + 1}
          /\ requests' = Append(requests, [userId |-> u, level |-> LEVEL])
      BY <1>1, <1>3, <2>1, SubmitDoes
    <2>3. Cardinality(Queued') = Cardinality(Queued) + 1
      BY <2>2, QueuedFinite, FS_AddElement
    <2>4. Len(requests') = Len(requests) + 1
      BY <1>2, <2>2
    <2>5. prom.requests + Cardinality(Queued) = Len(requests) /\ prom.requests \in Nat
      BY <2>1 DEF MonitorInv, Counted, CountersTyped
    <2> QED
      BY <2>1, <2>3, <2>4, <2>5, QueuedFinite
  <1> QED
    BY <1>1, <1>4 DEF MonitorInv, RowsOfMatches, Counted

\* A join is taken off the queue and counted; the match it may make is new.
LEMMA CountJoinCounted ==
  ASSUME IInv, FlowInv, CountersTyped, MonitorInv, NEW p \in Publishers, NEW ok \in BOOLEAN,
         CountJoin(p, ok)
  PROVE  MonitorInv'
  <1> DEFINE e == Head(toMatching[p])
             f == FoundEvent(pool[e.level], e, minted + 1)
             h == [stage |-> "create", found |-> f]
  <1>1. OnJoin(p, ok) /\ UNCHANGED <<measurements, toNotification>>
    BY DEF CountJoin, OnJoin
  <1>2. /\ prom.requests \in Nat /\ prom'.requests = prom.requests + 1
        /\ prom'.matches = prom.matches /\ prom'.hop2 = prom.hop2
    BY DEF CountJoin, CountersTyped
  <1>3. faults' = 0 => ok /\ faults = 0
    BY <1>1, FaultsGrow DEF OnJoin, IInv
  <1>4. /\ e.topics \in Queued /\ Queued' = Queued \ {e.topics} /\ requests' = requests
    BY <1>1, JoinTaken
  <1>5. Cardinality(Queued') = Cardinality(Queued) - 1
    <2>1. IsFiniteSet(Queued)
      BY QueuedFinite
    <2> HIDE DEF e
    <2> QED
      BY <1>4, <2>1, FS_RemoveElement
  <1>6. faults' = 0 => prom'.requests + Cardinality(Queued') = Len(requests')
    <2> SUFFICES ASSUME faults' = 0
                 PROVE  prom'.requests + Cardinality(Queued') = Len(requests')
      OBVIOUS
    <2>1. prom.requests + Cardinality(Queued) = Len(requests)
      BY <1>3 DEF MonitorInv, Counted
    <2> QED
      BY <1>2, <1>4, <1>5, <2>1, QueuedFinite
  <1>7. CASE UNCHANGED <<matched, joining>>
    BY <1>1, <1>2, <1>3, <1>6, <1>7 DEF MonitorInv, RowsOfMatches, Counted
  <1>8. CASE ok /\ JoinMatches(e)
    <2>1. joining' = joining \cup {h} /\ matched' = matched \cup {f}
      BY <1>8 DEF JoinMatches
    <2>2. f.channelName = minted + 1 /\ h.found = f
      BY DEF FoundEvent
    <2> HIDE DEF f, h
    <2>3. minted \in Nat /\ \A g \in matched : g.channelName \in 1..minted
      BY DEF IInv, TypeOK, MatchingTypeOK, FlowInv, ChannelInv
    <2>4. f \notin matched
      BY <2>2, <2>3
    <2>5. h \notin joining
      BY <2>2, <2>4 DEF FlowInv, ChannelInv
    <2>6. /\ IsFiniteSet(matched') /\ Cardinality(matched') = Cardinality(matched) + 1
          /\ IsFiniteSet(joining') /\ Cardinality(joining') = Cardinality(joining) + 1
      BY <2>1, <2>4, <2>5, FS_AddElement DEF MonitorInv
    <2>7. Cardinality(matched) \in Nat /\ Cardinality(joining) \in Nat /\ prom.matches \in Nat
      BY FS_CardinalityType DEF MonitorInv, CountersTyped
    <2>8. faults' = 0 => prom'.matches + Cardinality(joining') = Cardinality(matched')
      <3>1. faults' = 0 => prom.matches + Cardinality(joining) = Cardinality(matched)
        BY <1>3 DEF MonitorInv, Counted
      <3> QED
        BY <1>2, <2>6, <2>7, <3>1
    <2>9. faults' = 0 => prom'.hop2 + Len(toNotification') = prom'.matches
      BY <1>1, <1>2, <1>3 DEF MonitorInv, Counted
    <2>10. RowsOfMatches'
      BY <1>1, <2>1 DEF MonitorInv, RowsOfMatches
    <2> QED
      BY <1>6, <2>6, <2>8, <2>9, <2>10 DEF MonitorInv, Counted
  <1> QED
    BY <1>1, <1>7, <1>8 DEF OnJoin, HandleJoin, JoinWaits, matchingVars

\* The row of a match is written for a match; its handler stays one.
LEMMA WriteHop1Counted ==
  ASSUME TypeOK, FlowInv, MonitorInv, NEW h \in joining, NEW ok \in BOOLEAN,
         Uncounted(WriteHop1(h, ok))
  PROVE  MonitorInv'
  <1> DEFINE k == [h EXCEPT !.stage = "emit"]
             rest == joining \ {h}
  <1>1. /\ joining' = rest \cup {k} /\ h.stage = "create"
        /\ UNCHANGED <<matched, toNotification, toMatching, requests, prom>>
    BY DEF Uncounted, WriteHop1, RecordHop1, brokerVars
  <1>2. k.stage = "emit" /\ k.found = h.found
    BY DEF TypeOK, MatchingTypeOK, JoinHandler
  <1>3. faults' = 0 => faults = 0
    BY FaultsGrow DEF Uncounted, WriteHop1
  <1> HIDE DEF k
  <1>4. k \notin joining
    BY <1>1, <1>2 DEF FlowInv, OnePlace
  <1>5. IsFiniteSet(rest) /\ Cardinality(rest) = Cardinality(joining) - 1 /\ k \notin rest
    BY <1>4, FS_RemoveElement DEF MonitorInv
  <1> HIDE DEF rest
  <1>6. IsFiniteSet(joining') /\ Cardinality(joining') = Cardinality(joining)
    <2>1. IsFiniteSet(joining') /\ Cardinality(joining') = Cardinality(rest) + 1
      BY <1>1, <1>5, FS_AddElement
    <2> QED
      BY <1>5, <2>1, FS_CardinalityType DEF MonitorInv
  <1>7. RowsOfMatches'
    <2>1. h.found \in matched
      BY DEF FlowInv, ChannelInv
    <2>2. \A r \in measurements' : r \in measurements \/ r.channelName = h.found.channelName
      BY DEF Uncounted, WriteHop1, CreateMeasurement
    <2> QED
      BY <1>1, <2>1, <2>2 DEF MonitorInv, RowsOfMatches
  <1>8. Queued' = Queued
    BY <1>1 DEF Queued
  <1> QED
    BY <1>1, <1>3, <1>6, <1>7, <1>8 DEF MonitorInv, Counted

\* A match is counted when its handler ends, and match.found is out.
LEMMA CountMatchCounted ==
  ASSUME TypeOK, CountersTyped, MonitorInv, NEW h \in joining, NEW ok \in BOOLEAN,
         CountMatch(h, ok)
  PROVE  MonitorInv'
  <1>1. /\ joining' = joining \ {h}
        /\ UNCHANGED <<matched, toMatching, requests, measurements>>
        /\ toNotification' = IF ok THEN Append(toNotification, h.found) ELSE toNotification
    BY DEF CountMatch, PublishFound, EmitFound
  <1>2. /\ prom.matches \in Nat /\ prom'.matches = prom.matches + 1 /\ prom.hop2 \in Nat
        /\ prom'.requests = prom.requests /\ prom'.hop2 = prom.hop2
    BY DEF CountMatch, CountersTyped
  <1>3. faults' = 0 => ok /\ faults = 0
    BY FaultsGrow DEF CountMatch, PublishFound
  <1>4. /\ IsFiniteSet(joining') /\ Cardinality(joining') = Cardinality(joining) - 1
        /\ Cardinality(joining) \in Nat /\ Cardinality(matched) \in Nat
    BY <1>1, FS_RemoveElement, FS_CardinalityType DEF MonitorInv
  <1>5. Queued' = Queued
    BY <1>1 DEF Queued
  <1>6. toNotification \in Seq(MatchFoundEvent) /\ Len(toNotification) \in Nat
    BY LenProperties DEF TypeOK
  <1>7. Counted'
    <2> SUFFICES ASSUME faults' = 0
                 PROVE  /\ prom'.requests + Cardinality(Queued') = Len(requests')
                        /\ prom'.matches + Cardinality(joining') = Cardinality(matched')
                        /\ prom'.hop2 + Len(toNotification') = prom'.matches
      BY DEF Counted
    <2>1. /\ prom.requests + Cardinality(Queued) = Len(requests)
          /\ prom.matches + Cardinality(joining) = Cardinality(matched)
          /\ prom.hop2 + Len(toNotification) = prom.matches
      BY <1>3 DEF MonitorInv, Counted
    <2>2. Len(toNotification') = Len(toNotification) + 1
      <3>1. toNotification' = Append(toNotification, h.found)
        BY <1>1, <1>3
      <3> QED
        BY <1>6, <3>1
    <2>3. prom'.matches + Cardinality(joining') = Cardinality(matched')
      BY <1>1, <1>2, <1>4, <2>1
    <2>4. prom'.hop2 + Len(toNotification') = prom'.matches
      BY <1>2, <1>6, <2>1, <2>2
    <2> QED
      BY <1>1, <1>2, <1>5, <2>1, <2>3, <2>4
  <1> QED
    BY <1>1, <1>2, <1>4, <1>7 DEF MonitorInv, RowsOfMatches

\* A delivery is counted when match.found is off the broker.
LEMMA DeliverFoundCounted ==
  ASSUME TypeOK, CountersTyped, MonitorInv, DeliverFound
  PROVE  MonitorInv'
  <1>1. /\ UNCHANGED <<joining, matched, toMatching, requests, measurements, faults>>
        /\ toNotification # <<>> /\ toNotification' = Tail(toNotification)
    BY DEF DeliverFound, OnMatchFound, matchingVars, budgetVars
  <1>2. /\ prom.hop2 \in Nat /\ prom'.hop2 = prom.hop2 + 1
        /\ prom'.requests = prom.requests /\ prom'.matches = prom.matches
    BY DEF DeliverFound, CountersTyped
  <1>3. Len(toNotification') = Len(toNotification) - 1 /\ Len(toNotification) \in Nat
    BY <1>1, HeadTailProperties, LenProperties DEF TypeOK
  <1>4. Queued' = Queued
    BY <1>1 DEF Queued
  <1>5. Counted'
    <2>1. faults' = 0 => prom'.hop2 + Len(toNotification') = prom'.matches
      <3>1. faults' = 0 => prom.hop2 + Len(toNotification) = prom.matches
        BY <1>1 DEF MonitorInv, Counted
      <3> QED
        BY <1>2, <1>3, <3>1
    <2> QED
      BY <1>1, <1>2, <1>4, <2>1 DEF MonitorInv, Counted
  <1> QED
    BY <1>1, <1>2, <1>5 DEF MonitorInv, RowsOfMatches

\* The second latency goes into a row that is there.
LEMMA WriteHop2Counted ==
  ASSUME TypeOK, MonitorInv, NEW c \in updating, NEW ok \in BOOLEAN,
         Uncounted(WriteHop2(c, ok))
  PROVE  MonitorInv'
  <1>1. UNCHANGED <<matched, joining, toNotification, toMatching, requests, prom>>
    BY DEF Uncounted, WriteHop2, matchingVars, brokerVars
  <1>2. faults' = 0 => faults = 0
    BY FaultsGrow DEF Uncounted, WriteHop2
  <1>3. RowsOfMatches'
    <2>1. ASSUME NEW r \in measurements'
          PROVE  \E q \in measurements : q.channelName = r.channelName
      <3>1. CASE r \in measurements
        BY <3>1
      <3>2. CASE r \notin measurements
        <4>1. PICK q \in measurements : r = [channelName |-> q.channelName, hop2 |-> TRUE]
          BY <2>1, <3>2 DEF Uncounted, WriteHop2, UpdateMeasurement
        <4> QED
          BY <4>1
      <3> QED
        BY <3>1, <3>2
    <2> QED
      BY <1>1, <2>1 DEF MonitorInv, RowsOfMatches
  <1>4. Queued' = Queued
    BY <1>1 DEF Queued
  <1> QED
    BY <1>1, <1>2, <1>3, <1>4 DEF MonitorInv, Counted

\* A fault, after which the monitors need not agree any more.
LEMMA FaultCounted ==
  ASSUME TypeOK, CountersTyped, MonitorInv, Crash, UNCHANGED <<matched, measurements>>,
         joining' = joining \/ joining' = {}
  PROVE  MonitorInv'
  <1>1. faults' # 0
    BY DEF Crash, TypeOK
  <1>2. IsFiniteSet(joining')
    BY FS_EmptySet DEF MonitorInv
  <1> QED
    BY <1>1, <1>2 DEF MonitorInv, RowsOfMatches, Counted

\* Every step keeps the counts.
LEMMA MonitorStep ==
  ASSUME LoadInv, MonitorInv, [LoadNext]_loadVars
  PROVE  MonitorInv'
  <1> USE DEF matchingVars, brokerVars, budgetVars
  <1>1. IInv /\ FlowInv /\ CountersTyped /\ TypeOK
    BY DEF LoadInv, IInv
  <1>2. ASSUME UNCHANGED <<toMatching, requests, matched, joining, toNotification,
                           measurements, prom, faults>>
        PROVE  MonitorInv'
    BY <1>2, StillCounted DEF Queued
  <1>3. ASSUME NEW u \in Users, NEW ok \in BOOLEAN, PostJoin(u, ok)
        PROVE  MonitorInv'
    BY <1>1, <1>3, PostJoinCounted
  <1>4. ASSUME NEW u \in Users, Iteration(u)
        PROVE  MonitorInv'
    <2>1. CASE PostJoin(u, TRUE)
      BY <1>3, <2>1
    <2>2. CASE ~PostJoin(u, TRUE)
      BY <1>2, <1>4, <2>2
         DEF Iteration, HandleRegistering, Register, OnMessage, OnTimeout, OnError,
             EndIteration, Close, vars
    <2> QED
      BY <2>1, <2>2
  <1>5. ASSUME NEW u \in Users, StartIteration(u)
        PROVE  MonitorInv'
    BY <1>2, <1>5 DEF StartIteration, Connect
  <1>6. ASSUME NEW u \in Users, ConnectRefused(u) \/ PostFails(u)
        PROVE  MonitorInv'
    BY <1>1, <1>6, FaultCounted DEF ConnectRefused, PostFails
  <1>7. ASSUME NEW ok \in BOOLEAN, Services(ok)
        PROVE  MonitorInv'
    <2>1. ASSUME NEW p \in Publishers, CountJoin(p, ok)
          PROVE  MonitorInv'
      BY <1>1, <2>1, CountJoinCounted
    <2>2. ASSUME NEW p \in Publishers, Uncounted(OnCancel(p, ok))
          PROVE  MonitorInv'
      <3>1. Queued' = Queued
        BY <1>1, <2>2, OnCancelMovesNothing DEF Uncounted
      <3>2. faults' = 0 => faults = 0
        BY <1>1, <2>2, FaultsGrow DEF Uncounted, OnCancel
      <3> QED
        BY <2>2, <3>1, <3>2, StillCounted DEF Uncounted, OnCancel, HandleCancel
    <2>3. CASE Uncounted(FinishCancel(ok))
      <3>1. Queued' = Queued
        BY <1>1, <2>3, FinishCancelDoes DEF Uncounted
      <3>2. faults' = 0 => faults = 0
        BY <1>1, <2>3, FaultsGrow DEF Uncounted, FinishCancel
      <3> QED
        BY <2>3, <3>1, <3>2, StillCounted DEF Uncounted, FinishCancel, DeleteEntry, DeleteFails
    <2>4. ASSUME NEW h \in joining, Uncounted(WriteHop1(h, ok)) \/ CountMatch(h, ok)
          PROVE  MonitorInv'
      BY <1>1, <2>4, WriteHop1Counted, CountMatchCounted
    <2>5. ASSUME NEW ws \in Sockets, Uncounted(Disconnect(ws, ok))
          PROVE  MonitorInv'
      <3>1. Queued' = Queued
        BY <1>1, <2>5, CancelsMoveNothing DEF Uncounted
      <3>2. faults' = 0 => faults = 0
        BY <1>1, <2>5, FaultsGrow DEF Uncounted, Disconnect
      <3> QED
        BY <2>5, <3>1, <3>2, StillCounted DEF Uncounted, Disconnect
    <2>6. ASSUME NEW c \in updating, Uncounted(WriteHop2(c, ok))
          PROVE  MonitorInv'
      BY <1>1, <2>6, WriteHop2Counted
    <2> QED
      BY <1>7, <2>1, <2>2, <2>3, <2>4, <2>5, <2>6 DEF Services
  <1>8. ASSUME DeliverFound
        PROVE  MonitorInv'
    BY <1>1, <1>8, DeliverFoundCounted
  <1>9. ASSUME MatchingLost \/ NotificationLost
        PROVE  MonitorInv'
    <2>1. CASE MatchingLost
      <3>1. Crash /\ UNCHANGED <<matched, measurements>> /\ joining' = {} /\ prom'.matches = 0
        BY <1>1, <2>1 DEF MatchingLost, CrashMatching, MatchingRestart, CountersTyped
      <3> QED
        BY <1>1, <3>1, FaultCounted
    <2>2. CASE NotificationLost
      <3>1. /\ Crash /\ UNCHANGED <<matched, measurements, joining>>
            /\ prom'.matches = prom.matches
        BY <1>1, <2>2 DEF NotificationLost, CrashNotification, CountersTyped
      <3> QED
        BY <1>1, <3>1, FaultCounted
    <2> QED
      BY <1>9, <2>1, <2>2
  <1>10. ASSUME UNCHANGED loadVars
         PROVE  MonitorInv'
    BY <1>2, <1>10 DEF loadVars, vars
  <1> QED
    BY <1>3, <1>4, <1>5, <1>6, <1>7, <1>8, <1>9, <1>10 DEF LoadNext

\* When all is quiet, what each monitor has counted is the matches.
LEMMA QuietMonitorsAgree ==
  ASSUME LoadInv, MonitorInv
  PROVE  MonitorsAgree
  <1> SUFFICES ASSUME faults = 0, Settled
               PROVE  /\ prom.requests = Len(requests)
                      /\ prom.matches = Cardinality(matched) /\ prom.hop2 = prom.matches
                      /\ Cardinality(MeasuredRows) = prom.matches
    BY DEF MonitorsAgree
  <1> DEFINE row(f) == [channelName |-> f.channelName, hop2 |-> TRUE]
             g == [f \in matched |-> row(f)]
  <1>1. /\ toMatching["api"] = <<>> /\ joining = {} /\ toNotification = <<>> /\ updating = {}
    BY DEF Settled, Quiescent, Publishers
  <1>2. Queued = {}
    BY <1>1, NoMessage DEF Queued, TopicsOf
  <1>3. Cardinality(Queued) = 0 /\ Cardinality(joining) = 0 /\ Len(toNotification) = 0
    BY <1>1, <1>2, FS_EmptySet
  <1>4. /\ prom.requests \in Nat /\ prom.matches \in Nat /\ prom.hop2 \in Nat
        /\ prom.requests + Cardinality(Queued) = Len(requests)
        /\ prom.matches + Cardinality(joining) = Cardinality(matched)
        /\ prom.hop2 + Len(toNotification) = prom.matches
    BY DEF LoadInv, CountersTyped, MonitorInv, Counted
  <1>5. \A f \in matched : Row(f.channelName) = {row(f)}
    <2>1. \A c : ~Underway(c)
      BY <1>1 DEF Underway
    <2> QED
      BY <2>1 DEF LoadInv, FlowInv, HopInv
  <1>6. \A f \in matched : row(f) \in MeasuredRows
    BY <1>5 DEF Row, MeasuredRows
  <1>7. \A r \in MeasuredRows : \E f \in matched : r = row(f)
    <2> SUFFICES ASSUME NEW r \in MeasuredRows
                 PROVE  \E f \in matched : r = row(f)
      OBVIOUS
    <2>1. PICK f \in matched : f.channelName = r.channelName
      BY DEF MeasuredRows, MonitorInv, RowsOfMatches
    <2>2. r \in Row(f.channelName)
      BY <2>1 DEF MeasuredRows, Row
    <2> QED
      BY <1>5, <2>2
  <1>8. \A f, e \in matched : row(f) = row(e) => f = e
    <2>1. \A f, e \in matched : f.channelName = e.channelName => f = e
      BY DEF LoadInv, FlowInv, ChannelInv
    <2> QED
      BY <2>1
  <1> HIDE DEF row
  <1>9. g \in Bijection(matched, MeasuredRows)
    BY <1>6, <1>7, <1>8 DEF Bijection, Injection, Surjection, IsInjective
  <1>10. Cardinality(MeasuredRows) = Cardinality(matched)
    BY <1>9, FS_Bijection DEF ExistsBijection, MonitorInv
  <1> QED
    BY <1>3, <1>4, <1>10

\* The counts always hold.
LEMMA MonitorInvariant == LoadSpec => []MonitorInv
  <1>1. LoadInit => MonitorInv
    <2> SUFFICES ASSUME LoadInit PROVE MonitorInv
      OBVIOUS
    <2>1. /\ matched = {} /\ joining = {} /\ measurements = {} /\ toNotification = <<>>
          /\ requests = <<>> /\ toMatching["api"] = <<>>
          /\ prom = [requests |-> 0, matches |-> 0, hop2 |-> 0]
      BY DEF LoadInit, Init, MatchingInit, Publishers
    <2>2. Queued = {}
      BY <2>1, NoMessage DEF Queued, TopicsOf
    <2> QED
      BY <2>1, <2>2, FS_EmptySet DEF MonitorInv, RowsOfMatches, Counted
  <1>2. LoadInv /\ MonitorInv /\ [LoadNext]_loadVars => MonitorInv'
    BY MonitorStep
  <1> QED
    BY <1>1, <1>2, LoadInvariant, PTL DEF LoadSpec

\* Without faults the two monitors and the database tell the same story once all is
\* quiet: as many join requests as were made, and as many matches, deliveries and rows
\* with both latencies as there are matches.
THEOREM MonitorsTellTheSame ==
  LoadSpec => []MonitorsAgree
  <1>1. LoadInv /\ MonitorInv => MonitorsAgree
    BY QuietMonitorsAgree
  <1> QED
    BY <1>1, LoadInvariant, MonitorInvariant, PTL

-----------------------------------------------------------------------------
(* Latencies in order of size.                                             *)

\* Among finitely many latencies one is the greatest: the one with the fewest above it.
LEMMA GreatestOf ==
  ASSUME NEW T, IsFiniteSet(T), T # {}, NEW ms, \A r \in T : ms[r] \in Int
  PROVE  \E r \in T : \A s \in T : ms[s] <= ms[r]
  <1> DEFINE above(r) == {s \in T : ms[s] > ms[r]}
             sizes == {Cardinality(above(r)) : r \in T}
  <1>1. \A r \in T : IsFiniteSet(above(r)) /\ Cardinality(above(r)) \in Nat
    BY FS_Subset, FS_CardinalityType
  <1>2. sizes \subseteq Nat /\ sizes # {}
    BY <1>1
  <1>3. PICK least \in sizes : \A n \in sizes : <<n, least>> \notin OpToRel(<, Nat)
    BY <1>2, NatLessThanWellFounded, WFMin
  <1>4. PICK r \in T : least = Cardinality(above(r))
    OBVIOUS
  <1>5. ASSUME NEW s \in T, ms[s] > ms[r]
        PROVE  FALSE
    <2>1. above(s) \subseteq above(r) /\ s \in above(r) /\ s \notin above(s)
      BY <1>4, <1>5
    <2>2. Cardinality(above(s)) < Cardinality(above(r))
      <3> HIDE DEF above
      <3>1. /\ Cardinality(above(s)) <= Cardinality(above(r))
            /\ Cardinality(above(s)) = Cardinality(above(r)) => above(s) = above(r)
        BY <1>1, <1>4, <2>1, FS_Subset
      <3> QED
        BY <1>1, <1>4, <2>1, <3>1
    <2>3. Cardinality(above(s)) \in sizes
      OBVIOUS
    <2> QED
      BY <1>2, <1>3, <1>4, <2>2, <2>3 DEF OpToRel
  <1> QED
    BY <1>4, <1>5

\* And one is the least.
LEMMA LeastOf ==
  ASSUME NEW T, IsFiniteSet(T), T # {}, NEW ms, \A r \in T : ms[r] \in Int
  PROVE  \E r \in T : \A s \in T : ms[r] <= ms[s]
  <1> DEFINE negated == [r \in T |-> 0 - ms[r]]
  <1>1. \A r \in T : negated[r] \in Int /\ negated[r] = 0 - ms[r]
    OBVIOUS
  <1> HIDE DEF negated
  <1>2. PICK r \in T : \A s \in T : negated[s] <= negated[r]
    BY <1>1, GreatestOf
  <1> QED
    BY <1>1, <1>2

\* What comes after k others in order of size is one of the latencies.
LEMMA OrderedIs ==
  ASSUME NEW ms, IsFiniteSet(DOMAIN ms), \A r \in DOMAIN ms : ms[r] \in Int,
         NEW k \in Nat, k < Cardinality(DOMAIN ms)
  PROVE  \E r \in DOMAIN ms : Ordered(ms, k) = ms[r]
  <1> DEFINE before(v) == {r \in DOMAIN ms : ms[r] < v}
             upTo(v) == {r \in DOMAIN ms : ms[r] <= v}
             T == {r \in DOMAIN ms : Cardinality(upTo(ms[r])) > k}
  <1>1. \A v : /\ IsFiniteSet(before(v)) /\ Cardinality(before(v)) \in Nat
               /\ IsFiniteSet(upTo(v)) /\ Cardinality(upTo(v)) \in Nat
    BY FS_Subset, FS_CardinalityType
  <1>2. IsFiniteSet(T) /\ T # {}
    <2>1. DOMAIN ms # {}
      BY FS_EmptySet
    <2>2. PICK g \in DOMAIN ms : \A s \in DOMAIN ms : ms[s] <= ms[g]
      BY <2>1, GreatestOf
    <2>3. upTo(ms[g]) = DOMAIN ms
      BY <2>2
    <2>4. g \in T
      BY <2>3
    <2> QED
      BY <2>4, FS_Subset
  <1>3. PICK r \in T : \A s \in T : ms[r] <= ms[s]
    BY <1>2, LeastOf
  <1>4. ASSUME ~(Cardinality(before(ms[r])) <= k)
        PROVE  FALSE
    <2>1. before(ms[r]) # {}
      BY <1>4, FS_EmptySet
    <2>2. PICK g \in before(ms[r]) : \A s \in before(ms[r]) : ms[s] <= ms[g]
      BY <1>1, <2>1, GreatestOf
    <2>3. upTo(ms[g]) = before(ms[r])
      BY <1>3, <2>2
    <2>4. g \in T
      <3>1. Cardinality(before(ms[r])) > k
        BY <1>1, <1>4
      <3>2. Cardinality(upTo(ms[g])) > k
        BY <2>3, <3>1
      <3> QED
        BY <2>2, <3>2
    <2> QED
      BY <1>3, <2>2, <2>4
  <1>5. ms[r] \in Range(ms) /\ Cardinality(before(ms[r])) <= k /\ Cardinality(upTo(ms[r])) > k
    BY <1>3, <1>4 DEF Range
  <1>6. Ordered(ms, k) \in Range(ms)
    BY <1>5 DEF Ordered
  <1> QED
    BY <1>6 DEF Range

\* A percentile is a number between two of the latencies.
LEMMA PercentileBetween ==
  ASSUME NEW ms, IsFiniteSet(DOMAIN ms), DOMAIN ms # {},
         \A r \in DOMAIN ms : ms[r] \in Int, NEW p \in Percentiles
  PROVE  /\ Percentile(p, ms) \in Int
         /\ \E r, s \in DOMAIN ms : Percentile(p, ms) \in One * ms[r] .. One * ms[s]
  <1> DEFINE n == Cardinality(DOMAIN ms)
             at == Share[p] * (n - 1)
             part == at % 100
             below == Ordered(ms, at \div 100)
             above == Ordered(ms, (at + 99) \div 100)
  <1>1. n \in Nat /\ n > 0
    BY FS_CardinalityType, FS_EmptySet
  <1>2. Share[p] \in 1..99
    BY DEF Share, Percentiles
  <1>3. at \in Nat /\ at <= 99 * (n - 1)
    <2> DEFINE m == n - 1
    <2>1. m \in Nat
      BY <1>1
    <2> HIDE DEF m, n
    <2>2. Share[p] \in {50, 90, 95, 99}
      BY DEF Share, Percentiles
    <2>3. Share[p] * m \in Nat /\ Share[p] * m <= 99 * m
      BY <2>1, <2>2
    <2> QED
      BY <2>3 DEF m
  <1>4. /\ part \in 0..99
        /\ at \div 100 \in Nat /\ at \div 100 < n
        /\ (at + 99) \div 100 \in Nat /\ (at + 99) \div 100 < n
    <2> HIDE DEF n, at
    <2> QED
      BY <1>1, <1>3
  <1>5. PICK r \in DOMAIN ms : below = ms[r]
    BY <1>4, OrderedIs
  <1>6. PICK s \in DOMAIN ms : above = ms[s]
    BY <1>4, OrderedIs
  <1>7. Percentile(p, ms) = 100 * ((100 - part) * ms[r] + part * ms[s])
    BY <1>5, <1>6 DEF Percentile
  <1> HIDE DEF part
  <1>8. \A x, y \in Int : x <= y =>
          /\ 100 * ((100 - part) * x + part * y) \in One * x .. One * y
          /\ 100 * ((100 - part) * y + part * x) \in One * x .. One * y
    <2> SUFFICES ASSUME NEW x \in Int, NEW y \in Int, x <= y
                 PROVE  /\ 100 * ((100 - part) * x + part * y) \in One * x .. One * y
                        /\ 100 * ((100 - part) * y + part * x) \in One * x .. One * y
      OBVIOUS
    <2> DEFINE d == y - x
               extra == part * d
    <2>1. d \in Nat /\ y = x + d
      OBVIOUS
    <2> HIDE DEF d
    <2>2. extra \in Nat /\ extra <= 100 * d
      BY <1>4, <2>1
    <2>3. /\ (100 - part) * x + part * y = 100 * x + extra
          /\ (100 - part) * y + part * x = 100 * y - extra
      BY <1>4, <2>1
    <2> HIDE DEF extra
    <2> QED
      BY <2>1, <2>2, <2>3 DEF One
  <1>9. ms[r] \in Int /\ ms[s] \in Int /\ (ms[r] <= ms[s] \/ ms[s] <= ms[r])
    OBVIOUS
  <1>10. CASE ms[r] <= ms[s]
    <2>1. Percentile(p, ms) \in One * ms[r] .. One * ms[s]
      BY <1>7, <1>8, <1>9, <1>10
    <2> QED
      BY <2>1
  <1>11. CASE ms[s] <= ms[r]
    <2>1. Percentile(p, ms) \in One * ms[s] .. One * ms[r]
      BY <1>7, <1>8, <1>9, <1>11
    <2> QED
      BY <2>1
  <1> QED
    BY <1>9, <1>10, <1>11

-----------------------------------------------------------------------------
(* What is computed from the files of one run.                             *)

\* The mean of one number is that number.
Sole(v) == <<[sum |-> v, n |-> 1]>>

\* The sum over one run is what that run has.
LEMMA SumOfOne ==
  ASSUME NEW f, NEW x, DOMAIN f = {x}, f[x] \in Int
  PROVE  SumFunction(f) = f[x]
  <1> DEFINE rest(iter) ==
               [s \in SUBSET {x} |->
                  IF s = {} THEN 0
                  ELSE LET y == CHOOSE z \in s : TRUE IN f[y] + iter[s \ {y}]]
             sum == CHOOSE iter : iter = rest(iter)
             one == [s \in SUBSET {x} |-> IF s = {} THEN 0 ELSE f[x]]
  <1>1. SumFunction(f) = sum[{x}]
    BY DEF SumFunction, SumFunctionOnSet, FoldFunctionOnSet, MapThenFoldSet
  <1>2. one = rest(one)
    <2>1. \A s \in SUBSET {x} : s = {} \/ s = {x}
      OBVIOUS
    <2>2. ASSUME NEW s \in SUBSET {x}
          PROVE  one[s] = IF s = {} THEN 0
                          ELSE LET y == CHOOSE z \in s : TRUE IN f[y] + one[s \ {y}]
      <3>1. CASE s = {}
        BY <3>1
      <3>2. CASE s = {x}
        <4>1. (CHOOSE z \in s : TRUE) = x /\ s \ {x} = {}
          BY <3>2
        <4> QED
          BY <3>2, <4>1
      <3> QED
        BY <2>1, <3>1, <3>2
    <2> QED
      BY <2>2
  <1>3. sum = rest(sum)
    BY <1>2
  <1>4. sum[{x}] = f[x] + sum[{}]
    BY <1>3
  <1>5. sum[{}] = 0
    BY <1>3
  <1> QED
    BY <1>1, <1>4, <1>5

\* One number makes a mean, none makes none.
LEMMA MeanOfOne ==
  ASSUME NEW vals, DOMAIN vals = {1}
  PROVE  /\ vals[1] = Null => Mean(vals) = Null
         /\ \A v \in Int : vals[1] = <<v>> => Mean(vals) = Sole(v)
  <1> DEFINE given == {r \in DOMAIN vals : vals[r] # Null}
             first == [r \in given |-> vals[r][1]]
  <1>1. CASE vals[1] = Null
    <2>1. given = {}
      BY <1>1
    <2>2. Mean(vals) = Null
      BY <2>1 DEF Mean
    <2> QED
      BY <1>1, <2>2 DEF Null
  <1>2. ASSUME NEW v \in Int, vals[1] = <<v>>
        PROVE  Mean(vals) = Sole(v)
    <2>1. given = {1}
      BY <1>2 DEF Null
    <2>2. DOMAIN first = {1} /\ first[1] = v
      BY <1>2, <2>1
    <2>3. Cardinality(given) = 1
      BY <2>1, FS_Singleton
    <2>4. SumFunction(first) = v
      <3> HIDE DEF first
      <3> QED
        BY <2>2, SumOfOne
    <2> QED
      BY <2>1, <2>3, <2>4 DEF Mean, Sole
  <1> QED
    BY <1>1, <1>2 DEF Null

\* The status of one summary is its counters.
LEMMA StatusOfOne ==
  ASSUME NEW s, NEW i \in Nat, NEW t \in Nat, NEW j \in Nat,
         s.iterations = IF i = 0 THEN Null ELSE <<i>>,
         s.matchTimeouts = <<t>>, s.joinErrors = <<j>>
  PROVE  GetStatus(<<s>>) = <<[iterations |-> i, timeouts |-> t, joinErrors |-> j]>>
  <1>1. ASSUME NEW c \in Nat, NEW vals, DOMAIN vals = {1},
               vals[1] = <<c>> \/ (c = 0 /\ vals[1] = Null)
        PROVE  Rounded(Mean(vals)) = c
    <2>1. CASE vals[1] = Null
      <3>1. c = 0
        BY <1>1, <2>1 DEF Null
      <3> QED
        BY <1>1, <2>1, <3>1, MeanOfOne DEF Rounded
    <2>2. CASE vals[1] = <<c>>
      <3>1. Mean(vals) = Sole(c)
        BY <1>1, <2>2, MeanOfOne
      <3>2. Sole(c) # Null /\ Sole(c)[1].sum = c /\ Sole(c)[1].n = 1
        BY DEF Sole, Null
      <3>3. Rounded(Sole(c)) = (2 * c + 1) \div 2
        BY <3>2 DEF Rounded
      <3>4. (2 * c + 1) \div 2 = c
        OBVIOUS
      <3> QED
        BY <3>1, <3>3, <3>4
    <2> QED
      BY <1>1, <2>1, <2>2
  <1>2. s.iterations = <<i>> \/ (i = 0 /\ s.iterations = Null)
    OBVIOUS
  <1> QED
    BY <1>1, <1>2 DEF GetStatus

\* The means of one run are its percentiles.
LEMMA MeansOfOne ==
  ASSUME NEW latencies, DOMAIN latencies = {1}, NEW p \in Percentiles
  PROVE  /\ latencies[1][p] = Null => Means(latencies)[p] = Null
         /\ \A v \in Int : latencies[1][p] = <<v>> => Means(latencies)[p] = Sole(v)
  <1> DEFINE vals == [r \in DOMAIN latencies |-> latencies[r][p]]
  <1>1. Means(latencies)[p] = Mean(vals) /\ DOMAIN vals = {1} /\ vals[1] = latencies[1][p]
    BY DEF Means
  <1> HIDE DEF vals
  <1> QED
    BY <1>1, MeanOfOne

\* The averages of one file of the database are what it has.
LEMMA DbAverages ==
  ASSUME NEW m, m.totalMatches \in Nat, m.totalMatches > 0, NEW t \in Int, m.throughput = <<t>>
  PROVE  LET row == AverageDbRuns(<<m>>)[1] IN
         /\ AverageDbRuns(<<m>>) = <<row>>
         /\ row.throughput = Sole(t)
         /\ \A p \in Percentiles : \A v \in Int :
              /\ m.hop1[p] = <<v>> => row.hop1[p] = Sole(v)
              /\ m.hop2[p] = <<v>> => row.hop2[p] = Sole(v)
         /\ GetHops(<<m>>)[1].total = m.totalMatches
  <1> DEFINE runs == WithMatches(<<m>>)
  <1>1. DOMAIN runs = {1} /\ runs[1] = m
    BY DEF WithMatches, RestrictValues, Restrict
  <1> HIDE DEF runs
  <1> DEFINE hop1 == [r \in DOMAIN runs |-> runs[r].hop1]
             hop2 == [r \in DOMAIN runs |-> runs[r].hop2]
             rate == [r \in DOMAIN runs |-> runs[r].throughput]
             count == [r \in DOMAIN runs |-> runs[r].totalMatches]
  <1>2. /\ AverageDbRuns(<<m>>) =
              <<[hop1 |-> Means(hop1), hop2 |-> Means(hop2), throughput |-> Mean(rate)]>>
        /\ GetHops(<<m>>)[1].total = SumFunction(count)
    BY <1>1 DEF AverageDbRuns, GetHops, runs
  <1>3. /\ DOMAIN hop1 = {1} /\ hop1[1] = m.hop1 /\ DOMAIN hop2 = {1} /\ hop2[1] = m.hop2
        /\ DOMAIN rate = {1} /\ rate[1] = m.throughput
        /\ DOMAIN count = {1} /\ count[1] = m.totalMatches
    BY <1>1
  <1> HIDE DEF hop1, hop2, rate, count
  <1>4. Mean(rate) = Sole(t) /\ SumFunction(count) = m.totalMatches
    BY <1>3, MeanOfOne, SumOfOne
  <1>5. \A p \in Percentiles : \A v \in Int :
          /\ m.hop1[p] = <<v>> => Means(hop1)[p] = Sole(v)
          /\ m.hop2[p] = <<v>> => Means(hop2)[p] = Sole(v)
    BY <1>3, MeansOfOne
  <1> QED
    BY <1>2, <1>4, <1>5

\* The end-to-end latencies of one summary are its own.
LEMMA E2EAverages ==
  ASSUME NEW s, NEW e, s.e2e = <<e>>
  PROVE  /\ AverageE2E(<<s>>) # Null
         /\ \A p \in Percentiles : \A v \in Int :
              e[p] = <<v>> => AverageE2E(<<s>>)[1][p] = Sole(v)
  <1> DEFINE runs == {r \in DOMAIN <<s>> : <<s>>[r].e2e # Null}
             files == [r \in runs |-> <<s>>[r].e2e[1]]
  <1>1. runs = {1} /\ DOMAIN files = {1} /\ files[1] = e
    BY DEF Null
  <1>2. AverageE2E(<<s>>) = <<Means(files)>>
    BY <1>1 DEF AverageE2E
  <1> HIDE DEF files
  <1> QED
    BY <1>1, <1>2, MeansOfOne DEF Null

\* What is printed of a mean: nothing for no mean, for zero, and for the 0.01 that zero
\* is drawn as.
LEMMA BarOfSole ==
  ASSUME NEW v \in Int
  PROVE  /\ PrintsNA(Bar(Null))
         /\ PrintsNA(Bar(Sole(v))) <=> v <= 0 \/ v = 100
         /\ ~PrintsNA(Bar(Sole(v))) => Bar(Sole(v))[1] = [sum |-> v, n |-> 1]
  BY DEF PrintsNA, Bar, Tiny, One, Sole, Null

\* The throughput of one row already is more than 0.01, and more rows have more.
LEMMA PerSecondGrows ==
  ASSUME NEW n \in Nat, NEW m \in Nat, 1 <= n, n <= m
  PROVE  PerSecond(n) \in Int /\ PerSecond(n) > 100 /\ PerSecond(n) <= PerSecond(m)
  BY DEF PerSecond

-----------------------------------------------------------------------------
(* No failure is silent.                                                   *)

Measured(u, i) == \E s \in k6.samples : s.userId = u /\ s.iteration = i

\* An iteration of a virtual user that is closing has received its match, what it has
\* received is measured, and so is every iteration before.
IterationsMeasured(u) ==
  /\ vu[u].step = "closed" => vu[u].matchReceived
  /\ vu[u].matchReceived => Measured(u, vu[u].iteration)
  /\ \A i \in 1..vu[u].iteration :
       (i = vu[u].iteration => vu[u].step = "idle") => Measured(u, i)

\* Without faults no connection is lost, and while no timeout is counted there was none.
NothingSilent ==
  faults = 0 =>
    \A u \in Users :
      /\ vu[u].step \in {"open", "waiting"} => vu[u].ws # None
      /\ k6.matchTimeouts = 0 => IterationsMeasured(u)

\* A virtual user goes on in its iteration, or does nothing.
LEMMA StaysMeasured ==
  ASSUME NEW u \in Users, IterationsMeasured(u), k6.samples \subseteq k6'.samples,
         vu'[u].step = vu[u].step \/ (vu[u].step = "open" /\ vu'[u].step = "waiting"),
         vu'[u].matchReceived = vu[u].matchReceived, vu'[u].iteration = vu[u].iteration
  PROVE  IterationsMeasured(u)'
  BY DEF IterationsMeasured, Measured

\* The steps of a virtual user's own thread, without a fault.
LEMMA IterationMeasures ==
  ASSUME VuInv, CountersTyped, NothingSilent, faults = 0, NEW u \in Users,
         StartIteration(u) \/ Iteration(u)
  PROVE  /\ k6.samples \subseteq k6'.samples /\ k6'.matchTimeouts >= k6.matchTimeouts
         /\ \A v \in Users : v # u => vu'[v] = vu[v]
         /\ vu'[u].step \in {"open", "waiting"} => vu'[u].ws # None
         /\ k6'.matchTimeouts = 0 => IterationsMeasured(u)'
  <1>1. /\ vu \in [Users -> VirtualUser] /\ vu[u] \in VirtualUser
        /\ k6.matchTimeouts \in Nat /\ vu[u].iteration \in Nat
    BY DEF VuInv, VirtualUser, CountersTyped
  <1>2. vu[u].step \in {"open", "waiting"} => vu[u].ws # None
    BY DEF NothingSilent
  <1>3. k6.matchTimeouts = 0 => IterationsMeasured(u)
    BY DEF NothingSilent
  <1>4. CASE StartIteration(u)
    <2> DEFINE ws == CHOOSE ws \in FreeSockets : TRUE
               x == [Idle(vu[u].iteration + 1) EXCEPT
                       !.step = "open", !.ws = ws, !.registering = TRUE, !.timer = TRUE]
    <2>1. vu' = [vu EXCEPT ![u] = x] /\ k6' = k6 /\ vu[u].step = "idle" /\ ws \in Sockets
      BY <1>1, <1>4 DEF StartIteration, FreeSockets
    <2> HIDE DEF ws
    <2>2. /\ x.step = "open" /\ x.ws = ws /\ ~x.matchReceived
          /\ x.iteration = vu[u].iteration + 1
      BY DEF Idle
    <2> HIDE DEF x
    <2>3. vu'[u] = x /\ \A v \in Users : v # u => vu'[v] = vu[v]
      BY <1>1, <2>1
    <2>4. \A i \in 1..x.iteration : i # x.iteration => i \in 1..vu[u].iteration
      BY <1>1, <2>2
    <2>5. k6.matchTimeouts = 0 => IterationsMeasured(u)'
      BY <1>3, <2>1, <2>2, <2>3, <2>4 DEF IterationsMeasured, Measured
    <2> QED
      BY <1>1, <2>1, <2>2, <2>3, <2>5, NoSocket
  <1>5. CASE HandleRegistering(u) \/ PostJoin(u, TRUE)
    <2>1. /\ \A v \in Users : v # u => vu'[v] = vu[v]
          /\ vu'[u].step = vu[u].step \/ (vu[u].step = "open" /\ vu'[u].step = "waiting")
          /\ vu'[u].matchReceived = vu[u].matchReceived
          /\ vu'[u].iteration = vu[u].iteration /\ vu'[u].ws = vu[u].ws /\ k6' = k6
      BY <1>1, <1>5 DEF HandleRegistering, PostJoin, VirtualUser
    <2> QED
      BY <1>1, <1>2, <1>3, <2>1, StaysMeasured
  <1>6. ASSUME NEW n \in vu[u].mail, OnMessage(u, n)
        PROVE  /\ k6.samples \subseteq k6'.samples /\ k6'.matchTimeouts >= k6.matchTimeouts
               /\ \A v \in Users : v # u => vu'[v] = vu[v]
               /\ vu'[u].step \in {"open", "waiting"} => vu'[u].ws # None
               /\ k6'.matchTimeouts = 0 => IterationsMeasured(u)'
    <2> DEFINE s == [userId |-> u, iteration |-> vu[u].iteration, notice |-> n]
    <2>1. /\ \A v \in Users : v # u => vu'[v] = vu[v]
          /\ vu'[u].step = "closed" /\ vu'[u].matchReceived
          /\ vu'[u].iteration = vu[u].iteration
      BY <1>1, <1>6 DEF OnMessage, VirtualUser
    <2>2. k6'.samples = k6.samples \cup {s} /\ k6'.matchTimeouts = k6.matchTimeouts
      BY <1>6 DEF OnMessage, CountersTyped
    <2>3. Measured(u, vu[u].iteration)'
      <3>1. s \in k6'.samples /\ s.userId = u /\ s.iteration = vu'[u].iteration
        BY <2>1, <2>2
      <3> HIDE DEF s
      <3> QED
        BY <3>1 DEF Measured
    <2>4. InEventLoop(u)
      BY <1>6 DEF OnMessage
    <2>5. k6'.matchTimeouts = 0 => IterationsMeasured(u)'
      BY <1>3, <2>1, <2>2, <2>3, <2>4 DEF IterationsMeasured, Measured, InEventLoop
    <2> QED
      BY <1>1, <2>1, <2>2, <2>5
  <1>7. CASE OnTimeout(u)
    <2>1. /\ \A v \in Users : v # u => vu'[v] = vu[v]
          /\ vu'[u].matchReceived = vu[u].matchReceived
          /\ vu'[u].iteration = vu[u].iteration /\ vu'[u].ws = vu[u].ws
          /\ vu'[u].step = IF vu[u].matchReceived THEN vu[u].step ELSE "closed"
      BY <1>1, <1>7 DEF OnTimeout, VirtualUser
    <2>2. /\ k6'.samples = k6.samples
          /\ k6'.matchTimeouts =
               IF vu[u].matchReceived THEN k6.matchTimeouts ELSE k6.matchTimeouts + 1
      BY <1>7 DEF OnTimeout, CountersTyped
    <2>3. CASE vu[u].matchReceived
      <3>1. /\ vu'[u].step = vu[u].step /\ k6'.matchTimeouts = k6.matchTimeouts
            /\ k6'.matchTimeouts >= k6.matchTimeouts
        BY <1>1, <2>1, <2>2, <2>3
      <3>2. k6.matchTimeouts = 0 => IterationsMeasured(u)'
        BY <1>3, <2>1, <2>2, <3>1, StaysMeasured
      <3> QED
        BY <1>2, <2>1, <2>2, <3>1, <3>2
    <2>4. CASE ~vu[u].matchReceived
      <3>1. k6'.matchTimeouts # 0 /\ k6'.matchTimeouts >= k6.matchTimeouts
        BY <1>1, <2>2, <2>4
      <3> QED
        BY <2>1, <2>2, <2>4, <3>1
    <2> QED
      BY <2>3, <2>4
  <1>8. CASE EndIteration(u)
    <2> DEFINE x == Idle(vu[u].iteration)
    <2>1. /\ vu' = [vu EXCEPT ![u] = x] /\ vu[u].step = "closed"
          /\ k6'.samples = k6.samples /\ k6'.matchTimeouts = k6.matchTimeouts
      BY <1>1, <1>8 DEF EndIteration, CountersTyped
    <2>2. x.step = "idle" /\ ~x.matchReceived /\ x.iteration = vu[u].iteration
      BY DEF Idle
    <2> HIDE DEF x
    <2>3. vu'[u] = x /\ \A v \in Users : v # u => vu'[v] = vu[v]
      BY <1>1, <2>1
    <2>4. k6.matchTimeouts = 0 => IterationsMeasured(u)'
      BY <1>3, <2>1, <2>2, <2>3 DEF IterationsMeasured, Measured
    <2> QED
      BY <1>1, <2>1, <2>2, <2>3, <2>4
  <1>9. ~OnError(u)
    BY <1>2 DEF OnError
  <1> QED
    BY <1>4, <1>5, <1>6, <1>7, <1>8, <1>9 DEF Iteration

\* Every step without a fault keeps it; after a fault nothing is promised.
LEMMA NothingSilentStep ==
  ASSUME LoadInv, NothingSilent, [LoadNext]_loadVars
  PROVE  NothingSilent'
  <1> USE DEF budgetVars
  <1>1. /\ TypeOK /\ VuInv /\ CountersTyped /\ faults \in Nat
        /\ vu \in [Users -> VirtualUser]
    BY DEF LoadInv, IInv, TypeOK, VuInv
  <1>2. ASSUME faults' = faults,
               \A u \in Users :
                 /\ vu'[u].step = vu[u].step /\ vu'[u].ws = vu[u].ws
                 /\ vu'[u].matchReceived = vu[u].matchReceived
                 /\ vu'[u].iteration = vu[u].iteration,
               k6' = k6
        PROVE  NothingSilent'
    BY <1>2, StaysMeasured DEF NothingSilent
  <1>3. ASSUME faults' = faults + 1
        PROVE  NothingSilent'
    BY <1>1, <1>3 DEF NothingSilent
  <1>4. ASSUME NEW u \in Users, StartIteration(u) \/ Iteration(u)
        PROVE  NothingSilent'
    <2>1. faults' = faults
      BY <1>4 DEF StartIteration, Connect, Iteration, HandleRegistering, Register, PostJoin,
                  JoinMatch, Attempt, OnMessage, OnTimeout, OnError, EndIteration, Close, vars
    <2> SUFFICES ASSUME faults = 0, NEW v \in Users
                 PROVE  /\ vu'[v].step \in {"open", "waiting"} => vu'[v].ws # None
                        /\ k6'.matchTimeouts = 0 => IterationsMeasured(v)'
      BY <2>1 DEF NothingSilent
    <2>2. CASE v = u
      BY <1>1, <1>4, <2>2, IterationMeasures
    <2>3. CASE v # u
      <3>1. /\ k6.samples \subseteq k6'.samples /\ k6'.matchTimeouts >= k6.matchTimeouts
            /\ vu'[v] = vu[v]
        BY <1>1, <1>4, <2>3, IterationMeasures
      <3>2. k6.matchTimeouts \in Nat
        BY <1>1 DEF CountersTyped
      <3>3. k6'.matchTimeouts = 0 => k6.matchTimeouts = 0
        <4>1. k6.matchTimeouts > 0 \/ k6.matchTimeouts = 0
          BY <3>2
        <4> QED
          BY <3>1, <3>2, <4>1
      <3> QED
        BY <3>1, <3>3, StaysMeasured DEF NothingSilent
    <2> QED
      BY <2>2, <2>3
  <1>5. ASSUME NEW u \in Users, ConnectRefused(u) \/ PostJoin(u, FALSE) \/ PostFails(u)
        PROVE  NothingSilent'
    BY <1>3, <1>5 DEF ConnectRefused, PostJoin, JoinMatch, Attempt, PostFails, Crash
  <1>6. ASSUME NEW ok \in BOOLEAN, Services(ok)
        PROVE  NothingSilent'
    <2>1. UNCHANGED <<vu, k6>> /\ faults' \in {faults, faults + 1}
      BY <1>6 DEF Services, CountJoin, CountMatch, Uncounted, OnJoin, OnCancel, FinishCancel,
                  WriteHop1, PublishFound, Disconnect, WriteHop2, Attempt
    <2> QED
      BY <1>2, <1>3, <2>1
  <1>7. ASSUME DeliverFound
        PROVE  NothingSilent'
    <2>1. ASSUME NEW u \in Users
          PROVE  /\ vu'[u].step = vu[u].step /\ vu'[u].ws = vu[u].ws
                 /\ vu'[u].matchReceived = vu[u].matchReceived
                 /\ vu'[u].iteration = vu[u].iteration
      <3> DEFINE new == {n \in inbox' \ inbox : n.userId = u}
      <3>1. vu[u] \in VirtualUser
        BY <1>1
      <3>2. vu'[u] \in {vu[u], [vu[u] EXCEPT !.mail = @ \cup new]}
        BY <1>7 DEF DeliverFound
      <3> HIDE DEF new
      <3> QED
        BY <3>1, <3>2 DEF VirtualUser
    <2> QED
      BY <1>2, <1>7, <2>1 DEF DeliverFound, OnMatchFound
  <1>8. ASSUME MatchingLost \/ NotificationLost
        PROVE  NothingSilent'
    BY <1>3, <1>8 DEF MatchingLost, NotificationLost, CrashMatching, CrashNotification, Crash
  <1>9. ASSUME UNCHANGED loadVars
        PROVE  NothingSilent'
    BY <1>2, <1>9 DEF loadVars, vars
  <1> QED
    BY <1>4, <1>5, <1>6, <1>7, <1>8, <1>9 DEF LoadNext

\* The summary that prints that nothing failed tells the truth when there was no fault:
\* every iteration that has ended has measured an end-to-end latency.
THEOREM FailuresShow ==
  LoadSpec => []NoSilentFailure
  <1>1. LoadInit => NothingSilent
    <2> SUFFICES ASSUME LoadInit, NEW u \in Users
                 PROVE  vu[u].step = "idle" /\ IterationsMeasured(u)
      BY DEF NothingSilent
    <2>1. vu[u] = Idle(0)
      BY DEF LoadInit
    <2>2. vu[u].step = "idle" /\ ~vu[u].matchReceived /\ vu[u].iteration = 0
      BY <2>1 DEF Idle
    <2> QED
      BY <2>2 DEF IterationsMeasured
  <1>2. LoadInv /\ NothingSilent /\ [LoadNext]_loadVars => NothingSilent'
    BY NothingSilentStep
  <1>3. ASSUME LoadInv, NothingSilent
        PROVE  NoSilentFailure
    <2>1. k6.iterations \in Nat /\ k6.matchTimeouts \in Nat /\ k6.joinErrors \in Nat
      BY <1>3 DEF LoadInv, CountersTyped
    <2>2. ASSUME NEW e2eMs, NEW summary \in SummaryFiles(e2eMs),
                 PrintsNoFailure(GetStatus(summary))
          PROVE  k6.matchTimeouts = 0
      <3>1. CASE summary = <<>>
        BY <2>2, <3>1 DEF GetStatus, PrintsNoFailure
      <3>2. CASE summary = <<Summary(e2eMs)>>
        <4> DEFINE s == Summary(e2eMs)
        <4>1. /\ s.iterations = IF k6.iterations = 0 THEN Null ELSE <<k6.iterations>>
              /\ s.matchTimeouts = <<k6.matchTimeouts>> /\ s.joinErrors = <<k6.joinErrors>>
          BY DEF Summary
        <4> HIDE DEF s
        <4>2. GetStatus(<<s>>) =
                <<[iterations |-> k6.iterations, timeouts |-> k6.matchTimeouts,
                   joinErrors |-> k6.joinErrors]>>
          BY <2>1, <4>1, StatusOfOne
        <4>3. GetStatus(summary) = GetStatus(<<s>>)
          BY <3>2 DEF s
        <4> QED
          BY <2>1, <2>2, <4>2, <4>3 DEF PrintsNoFailure
      <3> QED
        BY <2>2, <3>1, <3>2 DEF SummaryFiles
    <2> QED
      BY <1>3, <2>2 DEF NothingSilent, IterationsMeasured, Measured, NoSilentFailure
  <1> QED
    BY <1>1, <1>2, <1>3, LoadInvariant, PTL DEF LoadSpec

-----------------------------------------------------------------------------
(* The charts.                                                             *)

\* Finitely many rows have both latencies, no more than there are matches.
LEMMA RowsBounded ==
  ASSUME LoadInv, MonitorInv
  PROVE  IsFiniteSet(MeasuredRows) /\ Cardinality(MeasuredRows) <= Cardinality(matched)
  <1> DEFINE row(f) == [channelName |-> f.channelName, hop2 |-> TRUE]
             rows == {row(f) : f \in matched}
  <1>1. MeasuredRows \subseteq rows
    <2> SUFFICES ASSUME NEW r \in MeasuredRows
                 PROVE  r \in rows
      OBVIOUS
    <2>1. r \in MatchMeasurement /\ r.hop2
      BY DEF MeasuredRows, LoadInv, IInv, TypeOK
    <2>2. PICK f \in matched : f.channelName = r.channelName
      BY DEF MeasuredRows, MonitorInv, RowsOfMatches
    <2>3. r = row(f)
      BY <2>1, <2>2 DEF MatchMeasurement
    <2> QED
      BY <2>3
  <1>2. IsFiniteSet(matched)
    BY DEF MonitorInv
  <1>3. IsFiniteSet(rows) /\ Cardinality(rows) <= Cardinality(matched)
    <2> DEFINE g == [f \in matched |-> row(f)]
    <2>1. g \in Surjection(matched, rows)
      BY DEF Surjection
    <2> HIDE DEF g, rows
    <2> QED
      BY <1>2, <2>1, FS_Surjection DEF ExistsSurjection
  <1> HIDE DEF rows
  <1>4. /\ IsFiniteSet(MeasuredRows)
        /\ Cardinality(MeasuredRows) <= Cardinality(rows)
    BY <1>1, <1>3, FS_Subset
  <1>5. /\ Cardinality(MeasuredRows) \in Nat /\ Cardinality(matched) \in Nat
        /\ Cardinality(rows) \in Nat
    BY <1>2, <1>3, <1>4, FS_CardinalityType
  <1> QED
    BY <1>3, <1>4, <1>5

\* Finitely many end-to-end latencies are measured: each is of another received message,
\* and a match sends two.
LEMMA SamplesFinite ==
  ASSUME LoadInv, MonitorInv
  PROVE  IsFiniteSet(k6.samples)
  <1> DEFINE one == {NoticeUser1(f) : f \in matched}
             two == {NoticeUser2(f) : f \in matched}
             toUser1 == [f \in matched |-> NoticeUser1(f)]
             toUser2 == [f \in matched |-> NoticeUser2(f)]
             notice == [s \in k6.samples |-> s.notice]
  <1>1. IsFiniteSet(matched)
    BY DEF MonitorInv
  <1>2. toUser1 \in Surjection(matched, one) /\ toUser2 \in Surjection(matched, two)
    BY DEF Surjection
  <1>3. notice \in Injection(k6.samples, one \cup two)
    <2>1. \A s \in k6.samples : \E f \in matched : s.notice \in {NoticeUser1(f), NoticeUser2(f)}
      BY DEF LoadInv, MailInv, FlowInv, ChannelInv
    <2>2. \A s \in k6.samples : notice[s] \in one \cup two
      BY <2>1
    <2>3. \A s, t \in k6.samples : notice[s] = notice[t] => s = t
      BY DEF LoadInv, MailInv
    <2> QED
      BY <2>2, <2>3 DEF Injection, IsInjective
  <1> HIDE DEF one, two, toUser1, toUser2, notice
  <1>4. IsFiniteSet(one) /\ IsFiniteSet(two)
    BY <1>1, <1>2, FS_Surjection
  <1>5. IsFiniteSet(one \cup two)
    BY <1>4, FS_Union
  <1> QED
    BY <1>3, <1>5, FS_Injection

\* A percentile of latencies is shown as one.
LEMMA ShownPercentile ==
  ASSUME NEW ms, IsFiniteSet(DOMAIN ms), DOMAIN ms # {},
         \A r \in DOMAIN ms : ms[r] \in Int, NEW p \in Percentiles
  PROVE  Shows(Sole(Percentile(p, ms)), ms)
  <1> DEFINE v == Percentile(p, ms)
             bar == Bar(Sole(v))
  <1>1. PICK r \in DOMAIN ms : \E q \in DOMAIN ms : v \in One * ms[r] .. One * ms[q]
    BY PercentileBetween
  <1>2. PICK q \in DOMAIN ms : v \in One * ms[r] .. One * ms[q]
    BY <1>1
  <1>3. v \in Int /\ ms[r] \in Int /\ ms[q] \in Int /\ One * ms[r] <= v /\ v <= One * ms[q]
    BY <1>2, PercentileBetween DEF One
  <1> HIDE DEF v
  <1>4. /\ PrintsNA(bar) <=> v <= 0 \/ v = 100
        /\ ~PrintsNA(bar) => bar[1] = [sum |-> v, n |-> 1]
    BY <1>3, BarOfSole
  <1> HIDE DEF bar
  <1>5. ASSUME \A s \in DOMAIN ms : ms[s] <= 0
        PROVE  PrintsNA(bar)
    <2>1. ms[q] <= 0
      BY <1>5
    <2> QED
      BY <1>3, <1>4, <2>1 DEF One
  <1>6. ASSUME \A s \in DOMAIN ms : ms[s] >= 1
        PROVE  ~PrintsNA(bar)
    <2>1. ms[r] >= 1
      BY <1>6
    <2> QED
      BY <1>3, <1>4, <2>1 DEF One
  <1>7. ASSUME ~PrintsNA(bar)
        PROVE  bar[1].sum \in bar[1].n * One * ms[r] .. bar[1].n * One * ms[q]
    <2>1. bar[1].sum = v /\ bar[1].n = 1
      BY <1>4, <1>7
    <2> QED
      BY <1>3, <2>1 DEF One
  <1> QED
    BY <1>5, <1>6, <1>7 DEF Shows, bar, v

\* No latency is shown as N/A.
LEMMA ShownNothing ==
  ASSUME NEW ms, DOMAIN ms = {}, NEW v, PrintsNA(Bar(v))
  PROVE  Shows(v, ms)
  BY DEF Shows

\* What the rows of a database file give to the charts: all of them, with their
\* throughput and the percentiles of their latencies.
LEMMA RowsShown ==
  ASSUME LoadInv, MonitorInv, NEW rows \in SUBSET MeasuredRows, rows # {},
         NEW hop1Ms \in [rows -> Millis], NEW hop2Ms \in [rows -> Millis],
         NEW prom0, NEW e2e,
         NEW db, db = <<DbMetricsFile(hop1Ms, hop2Ms)>>,
         NEW row, row = AverageRuns(AverageDbRuns(db), prom0, e2e)[1]
  PROVE  ShowsRows(row, GetHops(db), hop1Ms, hop2Ms)
  <1> DEFINE n == Cardinality(rows)
             m == DbMetricsFile(hop1Ms, hop2Ms)
             one == [p \in Percentiles |-> Percentile(p, hop1Ms)]
             two == [p \in Percentiles |-> Percentile(p, hop2Ms)]
             drawn == AverageDbRuns(<<m>>)[1]
             t == PerSecond(n)
  <1>1. /\ IsFiniteSet(rows) /\ n \in Nat /\ 1 <= n
        /\ Cardinality(matched) \in Nat /\ n <= Cardinality(matched)
    <2>1. IsFiniteSet(rows) /\ n <= Cardinality(MeasuredRows)
      BY RowsBounded, FS_Subset
    <2>2. /\ n \in Nat /\ Cardinality(MeasuredRows) \in Nat /\ Cardinality(matched) \in Nat
          /\ Cardinality(MeasuredRows) <= Cardinality(matched)
      BY <2>1, RowsBounded, FS_CardinalityType DEF MonitorInv
    <2>3. n # 0
      BY <2>1, FS_EmptySet
    <2> QED
      BY <2>1, <2>2, <2>3
  <1>2. /\ DOMAIN hop1Ms = rows /\ \A r \in rows : hop1Ms[r] \in Int
        /\ DOMAIN hop2Ms = rows /\ \A r \in rows : hop2Ms[r] \in Int
    BY MillisAssumption
  <1>3. \A p \in Percentiles : one[p] \in Int /\ two[p] \in Int
    BY <1>1, <1>2, PercentileBetween
  <1>4. /\ m.totalMatches = n /\ m.throughput = <<t>>
        /\ \A p \in Percentiles : m.hop1[p] = <<one[p]>> /\ m.hop2[p] = <<two[p]>>
    BY <1>2 DEF DbMetricsFile, PercentilesOf
  <1>5. t \in Int /\ t > 100 /\ t <= PerSecond(Cardinality(matched))
    BY <1>1, PerSecondGrows
  <1>6. \A p \in Percentiles : Shows(Sole(one[p]), hop1Ms) /\ Shows(Sole(two[p]), hop2Ms)
    BY <1>1, <1>2, ShownPercentile
  <1> HIDE DEF n, m, one, two, t
  <1>7. /\ AverageDbRuns(<<m>>) = <<drawn>> /\ drawn.throughput = Sole(t)
        /\ \A p \in Percentiles : drawn.hop1[p] = Sole(one[p]) /\ drawn.hop2[p] = Sole(two[p])
        /\ GetHops(<<m>>)[1].total = n
    <2>1. m.totalMatches \in Nat /\ m.totalMatches > 0
      BY <1>1, <1>4
    <2>2. t \in Int /\ m.throughput = <<t>>
      BY <1>4, <1>5
    <2>3. /\ AverageDbRuns(<<m>>) = <<drawn>> /\ drawn.throughput = Sole(t)
          /\ \A p \in Percentiles : \A v \in Int :
               /\ m.hop1[p] = <<v>> => drawn.hop1[p] = Sole(v)
               /\ m.hop2[p] = <<v>> => drawn.hop2[p] = Sole(v)
          /\ GetHops(<<m>>)[1].total = m.totalMatches
      BY <2>1, <2>2, DbAverages
    <2> QED
      BY <1>3, <1>4, <2>3
  <1> HIDE DEF drawn
  <1>8. db = <<m>>
    BY DEF m
  <1>9. row.throughput = drawn.throughput /\ row.hop1 = drawn.hop1 /\ row.hop2 = drawn.hop2
    <2>1. AverageDbRuns(db) = <<drawn>> /\ <<drawn>> # Null /\ <<drawn>>[1] = drawn
      BY <1>7, <1>8 DEF Null
    <2> QED
      BY <2>1 DEF AverageRuns
  <1>10. /\ ~PrintsNA(Bar(row.throughput))
         /\ Bar(row.throughput)[1] = [sum |-> t, n |-> 1]
    BY <1>5, <1>7, <1>9, BarOfSole
  <1>11. /\ Bar(row.throughput)[1].sum = Bar(row.throughput)[1].n * t
         /\ Bar(row.throughput)[1].sum <=
              Bar(row.throughput)[1].n * PerSecond(Cardinality(matched))
    <2>1. PerSecond(Cardinality(matched)) \in Int
      BY <1>1, PerSecondGrows
    <2> QED
      BY <1>5, <1>10, <2>1
  <1> QED
    <2>1. DOMAIN hop1Ms = rows /\ GetHops(db)[1].total = n
      BY <1>2, <1>7, <1>8
    <2>2. \A p \in Percentiles : Shows(row.hop1[p], hop1Ms) /\ Shows(row.hop2[p], hop2Ms)
      BY <1>6, <1>7, <1>9
    <2> QED
      BY <1>10, <1>11, <2>1, <2>2 DEF ShowsRows, n, t

\* What a summary gives to the charts: the percentiles of what the virtual users have
\* measured, and nothing where there is no summary.
LEMMA SamplesShown ==
  ASSUME LoadInv, MonitorInv, NEW e2eMs \in [k6.samples -> Millis],
         NEW summary \in SummaryFiles(e2eMs), NEW base, NEW prom0,
         NEW row, row = AverageRuns(base, prom0, AverageE2E(summary))[1],
         AverageRuns(base, prom0, AverageE2E(summary)) # Null
  PROVE  ShowsSamples(row, IF summary = <<>> THEN <<>> ELSE e2eMs)
  <1> SUFFICES ASSUME NEW p \in Percentiles
               PROVE  Shows(row.e2e[p], IF summary = <<>> THEN <<>> ELSE e2eMs)
    BY DEF ShowsSamples
  <1> DEFINE e2e == AverageE2E(summary)
  <1>1. row.e2e = IF e2e = Null THEN NoHops ELSE e2e[1]
    BY DEF AverageRuns, Null
  <1>2. CASE summary = <<>>
    <2>1. e2e = Null
      BY <1>2 DEF AverageE2E
    <2>2. row.e2e[p] = Null
      BY <1>1, <2>1 DEF NoHops
    <2>3. PrintsNA(Bar(row.e2e[p])) /\ DOMAIN <<>> = {}
      BY <2>2 DEF PrintsNA, Bar, Null
    <2> QED
      BY <1>2, <2>3, ShownNothing
  <1>3. CASE summary = <<Summary(e2eMs)>>
    <2> DEFINE s == Summary(e2eMs)
               v == IF DOMAIN e2eMs = {} THEN 0 ELSE Percentile(p, e2eMs)
    <2>1. s.e2e = <<s.e2e[1]>> /\ s.e2e[1][p] = <<v>>
      BY DEF Summary, PercentilesOf
    <2>2. /\ IsFiniteSet(DOMAIN e2eMs) /\ \A r \in DOMAIN e2eMs : e2eMs[r] \in Int
      BY SamplesFinite, MillisAssumption
    <2>3. v \in Int
      <3>1. DOMAIN e2eMs # {} => Percentile(p, e2eMs) \in Int
        BY <2>2, PercentileBetween
      <3> QED
        BY <3>1
    <2>4. row.e2e[p] = Sole(v)
      <3> HIDE DEF s, v
      <3>1. AverageE2E(<<s>>) # Null /\ AverageE2E(<<s>>)[1][p] = Sole(v)
        BY <2>1, <2>3, E2EAverages
      <3> QED
        BY <1>1, <1>3, <3>1 DEF s
    <2>5. CASE DOMAIN e2eMs = {}
      <3>1. PrintsNA(Bar(row.e2e[p]))
        <4>1. row.e2e[p] = Sole(0)
          BY <2>4, <2>5
        <4>2. PrintsNA(Bar(Sole(0)))
          BY DEF PrintsNA, Bar, Tiny, One, Sole, Null
        <4> QED
          BY <4>1, <4>2
      <3> QED
        BY <1>3, <2>5, <3>1, ShownNothing
    <2>6. CASE DOMAIN e2eMs # {}
      BY <1>3, <2>2, <2>4, <2>6, ShownPercentile
    <2> QED
      BY <2>5, <2>6
  <1> QED
    BY <1>2, <1>3 DEF SummaryFiles

\* The charts show the rows collected from the database, a single one too: with the
\* throughput of that many rows, no more than was matched, with percentiles that lie
\* between the rows' latencies, N/A where all are zero and a number where all are above;
\* and the percentiles of what the virtual users have measured likewise.
THEOREM ChartsTellTheTruth ==
  LoadSpec => []ChartsShowMatches
  <1>1. LoadInv /\ MonitorInv => ChartsShowMatches
    <2> SUFFICES
          ASSUME LoadInv, MonitorInv, NEW rows \in SUBSET MeasuredRows,
                 NEW hop1Ms \in [rows -> Millis], NEW hop2Ms \in [rows -> Millis],
                 NEW db \in DbFiles(hop1Ms, hop2Ms),
                 NEW e2eMs \in [k6.samples -> Millis], NEW summary \in SummaryFiles(e2eMs),
                 NEW prometheus,
                 AverageRuns(AverageDbRuns(db), prometheus.means, AverageE2E(summary)) # Null
          PROVE  LET row == AverageRuns(AverageDbRuns(db), prometheus.means,
                                        AverageE2E(summary))[1] IN
                 /\ UsingDb(db) /\ rows # {} => ShowsRows(row, GetHops(db), hop1Ms, hop2Ms)
                 /\ ShowsSamples(row, IF summary = <<>> THEN <<>> ELSE e2eMs)
      BY DEF ChartsShowMatches
    <2>1. UsingDb(db) => db = <<DbMetricsFile(hop1Ms, hop2Ms)>>
      BY DEF UsingDb, DbFiles
    <2> QED
      BY <2>1, RowsShown, SamplesShown
  <1> QED
    BY <1>1, LoadInvariant, MonitorInvariant, PTL
=============================================================================

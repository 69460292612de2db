----------------------------- MODULE Matchmaking -----------------------------
(***************************************************************************)
(* The match flow end to end: clients call the API service over HTTP and   *)
(* hold a WebSocket to the notification service; the API, the matching     *)
(* service and the notification service talk through a message broker.     *)
(*                                                                         *)
(* The broker keeps the order of the messages of one publisher and         *)
(* promises nothing about two publishers.  The matching service has two:   *)
(* the API (joins, cancels) and the notification service (cancels).  The   *)
(* matching service alone publishes match.found.                           *)
(*                                                                         *)
(* A fault is a publish that never reaches the broker, a Redis or database *)
(* command that fails, or a service that crashes and restarts.  The bounds *)
(* MaxJoins, MaxCancels, MaxConnects and MaxFaults only limit how often    *)
(* clients and faults act; the services are never limited.                 *)
(***************************************************************************)
EXTENDS MatchingService, NotificationService

CONSTANTS Broker,       \* BROKER: "nats" or "rabbitmq"
          MaxJoins,     \* POST /match/join calls
          MaxCancels,   \* POST /match/cancel calls
          MaxConnects,  \* WebSocket connections
          MaxFaults

ASSUME BrokerAssumption == Broker \in {"nats", "rabbitmq"}

ASSUME BoundsAssumption ==
  /\ MaxJoins \in Nat /\ MaxCancels \in Nat
  /\ MaxConnects \in Nat /\ MaxFaults \in Nat

VARIABLES
  toMatching,      \* publisher -> its messages not yet taken by matching
  toNotification,  \* match.found messages not yet taken by notification
  requests,        \* history: the join requests, in the order issued
  cancels, connects, faults    \* how often clients and faults have acted

brokerVars == <<toMatching, toNotification>>
budgetVars == <<requests, cancels, connects, faults>>
vars == <<matchingVars, notificationVars, measurements, brokerVars, budgetVars>>

Publishers == {"api", "notification"}

Message == MatchRequestEvent \cup MatchCancelEvent

Request == [userId : Users, level : Levels]

TypeOK ==
  /\ MatchingTypeOK
  /\ NotificationTypeOK
  /\ measurements \subseteq MatchMeasurement
  /\ toMatching \in [Publishers -> Seq(Message)]
  /\ toNotification \in Seq(MatchFoundEvent)
  /\ requests \in Seq(Request)
  /\ cancels \in Nat /\ connects \in Nat /\ faults \in Nat

Init ==
  /\ MatchingInit
  /\ NotificationInit
  /\ measurements = {}
  /\ toMatching = [p \in Publishers |-> <<>>]
  /\ toNotification = <<>>
  /\ requests = <<>>
  /\ cancels = 0 /\ connects = 0 /\ faults = 0

-----------------------------------------------------------------------------
(* Broker and faults.                                                      *)

\* A command or a publish that may fail: failing uses up one fault.
Attempt(ok) ==
  /\ ok \/ faults < MaxFaults
  /\ faults' = IF ok THEN faults ELSE faults + 1

Crash == faults < MaxFaults /\ faults' = faults + 1

Publish(p, msgs) == toMatching' = [toMatching EXCEPT ![p] = @ \o msgs]

Take(p) == toMatching' = [toMatching EXCEPT ![p] = Tail(@)]

Drop(n, q) == SubSeq(q, n + 1, Len(q))

\* How many of n undelivered messages a restarting subscriber misses.  Core
\* NATS keeps nothing for an absent subscriber; a durable RabbitMQ queue keeps
\* what it has not delivered, but what it has delivered counts as acknowledged.
Missed(n) == IF Broker = "nats" THEN {n} ELSE 0..n

-----------------------------------------------------------------------------
(* API service: both endpoints answer at once and only log a failed emit.  *)

JoinMatch(u, l, ok) ==
  /\ Len(requests) < MaxJoins
  /\ requests' = Append(requests, [userId |-> u, level |-> l])
  /\ Attempt(ok)
  /\ Publish("api", IF ok THEN <<JoinEvent(u, l, Len(requests) + 1)>> ELSE <<>>)
  /\ UNCHANGED <<matchingVars, notificationVars, measurements, toNotification,
                 cancels, connects>>

CancelMatch(u, l, ok) ==
  /\ cancels < MaxCancels
  /\ cancels' = cancels + 1
  /\ Attempt(ok)
  /\ Publish("api", IF ok THEN <<CancelEvent(u, l)>> ELSE <<>>)
  /\ UNCHANGED <<matchingVars, notificationVars, measurements, toNotification,
                 requests, connects>>

-----------------------------------------------------------------------------
(* Matching service.                                                       *)

Arrives(p, kind) == toMatching[p] # <<>> /\ Head(toMatching[p]).kind = kind

\* matchmaking.join.  A failed eval rejects the handler: the message is gone.
OnJoin(p, ok) ==
  /\ Arrives(p, "join")
  /\ Take(p)
  /\ Attempt(ok)
  /\ IF ok THEN HandleJoin(Head(toMatching[p])) ELSE UNCHANGED matchingVars
  /\ UNCHANGED <<notificationVars, measurements, toNotification,
                 requests, cancels, connects>>

\* matchmaking.cancel.  So does a failed hget.
OnCancel(p, ok) ==
  /\ Arrives(p, "cancel")
  /\ Take(p)
  /\ Attempt(ok)
  /\ IF ok THEN HandleCancel(Head(toMatching[p])) ELSE UNCHANGED matchingVars
  /\ UNCHANGED <<notificationVars, measurements, toNotification,
                 requests, cancels, connects>>

FinishCancel(ok) ==
  /\ Attempt(ok)
  /\ IF ok THEN DeleteEntry ELSE DeleteFails
  /\ UNCHANGED <<notificationVars, measurements, brokerVars,
                 requests, cancels, connects>>

WriteHop1(h, ok) ==
  /\ RecordHop1(h)
  /\ Attempt(ok)
  /\ IF ok THEN CreateMeasurement(h.found.channelName) ELSE UNCHANGED measurements
  /\ UNCHANGED <<notificationVars, brokerVars, requests, cancels, connects>>

PublishFound(h, ok) ==
  /\ EmitFound(h)
  /\ Attempt(ok)
  /\ toNotification' = IF ok THEN Append(toNotification, h.found) ELSE toNotification
  /\ UNCHANGED <<notificationVars, measurements, toMatching,
                 requests, cancels, connects>>

CrashMatching ==
  /\ Crash
  /\ MatchingRestart
  /\ \E a \in Missed(Len(toMatching["api"])),
        n \in Missed(Len(toMatching["notification"])) :
       toMatching' = [toMatching EXCEPT !["api"] = Drop(a, @),
                                        !["notification"] = Drop(n, @)]
  /\ UNCHANGED <<notificationVars, measurements, toNotification,
                 requests, cancels, connects>>

-----------------------------------------------------------------------------
(* Notification service.                                                   *)

Connect(ws, u) ==
  /\ connects < MaxConnects
  /\ connects' = connects + 1
  /\ HandleConnection(ws, u)
  /\ UNCHANGED <<matchingVars, measurements, brokerVars, requests, cancels, faults>>

Register(ws, l) ==
  /\ HandleRegister(ws, l)
  /\ UNCHANGED <<matchingVars, measurements, brokerVars, budgetVars>>

Close(ws) ==
  /\ ClientCloses(ws)
  /\ UNCHANGED <<matchingVars, measurements, brokerVars, budgetVars>>

Disconnect(ws, ok) ==
  /\ HandleDisconnect(ws)
  /\ Attempt(ok)
  /\ Publish("notification", IF ok THEN DisconnectCancels(ws) ELSE <<>>)
  /\ UNCHANGED <<matchingVars, measurements, toNotification,
                 requests, cancels, connects>>

\* match.found.
OnMatchFound ==
  /\ toNotification # <<>>
  /\ toNotification' = Tail(toNotification)
  /\ HandleMatchFound(Head(toNotification))
  /\ UNCHANGED <<matchingVars, measurements, toMatching, budgetVars>>

WriteHop2(c, ok) ==
  /\ UpdateDone(c)
  /\ Attempt(ok)
  /\ IF ok THEN UpdateMeasurement(c) ELSE UNCHANGED measurements
  /\ UNCHANGED <<matchingVars, brokerVars, requests, cancels, connects>>

CrashNotification ==
  /\ Crash
  /\ NotificationRestart
  /\ \E n \in Missed(Len(toNotification)) : toNotification' = Drop(n, toNotification)
  /\ UNCHANGED <<matchingVars, measurements, toMatching, requests, cancels, connects>>

-----------------------------------------------------------------------------
Clients ==
  \/ \E u \in Users, l \in Levels, ok \in BOOLEAN :
       JoinMatch(u, l, ok) \/ CancelMatch(u, l, ok)
  \/ \E ws \in Sockets :
       \/ \E u \in Users : Connect(ws, u)
       \/ \E l \in Levels : Register(ws, l)
       \/ Close(ws)

Matching ==
  \/ \E p \in Publishers, ok \in BOOLEAN : OnJoin(p, ok) \/ OnCancel(p, ok)
  \/ \E ok \in BOOLEAN : FinishCancel(ok)
  \/ \E h \in joining, ok \in BOOLEAN : WriteHop1(h, ok) \/ PublishFound(h, ok)
  \/ CrashMatching

Notification ==
  \/ \E ws \in Sockets, ok \in BOOLEAN : Disconnect(ws, ok)
  \/ OnMatchFound
  \/ \E c \in updating, ok \in BOOLEAN : WriteHop2(c, ok)
  \/ CrashNotification

Next == Clients \/ Matching \/ Notification

Spec == Init /\ [][Next]_vars

\* The services run, the broker delivers, and a closed socket is noticed.
\* Nothing is assumed of clients, and no fault has to happen.
Fairness ==
  /\ \A p \in Publishers :
       WF_vars(OnJoin(p, TRUE)) /\ WF_vars(OnCancel(p, TRUE))
  /\ WF_vars(FinishCancel(TRUE))
  /\ \A c \in 1..MaxJoins :
       /\ WF_vars(\E h \in joining : h.found.channelName = c
                                     /\ (WriteHop1(h, TRUE) \/ PublishFound(h, TRUE)))
       /\ WF_vars(WriteHop2(c, TRUE))
  /\ \A ws \in Sockets : WF_vars(Disconnect(ws, TRUE))
  /\ WF_vars(OnMatchFound)

FairSpec == Spec /\ Fairness
=============================================================================

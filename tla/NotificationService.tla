------------------------- MODULE NotificationService -------------------------
(***************************************************************************)
(* The notification service: a WebSocket per client and a registry that    *)
(* says where to send a user's match_found message                         *)
(* (apps/notification/src/notification.gateway.ts, notification.service.ts)*)
(*                                                                         *)
(* A socket id is one connection slot.  "closing" is a connection whose    *)
(* client is gone while the server has not yet run handleDisconnect: a     *)
(* message sent to it, if it is sent at all, is not received.              *)
(***************************************************************************)
EXTENDS MatchEvents

CONSTANT Sockets

VARIABLES
  readyState,  \* socket -> "closed", "open" or "closing"
  owner,       \* client.userId: the user of the token a socket came with
  registry,    \* Map userId -> {ws, level}
  inbox,       \* every match_found message a client has received
  updating     \* channels whose hop2 updateMany is issued and not yet done

notificationVars == <<readyState, owner, registry, inbox, updating>>

ASSUME NoRegistryEntry == None \notin [ws : Sockets, level : Levels]

RegistryEntry == [ws : Sockets, level : Levels]

Notice == [userId : Users, channelName : Nat, user1Id : Users, user2Id : Users,
           token : Uids, myTopics : Nat, partnerTopics : Nat]

NotificationTypeOK ==
  /\ readyState \in [Sockets -> {"closed", "open", "closing"}]
  /\ owner \in [Sockets -> Users \cup {None}]
  /\ \A ws \in Sockets : owner[ws] = None <=> readyState[ws] = "closed"
  /\ registry \in [Users -> RegistryEntry \cup {None}]
  /\ inbox \subseteq Notice
  /\ updating \subseteq Nat

NotificationInit ==
  /\ readyState = [ws \in Sockets |-> "closed"]
  /\ owner = [ws \in Sockets |-> None]
  /\ registry = [u \in Users |-> None]
  /\ inbox = {}
  /\ updating = {}

-----------------------------------------------------------------------------
\* A connection with a valid token.  (One without is closed at once and has
\* no userId, so that neither register nor disconnect does anything for it.)
HandleConnection(ws, u) ==
  /\ readyState[ws] = "closed"
  /\ readyState' = [readyState EXCEPT ![ws] = "open"]
  /\ owner' = [owner EXCEPT ![ws] = u]
  /\ UNCHANGED <<registry, inbox, updating>>

\* The last register of a user wins, on whichever socket it comes.
HandleRegister(ws, l) ==
  /\ readyState[ws] = "open"
  /\ registry' = [registry EXCEPT ![owner[ws]] = [ws |-> ws, level |-> l]]
  /\ UNCHANGED <<readyState, owner, inbox, updating>>

\* The client closes the socket, times out or vanishes.
ClientCloses(ws) ==
  /\ readyState[ws] = "open"
  /\ readyState' = [readyState EXCEPT ![ws] = "closing"]
  /\ UNCHANGED <<owner, registry, inbox, updating>>

\* Mutant: a disconnect leaves the registry alone.
DisconnectKeepsEntry(ws) ==
  /\ readyState[ws] = "closing"
  /\ readyState' = [readyState EXCEPT ![ws] = "closed"]
  /\ owner' = [owner EXCEPT ![ws] = None]
  /\ UNCHANGED <<registry, inbox, updating>>

\* handleDisconnect and unregister: the entry goes, whichever socket it names.
HandleDisconnect(ws) ==
  /\ readyState[ws] = "closing"
  /\ readyState' = [readyState EXCEPT ![ws] = "closed"]
  /\ owner' = [owner EXCEPT ![ws] = None]
  /\ registry' = [registry EXCEPT ![owner[ws]] = None]
  /\ UNCHANGED <<inbox, updating>>

\* The matchmaking.cancel that unregister publishes when there was an entry.
DisconnectCancels(ws) ==
  IF registry[owner[ws]] = None THEN <<>>
  ELSE <<CancelEvent(owner[ws], registry[owner[ws]].level)>>

-----------------------------------------------------------------------------
(* handleMatchFound: one message to each side that can be reached.         *)

NoticeUser1(f) ==
  [userId |-> f.user1Id, channelName |-> f.channelName,
   user1Id |-> f.user1Id, user2Id |-> f.user2Id, token |-> f.tokenUser1,
   myTopics |-> f.topicsUser1, partnerTopics |-> f.topicsUser2]

\* Mutant: both sides get the token of uid 1.
NoticeSameToken(f) ==
  [userId |-> f.user2Id, channelName |-> f.channelName,
   user1Id |-> f.user1Id, user2Id |-> f.user2Id, token |-> f.tokenUser1,
   myTopics |-> f.topicsUser2, partnerTopics |-> f.topicsUser1]

NoticeUser2(f) ==
  [userId |-> f.user2Id, channelName |-> f.channelName,
   user1Id |-> f.user1Id, user2Id |-> f.user2Id, token |-> f.tokenUser2,
   myTopics |-> f.topicsUser2, partnerTopics |-> f.topicsUser1]

Reachable(u) == registry[u] # None /\ readyState[registry[u].ws] = "open"

\* Mutant: only the user who waited is told.
TellUser1Only(f) ==
  /\ inbox' = inbox \cup {n \in {NoticeUser1(f)} : Reachable(n.userId)}
  /\ updating' = updating \cup {f.channelName}
  /\ UNCHANGED <<readyState, owner, registry>>

HandleMatchFound(f) ==
  /\ inbox' = inbox \cup {n \in {NoticeUser1(f), NoticeUser2(f)} : Reachable(n.userId)}
  /\ updating' = updating \cup {f.channelName}
  /\ UNCHANGED <<readyState, owner, registry>>

\* The updateMany that handleMatchFound does not await is over; its error is
\* caught.
UpdateDone(c) ==
  /\ c \in updating
  /\ updating' = updating \ {c}
  /\ UNCHANGED <<readyState, owner, registry, inbox>>

\* A crash drops every connection, the registry and the updates in flight; no
\* cancel is published.
NotificationRestart ==
  /\ readyState' = [ws \in Sockets |-> "closed"]
  /\ owner' = [ws \in Sockets |-> None]
  /\ registry' = [u \in Users |-> None]
  /\ updating' = {}
  /\ UNCHANGED inbox
=============================================================================

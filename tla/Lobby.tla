-------------------------------- MODULE Lobby --------------------------------
(***************************************************************************)
(* Lobbies (apps/monolith/src/lobby): the tables lobbies, lobby_members    *)
(* and lobby_messages, and the socket.io rooms named after the lobbies.    *)
(* A call comes over HTTP or over a socket, and every database statement   *)
(* of it is a step.  A call turned down by its first statement leaves no   *)
(* trace and is not a step.  The notices member_joined and member_left     *)
(* change nothing in the server and are left out.                          *)
(***************************************************************************)
EXTENDS Naturals, FiniteSets

CONSTANTS Users,
          Lobbies,      \* the ids that can be given out, each once
          NoOne,        \* the owner of a lobby that is not there
          Calls,        \* slots for calls in progress at the same time
          MaxMessages,  \* bound on the messages ever created
          MaxCrashes    \* bound on the crashes of the process

ASSUME NoOneAssumption == NoOne \notin Users

ASSUME BoundsAssumption == MaxMessages \in Nat /\ MaxCrashes \in Nat

VARIABLES
  ownerId,        \* lobby -> its owner, or NoOne
  deleted,        \* lobbies that are gone
  lobbyMembers,   \* rows <<lobby, user>>, @@unique([lobbyId, userId])
  lobbyMessages,  \* rows
  rooms,          \* pairs <<lobby, user>>: the user's socket is in the room
  online,         \* users with a socket
  call,           \* call slot -> what the call is about to do
  heard,          \* history: pairs <<user, message row>> delivered live
  entered,        \* history: pairs <<lobby, user>> that ever were members
  crashes

tables == <<ownerId, deleted, lobbyMembers, lobbyMessages>>
sockets == <<rooms, online>>
history == <<heard, entered, crashes>>
vars == <<tables, sockets, call, history>>

Idle == [step |-> "idle"]

\* How a call came in: over HTTP, over a socket that is open, or over one that
\* has closed in the meantime.
Via == {"http", "socket", "closed"}

LobbyMessage == [id : 1..MaxMessages, lobbyId : Lobbies, userId : Users]

LobbyCall ==
  [step : {"delete", "findMember", "insertMember", "room", "deleteMember", "count",
           "deleteEmpty", "leaveRoom", "createMessage", "emit"},
   lobbyId : Lobbies, userId : Users, via : Via, id : 0..MaxMessages]

\* Every member and every message has its lobby.
LobbyTypeOK ==
  /\ ownerId \in [Lobbies -> Users \cup {NoOne}]
  /\ deleted \subseteq Lobbies
  /\ lobbyMembers \subseteq {l \in Lobbies : ownerId[l] # NoOne} \X Users
  /\ lobbyMessages \subseteq LobbyMessage
  /\ \A m \in lobbyMessages : ownerId[m.lobbyId] # NoOne
  /\ rooms \subseteq Lobbies \X Users
  /\ online \subseteq Users
  /\ call \in [Calls -> {Idle} \cup LobbyCall]
  /\ heard \subseteq Users \X LobbyMessage
  /\ entered \subseteq Lobbies \X Users
  /\ crashes \in 0..MaxCrashes

Init ==
  /\ ownerId = [l \in Lobbies |-> NoOne] /\ deleted = {}
  /\ lobbyMembers = {} /\ lobbyMessages = {}
  /\ rooms = {} /\ online = {}
  /\ call = [c \in Calls |-> Idle]
  /\ heard = {} /\ entered = {} /\ crashes = 0

-----------------------------------------------------------------------------
Exists(l) == ownerId[l] # NoOne

Members(l) == {u \in Users : <<l, u>> \in lobbyMembers}

Goto(c, next) == call' = [call EXCEPT ![c] = next]

Begin(c, step, l, u, via) ==
  /\ call[c] = Idle
  /\ via \in {"http", "socket"} /\ (via = "socket" => u \in online)
  /\ Goto(c, [step |-> step, lobbyId |-> l, userId |-> u, via |-> via, id |-> 0])

\* Call c, which is at the given step, goes on to the next one.
Advance(c, step, next) ==
  /\ call[c].step = step
  /\ Goto(c, [call[c] EXCEPT !.step = next])

\* Call c ends at the given step: it is done, or the statement threw.
Finish(c, step) == call[c].step = step /\ Goto(c, Idle)

\* Mutant: relations without onDelete: Cascade.
DropLobbyOnly(l) ==
  /\ ownerId' = [ownerId EXCEPT ![l] = NoOne]
  /\ deleted' = deleted \cup {l}
  /\ UNCHANGED <<lobbyMembers, lobbyMessages>>

\* lobby.delete, with the rows that go with it.
DropLobby(l) ==
  /\ ownerId' = [ownerId EXCEPT ![l] = NoOne]
  /\ deleted' = deleted \cup {l}
  /\ lobbyMembers' = {m \in lobbyMembers : m[1] # l}
  /\ lobbyMessages' = {m \in lobbyMessages : m.lobbyId # l}

-----------------------------------------------------------------------------
\* createLobby: one statement with the owner as its first member.
CreateLobby(u, l) ==
  /\ ~Exists(l) /\ l \notin deleted
  /\ ownerId' = [ownerId EXCEPT ![l] = u]
  /\ lobbyMembers' = lobbyMembers \cup {<<l, u>>}
  /\ entered' = entered \cup {<<l, u>>}
  /\ UNCHANGED <<deleted, lobbyMessages, sockets, call, heard, crashes>>

\* deleteLobby: the lobby is there and the caller owns it.
DeleteLobby(c, u, l) ==
  /\ ownerId[l] = u
  /\ Begin(c, "delete", l, u, "http")
  /\ UNCHANGED <<tables, sockets, history>>

CommitDelete(c) ==
  /\ Finish(c, "delete")
  /\ IF Exists(call[c].lobbyId) THEN DropLobby(call[c].lobbyId) ELSE UNCHANGED tables
  /\ UNCHANGED <<sockets, history>>

\* joinLobby: the lobby is there.
JoinLobby(c, u, l, via) ==
  /\ Exists(l)
  /\ Begin(c, "findMember", l, u, via)
  /\ UNCHANGED <<tables, sockets, history>>

\* The read of the upsert.
FindMember(c) ==
  /\ Advance(c, "findMember",
       IF <<call[c].lobbyId, call[c].userId>> \in lobbyMembers THEN "room" ELSE "insertMember")
  /\ UNCHANGED <<tables, sockets, history>>

\* The insert of the upsert.  It fails when the lobby has gone, and it may when
\* another call has inserted the same row.
InsertMember(c) ==
  LET row == <<call[c].lobbyId, call[c].userId>> IN
  /\ call[c].step = "insertMember"
  /\ \/ /\ Exists(call[c].lobbyId)
        /\ Advance(c, "insertMember", "room")
        /\ lobbyMembers' = lobbyMembers \cup {row}
        /\ entered' = entered \cup {row}
     \/ /\ ~Exists(call[c].lobbyId) \/ row \in lobbyMembers
        /\ Finish(c, "insertMember")
        /\ UNCHANGED <<lobbyMembers, entered>>
  /\ UNCHANGED <<ownerId, deleted, lobbyMessages, sockets, heard, crashes>>

\* handleJoinLobby after the service; an HTTP call has nothing more to do.  A
\* closed socket that joins a room hears nothing.
JoinRoom(c) ==
  /\ Finish(c, "room")
  /\ rooms' = IF call[c].via = "socket"
                THEN rooms \cup {<<call[c].lobbyId, call[c].userId>>} ELSE rooms
  /\ UNCHANGED <<tables, online, history>>

-----------------------------------------------------------------------------
\* leaveLobby: the caller is a member.
LeaveLobby(c, u, l, via) ==
  /\ <<l, u>> \in lobbyMembers
  /\ Begin(c, "deleteMember", l, u, via)
  /\ UNCHANGED <<tables, sockets, history>>

\* lobbyMember.delete throws when the row has gone.
DeleteMember(c) ==
  LET row == <<call[c].lobbyId, call[c].userId>> IN
  /\ call[c].step = "deleteMember"
  /\ IF row \in lobbyMembers THEN Advance(c, "deleteMember", "count")
                             ELSE Finish(c, "deleteMember")
  /\ lobbyMembers' = lobbyMembers \ {row}
  /\ UNCHANGED <<ownerId, deleted, lobbyMessages, sockets, history>>

\* Mutant: remaining === 1, as if the leaver were still counted.
CountWithLeaver(c) ==
  /\ Advance(c, "count",
       IF Cardinality(Members(call[c].lobbyId)) = 1 THEN "deleteEmpty" ELSE "leaveRoom")
  /\ UNCHANGED <<tables, sockets, history>>

CountMembers(c) ==
  /\ Advance(c, "count",
       IF Members(call[c].lobbyId) = {} THEN "deleteEmpty" ELSE "leaveRoom")
  /\ UNCHANGED <<tables, sockets, history>>

\* lobby.delete throws when the lobby has gone.
DeleteEmptyLobby(c) ==
  /\ call[c].step = "deleteEmpty"
  /\ IF Exists(call[c].lobbyId)
       THEN Advance(c, "deleteEmpty", "leaveRoom") /\ DropLobby(call[c].lobbyId)
       ELSE Finish(c, "deleteEmpty") /\ UNCHANGED tables
  /\ UNCHANGED <<sockets, history>>

\* handleLeaveLobby after the service; over HTTP the socket stays in the room.
LeaveRoom(c) ==
  /\ Finish(c, "leaveRoom")
  /\ rooms' = IF call[c].via = "socket"
                THEN rooms \ {<<call[c].lobbyId, call[c].userId>>} ELSE rooms
  /\ UNCHANGED <<tables, online, history>>

-----------------------------------------------------------------------------
\* handleSendMessage: the caller is a member.  Messages come over sockets only.
SendMessage(c, u, l) ==
  /\ <<l, u>> \in lobbyMembers
  /\ Begin(c, "createMessage", l, u, "socket")
  /\ UNCHANGED <<tables, sockets, history>>

\* lobbyMessage.create, under a fresh id, throws when the lobby has gone.
CreateMessage(c) ==
  \E id \in 1..MaxMessages :
    LET message == [id |-> id, lobbyId |-> call[c].lobbyId, userId |-> call[c].userId] IN
    /\ call[c].step = "createMessage"
    /\ \A m \in lobbyMessages : m.id # id
    /\ IF Exists(call[c].lobbyId)
         THEN /\ lobbyMessages' = lobbyMessages \cup {message}
              /\ Goto(c, [call[c] EXCEPT !.step = "emit", !.id = id])
         ELSE UNCHANGED lobbyMessages /\ Goto(c, Idle)
    /\ UNCHANGED <<ownerId, deleted, lobbyMembers, sockets, history>>

\* Mutant: server.emit instead of server.to(room).emit.
EmitToAll(c) ==
  LET message == [id |-> call[c].id, lobbyId |-> call[c].lobbyId, userId |-> call[c].userId] IN
  /\ Finish(c, "emit")
  /\ heard' = heard \cup (online \X {message})
  /\ UNCHANGED <<tables, sockets, entered, crashes>>

\* new_message to the room.
EmitMessage(c) ==
  LET message == [id |-> call[c].id, lobbyId |-> call[c].lobbyId, userId |-> call[c].userId]
      room == {u \in Users : <<call[c].lobbyId, u>> \in rooms} IN
  /\ Finish(c, "emit")
  /\ heard' = heard \cup (room \X {message})
  /\ UNCHANGED <<tables, sockets, entered, crashes>>

-----------------------------------------------------------------------------
HandleConnection(u) ==
  /\ u \notin online /\ online' = online \cup {u}
  /\ UNCHANGED <<tables, rooms, call, history>>

\* handleDisconnect is empty; socket.io takes the socket out of its rooms, and
\* calls that came over it go on.
HandleDisconnect(u) ==
  /\ u \in online /\ online' = online \ {u}
  /\ rooms' = {r \in rooms : r[2] # u}
  /\ call' = [c \in Calls |->
                IF call[c] # Idle /\ call[c].via = "socket" /\ call[c].userId = u
                  THEN [call[c] EXCEPT !.via = "closed"] ELSE call[c]]
  /\ UNCHANGED <<tables, history>>

\* The process dies: calls stop where they are, sockets and rooms are lost.
Crash ==
  /\ crashes < MaxCrashes /\ crashes' = crashes + 1
  /\ call' = [c \in Calls |-> Idle]
  /\ rooms' = {} /\ online' = {}
  /\ UNCHANGED <<tables, heard, entered>>

Continue(c) ==
  \/ CommitDelete(c)
  \/ FindMember(c) \/ InsertMember(c) \/ JoinRoom(c)
  \/ DeleteMember(c) \/ CountMembers(c) \/ DeleteEmptyLobby(c) \/ LeaveRoom(c)
  \/ CreateMessage(c) \/ EmitMessage(c)

Next ==
  \/ \E u \in Users, l \in Lobbies :
       \/ CreateLobby(u, l)
       \/ \E c \in Calls :
            \/ DeleteLobby(c, u, l)
            \/ \E via \in {"http", "socket"} : JoinLobby(c, u, l, via) \/ LeaveLobby(c, u, l, via)
            \/ SendMessage(c, u, l)
  \/ \E c \in Calls : Continue(c)
  \/ \E u \in Users : HandleConnection(u) \/ HandleDisconnect(u)
  \/ Crash

Spec == Init /\ [][Next]_vars

-----------------------------------------------------------------------------
(* Properties.                                                             *)

\* However joins and leaves cross, an empty lobby is never forgotten: some leave
\* has still to look at it, unless a crash has ended it.  Leavers who all see each
\* other would all pass it by.
EmptyLobbyIsAttended ==
  \A l \in Lobbies :
    crashes = 0 /\ Exists(l) /\ Members(l) = {} =>
      \E c \in Calls : call[c].step \in {"count", "deleteEmpty"} /\ call[c].lobbyId = l

\* Who hears a message live, or writes one, has been let in to that lobby: a
\* join that fails half way opens nothing.
OnlyEntrants ==
  /\ \A h \in heard : <<h[2].lobbyId, h[1]>> \in entered
  /\ \A m \in lobbyMessages : <<m.lobbyId, m.userId>> \in entered

\* "Delete lobby if no members remain" (lobby.service.ts:97): a leave does not
\* delete a lobby that somebody is in.
LeaveSparesMembers ==
  [][\A l \in Lobbies :
       Exists(l) /\ ~Exists(l)' /\ Members(l) # {} =>
         \E c \in Calls : call[c].step = "delete" /\ call[c].lobbyId = l]_vars
=============================================================================

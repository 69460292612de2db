------------------------------ MODULE LobbyProofs ------------------------------
(***************************************************************************)
(* Proofs about Lobby.tla, for any users and lobbies, any number of calls  *)
(* at the same time and any bounds on messages and crashes.                *)
(***************************************************************************)
EXTENDS Lobby, TLAPS

-----------------------------------------------------------------------------
(* The inductive invariant.                                                *)

\* Whoever is a member, sits in a room, or has a call behind the check of the
\* membership, has been let in to that lobby.
LetIn ==
  /\ lobbyMembers \subseteq entered
  /\ rooms \subseteq entered
  /\ \A c \in Calls : call[c].step \in {"room", "createMessage", "emit"} =>
       <<call[c].lobbyId, call[c].userId>> \in entered

\* A message that is about to be emitted has its id.
Numbered == \A c \in Calls : call[c].step = "emit" => call[c].id \in 1..MaxMessages

LobbyInv == LobbyTypeOK /\ LetIn /\ Numbered /\ OnlyEntrants /\ EmptyLobbyIsAttended

-----------------------------------------------------------------------------
(* Lemmas about calls.                                                     *)

\* The steps a call can be at.
Steps == {"delete", "findMember", "insertMember", "room", "deleteMember", "count",
          "deleteEmpty", "leaveRoom", "createMessage", "emit"}

\* Call c is a leave that has still to look at lobby l.
Attends(c, l) == call[c].step \in {"count", "deleteEmpty"} /\ call[c].lobbyId = l

\* A call that is at a step is about a lobby and a user.
LEMMA CallFields ==
  ASSUME LobbyTypeOK, NEW c \in Calls, call[c].step # "idle"
  PROVE  /\ call[c] \in LobbyCall /\ call[c].step \in Steps
         /\ call[c].lobbyId \in Lobbies /\ call[c].userId \in Users
         /\ call[c].via \in Via /\ call[c].id \in 0..MaxMessages
  BY DEF LobbyTypeOK, LobbyCall, Idle, Steps

\* Goto, spelled out.
LEMMA GotoDoes ==
  ASSUME LobbyTypeOK, NEW c \in Calls, NEW next \in {Idle} \cup LobbyCall, Goto(c, next)
  PROVE  /\ call' \in [Calls -> {Idle} \cup LobbyCall]
         /\ \A d \in Calls : call'[d] = IF d = c THEN next ELSE call[d]
  BY DEF LobbyTypeOK, Goto

\* A call that begins.
LEMMA BeginDoes ==
  ASSUME LobbyTypeOK, NEW c \in Calls, NEW step \in Steps, NEW l \in Lobbies, NEW u \in Users,
         NEW via, Begin(c, step, l, u, via)
  PROVE  \E next \in LobbyCall :
           /\ Goto(c, next) /\ call[c].step = "idle"
           /\ next.step = step /\ next.lobbyId = l /\ next.userId = u
  <1> DEFINE next == [step |-> step, lobbyId |-> l, userId |-> u, via |-> via, id |-> 0]
  <1>1. 0 \in 0..MaxMessages /\ via \in Via
    BY BoundsAssumption DEF Begin, Via
  <1>2. next \in LobbyCall
    BY <1>1 DEF LobbyCall, Steps
  <1>3. Goto(c, next) /\ call[c].step = "idle"
    BY DEF Begin, Idle
  <1> QED
    BY <1>2, <1>3

\* A call that goes on keeps what it is about.
LEMMA AdvanceDoes ==
  ASSUME LobbyTypeOK, NEW c \in Calls, NEW step \in Steps, NEW to \in Steps,
         Advance(c, step, to)
  PROVE  \E next \in LobbyCall :
           /\ Goto(c, next) /\ call[c].step = step /\ next.step = to
           /\ next.lobbyId = call[c].lobbyId /\ next.userId = call[c].userId
  <1> DEFINE next == [call[c] EXCEPT !.step = to]
  <1>1. call[c].step = step /\ Goto(c, next)
    BY DEF Advance
  <1>2. call[c] \in LobbyCall
    BY <1>1, CallFields DEF Steps
  <1>3. /\ next \in LobbyCall /\ next.step = to
        /\ next.lobbyId = call[c].lobbyId /\ next.userId = call[c].userId
    BY <1>2 DEF LobbyCall, Steps
  <1> QED
    BY <1>1, <1>3

\* What a step must show of its calls: those that go behind the check of the
\* membership have passed it.
LEMMA CallsKeep ==
  ASSUME LobbyInv, NEW c \in Calls, NEW next \in {Idle} \cup LobbyCall, Goto(c, next),
         entered \subseteq entered', lobbyMembers' \subseteq entered', rooms' \subseteq entered',
         next.step \in {"room", "createMessage", "emit"} =>
           <<next.lobbyId, next.userId>> \in entered',
         next.step = "emit" => next.id \in 1..MaxMessages
  PROVE  LetIn' /\ Numbered'
  <1>1. \A d \in Calls : call'[d] = IF d = c THEN next ELSE call[d]
    BY GotoDoes DEF LobbyInv
  <1>2. LetIn'
    BY <1>1 DEF LobbyInv, LetIn
  <1>3. Numbered'
    BY <1>1 DEF LobbyInv, Numbered
  <1> QED
    BY <1>2, <1>3

\* What a step must show of an empty lobby: its own call looks at it, or it was
\* empty before and the call was not the one to look at it.
LEMMA AttendedKeeps ==
  ASSUME LobbyInv, NEW c \in Calls, NEW next \in {Idle} \cup LobbyCall, Goto(c, next),
         crashes' = crashes,
         \A l \in Lobbies : Exists(l)' /\ Members(l)' = {} =>
           \/ next.step \in {"count", "deleteEmpty"} /\ next.lobbyId = l
           \/ Exists(l) /\ Members(l) = {} /\ ~Attends(c, l)
  PROVE  EmptyLobbyIsAttended'
  <1>1. \A d \in Calls : call'[d] = IF d = c THEN next ELSE call[d]
    BY GotoDoes DEF LobbyInv
  <1> SUFFICES ASSUME NEW l \in Lobbies, crashes = 0, Exists(l)', Members(l)' = {}
               PROVE  \E d \in Calls : /\ call'[d].step \in {"count", "deleteEmpty"}
                                       /\ call'[d].lobbyId = l
    BY DEF EmptyLobbyIsAttended
  <1>2. CASE next.step \in {"count", "deleteEmpty"} /\ next.lobbyId = l
    BY <1>1, <1>2
  <1>3. CASE Exists(l) /\ Members(l) = {} /\ ~Attends(c, l)
    <2>1. PICK d \in Calls : Attends(d, l)
      BY <1>3 DEF LobbyInv, EmptyLobbyIsAttended, Attends
    <2>2. d # c
      BY <1>3, <2>1
    <2> QED
      BY <1>1, <2>1, <2>2 DEF Attends
  <1> QED
    BY <1>2, <1>3

\* A step of a call that changes neither the tables nor who is in a room.
LEMMA MoveKeeps ==
  ASSUME LobbyInv, NEW c \in Calls, NEW next \in {Idle} \cup LobbyCall, Goto(c, next),
         UNCHANGED <<tables, online, history>>, rooms' \subseteq entered,
         rooms' \subseteq Lobbies \X Users,
         next.step \in {"room", "createMessage", "emit"} =>
           <<next.lobbyId, next.userId>> \in entered,
         next.step = "emit" => next.id \in 1..MaxMessages,
         \A l \in Lobbies : Exists(l) /\ Members(l) = {} /\ Attends(c, l) =>
           next.step \in {"count", "deleteEmpty"} /\ next.lobbyId = l
  PROVE  LobbyInv'
  <1>1. UNCHANGED <<ownerId, deleted, lobbyMembers, lobbyMessages, online, heard, entered,
                    crashes>>
    BY DEF tables, history
  <1>2. LobbyTypeOK'
    BY <1>1, GotoDoes DEF LobbyInv, LobbyTypeOK
  <1>3. LetIn' /\ Numbered'
    BY <1>1, CallsKeep DEF LobbyInv, LetIn
  <1>4. OnlyEntrants'
    BY <1>1 DEF LobbyInv, OnlyEntrants
  <1>5. EmptyLobbyIsAttended'
    BY <1>1, AttendedKeeps DEF Exists, Members
  <1> QED
    BY <1>2, <1>3, <1>4, <1>5 DEF LobbyInv

-----------------------------------------------------------------------------
(* The steps.                                                              *)

\* Calls that begin: the sender of a message is a member.
LEMMA BeginsKeep ==
  ASSUME LobbyInv, NEW c \in Calls, NEW u \in Users, NEW l \in Lobbies,
         \/ DeleteLobby(c, u, l)
         \/ \E via \in {"http", "socket"} : JoinLobby(c, u, l, via) \/ LeaveLobby(c, u, l, via)
         \/ SendMessage(c, u, l)
  PROVE  LobbyInv'
  <1>1. /\ UNCHANGED <<tables, sockets, history>>
        /\ \E step, via :
             /\ step \in Steps
             /\ Begin(c, step, l, u, via) /\ step \notin {"room", "emit"}
             /\ step = "createMessage" => <<l, u>> \in lobbyMembers
    BY DEF DeleteLobby, JoinLobby, LeaveLobby, SendMessage, Steps
  <1>2. PICK step, via :
          /\ step \in Steps
          /\ Begin(c, step, l, u, via) /\ step \notin {"room", "emit"}
          /\ step = "createMessage" => <<l, u>> \in lobbyMembers
    BY <1>1
  <1>3. PICK next \in LobbyCall :
          /\ Goto(c, next) /\ call[c].step = "idle"
          /\ next.step = step /\ next.lobbyId = l /\ next.userId = u
    BY <1>2, BeginDoes DEF LobbyInv
  <1>4. rooms' \subseteq entered /\ rooms' \subseteq Lobbies \X Users /\ online' = online
    BY <1>1 DEF sockets, LobbyInv, LetIn, LobbyTypeOK
  <1>5. \A k : ~Attends(c, k)
    BY <1>3 DEF Attends
  <1> QED
    BY <1>1, <1>2, <1>3, <1>4, <1>5, MoveKeeps DEF LobbyInv, LetIn

\* createLobby: the owner is let in as its first member.
LEMMA CreateLobbyKeeps ==
  ASSUME LobbyInv, NEW u \in Users, NEW l \in Lobbies, CreateLobby(u, l)
  PROVE  LobbyInv'
  <1>1. /\ ownerId' = [ownerId EXCEPT ![l] = u]
        /\ lobbyMembers' = lobbyMembers \cup {<<l, u>>}
        /\ entered' = entered \cup {<<l, u>>}
        /\ UNCHANGED <<deleted, lobbyMessages, rooms, online, call, heard, crashes>>
    BY DEF CreateLobby, sockets
  <1>2. \A k \in Lobbies : ownerId'[k] = IF k = l THEN u ELSE ownerId[k]
    BY <1>1 DEF LobbyInv, LobbyTypeOK
  <1>3. \A k \in Lobbies : ownerId[k] # NoOne => ownerId'[k] # NoOne
    BY <1>2, NoOneAssumption
  <1>4. LobbyTypeOK'
    <2>1. lobbyMembers' \subseteq {k \in Lobbies : ownerId'[k] # NoOne} \X Users
      BY <1>1, <1>2, <1>3, NoOneAssumption DEF LobbyInv, LobbyTypeOK
    <2>2. \A m \in lobbyMessages : ownerId'[m.lobbyId] # NoOne
      BY <1>3 DEF LobbyInv, LobbyTypeOK, LobbyMessage
    <2> QED
      BY <1>1, <2>1, <2>2 DEF LobbyInv, LobbyTypeOK
  <1>5. LetIn' /\ Numbered'
    BY <1>1 DEF LobbyInv, LetIn, Numbered
  <1>6. OnlyEntrants'
    BY <1>1 DEF LobbyInv, OnlyEntrants
  <1>7. EmptyLobbyIsAttended'
    <2> SUFFICES ASSUME NEW k \in Lobbies, crashes = 0, Exists(k)', Members(k)' = {}
                 PROVE  \E c \in Calls : /\ call[c].step \in {"count", "deleteEmpty"}
                                         /\ call[c].lobbyId = k
      BY <1>1 DEF EmptyLobbyIsAttended
    <2>1. k # l /\ Members(k) = {} /\ Exists(k)
      BY <1>1, <1>2 DEF Members, Exists
    <2> QED
      BY <2>1 DEF LobbyInv, EmptyLobbyIsAttended
  <1> QED
    BY <1>4, <1>5, <1>6, <1>7 DEF LobbyInv

\* lobby.delete takes the members and the messages of one lobby with it, and
\* nothing of the others.
LEMMA DropDoes ==
  ASSUME LobbyInv, NEW l \in Lobbies, DropLobby(l)
  PROVE  /\ \A k \in Lobbies : Exists(k)' <=> Exists(k) /\ k # l
         /\ \A k \in Lobbies : k # l => Members(k)' = Members(k)
         /\ lobbyMembers' \subseteq lobbyMembers /\ lobbyMessages' \subseteq lobbyMessages
         /\ \A m \in lobbyMembers' : m[1] # l
         /\ \A m \in lobbyMessages' : m.lobbyId # l
         /\ ownerId' \in [Lobbies -> Users \cup {NoOne}] /\ deleted' \subseteq Lobbies
  <1>1. \A k \in Lobbies : ownerId'[k] = IF k = l THEN NoOne ELSE ownerId[k]
    BY DEF DropLobby, LobbyInv, LobbyTypeOK
  <1>2. \A k \in Lobbies : k # l => Members(k)' = Members(k)
    BY DEF DropLobby, Members
  <1>3. ownerId' \in [Lobbies -> Users \cup {NoOne}] /\ deleted' \subseteq Lobbies
    BY DEF DropLobby, LobbyInv, LobbyTypeOK
  <1> QED
    BY <1>1, <1>2, <1>3 DEF DropLobby, Exists

\* A call that deletes a lobby.
LEMMA DropKeeps ==
  ASSUME LobbyInv, NEW c \in Calls, NEW next \in {Idle} \cup LobbyCall, Goto(c, next),
         call[c].step # "idle", next.step \in {"idle", "leaveRoom"},
         DropLobby(call[c].lobbyId), UNCHANGED <<sockets, history>>
  PROVE  LobbyInv'
  <1> DEFINE l == call[c].lobbyId
  <1>1. l \in Lobbies
    BY CallFields DEF LobbyInv
  <1>2. UNCHANGED <<rooms, online, heard, entered, crashes>>
    BY DEF sockets, history
  <1>3. /\ \A k \in Lobbies : Exists(k)' <=> Exists(k) /\ k # l
        /\ \A k \in Lobbies : k # l => Members(k)' = Members(k)
        /\ lobbyMembers' \subseteq lobbyMembers /\ lobbyMessages' \subseteq lobbyMessages
        /\ \A m \in lobbyMembers' : m[1] # l
        /\ \A m \in lobbyMessages' : m.lobbyId # l
        /\ ownerId' \in [Lobbies -> Users \cup {NoOne}] /\ deleted' \subseteq Lobbies
    BY <1>1, DropDoes
  <1>4. call' \in [Calls -> {Idle} \cup LobbyCall]
    BY GotoDoes DEF LobbyInv
  <1>5. LobbyTypeOK'
    <2>1. lobbyMembers' \subseteq {k \in Lobbies : ownerId'[k] # NoOne} \X Users
      BY <1>3 DEF LobbyInv, LobbyTypeOK, Exists
    <2>2. \A m \in lobbyMessages' : ownerId'[m.lobbyId] # NoOne
      BY <1>3 DEF LobbyInv, LobbyTypeOK, LobbyMessage, Exists
    <2> QED
      BY <1>2, <1>3, <1>4, <2>1, <2>2 DEF LobbyInv, LobbyTypeOK
  <1>6. LetIn' /\ Numbered'
    BY <1>2, <1>3, CallsKeep DEF LobbyInv, LetIn
  <1>7. OnlyEntrants'
    BY <1>2, <1>3 DEF LobbyInv, OnlyEntrants
  <1>8. EmptyLobbyIsAttended'
    <2>1. \A k \in Lobbies : Exists(k)' /\ Members(k)' = {} =>
                              Exists(k) /\ Members(k) = {} /\ ~Attends(c, k)
      BY <1>3 DEF Attends
    <2> QED
      BY <1>2, <2>1, AttendedKeeps
  <1> QED
    BY <1>5, <1>6, <1>7, <1>8 DEF LobbyInv

\* A call that ends at a step, where nothing is left to look at.
LEMMA FinishKeeps ==
  ASSUME LobbyInv, NEW c \in Calls, NEW step \in Steps, Finish(c, step),
         UNCHANGED <<tables, sockets, history>>,
         \A l \in Lobbies : ~(Attends(c, l) /\ Exists(l) /\ Members(l) = {})
  PROVE  LobbyInv'
  <1>1. Goto(c, Idle) /\ Idle.step = "idle"
    BY DEF Finish, Idle
  <1>2. rooms' \subseteq entered /\ rooms' \subseteq Lobbies \X Users /\ online' = online
    BY DEF sockets, LobbyInv, LetIn, LobbyTypeOK
  <1> QED
    BY <1>1, <1>2, MoveKeeps

\* deleteLobby: the lobby goes, if it is still there.
LEMMA CommitDeleteKeeps ==
  ASSUME LobbyInv, NEW c \in Calls, CommitDelete(c)
  PROVE  LobbyInv'
  <1>1. /\ Finish(c, "delete") /\ Goto(c, Idle) /\ call[c].step = "delete"
        /\ "delete" \in Steps /\ Idle.step = "idle"
        /\ UNCHANGED <<sockets, history>>
    BY DEF CommitDelete, Finish, Steps, Idle
  <1>2. CASE DropLobby(call[c].lobbyId)
    BY <1>1, <1>2, DropKeeps
  <1>3. CASE UNCHANGED tables
    <2>1. \A l : ~Attends(c, l)
      BY <1>1 DEF Attends
    <2> QED
      BY <1>1, <1>3, <2>1, FinishKeeps
  <1> QED
    BY <1>2, <1>3 DEF CommitDelete

\* leaveLobby, the delete of a lobby that was seen empty.
LEMMA DeleteEmptyLobbyKeeps ==
  ASSUME LobbyInv, NEW c \in Calls, DeleteEmptyLobby(c)
  PROVE  LobbyInv'
  <1>1. /\ call[c].step = "deleteEmpty" /\ UNCHANGED <<sockets, history>>
        /\ "deleteEmpty" \in Steps /\ "leaveRoom" \in Steps
    BY DEF DeleteEmptyLobby, Steps
  <1>2. CASE Advance(c, "deleteEmpty", "leaveRoom") /\ DropLobby(call[c].lobbyId)
    <2>1. PICK next \in LobbyCall :
            /\ Goto(c, next) /\ call[c].step = "deleteEmpty" /\ next.step = "leaveRoom"
            /\ next.lobbyId = call[c].lobbyId /\ next.userId = call[c].userId
      BY <1>1, <1>2, AdvanceDoes DEF LobbyInv
    <2> QED
      BY <1>1, <1>2, <2>1, DropKeeps
  <1>3. CASE /\ ~Exists(call[c].lobbyId)
             /\ Finish(c, "deleteEmpty") /\ UNCHANGED tables
    <2>1. \A l \in Lobbies : ~(Attends(c, l) /\ Exists(l))
      BY <1>3 DEF Attends
    <2> QED
      BY <1>1, <1>3, <2>1, FinishKeeps
  <1> QED
    BY <1>2, <1>3 DEF DeleteEmptyLobby

\* The read of joinLobby: whoever is a member has been let in.
LEMMA FindMemberKeeps ==
  ASSUME LobbyInv, NEW c \in Calls, FindMember(c)
  PROVE  LobbyInv'
  <1> DEFINE row == <<call[c].lobbyId, call[c].userId>>
             to == IF row \in lobbyMembers THEN "room" ELSE "insertMember"
  <1>1. /\ Advance(c, "findMember", to) /\ UNCHANGED <<tables, sockets, history>>
        /\ "findMember" \in Steps /\ to \in Steps
    BY DEF FindMember, Steps
  <1>2. PICK next \in LobbyCall :
          /\ Goto(c, next) /\ call[c].step = "findMember" /\ next.step = to
          /\ next.lobbyId = call[c].lobbyId /\ next.userId = call[c].userId
    BY <1>1, AdvanceDoes DEF LobbyInv
  <1>3. rooms' \subseteq entered /\ rooms' \subseteq Lobbies \X Users /\ online' = online
    BY <1>1 DEF sockets, LobbyInv, LetIn, LobbyTypeOK
  <1>4. next.step \in {"room", "createMessage", "emit"} =>
          <<next.lobbyId, next.userId>> \in entered
    BY <1>2 DEF LobbyInv, LetIn
  <1>5. next.step # "emit" /\ \A k : ~Attends(c, k)
    BY <1>2 DEF Attends
  <1> QED
    BY <1>1, <1>2, <1>3, <1>4, <1>5, MoveKeeps

\* The insert of joinLobby lets the user in.
LEMMA InsertMemberKeeps ==
  ASSUME LobbyInv, NEW c \in Calls, InsertMember(c)
  PROVE  LobbyInv'
  <1> DEFINE row == <<call[c].lobbyId, call[c].userId>>
  <1>1. /\ call[c].step = "insertMember" /\ "insertMember" \in Steps /\ "room" \in Steps
        /\ UNCHANGED <<ownerId, deleted, lobbyMessages, rooms, online, heard, crashes>>
    BY DEF InsertMember, Steps, sockets
  <1>2. row \in Lobbies \X Users
    BY <1>1, CallFields DEF LobbyInv
  <1>3. \A k : ~Attends(c, k)
    BY <1>1 DEF Attends
  <1>4. CASE /\ Exists(call[c].lobbyId) /\ Advance(c, "insertMember", "room")
             /\ lobbyMembers' = lobbyMembers \cup {row} /\ entered' = entered \cup {row}
    <2>1. PICK next \in LobbyCall :
            /\ Goto(c, next) /\ call[c].step = "insertMember" /\ next.step = "room"
            /\ next.lobbyId = call[c].lobbyId /\ next.userId = call[c].userId
      BY <1>1, <1>4, AdvanceDoes DEF LobbyInv
    <2>2. call' \in [Calls -> {Idle} \cup LobbyCall]
      BY <2>1, GotoDoes DEF LobbyInv
    <2>3. LobbyTypeOK'
      BY <1>1, <1>2, <1>4, <2>2 DEF LobbyInv, LobbyTypeOK, Exists
    <2>4. LetIn' /\ Numbered'
      <3>1. /\ entered \subseteq entered' /\ lobbyMembers' \subseteq entered'
            /\ rooms' \subseteq entered' /\ <<next.lobbyId, next.userId>> \in entered'
        BY <1>1, <1>4, <2>1 DEF LobbyInv, LetIn
      <3> QED
        BY <2>1, <3>1, CallsKeep
    <2>5. OnlyEntrants'
      BY <1>1, <1>4 DEF LobbyInv, OnlyEntrants
    <2>6. EmptyLobbyIsAttended'
      <3>1. \A l \in Lobbies : Exists(l)' /\ Members(l)' = {} =>
                                Exists(l) /\ Members(l) = {} /\ ~Attends(c, l)
        BY <1>1, <1>3, <1>4 DEF Exists, Members
      <3> QED
        BY <1>1, <2>1, <3>1, AttendedKeeps
    <2> QED
      BY <2>3, <2>4, <2>5, <2>6 DEF LobbyInv
  <1>5. CASE Finish(c, "insertMember") /\ UNCHANGED <<lobbyMembers, entered>>
    BY <1>1, <1>3, <1>5, FinishKeeps DEF tables, sockets, history
  <1> QED
    BY <1>4, <1>5 DEF InsertMember

\* Who joins a room, or leaves it, is at the end of a call.
LEMMA RoomsKeep ==
  ASSUME LobbyInv, NEW c \in Calls, JoinRoom(c) \/ LeaveRoom(c)
  PROVE  LobbyInv'
  <1> DEFINE row == <<call[c].lobbyId, call[c].userId>>
  <1>1. /\ Goto(c, Idle) /\ call[c].step \in {"room", "leaveRoom"} /\ Idle.step = "idle"
        /\ UNCHANGED <<tables, online, history>>
        /\ rooms' \subseteq rooms \/ (rooms' = rooms \cup {row} /\ call[c].step = "room")
    BY DEF JoinRoom, LeaveRoom, Finish, Idle
  <1>2. row \in Lobbies \X Users
    BY <1>1, CallFields DEF LobbyInv
  <1>3. rooms' \subseteq entered /\ rooms' \subseteq Lobbies \X Users
    BY <1>1, <1>2 DEF LobbyInv, LetIn, LobbyTypeOK
  <1>4. \A k : ~Attends(c, k)
    BY <1>1 DEF Attends
  <1> QED
    BY <1>1, <1>3, <1>4, MoveKeeps

\* The delete of leaveLobby: whoever empties a lobby goes on to count its members.
LEMMA DeleteMemberKeeps ==
  ASSUME LobbyInv, NEW c \in Calls, DeleteMember(c)
  PROVE  LobbyInv'
  <1> DEFINE row == <<call[c].lobbyId, call[c].userId>>
  <1>1. /\ call[c].step = "deleteMember" /\ "deleteMember" \in Steps /\ "count" \in Steps
        /\ lobbyMembers' = lobbyMembers \ {row}
        /\ UNCHANGED <<ownerId, deleted, lobbyMessages, rooms, online, heard, entered, crashes>>
    BY DEF DeleteMember, Steps, sockets, history
  <1>2. \A k : ~Attends(c, k)
    BY <1>1 DEF Attends
  <1>3. CASE row \in lobbyMembers
    <2>1. Advance(c, "deleteMember", "count")
      BY <1>3 DEF DeleteMember
    <2>2. PICK next \in LobbyCall :
            /\ Goto(c, next) /\ call[c].step = "deleteMember" /\ next.step = "count"
            /\ next.lobbyId = call[c].lobbyId /\ next.userId = call[c].userId
      BY <1>1, <2>1, AdvanceDoes DEF LobbyInv
    <2>3. call' \in [Calls -> {Idle} \cup LobbyCall]
      BY <2>2, GotoDoes DEF LobbyInv
    <2>4. LobbyTypeOK'
      BY <1>1, <2>3 DEF LobbyInv, LobbyTypeOK
    <2>5. LetIn' /\ Numbered'
      BY <1>1, <2>2, CallsKeep DEF LobbyInv, LetIn
    <2>6. OnlyEntrants'
      BY <1>1 DEF LobbyInv, OnlyEntrants
    <2>7. EmptyLobbyIsAttended'
      <3>1. \A l \in Lobbies : Exists(l)' /\ Members(l)' = {} =>
               \/ next.lobbyId = l
               \/ Exists(l) /\ Members(l) = {} /\ ~Attends(c, l)
        BY <1>1, <1>2, <2>2 DEF Exists, Members
      <3> QED
        BY <1>1, <2>2, <3>1, AttendedKeeps
    <2> QED
      BY <2>4, <2>5, <2>6, <2>7 DEF LobbyInv
  <1>4. CASE row \notin lobbyMembers
    <2>1. Finish(c, "deleteMember") /\ lobbyMembers' = lobbyMembers
      BY <1>1, <1>4 DEF DeleteMember
    <2> QED
      BY <1>1, <1>2, <2>1, FinishKeeps DEF tables, sockets, history
  <1> QED
    BY <1>3, <1>4

\* The count of leaveLobby: whoever finds the lobby empty goes on to delete it.
LEMMA CountMembersKeeps ==
  ASSUME LobbyInv, NEW c \in Calls, CountMembers(c)
  PROVE  LobbyInv'
  <1> DEFINE to == IF Members(call[c].lobbyId) = {} THEN "deleteEmpty" ELSE "leaveRoom"
  <1>1. /\ Advance(c, "count", to) /\ UNCHANGED <<tables, sockets, history>>
        /\ "count" \in Steps /\ to \in Steps
    BY DEF CountMembers, Steps
  <1>2. PICK next \in LobbyCall :
          /\ Goto(c, next) /\ call[c].step = "count" /\ next.step = to
          /\ next.lobbyId = call[c].lobbyId /\ next.userId = call[c].userId
    BY <1>1, AdvanceDoes DEF LobbyInv
  <1>3. rooms' \subseteq entered /\ rooms' \subseteq Lobbies \X Users /\ online' = online
    BY <1>1 DEF sockets, LobbyInv, LetIn, LobbyTypeOK
  <1>4. \A l \in Lobbies : Exists(l) /\ Members(l) = {} /\ Attends(c, l) =>
          next.step \in {"count", "deleteEmpty"} /\ next.lobbyId = l
    BY <1>2 DEF Attends
  <1>5. next.step \notin {"room", "createMessage", "emit"}
    BY <1>2
  <1> QED
    BY <1>1, <1>2, <1>3, <1>4, <1>5, MoveKeeps

\* lobbyMessage.create: the writer has been let in, and the message has its id.
LEMMA CreateMessageKeeps ==
  ASSUME LobbyInv, NEW c \in Calls, CreateMessage(c)
  PROVE  LobbyInv'
  <1>1. PICK id \in 1..MaxMessages :
    LET message == [id |-> id, lobbyId |-> call[c].lobbyId, userId |-> call[c].userId] IN
    /\ IF Exists(call[c].lobbyId)
         THEN /\ lobbyMessages' = lobbyMessages \cup {message}
              /\ Goto(c, [call[c] EXCEPT !.step = "emit", !.id = id])
         ELSE UNCHANGED lobbyMessages /\ Goto(c, Idle)
    BY DEF CreateMessage
  <1> DEFINE message == [id |-> id, lobbyId |-> call[c].lobbyId, userId |-> call[c].userId]
             next == [call[c] EXCEPT !.step = "emit", !.id = id]
  <1>2. /\ call[c].step = "createMessage" /\ "createMessage" \in Steps /\ Idle.step = "idle"
        /\ UNCHANGED <<ownerId, deleted, lobbyMembers, rooms, online, heard, entered, crashes>>
    BY DEF CreateMessage, Steps, sockets, history, Idle
  <1>3. /\ call[c] \in LobbyCall /\ call[c].lobbyId \in Lobbies /\ call[c].userId \in Users
        /\ \A k : ~Attends(c, k)
    BY <1>2, CallFields DEF LobbyInv, Attends
  <1>4. /\ message \in LobbyMessage
        /\ message.lobbyId = call[c].lobbyId /\ message.userId = call[c].userId
    BY <1>3 DEF LobbyMessage
  <1>5. /\ next \in LobbyCall /\ next.step = "emit" /\ next.id = id
        /\ next.lobbyId = call[c].lobbyId /\ next.userId = call[c].userId
    <2>1. id \in 0..MaxMessages
      BY BoundsAssumption
    <2>2. call[c] \in [step : Steps, lobbyId : Lobbies, userId : Users, via : Via,
                       id : 0..MaxMessages]
      BY <1>3 DEF LobbyCall, Steps
    <2>3. "emit" \in Steps
      BY DEF Steps
    <2>4. next \in [step : Steps, lobbyId : Lobbies, userId : Users, via : Via,
                    id : 0..MaxMessages]
      BY <2>1, <2>2, <2>3
    <2>5. /\ next.step = "emit" /\ next.id = id
          /\ next.lobbyId = call[c].lobbyId /\ next.userId = call[c].userId
      BY <2>2
    <2> QED
      BY <2>4, <2>5 DEF LobbyCall, Steps
  <1>6. <<call[c].lobbyId, call[c].userId>> \in entered
    BY <1>2 DEF LobbyInv, LetIn
  <1>7. CASE Exists(call[c].lobbyId)
    <2>1. lobbyMessages' = lobbyMessages \cup {message} /\ Goto(c, next)
      BY <1>1, <1>7
    <2> HIDE DEF message, next
    <2>2. call' \in [Calls -> {Idle} \cup LobbyCall]
      BY <1>5, <2>1, GotoDoes DEF LobbyInv
    <2>3. LobbyTypeOK'
      BY <1>2, <1>4, <1>7, <2>1, <2>2 DEF LobbyInv, LobbyTypeOK, Exists
    <2>4. LetIn' /\ Numbered'
      BY <1>2, <1>5, <1>6, <2>1, CallsKeep DEF LobbyInv, LetIn
    <2>5. OnlyEntrants'
      BY <1>2, <1>4, <1>6, <2>1 DEF LobbyInv, OnlyEntrants
    <2>6. EmptyLobbyIsAttended'
      BY <1>2, <1>3, <1>5, <2>1, AttendedKeeps DEF Exists, Members
    <2> QED
      BY <2>3, <2>4, <2>5, <2>6 DEF LobbyInv
  <1>8. CASE ~Exists(call[c].lobbyId)
    <2>1. Finish(c, "createMessage") /\ lobbyMessages' = lobbyMessages
      BY <1>1, <1>2, <1>8 DEF Finish
    <2> QED
      BY <1>2, <1>3, <2>1, FinishKeeps DEF tables, sockets, history
  <1> QED
    BY <1>7, <1>8

\* new_message: whoever is in the room has been let in.
LEMMA EmitMessageKeeps ==
  ASSUME LobbyInv, NEW c \in Calls, EmitMessage(c)
  PROVE  LobbyInv'
  <1> DEFINE message == [id |-> call[c].id, lobbyId |-> call[c].lobbyId,
                         userId |-> call[c].userId]
             room == {u \in Users : <<call[c].lobbyId, u>> \in rooms}
  <1>1. /\ Goto(c, Idle) /\ call[c].step = "emit" /\ Idle.step = "idle"
        /\ heard' = heard \cup (room \X {message})
        /\ UNCHANGED <<ownerId, deleted, lobbyMembers, lobbyMessages, rooms, online, entered,
                       crashes>>
    BY DEF EmitMessage, Finish, Idle, tables, sockets
  <1>2. message \in LobbyMessage /\ message.lobbyId = call[c].lobbyId
    BY <1>1, CallFields DEF LobbyInv, Numbered, LobbyMessage
  <1>3. \A u \in room : u \in Users /\ <<call[c].lobbyId, u>> \in entered
    BY DEF LobbyInv, LetIn
  <1> HIDE DEF message, room
  <1>4. \A h \in room \X {message} :
          h \in Users \X LobbyMessage /\ <<h[2].lobbyId, h[1]>> \in entered
    BY <1>2, <1>3
  <1>5. call' \in [Calls -> {Idle} \cup LobbyCall]
    BY <1>1, GotoDoes DEF LobbyInv
  <1>6. LobbyTypeOK'
    <2>1. heard' \subseteq Users \X LobbyMessage
      BY <1>1, <1>4 DEF LobbyInv, LobbyTypeOK
    <2> QED
      BY <1>1, <1>5, <2>1 DEF LobbyInv, LobbyTypeOK
  <1>7. LetIn' /\ Numbered'
    BY <1>1, CallsKeep DEF LobbyInv, LetIn
  <1>8. OnlyEntrants'
    BY <1>1, <1>4 DEF LobbyInv, OnlyEntrants
  <1>9. EmptyLobbyIsAttended'
    BY <1>1, AttendedKeeps DEF Exists, Members, Attends
  <1> QED
    BY <1>6, <1>7, <1>8, <1>9 DEF LobbyInv

\* Sockets that come change nothing of this.
LEMMA ConnectionKeeps ==
  ASSUME LobbyInv, NEW u \in Users, HandleConnection(u)
  PROVE  LobbyInv'
  <1>1. /\ online' = online \cup {u}
        /\ UNCHANGED <<ownerId, deleted, lobbyMembers, lobbyMessages, rooms, call, heard,
                       entered, crashes>>
    BY DEF HandleConnection, tables, history
  <1>2. LobbyTypeOK'
    BY <1>1 DEF LobbyInv, LobbyTypeOK
  <1> QED
    BY <1>1, <1>2 DEF LobbyInv, LetIn, Numbered, OnlyEntrants, EmptyLobbyIsAttended, Exists,
                      Members

\* A call that came over a socket goes on when the socket has closed.
LEMMA DisconnectKeeps ==
  ASSUME LobbyInv, NEW u \in Users, HandleDisconnect(u)
  PROVE  LobbyInv'
  <1> DEFINE cut(c) == [call[c] EXCEPT !.via = "closed"]
  <1>1. /\ online' = online \ {u} /\ rooms' \subseteq rooms
        /\ UNCHANGED <<ownerId, deleted, lobbyMembers, lobbyMessages, heard, entered, crashes>>
        /\ call' = [c \in Calls |->
                      IF call[c] # Idle /\ call[c].via = "socket" /\ call[c].userId = u
                        THEN cut(c) ELSE call[c]]
    BY DEF HandleDisconnect, tables, history
  <1>2. \A c \in Calls : call[c] # Idle =>
          /\ cut(c) \in LobbyCall /\ cut(c).step = call[c].step /\ cut(c).id = call[c].id
          /\ cut(c).lobbyId = call[c].lobbyId /\ cut(c).userId = call[c].userId
    BY DEF LobbyInv, LobbyTypeOK, LobbyCall, Via
  <1> HIDE DEF cut
  <1>3. /\ call' \in [Calls -> {Idle} \cup LobbyCall]
        /\ \A c \in Calls :
             \/ call'[c] = call[c]
             \/ /\ call'[c].step = call[c].step /\ call'[c].id = call[c].id
                /\ call'[c].lobbyId = call[c].lobbyId /\ call'[c].userId = call[c].userId
    BY <1>1, <1>2 DEF LobbyInv, LobbyTypeOK
  <1>4. LobbyTypeOK'
    BY <1>1, <1>3 DEF LobbyInv, LobbyTypeOK
  <1>5. LetIn' /\ Numbered'
    BY <1>1, <1>3 DEF LobbyInv, LetIn, Numbered
  <1>6. OnlyEntrants'
    BY <1>1 DEF LobbyInv, OnlyEntrants
  <1>7. EmptyLobbyIsAttended'
    BY <1>1, <1>3 DEF LobbyInv, EmptyLobbyIsAttended, Exists, Members
  <1> QED
    BY <1>4, <1>5, <1>6, <1>7 DEF LobbyInv

\* After a crash nobody is in a room, and no empty lobby need be attended.
LEMMA CrashKeeps ==
  ASSUME LobbyInv, Crash
  PROVE  LobbyInv'
  <1>1. /\ \A c \in Calls : call'[c].step = "idle"
        /\ call' \in [Calls -> {Idle} \cup LobbyCall]
        /\ rooms' = {} /\ online' = {} /\ crashes < MaxCrashes /\ crashes' = crashes + 1
        /\ UNCHANGED <<ownerId, deleted, lobbyMembers, lobbyMessages, heard, entered>>
    BY DEF Crash, Idle, tables
  <1>2. crashes' \in 0..MaxCrashes /\ crashes' # 0
    BY <1>1, BoundsAssumption DEF LobbyInv, LobbyTypeOK
  <1>3. LobbyTypeOK'
    BY <1>1, <1>2 DEF LobbyInv, LobbyTypeOK
  <1> QED
    BY <1>1, <1>2, <1>3 DEF LobbyInv, LetIn, Numbered, OnlyEntrants, EmptyLobbyIsAttended

-----------------------------------------------------------------------------
(* The theorems.                                                           *)

\* Every step keeps the invariant.
LEMMA LobbyInvStep ==
  LobbyInv /\ [Next]_vars => LobbyInv'
  <1> SUFFICES ASSUME LobbyInv, [Next]_vars
               PROVE  LobbyInv'
    OBVIOUS
  <1>1. CASE UNCHANGED vars
    BY <1>1 DEF vars, tables, sockets, history, LobbyInv, LobbyTypeOK, LetIn, Numbered,
                OnlyEntrants, EmptyLobbyIsAttended, Exists, Members
  <1>2. ASSUME NEW u \in Users, NEW l \in Lobbies,
               \/ CreateLobby(u, l)
               \/ \E c \in Calls :
                    \/ DeleteLobby(c, u, l)
                    \/ \E via \in {"http", "socket"} :
                         JoinLobby(c, u, l, via) \/ LeaveLobby(c, u, l, via)
                    \/ SendMessage(c, u, l)
        PROVE  LobbyInv'
    BY <1>2, CreateLobbyKeeps, BeginsKeep
  <1>3. ASSUME NEW c \in Calls, Continue(c)
        PROVE  LobbyInv'
    BY <1>3, CommitDeleteKeeps, FindMemberKeeps, InsertMemberKeeps, RoomsKeep,
       DeleteMemberKeeps, CountMembersKeeps, DeleteEmptyLobbyKeeps, CreateMessageKeeps,
       EmitMessageKeeps DEF Continue
  <1>4. ASSUME NEW u \in Users, HandleConnection(u) \/ HandleDisconnect(u)
        PROVE  LobbyInv'
    BY <1>4, ConnectionKeeps, DisconnectKeeps
  <1>5. CASE Crash
    BY <1>5, CrashKeeps
  <1> QED
    BY <1>1, <1>2, <1>3, <1>4, <1>5 DEF Next

\* So it always holds.
LEMMA LobbyInvariant ==
  Spec => []LobbyInv
  <1>1. Init => LobbyInv
    BY BoundsAssumption DEF Init, LobbyInv, LobbyTypeOK, LetIn, Numbered, OnlyEntrants,
                            EmptyLobbyIsAttended, Exists, Idle
  <1> QED
    BY <1>1, LobbyInvStep, PTL DEF Spec

\* Rows and calls always have their types: every member and every message has a
\* lobby that is there.
THEOREM LobbyTypeCorrect ==
  Spec => []LobbyTypeOK
  <1>1. LobbyInv => LobbyTypeOK
    BY DEF LobbyInv
  <1> QED
    BY <1>1, LobbyInvariant, PTL

\* Whoever writes to a lobby or hears a message live has been let in to it.
THEOREM EntrantsOnly ==
  Spec => []OnlyEntrants
  <1>1. LobbyInv => OnlyEntrants
    BY DEF LobbyInv
  <1> QED
    BY <1>1, LobbyInvariant, PTL

\* As long as the process has not crashed, an empty lobby has a leave that is
\* still to look at it, however joins and leaves cross.
THEOREM EmptyAttended ==
  Spec => []EmptyLobbyIsAttended
  <1>1. LobbyInv => EmptyLobbyIsAttended
    BY DEF LobbyInv
  <1> QED
    BY <1>1, LobbyInvariant, PTL
=============================================================================

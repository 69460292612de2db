---------------------------- MODULE MatchFlowProofs ----------------------------
(***************************************************************************)
(* More proofs about the match flow: what becomes of a match on its way    *)
(* from the matching service to the clients and to its measurement row,    *)
(* what a step may do to an outstanding request, and that the flow         *)
(* implements the abstract matchmaker.                                     *)
(***************************************************************************)
EXTENDS MatchmakingProofs

-----------------------------------------------------------------------------
(* The registry of the notification service.                               *)

\* Every step keeps the registry pointing to the users' own live sockets: a
\* disconnect takes out the entry of the user whose socket goes, and that is the
\* only entry that can point to it.
LEMMA RegistryStep ==
  ASSUME TypeOK, RegistryLive, [Next]_vars
  PROVE  RegistryLive'
  <1> USE DEF TypeOK, NotificationTypeOK, RegistryEntry
  <1>0. ASSUME UNCHANGED <<readyState, owner, registry>>
        PROVE  RegistryLive'
    BY <1>0 DEF RegistryLive
  <1>1. ASSUME NEW ws \in Sockets, NEW u \in Users, Connect(ws, u)
        PROVE  RegistryLive'
    BY <1>1 DEF Connect, HandleConnection, RegistryLive
  <1>2. ASSUME NEW ws \in Sockets, NEW l \in Levels, Register(ws, l)
        PROVE  RegistryLive'
    <2>1. owner[ws] \in Users /\ readyState[ws] # "closed"
      BY <1>2 DEF Register, HandleRegister
    <2>2. /\ registry'[owner[ws]] = [ws |-> ws, level |-> l]
          /\ \A u \in Users : u # owner[ws] => registry'[u] = registry[u]
          /\ UNCHANGED <<readyState, owner>>
      BY <1>2, <2>1 DEF Register, HandleRegister
    <2> QED BY <2>1, <2>2 DEF RegistryLive
  <1>3. ASSUME NEW ws \in Sockets, Close(ws)
        PROVE  RegistryLive'
    BY <1>3 DEF Close, ClientCloses, RegistryLive
  <1>4. ASSUME NEW ws \in Sockets, NEW ok \in BOOLEAN, Disconnect(ws, ok)
        PROVE  RegistryLive'
    BY <1>4 DEF Disconnect, HandleDisconnect, RegistryLive
  <1>5. CASE CrashNotification
    BY <1>5 DEF CrashNotification, NotificationRestart, RegistryLive
  <1>6. CASE OnMatchFound
    BY <1>0, <1>6 DEF OnMatchFound, HandleMatchFound
  <1>7. ASSUME NEW c \in updating, NEW ok \in BOOLEAN, WriteHop2(c, ok)
        PROVE  RegistryLive'
    BY <1>0, <1>7 DEF WriteHop2, UpdateDone
  <1>8. ASSUME NEW u \in Users, NEW l \in Levels, NEW ok \in BOOLEAN,
               JoinMatch(u, l, ok) \/ CancelMatch(u, l, ok)
        PROVE  RegistryLive'
    BY <1>0, <1>8 DEF JoinMatch, CancelMatch, notificationVars
  <1>9. CASE Matching
    BY <1>0, <1>9 DEF Matching, OnJoin, OnCancel, FinishCancel, WriteHop1, PublishFound,
                      CrashMatching, notificationVars
  <1>10. CASE UNCHANGED vars
    BY <1>0, <1>10 DEF vars, notificationVars
  <1> QED BY <1>1, <1>2, <1>3, <1>4, <1>5, <1>6, <1>7, <1>8, <1>9, <1>10
          DEF Next, Clients, Notification

\* A match_found never goes to somebody else's client: the registry only points to
\* sockets the server still has, and to the user's own.
THEOREM RegistryPointsHome ==
  Spec => []RegistryLive
  <1>1. Init => RegistryLive
    BY DEF Init, NotificationInit, RegistryLive
  <1>2. TypeOK /\ RegistryLive /\ [Next]_vars => RegistryLive'
    BY RegistryStep
  <1> QED BY <1>1, <1>2, TypeCorrect, PTL DEF Spec

-----------------------------------------------------------------------------
(* The way of a match.                                                     *)

\* The channels of the matches are numbered, no two matches share one, and what is
\* on its way, being updated or in an inbox comes from a match.
ChannelInv ==
  /\ \A f \in matched : f.channelName \in 1..minted /\ f.tokenUser1 = 1 /\ f.tokenUser2 = 2
  /\ \A f, g \in matched : f.channelName = g.channelName => f = g
  /\ \A h \in joining : h.found \in matched
  /\ \A i \in DOMAIN toNotification : toNotification[i] \in matched
  /\ \A c \in updating : \E f \in matched : f.channelName = c
  /\ \A n \in inbox : \E f \in matched : n \in {NoticeUser1(f), NoticeUser2(f)}

\* A match that is in the hands of the matching service is in those of one handler,
\* and in nobody else's.
OnePlace ==
  /\ \A h, k \in joining : h.found = k.found => h = k
  /\ \A h \in joining : h.found.channelName \notin updating
  /\ \A h \in joining, i \in DOMAIN toNotification : toNotification[i] # h.found

\* The INSERT of channel c is not over.
Unwritten(c) == \E h \in joining : h.stage = "create" /\ h.found.channelName = c

\* Channel c is on its way through the services.
Underway(c) ==
  \/ \E h \in joining : h.found.channelName = c
  \/ \E i \in DOMAIN toNotification : toNotification[i].channelName = c
  \/ c \in updating

\* MeasuredBothHops, said of one match at a time.
HopInv ==
  faults = 0 =>
    \A f \in matched :
      /\ ~Unwritten(f.channelName) => Row(f.channelName) # {}
      /\ ~Underway(f.channelName) =>
           Row(f.channelName) = {[channelName |-> f.channelName, hop2 |-> TRUE]}

FlowInv == ChannelInv /\ OnePlace /\ HopInv

\* A step after which there was no fault is none itself.
LEMMA FaultsGrow ==
  ASSUME TypeOK, NEW ok \in BOOLEAN, Attempt(ok), faults' = 0
  PROVE  ok /\ faults = 0
  BY DEF TypeOK, Attempt

\* A step that no match notices.
LEMMA FlowUntouched ==
  ASSUME FlowInv, faults' = 0 => faults = 0,
         UNCHANGED <<matched, minted, joining, toNotification, updating, inbox, measurements>>
  PROVE  FlowInv'
  <1>1. ChannelInv'
    BY DEF FlowInv, ChannelInv
  <1>2. OnePlace'
    BY DEF FlowInv, OnePlace
  <1>3. HopInv'
    BY DEF FlowInv, HopInv, Unwritten, Underway, Row
  <1> QED BY <1>1, <1>2, <1>3 DEF FlowInv

\* A new match: its channel has a fresh number, so that nobody has it in hand.
LEMMA JoinMatchesFlow ==
  ASSUME TypeOK, FlowInv, NEW p \in Publishers, OnJoin(p, TRUE),
         JoinMatches(Head(toMatching[p]))
  PROVE  FlowInv'
  <1> DEFINE e == Head(toMatching[p])
             f == FoundEvent(pool[e.level], e, minted + 1)
             h == [stage |-> "create", found |-> f]
  <1>1. /\ minted' = minted + 1 /\ minted \in Nat
        /\ joining' = joining \cup {h} /\ matched' = matched \cup {f}
        /\ UNCHANGED <<toNotification, updating, inbox, measurements>>
    BY DEF OnJoin, JoinMatches, notificationVars, TypeOK, MatchingTypeOK
  <1>2. f.channelName = minted + 1 /\ f.tokenUser1 = 1 /\ f.tokenUser2 = 2
    BY DEF FoundEvent
  <1>3. h.stage = "create" /\ h.found = f
    OBVIOUS
  <1>4. faults' = 0 => faults = 0
    BY FaultsGrow DEF OnJoin
  <1> HIDE DEF f, h
  <1>5. \A g \in matched : g.channelName \in 1..minted
    BY DEF FlowInv, ChannelInv
  <1>6. \A g \in matched : g.channelName # minted + 1 /\ g # f
    BY <1>1, <1>2, <1>5
  <1>7. ChannelInv'
    <2>1. \A g \in matched' : g.channelName \in 1..minted' /\ g.tokenUser1 = 1 /\ g.tokenUser2 = 2
      BY <1>1, <1>2 DEF FlowInv, ChannelInv
    <2>2. \A g, k \in matched' : g.channelName = k.channelName => g = k
      BY <1>1, <1>2, <1>6 DEF FlowInv, ChannelInv
    <2>3. \A k \in joining' : k.found \in matched'
      BY <1>1, <1>3 DEF FlowInv, ChannelInv
    <2> QED BY <1>1, <2>1, <2>2, <2>3 DEF FlowInv, ChannelInv
  <1>8. OnePlace'
    <2>1. \A k \in joining : k.found # f
      BY <1>6 DEF FlowInv, ChannelInv
    <2>2. minted + 1 \notin updating /\ \A i \in DOMAIN toNotification : toNotification[i] # f
      BY <1>6 DEF FlowInv, ChannelInv
    <2> QED BY <1>1, <1>2, <1>3, <2>1, <2>2 DEF FlowInv, OnePlace
  <1>9. HopInv'
    <2>1. \A c : (Unwritten(c) => Unwritten(c)') /\ (Underway(c) => Underway(c)')
      BY <1>1 DEF Unwritten, Underway
    <2>2. \A c : c = minted + 1 => Unwritten(c)' /\ Underway(c)'
      BY <1>1, <1>2, <1>3 DEF Unwritten, Underway
    <2>3. \A c : Row(c)' = Row(c)
      BY <1>1 DEF Row
    <2> SUFFICES ASSUME faults' = 0, NEW g \in matched'
                 PROVE  /\ ~Unwritten(g.channelName)' => Row(g.channelName)' # {}
                        /\ ~Underway(g.channelName)' =>
                             Row(g.channelName)' =
                               {[channelName |-> g.channelName, hop2 |-> TRUE]}
      BY DEF HopInv
    <2>4. CASE g \in matched
      BY <1>4, <2>1, <2>3, <2>4 DEF FlowInv, HopInv
    <2>5. CASE g.channelName = minted + 1
      BY <2>2, <2>5
    <2> QED BY <1>1, <1>2, <2>4, <2>5
  <1> QED BY <1>7, <1>8, <1>9 DEF FlowInv

\* The INSERT is over: without a fault the row is there before match.found goes out.
LEMMA WriteHop1Flow ==
  ASSUME TypeOK, FlowInv, NEW h \in joining, NEW ok \in BOOLEAN, WriteHop1(h, ok)
  PROVE  FlowInv'
  <1> DEFINE k == [h EXCEPT !.stage = "emit"]
             c == h.found.channelName
  <1>1. /\ joining' = (joining \ {h}) \cup {k} /\ h.stage = "create"
        /\ UNCHANGED <<matched, minted, toNotification, updating, inbox>>
    BY DEF WriteHop1, RecordHop1, notificationVars, brokerVars
  <1>2. k.stage = "emit" /\ k.found = h.found
    BY DEF TypeOK, MatchingTypeOK, JoinHandler
  <1>3. faults' = 0 => ok /\ faults = 0
    BY FaultsGrow DEF WriteHop1
  <1>4. h.found \in matched
    BY DEF FlowInv, ChannelInv
  <1> HIDE DEF k
  <1>5. ChannelInv'
    BY <1>1, <1>2 DEF FlowInv, ChannelInv
  <1>6. OnePlace'
    BY <1>1, <1>2 DEF FlowInv, OnePlace
  <1>7. HopInv'
    <2> SUFFICES ASSUME faults' = 0, NEW g \in matched
                 PROVE  /\ ~Unwritten(g.channelName)' => Row(g.channelName)' # {}
                        /\ ~Underway(g.channelName)' =>
                             Row(g.channelName)' =
                               {[channelName |-> g.channelName, hop2 |-> TRUE]}
      BY <1>1 DEF HopInv
    <2>1. measurements' = measurements \cup {[channelName |-> c, hop2 |-> FALSE]}
      BY <1>3 DEF WriteHop1, CreateMeasurement
    <2>2. \A d : Underway(d)' <=> Underway(d)
      BY <1>1, <1>2 DEF Underway
    <2>3. \A d : d # c => (Unwritten(d)' <=> Unwritten(d))
      BY <1>1, <1>2 DEF Unwritten
    <2>4. \A d : d # c => Row(d)' = Row(d)
      BY <2>1 DEF Row
    <2>5. Row(c)' # {} /\ Underway(c)
      <3>1. [channelName |-> c, hop2 |-> FALSE] \in Row(c)'
        BY <2>1 DEF Row
      <3> QED BY <3>1 DEF Underway
    <2> QED BY <1>3, <2>2, <2>3, <2>4, <2>5 DEF FlowInv, HopInv
  <1> QED BY <1>5, <1>6, <1>7 DEF FlowInv

\* match.found goes from the handler to the broker.
LEMMA PublishFoundFlow ==
  ASSUME TypeOK, FlowInv, NEW h \in joining, NEW ok \in BOOLEAN, PublishFound(h, ok)
  PROVE  FlowInv'
  <1>1. /\ joining' = joining \ {h} /\ h.stage = "emit"
        /\ UNCHANGED <<matched, minted, updating, inbox, measurements>>
        /\ toNotification' = IF ok THEN Append(toNotification, h.found) ELSE toNotification
    BY DEF PublishFound, EmitFound, notificationVars
  <1>2. faults' = 0 => ok /\ faults = 0
    BY FaultsGrow DEF PublishFound
  <1>3. h.found \in matched /\ h.found \in MatchFoundEvent /\ toNotification \in Seq(MatchFoundEvent)
    BY DEF FlowInv, ChannelInv, TypeOK, MatchingTypeOK, JoinHandler
  <1>4. CASE ok
    <2>1. /\ DOMAIN toNotification \subseteq DOMAIN toNotification'
          /\ Len(toNotification) + 1 \in DOMAIN toNotification'
          /\ toNotification'[Len(toNotification) + 1] = h.found
          /\ \A i \in DOMAIN toNotification : toNotification'[i] = toNotification[i]
          /\ \A i \in DOMAIN toNotification' :
               i \in DOMAIN toNotification \/ i = Len(toNotification) + 1
      BY <1>1, <1>3, <1>4, AppendProperties, LenProperties
    <2>2. ChannelInv'
      BY <1>1, <1>3, <2>1 DEF FlowInv, ChannelInv
    <2>3. OnePlace'
      BY <1>1, <2>1 DEF FlowInv, OnePlace
    <2>4. HopInv'
      <3>1. \A c : Underway(c) => Underway(c)'
        BY <1>1, <2>1 DEF Underway
      <3>2. \A c : Unwritten(c) => Unwritten(c)'
        BY <1>1 DEF Unwritten
      <3>3. \A c : Row(c)' = Row(c)
        BY <1>1 DEF Row
      <3> QED BY <1>1, <1>2, <3>1, <3>2, <3>3 DEF FlowInv, HopInv
    <2> QED BY <2>2, <2>3, <2>4 DEF FlowInv
  <1>5. CASE ~ok
    <2>1. ChannelInv' /\ OnePlace'
      BY <1>1, <1>5 DEF FlowInv, ChannelInv, OnePlace
    <2>2. HopInv'
      BY <1>2, <1>5 DEF HopInv
    <2> QED BY <2>1, <2>2 DEF FlowInv
  <1> QED BY <1>4, <1>5

\* match.found is taken off the broker, told to the two users, and its update begun.
LEMMA OnMatchFoundFlow ==
  ASSUME TypeOK, FlowInv, OnMatchFound
  PROVE  FlowInv'
  <1> DEFINE f == Head(toNotification)
             told == {n \in {NoticeUser1(f), NoticeUser2(f)} : Reachable(n.userId)}
  <1>1. /\ toNotification # <<>> /\ toNotification' = Tail(toNotification)
        /\ inbox' = inbox \cup told /\ updating' = updating \cup {f.channelName}
        /\ UNCHANGED <<matched, minted, joining, measurements, faults>>
    BY DEF OnMatchFound, HandleMatchFound, matchingVars, budgetVars
  <1>2. /\ toNotification \in Seq(MatchFoundEvent)
        /\ f = toNotification[1] /\ 1 \in DOMAIN toNotification
        /\ DOMAIN toNotification = 1..Len(toNotification) /\ Len(toNotification) \in Nat
        /\ Len(toNotification') = Len(toNotification) - 1
        /\ DOMAIN toNotification' = 1..Len(toNotification')
        /\ \A i \in 1..Len(toNotification') : toNotification'[i] = toNotification[i + 1]
    BY <1>1, HeadTailProperties, EmptySeq, LenProperties DEF TypeOK
  <1>3. /\ \A i \in DOMAIN toNotification' :
             \E j \in DOMAIN toNotification : toNotification'[i] = toNotification[j]
        /\ \A j \in DOMAIN toNotification :
             j = 1 \/ \E i \in DOMAIN toNotification' : toNotification'[i] = toNotification[j]
    <2>1. \A i \in 1..Len(toNotification') : i + 1 \in DOMAIN toNotification
      BY <1>2
    <2>2. \A j \in DOMAIN toNotification : j # 1 =>
            j - 1 \in 1..Len(toNotification') /\ (j - 1) + 1 = j
      BY <1>2
    <2>3. \A j \in DOMAIN toNotification : j # 1 =>
            toNotification'[j - 1] = toNotification[j]
      BY <1>2, <2>2
    <2> QED BY <1>2, <2>1, <2>2, <2>3
  <1>4. f \in matched
    BY <1>2 DEF FlowInv, ChannelInv
  <1>5. \A n \in told : n \in {NoticeUser1(f), NoticeUser2(f)}
    OBVIOUS
  <1> HIDE DEF f, told
  <1>6. ChannelInv'
    <2>1. \A n \in inbox' : \E g \in matched : n \in {NoticeUser1(g), NoticeUser2(g)}
      BY <1>1, <1>4, <1>5 DEF FlowInv, ChannelInv
    <2> QED BY <1>1, <1>3, <1>4, <2>1 DEF FlowInv, ChannelInv
  <1>7. OnePlace'
    <2>1. \A h \in joining : h.found # f /\ h.found \in matched
      BY <1>2 DEF FlowInv, ChannelInv, OnePlace
    <2>2. \A h \in joining : h.found.channelName # f.channelName
      BY <1>4, <2>1 DEF FlowInv, ChannelInv
    <2> QED BY <1>1, <1>3, <2>2 DEF FlowInv, OnePlace
  <1>8. HopInv'
    <2>1. \A c : Underway(c) => Underway(c)'
      BY <1>1, <1>2, <1>3 DEF Underway
    <2>2. \A c : Unwritten(c)' <=> Unwritten(c)
      BY <1>1 DEF Unwritten
    <2>3. \A c : Row(c)' = Row(c)
      BY <1>1 DEF Row
    <2> QED BY <1>1, <2>1, <2>2, <2>3 DEF FlowInv, HopInv
  <1> QED BY <1>6, <1>7, <1>8 DEF FlowInv

\* The update finds the row: its INSERT was over before match.found went out.
LEMMA WriteHop2Flow ==
  ASSUME TypeOK, FlowInv, NEW c \in updating, NEW ok \in BOOLEAN, WriteHop2(c, ok)
  PROVE  FlowInv'
  <1>1. /\ updating' = updating \ {c}
        /\ UNCHANGED <<matched, minted, joining, toNotification, inbox>>
    BY DEF WriteHop2, UpdateDone, matchingVars, brokerVars
  <1>2. faults' = 0 => ok /\ faults = 0
    BY FaultsGrow DEF WriteHop2
  <1>3. ChannelInv' /\ OnePlace'
    BY <1>1 DEF FlowInv, ChannelInv, OnePlace
  <1>4. HopInv'
    <2> SUFFICES ASSUME faults' = 0, NEW g \in matched
                 PROVE  /\ ~Unwritten(g.channelName)' => Row(g.channelName)' # {}
                        /\ ~Underway(g.channelName)' =>
                             Row(g.channelName)' =
                               {[channelName |-> g.channelName, hop2 |-> TRUE]}
      BY <1>1 DEF HopInv
    <2>1. measurements' = (measurements \ Row(c))
                            \cup {[channelName |-> r.channelName, hop2 |-> TRUE] : r \in Row(c)}
      BY <1>2 DEF WriteHop2, UpdateMeasurement, Row
    <2>2. \A d : Unwritten(d)' <=> Unwritten(d)
      BY <1>1 DEF Unwritten
    <2>3. CASE g.channelName # c
      <3>1. Underway(g.channelName) => Underway(g.channelName)'
        BY <1>1, <2>3 DEF Underway
      <3>2. Row(g.channelName)' = Row(g.channelName)
        <4>1. \A r \in Row(c) : [channelName |-> r.channelName, hop2 |-> TRUE].channelName = c
          BY DEF Row
        <4> QED BY <2>1, <2>3, <4>1 DEF Row
      <3> QED BY <1>2, <2>2, <3>1, <3>2 DEF FlowInv, HopInv
    <2>4. CASE g.channelName = c
      <3>1. ~Unwritten(c)
        BY DEF FlowInv, OnePlace, Unwritten
      <3>2. Row(c) # {}
        BY <1>2, <2>4, <3>1 DEF FlowInv, HopInv
      <3>3. {[channelName |-> r.channelName, hop2 |-> TRUE] : r \in Row(c)} =
              {[channelName |-> c, hop2 |-> TRUE]}
        BY <3>2 DEF Row
      <3>4. Row(c)' = {[channelName |-> c, hop2 |-> TRUE]}
        <4> DEFINE done == [channelName |-> c, hop2 |-> TRUE]
        <4>1. measurements' = (measurements \ Row(c)) \cup {done} /\ done.channelName = c
          BY <2>1, <3>3
        <4> HIDE DEF done
        <4>2. Row(c)' = {done}
          BY <4>1 DEF Row
        <4> QED BY <4>2 DEF done
      <3> QED BY <2>4, <3>4
    <2> QED BY <2>3, <2>4
  <1> QED BY <1>3, <1>4 DEF FlowInv

\* A crash of a service only drops what is on its way, and it is a fault.
LEMMA CrashFlow ==
  ASSUME TypeOK, FlowInv, CrashMatching \/ CrashNotification
  PROVE  FlowInv'
  <1>1. faults' # 0
    BY DEF CrashMatching, CrashNotification, Crash, TypeOK
  <1>2. CASE CrashMatching
    <2>1. /\ joining' = {}
          /\ UNCHANGED <<matched, minted, toNotification, updating, inbox>>
      BY <1>2 DEF CrashMatching, MatchingRestart, notificationVars
    <2> QED BY <1>1, <2>1 DEF FlowInv, ChannelInv, OnePlace, HopInv
  <1>3. CASE CrashNotification
    <2>1. /\ updating' = {} /\ UNCHANGED <<matched, minted, joining, inbox>>
      BY <1>3 DEF CrashNotification, NotificationRestart, matchingVars
    <2>2. PICK n \in Missed(Len(toNotification)) : toNotification' = Drop(n, toNotification)
      BY <1>3 DEF CrashNotification
    <2>3. toNotification \in Seq(MatchFoundEvent) /\ n \in 0..Len(toNotification)
          /\ Len(toNotification) \in Nat /\ DOMAIN toNotification = 1..Len(toNotification)
      BY MissedIsPrefix, LenProperties DEF TypeOK
    <2>4. /\ Drop(n, toNotification) \in Seq(MatchFoundEvent)
          /\ Len(Drop(n, toNotification)) = Len(toNotification) - n
          /\ \A i \in 1..Len(Drop(n, toNotification)) :
               Drop(n, toNotification)[i] = toNotification[i + n]
      BY <2>3, DropType
    <2>5. \A i \in DOMAIN toNotification' :
            \E j \in DOMAIN toNotification : toNotification'[i] = toNotification[j]
      <3>1. DOMAIN toNotification' = 1..(Len(toNotification) - n)
        BY <2>2, <2>4, LenProperties
      <3>2. \A i \in 1..(Len(toNotification) - n) : i + n \in DOMAIN toNotification
        BY <2>3
      <3>3. \A i \in 1..(Len(toNotification) - n) : toNotification'[i] = toNotification[i + n]
        BY <2>2, <2>4
      <3> QED BY <3>1, <3>2, <3>3
    <2> QED BY <1>1, <2>1, <2>5 DEF FlowInv, ChannelInv, OnePlace, HopInv
  <1> QED BY <1>2, <1>3

\* Every step keeps the invariant.
LEMMA FlowStep ==
  ASSUME TypeOK, FlowInv, [Next]_vars
  PROVE  FlowInv'
  <1> USE DEF matchingVars, notificationVars, brokerVars, budgetVars
  <1>1. ASSUME NEW u \in Users, NEW l \in Levels, NEW ok \in BOOLEAN,
               JoinMatch(u, l, ok) \/ CancelMatch(u, l, ok)
        PROVE  FlowInv'
    BY <1>1, FaultsGrow, FlowUntouched DEF JoinMatch, CancelMatch
  <1>2. ASSUME NEW ws \in Sockets,
               \/ \E u \in Users : Connect(ws, u)
               \/ \E l \in Levels : Register(ws, l)
               \/ Close(ws)
        PROVE  FlowInv'
    BY <1>2, FlowUntouched DEF Connect, Register, Close, HandleConnection, HandleRegister,
                               ClientCloses
  <1>3. ASSUME NEW ws \in Sockets, NEW ok \in BOOLEAN, Disconnect(ws, ok)
        PROVE  FlowInv'
    BY <1>3, FaultsGrow, FlowUntouched DEF Disconnect, HandleDisconnect
  <1>4. ASSUME NEW p \in Publishers, NEW ok \in BOOLEAN, OnJoin(p, ok)
        PROVE  FlowInv'
    <2>1. CASE ok /\ JoinMatches(Head(toMatching[p]))
      BY <1>4, <2>1, JoinMatchesFlow
    <2>2. CASE ok /\ JoinWaits(Head(toMatching[p]))
      BY <1>4, <2>2, FaultsGrow, FlowUntouched DEF OnJoin, JoinWaits
    <2>3. CASE ~ok
      BY <1>4, <2>3, FaultsGrow, FlowUntouched DEF OnJoin
    <2> QED BY <1>4, <2>1, <2>2, <2>3 DEF OnJoin, HandleJoin
  <1>5. ASSUME NEW p \in Publishers, NEW ok \in BOOLEAN, OnCancel(p, ok)
        PROVE  FlowInv'
    BY <1>5, FaultsGrow, FlowUntouched DEF OnCancel, HandleCancel
  <1>6. ASSUME NEW ok \in BOOLEAN, FinishCancel(ok)
        PROVE  FlowInv'
    BY <1>6, FaultsGrow, FlowUntouched DEF FinishCancel, DeleteEntry, DeleteFails
  <1>7. ASSUME NEW h \in joining, NEW ok \in BOOLEAN, WriteHop1(h, ok) \/ PublishFound(h, ok)
        PROVE  FlowInv'
    BY <1>7, WriteHop1Flow, PublishFoundFlow
  <1>8. CASE OnMatchFound
    BY <1>8, OnMatchFoundFlow
  <1>9. ASSUME NEW c \in updating, NEW ok \in BOOLEAN, WriteHop2(c, ok)
        PROVE  FlowInv'
    BY <1>9, WriteHop2Flow
  <1>10. CASE CrashMatching \/ CrashNotification
    BY <1>10, CrashFlow
  <1>11. CASE UNCHANGED vars
    BY <1>11, FlowUntouched DEF vars
  <1> QED BY <1>1, <1>2, <1>3, <1>4, <1>5, <1>6, <1>7, <1>8, <1>9, <1>10, <1>11
          DEF Next, Clients, Matching, Notification

\* At the start there is no match.
LEMMA FlowStart == Init => FlowInv
  BY DEF Init, MatchingInit, NotificationInit, FlowInv, ChannelInv, OnePlace, HopInv

\* So it always holds.
LEMMA FlowInvariant == Spec => []FlowInv
  <1>1. Init => FlowInv
    BY FlowStart
  <1>2. TypeOK /\ FlowInv /\ [Next]_vars => FlowInv'
    BY FlowStep
  <1> QED BY <1>1, <1>2, TypeCorrect, PTL DEF Spec

\* The messages two clients get about one channel fit together, whatever is lost or
\* crosses on the way.
THEOREM NotificationsMirror ==
  Spec => []MirrorNotifications
  <1>1. FlowInv /\ IInv => MirrorNotifications
    <2> SUFFICES ASSUME FlowInv, IInv, NEW n \in inbox, NEW m \in inbox,
                        n.channelName = m.channelName, n # m
                 PROVE  /\ n.token # m.token
                        /\ n.myTopics = m.partnerTopics /\ n.partnerTopics = m.myTopics
                        /\ requests[n.myTopics].userId = n.userId
                        /\ {n.userId, m.userId} = {n.user1Id, n.user2Id}
      BY DEF MirrorNotifications
    <2>1. PICK f \in matched : n \in {NoticeUser1(f), NoticeUser2(f)}
      BY DEF FlowInv, ChannelInv
    <2>2. PICK g \in matched : m \in {NoticeUser1(g), NoticeUser2(g)}
      BY DEF FlowInv, ChannelInv
    <2>3. \A k \in matched :
            /\ NoticeUser1(k).channelName = k.channelName /\ NoticeUser1(k).userId = k.user1Id
            /\ NoticeUser1(k).user1Id = k.user1Id /\ NoticeUser1(k).user2Id = k.user2Id
            /\ NoticeUser1(k).token = 1 /\ NoticeUser1(k).myTopics = k.topicsUser1
            /\ NoticeUser1(k).partnerTopics = k.topicsUser2
            /\ NoticeUser2(k).channelName = k.channelName /\ NoticeUser2(k).userId = k.user2Id
            /\ NoticeUser2(k).user1Id = k.user1Id /\ NoticeUser2(k).user2Id = k.user2Id
            /\ NoticeUser2(k).token = 2 /\ NoticeUser2(k).myTopics = k.topicsUser2
            /\ NoticeUser2(k).partnerTopics = k.topicsUser1
      BY DEF NoticeUser1, NoticeUser2, FlowInv, ChannelInv
    <2>4. f = g
      BY <2>1, <2>2, <2>3 DEF FlowInv, ChannelInv
    <2>5. /\ requests[f.topicsUser1].userId = f.user1Id
          /\ requests[f.topicsUser2].userId = f.user2Id
      BY DEF IInv, MatchFaithful, Pairing
    <2> QED BY <2>1, <2>2, <2>3, <2>4, <2>5
  <1> QED BY <1>1, FlowInvariant, IInvInductive, PTL

\* Without faults no measurement row is half lost: match.found is out only once its
\* row exists, and when the match is over in both services the row has both latencies.
THEOREM BothHopsMeasured ==
  Spec => []MeasuredBothHops
  <1>1. FlowInv => MeasuredBothHops
    BY DEF FlowInv, HopInv, MeasuredBothHops, Unwritten, Underway
  <1> QED BY <1>1, FlowInvariant, PTL

-----------------------------------------------------------------------------
(* Outstanding requests.                                                   *)

\* Taking the head of a queue takes no other request out of it, and none at all
\* when the head is a cancel.
LEMMA TakeLoses ==
  ASSUME IInv, NEW p \in Publishers, toMatching[p] # <<>>, Take(p), requests' = requests
  PROVE  /\ Head(toMatching[p]).kind # "join" => Queued' = Queued
         /\ Head(toMatching[p]).kind = "join" =>
              Queued' = Queued \ {Head(toMatching[p]).topics}
  <1> DEFINE q == toMatching[p]
             r == Tail(q)
  <1>1. q \in Seq(Message) /\ toMatching \in [Publishers -> Seq(Message)]
    BY DEF IInv, TypeOK
  <1>2. /\ Len(r) = Len(q) - 1 /\ r \in Seq(Message)
        /\ \A i \in 1..Len(r) : r[i] = q[i + 1]
        /\ Head(q) = q[1] /\ Len(q) \in Nat \ {0} /\ DOMAIN q = 1..Len(q)
        /\ DOMAIN r = 1..Len(r)
    BY <1>1, HeadTailProperties, EmptySeq, LenProperties
  <1>3. toMatching'[p] = r /\ \A o \in Publishers : o # p => toMatching'[o] = toMatching[o]
    BY <1>1 DEF Take
  <1>4. /\ Queued' \subseteq Queued
        /\ Head(q).kind = "join" => p = "api" /\ Head(q).topics \in Queued \ Queued'
    BY TakeKeeps
  <1>5. ASSUME NEW i \in Joins(q), i # 1
        PROVE  q[i].topics \in TopicsOf(r)
    <2>1. i - 1 \in 1..Len(r) /\ (i - 1) + 1 = i
      BY <1>2, <1>5 DEF Joins
    <2>2. r[i - 1] = q[i]
      BY <1>2, <2>1
    <2>3. i - 1 \in Joins(r)
      BY <1>2, <2>1, <2>2 DEF Joins
    <2> QED BY <2>2, <2>3 DEF TopicsOf
  <1> HIDE DEF r
  <1>6. \A t \in Queued : t \in Queued' \/ (1 \in Joins(q) /\ t = q[1].topics)
    <2>1. CASE p = "api"
      BY <1>3, <1>5, <2>1 DEF Queued, TopicsOf
    <2>2. CASE p # "api"
      <3>1. toMatching'["api"] = toMatching["api"]
        BY <1>3, <2>2 DEF Publishers
      <3> QED BY <3>1 DEF Queued
    <2> QED BY <2>1, <2>2
  <1>7. 1 \in Joins(q) <=> Head(q).kind = "join"
    BY <1>2 DEF Joins
  <1> QED BY <1>2, <1>4, <1>6, <1>7

\* The requests in the hands of a join that is looked at.
LEMMA JoinTaken ==
  ASSUME IInv, NEW p \in Publishers, NEW ok \in BOOLEAN, OnJoin(p, ok)
  PROVE  LET e == Head(toMatching[p]) IN
         /\ e.topics \in Queued /\ Queued' = Queued \ {e.topics}
         /\ e.topics \in DOMAIN requests /\ e.level \in Levels
         /\ requests[e.topics] = [userId |-> e.userId, level |-> e.level]
         /\ requests' = requests
  <1>1. /\ toMatching[p] # <<>> /\ Head(toMatching[p]).kind = "join" /\ Take(p)
        /\ requests' = requests
    BY DEF OnJoin, Arrives
  <1>2. Head(toMatching[p]).level \in Levels
    BY <1>1, ArrivalType DEF IInv, MatchRequestEvent
  <1> QED BY <1>1, <1>2, TakeKeeps, TakeLoses

\* A join that finds nobody: its request moves from the queue to the pool.
LEMMA WaitsDoes ==
  ASSUME IInv, NEW p \in Publishers, OnJoin(p, TRUE), JoinWaits(Head(toMatching[p]))
  PROVE  LET e == Head(toMatching[p]) IN
         /\ pool[e.level] = None /\ matched' = matched
         /\ pool'[e.level] # None /\ pool'[e.level].topics = e.topics
         /\ \A l \in Levels : l # e.level => pool'[l] = pool[l]
  <1> DEFINE e == Head(toMatching[p])
  <1>1. e.level \in Levels
    BY JoinTaken
  <1>2. /\ pool[e.level] = None /\ matched' = matched
        /\ pool'[e.level] = [userId |-> e.userId, topics |-> e.topics]
        /\ \A l \in Levels : l # e.level => pool'[l] = pool[l]
    BY <1>1 DEF JoinWaits, IInv, TypeOK, MatchingTypeOK
  <1>3. pool'[e.level] # None
    <2>1. toMatching[p] # <<>> /\ e.kind = "join"
      BY DEF OnJoin, Arrives
    <2>2. e.userId \in Users /\ e.topics \in Nat
      BY <2>1, ArrivalType DEF IInv, MatchRequestEvent
    <2> QED BY <1>2, <2>2, NoPoolEntry
  <1> QED BY <1>2, <1>3

\* A join that finds a partner: both requests move into one match.
LEMMA MatchesDoes ==
  ASSUME IInv, NEW p \in Publishers, OnJoin(p, TRUE), JoinMatches(Head(toMatching[p]))
  PROVE  LET e == Head(toMatching[p])
             w == pool[e.level]
             f == FoundEvent(w, e, minted + 1) IN
         /\ w # None /\ w.topics \in DOMAIN requests
         /\ matched' = matched \cup {f}
         /\ f.topicsUser1 = w.topics /\ f.topicsUser2 = e.topics
         /\ pool'[e.level] = None
         /\ \A l \in Levels : l # e.level => pool'[l] = pool[l]
  <1> DEFINE e == Head(toMatching[p])
             w == pool[e.level]
             f == FoundEvent(w, e, minted + 1)
  <1>1. e.level \in Levels
    BY JoinTaken
  <1>2. /\ w # None /\ matched' = matched \cup {f} /\ pool'[e.level] = None
        /\ \A l \in Levels : l # e.level => pool'[l] = pool[l]
    BY <1>1 DEF JoinMatches, IInv, TypeOK, MatchingTypeOK
  <1>3. f.topicsUser1 = w.topics /\ f.topicsUser2 = e.topics
    BY DEF FoundEvent
  <1>4. w.topics \in DOMAIN requests
    BY <1>1, <1>2 DEF IInv, PoolFaithful
  <1> QED BY <1>2, <1>3, <1>4

\* A join that is published is in the queue.
LEMMA JoinQueued ==
  ASSUME IInv, NEW u \in Users, NEW l \in Levels,
         Publish("api", <<JoinEvent(u, l, Len(requests) + 1)>>)
  PROVE  Queued' = Queued \cup {Len(requests) + 1}
  <1> DEFINE q == toMatching["api"]
             t == Len(requests) + 1
  <1>1. /\ q \in Seq(Message) /\ requests \in Seq(Request)
        /\ toMatching \in [Publishers -> Seq(Message)]
        /\ Faithful(q, requests) /\ Once(q)
    BY DEF IInv, TypeOK, QueueInv, Publishers
  <1>2. toMatching'["api"] = q \o <<JoinEvent(u, l, t)>>
    BY <1>1 DEF Publish, Publishers
  <1>3. TopicsOf(q \o <<JoinEvent(u, l, t)>>) = TopicsOf(q) \cup {t}
    BY <1>1, JoinAdds
  <1> QED BY <1>2, <1>3 DEF Queued

\* The joins in the queue after a request: the new one, unless its publish failed.
LEMMA SubmitDoes ==
  ASSUME IInv, NEW u \in Users, NEW l \in Levels, NEW ok \in BOOLEAN, JoinMatch(u, l, ok)
  PROVE  /\ requests' = Append(requests, [userId |-> u, level |-> l])
         /\ Queued' = IF ok THEN Queued \cup {Len(requests) + 1} ELSE Queued
         /\ UNCHANGED <<pool, matched>>
  <1> DEFINE q == toMatching["api"]
  <1>1. q \in Seq(Message) /\ toMatching \in [Publishers -> Seq(Message)]
    BY DEF IInv, TypeOK, Publishers
  <1>2. /\ requests' = Append(requests, [userId |-> u, level |-> l])
        /\ UNCHANGED <<pool, matched>>
    BY DEF JoinMatch, matchingVars
  <1>3. CASE ok
    <2>1. Publish("api", <<JoinEvent(u, l, Len(requests) + 1)>>)
      BY <1>3 DEF JoinMatch
    <2> QED BY <1>2, <1>3, <2>1, JoinQueued
  <1>4. CASE ~ok
    <2>1. toMatching'["api"] = q \o <<>>
      BY <1>1, <1>4 DEF JoinMatch, Publish, Publishers
    <2>2. toMatching'["api"] = q
      BY <1>1, <2>1, ConcatEmptySeq
    <2> QED BY <1>2, <1>4, <2>2 DEF Queued
  <1> QED BY <1>3, <1>4

\* A step that publishes cancels, or none, moves no request.
LEMMA CancelsMoveNothing ==
  ASSUME IInv, NEW ok \in BOOLEAN,
         \/ \E u \in Users, l \in Levels : CancelMatch(u, l, ok)
         \/ \E ws \in Sockets : Disconnect(ws, ok)
  PROVE  Queued' = Queued /\ UNCHANGED <<requests, pool, matched>>
  <1>1. ASSUME NEW u \in Users, NEW l \in Levels, CancelMatch(u, l, ok)
        PROVE  Queued' = Queued /\ UNCHANGED <<requests, pool, matched>>
    <2>1. PICK msgs \in {<<CancelEvent(u, l)>>, <<>>} : Publish("api", msgs)
      BY <1>1 DEF CancelMatch
    <2>2. msgs \in Seq(Message) /\ Joins(msgs) = {}
      BY <2>1, OneCancel, NoMessage
    <2>3. UNCHANGED <<requests, pool, matched>>
      BY <1>1 DEF CancelMatch, matchingVars
    <2> QED BY <2>1, <2>2, <2>3, CancelPublished DEF Publishers
  <1>2. ASSUME NEW ws \in Sockets, Disconnect(ws, ok)
        PROVE  Queued' = Queued /\ UNCHANGED <<requests, pool, matched>>
    <2>1. PICK msgs : /\ msgs \in {DisconnectCancels(ws), <<>>}
                      /\ Publish("notification", msgs)
      BY <1>2 DEF Disconnect
    <2>2. /\ owner[ws] \in Users
          /\ registry[owner[ws]] # None => registry[owner[ws]].level \in Levels
      BY <1>2 DEF IInv, TypeOK, NotificationTypeOK, RegistryEntry, Disconnect, HandleDisconnect
    <2>3. msgs \in Seq(Message) /\ Joins(msgs) = {}
      <3>1. CASE msgs = <<>>
        BY <3>1, NoMessage
      <3>2. CASE msgs # <<>>
        <4>1. /\ msgs = <<CancelEvent(owner[ws], registry[owner[ws]].level)>>
              /\ registry[owner[ws]] # None
          BY <2>1, <3>2 DEF DisconnectCancels
        <4> QED BY <2>2, <4>1, OneCancel
      <3> QED BY <3>1, <3>2
    <2>4. UNCHANGED <<requests, pool, matched>>
      BY <1>2 DEF Disconnect, matchingVars
    <2> QED BY <2>1, <2>3, <2>4, CancelPublished DEF Publishers
  <1> QED BY <1>1, <1>2

\* So does a cancel that is looked at: the pool is touched one step later.
LEMMA OnCancelMovesNothing ==
  ASSUME IInv, NEW p \in Publishers, NEW ok \in BOOLEAN, OnCancel(p, ok)
  PROVE  Queued' = Queued /\ UNCHANGED <<requests, pool, matched>>
  <1>1. /\ toMatching[p] # <<>> /\ Take(p) /\ requests' = requests
        /\ Head(toMatching[p]).kind # "join"
    BY DEF OnCancel, Arrives
  <1>2. UNCHANGED <<pool, matched>>
    BY DEF OnCancel, HandleCancel, matchingVars
  <1> QED BY <1>1, <1>2, TakeLoses

\* hdel empties the level of the cancel, and no other.
LEMMA FinishCancelDoes ==
  ASSUME IInv, NEW ok \in BOOLEAN, FinishCancel(ok)
  PROVE  /\ Queued' = Queued /\ UNCHANGED <<requests, matched>>
         /\ cancelling # <<>> /\ cancelling' = Tail(cancelling)
         /\ Head(cancelling).level \in Levels
         /\ ok => /\ pool'[Head(cancelling).level] = None
                  /\ \A l \in Levels : l # Head(cancelling).level => pool'[l] = pool[l]
         /\ ~ok => pool' = pool
  <1>1. /\ UNCHANGED <<toMatching, requests, matched>>
        /\ cancelling # <<>> /\ cancelling' = Tail(cancelling)
    BY DEF FinishCancel, DeleteEntry, DeleteFails, brokerVars
  <1>2. Head(cancelling) \in MatchCancelEvent
    BY <1>1, HeadTailProperties DEF IInv, TypeOK, MatchingTypeOK
  <1>3. Head(cancelling).level \in Levels
    BY <1>2 DEF MatchCancelEvent
  <1>4. pool \in [Levels -> PoolEntry \cup {None}]
    BY DEF IInv, TypeOK, MatchingTypeOK
  <1>5. CASE ok
    <2>1. pool' = [pool EXCEPT ![Head(cancelling).level] = None]
      BY <1>5 DEF FinishCancel, DeleteEntry
    <2> QED BY <1>1, <1>3, <1>4, <1>5, <2>1 DEF Queued
  <1>6. CASE ~ok
    <2>1. pool' = pool
      BY <1>6 DEF FinishCancel, DeleteFails
    <2> QED BY <1>1, <1>3, <1>6, <2>1 DEF Queued
  <1> QED BY <1>5, <1>6

\* A crash of the matching service loses requests that were not looked at.
LEMMA CrashLoses ==
  ASSUME IInv, CrashMatching
  PROVE  /\ Queued' \subseteq Queued /\ UNCHANGED <<requests, pool, matched>>
         /\ faults' # faults
  <1> DEFINE q == toMatching["api"]
  <1>1. PICK a \in Missed(Len(q)), n \in Missed(Len(toMatching["notification"])) :
          toMatching' = [toMatching EXCEPT !["api"] = Drop(a, @),
                                           !["notification"] = Drop(n, @)]
    BY DEF CrashMatching
  <1>2. toMatching \in [Publishers -> Seq(Message)] /\ q \in Seq(Message)
    BY DEF IInv, TypeOK, Publishers
  <1>3. toMatching'["api"] = Drop(a, q)
    BY <1>1, <1>2 DEF Publishers
  <1>4. a \in 0..Len(q)
    BY <1>2, MissedIsPrefix, LenProperties
  <1>5. TopicsOf(Drop(a, q)) \subseteq TopicsOf(q)
    BY <1>2, <1>4, DropKeeps
  <1>6. faults' # faults /\ UNCHANGED <<requests, pool, matched>>
    BY DEF CrashMatching, Crash, MatchingRestart, IInv, TypeOK
  <1> QED BY <1>3, <1>5, <1>6 DEF Queued

\* The steps that neither requests nor the pool nor matches notice.
LEMMA QuietSteps ==
  ASSUME IInv,
         \/ \E ws \in Sockets :
              \/ \E u \in Users : Connect(ws, u)
              \/ \E l \in Levels : Register(ws, l)
              \/ Close(ws)
         \/ \E h \in joining, ok \in BOOLEAN : WriteHop1(h, ok) \/ PublishFound(h, ok)
         \/ OnMatchFound \/ CrashNotification
         \/ \E c \in updating, ok \in BOOLEAN : WriteHop2(c, ok)
         \/ UNCHANGED vars
  PROVE  Queued' = Queued /\ UNCHANGED <<requests, pool, matched>>
  <1> USE DEF matchingVars, brokerVars, budgetVars
  <1> SUFFICES UNCHANGED <<toMatching, requests, pool, matched>>
    BY DEF Queued
  <1>1. ASSUME NEW ws \in Sockets,
               \/ \E u \in Users : Connect(ws, u)
               \/ \E l \in Levels : Register(ws, l)
               \/ Close(ws)
        PROVE  UNCHANGED <<toMatching, requests, pool, matched>>
    BY <1>1 DEF Connect, Register, Close
  <1>2. ASSUME NEW h \in joining, NEW ok \in BOOLEAN, WriteHop1(h, ok) \/ PublishFound(h, ok)
        PROVE  UNCHANGED <<toMatching, requests, pool, matched>>
    BY <1>2 DEF WriteHop1, RecordHop1, PublishFound, EmitFound
  <1>3. CASE OnMatchFound \/ CrashNotification
    BY <1>3 DEF OnMatchFound, CrashNotification
  <1>4. ASSUME NEW c \in updating, NEW ok \in BOOLEAN, WriteHop2(c, ok)
        PROVE  UNCHANGED <<toMatching, requests, pool, matched>>
    BY <1>4 DEF WriteHop2
  <1>5. CASE UNCHANGED vars
    BY <1>5 DEF vars
  <1> QED BY <1>1, <1>2, <1>3, <1>4, <1>5

\* What moves an outstanding request on.
LEMMA OutstandingStep ==
  ASSUME IInv, [Next]_vars, NEW t \in DOMAIN requests, Outstanding(t), ~Outstanding(t)'
  PROVE  \/ t \in Paired'
         \/ faults' # faults
         \/ /\ cancelling # <<>> /\ cancelling' = Tail(cancelling)
            /\ Head(cancelling).level = requests[t].level
  <1> DEFINE Goal == \/ t \in Paired'
                     \/ faults' # faults
                     \/ /\ cancelling # <<>> /\ cancelling' = Tail(cancelling)
                        /\ Head(cancelling).level = requests[t].level
  <1> SUFFICES Goal
    OBVIOUS
  <1> HIDE DEF Goal
  <1>1. t \in Queued \/ \E l \in Levels : pool[l] # None /\ pool[l].topics = t
    BY InPoolDef DEF Outstanding
  <1>2. t \notin Queued' /\ \A l \in Levels : ~(pool'[l] # None /\ pool'[l].topics = t)
    BY InPoolDef DEF Outstanding
  <1>3. ASSUME Queued \subseteq Queued', pool' = pool
        PROVE  Goal
    BY <1>1, <1>2, <1>3
  <1>4. ASSUME NEW ok \in BOOLEAN, Attempt(ok), ~ok
        PROVE  Goal
    BY <1>4 DEF Attempt, Goal, IInv, TypeOK
  <1>5. ASSUME NEW u \in Users, NEW l \in Levels, NEW ok \in BOOLEAN, JoinMatch(u, l, ok)
        PROVE  Goal
    BY <1>3, <1>5, SubmitDoes
  <1>6. ASSUME NEW ok \in BOOLEAN,
               \/ \E u \in Users, l \in Levels : CancelMatch(u, l, ok)
               \/ \E ws \in Sockets : Disconnect(ws, ok)
        PROVE  Goal
    BY <1>3, <1>6, CancelsMoveNothing
  <1>7. ASSUME NEW p \in Publishers, NEW ok \in BOOLEAN, OnJoin(p, ok)
        PROVE  Goal
    <2> DEFINE e == Head(toMatching[p])
    <2>1. CASE ~ok
      BY <1>4, <1>7, <2>1 DEF OnJoin
    <2>2. CASE ok /\ JoinWaits(e)
      <3>1. /\ Queued' = Queued \ {e.topics} /\ e.level \in Levels
            /\ pool[e.level] = None
            /\ pool'[e.level] # None /\ pool'[e.level].topics = e.topics
            /\ \A l \in Levels : l # e.level => pool'[l] = pool[l]
        BY <1>7, <2>2, JoinTaken, WaitsDoes
      <3> QED BY <1>1, <1>2, <3>1
    <2>3. CASE ok /\ JoinMatches(e)
      <3> DEFINE f == FoundEvent(pool[e.level], e, minted + 1)
      <3>1. /\ Queued' = Queued \ {e.topics} /\ e.level \in Levels
            /\ matched' = matched \cup {f}
            /\ f.topicsUser1 = pool[e.level].topics /\ f.topicsUser2 = e.topics
            /\ \A l \in Levels : l # e.level => pool'[l] = pool[l]
        BY <1>7, <2>3, JoinTaken, MatchesDoes
      <3> HIDE DEF f, e
      <3>2. t = e.topics \/ t = pool[e.level].topics
        BY <1>1, <1>2, <3>1
      <3>3. t \in Paired'
        BY <3>1, <3>2, PairedDef
      <3> QED BY <3>3 DEF Goal
    <2> QED BY <1>7, <2>1, <2>2, <2>3 DEF OnJoin, HandleJoin
  <1>8. ASSUME NEW p \in Publishers, NEW ok \in BOOLEAN, OnCancel(p, ok)
        PROVE  Goal
    BY <1>3, <1>8, OnCancelMovesNothing
  <1>9. ASSUME NEW ok \in BOOLEAN, FinishCancel(ok)
        PROVE  Goal
    <2>1. CASE ~ok
      BY <1>4, <1>9, <2>1 DEF FinishCancel
    <2>2. CASE ok
      <3>1. /\ Queued' = Queued /\ cancelling # <<>> /\ cancelling' = Tail(cancelling)
            /\ \A l \in Levels : l # Head(cancelling).level => pool'[l] = pool[l]
        BY <1>9, <2>2, FinishCancelDoes
      <3>2. PICK l \in Levels : pool[l] # None /\ pool[l].topics = t
        BY <1>1, <1>2, <3>1
      <3>3. l = Head(cancelling).level
        BY <1>2, <3>1, <3>2
      <3>4. requests[t] = [userId |-> pool[l].userId, level |-> l]
        BY <3>2 DEF IInv, PoolFaithful
      <3>5. requests[t].level = l
        BY <3>4
      <3> QED BY <3>1, <3>3, <3>5 DEF Goal
    <2> QED BY <2>1, <2>2
  <1>10. CASE CrashMatching
    BY <1>10, CrashLoses DEF Goal
  <1>11. ASSUME Queued' = Queued /\ UNCHANGED <<requests, pool, matched>>
         PROVE  Goal
    BY <1>3, <1>11
  <1> QED BY <1>5, <1>6, <1>7, <1>8, <1>9, <1>10, <1>11, QuietSteps
          DEF Next, Clients, Matching, Notification

\* Without a fault, a request leaves the queue and the pool only into a match, or by
\* a cancel of somebody who waited at its level.
THEOREM LeavesOnlyPaired ==
  Spec => LeavesPaired
  <1> DEFINE Step ==
        \A t \in DOMAIN requests :
          Outstanding(t) /\ ~Outstanding(t)' =>
            \/ t \in Paired'
            \/ faults' # faults
            \/ /\ cancelling # <<>> /\ cancelling' = Tail(cancelling)
               /\ Head(cancelling).level = requests[t].level
  <1>1. IInv /\ [Next]_vars => [Step]_vars
    BY OutstandingStep
  <1> HIDE DEF Step
  <1> QED BY <1>1, IInvInductive, PTL DEF Spec, LeavesPaired, Step

-----------------------------------------------------------------------------
(* The refinement of Matchmaker.                                           *)

\* The steps of Matchmaker, told with the values that stand for its variables.
LEMMA Submits ==
  ASSUME NEW u \in Users, NEW l \in Levels,
         requests' = Append(requests, [userId |-> u, level |-> l]),
         Queued' \in {Queued, Queued \cup {Len(requests) + 1}},
         \A k \in Levels : Waiting(k)' = Waiting(k), matched' = matched
  PROVE  Abstract!Next
  BY DEF Abstract!Next, Abstract!Submit, Pairing

\* A request that starts to wait.
LEMMA Waits ==
  ASSUME NEW r \in Queued, NEW l \in Levels, requests[r].level = l, Waiting(l) = {},
         Queued' = Queued \ {r},
         \A k \in Levels : Waiting(k)' = IF k = l THEN {r} ELSE Waiting(k),
         UNCHANGED <<requests, matched>>
  PROVE  Abstract!Next
  <1>1. Abstract!Wait(r)
    BY DEF Abstract!Wait, Pairing
  <1> QED BY <1>1 DEF Abstract!Next

\* A request that meets the one that waits.
LEMMA Pairs ==
  ASSUME NEW r \in Queued, NEW s \in DOMAIN requests, NEW l \in Levels, NEW f,
         requests[r].level = l, Waiting(l) = {s}, Pairing(f) = <<s, r>>,
         Queued' = Queued \ {r},
         \A k \in Levels : Waiting(k)' = IF k = l THEN {} ELSE Waiting(k),
         requests' = requests, matched' = matched \cup {f}
  PROVE  Abstract!Next
  <1>1. Abstract!Pair(r, s)
    BY DEF Abstract!Pair, Pairing
  <1> QED BY <1>1 DEF Abstract!Next

\* Requests that nobody looks at any more.
LEMMA Loses ==
  ASSUME Queued' \subseteq Queued, \A k \in Levels : Waiting(k)' = Waiting(k),
         UNCHANGED <<requests, matched>>
  PROVE  Abstract!Next
  <1>1. Abstract!Lose
    BY DEF Abstract!Lose, Pairing
  <1> QED BY <1>1 DEF Abstract!Next

\* A level that is emptied by a cancel.
LEMMA Withdraws ==
  ASSUME NEW l \in Levels, Queued' = Queued,
         \A k \in Levels : Waiting(k)' = IF k = l THEN {} ELSE Waiting(k),
         UNCHANGED <<requests, matched>>
  PROVE  Abstract!Next
  <1>1. Abstract!Withdraw(l)
    BY DEF Abstract!Withdraw, Pairing
  <1> QED BY <1>1 DEF Abstract!Next

\* At the start nobody has asked.
LEMMA MatchmakerStart == Init => Abstract!Init
  <1> SUFFICES ASSUME Init
               PROVE  Abstract!Init
    OBVIOUS
  <1>1. Queued = {} /\ requests = <<>> /\ matched = {}
    BY EmptySeq DEF Init, MatchingInit, Queued, TopicsOf, Joins, Publishers
  <1>2. \A l \in Levels : Waiting(l) = {}
    BY DEF Init, MatchingInit, Waiting
  <1> QED BY <1>1, <1>2 DEF Abstract!Init

\* Every step of the match flow is a step of Matchmaker, or none.
LEMMA MatchmakerSteps ==
  IInv /\ [Next]_vars => [Abstract!Next]_(Abstract!absVars)
  <1> DEFINE Goal == Abstract!Next \/ UNCHANGED Abstract!absVars
  <1> SUFFICES ASSUME IInv, [Next]_vars
               PROVE  Goal
    OBVIOUS
  <1>1. ASSUME Queued' = Queued, UNCHANGED <<requests, pool, matched>>
        PROVE  Goal
    <2>1. \A k \in Levels : Waiting(k)' = Waiting(k)
      BY <1>1 DEF Waiting
    <2> QED BY <1>1, <2>1 DEF Abstract!absVars, Pairing
  <1>2. ASSUME Queued' \subseteq Queued, UNCHANGED <<requests, pool, matched>>
        PROVE  Goal
    <2>1. \A k \in Levels : Waiting(k)' = Waiting(k)
      BY <1>2 DEF Waiting
    <2> QED BY <1>2, <2>1, Loses
  <1> HIDE DEF Goal
  <1>3. ASSUME NEW u \in Users, NEW l \in Levels, NEW ok \in BOOLEAN, JoinMatch(u, l, ok)
        PROVE  Goal
    <2>1. /\ requests' = Append(requests, [userId |-> u, level |-> l])
          /\ Queued' \in {Queued, Queued \cup {Len(requests) + 1}}
          /\ UNCHANGED <<pool, matched>>
      BY <1>3, SubmitDoes
    <2>2. \A k \in Levels : Waiting(k)' = Waiting(k)
      BY <2>1 DEF Waiting
    <2> QED BY <2>1, <2>2, Submits DEF Goal
  <1>4. ASSUME NEW ok \in BOOLEAN,
               \/ \E u \in Users, l \in Levels : CancelMatch(u, l, ok)
               \/ \E ws \in Sockets : Disconnect(ws, ok)
        PROVE  Goal
    BY <1>1, <1>4, CancelsMoveNothing
  <1>5. ASSUME NEW p \in Publishers, NEW ok \in BOOLEAN, OnJoin(p, ok)
        PROVE  Goal
    <2> DEFINE e == Head(toMatching[p])
    <2>1. /\ e.topics \in Queued /\ Queued' = Queued \ {e.topics} /\ e.level \in Levels
          /\ requests[e.topics] = [userId |-> e.userId, level |-> e.level]
          /\ requests' = requests
      BY <1>5, JoinTaken
    <2>2. requests[e.topics].level = e.level
      BY <2>1
    <2>3. CASE ~ok
      <3>1. UNCHANGED <<pool, matched>>
        BY <1>5, <2>3 DEF OnJoin, matchingVars
      <3> QED BY <1>2, <2>1, <3>1
    <2>4. CASE ok /\ JoinWaits(e)
      <3>1. /\ pool[e.level] = None /\ matched' = matched
            /\ pool'[e.level] # None /\ pool'[e.level].topics = e.topics
            /\ \A l \in Levels : l # e.level => pool'[l] = pool[l]
        BY <1>5, <2>4, WaitsDoes
      <3> HIDE DEF e
      <3>2. Waiting(e.level) = {}
        BY <3>1 DEF Waiting
      <3>3. \A k \in Levels :
              Waiting(k)' = IF k = e.level THEN {e.topics} ELSE Waiting(k)
        BY <2>1, <3>1 DEF Waiting
      <3> QED BY <2>1, <2>2, <3>1, <3>2, <3>3, Waits DEF Goal
    <2>5. CASE ok /\ JoinMatches(e)
      <3> DEFINE f == FoundEvent(pool[e.level], e, minted + 1)
      <3>1. /\ pool[e.level] # None /\ pool[e.level].topics \in DOMAIN requests
            /\ matched' = matched \cup {f}
            /\ f.topicsUser1 = pool[e.level].topics /\ f.topicsUser2 = e.topics
            /\ pool'[e.level] = None
            /\ \A l \in Levels : l # e.level => pool'[l] = pool[l]
        BY <1>5, <2>5, MatchesDoes
      <3> HIDE DEF e, f
      <3>2. Waiting(e.level) = {pool[e.level].topics}
        BY <3>1 DEF Waiting
      <3>3. Pairing(f) = <<pool[e.level].topics, e.topics>>
        BY <3>1 DEF Pairing
      <3>4. \A k \in Levels : Waiting(k)' = IF k = e.level THEN {} ELSE Waiting(k)
        BY <2>1, <3>1 DEF Waiting
      <3> QED BY <2>1, <2>2, <3>1, <3>2, <3>3, <3>4, Pairs DEF Goal
    <2> QED BY <1>5, <2>3, <2>4, <2>5 DEF OnJoin, HandleJoin
  <1>6. ASSUME NEW p \in Publishers, NEW ok \in BOOLEAN, OnCancel(p, ok)
        PROVE  Goal
    BY <1>1, <1>6, OnCancelMovesNothing
  <1>7. ASSUME NEW ok \in BOOLEAN, FinishCancel(ok)
        PROVE  Goal
    <2> DEFINE l == Head(cancelling).level
    <2>1. /\ Queued' = Queued /\ UNCHANGED <<requests, matched>> /\ l \in Levels
          /\ ok => /\ pool'[l] = None
                   /\ \A k \in Levels : k # l => pool'[k] = pool[k]
          /\ ~ok => pool' = pool
      BY <1>7, FinishCancelDoes
    <2> HIDE DEF l
    <2>2. CASE ok
      <3>1. \A k \in Levels : Waiting(k)' = IF k = l THEN {} ELSE Waiting(k)
        BY <2>1, <2>2 DEF Waiting
      <3> QED BY <2>1, <3>1, Withdraws DEF Goal
    <2>3. CASE ~ok
      BY <1>1, <2>1, <2>3
    <2> QED BY <2>2, <2>3
  <1>8. CASE CrashMatching
    BY <1>2, <1>8, CrashLoses
  <1>9. ASSUME Queued' = Queued /\ UNCHANGED <<requests, pool, matched>>
        PROVE  Goal
    BY <1>1, <1>9
  <1> QED BY <1>3, <1>4, <1>5, <1>6, <1>7, <1>8, <1>9, QuietSteps
          DEF Next, Clients, Matching, Notification

\* The match flow implements Matchmaker: behind queues that lose messages, two calls
\* per cancel and services that crash, at most one request waits at a level, and a
\* request is paired only with the one that waits at its level.
THEOREM FlowImplementsMatchmaker ==
  Spec => ImplementsMatchmaker
  BY MatchmakerStart, MatchmakerSteps, IInvInductive,
     PTL DEF Spec, ImplementsMatchmaker, Abstract!Spec
=============================================================================

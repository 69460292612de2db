----------------------------- MODULE MatchEvents -----------------------------
(***************************************************************************)
(* What the services of the match flow share: the events of                *)
(* libs/shared/src/events and the match_measurements table.                *)
(*                                                                         *)
(* The field "topics" of a join is an opaque payload in the code; the pool *)
(* stores it and the partner receives it.  Here it is the number of the    *)
(* join request, so that two requests of one user can be told apart.       *)
(* Channel names are fresh UUIDs in the code and fresh numbers here.       *)
(* publishedAt only feeds latency metrics and is left out.                 *)
(***************************************************************************)
EXTENDS Naturals, Sequences

CONSTANTS Users,    \* ids of the registered users
          Levels,   \* e.g. "english.beginner": the fields of the Redis hash
          None      \* absence: Redis nil, a missing Map entry, no user

ASSUME NoUser == None \notin Users

Uids == {1, 2}      \* the two Agora uids of a channel

MatchRequestEvent == [kind : {"join"}, userId : Users, level : Levels, topics : Nat]

MatchCancelEvent == [kind : {"cancel"}, userId : Users, level : Levels]

MatchFoundEvent == [user1Id : Users, user2Id : Users, channelName : Nat,
                    tokenUser1 : Uids, tokenUser2 : Uids,
                    topicsUser1 : Nat, topicsUser2 : Nat]

\* Mutant: a join that does not say the level.
JoinWithoutLevel(u, l, t) == [kind |-> "join", userId |-> u, topics |-> t]

JoinEvent(u, l, t) == [kind |-> "join", userId |-> u, level |-> l, topics |-> t]

CancelEvent(u, l) == [kind |-> "cancel", userId |-> u, level |-> l]

-----------------------------------------------------------------------------
(* match_measurements: one row per match, written by two services.         *)

VARIABLE measurements

MatchMeasurement == [channelName : Nat, hop2 : BOOLEAN]

\* prisma.matchMeasurement.create: a row with hop1Ms and no hop2Ms yet.
CreateMeasurement(c) ==
  measurements' = measurements \cup {[channelName |-> c, hop2 |-> FALSE]}

\* prisma.matchMeasurement.updateMany: no error when no row has the channel.
UpdateMeasurement(c) ==
  LET hit == {r \in measurements : r.channelName = c} IN
  measurements' = (measurements \ hit)
                    \cup {[channelName |-> r.channelName, hop2 |-> TRUE] : r \in hit}
=============================================================================

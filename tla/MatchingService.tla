--------------------------- MODULE MatchingService ---------------------------
(***************************************************************************)
(* The matching service: the waiting pool in Redis and the two broker      *)
(* event handlers that work on it (apps/matching/src/matching.service.ts). *)
(*                                                                         *)
(* Node runs one handler until its next await; handlers interleave there.  *)
(* An action is the code between two awaits.  One Redis connection carries *)
(* all commands in the order they are issued, so a command is executed in  *)
(* the step that issues it; what happens after its reply is a later step.  *)
(***************************************************************************)
EXTENDS MatchEvents

VARIABLES
  pool,        \* Redis hash "pool": level -> the one waiting request, or None
  joining,     \* handleJoin calls that popped a partner and are not done
  cancelling,  \* handleCancel calls between hget and hdel, in reply order
  minted,      \* how many channel names uuidv4 has produced
  matched      \* history: every match ever decided

matchingVars == <<pool, joining, cancelling, minted, matched>>

PoolEntry == [userId : Users, topics : Nat]

ASSUME NoPoolEntry == None \notin [userId : Users, topics : Nat]

\* "create": awaiting the hop1 row; "emit": about to publish match.found.
JoinHandler == [stage : {"create", "emit"}, found : MatchFoundEvent]

MatchingTypeOK ==
  /\ pool \in [Levels -> PoolEntry \cup {None}]
  /\ joining \subseteq JoinHandler
  /\ cancelling \in Seq(MatchCancelEvent)
  /\ minted \in Nat
  /\ matched \subseteq MatchFoundEvent

MatchingInit ==
  /\ pool = [l \in Levels |-> None]
  /\ joining = {}
  /\ cancelling = <<>>
  /\ minted = 0
  /\ matched = {}

-----------------------------------------------------------------------------
(* handleJoin.  JOIN_LUA runs atomically inside Redis: it either takes the *)
(* waiting entry out of the pool or puts the caller in.                    *)

\* Mutant: the topics of the two sides are mixed up.
FoundEventSwapped(w, e, c) ==
  [user1Id |-> w.userId, user2Id |-> e.userId, channelName |-> c,
   tokenUser1 |-> 1, tokenUser2 |-> 2,
   topicsUser1 |-> e.topics, topicsUser2 |-> w.topics]

\* The MatchFoundEvent for the waiting entry w and the join event e.
FoundEvent(w, e, c) ==
  [user1Id |-> w.userId, user2Id |-> e.userId, channelName |-> c,
   tokenUser1 |-> 1, tokenUser2 |-> 2,
   topicsUser1 |-> w.topics, topicsUser2 |-> e.topics]

\* Mutant: HSET without looking first.
JoinOverwrites(e) ==
  /\ pool' = [pool EXCEPT ![e.level] = [userId |-> e.userId, topics |-> e.topics]]
  /\ UNCHANGED <<joining, cancelling, minted, matched>>

JoinWaits(e) ==
  /\ pool[e.level] = None
  /\ pool' = [pool EXCEPT ![e.level] = [userId |-> e.userId, topics |-> e.topics]]
  /\ UNCHANGED <<joining, cancelling, minted, matched>>

\* Mutant: HGET without HDEL, the race of skripsi-plan.md:298.
JoinKeepsPartner(e) ==
  LET found == FoundEvent(pool[e.level], e, minted + 1) IN
  /\ pool[e.level] # None
  /\ minted' = minted + 1
  /\ joining' = joining \cup {[stage |-> "create", found |-> found]}
  /\ matched' = matched \cup {found}
  /\ UNCHANGED <<pool, cancelling>>

\* Mutant: the partner is taken out and the caller is put in all the same.
JoinStays(e) ==
  LET found == FoundEvent(pool[e.level], e, minted + 1) IN
  /\ pool[e.level] # None
  /\ pool' = [pool EXCEPT ![e.level] = [userId |-> e.userId, topics |-> e.topics]]
  /\ minted' = minted + 1
  /\ joining' = joining \cup {[stage |-> "create", found |-> found]}
  /\ matched' = matched \cup {found}
  /\ UNCHANGED cancelling

\* Mutant: a partner is looked for among other users only, for ever.
JoinOthersOnly(e) ==
  LET found == FoundEvent(pool[e.level], e, minted + 1) IN
  /\ pool[e.level] # None /\ pool[e.level].userId # e.userId
  /\ pool' = [pool EXCEPT ![e.level] = None]
  /\ minted' = minted + 1
  /\ joining' = joining \cup {[stage |-> "create", found |-> found]}
  /\ matched' = matched \cup {found}
  /\ UNCHANGED cancelling

JoinMatches(e) ==
  LET found == FoundEvent(pool[e.level], e, minted + 1) IN
  /\ pool[e.level] # None
  /\ pool' = [pool EXCEPT ![e.level] = None]
  /\ minted' = minted + 1
  /\ joining' = joining \cup {[stage |-> "create", found |-> found]}
  /\ matched' = matched \cup {found}
  /\ UNCHANGED cancelling

HandleJoin(e) == JoinWaits(e) \/ JoinMatches(e)

\* The awaited INSERT is over, with or without success: its error is caught.
RecordHop1(h) ==
  /\ h \in joining /\ h.stage = "create"
  /\ joining' = (joining \ {h}) \cup {[h EXCEPT !.stage = "emit"]}
  /\ UNCHANGED <<pool, cancelling, minted, matched>>

\* Mutant: the INSERT is not awaited before match.found goes out.
EmitAtOnce(h) ==
  /\ h \in joining
  /\ joining' = joining \ {h}
  /\ UNCHANGED <<pool, cancelling, minted, matched>>

\* brokerClient.emit('match.found', found) ends the handler.
EmitFound(h) ==
  /\ h \in joining /\ h.stage = "emit"
  /\ joining' = joining \ {h}
  /\ UNCHANGED <<pool, cancelling, minted, matched>>

-----------------------------------------------------------------------------
(* handleCancel: hget, then, when the entry is the caller's, hdel.  The    *)
(* two commands are separate; the handler awaits the reply in between.     *)

\* Mutant: like the unused CANCEL_LUA, compare the stored JSON with the bare id.
CancelNeverEqual(e) == UNCHANGED <<pool, joining, cancelling, minted, matched>>

HandleCancel(e) ==
  LET stored == pool[e.level] IN
  /\ cancelling' = IF stored # None /\ stored.userId = e.userId
                     THEN Append(cancelling, e) ELSE cancelling
  /\ UNCHANGED <<pool, joining, minted, matched>>

\* hdel removes whatever the level holds by now.
DeleteEntry ==
  /\ cancelling # <<>>
  /\ pool' = [pool EXCEPT ![Head(cancelling).level] = None]
  /\ cancelling' = Tail(cancelling)
  /\ UNCHANGED <<joining, minted, matched>>

\* The catch around hdel swallows its failure.
DeleteFails ==
  /\ cancelling # <<>>
  /\ cancelling' = Tail(cancelling)
  /\ UNCHANGED <<pool, joining, minted, matched>>

\* A crash loses the handlers in progress; the pool is in Redis and stays.
MatchingRestart ==
  /\ joining' = {}
  /\ cancelling' = <<>>
  /\ UNCHANGED <<pool, minted, matched>>
=============================================================================

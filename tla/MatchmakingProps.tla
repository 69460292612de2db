-------------------------- MODULE MatchmakingProps ---------------------------
(***************************************************************************)
(* What the match flow of Matchmaking.tla must do and must never do.  A    *)
(* join request is named by its number, the one its "topics" carry.        *)
(***************************************************************************)
EXTENDS Matchmaking

Joins(q) == {i \in DOMAIN q : q[i].kind = "join"}

TopicsOf(q) == {q[i].topics : i \in Joins(q)}

Queued == TopicsOf(toMatching["api"])

Waiting(l) == IF pool[l] = None THEN {} ELSE {pool[l].topics}

InPool == UNION {Waiting(l) : l \in Levels}

Pairing(f) == <<f.topicsUser1, f.topicsUser2>>

Paired == UNION {{f.topicsUser1, f.topicsUser2} : f \in matched}

Outstanding(t) == t \in Queued \cup InPool

-----------------------------------------------------------------------------
(* Safety.                                                                 *)

\* A request is used at most once: it is in one match at most, and once it is
\* in one it is neither in the pool nor still to be looked at.  (The race that
\* JOIN_LUA is there to rule out: one waiting user ends up in two rooms.)
RequestUsedOnce ==
  /\ \A f, g \in matched :
       f # g => {f.topicsUser1, f.topicsUser2} \cap {g.topicsUser1, g.topicsUser2} = {}
  /\ \A f \in matched : f.topicsUser1 # f.topicsUser2
  /\ Queued \cap InPool = {} /\ Queued \cap Paired = {} /\ InPool \cap Paired = {}

\* A match joins two requests of one level, and names the users who made them.
MatchFaithful ==
  \A f \in matched :
    \E r, s \in DOMAIN requests :
      /\ Pairing(f) = <<r, s>>
      /\ requests[r].level = requests[s].level
      /\ f.user1Id = requests[r].userId /\ f.user2Id = requests[s].userId

\* The messages two clients get about one channel fit together: they carry
\* different tokens, each shows the other's topics as the partner's, and each
\* went to the user whose token and topics it carries.
MirrorNotifications ==
  \A n, m \in inbox :
    n.channelName = m.channelName /\ n # m =>
      /\ n.token # m.token
      /\ n.myTopics = m.partnerTopics /\ n.partnerTopics = m.myTopics
      /\ requests[n.myTopics].userId = n.userId
      /\ {n.userId, m.userId} = {n.user1Id, n.user2Id}

\* Two services write one measurement row.  Without faults none is half lost:
\* match.found is out only once its row exists, and when the match is over in
\* both services the row has both latencies.
Row(c) == {r \in measurements : r.channelName = c}

MeasuredBothHops ==
  LET inMatching == {h.found.channelName : h \in joining}
      unwritten == {h.found.channelName : h \in {h \in joining : h.stage = "create"}}
      inFlight == {toNotification[i].channelName : i \in DOMAIN toNotification}
  IN faults = 0 =>
       \A c \in {f.channelName : f \in matched} :
         /\ c \notin unwritten => Row(c) # {}
         /\ c \notin inMatching \cup inFlight \cup updating =>
              Row(c) = {[channelName |-> c, hop2 |-> TRUE]}

\* The registry only points to sockets the server still has, and only to the
\* user's own: a match_found never goes to somebody else's client.
RegistryLive ==
  \A u \in Users :
    registry[u] # None =>
      readyState[registry[u].ws] # "closed" /\ owner[registry[u].ws] = u

\* Without a fault, a request leaves the queue and the pool only into a match,
\* or by a cancel of somebody who waited at its level.
LeavesPaired ==
  [][\A t \in DOMAIN requests :
       Outstanding(t) /\ ~Outstanding(t)' =>
         \/ t \in Paired'
         \/ faults' # faults
         \/ /\ cancelling # <<>> /\ cancelling' = Tail(cancelling)
            /\ Head(cancelling).level = requests[t].level]_vars

-----------------------------------------------------------------------------
(* Liveness, under FairSpec without faults.                                *)

\* Two requests for one level are not both left outstanding.
NoTwoLeftWaiting ==
  \A r, s \in 1..MaxJoins :
    (/\ r < s /\ s <= Len(requests)
     /\ requests[r].level = requests[s].level
     /\ Outstanding(r) /\ Outstanding(s))
      ~> ~(Outstanding(r) /\ Outstanding(s))

\* A match that is decided and not yet announced reaches both its users; who is
\* registered on an open socket from the decision on is told the channel.
Unannounced == {h.found : h \in joining}
                 \cup {toNotification[i] : i \in DOMAIN toNotification}

ParticipantTold ==
  \A c \in 1..MaxJoins, u \in Users :
    (\E f \in Unannounced : f.channelName = c /\ u \in {f.user1Id, f.user2Id})
      ~> (~Reachable(u) \/ \E n \in inbox : n.channelName = c /\ n.userId = u)

\* A cancel that was sent the way the join was sent works: the API publishes
\* both, so that the join is looked at first.
CancelBehind(t) ==
  LET q == toMatching["api"]
      c == CancelEvent(requests[t].userId, requests[t].level) IN
  /\ t \in DOMAIN requests
  /\ \E i \in DOMAIN q :
       /\ q[i] = c
       /\ t \in InPool \/ \E j \in Joins(q) : j < i /\ q[j].topics = t

CancelTakesEffect ==
  \A t \in 1..MaxJoins : CancelBehind(t) ~> ~Outstanding(t)

-----------------------------------------------------------------------------
\* The match flow implements the abstract matchmaker: a request is pending in
\* the queue, waits in the pool, and is paired when the match is decided.
Abstract == INSTANCE Matchmaker WITH
  pending <- Queued,
  waiting <- [l \in Levels |-> Waiting(l)],
  pairs <- {Pairing(f) : f \in matched}

ImplementsMatchmaker == Abstract!Spec

-----------------------------------------------------------------------------
(* What the design document says and the code does not do.                 *)

\* Cancelling is atomic: hdel takes out the entry that hget saw, so that a
\* cancel never takes out another user's request (skripsi-plan.md:314).
CancelRemovesOnlyOwn ==
  [][FinishCancel(TRUE) =>
       \/ pool' = pool
       \/ pool[Head(cancelling).level].userId = Head(cancelling).userId]_vars

\* Nothing is in flight in the API, the matching service or on a socket.
Quiescent ==
  /\ \A p \in Publishers : toMatching[p] = <<>>
  /\ cancelling = <<>> /\ joining = {}
  /\ \A ws \in Sockets : readyState[ws] # "closing"

\* A user who reconnects gets the next match_found (skripsi-plan.md:196): while
\* the socket it registered stays open, the user stays registered.
StaysRegistered ==
  [][\A u \in Users :
       /\ registry[u] # None /\ faults' = faults
       /\ readyState[registry[u].ws] = "open" /\ readyState'[registry[u].ws] = "open"
       => registry'[u] # None]_vars
=============================================================================

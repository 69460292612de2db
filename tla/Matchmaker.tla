----------------------------- MODULE Matchmaker ------------------------------
(***************************************************************************)
(* What matchmaking promises, without services, broker or Redis: a join    *)
(* request is pending until it either waits for a partner or is paired     *)
(* with the one that waits at its level.  At most one request waits at a   *)
(* level.  A request can be lost, and it is used at most once.             *)
(***************************************************************************)
EXTENDS Naturals, Sequences

CONSTANTS Users, Levels

VARIABLES
  requests,  \* the requests ever made: a request is its number here
  pending,   \* requests made and not yet looked at
  waiting,   \* level -> the requests that wait there: none or one
  pairs      \* pairs <<waiting request, request that met it>>

absVars == <<requests, pending, waiting, pairs>>

Init ==
  /\ requests = <<>>
  /\ pending = {}
  /\ waiting = [l \in Levels |-> {}]
  /\ pairs = {}

Submit(u, l) ==
  /\ requests' = Append(requests, [userId |-> u, level |-> l])
  /\ pending' \in {pending, pending \cup {Len(requests) + 1}}
  /\ UNCHANGED <<waiting, pairs>>

Wait(r) ==
  LET l == requests[r].level IN
  /\ waiting[l] = {}
  /\ pending' = pending \ {r}
  /\ waiting' = [waiting EXCEPT ![l] = {r}]
  /\ UNCHANGED <<requests, pairs>>

Pair(r, s) ==
  LET l == requests[r].level IN
  /\ waiting[l] = {s}
  /\ pending' = pending \ {r}
  /\ waiting' = [waiting EXCEPT ![l] = {}]
  /\ pairs' = pairs \cup {<<s, r>>}
  /\ UNCHANGED requests

\* Messages are lost with a request in them.
Lose ==
  /\ pending' \in SUBSET pending
  /\ UNCHANGED <<requests, waiting, pairs>>

\* A cancel reaches the level.
Withdraw(l) ==
  /\ waiting' = [waiting EXCEPT ![l] = {}]
  /\ UNCHANGED <<requests, pending, pairs>>

Next ==
  \/ \E u \in Users, l \in Levels : Submit(u, l)
  \/ \E r \in pending : Wait(r) \/ \E s \in DOMAIN requests : Pair(r, s)
  \/ Lose
  \/ \E l \in Levels : Withdraw(l)

Spec == Init /\ [][Next]_absVars
=============================================================================

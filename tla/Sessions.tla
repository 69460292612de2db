------------------------------- MODULE Sessions -------------------------------
(***************************************************************************)
(* What Auth.tla promises about sessions.  A session is opened by a        *)
(* sign-in; it is live while there is a token to go on with, and renewing  *)
(* while that token is exchanged for the next.  Once it is neither it is   *)
(* over, for good: by a logout, or by a crash amid a renewal.              *)
(***************************************************************************)
CONSTANT Ids

VARIABLES opened, live, renewing

vars == <<opened, live, renewing>>

TypeOK ==
  /\ opened \subseteq Ids
  /\ live \subseteq opened /\ renewing \subseteq opened
  /\ live \cap renewing = {}

Init == opened = {} /\ live = {} /\ renewing = {}

Open(s) ==
  /\ s \in Ids \ opened
  /\ opened' = opened \cup {s}
  /\ live' = live \cup {s}
  /\ UNCHANGED renewing

Exchange(s) ==
  /\ s \in live
  /\ live' = live \ {s}
  /\ renewing' = renewing \cup {s}
  /\ UNCHANGED opened

Renew(s) ==
  /\ s \in renewing
  /\ renewing' = renewing \ {s}
  /\ live' = live \cup {s}
  /\ UNCHANGED opened

\* Only a live session can be ended by its user.
Logout(s) ==
  /\ s \in live
  /\ live' = live \ {s}
  /\ UNCHANGED <<opened, renewing>>

Crash == renewing' = {} /\ UNCHANGED <<opened, live>>

Next == Crash \/ \E s \in Ids : Open(s) \/ Exchange(s) \/ Renew(s) \/ Logout(s)

Spec == Init /\ [][Next]_vars
=============================================================================

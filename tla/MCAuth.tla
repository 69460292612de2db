-------------------------------- MODULE MCAuth --------------------------------
EXTENDS Auth, TLC

CONSTANTS e1, e2, ann, ben, g1, g2, c1, c2, c3

\* Two Google accounts, each with an e-mail and a name of its own.
TheEmails == g1 :> e1 @@ g2 :> e2
TheNames == g1 :> ann @@ g2 :> ben

\* The two accounts can be swapped, together with what belongs to them.
Swap == e1 :> e2 @@ e2 :> e1 @@ ann :> ben @@ ben :> ann @@ g1 :> g2 @@ g2 :> g1

Symmetric == Permutations(Calls) \cup {Swap}
=============================================================================

--------------------------- MODULE MCDirectMessages ---------------------------
EXTENDS DirectMessages, TLC

CONSTANTS c1, d1, d2

Symmetric == Permutations(DmCalls)

\* One friendship fits into the two rows: 1 asks 2 for it, and 3 looks on.
ThirdLooksOn ==
  \A c \in Calls :
    call[c].step \in {"alreadyFriends", "create"} =>
      call[c].senderId = 1 /\ call[c].receiverId = 2
=============================================================================

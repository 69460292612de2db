------------------------------ MODULE MCFriends ------------------------------
EXTENDS Friends, TLC

CONSTANTS alice, bob, carol, c1, c2, c3

Symmetric == Permutations(Users) \cup Permutations(Calls)
=============================================================================

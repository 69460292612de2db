------------------------------- MODULE MCLobby -------------------------------
EXTENDS Lobby, TLC

CONSTANTS alice, bob, l1, c1, c2, c3

Symmetric == Permutations(Users) \cup Permutations(Calls)
=============================================================================

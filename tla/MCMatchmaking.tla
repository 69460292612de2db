---------------------------- MODULE MCMatchmaking ----------------------------
(***************************************************************************)
(* Matchmaking for TLC.                                                    *)
(***************************************************************************)
EXTENDS MatchmakingProps, TLC

CONSTANTS alice, bob, ws1, ws2, beginner, advanced

Symmetric == Permutations(Users) \cup Permutations(Levels) \cup Permutations(Sockets)
=============================================================================

---------------------------- MODULE MCChatGames -----------------------------
(* Instances of ChatGames for TLC.                                         *)
EXTENDS ChatGames, TLC

Symmetry == Permutations(Sessions) \cup Permutations(Lobbies)
=============================================================================

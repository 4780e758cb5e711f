---------------------------- MODULE MCLobbyScene ----------------------------
(* An instance of LobbyScene for TLC: the two games of the repository.     *)
EXTENDS LobbyScene

MCGames == <<[minPlayers |-> 2, maxPlayers |-> 6], [minPlayers |-> 2, maxPlayers |-> 2]>>

\* No client is more than two events behind what the server has relayed to it;
\* what its sender has not sent yet comes on top of that.
ShortInboxes == \A c \in Players : Len(inbox[c]) <= 2
=============================================================================

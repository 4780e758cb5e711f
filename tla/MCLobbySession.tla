--------------------------- MODULE MCLobbySession ---------------------------
(* Instances of LobbySession for TLC.                                      *)
EXTENDS LobbySession, TLC

Symmetry == Permutations(Sessions) \cup Permutations(Lobbies)

\* Where symmetry sets cannot be used, because of liveness: one connection is
\* the first the server hears of.
First == CHOOSE s \in Sessions : TRUE
FirstSpeaksFirst == received = 1 => \A s \in Sessions \ {First} : strand[s] = <<>>

\* Messages that processMessage ignores are left to the run any_clients.
NoHeartbeats ==
    \A s \in Sessions : \A i \in DOMAIN strand[s] : strand[s][i].type # "heartbeat"
=============================================================================

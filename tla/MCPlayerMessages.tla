-------------------------- MODULE MCPlayerMessages --------------------------
(* An instance of PlayerMessages for TLC: bytes below 12, so 11 players.   *)
EXTENDS PlayerMessages, TLC

CONSTANTS c1, c2

MCNameOf == c1 :> <<>> @@ c2 :> [i \in 1 .. Base - 1 |-> i % Base]
MCLobbyName == <<7, 11>>
MCTexts == {<<>>, [i \in 1 .. Base + 1 |-> (5 * i) % Base]}

\* Bound of the model: at most one of the players has the empty name.
OneShortName ==
    Cardinality({i \in DOMAIN players : players[i].connection = c1}) <= 1
=============================================================================

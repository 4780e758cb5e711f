----------------------------- MODULE LobbyVector -----------------------------
(***************************************************************************)
(* Lobby::players as the code has it: a vector of players that addPlayer   *)
(* appends to and sorts, that removePlayer erases from, and in which both  *)
(* look an id up by walking the elements.  It implements Seats, which      *)
(* justifies the use of Roster in the other modules.                       *)
(***************************************************************************)
EXTENDS IdOrder, SequencesExt

CONSTANTS
    MaxPlayers,    \* Lobby::maxPlayers
    Connections    \* what Player::connection can be

ASSUME VectorAssumption == MaxPlayers \in Nat \ {0}

VARIABLE players   \* Lobby::players, from index 0 in the code, 1 here

Player == [id : 0 .. MaxPlayers - 1, connection : Connections]

TypeOK == players \in Seq(Player) /\ Len(players) <= MaxPlayers

Init == players = <<>>

\* The indices whose player has another id than the index.
Gaps(ps) == {i \in DOMAIN ps : ps[i].id # i - 1}

\* Mutant of GetNextPlayerId: it does not look for gaps.
NextPlayerIdAtEnd(ps) == Len(ps)

\* Lobby::getNextPlayerId
GetNextPlayerId(ps) ==
    IF Gaps(ps) = {} THEN Len(ps)
    ELSE (CHOOSE i \in Gaps(ps) : \A j \in Gaps(ps) : i <= j) - 1

\* Lobby::getPlayerIndexById, Len(ps) + 1 for std::nullopt.
GetPlayerIndexById(ps, id) ==
    CHOOSE i \in 1 .. Len(ps) + 1 :
        /\ i <= Len(ps) => ps[i].id = id
        /\ \A j \in 1 .. i - 1 : ps[j].id # id

\* Mutant of AddPlayer: a player more than there are ids.
AddPlayerOneMore(c) ==
    /\ Len(players) <= MaxPlayers
    /\ players' = Sort(Append(players, [id |-> GetNextPlayerId(players),
                                        connection |-> c]))

\* Lobby::addPlayer, for a lobby that is not full.
AddPlayer(c) ==
    /\ Len(players) < MaxPlayers
    /\ players' = Sort(Append(players, [id |-> GetNextPlayerId(players),
                                        connection |-> c]))

\* Lobby::removePlayer
RemovePlayer(id) ==
    LET idx == GetPlayerIndexById(players, id)
    IN  /\ idx <= Len(players)
        /\ players' = RemoveAt(players, idx)

\* Mutant of IsPlayerMaster: the player who has been there longest.
IsPlayerMasterZero(ps, id) == Len(ps) > 0 /\ id = 0

\* Lobby::isPlayerMaster
IsPlayerMaster(ps, id) == Len(ps) > 0 /\ ps[1].id = id

Next ==
    \/ \E c \in Connections : AddPlayer(c)
    \/ \E id \in 0 .. MaxPlayers - 1 : RemovePlayer(id)

Spec == Init /\ [][Next]_players
-----------------------------------------------------------------------------
\* The list the vector denotes.
Denotes(ps) ==
    [id \in {ps[i].id : i \in DOMAIN ps} |->
        ps[CHOOSE i \in DOMAIN ps : ps[i].id = id].connection]

Abstract == INSTANCE Seats WITH roster <- Denotes(players)

\* The vector implements the abstract list: the loop over the indices finds the
\* least unused id although players come and go in any order.
ImplementsSeats == Abstract!Spec

\* std::is_sorted, which getNextPlayerId asserts and rests on, holds between
\* any two operations, and no id is there twice.
Sorted ==
    /\ TypeOK
    /\ \A i, j \in DOMAIN players : i < j => IdCompare(players[i], players[j])

\* Front and lookup agree with the abstract list: the first element is the
\* master, and an id is found exactly if a player has it.
LookupsAgree ==
    LET list == Denotes(players)
    IN  \A id \in 0 .. MaxPlayers - 1 :
            /\ IsPlayerMaster(players, id) <=> Abstract!IsPlayerMaster(list, id)
            /\ GetPlayerIndexById(players, id) <= Len(players) <=> id \in DOMAIN list
=============================================================================

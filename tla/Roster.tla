------------------------------- MODULE Roster -------------------------------
(***************************************************************************)
(* The player list of one lobby (struct Lobby in LobbySession.hpp).        *)
(*                                                                         *)
(* The code keeps a std::vector<Player> sorted by id.  Ids in it are       *)
(* unique, so the vector is modelled by what it denotes: a function from   *)
(* the ids in use to the connection that holds the id.  Iterating over the *)
(* vector is iterating over the domain in increasing order.  The module    *)
(* LobbyVector has the vector itself, with its sort and its erase, and     *)
(* implements the list of module Seats, which is made of the operators     *)
(* below.                                                                  *)
(***************************************************************************)
EXTENDS Naturals, FiniteSets

CONSTANT MaxPlayers   \* Lobby::maxPlayers, 255 in the code

ASSUME MaxPlayersAssumption == MaxPlayers \in Nat \ {0}

\* Player::Id is an uint8_t, and ids are handed out below maxPlayers.
Ids == 0 .. (MaxPlayers - 1)

\* The player lists over a set C of connections.
Rosters(C) == UNION { [D -> C] : D \in SUBSET Ids }

EmptyRoster == [i \in {} |-> i]

Size(R) == Cardinality(DOMAIN R)

\* Mutant of CanJoin: the lock is not asked for.
CanJoinLocked(R, isLocked) == Size(R) < MaxPlayers

\* Lobby::canJoin
CanJoin(R, isLocked) == ~isLocked /\ Size(R) < MaxPlayers

\* Mutant of NextPlayerId: without a gap the first id is returned again.
NextPlayerIdOrFirst(R) ==
    IF \E i \in DOMAIN R : i >= Size(R)
    THEN CHOOSE i \in 0 .. MaxPlayers : i \notin DOMAIN R
    ELSE 0

\* Lobby::getNextPlayerId: the first index whose player has another id, or
\* the size of the list if there is no such gap, i.e. the least unused id.
NextPlayerId(R) ==
    CHOOSE i \in 0 .. MaxPlayers :
        /\ i \notin DOMAIN R
        /\ \A j \in 0 .. (i - 1) : j \in DOMAIN R

\* Lobby::addPlayer, with the sort that puts the new player in its place.
AddPlayer(R, c) ==
    LET id == NextPlayerId(R)
    IN  [i \in DOMAIN R \cup {id} |-> IF i = id THEN c ELSE R[i]]

\* Mutant of RemovePlayer: the index of a player is taken for its id.
RemovePlayerAndShift(R, id) ==
    [i \in 0 .. (Size(R) - 2) |-> IF i < id THEN R[i] ELSE R[i + 1]]

\* Lobby::removePlayer, for an id that is in the list.
RemovePlayer(R, id) == [i \in DOMAIN R \ {id} |-> R[i]]

\* Lobby::isPlayerMaster: the first element of the sorted list is master.
IsPlayerMaster(R, id) ==
    /\ id \in DOMAIN R
    /\ \A j \in DOMAIN R : id <= j

=============================================================================

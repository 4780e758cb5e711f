-------------------------------- MODULE Seats --------------------------------
(***************************************************************************)
(* What a lobby promises about its player list: a new player gets the      *)
(* least id that is not in use, whoever leaves gives up his own id only,   *)
(* and the master is the player with the least id.                         *)
(***************************************************************************)
EXTENDS Roster

CONSTANT Connections

VARIABLE roster   \* the players: a function from ids to connections

Init == roster = EmptyRoster

Enter(c) ==
    /\ CanJoin(roster, FALSE)
    /\ roster' = AddPlayer(roster, c)

Leave(id) ==
    /\ id \in DOMAIN roster
    /\ roster' = RemovePlayer(roster, id)

Next ==
    \/ \E c \in Connections : Enter(c)
    \/ \E id \in Ids : Leave(id)

Spec == Init /\ [][Next]_roster
=============================================================================

------------------------------- MODULE IdOrder -------------------------------
(***************************************************************************)
(* Sequences of records that are sorted by their field id: Lobby::players  *)
(* after std::sort, and net.players after table.sort.                      *)
(***************************************************************************)
EXTENDS Integers, Sequences, FiniteSets

\* Player::idCompare, and the comparison that net.lua hands to table.sort.
IdCompare(a, b) == a.id < b.id

\* Mutant of Sort: none.
NoSort(ps) == ps

\* A player has as many in front of it as are before it; the order of players
\* with the same id, which there never are, is left alone.
Before(ps, i, j) == IdCompare(ps[i], ps[j]) \/ (ps[i].id = ps[j].id /\ i < j)
Places(ps) ==
    [i \in DOMAIN ps |-> Cardinality({j \in DOMAIN ps : Before(ps, j, i)}) + 1]

Sort(ps) ==
    LET place == Places(ps)
    IN  [k \in DOMAIN ps |-> ps[CHOOSE i \in DOMAIN ps : place[i] = k]]
=============================================================================

------------------------------ MODULE Registry ------------------------------
(***************************************************************************)
(* What LobbyContext promises to the sessions: createLobby and getLobby    *)
(* happen at one moment between call and return.  createLobby gives the    *)
(* session a new lobby, with a name no lobby ever had; getLobby gives it   *)
(* the lobby of that name, if somebody is in it.                           *)
(***************************************************************************)
EXTENDS Naturals, Sequences

CONSTANTS
    Sessions,   \* who calls
    Names       \* the names a lobby can have

VARIABLES
    made,    \* the names of the lobbies that were made, by number
    held,    \* the lobby a session has, 0 for none
    call     \* the call a session is in

vars == <<made, held, call>>

Init ==
    /\ made = <<>>
    /\ held = [s \in Sessions |-> 0]
    /\ call = [s \in Sessions |-> [op |-> "none"]]

Held(lobby) == \E s \in Sessions : held[s] = lobby
Return(s) == call' = [call EXCEPT ![s] = [op |-> "none"]]

Call(s, c) ==
    /\ call[s].op = "none"
    /\ call' = [call EXCEPT ![s] = c]
    /\ UNCHANGED <<made, held>>

Create(s, n) ==
    /\ call[s].op = "create" /\ Return(s)
    /\ \A lobby \in DOMAIN made : made[lobby] # n
    /\ made' = Append(made, n)
    /\ held' = [held EXCEPT ![s] = Len(made) + 1]

Get(s) ==
    /\ call[s].op = "get" /\ Return(s)
    /\ \/ \E lobby \in DOMAIN made :
              /\ made[lobby] = call[s].name /\ Held(lobby)
              /\ held' = [held EXCEPT ![s] = lobby]
       \/ /\ \A lobby \in DOMAIN made : made[lobby] = call[s].name => ~Held(lobby)
          /\ held' = [held EXCEPT ![s] = 0]
    /\ UNCHANGED made

Leave(s) ==
    /\ call[s].op = "none"
    /\ held' = [held EXCEPT ![s] = 0]
    /\ UNCHANGED <<made, call>>

Next == \E s \in Sessions :
    \/ Call(s, [op |-> "create"])
    \/ \E n \in Names : Call(s, [op |-> "get", name |-> n])
    \/ \E n \in Names : Create(s, n)
    \/ Get(s)
    \/ Leave(s)

Spec == Init /\ [][Next]_vars
=============================================================================

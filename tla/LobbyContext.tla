---------------------------- MODULE LobbyContext ----------------------------
(***************************************************************************)
(* Lobby names and the registry: getRandomLobbyName draws from the tables  *)
(* of words.cpp until createLobby has a name that is not a key of          *)
(* lobbies_, getLobby looks a name up.  LobbySession has each of the two   *)
(* as one step under mutex_; here they are the steps they consist of.      *)
(***************************************************************************)
EXTENDS Naturals, Sequences, Functions

CONSTANTS
    Sessions,   \* the sessions that call createLobby and getLobby
    MaxCalls    \* bound of the model: calls

ASSUME ContextAssumption == MaxCalls \in Nat

VARIABLES
    lobbies_,   \* LobbyContext::lobbies_, from names to lobbies
    lobbyName,  \* Lobby::name of the lobbies that were made, by number
    lobby_,     \* the lobby a session holds, 0 for nullptr
    at,         \* where in a call the session is
    name,       \* the local variable name of createLobby, or the argument of getLobby
    calls       \* calls so far

vars == <<lobbies_, lobbyName, lobby_, at, name, calls>>
-----------------------------------------------------------------------------
(* words.cpp, util.hpp                                                     *)

\* The tables, cut down to what counts: every word begins with its only capital,
\* some words are in a table twice, some in both, and one word may begin
\* another.  (849 adjectives, 846 different ones, and 1738 nouns, 1715 different
\* ones, of 3 to 14 letters.)
adjectives == << <<"A">>, <<"A">>, <<"A", "b">> >>
nouns == << <<"A">>, <<"A">>, <<"B", "b">> >>

\* Mutant of RandomChoice: size() - 1 is taken for the size.
RandomChoiceButLast(container) == {container[idx] : idx \in 1 .. Len(container) - 1}

\* randomChoice: the element at a random index of 0 to size() - 1.
RandomChoice(container) == {container[idx + 1] : idx \in 0 .. Len(container) - 1}

\* getRandomLobbyName
RandomLobbyName == {a \o n : a \in RandomChoice(adjectives), n \in RandomChoice(nouns)}

\* The names there are: all pairs of words.
Names == {a \o n : a \in Range(adjectives), n \in Range(nouns)}

\* toLower returns its argument: to_lower_copy returns the lower-case copy, which
\* is dropped.
ToLower(str) == str
-----------------------------------------------------------------------------
Init ==
    /\ lobbies_ = <<>>
    /\ lobbyName = <<>>
    /\ lobby_ = [s \in Sessions |-> 0]
    /\ at = [s \in Sessions |-> "idle"]
    /\ name = [s \in Sessions |-> <<>>]
    /\ calls = 0

\* Somebody holds a shared_ptr to the lobby; else the weak_ptr has expired.
Live(lobby) == \E s \in Sessions : lobby_[s] = lobby

Goto(s, from, to) == at[s] = from /\ at' = [at EXCEPT ![s] = to]

Call(s, to) ==
    /\ calls < MaxCalls
    /\ calls' = calls + 1
    /\ Goto(s, "idle", to)

CallCreateLobby(s) ==
    /\ Call(s, "create")
    /\ UNCHANGED <<lobbies_, lobbyName, lobby_, name>>

CallGetLobby(s) ==
    /\ Call(s, "get")
    /\ \E n \in Names : name' = [name EXCEPT ![s] = n]
    /\ UNCHANGED <<lobbies_, lobbyName, lobby_>>

\* The session gives up its lobby: processLeaveLobby, or it is destroyed.
Reset(s) ==
    /\ at[s] = "idle" /\ lobby_[s] # 0
    /\ lobby_' = [lobby_ EXCEPT ![s] = 0]
    /\ UNCHANGED <<lobbies_, lobbyName, at, name, calls>>
-----------------------------------------------------------------------------
(* createLobby                                                             *)

\* Mutant of UniqueFree: mutex_ is not locked.
NoLock == TRUE

\* mutex_ can be locked unique, or shared.
UniqueFree == \A t \in Sessions : at[t] \in {"idle", "create", "get"}
SharedFree == \A t \in Sessions : at[t] \notin {"draw", "check", "add"}

LockUnique(s) ==
    /\ UniqueFree
    /\ Goto(s, "create", "draw")
    /\ UNCHANGED <<lobbies_, lobbyName, lobby_, name, calls>>

\* name = getRandomLobbyName()
Draw(s, n) ==
    /\ n \in RandomLobbyName
    /\ Goto(s, "draw", "check")
    /\ name' = [name EXCEPT ![s] = n]
    /\ UNCHANGED <<lobbies_, lobbyName, lobby_, calls>>

\* Mutant of Check: a name whose lobby has expired is taken for free.
CheckLive(s) ==
    /\ Goto(s, "check", IF /\ ToLower(name[s]) \in DOMAIN lobbies_
                          /\ Live(lobbies_[ToLower(name[s])]) THEN "draw" ELSE "add")
    /\ UNCHANGED <<lobbies_, lobbyName, lobby_, name, calls>>

\* The condition of the loop.
Check(s) ==
    /\ Goto(s, "check", IF ToLower(name[s]) \in DOMAIN lobbies_ THEN "draw" ELSE "add")
    /\ UNCHANGED <<lobbies_, lobbyName, lobby_, name, calls>>

\* make_shared, emplace, which leaves a key that is there alone, and the
\* assignment to lobby_.
Add(s) ==
    LET lobby == Len(lobbyName) + 1
        key == ToLower(name[s])
    IN  /\ Goto(s, "add", "idle")
        /\ lobbyName' = Append(lobbyName, name[s])
        /\ lobbies_' = [k \in DOMAIN lobbies_ \cup {key} |->
                           IF k \in DOMAIN lobbies_ THEN lobbies_[k] ELSE lobby]
        /\ lobby_' = [lobby_ EXCEPT ![s] = lobby]
        /\ UNCHANGED <<name, calls>>
-----------------------------------------------------------------------------
(* getLobby                                                                *)

LockShared(s) ==
    /\ SharedFree
    /\ Goto(s, "get", "find")
    /\ UNCHANGED <<lobbies_, lobbyName, lobby_, name, calls>>

\* it->second.lock(), nullptr if there is no entry or it has expired.
Found(key) ==
    IF key \in DOMAIN lobbies_ /\ Live(lobbies_[key]) THEN lobbies_[key] ELSE 0

Find(s) ==
    /\ Goto(s, "find", "idle")
    /\ lobby_' = [lobby_ EXCEPT ![s] = Found(ToLower(name[s]))]
    /\ UNCHANGED <<lobbies_, lobbyName, name, calls>>
-----------------------------------------------------------------------------
Continue(s) ==
    \/ LockUnique(s)
    \/ \E n \in Names : Draw(s, n)
    \/ Check(s)
    \/ Add(s)
    \/ LockShared(s)
    \/ Find(s)

Next == \E s \in Sessions :
    CallCreateLobby(s) \/ CallGetLobby(s) \/ Reset(s) \/ Continue(s)

Spec == Init /\ [][Next]_vars

\* Threads get on; and if names are drawn for ever one that is not in use is
\* drawn at some time, if there is one, the choice being random.
FairSpec ==
    /\ Spec
    /\ \A s \in Sessions :
           /\ WF_vars(Continue(s))
           /\ SF_vars(\E n \in Names \ DOMAIN lobbies_ : Draw(s, n))
-----------------------------------------------------------------------------
\* A lobby somebody is in is found under its name, and it is the only live one
\* that has it: two creators never come by the same name, not even that of a
\* lobby which has expired.
LiveLobbiesFound ==
    \A lobby \in DOMAIN lobbyName :
        /\ Live(lobby) => Found(ToLower(lobbyName[lobby])) = lobby
        /\ \A other \in DOMAIN lobbyName :
               lobbyName[other] = lobbyName[lobby] => other = lobby

\* The call a session is in, for Registry.
Calling(s) ==
    IF at[s] = "idle" THEN [op |-> "none"]
    ELSE IF at[s] \in {"get", "find"} THEN [op |-> "get", name |-> name[s]]
    ELSE [op |-> "create"]
Atomic == INSTANCE Registry WITH
    made <- lobbyName, held <- lobby_, call <- [s \in Sessions |-> Calling(s)]

\* Draws, checks and steps of other calls may come between, but createLobby and
\* getLobby appear to happen at once: LobbySession may have them as one step.
ImplementsRegistry == Atomic!Spec

\* createLobby returns as long as there is a pair of words left that no lobby
\* ever had; after that everybody who calls it or getLobby waits for good.
NamesUsedUp == Names \subseteq DOMAIN lobbies_
CreateReturns ==
    \A s \in Sessions : at[s] # "idle" ~> at[s] = "idle" \/ NamesUsedUp
=============================================================================

------------------------ MODULE LobbyContextTheorems ------------------------
(***************************************************************************)
(* Theorems about LobbyContext, for any number of sessions and calls and   *)
(* whatever names are drawn: the names lead to the lobbies that have them, *)
(* one each, and createLobby and getLobby appear to happen at once.  They  *)
(* rest on mutex_: between the check of a name and the emplace nobody adds *)
(* one.                                                                    *)
(***************************************************************************)
EXTENDS LobbyContext, TLAPS

Phases == {"idle", "create", "get", "draw", "check", "add", "find"}

Typed ==
    /\ lobbyName \in Seq(Names \cup {<<>>})
    /\ lobby_ \in [Sessions -> 0 .. Len(lobbyName)]
    /\ at \in [Sessions -> Phases]
    /\ name \in [Sessions -> Names \cup {<<>>}]

\* lobbies_ has an entry for every lobby that was made, under its name, and no
\* other.
Registered ==
    \A lobby \in DOMAIN lobbyName :
        /\ lobbyName[lobby] \in DOMAIN lobbies_
        /\ lobbies_[lobbyName[lobby]] = lobby
NoOther ==
    \A key \in DOMAIN lobbies_ :
        /\ lobbies_[key] \in DOMAIN lobbyName
        /\ lobbyName[lobbies_[key]] = key

\* mutex_: who holds it unique holds it alone.
Exclusive ==
    \A s, t \in Sessions :
        at[s] \in {"draw", "check", "add"} /\ at[t] \in {"draw", "check", "add", "find"}
            => s = t

\* A name that was drawn or is asked for is one there is; the one that left the
\* loop is still free.
NameKnown ==
    \A s \in Sessions : at[s] \in {"check", "add", "get", "find"} => name[s] \in Names
NameFree == \A s \in Sessions : at[s] = "add" => name[s] \notin DOMAIN lobbies_

Registry == Typed /\ Registered /\ NoOther /\ Exclusive /\ NameKnown /\ NameFree

\* The constructor.
LEMMA RegistryInit == Init => Registry
BY DEF Init, Registry, Typed, Registered, NoOther,
              Exclusive, NameKnown, NameFree, Phases

\* createLobby and getLobby begin, and a session gives up its lobby.
LEMMA CallsKeepRegistry ==
    ASSUME Registry, NEW s \in Sessions,
           CallCreateLobby(s) \/ CallGetLobby(s) \/ Reset(s)
    PROVE  Registry'
<1> USE DEF Registry, Typed, Phases
<1>1. CASE CallCreateLobby(s)
  BY <1>1 DEF CallCreateLobby, Call, Goto, Registered, NoOther,
              Exclusive, NameKnown, NameFree
<1>2. CASE CallGetLobby(s)
  <2>1. Typed'
    BY <1>2 DEF CallGetLobby, Call, Goto
  <2>2. Exclusive' /\ Registered' /\ NoOther'
    BY <1>2 DEF CallGetLobby, Call, Goto, Exclusive, Registered, NoOther
  <2>3. NameKnown' /\ NameFree'
    BY <1>2 DEF CallGetLobby, Call, Goto, NameKnown, NameFree
  <2> QED
    BY <2>1, <2>2, <2>3
<1>3. CASE Reset(s)
  BY <1>3 DEF Reset, Registered, NoOther,
              Exclusive, NameKnown, NameFree
<1> QED
  BY <1>1, <1>2, <1>3

\* The steps under mutex_ that leave lobbies_ alone.
LEMMA LockedStepsKeepRegistry ==
    ASSUME Registry, NEW s \in Sessions,
           LockUnique(s) \/ (\E n \in Names : Draw(s, n)) \/ Check(s) \/ LockShared(s)
    PROVE  Registry'
<1> USE DEF Registry, Typed, Phases, Goto
<1>1. CASE LockUnique(s)
  BY <1>1 DEF LockUnique, UniqueFree, Registered, NoOther,
              Exclusive, NameKnown, NameFree
<1>2. ASSUME NEW n \in Names, Draw(s, n) PROVE Registry'
  <2>1. Typed'
    BY <1>2 DEF Draw
  <2>2. Exclusive' /\ Registered' /\ NoOther'
    BY <1>2 DEF Draw, Exclusive, Registered, NoOther
  <2>3. NameKnown' /\ NameFree'
    BY <1>2 DEF Draw, NameKnown, NameFree
  <2> QED
    BY <2>1, <2>2, <2>3
<1>3. CASE Check(s)
  <2>1. Typed' /\ Registered' /\ NoOther'
    BY <1>3 DEF Check, Registered, NoOther
  <2>2. Exclusive'
    BY <1>3 DEF Check, Exclusive
  <2>3. NameKnown' /\ NameFree'
    BY <1>3 DEF Check, NameKnown, NameFree, ToLower
  <2> QED
    BY <2>1, <2>2, <2>3
<1>4. CASE LockShared(s)
  BY <1>4 DEF LockShared, SharedFree, Registered, NoOther,
              Exclusive, NameKnown, NameFree
<1> QED
  BY <1>1, <1>2, <1>3, <1>4

\* emplace adds the entry of a name that has none; no other session is between
\* its check and its emplace.
LEMMA AddKeepsRegistry ==
    ASSUME Registry, NEW s \in Sessions, Add(s)
    PROVE  Registry'
<1> DEFINE new == Len(lobbyName) + 1
<1> USE DEF Registry, Typed
<1>1. /\ at[s] = "add" /\ at' = [at EXCEPT ![s] = "idle"]
      /\ lobbyName' = Append(lobbyName, name[s])
      /\ lobbies_' = [k \in DOMAIN lobbies_ \cup {name[s]} |->
                         IF k \in DOMAIN lobbies_ THEN lobbies_[k] ELSE new]
      /\ lobby_' = [lobby_ EXCEPT ![s] = new]
      /\ name' = name
  BY DEF Add, Goto, ToLower
<1>2. name[s] \notin DOMAIN lobbies_
  BY <1>1 DEF NameFree
<1>3. /\ lobbyName' \in Seq(Names \cup {<<>>})
      /\ Len(lobbyName') = new
      /\ \A l \in 1 .. new :
             lobbyName'[l] = IF l = new THEN name[s] ELSE lobbyName[l]
  BY <1>1
<1>4. lobby_' \in [Sessions -> 0 .. Len(lobbyName')]
  BY <1>1, <1>3
<1>5. Typed'
  BY <1>1, <1>3, <1>4 DEF Phases
<1>6. Registered'
  <2> SUFFICES ASSUME NEW l \in 1 .. new
               PROVE  /\ lobbyName'[l] \in DOMAIN lobbies_'
                      /\ lobbies_'[lobbyName'[l]] = l
    BY <1>3 DEF Registered
  <2>1. CASE l = new
    BY <1>1, <1>2, <1>3, <2>1
  <2>2. CASE l # new
    <3>1. l \in DOMAIN lobbyName
      BY <2>2
    <3> QED
      BY <1>1, <1>3, <2>2, <3>1 DEF Registered
  <2> QED
    BY <2>1, <2>2
<1>7. NoOther'
  <2> SUFFICES ASSUME NEW key \in DOMAIN lobbies_ \cup {name[s]}
               PROVE  /\ lobbies_'[key] \in 1 .. new
                      /\ lobbyName'[lobbies_'[key]] = key
    BY <1>1, <1>3 DEF NoOther
  <2>1. CASE key = name[s]
    BY <1>1, <1>2, <1>3, <2>1
  <2>2. CASE key # name[s]
    <3>1. key \in DOMAIN lobbies_ /\ lobbies_[key] \in 1 .. Len(lobbyName)
      BY <2>2 DEF NoOther
    <3>2. lobbies_'[key] = lobbies_[key] /\ lobbies_[key] # new
      BY <1>1, <3>1
    <3> QED
      BY <1>3, <3>1, <3>2 DEF NoOther
  <2> QED
    BY <2>1, <2>2
<1>8. Exclusive' /\ NameKnown'
  BY <1>1 DEF Exclusive, NameKnown
<1>9. NameFree'
  <2> SUFFICES ASSUME NEW t \in Sessions, at'[t] = "add"
               PROVE  FALSE
    BY DEF NameFree
  <2>1. t # s /\ at[t] = "add"
    BY <1>1
  <2> QED
    BY <1>1, <2>1 DEF Exclusive
<1> QED
  BY <1>5, <1>6, <1>7, <1>8, <1>9

\* getLobby returns a lobby there is, or none.
LEMMA FoundIsALobby ==
    ASSUME Registry, NEW key
    PROVE  Found(key) \in 0 .. Len(lobbyName)
<1>1. CASE key \in DOMAIN lobbies_ /\ Live(lobbies_[key])
  BY <1>1 DEF Found, Live, Registry, Typed
<1>2. CASE ~(key \in DOMAIN lobbies_ /\ Live(lobbies_[key]))
  BY <1>2 DEF Found, Registry, Typed
<1> QED
  BY <1>1, <1>2

LEMMA FindKeepsRegistry ==
    ASSUME Registry, NEW s \in Sessions, Find(s)
    PROVE  Registry'
<1>1. Found(ToLower(name[s])) \in 0 .. Len(lobbyName)
  BY FoundIsALobby
<1> QED
  BY <1>1 DEF Find, Goto, Registry, Typed, Phases, Registered, NoOther,
              Exclusive, NameKnown, NameFree

LEMMA RegistryInductive == Registry /\ [Next]_vars => Registry'
<1> SUFFICES ASSUME Registry, [Next]_vars PROVE Registry'
  OBVIOUS
<1>1. ASSUME NEW s \in Sessions, CallCreateLobby(s) \/ CallGetLobby(s) \/ Reset(s)
      PROVE  Registry'
  BY <1>1, CallsKeepRegistry
<1>2. ASSUME NEW s \in Sessions, Continue(s) PROVE Registry'
  BY <1>2, LockedStepsKeepRegistry, AddKeepsRegistry, FindKeepsRegistry DEF Continue
<1>3. CASE UNCHANGED vars
  BY <1>3 DEF vars, Registry, Typed, Registered, NoOther,
              Exclusive, NameKnown, NameFree
<1> QED
  BY <1>1, <1>2, <1>3 DEF Next

\* Whoever is in a lobby can be joined: its name leads to it.  Two lobbies never
\* share one, although the names of expired ones are taken for good.
THEOREM NamesLeadToLobbies == Spec => []LiveLobbiesFound
<1>1. Registry => LiveLobbiesFound
  <2> SUFFICES ASSUME Registry, NEW lobby \in DOMAIN lobbyName
               PROVE  /\ Live(lobby) => Found(ToLower(lobbyName[lobby])) = lobby
                      /\ \A other \in DOMAIN lobbyName :
                             lobbyName[other] = lobbyName[lobby] => other = lobby
    BY DEF LiveLobbiesFound
  <2>1. lobbyName[lobby] \in DOMAIN lobbies_ /\ lobbies_[lobbyName[lobby]] = lobby
    BY DEF Registry, Registered
  <2>2. Live(lobby) => Found(ToLower(lobbyName[lobby])) = lobby
    BY <2>1 DEF Found, ToLower
  <2>3. \A other \in DOMAIN lobbyName :
            lobbyName[other] = lobbyName[lobby] => other = lobby
    BY <2>1 DEF Registry, Registered
  <2> QED
    BY <2>2, <2>3
<1> QED
  BY <1>1, RegistryInit, RegistryInductive, PTL DEF Spec

-----------------------------------------------------------------------------
(* createLobby and getLobby are atomic                                     *)

Calls == [s \in Sessions |-> Calling(s)]

\* The call a session is in changes with where it is.
LEMMA CallsFollow ==
    ASSUME NEW s \in Sessions, NEW to,
           at \in [Sessions -> Phases], name \in [Sessions -> Names \cup {<<>>}],
           at' = [at EXCEPT ![s] = to],
           name' = name \/ \E n \in Names : name' = [name EXCEPT ![s] = n]
    PROVE  Calls' = [Calls EXCEPT ![s] =
               IF to = "idle" THEN [op |-> "none"]
               ELSE IF to \in {"get", "find"} THEN [op |-> "get", name |-> name'[s]]
               ELSE [op |-> "create"]]
<1>1. \A t \in Sessions \ {s} : at'[t] = at[t] /\ name'[t] = name[t]
  OBVIOUS
<1>2. at'[s] = to
  OBVIOUS
<1> QED
  BY <1>1, <1>2, Zenon DEF Calls, Calling

\* The initial registry.
LEMMA AtomicInit == Init => Atomic!Init
BY DEF Init, Atomic!Init, Calling

\* A call begins, or a session leaves its lobby.
LEMMA CallsAreCalls ==
    ASSUME Registry, NEW s \in Sessions,
           CallCreateLobby(s) \/ CallGetLobby(s) \/ Reset(s)
    PROVE  Atomic!Next
<1> USE DEF Registry, Typed
<1>1. CASE CallCreateLobby(s)
  <2>1. at' = [at EXCEPT ![s] = "create"] /\ name' = name /\ at[s] = "idle"
    BY <1>1 DEF CallCreateLobby, Call, Goto
  <2>2. Calls' = [Calls EXCEPT ![s] = [op |-> "create"]]
    <3>1. Calls' = [Calls EXCEPT ![s] =
              IF "create" = "idle" THEN [op |-> "none"]
              ELSE IF "create" \in {"get", "find"} THEN [op |-> "get", name |-> name'[s]]
              ELSE [op |-> "create"]]
      BY <2>1, CallsFollow, Zenon
    <3> QED
      BY <3>1
  <2>3. Calls[s].op = "none"
    BY <2>1 DEF Calls, Calling
  <2>4. Atomic!Call(s, [op |-> "create"])
    BY <1>1, <2>2, <2>3 DEF CallCreateLobby, Atomic!Call, Calls
  <2> QED
    BY <2>4 DEF Atomic!Next
<1>2. CASE CallGetLobby(s)
  <2>1. PICK n \in Names : name' = [name EXCEPT ![s] = n]
    BY <1>2 DEF CallGetLobby
  <2>2. at' = [at EXCEPT ![s] = "get"] /\ at[s] = "idle"
    BY <1>2 DEF CallGetLobby, Call, Goto
  <2>3. Calls' = [Calls EXCEPT ![s] = [op |-> "get", name |-> n]]
    BY <2>1, <2>2, CallsFollow
  <2>4. Calls[s].op = "none"
    BY <2>2 DEF Calls, Calling
  <2>5. Atomic!Call(s, [op |-> "get", name |-> n])
    BY <1>2, <2>3, <2>4 DEF CallGetLobby, Atomic!Call, Calls
  <2> QED
    BY <2>5 DEF Atomic!Next
<1>3. CASE Reset(s)
  <2>1. at[s] = "idle" /\ at' = at /\ name' = name
    BY <1>3 DEF Reset
  <2>2. Calls' = Calls
    BY <2>1 DEF Calls, Calling
  <2>3. Calls[s].op = "none"
    BY <2>1 DEF Calls, Calling
  <2>4. Atomic!Leave(s)
    BY <1>3, <2>2, <2>3 DEF Reset, Atomic!Leave, Calls
  <2> QED
    BY <2>4 DEF Atomic!Next
<1> QED
  BY <1>1, <1>2, <1>3

\* What a call does before its last step nobody sees.
LEMMA LockedStepsStutter ==
    ASSUME Registry, NEW s \in Sessions,
           LockUnique(s) \/ (\E n \in Names : Draw(s, n)) \/ Check(s) \/ LockShared(s)
    PROVE  lobbyName' = lobbyName /\ lobby_' = lobby_ /\ Calls' = Calls
<1> USE DEF Registry, Typed
<1>1. lobbyName' = lobbyName /\ lobby_' = lobby_
  BY DEF LockUnique, Draw, Check, LockShared
<1>2. CASE LockUnique(s) \/ Check(s) \/ LockShared(s)
  <2>1. \A t \in Sessions : Calling(t)' = Calling(t)
    BY <1>2 DEF LockUnique, Check, LockShared, Goto, Calling
  <2> QED
    BY <1>1, <2>1 DEF Calls
<1>3. ASSUME NEW n \in Names, Draw(s, n) PROVE Calls' = Calls
  <2>1. \A t \in Sessions : Calling(t)' = Calling(t)
    BY <1>3 DEF Draw, Goto, Calling
  <2> QED
    BY <2>1 DEF Calls
<1> QED
  BY <1>1, <1>2, <1>3

\* emplace is where a lobby comes to be.
LEMMA AddIsCreate ==
    ASSUME Registry, NEW s \in Sessions, Add(s)
    PROVE  Atomic!Next
<1> USE DEF Registry, Typed
<1>1. /\ at[s] = "add" /\ at' = [at EXCEPT ![s] = "idle"] /\ name' = name
      /\ lobbyName' = Append(lobbyName, name[s])
      /\ lobby_' = [lobby_ EXCEPT ![s] = Len(lobbyName) + 1]
  BY DEF Add, Goto
<1>2. Calls' = [Calls EXCEPT ![s] = [op |-> "none"]] /\ Calls[s].op = "create"
  <2>1. Calls' = [Calls EXCEPT ![s] = [op |-> "none"]]
    BY <1>1, CallsFollow
  <2>2. Calls[s].op = "create"
    BY <1>1 DEF Calls, Calling
  <2> QED
    BY <2>1, <2>2
<1>3. name[s] \in Names /\ \A lobby \in DOMAIN lobbyName : lobbyName[lobby] # name[s]
  BY <1>1 DEF NameKnown, NameFree, Registered
<1>4. Atomic!Create(s, name[s])
  BY <1>1, <1>2, <1>3 DEF Atomic!Create, Atomic!Return, Calls
<1> QED
  BY <1>3, <1>4 DEF Atomic!Next

\* The find under the shared lock is what getLobby returns.
LEMMA FindIsGet ==
    ASSUME Registry, NEW s \in Sessions, Find(s)
    PROVE  Atomic!Next
<1> USE DEF Registry, Typed
<1> DEFINE key == name[s]
<1>1. /\ at[s] = "find" /\ at' = [at EXCEPT ![s] = "idle"] /\ name' = name
      /\ lobbyName' = lobbyName
      /\ lobby_' = [lobby_ EXCEPT ![s] = Found(key)]
  BY DEF Find, Goto, ToLower
<1>2. Calls' = [Calls EXCEPT ![s] = [op |-> "none"]]
  BY <1>1, CallsFollow
<1>3. Calls[s].op = "get" /\ Calls[s].name = key
  BY <1>1 DEF Calls, Calling
<1>4. \/ \E lobby \in DOMAIN lobbyName :
             lobbyName[lobby] = key /\ Live(lobby) /\ Found(key) = lobby
      \/ /\ \A lobby \in DOMAIN lobbyName : lobbyName[lobby] = key => ~Live(lobby)
         /\ Found(key) = 0
  <2>1. CASE key \in DOMAIN lobbies_ /\ Live(lobbies_[key])
    BY <2>1 DEF NoOther, Found
  <2>2. CASE ~(key \in DOMAIN lobbies_ /\ Live(lobbies_[key]))
    <3>1. \A lobby \in DOMAIN lobbyName : lobbyName[lobby] = key => ~Live(lobby)
      BY <2>2 DEF Registered
    <3>2. Found(key) = 0
      BY <2>2 DEF Found
    <3> QED
      BY <3>1, <3>2
  <2> QED
    BY <2>1, <2>2
<1>5. Atomic!Get(s)
  BY <1>1, <1>2, <1>3, <1>4 DEF Atomic!Get, Atomic!Return, Atomic!Held, Live, Calls
<1> QED
  BY <1>5 DEF Atomic!Next

\* So LobbyContext is the registry the sessions rely on: although a call takes
\* many steps and waits for mutex_, it happens at one moment.
THEOREM ContextImplementsRegistry == Spec => ImplementsRegistry
<1>1. Registry /\ [Next]_vars => [Atomic!Next]_(Atomic!vars)
  <2> SUFFICES ASSUME Registry, [Next]_vars
               PROVE  Atomic!Next \/ (lobbyName' = lobbyName /\ lobby_' = lobby_ /\ Calls' = Calls)
    BY DEF Atomic!vars, Calls
  <2>1. ASSUME NEW s \in Sessions, CallCreateLobby(s) \/ CallGetLobby(s) \/ Reset(s)
        PROVE  Atomic!Next
    BY <2>1, CallsAreCalls
  <2>2. ASSUME NEW s \in Sessions, Add(s) \/ Find(s) PROVE Atomic!Next
    BY <2>2, AddIsCreate, FindIsGet
  <2>3. ASSUME NEW s \in Sessions,
               LockUnique(s) \/ (\E n \in Names : Draw(s, n)) \/ Check(s) \/ LockShared(s)
        PROVE  lobbyName' = lobbyName /\ lobby_' = lobby_ /\ Calls' = Calls
    BY <2>3, LockedStepsStutter
  <2>4. CASE UNCHANGED vars
    BY <2>4 DEF vars, Calls, Calling
  <2> QED
    BY <2>1, <2>2, <2>3, <2>4 DEF Next, Continue
<1> QED
  BY <1>1, AtomicInit, RegistryInit, RegistryInductive, PTL
     DEF Spec, ImplementsRegistry, Atomic!Spec
=============================================================================

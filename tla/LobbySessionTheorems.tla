------------------------ MODULE LobbySessionTheorems ------------------------
(***************************************************************************)
(* What the lobby server guarantees to any clients, for every number of    *)
(* connections, names, threads and players.  The inductive invariant is    *)
(* IInv of LobbySession: the types, what a handler may count on where it   *)
(* is, and who holds which mutex.                                          *)
(***************************************************************************)
EXTENDS LobbySession, FiniteSetTheorems, WellFoundedInduction, TLAPS

-----------------------------------------------------------------------------
(* Player lists: what the operators of Roster guarantee                    *)

\* Every non-empty set of natural numbers has a least element.
LEMMA LeastElement ==
    ASSUME NEW T, T \subseteq Nat, T # {}
    PROVE  \E x \in T : \A y \in T : x <= y
<1>1. PICK x \in T : \A y \in T : ~ (<<y, x>> \in OpToRel(<, Nat))
  BY NatLessThanWellFounded, WFMin
<1>2. \A y \in T : ~(y < x)
  BY <1>1 DEF OpToRel
<1>3. QED
  BY <1>2

\* There are MaxPlayers ids.
LEMMA IdsCardinality == IsFiniteSet(Ids) /\ Cardinality(Ids) = MaxPlayers
BY FS_Interval, MaxPlayersAssumption, SMT DEF Ids

\* A list is finite, with at most MaxPlayers players, and less when an id is
\* not in use.
LEMMA RosterSize ==
    ASSUME NEW C, NEW R \in Rosters(C)
    PROVE  /\ DOMAIN R \subseteq Ids
           /\ R \in [DOMAIN R -> C]
           /\ IsFiniteSet(DOMAIN R)
           /\ Size(R) \in Nat
           /\ Size(R) <= MaxPlayers
           /\ Size(R) = MaxPlayers <=> DOMAIN R = Ids
<1>1. PICK D \in SUBSET Ids : R \in [D -> C]
  BY DEF Rosters
<1>2. DOMAIN R = D /\ DOMAIN R \in SUBSET Ids /\ R \in [DOMAIN R -> C]
  BY <1>1
<1>3. /\ IsFiniteSet(DOMAIN R)
      /\ Cardinality(DOMAIN R) <= Cardinality(Ids)
      /\ Cardinality(Ids) = Cardinality(DOMAIN R) => Ids = DOMAIN R
  BY <1>2, IdsCardinality, FS_Subset
<1>4. Size(R) \in Nat
  BY <1>3, FS_CardinalityType DEF Size
<1>5. QED
  BY <1>2, <1>3, <1>4, IdsCardinality DEF Size

\* getNextPlayerId returns an id that no player of the list has, whatever gaps
\* the list has: the comment "players is sorted, so this id is free".
THEOREM NextPlayerIdIsFree ==
    ASSUME NEW C, NEW R \in Rosters(C), Size(R) < MaxPlayers
    PROVE  /\ NextPlayerId(R) \in Ids
           /\ NextPlayerId(R) \notin DOMAIN R
           /\ \A j \in Ids : j < NextPlayerId(R) => j \in DOMAIN R
<1> DEFINE Free == Ids \ DOMAIN R
<1>1. DOMAIN R \subseteq Ids /\ DOMAIN R # Ids
  BY RosterSize, MaxPlayersAssumption
<1>2. PICK i \in Free : \A j \in Free : i <= j
  <2>1. Free # {}
    BY <1>1
  <2>2. Free \subseteq Nat
    BY DEF Ids
  <2>3. QED
    BY <2>1, <2>2, LeastElement
<1>3. /\ i \in 0 .. MaxPlayers
      /\ i \notin DOMAIN R
      /\ \A j \in 0 .. (i - 1) : j \in DOMAIN R
  BY <1>2, MaxPlayersAssumption DEF Ids
<1>4. /\ NextPlayerId(R) \in 0 .. MaxPlayers
      /\ NextPlayerId(R) \notin DOMAIN R
      /\ \A j \in 0 .. (NextPlayerId(R) - 1) : j \in DOMAIN R
  BY <1>3 DEF NextPlayerId
<1>5. NextPlayerId(R) <= i
  BY <1>2, <1>3, <1>4, MaxPlayersAssumption DEF Ids
<1>6. QED
  BY <1>2, <1>4, <1>5, MaxPlayersAssumption DEF Ids

\* addPlayer adds one player, under the free id ...
LEMMA AddPlayerResult ==
    ASSUME NEW C, NEW R \in Rosters(C), NEW c \in C, Size(R) < MaxPlayers
    PROVE  /\ AddPlayer(R, c) \in Rosters(C)
           /\ DOMAIN AddPlayer(R, c) = DOMAIN R \cup {NextPlayerId(R)}
           /\ AddPlayer(R, c)[NextPlayerId(R)] = c
<1>1. NextPlayerId(R) \in Ids /\ NextPlayerId(R) \notin DOMAIN R
  BY NextPlayerIdIsFree
<1>2. DOMAIN R \subseteq Ids /\ R \in [DOMAIN R -> C]
  BY RosterSize
<1>3. DOMAIN AddPlayer(R, c) = DOMAIN R \cup {NextPlayerId(R)}
  BY DEF AddPlayer
<1>4. AddPlayer(R, c) \in [DOMAIN R \cup {NextPlayerId(R)} -> C]
  BY <1>2 DEF AddPlayer
<1>5. QED
  BY <1>1, <1>2, <1>3, <1>4 DEF AddPlayer, Rosters

\* ... and leaves the others where they were.
LEMMA AddPlayerKeeps ==
    ASSUME NEW C, NEW R \in Rosters(C), NEW c \in C, Size(R) < MaxPlayers,
           NEW i \in DOMAIN R
    PROVE  AddPlayer(R, c)[i] = R[i]
BY NextPlayerIdIsFree DEF AddPlayer

\* removePlayer takes away one player and leaves the others where they were.
LEMMA RemovePlayerResult ==
    ASSUME NEW C, NEW R \in Rosters(C), NEW id \in DOMAIN R
    PROVE  /\ RemovePlayer(R, id) \in Rosters(C)
           /\ DOMAIN RemovePlayer(R, id) = DOMAIN R \ {id}
           /\ \A i \in DOMAIN R \ {id} : RemovePlayer(R, id)[i] = R[i]
<1>1. DOMAIN R \subseteq Ids /\ R \in [DOMAIN R -> C]
  BY RosterSize
<1>2. RemovePlayer(R, id) \in [DOMAIN R \ {id} -> C]
  BY <1>1 DEF RemovePlayer
<1>3. QED
  BY <1>1, <1>2 DEF RemovePlayer, Rosters

LEMMA EmptyRosterType == ASSUME NEW C PROVE EmptyRoster \in Rosters(C)
<1>1. EmptyRoster \in [{} -> C]
  BY DEF EmptyRoster
<1>2. QED
  BY <1>1 DEF Rosters

-----------------------------------------------------------------------------
(* Messages                                                                *)

RequestTypes == {"createLobby", "joinLobby", "heartbeat"} \cup LobbyCommands

LEMMA RequestFields ==
    ASSUME NEW r \in Requests
    PROVE  /\ r.type \in RequestTypes
           /\ r.type = "joinLobby" => r.lobby \in Lobbies
           /\ r.type = "sendMessage" => r.data \in Data
BY DEF Requests, JoinRequests, SendRequests, RequestTypes, LobbyCommands

LEMMA JoinedMessage ==
    ASSUME NEW l \in Lobbies, NEW id \in Ids
    PROVE  Joined(l, id) \in Messages
BY DEF Joined, Messages, JoinedMessages

LEMMA UpdateMessage ==
    ASSUME NEW l \in Lobbies, NEW R \in Rosters(Sessions)
    PROVE  /\ Update(l, R) \in Messages
           /\ Update(l, R).type = "updateLobby"
           /\ Update(l, R).players = R
BY DEF Update, Messages, UpdateMessages

LEMMA RelayedMessage ==
    ASSUME NEW l \in Lobbies, NEW id \in Ids, NEW s \in Sessions, NEW d \in Data
    PROVE  /\ Relay(l, id, s, d) \in Messages
           /\ Relay(l, id, s, d).type = "relayMessage"
BY DEF Relay, Messages, RelayMessages
-----------------------------------------------------------------------------
(* The record of a handler                                                 *)

Tasks == [pc : Points, req : Requests \cup {Null}, msg : Messages \cup {Null},
          todo : SUBSET Ids]

\* The handlers of the other strands are where they were.
OthersStay(s) ==
    \A t \in Sessions \ {s} :
        /\ task'[t] = task[t]
        /\ lobby_'[t] = lobby_[t]
        /\ playerId'[t] = playerId[t]

LEMMA GotoTask ==
    ASSUME task \in [Sessions -> Tasks], NEW s \in Sessions, NEW pc \in Points,
           Goto(s, pc)
    PROVE  /\ task' \in [Sessions -> Tasks]
           /\ \A t \in Sessions \ {s} : task'[t] = task[t]
           /\ task'[s].pc = pc
           /\ task'[s].req = task[s].req
           /\ task'[s].msg = task[s].msg
           /\ task'[s].todo = task[s].todo
BY DEF Goto, Tasks

LEMMA IdleType == Idle \in Tasks /\ Idle.pc = "idle"
<1>1. "idle" \in Points
  BY DEF Points
<1>2. ASSUME NEW none, none \in SUBSET Ids
      PROVE  [pc |-> "idle", req |-> Null, msg |-> Null, todo |-> none] \in Tasks
  BY <1>1, <1>2 DEF Tasks
<1>3. {} \in SUBSET Ids
  OBVIOUS
<1>4. Idle \in Tasks
  BY <1>2, <1>3, Zenon DEF Idle
<1>5. QED
  BY <1>4 DEF Idle

LEMMA FinishTask ==
    ASSUME task \in [Sessions -> Tasks], NEW s \in Sessions, Finish(s)
    PROVE  /\ task' \in [Sessions -> Tasks]
           /\ \A t \in Sessions \ {s} : task'[t] = task[t]
           /\ task'[s].pc = "idle"
BY IdleType DEF Finish

LEMMA BroadcastTask ==
    ASSUME task \in [Sessions -> Tasks], NEW s \in Sessions, NEW m \in Messages,
           NEW todo \in SUBSET Ids, Broadcast(s, m, todo)
    PROVE  /\ task' \in [Sessions -> Tasks]
           /\ \A t \in Sessions \ {s} : task'[t] = task[t]
           /\ task'[s].pc = "post"
           /\ task'[s].req = task[s].req
           /\ task'[s].msg = m
           /\ task'[s].todo = todo
BY DEF Broadcast, Tasks, Points

LEMMA SendType ==
    ASSUME out \in [Sessions -> Seq(Messages)], NEW r, NEW m \in Messages, Send(r, m)
    PROVE  out' \in [Sessions -> Seq(Messages)]
<1>1. CASE r \in Sessions
  <2>1. Append(out[r], m) \in Seq(Messages)
    BY <1>1
  <2>2. QED
    BY <2>1 DEF Send
<1>2. CASE r \notin Sessions
  BY <1>2 DEF Send
<1>3. QED
  BY <1>1, <1>2

LEMMA DequeueType ==
    ASSUME strand \in [Sessions -> Seq(Requests)], NEW s \in Sessions,
           strand[s] # <<>>, Dequeue(s)
    PROVE  /\ strand' \in [Sessions -> Seq(Requests)]
           /\ Head(strand[s]) \in Requests
<1>1. strand[s] \in Seq(Requests)
  OBVIOUS
<1>2. Tail(strand[s]) \in Seq(Requests) /\ Head(strand[s]) \in Requests
  BY <1>1
<1>3. QED
  BY <1>2 DEF Dequeue
-----------------------------------------------------------------------------
(* Steps that neither take nor release a lobby's mutex                     *)

\* A step of s that holds no lobby's mutex before and after leaves the rest of
\* the invariant alone.
LEMMA UnlockedStep ==
    ASSUME IInv, NEW s \in Sessions, TypeOK', OthersStay(s),
           task[s].pc # "post", task'[s].pc # "post", HandlerOK(s)',
           UNCHANGED <<players, writer, readers>>
    PROVE  IInv'
<1> USE DEF IInv
<1>1. ASSUME NEW t \in Sessions PROVE HandlerOK(t)'
  <2>1. CASE t = s
    BY <2>1
  <2>2. CASE t # s
    BY <2>2 DEF HandlerOK, OthersStay
  <2>3. QED
    BY <2>1, <2>2
<1>2. ASSUME NEW t \in Sessions, task'[t].pc = "post"
      PROVE  t # s /\ task'[t] = task[t] /\ lobby_'[t] = lobby_[t]
  BY <1>2 DEF OthersStay
<1>3. ASSUME NEW t \in Sessions, task[t].pc = "post"
      PROVE  t # s /\ task'[t] = task[t] /\ lobby_'[t] = lobby_[t]
  BY <1>3 DEF OthersStay
<1>4. \A l \in Lobbies : /\ writer[l] \in Sessions \cup {Null}
                         /\ readers[l] \in SUBSET Sessions
  BY DEF TypeOK
<1>5. MutexOK'
  BY <1>2, <1>3, <1>4 DEF MutexOK
<1>6. IterationSafe'
  BY <1>2 DEF IterationSafe
<1>7. QED
  BY <1>1, <1>5, <1>6

\* A step that leaves every handler, player list and mutex alone.
LEMMA SameHandlers ==
    ASSUME IInv, TypeOK',
           UNCHANGED <<task, lobby_, playerId, players, writer, readers>>
    PROVE  IInv'
<1>1. \A s \in Sessions : HandlerOK(s)'
  BY DEF IInv, HandlerOK
<1>2. MutexOK' /\ IterationSafe'
  BY DEF IInv, MutexOK, IterationSafe
<1>3. QED
  BY <1>1, <1>2 DEF IInv
-----------------------------------------------------------------------------
(* Connections                                                             *)

LEMMA InitInv == Init => IInv
<1> SUFFICES ASSUME Init PROVE IInv
  OBVIOUS
<1> USE DEF Init
<1>1. TypeOK
  <2>1. task \in [Sessions -> Tasks]
    BY IdleType
  <2>2. players \in [Lobbies -> Rosters(Sessions)]
    BY EmptyRosterType
  <2>3. received \in 0 .. MaxRequests
    BY SessionAssumption
  <2>4. strand \in [Sessions -> Seq(Requests)] /\ out \in [Sessions -> Seq(Messages)]
    OBVIOUS
  <2>5. readers \in [Lobbies -> SUBSET Sessions] /\ names \subseteq Lobbies
    OBVIOUS
  <2>6. QED
    BY <2>1, <2>2, <2>3, <2>4, <2>5 DEF TypeOK, Tasks
<1>2. \A s \in Sessions : HandlerOK(s)
  BY DEF HandlerOK, Idle, WaitPoints, LobbyCommands, AssertsPlayerId
<1>3. MutexOK
  BY DEF MutexOK, Idle
<1>4. IterationSafe
  BY DEF IterationSafe, Idle
<1>5. QED
  BY <1>1, <1>2, <1>3, <1>4 DEF IInv

LEMMA ProcessReadBufInv ==
    ASSUME IInv, NEW s \in Sessions, NEW r \in Requests, ProcessReadBuf(s, r)
    PROVE  IInv'
<1> USE DEF IInv, ProcessReadBuf, sessionVars, lobbyVars, mutexVars
<1>1. TypeOK'
  <2>1. strand' \in [Sessions -> Seq(Requests)]
    <3>1. Append(strand[s], r) \in Seq(Requests)
      BY DEF TypeOK
    <3>2. QED
      BY <3>1 DEF TypeOK
  <2>2. received' \in 0 .. MaxRequests
    BY SessionAssumption DEF TypeOK
  <2>3. QED
    BY <2>1, <2>2 DEF TypeOK
<1>2. UNCHANGED <<task, lobby_, playerId, players, writer, readers>>
  OBVIOUS
<1>3. QED
  BY <1>1, <1>2, SameHandlers

LEMMA HangUpInv ==
    ASSUME IInv, NEW s \in Sessions, HangUp(s)
    PROVE  IInv'
<1> USE DEF IInv, HangUp, sessionVars, lobbyVars, mutexVars
<1>1. TypeOK'
  <2>1. out' \in [Sessions -> Seq(Messages)]
    BY DEF TypeOK
  <2>2. QED
    BY <2>1 DEF TypeOK
<1>2. UNCHANGED <<task, lobby_, playerId, players, writer, readers>>
  OBVIOUS
<1>3. QED
  BY <1>1, <1>2, SameHandlers

LEMMA AbortInv ==
    ASSUME IInv, Abort
    PROVE  IInv'
<1>1. TypeOK'
  BY DEF IInv, Abort, TypeOK
<1>2. UNCHANGED <<task, lobby_, playerId, players, writer, readers>>
  BY DEF Abort
<1>3. QED
  BY <1>1, <1>2, SameHandlers

LEMMA DestroyInv ==
    ASSUME IInv, NEW s \in Sessions, Destroy(s)
    PROVE  IInv'
<1> USE DEF Destroy, At, lobbyVars, mutexVars
<1>1. TypeOK'
  BY DEF IInv, TypeOK
<1>2. OthersStay(s) /\ task'[s] = task[s] /\ task[s].pc = "idle"
  BY DEF OthersStay, IInv, TypeOK
<1>3. HandlerOK(s)'
  BY <1>2 DEF HandlerOK, WaitPoints, LobbyCommands, AssertsPlayerId
<1>4. QED
  BY <1>1, <1>2, <1>3, UnlockedStep
-----------------------------------------------------------------------------
(* Handlers                                                                *)

LEMMA IgnoreMessageInv ==
    ASSUME IInv, NEW s \in Sessions, IgnoreMessage(s)
    PROVE  IInv'
<1> USE DEF IgnoreMessage, Begin, sessionVars, lobbyVars, mutexVars
<1>1. TypeOK'
  <2>1. strand' \in [Sessions -> Seq(Requests)]
    BY DequeueType DEF IInv, TypeOK
  <2>2. QED
    BY <2>1 DEF IInv, TypeOK
<1>2. UNCHANGED <<task, lobby_, playerId, players, writer, readers>>
  OBVIOUS
<1>3. QED
  BY <1>1, <1>2, SameHandlers

LEMMA StartHandlerInv ==
    ASSUME IInv, NEW s \in Sessions, StartHandler(s)
    PROVE  IInv'
<1> DEFINE r == Head(strand[s])
<1> USE DEF sessionVars, lobbyVars, mutexVars
<1>1. /\ strand' \in [Sessions -> Seq(Requests)]
      /\ r \in Requests
  BY DequeueType DEF IInv, TypeOK, StartHandler, Begin
<1>2. r.type \in WaitPoints
  BY DEF StartHandler, WaitPoints
<1>3. r.type \in Points
  BY <1>2 DEF Points
<1> HIDE DEF r
<1>4. task' = [task EXCEPT ![s].pc = r.type, ![s].req = r]
  BY DEF StartHandler, r
<1>5. /\ task' \in [Sessions -> Tasks]
      /\ \A t \in Sessions \ {s} : task'[t] = task[t]
      /\ task'[s].pc = r.type
      /\ task'[s].req = r
  <2>1. task \in [Sessions -> Tasks]
    BY DEF IInv, TypeOK, Tasks
  <2>2. QED
    BY <1>1, <1>3, <1>4, <2>1 DEF Tasks
<1>6. UNCHANGED <<conn, lobby_, playerId, out, players, locked, writer, readers,
                  names, aborted, received>>
  BY DEF StartHandler
<1>7. TypeOK'
  BY <1>1, <1>5, <1>6 DEF IInv, TypeOK, Tasks
<1>8. task[s].pc # "post" /\ task'[s].pc # "post"
  BY <1>2, <1>5 DEF StartHandler, Begin, At, WaitPoints, LobbyCommands
<1>9. HandlerOK(s)'
  <2>1. /\ r.type \in LobbyCommands => lobby_[s] # Null
        /\ r.type \in AssertsPlayerId => playerId[s] # Null
    BY DEF StartHandler, PlayerIdMissing, LobbyCommands, AssertsPlayerId, r
  <2>2. QED
    BY <1>1, <1>2, <1>5, <1>6, <2>1
    DEF HandlerOK, WaitPoints, LobbyCommands, AssertsPlayerId
<1>10. OthersStay(s)
  BY <1>5, <1>6 DEF OthersStay
<1>11. QED
  BY <1>6, <1>7, <1>8, <1>9, <1>10, UnlockedStep

LEMMA LockContextInv ==
    ASSUME IInv, NEW s \in Sessions, LockContext(s)
    PROVE  IInv'
<1> USE DEF LockContext, At, sessionVars, lobbyVars, mutexVars
<1>1. task \in [Sessions -> Tasks] /\ "naming" \in Points
  BY DEF IInv, TypeOK, Tasks, Points
<1>2. /\ task' \in [Sessions -> Tasks]
      /\ \A t \in Sessions \ {s} : task'[t] = task[t]
      /\ task'[s].pc = "naming"
      /\ task'[s].req = task[s].req
  BY <1>1, GotoTask
<1>3. TypeOK'
  BY <1>2 DEF IInv, TypeOK, Tasks
<1>4. HandlerOK(s)'
  BY <1>2 DEF IInv, HandlerOK, WaitPoints, LobbyCommands, AssertsPlayerId
<1>5. OthersStay(s)
  BY <1>2 DEF OthersStay
<1>6. QED
  BY <1>2, <1>3, <1>4, <1>5, UnlockedStep

LEMMA CreateLobbyInv ==
    ASSUME IInv, NEW s \in Sessions, CreateLobby(s)
    PROVE  IInv'
<1> USE DEF CreateLobby, At, lobbyVars, mutexVars
<1>1. task \in [Sessions -> Tasks] /\ "enter" \in Points
  BY DEF IInv, TypeOK, Tasks, Points
<1>2. /\ task' \in [Sessions -> Tasks]
      /\ \A t \in Sessions \ {s} : task'[t] = task[t]
      /\ task'[s].pc = "enter"
      /\ task'[s].req = task[s].req
  BY <1>1, GotoTask
<1>3. PICK l \in Lobbies \ names : /\ names' = names \cup {l}
                                 /\ lobby_' = [lobby_ EXCEPT ![s] = l]
  OBVIOUS
<1>4. TypeOK'
  BY <1>2, <1>3 DEF IInv, TypeOK, Tasks
<1>5. lobby_'[s] = l /\ l # Null
  BY <1>3, SessionAssumption DEF IInv, TypeOK
<1>6. HandlerOK(s)'
  BY <1>2, <1>5 DEF IInv, HandlerOK, WaitPoints, LobbyCommands, AssertsPlayerId
<1>7. OthersStay(s)
  BY <1>2, <1>3 DEF OthersStay, IInv, TypeOK
<1>8. QED
  BY <1>2, <1>4, <1>6, <1>7, UnlockedStep

LEMMA GetLobbyInv ==
    ASSUME IInv, NEW s \in Sessions, GetLobby(s)
    PROVE  IInv'
<1> DEFINE l == task[s].req.lobby
<1> USE DEF At, lobbyVars, mutexVars
<1>1. /\ task \in [Sessions -> Tasks]
      /\ "enter" \in Points
      /\ task[s].req \in Requests
      /\ task[s].req.type = "joinLobby"
  BY DEF IInv, TypeOK, Tasks, Points, HandlerOK, GetLobby, WaitPoints
<1>2. l \in Lobbies /\ l # Null
  BY <1>1, RequestFields, SessionAssumption
<1>3. /\ task' \in [Sessions -> Tasks]
      /\ \A t \in Sessions \ {s} : task'[t] = task[t]
      /\ \/ /\ task'[s].pc = "enter"
            /\ task'[s].req = task[s].req
            /\ lobby_' = [lobby_ EXCEPT ![s] = l]
         \/ /\ task'[s].pc = "idle"
            /\ lobby_' = [lobby_ EXCEPT ![s] = Null]
  BY <1>1, GotoTask, FinishTask DEF GetLobby
<1>4. UNCHANGED <<conn, strand, playerId, out, players, locked, writer, readers,
                  names, aborted, received>>
  BY DEF GetLobby
<1> HIDE DEF l
<1>5. TypeOK'
  BY <1>2, <1>3, <1>4 DEF IInv, TypeOK, Tasks
<1>6. HandlerOK(s)'
  <2>1. lobby_ \in [Sessions -> Lobbies \cup {Null}]
    BY DEF IInv, TypeOK
  <2>2. QED
    BY <1>1, <1>2, <1>3, <2>1 DEF HandlerOK, WaitPoints, LobbyCommands, AssertsPlayerId
<1>7. OthersStay(s)
  BY <1>3, <1>4 DEF OthersStay, IInv, TypeOK
<1>8. task[s].pc # "post" /\ task'[s].pc # "post"
  BY <1>3 DEF GetLobby
<1>9. QED
  BY <1>4, <1>5, <1>6, <1>7, <1>8, UnlockedStep

\* RejectJoin, ResetLobby, SetLobbyLocked and Respond end the handler.
LEMMA FinishInv ==
    ASSUME IInv, NEW s \in Sessions, Finish(s), TypeOK', task[s].pc # "post",
           \A t \in Sessions \ {s} : lobby_'[t] = lobby_[t],
           UNCHANGED <<playerId, players, writer, readers>>
    PROVE  IInv'
<1>1. /\ \A t \in Sessions \ {s} : task'[t] = task[t]
      /\ task'[s].pc = "idle"
  BY FinishTask DEF IInv, TypeOK, Tasks
<1>2. HandlerOK(s)'
  BY <1>1 DEF HandlerOK, WaitPoints, LobbyCommands, AssertsPlayerId
<1>3. OthersStay(s)
  BY <1>1 DEF OthersStay
<1>4. QED
  BY <1>1, <1>2, <1>3, UnlockedStep

LEMMA RejectJoinInv ==
    ASSUME IInv, NEW s \in Sessions, RejectJoin(s)
    PROVE  IInv'
<1> USE DEF RejectJoin, At, sessionVars, lobbyVars, mutexVars
<1>1. task' \in [Sessions -> Tasks]
  BY FinishTask DEF IInv, TypeOK, Tasks
<1>2. TypeOK'
  BY <1>1 DEF IInv, TypeOK, Tasks
<1>3. QED
  BY <1>2, FinishInv

LEMMA ResetLobbyInv ==
    ASSUME IInv, NEW s \in Sessions, ResetLobby(s)
    PROVE  IInv'
<1> USE DEF ResetLobby, At, lobbyVars, mutexVars
<1>1. task' \in [Sessions -> Tasks]
  BY FinishTask DEF IInv, TypeOK, Tasks
<1>2. TypeOK'
  BY <1>1 DEF IInv, TypeOK, Tasks
<1>3. \A t \in Sessions \ {s} : lobby_'[t] = lobby_[t]
  BY DEF IInv, TypeOK
<1>4. QED
  BY <1>2, <1>3, FinishInv

LEMMA SetLobbyLockedInv ==
    ASSUME IInv, NEW s \in Sessions, SetLobbyLocked(s)
    PROVE  IInv'
<1> USE DEF SetLobbyLocked, At, sessionVars, mutexVars
<1>1. task' \in [Sessions -> Tasks]
  BY FinishTask DEF IInv, TypeOK, Tasks
<1>2. locked' \in [Lobbies -> BOOLEAN]
  BY DEF IInv, TypeOK
<1>3. TypeOK'
  BY <1>1, <1>2 DEF IInv, TypeOK, Tasks
<1>4. QED
  BY <1>3, FinishInv

LEMMA RespondInv ==
    ASSUME IInv, NEW s \in Sessions, Respond(s)
    PROVE  IInv'
<1> USE DEF Respond, At, sessionVars, lobbyVars, mutexVars
<1>1. task' \in [Sessions -> Tasks]
  BY FinishTask DEF IInv, TypeOK, Tasks
<1>2. task[s].msg \in Messages
  BY DEF IInv, HandlerOK
<1>3. out' \in [Sessions -> Seq(Messages)]
  BY <1>2, SendType DEF IInv, TypeOK
<1>4. TypeOK'
  BY <1>1, <1>3 DEF IInv, TypeOK, Tasks
<1>5. QED
  BY <1>4, FinishInv

LEMMA EncodeLobbyUpdateInv ==
    ASSUME IInv, NEW s \in Sessions, EncodeLobbyUpdate(s)
    PROVE  IInv'
<1> DEFINE m == Update(lobby_[s], players[lobby_[s]])
<1> USE DEF At, sessionVars, lobbyVars, mutexVars
<1>1. lobby_[s] \in Lobbies
  BY DEF IInv, TypeOK, HandlerOK, EncodeLobbyUpdate, LobbyCommands
<1>2. m \in Messages
  BY <1>1, UpdateMessage DEF IInv, TypeOK
<1>3. task' = [task EXCEPT ![s].pc = "respond", ![s].msg = m]
  BY DEF EncodeLobbyUpdate
<1>4. UNCHANGED <<conn, strand, lobby_, playerId, out, players, locked, writer,
                  readers, names, aborted, received>>
  BY DEF EncodeLobbyUpdate
<1> HIDE DEF m
<1>5. /\ task' \in [Sessions -> Tasks]
      /\ \A t \in Sessions \ {s} : task'[t] = task[t]
      /\ task'[s].pc = "respond"
      /\ task'[s].msg = m
      /\ task'[s].req = task[s].req
  <2>1. task \in [Sessions -> Tasks] /\ "respond" \in Points
    BY DEF IInv, TypeOK, Tasks, Points
  <2>2. QED
    BY <1>2, <1>3, <2>1 DEF Tasks
<1>6. TypeOK'
  BY <1>4, <1>5 DEF IInv, TypeOK, Tasks
<1>7. HandlerOK(s)'
  BY <1>2, <1>5 DEF IInv, HandlerOK, WaitPoints, LobbyCommands, AssertsPlayerId, EncodeLobbyUpdate
<1>8. OthersStay(s) /\ task[s].pc # "post"
  BY <1>4, <1>5 DEF OthersStay, EncodeLobbyUpdate
<1>9. QED
  BY <1>4, <1>5, <1>6, <1>7, <1>8, UnlockedStep
-----------------------------------------------------------------------------
(* Steps that take or release a lobby's mutex                              *)

\* A handler takes the mutex of its lobby, replaces the list and starts to
\* announce the new one.  Nobody else was posting in that lobby.
LEMMA UniqueLockStep ==
    ASSUME IInv, NEW s \in Sessions, NEW l \in Lobbies, NEW R \in Rosters(Sessions),
           TypeOK', lobby_[s] = l, UniqueFree(l),
           task[s].pc # "post", task[s].req \in Requests,
           Broadcast(s, Update(l, R), DOMAIN R),
           players' = [players EXCEPT ![l] = R],
           writer' = [writer EXCEPT ![l] = s],
           \A t \in Sessions \ {s} : playerId'[t] = playerId[t],
           UNCHANGED <<lobby_, readers>>
    PROVE  IInv'
<1>1. /\ Update(l, R) \in Messages
      /\ Update(l, R).type = "updateLobby"
      /\ Update(l, R).players = R
  BY UpdateMessage
<1>2. /\ \A t \in Sessions \ {s} : task'[t] = task[t]
      /\ task'[s].pc = "post"
      /\ task'[s].req = task[s].req
      /\ task'[s].msg = Update(l, R)
      /\ task'[s].todo = DOMAIN R
  <2>1. DOMAIN R \in SUBSET Ids
    BY RosterSize
  <2>2. QED
    BY <1>1, <2>1, BroadcastTask DEF IInv, TypeOK, Tasks
<1>3. /\ players \in [Lobbies -> Rosters(Sessions)]
      /\ writer \in [Lobbies -> Sessions \cup {Null}]
      /\ readers \in [Lobbies -> SUBSET Sessions]
      /\ lobby_ \in [Sessions -> Lobbies \cup {Null}]
  BY DEF IInv, TypeOK
<1>4. /\ l # Null
      /\ s # Null
  BY SessionAssumption
<1>5. /\ players'[l] = R
      /\ \A k \in Lobbies \ {l} : players'[k] = players[k]
      /\ writer'[l] = s
      /\ \A k \in Lobbies \ {l} : writer'[k] = writer[k]
  BY <1>3
<1>6. \A t \in Sessions : HandlerOK(t)'
  <2>1. HandlerOK(s)'
    BY <1>1, <1>2, <1>4 DEF HandlerOK, WaitPoints, LobbyCommands, AssertsPlayerId
  <2>2. ASSUME NEW t \in Sessions \ {s} PROVE HandlerOK(t)'
    BY <1>2 DEF IInv, HandlerOK
  <2>3. QED
    BY <2>1, <2>2
<1>7. ASSUME NEW t \in Sessions \ {s}, task'[t].pc = "post"
      PROVE  lobby_[t] \in Lobbies \ {l}
  BY <1>2, <1>3, <1>7, SessionAssumption DEF IInv, MutexOK, UniqueFree, HandlerOK
<1>8. MutexOK'
  <2>1. ASSUME NEW k \in Lobbies, writer'[k] # Null
        PROVE  /\ readers'[k] = {}
               /\ task'[writer'[k]].pc = "post"
               /\ lobby_'[writer'[k]] = k
    <3>1. CASE k = l
      BY <1>2, <1>5, <3>1 DEF UniqueFree
    <3>2. CASE k # l
      BY <1>2, <1>3, <1>5, <2>1, <3>2 DEF IInv, MutexOK
    <3>3. QED
      BY <3>1, <3>2
  <2>2. ASSUME NEW k \in Lobbies, NEW t \in readers'[k]
        PROVE  /\ task'[t].pc = "post"
               /\ task'[t].msg.type = "relayMessage"
               /\ lobby_'[t] = k
    BY <1>2, <1>3 DEF IInv, MutexOK
  <2>3. ASSUME NEW t \in Sessions, task'[t].pc = "post"
        PROVE  \/ writer'[lobby_'[t]] = t
               \/ t \in readers'[lobby_'[t]]
    <3>1. CASE t = s
      BY <1>5, <3>1
    <3>2. CASE t # s
      BY <1>2, <1>5, <1>7, <2>3, <3>2 DEF IInv, MutexOK
    <3>3. QED
      BY <3>1, <3>2
  <2>4. QED
    BY <2>1, <2>2, <2>3 DEF MutexOK
<1>9. IterationSafe'
  <2>1. ASSUME NEW t \in Sessions, task'[t].pc = "post"
        PROVE  /\ task'[t].todo \subseteq DOMAIN players'[lobby_'[t]]
               /\ task'[t].msg.type = "updateLobby" =>
                      task'[t].msg.players = players'[lobby_'[t]]
    <3>1. CASE t = s
      BY <1>1, <1>2, <1>5, <3>1
    <3>2. CASE t # s
      BY <1>2, <1>5, <1>7, <2>1, <3>2 DEF IInv, IterationSafe
    <3>3. QED
      BY <3>1, <3>2
  <2>2. QED
    BY <2>1 DEF IterationSafe
<1>10. QED
  BY <1>6, <1>8, <1>9 DEF IInv

LEMMA EnterLobbyInv ==
    ASSUME IInv, NEW s \in Sessions, EnterLobby(s)
    PROVE  IInv'
<1> DEFINE l == lobby_[s]
           id == NextPlayerId(players[l])
           R == AddPlayer(players[l], s)
<1>1. l \in Lobbies /\ players[l] \in Rosters(Sessions)
  BY DEF IInv, TypeOK, HandlerOK, EnterLobby, At
<1>2. Size(players[l]) < MaxPlayers
  BY DEF EnterLobby, CanJoin
<1>3. id \in Ids /\ R \in Rosters(Sessions)
  BY <1>1, <1>2, NextPlayerIdIsFree, AddPlayerResult
<1>4. /\ task[s].pc = "enter"
      /\ UniqueFree(l)
      /\ writer' = [writer EXCEPT ![l] = s]
      /\ players' = [players EXCEPT ![l] = R]
      /\ playerId' = [playerId EXCEPT ![s] = id]
      /\ Send(s, Joined(l, id))
      /\ Broadcast(s, Update(l, R), DOMAIN R)
      /\ UNCHANGED <<conn, strand, lobby_, locked, readers, names, aborted,
                     received>>
  BY DEF EnterLobby, At
<1> HIDE DEF l, id, R
<1>5. task' \in [Sessions -> Tasks]
  <2>1. Update(l, R) \in Messages /\ DOMAIN R \in SUBSET Ids
    BY <1>1, <1>3, UpdateMessage, RosterSize
  <2>2. QED
    BY <1>4, <2>1, BroadcastTask DEF IInv, TypeOK, Tasks
<1>6. out' \in [Sessions -> Seq(Messages)]
  BY <1>1, <1>3, <1>4, JoinedMessage, SendType DEF IInv, TypeOK
<1>7. TypeOK'
  BY <1>1, <1>3, <1>4, <1>5, <1>6 DEF IInv, TypeOK, Tasks
<1>8. \A t \in Sessions \ {s} : playerId'[t] = playerId[t]
  BY <1>4 DEF IInv, TypeOK
<1>9. task[s].req \in Requests
  BY <1>4 DEF IInv, HandlerOK
<1>10. lobby_[s] = l
  BY DEF l
<1>11. QED
  BY <1>1, <1>3, <1>4, <1>7, <1>8, <1>9, <1>10, UniqueLockStep

LEMMA LeaveLobbyInv ==
    ASSUME IInv, NEW s \in Sessions, LeaveLobby(s)
    PROVE  IInv'
<1> DEFINE l == lobby_[s]
<1>1. l \in Lobbies /\ players[l] \in Rosters(Sessions)
  BY DEF IInv, TypeOK, HandlerOK, LeaveLobby, At, LobbyCommands
<1>2. PICK id \in DOMAIN players[l] :
          /\ players' = [players EXCEPT ![l] = RemovePlayer(players[l], id)]
          /\ Broadcast(s, Update(l, RemovePlayer(players[l], id)),
                       DOMAIN RemovePlayer(players[l], id))
  BY DEF LeaveLobby
<1> DEFINE R == RemovePlayer(players[l], id)
<1>3. R \in Rosters(Sessions)
  BY <1>1, RemovePlayerResult
<1>4. /\ task[s].pc = "leaveLobby"
      /\ UniqueFree(l)
      /\ writer' = [writer EXCEPT ![l] = s]
      /\ playerId' = [playerId EXCEPT ![s] = Null]
      /\ UNCHANGED <<conn, strand, lobby_, out, locked, readers, names, aborted,
                     received>>
  BY DEF LeaveLobby, At
<1>5. /\ players' = [players EXCEPT ![l] = R]
      /\ Broadcast(s, Update(l, R), DOMAIN R)
      /\ lobby_[s] = l
  BY <1>2
<1> HIDE DEF l, R
<1>6. task' \in [Sessions -> Tasks]
  <2>1. Update(l, R) \in Messages /\ DOMAIN R \in SUBSET Ids
    BY <1>1, <1>3, UpdateMessage, RosterSize
  <2>2. QED
    BY <1>5, <2>1, BroadcastTask DEF IInv, TypeOK, Tasks
<1>7. TypeOK'
  BY <1>1, <1>3, <1>4, <1>5, <1>6 DEF IInv, TypeOK, Tasks
<1>8. \A t \in Sessions \ {s} : playerId'[t] = playerId[t]
  BY <1>4 DEF IInv, TypeOK
<1>9. task[s].req \in Requests
  BY <1>4 DEF IInv, HandlerOK
<1>10. QED
  BY <1>1, <1>3, <1>4, <1>5, <1>7, <1>8, <1>9, UniqueLockStep

LEMMA RelayMessageInv ==
    ASSUME IInv, NEW s \in Sessions, RelayMessage(s)
    PROVE  IInv'
<1> DEFINE l == lobby_[s]
           m == Relay(l, playerId[s], s, task[s].req.data)
           todo == DOMAIN players[l] \ {playerId[s]}
<1>1. /\ l \in Lobbies
      /\ players[l] \in Rosters(Sessions)
      /\ playerId[s] \in Ids
      /\ task[s].req \in Requests
      /\ task[s].req.data \in Data
  <2>1. task[s].req \in Requests /\ task[s].req.type = "sendMessage"
    BY DEF IInv, HandlerOK, RelayMessage, At, WaitPoints, LobbyCommands
  <2>2. l # Null /\ playerId[s] # Null
    BY DEF IInv, HandlerOK, RelayMessage, At, LobbyCommands, AssertsPlayerId
  <2>3. QED
    BY <2>1, <2>2, RequestFields DEF IInv, TypeOK
<1>2. m \in Messages /\ m.type = "relayMessage"
  BY <1>1, RelayedMessage
<1>3. todo \in SUBSET Ids /\ todo \subseteq DOMAIN players[l]
  BY <1>1, RosterSize
<1>4. /\ task[s].pc = "sendMessage"
      /\ SharedFree(l)
      /\ readers' = [readers EXCEPT ![l] = @ \cup {s}]
      /\ Broadcast(s, m, todo)
      /\ lobby_[s] = l
      /\ UNCHANGED <<conn, strand, lobby_, playerId, out, players, locked, writer,
                     names, aborted, received>>
  BY DEF RelayMessage, At, sessionVars, lobbyVars
<1> HIDE DEF l, m, todo
<1>5. /\ task' \in [Sessions -> Tasks]
      /\ \A t \in Sessions \ {s} : task'[t] = task[t]
      /\ task'[s].pc = "post"
      /\ task'[s].req = task[s].req
      /\ task'[s].msg = m
      /\ task'[s].todo = todo
  BY <1>2, <1>3, <1>4, BroadcastTask DEF IInv, TypeOK, Tasks
<1>6. /\ readers \in [Lobbies -> SUBSET Sessions]
      /\ lobby_ \in [Sessions -> Lobbies \cup {Null}]
      /\ writer \in [Lobbies -> Sessions \cup {Null}]
  BY DEF IInv, TypeOK
<1>7. /\ readers' \in [Lobbies -> SUBSET Sessions]
      /\ readers'[l] = readers[l] \cup {s}
      /\ \A k \in Lobbies \ {l} : readers'[k] = readers[k]
  BY <1>1, <1>4, <1>6
<1>8. TypeOK'
  BY <1>4, <1>5, <1>7 DEF IInv, TypeOK, Tasks
<1>9. \A t \in Sessions : HandlerOK(t)'
  <2>1. HandlerOK(s)'
    BY <1>1, <1>2, <1>4, <1>5, SessionAssumption
    DEF HandlerOK, WaitPoints, LobbyCommands, AssertsPlayerId
  <2>2. ASSUME NEW t \in Sessions \ {s} PROVE HandlerOK(t)'
    BY <1>4, <1>5 DEF IInv, HandlerOK
  <2>3. QED
    BY <2>1, <2>2
<1>10. MutexOK'
  <2>1. ASSUME NEW k \in Lobbies, writer'[k] # Null
        PROVE  /\ readers'[k] = {}
               /\ task'[writer'[k]].pc = "post"
               /\ lobby_'[writer'[k]] = k
    BY <1>4, <1>5, <1>6, <1>7, <2>1 DEF IInv, MutexOK, SharedFree
  <2>2. ASSUME NEW k \in Lobbies, NEW t \in readers'[k]
        PROVE  /\ task'[t].pc = "post"
               /\ task'[t].msg.type = "relayMessage"
               /\ lobby_'[t] = k
    <3>1. CASE t = s
      BY <1>2, <1>4, <1>5, <1>6, <1>7, <3>1 DEF IInv, MutexOK
    <3>2. CASE t # s
      BY <1>4, <1>5, <1>6, <1>7, <3>2 DEF IInv, MutexOK
    <3>3. QED
      BY <3>1, <3>2
  <2>3. ASSUME NEW t \in Sessions, task'[t].pc = "post"
        PROVE  \/ writer'[lobby_'[t]] = t
               \/ t \in readers'[lobby_'[t]]
    <3>1. CASE t = s
      BY <1>1, <1>4, <1>7, <3>1
    <3>2. CASE t # s
      <4>1. lobby_[t] \in Lobbies
        BY <1>5, <1>6, <2>3, <3>2 DEF IInv, HandlerOK
      <4>2. QED
        BY <1>4, <1>5, <1>7, <2>3, <3>2, <4>1 DEF IInv, MutexOK
    <3>3. QED
      BY <3>1, <3>2
  <2>4. QED
    BY <2>1, <2>2, <2>3 DEF MutexOK
<1>11. IterationSafe'
  <2>1. ASSUME NEW t \in Sessions, task'[t].pc = "post"
        PROVE  /\ task'[t].todo \subseteq DOMAIN players'[lobby_'[t]]
               /\ task'[t].msg.type = "updateLobby" =>
                      task'[t].msg.players = players'[lobby_'[t]]
    <3>1. CASE t = s
      BY <1>2, <1>3, <1>4, <1>5, <3>1
    <3>2. CASE t # s
      BY <1>4, <1>5, <2>1, <3>2 DEF IInv, IterationSafe
    <3>3. QED
      BY <3>1, <3>2
  <2>2. QED
    BY <2>1 DEF IterationSafe
<1>12. QED
  BY <1>8, <1>9, <1>10, <1>11 DEF IInv

LEMMA PostNextInv ==
    ASSUME IInv, NEW s \in Sessions, PostNext(s)
    PROVE  IInv'
<1>1. PICK id \in task[s].todo :
          /\ Send(players[lobby_[s]][id], task[s].msg)
          /\ task' = [task EXCEPT ![s].todo = @ \ {id}]
  BY DEF PostNext
<1>2. task[s].pc = "post" /\ task[s].msg \in Messages
  BY DEF IInv, HandlerOK, PostNext, At
<1>3. UNCHANGED <<conn, strand, lobby_, playerId, players, locked, writer, readers,
                  names, aborted, received>>
  BY DEF PostNext, sessionVars, lobbyVars, mutexVars
<1>4. /\ task' \in [Sessions -> Tasks]
      /\ \A t \in Sessions : /\ task'[t].pc = task[t].pc
                              /\ task'[t].req = task[t].req
                              /\ task'[t].msg = task[t].msg
                              /\ task'[t].todo \subseteq task[t].todo
  <2>1. task \in [Sessions -> Tasks]
    BY DEF IInv, TypeOK, Tasks
  <2>2. task[s].todo \ {id} \in SUBSET Ids
    BY <2>1 DEF Tasks
  <2>3. [task[s] EXCEPT !.todo = @ \ {id}] \in Tasks
    BY <2>1, <2>2 DEF Tasks
  <2>4. task' = [task EXCEPT ![s] = [task[s] EXCEPT !.todo = @ \ {id}]]
    BY <1>1
  <2>5. task' \in [Sessions -> Tasks]
    BY <2>1, <2>3, <2>4
  <2>6. QED
    BY <2>1, <2>4, <2>5 DEF Tasks
<1>5. out' \in [Sessions -> Seq(Messages)]
  BY <1>1, <1>2, SendType DEF IInv, TypeOK
<1>6. TypeOK'
  BY <1>3, <1>4, <1>5 DEF IInv, TypeOK, Tasks
<1>7. \A t \in Sessions : HandlerOK(t)'
  BY <1>3, <1>4 DEF IInv, HandlerOK
<1>8. MutexOK'
  <2>1. \A l \in Lobbies : /\ readers[l] \subseteq Sessions
                           /\ writer[l] # Null => writer[l] \in Sessions
    BY DEF IInv, TypeOK
  <2>2. QED
    BY <1>3, <1>4, <2>1 DEF IInv, MutexOK
<1>9. IterationSafe'
  BY <1>3, <1>4 DEF IInv, IterationSafe
<1>10. QED
  BY <1>6, <1>7, <1>8, <1>9 DEF IInv

LEMMA UnlockInv ==
    ASSUME IInv, NEW s \in Sessions, Unlock(s)
    PROVE  IInv'
<1> DEFINE l == lobby_[s]
<1>1. l \in Lobbies /\ task[s].pc = "post"
  BY DEF IInv, TypeOK, HandlerOK, Unlock, At
<1>2. /\ writer' = [writer EXCEPT ![l] = IF @ = s THEN Null ELSE @]
      /\ readers' = [readers EXCEPT ![l] = @ \ {s}]
      /\ lobby_[s] = l
      /\ UNCHANGED <<conn, strand, lobby_, playerId, out, players, locked, names,
                     aborted, received>>
  BY DEF Unlock, Release, sessionVars, lobbyVars
<1>3. /\ task' \in [Sessions -> Tasks]
      /\ \A t \in Sessions \ {s} : task'[t] = task[t]
      /\ \/ task'[s].pc = "idle"
         \/ task'[s].pc = "reset" /\ task'[s].req = task[s].req
  <2>1. task \in [Sessions -> Tasks] /\ "reset" \in Points
    BY DEF IInv, TypeOK, Tasks, Points
  <2>2. QED
    BY <2>1, GotoTask, FinishTask DEF Unlock
<1> HIDE DEF l
<1>4. /\ readers \in [Lobbies -> SUBSET Sessions]
      /\ lobby_ \in [Sessions -> Lobbies \cup {Null}]
      /\ writer \in [Lobbies -> Sessions \cup {Null}]
  BY DEF IInv, TypeOK
<1>5. /\ readers' \in [Lobbies -> SUBSET Sessions]
      /\ writer' \in [Lobbies -> Sessions \cup {Null}]
      /\ readers'[l] = readers[l] \ {s}
      /\ writer'[l] = IF writer[l] = s THEN Null ELSE writer[l]
      /\ \A k \in Lobbies \ {l} : readers'[k] = readers[k] /\ writer'[k] = writer[k]
  BY <1>1, <1>2, <1>4
<1>6. TypeOK'
  BY <1>2, <1>3, <1>5 DEF IInv, TypeOK, Tasks
<1>7. \A t \in Sessions : HandlerOK(t)'
  <2>1. HandlerOK(s)'
    BY <1>1, <1>2, <1>3, SessionAssumption
    DEF IInv, HandlerOK, WaitPoints, LobbyCommands, AssertsPlayerId
  <2>2. ASSUME NEW t \in Sessions \ {s} PROVE HandlerOK(t)'
    BY <1>2, <1>3 DEF IInv, HandlerOK
  <2>3. QED
    BY <2>1, <2>2
<1>8. MutexOK'
  <2>1. ASSUME NEW k \in Lobbies, writer'[k] # Null
        PROVE  /\ readers'[k] = {}
               /\ task'[writer'[k]].pc = "post"
               /\ lobby_'[writer'[k]] = k
    <3>1. /\ writer'[k] = writer[k]
          /\ writer[k] # Null
          /\ writer[k] \in Sessions \ {s}
          /\ readers[k] = {}
      BY <1>2, <1>4, <1>5, <2>1 DEF IInv, MutexOK
    <3>2. readers'[k] = {}
      BY <1>5, <3>1
    <3>3. QED
      BY <1>2, <1>3, <3>1, <3>2 DEF IInv, MutexOK
  <2>2. ASSUME NEW k \in Lobbies, NEW t \in readers'[k]
        PROVE  /\ task'[t].pc = "post"
               /\ task'[t].msg.type = "relayMessage"
               /\ lobby_'[t] = k
    <3>1. t \in readers[k] /\ t \in Sessions \ {s}
      BY <1>2, <1>4, <1>5, <2>2 DEF IInv, MutexOK
    <3>2. QED
      BY <1>2, <1>3, <3>1 DEF IInv, MutexOK
  <2>3. ASSUME NEW t \in Sessions, task'[t].pc = "post"
        PROVE  \/ writer'[lobby_'[t]] = t
               \/ t \in readers'[lobby_'[t]]
    <3>1. t # s /\ task[t].pc = "post"
      BY <1>3, <2>3
    <3>2. lobby_[t] \in Lobbies
      BY <1>4, <3>1 DEF IInv, HandlerOK
    <3>3. QED
      BY <1>2, <1>5, <3>1, <3>2 DEF IInv, MutexOK
  <2>4. QED
    BY <2>1, <2>2, <2>3 DEF MutexOK
<1>9. IterationSafe'
  BY <1>2, <1>3 DEF IInv, IterationSafe
<1>10. QED
  BY <1>6, <1>7, <1>8, <1>9 DEF IInv
-----------------------------------------------------------------------------
(* The theorems                                                            *)

LEMMA HandleInv ==
    ASSUME IInv, NEW s \in Sessions, Handle(s)
    PROVE  IInv'
<1>1. CASE FailPlayerIdAssert(s) \/ FailSizeAssert(s) \/ FailRemoveAssert(s)
  BY <1>1, AbortInv DEF FailPlayerIdAssert, FailSizeAssert, FailRemoveAssert
<1>2. CASE IgnoreMessage(s) \/ StartHandler(s)
  BY <1>2, IgnoreMessageInv, StartHandlerInv
<1>3. CASE LockContext(s) \/ CreateLobby(s) \/ GetLobby(s)
  BY <1>3, LockContextInv, CreateLobbyInv, GetLobbyInv
<1>4. CASE EnterLobby(s) \/ RejectJoin(s)
  BY <1>4, EnterLobbyInv, RejectJoinInv
<1>5. CASE LeaveLobby(s) \/ ResetLobby(s)
  BY <1>5, LeaveLobbyInv, ResetLobbyInv
<1>6. CASE SetLobbyLocked(s) \/ RelayMessage(s)
  BY <1>6, SetLobbyLockedInv, RelayMessageInv
<1>7. CASE EncodeLobbyUpdate(s) \/ Respond(s)
  BY <1>7, EncodeLobbyUpdateInv, RespondInv
<1>8. CASE PostNext(s) \/ Unlock(s)
  BY <1>8, PostNextInv, UnlockInv
<1>9. QED
  BY <1>1, <1>2, <1>3, <1>4, <1>5, <1>6, <1>7, <1>8 DEF Handle

LEMMA NextInv == IInv /\ [Next]_vars => IInv'
<1> SUFFICES ASSUME IInv, [Next]_vars PROVE IInv'
  OBVIOUS
<1>1. ASSUME NEW s \in Sessions, NEW r \in Requests, ProcessReadBuf(s, r) PROVE IInv'
  BY <1>1, ProcessReadBufInv
<1>2. ASSUME NEW s \in Sessions, HangUp(s) PROVE IInv'
  BY <1>2, HangUpInv
<1>3. ASSUME NEW s \in Sessions, Destroy(s) PROVE IInv'
  BY <1>3, DestroyInv
<1>4. ASSUME NEW s \in Sessions, Handle(s) PROVE IInv'
  BY <1>4, HandleInv
<1>5. CASE Stopped \/ UNCHANGED vars \/ \E s \in Sessions : DrawUsedName(s)
  <2>1. UNCHANGED vars
    BY <1>5 DEF Stopped, DrawUsedName
  <2>2. UNCHANGED <<task, lobby_, playerId, players, writer, readers>>
    BY <2>1 DEF vars
  <2>3. TypeOK'
    BY <2>1 DEF vars, IInv, TypeOK
  <2>4. QED
    BY <2>2, <2>3, SameHandlers
<1>6. QED
  BY <1>1, <1>2, <1>3, <1>4, <1>5 DEF Next

\* Whatever any number of clients send, the invariant holds in every state.
THEOREM Invariance == Spec => []IInv
<1>1. QED
  BY InitInv, NextInv, PTL DEF Spec

\* Every variable always has its type.  That an id is always below maxPlayers
\* rests on NextPlayerIdIsFree, that a relay is sent with an id on the
\* assertions that precede it.
THEOREM TypeCorrect == Spec => []TypeOK
<1>1. IInv => TypeOK
  BY DEF IInv
<1>2. QED
  BY <1>1, Invariance, PTL

\* No list is modified while a handler walks it, for any number of threads:
\* a handler is at work on a list only while its mutex is held by it.
THEOREM IterationIsSafe == Spec => [](MutexOK /\ IterationSafe)
<1>1. IInv => MutexOK /\ IterationSafe
  BY DEF IInv
<1>2. QED
  BY <1>1, Invariance, PTL
-----------------------------------------------------------------------------
(* Action properties: only EnterLobby and LeaveLobby change a list         *)

LEMMA ListsChange ==
    ASSUME IInv, [Next]_vars
    PROVE  \/ UNCHANGED players
           \/ \E s \in Sessions : EnterLobby(s) \/ LeaveLobby(s)
<1> USE DEF Abort, sessionVars, lobbyVars, mutexVars
<1>1. ASSUME NEW s \in Sessions, Handle(s), ~EnterLobby(s), ~LeaveLobby(s)
      PROVE  UNCHANGED players
  BY <1>1 DEF Handle, IgnoreMessage, StartHandler, FailPlayerIdAssert, LockContext,
              CreateLobby, GetLobby, RejectJoin, FailSizeAssert, FailRemoveAssert,
              ResetLobby, SetLobbyLocked, RelayMessage, EncodeLobbyUpdate, Respond,
              PostNext, Unlock
<1>2. ASSUME NEW s \in Sessions, HangUp(s) \/ Destroy(s)
      PROVE  UNCHANGED players
  BY <1>2 DEF HangUp, Destroy
<1>3. ASSUME NEW s \in Sessions, NEW r \in Requests, ProcessReadBuf(s, r)
      PROVE  UNCHANGED players
  BY <1>3 DEF ProcessReadBuf
<1>4. CASE Stopped \/ UNCHANGED vars \/ \E s \in Sessions : DrawUsedName(s)
  BY <1>4 DEF Stopped, DrawUsedName, vars
<1>5. QED
  BY <1>1, <1>2, <1>3, <1>4 DEF Next

\* What joining does to the lists.
LEMMA EnterLobbyResult ==
    ASSUME IInv, NEW s \in Sessions, EnterLobby(s)
    PROVE  \E id \in Ids :
               LET l == lobby_[s]
               IN  /\ l \in Lobbies
                   /\ id \notin DOMAIN players[l]
                   /\ DOMAIN players'[l] = DOMAIN players[l] \cup {id}
                   /\ players'[l][id] = s
                   /\ \A i \in DOMAIN players[l] : players'[l][i] = players[l][i]
                   /\ \A k \in Lobbies \ {l} : players'[k] = players[k]
<1> DEFINE l == lobby_[s]
           id == NextPlayerId(players[l])
           R == AddPlayer(players[l], s)
<1>1. /\ l \in Lobbies
      /\ players[l] \in Rosters(Sessions)
      /\ players \in [Lobbies -> Rosters(Sessions)]
  BY DEF IInv, TypeOK, HandlerOK, EnterLobby, At
<1>2. Size(players[l]) < MaxPlayers /\ players' = [players EXCEPT ![l] = R]
  BY DEF EnterLobby, CanJoin
<1> HIDE DEF l
<1>3. /\ id \in Ids
      /\ id \notin DOMAIN players[l]
      /\ DOMAIN R = DOMAIN players[l] \cup {id}
      /\ R[id] = s
      /\ \A i \in DOMAIN players[l] : R[i] = players[l][i]
  <2>1. id \in Ids /\ id \notin DOMAIN players[l]
    BY <1>1, <1>2, NextPlayerIdIsFree
  <2>2. /\ DOMAIN R = DOMAIN players[l] \cup {id}
        /\ R[id] = s
        /\ \A i \in DOMAIN players[l] : R[i] = players[l][i]
    <3>1. Size(players[l]) < MaxPlayers
      BY <1>2
    <3>2. DOMAIN R = DOMAIN players[l] \cup {id} /\ R[id] = s
      BY <1>1, <3>1, AddPlayerResult
    <3>3. \A i \in DOMAIN players[l] : R[i] = players[l][i]
      BY <1>1, <3>1, AddPlayerKeeps
    <3>4. QED
      BY <3>2, <3>3
  <2>3. QED
    BY <2>1, <2>2
<1> HIDE DEF R, id
<1>4. players'[l] = R /\ \A k \in Lobbies \ {l} : players'[k] = players[k]
  BY <1>1, <1>2
<1>5. QED
  BY <1>1, <1>3, <1>4 DEF l

\* What leaving does to the lists.
LEMMA LeaveLobbyResult ==
    ASSUME IInv, NEW s \in Sessions, LeaveLobby(s)
    PROVE  LET l == lobby_[s]
           IN  \E id \in DOMAIN players[l] :
                   /\ l \in Lobbies
                   /\ DOMAIN players'[l] = DOMAIN players[l] \ {id}
                   /\ \A i \in DOMAIN players'[l] : players'[l][i] = players[l][i]
                   /\ \A k \in Lobbies \ {l} : players'[k] = players[k]
<1> DEFINE l == lobby_[s]
<1>1. /\ l \in Lobbies
      /\ players[l] \in Rosters(Sessions)
      /\ players \in [Lobbies -> Rosters(Sessions)]
  BY DEF IInv, TypeOK, HandlerOK, LeaveLobby, At, LobbyCommands
<1>2. PICK id \in DOMAIN players[l] :
          players' = [players EXCEPT ![l] = RemovePlayer(players[l], id)]
  BY DEF LeaveLobby
<1> DEFINE R == RemovePlayer(players[l], id)
<1>3. /\ DOMAIN R = DOMAIN players[l] \ {id}
      /\ \A i \in DOMAIN R : R[i] = players[l][i]
  BY <1>1, RemovePlayerResult
<1> HIDE DEF R
<1>4. players'[l] = R /\ \A k \in Lobbies \ {l} : players'[k] = players[k]
  BY <1>1, <1>2 DEF R
<1>5. QED
  BY <1>1, <1>3, <1>4

\* Whom a step seats in a locked or full lobby is one who creates a lobby.
LEMMA ClosedStep ==
    ASSUME IInv, [Next]_vars
    PROVE  \A l \in Lobbies :
               locked[l] \/ Size(players[l]) = MaxPlayers =>
                   \A i \in DOMAIN players'[l] \ DOMAIN players[l] :
                       task[players'[l][i]].req.type = "createLobby"
<1> DEFINE Step ==
        \A l \in Lobbies :
            locked[l] \/ Size(players[l]) = MaxPlayers =>
                \A i \in DOMAIN players'[l] \ DOMAIN players[l] :
                    task[players'[l][i]].req.type = "createLobby"
<1> SUFFICES Step
  OBVIOUS
<1>1. CASE UNCHANGED players
  BY <1>1
<1>2. ASSUME NEW s \in Sessions, EnterLobby(s) PROVE Step
  <2>1. \/ task[s].req.type = "createLobby"
        \/ CanJoin(players[lobby_[s]], locked[lobby_[s]])
    BY <1>2 DEF EnterLobby
  <2>2. players[lobby_[s]] \in Rosters(Sessions)
    BY <1>2 DEF IInv, TypeOK, HandlerOK, EnterLobby, At
  <2>3. CanJoin(players[lobby_[s]], locked[lobby_[s]]) =>
            ~locked[lobby_[s]] /\ Size(players[lobby_[s]]) # MaxPlayers
    BY <2>2, RosterSize, MaxPlayersAssumption DEF CanJoin
  <2>4. QED
    BY <1>2, <2>1, <2>3, EnterLobbyResult
<1>3. ASSUME NEW s \in Sessions, LeaveLobby(s) PROVE Step
  BY <1>3, LeaveLobbyResult
<1>4. QED
  BY <1>1, <1>2, <1>3, ListsChange

\* Nobody but its creator ever enters a locked or full lobby, however the
\* handlers of the connections are interleaved.
THEOREM ClosedLobbies == Spec => NoEntryWhenClosed
<1> DEFINE Step ==
        \A l \in Lobbies :
            locked[l] \/ Size(players[l]) = MaxPlayers =>
                \A i \in DOMAIN players'[l] \ DOMAIN players[l] :
                    task[players'[l][i]].req.type = "createLobby"
<1>1. IInv /\ [Next]_vars => Step
  BY ClosedStep
<1>2. QED
  BY <1>1, Invariance, PTL DEF Spec, NoEntryWhenClosed

\* The ids of two lists, one step apart, that are in both have the same player,
\* and one id at most is in one of them only.
LEMMA StableStep ==
    ASSUME IInv, [Next]_vars
    PROVE  \A l \in Lobbies :
               /\ \A i \in DOMAIN players[l] \cap DOMAIN players'[l] :
                      players'[l][i] = players[l][i]
               /\ Cardinality((DOMAIN players[l] \cup DOMAIN players'[l]) \
                              (DOMAIN players[l] \cap DOMAIN players'[l])) <= 1
<1> DEFINE Difference(l) ==
        (DOMAIN players[l] \cup DOMAIN players'[l]) \
            (DOMAIN players[l] \cap DOMAIN players'[l])
    Step == \A l \in Lobbies :
                /\ \A i \in DOMAIN players[l] \cap DOMAIN players'[l] :
                       players'[l][i] = players[l][i]
                /\ Cardinality(Difference(l)) <= 1
<1> SUFFICES Step
  OBVIOUS
<1>1. Cardinality({}) = 0 /\ \A x : Cardinality({x}) = 1
  BY FS_EmptySet, FS_Singleton
<1>2. CASE UNCHANGED players
  <2>1. \A l \in Lobbies : Difference(l) = {}
    BY <1>2
  <2>2. QED
    BY <1>1, <1>2, <2>1
<1>3. ASSUME NEW s \in Sessions, EnterLobby(s) PROVE Step
  <2>1. PICK id \in Ids :
            LET l == lobby_[s]
            IN  /\ l \in Lobbies
                /\ id \notin DOMAIN players[l]
                /\ DOMAIN players'[l] = DOMAIN players[l] \cup {id}
                /\ players'[l][id] = s
                /\ \A i \in DOMAIN players[l] : players'[l][i] = players[l][i]
                /\ \A k \in Lobbies \ {l} : players'[k] = players[k]
    BY <1>3, EnterLobbyResult
  <2>2. \A l \in Lobbies : Difference(l) = {} \/ Difference(l) = {id}
    BY <2>1
  <2> HIDE DEF Difference
  <2>3. \A l \in Lobbies : Cardinality(Difference(l)) \in {0, 1}
    BY <1>1, <2>2, Zenon
  <2>4. \A l \in Lobbies : Cardinality(Difference(l)) <= 1
    BY <2>3
  <2> USE DEF Difference
  <2>5. QED
    BY <2>1, <2>4
<1>4. ASSUME NEW s \in Sessions, LeaveLobby(s) PROVE Step
  <2>1. PICK id \in DOMAIN players[lobby_[s]] :
            LET l == lobby_[s]
            IN  /\ l \in Lobbies
                /\ DOMAIN players'[l] = DOMAIN players[l] \ {id}
                /\ \A i \in DOMAIN players'[l] : players'[l][i] = players[l][i]
                /\ \A k \in Lobbies \ {l} : players'[k] = players[k]
    BY <1>4, LeaveLobbyResult
  <2>2. \A l \in Lobbies : Difference(l) = {} \/ Difference(l) = {id}
    BY <2>1
  <2> HIDE DEF Difference
  <2>3. \A l \in Lobbies : Cardinality(Difference(l)) \in {0, 1}
    BY <1>1, <2>2, Zenon
  <2>4. \A l \in Lobbies : Cardinality(Difference(l)) <= 1
    BY <2>3
  <2> USE DEF Difference
  <2>5. QED
    BY <2>1, <2>4
<1>5. QED
  BY <1>2, <1>3, <1>4, ListsChange

\* A step seats or unseats at most one player and moves nobody.
THEOREM StableSeats == Spec => SeatsAreStable
<1> DEFINE Step ==
        \A l \in Lobbies :
            /\ \A i \in DOMAIN players[l] \cap DOMAIN players'[l] :
                   players'[l][i] = players[l][i]
            /\ Cardinality((DOMAIN players[l] \cup DOMAIN players'[l]) \
                           (DOMAIN players[l] \cap DOMAIN players'[l])) <= 1
<1>1. IInv /\ [Next]_vars => Step
  BY StableStep
<1>2. QED
  BY <1>1, Invariance, PTL DEF Spec, SeatsAreStable

\* What a lobby promises, with the list of lobby l for the roster.
SeatsOf(l) == INSTANCE Seats WITH roster <- players[l], Connections <- Sessions

\* What a step does to the list of a lobby is a step of Seats.
LEMMA SeatsStep ==
    ASSUME IInv, [Next]_vars, NEW l \in Lobbies
    PROVE  [SeatsOf(l)!Next]_(players[l])
<1> SUFFICES ASSUME players'[l] # players[l]
             PROVE  SeatsOf(l)!Next
  OBVIOUS
<1>1. players \in [Lobbies -> Rosters(Sessions)]
  BY DEF IInv, TypeOK
<1>2. ASSUME NEW s \in Sessions, EnterLobby(s) PROVE SeatsOf(l)!Next
  <2>1. /\ players' = [players EXCEPT ![lobby_[s]] = AddPlayer(players[lobby_[s]], s)]
        /\ \/ Size(players[lobby_[s]]) < MaxPlayers
           \/ CanJoin(players[lobby_[s]], locked[lobby_[s]])
    BY <1>2 DEF EnterLobby
  <2>2. lobby_[s] = l
    BY <1>1, <2>1
  <2>3. CanJoin(players[l], FALSE)
    BY <2>1, <2>2 DEF CanJoin
  <2>4. players'[l] = AddPlayer(players[l], s)
    BY <1>1, <2>1, <2>2
  <2>5. SeatsOf(l)!CanJoin(players[l], FALSE)
    BY <2>3 DEF CanJoin, Size, Cardinality, SeatsOf!CanJoin, SeatsOf!Size,
                SeatsOf!Cardinality
  <2>6. players'[l] = SeatsOf(l)!AddPlayer(players[l], s)
    BY <2>4 DEF AddPlayer, NextPlayerId, SeatsOf!AddPlayer, SeatsOf!NextPlayerId
  <2> QED
    BY <2>5, <2>6 DEF SeatsOf!Next, SeatsOf!Enter
<1>3. ASSUME NEW s \in Sessions, LeaveLobby(s) PROVE SeatsOf(l)!Next
  <2>1. PICK id \in StoredIds(s) \cap DOMAIN players[lobby_[s]] :
            players' = [players EXCEPT ![lobby_[s]] =
                           RemovePlayer(players[lobby_[s]], id)]
    BY <1>3 DEF LeaveLobby
  <2>2. lobby_[s] = l
    BY <1>1, <2>1
  <2>3. id \in DOMAIN players[l] /\ id \in Ids
    BY <1>1, <2>1, <2>2, RosterSize
  <2>4. players'[l] = RemovePlayer(players[l], id)
    BY <1>1, <2>1, <2>2
  <2> QED
    BY <2>3, <2>4
    DEF Ids, RemovePlayer, SeatsOf!Next, SeatsOf!Leave, SeatsOf!Ids,
        SeatsOf!RemovePlayer
<1> QED
  BY <1>2, <1>3, ListsChange

\* The handlers of all connections together, with the lobby they took from
\* lobby_ before they waited for the mutex, do to the list of every lobby what
\* Seats allows: who enters takes the least free id of a list that is not full,
\* who leaves gives up his own id only, and nothing else changes the list.
THEOREM ListsAreSeats ==
    ASSUME NEW l \in Lobbies
    PROVE  Spec => SeatsOf(l)!Spec
<1>1. Init => SeatsOf(l)!Init
  BY DEF Init, EmptyRoster, SeatsOf!Init, SeatsOf!EmptyRoster
<1>2. IInv /\ [Next]_vars => [SeatsOf(l)!Next]_(players[l])
  BY SeatsStep
<1> QED
  BY <1>1, <1>2, Invariance, PTL DEF Spec, SeatsOf!Spec

\* A step makes a session hold a lobby only if somebody held it before or if
\* its name is new.
LEMMA LobbiesHeld ==
    ASSUME IInv, [Next]_vars, NEW t \in Sessions, lobby_'[t] # Null
    PROVE  LobbyAlive(lobby_'[t]) \/ lobby_'[t] \notin names
<1> USE DEF Abort, sessionVars, lobbyVars, mutexVars
<1>1. CASE lobby_'[t] = lobby_[t]
  BY <1>1 DEF LobbyAlive
<1>2. ASSUME NEW s \in Sessions, CreateLobby(s) \/ GetLobby(s)
      PROVE  LobbyAlive(lobby_'[t]) \/ lobby_'[t] \notin names
  <2>1. lobby_ \in [Sessions -> Lobbies \cup {Null}]
    BY DEF IInv, TypeOK
  <2>2. CASE t = s
    BY <1>2, <2>1, <2>2 DEF CreateLobby, GetLobby, Found
  <2>3. CASE t # s
    BY <1>1, <1>2, <2>1, <2>3 DEF CreateLobby, GetLobby
  <2>4. QED
    BY <2>2, <2>3
<1>3. ASSUME NEW s \in Sessions, Destroy(s) \/ ResetLobby(s)
      PROVE  lobby_'[t] = lobby_[t]
  BY <1>3 DEF IInv, TypeOK, Destroy, ResetLobby
<1>4. ASSUME NEW s \in Sessions, Handle(s), ~CreateLobby(s), ~GetLobby(s),
             ~ResetLobby(s)
      PROVE  lobby_'[t] = lobby_[t]
  BY <1>4 DEF Handle, IgnoreMessage, StartHandler, FailPlayerIdAssert, LockContext,
              EnterLobby, RejectJoin, FailSizeAssert, LeaveLobby, FailRemoveAssert,
              SetLobbyLocked, RelayMessage, EncodeLobbyUpdate, Respond, PostNext,
              Unlock
<1>5. ASSUME NEW s \in Sessions, HangUp(s)
      PROVE  lobby_'[t] = lobby_[t]
  BY <1>5 DEF HangUp
<1>6. ASSUME NEW s \in Sessions, NEW r \in Requests, ProcessReadBuf(s, r)
      PROVE  lobby_'[t] = lobby_[t]
  BY <1>6 DEF ProcessReadBuf
<1>7. CASE Stopped \/ UNCHANGED vars \/ \E s \in Sessions : DrawUsedName(s)
  <2>1. lobby_' = lobby_
    BY <1>7 DEF Stopped, DrawUsedName, vars
  <2>2. QED
    BY <1>1, <2>1
<1>8. QED
  BY <1>1, <1>2, <1>3, <1>4, <1>5, <1>6, <1>7 DEF Next

\* A step does not make anybody hold a lobby that is lost, nor its mutex.
LEMMA LostStep ==
    ASSUME IInv, [Next]_vars
    PROVE  \A l \in names : ~LobbyAlive(l) => ~LobbyAlive(l)' /\ UniqueFree(l)
<1> SUFFICES ASSUME NEW l \in names, ~LobbyAlive(l)
             PROVE  ~LobbyAlive(l)' /\ UniqueFree(l)
  OBVIOUS
<1>1. l \in Lobbies /\ l # Null
  BY SessionAssumption DEF IInv, TypeOK
<1>2. UniqueFree(l)
  BY <1>1 DEF IInv, TypeOK, MutexOK, UniqueFree, LobbyAlive
<1>3. ~LobbyAlive(l)'
  BY <1>1, LobbiesHeld DEF LobbyAlive
<1>4. QED
  BY <1>2, <1>3

\* A lobby nobody holds any more is free of locks and is never found again, so
\* no handler is left with the mutex of a lobby that was destroyed.
THEOREM LostLobbies == Spec => LostLobbiesStayLost
<1> DEFINE Step ==
        \A l \in names : ~LobbyAlive(l) => ~LobbyAlive(l)' /\ UniqueFree(l)
<1>1. IInv /\ [Next]_vars => Step
  BY LostStep
<1>2. QED
  BY <1>1, Invariance, PTL DEF Spec, LostLobbiesStayLost
-----------------------------------------------------------------------------
(* The order of relayed messages                                           *)

\* Why relays keep their order: what a handler relays, or is about to, is newer
\* than what has been relayed for its connection and older than what waits on
\* the strand, where the oldest comes first.
IsSend(r) == r.type = "sendMessage"
IsRelay(m) == m.type = "relayMessage"
Relaying(s) == \/ task[s].pc = "sendMessage"
               \/ task[s].pc = "post" /\ IsRelay(task[s].msg)
RelayedData(s) ==
    IF task[s].pc = "sendMessage" THEN task[s].req.data ELSE task[s].msg.data

WaitingInOrder ==
    \A s \in Sessions : \A j \in DOMAIN strand[s] : IsSend(strand[s][j]) =>
        /\ strand[s][j].data <= received
        /\ \A i \in 1 .. j - 1 :
               IsSend(strand[s][i]) => strand[s][i].data < strand[s][j].data
RelayingInOrder ==
    \A s \in Sessions :
        /\ task[s].pc = "post" /\ IsRelay(task[s].msg) => task[s].msg.author = s
        /\ task[s].pc = "respond" => ~IsRelay(task[s].msg)
        /\ Relaying(s) =>
            /\ RelayedData(s) <= received
            /\ \A j \in DOMAIN strand[s] :
                   IsSend(strand[s][j]) => RelayedData(s) < strand[s][j].data
RelayedBefore(d, s) ==
    /\ d <= received
    /\ Relaying(s) => d <= RelayedData(s)
    /\ \A j \in DOMAIN strand[s] : IsSend(strand[s][j]) => d < strand[s][j].data
OrderInv ==
    /\ WaitingInOrder
    /\ RelayingInOrder
    /\ \A r \in Sessions : \A k \in DOMAIN out[r] :
           IsRelay(out[r][k]) => RelayedBefore(out[r][k].data, out[r][k].author)
    /\ RelaysInOrder

\* No relay is new in a stream, and none has moved.
OldRelays ==
    \A r \in Sessions : \A k \in DOMAIN out'[r] :
        IsRelay(out'[r][k]) => k \in DOMAIN out[r] /\ out'[r][k] = out[r][k]

LEMMA RelayFields ==
    ASSUME NEW m \in Messages
    PROVE  /\ m.type \in {"lobbyJoined", "updateLobby", "relayMessage"}
           /\ IsRelay(m) => m.author \in Sessions /\ m.data \in Nat
BY DEF IsRelay, Messages, JoinedMessages, UpdateMessages, RelayMessages, Data

LEMMA SendData ==
    ASSUME NEW r \in Requests, IsSend(r)
    PROVE  r.data \in Nat
BY RequestFields DEF IsSend, Data

LEMMA OtherMessages ==
    ASSUME NEW l, NEW id, NEW R
    PROVE  ~IsRelay(Joined(l, id)) /\ ~IsRelay(Update(l, R))
BY DEF IsRelay, Joined, Update

LEMMA SendOldRelays ==
    ASSUME TypeOK, NEW r, NEW m \in Messages, ~IsRelay(m), Send(r, m)
    PROVE  OldRelays
<1>1. \A s \in Sessions : \/ out'[s] = out[s]
                          \/ out'[s] = Append(out[s], m)
  BY DEF TypeOK, Send
<1>2. ASSUME NEW s \in Sessions, NEW k \in DOMAIN out'[s], IsRelay(out'[s][k])
      PROVE  k \in DOMAIN out[s] /\ out'[s][k] = out[s][k]
  <2>1. out[s] \in Seq(Messages)
    BY DEF TypeOK
  <2>2. CASE out'[s] = out[s]
    BY <1>2, <2>2
  <2>3. CASE out'[s] = Append(out[s], m)
    <3>1. /\ k \in 1 .. Len(out[s]) + 1
          /\ k <= Len(out[s]) => out'[s][k] = out[s][k]
          /\ k = Len(out[s]) + 1 => out'[s][k] = m
      BY <1>2, <2>1, <2>3
    <3>2. QED
      BY <1>2, <2>1, <3>1
  <2>4. QED
    BY <1>1, <2>2, <2>3
<1>3. QED
  BY <1>2 DEF OldRelays

\* How the message that a handler relays has got there.
StillRelays(s) == Relaying(s) /\ RelayedData(s)' = RelayedData(s)
BeginsToRelay(s) ==
    /\ IsSend(Head(strand[s]))
    /\ RelayedData(s)' = Head(strand[s]).data
    /\ strand[s] # <<>>
    /\ strand'[s] = Tail(strand[s])

\* A step of one handler that adds no relay to a stream keeps the order.
LEMMA OrderedStep ==
    ASSUME IInv, OrderInv, NEW s \in Sessions, OldRelays, received' = received,
           \A t \in Sessions \ {s} : task'[t] = task[t] /\ strand'[t] = strand[t],
           \/ strand'[s] = strand[s]
           \/ strand[s] # <<>> /\ strand'[s] = Tail(strand[s]),
           Relaying(s)' => StillRelays(s) \/ BeginsToRelay(s),
           task'[s].pc = "post" /\ IsRelay(task'[s].msg) => task'[s].msg.author = s,
           task'[s].pc = "respond" => ~IsRelay(task'[s].msg)
    PROVE  OrderInv'
<1>1. /\ strand \in [Sessions -> Seq(Requests)]
      /\ out \in [Sessions -> Seq(Messages)]
      /\ received \in Nat
  BY SessionAssumption DEF IInv, TypeOK
<1>2. \A t \in Sessions : \A j \in DOMAIN strand'[t] :
          \E d \in {0, 1} :
              /\ j + d \in DOMAIN strand[t]
              /\ strand'[t][j] = strand[t][j + d]
              /\ \A i \in 1 .. j - 1 : strand'[t][i] = strand[t][i + d]
  <2> SUFFICES ASSUME NEW t \in Sessions, NEW j \in DOMAIN strand'[t]
               PROVE  \E d \in {0, 1} :
                          /\ j + d \in DOMAIN strand[t]
                          /\ strand'[t][j] = strand[t][j + d]
                          /\ \A i \in 1 .. j - 1 : strand'[t][i] = strand[t][i + d]
    OBVIOUS
  <2>1. strand[t] \in Seq(Requests)
    BY <1>1
  <2>2. CASE strand'[t] = strand[t]
    BY <2>1, <2>2
  <2>3. CASE strand[t] # <<>> /\ strand'[t] = Tail(strand[t])
    BY <2>1, <2>3
  <2>4. QED
    BY <2>2, <2>3
<1>3. WaitingInOrder'
  <2> SUFFICES ASSUME NEW t \in Sessions, NEW j \in DOMAIN strand'[t],
                      IsSend(strand'[t][j])
               PROVE  /\ strand'[t][j].data <= received
                      /\ \A i \in 1 .. j - 1 : IsSend(strand'[t][i]) =>
                             strand'[t][i].data < strand'[t][j].data
    BY DEF WaitingInOrder
  <2>1. PICK d \in {0, 1} :
            /\ j + d \in DOMAIN strand[t]
            /\ strand'[t][j] = strand[t][j + d]
            /\ \A i \in 1 .. j - 1 : strand'[t][i] = strand[t][i + d]
    BY <1>2
  <2>2. j \in Nat /\ \A i \in 1 .. j - 1 : i + d \in 1 .. (j + d) - 1
    <3>1. j + d \in 1 .. Len(strand[t])
      BY <1>1, <2>1
    <3>2. strand'[t] \in Seq(Requests)
      <4>1. strand[t] \in Seq(Requests)
        BY <1>1
      <4>2. strand[t] # <<>> => Tail(strand[t]) \in Seq(Requests)
        BY <4>1
      <4>3. QED
        BY <4>1, <4>2
    <3>3. QED
      BY <3>1, <3>2
  <2>3. QED
    BY <2>1, <2>2 DEF OrderInv, WaitingInOrder
<1>4. ASSUME NEW t \in Sessions, NEW j \in DOMAIN strand'[t]
      PROVE  \E i \in DOMAIN strand[t] : strand'[t][j] = strand[t][i]
  BY <1>2
<1>5. \A t \in Sessions : Relaying(t)' => StillRelays(t) \/ BeginsToRelay(t)
  BY DEF StillRelays, Relaying, RelayedData
<1>6. RelayingInOrder'
  <2>1. ASSUME NEW t \in Sessions, Relaying(t)', NEW j \in DOMAIN strand'[t],
               IsSend(strand'[t][j])
        PROVE  RelayedData(t)' < strand'[t][j].data
    <3>1. CASE StillRelays(t)
      BY <1>4, <2>1, <3>1 DEF OrderInv, RelayingInOrder, StillRelays
    <3>2. CASE BeginsToRelay(t)
      <4>1. strand[t] \in Seq(Requests)
        BY <1>1
      <4>2. /\ j + 1 \in DOMAIN strand[t]
            /\ strand'[t][j] = strand[t][j + 1]
            /\ 1 \in 1 .. (j + 1) - 1
            /\ Head(strand[t]) = strand[t][1]
        BY <2>1, <3>2, <4>1 DEF BeginsToRelay
      <4>3. QED
        BY <2>1, <3>2, <4>2 DEF OrderInv, WaitingInOrder, BeginsToRelay
    <3>3. QED
      BY <1>5, <2>1, <3>1, <3>2
  <2>2. ASSUME NEW t \in Sessions, Relaying(t)'
        PROVE  RelayedData(t)' <= received
    <3>1. CASE StillRelays(t)
      BY <3>1 DEF OrderInv, RelayingInOrder, StillRelays
    <3>2. CASE BeginsToRelay(t)
      <4>1. 1 \in DOMAIN strand[t] /\ Head(strand[t]) = strand[t][1]
        BY <1>1, <3>2 DEF BeginsToRelay
      <4>2. QED
        BY <3>2, <4>1 DEF OrderInv, WaitingInOrder, BeginsToRelay
    <3>3. QED
      BY <1>5, <2>2, <3>1, <3>2
  <2>3. ASSUME NEW t \in Sessions
        PROVE  /\ task'[t].pc = "post" /\ IsRelay(task'[t].msg) =>
                      task'[t].msg.author = t
               /\ task'[t].pc = "respond" => ~IsRelay(task'[t].msg)
    BY DEF OrderInv, RelayingInOrder
  <2>4. QED
    BY <2>1, <2>2, <2>3 DEF RelayingInOrder
<1>7. ASSUME NEW r \in Sessions, NEW k \in DOMAIN out'[r], IsRelay(out'[r][k]),
             NEW d, NEW a, d = out'[r][k].data, a = out'[r][k].author
      PROVE  RelayedBefore(d, a)'
  <2>1. k \in DOMAIN out[r] /\ out'[r][k] = out[r][k] /\ out[r][k] \in Messages
    BY <1>1, <1>7 DEF OldRelays
  <2>2. RelayedBefore(d, a) /\ a \in Sessions /\ d \in Nat
    BY <1>7, <2>1, RelayFields DEF OrderInv
  <2>3. ASSUME Relaying(a)' PROVE d <= RelayedData(a)'
    <3>1. CASE StillRelays(a)
      BY <2>2, <3>1 DEF StillRelays, RelayedBefore
    <3>2. CASE BeginsToRelay(a)
      <4>1. /\ 1 \in DOMAIN strand[a]
            /\ Head(strand[a]) = strand[a][1]
            /\ strand[a][1] \in Requests
        BY <1>1, <2>2, <3>2 DEF BeginsToRelay
      <4>2. d < strand[a][1].data /\ strand[a][1].data \in Nat
        BY <2>2, <3>2, <4>1, SendData DEF BeginsToRelay, RelayedBefore
      <4>3. QED
        BY <2>2, <3>2, <4>1, <4>2 DEF BeginsToRelay
    <3>3. QED
      BY <1>5, <2>2, <2>3, <3>1, <3>2
  <2>4. ASSUME NEW j \in DOMAIN strand'[a], IsSend(strand'[a][j])
        PROVE  d < strand'[a][j].data
    BY <1>4, <2>2, <2>4 DEF RelayedBefore
  <2>5. QED
    BY <2>2, <2>3, <2>4 DEF RelayedBefore
<1>8. RelaysInOrder'
  <2>1. \A r \in Sessions : DOMAIN out'[r] \cap {k \in DOMAIN out'[r] : IsRelay(out'[r][k])}
                              \subseteq DOMAIN out[r]
    BY DEF OldRelays
  <2>2. QED
    BY <2>1 DEF OrderInv, RelaysInOrder, OldRelays, IsRelay
<1>9. QED
  BY <1>3, <1>6, <1>7, <1>8 DEF OrderInv


LEMMA ProcessReadBufOrdered ==
    ASSUME IInv, OrderInv, NEW s \in Sessions, NEW r \in Requests,
           ProcessReadBuf(s, r)
    PROVE  OrderInv'
<1>1. /\ strand \in [Sessions -> Seq(Requests)]
      /\ out \in [Sessions -> Seq(Messages)]
      /\ received \in Nat
      /\ received' = received + 1
      /\ strand' = [strand EXCEPT ![s] = Append(@, r)]
      /\ IsSend(r) => r.data = received + 1
      /\ UNCHANGED <<task, out>>
  BY SessionAssumption DEF IInv, TypeOK, ProcessReadBuf, IsSend
<1>2. ASSUME NEW t \in Sessions, NEW j \in DOMAIN strand'[t]
      PROVE  /\ \/ /\ j \in DOMAIN strand[t]
                   /\ strand'[t][j] = strand[t][j]
                \/ /\ t = s
                   /\ strand'[t][j] = r
             /\ \A i \in 1 .. j - 1 : /\ i \in DOMAIN strand[t]
                                       /\ strand'[t][i] = strand[t][i]
  <2>1. strand[t] \in Seq(Requests)
    BY <1>1
  <2>2. CASE t = s
    <3>1. strand'[t] = Append(strand[t], r)
      BY <1>1, <2>2
    <3>2. QED
      BY <1>2, <2>1, <2>2, <3>1
  <2>3. CASE t # s
    <3>1. strand'[t] = strand[t]
      BY <1>1, <2>3
    <3>2. QED
      BY <1>2, <2>1, <3>1
  <2>4. QED
    BY <2>2, <2>3
<1>3. ASSUME NEW t \in Sessions, NEW j \in DOMAIN strand[t], IsSend(strand[t][j])
      PROVE  strand[t][j].data \in Nat /\ strand[t][j].data <= received
  BY <1>1, <1>3, SendData DEF OrderInv, WaitingInOrder
<1>4. WaitingInOrder'
  BY <1>1, <1>2, <1>3 DEF OrderInv, WaitingInOrder
<1>5. \A t \in Sessions : /\ Relaying(t)' <=> Relaying(t)
                          /\ RelayedData(t)' = RelayedData(t)
  BY <1>1 DEF Relaying, RelayedData
<1>6. ASSUME NEW t \in Sessions, Relaying(t)
      PROVE  RelayedData(t) \in Nat /\ RelayedData(t) <= received
  <2>1. task[t] \in Tasks /\ HandlerOK(t)
    BY DEF IInv, TypeOK, Tasks
  <2>2. CASE task[t].pc = "sendMessage"
    <3>1. task[t].req \in Requests /\ task[t].req.type = "sendMessage"
      BY <2>1, <2>2 DEF HandlerOK, WaitPoints, LobbyCommands
    <3>2. QED
      BY <1>6, <2>2, <3>1, SendData DEF OrderInv, RelayingInOrder, RelayedData, IsSend
  <2>3. CASE task[t].pc = "post" /\ IsRelay(task[t].msg)
    <3>1. task[t].msg \in Messages
      BY <2>1, <2>3 DEF HandlerOK
    <3>2. QED
      BY <1>6, <2>3, <3>1, RelayFields DEF OrderInv, RelayingInOrder, RelayedData
  <2>4. QED
    BY <1>6, <2>2, <2>3 DEF Relaying
<1>7. RelayingInOrder'
  <2>1. ASSUME NEW t \in Sessions, Relaying(t)
        PROVE  /\ RelayedData(t) <= received + 1
               /\ \A j \in DOMAIN strand'[t] :
                      IsSend(strand'[t][j]) => RelayedData(t) < strand'[t][j].data
    BY <1>1, <1>2, <1>6, <2>1 DEF OrderInv, RelayingInOrder
  <2>2. QED
    BY <1>1, <1>5, <2>1 DEF OrderInv, RelayingInOrder
<1>8. ASSUME NEW q \in Sessions, NEW k \in DOMAIN out[q], IsRelay(out[q][k]),
             NEW d, NEW a, d = out[q][k].data, a = out[q][k].author
      PROVE  RelayedBefore(d, a)'
  <2>1. RelayedBefore(d, a) /\ a \in Sessions /\ d \in Nat
    BY <1>1, <1>8, RelayFields DEF OrderInv
  <2>2. QED
    BY <1>1, <1>2, <1>5, <2>1 DEF RelayedBefore
<1>9. RelaysInOrder'
  BY <1>1 DEF OrderInv, RelaysInOrder
<1>10. QED
  BY <1>1, <1>4, <1>7, <1>8, <1>9 DEF OrderInv

LEMMA PostNextOrdered ==
    ASSUME IInv, OrderInv, NEW s \in Sessions, PostNext(s)
    PROVE  OrderInv'
<1> DEFINE m == task[s].msg
<1>1. PICK q : Send(q, m)
  BY DEF PostNext
<1>2. /\ strand \in [Sessions -> Seq(Requests)]
      /\ out \in [Sessions -> Seq(Messages)]
      /\ task[s].pc = "post"
      /\ m \in Messages
      /\ UNCHANGED <<strand, received>>
  BY DEF IInv, TypeOK, HandlerOK, PostNext, At
<1>3. \A t \in Sessions : /\ task'[t].pc = task[t].pc
                          /\ task'[t].req = task[t].req
                          /\ task'[t].msg = task[t].msg
                          /\ t # s => task'[t] = task[t]
  BY DEF PostNext, IInv, TypeOK
<1>4. \A t \in Sessions : /\ Relaying(t)' <=> Relaying(t)
                          /\ RelayedData(t)' = RelayedData(t)
  BY <1>3 DEF Relaying, RelayedData
<1>5. CASE ~IsRelay(m)
  <2>1. OldRelays
    BY <1>1, <1>2, <1>5, SendOldRelays DEF IInv
  <2>2. QED
    BY <1>2, <1>3, <1>4, <1>5, <2>1, OrderedStep DEF StillRelays
<1>6. CASE IsRelay(m)
  <2>1. /\ m.author = s /\ m.data \in Nat
        /\ Relaying(s) /\ RelayedData(s) = m.data
        /\ RelayedBefore(m.data, s)
    BY <1>2, <1>6, RelayFields
    DEF OrderInv, RelayingInOrder, Relaying, RelayedData, RelayedBefore
  <2> HIDE DEF m
  <2>2. ASSUME NEW r \in Sessions
        PROVE  \/ out'[r] = out[r]
               \/ out'[r] = Append(out[r], m)
    BY <1>1, <1>2 DEF Send
  <2>3. ASSUME NEW r \in Sessions, NEW k \in DOMAIN out'[r]
        PROVE  \/ k \in DOMAIN out[r] /\ out'[r][k] = out[r][k]
               \/ /\ out'[r][k] = m
                  /\ \A i \in DOMAIN out'[r] : i < k =>
                         i \in DOMAIN out[r] /\ out'[r][i] = out[r][i]
    <3>1. out[r] \in Seq(Messages)
      BY <1>2
    <3>2. CASE out'[r] = out[r]
      BY <2>3, <3>2
    <3>3. CASE out'[r] = Append(out[r], m)
      BY <1>2, <2>3, <3>1, <3>3
    <3>4. QED
      BY <2>2, <3>2, <3>3
  <2>4. ASSUME NEW r \in Sessions, NEW k \in DOMAIN out'[r], IsRelay(out'[r][k]),
               NEW d, NEW a, d = out'[r][k].data, a = out'[r][k].author
        PROVE  RelayedBefore(d, a) /\ RelayedBefore(d, a)'
    <3>1. RelayedBefore(d, a)
      BY <2>1, <2>3, <2>4 DEF OrderInv
    <3>2. out'[r][k] = m \/ out'[r][k] \in Messages
      BY <1>2, <2>3
    <3>3. a \in Sessions
      BY <2>1, <2>4, <3>2, RelayFields
    <3>4. QED
      BY <1>2, <1>4, <3>1, <3>3 DEF RelayedBefore
  <2>5. WaitingInOrder' /\ RelayingInOrder'
    BY <1>2, <1>3, <1>4 DEF OrderInv, WaitingInOrder, RelayingInOrder
  <2>6. RelaysInOrder'
    <3> SUFFICES ASSUME NEW r \in Sessions,
                        NEW i \in DOMAIN out'[r], NEW j \in DOMAIN out'[r], i < j,
                        IsRelay(out'[r][i]), IsRelay(out'[r][j]),
                        out'[r][i].author = out'[r][j].author
                 PROVE  out'[r][i].data <= out'[r][j].data
      BY DEF RelaysInOrder, IsRelay
    <3>1. CASE j \in DOMAIN out[r] /\ out'[r][j] = out[r][j]
      <4>1. i \in DOMAIN out[r] /\ out'[r][i] = out[r][i]
        <5>1. out[r] \in Seq(Messages)
          BY <1>2
        <5>2. CASE out'[r] = out[r]
          BY <5>2
        <5>3. CASE out'[r] = Append(out[r], m)
          BY <1>2, <3>1, <5>1, <5>3
        <5>4. QED
          BY <2>2, <5>2, <5>3
      <4>2. QED
        BY <3>1, <4>1 DEF OrderInv, RelaysInOrder, IsRelay
    <3>2. CASE out'[r][j] = m /\ i \in DOMAIN out[r] /\ out'[r][i] = out[r][i]
      BY <2>1, <3>2 DEF OrderInv, RelayedBefore
    <3>3. QED
      BY <2>3, <3>1, <3>2
  <2>7. QED
    BY <2>4, <2>5, <2>6 DEF OrderInv
<1>7. QED
  BY <1>5, <1>6

\* The other steps of the handlers.
LEMMA HandleOrdered ==
    ASSUME IInv, OrderInv, NEW s \in Sessions, Handle(s)
    PROVE  OrderInv'
<1> USE DEF sessionVars, lobbyVars, mutexVars
<1>1. /\ task \in [Sessions -> Tasks]
      /\ strand \in [Sessions -> Seq(Requests)]
      /\ out \in [Sessions -> Seq(Messages)]
  BY DEF IInv, TypeOK, Tasks
<1>2. ASSUME UNCHANGED out PROVE OldRelays
  BY <1>2 DEF OldRelays
<1>3. CASE FailPlayerIdAssert(s) \/ FailSizeAssert(s) \/ FailRemoveAssert(s)
  <2>1. UNCHANGED <<task, strand, out, received>>
    BY <1>3 DEF FailPlayerIdAssert, FailSizeAssert, FailRemoveAssert, Abort
  <2>2. Relaying(s)' => StillRelays(s)
    BY <2>1 DEF StillRelays, Relaying, RelayedData
  <2>3. /\ task[s].pc = "post" /\ IsRelay(task[s].msg) => task[s].msg.author = s
        /\ task[s].pc = "respond" => ~IsRelay(task[s].msg)
    BY DEF OrderInv, RelayingInOrder
  <2>4. QED
    BY <1>2, <2>1, <2>2, <2>3, OrderedStep
<1>4. CASE IgnoreMessage(s)
  <2>1. /\ UNCHANGED <<task, out, received>>
        /\ strand' = [strand EXCEPT ![s] = Tail(@)]
        /\ strand[s] # <<>>
        /\ task[s].pc = "idle"
    BY <1>4 DEF IgnoreMessage, Begin, Dequeue, At
  <2>2. ~Relaying(s)'
    BY <2>1 DEF Relaying
  <2>3. QED
    BY <1>1, <1>2, <2>1, <2>2, OrderedStep
<1>5. CASE StartHandler(s)
  <2> DEFINE r == Head(strand[s])
  <2>1. /\ UNCHANGED <<out, received>>
        /\ strand' = [strand EXCEPT ![s] = Tail(@)]
        /\ strand[s] # <<>>
        /\ task' = [task EXCEPT ![s].pc = r.type, ![s].req = r]
        /\ r.type \in WaitPoints
    BY <1>5 DEF StartHandler, Begin, Dequeue, WaitPoints
  <2> HIDE DEF r
  <2>2. /\ \A t \in Sessions \ {s} : task'[t] = task[t] /\ strand'[t] = strand[t]
        /\ task'[s].pc = r.type
        /\ task'[s].req = r
        /\ r.type # "post" /\ r.type # "respond"
        /\ strand'[s] = Tail(strand[s])
    BY <1>1, <2>1 DEF Tasks, WaitPoints, LobbyCommands
  <2>3. Relaying(s)' => BeginsToRelay(s)
    BY <2>1, <2>2 DEF Relaying, RelayedData, BeginsToRelay, IsSend, r
  <2>4. QED
    BY <1>2, <2>1, <2>2, <2>3, OrderedStep
<1>6. CASE LockContext(s) \/ CreateLobby(s) \/ GetLobby(s) \/ RejectJoin(s)
           \/ ResetLobby(s) \/ SetLobbyLocked(s)
  <2>1. UNCHANGED <<strand, out, received>>
    BY <1>6 DEF LockContext, CreateLobby, GetLobby, RejectJoin, ResetLobby,
                SetLobbyLocked
  <2>2. \/ Finish(s)
        \/ \E pc \in {"naming", "enter"} : Goto(s, pc)
    BY <1>6 DEF LockContext, CreateLobby, GetLobby, RejectJoin, ResetLobby,
                SetLobbyLocked
  <2>3. /\ task'[s].pc \in {"idle", "naming", "enter"}
        /\ \A t \in Sessions \ {s} : task'[t] = task[t]
    BY <1>1, <2>2, IdleType DEF Finish, Goto, Tasks
  <2>4. ~Relaying(s)'
    BY <2>3 DEF Relaying
  <2>5. QED
    BY <1>2, <2>1, <2>3, <2>4, OrderedStep
<1>7. CASE EnterLobby(s) \/ LeaveLobby(s)
  <2>1. PICK l, R, todo : Broadcast(s, Update(l, R), todo)
    BY <1>7 DEF EnterLobby, LeaveLobby
  <2>2. /\ task'[s].pc = "post" /\ task'[s].msg = Update(l, R)
        /\ \A t \in Sessions \ {s} : task'[t] = task[t]
    BY <1>1, <2>1 DEF Broadcast, Tasks
  <2>3. OldRelays
    <3>1. CASE EnterLobby(s)
      <4>1. /\ lobby_[s] \in Lobbies
            /\ players[lobby_[s]] \in Rosters(Sessions)
            /\ Size(players[lobby_[s]]) < MaxPlayers
        BY <3>1 DEF IInv, TypeOK, HandlerOK, EnterLobby, At, CanJoin
      <4>2. Joined(lobby_[s], NextPlayerId(players[lobby_[s]])) \in Messages
        BY <4>1, NextPlayerIdIsFree, JoinedMessage
      <4>3. Send(s, Joined(lobby_[s], NextPlayerId(players[lobby_[s]])))
        BY <3>1 DEF EnterLobby
      <4>4. QED
        BY <4>2, <4>3, OtherMessages, SendOldRelays DEF IInv
    <3>2. CASE LeaveLobby(s)
      BY <1>2, <3>2 DEF LeaveLobby
    <3>3. QED
      BY <1>7, <3>1, <3>2
  <2>4. ~Relaying(s)' /\ ~IsRelay(task'[s].msg)
    BY <2>2, OtherMessages DEF Relaying
  <2>5. UNCHANGED <<strand, received>>
    BY <1>7 DEF EnterLobby, LeaveLobby
  <2>6. QED
    BY <2>2, <2>3, <2>4, <2>5, OrderedStep
<1>8. CASE RelayMessage(s)
  <2> DEFINE msg == Relay(lobby_[s], playerId[s], s, task[s].req.data)
  <2>1. /\ task[s].pc = "sendMessage"
        /\ UNCHANGED <<strand, out, received>>
        /\ Broadcast(s, msg, DOMAIN players[lobby_[s]] \ {playerId[s]})
    BY <1>8 DEF RelayMessage, At
  <2>2. /\ IsRelay(msg)
        /\ msg.author = s
        /\ msg.data = task[s].req.data
    BY DEF Relay, IsRelay
  <2> HIDE DEF msg
  <2>3. /\ task'[s].pc = "post" /\ task'[s].msg = msg
        /\ \A t \in Sessions \ {s} : task'[t] = task[t]
    BY <1>1, <2>1 DEF Broadcast, Tasks
  <2>4. StillRelays(s)
    BY <2>1, <2>2, <2>3 DEF StillRelays, Relaying, RelayedData
  <2>5. QED
    BY <1>2, <2>1, <2>2, <2>3, <2>4, OrderedStep
<1>9. CASE EncodeLobbyUpdate(s)
  <2> DEFINE msg == Update(lobby_[s], players[lobby_[s]])
  <2>1. /\ task' = [task EXCEPT ![s].pc = "respond", ![s].msg = msg]
        /\ UNCHANGED <<strand, out, received>>
    BY <1>9 DEF EncodeLobbyUpdate
  <2>2. ~IsRelay(msg)
    BY OtherMessages
  <2> HIDE DEF msg
  <2>3. /\ task'[s].pc = "respond" /\ task'[s].msg = msg
        /\ \A t \in Sessions \ {s} : task'[t] = task[t]
    BY <1>1, <2>1 DEF Tasks
  <2>4. ~Relaying(s)'
    BY <2>3 DEF Relaying
  <2>5. QED
    BY <1>2, <2>1, <2>2, <2>3, <2>4, OrderedStep
<1>10. CASE Respond(s)
  <2>1. /\ Send(s, task[s].msg)
        /\ Finish(s)
        /\ task[s].pc = "respond"
        /\ UNCHANGED <<strand, received>>
    BY <1>10 DEF Respond, At
  <2>2. /\ task'[s].pc = "idle"
        /\ \A t \in Sessions \ {s} : task'[t] = task[t]
    BY <1>1, <2>1, FinishTask
  <2>3. OldRelays
    BY <2>1, SendOldRelays DEF IInv, HandlerOK, OrderInv, RelayingInOrder
  <2>4. ~Relaying(s)'
    BY <2>2 DEF Relaying
  <2>5. QED
    BY <2>1, <2>2, <2>3, <2>4, OrderedStep
<1>11. CASE Unlock(s)
  <2>1. /\ UNCHANGED <<strand, out, received>>
        /\ Goto(s, "reset") \/ Finish(s)
    BY <1>11 DEF Unlock
  <2>2. /\ task'[s].pc \in {"idle", "reset"}
        /\ \A t \in Sessions \ {s} : task'[t] = task[t]
    BY <1>1, <2>1, IdleType DEF Finish, Goto, Tasks
  <2>3. ~Relaying(s)'
    BY <2>2 DEF Relaying
  <2>4. QED
    BY <1>2, <2>1, <2>2, <2>3, OrderedStep
<1>12. CASE PostNext(s)
  BY <1>12, PostNextOrdered
<1>13. QED
  BY <1>3, <1>4, <1>5, <1>6, <1>7, <1>8, <1>9, <1>10, <1>11, <1>12 DEF Handle

\* Nothing has been said yet.
LEMMA OrderInit == Init => OrderInv
<1>1. ASSUME Init
      PROVE  /\ \A s \in Sessions : strand[s] = <<>> /\ out[s] = <<>>
             /\ \A s \in Sessions : task[s].pc = "idle"
  BY <1>1, IdleType DEF Init
<1>2. QED
  BY <1>1 DEF OrderInv, WaitingInOrder, RelayingInOrder, RelaysInOrder, Relaying

\* The server keeps what one connection says in order.
LEMMA OrderNext ==
    ASSUME IInv, OrderInv, [Next]_vars
    PROVE  OrderInv'
<1>1. ASSUME NEW s \in Sessions, NEW r \in Requests, ProcessReadBuf(s, r)
      PROVE  OrderInv'
  BY <1>1, ProcessReadBufOrdered
<1>2. ASSUME NEW s \in Sessions, Handle(s) PROVE OrderInv'
  BY <1>2, HandleOrdered
<1>3. ASSUME NEW s \in Sessions, HangUp(s) \/ Destroy(s) PROVE OrderInv'
  <2>1. UNCHANGED <<task, strand, received>>
    BY <1>3 DEF HangUp, Destroy
  <2>2. \A r \in Sessions : out'[r] = out[r] \/ out'[r] = <<>>
    BY <1>3 DEF HangUp, Destroy, IInv, TypeOK
  <2>3. OldRelays
    BY <2>2 DEF OldRelays
  <2>4. Relaying(s)' => StillRelays(s)
    BY <2>1 DEF StillRelays, Relaying, RelayedData
  <2>5. QED
    BY <2>1, <2>3, <2>4, OrderedStep DEF OrderInv, RelayingInOrder
<1>4. CASE Stopped \/ UNCHANGED vars \/ \E s \in Sessions : DrawUsedName(s)
  <2>1. UNCHANGED <<task, strand, out, received>>
    BY <1>4 DEF Stopped, DrawUsedName, vars
  <2>2. QED
    BY <2>1 DEF OrderInv, WaitingInOrder, RelayingInOrder, RelaysInOrder,
                      Relaying, RelayedData, RelayedBefore
<1>5. QED
  BY <1>1, <1>2, <1>3, <1>4 DEF Next

\* However the threads of the pool share the work, what one connection says
\* reaches every other one in the order it was said: what the comment on the
\* strand in processReadBuf promises.
THEOREM RelaysKeepOrder == Spec => []RelaysInOrder
<1>1. Init => OrderInv
  BY OrderInit
<1>2. IInv /\ OrderInv /\ [Next]_vars => OrderInv'
  BY OrderNext
<1>3. OrderInv => RelaysInOrder
  BY DEF OrderInv
<1>4. QED
  BY <1>1, <1>2, <1>3, Invariance, PTL DEF Spec
=============================================================================

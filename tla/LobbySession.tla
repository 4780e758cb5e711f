---------------------------- MODULE LobbySession ----------------------------
(***************************************************************************)
(* The lobby server: LobbySession, Lobby and LobbyContext of server/src.   *)
(*                                                                         *)
(* Every connection owns a strand on which its messages are handled one at *)
(* a time by a pool of NumThreads threads.  Handlers of different          *)
(* connections run concurrently and meet in the lobbies, each guarded by a *)
(* std::shared_mutex, and in the registry of lobby names, guarded by       *)
(* another.  A handler is modelled step by step: what it does while it     *)
(* holds a mutex is visible to the others only through what it posts, so   *)
(* it stops before every lock it may wait for and after every message it   *)
(* posts to a connection.                                                  *)
(*                                                                         *)
(* The module is open: ProcessReadBuf accepts any well-formed message at   *)
(* any time, and what is sent to a connection stays in its outgoing        *)
(* stream.  ChatGames closes it with the clients, which read the stream.   *)
(***************************************************************************)
EXTENDS Roster, Sequences

CONSTANTS
    Sessions,      \* the connections
    Lobbies,       \* the names createLobby can draw
    NumThreads,    \* Config::numThreads
    MaxRequests,   \* bound of the model: messages the server receives
    Null           \* std::nullopt and nullptr

ASSUME SessionAssumption ==
    /\ IsFiniteSet(Sessions)
    /\ NumThreads \in Nat \ {0}
    /\ MaxRequests \in Nat
    /\ Null \notin Sessions \cup Lobbies \cup Nat

VARIABLES
    conn,       \* conn[s]: "open", "closed" (read failed) or "gone" (destroyed)
    strand,     \* strand[s]: the messages posted to strand_, oldest first
    task,       \* task[s]: the handler that runs on the strand
    lobby_,     \* lobby_[s]: LobbySession::lobby_, a shared_ptr
    playerId,   \* playerId[s]: LobbySession::playerId, an optional
    out,        \* out[s]: the messages posted to writeStrand_, oldest first
    players,    \* players[l]: Lobby::players
    locked,     \* locked[l]: Lobby::locked
    writer,     \* writer[l]: the session whose handler has Lobby::mutex unique
    readers,    \* readers[l]: the sessions whose handlers have it shared
    names,      \* the keys of LobbyContext::lobbies_
    aborted,    \* an assertion failed and the process is gone
    received    \* messages received so far (for the bound)

lobbyVars == <<players, locked>>
mutexVars == <<writer, readers>>
sessionVars == <<lobby_, playerId>>
vars == <<conn, strand, task, lobby_, playerId, out, players, locked,
          writer, readers, names, aborted, received>>
-----------------------------------------------------------------------------
(* Messages                                                                *)

\* Commands whose handler does nothing unless lobby_ is set.
LobbyCommands == {"leaveLobby", "lockLobby", "unlockLobby", "sendMessage",
                  "requestLobbyUpdate"}
\* The handlers that assert playerId before they take the lobby's mutex.
AssertsPlayerId == {"lockLobby", "unlockLobby", "sendMessage"}

\* Message contents are numbered, so no two messages are alike.
\* "heartbeat" stands for every type processMessage ignores.
Data == 1 .. MaxRequests
JoinRequests == [type : {"joinLobby"}, lobby : Lobbies]
SendRequests == [type : {"sendMessage"}, data : Data]
Requests ==
    JoinRequests \cup SendRequests \cup
    [type : {"createLobby", "heartbeat"} \cup (LobbyCommands \ {"sendMessage"})]

\* Replies.  The lobby of an update, and the lobby and the author of a relayed
\* message, are not on the wire: they are here to state properties with.
Joined(l, id) == [type |-> "lobbyJoined", lobby |-> l, id |-> id]
Update(l, R) == [type |-> "updateLobby", lobby |-> l, players |-> R]
Relay(l, id, s, d) ==
    [type |-> "relayMessage", lobby |-> l, id |-> id, author |-> s, data |-> d]

JoinedMessages == [type : {"lobbyJoined"}, lobby : Lobbies, id : Ids]
UpdateMessages ==
    [type : {"updateLobby"}, lobby : Lobbies, players : Rosters(Sessions)]
RelayMessages ==
    [type : {"relayMessage"}, lobby : Lobbies, id : Ids, author : Sessions,
     data : Data]
Messages == JoinedMessages \cup UpdateMessages \cup RelayMessages

\* Where a handler can be.  A handler waiting for a mutex is at its own name.
WaitPoints == {"createLobby", "joinLobby"} \cup LobbyCommands
Points == WaitPoints \cup {"idle", "naming", "enter", "post", "respond", "reset"}

Idle == [pc |-> "idle", req |-> Null, msg |-> Null, todo |-> {}]

Init ==
    /\ conn = [s \in Sessions |-> "open"]
    /\ strand = [s \in Sessions |-> <<>>]
    /\ task = [s \in Sessions |-> Idle]
    /\ lobby_ = [s \in Sessions |-> Null]
    /\ playerId = [s \in Sessions |-> Null]
    /\ out = [s \in Sessions |-> <<>>]
    /\ players = [l \in Lobbies |-> EmptyRoster]
    /\ locked = [l \in Lobbies |-> FALSE]
    /\ writer = [l \in Lobbies |-> Null]
    /\ readers = [l \in Lobbies |-> {}]
    /\ names = {}
    /\ aborted = FALSE
    /\ received = 0
-----------------------------------------------------------------------------
(* Helpers                                                                 *)

\* Where the handler of s is, in a process that still runs.
At(s, pc) == ~aborted /\ task[s].pc = pc

\* The weak_ptr in lobbies_ can be locked as long as a session holds the lobby.
LobbyAlive(l) == \E s \in Sessions : lobby_[s] = l

\* Mutant of Found: the entry is enough.
FoundExpired(l) == l \in names

\* What getLobby returns is not empty.
Found(l) == l \in names /\ LobbyAlive(l)

\* Mutant of ContextFree: a handler waits for the mutex it is about to take.
ContextFreeOfWaiters == \A s \in Sessions : task[s].pc \notin {"createLobby", "naming"}

\* Nobody is inside createLobby, which holds LobbyContext::mutex_ unique.
ContextFree == \A s \in Sessions : task[s].pc # "naming"

\* Mutants of UniqueFree and SharedFree: the lock is forgotten.
NoUniqueLock(l) == l \in Lobbies
NoSharedLock(l) == l \in Lobbies

UniqueFree(l) == writer[l] = Null /\ readers[l] = {}
SharedFree(l) == writer[l] = Null

\* Mutant of Send: the message overtakes those that wait.
SendInFront(r, m) ==
    out' = IF conn[r] = "open" THEN [out EXCEPT ![r] = <<m>> \o @] ELSE out

\* A message to a closed connection is lost; a destroyed one is not found by
\* the weak_ptr in the player list.
Send(r, m) ==
    out' = IF conn[r] = "open" THEN [out EXCEPT ![r] = Append(@, m)] ELSE out

Goto(s, pc) == task' = [task EXCEPT ![s].pc = pc]
Finish(s) == task' = [task EXCEPT ![s] = Idle]

\* The handler now posts m to the players with the ids in todo.
Broadcast(s, m, todo) ==
    task' = [task EXCEPT ![s].pc = "post", ![s].msg = m, ![s].todo = todo]

\* A failed assertion ends the process, whatever else was going on.
Abort ==
    /\ aborted' = TRUE
    /\ UNCHANGED <<conn, strand, task, lobby_, playerId, out, players, locked,
                   writer, readers, names, received>>
-----------------------------------------------------------------------------
(* Connections                                                             *)

\* LobbySession::processReadBuf posts a complete message to the strand.
ProcessReadBuf(s, r) ==
    /\ ~aborted
    /\ conn[s] = "open"
    /\ received < MaxRequests
    /\ r.type = "sendMessage" => r.data = received + 1
    /\ received' = received + 1
    /\ strand' = [strand EXCEPT ![s] = Append(@, r)]
    /\ UNCHANGED <<conn, task, sessionVars, out, lobbyVars, mutexVars, names,
                   aborted>>

\* The peer goes away: the pending read fails and readBuf returns.
HangUp(s) ==
    /\ ~aborted
    /\ conn[s] = "open"
    /\ conn' = [conn EXCEPT ![s] = "closed"]
    /\ out' = [out EXCEPT ![s] = <<>>]
    /\ UNCHANGED <<strand, task, sessionVars, lobbyVars, mutexVars, names,
                   aborted, received>>

\* The last shared_ptr to the session is released.  ~LobbySession does
\* nothing, so the player stays in the lobby's list; lobby_ is released.
Destroy(s) ==
    /\ At(s, "idle")
    /\ conn[s] = "closed"
    /\ strand[s] = <<>>
    /\ conn' = [conn EXCEPT ![s] = "gone"]
    /\ lobby_' = [lobby_ EXCEPT ![s] = Null]
    /\ UNCHANGED <<strand, task, playerId, out, lobbyVars, mutexVars, names,
                   aborted, received>>
-----------------------------------------------------------------------------
(* LobbySession::processMessage                                            *)

\* A thread of the pool takes the next message of the strand.
Begin(s) ==
    /\ At(s, "idle")
    /\ strand[s] # <<>>
    /\ Cardinality({t \in Sessions : task[t].pc # "idle"}) < NumThreads

Dequeue(s) == strand' = [strand EXCEPT ![s] = Tail(@)]

\* The message has no effect: it is to be ignored, or lobby_ is not set.
IgnoreMessage(s) ==
    /\ Begin(s)
    /\ \/ Head(strand[s]).type = "heartbeat"
       \/ Head(strand[s]).type \in LobbyCommands /\ lobby_[s] = Null
    /\ Dequeue(s)
    /\ UNCHANGED <<conn, task, sessionVars, out, lobbyVars, mutexVars, names,
                   aborted, received>>

\* assert(playerId) in setLobbyLocked and processSendMessage.
PlayerIdMissing(s) ==
    /\ Head(strand[s]).type \in AssertsPlayerId
    /\ playerId[s] = Null

\* The handler runs up to the first mutex it needs.
StartHandler(s) ==
    /\ Begin(s)
    /\ \/ Head(strand[s]).type \in {"createLobby", "joinLobby"}
       \/ /\ Head(strand[s]).type \in LobbyCommands
          /\ lobby_[s] # Null
          /\ ~PlayerIdMissing(s)
    /\ Dequeue(s)
    /\ task' = [task EXCEPT ![s].pc = Head(strand[s]).type,
                            ![s].req = Head(strand[s])]
    /\ UNCHANGED <<conn, sessionVars, out, lobbyVars, mutexVars, names, aborted,
                   received>>

FailPlayerIdAssert(s) ==
    /\ Begin(s)
    /\ lobby_[s] # Null
    /\ PlayerIdMissing(s)
    /\ Abort
-----------------------------------------------------------------------------
(* processCreateLobby and processJoinLobby                                 *)

\* LobbyContext::createLobby takes mutex_ ...
LockContext(s) ==
    /\ At(s, "createLobby")
    /\ ContextFree
    /\ Goto(s, "naming")
    /\ UNCHANGED <<conn, strand, sessionVars, out, lobbyVars, mutexVars, names,
                   aborted, received>>

\* ... and draws names until one is not in lobbies_, whose entries are never
\* erased.
DrawUsedName(s) ==
    /\ At(s, "naming")
    /\ names # {}
    /\ UNCHANGED vars

CreateLobby(s) ==
    /\ At(s, "naming")
    /\ \E l \in Lobbies \ names :
        /\ names' = names \cup {l}
        /\ lobby_' = [lobby_ EXCEPT ![s] = l]
    /\ Goto(s, "enter")
    /\ UNCHANGED <<conn, strand, playerId, out, lobbyVars, mutexVars, aborted,
                   received>>

\* LobbyContext::getLobby.  Whatever it returns replaces lobby_; playerId and
\* the entry in the list of the previous lobby stay.
GetLobby(s) ==
    /\ At(s, "joinLobby")
    /\ ContextFree
    /\ LET l == task[s].req.lobby
       IN  IF Found(l)
           THEN /\ lobby_' = [lobby_ EXCEPT ![s] = l]
                /\ Goto(s, "enter")
           ELSE /\ lobby_' = [lobby_ EXCEPT ![s] = Null]
                /\ Finish(s)
    /\ UNCHANGED <<conn, strand, playerId, out, lobbyVars, mutexVars, names,
                   aborted, received>>

\* The unique lock is taken, the player added, lobbyJoined sent and the update
\* for everybody encoded.
EnterLobby(s) ==
    LET l == lobby_[s]
        id == NextPlayerId(players[l])
        R == AddPlayer(players[l], s)
    IN  /\ At(s, "enter")
        /\ UniqueFree(l)
        /\ \/ task[s].req.type = "createLobby" /\ Size(players[l]) < MaxPlayers
           \/ task[s].req.type = "joinLobby" /\ CanJoin(players[l], locked[l])
        /\ writer' = [writer EXCEPT ![l] = s]
        /\ players' = [players EXCEPT ![l] = R]
        /\ playerId' = [playerId EXCEPT ![s] = id]
        /\ Send(s, Joined(l, id))
        /\ Broadcast(s, Update(l, R), DOMAIN R)
        /\ UNCHANGED <<conn, strand, lobby_, locked, readers, names, aborted,
                       received>>

\* The lobby is locked or full: no answer, and lobby_ keeps pointing to it.
RejectJoin(s) ==
    /\ At(s, "enter")
    /\ UniqueFree(lobby_[s])
    /\ task[s].req.type = "joinLobby"
    /\ ~CanJoin(players[lobby_[s]], locked[lobby_[s]])
    /\ Finish(s)
    /\ UNCHANGED <<conn, strand, sessionVars, out, lobbyVars, mutexVars, names,
                   aborted, received>>

\* assert(players.size() < maxPlayers) in getNextPlayerId.
FailSizeAssert(s) ==
    /\ At(s, "enter")
    /\ UniqueFree(lobby_[s])
    /\ task[s].req.type = "createLobby"
    /\ Size(players[lobby_[s]]) >= MaxPlayers
    /\ Abort
-----------------------------------------------------------------------------
(* The handlers of the lobby commands                                      *)

\* *playerId without a value is undefined: any id the storage may hold.
StoredIds(s) == IF playerId[s] = Null THEN Ids ELSE {playerId[s]}

\* processLeaveLobby: remove the player, tell the others.
LeaveLobby(s) ==
    LET l == lobby_[s]
    IN  /\ At(s, "leaveLobby")
        /\ UniqueFree(l)
        /\ \E id \in StoredIds(s) \cap DOMAIN players[l] :
            LET R == RemovePlayer(players[l], id)
            IN  /\ players' = [players EXCEPT ![l] = R]
                /\ Broadcast(s, Update(l, R), DOMAIN R)
        /\ writer' = [writer EXCEPT ![l] = s]
        /\ playerId' = [playerId EXCEPT ![s] = Null]
        /\ UNCHANGED <<conn, strand, lobby_, out, locked, readers, names,
                       aborted, received>>

\* assert(playerIdx) in removePlayer.
FailRemoveAssert(s) ==
    /\ At(s, "leaveLobby")
    /\ UniqueFree(lobby_[s])
    /\ playerId[s] = Null \/ playerId[s] \notin DOMAIN players[lobby_[s]]
    /\ Abort

\* lobby_.reset() after the lock was released.
ResetLobby(s) ==
    /\ At(s, "reset")
    /\ lobby_' = [lobby_ EXCEPT ![s] = Null]
    /\ Finish(s)
    /\ UNCHANGED <<conn, strand, playerId, out, lobbyVars, mutexVars, names,
                   aborted, received>>

\* setLobbyLocked, for lockLobby and unlockLobby.
SetLobbyLocked(s) ==
    LET l == lobby_[s]
    IN  /\ task[s].pc \in {"lockLobby", "unlockLobby"}
        /\ At(s, task[s].pc)
        /\ UniqueFree(l)
        /\ locked' = IF IsPlayerMaster(players[l], playerId[s])
                     THEN [locked EXCEPT ![l] = (task[s].pc = "lockLobby")]
                     ELSE locked
        /\ Finish(s)
        /\ UNCHANGED <<conn, strand, sessionVars, out, players, mutexVars,
                       names, aborted, received>>

\* processSendMessage: under the shared lock, relay to every other player.
RelayMessage(s) ==
    LET l == lobby_[s]
    IN  /\ At(s, "sendMessage")
        /\ SharedFree(l)
        /\ readers' = [readers EXCEPT ![l] = @ \cup {s}]
        /\ Broadcast(s, Relay(l, playerId[s], s, task[s].req.data),
                     DOMAIN players[l] \ {playerId[s]})
        /\ UNCHANGED <<conn, strand, sessionVars, out, lobbyVars, writer, names,
                       aborted, received>>

\* processRequestLobbyUpdate: the list is encoded under the shared lock ...
EncodeLobbyUpdate(s) ==
    LET l == lobby_[s]
    IN  /\ At(s, "requestLobbyUpdate")
        /\ SharedFree(l)
        /\ task' = [task EXCEPT ![s].pc = "respond",
                                ![s].msg = Update(l, players[l])]
        /\ UNCHANGED <<conn, strand, sessionVars, out, lobbyVars, mutexVars,
                       names, aborted, received>>

\* ... and sent after it was released.
Respond(s) ==
    /\ At(s, "respond")
    /\ Send(s, task[s].msg)
    /\ Finish(s)
    /\ UNCHANGED <<conn, strand, sessionVars, lobbyVars, mutexVars, names,
                   aborted, received>>
-----------------------------------------------------------------------------
(* sendToAll, and the loop of processSendMessage, in the order of the list *)

PostNext(s) ==
    /\ At(s, "post")
    /\ \E id \in task[s].todo :
        /\ \A j \in task[s].todo : id <= j
        /\ Send(players[lobby_[s]][id], task[s].msg)
        /\ task' = [task EXCEPT ![s].todo = @ \ {id}]
    /\ UNCHANGED <<conn, strand, sessionVars, lobbyVars, mutexVars, names,
                   aborted, received>>

Release(s, l) ==
    /\ writer' = [writer EXCEPT ![l] = IF @ = s THEN Null ELSE @]
    /\ readers' = [readers EXCEPT ![l] = @ \ {s}]

\* The lock goes out of scope.
Unlock(s) ==
    /\ At(s, "post")
    /\ task[s].todo = {}
    /\ Release(s, lobby_[s])
    /\ IF task[s].req.type = "leaveLobby" THEN Goto(s, "reset") ELSE Finish(s)
    /\ UNCHANGED <<conn, strand, sessionVars, out, lobbyVars, names, aborted,
                   received>>
-----------------------------------------------------------------------------
(* Specification                                                           *)

\* A step of a thread that runs the strand of s.
Handle(s) ==
    \/ IgnoreMessage(s)
    \/ StartHandler(s)
    \/ FailPlayerIdAssert(s)
    \/ LockContext(s)
    \/ CreateLobby(s)
    \/ GetLobby(s)
    \/ EnterLobby(s)
    \/ RejectJoin(s)
    \/ FailSizeAssert(s)
    \/ LeaveLobby(s)
    \/ FailRemoveAssert(s)
    \/ ResetLobby(s)
    \/ SetLobbyLocked(s)
    \/ RelayMessage(s)
    \/ EncodeLobbyUpdate(s)
    \/ Respond(s)
    \/ PostNext(s)
    \/ Unlock(s)

\* The process is gone, or every connection is: standing still is no deadlock.
Stopped ==
    /\ aborted \/ \A s \in Sessions : conn[s] = "gone"
    /\ UNCHANGED vars

Next ==
    \/ \E s \in Sessions, r \in Requests : ProcessReadBuf(s, r)
    \/ \E s \in Sessions : HangUp(s) \/ Destroy(s) \/ Handle(s) \/ DrawUsedName(s)
    \/ Stopped

Spec == Init /\ [][Next]_vars

\* The pool's threads take up every strand that has work, and a thread that
\* waits for a mutex gets it when it is free for good.  A name that is not in
\* use is drawn in the end, if there is one.
FairSpec == Spec /\ \A s \in Sessions : WF_vars(Handle(s))
-----------------------------------------------------------------------------
(* Properties that hold whatever the clients send, in any order            *)

\* Every variable has its type; the weakest part of what follows.
TypeOK ==
    /\ conn \in [Sessions -> {"open", "closed", "gone"}]
    /\ strand \in [Sessions -> Seq(Requests)]
    /\ task \in [Sessions -> [pc : Points, req : Requests \cup {Null},
                              msg : Messages \cup {Null}, todo : SUBSET Ids]]
    /\ lobby_ \in [Sessions -> Lobbies \cup {Null}]
    /\ playerId \in [Sessions -> Ids \cup {Null}]
    /\ out \in [Sessions -> Seq(Messages)]
    /\ players \in [Lobbies -> Rosters(Sessions)]
    /\ locked \in [Lobbies -> BOOLEAN]
    /\ writer \in [Lobbies -> Sessions \cup {Null}]
    /\ readers \in [Lobbies -> SUBSET Sessions]
    /\ names \subseteq Lobbies
    /\ aborted \in BOOLEAN
    /\ received \in 0 .. MaxRequests

\* What a handler may count on where it is: the request it serves, a lobby for
\* the handlers that dereference lobby_, a playerId for those that assert it,
\* and a message for those that send.
HandlerOK(s) ==
    LET t == task[s]
    IN  /\ t.pc # "idle" => t.req \in Requests
        /\ t.pc \in WaitPoints => t.req.type = t.pc
        /\ t.pc = "naming" => t.req.type = "createLobby"
        /\ t.pc = "enter" => t.req.type \in {"createLobby", "joinLobby"}
        /\ t.pc \in LobbyCommands \cup {"enter", "post", "reset"} => lobby_[s] # Null
        /\ t.pc \in AssertsPlayerId => playerId[s] # Null
        /\ t.pc \in {"post", "respond"} => t.msg \in Messages

\* A lobby's mutex is held by one handler that changed the list, or shared by
\* handlers that relay, and exactly by those that are still posting: the
\* lobby_ of a handler that holds it is not exchanged under it.
MutexOK ==
    /\ \A l \in Lobbies : writer[l] # Null =>
           /\ readers[l] = {}
           /\ task[writer[l]].pc = "post"
           /\ lobby_[writer[l]] = l
    /\ \A l \in Lobbies : \A s \in readers[l] :
           /\ task[s].pc = "post"
           /\ task[s].msg.type = "relayMessage"
           /\ lobby_[s] = l
    /\ \A s \in Sessions : task[s].pc = "post" =>
           \/ writer[lobby_[s]] = s
           \/ s \in readers[lobby_[s]]

\* While a handler walks a player list to post to it, under the unique or the
\* shared lock, the entries it has still to visit are there (sendToAll and
\* processSendMessage iterate over a vector that must not change meanwhile),
\* and what sendToAll announces is the list as it is.
IterationSafe ==
    \A s \in Sessions : task[s].pc = "post" =>
        /\ task[s].todo \subseteq DOMAIN players[lobby_[s]]
        /\ task[s].msg.type = "updateLobby" =>
               task[s].msg.players = players[lobby_[s]]

\* The inductive invariant of the proofs.
IInv ==
    /\ TypeOK
    /\ \A s \in Sessions : HandlerOK(s)
    /\ MutexOK
    /\ IterationSafe

\* What one connection says reaches every other connection in the order it was
\* said, although each message is relayed by whichever thread is free: the
\* promise of the comment in processReadBuf.
RelaysInOrder ==
    \A s \in Sessions : \A i, j \in DOMAIN out[s] :
        /\ i < j
        /\ out[s][i].type = "relayMessage"
        /\ out[s][j].type = "relayMessage"
        /\ out[s][i].author = out[s][j].author
        => out[s][i].data <= out[s][j].data

\* Nobody joins a lobby that is locked or full: canJoin is still true when
\* addPlayer runs, whoever locks the lobby or joins it in the meantime.  Only
\* the creator is not asked, and may find its lobby locked by a client that
\* knew the name before it was told.
NoEntryWhenClosed ==
    [][\A l \in Lobbies :
        locked[l] \/ Size(players[l]) = MaxPlayers =>
            \A i \in DOMAIN players'[l] \ DOMAIN players[l] :
                task[players'[l][i]].req.type = "createLobby"]_vars

\* A player keeps its id as long as it is in the list: a step adds or removes at
\* most one player and hands over no id from one connection to another.
SeatsAreStable ==
    [][\A l \in Lobbies :
        /\ \A i \in DOMAIN players[l] \cap DOMAIN players'[l] :
               players'[l][i] = players[l][i]
        /\ Cardinality((DOMAIN players[l] \cup DOMAIN players'[l]) \
                       (DOMAIN players[l] \cap DOMAIN players'[l])) <= 1]_vars

\* The lobby of a live handler is not destroyed under it: a lobby that has been
\* lost (no session holds it) has no lock holder and is never found again.
LostLobbiesStayLost ==
    [][\A l \in names : ~LobbyAlive(l) => ~LobbyAlive(l)' /\ UniqueFree(l)]_vars

\* createLobby draws for ever, and LobbyContext::mutex_ is never released.
NamesUsedUp == names = Lobbies /\ ~ContextFree

\* Every request is handled in the end: the waiting for mutexes and for threads
\* of the pool never closes a circle, and no lock stays behind, unless a lobby
\* is to be created and every name was given to one before.
RequestsHandled ==
    \A s \in Sessions :
        strand[s] # <<>> ~>
            aborted \/ NamesUsedUp \/ (strand[s] = <<>> /\ task[s] = Idle)
-----------------------------------------------------------------------------
(* What an assertion of the code says, which any client can refute: a join  *)
(* that is rejected leaves lobby_ set without a playerId of that lobby.     *)

\* assert(playerId) in setLobbyLocked and processSendMessage: a session that
\* is in a lobby has a playerId when it handles a message that needs one.
PlayerIdAsserted ==
    \A s \in Sessions :
        At(s, "idle") /\ strand[s] # <<>> /\ lobby_[s] # Null =>
            ~PlayerIdMissing(s)
=============================================================================

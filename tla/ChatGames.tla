----------------------------- MODULE ChatGames ------------------------------
(***************************************************************************)
(* The whole system: the lobby server of LobbySession and, at the other    *)
(* end of every connection, the client of client/ (main.lua, net.lua and   *)
(* the scenes createJoinLobby, waitForJoin and lobby).                     *)
(*                                                                         *)
(* A player may try to join any name, those that nobody has told him and   *)
(* those that are not in use included.  Messages arrive whole; what        *)
(* net.lua and processReadBuf do with fragments is another module's        *)
(* subject.  What the lobby scene says with its messages is left open.     *)
(***************************************************************************)
EXTENDS LobbySession

CONSTANT MaxPresses   \* bound of the model: keys pressed before a frame ends

ASSUME PressAssumption == MaxPresses \in Nat \ {0}

VARIABLES
    scene,     \* scene[s]: the scene the frame loop of love.run is running
    current,   \* current[s]: scenes.current, which the next frame will run
    net,       \* net[s]: lobbyId, playerId and players of net.lua
    events,    \* events[s]: the queue net.update takes events from
    sendQueue, \* sendQueue[s]: the requests that are not on their way yet
    sent       \* sent[s]: the requests made in the first scene (history)

clientVars == <<scene, current, net, events, sendQueue, sent>>
allVars == <<vars, clientVars>>

Scenes == {"createJoinLobby", "waitForJoin", "lobby"}
Nets == [lobbyId : Lobbies \cup {Null}, playerId : Ids \cup {Null},
         players : Rosters(Sessions)]

ClientInit ==
    /\ scene = [s \in Sessions |-> "createJoinLobby"]
    /\ current = [s \in Sessions |-> "createJoinLobby"]
    /\ net = [s \in Sessions |->
                 [lobbyId |-> Null, playerId |-> Null, players |-> EmptyRoster]]
    /\ events = [s \in Sessions |-> <<>>]
    /\ sendQueue = [s \in Sessions |-> <<>>]
    /\ sent = [s \in Sessions |-> <<>>]
-----------------------------------------------------------------------------
(* The client's scenes                                                     *)

Running(s) == conn[s] = "open" /\ scene[s] # "crashed"

\* error(...), or an index of nil: the client stops and reads no more.
Crash(s) ==
    /\ scene' = [scene EXCEPT ![s] = "crashed"]
    /\ UNCHANGED current

\* Bound of the model: what is queued will be received within MaxRequests.
Queued == UNION {{s} \X DOMAIN sendQueue[s] : s \in Sessions}
HasRoom == received + Cardinality(Queued) < MaxRequests

\* createJoinLobby: the request is queued and scenes.enter(waitForJoin) sets
\* scenes.current, but until the frame ends love.run gives keys and ticks to
\* the scene it began with, so a second key queues a second request.  The name
\* to join is whatever the player has typed, a guess included.
Press(s, r) ==
    /\ Running(s)
    /\ scene[s] = "createJoinLobby"
    /\ Len(sent[s]) < MaxPresses
    /\ HasRoom
    /\ r.type \in {"createLobby", "joinLobby"}
    /\ sendQueue' = [sendQueue EXCEPT ![s] = Append(@, r)]
    /\ sent' = [sent EXCEPT ![s] = Append(@, r.type)]
    /\ current' = [current EXCEPT ![s] = "waitForJoin"]
    /\ UNCHANGED <<vars, scene, net, events>>

\* The key "j" stops the client: keypressed calls validLobbyName, a local
\* function that is declared below it.
PressJ(s) ==
    /\ ~aborted
    /\ Running(s)
    /\ scene[s] = "createJoinLobby"
    /\ Crash(s)
    /\ sendQueue' = [sendQueue EXCEPT ![s] = <<>>]
    /\ UNCHANGED <<vars, net, events, sent>>

\* The first scene never calls net.update, which sends what is queued.  What
\* waitForJoin has given to the socket can arrive after the client stopped.
Transmit(s) ==
    /\ scene[s] # "createJoinLobby"
    /\ sendQueue[s] # <<>>
    /\ ProcessReadBuf(s, Head(sendQueue[s]))
    /\ sendQueue' = [sendQueue EXCEPT ![s] = Tail(@)]
    /\ UNCHANGED <<scene, current, net, events, sent>>

\* The next frame runs scenes.current.
Frame(s) ==
    /\ Running(s)
    /\ scene[s] # current[s]
    /\ scene' = [scene EXCEPT ![s] = current[s]]
    /\ UNCHANGED <<vars, current, net, events, sendQueue, sent>>

\* The last of the first k messages with a type, 0 if there is none.
Last(type, k, ms) ==
    CHOOSE i \in 0 .. k : /\ i > 0 => ms[i].type = type
                          /\ \A j \in i + 1 .. k : ms[j].type # type

\* net.update receives the k messages that have arrived: the handlers run at
\* once, and each overwrites what the messages of its type said before; the
\* events queue up behind those the scene has not looked at yet.
HandleMessages(k, n, ms) ==
    LET joined == Last("lobbyJoined", k, ms)
        updated == Last("updateLobby", k, ms)
    IN  [lobbyId |-> IF joined = 0 THEN n.lobbyId ELSE ms[joined].lobby,
         playerId |-> IF joined = 0 THEN n.playerId ELSE ms[joined].id,
         players |-> IF updated = 0 THEN n.players ELSE ms[updated].players]

ReceiveMessages(s, k) ==
    /\ net' = [net EXCEPT ![s] = HandleMessages(k, net[s], out[s])]
    /\ out' = [out EXCEPT ![s] = SubSeq(@, k + 1, Len(@))]
    /\ UNCHANGED <<conn, strand, task, sessionVars, lobbyVars, mutexVars, names,
                   aborted, received, sendQueue, sent>>

Arrived(s, k) == events[s] \o [i \in 1 .. k |-> out[s][i].type]

\* waitForJoin.tick looks at one event, and accepts only lobbyJoined.
TickWaitForJoin(s, k) ==
    LET es == Arrived(s, k)
    IN  /\ Running(s)
        /\ scene[s] = "waitForJoin"
        /\ es # <<>>
        /\ ReceiveMessages(s, k)
        /\ events' = [events EXCEPT ![s] = Tail(es)]
        /\ IF Head(es) = "lobbyJoined"
           THEN current' = [current EXCEPT ![s] = "lobby"] /\ UNCHANGED scene
           ELSE Crash(s)

\* lobby.tick looks at all events.  It goes on to net.isMaster, which takes
\* the first of net.players whether there is one or not.
TickLobby(s, k) ==
    /\ Running(s)
    /\ scene[s] = "lobby"
    /\ ReceiveMessages(s, k)
    /\ events' = [events EXCEPT ![s] = <<>>]
    /\ IF DOMAIN net'[s].players = {} THEN Crash(s) ELSE UNCHANGED <<scene, current>>

\* Mutant of Say: a message goes out before the lobby is entered.
SayWhileWaiting(s, r) ==
    /\ Running(s)
    /\ scene[s] # "createJoinLobby"
    /\ r.type = "sendMessage"
    /\ HasRoom
    /\ ProcessReadBuf(s, r)
    /\ UNCHANGED clientVars

\* lobby.tick, after isMaster: a vote, or the master's playerData.
Say(s, r) ==
    /\ Running(s)
    /\ scene[s] = "lobby"
    /\ DOMAIN net[s].players # {}
    /\ r.type = "sendMessage"
    /\ HasRoom
    /\ ProcessReadBuf(s, r)
    /\ UNCHANGED clientVars

\* The client is closed, or its connection breaks.
Quit(s) == HangUp(s) /\ UNCHANGED clientVars
-----------------------------------------------------------------------------
Tick(s) ==
    \E k \in 0 .. Len(out[s]) :
        /\ ~aborted
        /\ TickWaitForJoin(s, k) \/ TickLobby(s, k)

Server(s) == (Handle(s) \/ Destroy(s)) /\ UNCHANGED clientVars
DrawAgain(s) == DrawUsedName(s) /\ UNCHANGED clientVars

SystemInit == Init /\ ClientInit

SystemNext ==
    \/ \E s \in Sessions, r \in Requests : Press(s, r) \/ Say(s, r)
    \/ \E s \in Sessions :
        \/ PressJ(s) \/ Frame(s) \/ Transmit(s) \/ Tick(s) \/ Quit(s)
        \/ Server(s) \/ DrawAgain(s)
    \/ Stopped /\ UNCHANGED clientVars

System == SystemInit /\ [][SystemNext]_allVars

\* The threads of the pool take the tasks of every strand, a client's frames
\* go on, and what was sent to an open connection arrives.  Nobody has to
\* press a key, say something or hang up.
Fairness ==
    \A s \in Sessions :
        /\ WF_allVars(Server(s))
        /\ WF_allVars(Frame(s))
        /\ WF_allVars(Transmit(s))
        /\ WF_allVars(Tick(s))

FairSystem == System /\ Fairness
-----------------------------------------------------------------------------
(* Properties                                                              *)

\* The client made one request, so it is in one lobby at most.  One that made
\* two in a frame leaves a player behind in the first lobby.
Single(s) == Len(sent[s]) = 1

Idling(s) == task[s] = Idle /\ strand[s] = <<>>

\* Whatever players press, a single assertion of the server can fail: that of
\* getNextPlayerId, in the handler of a creator whose lobby others have filled
\* before he is in it, its name being found as soon as it is drawn.  A client
\* sends nothing that needs a playerId before it has been told that it has one.
OnlyFullLobbyAborts ==
    aborted =>
        \E s \in Sessions :
            /\ task[s].pc = "enter" /\ task[s].req.type = "createLobby"
            /\ Size(players[lobby_[s]]) = MaxPlayers
            /\ \A i \in DOMAIN players[lobby_[s]] : players[lobby_[s]][i] # s

\* A connection that is between two handlers and has a playerId sits on exactly
\* one seat, that of its playerId in its lobby, and no one else's.
OwnSeat ==
    \A s \in Sessions :
        /\ Single(s)
        /\ conn[s] = "open"
        /\ task[s] = Idle
        /\ playerId[s] # Null
        => {seat \in Lobbies \X Ids :
               /\ seat[2] \in DOMAIN players[seat[1]]
               /\ players[seat[1]][seat[2]] = s}
           = {<<lobby_[s], playerId[s]>>}

\* Once nothing is under way for it, a client knows who is in its lobby: the
\* update that is last to arrive is the last one that was made.
ViewCurrent ==
    \A s \in Sessions :
        LET l == lobby_[s]
        IN  /\ Single(s)
            /\ Running(s)
            /\ Idling(s)
            /\ playerId[s] # Null
            /\ out[s] = <<>>
            /\ \A t \in Sessions : task[t].pc = "post" => lobby_[t] # l
            => net[s] = [lobbyId |-> l, playerId |-> playerId[s],
                         players |-> players[l]]

\* A message is not relayed to a client that has not been told of its author:
\* in the stream to the client it comes after an update that has the author
\* under the id of the message.
KnownAuthor ==
    \A s \in Sessions : \A k \in DOMAIN out[s] :
        LET m == out[s][k]
            view == HandleMessages(k, net[s], out[s]).players
        IN  m.type = "relayMessage" /\ Single(s) /\ Single(m.author) =>
                /\ m.author # s
                /\ m.id \in DOMAIN view
                /\ view[m.id] = m.author

\* The answer to the request comes before anything else the new player is
\* sent, as waitForJoin.lua needs.
AnswerFirst ==
    \A s \in Sessions :
        Single(s) /\ net[s].lobbyId = Null /\ out[s] # <<>> =>
            Head(out[s]).type = "lobbyJoined"

\* A client that asked for a lobby of its own gets out of the waiting scene,
\* unless it is closed, the server has no name left, or an assertion stopped it.
CreateAnswered ==
    \A s \in Sessions :
        sent[s] = <<"createLobby">> ~>
            \/ current[s] = "lobby" \/ ~Running(s) \/ ~Single(s)
            \/ NamesUsedUp \/ aborted
=============================================================================

----------------------------- MODULE LobbyScene -----------------------------
(***************************************************************************)
(* The lobby scene: playerData, the votes and colours every client shows,  *)
(* which the master hands out and repeats to the others (lobby.lua).  Of   *)
(* the server there is only what the scene relies on (LobbySession,        *)
(* ChatGames): joins are announced to all at once, and the messages of a   *)
(* player are relayed one by one, to one receiver after the other.  No     *)
(* client ever leaves, so that the master is the player who came first.    *)
(***************************************************************************)
EXTENDS Integers, Sequences, FiniteSets

CONSTANTS
    MaxPlayers,    \* how many clients come
    PaletteSizes,  \* how many colours playercolors.lua may have
    Games,         \* games, sorted by name, with minPlayers and maxPlayers
    MaxVotes       \* bound of the model: presses of the vote button

ASSUME SceneAssumption ==
    /\ MaxPlayers \in Nat \ {0}
    /\ PaletteSizes \subseteq Nat
    /\ Games \in Seq([minPlayers : Nat, maxPlayers : Nat])
    /\ Len(Games) = 2
    /\ MaxVotes \in Nat

Players == 0 .. MaxPlayers - 1
Master == 0
NoVote == -1
NoColor == 0

\* An entry of playerData as processMessage makes it, and playerData without any.
NewEntry == [color |-> NoColor, vote |-> NoVote]
NoData == [p \in {} |-> NewEntry]

VARIABLES
    joined,      \* how many players the lobby has
    up,          \* what a client has sent and the server has not relayed yet
    relayTo,     \* who is still to get the first message of up
    inbox,       \* events on their way to a client
    netPlayers,  \* net.players
    playerData,  \* playerData, from ids to color and vote
    colorsLeft,  \* #playerColorIndices of the master
    showStart,   \* the start button of the master is shown
    stopped,     \* clients an error has stopped
    votes        \* presses of the vote button

vars == <<joined, up, relayTo, inbox, netPlayers, playerData, colorsLeft,
          showStart, stopped, votes>>
netVars == <<joined, relayTo, inbox>>

Init ==
    /\ joined = 0
    /\ up = [c \in Players |-> <<>>]
    /\ relayTo = [c \in Players |-> <<>>]
    /\ inbox = [c \in Players |-> <<>>]
    /\ netPlayers = [c \in Players |-> {}]
    /\ playerData = [c \in Players |-> NoData]
    /\ colorsLeft \in PaletteSizes
    /\ showStart = FALSE
    /\ stopped = {}
    /\ votes = 0

Running(c) == c < joined /\ c \notin stopped

\* error(...), or an operation on nil; what is on its way to c is lost.
Stop(c) ==
    /\ stopped' = stopped \cup {c}
    /\ inbox' = [inbox EXCEPT ![c] = <<>>]
    /\ UNCHANGED <<joined, relayTo, up, netPlayers, playerData, colorsLeft,
                   showStart, votes>>
-----------------------------------------------------------------------------
(* The server                                                              *)

\* processJoinLobby: addPlayer and the updates, under the unique lock.
Join ==
    LET update == [type |-> "lobbyUpdated", players |-> 0 .. joined]
    IN  /\ joined < MaxPlayers
        /\ \A c \in Players : relayTo[c] = <<>>
        /\ joined' = joined + 1
        /\ inbox' = [c \in Players |->
               IF c > joined \/ c \in stopped THEN inbox[c]
               ELSE Append(inbox[c], update)]
        /\ UNCHANGED <<up, relayTo, netPlayers, playerData, colorsLeft, showStart,
                       stopped, votes>>

\* processSendMessage: the next step of the loop over the players.
Others(c) == SelectSeq([i \in 1 .. joined |-> i - 1], LAMBDA p : p # c)
Relay(c) ==
    LET todo == IF relayTo[c] = <<>> THEN Others(c) ELSE relayTo[c]
    IN  /\ up[c] # <<>>
        /\ inbox' = IF todo = <<>> \/ Head(todo) \in stopped THEN inbox
                    ELSE [inbox EXCEPT ![Head(todo)] =
                        Append(@, [type |-> "message", from |-> c, msg |-> Head(up[c])])]
        /\ relayTo' = [relayTo EXCEPT ![c] = IF todo = <<>> THEN todo ELSE Tail(todo)]
        /\ up' = IF Len(todo) <= 1 THEN [up EXCEPT ![c] = Tail(@)] ELSE up
        /\ UNCHANGED <<joined, netPlayers, playerData, colorsLeft, showStart,
                       stopped, votes>>
-----------------------------------------------------------------------------
(* The events of scene.tick                                                *)

\* The entry of id, made if it is missing.
WithEntry(data, id) ==
    IF id \in DOMAIN data THEN data
    ELSE [p \in DOMAIN data \cup {id} |-> IF p = id THEN NewEntry ELSE data[p]]
SetVote(data, id, vote) == [WithEntry(data, id) EXCEPT ![id].vote = vote]

\* net.sendMessage, without the frame it may take until it is sent (Uplink).
SendMessage(c, msg) == up' = [up EXCEPT ![c] = Append(@, msg)]

\* The message of sendPlayerData.
PlayerData(data) == [type |-> "updatePlayerData", data |-> data]

\* Mutant of SendNews: the others have got the vote themselves.
SendNoNews(c, data) == UNCHANGED up

\* What processMessage sends after a vote: the master repeats everything.
SendNews(c, data) ==
    IF c = Master THEN SendMessage(c, PlayerData(data)) ELSE UNCHANGED up

\* processMessage
ProcessMessage(c, from, msg) ==
    \/ /\ msg.type = "vote"
       /\ playerData' = [playerData EXCEPT ![c] = SetVote(@, from, msg.vote)]
       /\ SendNews(c, playerData'[c])
    \/ /\ msg.type = "updatePlayerData"
       /\ playerData' = [playerData EXCEPT ![c] =
              IF c = Master THEN WithEntry(@, from) ELSE msg.data]
       /\ UNCHANGED up

\* An event is taken out of net.events.
ProcessEvent(c) ==
    /\ Running(c) /\ inbox[c] # <<>>
    /\ inbox' = [inbox EXCEPT ![c] = Tail(@)]
    /\ LET event == Head(inbox[c])
       IN  \/ /\ event.type = "lobbyUpdated"
              /\ netPlayers' = [netPlayers EXCEPT ![c] = event.players]
              /\ UNCHANGED <<up, playerData>>
           \/ /\ event.type = "message"
              /\ ProcessMessage(c, event.from, event.msg)
              /\ UNCHANGED netPlayers
    /\ UNCHANGED <<joined, relayTo, colorsLeft, showStart, stopped, votes>>
-----------------------------------------------------------------------------
(* The rest of scene.tick                                                  *)

\* getPlayersByVote
PlayersByVote(data, game) == {p \in DOMAIN data : data[p].vote = game}
VotesFor(data, game) == Cardinality(PlayersByVote(data, game))

\* reduce, with a callback that ignores its second argument, returns the number
\* of the votes for the first of two games.
TotalVotes(data) == VotesFor(data, 1)

\* Everybody who is counted watches: voteFinished indexes nil.
VoteFinishedFails(data, ps) ==
    /\ TotalVotes(data) + VotesFor(data, 0) >= Cardinality(ps)
    /\ \A g \in DOMAIN Games : VotesFor(data, g) = 0

\* Mutant of VoteFinished: it does not ask whether everyone voted.
VoteFinishedForSome(data, ps) ==
    \E g \in DOMAIN Games :
        /\ \A other \in DOMAIN Games : VotesFor(data, other) > 0 => other = g
        /\ VotesFor(data, g) \in Games[g].minPlayers .. Games[g].maxPlayers

\* voteFinished
VoteFinished(data, ps) ==
    /\ TotalVotes(data) + VotesFor(data, 0) >= Cardinality(ps)
    /\ \E g \in DOMAIN Games :
        /\ \A other \in DOMAIN Games : VotesFor(data, other) > 0 => other = g
        /\ VotesFor(data, g) \in Games[g].minPlayers .. Games[g].maxPlayers

InTick(c) == Running(c) /\ netPlayers[c] # {}

\* Mutant of Missing: players are given their data again.
AllPlayers == netPlayers[Master]

\* The players the master has no data of yet.
Missing == netPlayers[Master] \ DOMAIN playerData[Master]

\* Mutant of ColorFor: the colour is looked at and not taken out of the list.
LastColor(id) == colorsLeft

\* table.remove(playerColorIndices), player by player.
ColorFor(id) == colorsLeft - Cardinality({p \in Missing : p < id})

\* The data of the master with the entries it adds in this tick.
Completed ==
    [p \in Missing \cup DOMAIN playerData[Master] |->
        IF p \in Missing THEN [color |-> ColorFor(p), vote |-> NoVote]
        ELSE playerData[Master][p]]

Press(vote) == votes' = IF vote = NoVote THEN votes ELSE votes + 1

\* The master gives those who are new a colour and tells the others, looks at
\* the votes, and votes itself if the button is pressed.
TickOfMaster(vote) ==
    LET data == Completed
        voted == IF vote = NoVote THEN data ELSE SetVote(data, Master, vote)
    IN  /\ InTick(Master)
        /\ Cardinality(Missing) <= colorsLeft
        /\ ~VoteFinishedFails(data, netPlayers[Master])
        /\ colorsLeft' = colorsLeft - Cardinality(Missing)
        /\ showStart' = VoteFinished(data, netPlayers[Master])
        /\ playerData' = [playerData EXCEPT ![Master] = voted]
        /\ up' = [up EXCEPT ![Master] =
               @ \o (IF Missing # {} THEN <<PlayerData(data)>> ELSE <<>>)
                 \o (IF vote # NoVote THEN <<PlayerData(voted)>> ELSE <<>>)]
        /\ Press(vote)
        /\ UNCHANGED <<netVars, netPlayers, stopped>>

\* error("Ran out of player colors")
RunOutOfColors ==
    /\ InTick(Master) /\ Cardinality(Missing) > colorsLeft
    /\ Stop(Master)

\* voteFinished fails.
NobodyPlays ==
    /\ InTick(Master) /\ Cardinality(Missing) <= colorsLeft
    /\ VoteFinishedFails(Completed, netPlayers[Master])
    /\ Stop(Master)

\* Another player presses the vote button, with a game that is selected or none.
\* If his client has no entry for him yet it indexes nil.
VoteOfOther(c, vote) ==
    /\ InTick(c) /\ c # Master
    /\ c \in DOMAIN playerData[c]
    /\ playerData' = [playerData EXCEPT ![c] = SetVote(@, c, vote)]
    /\ SendMessage(c, [type |-> "vote", vote |-> vote])
    /\ Press(vote)
    /\ UNCHANGED <<netVars, netPlayers, colorsLeft, showStart, stopped>>
VoteTooEarly(c) ==
    /\ InTick(c) /\ c # Master
    /\ c \notin DOMAIN playerData[c]
    /\ Stop(c)

\* scene.draw, when it comes to an entry without a colour: setColor(nil).
DrawFails(c) ==
    /\ InTick(c)
    /\ \E p \in DOMAIN playerData[c] :
           /\ playerData[c][p].color = NoColor
           /\ p \in netPlayers[c] \/ playerData[c][p].vote # NoVote
    /\ Stop(c)
-----------------------------------------------------------------------------
Tick(c) ==
    \/ ProcessEvent(c)
    \/ c = Master /\ (TickOfMaster(NoVote) \/ RunOutOfColors \/ NobodyPlays)
VotePressed ==
    /\ votes < MaxVotes
    /\ \E vote \in 0 .. Len(Games) :
           TickOfMaster(vote) \/ \E c \in Players : VoteOfOther(c, vote)

Next ==
    \/ Join
    \/ \E c \in Players : Relay(c) \/ Tick(c) \/ VoteTooEarly(c) \/ DrawFails(c)
    \/ VotePressed

Spec == Init /\ [][Next]_vars

\* The server relays and the clients' frames go on; nobody has to come or vote.
FairSpec == Spec /\ \A c \in Players : WF_vars(Relay(c)) /\ WF_vars(Tick(c))
-----------------------------------------------------------------------------
\* The start button is a promise: when it appears everybody the master knows of
\* has voted, all who play want the same game, and it is one for so many.
Agreed(data, ps) ==
    LET playing == {p \in ps \cap DOMAIN data : data[p].vote # 0}
    IN  /\ \A p \in ps : p \in DOMAIN data /\ data[p].vote # NoVote
        /\ \E g \in DOMAIN Games :
               /\ \A p \in playing : data[p].vote = g
               /\ Cardinality(playing) \in Games[g].minPlayers .. Games[g].maxPlayers
StartIsAgreed ==
    [][~showStart /\ showStart' => Agreed(playerData[Master], netPlayers[Master])]_vars

\* A colour that a client shows is that player's alone, and stays his whoever
\* comes and in whatever order votes and the master's data arrive.
ColorsDistinct ==
    \A c \in Players : \A p, q \in DOMAIN playerData[c] :
        p # q /\ playerData[c][p].color # NoColor =>
            playerData[c][p].color # playerData[c][q].color
ColorsStay ==
    [][\A c, d \in Players :
        \A p \in DOMAIN playerData[c] \cap DOMAIN playerData'[d] :
            playerData[c][p].color # NoColor /\ playerData'[d][p].color # NoColor =>
                playerData[c][p].color = playerData'[d][p].color]_vars

\* Votes and older data of the master cross on their way; in the end all clients
\* show what the master shows, unless an error has stopped one.
Agreement ==
    <>[](stopped # {} \/ \A c \in 0 .. joined - 1 : playerData[c] = playerData[Master])
-----------------------------------------------------------------------------
(* Types                                                                   *)

\* A game, 0 for watching.
Choices == 0 .. Len(Games)
Colors == {NoColor} \cup UNION {1 .. n : n \in PaletteSizes}
Entries == [color : Colors, vote : Choices \cup {NoVote}]
PlayerDatas == UNION {[D -> Entries] : D \in SUBSET Players}
\* Nobody leaves, so the ids in a lobby are the first ones.
Lists == {0 .. n : n \in Players}

Messages ==
    [type : {"vote"}, vote : Choices] \cup
    [type : {"updatePlayerData"}, data : PlayerDatas]
Events ==
    [type : {"lobbyUpdated"}, players : Lists] \cup
    [type : {"message"}, from : Players, msg : Messages]

TypeOK ==
    /\ joined \in 0 .. MaxPlayers
    /\ up \in [Players -> Seq(Messages)]
    /\ inbox \in [Players -> Seq(Events)]
    /\ netPlayers \in [Players -> Lists \cup {{}}]
    /\ playerData \in [Players -> PlayerDatas]
    /\ colorsLeft \in Colors
    /\ stopped \subseteq Players
=============================================================================

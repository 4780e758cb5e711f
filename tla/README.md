# chatgames in TLA+

chatgames is a lobby server (C++, boost::asio) and a client (Lua, LÖVE).  Players
create or join a lobby by name, see who is in it and vote for a game; the server
keeps the lists of players and relays what the clients say to each other.  This
directory models the server and the clients, checks the models on small
instances with TLC, and proves the central results for every instance with TLAPS.

## 1. The system

| component | state | operations | talks to |
|---|---|---|---|
| `Lobby` (LobbySession.cpp:13-65) | `players`, sorted by id; `locked`; a `shared_mutex` | addPlayer, removePlayer, canJoin, isPlayerMaster, lookups | called by the handlers under its mutex |
| `LobbyContext` (8-11, 67-114), `words.cpp` | `lobbies_`: name -> `weak_ptr<Lobby>`, never erased; a mutex; the pool of threads | createLobby, getLobby, run | called by the handlers |
| `Config`, `main`, `Server` (Server.hpp:51-110) | `config_`, `threads_`, the acceptor | loadFromFile, run, accept, handleConnection | makes the sessions; TCP |
| `LobbySession` (116-366) | `lobby_` (shared_ptr), `playerId`, `strand_` | one handler for each message type | `Lobby`, `LobbyContext`; posts to any session's write strand |
| `ConnectionBase` (Server.cpp) | `readBuf_`, `sendQueue_`, `writeStrand_`, socket | read, readBuf; send, queueMessage, sendFromQueue, sendDone | TCP; `LobbySession::processReadBuf` |
| framing, fields (serialization.cpp, .hpp) | a buffer and a cursor | readMessage: four bytes of size, then the message; BufferReader, BufferWriter | |
| `net.lua`, `queue.lua` | `recvQueue`, `sendQueue`, `events`, `playerId`, `lobbyId`, `players` | createLobby, joinLobby, sendMessage, update | TCP; the scenes take events |
| scenes (`main.lua`, `scenes/`) | `scenes.current`, the scene of the running frame, the lobby scene's `playerData` | keypressed, tick, draw | `net` |
| lobby scene (`scenes/lobby.lua`) | `playerData` (colour and vote of each player), `playerColorIndices` | processMessage, tick, voteFinished, draw | `net`; the lobby scenes of the others, by relayed messages |
| `gui.lua`, `util/`, `array.lua`, games | | drawing, small helpers, tables | |

What is hard here:

* **Threads.**  Handlers of different connections run on a pool.  The strand of a
  connection orders its own messages, a lobby's mutex (unique or shared) guards
  its list, another guards the names, and each connection has a second strand
  for writing.  Between the two locks a handler takes, everything can change.
* **Streams.**  TCP delivers the bytes of messages in any portions, writes fail
  half-way, connections break at any point.
* **Lifetimes.**  A session lives as long as somebody has a `shared_ptr` to it, a
  lobby as long as a session has one; everything else has `weak_ptr`s.
* **Replicas.**  Every client keeps the colours and votes of all players; the first
  player's client decides, and what it decided crosses what others say.
* **Frames.**  A client looks at events once per frame and goes on with the scene
  the frame began with, so a second key finds the old scene.
* **Assertions.**  The Makefile builds the Debug configuration: a failed
  `assert` ends the process for all lobbies.

What makes each part correct: a *lobby* has unique ids, lowest first, and nobody
enters when it is locked or full; a *handler* never walks a list that changes,
fails an assertion only where section 6 says so, and is finished as long as there are
names; a *connection* sends messages whole, in order and one at a time, takes
them out of a stream whole and in order, and is neither used after it is
destroyed nor kept for ever by itself; a *name* leads to one lobby; the *server*
serves what it was told; a *client* gets the answer to its request first, and
knows in the end who is in its lobby and what they voted for.  The hazards behind
these, each at its line, are listed in `PROJECT.json`.

## 2. The modules

| module | models | remarks |
|---|---|---|
| `Roster` | the player list as a function from ids to connections | operators only; used by all others |
| `Seats` | what a lobby promises about its list | abstract specification |
| `IdOrder` | sorting players by id, in server and client | operators only |
| `LobbyVector` | the sorted vector and the loops over it | extends `IdOrder`, implements `Seats` |
| `Serialization` | every field of every message, written and read | operators only, extends `IdOrder` |
| `PlayerMessages` | the vector and the messages about it | extends `LobbyVector` and `Serialization` |
| `LobbySession` | the server: every handler of every connection | open: clients send anything |
| `ChatGames` | `LobbySession` and a client at the end of every connection | extends `LobbySession` |
| `Registry` | what `createLobby` and `getLobby` promise | abstract specification |
| `LobbyContext` | names, `lobbies_`, its mutex, step by step | implements `Registry` |
| `Channel` | what a connection promises to those who send | abstract specification |
| `Connection` | `ConnectionBase`, writing | implements `Channel` |
| `Server` | configuration, threads, accept, the life of a session | extends and implements `Connection` |
| `Framing` | a stream of messages with their sizes | operators only |
| `ReadBuffer` | `ConnectionBase`, reading, and `readMessage` | extends `Framing` |
| `Uplink` | the client's `sendQueue` and `send`, through the socket to `ReadBuffer` | extends `ReadBuffer` |
| `NetReceive` | `receive` in net.lua | extends `Framing` |
| `LobbyScene` | colours and votes in the lobby scenes of all players | |
| `LobbySessionTheorems`, `ChatGamesTheorems`, `PlayerMessagesTheorems`, `LobbySceneTheorems`, `LobbyContextTheorems`, `NetReceiveTheorems`, `UplinkTheorems` | proofs about the module of the name | `LobbySessionTheorems` has those about `Roster`, `PlayerMessagesTheorems` those about `LobbyVector` and `Serialization`, `NetReceiveTheorems` those about `Framing`, `UplinkTheorems` those about `ReadBuffer` |
| `ConnectionTheorems` | proofs about `Connection` and `Server` | |
| `MCLobbySession`, `MCChatGames`, `MCPlayerMessages`, `MCServer`, `MCLobbyScene` | values and symmetry sets for TLC | |

**LobbySession.**  `strand[s]`, `task[s]`, `lobby_[s]` and `playerId[s]` are a
session's strand, running handler and members; `players`, `locked`, `writer` and
`readers` a lobby's members and the holders of its mutex; `names` the keys of
`lobbies_`.  A draw of a name that is in use is a step of its own (`DrawUsedName`),
which is all that is left once the names are used up.  A handler stops before each lock it may have to wait for, and after
each message it posts.  So the handlers of createLobby and joinLobby have the steps `StartHandler`,
`LockContext`/`CreateLobby` or `GetLobby`, then `EnterLobby` (which changes the
list and keeps the mutex), one `PostNext` for each receiver, and `Unlock`.  What
a handler does between two such points touches only what its mutex or its strand
guards.  At most `NumThreads` handlers run at once.  A `weak_ptr` can be locked as
long as some session's `lobby_` holds the lobby (`LobbyAlive`).  Failed
assertions set `aborted`, after which nothing happens.  `~LobbySession` does not
call the leave handler, and neither does the model.

Messages posted to a connection form its `out` stream.  That a stream keeps its
order and its messages whole is what `Connection`, `ReadBuffer` and `NetReceive`
are about; they are separate because their bytes do not matter to the handlers.
An update carries its lobby and a relayed message its author, which the wire
does not: properties are stated with them, no action reads them.

**ChatGames.**  `scene[s]` is the scene the running frame captured, `current[s]`
is `scenes.current`.  `Press` queues a request and sets `current`; `Frame`
begins a new frame; `Transmit` is `send` once a scene calls `net.update`;
`TickWaitForJoin` and `TickLobby` receive some of what has arrived, run the
handlers of net.lua and look at events as these scenes do, errors included.  A
player may try to join any name, a guess included: `validLobbyName` asks for
letters and digits only, and a lobby can be found as soon as its name is drawn,
before its creator is in it.  `Say` is a vote or the master's data, with its
contents left open.  Key "j" stops the client
(`PressJ`), as `validLobbyName` is declared after its use.

What `ReceiveMessages` leaves of several messages is what their handlers, one
after the other, would: each overwrites what the last of its type said
(`HandleMessages`).

**LobbyVector** has the vector with indices from 1; `Denotes` is the refinement
mapping to `Seats`.  `Sort` (in `IdOrder`) puts every player behind as many as have a lower id;
players with the same id would keep their order, which `std::sort` does not
promise, but there never are two (`Sorted`).

**Connection** has messages as numbers and a write as pieces.  Calls of `send`
come at any time, in the order in which the strand receives them.  More than one
write at a time can be expressed: that there never is more is shown, not built in.

**LobbyContext** has what one handler step of `LobbySession` stands for: a session is
`at` a point of `createLobby` (waiting for the unique lock, drawing, checking, adding) or
`getLobby` (waiting for the shared lock, finding).  The tables of words are cut
down to what matters: some words are in a table twice, some in both, and a pair
can be had in two ways only if words begin others, which capitals exclude.  That
the whole is atomic, as `LobbySession` has it, is the refinement of `Registry`.

**Server** follows one session from the accept on, `Connection` with what surrounds it:
`phase` is how far main has come, `chain` the read chain, `tasks` the handlers that
have not returned, `listed` whether a lobby's player has the `weak_ptr`.  `Held` says who
has a `shared_ptr`, from the lambdas' captures; `SessionSend` comes from a handler of
the session or, through the `weak_ptr`, of another.  The other sessions are
`AcceptOther`.  `remote_endpoint()` may throw, and the process ends.  `drawing` is a
`createLobby` of any session that finds no free name and never gives `mutex_` back
(`DrawForever`); how names are used up is the subject of `LobbyContext`.

**Serialization** writes and reads messages as sequences of bytes; `Base` stands for 256.
A loop is a recursive function from the number of turns to what they have made: the
server's, which writes player after player, is `Buffers`, the client's, which
reads player after player and sorts in every turn, is `Turns`.
`PlayerMessages` puts the players of `LobbyVector` into them; `Whole` says that a message
and its size make a frame that the other side takes for complete, and for this message.

**ReadBuffer, NetReceive, Uplink** have bytes as positions in the stream, which are
sums of sizes (`Framing!Sums`).  Four bytes
read where no message begins may be any size (`SizesAt`).  `QueueSize` in `NetReceive`
is what `Queue:size` computes, 2 minus the number of elements.  The loop of `concatUntil`
adds the next chunk itself to `totalSize` where its length is meant (net.lua:161), which
would be an error if it was not a number; with `Queue:size` as it is the loop is never
entered, and `ConcatUntil` has the lengths.

In `Uplink` the socket takes all of a string, a part, nothing, or fails, as `send`
distinguishes them.  `wire` is what it has taken, each byte known by its place in the
stream, and the server reads from `wire`.  LuaSocket reports a part as `nil, "timeout", n`, of
which `send` looks at the first two only and pushes the whole string back
(`SendTimeout`): the n bytes come again, so that `wire` is not the stream any more
and what the server takes for a size behind them may be anything (`SizesOnWire`).
`Intact(n)` says that the first n bytes of `wire` are those of the stream.  `SendPart`, where
`send` puts the rest back, is there because the code is, though LuaSocket hardly returns
a smaller number than it was given.

**LobbyScene** has `playerData` of every client, and between them messages that are
relayed one receiver at a time, while joins are announced to all at once, as
`LobbySession` shows.  The master's tick completes the data, sends it, looks at the votes,
and may vote, in this order.  `TotalVotes` is what `ülp.reduce` makes of the callback.
Abstractions: messages leave the client at once (the delay is `Uplink`'s); nobody
leaves, so that the master is the first player; the two games of the repository.

## 3. The runs

| run | asks | instance |
|---|---|---|
| `any_clients` | whatever clients send: types, lock discipline, lists that stand still while they are walked, who may enter, what a step may do to seats, lobbies that are lost | 3 connections, 2 names, 2 threads, lobbies for 2, any 4 messages |
| `order_and_progress` | relayed messages keep the order of their author; every message is handled (liveness) | 2 connections, one name, any 4 messages that are not ignored |
| `whole_system` | the answer comes first; a client that creates a lobby gets into it, as long as there are names and no assertion fails (liveness) | 2 clients, one lobby for 2, 3 requests, 2 in a frame |
| `conversation` | no assertion fails but that of a creator whose lobby is full before he is in it; seats are one's own, views are current, authors are known | 3 clients, one lobby for 2, 4 messages |
| `player_messages` | sorted; lookups; implements `Seats`; what is written is what the other side reads | bytes below 12, so 11 players, names of 0 (one player's) and 11 bytes, texts of 0 and 13 |
| `serving` | order, one write; stuck exactly after a failure; implements `Channel`, with its liveness; served as told; not used after it is destroyed, and destroyed in the end unless its handlers wait for one that draws for ever | ports -1, 0, 65535, 65536 or none; threads negative, none, some; messages of 2 pieces; one peer that may leave |
| `uplink` | no byte lost or ahead of another, whatever is sent twice; before that messages whole, in order, not left behind; requests arrive (liveness) | 2 messages, below and above a read, any pieces, one timeout in the middle of a string |
| `client_reading` | messages the client receives are whole, in order, and not left behind | 2 messages, any chunks |
| `lobby_scene` | agreement before start, colours distinct and constant, replicas that agree in the end (liveness) | 3 players up to 2 events behind, 2 or 3 colours, 2 games, 2 votes at any time |
| `lobby_names` | names lead to lobbies; implements `Registry`; createLobby returns while names are left (liveness) | 2 sessions, 5 calls, 4 names that can be had in 9 ways |
| `assert_player_id`, `concat_comment` | statements of the code that do not hold, see section 6 | small |

*Why these bounds are enough to be interesting.*  A conflict on a lobby needs two
connections; a third can lock, fill or leave in between, or receive what two
others relay.  Three messages are enough for create, lock and join, or for two
joins that race for the last seat of a lobby of two.  Relay order needs create,
join and two messages.  Two names are needed for a client that is in two
lobbies.  Two threads let handlers overlap, and fewer threads than connections
make one wait for a thread.  Four names and five calls are enough to use all names
up, in any mixture with lookups.  A write in two pieces can fail in its middle and
mix with another.  With eleven players ids are freed below, between and above those
in use, and the list can be as long as its size field says.  Three players are
two who vote and one who joins meanwhile, and with two colours the last is one
too many; two votes can cross, or one can cross the master's data.  A read of 6 bytes
(`ReadSize` of `uplink`) is below one of the messages (7 bytes) and
above the other (5), so one read can have bytes of two messages and one message can need two.
One timeout in the middle of a string is enough to shift all that follows; a second would
shift it again.  Two presses and one name let a client create a lobby and join it as well,
or two clients join before its creator is in it, and three requests fill a lobby of two
before that.  What is bounded is the number of messages (`MaxRequests`,
`MaxMessages`), calls (`MaxCalls`), votes (`MaxVotes`), the handlers that wait in `Server`
(`MaxTasks`), timeouts in the middle of a string (`MaxRepeats`), and the requests
a client makes in its first scene (`MaxPresses`).  Nothing
keeps clients from asking for more lobbies than there are names.

Deadlock is checked wherever the system is meant to go on.  `Stopped` is the
step of a system that is over (an assertion failed, or every connection is gone).
The runs of `Server`, `Uplink`, `NetReceive`, `LobbyScene` and `LobbyContext` turn the deadlock
check off: they end when the bounded number of messages, calls or votes is used up.

*Constraints.*  `OneShortName` (`player_messages`): one player at most has the empty name,
so that entries of both lengths stand before and behind each other.  `ShortInboxes`
(`lobby_scene`): two events at most wait for a client, on top of whatever their
authors have still to send, so that a vote still crosses the master's data.  `NoHeartbeats`
(`order_and_progress`): messages that `processMessage` ignores are left to `any_clients`.
`FirstSpeaksFirst`, in the same run, does by hand what symmetry would: one given
connection is the first the server hears of.

*Symmetry* is used for connections and names in runs without liveness.

*Mutants.*  Each property is broken by a small change of the code it is about: a
lock that is not taken, an entry in front of a queue, an id that is not looked
up, a check that is off by one.  They stand beside the definitions they change.

## 4. Fairness

* `LobbySession!FairSpec`: weak fairness of each connection's handler.  The pool's
  threads run `io_context::run` for ever and asio queues strands fairly; a
  handler that waits for a mutex is enabled while the mutex is free, and every
  holder is itself fair and finishes.  Writers are not overtaken for ever because
  the number of messages is finite.
* `ChatGames!Fairness`: the server's handlers as above; frames and ticks go on while
  the client runs; what was queued is transmitted.  Nobody has to press a key,
  speak or hang up.
* `Server!ServerFairSpec`: main gets on; tasks and writes go on; a peer that has left is
  noticed by the pending read.  Handlers return as long as no `createLobby` draws for ever
  (`~drawing`): after that they may wait for `mutex_`, or for a thread, for good.
  `FailWrite`, `PeerLeaves` and
  `RemoteEndpointThrows` are never forced.
* `Uplink!UplinkFairSpec`: frames go on and what has arrived is read.  The socket is strongly
  fair: tried again and again it takes some bytes in the end, as a part, as a whole or before
  a timeout, since the server's read chain never stops reading.
* `NetReceive!FairSpec`: `receive` is called again and again.  Reading is strongly fair:
  a call may find the socket empty, and only not always.
* `LobbyContext!FairSpec`: each call goes on.  Drawing is strongly fair in names that
  are free: `randomChoice` draws every word with the same probability, so that one that
  is free comes with probability one.  `LobbySession` has no such assumption;
  there a draw of a used name changes nothing.
* `LobbyScene!FairSpec`: relays and frames go on.  Nobody has to join or vote.

## 5. Proofs

Proved for every value of the constants under the named assumptions
(`SessionAssumption`, `MaxPlayersAssumption`, `PressAssumption`, `VectorAssumption`,
`BaseAssumption`, `MessageAssumption`, `ConnectionAssumption`, `ServerAssumption`,
`ContextAssumption`, `FramingAssumption`, `ReadSizeAssumption`, `RepeatsAssumption`, `SceneAssumption`: finite sets,
positive sizes, lengths that their fields can hold, `Null` distinct from everything, and in
`SceneAssumption` that there are two games, as in the repository).

*Roster* (in `LobbySessionTheorems`).  `NextPlayerIdIsFree`: with a list that is not
full, `getNextPlayerId` returns an id below `maxPlayers` that nobody has.  Lemmas say
what `AddPlayer` and `RemovePlayer` do to the domain.

*LobbyVector.*  `StaysSorted`, `LookupsAreRight`, and `VectorImplementsSeats`, the
refinement.  The invariant is `Sorted`; the work is in what the loops return.  With a
sorted vector whose ids are distinct the first index that has another id than
itself is the least free id (`NextPlayerIdFound`), so all before it have lower ids and all
behind it greater ones, which is where the sort puts the new player (`SortInserts`: the
places of all others are counted).  Erasing shifts what is behind (`RemoveAtErases`).
From the elements one gets the list they denote (`DenotesThis`).

*Messages* (in `PlayerMessagesTheorems`).  `UpdatesAreDecoded`, `AnswersAreDecoded` and
`RequestsAreDecoded`: what one side writes the other side reads, for any `Base`, any
vector that is sorted and any name or text whose length its field can hold.  `hton` and
`ntoh` are inverse as long as the bytes suffice (`NtohUndoesHton`, by division with
remainder).  A buffer is a concatenation, and `Occurs` says where in it a field
stands (`OccursInConcat`, `IntegerThere`, `StringThere`), so that the readers find each field
where the one before ended; a list of players is the only message with a loop.
A loop's function is defined for every number of turns (`LoopDefined`) and a property of
its turns is proved by the least turn that lacks it (`LoopStays`).  After i turns the
client has the first i players, in the order of the vector, and stands where the next
entry begins (`TurnsAre`): the entry read is the one written (`DecodePlayerReads`) and its id
is the greatest so far, so that the sort leaves all as they are (`SortInsertsEntry`).  That needs
`Sorted`.  The sizes fit the four bytes of a frame (`SizesFit`, `ListedFits`).

*LobbySession.*  `Invariance` proves `Spec => []IInv`.  The mutexes are not built
into the actions as atomic blocks, so "a list stands still while it is walked"
(`IterationSafe`) needs to know who can change it: only a handler for which
`UniqueFree` held.  That this excludes the one who walks needs `MutexOK` (whoever
is posting holds the mutex of the lobby that `lobby_` names, and holders are
posting).  And `MutexOK` needs `HandlerOK` and `TypeOK`, which say what is set at each
point of a handler: a relay is sent with a `playerId` because of the assertion
before it.  The step proof has one lemma for each action.  `TypeCorrect`,
`IterationIsSafe`, `ClosedLobbies` (nobody but a creator enters a closed lobby),
`StableSeats` and `LostLobbies` (no handler holds the mutex of a lobby that was
destroyed) follow from it.  So does `ListsAreSeats`: the list of each lobby implements
`Seats`, under handlers that took the lobby from `lobby_` before they waited for its mutex
and asked `canJoin` after it.  `VectorImplementsSeats` says the same of the vector, which
is why `LobbySession` may have a function for it.

`RelaysKeepOrder` has an invariant of its own, `OrderInv`, on top of `IInv`.  What a
connection says is numbered; along its strand, its handler and all streams the
numbers must decrease from where messages come from to where they go: what waits on the
strand is newer than what the handler relays (`WaitingInOrder`, `RelayingInOrder`), and
that is newer than whatever of this connection is in any stream (`RelayedBefore`).
A strand runs one handler at a time, and each visits a receiver once.

*ChatGames.*  `SystemInvariance` proves `SystemInv`, in parts that rest on each other.
The server hears only what the first scene and the lobby scene can send
(`RequestsOK`), so nobody leaves a lobby.  A client that made one request has it under
way in exactly one place, its queue, its strand or its handler, or it is seated
(`RequestOK`): hence `SeatIsOwn`.  `OnlyCreatorsAbort`: a message to be relayed is sent
only with a `playerId`, which `assert(playerId)` asks for, and who joins has asked `canJoin`; what is
left is a creator, who does not ask, in a lobby whose name others have guessed.  Nobody is in
a lobby before its name is drawn, nor its creator before he enters it (`LobbiesOK`, `NamesOK`), so
those who filled it are others.  Lists only
grow, so all lists on their way to a client are earlier states of one list, in order,
and the last is the current one unless the handler that changed it has still to announce it
(`ViewsOK`): `ViewsAreCurrent`.  The answer is posted before the first update because the
list is announced after it in the same handler (`AnswersOK`, `AnswerComesFirst`), and a
relay comes after the update that has its author because the author had been announced
to all when he got the shared lock (`AuthorsOK`, `AuthorsAreKnown`).  The steps of
`LobbySession` are covered by one lemma for each part and action, those of the clients by
what they change of `net` and `out`.

A client that receives takes messages out of `out`, which no action of `LobbySession` does,
so `ChatGames` does not implement it.  But each step is one of the server or a client's tick
(`ServerOrTick`), and a tick leaves lists, locks and handlers alone and keeps the end of a
stream: `RelaysStayInOrder`, `SystemListsAreSeats` and `LobbiesStayClosed` say so of the whole system.

*Connection.*  `OneWriterInOrder` proves `Spec => []IInv`: the messages not gone are
numbered without a gap through queue and posted tasks; there is one write at
most, of the front; and what has left ends where the write stands
(`WireFollows`, or `WireIdle` when nothing is queued).  The last two are what the
refinement needs: the piece a write sends is the one `Channel` sends next.
`OnlyFailuresStop` is the invariant with `StuckIffFailed`, which the refinement needs
as well, since a channel sends nothing after it broke.
`SendingImplementsChannel` is the refinement, initial states and steps.

*Server.*  Every step of the server is one of `Connection` or leaves its variables alone
(`ServerStepIsConnectionStep`), so `Server` implements `Connection` and with it `Channel`
(`SessionsImplementChannels`).  `DestroyedIsUnused` goes through the actions: each needs
one of the conditions of `Held`.  `ServesAsTold` is the invariant `Started`: what each
phase of main has established about the port, the threads and the accepts.

*Streams.*  The invariants (`BufferInv`, `ReceiveInv`) say that the cursor is
where the message after the last one handled begins.  There, and only there, four bytes
mean a size (`NextBegins`), so what is taken next is that message; elsewhere the models let
them mean anything.  This needs to know that ends of messages increase by more than the size
field (`EndsGrow`) and what a message more, a chunk more or a chunk less does to
the sums.  The lemmas on sums are inductions over sequences; they take the least
index for which a claim fails (`LeastNumber`).  `RequestsAreWhole` and `NothingIsLeft` are the
server's side, `MessagesAreWhole` the client's.

*Uplink.*  `UplinkInv` says what timeouts in the middle of a string cannot break.  The socket
gets the bytes of the stream in their order, going back to the beginning of a string at
times and never ahead of the last byte it has taken (`TakeLosesNothing`): `SocketGetsAll`.  As
long as what was consumed is intact, the cursor is where a message of the stream begins; as
long as all that was read is, `BufferInv` holds.  `wire` only grows, so what is intact stays so
and what is not never becomes so (`WireGrows`): `RequestsBeforeAreWhole`,
`NothingBeforeIsLeft`.  Where `wire` is intact the size read from it is the one in the
stream (`SizesOnIntactWire`), and `UplinkImplementsReadBuffer` follows: under
`[]Intact(received)` the client is one of the peers `ReadBuffer` allows.

*LobbyScene.*  `SceneInvariance` proves `SceneInv`.  All colours come from the master: it
hands out the palette from its end, so those it has given are distinct and above
`colorsLeft` (`Handed`), and any colour in a client's data or in a message on its way is the one
the master has for that player (`Shown`, `ColorsOK`).  That gives `ColorsAreDistinct` and
`ColorsAreKept`.  `StartMeansAgreed` needs that every vote the master counts is one
of a player in its list, so that as many votes as players are the votes of all: joins
reach the master before anything the joiner says (`InOrder`, `VotersOK`).

*LobbyContext.*  The invariant `Registry` says that `lobbies_` and the names of the lobbies
that were made are inverse to each other (`Registered`, `NoOther`).  `emplace` keeps that
because the name is still free (`NameFree`), which holds from the check to the
emplace because `mutex_` excludes every other creator (`Exclusive`).  `NamesLeadToLobbies`
follows, and `ContextImplementsRegistry`: the emplace is where
`createLobby` happens, the find where `getLobby` does, and all other steps stutter.

`SystemInv`, `SceneInv` and `OrderInv` are defined beside their proofs; a module that extends
those of the proofs and of the instance can have TLC check them.  They were invariants of
a run before they were proved: `OrderInv` with two connections and any four messages (587436
states), `SystemInv` with the instance of `conversation` (860610), `SceneInv` with that of
`lobby_scene` without its constraint (848191), `UplinkInv` with `uplink` (139788), `ReceiveInv`
with `client_reading` (50924).

*Only model-checked:* what must happen in the end (`RequestsHandled`, `CreateAnswered`,
`RequestsArrive`, `AllHandled`, `SentGoesOut`, `EventuallyDestroyed`, `Agreement`, `CreateReturns`),
since fairness and ENABLED are beyond the prover.  Every invariant and every action property
that a run checks is a theorem, and so is the safety part of every refinement.

## 6. Where code and comments disagree

1. `assert_player_id`: `processJoinLobby` assigns `lobby_` before it asks `canJoin`; a
   client whose join was rejected has a lobby and no `playerId`, and its next
   message fails `assert(playerId)` (LobbySession.cpp:246, 268).
   If it leaves, `*playerId` reads an empty optional (232), and `removePlayer` has an
   assertion of its own (52).  Neither happens with the clients of this repository
   that make one request: a rejected one waits for ever instead.
2. `concat_comment`: `Queue:size` (queue.lua:48) is wrong for any queue that has not
   one element, so `concatUntil` never joins chunks and the client is stuck
   behind a message that came in two.

One assertion can fail with the clients of this repository: a lobby is in `lobbies_` before
its creator is in it, so players who guess the name can fill it, and `getNextPlayerId`, which
the creator's handler calls without `canJoin`, asserts that there is room (LobbySession.cpp:22,
190).  `conversation` and `OnlyCreatorsAbort` show that it is the only one
(`OnlyFullLobbyAborts`).  With 255 players and the names of `words.cpp` nobody will see
it; no comment speaks of it.

After a write that failed `sendQueue_` is never empty again, so nothing more is
written while relays go on to fill it (`StuckIffFailed`): that nothing follows a
broken message is what `Channel` wants, that the queue grows until the session is
destroyed is not.

Steps that stop a client are in the models without being called disagreements,
as no comment excludes them: an update that arrives in the same frame as the
answer (`TickWaitForJoin`), a lobby scene that ticks before its first update
(`TickLobby`), key "j" (`PressJ`), a vote before the master's data (`VoteTooEarly`), an entry
without a colour (`DrawFails`), more players than colours (`RunOutOfColors`), a lobby in
which all who are counted watch (`NobodyPlays`).  Two messages in one read leave the
second in `readBuf_` until the next read (`NoBacklogBefore` states exactly when).  A peer that
leaves between the accept and its handler ends the server (`RemoteEndpointThrows`).
A timeout of `tcp:send` after a part was taken repeats the part, and the server loses the
framing from there on (`SendTimeout`); the requests before are not harmed (`RequestsWhole`).

`voteFinished` counts only the votes for the first game, and those who watch; a lobby
that agrees on the second one is not recognised.  It never says too early that all
agree (`StartIsAgreed`), because all who vote for another game than the first make
it say no.

`toLower` (util.cpp) drops the result of `to_lower_copy`, so lobby names are
case-sensitive (`LobbyContext!ToLower`).

## 7. Not modelled

Drawing and layout; the games, which have no logic yet; the test client
(client.main.cpp), which frames lines of its input; the log (`hexDump`,
`threadIdStr`, `operator<<`); the vendored libraries.  The 32-bit wrap of `msgSize + 4` is in
`FrameComplete`, but no client here sends a message so long.  Data races inside asio's
socket (read and write from different threads) are the library's.  Errors of `bind`
and `connect` end the process before anything happens.  See the notes of
`PROJECT.json` for each.

## 8. Plan

Done, the most important behaviour first:

1. `Roster`, `LobbySession` with its proofs: the server under any clients.
2. `ChatGames`: the whole system.
3. `Seats`/`LobbyVector`, `Channel`/`Connection` with its proofs: the data structures and
   strands the first two take for granted.
4. `Framing`, `ReadBuffer`, `NetReceive`, `Uplink`: streams, in both directions.
5. `Serialization`, `PlayerMessages`: what is in the messages.
6. `Registry`/`LobbyContext` with its proofs: names, and what happens when they run out.
7. `Server` with its proofs: start, accept, the life of a session.
8. `LobbyScene`: the replicas of `playerData`.
9. The proofs of `RelaysInOrder`, `ChatGames`, `LobbyScene`, the streams, `LobbyVector`, the
   messages, and of the lists of `LobbySession` and `ChatGames` as `Seats`.

What could follow: the master's disappearance in `LobbyScene`, once the code says what
should happen then; and an abstract specification of the whole system for `ChatGames` to
implement.

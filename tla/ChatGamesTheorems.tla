-------------------------- MODULE ChatGamesTheorems --------------------------
(***************************************************************************)
(* What the whole system guarantees when the clients are those of client/, *)
(* for every number of clients, names, threads and players.  The inductive *)
(* invariant is SystemInv: its conjuncts say what a client can have asked  *)
(* for, who can be in a lobby, and what is on its way.                     *)
(***************************************************************************)
EXTENDS ChatGames, LobbySessionTheorems
-----------------------------------------------------------------------------
(* The inductive invariant                                                 *)

ClientsOK ==
    /\ net \in [Sessions -> Nets]
    /\ sendQueue \in [Sessions -> Seq(Requests)]
    /\ sent \in [Sessions -> Seq({"createLobby", "joinLobby"})]

\* A request as the first scene makes it.
Asks(r) == r.type \in {"createLobby", "joinLobby"}

\* The server hears nothing else from these clients, and a message to be
\* relayed only from those that have a playerId.  So nobody leaves a lobby.
RequestsOK(s) ==
    LET t == task[s]
    IN  /\ conn[s] = "gone" => strand[s] = <<>> /\ t.pc = "idle"
        /\ \A i \in DOMAIN sendQueue[s] : Asks(sendQueue[s][i])
        /\ \A i \in DOMAIN strand[s] :
               \/ Asks(strand[s][i])
               \/ IsSend(strand[s][i]) /\ playerId[s] # Null
        /\ \/ t.pc = "idle"
           \/ /\ t.pc \in {"createLobby", "joinLobby", "naming", "enter"}
              /\ Asks(t.req)
           \/ /\ t.pc = "sendMessage"
              /\ IsSend(t.req)
              /\ playerId[s] # Null
           \/ /\ t.pc = "post"
              /\ playerId[s] # Null
              /\ \/ /\ Asks(t.req)
                    /\ t.msg = Update(lobby_[s], players[lobby_[s]])
                 \/ /\ IsSend(t.req)
                    /\ t.msg = Relay(lobby_[s], playerId[s], s, t.req.data)
                    /\ s \in readers[lobby_[s]]
                    /\ playerId[s] \notin t.todo

\* Nobody is in a lobby before its name is drawn, and no creator before he has
\* entered it, though others can be.
LobbiesOK == \A l \in Lobbies : DOMAIN players[l] # {} => l \in names
NamesOK(s) ==
    /\ lobby_[s] # Null => lobby_[s] \in names
    /\ task[s].pc = "enter" /\ task[s].req.type = "createLobby" =>
           \A i \in DOMAIN players[lobby_[s]] : players[lobby_[s]][i] # s

\* Only who has a seat is sent something.
AddressedOK(s) ==
    /\ \A l \in Lobbies : \A i \in DOMAIN players[l] :
           players[l][i] = s => playerId[s] # Null
    /\ out[s] # <<>> => playerId[s] # Null /\ conn[s] = "open"
    /\ DOMAIN net[s].players # {} => playerId[s] # Null

\* A client with one request has one request under way, or it is answered and
\* the client has its seat.
AtMostOne(s) == Len(sent[s]) <= 1
Underway(s) ==
    Len(sendQueue[s]) + Len(strand[s]) + (IF task[s].pc = "idle" THEN 0 ELSE 1)
Seated(s) ==
    /\ Len(sent[s]) = 1
    /\ sendQueue[s] = <<>>
    /\ \A i \in DOMAIN strand[s] : IsSend(strand[s][i])
    /\ task[s].pc \in {"idle", "sendMessage", "post"}
    /\ \A l \in Lobbies : \A i \in DOMAIN players[l] : players[l][i] = s =>
           /\ i = playerId[s]
           /\ conn[s] # "gone" => l = lobby_[s]
    /\ conn[s] # "gone" =>
           /\ lobby_[s] # Null
           /\ playerId[s] \in DOMAIN players[lobby_[s]]
           /\ players[lobby_[s]][playerId[s]] = s
RequestOK(s) ==
    AtMostOne(s) =>
        IF playerId[s] = Null THEN Underway(s) <= Len(sent[s]) ELSE Seated(s)

\* One list is an earlier state of another.
Before(R, Q) == DOMAIN R \subseteq DOMAIN Q /\ \A i \in DOMAIN R : R[i] = Q[i]

IsUpdate(m) == m.type = "updateLobby"
Knows(R, id, a) == id \in DOMAIN R /\ R[id] = a

\* The lists a client has and will get are earlier states of its lobby's, one of
\* another.  The last is the current one, or will be announced to it.
Listens(s) == AtMostOne(s) /\ conn[s] = "open" /\ playerId[s] # Null
Announced(s) ==
    LET l == lobby_[s]
    IN  \/ net[s].players = players[l]
        \/ \E k \in DOMAIN out[s] :
               IsUpdate(out[s][k]) /\ out[s][k].players = players[l]
        \/ writer[l] # Null /\ playerId[s] \in task[writer[l]].todo
ViewsOK(s) ==
    Listens(s) =>
        /\ Before(net[s].players, players[lobby_[s]])
        /\ \A k \in DOMAIN out[s] : IsUpdate(out[s][k]) =>
               /\ Before(net[s].players, out[s][k].players)
               /\ Before(out[s][k].players, players[lobby_[s]])
               /\ \A j \in 1 .. k - 1 : IsUpdate(out[s][j]) =>
                      Before(out[s][j].players, out[s][k].players)
        /\ Announced(s)

\* The answer is the first message, unless it has been received.
AnswersOK(s) ==
    Listens(s) =>
        /\ \A k \in DOMAIN out[s] : out[s][k].type = "lobbyJoined" =>
               out[s][k] = Joined(lobby_[s], playerId[s])
        /\ \/ net[s].lobbyId = lobby_[s] /\ net[s].playerId = playerId[s]
           \/ out[s] # <<>> /\ out[s][1].type = "lobbyJoined"

\* A message comes after a list with its author.
AuthorsOK(s) ==
    \A k \in DOMAIN out[s] :
        LET m == out[s][k]
        IN  IsRelay(m) /\ AtMostOne(s) /\ AtMostOne(m.author) =>
                /\ m.author # s
                /\ \/ Knows(net[s].players, m.id, m.author)
                   \/ \E j \in 1 .. k - 1 :
                          /\ IsUpdate(out[s][j])
                          /\ Knows(out[s][j].players, m.id, m.author)

SystemInv ==
    /\ IInv
    /\ ClientsOK
    /\ LobbiesOK
    /\ \A s \in Sessions :
        /\ RequestsOK(s)
        /\ NamesOK(s)
        /\ AddressedOK(s)
        /\ RequestOK(s)
        /\ ViewsOK(s)
        /\ AnswersOK(s)
        /\ AuthorsOK(s)
    /\ OnlyFullLobbyAborts
-----------------------------------------------------------------------------
(* Types                                                                   *)

LEMMA SystemTypes ==
    ASSUME SystemInv
    PROVE  /\ conn \in [Sessions -> {"open", "closed", "gone"}]
           /\ strand \in [Sessions -> Seq(Requests)]
           /\ task \in [Sessions -> Tasks]
           /\ lobby_ \in [Sessions -> Lobbies \cup {Null}]
           /\ playerId \in [Sessions -> Ids \cup {Null}]
           /\ out \in [Sessions -> Seq(Messages)]
           /\ players \in [Lobbies -> Rosters(Sessions)]
           /\ writer \in [Lobbies -> Sessions \cup {Null}]
           /\ readers \in [Lobbies -> SUBSET Sessions]
           /\ names \subseteq Lobbies
           /\ net \in [Sessions -> Nets]
           /\ sendQueue \in [Sessions -> Seq(Requests)]
           /\ sent \in [Sessions -> Seq({"createLobby", "joinLobby"})]
           /\ aborted \in BOOLEAN
BY DEF SystemInv, IInv, TypeOK, Tasks, ClientsOK

LEMMA NullIsNothing == Null \notin Sessions /\ Null \notin Lobbies /\ Null \notin Ids
BY SessionAssumption, MaxPlayersAssumption DEF Ids

LEMMA UpdateFields ==
    ASSUME NEW m \in Messages
    PROVE  /\ IsUpdate(m) => m.players \in Rosters(Sessions)
           /\ m.type = "lobbyJoined" => m.lobby \in Lobbies /\ m.id \in Ids
           /\ IsRelay(m) => ~IsUpdate(m) /\ m.type # "lobbyJoined"
           /\ IsUpdate(m) => m.type # "lobbyJoined"
BY DEF IsUpdate, IsRelay, Messages, JoinedMessages, UpdateMessages, RelayMessages

LEMMA BeforeIsTransitive ==
    ASSUME NEW R, NEW Q, NEW P, Before(R, Q), Before(Q, P)
    PROVE  Before(R, P)
BY DEF Before

LEMMA BeforeItself == \A R : Before(R, R)
BY DEF Before

LEMMA UnderwayNat ==
    ASSUME SystemInv, NEW s \in Sessions
    PROVE  /\ Len(sendQueue[s]) \in Nat
           /\ Len(strand[s]) \in Nat
           /\ Len(sent[s]) \in Nat
           /\ Len(sendQueue[s]) = 0 <=> sendQueue[s] = <<>>
           /\ Len(strand[s]) = 0 <=> strand[s] = <<>>
<1>1. /\ sendQueue[s] \in Seq(Requests)
      /\ strand[s] \in Seq(Requests)
      /\ sent[s] \in Seq({"createLobby", "joinLobby"})
  BY SystemTypes
<1>2. QED
  BY <1>1

\* A handler at post holds the mutex of its lobby: another one that gets it
\* unique serves another lobby.
LEMMA PostingLocks ==
    ASSUME IInv, NEW s \in Sessions, task[s].pc = "post"
    PROVE  /\ lobby_[s] \in Lobbies
           /\ ~UniqueFree(lobby_[s])
<1>1. lobby_[s] \in Lobbies
  BY DEF IInv, TypeOK, HandlerOK
<1>2. writer[lobby_[s]] = s \/ s \in readers[lobby_[s]]
  BY DEF IInv, MutexOK
<1>3. QED
  BY <1>1, <1>2, NullIsNothing DEF UniqueFree

\* What is announced to a client of a lobby, the writer has still to post.
LEMMA WriterPosts ==
    ASSUME IInv, NEW l \in Lobbies, writer[l] # Null
    PROVE  /\ writer[l] \in Sessions
           /\ task[writer[l]].pc = "post"
           /\ lobby_[writer[l]] = l
           /\ readers[l] = {}
BY DEF IInv, TypeOK, MutexOK
-----------------------------------------------------------------------------
(* Connections a step is not about                                         *)

\* Nothing of the connection t is changed.
Untouched(t) ==
    /\ conn'[t] = conn[t]
    /\ strand'[t] = strand[t]
    /\ task'[t] = task[t]
    /\ lobby_'[t] = lobby_[t]
    /\ playerId'[t] = playerId[t]
    /\ out'[t] = out[t]
    /\ net'[t] = net[t]
    /\ sendQueue'[t] = sendQueue[t]
    /\ sent'[t] = sent[t]

\* Nobody leaves a lobby, and who comes in is not t.
NoSeatFor(t) ==
    \A l \in Lobbies :
        /\ Before(players[l], players'[l])
        /\ \A i \in DOMAIN players'[l] :
               players'[l][i] = t => i \in DOMAIN players[l] /\ players[l][i] = t

NoneSingled == \A a \in Sessions : AtMostOne(a)' => AtMostOne(a)

\* What a connection has to itself stays true.
OwnInv(t) ==
    /\ RequestsOK(t)
    /\ AddressedOK(t)
    /\ RequestOK(t)
    /\ AnswersOK(t)
    /\ AuthorsOK(t)

\* Where t posts, nothing is changed.
PostsOn(t) ==
    task[t].pc = "post" =>
        /\ players'[lobby_[t]] = players[lobby_[t]]
        /\ t \in readers[lobby_[t]] => t \in readers'[lobby_[t]]

LEMMA Bystander ==
    ASSUME SystemInv, NEW t \in Sessions, Untouched(t), NoSeatFor(t), PostsOn(t),
           NoneSingled
    PROVE  OwnInv(t)'
<1> USE SystemTypes DEF Untouched
<1>1. RequestsOK(t) /\ AddressedOK(t) /\ RequestOK(t) /\ AnswersOK(t) /\ AuthorsOK(t)
  BY DEF SystemInv
<1>2. RequestsOK(t)'
  BY <1>1 DEF RequestsOK, Asks, PostsOn
<1>3. AddressedOK(t)'
  BY <1>1 DEF AddressedOK, NoSeatFor
<1>4. RequestOK(t)'
  <2>1. Underway(t)' = Underway(t) /\ AtMostOne(t)' = AtMostOne(t)
    BY DEF Underway, AtMostOne
  <2>2. Seated(t) => Seated(t)'
    BY NullIsNothing DEF Seated, NoSeatFor, Before
  <2>3. QED
    BY <1>1, <2>1, <2>2 DEF RequestOK
<1>5. AnswersOK(t)'
  BY <1>1 DEF AnswersOK, Listens, AtMostOne
<1>6. AuthorsOK(t)'
  <2>1. \A k \in DOMAIN out[t] : IsRelay(out[t][k]) => out[t][k].author \in Sessions
    BY RelayFields
  <2>2. QED
    BY <1>1, <2>1 DEF AuthorsOK, NoneSingled
<1>7. QED
  BY <1>2, <1>3, <1>4, <1>5, <1>6 DEF OwnInv

\* The lists that a client of an unchanged lobby knows or waits for.
StillAnnounced(t) ==
    LET l == lobby_[t]
    IN  writer[l] # Null /\ playerId[t] \in task[writer[l]].todo =>
            writer'[l] # Null /\ playerId[t] \in task'[writer'[l]].todo

LEMMA SameViews ==
    ASSUME SystemInv, NEW t \in Sessions, ViewsOK(t), NoneSingled,
           Listens(t)' => /\ Listens(t)
                          /\ lobby_'[t] = lobby_[t]
                          /\ playerId'[t] = playerId[t]
                          /\ out'[t] = out[t]
                          /\ net'[t] = net[t]
                          /\ players'[lobby_[t]] = players[lobby_[t]]
                          /\ StillAnnounced(t)
    PROVE  ViewsOK(t)'
<1> SUFFICES ASSUME Listens(t)' PROVE ViewsOK(t)'
  BY DEF ViewsOK
<1>1. Announced(t) => Announced(t)'
  BY DEF Announced, StillAnnounced
<1>2. QED
  BY <1>1 DEF ViewsOK

\* The names, when no handler comes to the door of a lobby.
LEMMA SameNames ==
    ASSUME SystemInv, NEW s \in Sessions, OthersStay(s),
           players' = players, names \subseteq names',
           lobby_'[s] \in names' \cup {Null}, task'[s].pc # "enter",
           NEW t \in Sessions
    PROVE  NamesOK(t)'
<1> USE SystemTypes
<1>1. NamesOK(t)
  BY DEF SystemInv
<1>2. CASE t = s
  BY <1>1, <1>2 DEF NamesOK
<1>3. CASE t # s
  BY <1>1, <1>3 DEF NamesOK, OthersStay
<1>4. QED
  BY <1>2, <1>3

\* A step of a handler that sends nothing and seats nobody.
LEMMA QuietStep ==
    ASSUME SystemInv, NEW s \in Sessions, IInv', OthersStay(s),
           \A t \in Sessions \ {s} : strand'[t] = strand[t],
           ~aborted, UNCHANGED <<conn, playerId, out, players, aborted>>,
           UNCHANGED clientVars,
           names \subseteq names',
           \A t \in Sessions : NamesOK(t)',
           RequestsOK(s)', RequestOK(s)',
           lobby_'[s] = lobby_[s] \/ ~AtMostOne(s) \/ playerId[s] = Null,
           \A l \in Lobbies :
               /\ readers[l] \ {s} \subseteq readers'[l]
               /\ writer[l] # Null /\ task[writer[l]].todo # {} =>
                      /\ writer'[l] = writer[l]
                      /\ task'[writer[l]].todo = task[writer[l]].todo
    PROVE  SystemInv'
<1> USE SystemTypes
<1>1. UNCHANGED <<net, sendQueue, sent>>
  BY DEF clientVars
<1>2. ClientsOK' /\ LobbiesOK' /\ OnlyFullLobbyAborts'
  BY <1>1 DEF SystemInv, ClientsOK, LobbiesOK, OnlyFullLobbyAborts
<1>3. NoneSingled
  BY <1>1 DEF NoneSingled, AtMostOne
<1>4. ASSUME NEW t \in Sessions PROVE OwnInv(t)'
  <2>1. CASE t = s
    <3>1. AddressedOK(t) /\ AnswersOK(t) /\ AuthorsOK(t)
      BY DEF SystemInv
    <3>2. AddressedOK(t)'
      BY <1>1, <3>1 DEF AddressedOK
    <3>3. AnswersOK(t)'
      BY <1>1, <2>1, <3>1 DEF AnswersOK, Listens, AtMostOne
    <3>4. AuthorsOK(t)'
      BY <1>1, <3>1 DEF AuthorsOK, AtMostOne
    <3>5. QED
      BY <2>1, <3>2, <3>3, <3>4 DEF OwnInv
  <2>2. CASE t # s
    <3>1. Untouched(t)
      BY <1>1, <2>2 DEF Untouched, OthersStay
    <3>2. NoSeatFor(t)
      BY BeforeItself DEF NoSeatFor
    <3>3. PostsOn(t)
      <4>1. task[t].pc = "post" => lobby_[t] \in Lobbies
        BY PostingLocks DEF SystemInv
      <4>2. QED
        BY <2>2, <4>1 DEF PostsOn
    <3>4. QED
      BY <1>1, <1>3, <3>1, <3>2, <3>3, Bystander
  <2>3. QED
    BY <2>1, <2>2
<1>5. ASSUME NEW t \in Sessions PROVE ViewsOK(t)'
  <2>1. ASSUME Listens(t)' PROVE Listens(t) /\ lobby_'[t] = lobby_[t]
    BY <1>1, <2>1 DEF Listens, AtMostOne, OthersStay
  <2>2. ASSUME Listens(t) PROVE StillAnnounced(t)
    <3>1. lobby_[t] \in Lobbies
      <4>1. RequestOK(t) /\ lobby_[t] # Null
        BY <2>2 DEF SystemInv, RequestOK, Listens, Seated
      <4>2. QED
        BY <4>1
    <3>2. QED
      BY <3>1 DEF StillAnnounced
  <2>3. QED
    BY <1>1, <1>3, <2>1, <2>2, SameViews DEF SystemInv
<1>6. QED
  BY <1>2, <1>4, <1>5 DEF SystemInv, OwnInv

\* The writers are at their posts, so a handler elsewhere changes nothing that
\* is announced.
LEMMA WritersStay ==
    ASSUME SystemInv, NEW s \in Sessions, OthersStay(s), UNCHANGED writer,
           task[s].pc # "post", NEW l \in Lobbies, writer[l] # Null
    PROVE  /\ writer'[l] = writer[l]
           /\ task'[writer[l]].todo = task[writer[l]].todo
<1>1. writer[l] \in Sessions /\ writer[l] # s
  BY WriterPosts DEF SystemInv
<1>2. QED
  BY <1>1 DEF OthersStay
-----------------------------------------------------------------------------
(* The handlers that send nothing                                          *)

LEMMA AskedFor ==
    ASSUME NEW r, Asks(r) \/ IsSend(r)
    PROVE  /\ r.type \in {"createLobby", "joinLobby", "sendMessage"}
           /\ r.type # "sendMessage" => Asks(r)
           /\ r.type = "sendMessage" => ~Asks(r)
BY DEF Asks, IsSend

LEMMA IgnoreMessageSystem ==
    ASSUME SystemInv, NEW s \in Sessions, IgnoreMessage(s), UNCHANGED clientVars
    PROVE  SystemInv'
<1> USE SystemTypes
<1>1. /\ strand[s] # <<>>
      /\ strand' = [strand EXCEPT ![s] = Tail(@)]
      /\ UNCHANGED <<conn, task, lobby_, playerId, out, players, locked, writer,
                     readers, names, aborted, received>>
      /\ task[s].pc = "idle" /\ ~aborted
  BY DEF IgnoreMessage, Begin, At, Dequeue, sessionVars, lobbyVars, mutexVars
<1>2. UNCHANGED <<net, sendQueue, sent>>
  BY DEF clientVars
<1>3. IInv'
  BY HandleInv DEF Handle, SystemInv
<1>4. OthersStay(s) /\ \A t \in Sessions \ {s} : strand'[t] = strand[t]
  BY <1>1 DEF OthersStay
<1>5. \A i \in DOMAIN strand'[s] : i + 1 \in DOMAIN strand[s]
                                   /\ strand'[s][i] = strand[s][i + 1]
  <2>1. strand[s] \in Seq(Requests)
    OBVIOUS
  <2>2. QED
    BY <1>1, <2>1
<1>6. RequestsOK(s)'
  <2>1. RequestsOK(s) /\ \A r : Asks(r)' <=> Asks(r)
    BY <1>2 DEF SystemInv, Asks
  <2>2. QED
    BY <1>1, <1>2, <1>5, <2>1 DEF RequestsOK
<1>7. RequestOK(s)'
  <2>1. RequestOK(s) /\ AtMostOne(s)' = AtMostOne(s)
    BY <1>2 DEF SystemInv, AtMostOne
  <2>2. Seated(s) => Seated(s)'
    BY <1>1, <1>2, <1>5 DEF Seated
  <2>3. Underway(s)' <= Underway(s)
    <3>1. strand[s] \in Seq(Requests) /\ Len(Tail(strand[s])) = Len(strand[s]) - 1
      BY <1>1
    <3>2. QED
      BY <1>1, <1>2, <3>1, UnderwayNat DEF Underway
  <2>4. Underway(s) \in Nat /\ Underway(s)' \in Nat /\ Len(sent[s]) \in Nat
    BY <1>1, <1>2, <2>3, UnderwayNat DEF Underway
  <2>5. QED
    BY <1>1, <1>2, <2>1, <2>2, <2>3, <2>4 DEF RequestOK
<1>8. \A t \in Sessions : NamesOK(t)'
  BY <1>1, <1>2, <1>4, SameNames DEF SystemInv, NamesOK
<1>9. QED
  BY <1>1, <1>3, <1>4, <1>6, <1>7, <1>8, QuietStep

LEMMA StartHandlerSystem ==
    ASSUME SystemInv, NEW s \in Sessions, StartHandler(s), UNCHANGED clientVars
    PROVE  SystemInv'
<1> DEFINE r == Head(strand[s])
<1> USE SystemTypes
<1>1. /\ strand[s] # <<>>
      /\ strand' = [strand EXCEPT ![s] = Tail(@)]
      /\ task' = [task EXCEPT ![s].pc = r.type, ![s].req = r]
      /\ UNCHANGED <<conn, lobby_, playerId, out, players, locked, writer,
                     readers, names, aborted, received>>
      /\ task[s].pc = "idle" /\ ~aborted
  BY DEF StartHandler, Begin, At, Dequeue, sessionVars, lobbyVars, mutexVars
<1>2. UNCHANGED <<net, sendQueue, sent>>
  BY DEF clientVars
<1>3. IInv'
  BY HandleInv DEF Handle, SystemInv
<1>4. RequestsOK(s) /\ \A q : Asks(q)' <=> Asks(q)
  BY <1>2 DEF SystemInv, Asks
<1>5. /\ 1 \in DOMAIN strand[s]
      /\ r = strand[s][1]
      /\ Tail(strand[s]) \in Seq(Requests)
      /\ Len(Tail(strand[s])) = Len(strand[s]) - 1
      /\ \A i \in DOMAIN Tail(strand[s]) : i + 1 \in DOMAIN strand[s]
                                   /\ Tail(strand[s])[i] = strand[s][i + 1]
  <2>1. strand[s] \in Seq(Requests)
    OBVIOUS
  <2>2. QED
    BY <1>1, <2>1
<1>6. Asks(r) \/ (IsSend(r) /\ playerId[s] # Null)
  BY <1>4, <1>5 DEF RequestsOK
<1> HIDE DEF r
<1>7. /\ task'[s].pc = r.type
      /\ task'[s].req = r
      /\ strand'[s] = Tail(strand[s])
      /\ \A t \in Sessions \ {s} : task'[t] = task[t] /\ strand'[t] = strand[t]
  BY <1>1 DEF Tasks
<1>8. OthersStay(s)
  BY <1>1, <1>7 DEF OthersStay
<1>9. RequestsOK(s)'
  <2>1. conn[s] # "gone"
    BY <1>1, <1>4 DEF RequestsOK
  <2>2. \/ r.type \in {"createLobby", "joinLobby"} /\ Asks(r)
        \/ r.type = "sendMessage" /\ IsSend(r) /\ playerId[s] # Null
    BY <1>6 DEF Asks, IsSend
  <2>3. QED
    BY <1>1, <1>2, <1>4, <1>5, <1>7, <2>1, <2>2 DEF RequestsOK
<1>10. RequestOK(s)'
  <2>1. RequestOK(s) /\ AtMostOne(s)' = AtMostOne(s)
    BY <1>2 DEF SystemInv, AtMostOne
  <2>2. ASSUME Seated(s) PROVE Seated(s)'
    <3>1. r.type = "sendMessage"
      BY <1>5, <2>2 DEF Seated, IsSend
    <3>2. QED
      BY <1>1, <1>2, <1>5, <1>7, <2>2, <3>1 DEF Seated
  <2>3. Underway(s)' = Underway(s)
    <3>1. r.type # "idle"
      BY <1>6, AskedFor
    <3>2. /\ Len(sendQueue[s]) \in Nat
          /\ Len(strand[s]) \in Nat
          /\ Len(strand'[s]) = Len(strand[s]) - 1
      BY <1>5, <1>7, UnderwayNat
    <3>3. /\ sendQueue'[s] = sendQueue[s]
          /\ task[s].pc = "idle"
          /\ task'[s].pc # "idle"
      BY <1>1, <1>2, <1>7, <3>1
    <3>4. QED
      BY <3>2, <3>3 DEF Underway
  <2>4. QED
    BY <1>1, <1>2, <2>1, <2>2, <2>3 DEF RequestOK
<1>11. \A t \in Sessions : NamesOK(t)'
  <2>1. lobby_'[s] \in names' \cup {Null}
    BY <1>1 DEF SystemInv, NamesOK
  <2>2. task'[s].pc # "enter"
    BY <1>6, <1>7, AskedFor
  <2>3. QED
    BY <1>1, <1>2, <1>8, <2>1, <2>2, SameNames
<1>12. QED
  BY <1>1, <1>3, <1>7, <1>8, <1>9, <1>10, <1>11, WritersStay, QuietStep

\* A client that asks for a lobby and made one request has nothing else under
\* way, and no playerId yet.
Asking(s) == task[s].pc \in {"createLobby", "joinLobby", "naming", "enter"}

LEMMA AskingAlone ==
    ASSUME SystemInv, NEW s \in Sessions, Asking(s)
    PROVE  /\ Asks(task[s].req)
           /\ conn[s] # "gone"
           /\ AtMostOne(s) => /\ playerId[s] = Null
                              /\ Underway(s) = 1
                              /\ Len(sent[s]) = 1
                              /\ sendQueue[s] = <<>>
                              /\ strand[s] = <<>>
<1>1. RequestsOK(s) /\ RequestOK(s)
  BY DEF SystemInv
<1>2. Asks(task[s].req) /\ conn[s] # "gone"
  BY <1>1 DEF RequestsOK, Asking
<1>3. ~Seated(s)
  BY DEF Seated, Asking
<1>4. ASSUME AtMostOne(s)
      PROVE  /\ playerId[s] = Null
             /\ Underway(s) = 1
             /\ Len(sent[s]) = 1
             /\ sendQueue[s] = <<>>
             /\ strand[s] = <<>>
  <2>1. playerId[s] = Null /\ Underway(s) <= Len(sent[s]) /\ Len(sent[s]) <= 1
    BY <1>1, <1>3, <1>4 DEF RequestOK, AtMostOne
  <2>2. Underway(s) = Len(sendQueue[s]) + Len(strand[s]) + 1
    BY DEF Underway, Asking
  <2>3. /\ Len(sendQueue[s]) \in Nat
        /\ Len(strand[s]) \in Nat
        /\ Len(sent[s]) \in Nat
    BY UnderwayNat
  <2>4. Underway(s) = 1 /\ Len(sent[s]) = 1 /\ Len(sendQueue[s]) = 0 /\ Len(strand[s]) = 0
    <3> DEFINE a == Len(sendQueue[s])
               b == Len(strand[s])
               c == Len(sent[s])
               u == Underway(s)
    <3>1. /\ a \in Nat /\ b \in Nat /\ c \in Nat
          /\ u = a + b + 1 /\ u <= c /\ c <= 1
      BY <2>1, <2>2, <2>3
    <3> HIDE DEF a, b, c, u
    <3>2. u = 1 /\ c = 1 /\ a = 0 /\ b = 0
      BY <3>1
    <3>3. QED
      BY <3>2 DEF a, b, c, u
  <2>5. QED
    BY <2>1, <2>4, UnderwayNat
<1>5. QED
  BY <1>2, <1>4

LEMMA AskingStep ==
    ASSUME SystemInv, NEW s \in Sessions, Asking(s), IInv', OthersStay(s),
           ~aborted,
           UNCHANGED <<conn, strand, playerId, out, players, writer, readers, aborted>>,
           UNCHANGED clientVars,
           names \subseteq names',
           \A t \in Sessions : NamesOK(t)',
           \/ task'[s].pc = "idle"
           \/ Asking(s)' /\ task'[s].req = task[s].req
    PROVE  SystemInv'
<1> USE SystemTypes
<1>1. UNCHANGED <<net, sendQueue, sent>>
  BY DEF clientVars
<1>2. RequestsOK(s)'
  <2>1. RequestsOK(s) /\ Asks(task[s].req) /\ \A q : Asks(q)' <=> Asks(q)
    BY <1>1, AskingAlone DEF SystemInv, Asks
  <2>2. conn[s] # "gone"
    BY AskingAlone
  <2>3. QED
    BY <1>1, <2>1, <2>2 DEF RequestsOK, Asking
<1>3. RequestOK(s)'
  <2>1. AtMostOne(s)' => AtMostOne(s)
    BY <1>1 DEF AtMostOne
  <2>2. ASSUME AtMostOne(s) PROVE playerId'[s] = Null /\ Underway(s)' <= Len(sent'[s])
    <3>1. /\ playerId[s] = Null
          /\ Len(sent[s]) = 1
          /\ Len(sendQueue[s]) = 0
          /\ Len(strand[s]) = 0
      BY <2>2, AskingAlone
    <3>2. QED
      BY <1>1, <3>1 DEF Underway
  <2>3. QED
    BY <2>1, <2>2 DEF RequestOK
<1>4. task[s].pc # "post"
  BY DEF Asking
<1>5. \A l \in Lobbies : writer[l] # Null =>
          /\ writer'[l] = writer[l]
          /\ task'[writer[l]].todo = task[writer[l]].todo
  BY <1>4, WritersStay
<1>6. ~AtMostOne(s) \/ playerId[s] = Null
  BY AskingAlone
<1>7. QED
  BY <1>2, <1>3, <1>5, <1>6, QuietStep

LEMMA LockContextSystem ==
    ASSUME SystemInv, NEW s \in Sessions, LockContext(s), UNCHANGED clientVars
    PROVE  SystemInv'
<1> USE SystemTypes
<1>1. /\ UNCHANGED <<conn, strand, lobby_, playerId, out, players, locked, writer,
                     readers, names, aborted, received>>
      /\ task[s].pc = "createLobby" /\ ~aborted
      /\ Goto(s, "naming")
  BY DEF LockContext, At, sessionVars, lobbyVars, mutexVars
<1>2. /\ task'[s].pc = "naming"
      /\ task'[s].req = task[s].req
      /\ \A t \in Sessions \ {s} : task'[t] = task[t]
  BY <1>1, GotoTask DEF Points
<1>3. OthersStay(s)
  BY <1>1, <1>2 DEF OthersStay
<1>4. IInv'
  BY HandleInv DEF Handle, SystemInv
<1>5. \A t \in Sessions : NamesOK(t)'
  <2>1. lobby_'[s] \in names' \cup {Null}
    BY <1>1 DEF SystemInv, NamesOK
  <2>2. QED
    BY <1>1, <1>2, <1>3, <2>1, SameNames DEF clientVars
<1>6. QED
  BY <1>1, <1>2, <1>3, <1>4, <1>5, AskingStep DEF Asking

LEMMA RejectJoinSystem ==
    ASSUME SystemInv, NEW s \in Sessions, RejectJoin(s), UNCHANGED clientVars
    PROVE  SystemInv'
<1> USE SystemTypes
<1>1. /\ UNCHANGED <<conn, strand, lobby_, playerId, out, players, locked, writer,
                     readers, names, aborted, received>>
      /\ task[s].pc = "enter" /\ ~aborted
      /\ Finish(s)
  BY DEF RejectJoin, At, sessionVars, lobbyVars, mutexVars
<1>2. /\ task'[s].pc = "idle"
      /\ \A t \in Sessions \ {s} : task'[t] = task[t]
  BY <1>1, FinishTask
<1>3. OthersStay(s)
  BY <1>1, <1>2 DEF OthersStay
<1>4. IInv'
  BY HandleInv DEF Handle, SystemInv
<1>5. \A t \in Sessions : NamesOK(t)'
  <2>1. lobby_'[s] \in names' \cup {Null}
    BY <1>1 DEF SystemInv, NamesOK
  <2>2. QED
    BY <1>1, <1>2, <1>3, <2>1, SameNames DEF clientVars
<1>6. QED
  BY <1>1, <1>2, <1>3, <1>4, <1>5, AskingStep DEF Asking

\* Nobody is in the lobby whose name is drawn.
LEMMA CreateLobbySystem ==
    ASSUME SystemInv, NEW s \in Sessions, CreateLobby(s), UNCHANGED clientVars
    PROVE  SystemInv'
<1> USE SystemTypes
<1>1. /\ UNCHANGED <<conn, strand, playerId, out, players, locked, writer,
                     readers, aborted, received>>
      /\ task[s].pc = "naming" /\ ~aborted
      /\ Goto(s, "enter")
  BY DEF CreateLobby, At, lobbyVars, mutexVars
<1>2. PICK l \in Lobbies \ names : /\ names' = names \cup {l}
                                   /\ lobby_' = [lobby_ EXCEPT ![s] = l]
  BY DEF CreateLobby
<1>3. /\ task'[s].pc = "enter"
      /\ task'[s].req = task[s].req
      /\ \A t \in Sessions \ {s} : task'[t] = task[t]
  BY <1>1, GotoTask DEF Points
<1>4. lobby_'[s] = l /\ \A t \in Sessions \ {s} : lobby_'[t] = lobby_[t]
  BY <1>2
<1>5. OthersStay(s)
  BY <1>1, <1>3, <1>4 DEF OthersStay
<1>6. IInv'
  BY HandleInv DEF Handle, SystemInv
<1>7. DOMAIN players[l] = {}
  BY <1>2 DEF SystemInv, LobbiesOK
<1>8. ASSUME NEW t \in Sessions PROVE NamesOK(t)'
  <2>1. NamesOK(t)
    BY DEF SystemInv
  <2>2. CASE t = s
    BY <1>1, <1>2, <1>4, <1>7, <2>2 DEF NamesOK
  <2>3. CASE t # s
    BY <1>1, <1>2, <1>3, <1>4, <2>1, <2>3 DEF NamesOK
  <2>4. QED
    BY <2>2, <2>3
<1>9. QED
  BY <1>1, <1>2, <1>3, <1>5, <1>6, <1>8, AskingStep DEF Asking

\* Whoever looks for a lobby comes to its door only if its name was drawn, and
\* not as its creator.
LEMMA GetLobbySystem ==
    ASSUME SystemInv, NEW s \in Sessions, GetLobby(s), UNCHANGED clientVars
    PROVE  SystemInv'
<1> DEFINE l == task[s].req.lobby
<1> USE SystemTypes
<1>1. /\ UNCHANGED <<conn, strand, playerId, out, players, locked, writer,
                     readers, names, aborted, received>>
      /\ task[s].pc = "joinLobby" /\ ~aborted
  BY DEF GetLobby, At, lobbyVars, mutexVars
<1>2. task[s].req.type = "joinLobby"
  BY <1>1 DEF SystemInv, IInv, HandlerOK, WaitPoints
<1>3. \/ lobby_' = [lobby_ EXCEPT ![s] = l] /\ l \in names /\ Goto(s, "enter")
      \/ lobby_' = [lobby_ EXCEPT ![s] = Null] /\ Finish(s)
  BY DEF GetLobby, Found
<1> HIDE DEF l
<1>4. /\ \/ /\ task'[s].pc = "enter" /\ task'[s].req = task[s].req
            /\ lobby_'[s] = l /\ l \in names
         \/ task'[s].pc = "idle" /\ lobby_'[s] = Null
      /\ \A t \in Sessions \ {s} : task'[t] = task[t] /\ lobby_'[t] = lobby_[t]
  BY <1>3, GotoTask, FinishTask DEF Points
<1>5. OthersStay(s)
  BY <1>1, <1>4 DEF OthersStay
<1>6. IInv'
  BY HandleInv DEF Handle, SystemInv
<1>7. ASSUME NEW t \in Sessions PROVE NamesOK(t)'
  <2>1. NamesOK(t)
    BY DEF SystemInv
  <2>2. CASE t = s
    BY <1>1, <1>2, <1>4, <2>1, <2>2 DEF NamesOK
  <2>3. CASE t # s
    BY <1>1, <1>4, <2>1, <2>3 DEF NamesOK
  <2>4. QED
    BY <2>2, <2>3
<1>8. QED
  BY <1>1, <1>4, <1>5, <1>6, <1>7, AskingStep DEF Asking

LEMMA RelayMessageSystem ==
    ASSUME SystemInv, NEW s \in Sessions, RelayMessage(s), UNCHANGED clientVars
    PROVE  SystemInv'
<1> DEFINE l == lobby_[s]
           m == Relay(l, playerId[s], s, task[s].req.data)
           todo == DOMAIN players[l] \ {playerId[s]}
<1> USE SystemTypes
<1>1. /\ UNCHANGED <<conn, strand, lobby_, playerId, out, players, locked, writer,
                     names, aborted, received>>
      /\ readers' = [readers EXCEPT ![l] = @ \cup {s}]
      /\ task[s].pc = "sendMessage" /\ ~aborted
      /\ Broadcast(s, m, todo)
  BY DEF RelayMessage, At, sessionVars, lobbyVars
<1>2. UNCHANGED <<net, sendQueue, sent>>
  BY DEF clientVars
<1>3. /\ l \in Lobbies
      /\ RequestsOK(s)
      /\ playerId[s] # Null
      /\ IsSend(task[s].req)
      /\ task[s].req \in Requests
  <2>1. HandlerOK(s) /\ RequestsOK(s)
    BY DEF SystemInv, IInv
  <2>2. QED
    BY <1>1, <2>1, AskedFor DEF HandlerOK, RequestsOK, LobbyCommands
<1>4. /\ task'[s].pc = "post"
      /\ task'[s].req = task[s].req
      /\ task'[s].msg = m
      /\ task'[s].todo = todo
      /\ \A t \in Sessions \ {s} : task'[t] = task[t]
  BY <1>1 DEF Broadcast, Tasks
<1>5. OthersStay(s)
  BY <1>1, <1>4 DEF OthersStay
<1>6. IInv'
  BY HandleInv DEF Handle, SystemInv
<1>7. s \in readers'[l] /\ \A k \in Lobbies : readers[k] \subseteq readers'[k]
  BY <1>1, <1>3
<1>8. RequestsOK(s)'
  <2>1. \A q : Asks(q)' <=> Asks(q)
    BY <1>2 DEF Asks
  <2>2. conn[s] # "gone"
    BY <1>1, <1>3 DEF RequestsOK
  <2>3. QED
    BY <1>1, <1>2, <1>3, <1>4, <1>7, <2>1, <2>2 DEF RequestsOK
<1>9. RequestOK(s)'
  <2>1. RequestOK(s) /\ AtMostOne(s)' = AtMostOne(s)
    BY <1>2 DEF SystemInv, AtMostOne
  <2>2. Seated(s) => Seated(s)'
    BY <1>1, <1>2, <1>4 DEF Seated
  <2>3. QED
    BY <1>1, <1>3, <2>1, <2>2 DEF RequestOK
<1>10. \A t \in Sessions : NamesOK(t)'
  <2>1. lobby_'[s] \in names' \cup {Null}
    BY <1>1 DEF SystemInv, NamesOK
  <2>2. QED
    BY <1>1, <1>2, <1>4, <1>5, <2>1, SameNames
<1>11. \A k \in Lobbies : writer[k] # Null =>
          /\ writer'[k] = writer[k]
          /\ task'[writer[k]].todo = task[writer[k]].todo
  BY <1>1, <1>5, WritersStay
<1>12. QED
  BY <1>1, <1>5, <1>6, <1>7, <1>8, <1>9, <1>10, <1>11, QuietStep

LEMMA UnlockSystem ==
    ASSUME SystemInv, NEW s \in Sessions, Unlock(s), UNCHANGED clientVars
    PROVE  SystemInv'
<1> DEFINE l == lobby_[s]
<1> USE SystemTypes
<1>1. /\ UNCHANGED <<conn, strand, lobby_, playerId, out, players, locked,
                     names, aborted, received>>
      /\ writer' = [writer EXCEPT ![l] = IF @ = s THEN Null ELSE @]
      /\ readers' = [readers EXCEPT ![l] = @ \ {s}]
      /\ task[s].pc = "post" /\ ~aborted
      /\ task[s].todo = {}
      /\ task[s].req.type # "leaveLobby" => Finish(s)
  BY DEF Unlock, Release, At, sessionVars, lobbyVars
<1>2. UNCHANGED <<net, sendQueue, sent>>
  BY DEF clientVars
<1>3. /\ RequestsOK(s)
      /\ playerId[s] # Null
      /\ task[s].req.type # "leaveLobby"
  <2>1. RequestsOK(s)
    BY DEF SystemInv
  <2>2. QED
    BY <1>1, <2>1 DEF RequestsOK, Asks, IsSend
<1>4. task'[s].pc = "idle" /\ \A t \in Sessions \ {s} : task'[t] = task[t]
  BY <1>1, <1>3, FinishTask
<1>5. OthersStay(s)
  BY <1>1, <1>4 DEF OthersStay
<1>6. IInv'
  BY HandleInv DEF Handle, SystemInv
<1>7. RequestsOK(s)'
  <2>1. \A q : Asks(q)' <=> Asks(q)
    BY <1>2 DEF Asks
  <2>2. QED
    BY <1>1, <1>2, <1>3, <1>4, <2>1 DEF RequestsOK
<1>8. RequestOK(s)'
  <2>1. RequestOK(s) /\ AtMostOne(s)' = AtMostOne(s)
    BY <1>2 DEF SystemInv, AtMostOne
  <2>2. Seated(s) => Seated(s)'
    BY <1>1, <1>2, <1>4 DEF Seated
  <2>3. QED
    BY <1>1, <1>3, <2>1, <2>2 DEF RequestOK
<1>9. \A t \in Sessions : NamesOK(t)'
  <2>1. lobby_'[s] \in names' \cup {Null}
    BY <1>1 DEF SystemInv, NamesOK
  <2>2. QED
    BY <1>1, <1>2, <1>4, <1>5, <2>1, SameNames
<1>10. ASSUME NEW k \in Lobbies
       PROVE  /\ readers[k] \ {s} \subseteq readers'[k]
              /\ writer[k] # Null /\ task[writer[k]].todo # {} =>
                     /\ writer'[k] = writer[k]
                     /\ task'[writer[k]].todo = task[writer[k]].todo
  <2>1. readers[k] \ {s} \subseteq readers'[k]
    BY <1>1
  <2>2. ASSUME writer[k] # Null, task[writer[k]].todo # {}
        PROVE  /\ writer'[k] = writer[k]
               /\ task'[writer[k]].todo = task[writer[k]].todo
    <3>1. writer[k] \in Sessions /\ writer[k] # s
      BY <1>1, <2>2
    <3>2. QED
      BY <1>1, <1>4, <3>1
  <2>3. QED
    BY <2>1, <2>2
<1>11. QED
  BY <1>1, <1>5, <1>6, <1>7, <1>8, <1>9, <1>10, QuietStep
-----------------------------------------------------------------------------
(* The steps of the clients that receive nothing                           *)

\* Press, Say, PressJ, Frame and Transmit change what s has asked for and what
\* waits on its strand.
LEMMA RequestStep ==
    ASSUME SystemInv, NEW s \in Sessions, TypeOK', ClientsOK',
           UNCHANGED <<conn, task, lobby_, playerId, out, players, locked, writer,
                       readers, names, aborted, net>>,
           \A t \in Sessions \ {s} : /\ strand'[t] = strand[t]
                                     /\ sendQueue'[t] = sendQueue[t]
                                     /\ sent'[t] = sent[t],
           AtMostOne(s)' => AtMostOne(s),
           RequestsOK(s)', RequestOK(s)'
    PROVE  SystemInv'
<1> USE SystemTypes
<1>1. IInv' /\ LobbiesOK' /\ OnlyFullLobbyAborts'
  BY SameHandlers DEF SystemInv, LobbiesOK, OnlyFullLobbyAborts
<1>2. NoneSingled
  BY DEF NoneSingled, AtMostOne
<1>3. ASSUME NEW t \in Sessions PROVE OwnInv(t)'
  <2>1. CASE t = s
    <3>1. AddressedOK(t) /\ AnswersOK(t) /\ AuthorsOK(t)
      BY DEF SystemInv
    <3>2. AddressedOK(t)'
      BY <3>1 DEF AddressedOK
    <3>3. AnswersOK(t)'
      BY <2>1, <3>1 DEF AnswersOK, Listens
    <3>4. AuthorsOK(t)'
      <4>1. \A k \in DOMAIN out[t] : IsRelay(out[t][k]) => out[t][k].author \in Sessions
        BY RelayFields
      <4>2. QED
        BY <1>2, <3>1, <4>1 DEF AuthorsOK, NoneSingled
    <3>5. QED
      BY <2>1, <3>2, <3>3, <3>4 DEF OwnInv
  <2>2. CASE t # s
    <3>1. Untouched(t) /\ PostsOn(t)
      BY <2>2 DEF Untouched, PostsOn
    <3>2. NoSeatFor(t)
      BY BeforeItself DEF NoSeatFor
    <3>3. QED
      BY <1>2, <3>1, <3>2, Bystander
  <2>3. QED
    BY <2>1, <2>2
<1>4. ASSUME NEW t \in Sessions PROVE NamesOK(t)' /\ ViewsOK(t)'
  <2>1. NamesOK(t) /\ ViewsOK(t)
    BY DEF SystemInv
  <2>2. Listens(t)' => Listens(t)
    BY <1>2 DEF Listens, NoneSingled
  <2>3. StillAnnounced(t)
    BY DEF StillAnnounced
  <2>4. QED
    BY <1>2, <2>1, <2>2, <2>3, SameViews DEF NamesOK
<1>5. QED
  BY <1>1, <1>3, <1>4 DEF SystemInv, OwnInv

LEMMA PressSystem ==
    ASSUME SystemInv, NEW s \in Sessions, NEW r \in Requests, Press(s, r)
    PROVE  SystemInv'
<1> USE SystemTypes
<1>1. /\ UNCHANGED <<conn, strand, task, lobby_, playerId, out, players, locked,
                     writer, readers, names, aborted, received, net>>
      /\ sendQueue' = [sendQueue EXCEPT ![s] = Append(@, r)]
      /\ sent' = [sent EXCEPT ![s] = Append(@, r.type)]
      /\ Asks(r)
  BY DEF Press, vars, Asks
<1>2. /\ sendQueue'[s] = Append(sendQueue[s], r)
      /\ sent'[s] = Append(sent[s], r.type)
      /\ sendQueue'[s] \in Seq(Requests)
      /\ sent'[s] \in Seq({"createLobby", "joinLobby"})
  <2>1. r.type \in {"createLobby", "joinLobby"}
    BY <1>1 DEF Asks
  <2>2. sendQueue[s] \in Seq(Requests) /\ sent[s] \in Seq({"createLobby", "joinLobby"})
    OBVIOUS
  <2>3. QED
    BY <1>1, <2>1, <2>2
<1>3. TypeOK' /\ ClientsOK'
  BY <1>1, <1>2 DEF SystemInv, IInv, TypeOK, ClientsOK
<1>4. Len(sent[s]) \in Nat /\ Len(sent'[s]) = Len(sent[s]) + 1
      /\ Len(sendQueue[s]) \in Nat /\ Len(sendQueue'[s]) = Len(sendQueue[s]) + 1
  <2>1. sendQueue[s] \in Seq(Requests) /\ sent[s] \in Seq({"createLobby", "joinLobby"})
    OBVIOUS
  <2>2. QED
    BY <1>2, <2>1
<1>5. AtMostOne(s)' => AtMostOne(s) /\ Len(sent[s]) = 0
  BY <1>4 DEF AtMostOne
<1>6. RequestsOK(s)'
  <2>1. RequestsOK(s) /\ \A q : Asks(q)' <=> Asks(q)
    BY <1>1 DEF SystemInv, Asks
  <2>2. \A i \in DOMAIN sendQueue'[s] :
            \/ i \in DOMAIN sendQueue[s] /\ sendQueue'[s][i] = sendQueue[s][i]
            \/ sendQueue'[s][i] = r
    <3>1. sendQueue[s] \in Seq(Requests)
      OBVIOUS
    <3>2. QED
      BY <1>2, <3>1
  <2>3. QED
    BY <1>1, <2>1, <2>2 DEF RequestsOK
<1>7. RequestOK(s)'
  <2>1. RequestOK(s)
    BY DEF SystemInv
  <2>2. ASSUME AtMostOne(s)' PROVE playerId[s] = Null /\ Underway(s) <= 0
    BY <1>5, <2>1, <2>2 DEF RequestOK, Seated
  <2>3. Underway(s) \in Nat /\ Underway(s)' = Underway(s) + 1
    <3>1. Len(strand[s]) \in Nat
      BY UnderwayNat
    <3>2. QED
      BY <1>1, <1>4, <3>1 DEF Underway
  <2>4. ASSUME AtMostOne(s)' PROVE Underway(s)' <= Len(sent'[s])
    <3>1. Underway(s)' = 1 /\ Len(sent'[s]) = 1
      BY <1>4, <1>5, <2>2, <2>3, <2>4
    <3>2. QED
      BY <3>1
  <2>5. QED
    BY <1>1, <2>2, <2>4 DEF RequestOK
<1>8. QED
  BY <1>1, <1>3, <1>5, <1>6, <1>7, RequestStep

\* A client says something when it knows a player, so it has a seat.
LEMMA SaySystem ==
    ASSUME SystemInv, NEW s \in Sessions, NEW r \in Requests, Say(s, r)
    PROVE  SystemInv'
<1> USE SystemTypes
<1>1. /\ UNCHANGED <<conn, task, lobby_, playerId, out, players, locked,
                     writer, readers, names, aborted>>
      /\ UNCHANGED <<net, sendQueue, sent>>
      /\ strand' = [strand EXCEPT ![s] = Append(@, r)]
      /\ IsSend(r)
      /\ conn[s] = "open"
      /\ DOMAIN net[s].players # {}
      /\ ProcessReadBuf(s, r)
  BY DEF Say, ProcessReadBuf, sessionVars, lobbyVars, mutexVars, clientVars, IsSend
<1>2. IInv'
  BY <1>1, ProcessReadBufInv DEF SystemInv
<1>3. playerId[s] # Null
  BY <1>1 DEF SystemInv, AddressedOK
<1>4. \A i \in DOMAIN strand'[s] :
          \/ i \in DOMAIN strand[s] /\ strand'[s][i] = strand[s][i]
          \/ strand'[s][i] = r
  <2>1. strand[s] \in Seq(Requests)
    OBVIOUS
  <2>2. QED
    BY <1>1, <2>1
<1>5. RequestsOK(s)'
  <2>1. RequestsOK(s) /\ \A q : Asks(q)' <=> Asks(q)
    BY <1>1 DEF SystemInv, Asks
  <2>2. QED
    BY <1>1, <1>3, <1>4, <2>1 DEF RequestsOK
<1>6. RequestOK(s)'
  <2>1. RequestOK(s) /\ AtMostOne(s)' = AtMostOne(s)
    BY <1>1 DEF SystemInv, AtMostOne
  <2>2. Seated(s) => Seated(s)'
    BY <1>1, <1>4 DEF Seated
  <2>3. QED
    BY <1>1, <1>3, <2>1, <2>2 DEF RequestOK
<1>7. ClientsOK' /\ AtMostOne(s)' = AtMostOne(s)
  BY <1>1 DEF SystemInv, ClientsOK, AtMostOne
<1>8. \A t \in Sessions \ {s} : strand'[t] = strand[t]
  BY <1>1
<1>9. QED
  BY <1>1, <1>2, <1>5, <1>6, <1>7, <1>8, RequestStep DEF IInv

LEMMA TransmitSystem ==
    ASSUME SystemInv, NEW s \in Sessions, Transmit(s)
    PROVE  SystemInv'
<1> DEFINE r == Head(sendQueue[s])
<1> USE SystemTypes
<1>1. /\ UNCHANGED <<conn, task, lobby_, playerId, out, players, locked,
                     writer, readers, names, aborted>>
      /\ UNCHANGED <<net, sent>>
      /\ strand' = [strand EXCEPT ![s] = Append(@, r)]
      /\ sendQueue' = [sendQueue EXCEPT ![s] = Tail(@)]
      /\ sendQueue[s] # <<>>
      /\ conn[s] = "open"
      /\ ProcessReadBuf(s, r)
  BY DEF Transmit, ProcessReadBuf, sessionVars, lobbyVars, mutexVars
<1>2. /\ 1 \in DOMAIN sendQueue[s]
      /\ r = sendQueue[s][1]
      /\ r \in Requests
      /\ Tail(sendQueue[s]) \in Seq(Requests)
      /\ Len(Tail(sendQueue[s])) = Len(sendQueue[s]) - 1
      /\ \A i \in DOMAIN Tail(sendQueue[s]) :
             /\ i + 1 \in DOMAIN sendQueue[s]
             /\ Tail(sendQueue[s])[i] = sendQueue[s][i + 1]
  <2>1. sendQueue[s] \in Seq(Requests)
    OBVIOUS
  <2>2. QED
    BY <1>1, <2>1
<1>3. RequestsOK(s) /\ \A q : Asks(q)' <=> Asks(q)
  BY <1>1 DEF SystemInv, Asks
<1>4. Asks(r)
  BY <1>2, <1>3 DEF RequestsOK
<1> HIDE DEF r
<1>5. IInv'
  BY <1>1, <1>2, ProcessReadBufInv DEF SystemInv
<1>6. /\ sendQueue'[s] = Tail(sendQueue[s])
      /\ strand'[s] = Append(strand[s], r)
      /\ Len(strand'[s]) = Len(strand[s]) + 1
      /\ \A i \in DOMAIN strand'[s] :
             \/ i \in DOMAIN strand[s] /\ strand'[s][i] = strand[s][i]
             \/ strand'[s][i] = r
  <2>1. strand[s] \in Seq(Requests)
    OBVIOUS
  <2>2. QED
    BY <1>1, <1>2, <2>1
<1>7. ClientsOK'
  <2>1. sendQueue' \in [Sessions -> Seq(Requests)]
    BY <1>1, <1>2
  <2>2. QED
    BY <1>1, <2>1 DEF SystemInv, ClientsOK
<1>8. RequestsOK(s)'
  BY <1>1, <1>2, <1>3, <1>4, <1>6 DEF RequestsOK
<1>9. AtMostOne(s)' = AtMostOne(s)
  BY <1>1 DEF AtMostOne
<1>10. RequestOK(s)'
  <2>1. RequestOK(s)
    BY DEF SystemInv
  <2>2. ~Seated(s)
    BY <1>1 DEF Seated
  <2>3. Underway(s)' = Underway(s)
    <3>1. /\ Len(sendQueue[s]) \in Nat /\ Len(strand[s]) \in Nat
          /\ Len(sendQueue'[s]) = Len(sendQueue[s]) - 1
          /\ Len(strand'[s]) = Len(strand[s]) + 1
      BY <1>2, <1>6, UnderwayNat
    <3>2. task'[s] = task[s]
      BY <1>1
    <3>3. QED
      BY <3>1, <3>2 DEF Underway
  <2>4. QED
    BY <1>1, <1>9, <2>1, <2>2, <2>3 DEF RequestOK
<1>11. \A t \in Sessions \ {s} : strand'[t] = strand[t] /\ sendQueue'[t] = sendQueue[t]
  BY <1>1
<1>12. QED
  BY <1>1, <1>5, <1>7, <1>8, <1>9, <1>10, <1>11, RequestStep DEF IInv

LEMMA PressJOrFrameSystem ==
    ASSUME SystemInv, NEW s \in Sessions, PressJ(s) \/ Frame(s)
    PROVE  SystemInv'
<1> USE SystemTypes
<1>1. /\ UNCHANGED <<conn, strand, task, lobby_, playerId, out, players, locked,
                     writer, readers, names, aborted, received, net, sent>>
      /\ \/ UNCHANGED sendQueue
         \/ sendQueue' = [sendQueue EXCEPT ![s] = <<>>]
  BY DEF PressJ, Frame, vars
<1>2. /\ sendQueue' \in [Sessions -> Seq(Requests)]
      /\ sendQueue'[s] = sendQueue[s] \/ sendQueue'[s] = <<>>
      /\ \A t \in Sessions \ {s} : sendQueue'[t] = sendQueue[t]
  <2>1. <<>> \in Seq(Requests)
    OBVIOUS
  <2>2. CASE sendQueue' = sendQueue
    BY <2>2
  <2>3. CASE sendQueue' = [sendQueue EXCEPT ![s] = <<>>]
    BY <2>1, <2>3
  <2>4. QED
    BY <1>1, <2>2, <2>3
<1>3. TypeOK' /\ ClientsOK' /\ AtMostOne(s)' = AtMostOne(s)
  BY <1>1, <1>2 DEF SystemInv, IInv, TypeOK, ClientsOK, AtMostOne
<1>4. RequestsOK(s)'
  <2>1. RequestsOK(s) /\ \A q : Asks(q)' <=> Asks(q)
    BY <1>1 DEF SystemInv, Asks
  <2>2. QED
    BY <1>1, <1>2, <2>1 DEF RequestsOK
<1>5. RequestOK(s)'
  <2>1. RequestOK(s)
    BY DEF SystemInv
  <2>2. Seated(s) => Seated(s)'
    BY <1>1, <1>2 DEF Seated
  <2>3. Underway(s)' <= Underway(s) /\ Underway(s)' \in Nat /\ Underway(s) \in Nat
    <3>1. /\ Len(sendQueue'[s]) <= Len(sendQueue[s])
          /\ Len(sendQueue'[s]) \in Nat
          /\ Len(sendQueue[s]) \in Nat
          /\ Len(strand[s]) \in Nat
      BY <1>2, UnderwayNat
    <3> DEFINE a == Len(sendQueue[s])
               b == Len(sendQueue'[s])
               c == Len(strand[s])
               d == IF task[s].pc = "idle" THEN 0 ELSE 1
    <3>2. Underway(s) = a + c + d /\ Underway(s)' = b + c + d
      BY <1>1 DEF Underway
    <3>3. a \in Nat /\ b \in Nat /\ b <= a /\ c \in Nat /\ d \in Nat
      BY <3>1
    <3> HIDE DEF a, b, c, d
    <3>4. QED
      BY <3>2, <3>3
  <2>4. Len(sent[s]) \in Nat
    BY UnderwayNat
  <2>5. QED
    BY <1>1, <1>3, <2>1, <2>2, <2>3, <2>4 DEF RequestOK
<1>6. QED
  BY <1>1, <1>2, <1>3, <1>4, <1>5, RequestStep
-----------------------------------------------------------------------------
(* The ends of a connection                                                *)

LEMMA NamesElsewhere ==
    ASSUME NEW t \in Sessions, NamesOK(t), Untouched(t),
           players' = players, names \subseteq names'
    PROVE  NamesOK(t)'
BY DEF NamesOK, Untouched

\* A step that is about the connection s and moves no handler.
LEMMA OneConnection ==
    ASSUME SystemInv, NEW s \in Sessions, IInv', ClientsOK', LobbiesOK',
           UNCHANGED <<task, playerId, players, writer, readers, names, aborted, sent>>,
           ~aborted,
           \A t \in Sessions \ {s} : Untouched(t),
           lobby_'[s] = lobby_[s] \/ task[s].pc = "idle",
           OwnInv(s)', NamesOK(s)', ViewsOK(s)'
    PROVE  SystemInv'
<1> USE SystemTypes
<1>1. NoneSingled
  BY DEF NoneSingled, AtMostOne
<1>2. ASSUME NEW t \in Sessions, t # s
      PROVE  OwnInv(t)' /\ NamesOK(t)' /\ ViewsOK(t)'
  <2>1. NamesOK(t) /\ ViewsOK(t) /\ Untouched(t)
    BY <1>2 DEF SystemInv
  <2>2. NoSeatFor(t) /\ PostsOn(t)
    BY BeforeItself DEF NoSeatFor, PostsOn
  <2>3. OwnInv(t)'
    BY <1>1, <2>1, <2>2, Bystander
  <2>4. NamesOK(t)'
    BY <2>1, NamesElsewhere
  <2>5. ViewsOK(t)'
    <3>1. Listens(t)' => Listens(t)
      BY <1>1, <2>1 DEF Listens, NoneSingled, Untouched
    <3>2. StillAnnounced(t) /\ lobby_'[t] = lobby_[t] /\ out'[t] = out[t] /\ net'[t] = net[t]
      BY <2>1 DEF StillAnnounced, Untouched
    <3>3. QED
      BY <1>1, <2>1, <3>1, <3>2, SameViews
  <2>6. QED
    BY <2>3, <2>4, <2>5
<1>3. OnlyFullLobbyAborts'
  BY DEF OnlyFullLobbyAborts
<1>4. QED
  BY <1>2, <1>3 DEF SystemInv, OwnInv

LEMMA HangUpSystem ==
    ASSUME SystemInv, NEW s \in Sessions, HangUp(s), UNCHANGED clientVars
    PROVE  SystemInv'
<1> USE SystemTypes
<1>1. /\ UNCHANGED <<strand, task, lobby_, playerId, players, locked, writer,
                     readers, names, aborted, received, net, sendQueue, sent>>
      /\ conn[s] = "open" /\ ~aborted
      /\ conn' = [conn EXCEPT ![s] = "closed"]
      /\ out' = [out EXCEPT ![s] = <<>>]
  BY DEF HangUp, sessionVars, lobbyVars, mutexVars, clientVars
<1>2. /\ conn'[s] = "closed" /\ out'[s] = <<>>
      /\ \A t \in Sessions \ {s} : Untouched(t)
  BY <1>1 DEF Untouched
<1>3. IInv' /\ ClientsOK' /\ LobbiesOK'
  BY <1>1, HangUpInv DEF SystemInv, ClientsOK, LobbiesOK
<1>4. /\ RequestsOK(s) /\ RequestOK(s) /\ AddressedOK(s) /\ NamesOK(s)
      /\ \A q : Asks(q)' <=> Asks(q)
  BY <1>1 DEF SystemInv, Asks
<1>5. OwnInv(s)'
  <2>1. RequestsOK(s)'
    BY <1>1, <1>2, <1>4 DEF RequestsOK
  <2>2. AddressedOK(s)'
    BY <1>1, <1>2, <1>4 DEF AddressedOK
  <2>3. RequestOK(s)'
    <3>1. Seated(s) => Seated(s)'
      BY <1>1, <1>2 DEF Seated
    <3>2. Underway(s)' = Underway(s) /\ AtMostOne(s)' = AtMostOne(s)
      BY <1>1 DEF Underway, AtMostOne
    <3>3. QED
      BY <1>1, <1>4, <3>1, <3>2 DEF RequestOK
  <2>4. AnswersOK(s)' /\ AuthorsOK(s)'
    BY <1>2 DEF AnswersOK, AuthorsOK, Listens
  <2>5. QED
    BY <2>1, <2>2, <2>3, <2>4 DEF OwnInv
<1>6. NamesOK(s)'
  BY <1>1, <1>2, <1>4 DEF NamesOK
<1>7. ViewsOK(s)'
  BY <1>2 DEF ViewsOK, Listens
<1>8. QED
  BY <1>1, <1>2, <1>3, <1>5, <1>6, <1>7, OneConnection

\* The player of a destroyed session stays in the list.
LEMMA DestroySystem ==
    ASSUME SystemInv, NEW s \in Sessions, Destroy(s), UNCHANGED clientVars
    PROVE  SystemInv'
<1> USE SystemTypes
<1>1. /\ UNCHANGED <<strand, task, playerId, out, players, locked, writer,
                     readers, names, aborted, received, net, sendQueue, sent>>
      /\ conn[s] = "closed" /\ ~aborted
      /\ strand[s] = <<>>
      /\ task[s].pc = "idle"
      /\ conn' = [conn EXCEPT ![s] = "gone"]
      /\ lobby_' = [lobby_ EXCEPT ![s] = Null]
  BY DEF Destroy, At, lobbyVars, mutexVars, clientVars
<1>2. /\ conn'[s] = "gone" /\ lobby_'[s] = Null
      /\ \A t \in Sessions \ {s} : Untouched(t)
  BY <1>1 DEF Untouched
<1>3. IInv' /\ ClientsOK' /\ LobbiesOK'
  BY <1>1, DestroyInv DEF SystemInv, ClientsOK, LobbiesOK
<1>4. /\ RequestsOK(s) /\ RequestOK(s) /\ AddressedOK(s) /\ NamesOK(s) /\ AuthorsOK(s)
      /\ \A q : Asks(q)' <=> Asks(q)
  BY <1>1 DEF SystemInv, Asks
<1>5. OwnInv(s)'
  <2>1. RequestsOK(s)'
    BY <1>1, <1>4 DEF RequestsOK
  <2>2. AddressedOK(s)'
    BY <1>1, <1>4 DEF AddressedOK
  <2>3. RequestOK(s)'
    <3>1. Seated(s) => Seated(s)'
      BY <1>1, <1>2 DEF Seated
    <3>2. Underway(s)' = Underway(s) /\ AtMostOne(s)' = AtMostOne(s)
      BY <1>1 DEF Underway, AtMostOne
    <3>3. QED
      BY <1>1, <1>4, <3>1, <3>2 DEF RequestOK
  <2>4. AnswersOK(s)'
    BY <1>2 DEF AnswersOK, Listens
  <2>5. AuthorsOK(s)'
    BY <1>1, <1>4 DEF AuthorsOK, AtMostOne
  <2>6. QED
    BY <2>1, <2>2, <2>3, <2>4, <2>5 DEF OwnInv
<1>6. NamesOK(s)'
  BY <1>1, <1>2, <1>4 DEF NamesOK
<1>7. ViewsOK(s)'
  BY <1>2 DEF ViewsOK, Listens
<1>8. QED
  BY <1>1, <1>2, <1>3, <1>5, <1>6, <1>7, OneConnection
-----------------------------------------------------------------------------
(* The assertions                                                          *)

LEMMA AssertionsHold ==
    ASSUME SystemInv, NEW s \in Sessions
    PROVE  ~FailPlayerIdAssert(s) /\ ~FailRemoveAssert(s)
<1> USE SystemTypes
<1>1. ASSUME FailPlayerIdAssert(s) PROVE FALSE
  <2>1. /\ 1 \in DOMAIN strand[s]
        /\ Head(strand[s]) = strand[s][1]
    <3>1. strand[s] \in Seq(Requests) /\ strand[s] # <<>>
      BY <1>1 DEF FailPlayerIdAssert, Begin
    <3>2. QED
      BY <3>1
  <2>2. \/ Asks(Head(strand[s]))
        \/ IsSend(Head(strand[s])) /\ playerId[s] # Null
    BY <2>1 DEF SystemInv, RequestsOK
  <2>3. Head(strand[s]).type \in AssertsPlayerId /\ playerId[s] = Null
    BY <1>1 DEF FailPlayerIdAssert, PlayerIdMissing
  <2>4. QED
    BY <2>2, <2>3 DEF Asks, IsSend, AssertsPlayerId
<1>2. ASSUME FailRemoveAssert(s) PROVE FALSE
  <2>1. task[s].pc = "leaveLobby" /\ RequestsOK(s)
    BY <1>2 DEF FailRemoveAssert, At, SystemInv
  <2>2. QED
    BY <2>1 DEF RequestsOK
<1>3. QED
  BY <1>1, <1>2

\* A step that changes nothing, or only stops the process.
LEMMA NothingMoves ==
    ASSUME SystemInv, IInv', OnlyFullLobbyAborts',
           UNCHANGED <<conn, strand, task, lobby_, playerId, out, players, writer,
                       readers, names, net, sendQueue, sent>>
    PROVE  SystemInv'
<1>1. ClientsOK' /\ LobbiesOK'
  BY DEF SystemInv, ClientsOK, LobbiesOK
<1>2. ASSUME NEW s \in Sessions
      PROVE  /\ RequestsOK(s)' = RequestsOK(s) /\ NamesOK(s)' = NamesOK(s)
             /\ AddressedOK(s)' = AddressedOK(s) /\ RequestOK(s)' = RequestOK(s)
  BY DEF RequestsOK, Asks, NamesOK, AddressedOK, RequestOK, AtMostOne, Underway,
         Seated
<1>3. ASSUME NEW s \in Sessions
      PROVE  /\ ViewsOK(s)' = ViewsOK(s) /\ AnswersOK(s)' = AnswersOK(s)
             /\ AuthorsOK(s)' = AuthorsOK(s)
  BY DEF ViewsOK, AnswersOK, AuthorsOK, Listens, AtMostOne, Announced
<1>4. QED
  BY <1>1, <1>2, <1>3 DEF SystemInv

\* The assertion of getNextPlayerId fails only where others took all the seats.
LEMMA FailSizeAssertSystem ==
    ASSUME SystemInv, NEW s \in Sessions, FailSizeAssert(s), UNCHANGED clientVars
    PROVE  SystemInv'
<1> USE SystemTypes
<1>1. /\ UNCHANGED <<conn, strand, task, lobby_, playerId, out, players, writer,
                     readers, names, net, sendQueue, sent>>
      /\ task[s].pc = "enter" /\ task[s].req.type = "createLobby"
      /\ Size(players[lobby_[s]]) >= MaxPlayers
  BY DEF FailSizeAssert, Abort, At, clientVars
<1>2. IInv'
  BY HandleInv DEF Handle, SystemInv
<1>3. Size(players[lobby_[s]]) = MaxPlayers
  <2>1. players[lobby_[s]] \in Rosters(Sessions)
    BY <1>1 DEF SystemInv, IInv, HandlerOK
  <2>2. QED
    BY <1>1, <2>1, RosterSize, MaxPlayersAssumption
<1>4. \A i \in DOMAIN players[lobby_[s]] : players[lobby_[s]][i] # s
  BY <1>1 DEF SystemInv, NamesOK
<1>5. OnlyFullLobbyAborts'
  <2>1. /\ task'[s].pc = "enter" /\ task'[s].req.type = "createLobby"
        /\ Size(players'[lobby_'[s]]) = MaxPlayers
        /\ \A i \in DOMAIN players'[lobby_'[s]] : players'[lobby_'[s]][i] # s
    BY <1>1, <1>3, <1>4
  <2>2. (\E u \in Sessions :
            /\ task[u].pc = "enter" /\ task[u].req.type = "createLobby"
            /\ Size(players[lobby_[u]]) = MaxPlayers
            /\ \A i \in DOMAIN players[lobby_[u]] : players[lobby_[u]][i] # u)'
    BY <2>1 DEF Size
  <2>3. QED
    BY <2>2 DEF OnlyFullLobbyAborts
<1>6. QED
  BY <1>1, <1>2, <1>5, NothingMoves

\* The handlers of the messages that no client sends do not run.
LEMMA NeverCalled ==
    ASSUME SystemInv, NEW s \in Sessions
    PROVE  ~LeaveLobby(s) /\ ~ResetLobby(s) /\ ~SetLobbyLocked(s)
           /\ ~EncodeLobbyUpdate(s) /\ ~Respond(s)
<1>1. RequestsOK(s)
  BY DEF SystemInv
<1>2. task[s].pc \in {"idle", "createLobby", "joinLobby", "naming", "enter",
                      "sendMessage", "post"}
  BY <1>1 DEF RequestsOK
<1>3. QED
  BY <1>2 DEF LeaveLobby, ResetLobby, SetLobbyLocked, EncodeLobbyUpdate, Respond, At
-----------------------------------------------------------------------------
(* What net.lua makes of the messages it receives                          *)

LEMMA LastExists ==
    ASSUME NEW type, NEW k \in Nat, NEW ms
    PROVE  LET i == Last(type, k, ms)
           IN  /\ i \in 0 .. k
               /\ i > 0 => ms[i].type = type
               /\ \A j \in i + 1 .. k : ms[j].type # type
<1> DEFINE S == {i \in 0 .. k : i > 0 => ms[i].type = type}
           T == {d \in 0 .. k : k - d \in S}
<1>1. T \subseteq Nat /\ k \in T
  OBVIOUS
<1>2. PICK d \in T : \A e \in T : d <= e
  BY <1>1, LeastElement
<1>3. \A j \in (k - d) + 1 .. k : ms[j].type # type
  <2> SUFFICES ASSUME NEW j \in (k - d) + 1 .. k, ms[j].type = type PROVE FALSE
    OBVIOUS
  <2>1. j \in S /\ k - j \in 0 .. k /\ k - (k - j) = j
    OBVIOUS
  <2>2. k - j \in T
    BY <2>1
  <2>3. d <= k - j
    BY <1>2, <2>2
  <2>4. QED
    BY <2>3
<1>4. k - d \in 0 .. k /\ (k - d > 0 => ms[k - d].type = type)
  OBVIOUS
<1>5. QED
  BY <1>3, <1>4 DEF Last

LEMMA HandledMessages ==
    ASSUME NEW ms \in Seq(Messages), NEW k \in 0 .. Len(ms), NEW n \in Nets
    PROVE  LET N == HandleMessages(k, n, ms)
           IN  /\ N \in Nets
               /\ \/ /\ N.lobbyId = n.lobbyId /\ N.playerId = n.playerId
                     /\ \A j \in 1 .. k : ms[j].type # "lobbyJoined"
                  \/ \E j \in 1 .. k :
                         /\ ms[j].type = "lobbyJoined"
                         /\ N.lobbyId = ms[j].lobby /\ N.playerId = ms[j].id
               /\ \/ /\ N.players = n.players
                     /\ \A j \in 1 .. k : ~IsUpdate(ms[j])
                  \/ \E j \in 1 .. k :
                         /\ IsUpdate(ms[j])
                         /\ N.players = ms[j].players
                         /\ \A i \in j + 1 .. k : ~IsUpdate(ms[i])
<1> DEFINE a == Last("lobbyJoined", k, ms)
           b == Last("updateLobby", k, ms)
           N == HandleMessages(k, n, ms)
<1>1. /\ a \in 0 .. k
      /\ a > 0 => ms[a].type = "lobbyJoined"
      /\ \A j \in a + 1 .. k : ms[j].type # "lobbyJoined"
  BY LastExists
<1>2. /\ b \in 0 .. k
      /\ b > 0 => ms[b].type = "updateLobby"
      /\ \A j \in b + 1 .. k : ms[j].type # "updateLobby"
  BY LastExists
<1>3. N = [lobbyId |-> IF a = 0 THEN n.lobbyId ELSE ms[a].lobby,
           playerId |-> IF a = 0 THEN n.playerId ELSE ms[a].id,
           players |-> IF b = 0 THEN n.players ELSE ms[b].players]
  BY DEF HandleMessages
<1> HIDE DEF a, b, N
<1>4. \A j \in 1 .. k : ms[j] \in Messages
  OBVIOUS
<1>5. /\ a # 0 => ms[a].lobby \in Lobbies /\ ms[a].id \in Ids
      /\ b # 0 => ms[b].players \in Rosters(Sessions)
  <2>1. a # 0 => a \in 1 .. k /\ ms[a] \in Messages /\ ms[a].type = "lobbyJoined"
    BY <1>1, <1>4
  <2>2. b # 0 => b \in 1 .. k /\ ms[b] \in Messages /\ IsUpdate(ms[b])
    BY <1>2, <1>4 DEF IsUpdate
  <2>3. QED
    BY <2>1, <2>2, UpdateFields
<1>6. N \in Nets
  BY <1>3, <1>5 DEF Nets
<1>7. \/ /\ N.lobbyId = n.lobbyId /\ N.playerId = n.playerId
         /\ \A j \in 1 .. k : ms[j].type # "lobbyJoined"
      \/ \E j \in 1 .. k :
             /\ ms[j].type = "lobbyJoined"
             /\ N.lobbyId = ms[j].lobby /\ N.playerId = ms[j].id
  BY <1>1, <1>3
<1>8. \/ /\ N.players = n.players
         /\ \A j \in 1 .. k : ~IsUpdate(ms[j])
      \/ \E j \in 1 .. k :
             /\ IsUpdate(ms[j])
             /\ N.players = ms[j].players
             /\ \A i \in j + 1 .. k : ~IsUpdate(ms[i])
  BY <1>2, <1>3 DEF IsUpdate
<1>9. QED
  BY <1>6, <1>7, <1>8 DEF N

LEMMA BeforeEachOther ==
    ASSUME NEW R \in Rosters(Sessions), NEW Q \in Rosters(Sessions),
           Before(R, Q), Before(Q, R)
    PROVE  R = Q
<1>1. DOMAIN R = DOMAIN Q /\ \A i \in DOMAIN R : R[i] = Q[i]
  BY DEF Before
<1>2. R \in [DOMAIN R -> Sessions] /\ Q \in [DOMAIN Q -> Sessions]
  BY RosterSize
<1>3. QED
  BY <1>1, <1>2

LEMMA KnownLater ==
    ASSUME NEW R, NEW Q, Before(R, Q), NEW id, NEW a, Knows(R, id, a)
    PROVE  Knows(Q, id, a)
BY DEF Before, Knows

\* The lists that are received grow towards L, the one of the lobby.
Growing(n, ms, L) ==
    /\ Before(n.players, L)
    /\ \A k \in DOMAIN ms : IsUpdate(ms[k]) =>
           /\ Before(n.players, ms[k].players)
           /\ Before(ms[k].players, L)
           /\ \A j \in 1 .. k - 1 : IsUpdate(ms[j]) =>
                  Before(ms[j].players, ms[k].players)

LEMMA ReceivedViews ==
    ASSUME NEW ms \in Seq(Messages), NEW k \in 0 .. Len(ms), NEW n \in Nets,
           NEW L \in Rosters(Sessions), Growing(n, ms, L)
    PROVE  LET N == HandleMessages(k, n, ms)
           IN  /\ Before(N.players, L)
               /\ \A i \in k + 1 .. Len(ms) : IsUpdate(ms[i]) =>
                      Before(N.players, ms[i].players)
               /\ Before(n.players, N.players)
               /\ \A i \in 1 .. k : IsUpdate(ms[i]) =>
                      Before(ms[i].players, N.players)
<1> DEFINE N == HandleMessages(k, n, ms)
<1>1. \/ /\ N.players = n.players
         /\ \A j \in 1 .. k : ~IsUpdate(ms[j])
      \/ \E j \in 1 .. k :
             /\ IsUpdate(ms[j])
             /\ N.players = ms[j].players
             /\ \A i \in j + 1 .. k : ~IsUpdate(ms[i])
  BY HandledMessages
<1> HIDE DEF N
<1>2. CASE N.players = n.players /\ \A j \in 1 .. k : ~IsUpdate(ms[j])
  BY <1>2, BeforeItself DEF Growing, N
<1>3. ASSUME NEW j \in 1 .. k, IsUpdate(ms[j]), N.players = ms[j].players,
             \A i \in j + 1 .. k : ~IsUpdate(ms[i])
      PROVE  /\ Before(N.players, L)
             /\ \A i \in k + 1 .. Len(ms) : IsUpdate(ms[i]) =>
                    Before(N.players, ms[i].players)
             /\ Before(n.players, N.players)
             /\ \A i \in 1 .. k : IsUpdate(ms[i]) =>
                    Before(ms[i].players, N.players)
  <2>1. j \in DOMAIN ms /\ Before(N.players, L) /\ Before(n.players, N.players)
    BY <1>3 DEF Growing
  <2>2. ASSUME NEW i \in k + 1 .. Len(ms), IsUpdate(ms[i])
        PROVE  Before(N.players, ms[i].players)
    <3>1. i \in DOMAIN ms /\ j \in 1 .. i - 1
      OBVIOUS
    <3>2. QED
      BY <1>3, <2>2, <3>1 DEF Growing
  <2>3. ASSUME NEW i \in 1 .. k, IsUpdate(ms[i])
        PROVE  Before(ms[i].players, N.players)
    <3>1. i = j \/ i \in 1 .. j - 1
      BY <1>3, <2>3
    <3>2. QED
      BY <1>3, <2>1, <2>3, <3>1, BeforeItself DEF Growing
  <2>4. QED
    BY <2>1, <2>2, <2>3
<1>4. QED
  BY <1>1, <1>2, <1>3 DEF N

\* What is left of the stream.
LEMMA RestOfStream ==
    ASSUME NEW ms \in Seq(Messages), NEW k \in 0 .. Len(ms)
    PROVE  LET rest == SubSeq(ms, k + 1, Len(ms))
           IN  /\ rest \in Seq(Messages)
               /\ Len(rest) = Len(ms) - k
               /\ \A i \in DOMAIN rest : i + k \in k + 1 .. Len(ms) /\ rest[i] = ms[i + k]
               /\ \A i \in k + 1 .. Len(ms) : i - k \in DOMAIN rest /\ rest[i - k] = ms[i]
BY SMTT(30)

LEMMA TickStep ==
    ASSUME SystemInv, NEW s \in Sessions, Tick(s)
    PROVE  \E k \in 0 .. Len(out[s]) :
               /\ net' = [net EXCEPT ![s] = HandleMessages(k, net[s], out[s])]
               /\ out' = [out EXCEPT ![s] = SubSeq(@, k + 1, Len(@))]
               /\ UNCHANGED <<conn, strand, task, lobby_, playerId, players, locked,
                              writer, readers, names, aborted, received, sendQueue,
                              sent>>
               /\ ~aborted
BY DEF Tick, TickWaitForJoin, TickLobby, ReceiveMessages, sessionVars, lobbyVars,
       mutexVars

\* Receiving what has arrived changes nothing for the server; what the client
\* knows then is what it would have known of the messages.
LEMMA TickSystem ==
    ASSUME SystemInv, NEW s \in Sessions, Tick(s)
    PROVE  SystemInv'
<1> USE SystemTypes
<1>1. PICK k \in 0 .. Len(out[s]) :
               /\ net' = [net EXCEPT ![s] = HandleMessages(k, net[s], out[s])]
               /\ out' = [out EXCEPT ![s] = SubSeq(@, k + 1, Len(@))]
               /\ UNCHANGED <<conn, strand, task, lobby_, playerId, players, locked,
                              writer, readers, names, aborted, received, sendQueue,
                              sent>>
               /\ ~aborted
  BY TickStep
<1> DEFINE n == net[s]
           ms == out[s]
           N == HandleMessages(k, n, ms)
           rest == SubSeq(ms, k + 1, Len(ms))
           l == lobby_[s]
<1>2. /\ ms \in Seq(Messages) /\ n \in Nets
      /\ net'[s] = N /\ out'[s] = rest
      /\ N \in Nets
      /\ \A t \in Sessions \ {s} : Untouched(t)
  <2>1. ms \in Seq(Messages) /\ n \in Nets
    OBVIOUS
  <2>2. net'[s] = N /\ out'[s] = rest
    BY <1>1
  <2>3. \A t \in Sessions \ {s} : Untouched(t)
    BY <1>1 DEF Untouched
  <2>4. QED
    BY <2>1, <2>2, <2>3, HandledMessages
<1>3. /\ rest \in Seq(Messages)
      /\ Len(rest) = Len(ms) - k
      /\ \A i \in DOMAIN rest : i + k \in k + 1 .. Len(ms) /\ rest[i] = ms[i + k]
      /\ \A i \in k + 1 .. Len(ms) : i - k \in DOMAIN rest /\ rest[i - k] = ms[i]
  BY <1>2, RestOfStream
<1>4. /\ \/ /\ N.lobbyId = n.lobbyId /\ N.playerId = n.playerId
            /\ \A j \in 1 .. k : ms[j].type # "lobbyJoined"
         \/ \E j \in 1 .. k :
                /\ ms[j].type = "lobbyJoined"
                /\ N.lobbyId = ms[j].lobby /\ N.playerId = ms[j].id
      /\ \/ N.players = n.players
         \/ \E j \in 1 .. k : IsUpdate(ms[j]) /\ N.players = ms[j].players
  BY <1>2, HandledMessages
<1>5. /\ RequestsOK(s) /\ AddressedOK(s) /\ RequestOK(s) /\ AnswersOK(s)
      /\ AuthorsOK(s) /\ NamesOK(s) /\ ViewsOK(s)
  BY DEF SystemInv
<1>6. 1 .. k \subseteq DOMAIN ms /\ k + 1 .. Len(ms) \subseteq DOMAIN ms
  BY <1>2
<1>7. /\ AtMostOne(s)' = AtMostOne(s)
      /\ Listens(s)' = Listens(s)
      /\ \A a \in Sessions : AtMostOne(a)' = AtMostOne(a)
      /\ \A q : Asks(q) => Asks(q)'
  BY <1>1 DEF Listens, AtMostOne, Asks
<1>8. ASSUME Listens(s)
      PROVE  /\ l \in Lobbies /\ players[l] \in Rosters(Sessions)
             /\ Growing(n, ms, players[l])
  <2>1. RequestOK(s) /\ l # Null
    BY <1>5, <1>8 DEF RequestOK, Listens, Seated
  <2>2. l \in Lobbies /\ players[l] \in Rosters(Sessions)
    BY <2>1
  <2>3. Growing(n, ms, players[l])
    BY <1>5, <1>8 DEF ViewsOK, Growing
  <2>4. QED
    BY <2>2, <2>3
<1>9. ASSUME Listens(s)
      PROVE  /\ Before(N.players, players[l])
             /\ \A i \in k + 1 .. Len(ms) : IsUpdate(ms[i]) =>
                    Before(N.players, ms[i].players)
             /\ Before(n.players, N.players)
             /\ \A i \in 1 .. k : IsUpdate(ms[i]) =>
                    Before(ms[i].players, N.players)
  BY <1>2, <1>8, <1>9, ReceivedViews
<1>10. IInv' /\ ClientsOK'
  <2>1. TypeOK'
    <3>1. out' \in [Sessions -> Seq(Messages)]
      BY <1>1, <1>3
    <3>2. QED
      BY <1>1, <3>1 DEF SystemInv, IInv, TypeOK
  <2>2. IInv'
    BY <1>1, <2>1, SameHandlers DEF SystemInv
  <2>3. ClientsOK'
    <3>1. net' \in [Sessions -> Nets]
      BY <1>1, <1>2
    <3>2. QED
      BY <1>1, <3>1 DEF SystemInv, ClientsOK
  <2>4. QED
    BY <2>2, <2>3
<1> HIDE DEF N, rest
<1>11. LobbiesOK' /\ NamesOK(s)'
  BY <1>1, <1>5 DEF SystemInv, LobbiesOK, NamesOK
<1>12. OwnInv(s)'
  <2>1. RequestsOK(s)'
    BY <1>1, <1>5, <1>7 DEF RequestsOK
  <2>2. AddressedOK(s)'
    <3>1. ms # <<>> => playerId[s] # Null /\ conn[s] = "open"
      BY <1>5 DEF AddressedOK
    <3>2. rest # <<>> => ms # <<>>
      BY <1>2, <1>3
    <3>3. DOMAIN N.players # {} => playerId[s] # Null
      <4>1. CASE N.players = n.players
        BY <1>5, <4>1 DEF AddressedOK
      <4>2. ASSUME NEW j \in 1 .. k PROVE playerId[s] # Null
        BY <1>2, <3>1
      <4>3. QED
        BY <1>4, <4>1, <4>2
    <3>4. QED
      BY <1>1, <1>2, <1>5, <3>1, <3>2, <3>3 DEF AddressedOK
  <2>3. RequestOK(s)'
    <3>1. Seated(s)' = Seated(s) /\ Underway(s)' = Underway(s)
      BY <1>1 DEF Seated, Underway
    <3>2. QED
      BY <1>1, <1>5, <1>7, <3>1 DEF RequestOK
  <2>4. AnswersOK(s)'
    <3> SUFFICES ASSUME Listens(s)
                 PROVE  /\ \A i \in DOMAIN rest : rest[i].type = "lobbyJoined" =>
                               rest[i] = Joined(l, playerId[s])
                        /\ \/ N.lobbyId = l /\ N.playerId = playerId[s]
                           \/ rest # <<>> /\ rest[1].type = "lobbyJoined"
      BY <1>1, <1>2, <1>7 DEF AnswersOK
    <3>1. \A i \in DOMAIN ms : ms[i].type = "lobbyJoined" => ms[i] = Joined(l, playerId[s])
      BY <1>5 DEF AnswersOK
    <3>2. \A i \in DOMAIN rest : rest[i].type = "lobbyJoined" =>
              rest[i] = Joined(l, playerId[s])
      BY <1>3, <1>6, <3>1
    <3>3. (\E j \in 1 .. k : ms[j].type = "lobbyJoined") =>
              N.lobbyId = l /\ N.playerId = playerId[s]
      <4>1. Joined(l, playerId[s]).lobby = l /\ Joined(l, playerId[s]).id = playerId[s]
        BY DEF Joined
      <4>2. QED
        BY <1>4, <1>6, <3>1, <4>1
    <3>4. CASE n.lobbyId = l /\ n.playerId = playerId[s]
      BY <1>4, <3>2, <3>3, <3>4
    <3>5. CASE ms # <<>> /\ ms[1].type = "lobbyJoined"
      <4>1. CASE k = 0
        <5>1. 1 \in 1 .. Len(ms)
          BY <1>2, <3>5
        <5>2. rest # <<>> /\ rest[1] = ms[1]
          BY <1>2, <1>3, <4>1, <5>1
        <5>3. QED
          BY <3>2, <3>5, <5>2
      <4>2. CASE k # 0
        BY <3>2, <3>3, <3>5, <4>2
      <4>3. QED
        BY <4>1, <4>2
    <3>6. QED
      BY <1>5, <3>4, <3>5 DEF AnswersOK
  <2>5. AuthorsOK(s)'
    <3> SUFFICES ASSUME NEW i \in DOMAIN rest, IsRelay(rest[i]), AtMostOne(s),
                        AtMostOne(rest[i].author)
                 PROVE  /\ rest[i].author # s
                        /\ \/ Knows(N.players, rest[i].id, rest[i].author)
                           \/ \E j \in 1 .. i - 1 :
                                  /\ IsUpdate(rest[j])
                                  /\ Knows(rest[j].players, rest[i].id, rest[i].author)
      <4>1. \A i \in DOMAIN rest : IsRelay(rest[i]) => rest[i].author \in Sessions
        BY <1>3, RelayFields
      <4>2. QED
        BY <1>1, <1>2, <1>7, <4>1 DEF AuthorsOK
    <3>1. i + k \in DOMAIN ms /\ ms[i + k] = rest[i] /\ i \in Nat /\ ms # <<>>
      BY <1>2, <1>3, <1>6
    <3>2. Listens(s)
      BY <1>5, <3>1 DEF AddressedOK, Listens
    <3>3. /\ rest[i].author # s
          /\ \/ Knows(n.players, rest[i].id, rest[i].author)
             \/ \E j \in 1 .. (i + k) - 1 :
                    /\ IsUpdate(ms[j])
                    /\ Knows(ms[j].players, rest[i].id, rest[i].author)
      BY <1>5, <3>1 DEF AuthorsOK
    <3>4. CASE Knows(n.players, rest[i].id, rest[i].author)
      BY <1>9, <3>2, <3>3, <3>4, KnownLater
    <3>5. ASSUME NEW j \in 1 .. (i + k) - 1, IsUpdate(ms[j]),
                 Knows(ms[j].players, rest[i].id, rest[i].author)
          PROVE  \/ Knows(N.players, rest[i].id, rest[i].author)
                 \/ \E h \in 1 .. i - 1 :
                        /\ IsUpdate(rest[h])
                        /\ Knows(rest[h].players, rest[i].id, rest[i].author)
      <4>1. CASE j <= k
        <5>1. Before(ms[j].players, N.players)
          BY <1>9, <3>2, <3>5, <4>1
        <5>2. QED
          BY <3>5, <5>1, KnownLater
      <4>2. CASE j > k
        <5>1. j \in k + 1 .. Len(ms) /\ j - k \in 1 .. i - 1
          BY <1>2, <3>1, <4>2
        <5>2. rest[j - k] = ms[j]
          BY <1>3, <5>1
        <5>3. QED
          BY <3>5, <5>1, <5>2
      <4>3. QED
        BY <4>1, <4>2
    <3>6. QED
      BY <3>3, <3>4, <3>5
  <2>6. QED
    BY <2>1, <2>2, <2>3, <2>4, <2>5 DEF OwnInv
<1>13. ViewsOK(s)'
  <2> SUFFICES ASSUME Listens(s)
               PROVE  /\ Growing(N, rest, players[l])
                      /\ Announced(s)'
    BY <1>1, <1>2, <1>7 DEF ViewsOK, Growing
  <2>1. Growing(N, rest, players[l])
    <3>1. Growing(n, ms, players[l]) /\ Before(N.players, players[l])
      BY <1>8, <1>9
    <3>2. ASSUME NEW i \in DOMAIN rest, IsUpdate(rest[i])
          PROVE  /\ Before(N.players, rest[i].players)
                 /\ Before(rest[i].players, players[l])
                 /\ \A j \in 1 .. i - 1 : IsUpdate(rest[j]) =>
                        Before(rest[j].players, rest[i].players)
      <4>1. i + k \in k + 1 .. Len(ms) /\ ms[i + k] = rest[i] /\ i + k \in DOMAIN ms
        BY <1>3, <1>6
      <4>2. \A j \in 1 .. i - 1 : j + k \in 1 .. (i + k) - 1 /\ ms[j + k] = rest[j]
        <5>1. DOMAIN rest = 1 .. Len(rest)
          BY <1>3
        <5>2. \A j \in 1 .. i - 1 : j \in DOMAIN rest /\ j + k \in 1 .. (i + k) - 1
          BY <1>3, <5>1
        <5>3. QED
          BY <1>3, <5>2
      <4>3. QED
        BY <1>9, <3>1, <3>2, <4>1, <4>2 DEF Growing
    <3>3. QED
      BY <3>1, <3>2 DEF Growing
  <2>2. Announced(s)'
    <3>1. \/ N.players = players[l]
          \/ \E i \in DOMAIN rest : IsUpdate(rest[i]) /\ rest[i].players = players[l]
          \/ writer[l] # Null /\ playerId[s] \in task[writer[l]].todo
      <4>1. N.players \in Rosters(Sessions)
        BY <1>2 DEF Nets
      <4>2. CASE n.players = players[l]
        BY <1>8, <1>9, <4>1, <4>2, BeforeEachOther
      <4>3. ASSUME NEW j \in DOMAIN ms, IsUpdate(ms[j]), ms[j].players = players[l]
            PROVE  \/ N.players = players[l]
                   \/ \E i \in DOMAIN rest : IsUpdate(rest[i]) /\ rest[i].players = players[l]
        <5>1. CASE j <= k
          <6>1. Before(players[l], N.players)
            <7>1. j \in 1 .. k
              BY <1>2, <5>1
            <7>2. QED
              BY <1>9, <4>3, <7>1
          <6>2. QED
            BY <1>8, <1>9, <4>1, <6>1, BeforeEachOther
        <5>2. CASE j > k
          <6>1. j - k \in DOMAIN rest /\ rest[j - k] = ms[j]
            BY <1>2, <1>3, <5>2
          <6>2. QED
            BY <4>3, <6>1
        <5>3. QED
          BY <1>2, <5>1, <5>2
      <4>4. QED
        BY <1>5, <4>2, <4>3 DEF ViewsOK, Announced
    <3>2. QED
      BY <1>1, <1>2, <3>1 DEF Announced
  <2>3. QED
    BY <2>1, <2>2
<1>14. QED
  BY <1>1, <1>2, <1>7, <1>10, <1>11, <1>12, <1>13, OneConnection
-----------------------------------------------------------------------------
(* Entering a lobby, and telling everybody                                 *)

LEMMA AppendedStream ==
    ASSUME NEW ms \in Seq(Messages), NEW m \in Messages
    PROVE  LET all == Append(ms, m)
           IN  /\ all \in Seq(Messages) /\ all # <<>>
               /\ DOMAIN all = 1 .. Len(ms) + 1
               /\ \A i \in DOMAIN ms : i \in DOMAIN all /\ all[i] = ms[i]
               /\ \A i \in DOMAIN all :
                      \/ i \in DOMAIN ms /\ all[i] = ms[i]
                      \/ i = Len(ms) + 1 /\ all[i] = m
               /\ all[Len(ms) + 1] = m
               /\ ms # <<>> => 1 \in DOMAIN ms /\ all[1] = ms[1]
OBVIOUS

LEMMA JoinedRoster ==
    ASSUME NEW L \in Rosters(Sessions), NEW s \in Sessions, Size(L) < MaxPlayers
    PROVE  LET id == NextPlayerId(L)
               R == AddPlayer(L, s)
           IN  /\ id \in Ids /\ id \notin DOMAIN L /\ id # Null
               /\ R \in Rosters(Sessions) /\ DOMAIN R = DOMAIN L \cup {id} /\ R[id] = s
               /\ \A i \in DOMAIN L : R[i] = L[i]
<1>1. NextPlayerId(L) \in Ids /\ NextPlayerId(L) \notin DOMAIN L
  BY NextPlayerIdIsFree
<1>2. AddPlayer(L, s) \in Rosters(Sessions)
  BY AddPlayerResult
<1>3. /\ DOMAIN AddPlayer(L, s) = DOMAIN L \cup {NextPlayerId(L)}
      /\ AddPlayer(L, s)[NextPlayerId(L)] = s
  BY AddPlayerResult
<1>4. \A i \in DOMAIN L : AddPlayer(L, s)[i] = L[i]
  BY AddPlayerKeeps
<1>5. QED
  BY <1>1, <1>2, <1>3, <1>4, NullIsNothing

\* The client with a request gets its seat, the answer is first in its stream,
\* and the writer has still to announce the new list to everybody in it.
LEMMA EnterLobbySystem ==
    ASSUME SystemInv, NEW s \in Sessions, EnterLobby(s), UNCHANGED clientVars
    PROVE  SystemInv'
<1> DEFINE l == lobby_[s]
           L == players[l]
           id == NextPlayerId(L)
           R == AddPlayer(L, s)
           m == Joined(l, id)
<1> USE SystemTypes
<1>1. /\ task[s].pc = "enter" /\ ~aborted
      /\ l \in Lobbies /\ L \in Rosters(Sessions) /\ Size(L) < MaxPlayers
      /\ UniqueFree(l)
  BY DEF EnterLobby, At, CanJoin, SystemInv, IInv, HandlerOK
<1>2. /\ id \in Ids /\ id \notin DOMAIN L /\ id # Null
      /\ R \in Rosters(Sessions) /\ DOMAIN R = DOMAIN L \cup {id} /\ R[id] = s
      /\ \A i \in DOMAIN L : R[i] = L[i]
      /\ m \in Messages /\ ~IsRelay(m) /\ ~IsUpdate(m)
      /\ m.lobby = l
      /\ Update(l, R) \in Messages
  <2>1. /\ id \in Ids /\ id \notin DOMAIN L /\ id # Null
        /\ R \in Rosters(Sessions) /\ DOMAIN R = DOMAIN L \cup {id} /\ R[id] = s
        /\ \A i \in DOMAIN L : R[i] = L[i]
    BY <1>1, JoinedRoster
  <2>2. m \in Messages /\ m.lobby = l /\ m.type = "lobbyJoined"
    BY <1>1, <2>1, JoinedMessage DEF Joined
  <2>3. Update(l, R) \in Messages
    BY <1>1, <2>1, UpdateMessage
  <2>4. QED
    BY <2>1, <2>2, <2>3 DEF IsRelay, IsUpdate
<1>3. /\ UNCHANGED <<conn, strand, lobby_, readers, names, aborted>>
      /\ UNCHANGED <<net, sendQueue, sent>>
      /\ writer' = [writer EXCEPT ![l] = s]
      /\ players' = [players EXCEPT ![l] = R]
      /\ playerId' = [playerId EXCEPT ![s] = id]
      /\ Send(s, m)
      /\ Broadcast(s, Update(l, R), DOMAIN R)
  BY DEF EnterLobby, clientVars
<1>4. /\ players'[l] = R /\ writer'[l] = s /\ playerId'[s] = id
      /\ \A k \in Lobbies \ {l} : players'[k] = players[k] /\ writer'[k] = writer[k]
      /\ task'[s].pc = "post" /\ task'[s].req = task[s].req
      /\ task'[s].msg = Update(l, R) /\ task'[s].todo = DOMAIN R
      /\ \A t \in Sessions \ {s} : task'[t] = task[t]
  <2>1. DOMAIN R \in SUBSET Ids
    BY <1>2, RosterSize
  <2>2. /\ task'[s].pc = "post" /\ task'[s].req = task[s].req
        /\ task'[s].msg = Update(l, R) /\ task'[s].todo = DOMAIN R
        /\ \A t \in Sessions \ {s} : task'[t] = task[t]
    BY <1>2, <1>3, <2>1, BroadcastTask
  <2>3. QED
    BY <1>1, <1>3, <2>2
<1>5. /\ conn[s] = "open" => out'[s] = Append(out[s], m)
      /\ conn[s] # "open" => out'[s] = out[s]
      /\ \A t \in Sessions \ {s} : out'[t] = out[t]
  BY <1>3 DEF Send
<1>6. IInv'
  BY HandleInv DEF Handle, SystemInv
<1>7. /\ RequestsOK(s) /\ RequestOK(s) /\ AddressedOK(s) /\ NamesOK(s)
      /\ \A q : Asks(q)' <=> Asks(q)
      /\ AtMostOne(s)' = AtMostOne(s)
      /\ NoneSingled
  BY <1>3 DEF SystemInv, Asks, AtMostOne, NoneSingled
<1>8. /\ Asks(task[s].req)
      /\ conn[s] # "gone"
      /\ AtMostOne(s) => /\ playerId[s] = Null
                         /\ Len(sent[s]) = 1
                         /\ sendQueue[s] = <<>>
                         /\ strand[s] = <<>>
  BY <1>1, AskingAlone DEF Asking
<1> HIDE DEF R, id, m
<1>9. /\ Before(L, R)
      /\ \A k \in Lobbies : Before(players[k], players'[k])
      /\ \A t \in Sessions \ {s} : NoSeatFor(t)
  <2>1. Before(L, R)
    BY <1>2 DEF Before
  <2>2. \A k \in Lobbies : Before(players[k], players'[k])
    BY <1>4, <2>1, BeforeItself
  <2>3. ASSUME NEW t \in Sessions \ {s}, NEW k \in Lobbies, NEW i \in DOMAIN players'[k],
               players'[k][i] = t
        PROVE  i \in DOMAIN players[k] /\ players[k][i] = t
    <3>1. CASE k = l
      BY <1>2, <1>4, <2>3, <3>1
    <3>2. CASE k # l
      BY <1>4, <2>3, <3>2
    <3>3. QED
      BY <3>1, <3>2
  <2>4. QED
    BY <2>1, <2>2, <2>3 DEF NoSeatFor
<1>10. ASSUME NEW t \in Sessions, t # s
       PROVE  Untouched(t) /\ OwnInv(t)'
  <2>1. Untouched(t)
    BY <1>3, <1>4, <1>5, <1>10 DEF Untouched
  <2>2. PostsOn(t)
    BY <1>1, <1>3, <1>4, PostingLocks DEF PostsOn, SystemInv
  <2>3. QED
    BY <1>3, <1>7, <1>9, <1>10, <2>1, <2>2, Bystander
<1>11. OwnInv(s)'
  <2>1. RequestsOK(s)'
    BY <1>2, <1>3, <1>4, <1>7, <1>8 DEF RequestsOK
  <2>2. AddressedOK(s)'
    BY <1>2, <1>3, <1>4, <1>5, <1>7 DEF AddressedOK
  <2>3. RequestOK(s)'
    <3> SUFFICES ASSUME AtMostOne(s) PROVE Seated(s)'
      BY <1>2, <1>4, <1>7 DEF RequestOK
    <3>1. \A k \in Lobbies : \A i \in DOMAIN players'[k] : players'[k][i] = s =>
              k = l /\ i = id
      <4>1. \A k \in Lobbies : \A i \in DOMAIN players[k] : players[k][i] # s
        BY <1>7, <1>8 DEF AddressedOK
      <4>2. QED
        BY <1>1, <1>2, <1>4, <4>1
    <3>2. /\ sent'[s] = sent[s] /\ sendQueue'[s] = <<>> /\ strand'[s] = <<>>
          /\ Len(sent[s]) = 1 /\ task'[s].pc = "post" /\ lobby_'[s] = l /\ l # Null
          /\ playerId'[s] = id /\ players'[l] = R /\ id \in DOMAIN R /\ R[id] = s
      BY <1>1, <1>2, <1>3, <1>4, <1>8, NullIsNothing
    <3>3. QED
      BY <3>1, <3>2 DEF Seated
  <2>4. ASSUME Listens(s)' PROVE out[s] = <<>> /\ out'[s] = <<m>> /\ DOMAIN net[s].players = {}
    <3>1. playerId[s] = Null /\ conn[s] = "open"
      BY <1>3, <1>7, <1>8, <2>4 DEF Listens
    <3>2. out[s] = <<>> /\ DOMAIN net[s].players = {}
      BY <1>7, <3>1 DEF AddressedOK
    <3>3. Append(<<>>, m) = <<m>>
      OBVIOUS
    <3>4. QED
      BY <1>5, <3>1, <3>2, <3>3
  <2>5. AnswersOK(s)'
    <3> SUFFICES ASSUME Listens(s)'
                 PROVE  /\ \A k \in DOMAIN out'[s] : out'[s][k] = Joined(l, id)
                        /\ out'[s] # <<>> /\ out'[s][1].type = "lobbyJoined"
      BY <1>3, <1>4 DEF AnswersOK
    <3>1. out'[s] = <<m>> /\ m = Joined(l, id) /\ m.type = "lobbyJoined"
      BY <2>4 DEF m, Joined
    <3>2. DOMAIN <<m>> = {1} /\ <<m>>[1] = m /\ <<m>> # <<>>
      OBVIOUS
    <3>3. QED
      BY <3>1, <3>2
  <2>6. AuthorsOK(s)'
    <3>1. CASE conn[s] # "open"
      <4>1. out[s] = <<>> /\ out'[s] = <<>>
        BY <1>5, <1>7, <3>1 DEF AddressedOK
      <4>2. QED
        BY <4>1 DEF AuthorsOK
    <3>2. CASE conn[s] = "open" /\ AtMostOne(s)
      <4>1. out[s] = <<>>
        BY <1>7, <1>8, <3>2 DEF AddressedOK
      <4>2. out'[s] = Append(<<>>, m) /\ Append(<<>>, m) = <<m>>
        BY <1>5, <3>2, <4>1
      <4>3. \A k \in DOMAIN <<m>> : <<m>>[k] = m
        OBVIOUS
      <4>4. \A k \in DOMAIN out'[s] : ~IsRelay(out'[s][k])
        BY <1>2, <4>2, <4>3
      <4>5. QED
        BY <4>4 DEF AuthorsOK
    <3>3. CASE ~AtMostOne(s)
      BY <1>7, <3>3 DEF AuthorsOK
    <3>4. QED
      BY <3>1, <3>2, <3>3
  <2>7. QED
    BY <2>1, <2>2, <2>3, <2>5, <2>6 DEF OwnInv
<1>12. ASSUME NEW t \in Sessions PROVE NamesOK(t)'
  <2>1. NamesOK(t)
    BY DEF SystemInv
  <2>2. CASE t = s
    BY <1>3, <1>4, <2>1, <2>2 DEF NamesOK
  <2>3. CASE t # s
    <3>1. task'[t] = task[t] /\ UNCHANGED <<lobby_, names>>
      BY <1>3, <1>4, <2>3
    <3>2. task[t].pc = "enter" => lobby_[t] \in Lobbies
      BY DEF SystemInv, IInv, HandlerOK
    <3>3. NoSeatFor(t)
      BY <1>9, <2>3
    <3>4. QED
      BY <2>1, <3>1, <3>2, <3>3 DEF NamesOK, NoSeatFor
  <2>4. QED
    BY <2>2, <2>3
<1>13. ViewsOK(s)'
  <2> SUFFICES ASSUME Listens(s)' PROVE ViewsOK(s)'
    BY DEF ViewsOK
  <2>1. playerId[s] = Null /\ conn[s] = "open"
    BY <1>3, <1>7, <1>8 DEF Listens
  <2>2. out[s] = <<>> /\ DOMAIN net[s].players = {}
    BY <1>7, <2>1 DEF AddressedOK
  <2>3. out'[s] = <<m>>
    BY <1>5, <2>1, <2>2
  <2>4. \A k \in DOMAIN <<m>> : ~IsUpdate(<<m>>[k])
    BY <1>2
  <2>5. Growing(net[s], <<m>>, R)
    BY <2>2, <2>4 DEF Growing, Before
  <2>6. Announced(s)'
    BY <1>2, <1>3, <1>4, NullIsNothing DEF Announced
  <2>7. QED
    BY <1>3, <1>4, <2>3, <2>5, <2>6 DEF ViewsOK, Growing
<1>14. ASSUME NEW t \in Sessions, t # s PROVE ViewsOK(t)'
  <2> SUFFICES ASSUME Listens(t)' PROVE ViewsOK(t)'
    BY DEF ViewsOK
  <2>1. Untouched(t)
    BY <1>10, <1>14
  <2>2. Listens(t) /\ ViewsOK(t) /\ RequestOK(t)
    BY <1>7, <2>1 DEF Listens, NoneSingled, Untouched, SystemInv
  <2>3. /\ lobby_[t] \in Lobbies
        /\ playerId[t] \in DOMAIN players[lobby_[t]]
    <3>1. Seated(t) /\ conn[t] # "gone"
      BY <2>2 DEF RequestOK, Listens
    <3>2. QED
      BY <3>1 DEF Seated
  <2>4. CASE lobby_[t] # l
    <3>1. players'[lobby_[t]] = players[lobby_[t]]
      BY <1>4, <2>3, <2>4
    <3>2. StillAnnounced(t)
      <4>1. ASSUME writer[lobby_[t]] # Null
            PROVE  /\ writer'[lobby_[t]] = writer[lobby_[t]]
                   /\ task'[writer[lobby_[t]]] = task[writer[lobby_[t]]]
        <5>1. /\ writer[lobby_[t]] \in Sessions
              /\ task[writer[lobby_[t]]].pc = "post"
          BY <2>3, <4>1, WriterPosts DEF SystemInv
        <5>2. QED
          BY <1>1, <1>4, <2>3, <2>4, <5>1
      <4>2. QED
        BY <4>1 DEF StillAnnounced
    <3>3. QED
      BY <1>7, <2>1, <2>2, <3>1, <3>2, SameViews DEF Untouched
  <2>5. CASE lobby_[t] = l
    <3>1. /\ lobby_'[t] = l /\ players'[l] = R /\ out'[t] = out[t] /\ net'[t] = net[t]
          /\ playerId'[t] = playerId[t]
      BY <1>4, <2>1, <2>5 DEF Untouched
    <3>2. Announced(t)'
      BY <1>2, <1>4, <2>3, <2>5, <3>1, NullIsNothing DEF Announced
    <3>3. Growing(net[t], out[t], L)
      BY <2>2, <2>5 DEF ViewsOK, Growing
    <3>4. Growing(net[t], out[t], R)
      BY <1>9, <3>3, BeforeIsTransitive DEF Growing
    <3>5. QED
      BY <3>1, <3>2, <3>4 DEF ViewsOK, Growing
  <2>6. QED
    BY <2>4, <2>5
<1>15. LobbiesOK' /\ ClientsOK' /\ OnlyFullLobbyAborts'
  <2>1. LobbiesOK /\ ClientsOK /\ l \in names
    BY <1>1, <1>7, NullIsNothing DEF SystemInv, NamesOK
  <2>2. \A k \in Lobbies : DOMAIN players[k] # {} => DOMAIN players'[k] # {}
    BY <1>9 DEF Before
  <2>3. LobbiesOK'
    BY <1>3, <1>4, <2>1, <2>2 DEF LobbiesOK
  <2>4. QED
    BY <1>1, <1>3, <2>1, <2>3 DEF ClientsOK, OnlyFullLobbyAborts
<1>16. QED
  BY <1>6, <1>10, <1>11, <1>12, <1>13, <1>14, <1>15 DEF SystemInv, OwnInv

\* An update is the list as it is, and a message is posted when all that are in
\* the lobby have been told of its author: its handler shares the mutex, so no
\* writer is left with somebody to tell.
LEMMA PostNextSystem ==
    ASSUME SystemInv, NEW s \in Sessions, PostNext(s), UNCHANGED clientVars
    PROVE  SystemInv'
<1> DEFINE l == lobby_[s]
           L == players[l]
           m == task[s].msg
           todo == task[s].todo
<1> USE SystemTypes
<1>1. PICK id \in todo :
          /\ Send(L[id], m)
          /\ task' = [task EXCEPT ![s].todo = @ \ {id}]
  BY DEF PostNext
<1> DEFINE q == L[id]
<1>2. /\ UNCHANGED <<conn, strand, lobby_, playerId, players, writer, readers, names,
                     aborted>>
      /\ UNCHANGED <<net, sendQueue, sent>>
      /\ task[s].pc = "post" /\ ~aborted
  BY DEF PostNext, At, sessionVars, lobbyVars, mutexVars, clientVars
<1>3. /\ l \in Lobbies /\ l # Null /\ L \in Rosters(Sessions)
      /\ id \in DOMAIN L /\ q \in Sessions
      /\ m \in Messages
  <2>1. l \in Lobbies
    BY <1>2, PostingLocks DEF SystemInv
  <2>2. todo \subseteq DOMAIN L /\ m \in Messages
    BY <1>2 DEF SystemInv, IInv, IterationSafe, HandlerOK
  <2>3. L \in Rosters(Sessions)
    BY <2>1
  <2>4. L \in [DOMAIN L -> Sessions]
    BY <2>3, RosterSize
  <2>5. QED
    BY <1>1, <2>1, <2>2, <2>3, <2>4, NullIsNothing
<1>4. /\ playerId[s] # Null
      /\ conn[s] # "gone"
      /\ \/ m = Update(l, L)
         \/ /\ m = Relay(l, playerId[s], s, task[s].req.data)
            /\ s \in readers[l]
            /\ playerId[s] \notin todo
  <2>1. RequestsOK(s)
    BY DEF SystemInv
  <2>2. QED
    BY <1>2, <2>1 DEF RequestsOK
<1>5. /\ m.type # "lobbyJoined"
      /\ IsUpdate(m) => m.players = L
      /\ IsRelay(m) => /\ m.author = s /\ m.id = playerId[s]
                       /\ s \in readers[l]
                       /\ playerId[s] \notin todo
      /\ IsUpdate(m) \/ IsRelay(m)
      /\ s \notin readers[l] => IsUpdate(m)
  BY <1>4 DEF Update, Relay, IsUpdate, IsRelay
<1>6. /\ task'[s].pc = "post" /\ task'[s].req = task[s].req /\ task'[s].msg = m
      /\ task'[s].todo = todo \ {id}
      /\ \A t \in Sessions \ {s} : task'[t] = task[t]
  BY <1>1, <1>2 DEF Tasks
<1>7. ASSUME NEW t \in Sessions
      PROVE  /\ out[t] \in Seq(Messages)
             /\ \A k \in DOMAIN out'[t] :
                    \/ k \in DOMAIN out[t] /\ out'[t][k] = out[t][k]
                    \/ /\ t = q /\ conn[q] = "open"
                       /\ k = Len(out[t]) + 1 /\ out'[t][k] = m
             /\ \A k \in DOMAIN out[t] : k \in DOMAIN out'[t] /\ out'[t][k] = out[t][k]
             /\ t = q /\ conn[q] = "open" =>
                    \E k \in DOMAIN out'[t] : out'[t][k] = m
             /\ out[t] # <<>> => out'[t] # <<>> /\ out'[t][1] = out[t][1]
             /\ out'[t] # <<>> => out[t] # <<>> \/ (t = q /\ conn[q] = "open")
  <2>1. out[t] \in Seq(Messages)
    OBVIOUS
  <2>2. CASE t = q /\ conn[q] = "open"
    <3>1. out'[t] = Append(out[t], m)
      BY <1>1, <2>2 DEF Send
    <3> HIDE DEF m, q
    <3>2. /\ DOMAIN out'[t] = 1 .. Len(out[t]) + 1 /\ out'[t] # <<>>
          /\ \A i \in DOMAIN out[t] : i \in DOMAIN out'[t] /\ out'[t][i] = out[t][i]
          /\ \A i \in DOMAIN out'[t] :
                 \/ i \in DOMAIN out[t] /\ out'[t][i] = out[t][i]
                 \/ i = Len(out[t]) + 1 /\ out'[t][i] = m
          /\ out'[t][Len(out[t]) + 1] = m
          /\ out[t] # <<>> => 1 \in DOMAIN out[t] /\ out'[t][1] = out[t][1]
      BY <1>3, <2>1, <3>1, AppendedStream, SMTT(30)
    <3>3. Len(out[t]) + 1 \in DOMAIN out'[t]
      BY <2>1, <3>2
    <3>4. QED
      BY <2>1, <2>2, <3>2, <3>3
  <2>3. CASE t # q \/ conn[q] # "open"
    <3>1. out'[t] = out[t]
      BY <1>1, <2>3 DEF Send
    <3>2. QED
      BY <2>1, <2>3, <3>1
  <2>4. QED
    BY <2>2, <2>3
<1> HIDE DEF m, q
<1>8. IInv'
  BY HandleInv DEF Handle, SystemInv
<1>9. \A t \in Sessions : /\ AtMostOne(t)' = AtMostOne(t)
                          /\ Listens(t)' = Listens(t)
  BY <1>2 DEF AtMostOne, Listens
<1>10. ASSUME NEW t \in Sessions, Listens(t)
       PROVE  /\ lobby_[t] \in Lobbies
              /\ playerId[t] \in DOMAIN players[lobby_[t]]
              /\ players[lobby_[t]][playerId[t]] = t
              /\ t = q => lobby_[t] = l /\ playerId[t] = id
  <2>1. Seated(t) /\ conn[t] # "gone"
    BY <1>10 DEF SystemInv, RequestOK, Listens
  <2>2. lobby_[t] # Null /\ lobby_[t] \in Lobbies
    BY <2>1 DEF Seated
  <2>3. t = q => L[id] = t
    BY DEF q
  <2>4. QED
    BY <1>3, <2>1, <2>2, <2>3 DEF Seated
<1>11. ASSUME NEW t \in Sessions PROVE RequestsOK(t)' /\ AddressedOK(t)' /\ RequestOK(t)'
  <2>1. /\ task'[t].pc = task[t].pc /\ task'[t].req = task[t].req
        /\ task'[t].msg = task[t].msg
        /\ task'[t].todo \subseteq task[t].todo
    BY <1>2, <1>6 DEF m
  <2>2. RequestsOK(t)'
    <3>1. RequestsOK(t) /\ \A r : Asks(r)' <=> Asks(r)
      BY <1>2 DEF SystemInv, Asks
    <3>2. QED
      BY <1>2, <2>1, <3>1 DEF RequestsOK
  <2>3. AddressedOK(t)'
    <3>1. AddressedOK(t)
      BY DEF SystemInv
    <3>2. t = q => playerId[t] # Null
      <4>1. t = q => L[id] = t
        BY DEF q
      <4>2. QED
        BY <1>3, <3>1, <4>1 DEF AddressedOK
    <3>3. out'[t] # <<>> => playerId[t] # Null /\ conn[t] = "open"
      BY <1>7, <3>1, <3>2 DEF AddressedOK
    <3>4. QED
      BY <1>2, <3>1, <3>3 DEF AddressedOK
  <2>4. RequestOK(t)'
    <3>1. Seated(t)' = Seated(t) /\ Underway(t)' = Underway(t)
      BY <1>2, <2>1 DEF Seated, Underway
    <3>2. RequestOK(t)
      BY DEF SystemInv
    <3>3. QED
      BY <1>2, <1>9, <3>1, <3>2 DEF RequestOK
  <2>5. QED
    BY <2>2, <2>3, <2>4
<1>12. ASSUME NEW t \in Sessions PROVE NamesOK(t)' /\ AnswersOK(t)'
  <2>1. \A k \in DOMAIN out'[t] : out'[t][k].type = "lobbyJoined" =>
            k \in DOMAIN out[t] /\ out'[t][k] = out[t][k]
    BY <1>5, <1>7
  <2>2. NamesOK(t) /\ AnswersOK(t)
    BY DEF SystemInv
  <2>3. NamesOK(t)'
    <3>1. \A u \in Sessions : /\ task'[u].pc = task[u].pc
                              /\ task'[u].req = task[u].req
      BY <1>2, <1>6
    <3>2. UNCHANGED <<lobby_, names, players>>
      BY <1>2
    <3>3. QED
      BY <2>2, <3>1, <3>2 DEF NamesOK
  <2>4. AnswersOK(t)'
    <3> SUFFICES ASSUME Listens(t)
                 PROVE  /\ \A k \in DOMAIN out'[t] : out'[t][k].type = "lobbyJoined" =>
                               out'[t][k] = Joined(lobby_[t], playerId[t])
                        /\ \/ net[t].lobbyId = lobby_[t] /\ net[t].playerId = playerId[t]
                           \/ out'[t] # <<>> /\ out'[t][1].type = "lobbyJoined"
      BY <1>2, <1>9 DEF AnswersOK
    <3>1. QED
      BY <1>7, <2>1, <2>2 DEF AnswersOK
  <2>5. QED
    BY <2>3, <2>4
<1>13. ASSUME NEW t \in Sessions,
              NEW k \in DOMAIN out'[t], NEW a \in Sessions, a = out'[t][k].author,
              IsRelay(out'[t][k]), AtMostOne(t), AtMostOne(a)
       PROVE  /\ a # t
              /\ \/ Knows(net[t].players, out'[t][k].id, a)
                 \/ \E j \in 1 .. k - 1 :
                        /\ IsUpdate(out'[t][j])
                        /\ Knows(out'[t][j].players, out'[t][k].id, a)
  <2>1. CASE k \in DOMAIN out[t] /\ out'[t][k] = out[t][k]
    <3>1. /\ a # t
          /\ \/ Knows(net[t].players, out[t][k].id, a)
             \/ \E j \in 1 .. k - 1 :
                    /\ IsUpdate(out[t][j])
                    /\ Knows(out[t][j].players, out[t][k].id, a)
      BY <1>13, <2>1 DEF SystemInv, AuthorsOK
    <3>2. \A j \in 1 .. k - 1 : j \in DOMAIN out[t]
      BY <1>7, <2>1
    <3>3. \A j \in 1 .. k - 1 : out'[t][j] = out[t][j]
      BY <1>7, <3>2
    <3>4. QED
      BY <2>1, <3>1, <3>3
  <2>2. CASE /\ t = q /\ conn[q] = "open"
             /\ k = Len(out[t]) + 1 /\ out'[t][k] = m
    <3>1. /\ a = s /\ out'[t][k].id = playerId[s] /\ s \in readers[l]
          /\ playerId[s] \notin todo
      BY <1>5, <1>13, <2>2
    <3>2. Listens(t)
      <4>1. playerId[t] # Null
        BY <1>2, <1>11, <1>13, <2>2 DEF AddressedOK
      <4>2. QED
        BY <1>13, <2>2, <4>1 DEF Listens
    <3>3. lobby_[t] = l /\ playerId[t] = id
      BY <1>10, <2>2, <3>2
    <3>4. a # t
      BY <1>1, <3>1, <3>3
    <3>5. Knows(L, playerId[s], s)
      <4>1. Seated(s)
        BY <1>4, <1>13, <3>1 DEF SystemInv, RequestOK
      <4>2. QED
        BY <1>4, <4>1 DEF Seated, Knows
    <3>6. writer[l] = Null
      BY <1>3, <3>1, WriterPosts DEF SystemInv
    <3>7. \/ net[t].players = L
          \/ \E j \in DOMAIN out[t] : IsUpdate(out[t][j]) /\ out[t][j].players = L
      BY <3>2, <3>3, <3>6 DEF SystemInv, ViewsOK, Announced
    <3>8. \A j \in DOMAIN out[t] : j \in 1 .. k - 1 /\ out'[t][j] = out[t][j]
      BY <1>7, <2>2
    <3>9. CASE net[t].players = L
      BY <3>1, <3>4, <3>5, <3>9
    <3>10. ASSUME NEW j \in DOMAIN out[t], IsUpdate(out[t][j]), out[t][j].players = L
           PROVE  \E i \in 1 .. k - 1 :
                      /\ IsUpdate(out'[t][i])
                      /\ Knows(out'[t][i].players, out'[t][k].id, a)
      <4>1. j \in 1 .. k - 1 /\ out'[t][j] = out[t][j]
        BY <3>8
      <4>2. IsUpdate(out'[t][j]) /\ Knows(out'[t][j].players, out'[t][k].id, a)
        BY <3>1, <3>5, <3>10, <4>1
      <4>3. QED
        BY <4>1, <4>2
    <3>11. QED
      BY <3>4, <3>7, <3>9, <3>10
  <2>3. QED
    BY <1>7, <1>13, <2>1, <2>2
<1>14. ASSUME NEW t \in Sessions PROVE AuthorsOK(t)'
  <2>1. ASSUME NEW k \in DOMAIN out'[t], IsRelay(out'[t][k])
        PROVE  out'[t][k].author \in Sessions
    <3>1. out'[t][k] \in Messages
      <4>1. \A i \in DOMAIN out[t] : out[t][i] \in Messages
        BY <1>7
      <4>2. \/ k \in DOMAIN out[t] /\ out'[t][k] = out[t][k]
            \/ out'[t][k] = m
        BY <1>7
      <4>3. QED
        BY <1>3, <4>1, <4>2
    <3>2. QED
      BY <2>1, <3>1, RelayFields
  <2>2. QED
    BY <1>2, <1>9, <1>13, <2>1 DEF AuthorsOK
<1>15. ASSUME NEW t \in Sessions PROVE ViewsOK(t)'
  <2> SUFFICES ASSUME Listens(t) PROVE ViewsOK(t)'
    BY <1>9 DEF ViewsOK
  <2> DEFINE P == players[lobby_[t]]
  <2>1. Growing(net[t], out[t], P) /\ Announced(t)
    BY DEF SystemInv, ViewsOK, Growing
  <2>2. t = q => P = L
    BY <1>10
  <2>3. Growing(net[t], out'[t], P)
    <3> SUFFICES ASSUME NEW k \in DOMAIN out'[t], IsUpdate(out'[t][k])
                 PROVE  /\ Before(net[t].players, out'[t][k].players)
                        /\ Before(out'[t][k].players, P)
                        /\ \A j \in 1 .. k - 1 : IsUpdate(out'[t][j]) =>
                               Before(out'[t][j].players, out'[t][k].players)
      BY <2>1 DEF Growing
    <3> HIDE DEF P
    <3>1. \A j \in 1 .. k - 1 : j \in DOMAIN out[t] /\ out'[t][j] = out[t][j]
      <4>1. out[t] \in Seq(Messages) /\ (k \in DOMAIN out[t] \/ k = Len(out[t]) + 1)
        BY <1>7
      <4>2. \A j \in 1 .. k - 1 : j \in DOMAIN out[t]
        BY <4>1
      <4>3. QED
        BY <1>7, <4>2
    <3>2. CASE k \in DOMAIN out[t] /\ out'[t][k] = out[t][k]
      BY <2>1, <3>1, <3>2 DEF Growing
    <3>3. CASE t = q /\ out'[t][k] = m
      <4>1. out'[t][k].players = P
        BY <1>5, <2>2, <3>3
      <4>2. QED
        BY <2>1, <3>1, <4>1, BeforeItself DEF Growing
    <3>4. QED
      BY <1>7, <3>2, <3>3
  <2>4. Announced(t)'
    <3>1. \/ net[t].players = P
          \/ \E k \in DOMAIN out'[t] : IsUpdate(out'[t][k]) /\ out'[t][k].players = P
          \/ writer[lobby_[t]] # Null /\ playerId[t] \in task'[writer[lobby_[t]]].todo
      <4>1. CASE net[t].players = P
        BY <4>1
      <4>2. ASSUME NEW k \in DOMAIN out[t], IsUpdate(out[t][k]), out[t][k].players = P
            PROVE  \E h \in DOMAIN out'[t] : IsUpdate(out'[t][h]) /\ out'[t][h].players = P
        BY <1>7, <4>2
      <4>3. CASE writer[lobby_[t]] # Null /\ playerId[t] \in task[writer[lobby_[t]]].todo
        <5> DEFINE w == writer[lobby_[t]]
        <5>1. w \in Sessions /\ lobby_[w] = lobby_[t] /\ readers[lobby_[t]] = {}
          BY <1>10, <4>3, WriterPosts DEF SystemInv
        <5>2. CASE w # s
          BY <1>6, <4>3, <5>1, <5>2
        <5>3. CASE w = s /\ playerId[t] # id
          BY <1>6, <4>3, <5>3
        <5>4. CASE w = s /\ playerId[t] = id
          <6>1. lobby_[t] = l /\ s \notin readers[l]
            BY <5>1, <5>4
          <6>2. t = q
            BY <1>10, <5>4, <6>1 DEF q
          <6>3. conn[q] = "open" /\ IsUpdate(m) /\ m.players = P
            BY <1>5, <6>1, <6>2 DEF Listens
          <6>4. PICK k \in DOMAIN out'[t] : out'[t][k] = m
            BY <1>7, <6>2, <6>3
          <6>5. QED
            BY <6>3, <6>4
        <5>5. QED
          BY <5>2, <5>3, <5>4
      <4>4. QED
        BY <2>1, <4>1, <4>2, <4>3 DEF Announced
    <3>2. QED
      BY <1>2, <3>1 DEF Announced
  <2>5. QED
    BY <1>2, <2>3, <2>4 DEF ViewsOK, Growing
<1>16. LobbiesOK' /\ ClientsOK' /\ OnlyFullLobbyAborts'
  BY <1>2 DEF SystemInv, LobbiesOK, ClientsOK, OnlyFullLobbyAborts
<1>17. QED
  BY <1>8, <1>11, <1>12, <1>14, <1>15, <1>16 DEF SystemInv
-----------------------------------------------------------------------------
(* The invariant of the system                                             *)

LEMMA SystemInitInv == SystemInit => SystemInv
<1> SUFFICES ASSUME SystemInit PROVE SystemInv
  OBVIOUS
<1>1. IInv
  BY InitInv DEF SystemInit
<1>2. /\ \A s \in Sessions : /\ conn[s] = "open" /\ strand[s] = <<>>
                             /\ task[s] = Idle /\ lobby_[s] = Null
                             /\ playerId[s] = Null /\ out[s] = <<>>
      /\ players = [l \in Lobbies |-> EmptyRoster]
      /\ aborted = FALSE
  BY DEF SystemInit, Init
<1>3. /\ net = [s \in Sessions |->
                   [lobbyId |-> Null, playerId |-> Null, players |-> EmptyRoster]]
      /\ sendQueue = [s \in Sessions |-> <<>>]
      /\ sent = [s \in Sessions |-> <<>>]
  BY DEF SystemInit, ClientInit
<1>4. EmptyRoster \in Rosters(Sessions) /\ DOMAIN EmptyRoster = {}
  BY EmptyRosterType DEF EmptyRoster
<1>5. ClientsOK
  BY <1>3, <1>4 DEF ClientsOK, Nets
<1>6. LobbiesOK
  BY <1>2, <1>3, <1>4 DEF LobbiesOK
<1>7. ASSUME NEW s \in Sessions
      PROVE  /\ RequestsOK(s) /\ NamesOK(s) /\ AddressedOK(s) /\ RequestOK(s)
             /\ ViewsOK(s) /\ AnswersOK(s) /\ AuthorsOK(s)
  <2>1. /\ task[s].pc = "idle" /\ strand[s] = <<>> /\ out[s] = <<>>
        /\ sendQueue[s] = <<>> /\ sent[s] = <<>>
        /\ conn[s] = "open" /\ playerId[s] = Null /\ lobby_[s] = Null
        /\ net[s].lobbyId = Null /\ DOMAIN net[s].players = {}
        /\ \A l \in Lobbies : DOMAIN players[l] = {}
    BY <1>2, <1>3, <1>4 DEF Idle
  <2>2. RequestsOK(s) /\ NamesOK(s) /\ AddressedOK(s) /\ AuthorsOK(s)
    BY <2>1 DEF RequestsOK, NamesOK, AddressedOK, AuthorsOK
  <2>3. ~Listens(s)
    BY <2>1 DEF Listens
  <2>4. RequestOK(s)
    BY <2>1 DEF RequestOK, Underway
  <2>5. QED
    BY <2>2, <2>3, <2>4 DEF ViewsOK, AnswersOK
<1>8. QED
  BY <1>1, <1>2, <1>5, <1>6, <1>7 DEF SystemInv, OnlyFullLobbyAborts

LEMMA HandleSystem ==
    ASSUME SystemInv, NEW s \in Sessions, Handle(s), UNCHANGED clientVars
    PROVE  SystemInv'
<1>1. ~FailPlayerIdAssert(s) /\ ~FailRemoveAssert(s)
  BY AssertionsHold
<1>2. ~LeaveLobby(s) /\ ~ResetLobby(s) /\ ~SetLobbyLocked(s)
      /\ ~EncodeLobbyUpdate(s) /\ ~Respond(s)
  BY NeverCalled
<1>3. CASE IgnoreMessage(s)
  BY <1>3, IgnoreMessageSystem
<1>4. CASE StartHandler(s)
  BY <1>4, StartHandlerSystem
<1>5. CASE LockContext(s)
  BY <1>5, LockContextSystem
<1>6. CASE CreateLobby(s)
  BY <1>6, CreateLobbySystem
<1>7. CASE GetLobby(s)
  BY <1>7, GetLobbySystem
<1>8. CASE EnterLobby(s)
  BY <1>8, EnterLobbySystem
<1>9. CASE RejectJoin(s)
  BY <1>9, RejectJoinSystem
<1>10. CASE RelayMessage(s)
  BY <1>10, RelayMessageSystem
<1>11. CASE PostNext(s)
  BY <1>11, PostNextSystem
<1>12. CASE Unlock(s)
  BY <1>12, UnlockSystem
<1>13. CASE FailSizeAssert(s)
  BY <1>13, FailSizeAssertSystem
<1>14. QED
  BY <1>1, <1>2, <1>3, <1>4, <1>5, <1>6, <1>7, <1>8, <1>9, <1>10, <1>11, <1>12, <1>13
  DEF Handle

LEMMA SystemNextInv ==
    ASSUME SystemInv, [SystemNext]_allVars
    PROVE  SystemInv'
<1>1. ASSUME NEW s \in Sessions, NEW r \in Requests, Press(s, r) \/ Say(s, r)
      PROVE  SystemInv'
  BY <1>1, PressSystem, SaySystem
<1>2. ASSUME NEW s \in Sessions, PressJ(s) \/ Frame(s) PROVE SystemInv'
  BY <1>2, PressJOrFrameSystem
<1>3. ASSUME NEW s \in Sessions, Transmit(s) PROVE SystemInv'
  BY <1>3, TransmitSystem
<1>4. ASSUME NEW s \in Sessions, Tick(s) PROVE SystemInv'
  BY <1>4, TickSystem
<1>5. ASSUME NEW s \in Sessions, Quit(s) PROVE SystemInv'
  BY <1>5, HangUpSystem DEF Quit
<1>6. ASSUME NEW s \in Sessions, Server(s) PROVE SystemInv'
  BY <1>6, HandleSystem, DestroySystem DEF Server
<1>7. ASSUME UNCHANGED allVars PROVE SystemInv'
  <2>1. /\ UNCHANGED <<conn, strand, task, lobby_, playerId, out, players, locked,
                       writer, readers, names, aborted, received>>
        /\ UNCHANGED <<net, sendQueue, sent>>
    BY <1>7 DEF allVars, vars, clientVars
  <2>2. IInv' = IInv
    BY <2>1 DEF IInv, TypeOK, HandlerOK, MutexOK, IterationSafe
  <2>3. OnlyFullLobbyAborts'
    BY <2>1 DEF SystemInv, OnlyFullLobbyAborts
  <2>4. QED
    BY <2>1, <2>2, <2>3, NothingMoves DEF SystemInv
<1>8. CASE Stopped /\ UNCHANGED clientVars
  BY <1>7, <1>8 DEF Stopped, allVars
<1>9. ASSUME NEW s \in Sessions, DrawAgain(s) PROVE SystemInv'
  BY <1>7, <1>9 DEF DrawAgain, DrawUsedName, allVars
<1>10. QED
  BY <1>1, <1>2, <1>3, <1>4, <1>5, <1>6, <1>7, <1>8, <1>9 DEF SystemNext

\* Whatever the players press and whichever thread is next, every part of the
\* invariant holds: what is under way for each client, who is seated where, and
\* which lists and messages are in the streams.
THEOREM SystemInvariance == System => []SystemInv
<1>1. SystemInit => SystemInv
  BY SystemInitInv
<1>2. SystemInv /\ [SystemNext]_allVars => SystemInv'
  BY SystemNextInv
<1>3. QED
  BY <1>1, <1>2, PTL DEF System
-----------------------------------------------------------------------------
(* What follows from it                                                    *)

\* The server's assertions but one hold: the requests of these clients come in
\* an order that gives every handler the playerId it asserts.  What is left is
\* the creator whose lobby others have filled, knowing or guessing its name,
\* between createLobby and the lock in processCreateLobby.
THEOREM OnlyCreatorsAbort == System => []OnlyFullLobbyAborts
<1>1. SystemInv => OnlyFullLobbyAborts
  BY DEF SystemInv
<1>2. QED
  BY <1>1, SystemInvariance, PTL

LEMMA SingleAsksOnce ==
    ASSUME NEW s, Single(s)
    PROVE  AtMostOne(s)
BY DEF Single, AtMostOne

\* A connection with a playerId sits on the seat of its playerId in its lobby,
\* and on no other: processCreateLobby and processJoinLobby seat it once.
THEOREM SeatIsOwn == System => []OwnSeat
<1>1. ASSUME SystemInv PROVE OwnSeat
  <2> SUFFICES ASSUME NEW s \in Sessions, Single(s), conn[s] = "open", playerId[s] # Null
               PROVE  {seat \in Lobbies \X Ids : /\ seat[2] \in DOMAIN players[seat[1]]
                                                 /\ players[seat[1]][seat[2]] = s}
                      = {<<lobby_[s], playerId[s]>>}
    BY DEF OwnSeat
  <2> DEFINE Taken(seat) == /\ seat[2] \in DOMAIN players[seat[1]]
                            /\ players[seat[1]][seat[2]] = s
  <2>1. Seated(s)
    BY <1>1, SingleAsksOnce DEF SystemInv, RequestOK
  <2>2. lobby_[s] \in Lobbies /\ playerId[s] \in Ids
    BY <1>1, <2>1, SystemTypes DEF Seated
  <2>3. Taken(<<lobby_[s], playerId[s]>>)
    BY <2>1 DEF Seated
  <2>4. ASSUME NEW l \in Lobbies, NEW i \in Ids, Taken(<<l, i>>)
        PROVE  l = lobby_[s] /\ i = playerId[s]
    BY <2>1, <2>4 DEF Seated
  <2> HIDE DEF Taken
  <2>5. \A seat \in Lobbies \X Ids : Taken(seat) => seat = <<lobby_[s], playerId[s]>>
    BY <2>4
  <2>6. {seat \in Lobbies \X Ids : Taken(seat)} = {<<lobby_[s], playerId[s]>>}
    BY <2>2, <2>3, <2>5
  <2>7. QED
    BY <2>6 DEF Taken
<1>2. QED
  BY <1>1, SystemInvariance, PTL

\* When nothing is under way for a client any more, net.lua holds the players of
\* its lobby: sendToAll leaves nobody with an older list.
THEOREM ViewsAreCurrent == System => []ViewCurrent
<1>1. ASSUME SystemInv PROVE ViewCurrent
  <2> SUFFICES ASSUME NEW s \in Sessions, Single(s), Running(s), playerId[s] # Null,
                      out[s] = <<>>,
                      \A t \in Sessions : task[t].pc = "post" => lobby_[t] # lobby_[s]
               PROVE  net[s] = [lobbyId |-> lobby_[s], playerId |-> playerId[s],
                                players |-> players[lobby_[s]]]
    BY DEF ViewCurrent
  <2>1. Listens(s) /\ Seated(s)
    BY <1>1, SingleAsksOnce DEF SystemInv, RequestOK, Listens, Running
  <2>2. lobby_[s] \in Lobbies
    BY <1>1, <2>1, SystemTypes DEF Seated, Listens
  <2>3. writer[lobby_[s]] = Null
    BY <1>1, <2>2, WriterPosts DEF SystemInv
  <2>4. net[s].players = players[lobby_[s]]
    BY <1>1, <2>1, <2>3 DEF SystemInv, ViewsOK, Announced
  <2>5. net[s].lobbyId = lobby_[s] /\ net[s].playerId = playerId[s]
    BY <1>1, <2>1 DEF SystemInv, AnswersOK
  <2>6. net[s] \in Nets
    BY <1>1, SystemTypes
  <2>7. QED
    BY <2>4, <2>5, <2>6 DEF Nets
<1>2. QED
  BY <1>1, SystemInvariance, PTL

\* A relayed message comes to a client after an update with its author:
\* addPlayer, sendToAll and the relays share the lobby's mutex.
THEOREM AuthorsAreKnown == System => []KnownAuthor
<1>1. ASSUME SystemInv PROVE KnownAuthor
  <2> SUFFICES ASSUME NEW s \in Sessions, NEW k \in DOMAIN out[s], IsRelay(out[s][k]),
                      Single(s), Single(out[s][k].author)
               PROVE  /\ out[s][k].author # s
                      /\ Knows(HandleMessages(k, net[s], out[s]).players,
                               out[s][k].id, out[s][k].author)
    BY DEF KnownAuthor, IsRelay, Knows
  <2> DEFINE m == out[s][k]
             N == HandleMessages(k, net[s], out[s])
  <2>1. out[s] \in Seq(Messages) /\ k \in 1 .. Len(out[s]) /\ net[s] \in Nets
        /\ out[s] # <<>>
    BY <1>1, SystemTypes
  <2>2. Listens(s) /\ Seated(s)
    BY <1>1, <2>1, SingleAsksOnce DEF SystemInv, AddressedOK, RequestOK, Listens
  <2>3. players[lobby_[s]] \in Rosters(Sessions)
    BY <1>1, <2>2, SystemTypes DEF Seated, Listens
  <2>4. Growing(net[s], out[s], players[lobby_[s]])
    BY <1>1, <2>2 DEF SystemInv, ViewsOK, Growing
  <2>5. /\ Before(net[s].players, N.players)
        /\ \A i \in 1 .. k : IsUpdate(out[s][i]) => Before(out[s][i].players, N.players)
    BY <2>1, <2>3, <2>4, ReceivedViews
  <2> HIDE DEF N
  <2>6. /\ m.author # s
        /\ \/ Knows(net[s].players, m.id, m.author)
           \/ \E j \in 1 .. k - 1 :
                  /\ IsUpdate(out[s][j])
                  /\ Knows(out[s][j].players, m.id, m.author)
    BY <1>1, SingleAsksOnce DEF SystemInv, AuthorsOK
  <2>7. Knows(N.players, m.id, m.author)
    <3>1. CASE Knows(net[s].players, m.id, m.author)
      BY <2>5, <3>1, KnownLater
    <3>2. ASSUME NEW j \in 1 .. k - 1, IsUpdate(out[s][j]),
                 Knows(out[s][j].players, m.id, m.author)
          PROVE  Knows(N.players, m.id, m.author)
      <4>1. j \in 1 .. k
        BY <2>1
      <4>2. Before(out[s][j].players, N.players)
        BY <2>5, <3>2, <4>1
      <4>3. QED
        BY <3>2, <4>2, KnownLater
    <3>3. QED
      BY <2>6, <3>1, <3>2
  <2>8. QED
    BY <2>6, <2>7 DEF N
<1>2. QED
  BY <1>1, SystemInvariance, PTL

\* The first message that a client in waitForJoin is sent is lobbyJoined: the
\* answer is posted before the update, under the same lock.
THEOREM AnswerComesFirst == System => []AnswerFirst
<1>1. ASSUME SystemInv PROVE AnswerFirst
  <2> SUFFICES ASSUME NEW s \in Sessions, Single(s), net[s].lobbyId = Null, out[s] # <<>>
               PROVE  Head(out[s]).type = "lobbyJoined"
    BY DEF AnswerFirst
  <2>1. Listens(s) /\ Seated(s)
    BY <1>1, SingleAsksOnce DEF SystemInv, AddressedOK, RequestOK, Listens
  <2>2. lobby_[s] # Null
    BY <2>1 DEF Seated, Listens
  <2>3. out[s][1].type = "lobbyJoined"
    BY <1>1, <2>1, <2>2 DEF SystemInv, AnswersOK
  <2>4. Head(out[s]) = out[s][1]
    BY <1>1, SystemTypes
  <2>5. QED
    BY <2>3, <2>4
<1>2. QED
  BY <1>1, SystemInvariance, PTL
-----------------------------------------------------------------------------
(* The server of the system: what LobbySession promises holds under these  *)
(* clients too, which take messages out of the streams                     *)

\* A step is one of the server or of nobody, or a client receives.
LEMMA ServerOrTick ==
    ASSUME SystemInv, [SystemNext]_allVars
    PROVE  [Next]_vars \/ \E s \in Sessions : Tick(s)
<1>1. ASSUME NEW s \in Sessions, NEW r \in Requests, Press(s, r) \/ Say(s, r)
      PROVE  [Next]_vars
  BY <1>1 DEF Press, Say, Next
<1>2. ASSUME NEW s \in Sessions, PressJ(s) \/ Frame(s) PROVE [Next]_vars
  BY <1>2 DEF PressJ, Frame
<1>3. ASSUME NEW s \in Sessions, Transmit(s) PROVE [Next]_vars
  <2>1. sendQueue[s] \in Seq(Requests) /\ sendQueue[s] # <<>>
    BY <1>3, SystemTypes DEF Transmit
  <2>2. Head(sendQueue[s]) \in Requests
    BY <2>1
  <2>3. QED
    BY <1>3, <2>2 DEF Transmit, Next
<1>4. ASSUME NEW s \in Sessions, Quit(s) \/ Server(s) \/ DrawAgain(s) PROVE [Next]_vars
  BY <1>4 DEF Quit, Server, DrawAgain, Next
<1>5. CASE Stopped /\ UNCHANGED clientVars
  BY <1>5 DEF Next
<1>6. CASE UNCHANGED allVars
  BY <1>6 DEF allVars
<1>7. QED
  BY <1>1, <1>2, <1>3, <1>4, <1>5, <1>6 DEF SystemNext

\* A client that receives takes messages from the front of its stream, and
\* leaves the server's lists and locks and the handlers alone.
LEMMA TickLeavesServer ==
    ASSUME SystemInv, NEW s \in Sessions, Tick(s)
    PROVE  UNCHANGED <<conn, strand, task, lobby_, playerId, players, locked, writer,
                       readers, names, aborted, received>>
BY TickStep

\* What remains in the streams is in order, and older than what is still to be
\* relayed.
LEMMA ReceivedInOrder ==
    ASSUME SystemInv, OrderInv, NEW s \in Sessions, Tick(s)
    PROVE  OrderInv'
<1>1. PICK k \in 0 .. Len(out[s]) :
          /\ out' = [out EXCEPT ![s] = SubSeq(@, k + 1, Len(@))]
          /\ UNCHANGED <<strand, task, received>>
  BY TickStep
<1>2. out[s] \in Seq(Messages) /\ out \in [Sessions -> Seq(Messages)]
  BY SystemTypes
<1>3. /\ \A t \in Sessions \ {s} : out'[t] = out[t]
      /\ \A i \in DOMAIN out'[s] : i + k \in DOMAIN out[s] /\ out'[s][i] = out[s][i + k]
      /\ \A i \in DOMAIN out'[s] : i \in Nat
  <2>1. out'[s] = SubSeq(out[s], k + 1, Len(out[s]))
    BY <1>1, <1>2
  <2>2. QED
    BY <1>1, <1>2, <2>1, RestOfStream
<1>4. WaitingInOrder' /\ RelayingInOrder'
  BY <1>1 DEF OrderInv, WaitingInOrder, RelayingInOrder, Relaying, RelayedData
<1>5. (\A r \in Sessions : \A i \in DOMAIN out[r] :
           IsRelay(out[r][i]) => RelayedBefore(out[r][i].data, out[r][i].author))'
  <2> SUFFICES ASSUME NEW r \in Sessions, NEW i \in DOMAIN out'[r], IsRelay(out'[r][i])
               PROVE  RelayedBefore(out[r][i].data, out[r][i].author)'
    OBVIOUS
  <2>1. PICK j \in DOMAIN out[r] : out'[r][i] = out[r][j]
    BY <1>3
  <2>2. RelayedBefore(out[r][j].data, out[r][j].author)
    BY <2>1 DEF OrderInv
  <2>3. QED
    BY <1>1, <2>1, <2>2 DEF RelayedBefore, Relaying, RelayedData
<1>6. RelaysInOrder'
  <2> SUFFICES ASSUME NEW t \in Sessions, NEW i \in DOMAIN out'[t],
                      NEW j \in DOMAIN out'[t], i < j,
                      out'[t][i].type = "relayMessage", out'[t][j].type = "relayMessage",
                      out'[t][i].author = out'[t][j].author
               PROVE  out'[t][i].data <= out'[t][j].data
    BY DEF RelaysInOrder
  <2>1. CASE t # s
    BY <1>3, <2>1 DEF OrderInv, RelaysInOrder
  <2>2. CASE t = s
    <3>1. i + k < j + k
      BY <1>3, <2>2
    <3>2. QED
      BY <1>3, <2>2, <3>1 DEF OrderInv, RelaysInOrder
  <2>3. QED
    BY <2>1, <2>2
<1>7. QED
  BY <1>4, <1>5, <1>6 DEF OrderInv

\* What a player says, his votes or the master's data, waits for every other
\* player in the order in which he said it, although clients receive while
\* threads relay: the lobby scenes apply one message over the other.
THEOREM RelaysStayInOrder == System => []RelaysInOrder
<1>1. SystemInit => OrderInv
  BY OrderInit DEF SystemInit
<1>2. SystemInv /\ OrderInv /\ [SystemNext]_allVars => OrderInv'
  BY ServerOrTick, ReceivedInOrder, OrderNext DEF SystemInv
<1>3. OrderInv => RelaysInOrder
  BY DEF OrderInv
<1>4. QED
  BY <1>1, <1>2, <1>3, SystemInvariance, PTL DEF System

\* Under these clients, too, the list of every lobby is one of Seats.
THEOREM SystemListsAreSeats ==
    ASSUME NEW l \in Lobbies
    PROVE  System => SeatsOf(l)!Spec
<1>1. SystemInit => SeatsOf(l)!Init
  BY DEF SystemInit, Init, EmptyRoster, SeatsOf!Init, SeatsOf!EmptyRoster
<1>2. SystemInv /\ [SystemNext]_allVars => [SeatsOf(l)!Next]_(players[l])
  <2> SUFFICES ASSUME SystemInv, [SystemNext]_allVars
               PROVE  [SeatsOf(l)!Next]_(players[l])
    OBVIOUS
  <2>1. CASE [Next]_vars
    BY <2>1, SeatsStep DEF SystemInv
  <2>2. ASSUME NEW s \in Sessions, Tick(s) PROVE players'[l] = players[l]
    BY <2>2, TickLeavesServer
  <2>3. QED
    BY <2>1, <2>2, ServerOrTick
<1>3. QED
  BY <1>1, <1>2, SystemInvariance, PTL DEF System, SeatsOf!Spec

\* Nobody but its creator enters a lobby that its master locked, or a full one.
THEOREM LobbiesStayClosed == System => NoEntryWhenClosed
<1> DEFINE Step ==
        \A l \in Lobbies :
            locked[l] \/ Size(players[l]) = MaxPlayers =>
                \A i \in DOMAIN players'[l] \ DOMAIN players[l] :
                    task[players'[l][i]].req.type = "createLobby"
<1>1. SystemInv /\ [SystemNext]_allVars => Step
  <2> SUFFICES ASSUME SystemInv, [SystemNext]_allVars
               PROVE  Step
    OBVIOUS
  <2>1. CASE [Next]_vars
    BY <2>1, ClosedStep DEF SystemInv
  <2>2. ASSUME NEW s \in Sessions, Tick(s) PROVE Step
    <3>1. players' = players
      BY <2>2, TickLeavesServer
    <3>2. QED
      BY <3>1
  <2>3. QED
    BY <2>1, <2>2, ServerOrTick
<1>2. QED
  BY <1>1, SystemInvariance, PTL DEF System, NoEntryWhenClosed
=============================================================================

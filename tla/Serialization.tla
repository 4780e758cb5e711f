--------------------------- MODULE Serialization ----------------------------
(***************************************************************************)
(* The messages as bytes: BufferWriter and BufferReader of the server, the *)
(* writer and the reader of net.lua, and what both sides put into the      *)
(* messages.  A byte is a number below Base, so that a small Base brings   *)
(* the sizes a byte can hold within reach.                                 *)
(***************************************************************************)
EXTENDS IdOrder

CONSTANT Base   \* 256

ASSUME BaseAssumption == Base \in Nat /\ Base > 11   \* the largest type is 11

Byte == 0 .. Base - 1

\* MessageType and msgTypes
MessageType == [createLobby |-> 0, joinLobby |-> 2, lobbyJoined |-> 3,
    leaveLobby |-> 4, lockLobby |-> 5, unlockLobby |-> 6, sendMessage |-> 7,
    relayMessage |-> 8, requestLobbyUpdate |-> 9, updateLobby |-> 10,
    heartbeat |-> 11]
-----------------------------------------------------------------------------
(* BufferWriter and BufferReader                                           *)

\* An integer shifted to the right by up to w bytes, and what the first bytes of
\* a sequence mean.
Shifted(w, val) ==
    LET shifted[i \in 0 .. w] == IF i = 0 THEN val ELSE shifted[i - 1] \div Base
    IN  shifted
Values(bytes) ==
    LET value[i \in 0 .. Len(bytes)] ==
            IF i = 0 THEN 0 ELSE value[i - 1] * Base + bytes[i]
    IN  value

\* hton and ntoh: the w bytes of an unsigned integer in network order, most
\* significant first.  What does not fit is cut off.
Hton(w, val) == [i \in 1 .. w |-> Shifted(w, val)[w - i] % Base]
Ntoh(bytes) == Values(bytes)[Len(bytes)]

\* BufferWriter::integer and string, with a size of w bytes.
Integer(w, val) == Hton(w, val)
String(w, str) == Integer(w, Len(str)) \o str

\* BufferReader: a buffer and a cursor, the bytes read so far.
Reader(buf) == [buf |-> buf, cursor |-> 0]
Bytes(r, n) == SubSeq(r.buf, r.cursor + 1, r.cursor + n)
SeekRel(r, delta) == [r EXCEPT !.cursor = @ + delta]
PeekInteger(r, w) == Ntoh(Bytes(r, w))
SkipInteger(r, w) == SeekRel(r, w)
PeekString(r, w) == Bytes(SkipInteger(r, w), PeekInteger(r, w))
SkipString(r, w) == SeekRel(r, w + PeekInteger(r, w))
-----------------------------------------------------------------------------
(* Framing                                                                 *)

\* sendMessage, of the server and of net.lua
Frame(msg) == String(4, msg)

\* readMessage, if the message is there; sizes are added in 32 bits.
FrameComplete(buf) ==
    /\ Len(buf) >= 4
    /\ Len(buf) >= (PeekInteger(Reader(buf), 4) + 4) % (Base * Base * Base * Base)
Unframe(buf) == PeekString(Reader(buf), 4)
-----------------------------------------------------------------------------
(* What the server says: encoded in C++, decoded in Lua                     *)

\* Mutant of EncodeLobbyJoined: an id of two bytes, the size of a text's size.
EncodeLobbyJoinedWide(lobbyId, playerId) ==
    Integer(1, MessageType.lobbyJoined) \o String(1, lobbyId) \o Integer(2, playerId)

EncodeLobbyJoined(lobbyId, playerId) ==
    Integer(1, MessageType.lobbyJoined) \o String(1, lobbyId) \o Integer(1, playerId)
DecodeLobbyJoined(msg) ==
    LET r == SkipInteger(Reader(msg), 1)
    IN  [lobbyId |-> PeekString(r, 1), playerId |-> PeekInteger(SkipString(r, 1), 1)]

EncodeRelay(playerId, text) ==
    Integer(1, MessageType.relayMessage) \o Integer(1, playerId) \o String(2, text)
DecodeRelay(msg) ==
    LET r == SkipInteger(Reader(msg), 1)
    IN  [playerId |-> PeekInteger(r, 1), text |-> PeekString(SkipInteger(r, 1), 2)]

\* ps: the players in the order of the vector, with id and name.
EncodePlayer(p) == Integer(1, p.id) \o String(1, p.name)
Buffers(ps) ==
    LET buffer[i \in 0 .. Len(ps)] ==
            IF i = 0 THEN Integer(1, MessageType.updateLobby) \o Integer(1, Len(ps))
            ELSE buffer[i - 1] \o EncodePlayer(ps[i])
    IN  buffer
EncodeLobbyUpdate(ps) == Buffers(ps)[Len(ps)]

\* The loop of messageHandlers.updateLobby over numPlayers, which sorts in every
\* turn: the reader and the players so far, after each.
DecodePlayer(acc) ==
    LET name == SkipInteger(acc.r, 1)
        player == [id |-> PeekInteger(acc.r, 1), name |-> PeekString(name, 1)]
    IN  [r |-> SkipString(name, 1), ps |-> Sort(Append(acc.ps, player))]
Turns(r, numPlayers) ==
    LET turn[i \in 0 .. numPlayers] ==
            IF i = 0 THEN [r |-> r, ps |-> <<>>] ELSE DecodePlayer(turn[i - 1])
    IN  turn
DecodeLobbyUpdate(msg) ==
    LET r == SkipInteger(Reader(msg), 1)
        numPlayers == PeekInteger(r, 1)
    IN  Turns(SkipInteger(r, 1), numPlayers)[numPlayers].ps
-----------------------------------------------------------------------------
(* What the clients say: encoded in Lua, decoded in C++                     *)

\* Mutant of EncodeJoinLobby: the lobby first.
EncodeJoinLobbySwapped(name, lobbyId) ==
    Integer(1, MessageType.joinLobby) \o String(1, lobbyId) \o String(1, name)

EncodeCreateLobby(name) == Integer(1, MessageType.createLobby) \o String(1, name)
EncodeJoinLobby(name, lobbyId) ==
    Integer(1, MessageType.joinLobby) \o String(1, name) \o String(1, lobbyId)
EncodeSendMessage(text) == Integer(1, MessageType.sendMessage) \o String(2, text)

\* processMessage and the first lines of the handlers: the fields they read.
DecodeRequest(msg) ==
    LET typeVal == PeekInteger(Reader(msg), 1)
        r == SkipInteger(Reader(msg), 1)
    IN  CASE typeVal = MessageType.createLobby ->
                 [type |-> "createLobby", name |-> PeekString(r, 1)]
          [] typeVal = MessageType.joinLobby ->
                 [type |-> "joinLobby", name |-> PeekString(r, 1),
                  lobbyId |-> PeekString(SkipString(r, 1), 1)]
          [] typeVal = MessageType.sendMessage ->
                 [type |-> "sendMessage", text |-> PeekString(r, 2)]
          [] typeVal \in {MessageType.leaveLobby, MessageType.lockLobby,
                          MessageType.unlockLobby, MessageType.requestLobbyUpdate,
                          MessageType.heartbeat} -> [type |-> "noFields"]
          [] OTHER -> [type |-> "unexpected"]
=============================================================================

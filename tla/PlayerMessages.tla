--------------------------- MODULE PlayerMessages ---------------------------
(***************************************************************************)
(* The vector of players and the messages about it: what one side writes,  *)
(* the other side reads.  The sizes are at their limits: ids and names in  *)
(* one byte, and as many players as a byte can count.                      *)
(***************************************************************************)
EXTENDS LobbyVector, Serialization

CONSTANTS
    NameOf,     \* NameOf[c]: the name the player behind connection c has
    LobbyName,  \* Lobby::name
    Texts       \* what players say

\* maxPlayers is the largest Player::Id, and a name was read with a size of one
\* byte, a text with one of two.
ASSUME MessageAssumption ==
    /\ MaxPlayers = Base - 1
    /\ NameOf \in [Connections -> Seq(Byte)]
    /\ \A c \in Connections : Len(NameOf[c]) < Base
    /\ LobbyName \in Seq(Byte) /\ Len(LobbyName) < Base
    /\ \A text \in Texts : text \in Seq(Byte) /\ Len(text) < Base * Base

Named(p) == [id |-> p.id, name |-> NameOf[p.connection]]
Listed == [i \in DOMAIN players |-> Named(players[i])]

\* What is sent as msg is taken out of the stream as msg.
Whole(msg) ==
    LET buf == Frame(msg)
    IN  FrameComplete(buf) /\ Unframe(buf) = msg

\* Clients see the list of the server, also when it is full and names are as
\* long as they can be.
UpdatesDecoded ==
    LET msg == EncodeLobbyUpdate(Listed)
    IN  Whole(msg) /\ DecodeLobbyUpdate(msg) = Listed

\* Every player is told his id, and what he says arrives under it.
AnswersDecoded ==
    \A i \in DOMAIN players :
        LET id == players[i].id
            joined == EncodeLobbyJoined(LobbyName, id)
        IN  /\ Whole(joined)
            /\ DecodeLobbyJoined(joined) = [lobbyId |-> LobbyName, playerId |-> id]
            /\ \A text \in Texts :
                   LET relay == EncodeRelay(id, text)
                   IN  /\ Whole(relay)
                       /\ DecodeRelay(relay) = [playerId |-> id, text |-> text]

\* The server reads of the requests of a player what his client wrote.
RequestsDecoded ==
    \A c \in {players[i].connection : i \in DOMAIN players} :
        LET name == NameOf[c]
            create == EncodeCreateLobby(name)
            join == EncodeJoinLobby(name, LobbyName)
        IN  /\ Whole(create)
            /\ DecodeRequest(create) = [type |-> "createLobby", name |-> name]
            /\ Whole(join)
            /\ DecodeRequest(join) =
                   [type |-> "joinLobby", name |-> name, lobbyId |-> LobbyName]
            /\ \A text \in Texts :
                   LET send == EncodeSendMessage(text)
                   IN  /\ Whole(send)
                       /\ DecodeRequest(send) = [type |-> "sendMessage", text |-> text]
=============================================================================

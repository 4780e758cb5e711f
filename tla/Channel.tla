------------------------------- MODULE Channel -------------------------------
(***************************************************************************)
(* What a connection promises to those who call send: the messages go out  *)
(* whole and in the order of the calls, until the connection breaks, and   *)
(* then nothing more goes out.  Messages are numbered as they are sent,    *)
(* and a message goes out in Parts pieces.                                 *)
(***************************************************************************)
EXTENDS Naturals, Sequences

CONSTANTS
    MaxMessages,   \* bound of the model: calls of send
    Parts          \* into how many pieces a message may be split on the wire

VARIABLES
    sent,      \* how many messages were sent
    wire,      \* the pieces that went out, oldest first
    broken     \* the connection is broken

vars == <<sent, wire, broken>>

Piece == (Nat \ {0}) \X (1 .. Parts)

\* The piece that goes out after those of w.
NextPiece(w) ==
    IF w = <<>> THEN <<1, 1>>
    ELSE LET last == w[Len(w)]
         IN  IF last[2] < Parts THEN <<last[1], last[2] + 1>> ELSE <<last[1] + 1, 1>>

Init ==
    /\ sent = 0
    /\ wire = <<>>
    /\ broken = FALSE

Send ==
    /\ sent < MaxMessages
    /\ sent' = sent + 1
    /\ UNCHANGED <<wire, broken>>

Transmit ==
    /\ ~broken
    /\ NextPiece(wire)[1] <= sent
    /\ wire' = Append(wire, NextPiece(wire))
    /\ UNCHANGED <<sent, broken>>

Break ==
    /\ broken' = TRUE
    /\ UNCHANGED <<sent, wire>>

Next == Send \/ Transmit \/ Break

Spec == Init /\ [][Next]_vars

\* What was sent goes out, unless the connection breaks.
FairSpec == Spec /\ WF_vars(Transmit)
=============================================================================

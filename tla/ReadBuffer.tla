----------------------------- MODULE ReadBuffer -----------------------------
(***************************************************************************)
(* The reading half of a connection on the server: ConnectionBase::read    *)
(* and readBuf, LobbySession::processReadBuf and readMessage.  Each read   *)
(* returns some of the bytes that have arrived, and readMessage is called  *)
(* once after each.                                                        *)
(***************************************************************************)
EXTENDS Framing

CONSTANT ReadSize   \* what readBuf_.prepare makes room for, 512 bytes

ASSUME ReadSizeAssumption == ReadSize \in Nat \ {0}

VARIABLES
    stream,      \* the messages the peer has sent
    received,    \* bytes committed to readBuf_
    consumed,    \* bytes consumed from readBuf_
    handled,     \* the messages posted to strand_
    reading,     \* an async_read_some is pending
    coalesced    \* a read returned bytes of two messages (history)

vars == <<stream, received, consumed, handled, reading, coalesced>>

Init ==
    /\ stream = <<>>
    /\ received = 0
    /\ consumed = 0
    /\ handled = <<>>
    /\ reading = TRUE
    /\ coalesced = FALSE

\* The client sends a message.
PeerSends(size) ==
    /\ Len(stream) < MaxMessages
    /\ stream' = Append(stream, size)
    /\ UNCHANGED <<received, consumed, handled, reading, coalesced>>

\* Mutants of IsComplete: the size field is forgotten; any bytes will do.
IsCompleteWithoutHeader(available, size) == available >= HeaderSize /\ available >= size
IsCompleteIfLonger(available, size) == available > size + HeaderSize

\* readBuf.size() >= msgSize + 4.  The sum is computed in 32 bits; Sizes stays
\* below what would wrap.
IsComplete(available, size) == available >= size + HeaderSize

\* readMessage, with total bytes committed, where the next four bytes say one of
\* sizes, and the post in processReadBuf.
ReadMessage(total, sizes) ==
    LET available == total - consumed
    IN  \/ /\ available < HeaderSize
           /\ UNCHANGED <<consumed, handled>>
        \/ /\ available >= HeaderSize
           /\ \E size \in sizes :
               IF IsComplete(available, size)
               THEN /\ handled' = Append(handled, [from |-> consumed + HeaderSize,
                                                   size |-> size])
                    /\ consumed' = consumed + HeaderSize + size
               ELSE UNCHANGED <<consumed, handled>>

\* Messages with a byte among those from position from + 1 to position to.
Touched(from, to) ==
    {k \in DOMAIN stream : End(stream, k - 1) < to /\ End(stream, k) > from}

\* ConnectionBase::readBuf, when n bytes were read ...
Read(n, sizes) ==
    /\ reading
    /\ received' = received + n
    /\ ReadMessage(received + n, sizes)
    /\ coalesced' = (coalesced \/ \E j, k \in Touched(received, received + n) : j # k)
    /\ UNCHANGED <<stream, reading>>

\* ... of those of the stream.
ReadBuf(n) ==
    /\ n <= Total(stream) - received
    /\ Read(n, SizesAt(stream, consumed))

\* ConnectionBase::readBuf with an error: there is no further read.
ReadFails ==
    /\ reading
    /\ reading' = FALSE
    /\ UNCHANGED <<stream, received, consumed, handled, coalesced>>

Next ==
    \/ \E size \in Sizes : PeerSends(size)
    \/ \E n \in 1 .. ReadSize : ReadBuf(n)
    \/ ReadFails

Spec == Init /\ [][Next]_vars
-----------------------------------------------------------------------------
\* Messages are taken out of the buffer whole, in order and without a gap, in
\* whatever portions the bytes come: what readMessage leaves begins with the
\* size of the next message.
HandledWhole ==
    /\ stream \in Seq(Sizes) /\ Len(stream) <= MaxMessages
    /\ consumed <= received /\ received <= Total(stream)
    /\ consumed = End(stream, Len(handled))
    /\ \A k \in DOMAIN handled : handled[k] = Payload(stream, k)

\* A message that is complete is never left in the buffer unless bytes of two
\* messages came with one read.  (If they did, the last one waits until the
\* peer sends something more.)
NoBacklog == ~coalesced => IF Len(handled) = Len(stream) THEN consumed = received
                           ELSE received < End(stream, Len(handled) + 1)
-----------------------------------------------------------------------------
\* The inductive invariant of the proofs: what is handled are messages of the
\* stream, and where readMessage goes on is where the next one begins.
TypeOK ==
    /\ stream \in Seq(Sizes)
    /\ received \in Nat /\ consumed \in Nat
    /\ handled \in Seq([from : Nat, size : Sizes])
    /\ reading \in BOOLEAN /\ coalesced \in BOOLEAN

BufferInv ==
    /\ TypeOK
    /\ Len(handled) <= Len(stream)
    /\ HandledWhole
    /\ NoBacklog
=============================================================================

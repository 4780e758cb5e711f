------------------------------- MODULE Uplink -------------------------------
(***************************************************************************)
(* From net.sendMessage of a client to processReadBuf of its session: the  *)
(* queue of messages, the loop of send over a socket without a timeout,    *)
(* which takes what it has room for, and the server's reads (ReadBuffer),  *)
(* which return what has been taken.  When the socket takes a part of a    *)
(* string and says "timeout", send gives it the string again, so what the  *)
(* socket has taken need not be the stream.                                *)
(***************************************************************************)
EXTENDS ReadBuffer

CONSTANT MaxRepeats   \* bound of the model: timeouts in the middle of a string

ASSUME RepeatsAssumption == MaxRepeats \in Nat

VARIABLES
    sendQueue,   \* the lengths of the strings in sendQueue, front first
    wire,        \* the bytes the socket has taken, by their place in the stream
    sending,     \* send is in its loop
    running,     \* no error has stopped the client
    repeats      \* timeouts in the middle of a string (history)

sendVars == <<sendQueue, wire, sending, running, repeats>>
uplinkVars == <<vars, sendVars>>

UplinkInit ==
    /\ Init
    /\ sendQueue = <<>>
    /\ wire = <<>>
    /\ sending = FALSE
    /\ running = TRUE
    /\ repeats = 0

\* Where in the stream the front of sendQueue begins.
NextByte == Total(stream) - Sum(sendQueue) + 1

\* The socket takes the first n bytes of the front.
Take(n) == wire' = wire \o [i \in 1 .. n |-> NextByte + i - 1]
-----------------------------------------------------------------------------
\* sendMessage of net.lua, called by a scene between two calls of net.update.
SendMessage(size) ==
    /\ running /\ ~sending
    /\ PeerSends(size)
    /\ sendQueue' = Append(sendQueue, HeaderSize + size)
    /\ UNCHANGED <<wire, sending, running, repeats>>

\* net.update without events: send begins, or goes on, with what is queued.
Update ==
    /\ running /\ ~sending /\ sendQueue # <<>>
    /\ sending' = TRUE
    /\ UNCHANGED <<vars, sendQueue, wire, running, repeats>>

\* tcp:send took all of the front.
SendAll ==
    /\ running /\ sending
    /\ Take(Head(sendQueue))
    /\ sendQueue' = Tail(sendQueue)
    /\ sending' = (sendQueue' # <<>>)
    /\ UNCHANGED <<vars, running, repeats>>

\* It took n bytes and returned n: the rest is pushed to the front, for the
\* next update.
SendPart(n) ==
    /\ running /\ sending
    /\ n < Head(sendQueue)
    /\ Take(n)
    /\ sendQueue' = <<Head(sendQueue) - n>> \o Tail(sendQueue)
    /\ sending' = FALSE
    /\ UNCHANGED <<vars, running, repeats>>

\* Mutant of SendTimeout: the string is not pushed back.
SendTimeoutAndDrop(n) ==
    /\ running /\ sending
    /\ n < Head(sendQueue)
    /\ n > 0 => repeats < MaxRepeats
    /\ Take(n)
    /\ repeats' = IF n > 0 THEN repeats + 1 ELSE repeats
    /\ sendQueue' = Tail(sendQueue)
    /\ sending' = (sendQueue' # <<>>)
    /\ UNCHANGED <<vars, running>>

\* It took n bytes and returned nil, "timeout" and n, of which send does not look
\* at the third: the whole string is pushed back and the loop goes on.
SendTimeout(n) ==
    /\ running /\ sending
    /\ n < Head(sendQueue)
    /\ n > 0 => repeats < MaxRepeats
    /\ Take(n)
    /\ repeats' = IF n > 0 THEN repeats + 1 ELSE repeats
    /\ UNCHANGED <<vars, sendQueue, sending, running>>

\* It returned another error: error(err) stops the client.
SendError ==
    /\ running /\ sending
    /\ running' = FALSE
    /\ UNCHANGED <<vars, sendQueue, wire, sending, repeats>>

\* The four bytes after position p of the wire are the size of message k.
HeaderAt(p, k) ==
    /\ p + HeaderSize <= Len(wire)
    /\ \A i \in 1 .. HeaderSize : wire[p + i] = End(stream, k - 1) + i

\* What the server reads as a size there.  Four other bytes can mean anything:
\* here one of Sizes, or more than there is.
SizesOnWire(p) ==
    LET whose == {k \in DOMAIN stream : HeaderAt(p, k)}
    IN  IF whose = {} THEN Sizes \cup {Len(wire)} ELSE {stream[k] : k \in whose}

\* The server reads n bytes of those the socket has taken.
ServerReads(n) ==
    /\ received + n <= Len(wire)
    /\ Read(n, SizesOnWire(consumed))
    /\ UNCHANGED sendVars

ServerReadFails == ReadFails /\ UNCHANGED sendVars
-----------------------------------------------------------------------------
UplinkNext ==
    \/ \E size \in Sizes : SendMessage(size)
    \/ Update
    \/ SendAll
    \/ \E n \in 0 .. Total(stream) : SendPart(n) \/ SendTimeout(n)
    \/ SendError
    \/ \E n \in 1 .. ReadSize : ServerReads(n)
    \/ ServerReadFails

UplinkSpec == UplinkInit /\ [][UplinkNext]_uplinkVars

\* Frames go on; the socket has room for some bytes when it is tried again and
\* again, since the server goes on reading; and what has arrived is read while
\* the connection lasts.
UplinkFairSpec ==
    /\ UplinkSpec
    /\ WF_uplinkVars(Update)
    /\ SF_uplinkVars(SendAll \/ \E n \in 1 .. Total(stream) : SendPart(n) \/ SendTimeout(n))
    /\ WF_uplinkVars(\E n \in 1 .. ReadSize : ServerReads(n))
-----------------------------------------------------------------------------
\* The first n bytes the socket has taken are the first n of the stream.
Intact(n) ==
    /\ n <= Len(wire)
    /\ \A i \in 1 .. n : wire[i] = i

LastByte == IF wire = <<>> THEN 0 ELSE wire[Len(wire)]

\* In whatever pieces the socket takes the strings, and whatever it takes twice:
\* what is not queued has all been taken, the bytes of the stream are taken in
\* their order, going back at times and never ahead, and the server has read no
\* more than that.  Without a timeout in the middle of a string what has been
\* taken is the stream.
NothingLost ==
    /\ \A b \in 1 .. NextByte - 1 : \E i \in DOMAIN wire : wire[i] = b
    /\ \A i \in DOMAIN wire : wire[i] <= (IF i = 1 THEN 0 ELSE wire[i - 1]) + 1
    /\ received <= Len(wire)
    /\ repeats = 0 => /\ Len(wire) = NextByte - 1
                      /\ Intact(Len(wire))

\* Bytes that are sent again do no harm to the requests before them: what the
\* server has handled it has received, and as far as the bytes are those of the
\* stream it is the client's messages, whole and in order.
RequestsWhole ==
    \A k \in DOMAIN handled :
        LET end == handled[k].from + handled[k].size
        IN  /\ end <= received
            /\ Intact(end) => k \in DOMAIN stream /\ handled[k] = Payload(stream, k)

\* Nor do they make a request wait that is complete before them.
NoBacklogBefore == Intact(received) => NoBacklog

\* Every request reaches its handler, unless the client or the connection ends,
\* a timeout comes in the middle of one, or two requests come with one read.
RequestsArrive ==
    \A k \in 1 .. MaxMessages :
        Len(stream) >= k ~> \/ Len(handled) >= k
                            \/ coalesced
                            \/ ~reading
                            \/ ~running
                            \/ repeats > 0
-----------------------------------------------------------------------------
\* The inductive invariant of the proofs.  The socket never is given a byte that
\* is ahead of the next; as long as what readMessage has consumed is the
\* beginning of the stream it stands between two messages; and as long as what
\* was read is, all of ReadBuffer's invariant holds.
UplinkTypeOK ==
    /\ stream \in Seq(Sizes)
    /\ handled \in Seq([from : Nat, size : Nat])
    /\ received \in Nat /\ consumed \in Nat
    /\ sendQueue \in Seq(Nat)
    /\ wire \in Seq(1 .. Total(stream))
    /\ sending \in BOOLEAN /\ running \in BOOLEAN /\ repeats \in Nat

WholeWhereIntact ==
    \A k \in DOMAIN handled :
        Intact(handled[k].from + handled[k].size) =>
            k \in DOMAIN stream /\ handled[k] = Payload(stream, k)

UplinkInv ==
    /\ UplinkTypeOK
    /\ sending => sendQueue # <<>>
    /\ NextByte > 0 /\ NextByte <= LastByte + 1
    /\ NothingLost
    /\ consumed <= received
    /\ \A k \in DOMAIN handled : handled[k].from + handled[k].size <= consumed
    /\ WholeWhereIntact
    /\ Intact(consumed) => Len(handled) <= Len(stream) /\ consumed = End(stream, Len(handled))
    /\ Intact(received) => BufferInv
=============================================================================

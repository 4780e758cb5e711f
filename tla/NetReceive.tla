----------------------------- MODULE NetReceive -----------------------------
(***************************************************************************)
(* The reading half of the client, receive in net.lua.  Every call takes   *)
(* what the socket has as a new chunk into recvQueue and then pops message *)
(* after message off its front, until a chunk is missing something.  The   *)
(* chunks that are to be joined for that never are: Queue:size is not the  *)
(* number of the elements.                                                 *)
(***************************************************************************)
EXTENDS Framing

VARIABLES
    stream,        \* the messages the server has sent
    received,      \* bytes taken from the socket
    recvQueue,     \* the lengths of the chunks in recvQueue, front first
    handled,       \* the messages given to their handlers
    looping,       \* receive is in its loop
    gaveUpFor,     \* the size concatUntil could not reach, or 0
    fragmented     \* a chunk ended within a message (history)

vars == <<stream, received, recvQueue, handled, looping, gaveUpFor, fragmented>>

QueueBytes == Sum(recvQueue)
Popped == received - QueueBytes

Init ==
    /\ stream = <<>>
    /\ received = 0
    /\ recvQueue = <<>>
    /\ handled = <<>>
    /\ looping = FALSE
    /\ gaveUpFor = 0
    /\ fragmented = FALSE

\* The server sends a message.
ServerSends(size) ==
    /\ Len(stream) < MaxMessages
    /\ stream' = Append(stream, size)
    /\ UNCHANGED <<received, recvQueue, handled, looping, gaveUpFor, fragmented>>

\* readSocket returns n bytes, and receive enters its loop.
ReadSocket(n) ==
    /\ ~looping
    /\ n <= Total(stream) - received
    /\ received' = received + n
    /\ recvQueue' = IF n = 0 THEN recvQueue ELSE Append(recvQueue, n)
    /\ looping' = TRUE
    /\ gaveUpFor' = 0
    /\ fragmented' =
           (fragmented \/ \A k \in 0 .. Len(stream) : End(stream, k) # received + n)
    /\ UNCHANGED <<stream, handled>>

\* Queue:size: _front - _back + 1, where _back is _front + Len(q) - 1.
QueueSize(q) == 2 - Len(q)

\* Mutants of ConcatUntil: one byte short is taken for enough; enough is taken
\* for one byte short.
ConcatUntilAlmost(q, sizeToReach) == Head(q) + 1 >= sizeToReach
ConcatUntilLonger(q, sizeToReach) == Head(q) > sizeToReach

\* concatUntil returns true: the front is long enough, or becomes so in the
\* loop over the chunks behind it.  (net.lua:161 adds the chunk itself where its
\* length is meant; as QueueSize is less than 2 unless the queue is empty the
\* loop is never entered, and nobody meets the error.)
ConcatUntil(q, sizeToReach) ==
    \/ Head(q) >= sizeToReach
    \/ \E offset \in 1 .. QueueSize(q) - 1 :
        Sums(q)[offset + 1] >= sizeToReach

ReturnFromLoop ==
    /\ looping' = FALSE
    /\ UNCHANGED <<stream, received, recvQueue, handled, fragmented>>

\* recvQueue:empty()
NothingToDo ==
    /\ looping
    /\ recvQueue = <<>>
    /\ ReturnFromLoop
    /\ UNCHANGED gaveUpFor

\* not enoughForSize
NoSize ==
    /\ looping
    /\ recvQueue # <<>>
    /\ ~ConcatUntil(recvQueue, HeaderSize)
    /\ ReturnFromLoop
    /\ gaveUpFor' = HeaderSize

\* not enoughForMsg
NoMessage ==
    /\ looping
    /\ recvQueue # <<>>
    /\ ConcatUntil(recvQueue, HeaderSize)
    /\ \E size \in SizesAt(stream, Popped) :
        /\ ~ConcatUntil(recvQueue, size + HeaderSize)
        /\ gaveUpFor' = size + HeaderSize
    /\ ReturnFromLoop

\* The message is popped off, the rest of the front goes back, and the handler
\* is called.  The loop goes on.
HandleNext ==
    /\ looping
    /\ recvQueue # <<>>
    /\ ConcatUntil(recvQueue, HeaderSize)
    /\ \E size \in SizesAt(stream, Popped) :
        /\ ConcatUntil(recvQueue, size + HeaderSize)
        /\ handled' = Append(handled, [from |-> Popped + HeaderSize, size |-> size])
        /\ recvQueue' = IF Head(recvQueue) > size + HeaderSize
                        THEN <<Head(recvQueue) - size - HeaderSize>> \o Tail(recvQueue)
                        ELSE Tail(recvQueue)
    /\ UNCHANGED <<stream, received, looping, gaveUpFor, fragmented>>

Next ==
    \/ \E size \in Sizes : ServerSends(size)
    \/ \E n \in 0 .. Total(stream) : ReadSocket(n)
    \/ NothingToDo
    \/ NoSize
    \/ NoMessage
    \/ HandleNext

Spec == Init /\ [][Next]_vars

\* The frame loop calls net.update again and again, which calls receive.  Some
\* calls find nothing in the socket; strong fairness says that not all of them
\* do when bytes have been sent.
FairSpec ==
    /\ Spec
    /\ WF_vars(NothingToDo \/ NoSize \/ NoMessage \/ HandleNext)
    /\ SF_vars(\E n \in 1 .. Total(stream) : ReadSocket(n))
-----------------------------------------------------------------------------
\* What is given to the handlers are the messages of the stream, whole and in
\* order, also when they come in chunks that begin and end anywhere: the parts
\* of a message that were not joined are kept, never taken for a message.
HandledWhole ==
    /\ stream \in Seq(Sizes) /\ Len(stream) <= MaxMessages
    /\ received <= Total(stream)
    /\ Popped = End(stream, Len(handled))
    /\ \A k \in DOMAIN handled : handled[k] = Payload(stream, k)
    /\ \A i \in DOMAIN recvQueue : recvQueue[i] > 0

\* The inductive invariant of the proofs.
TypeOK ==
    /\ stream \in Seq(Sizes)
    /\ received \in Nat
    /\ recvQueue \in Seq(Nat)
    /\ handled \in Seq([from : Nat, size : Sizes])
    /\ looping \in BOOLEAN /\ gaveUpFor \in Nat /\ fragmented \in BOOLEAN

ReceiveInv == TypeOK /\ Len(handled) <= Len(stream) /\ HandledWhole

\* Every message the server sends is handled in the end, unless a chunk ended
\* within one.
AllHandled ==
    \A k \in 1 .. MaxMessages : Len(stream) >= k ~> Len(handled) >= k \/ fragmented

\* What the comment at the end of concatUntil says when it returns false: "we
\* went through the whole queue and it wasn't enough".
WholeQueueTooShort == gaveUpFor > 0 => QueueBytes < gaveUpFor
=============================================================================

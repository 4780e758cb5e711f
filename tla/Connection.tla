----------------------------- MODULE Connection -----------------------------
(***************************************************************************)
(* The writing half of ConnectionBase (Server.cpp).  Handlers on any       *)
(* thread call send, which posts a task to writeStrand_.  The tasks of the *)
(* strand run one at a time: queueMessage for what was posted, sendDone    *)
(* for a write that is complete.  async_write writes the front of          *)
(* sendQueue_ piece by piece, and nothing but these tasks keeps two of     *)
(* them from writing to the socket at once.                                *)
(***************************************************************************)
EXTENDS Naturals, Sequences

CONSTANTS
    MaxMessages,   \* bound of the model: calls of send
    Parts          \* the pieces async_write needs for a message

ASSUME ConnectionAssumption == MaxMessages \in Nat /\ Parts \in Nat \ {0}

VARIABLES
    sent,          \* how many messages were given to send (their numbers)
    posted,        \* the messages of the queueMessage tasks, oldest first
    sendQueue_,    \* ConnectionBase::sendQueue_
    writes,        \* the asynchronous writes under way
    wire,          \* the pieces that have left, oldest first
    failed         \* a write has failed (history)

vars == <<sent, posted, sendQueue_, writes, wire, failed>>

\* A write of msg of which the first pieces have left.  Once its state is not
\* "writing", sendDone is to be called with it.
Write == [msg : 1 .. MaxMessages, written : 0 .. Parts,
          state : {"writing", "ok", "error"}]
NewWrite(m) == [msg |-> m, written |-> 0, state |-> "writing"]

Init ==
    /\ sent = 0
    /\ posted = <<>>
    /\ sendQueue_ = <<>>
    /\ writes = <<>>
    /\ wire = <<>>
    /\ failed = FALSE
-----------------------------------------------------------------------------
\* ConnectionBase::send, on whichever thread
Send ==
    /\ sent < MaxMessages
    /\ sent' = sent + 1
    /\ posted' = Append(posted, sent')
    /\ UNCHANGED <<sendQueue_, writes, wire, failed>>

\* ConnectionBase::sendFromQueue, with the queue q and the other writes ws.
SendFromQueue(q, ws) == writes' = Append(ws, NewWrite(Head(q)))

\* Mutant of QueueMessage: the write is started whatever is under way.
QueueMessageAndWrite ==
    /\ posted # <<>>
    /\ posted' = Tail(posted)
    /\ sendQueue_' = Append(sendQueue_, Head(posted))
    /\ SendFromQueue(sendQueue_', writes)
    /\ UNCHANGED <<sent, wire, failed>>

\* ConnectionBase::queueMessage, a task of the strand.
QueueMessage ==
    /\ posted # <<>>
    /\ posted' = Tail(posted)
    /\ sendQueue_' = Append(sendQueue_, Head(posted))
    /\ IF sendQueue_ = <<>> THEN SendFromQueue(sendQueue_', writes)
                            ELSE UNCHANGED writes
    /\ UNCHANGED <<sent, wire, failed>>

\* The next piece of write i leaves; with the last one async_write is done.
WritePiece(i) ==
    LET w == writes[i]
    IN  /\ w.state = "writing"
        /\ wire' = Append(wire, <<w.msg, w.written + 1>>)
        /\ writes' = [writes EXCEPT
               ![i].written = @ + 1,
               ![i].state = IF w.written + 1 = Parts THEN "ok" ELSE @]
        /\ UNCHANGED <<sent, posted, sendQueue_, failed>>

\* A write fails between two pieces: the peer is gone, or a signal came.
FailWrite(i) ==
    /\ writes[i].state = "writing"
    /\ writes' = [writes EXCEPT ![i].state = "error"]
    /\ failed' = TRUE
    /\ UNCHANGED <<sent, posted, sendQueue_, wire>>

WithoutWrite(i) == SubSeq(writes, 1, i - 1) \o SubSeq(writes, i + 1, Len(writes))

\* Mutants of SendDone: after an error the queue goes on with the next
\* message; the queue is not looked at again.
SendDoneAfterError(i) ==
    /\ writes[i].state # "writing"
    /\ sendQueue_' = Tail(sendQueue_)
    /\ IF sendQueue_' # <<>> THEN SendFromQueue(sendQueue_', WithoutWrite(i))
                             ELSE writes' = WithoutWrite(i)
    /\ UNCHANGED <<sent, posted, wire, failed>>
SendDoneOnce(i) ==
    /\ writes[i].state # "writing"
    /\ sendQueue_' = IF writes[i].state = "ok" THEN Tail(sendQueue_) ELSE sendQueue_
    /\ writes' = WithoutWrite(i)
    /\ UNCHANGED <<sent, posted, wire, failed>>

\* ConnectionBase::sendDone, a task of the strand.
SendDone(i) ==
    /\ writes[i].state # "writing"
    /\ IF writes[i].state = "ok"
       THEN /\ sendQueue_' = Tail(sendQueue_)
            /\ IF sendQueue_' # <<>> THEN SendFromQueue(sendQueue_', WithoutWrite(i))
                                     ELSE writes' = WithoutWrite(i)
       ELSE writes' = WithoutWrite(i) /\ UNCHANGED sendQueue_
    /\ UNCHANGED <<sent, posted, wire, failed>>
-----------------------------------------------------------------------------
Work ==
    \/ QueueMessage
    \/ \E i \in DOMAIN writes : WritePiece(i) \/ SendDone(i)

Next == Send \/ Work \/ \E i \in DOMAIN writes : FailWrite(i)

Spec == Init /\ [][Next]_vars
-----------------------------------------------------------------------------
(* Properties                                                              *)

TypeOK ==
    /\ sent \in 0 .. MaxMessages
    /\ posted \in Seq(1 .. MaxMessages)
    /\ sendQueue_ \in Seq(1 .. MaxMessages)
    /\ writes \in Seq(Write)
    /\ wire \in Seq((1 .. MaxMessages) \X (1 .. Parts))
    /\ failed \in BOOLEAN

Abstract == INSTANCE Channel WITH broken <- failed

\* Sending implements the channel: however many threads call send, messages
\* never mix on the wire and never change places, none is sent twice, and after
\* a write that failed half-way nothing follows on the wire.
ImplementsChannel == Abstract!Spec

\* A write, or the task that follows it, is under way and has not failed.
Writing == \E i \in DOMAIN writes : writes[i].state # "error"

\* After a write that failed the queue is never empty again, and only an empty
\* queue starts a write; before, a queue with something in it has its write.
Stuck == sendQueue_ # <<>> /\ ~Writing
StuckIffFailed == failed <=> Stuck

\* Messages are numbered without a gap through the queue and the posted tasks.
QueuesInOrder ==
    LET gone == sent - Len(posted) - Len(sendQueue_)
    IN  /\ gone >= 0
        /\ \A i \in DOMAIN sendQueue_ : sendQueue_[i] = gone + i
        /\ \A i \in DOMAIN posted : posted[i] = gone + Len(sendQueue_) + i

\* There is one write at most, and it writes the front of the queue.
OneWrite ==
    /\ Len(writes) <= 1
    /\ writes # <<>> =>
           /\ sendQueue_ # <<>>
           /\ writes[1].msg = sendQueue_[1]
           /\ writes[1].state = "ok" <=> writes[1].written = Parts

\* While nothing failed, what has left is what the queue no longer has.
WireFollows ==
    Writing => Abstract!NextPiece(wire) =
        IF writes[1].state = "ok" THEN <<sendQueue_[1] + 1, 1>>
        ELSE <<sendQueue_[1], writes[1].written + 1>>
WireIdle ==
    sendQueue_ = <<>> => Abstract!NextPiece(wire) = <<sent - Len(posted) + 1, 1>>

\* The inductive invariant of the proof that Spec implements the channel, with
\* StuckIffFailed.
IInv == TypeOK /\ QueuesInOrder /\ OneWrite /\ WireFollows /\ WireIdle
=============================================================================

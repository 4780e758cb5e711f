------------------------- MODULE ConnectionTheorems -------------------------
(***************************************************************************)
(* Theorems about Connection, for any number of messages and of pieces:    *)
(* its inductive invariant, and that sending implements the abstract       *)
(* channel.  Then about Server: the session of a server does nothing with  *)
(* its write queue that Connection does not allow, so that what is proved  *)
(* of Connection holds of it; the process serves as it was told; and       *)
(* nobody uses a session that is destroyed.                                *)
(***************************************************************************)
EXTENDS Server, SequenceTheorems, TLAPS

\* What the proofs use of a sequence with an element in it ...
LEMMA NonEmpty ==
    ASSUME NEW S, NEW s \in Seq(S), s # <<>>
    PROVE  /\ Len(s) \in Nat /\ Len(s) >= 1
           /\ DOMAIN s = 1 .. Len(s)
           /\ s[1] \in S
           /\ Head(s) = s[1]
           /\ Tail(s) \in Seq(S)
           /\ Len(Tail(s)) = Len(s) - 1
           /\ DOMAIN Tail(s) = 1 .. Len(s) - 1
           /\ \A j \in 1 .. Len(s) - 1 : Tail(s)[j] = s[j + 1]
           /\ Tail(s) = <<>> <=> Len(s) = 1
<1>1. Len(s) \in Nat /\ Len(s) >= 1 /\ DOMAIN s = 1 .. Len(s)
  BY EmptySeq, LenProperties
<1>2. s[1] \in S
  BY <1>1, ElementOfSeq
<1>3. /\ Head(s) = s[1]
      /\ Tail(s) \in Seq(S)
      /\ Len(Tail(s)) = Len(s) - 1
      /\ \A j \in 1 .. Len(s) - 1 : Tail(s)[j] = s[j + 1]
  BY <1>1, HeadTailProperties, SMT
<1>4. DOMAIN Tail(s) = 1 .. Len(s) - 1
  BY <1>1, <1>3, LenProperties
<1>5. Tail(s) = <<>> => Len(s) = 1
  <2>1. Tail(s) = <<>> => Len(Tail(s)) = 0
    BY EmptySeq, Zenon
  <2> QED
    BY <1>1, <1>3, <2>1
<1>6. Len(s) = 1 => Tail(s) = <<>>
  <2>1. Tail(s) # <<>> => Len(Tail(s)) \in Nat \ {0}
    BY <1>3, EmptySeq
  <2> QED
    BY <1>1, <1>3, <2>1
<1> QED
  BY <1>1, <1>2, <1>3, <1>4, <1>5, <1>6

\* ... of one that an element was appended to ...
LEMMA Appended ==
    ASSUME NEW S, NEW s \in Seq(S), NEW e \in S
    PROVE  /\ Append(s, e) \in Seq(S)
           /\ Len(s) \in Nat
           /\ Len(Append(s, e)) = Len(s) + 1
           /\ Append(s, e) # <<>>
           /\ DOMAIN Append(s, e) = 1 .. Len(s) + 1
           /\ \A j \in 1 .. Len(s) : Append(s, e)[j] = s[j]
           /\ Append(s, e)[Len(s) + 1] = e
<1>1. /\ Append(s, e) \in Seq(S)
      /\ Len(s) \in Nat
      /\ Len(Append(s, e)) = Len(s) + 1
      /\ \A j \in 1 .. Len(s) : Append(s, e)[j] = s[j]
      /\ Append(s, e)[Len(s) + 1] = e
      /\ Append(s, e) # <<>>
  BY AppendProperties, LenProperties
<1>2. DOMAIN Append(s, e) = 1 .. Len(s) + 1
  BY <1>1, LenProperties
<1> QED
  BY <1>1, <1>2

\* ... and of one with a single element.
LEMMA Single ==
    ASSUME NEW S, NEW e \in S
    PROVE  /\ Append(<<>>, e) = <<e>>
           /\ <<e>> \in Seq(S)
           /\ Len(<<e>>) = 1
           /\ <<e>>[1] = e
OBVIOUS
LEMMA Updated ==
    ASSUME NEW S, NEW s \in Seq(S), Len(s) = 1, NEW e \in S
    PROVE  /\ [s EXCEPT ![1] = e] \in Seq(S)
           /\ Len([s EXCEPT ![1] = e]) = 1
           /\ [s EXCEPT ![1] = e][1] = e
<1> DEFINE t == [s EXCEPT ![1] = e]
<1>1. s \in [1 .. 1 -> S]
  BY LenProperties
<1>2. t \in [1 .. 1 -> S] /\ t[1] = e
  BY <1>1
<1>3. t \in Seq(S)
  BY <1>2, SeqDef
<1>4. Len(t) = 1
  BY <1>2, <1>3, LenProperties
<1> QED
  BY <1>2, <1>3, <1>4
-----------------------------------------------------------------------------
\* The steps of Connection, each with its own number in the proofs below.
LEMMA StepCases ==
    ASSUME [Next]_vars
    PROVE  \/ Send
           \/ QueueMessage
           \/ \E i \in DOMAIN writes : WritePiece(i)
           \/ \E i \in DOMAIN writes : FailWrite(i)
           \/ \E i \in DOMAIN writes : SendDone(i)
           \/ UNCHANGED vars
BY DEF Next, Work

\* The only write there can be is the first, so it is the one that an action
\* is about, and what is left without it is nothing.
LEMMA TheWrite ==
    ASSUME TypeOK, OneWrite, NEW i \in DOMAIN writes
    PROVE  /\ i = 1
           /\ Len(writes) = 1
           /\ writes # <<>>
           /\ writes[1] \in Write
           /\ sendQueue_ # <<>>
           /\ writes[1].msg = sendQueue_[1]
           /\ WithoutWrite(i) = <<>>
<1>1. /\ Len(writes) \in Nat
      /\ DOMAIN writes = 1 .. Len(writes)
      /\ writes \in Seq(Write)
  BY DEF TypeOK
<1>2. i = 1 /\ Len(writes) = 1 /\ writes # <<>> /\ writes[1] \in Write
  BY <1>1 DEF OneWrite
<1>3. SubSeq(writes, 1, i - 1) = <<>> /\ SubSeq(writes, i + 1, Len(writes)) = <<>>
  BY <1>1, <1>2
<1>4. WithoutWrite(i) = <<>>
  BY <1>3 DEF WithoutWrite
<1> QED
  BY <1>2, <1>4 DEF OneWrite

\* A write that was just started.
LEMMA WriteStarted ==
    ASSUME NEW m \in 1 .. MaxMessages
    PROVE  /\ NewWrite(m) \in Write
           /\ NewWrite(m).state = "writing"
           /\ NewWrite(m).written = 0
           /\ NewWrite(m).msg = m
BY ConnectionAssumption DEF NewWrite, Write

\* The piece after a piece that was appended.
LEMMA NextAfterAppend ==
    ASSUME NEW S, NEW w \in Seq(S), NEW m \in Nat, NEW k \in 1 .. Parts, <<m, k>> \in S
    PROVE  Abstract!NextPiece(Append(w, <<m, k>>)) =
               IF k < Parts THEN <<m, k + 1>> ELSE <<m + 1, 1>>
<1> DEFINE a == Append(w, <<m, k>>)
<1>1. a[Len(a)] = <<m, k>> /\ a # <<>>
  BY Appended
<1> HIDE DEF a
<1>2. Abstract!NextPiece(a) = IF k < Parts THEN <<m, k + 1>> ELSE <<m + 1, 1>>
  BY <1>1 DEF Abstract!NextPiece
<1> QED
  BY <1>2 DEF a
-----------------------------------------------------------------------------
LEMMA InitInv == Init => IInv
<1> SUFFICES ASSUME Init PROVE IInv
  OBVIOUS
<1>1. TypeOK
  <2>1. <<>> \in Seq(1 .. MaxMessages)
    BY EmptySeq
  <2>2. <<>> \in Seq(Write) /\ <<>> \in Seq((1 .. MaxMessages) \X (1 .. Parts))
    BY EmptySeq
  <2>3. sent \in 0 .. MaxMessages
    BY ConnectionAssumption DEF Init
  <2>4. failed \in BOOLEAN
    BY Zenon DEF Init
  <2> QED
    BY <2>1, <2>2, <2>3, <2>4 DEF Init, TypeOK
<1>2. QueuesInOrder
  BY DEF Init, QueuesInOrder
<1>3. OneWrite /\ WireFollows
  BY DEF Init, OneWrite, WireFollows, Writing
<1>4. WireIdle
  BY DEF Init, WireIdle, Abstract!NextPiece
<1> QED
  BY <1>1, <1>2, <1>3, <1>4 DEF IInv

LEMMA SendInv == ASSUME IInv, Send PROVE IInv'
<1>1. /\ sent \in Nat /\ sent' = sent + 1 /\ sent' \in 1 .. MaxMessages
      /\ posted' = Append(posted, sent')
      /\ UNCHANGED <<sendQueue_, writes, wire, failed>>
  BY ConnectionAssumption DEF IInv, TypeOK, Send
<1>2. /\ posted' \in Seq(1 .. MaxMessages)
      /\ Len(posted) \in Nat /\ DOMAIN posted = 1 .. Len(posted)
      /\ Len(posted') = Len(posted) + 1
      /\ DOMAIN posted' = 1 .. Len(posted) + 1
      /\ \A j \in 1 .. Len(posted) : posted'[j] = posted[j]
      /\ posted'[Len(posted) + 1] = sent'
  BY <1>1, Appended, LenProperties DEF IInv, TypeOK
<1>3. Len(sendQueue_) \in Nat
  BY LenProperties DEF IInv, TypeOK
<1>4. TypeOK'
  BY <1>1, <1>2 DEF IInv, TypeOK
<1>5. QueuesInOrder'
  BY <1>1, <1>2, <1>3 DEF IInv, QueuesInOrder
<1>6. OneWrite' /\ WireFollows'
  BY <1>1 DEF IInv, OneWrite, WireFollows, Writing
<1>7. WireIdle'
  BY <1>1, <1>2 DEF IInv, WireIdle
<1> QED
  BY <1>4, <1>5, <1>6, <1>7 DEF IInv

LEMMA QueueMessageInv == ASSUME IInv, QueueMessage PROVE IInv'
<1> DEFINE gone == sent - Len(posted) - Len(sendQueue_)
<1>1. /\ Len(posted) \in Nat /\ Len(posted) >= 1
      /\ DOMAIN posted = 1 .. Len(posted)
      /\ posted[1] \in 1 .. MaxMessages
      /\ Head(posted) = posted[1]
      /\ posted' = Tail(posted)
      /\ posted' \in Seq(1 .. MaxMessages)
      /\ Len(posted') = Len(posted) - 1
      /\ DOMAIN posted' = 1 .. Len(posted) - 1
      /\ \A j \in 1 .. Len(posted) - 1 : posted'[j] = posted[j + 1]
  BY NonEmpty DEF IInv, TypeOK, QueueMessage
<1>2. /\ sendQueue_ \in Seq(1 .. MaxMessages)
      /\ Len(sendQueue_) \in Nat
      /\ DOMAIN sendQueue_ = 1 .. Len(sendQueue_)
      /\ sendQueue_' = Append(sendQueue_, posted[1])
  BY <1>1, LenProperties DEF IInv, TypeOK, QueueMessage
<1>3. /\ sendQueue_' \in Seq(1 .. MaxMessages)
      /\ Len(sendQueue_') = Len(sendQueue_) + 1
      /\ sendQueue_' # <<>>
      /\ DOMAIN sendQueue_' = 1 .. Len(sendQueue_) + 1
      /\ \A j \in 1 .. Len(sendQueue_) : sendQueue_'[j] = sendQueue_[j]
      /\ sendQueue_'[Len(sendQueue_) + 1] = posted[1]
  BY <1>1, <1>2, Appended
<1>4. sent \in Nat /\ sent' = sent /\ wire' = wire /\ failed' = failed
  BY DEF IInv, TypeOK, QueueMessage
<1>5. QueuesInOrder'
  <2>1. (sent - Len(posted) - Len(sendQueue_))' = gone
    BY <1>1, <1>2, <1>3, <1>4
  <2>2. /\ \A j \in 1 .. Len(sendQueue_) : sendQueue_[j] = gone + j
        /\ \A j \in 1 .. Len(posted) : posted[j] = gone + Len(sendQueue_) + j
        /\ gone >= 0
    BY <1>1, <1>2 DEF IInv, QueuesInOrder
  <2>3. gone \in Int
    BY <1>1, <1>2, <1>4
  <2> HIDE DEF gone
  <2>4. \A j \in DOMAIN sendQueue_' : sendQueue_'[j] = gone + j
    <3> SUFFICES ASSUME NEW j \in 1 .. Len(sendQueue_) + 1
                 PROVE  sendQueue_'[j] = gone + j
      BY <1>3
    <3>1. CASE j \in 1 .. Len(sendQueue_)
      BY <3>1, <1>3, <2>2
    <3>2. CASE j = Len(sendQueue_) + 1
      <4>1. posted[1] = gone + Len(sendQueue_) + 1
        BY <1>1, <2>2
      <4> QED
        BY <3>2, <4>1, <1>2, <1>3, <2>3
    <3> QED
      BY <3>1, <3>2, <1>2
  <2>5. \A j \in DOMAIN posted' : posted'[j] = gone + Len(sendQueue_') + j
    <3> SUFFICES ASSUME NEW j \in 1 .. Len(posted) - 1
                 PROVE  posted'[j] = gone + Len(sendQueue_') + j
      BY <1>1
    <3> QED
      BY <2>3, <1>1, <1>2, <1>3, <2>2
  <2> QED
    BY <2>1, <2>2, <2>4, <2>5 DEF QueuesInOrder
<1>6. WireIdle'
  BY <1>3 DEF WireIdle
<1>7. CASE sendQueue_ = <<>>
  <2>1. writes = <<>> /\ Len(sendQueue_) = 0
    BY <1>7, EmptySeq DEF IInv, OneWrite
  <2>2. sendQueue_'[1] = posted[1]
    BY <1>2, <1>3, <2>1
  <2>3. Head(sendQueue_') = posted[1]
    BY <1>2, <1>3, <2>2, NonEmpty
  <2>4. writes' = Append(writes, NewWrite(posted[1]))
    BY <1>7, <2>3 DEF QueueMessage, SendFromQueue
  <2>5. /\ writes' = <<NewWrite(posted[1])>> /\ writes' \in Seq(Write)
        /\ Len(writes') = 1 /\ writes'[1] = NewWrite(posted[1])
    BY <1>1, <2>1, <2>4, Single, WriteStarted
  <2>6. TypeOK'
    BY <1>1, <1>2, <1>3, <1>4, <2>5 DEF IInv, TypeOK
  <2>7. OneWrite'
    BY <1>1, <1>2, <1>3, <2>2, <2>5, WriteStarted, ConnectionAssumption DEF OneWrite
  <2>8. posted[1] = sent - Len(posted) + 1
    BY <1>1, <1>4, <2>1 DEF IInv, QueuesInOrder
  <2>9. WireFollows'
    BY <1>1, <1>4, <1>7, <2>2, <2>5, <2>8, WriteStarted DEF IInv, WireFollows, WireIdle
  <2> QED
    BY <1>5, <1>6, <2>6, <2>7, <2>9 DEF IInv
<1>8. CASE sendQueue_ # <<>>
  <2>1. Len(sendQueue_) >= 1
    BY <1>8, NonEmpty DEF IInv, TypeOK
  <2>2. writes' = writes /\ sendQueue_'[1] = sendQueue_[1]
    BY <1>2, <1>3, <1>8, <2>1 DEF QueueMessage
  <2>3. TypeOK'
    BY <1>1, <1>2, <1>3, <1>4, <2>2 DEF IInv, TypeOK
  <2>4. OneWrite' /\ WireFollows'
    BY <1>2, <1>3, <1>4, <2>2 DEF IInv, OneWrite, WireFollows, Writing
  <2> QED
    BY <1>5, <1>6, <2>3, <2>4 DEF IInv
<1> QED
  BY <1>7, <1>8

LEMMA WritePieceInv ==
    ASSUME IInv, NEW i \in DOMAIN writes, WritePiece(i)
    PROVE  IInv'
<1> DEFINE w == writes[1]
           n == w.written + 1
           done == IF n = Parts THEN "ok" ELSE "writing"
           next == [w EXCEPT !.written = n, !.state = done]
<1>1. /\ i = 1 /\ Len(writes) = 1 /\ sendQueue_ # <<>>
      /\ w \in Write /\ w.msg = sendQueue_[1] /\ w.state = "writing"
      /\ writes \in Seq(Write)
  BY TheWrite DEF IInv, WritePiece, TypeOK
<1>2. w.written \in 0 .. Parts /\ w.written # Parts /\ n \in 1 .. Parts
  BY <1>1, TheWrite, ConnectionAssumption DEF IInv, OneWrite, Write
<1>3. /\ sent' = sent /\ posted' = posted /\ sendQueue_' = sendQueue_
      /\ failed' = failed
      /\ wire' = Append(wire, <<sendQueue_[1], n>>)
  BY <1>1 DEF WritePiece
<1>4. next \in Write /\ writes' = [writes EXCEPT ![1] = next]
  <2>1. next \in Write
    <3>1. done \in {"writing", "ok", "error"} /\ n \in 0 .. Parts
      BY <1>2, ConnectionAssumption
    <3> HIDE DEF done, n
    <3> QED
      BY <1>1, <3>1 DEF Write
  <2>2. writes' = [writes EXCEPT ![1] = next]
    BY <1>1, <1>2 DEF WritePiece, Write
  <2> QED
    BY <2>1, <2>2
<1>5. /\ writes' \in Seq(Write) /\ Len(writes') = 1
      /\ writes'[1] = next
  BY <1>1, <1>4, Updated
<1>6. /\ writes'[1].msg = sendQueue_[1]
      /\ writes'[1].written = n
      /\ writes'[1].state = IF n = Parts THEN "ok" ELSE "writing"
  BY <1>1, <1>5 DEF Write
<1> HIDE DEF next, n
<1>7. sendQueue_[1] \in 1 .. MaxMessages
  BY <1>1, NonEmpty DEF IInv, TypeOK
<1>8. wire' \in Seq((1 .. MaxMessages) \X (1 .. Parts))
  <2>1. <<sendQueue_[1], n>> \in (1 .. MaxMessages) \X (1 .. Parts)
    BY <1>2, <1>7
  <2> QED
    BY <1>3, <2>1, Appended DEF IInv, TypeOK
<1>9. TypeOK'
  BY <1>3, <1>5, <1>8 DEF IInv, TypeOK
<1>10. QueuesInOrder'
  BY <1>3 DEF IInv, QueuesInOrder
<1>11. OneWrite'
  BY <1>1, <1>3, <1>5, <1>6 DEF OneWrite
<1>12. WireFollows'
  <2>1. Abstract!NextPiece(wire') =
            IF n < Parts THEN <<sendQueue_[1], n + 1>> ELSE <<sendQueue_[1] + 1, 1>>
    <3>1. <<sendQueue_[1], n>> \in (1 .. MaxMessages) \X (1 .. Parts)
      BY <1>2, <1>7
    <3>2. sendQueue_[1] \in Nat
      BY <1>7
    <3> QED
      BY <1>2, <1>3, <3>1, <3>2, NextAfterAppend DEF IInv, TypeOK
  <2>2. n < Parts <=> n # Parts
    BY <1>2, ConnectionAssumption
  <2> QED
    BY <1>3, <1>6, <2>1, <2>2 DEF WireFollows
<1>13. WireIdle'
  BY <1>1, <1>3 DEF WireIdle
<1> QED
  BY <1>9, <1>10, <1>11, <1>12, <1>13 DEF IInv

LEMMA FailWriteInv ==
    ASSUME IInv, NEW i \in DOMAIN writes, FailWrite(i)
    PROVE  IInv'
<1> DEFINE w == writes[1]
           next == [w EXCEPT !.state = "error"]
<1>1. /\ i = 1 /\ Len(writes) = 1 /\ sendQueue_ # <<>>
      /\ w \in Write /\ w.msg = sendQueue_[1] /\ w.state = "writing"
      /\ writes \in Seq(Write)
  BY TheWrite DEF IInv, FailWrite, TypeOK
<1>2. next \in Write /\ writes' = [writes EXCEPT ![1] = next]
  BY <1>1 DEF FailWrite, Write
<1>3. writes' \in Seq(Write) /\ Len(writes') = 1 /\ writes'[1] = next
  BY <1>1, <1>2, Updated
<1>4. /\ writes'[1].msg = w.msg
      /\ writes'[1].written = w.written
      /\ writes'[1].state = "error"
  BY <1>1, <1>3 DEF Write
<1>5. UNCHANGED <<sent, posted, sendQueue_, wire>> /\ failed' = TRUE
  BY DEF FailWrite
<1>6. TypeOK' /\ QueuesInOrder' /\ WireIdle'
  BY <1>3, <1>5 DEF IInv, TypeOK, QueuesInOrder, WireIdle
<1>7. OneWrite'
  BY <1>1, <1>3, <1>4, <1>5, TheWrite DEF IInv, OneWrite
<1>8. WireFollows'
  <2>1. DOMAIN writes' = 1 .. 1
    BY <1>3, LenProperties
  <2>2. ~Writing'
    BY <1>4, <2>1 DEF Writing
  <2> QED
    BY <2>2 DEF WireFollows
<1> QED
  BY <1>6, <1>7, <1>8 DEF IInv

LEMMA SendDoneInv ==
    ASSUME IInv, NEW i \in DOMAIN writes, SendDone(i)
    PROVE  IInv'
<1> DEFINE q == sendQueue_
<1>1. /\ i = 1 /\ q # <<>>
      /\ writes[1] \in Write /\ writes[1].msg = q[1]
      /\ WithoutWrite(i) = <<>>
      /\ i \in DOMAIN writes
  BY TheWrite DEF IInv
<1>2. UNCHANGED <<sent, posted, wire, failed>>
  BY DEF SendDone
<1>3. CASE writes[1].state # "ok"
  <2>1. writes' = <<>> /\ sendQueue_' = sendQueue_
    BY <1>1, <1>3 DEF SendDone
  <2>2. TypeOK' /\ QueuesInOrder' /\ WireIdle'
    BY <1>2, <2>1, EmptySeq DEF IInv, TypeOK, QueuesInOrder, WireIdle
  <2>3. OneWrite' /\ WireFollows'
    BY <2>1, EmptySeq DEF OneWrite, WireFollows, Writing
  <2> QED
    BY <2>2, <2>3 DEF IInv
<1>4. CASE writes[1].state = "ok"
  <2> DEFINE gone == sent - Len(posted) - Len(q)
  <2>1. /\ sendQueue_' = Tail(q)
        /\ IF Tail(q) # <<>> THEN SendFromQueue(Tail(q), <<>>) ELSE writes' = <<>>
    BY <1>1, <1>4 DEF SendDone, SendFromQueue
  <2>2. /\ Len(q) \in Nat /\ Len(q) >= 1
        /\ DOMAIN q = 1 .. Len(q)
        /\ q[1] \in 1 .. MaxMessages
        /\ Tail(q) \in Seq(1 .. MaxMessages)
        /\ Len(Tail(q)) = Len(q) - 1
        /\ DOMAIN Tail(q) = 1 .. Len(q) - 1
        /\ \A j \in 1 .. Len(q) - 1 : Tail(q)[j] = q[j + 1]
        /\ Tail(q) = <<>> <=> Len(q) = 1
    BY <1>1, NonEmpty DEF IInv, TypeOK
  <2>3. sent \in Nat /\ Len(posted) \in Nat /\ DOMAIN posted = 1 .. Len(posted)
    BY LenProperties DEF IInv, TypeOK
  <2>4. /\ gone \in Nat
        /\ \A j \in 1 .. Len(q) : q[j] = gone + j
        /\ \A j \in 1 .. Len(posted) : posted[j] = gone + Len(q) + j
    <3>1. gone \in Int
      BY <2>2, <2>3
    <3>2. /\ gone >= 0
          /\ \A j \in 1 .. Len(q) : q[j] = gone + j
          /\ \A j \in 1 .. Len(posted) : posted[j] = gone + Len(q) + j
      BY <2>2, <2>3 DEF IInv, QueuesInOrder
    <3> HIDE DEF gone
    <3> QED
      BY <3>1, <3>2
  <2>5. (sent - Len(posted) - Len(sendQueue_))' = gone + 1
    BY <1>2, <2>1, <2>2, <2>3
  <2>6. QueuesInOrder'
    <3> HIDE DEF gone
    <3>1. \A j \in DOMAIN sendQueue_' : sendQueue_'[j] = gone + 1 + j
      <4> SUFFICES ASSUME NEW j \in 1 .. Len(q) - 1
                   PROVE  Tail(q)[j] = gone + 1 + j
        BY <2>1, <2>2
      <4>1. Tail(q)[j] = q[j + 1] /\ j + 1 \in 1 .. Len(q) /\ j \in Nat
        BY <2>2
      <4> QED
        BY <2>4, <4>1
    <3>2. \A j \in DOMAIN posted' : posted'[j] = gone + 1 + Len(sendQueue_') + j
      BY <1>2, <2>1, <2>2, <2>3, <2>4
    <3> QED
      BY <2>4, <2>5, <3>1, <3>2 DEF QueuesInOrder
  <2>7. Abstract!NextPiece(wire) = <<q[1] + 1, 1>>
    <3>1. Writing
      BY <1>1, <1>4 DEF Writing
    <3> QED
      BY <1>4, <3>1 DEF IInv, WireFollows
  <2>8. CASE Tail(q) = <<>>
    <3>1. writes' = <<>> /\ sendQueue_' = <<>> /\ Len(q) = 1
      BY <2>1, <2>2, <2>8
    <3>2. TypeOK'
      BY <1>2, <3>1, EmptySeq DEF IInv, TypeOK
    <3>3. OneWrite' /\ WireFollows'
      BY <3>1, EmptySeq DEF OneWrite, WireFollows, Writing
    <3>4. WireIdle'
      BY <1>2, <2>2, <2>3, <2>4, <2>7, <3>1 DEF WireIdle
    <3> QED
      BY <2>6, <3>2, <3>3, <3>4 DEF IInv
  <2>9. CASE Tail(q) # <<>>
    <3> DEFINE m == Tail(q)[1]
    <3>1. m \in 1 .. MaxMessages /\ Head(Tail(q)) = m
      BY <2>2, <2>9, NonEmpty
    <3>2. m = q[1] + 1
      BY <2>2, <2>4, <2>9
    <3>3. writes' = Append(<<>>, NewWrite(m))
      BY <2>1, <2>9, <3>1 DEF SendFromQueue
    <3>4. writes' \in Seq(Write) /\ Len(writes') = 1 /\ writes'[1] = NewWrite(m)
      BY <3>1, <3>3, Single, WriteStarted
    <3>5. TypeOK'
      BY <1>2, <2>1, <2>2, <3>4 DEF IInv, TypeOK
    <3>6. sendQueue_' # <<>> /\ sendQueue_'[1] = m
      BY <2>1, <2>9
    <3> HIDE DEF m
    <3>7. OneWrite'
      BY <3>1, <3>4, <3>6, WriteStarted, ConnectionAssumption DEF OneWrite
    <3>8. WireFollows'
      BY <1>2, <2>7, <3>1, <3>2, <3>4, <3>6, WriteStarted DEF WireFollows
    <3>9. WireIdle'
      BY <3>6 DEF WireIdle
    <3> QED
      BY <2>6, <3>5, <3>7, <3>8, <3>9 DEF IInv
  <2> QED
    BY <2>8, <2>9
<1> QED
  BY <1>3, <1>4

\* Every reachable state of the writing half satisfies the inductive
\* invariant: one write at a time, of the front of the queue, and what has left
\* is exactly what the queue and the posted tasks no longer have.
THEOREM OneWriterInOrder == Spec => []IInv
<1>1. ASSUME IInv, [Next]_vars PROVE IInv'
  <2>1. CASE Send
    BY <2>1, <1>1, SendInv
  <2>2. CASE QueueMessage
    BY <2>2, <1>1, QueueMessageInv
  <2>3. CASE \E i \in DOMAIN writes : WritePiece(i)
    BY <2>3, <1>1, WritePieceInv
  <2>4. CASE \E i \in DOMAIN writes : FailWrite(i)
    BY <2>4, <1>1, FailWriteInv
  <2>5. CASE \E i \in DOMAIN writes : SendDone(i)
    BY <2>5, <1>1, SendDoneInv
  <2>6. CASE UNCHANGED vars
    BY <2>6, <1>1 DEF vars, IInv, TypeOK, QueuesInOrder, OneWrite, WireFollows,
       WireIdle, Writing
  <2> QED
    BY <1>1, <2>1, <2>2, <2>3, <2>4, <2>5, <2>6, StepCases
<1> QED
  BY <1>1, InitInv, PTL DEF Spec
-----------------------------------------------------------------------------
\* A queue that starts a write is not stuck.
LEMMA JustStarted ==
    ASSUME NEW q, SendFromQueue(q, <<>>)
    PROVE  Writing'
<1>1. NewWrite(Head(q)).state = "writing"
  BY DEF NewWrite
<1>2. writes' = <<NewWrite(Head(q))>>
  BY DEF SendFromQueue
<1>3. 1 \in DOMAIN writes' /\ writes'[1] = NewWrite(Head(q))
  BY <1>2
<1> QED
  BY <1>1, <1>3 DEF Writing

LEMMA SendStuck == ASSUME Send PROVE Stuck' <=> Stuck
BY DEF Send, Stuck, Writing

LEMMA QueueMessageStuck ==
    ASSUME IInv, QueueMessage
    PROVE  Stuck' <=> Stuck
<1>1. sendQueue_' # <<>>
  BY Appended, NonEmpty DEF IInv, TypeOK, QueueMessage
<1>2. CASE sendQueue_ = <<>>
  <2>1. writes = <<>>
    BY <1>2 DEF IInv, OneWrite
  <2>2. Writing'
    BY <1>2, <2>1, JustStarted DEF QueueMessage
  <2> QED
    BY <1>2, <2>2 DEF Stuck
<1>3. CASE sendQueue_ # <<>>
  BY <1>1, <1>3 DEF QueueMessage, Stuck, Writing
<1> QED
  BY <1>2, <1>3

LEMMA WritePieceStuck ==
    ASSUME IInv, NEW i \in DOMAIN writes, WritePiece(i)
    PROVE  ~Stuck /\ ~Stuck'
<1> DEFINE done == IF writes[1].written + 1 = Parts THEN "ok" ELSE "writing"
           next == [writes[1] EXCEPT !.written = writes[1].written + 1, !.state = done]
<1>1. i = 1 /\ 1 \in DOMAIN writes /\ writes[1] \in Write /\ writes[1].state = "writing"
  BY TheWrite DEF IInv, WritePiece
<1>2. writes' = [writes EXCEPT ![1] = next]
  BY <1>1 DEF WritePiece, Write
<1>3. next.state = done
  BY <1>1 DEF Write
<1> HIDE DEF next
<1>4. 1 \in DOMAIN writes' /\ writes'[1] = next
  BY <1>1, <1>2
<1>5. Writing /\ Writing'
  BY <1>1, <1>3, <1>4 DEF Writing
<1> QED
  BY <1>5 DEF Stuck

LEMMA FailWriteStuck ==
    ASSUME IInv, NEW i \in DOMAIN writes, FailWrite(i)
    PROVE  Stuck'
<1>1. i = 1 /\ Len(writes) = 1 /\ writes[1] \in Write /\ sendQueue_ # <<>>
  BY TheWrite DEF IInv
<1>2. DOMAIN writes = 1 .. 1
  BY <1>1, LenProperties DEF IInv, TypeOK
<1>3. DOMAIN writes' = 1 .. 1 /\ writes'[1].state = "error"
  BY <1>1, <1>2 DEF FailWrite, Write
<1>4. ~Writing'
  BY <1>3 DEF Writing
<1> QED
  BY <1>1, <1>4 DEF FailWrite, Stuck

LEMMA SendDoneStuck ==
    ASSUME IInv, NEW i \in DOMAIN writes, SendDone(i)
    PROVE  Stuck' <=> Stuck
<1>1. /\ i = 1 /\ Len(writes) = 1 /\ sendQueue_ # <<>>
      /\ writes[1] \in Write /\ WithoutWrite(i) = <<>>
  BY TheWrite DEF IInv
<1>2. DOMAIN writes = 1 .. 1
  BY <1>1, LenProperties DEF IInv, TypeOK
<1>3. CASE writes[1].state = "ok"
  <2>1. ~Stuck
    BY <1>2, <1>3 DEF Stuck, Writing
  <2>2. sendQueue_' # <<>> => SendFromQueue(sendQueue_', <<>>)
    BY <1>1, <1>3 DEF SendDone
  <2>3. sendQueue_' # <<>> => Writing'
    BY <2>2, JustStarted DEF SendFromQueue
  <2> QED
    BY <2>1, <2>3 DEF Stuck
<1>4. CASE writes[1].state # "ok"
  <2>1. ~Writing
    BY <1>1, <1>2, <1>4 DEF Writing, SendDone, Write
  <2>2. writes' = <<>> /\ sendQueue_' = sendQueue_
    BY <1>1, <1>4 DEF SendDone
  <2>3. ~Writing'
    BY <2>2 DEF Writing
  <2> QED
    BY <1>1, <2>1, <2>2, <2>3 DEF Stuck
<1> QED
  BY <1>3, <1>4

\* Only a write that failed can leave a queue with nobody to write it, and
\* then nobody ever writes again.
THEOREM OnlyFailuresStop == Spec => []StuckIffFailed
<1>1. Init => StuckIffFailed
  BY DEF Init, StuckIffFailed, Stuck
<1>2. ASSUME IInv, StuckIffFailed, [Next]_vars PROVE StuckIffFailed'
  <2>1. CASE Send
    BY <2>1, <1>2, SendStuck DEF Send, StuckIffFailed
  <2>2. CASE QueueMessage
    BY <2>2, <1>2, QueueMessageStuck DEF QueueMessage, StuckIffFailed
  <2>3. CASE \E i \in DOMAIN writes : WritePiece(i)
    <3>1. ~Stuck /\ ~Stuck' /\ failed' = failed
      BY <2>3, <1>2, WritePieceStuck DEF WritePiece
    <3> QED
      BY <1>2, <3>1 DEF StuckIffFailed
  <2>4. CASE \E i \in DOMAIN writes : FailWrite(i)
    BY <2>4, <1>2, FailWriteStuck DEF FailWrite, StuckIffFailed
  <2>5. CASE \E i \in DOMAIN writes : SendDone(i)
    BY <2>5, <1>2, SendDoneStuck DEF SendDone, StuckIffFailed
  <2>6. CASE UNCHANGED vars
    BY <2>6, <1>2 DEF vars, StuckIffFailed, Stuck, Writing
  <2> QED
    BY <1>2, <2>1, <2>2, <2>3, <2>4, <2>5, <2>6, StepCases
<1> QED
  BY <1>1, <1>2, OneWriterInOrder, PTL DEF Spec

LEMMA WritePieceImplements ==
    ASSUME IInv, StuckIffFailed, NEW i \in DOMAIN writes, WritePiece(i)
    PROVE  Abstract!Transmit
<1>1. /\ i = 1 /\ sendQueue_ # <<>> /\ 1 \in DOMAIN writes
      /\ writes[1].msg = sendQueue_[1] /\ writes[1].state = "writing"
  BY TheWrite DEF IInv, WritePiece
<1>2. ~failed
  BY WritePieceStuck DEF StuckIffFailed
<1>3. Abstract!NextPiece(wire) = <<sendQueue_[1], writes[1].written + 1>>
  BY <1>1 DEF IInv, WireFollows, Writing
<1>4. sendQueue_[1] <= sent
  <2>1. /\ sent \in Nat /\ Len(posted) \in Nat
        /\ Len(sendQueue_) \in Nat /\ Len(sendQueue_) >= 1
        /\ DOMAIN sendQueue_ = 1 .. Len(sendQueue_)
    BY <1>1, LenProperties, NonEmpty DEF IInv, TypeOK
  <2>2. sendQueue_[1] = sent - Len(posted) - Len(sendQueue_) + 1
    BY <2>1 DEF IInv, QueuesInOrder
  <2> QED
    BY <2>1, <2>2
<1>5. /\ sent' = sent /\ failed' = failed
      /\ wire' = Append(wire, <<sendQueue_[1], writes[1].written + 1>>)
  BY <1>1 DEF WritePiece
<1> QED
  BY <1>2, <1>3, <1>4, <1>5 DEF Abstract!Transmit

\* For any number of messages and of pieces, whatever threads call send and
\* whenever writes complete or fail, what leaves the connection is what the
\* channel of module Channel lets out: the messages whole and in order, and
\* nothing after a failed write.
THEOREM SendingImplementsChannel == Spec => ImplementsChannel
<1>1. Init => Abstract!Init
  BY DEF Init, Abstract!Init
<1>2. ASSUME IInv, StuckIffFailed, [Next]_vars PROVE [Abstract!Next]_(Abstract!vars)
  <2>1. CASE Send
    BY <2>1 DEF Send, Abstract!Send, Abstract!Next
  <2>2. CASE QueueMessage
    BY <2>2 DEF QueueMessage, Abstract!vars
  <2>3. CASE \E i \in DOMAIN writes : WritePiece(i)
    BY <2>3, <1>2, WritePieceImplements DEF Abstract!Next
  <2>4. CASE \E i \in DOMAIN writes : FailWrite(i)
    BY <2>4 DEF FailWrite, Abstract!Break, Abstract!Next
  <2>5. CASE \E i \in DOMAIN writes : SendDone(i)
    BY <2>5 DEF SendDone, Abstract!vars
  <2>6. CASE UNCHANGED vars
    BY <2>6 DEF vars, Abstract!vars
  <2> QED
    BY <1>2, <2>1, <2>2, <2>3, <2>4, <2>5, <2>6, StepCases
<1> QED
  BY <1>1, <1>2, OneWriterInOrder, OnlyFailuresStop, PTL
     DEF Spec, ImplementsChannel, Abstract!Spec
-----------------------------------------------------------------------------
\* Every step of the server is one of the connection or leaves it alone.
LEMMA ServerStepIsConnectionStep == [ServerNext]_allVars => [Next]_vars
<1> SUFFICES ASSUME [ServerNext]_allVars PROVE [Next]_vars
  OBVIOUS
<1>1. CASE SessionSend
  BY <1>1 DEF SessionSend, Next
<1>2. CASE SessionQueues
  BY <1>2 DEF SessionQueues, Next, Work
<1>3. CASE SessionWrites
  BY <1>3 DEF SessionWrites, Next, Work
<1>4. CASE SessionWriteFails
  BY <1>4 DEF SessionWriteFails, Next
<1>5. CASE LoadFromFile \/ Listen \/ StartThreads
  BY <1>5 DEF LoadFromFile, Listen, StartThreads, vars
<1>6. CASE AcceptThis \/ AcceptOther \/ RemoteEndpointThrows
  BY <1>6 DEF AcceptThis, AcceptOther, RemoteEndpointThrows
<1>7. CASE ReadSome \/ PeerLeaves \/ ReadError \/ HandlerReturns \/ DrawForever
  BY <1>7 DEF ReadSome, PeerLeaves, ReadError, HandlerReturns, DrawForever
<1>8. CASE UNCHANGED allVars
  BY <1>8 DEF allVars
<1> QED
  BY <1>1, <1>2, <1>3, <1>4, <1>5, <1>6, <1>7, <1>8 DEF ServerNext

\* The server implements the connection: starting, accepting, reading and the
\* end of the process change nothing about how a session sends.
THEOREM ServerImplementsConnection == ServerSpec => Spec
<1>1. ServerInit => Init
  BY DEF ServerInit
<1> QED
  BY <1>1, ServerStepIsConnectionStep, PTL DEF ServerSpec, Spec

\* So what leaves a session is what the channel lets out, also when its peer
\* leaves, its handlers are still at work, or the process ends.
THEOREM SessionsImplementChannels == ServerSpec => ImplementsChannel
BY ServerImplementsConnection, SendingImplementsChannel, PTL

\* After its last shared_ptr is gone nothing reads or changes a session: whoever
\* could is among those who hold one.
THEOREM DestroyedIsUnused == ServerSpec => NoUseAfterDestruction
<1>1. ASSUME [ServerNext]_allVars, Destroyed
      PROVE  UNCHANGED <<vars, sessionVars>>
  <2> USE <1>1 DEF Destroyed, Held
  <2>1. CASE SessionSend \/ SessionQueues
    BY <2>1 DEF SessionSend, SessionQueues, QueueMessage
  <2>2. CASE SessionWrites \/ SessionWriteFails
    BY <2>2 DEF SessionWrites, SessionWriteFails
  <2>3. CASE LoadFromFile \/ Listen \/ StartThreads
    BY <2>3 DEF LoadFromFile, Listen, StartThreads
  <2>4. CASE AcceptThis \/ AcceptOther \/ RemoteEndpointThrows
    BY <2>4 DEF AcceptThis, AcceptOther, RemoteEndpointThrows
  <2>5. CASE ReadSome \/ PeerLeaves \/ ReadError \/ HandlerReturns \/ DrawForever
    BY <2>5 DEF ReadSome, PeerLeaves, ReadError, HandlerReturns, DrawForever
  <2>6. CASE UNCHANGED allVars
    BY <2>6 DEF allVars
  <2> QED
    BY <2>1, <2>2, <2>3, <2>4, <2>5, <2>6 DEF ServerNext
<1> QED
  BY <1>1, PTL DEF ServerSpec, NoUseAfterDestruction
-----------------------------------------------------------------------------
(* The process                                                             *)

\* What each phase of main has established: the configuration, then the port,
\* then the threads; and the accepts.
Configured ==
    phase = "loading" =>
        config \in [port : Ports, numThreads : ThreadNumbers, parses : BOOLEAN]
PortKnown ==
    phase \in {"loaded", "listening", "serving"} =>
        config.port \in Ports \ {Absent} /\ config.port \in 0 .. PortNumbers - 1
ThreadsKnown ==
    /\ phase \in {"loaded", "listening", "serving"} =>
           config.numThreads \in ThreadNumbers \cup Cores
    /\ phase = "serving" => config.numThreads > 0
OneAccept ==
    /\ phase \in {"loading", "loaded"} => accepts = 0
    /\ phase \in {"listening", "serving"} => accepts = 1
Started == Configured /\ PortKnown /\ ThreadsKnown /\ OneAccept

\* The conversion to uint16_t keeps a port that is in range.
LEMMA PortFits ==
    ASSUME NEW port \in Int, port >= 0, port < PortNumbers
    PROVE  port \in 0 .. PortNumbers - 1 /\ port % PortNumbers = port
<1>1. PortNumbers \in Int
  BY DEF PortNumbers
<1>2. port \in 0 .. PortNumbers - 1
  BY <1>1
<1>3. port % PortNumbers = port
  BY DEF PortNumbers
<1> QED
  BY <1>2, <1>3

\* A configuration that is accepted has the port and the threads of the file.
LEMMA LoadedAsTold ==
    ASSUME Started, LoadFromFile
    PROVE  Started'
<1>1. CASE phase' = "down"
  BY <1>1 DEF LoadFromFile, Started, Configured, PortKnown, ThreadsKnown, OneAccept
<1>2. CASE phase' # "down"
  <2>1. phase = "loading" /\ accepts' = accepts
    BY DEF LoadFromFile
  <2>2. config \in [port : Ports, numThreads : ThreadNumbers, parses : BOOLEAN]
    BY <2>1 DEF Started, Configured
  <2>3. phase' = "loaded" /\ PortValid(config.port)
    BY <1>2 DEF LoadFromFile
  <2>4. PICK n \in Cores :
            config' = [config EXCEPT
                !.port = @ % PortNumbers,
                !.numThreads = IF @ = Absent THEN n ELSE @]
    BY <1>2 DEF LoadFromFile
  <2>5. config.port \in Int /\ config.port \in Ports \ {Absent}
    BY <2>2, <2>3, ServerAssumption DEF PortValid
  <2>6. config.port >= 0 /\ config.port < PortNumbers
    BY <2>3, Zenon DEF PortValid
  <2>7. config.port \in 0 .. PortNumbers - 1 /\ config.port % PortNumbers = config.port
    BY <2>5, <2>6, PortFits
  <2>8. config'.port = config.port
    BY <2>2, <2>4, <2>7
  <2>9. config'.numThreads \in ThreadNumbers \cup Cores
    BY <2>2, <2>4
  <2>10. Configured' /\ ThreadsKnown'
    BY <2>3, <2>9 DEF Configured, ThreadsKnown
  <2>11. PortKnown'
    BY <2>5, <2>7, <2>8 DEF PortKnown
  <2>12. OneAccept'
    BY <2>1, <2>3 DEF Started, OneAccept
  <2> QED
    BY <2>10, <2>11, <2>12 DEF Started
<1> QED
  BY <1>1, <1>2

\* Whatever the file has and whatever connections come, fail and go, a server
\* that serves listens on the port it was told, with a thread at least, and has
\* one accept pending.
THEOREM ServesAsTold == ServerSpec => []Serving
<1>1. ServerInit => Started
  BY DEF ServerInit, Started, Configured, PortKnown, ThreadsKnown, OneAccept
<1>2. ASSUME Started, [ServerNext]_allVars PROVE Started'
  <2> USE <1>2 DEF Started, Configured, PortKnown, ThreadsKnown, OneAccept
  <2>1. CASE LoadFromFile
    BY <2>1, LoadedAsTold
  <2>2. CASE Listen
    BY <2>2 DEF Listen
  <2>3. CASE StartThreads
    BY <2>3 DEF StartThreads
  <2>4. CASE AcceptThis \/ AcceptOther
    BY <2>4 DEF AcceptThis, AcceptOther, HandleConnection
  <2>5. CASE RemoteEndpointThrows
    BY <2>5 DEF RemoteEndpointThrows
  <2>6. CASE UNCHANGED processVars \/ DrawForever
    BY <2>6 DEF processVars, DrawForever
  <2>7. ReadSome \/ PeerLeaves \/ ReadError \/ HandlerReturns
            => UNCHANGED processVars
    BY DEF ReadSome, PeerLeaves, ReadError, HandlerReturns
  <2>8. SessionSend \/ SessionQueues \/ SessionWrites \/ SessionWriteFails
            => UNCHANGED processVars
    BY DEF SessionSend, SessionQueues, SessionWrites, SessionWriteFails
  <2>9. UNCHANGED allVars => UNCHANGED processVars
    BY DEF allVars
  <2> QED
    BY <2>1, <2>2, <2>3, <2>4, <2>5, <2>6, <2>7, <2>8, <2>9 DEF ServerNext
<1>3. Started => Serving
  BY DEF Started, PortKnown, ThreadsKnown, OneAccept, Serving
<1> QED
  BY <1>1, <1>2, <1>3, PTL DEF ServerSpec
=============================================================================

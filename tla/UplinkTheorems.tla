--------------------------- MODULE UplinkTheorems ---------------------------
(***************************************************************************)
(* Theorems about ReadBuffer and Uplink, for any sizes, any number of      *)
(* messages and any length of a read: what the client sends is taken out   *)
(* of readBuf_ whole and in order.  The facts about streams are those of   *)
(* the other direction (NetReceiveTheorems, below as Net).                 *)
(***************************************************************************)
EXTENDS Uplink, SequenceTheorems, TLAPS

VARIABLES recvQueue, looping, gaveUpFor, fragmented
Net == INSTANCE NetReceiveTheorems

\* The framing is the same in both directions.
LEMMA NetFraming ==
    /\ Net!HeaderSize = HeaderSize
    /\ \A s : Net!Sums(s) = Sums(s)
    /\ \A s : Net!Sum(s) = Sum(s)
    /\ \A s, k : Net!End(s, k) = End(s, k)
    /\ \A s : Net!Total(s) = Total(s)
    /\ \A s, p : Net!SizesAt(s, p) = SizesAt(s, p)
    /\ \A s, k : Net!Payload(s, k) = Payload(s, k)
<1>1. Net!HeaderSize = HeaderSize
  BY DEF Net!HeaderSize, HeaderSize
<1>2. \A s : Net!Sums(s) = Sums(s)
  BY DEF Net!Sums, Sums
<1>3. \A s : Net!Sum(s) = Sum(s)
  BY <1>2 DEF Net!Sum, Sum
<1>4. \A s, k : Net!End(s, k) = End(s, k)
  BY <1>1, <1>2 DEF Net!End, End
<1>5. \A s : Net!Total(s) = Total(s)
  BY <1>4 DEF Net!Total, Total
<1>6. \A s, p : Net!SizesAt(s, p) = SizesAt(s, p)
  BY <1>4 DEF Net!SizesAt, SizesAt, Net!BeginsAt, BeginsAt
<1>7. \A s, k : Net!Payload(s, k) = Payload(s, k)
  BY <1>1, <1>4 DEF Net!Payload, Payload
<1> QED
  BY <1>1, <1>2, <1>3, <1>4, <1>5, <1>6, <1>7

\* What the front of a queue has is no longer in the sum of the rest ...
LEMMA SumOfTail ==
    ASSUME NEW q \in Seq(Nat), q # <<>>
    PROVE  Sum(q) = Head(q) + Sum(Tail(q))
BY Net!SumOfTail, NetFraming, FramingAssumption

\* ... what is appended is added, what is put in front is added, and nothing is
\* below zero or above the sum.
LEMMA SumOfAppend ==
    ASSUME NEW q \in Seq(Nat), NEW n \in Nat
    PROVE  Sum(Append(q, n)) = Sum(q) + n
BY Net!SumOfAppend, NetFraming, FramingAssumption

LEMMA SumOfFront ==
    ASSUME NEW q \in Seq(Nat), NEW n \in Nat
    PROVE  /\ <<n>> \o q \in Seq(Nat)
           /\ <<n>> \o q # <<>>
           /\ Head(<<n>> \o q) = n
           /\ Tail(<<n>> \o q) = q
           /\ Sum(<<n>> \o q) = n + Sum(q)
BY Net!SumOfFront, NetFraming, FramingAssumption

LEMMA SumType ==
    ASSUME NEW q \in Seq(Nat)
    PROVE  Sum(q) \in Nat /\ Sum(<<>>) = 0
BY Net!SumType, NetFraming, FramingAssumption

LEMMA EndProperties ==
    ASSUME NEW s \in Seq(Sizes)
    PROVE  /\ End(s, 0) = 0
           /\ \A k \in 1 .. Len(s) : End(s, k) = End(s, k - 1) + HeaderSize + s[k]
           /\ \A k \in 0 .. Len(s) : End(s, k) \in Nat
           /\ Total(s) \in Nat
BY Net!EndProperties, NetFraming, FramingAssumption

\* A message takes at least its four bytes.
LEMMA EndsGrow ==
    ASSUME NEW s \in Seq(Sizes), NEW j \in 0 .. Len(s), NEW k \in 0 .. Len(s)
    PROVE  /\ j < k => End(s, j) + HeaderSize <= End(s, k)
           /\ j <= k => End(s, j) <= End(s, k)
BY Net!EndsGrow, NetFraming, FramingAssumption

\* A message more changes nothing about the others.
LEMMA EndOfAppend ==
    ASSUME NEW s \in Seq(Sizes), NEW size \in Sizes
    PROVE  /\ Append(s, size) \in Seq(Sizes)
           /\ Len(Append(s, size)) = Len(s) + 1
           /\ \A k \in 1 .. Len(s) : Append(s, size)[k] = s[k]
           /\ \A k \in 0 .. Len(s) : End(Append(s, size), k) = End(s, k)
           /\ End(Append(s, size), Len(s) + 1) = Total(s) + HeaderSize + size
           /\ Total(Append(s, size)) = Total(s) + HeaderSize + size
BY Net!EndOfAppend, NetFraming, FramingAssumption

\* After the first h messages the next begins, and nothing else does.
LEMMA NextBegins ==
    ASSUME NEW s \in Seq(Sizes), NEW h \in 0 .. Len(s), End(s, h) < Total(s)
    PROVE  /\ h < Len(s) /\ h + 1 \in 1 .. Len(s)
           /\ s[h + 1] \in Sizes /\ s[h + 1] \in Nat
           /\ SizesAt(s, End(s, h)) = {s[h + 1]}
           /\ Payload(s, h + 1) = [from |-> End(s, h) + HeaderSize, size |-> s[h + 1]]
           /\ End(s, h + 1) = End(s, h) + HeaderSize + s[h + 1]
           /\ End(s, h + 1) <= Total(s)
BY Net!NextBegins, NetFraming, FramingAssumption

-----------------------------------------------------------------------------
LEMMA Below == \A a, b \in Nat : a <= b /\ a # b => a < b /\ a + 1 <= b
OBVIOUS

LEMMA BufferInit == Init => BufferInv
<1> SUFFICES ASSUME Init PROVE BufferInv
  OBVIOUS
<1>1. /\ stream = <<>> /\ received = 0 /\ consumed = 0 /\ handled = <<>>
      /\ reading = TRUE /\ coalesced = FALSE
  BY DEF Init
<1>2. stream \in Seq(Sizes) /\ Len(stream) = 0 /\ DOMAIN handled = {} /\ Len(handled) = 0
  BY <1>1
<1>3. End(stream, 0) = 0 /\ Total(stream) = 0
  BY <1>2, EndProperties DEF Total
<1>4. handled \in Seq([from : Nat, size : Sizes])
  BY <1>1
<1>5. TypeOK
  BY <1>1, <1>2, <1>4 DEF TypeOK
<1>6. HandledWhole
  BY <1>1, <1>2, <1>3, FramingAssumption DEF HandledWhole
<1>7. NoBacklog
  BY <1>1, <1>2 DEF NoBacklog
<1> QED
  BY <1>2, <1>5, <1>6, <1>7 DEF BufferInv

\* A message more in the stream: those before it stay where they are.
LEMMA PeerSendsKeeps ==
    ASSUME BufferInv, NEW size \in Sizes, PeerSends(size)
    PROVE  BufferInv'
<1>1. /\ TypeOK /\ HandledWhole /\ NoBacklog /\ Len(handled) <= Len(stream)
  BY DEF BufferInv
<1>2. /\ stream \in Seq(Sizes) /\ Len(stream) \in Nat
      /\ Len(handled) \in Nat /\ DOMAIN handled = 1 .. Len(handled)
      /\ received \in Nat /\ consumed \in Nat /\ size \in Nat
      /\ DOMAIN stream = 1 .. Len(stream)
  BY <1>1, LenProperties, FramingAssumption DEF TypeOK
<1>3. /\ stream' = Append(stream, size) /\ Len(stream) < MaxMessages
      /\ received' = received /\ consumed' = consumed /\ handled' = handled
      /\ reading' = reading /\ coalesced' = coalesced
  BY DEF PeerSends
<1>4. /\ stream' \in Seq(Sizes) /\ Len(stream') = Len(stream) + 1
      /\ \A k \in 1 .. Len(stream) : stream'[k] = stream[k]
      /\ \A k \in 0 .. Len(stream) : End(stream', k) = End(stream, k)
      /\ End(stream', Len(stream) + 1) = Total(stream) + HeaderSize + size
      /\ Total(stream') = Total(stream) + HeaderSize + size
  BY <1>2, <1>3, EndOfAppend
<1>5. TypeOK'
  BY <1>1, <1>3, <1>4 DEF TypeOK
<1>6. Total(stream) \in Nat /\ \A k \in 0 .. Len(stream) : End(stream, k) \in Nat
  BY <1>2, EndProperties
<1>7. HandledWhole'
  <2>1. Len(stream') <= MaxMessages
    BY <1>2, <1>3, <1>4, FramingAssumption
  <2>2. received' <= Total(stream')
    BY <1>1, <1>2, <1>3, <1>4, <1>6 DEF HandledWhole, HeaderSize
  <2>3. consumed' = End(stream', Len(handled'))
    BY <1>1, <1>2, <1>3, <1>4 DEF HandledWhole
  <2>4. ASSUME NEW k \in DOMAIN handled' PROVE handled'[k] = Payload(stream', k)
    <3>1. k \in DOMAIN handled /\ k - 1 \in 0 .. Len(stream) /\ k \in 1 .. Len(stream)
      BY <1>1, <1>2, <1>3
    <3>2. handled[k] = Payload(stream, k)
      BY <1>1, <3>1 DEF HandledWhole
    <3> QED
      BY <1>3, <1>4, <3>1, <3>2 DEF Payload
  <2> QED
    BY <1>1, <1>3, <1>4, <2>1, <2>2, <2>3, <2>4 DEF HandledWhole
<1>8. NoBacklog'
  <2> SUFFICES ASSUME ~coalesced PROVE received < End(stream', Len(handled) + 1)
    <3>1. Len(handled') # Len(stream')
      <4>1. /\ Len(handled') = Len(handled) /\ Len(stream') = Len(stream) + 1
            /\ Len(handled) <= Len(stream)
        BY <1>1, <1>3, <1>4
      <4>2. Len(handled) \in Nat /\ Len(stream) \in Nat
        BY <1>2
      <4> QED
        BY <4>1, <4>2
    <3> QED
      BY <1>3, <3>1, Zenon DEF NoBacklog
  <2>1. CASE Len(handled) = Len(stream)
    BY <1>1, <1>2, <1>4, <1>6, <2>1 DEF HandledWhole, HeaderSize
  <2>2. CASE Len(handled) # Len(stream)
    <3>0. Len(handled) + 1 <= Len(stream)
      BY <1>1, <1>2, <2>2, Below, Zenon
    <3>1. Len(handled) + 1 \in 0 .. Len(stream)
      BY <1>2, <3>0
    <3> QED
      BY <1>1, <1>4, <2>2, <3>1 DEF NoBacklog
  <2> QED
    BY <2>1, <2>2
<1> QED
  BY <1>1, <1>2, <1>3, <1>4, <1>5, <1>7, <1>8 DEF BufferInv

\* A read, and readMessage after it: what it takes is the next message, if it
\* takes one, and if it does not, the message is incomplete.
LEMMA ReadBufKeeps ==
    ASSUME BufferInv, NEW n \in 1 .. ReadSize, ReadBuf(n)
    PROVE  BufferInv'
<1> DEFINE h == Len(handled)
           total == received + n
<1>1. /\ TypeOK /\ HandledWhole /\ NoBacklog /\ h <= Len(stream)
  BY DEF BufferInv
<1>2. /\ stream \in Seq(Sizes) /\ Len(stream) \in Nat
      /\ h \in Nat /\ DOMAIN handled = 1 .. h
      /\ handled \in Seq([from : Nat, size : Sizes])
      /\ received \in Nat /\ consumed \in Nat /\ n \in Nat /\ n > 0
      /\ DOMAIN stream = 1 .. Len(stream)
      /\ Total(stream) \in Nat
  BY <1>1, LenProperties, EndProperties, ReadSizeAssumption DEF TypeOK
<1>3. /\ n <= Total(stream) - received
      /\ received' = total
      /\ ReadMessage(total, SizesAt(stream, consumed))
      /\ coalesced' = (coalesced \/ \E j, k \in Touched(received, total) : j # k)
      /\ stream' = stream /\ reading' = reading
  BY DEF ReadBuf, Read
<1>4. /\ consumed = End(stream, h) /\ consumed <= received
      /\ \A k \in DOMAIN handled : handled[k] = Payload(stream, k)
  BY <1>1 DEF HandledWhole
<1>5. h \in 0 .. Len(stream) /\ End(stream, h) < Total(stream) /\ total <= Total(stream)
  BY <1>1, <1>2, <1>3, <1>4
<1>6. /\ h < Len(stream) /\ h + 1 \in 1 .. Len(stream)
      /\ stream[h + 1] \in Sizes /\ stream[h + 1] \in Nat
      /\ SizesAt(stream, consumed) = {stream[h + 1]}
      /\ Payload(stream, h + 1) = [from |-> consumed + HeaderSize, size |-> stream[h + 1]]
      /\ End(stream, h + 1) = consumed + HeaderSize + stream[h + 1]
      /\ End(stream, h + 1) <= Total(stream)
  BY <1>2, <1>4, <1>5, NextBegins
<1> HIDE DEF h, total
<1>7. total \in Nat /\ total = received + n
  BY <1>2 DEF total
<1>8. \/ /\ total < End(stream, h + 1)
         /\ consumed' = consumed /\ handled' = handled
      \/ /\ total >= End(stream, h + 1)
         /\ handled' = Append(handled, Payload(stream, h + 1))
         /\ consumed' = End(stream, h + 1)
  <2>1. CASE total - consumed < HeaderSize /\ UNCHANGED <<consumed, handled>>
    BY <1>2, <1>6, <1>7, <2>1 DEF HeaderSize
  <2>2. CASE /\ total - consumed >= HeaderSize
             /\ IF IsComplete(total - consumed, stream[h + 1])
                THEN /\ handled' = Append(handled, [from |-> consumed + HeaderSize,
                                                    size |-> stream[h + 1]])
                     /\ consumed' = consumed + HeaderSize + stream[h + 1]
                ELSE UNCHANGED <<consumed, handled>>
    <3>1. IsComplete(total - consumed, stream[h + 1]) <=> total >= End(stream, h + 1)
      BY <1>2, <1>6, <1>7 DEF IsComplete, HeaderSize
    <3>2. End(stream, h + 1) \in Nat
      BY <1>2, <1>6 DEF HeaderSize
    <3> QED
      BY <1>6, <1>7, <2>2, <3>1, <3>2
  <2> QED
    BY <1>3, <1>6, <2>1, <2>2 DEF ReadMessage
<1>9. End(stream, h + 1) \in Nat
  BY <1>2, <1>6 DEF HeaderSize
<1>10. CASE /\ total < End(stream, h + 1)
            /\ consumed' = consumed /\ handled' = handled
  <2>1. TypeOK'
    BY <1>1, <1>3, <1>7, <1>10 DEF TypeOK
  <2>2. HandledWhole'
    BY <1>1, <1>2, <1>3, <1>4, <1>5, <1>7, <1>10 DEF HandledWhole
  <2>3. NoBacklog'
    BY <1>3, <1>6, <1>10 DEF NoBacklog, h
  <2> QED
    BY <1>1, <1>3, <1>10, <2>1, <2>2, <2>3 DEF BufferInv, h
<1>11. CASE /\ total >= End(stream, h + 1)
            /\ handled' = Append(handled, Payload(stream, h + 1))
            /\ consumed' = End(stream, h + 1)
  <2>1. Payload(stream, h + 1) \in [from : Nat, size : Sizes]
    BY <1>2, <1>6 DEF HeaderSize
  <2>2. /\ handled' \in Seq([from : Nat, size : Sizes])
        /\ Len(handled') = h + 1
        /\ DOMAIN handled' = 1 .. h + 1
        /\ \A k \in 1 .. h : handled'[k] = handled[k]
        /\ handled'[h + 1] = Payload(stream, h + 1)
    BY <1>2, <1>11, <2>1, AppendProperties, LenProperties DEF h
  <2>3. TypeOK'
    BY <1>1, <1>3, <1>7, <1>9, <1>11, <2>2 DEF TypeOK
  <2>4. HandledWhole'
    <3>1. ASSUME NEW k \in DOMAIN handled' PROVE handled'[k] = Payload(stream', k)
      <4>1. k = h + 1 \/ k \in 1 .. h
        BY <1>2, <2>2
      <4> QED
        BY <1>2, <1>3, <1>4, <2>2, <4>1
    <3> QED
      BY <1>1, <1>3, <1>5, <1>7, <1>9, <1>11, <2>2, <3>1 DEF HandledWhole
  <2>5. NoBacklog'
    <3> SUFFICES ASSUME ~coalesced'
                 PROVE  IF h + 1 = Len(stream) THEN End(stream, h + 1) = total
                        ELSE total < End(stream, h + 2)
      <4>1. Len(handled') + 1 = h + 2
        <5>1. Len(handled') = h + 1 /\ h \in Nat
          BY <1>2, <2>2
        <5> QED
          BY <5>1
      <4> QED
        BY <1>3, <1>11, <2>2, <4>1, Zenon DEF NoBacklog
    <3>1. ~coalesced /\ \A j, k \in Touched(received, total) : j = k
      BY <1>3
    <3>2. received < End(stream, h + 1)
      BY <1>1, <1>6, <3>1 DEF NoBacklog, h
    <3>3. CASE h + 1 = Len(stream)
      BY <1>5, <1>7, <1>9, <1>11, <3>3 DEF Total
    <3>4. CASE h + 1 # Len(stream)
      <4>0. h + 1 \in Nat /\ h + 1 <= Len(stream)
        BY <1>2, <1>6
      <4>1. h + 2 \in 1 .. Len(stream) /\ (h + 2) - 1 = h + 1 /\ (h + 1) - 1 = h
        <5>1. (h + 1) + 1 <= Len(stream)
          BY <1>2, <3>4, <4>0, Below, Zenon
        <5> QED
          BY <1>2, <5>1
      <4>2. End(stream, h + 1) + HeaderSize <= End(stream, h + 2) /\ End(stream, h + 2) \in Nat
        <5>1. h + 1 \in 0 .. Len(stream) /\ h + 2 \in 0 .. Len(stream) /\ h + 1 < h + 2
          BY <1>2, <4>1
        <5> QED
          BY <1>2, <5>1, EndsGrow, EndProperties
      <4>3. h + 1 \in Touched(received, total)
        BY <1>2, <1>4, <1>6, <1>7, <3>2, <4>1 DEF Touched
      <4>4. total > End(stream, h + 1) => h + 2 \in Touched(received, total)
        BY <1>2, <1>9, <1>7, <3>2, <4>1, <4>2 DEF Touched, HeaderSize
      <4>5. total = End(stream, h + 1)
        BY <1>2, <1>7, <1>9, <1>11, <3>1, <4>3, <4>4
      <4> QED
        BY <1>9, <3>4, <4>2, <4>5 DEF HeaderSize
    <3> QED
      BY <3>3, <3>4
  <2> QED
    BY <1>2, <1>3, <1>6, <2>2, <2>3, <2>4, <2>5 DEF BufferInv
<1> QED
  BY <1>8, <1>10, <1>11

LEMMA BufferStep == BufferInv /\ [Next]_vars => BufferInv'
<1> SUFFICES ASSUME BufferInv, [Next]_vars PROVE BufferInv'
  OBVIOUS
<1>1. CASE \E size \in Sizes : PeerSends(size)
  BY <1>1, PeerSendsKeeps
<1>2. CASE \E n \in 1 .. ReadSize : ReadBuf(n)
  BY <1>2, ReadBufKeeps
<1>3. CASE ReadFails
  BY <1>3 DEF ReadFails, BufferInv, TypeOK, HandledWhole, NoBacklog
<1>4. CASE UNCHANGED vars
  BY <1>4 DEF vars, BufferInv, TypeOK, HandledWhole, NoBacklog
<1> QED
  BY <1>1, <1>2, <1>3, <1>4 DEF Next

\* The inductive invariant of the reading half, for any sizes of messages and of
\* reads, as long as a size and its header stay below 2^32.
THEOREM BufferInvariance == Spec => []BufferInv
<1> QED
  BY BufferInit, BufferStep, PTL DEF Spec

\* processReadBuf posts whole messages, in the order they were sent, whatever
\* portions the bytes come in.
THEOREM RequestsAreWhole == Spec => []HandledWhole
<1>1. BufferInv => HandledWhole
  BY DEF BufferInv
<1> QED
  BY BufferInvariance, <1>1, PTL

\* One readMessage for each read is enough, as long as no read returns bytes of
\* two messages.
THEOREM NothingIsLeft == Spec => []NoBacklog
<1>1. BufferInv => NoBacklog
  BY DEF BufferInv
<1> QED
  BY BufferInvariance, <1>1, PTL
-----------------------------------------------------------------------------
\* The socket takes bytes of the stream, behind those it has.
LEMMA TakeAppends ==
    ASSUME UplinkTypeOK, NextByte > 0, sendQueue # <<>>,
           NEW n \in 0 .. Head(sendQueue), Take(n)
    PROVE  /\ wire' \in Seq(1 .. Total(stream))
           /\ Len(wire') = Len(wire) + n
           /\ \A i \in 1 .. Len(wire) : wire'[i] = wire[i]
           /\ \A i \in Len(wire) + 1 .. Len(wire) + n :
                  wire'[i] = NextByte + (i - Len(wire)) - 1
           /\ NextByte + n - 1 <= Total(stream)
           /\ NextByte \in Nat /\ n \in Nat /\ Len(wire) \in Nat
<1> DEFINE piece == [i \in 1 .. n |-> NextByte + i - 1]
           S == 1 .. Total(stream)
<1>1. /\ stream \in Seq(Sizes) /\ sendQueue \in Seq(Nat) /\ wire \in Seq(S)
      /\ Len(wire) \in Nat
  BY LenProperties DEF UplinkTypeOK
<1>2. /\ Total(stream) \in Nat /\ Sum(sendQueue) \in Nat
      /\ Head(sendQueue) \in Nat /\ Sum(Tail(sendQueue)) \in Nat
      /\ Sum(sendQueue) = Head(sendQueue) + Sum(Tail(sendQueue))
  BY <1>1, EndProperties, SumType, SumOfTail, HeadTailProperties
<1>3. n \in Nat /\ n <= Head(sendQueue) /\ n <= Sum(sendQueue)
  BY <1>2
<1>4. NextByte = Total(stream) - Sum(sendQueue) + 1
  BY DEF NextByte
<1>5. NextByte \in Nat /\ NextByte + n - 1 <= Total(stream)
  BY <1>2, <1>3, <1>4
<1>6. \A i \in 1 .. n : NextByte + i - 1 \in S
  BY <1>2, <1>3, <1>5
<1>7. piece \in Seq(S) /\ Len(piece) = n
  BY <1>3, <1>6
<1>8. wire' = wire \o piece
  BY DEF Take
<1> HIDE DEF S
<1>9. /\ wire' \in Seq(S) /\ Len(wire') = Len(wire) + n
      /\ \A i \in 1 .. Len(wire) + n :
             wire'[i] = IF i <= Len(wire) THEN wire[i] ELSE piece[i - Len(wire)]
  BY <1>1, <1>7, <1>8, ConcatProperties
<1>10. ASSUME NEW i \in 1 .. Len(wire) PROVE wire'[i] = wire[i]
  <2>1. i \in 1 .. Len(wire) + n /\ i <= Len(wire)
    BY <1>1, <1>3
  <2> QED
    BY <1>9, <2>1
<1>11. ASSUME NEW i \in Len(wire) + 1 .. Len(wire) + n
       PROVE  wire'[i] = NextByte + (i - Len(wire)) - 1
  <2>1. i \in 1 .. Len(wire) + n /\ ~(i <= Len(wire)) /\ i - Len(wire) \in 1 .. n
    BY <1>1, <1>3
  <2> QED
    BY <1>9, <2>1
<1> QED
  BY <1>1, <1>3, <1>5, <1>9, <1>10, <1>11 DEF S

\* The bytes of the stream are taken in order, whether the front of the queue
\* goes on behind them or stays where it is.
LEMMA TakeLosesNothing ==
    ASSUME UplinkInv, sendQueue # <<>>,
           NEW n \in 0 .. Head(sendQueue), Take(n),
           UNCHANGED vars,
           NextByte' \in {NextByte, NextByte + n},
           repeats' = 0 => repeats = 0 /\ NextByte' = NextByte + n
    PROVE  NothingLost' /\ NextByte' > 0 /\ NextByte' <= LastByte' + 1
<1>1. /\ wire' \in Seq(1 .. Total(stream))
      /\ Len(wire') = Len(wire) + n
      /\ \A i \in 1 .. Len(wire) : wire'[i] = wire[i]
      /\ \A i \in Len(wire) + 1 .. Len(wire) + n :
             wire'[i] = NextByte + (i - Len(wire)) - 1
      /\ NextByte \in Nat /\ n \in Nat /\ Len(wire) \in Nat
  BY TakeAppends DEF UplinkInv
<1>2. /\ wire \in Seq(1 .. Total(stream)) /\ DOMAIN wire = 1 .. Len(wire)
      /\ DOMAIN wire' = 1 .. Len(wire')
      /\ wire = <<>> <=> Len(wire) = 0
      /\ wire' = <<>> <=> Len(wire') = 0
      /\ \A i \in DOMAIN wire : wire[i] \in Nat
  <2>1. /\ wire \in Seq(1 .. Total(stream)) /\ Total(stream) \in Nat
    BY EndProperties DEF UplinkInv, UplinkTypeOK
  <2>2. \A i \in DOMAIN wire : wire[i] \in 1 .. Total(stream)
    BY <2>1
  <2> QED
    BY <1>1, <2>1, <2>2, LenProperties
<1>3. /\ \A b \in 1 .. NextByte - 1 : \E i \in DOMAIN wire : wire[i] = b
      /\ \A i \in DOMAIN wire : wire[i] <= (IF i = 1 THEN 0 ELSE wire[i - 1]) + 1
      /\ received <= Len(wire)
      /\ repeats = 0 => Len(wire) = NextByte - 1 /\ Intact(Len(wire))
      /\ NextByte > 0 /\ NextByte <= LastByte + 1 /\ received \in Nat
  BY DEF UplinkInv, UplinkTypeOK, NothingLost
<1>4. LastByte \in Nat /\ (Len(wire) = 0 => LastByte = 0)
      /\ (Len(wire) > 0 => LastByte = wire[Len(wire)])
  BY <1>1, <1>2 DEF LastByte
<1>5. LastByte' = IF n = 0 THEN LastByte ELSE NextByte + n - 1
  <2>1. CASE n = 0
    BY <1>1, <1>2, <1>4, <2>1 DEF LastByte
  <2>2. CASE n > 0
    <3>1. Len(wire) + n \in Len(wire) + 1 .. Len(wire) + n /\ Len(wire') # 0
      BY <1>1, <2>2
    <3>2. wire'[Len(wire')] = NextByte + n - 1
      BY <1>1, <3>1
    <3> QED
      BY <1>2, <2>2, <3>1, <3>2 DEF LastByte
  <2> QED
    BY <1>1, <2>1, <2>2
<1>6. NextByte' \in Nat /\ NextByte' > 0 /\ NextByte' <= NextByte + n
  BY <1>1, <1>3
<1>7. NextByte' <= LastByte' + 1
  BY <1>1, <1>3, <1>4, <1>5
<1>8. ASSUME NEW b \in Nat, b > 0, b < NextByte'
      PROVE  \E i \in DOMAIN wire' : wire'[i] = b
  <2>1. CASE b < NextByte
    <3>1. PICK i \in DOMAIN wire : wire[i] = b
      BY <1>1, <1>3, <1>8, <2>1
    <3>2. i \in DOMAIN wire' /\ wire'[i] = b
      BY <1>1, <1>2, <3>1
    <3> QED
      BY <3>2
  <2>2. CASE b >= NextByte
    <3> DEFINE i == Len(wire) + (b - NextByte + 1)
    <3>1. b \in Nat /\ b <= NextByte + n - 1
      <4> HIDE DEF i
      <4> QED
        BY <1>1, <1>6, <1>8
    <3>2. i \in Len(wire) + 1 .. Len(wire) + n /\ i - Len(wire) = b - NextByte + 1
      BY <1>1, <2>2, <3>1
    <3>3. i \in DOMAIN wire' /\ wire'[i] = b
      <4>1. i \in DOMAIN wire' /\ wire'[i] = NextByte + (i - Len(wire)) - 1
        <5> HIDE DEF i
        <5> QED
          BY <1>1, <1>2, <3>2
      <4> QED
        BY <1>1, <3>1, <3>2, <4>1
    <3> QED
      BY <3>3
  <2> QED
    BY <1>1, <2>1, <2>2
<1>9. ASSUME NEW i \in DOMAIN wire'
      PROVE  wire'[i] <= (IF i = 1 THEN 0 ELSE wire'[i - 1]) + 1
  <2>1. i \in 1 .. Len(wire) + n
    BY <1>1, <1>2
  <2>2. CASE i <= Len(wire)
    <3>1. i \in DOMAIN wire /\ wire'[i] = wire[i]
      BY <1>1, <1>2, <2>1, <2>2
    <3>2. i # 1 => wire'[i - 1] = wire[i - 1]
      BY <1>1, <2>1, <2>2
    <3> QED
      BY <1>3, <3>1, <3>2
  <2>3. CASE i = Len(wire) + 1
    <3>1. i \in Len(wire) + 1 .. Len(wire) + n /\ i - Len(wire) = 1
      BY <1>1, <2>1, <2>3
    <3>2. wire'[i] = NextByte
      BY <1>1, <3>1
    <3>3. i # 1 => Len(wire) > 0 /\ wire'[i - 1] = wire[Len(wire)]
      BY <1>1, <2>3
    <3>4. (IF i = 1 THEN 0 ELSE wire'[i - 1]) = LastByte
      BY <1>1, <1>4, <2>3, <3>3
    <3> QED
      BY <1>3, <3>2, <3>4
  <2>4. CASE i > Len(wire) + 1
    <3>1. /\ i \in Len(wire) + 1 .. Len(wire) + n
          /\ i - 1 \in Len(wire) + 1 .. Len(wire) + n
          /\ i # 1
      BY <1>1, <2>1, <2>4
    <3>2. /\ wire'[i] = NextByte + (i - Len(wire)) - 1
          /\ wire'[i - 1] = NextByte + ((i - 1) - Len(wire)) - 1
      BY <1>1, <3>1
    <3> QED
      BY <1>1, <2>1, <3>1, <3>2
  <2> QED
    BY <1>1, <2>1, <2>2, <2>3, <2>4
<1>10. received' <= Len(wire')
  BY <1>1, <1>3 DEF vars
<1>11. ASSUME repeats' = 0
       PROVE  Len(wire') = NextByte' - 1 /\ Intact(Len(wire))'
  <2>1. Len(wire) = NextByte - 1 /\ Intact(Len(wire)) /\ NextByte' = NextByte + n
    BY <1>3, <1>11
  <2>2. Len(wire') = NextByte' - 1
    BY <1>1, <2>1
  <2>3. ASSUME NEW i \in 1 .. Len(wire') PROVE wire'[i] = i
    <3>1. CASE i <= Len(wire)
      BY <1>1, <2>1, <3>1 DEF Intact
    <3>2. CASE i > Len(wire)
      <4>1. i \in Len(wire) + 1 .. Len(wire) + n
        BY <1>1, <3>2
      <4>2. wire'[i] = NextByte + (i - Len(wire)) - 1
        BY <1>1, <4>1
      <4> QED
        BY <1>1, <2>1, <4>1, <4>2
    <3> QED
      BY <1>1, <3>1, <3>2
  <2>4. Len(wire') <= Len(wire')
    BY <1>1
  <2> QED
    BY <2>2, <2>3, <2>4 DEF Intact
<1>12. \A b \in 1 .. NextByte' - 1 : b \in Nat /\ b > 0 /\ b < NextByte'
  <2>1. \A m \in Nat : \A b \in 1 .. m - 1 : b \in Nat /\ b > 0 /\ b < m
    OBVIOUS
  <2> QED
    BY <1>6, <2>1, Zenon
<1> QED
  BY <1>6, <1>7, <1>8, <1>9, <1>10, <1>11, <1>12 DEF NothingLost

\* Where readMessage goes on, on what is still the beginning of the stream, the
\* server reads the size of the next message.
LEMMA SizesOnIntactWire ==
    ASSUME UplinkInv, NEW m \in Nat, Intact(m), consumed + HeaderSize <= m
    PROVE  LET h == Len(handled) IN
           /\ m <= Total(stream)
           /\ h \in 0 .. Len(stream) /\ consumed = End(stream, h)
           /\ h + 1 \in DOMAIN stream
           /\ SizesOnWire(consumed) = {stream[h + 1]}
           /\ SizesAt(stream, consumed) = {stream[h + 1]}
           /\ Payload(stream, h + 1) = [from |-> consumed + HeaderSize, size |-> stream[h + 1]]
           /\ End(stream, h + 1) = consumed + HeaderSize + stream[h + 1]
           /\ stream[h + 1] \in Sizes
<1> DEFINE h == Len(handled)
<1>1. /\ stream \in Seq(Sizes) /\ wire \in Seq(1 .. Total(stream))
      /\ Len(wire) \in Nat /\ DOMAIN wire = 1 .. Len(wire)
      /\ Len(stream) \in Nat /\ DOMAIN stream = 1 .. Len(stream)
      /\ h \in Nat /\ consumed \in Nat
      /\ Total(stream) \in Nat
  BY LenProperties, EndProperties DEF UplinkInv, UplinkTypeOK
<1>2. m <= Len(wire) /\ \A i \in 1 .. m : wire[i] = i
  BY DEF Intact
<1>3. m <= Total(stream)
  <2>1. m \in 1 .. Len(wire)
    BY <1>1, <1>2 DEF HeaderSize
  <2>2. wire[m] \in 1 .. Total(stream)
    BY <1>1, <2>1, ElementOfSeq
  <2> QED
    BY <1>1, <1>2, <2>1, <2>2
<1>4. Intact(consumed)
  BY <1>1, <1>2 DEF Intact, HeaderSize
<1>5. h <= Len(stream) /\ consumed = End(stream, h)
  BY <1>4 DEF UplinkInv
<1> HIDE DEF h
<1>6. h \in 0 .. Len(stream) /\ End(stream, h) < Total(stream)
  BY <1>1, <1>3, <1>5 DEF HeaderSize
<1>7. /\ h < Len(stream) /\ h + 1 \in 1 .. Len(stream)
      /\ stream[h + 1] \in Sizes
      /\ SizesAt(stream, consumed) = {stream[h + 1]}
      /\ Payload(stream, h + 1) = [from |-> consumed + HeaderSize, size |-> stream[h + 1]]
      /\ End(stream, h + 1) = consumed + HeaderSize + stream[h + 1]
  BY <1>1, <1>5, <1>6, NextBegins
<1>8. ASSUME NEW k \in DOMAIN stream
      PROVE  HeaderAt(consumed, k) <=> k \in BeginsAt(stream, consumed)
  <2>1. k - 1 \in 0 .. Len(stream) /\ End(stream, k - 1) \in Nat
    BY <1>1, EndProperties
  <2>2. \A i \in 1 .. HeaderSize : wire[consumed + i] = consumed + i
    BY <1>1, <1>2 DEF HeaderSize
  <2>3. consumed + HeaderSize <= Len(wire) /\ 1 \in 1 .. HeaderSize
    BY <1>1, <1>2 DEF HeaderSize
  <2>4. (\A i \in 1 .. HeaderSize : wire[consumed + i] = End(stream, k - 1) + i)
          <=> End(stream, k - 1) = consumed
    <3>1. ASSUME \A i \in 1 .. HeaderSize : wire[consumed + i] = End(stream, k - 1) + i
          PROVE  End(stream, k - 1) = consumed
      <4>1. wire[consumed + 1] = End(stream, k - 1) + 1 /\ wire[consumed + 1] = consumed + 1
        BY <2>2, <2>3, <3>1
      <4> QED
        BY <1>1, <2>1, <4>1
    <3>2. ASSUME End(stream, k - 1) = consumed, NEW i \in 1 .. HeaderSize
          PROVE  wire[consumed + i] = End(stream, k - 1) + i
      BY <2>2, <3>2
    <3> QED
      BY <3>1, <3>2
  <2> QED
    BY <2>3, <2>4 DEF HeaderAt, BeginsAt
<1>9. {k \in DOMAIN stream : HeaderAt(consumed, k)} = BeginsAt(stream, consumed)
  BY <1>8 DEF BeginsAt
<1>10. h + 1 \in BeginsAt(stream, consumed)
  <2>1. (h + 1) - 1 = h
    BY <1>6
  <2> QED
    BY <1>1, <1>5, <1>7, <2>1 DEF BeginsAt
<1>11. SizesOnWire(consumed) = SizesAt(stream, consumed)
  BY <1>9, <1>10 DEF SizesOnWire, SizesAt
<1> QED
  BY <1>1, <1>3, <1>5, <1>6, <1>7, <1>11 DEF h

\* A read of what is still the beginning of the stream is one of ReadBuffer.
LEMMA ReadsOfTheStream ==
    ASSUME UplinkInv, NEW n \in 1 .. ReadSize, ServerReads(n), Intact(received)'
    PROVE  ReadBuf(n) /\ Intact(received)
<1>1. /\ received \in Nat /\ n \in Nat /\ n > 0 /\ consumed \in Nat /\ consumed <= received
      /\ wire \in Seq(1 .. Total(stream)) /\ Total(stream) \in Nat
      /\ Len(wire) \in Nat
  BY ReadSizeAssumption, LenProperties, EndProperties DEF UplinkInv, UplinkTypeOK
<1>2. /\ received' = received + n /\ received + n <= Len(wire) /\ wire' = wire
      /\ Read(n, SizesOnWire(consumed))
  BY DEF ServerReads, Read, sendVars
<1>3. Intact(received + n)
  BY <1>2 DEF Intact
<1>4. Intact(received)
  BY <1>1, <1>3 DEF Intact
<1>5. received + n <= Total(stream)
  <2>1. received + n \in 1 .. Len(wire) /\ wire[received + n] = received + n
    BY <1>1, <1>2, <1>3 DEF Intact
  <2>2. wire[received + n] \in 1 .. Total(stream)
    BY <1>1, <2>1, ElementOfSeq
  <2> QED
    BY <1>1, <2>1, <2>2
<1>6. n <= Total(stream) - received
  BY <1>1, <1>5
<1>7. ReadMessage(received + n, SizesAt(stream, consumed))
  <2>1. ReadMessage(received + n, SizesOnWire(consumed))
    BY <1>2 DEF Read
  <2>2. CASE (received + n) - consumed < HeaderSize
    BY <1>1, <2>1, <2>2 DEF ReadMessage, HeaderSize
  <2>3. CASE consumed + HeaderSize <= received + n
    <3>1. SizesOnWire(consumed) = SizesAt(stream, consumed)
      <4>1. received + n \in Nat
        BY <1>1
      <4> QED
        BY <1>3, <2>3, <4>1, SizesOnIntactWire
    <3> QED
      BY <2>1, <3>1
  <2> QED
    BY <1>1, <2>2, <2>3 DEF HeaderSize
<1> QED
  BY <1>2, <1>4, <1>6, <1>7 DEF ReadBuf, Read

\* What the socket has taken is taken for good, and so is what the server read.
LEMMA WireGrows ==
    ASSUME UplinkInv, [UplinkNext]_uplinkVars
    PROVE  /\ Len(wire) \in Nat /\ Len(wire') \in Nat /\ Len(wire) <= Len(wire')
           /\ \A i \in 1 .. Len(wire) : wire'[i] = wire[i]
           /\ received \in Nat /\ received <= received'
<1>1. /\ Len(wire) \in Nat /\ received \in Nat /\ Total(stream) \in Nat
      /\ sendQueue \in Seq(Nat) /\ NextByte > 0 /\ UplinkTypeOK
  BY LenProperties, EndProperties DEF UplinkInv, UplinkTypeOK
<1>2. ASSUME wire' = wire, received' = received
      PROVE  /\ Len(wire') \in Nat /\ Len(wire) <= Len(wire')
             /\ \A i \in 1 .. Len(wire) : wire'[i] = wire[i]
             /\ received <= received'
  BY <1>1, <1>2
<1>3. ASSUME sendQueue # <<>>, NEW n \in 0 .. Head(sendQueue), Take(n), UNCHANGED vars
      PROVE  /\ Len(wire') \in Nat /\ Len(wire) <= Len(wire')
             /\ \A i \in 1 .. Len(wire) : wire'[i] = wire[i]
             /\ received <= received'
  <2>1. /\ Len(wire') = Len(wire) + n /\ n \in Nat
        /\ \A i \in 1 .. Len(wire) : wire'[i] = wire[i]
    BY <1>1, <1>3, TakeAppends
  <2> QED
    BY <1>1, <1>3, <2>1 DEF vars
<1>4. sendQueue # <<>> => Head(sendQueue) \in Nat
  BY <1>1, HeadTailProperties
<1>5. CASE \E size \in Sizes : SendMessage(size)
  BY <1>1, <1>2, <1>5 DEF SendMessage, PeerSends
<1>6. CASE Update \/ SendError \/ UNCHANGED uplinkVars
  BY <1>1, <1>2, <1>6 DEF Update, SendError, uplinkVars, sendVars, vars
<1>7. CASE SendAll
  <2>1. sendQueue # <<>>
    BY <1>7 DEF SendAll, UplinkInv
  <2>2. Head(sendQueue) \in 0 .. Head(sendQueue)
    BY <1>4, <2>1
  <2> QED
    BY <1>1, <1>3, <1>7, <2>1, <2>2 DEF SendAll
<1>8. CASE \E n \in 0 .. Total(stream) : SendPart(n) \/ SendTimeout(n)
  <2>1. PICK n \in 0 .. Total(stream) : SendPart(n) \/ SendTimeout(n)
    BY <1>8
  <2>2. sendQueue # <<>> /\ n < Head(sendQueue) /\ Take(n) /\ UNCHANGED vars
    BY <2>1 DEF SendPart, SendTimeout, UplinkInv
  <2>3. n \in 0 .. Head(sendQueue)
    BY <1>1, <1>4, <2>2
  <2> QED
    BY <1>1, <1>3, <2>2, <2>3
<1>9. CASE \E n \in 1 .. ReadSize : ServerReads(n)
  <2>1. PICK n \in 1 .. ReadSize : ServerReads(n)
    BY <1>9
  <2>2. wire' = wire /\ received' = received + n /\ n \in Nat
    BY <2>1, ReadSizeAssumption DEF ServerReads, Read, sendVars
  <2> QED
    BY <1>1, <2>2
<1>10. CASE ServerReadFails
  BY <1>1, <1>2, <1>10 DEF ServerReadFails, ReadFails, sendVars
<1> QED
  BY <1>1, <1>5, <1>6, <1>7, <1>8, <1>9, <1>10 DEF UplinkNext

\* Every step of the uplink is one of the reading half or leaves it alone, as long
\* as what is read is the beginning of the stream.
LEMMA UplinkStepIsReadStep ==
    UplinkInv /\ [UplinkNext]_uplinkVars /\ Intact(received)' => [Next]_vars
<1> SUFFICES ASSUME UplinkInv, [UplinkNext]_uplinkVars, Intact(received)' PROVE [Next]_vars
  OBVIOUS
<1>1. CASE \E size \in Sizes : SendMessage(size)
  BY <1>1 DEF SendMessage, Next
<1>2. CASE Update \/ SendAll \/ SendError
  BY <1>2 DEF Update, SendAll, SendError
<1>3. CASE \E n \in 0 .. Total(stream) : SendPart(n) \/ SendTimeout(n)
  BY <1>3 DEF SendPart, SendTimeout
<1>4. CASE \E n \in 1 .. ReadSize : ServerReads(n)
  BY <1>4, ReadsOfTheStream DEF Next
<1>5. CASE ServerReadFails
  BY <1>5 DEF ServerReadFails, Next
<1>6. CASE UNCHANGED uplinkVars
  BY <1>6 DEF uplinkVars
<1> QED
  BY <1>1, <1>2, <1>3, <1>4, <1>5, <1>6 DEF UplinkNext

LEMMA UplinkInitInv == UplinkInit => UplinkInv
<1> SUFFICES ASSUME UplinkInit PROVE UplinkInv
  OBVIOUS
<1>1. /\ Init /\ sendQueue = <<>> /\ wire = <<>>
      /\ sending = FALSE /\ running = TRUE /\ repeats = 0
      /\ stream = <<>> /\ received = 0 /\ consumed = 0 /\ handled = <<>>
  BY DEF UplinkInit, Init
<1>2. /\ stream \in Seq(Sizes) /\ Len(stream) = 0
      /\ handled \in Seq([from : Nat, size : Nat]) /\ Len(handled) = 0 /\ DOMAIN handled = {}
      /\ sendQueue \in Seq(Nat) /\ wire \in Seq(1 .. Total(stream))
      /\ Len(wire) = 0 /\ DOMAIN wire = {}
  BY <1>1
<1>3. Total(stream) = 0 /\ End(stream, 0) = 0
  BY <1>2, EndProperties DEF Total
<1>4. Sum(sendQueue) = 0
  BY <1>1, <1>2, SumType, Zenon
<1>5. NextByte = 1
  BY <1>3, <1>4 DEF NextByte
<1>6. NothingLost
  BY <1>1, <1>2, <1>5 DEF NothingLost, Intact
<1>7. WholeWhereIntact
  BY <1>2 DEF WholeWhereIntact
<1>8. LastByte = 0
  BY <1>1 DEF LastByte
<1>9. UplinkTypeOK
  BY <1>1, <1>2 DEF UplinkTypeOK
<1> QED
  BY <1>1, <1>2, <1>3, <1>5, <1>6, <1>7, <1>8, <1>9, BufferInit DEF UplinkInv

\* What the bytes that are read say of the stream does not change when nothing is
\* read or sent.
LEMMA ReadSideKeeps ==
    ASSUME UplinkInv, [UplinkNext]_uplinkVars, UNCHANGED vars
    PROVE  /\ WholeWhereIntact'
           /\ (Intact(consumed) => Len(handled) <= Len(stream)
                                   /\ consumed = End(stream, Len(handled)))'
           /\ (Intact(received) => BufferInv)'
           /\ received' \in Nat /\ consumed' \in Nat /\ consumed' <= received'
           /\ \A k \in DOMAIN handled' : handled'[k].from + handled'[k].size <= consumed'
<1>1. /\ received \in Nat /\ consumed \in Nat /\ consumed <= received
      /\ received <= Len(wire)
      /\ handled \in Seq([from : Nat, size : Nat])
      /\ \A k \in DOMAIN handled : handled[k].from + handled[k].size <= consumed
  BY DEF UplinkInv, UplinkTypeOK, NothingLost
<1>2. /\ stream' = stream /\ received' = received /\ consumed' = consumed
      /\ handled' = handled /\ reading' = reading /\ coalesced' = coalesced
  BY DEF vars
<1>3. /\ Len(wire) \in Nat /\ Len(wire') \in Nat /\ Len(wire) <= Len(wire')
      /\ \A i \in 1 .. Len(wire) : wire'[i] = wire[i]
  BY WireGrows
<1>4. \A m \in Nat : m <= Len(wire) /\ m <= Len(wire') /\ (\A i \in 1 .. m : wire'[i] = i)
                        => Intact(m)
  BY <1>3 DEF Intact
<1>5. ASSUME Intact(received)' PROVE BufferInv'
  <2>1. Intact(received)
    BY <1>1, <1>2, <1>4, <1>5 DEF Intact
  <2>2. BufferInv
    BY <2>1 DEF UplinkInv
  <2> QED
    BY <1>2, <2>2 DEF BufferInv, TypeOK, HandledWhole, NoBacklog
<1>6. ASSUME Intact(consumed)'
      PROVE  Len(handled') <= Len(stream') /\ consumed' = End(stream, Len(handled))'
  <2>1. Intact(consumed)
    BY <1>1, <1>2, <1>4, <1>6 DEF Intact
  <2> QED
    BY <1>2, <2>1 DEF UplinkInv
<1>7. ASSUME NEW k \in DOMAIN handled', Intact(handled[k].from + handled[k].size)'
      PROVE  k \in DOMAIN stream' /\ handled'[k] = Payload(stream, k)'
  <2>1. /\ k \in DOMAIN handled /\ handled[k] \in [from : Nat, size : Nat]
        /\ handled[k].from + handled[k].size <= consumed
    BY <1>1, <1>2, ElementOfSeq, LenProperties
  <2>2. Intact(handled[k].from + handled[k].size)
    <3> DEFINE e == handled[k].from + handled[k].size
    <3>1. e \in Nat /\ e <= Len(wire) /\ e <= Len(wire')
      BY <1>1, <1>3, <2>1
    <3>2. \A i \in 1 .. e : wire'[i] = i
      BY <1>2, <1>7 DEF Intact
    <3> QED
      BY <1>4, <3>1, <3>2
  <2>3. k \in DOMAIN stream /\ handled[k] = Payload(stream, k)
    BY <2>1, <2>2 DEF UplinkInv, WholeWhereIntact
  <2> QED
    BY <1>2, <2>3
<1> QED
  BY <1>1, <1>2, <1>5, <1>6, <1>7 DEF WholeWhereIntact

\* A message is queued as a string of its size and the size before it.
LEMMA SendMessageKeeps ==
    ASSUME UplinkInv, NEW size \in Sizes, SendMessage(size)
    PROVE  UplinkInv'
<1>1. /\ UplinkTypeOK /\ stream \in Seq(Sizes) /\ sendQueue \in Seq(Nat)
      /\ Len(stream) \in Nat /\ DOMAIN stream = 1 .. Len(stream)
      /\ Total(stream) \in Nat /\ Sum(sendQueue) \in Nat
      /\ size \in Nat /\ HeaderSize + size \in Nat
  BY FramingAssumption, LenProperties, EndProperties, SumType
     DEF UplinkInv, UplinkTypeOK, HeaderSize
<1>2. /\ PeerSends(size) /\ running /\ ~sending
      /\ stream' = Append(stream, size) /\ received' = received
      /\ consumed' = consumed /\ handled' = handled
      /\ sendQueue' = Append(sendQueue, HeaderSize + size)
      /\ wire' = wire /\ sending' = sending /\ running' = running /\ repeats' = repeats
  BY DEF SendMessage, PeerSends
<1>3. /\ stream' \in Seq(Sizes) /\ Len(stream') = Len(stream) + 1
      /\ \A k \in 1 .. Len(stream) : stream'[k] = stream[k]
      /\ \A k \in 0 .. Len(stream) : End(stream', k) = End(stream, k)
      /\ Total(stream') = Total(stream) + HeaderSize + size
      /\ DOMAIN stream' = 1 .. Len(stream) + 1
  BY <1>1, <1>2, EndOfAppend, LenProperties
<1>4. /\ sendQueue' \in Seq(Nat)
      /\ Sum(sendQueue') = Sum(sendQueue) + (HeaderSize + size)
  BY <1>1, <1>2, SumOfAppend, AppendProperties
<1>5. NextByte' = NextByte
  <2>1. /\ NextByte = Total(stream) - Sum(sendQueue) + 1
        /\ NextByte' = Total(stream') - Sum(sendQueue') + 1
    BY DEF NextByte
  <2> QED
    BY <1>1, <1>3, <1>4, <2>1 DEF HeaderSize
<1>6. UplinkTypeOK'
  <2>1. 1 .. Total(stream) \subseteq 1 .. Total(stream')
    BY <1>1, <1>3 DEF HeaderSize
  <2>2. wire' \in Seq(1 .. Total(stream'))
    <3>1. \A S, T : S \subseteq T => Seq(S) \subseteq Seq(T)
      OBVIOUS
    <3> QED
      BY <1>1, <1>2, <2>1, <3>1, Zenon DEF UplinkTypeOK
  <2> QED
    BY <1>1, <1>2, <1>3, <1>4, <2>2 DEF UplinkTypeOK
<1>7. NothingLost'
  BY <1>2, <1>5 DEF UplinkInv, NothingLost, Intact
<1>8. ASSUME NEW k \in DOMAIN handled', Intact(handled[k].from + handled[k].size)'
      PROVE  k \in DOMAIN stream' /\ handled'[k] = Payload(stream, k)'
  <2>1. k \in 1 .. Len(stream) /\ handled[k] = Payload(stream, k)
    BY <1>1, <1>2, <1>8 DEF UplinkInv, WholeWhereIntact, Intact
  <2>2. k - 1 \in 0 .. Len(stream) /\ k \in DOMAIN stream'
    BY <1>1, <1>3, <2>1
  <2> QED
    BY <1>2, <1>3, <2>1, <2>2 DEF Payload
<1>9. ASSUME Intact(consumed)'
      PROVE  Len(handled') <= Len(stream') /\ consumed' = End(stream, Len(handled))'
  <2>1. Len(handled) <= Len(stream) /\ consumed = End(stream, Len(handled))
    BY <1>2, <1>9 DEF UplinkInv, Intact
  <2>2. Len(handled) \in 0 .. Len(stream)
    BY <1>1, <2>1, LenProperties DEF UplinkTypeOK
  <2> QED
    BY <1>1, <1>2, <1>3, <2>1, <2>2
<1>10. ASSUME Intact(received)' PROVE BufferInv'
  <2>1. BufferInv
    BY <1>2, <1>10 DEF UplinkInv, Intact
  <2> QED
    BY <1>2, <2>1, PeerSendsKeeps
<1>11. /\ sending' => sendQueue' # <<>>
       /\ NextByte' > 0 /\ NextByte' <= LastByte' + 1
       /\ consumed' <= received'
       /\ \A k \in DOMAIN handled' : handled'[k].from + handled'[k].size <= consumed'
  BY <1>2, <1>5 DEF UplinkInv, LastByte
<1> QED
  BY <1>6, <1>7, <1>8, <1>9, <1>10, <1>11 DEF UplinkInv, WholeWhereIntact

\* The socket takes a string, or the beginning of one, which goes on being the
\* front of the queue after a timeout.
LEMMA SendKeeps ==
    ASSUME UplinkInv, [UplinkNext]_uplinkVars,
           NEW n \in Nat, SendAll \/ SendPart(n) \/ SendTimeout(n)
    PROVE  UplinkInv'
<1> DEFINE front == Head(sendQueue)
           rest == Tail(sendQueue)
<1>1. /\ sendQueue \in Seq(Nat) /\ sendQueue # <<>> /\ UplinkTypeOK
      /\ NextByte > 0 /\ stream \in Seq(Sizes) /\ repeats \in Nat
      /\ running \in BOOLEAN /\ sending \in BOOLEAN
      /\ handled \in Seq([from : Nat, size : Nat])
      /\ UNCHANGED vars
  BY DEF UplinkInv, UplinkTypeOK, SendAll, SendPart, SendTimeout
<1>2. /\ front \in Nat /\ rest \in Seq(Nat) /\ Sum(rest) \in Nat
      /\ Sum(sendQueue) = front + Sum(rest)
      /\ Total(stream) \in Nat
  BY <1>1, SumOfTail, SumType, HeadTailProperties, EndProperties
<1>3. /\ stream' = stream /\ handled' = handled
      /\ Total(stream') = Total(stream)
  BY <1>1 DEF vars
<1>4. /\ NextByte = Total(stream) - Sum(sendQueue) + 1
      /\ NextByte' = Total(stream') - Sum(sendQueue') + 1
  BY DEF NextByte
<1> HIDE DEF front, rest
\* What the three ways have in common.
<1>5. ASSUME NEW k \in 0 .. front, Take(k),
             sendQueue' \in Seq(Nat), Sum(sendQueue') \in {Sum(sendQueue), Sum(sendQueue) - k},
             repeats' \in Nat,
             repeats' = 0 => repeats = 0 /\ Sum(sendQueue') = Sum(sendQueue) - k,
             running' \in BOOLEAN, sending' \in BOOLEAN,
             sending' => sendQueue' # <<>>
      PROVE  UplinkInv'
  <2>1. k \in Nat /\ k \in 0 .. Head(sendQueue) /\ Sum(sendQueue) \in Nat
    BY <1>2 DEF front
  <2>2. /\ NextByte' \in {NextByte, NextByte + k}
        /\ repeats' = 0 => repeats = 0 /\ NextByte' = NextByte + k
    <3>1. ASSUME Sum(sendQueue') = Sum(sendQueue) PROVE NextByte' = NextByte
      BY <1>3, <1>4, <3>1
    <3>2. ASSUME Sum(sendQueue') = Sum(sendQueue) - k PROVE NextByte' = NextByte + k
      BY <1>2, <1>3, <1>4, <2>1, <3>2
    <3> QED
      BY <1>5, <3>1, <3>2
  <2>3. NothingLost' /\ NextByte' > 0 /\ NextByte' <= LastByte' + 1
    BY <1>1, <1>5, <2>1, <2>2, TakeLosesNothing
  <2>4. wire' \in Seq(1 .. Total(stream'))
    BY <1>1, <1>3, <1>5, <2>1, TakeAppends
  <2>5. /\ WholeWhereIntact'
        /\ (Intact(consumed) => Len(handled) <= Len(stream)
                                /\ consumed = End(stream, Len(handled)))'
        /\ (Intact(received) => BufferInv)'
        /\ received' \in Nat /\ consumed' \in Nat /\ consumed' <= received'
        /\ \A j \in DOMAIN handled' : handled'[j].from + handled'[j].size <= consumed'
    BY <1>1, ReadSideKeeps
  <2>6. UplinkTypeOK'
    BY <1>1, <1>3, <1>5, <2>4, <2>5 DEF UplinkTypeOK
  <2> QED
    BY <1>5, <2>3, <2>5, <2>6 DEF UplinkInv
<1>6. CASE SendAll
  <2>1. /\ Take(front) /\ sendQueue' = rest /\ running' = running /\ repeats' = repeats
        /\ sending' = (sendQueue' # <<>>)
    BY <1>6 DEF SendAll, front, rest
  <2>2. front \in 0 .. front /\ Sum(sendQueue') = Sum(sendQueue) - front
    BY <1>2, <2>1
  <2>3. sending' \in BOOLEAN /\ (sending' => sendQueue' # <<>>)
    BY <2>1, Zenon
  <2> QED
    BY <1>1, <1>2, <1>5, <2>1, <2>2, <2>3
<1>7. CASE SendPart(n)
  <2>1. /\ n < front /\ Take(n) /\ sending' = FALSE
        /\ running' = running /\ repeats' = repeats
        /\ sendQueue' = <<front - n>> \o rest
    BY <1>7 DEF SendPart, front, rest
  <2>2. front - n \in Nat /\ n \in 0 .. front
    BY <1>2, <2>1
  <2>3. /\ sendQueue' \in Seq(Nat) /\ Sum(sendQueue') = (front - n) + Sum(rest)
    BY <1>2, <2>1, <2>2, SumOfFront
  <2>4. Sum(sendQueue') = Sum(sendQueue) - n
    BY <1>2, <2>3
  <2> QED
    BY <1>1, <1>5, <2>1, <2>2, <2>3, <2>4
<1>8. CASE SendTimeout(n)
  <2>1. /\ n < front /\ Take(n) /\ sendQueue' = sendQueue
        /\ sending' = sending /\ running' = running
        /\ repeats' = IF n > 0 THEN repeats + 1 ELSE repeats
    BY <1>8 DEF SendTimeout, front
  <2>2. n \in 0 .. front /\ repeats' \in Nat
    BY <1>1, <1>2, <2>1
  <2>3. repeats' = 0 => repeats = 0 /\ Sum(sendQueue') = Sum(sendQueue) - n
    BY <1>1, <1>2, <2>1
  <2>4. sending' => sendQueue' # <<>>
    BY <1>1, <2>1
  <2> QED
    BY <1>1, <1>5, <2>1, <2>2, <2>3, <2>4
<1> QED
  BY <1>6, <1>7, <1>8

\* The server reads, and takes a message out of what it has, or something else if
\* the bytes are no more those of the stream.
LEMMA ServerReadsKeeps ==
    ASSUME UplinkInv, NEW n \in 1 .. ReadSize, ServerReads(n)
    PROVE  UplinkInv'
<1> DEFINE h == Len(handled)
<1>1. /\ UplinkTypeOK /\ received \in Nat /\ consumed \in Nat /\ n \in Nat
      /\ handled \in Seq([from : Nat, size : Nat])
      /\ h \in Nat /\ DOMAIN handled = 1 .. h
      /\ Len(wire) \in Nat /\ stream \in Seq(Sizes)
      /\ Len(stream) \in Nat /\ DOMAIN stream = 1 .. Len(stream)
      /\ consumed <= received
  BY ReadSizeAssumption, LenProperties DEF UplinkInv, UplinkTypeOK
<1>2. /\ received' = received + n /\ received + n <= Len(wire)
      /\ stream' = stream /\ reading' = reading /\ UNCHANGED sendVars
      /\ ReadMessage(received + n, SizesOnWire(consumed))
  BY DEF ServerReads, Read
<1>3. /\ wire' = wire /\ sendQueue' = sendQueue /\ sending' = sending
      /\ running' = running /\ repeats' = repeats
      /\ NextByte' = NextByte /\ LastByte' = LastByte
  BY <1>2 DEF sendVars, NextByte, LastByte
<1>4. NothingLost'
  BY <1>1, <1>2, <1>3 DEF UplinkInv, NothingLost, Intact
<1>5. ASSUME Intact(received)' PROVE BufferInv'
  <2>1. ReadBuf(n) /\ Intact(received)
    BY <1>5, ReadsOfTheStream
  <2> QED
    BY <2>1, ReadBufKeeps DEF UplinkInv
<1>6. SizesOnWire(consumed) \subseteq Nat
  BY <1>1, FramingAssumption, ElementOfSeq DEF SizesOnWire
<1>7. CASE UNCHANGED <<consumed, handled>>
  <2>1. UplinkTypeOK' /\ consumed' <= received'
    BY <1>1, <1>2, <1>3, <1>7 DEF UplinkTypeOK
  <2>2. WholeWhereIntact'
    BY <1>2, <1>3, <1>7 DEF UplinkInv, WholeWhereIntact, Intact
  <2>3. (Intact(consumed) => Len(handled) <= Len(stream)
                             /\ consumed = End(stream, Len(handled)))'
    BY <1>2, <1>3, <1>7 DEF UplinkInv, Intact
  <2> QED
    BY <1>3, <1>4, <1>5, <1>7, <2>1, <2>2, <2>3 DEF UplinkInv
<1>8. ASSUME NEW size \in SizesOnWire(consumed),
             consumed + HeaderSize + size <= received + n,
             handled' = Append(handled, [from |-> consumed + HeaderSize, size |-> size]),
             consumed' = consumed + HeaderSize + size
      PROVE  UplinkInv'
  <2> DEFINE new == [from |-> consumed + HeaderSize, size |-> size]
  <2>1. size \in Nat /\ consumed' \in Nat /\ consumed' <= received' /\ consumed <= consumed'
        /\ consumed' <= Len(wire)
    BY <1>1, <1>2, <1>6, <1>8 DEF HeaderSize
  <2>2. new \in [from : Nat, size : Nat] /\ new.from + new.size = consumed'
    BY <1>1, <1>8, <2>1 DEF HeaderSize
  <2>3. /\ handled' \in Seq([from : Nat, size : Nat])
        /\ Len(handled') = h + 1 /\ DOMAIN handled' = 1 .. h + 1
        /\ \A k \in 1 .. h : handled'[k] = handled[k]
        /\ handled'[h + 1] = new
    BY <1>1, <1>8, <2>2, AppendProperties, LenProperties
  <2>4. UplinkTypeOK'
    BY <1>1, <1>2, <1>3, <2>1, <2>3 DEF UplinkTypeOK
  <2>5. ASSUME Intact(consumed)'
        PROVE  /\ h + 1 \in DOMAIN stream
               /\ new = Payload(stream, h + 1)
               /\ consumed' = End(stream, h + 1)
    <3>1. Intact(consumed') /\ consumed + HeaderSize <= consumed'
      BY <1>1, <1>3, <1>8, <2>1, <2>5 DEF Intact, HeaderSize
    <3>2. /\ h + 1 \in DOMAIN stream
          /\ SizesOnWire(consumed) = {stream[h + 1]}
          /\ Payload(stream, h + 1) = [from |-> consumed + HeaderSize, size |-> stream[h + 1]]
          /\ End(stream, h + 1) = consumed + HeaderSize + stream[h + 1]
      BY <2>1, <3>1, SizesOnIntactWire
    <3> QED
      BY <1>8, <3>2
  <2> HIDE DEF new, h
  <2>6. (Intact(consumed) => Len(handled) <= Len(stream)
                             /\ consumed = End(stream, Len(handled)))'
    BY <1>1, <1>2, <2>3, <2>5
  <2>7. ASSUME NEW k \in DOMAIN handled', Intact(handled[k].from + handled[k].size)'
        PROVE  k \in DOMAIN stream' /\ handled'[k] = Payload(stream, k)'
    <3>1. CASE k \in 1 .. h
      <4>1. handled'[k] = handled[k] /\ k \in DOMAIN handled
        BY <1>1, <2>3, <3>1
      <4>2. Intact(handled[k].from + handled[k].size)
        BY <1>3, <2>7, <4>1 DEF Intact
      <4> QED
        BY <1>2, <4>1, <4>2 DEF UplinkInv, WholeWhereIntact
    <3>2. CASE k = h + 1
      <4>1. handled'[k].from + handled'[k].size = consumed'
        BY <2>2, <2>3, <3>2
      <4>2. Intact(consumed)'
        BY <2>7, <4>1 DEF Intact
      <4> QED
        BY <1>2, <2>3, <2>5, <3>2, <4>2
    <3> QED
      BY <1>1, <2>3, <3>1, <3>2
  <2>8. ASSUME NEW k \in DOMAIN handled'
        PROVE  handled'[k].from + handled'[k].size <= consumed'
    <3>1. CASE k \in 1 .. h
      <4>1. handled'[k] = handled[k] /\ handled[k] \in [from : Nat, size : Nat]
        BY <1>1, <2>3, <3>1, ElementOfSeq DEF h
      <4>2. handled[k].from + handled[k].size <= consumed
        BY <1>1, <3>1 DEF UplinkInv
      <4> QED
        BY <1>1, <2>1, <4>1, <4>2
    <3>2. CASE k = h + 1
      BY <2>1, <2>2, <2>3, <3>2
    <3> QED
      BY <1>1, <2>3, <3>1, <3>2
  <2>9. sending' => sendQueue' # <<>>
    BY <1>3 DEF UplinkInv
  <2>10. NextByte' > 0 /\ NextByte' <= LastByte' + 1
    BY <1>3 DEF UplinkInv
  <2> QED
    BY <1>4, <1>5, <2>1, <2>4, <2>6, <2>7, <2>8, <2>9, <2>10 DEF UplinkInv, WholeWhereIntact
<1>9. \/ UNCHANGED <<consumed, handled>>
      \/ \E size \in SizesOnWire(consumed) :
             /\ consumed + HeaderSize + size <= received + n
             /\ handled' = Append(handled, [from |-> consumed + HeaderSize, size |-> size])
             /\ consumed' = consumed + HeaderSize + size
  <2> SUFFICES ASSUME ~UNCHANGED <<consumed, handled>>
               PROVE  \E size \in SizesOnWire(consumed) :
                          /\ consumed + HeaderSize + size <= received + n
                          /\ handled' = Append(handled, [from |-> consumed + HeaderSize,
                                                        size |-> size])
                          /\ consumed' = consumed + HeaderSize + size
    OBVIOUS
  <2>1. PICK size \in SizesOnWire(consumed) :
            IF IsComplete((received + n) - consumed, size)
            THEN /\ handled' = Append(handled, [from |-> consumed + HeaderSize, size |-> size])
                 /\ consumed' = consumed + HeaderSize + size
            ELSE UNCHANGED <<consumed, handled>>
    BY <1>2, Zenon DEF ReadMessage
  <2>2. IsComplete((received + n) - consumed, size)
    BY <2>1
  <2>3. consumed + HeaderSize + size <= received + n
    BY <1>1, <1>6, <2>2 DEF IsComplete, HeaderSize
  <2> QED
    BY <2>1, <2>2, <2>3
<1> QED
  BY <1>7, <1>8, <1>9

LEMMA UplinkStep == UplinkInv /\ [UplinkNext]_uplinkVars => UplinkInv'
<1> SUFFICES ASSUME UplinkInv, [UplinkNext]_uplinkVars PROVE UplinkInv'
  OBVIOUS
<1>1. CASE \E size \in Sizes : SendMessage(size)
  BY <1>1, SendMessageKeeps
<1>2. CASE SendAll
  <2>1. 0 \in Nat
    OBVIOUS
  <2> QED
    BY <1>2, <2>1, SendKeeps
<1>3. CASE \E n \in 0 .. Total(stream) : SendPart(n) \/ SendTimeout(n)
  <2>1. Total(stream) \in Nat
    BY EndProperties DEF UplinkInv, UplinkTypeOK
  <2>2. \A n \in 0 .. Total(stream) : n \in Nat
    BY <2>1
  <2> QED
    BY <1>3, <2>2, SendKeeps
<1>4. CASE Update \/ SendError \/ UNCHANGED uplinkVars
  <2>1. /\ UNCHANGED vars /\ stream' = stream /\ handled' = handled
        /\ sendQueue' = sendQueue /\ wire' = wire /\ repeats' = repeats
    BY <1>4 DEF Update, SendError, uplinkVars, sendVars, vars
  <2>2. NothingLost' /\ NextByte' = NextByte /\ LastByte' = LastByte
    BY <2>1 DEF UplinkInv, NothingLost, Intact, NextByte, LastByte, vars
  <2>3. /\ WholeWhereIntact'
        /\ (Intact(consumed) => Len(handled) <= Len(stream)
                                /\ consumed = End(stream, Len(handled)))'
        /\ (Intact(received) => BufferInv)'
        /\ received' \in Nat /\ consumed' \in Nat /\ consumed' <= received'
        /\ \A k \in DOMAIN handled' : handled'[k].from + handled'[k].size <= consumed'
    BY <2>1, ReadSideKeeps
  <2>4. /\ sending' \in BOOLEAN /\ running' \in BOOLEAN
        /\ sending' => sendQueue # <<>>
    <3>1. /\ sending \in BOOLEAN /\ running \in BOOLEAN
          /\ sending => sendQueue # <<>>
      BY Zenon DEF UplinkInv, UplinkTypeOK
    <3>2. CASE Update
      BY <3>1, <3>2, Zenon DEF Update
    <3>3. CASE SendError
      BY <3>1, <3>3, Zenon DEF SendError
    <3>4. CASE UNCHANGED uplinkVars
      BY <3>1, <3>4, Zenon DEF uplinkVars, sendVars
    <3> QED
      BY <1>4, <3>2, <3>3, <3>4
  <2>5. UplinkTypeOK'
    BY <2>1, <2>3, <2>4 DEF UplinkInv, UplinkTypeOK
  <2> QED
    BY <2>1, <2>2, <2>3, <2>4, <2>5 DEF UplinkInv
<1>5. CASE \E n \in 1 .. ReadSize : ServerReads(n)
  BY <1>5, ServerReadsKeeps
<1>6. CASE ServerReadFails
  <2>1. /\ UNCHANGED sendVars
        /\ UNCHANGED <<stream, received, consumed, handled, coalesced>>
        /\ ReadFails
    BY <1>6 DEF ServerReadFails, ReadFails
  <2>2. ASSUME Intact(received)' PROVE BufferInv'
    <3>1. BufferInv
      BY <2>1, <2>2 DEF UplinkInv, Intact, sendVars
    <3> QED
      BY <2>1, <3>1, BufferStep DEF Next
  <2> QED
    BY <2>1, <2>2
       DEF UplinkInv, UplinkTypeOK, sendVars, NothingLost, WholeWhereIntact, Intact,
           NextByte, LastByte
<1> QED
  BY <1>1, <1>2, <1>3, <1>4, <1>5, <1>6 DEF UplinkNext

\* The inductive invariant of the uplink.
THEOREM UplinkInvariance == UplinkSpec => []UplinkInv
<1> QED
  BY UplinkInitInv, UplinkStep, PTL DEF UplinkSpec

\* Behind the client's send loop the server reads a stream as ReadBuffer has it,
\* so what is proved of it holds here, as long as nothing the server reads was
\* given to the socket again after a timeout.
THEOREM UplinkImplementsReadBuffer == UplinkSpec /\ []Intact(received) => Spec
<1>1. UplinkInit => Init
  BY DEF UplinkInit
<1> QED
  BY <1>1, UplinkInvariance, UplinkStepIsReadStep, PTL DEF UplinkSpec, Spec

\* send gives the socket every byte of the stream, in order and each a first time
\* before the next, however little it takes at a time and whatever it has to take
\* again, and the server reads nothing else.
THEOREM SocketGetsAll == UplinkSpec => []NothingLost
<1>1. UplinkInv => NothingLost
  BY DEF UplinkInv
<1> QED
  BY UplinkInvariance, <1>1, PTL

\* A timeout in the middle of a string harms no request that is complete before
\* the bytes that come again.
THEOREM RequestsBeforeAreWhole == UplinkSpec => []RequestsWhole
<1>1. UplinkInv => RequestsWhole
  <2> SUFFICES ASSUME UplinkInv, NEW k \in DOMAIN handled
               PROVE  handled[k].from + handled[k].size <= received
    BY DEF UplinkInv, WholeWhereIntact, RequestsWhole
  <2>1. /\ consumed \in Nat /\ received \in Nat /\ consumed <= received
        /\ handled[k].from + handled[k].size <= consumed
    BY DEF UplinkInv, UplinkTypeOK
  <2>2. handled[k].from + handled[k].size \in Nat
    <3>1. handled \in Seq([from : Nat, size : Nat]) /\ k \in 1 .. Len(handled)
      BY LenProperties DEF UplinkInv, UplinkTypeOK
    <3>2. handled[k] \in [from : Nat, size : Nat]
      BY <3>1, ElementOfSeq
    <3> QED
      BY <3>2
  <2> QED
    BY <2>1, <2>2
<1> QED
  BY UplinkInvariance, <1>1, PTL

\* Nor does it leave one waiting.
THEOREM NothingBeforeIsLeft == UplinkSpec => []NoBacklogBefore
<1>1. UplinkInv => NoBacklogBefore
  BY DEF UplinkInv, BufferInv, NoBacklogBefore
<1> QED
  BY UplinkInvariance, <1>1, PTL
=============================================================================

------------------------- MODULE NetReceiveTheorems -------------------------
(***************************************************************************)
(* Theorems about streams of framed messages, for any sizes and any number *)
(* of them, and about NetReceive: whatever chunks the bytes come in, what  *)
(* receive takes out of recvQueue are the messages, whole and in order.    *)
(***************************************************************************)
EXTENDS NetReceive, SequenceTheorems, WellFoundedInduction, TLAPS

\* Every non-empty set of natural numbers has a least element.  The proofs by
\* induction below take the least number for which a claim is false.
LEMMA LeastNumber ==
    ASSUME NEW T, T \subseteq Nat, T # {}
    PROVE  \E x \in T : \A y \in T : x <= y
<1>1. PICK x \in T : \A y \in T : ~ (<<y, x>> \in OpToRel(<, Nat))
  BY NatLessThanWellFounded, WFMin
<1>2. \A y \in T : ~(y < x)
  BY <1>1 DEF OpToRel
<1> QED
  BY <1>2
-----------------------------------------------------------------------------
\* The sums are what the recursion says: there is a function that satisfies it.
LEMMA SumsDefined ==
    ASSUME NEW s \in Seq(Nat)
    PROVE  Sums(s) = [k \in 0 .. Len(s) |->
                         IF k = 0 THEN 0 ELSE Sums(s)[k - 1] + s[k]]
<1> DEFINE IsSums(f, n) ==
               f = [k \in 0 .. n |-> IF k = 0 THEN 0 ELSE f[k - 1] + s[k]]
           Bad == {n \in 0 .. Len(s) : ~ \E f : IsSums(f, n)}
<1>0. Len(s) \in Nat
  BY LenProperties
<1>1. Bad = {}
  <2> SUFFICES ASSUME Bad # {} PROVE FALSE
    OBVIOUS
  <2>1. PICK n \in Bad : \A m \in Bad : n <= m
    BY LeastNumber, Bad \subseteq Nat, <1>0
  <2>2. CASE n = 0
    <3>1. IsSums([k \in 0 .. 0 |-> 0], 0)
      OBVIOUS
    <3> QED
      BY <2>1, <2>2, <3>1
  <2>3. CASE n > 0
    <3>0. n \in 0 .. Len(s) /\ n - 1 \in 0 .. Len(s) /\ ~(n <= n - 1)
      BY <2>3, <1>0
    <3>1. n - 1 \notin Bad
      <4> HIDE DEF Bad
      <4> QED
        BY <2>1, <3>0
    <3>2. PICK f : IsSums(f, n - 1)
      BY <3>0, <3>1
    <3> DEFINE g == [k \in 0 .. n |-> IF k = n THEN f[n - 1] + s[n] ELSE f[k]]
    <3>3. \A k \in 0 .. n : g[k] = IF k = 0 THEN 0 ELSE g[k - 1] + s[k]
      <4> TAKE k \in 0 .. n
      <4>0. n \in Nat /\ k \in Nat
        BY <1>0
      <4>1. CASE k = n
        BY <4>0, <4>1, <2>3
      <4>2. CASE k # n
        <5>1. k \in 0 .. n - 1
          BY <4>0, <4>2
        <5>2. f[k] = IF k = 0 THEN 0 ELSE f[k - 1] + s[k]
          BY <3>2, <5>1
        <5>3. g[k] = f[k]
          BY <4>2
        <5>4. k # 0 => g[k - 1] = f[k - 1]
          BY <4>0, <5>1
        <5> QED
          BY <5>2, <5>3, <5>4
      <4> QED
        BY <4>1, <4>2
    <3>4. IsSums(g, n)
      BY <3>3
    <3> QED
      BY <2>1, <3>4
  <2> QED
    BY <2>1, <2>2, <2>3, <1>0
<1>2. \E f : IsSums(f, Len(s))
  BY <1>0, <1>1
<1>3. Sums(s) = CHOOSE f : IsSums(f, Len(s))
  BY DEF Sums
<1> QED
  BY <1>2, <1>3

LEMMA SumsProperties ==
    ASSUME NEW s \in Seq(Nat)
    PROVE  /\ Sums(s)[0] = 0
           /\ \A k \in 1 .. Len(s) : Sums(s)[k] = Sums(s)[k - 1] + s[k]
           /\ \A k \in 0 .. Len(s) : Sums(s)[k] \in Nat
<1> DEFINE Bad == {k \in 0 .. Len(s) : Sums(s)[k] \notin Nat}
<1>0. Len(s) \in Nat
  BY LenProperties
<1>1. \A k \in 0 .. Len(s) : Sums(s)[k] = IF k = 0 THEN 0 ELSE Sums(s)[k - 1] + s[k]
  <2> DEFINE S == Sums(s)
  <2>1. S = [k \in 0 .. Len(s) |-> IF k = 0 THEN 0 ELSE S[k - 1] + s[k]]
    BY SumsDefined
  <2> HIDE DEF S
  <2>2. \A k \in 0 .. Len(s) : S[k] = IF k = 0 THEN 0 ELSE S[k - 1] + s[k]
    BY <2>1
  <2> QED
    BY <2>2 DEF S
<1>2. Bad = {}
  <2> SUFFICES ASSUME Bad # {} PROVE FALSE
    OBVIOUS
  <2>1. PICK n \in Bad : \A m \in Bad : n <= m
    BY LeastNumber, Bad \subseteq Nat, <1>0
  <2>2. n > 0
    BY <2>1, <1>1, <1>0
  <2>3. n - 1 \in 0 .. Len(s) /\ n - 1 \notin Bad
    BY <2>1, <2>2, <1>0
  <2>4. s[n] \in Nat
    BY <2>2, <1>0, ElementOfSeq
  <2> QED
    BY <2>1, <2>2, <2>3, <2>4, <1>1
<1> QED
  BY <1>0, <1>1, <1>2

\* Sums of the first elements are the same in two sequences that begin alike.
LEMMA SumsOfPrefix ==
    ASSUME NEW s \in Seq(Nat), NEW t \in Seq(Nat), NEW n \in Nat,
           n <= Len(s), n <= Len(t), \A k \in 1 .. n : s[k] = t[k]
    PROVE  \A k \in 0 .. n : Sums(s)[k] = Sums(t)[k]
<1> DEFINE Bad == {k \in 0 .. n : Sums(s)[k] # Sums(t)[k]}
<1>0. Len(s) \in Nat /\ Len(t) \in Nat
  BY LenProperties
<1> SUFFICES ASSUME Bad # {} PROVE FALSE
  OBVIOUS
<1>1. PICK m \in Bad : \A k \in Bad : m <= k
  BY LeastNumber, Bad \subseteq Nat
<1>2. m > 0
  BY <1>1, SumsProperties
<1>3. Sums(s)[m - 1] = Sums(t)[m - 1]
  BY <1>1, <1>2
<1>4. m \in 1 .. Len(s) /\ m \in 1 .. Len(t) /\ s[m] = t[m]
  BY <1>0, <1>2
<1> QED
  BY <1>1, <1>3, <1>4, SumsProperties

\* The sums grow.
LEMMA SumsGrow ==
    ASSUME NEW s \in Seq(Nat), NEW j \in 0 .. Len(s), NEW k \in 0 .. Len(s), j <= k
    PROVE  Sums(s)[j] <= Sums(s)[k]
<1> DEFINE Bad == {i \in j .. Len(s) : Sums(s)[j] > Sums(s)[i]}
<1>0. /\ Len(s) \in Nat /\ j \in Nat
      /\ \A i \in 0 .. Len(s) : Sums(s)[i] \in Nat
  BY LenProperties, SumsProperties
<1> SUFFICES ASSUME Bad # {} PROVE FALSE
  BY <1>0
<1>1. PICK m \in Bad : \A i \in Bad : m <= i
  BY LeastNumber, Bad \subseteq Nat, <1>0
<1>2. m > j
  BY <1>1, <1>0
<1>3. m - 1 \in j .. Len(s) /\ ~(m <= m - 1)
  BY <1>2, <1>0
<1>4. Sums(s)[j] <= Sums(s)[m - 1]
  <2>1. m - 1 \notin Bad
    <3> HIDE DEF Bad
    <3> QED
      BY <1>1, <1>3
  <2>2. Sums(s)[j] \in Nat /\ Sums(s)[m - 1] \in Nat
    BY <1>0, <1>3
  <2> QED
    BY <1>3, <2>1, <2>2
<1>5. m \in 1 .. Len(s) /\ s[m] \in Nat
  BY <1>0, <1>2, ElementOfSeq
<1>6. Sums(s)[m] = Sums(s)[m - 1] + s[m]
  BY <1>5, SumsProperties
<1>7. Sums(s)[j] > Sums(s)[m]
  BY <1>1
<1>8. /\ Sums(s)[j] \in Nat /\ Sums(s)[m] \in Nat /\ Sums(s)[m - 1] \in Nat
  BY <1>0, <1>3, <1>5
<1> QED
  BY <1>4, <1>5, <1>6, <1>7, <1>8

\* What the front of a queue has is no longer in the sum of the rest ...
LEMMA SumOfTail ==
    ASSUME NEW q \in Seq(Nat), q # <<>>
    PROVE  Sum(q) = Head(q) + Sum(Tail(q))
<1> DEFINE r == Tail(q)
           Bad == {k \in 0 .. Len(r) : Sums(r)[k] + q[1] # Sums(q)[k + 1]}
<1>0. /\ Len(q) \in Nat /\ Len(q) >= 1 /\ Head(q) = q[1] /\ q[1] \in Nat
      /\ r \in Seq(Nat) /\ Len(r) = Len(q) - 1
      /\ \A k \in 1 .. Len(r) : r[k] = q[k + 1]
  <2>1. Len(q) \in Nat /\ Len(q) >= 1
    BY EmptySeq, LenProperties
  <2> QED
    BY <2>1, HeadTailProperties, ElementOfSeq, SMT
<1> HIDE DEF r
<1>1. \A k \in 1 .. Len(q) : Sums(q)[k] = Sums(q)[k - 1] + q[k]
  BY SumsProperties
<1>2. \A k \in 1 .. Len(r) : Sums(r)[k] = Sums(r)[k - 1] + r[k]
  BY <1>0, SumsProperties
<1>3. Sums(q)[0] = 0 /\ Sums(r)[0] = 0
  BY <1>0, SumsProperties
<1>4. \A k \in 0 .. Len(r) : Sums(r)[k] \in Nat
  BY <1>0, SumsProperties
<1>5. Bad = {}
  <2> SUFFICES ASSUME Bad # {} PROVE FALSE
    OBVIOUS
  <2>1. PICK m \in Bad : \A i \in Bad : m <= i
    BY LeastNumber, Bad \subseteq Nat, <1>0
  <2>2. m > 0
    BY <2>1, <1>0, <1>1, <1>3
  <2>3. m \in 1 .. Len(r) /\ m + 1 \in 1 .. Len(q) /\ m - 1 \in 0 .. Len(r) /\ ~(m <= m - 1)
    BY <2>2, <1>0
  <2>4. Sums(r)[m - 1] + q[1] = Sums(q)[m]
    BY <2>1, <2>3
  <2>5. Sums(r)[m] = Sums(r)[m - 1] + r[m] /\ r[m] = q[m + 1]
    BY <1>0, <1>2, <2>3
  <2>6. Sums(q)[m + 1] = Sums(q)[m] + q[m + 1]
    BY <1>1, <2>3
  <2>7. Sums(r)[m] + q[1] # Sums(q)[m + 1]
    BY <2>1
  <2>8. q[m + 1] \in Nat /\ Sums(r)[m - 1] \in Nat
    BY <1>4, <2>3, ElementOfSeq
  <2> QED
    BY <2>4, <2>5, <2>6, <2>7, <2>8, <1>0
<1>6. Sums(r)[Len(r)] + q[1] = Sums(q)[Len(q)]
  <2>1. Len(r) \in 0 .. Len(r) /\ Len(r) + 1 = Len(q)
    BY <1>0
  <2> QED
    BY <1>5, <2>1
<1> QED
  BY <1>0, <1>4, <1>6 DEF Sum, r

\* ... what is appended is added, what is put in front is added, and nothing is
\* below zero or above the sum.
LEMMA SumOfAppend ==
    ASSUME NEW q \in Seq(Nat), NEW n \in Nat
    PROVE  Sum(Append(q, n)) = Sum(q) + n
<1> DEFINE r == Append(q, n)
<1>1. /\ Len(q) \in Nat /\ r \in Seq(Nat) /\ Len(r) = Len(q) + 1
      /\ \A k \in 1 .. Len(q) : r[k] = q[k]
      /\ r[Len(q) + 1] = n
  BY AppendProperties, LenProperties
<1> HIDE DEF r
<1>2. Sums(r)[Len(q)] = Sums(q)[Len(q)]
  <2>1. Len(q) <= Len(q) /\ Len(q) <= Len(r) /\ Len(q) \in 0 .. Len(q)
    BY <1>1
  <2>2. \A k \in 0 .. Len(q) : Sums(r)[k] = Sums(q)[k]
    BY <1>1, <2>1, SumsOfPrefix, Zenon
  <2> QED
    BY <2>1, <2>2
<1>3. Sums(r)[Len(q) + 1] = Sums(r)[Len(q)] + r[Len(q) + 1]
  BY <1>1, SumsProperties
<1> QED
  BY <1>1, <1>2, <1>3 DEF Sum, r

LEMMA SumOfFront ==
    ASSUME NEW q \in Seq(Nat), NEW n \in Nat
    PROVE  /\ <<n>> \o q \in Seq(Nat)
           /\ <<n>> \o q # <<>>
           /\ Head(<<n>> \o q) = n
           /\ Tail(<<n>> \o q) = q
           /\ Sum(<<n>> \o q) = n + Sum(q)
<1> DEFINE r == <<n>> \o q
<1>1. r \in Seq(Nat) /\ r # <<>> /\ Head(r) = n /\ Tail(r) = q
  OBVIOUS
<1> HIDE DEF r
<1>2. Sum(r) = n + Sum(q)
  BY <1>1, SumOfTail
<1> QED
  BY <1>1, <1>2 DEF r

LEMMA SumType ==
    ASSUME NEW q \in Seq(Nat)
    PROVE  Sum(q) \in Nat /\ Sum(<<>>) = 0
<1>1. Len(q) \in Nat
  BY LenProperties
<1>2. <<>> \in Seq(Nat) /\ Len(<<>>) = 0
  OBVIOUS
<1>3. \A s \in Seq(Nat) : Sums(s)[0] = 0 /\ \A k \in 0 .. Len(s) : Sums(s)[k] \in Nat
  BY SumsProperties
<1>4. Sum(<<>>) = 0
  BY <1>2, <1>3, Zenon DEF Sum
<1> QED
  BY <1>1, <1>3, <1>4 DEF Sum
-----------------------------------------------------------------------------
\* What the proofs use of the lengths of streams.
LEMMA Streams ==
    ASSUME NEW s \in Seq(Sizes)
    PROVE  /\ s \in Seq(Nat)
           /\ Len(s) \in Nat /\ DOMAIN s = 1 .. Len(s)
           /\ \A k \in 1 .. Len(s) : s[k] \in Sizes /\ s[k] \in Nat
<1>1. /\ Len(s) \in Nat /\ DOMAIN s = 1 .. Len(s)
      /\ \A k \in 1 .. Len(s) : s[k] \in Sizes
  BY LenProperties, ElementOfSeq
<1>2. \A k \in 1 .. Len(s) : s[k] \in Nat
  BY <1>1, FramingAssumption
<1>3. s \in [1 .. Len(s) -> Nat]
  BY <1>1, <1>2, LenProperties
<1>4. s \in Seq(Nat)
  <2>1. [1 .. Len(s) -> Nat] \in {[1 .. n -> Nat] : n \in Nat}
    BY <1>1
  <2>2. s \in UNION {[1 .. n -> Nat] : n \in Nat}
    BY <1>3, <2>1, Zenon
  <2>3. Seq(Nat) = UNION {[1 .. n -> Nat] : n \in Nat}
    BY SeqDef, Zenon
  <2> QED
    BY <2>2, <2>3, Zenon
<1> QED
  BY <1>1, <1>2, <1>4

LEMMA EndProperties ==
    ASSUME NEW s \in Seq(Sizes)
    PROVE  /\ End(s, 0) = 0
           /\ \A k \in 1 .. Len(s) : End(s, k) = End(s, k - 1) + HeaderSize + s[k]
           /\ \A k \in 0 .. Len(s) : End(s, k) \in Nat
           /\ Total(s) \in Nat
<1>1. s \in Seq(Nat) /\ Len(s) \in Nat
  BY Streams
<1>2. /\ Sums(s)[0] = 0
      /\ \A k \in 1 .. Len(s) : Sums(s)[k] = Sums(s)[k - 1] + s[k] /\ s[k] \in Nat
      /\ \A k \in 0 .. Len(s) : Sums(s)[k] \in Nat
  BY <1>1, SumsProperties, Streams
<1>3. \A k \in 1 .. Len(s) : k - 1 \in 0 .. Len(s)
  BY <1>1
<1>4. Len(s) \in 0 .. Len(s)
  BY <1>1
<1>5. End(s, 0) = 0
  BY <1>2 DEF End, HeaderSize
<1>6. \A k \in 0 .. Len(s) : End(s, k) \in Nat
  BY <1>1, <1>2 DEF End, HeaderSize
<1>7. ASSUME NEW k \in 1 .. Len(s)
      PROVE  End(s, k) = End(s, k - 1) + HeaderSize + s[k]
  <2>1. k \in Nat /\ Sums(s)[k - 1] \in Nat /\ s[k] \in Nat
    BY <1>1, <1>2, <1>3
  <2>2. Sums(s)[k] = Sums(s)[k - 1] + s[k]
    BY <1>2
  <2> QED
    BY <2>1, <2>2 DEF End, HeaderSize
<1>8. Total(s) \in Nat
  BY <1>4, <1>6 DEF Total
<1> QED
  BY <1>5, <1>6, <1>7, <1>8

\* A message takes at least its four bytes.
LEMMA EndsGrow ==
    ASSUME NEW s \in Seq(Sizes), NEW j \in 0 .. Len(s), NEW k \in 0 .. Len(s)
    PROVE  /\ j < k => End(s, j) + HeaderSize <= End(s, k)
           /\ j <= k => End(s, j) <= End(s, k)
<1>1. s \in Seq(Nat) /\ Len(s) \in Nat
  BY Streams
<1>2. Sums(s)[j] \in Nat /\ Sums(s)[k] \in Nat
  BY <1>1, SumsProperties
<1>3. j <= k => Sums(s)[j] <= Sums(s)[k]
  BY <1>1, SumsGrow
<1> QED
  BY <1>1, <1>2, <1>3 DEF End, HeaderSize

\* A message more changes nothing about the others.
LEMMA EndOfAppend ==
    ASSUME NEW s \in Seq(Sizes), NEW size \in Sizes
    PROVE  /\ Append(s, size) \in Seq(Sizes)
           /\ Len(Append(s, size)) = Len(s) + 1
           /\ \A k \in 1 .. Len(s) : Append(s, size)[k] = s[k]
           /\ \A k \in 0 .. Len(s) : End(Append(s, size), k) = End(s, k)
           /\ End(Append(s, size), Len(s) + 1) = Total(s) + HeaderSize + size
           /\ Total(Append(s, size)) = Total(s) + HeaderSize + size
<1> DEFINE r == Append(s, size)
<1>1. /\ s \in Seq(Nat) /\ Len(s) \in Nat /\ size \in Nat
      /\ r \in Seq(Sizes) /\ r \in Seq(Nat) /\ Len(r) = Len(s) + 1
      /\ \A k \in 1 .. Len(s) : r[k] = s[k]
      /\ r[Len(s) + 1] = size
  BY AppendProperties, Streams, FramingAssumption
<1> HIDE DEF r
<1>2. \A k \in 0 .. Len(s) : Sums(r)[k] = Sums(s)[k]
  <2>1. Len(s) <= Len(s) /\ Len(s) <= Len(r)
    BY <1>1
  <2> QED
    BY <1>1, <2>1, SumsOfPrefix, Zenon
<1>3. \A k \in 0 .. Len(s) : End(r, k) = End(s, k)
  BY <1>2 DEF End
<1>4. End(r, Len(s) + 1) = End(r, Len(s)) + HeaderSize + r[Len(s) + 1]
  <2>1. Len(s) + 1 \in 1 .. Len(r) /\ (Len(s) + 1) - 1 = Len(s)
    BY <1>1
  <2> QED
    BY <1>1, <2>1, EndProperties
<1>5. End(r, Len(s)) = Total(s)
  BY <1>1, <1>3 DEF Total
<1> QED
  BY <1>1, <1>3, <1>4, <1>5 DEF Total, r

\* After the first h messages the next begins, and nothing else does.
LEMMA NextBegins ==
    ASSUME NEW s \in Seq(Sizes), NEW h \in 0 .. Len(s), End(s, h) < Total(s)
    PROVE  /\ h < Len(s) /\ h + 1 \in 1 .. Len(s)
           /\ s[h + 1] \in Sizes /\ s[h + 1] \in Nat
           /\ SizesAt(s, End(s, h)) = {s[h + 1]}
           /\ Payload(s, h + 1) = [from |-> End(s, h) + HeaderSize, size |-> s[h + 1]]
           /\ End(s, h + 1) = End(s, h) + HeaderSize + s[h + 1]
           /\ End(s, h + 1) <= Total(s)
<1>1. Len(s) \in Nat /\ DOMAIN s = 1 .. Len(s) /\ h \in Nat
  BY Streams
<1>2. h < Len(s)
  <2>1. End(s, h) \in Nat /\ Total(s) \in Nat
    BY EndProperties
  <2>2. h # Len(s)
    BY <2>1 DEF Total
  <2>3. \A n \in Nat : \A i \in 0 .. n : i # n => i < n
    OBVIOUS
  <2> QED
    BY <1>1, <2>2, <2>3, Zenon
<1>3. h + 1 \in 1 .. Len(s) /\ (h + 1) - 1 = h /\ h + 1 \in 0 .. Len(s)
  BY <1>1, <1>2
<1>4. BeginsAt(s, End(s, h)) = {h + 1}
  <2>1. h + 1 \in BeginsAt(s, End(s, h))
    BY <1>1, <1>3 DEF BeginsAt
  <2>2. ASSUME NEW k \in BeginsAt(s, End(s, h)) PROVE k = h + 1
    <3>1. k \in 1 .. Len(s) /\ End(s, k - 1) = End(s, h)
      BY <1>1 DEF BeginsAt
    <3>2. k - 1 \in 0 .. Len(s) /\ End(s, h) \in Nat
      BY <1>1, <3>1, EndProperties
    <3>3. ~(k - 1 < h) /\ ~(h < k - 1)
      BY <3>1, <3>2, EndsGrow DEF HeaderSize
    <3> QED
      BY <1>1, <3>1, <3>3
  <2> QED
    BY <2>1, <2>2
<1>5. SizesAt(s, End(s, h)) = {s[h + 1]}
  BY <1>4 DEF SizesAt
<1>6. End(s, h + 1) = End(s, h) + HeaderSize + s[h + 1]
  BY <1>3, EndProperties
<1>7. End(s, h + 1) <= Total(s)
  BY <1>1, <1>3, EndsGrow DEF Total
<1> QED
  BY <1>2, <1>3, <1>5, <1>6, <1>7, Streams DEF Payload
-----------------------------------------------------------------------------
\* What the inductive invariant says of stream, queue and cursor.
LEMMA ReceiveInvIs ==
    ReceiveInv <=>
        /\ TypeOK
        /\ Len(handled) <= Len(stream)
        /\ Len(stream) <= MaxMessages
        /\ received <= Total(stream)
        /\ received - Sum(recvQueue) = End(stream, Len(handled))
        /\ \A k \in DOMAIN handled : handled[k] = Payload(stream, k)
        /\ \A i \in DOMAIN recvQueue : recvQueue[i] > 0
BY DEF ReceiveInv, HandledWhole, TypeOK, Popped, QueueBytes

LEMMA ReceiveInvThen ==
    ASSUME /\ TypeOK'
           /\ Len(handled') <= Len(stream')
           /\ Len(stream') <= MaxMessages
           /\ received' <= Total(stream')
           /\ received' - Sum(recvQueue') = End(stream', Len(handled'))
           /\ \A k \in DOMAIN handled' : handled'[k] = Payload(stream', k)
           /\ \A i \in DOMAIN recvQueue' : recvQueue'[i] > 0
    PROVE  ReceiveInv'
BY DEF ReceiveInv, HandledWhole, TypeOK, Popped, QueueBytes

LEMMA ReceiveInit == Init => ReceiveInv
<1> SUFFICES ASSUME Init PROVE ReceiveInv
  OBVIOUS
<1>1. /\ stream = <<>> /\ received = 0 /\ recvQueue = <<>> /\ handled = <<>>
      /\ looping = FALSE /\ gaveUpFor = 0 /\ fragmented = FALSE
  BY DEF Init
<1>2. /\ stream \in Seq(Sizes) /\ Len(stream) = 0
      /\ handled \in Seq([from : Nat, size : Sizes]) /\ Len(handled) = 0
      /\ DOMAIN handled = {} /\ DOMAIN recvQueue = {}
      /\ recvQueue \in Seq(Nat)
  BY <1>1
<1>3. Total(stream) = 0 /\ End(stream, 0) = 0
  BY <1>2, EndProperties DEF Total
<1>4. Sum(recvQueue) = 0
  BY <1>1, <1>2, SumType, Zenon
<1>5. TypeOK
  BY <1>1, <1>2 DEF TypeOK
<1> QED
  BY <1>1, <1>2, <1>3, <1>4, <1>5, FramingAssumption, ReceiveInvIs

\* The server sends a message.
LEMMA ServerSendsKeeps ==
    ASSUME ReceiveInv, NEW size \in Sizes, ServerSends(size)
    PROVE  ReceiveInv'
<1>1. /\ TypeOK /\ Len(handled) <= Len(stream) /\ received <= Total(stream)
      /\ received - Sum(recvQueue) = End(stream, Len(handled))
      /\ \A k \in DOMAIN handled : handled[k] = Payload(stream, k)
      /\ \A i \in DOMAIN recvQueue : recvQueue[i] > 0
  BY ReceiveInvIs
<1>2. /\ stream' = Append(stream, size) /\ Len(stream) < MaxMessages
      /\ received' = received /\ recvQueue' = recvQueue /\ handled' = handled
      /\ looping' = looping /\ gaveUpFor' = gaveUpFor /\ fragmented' = fragmented
  BY DEF ServerSends
<1>3. /\ stream \in Seq(Sizes) /\ received \in Nat
      /\ Len(stream) \in Nat /\ Len(handled) \in Nat /\ DOMAIN handled = 1 .. Len(handled)
      /\ size \in Nat /\ Total(stream) \in Nat
  BY <1>1, LenProperties, EndProperties, FramingAssumption DEF TypeOK
<1>4. /\ stream' \in Seq(Sizes) /\ Len(stream') = Len(stream) + 1
      /\ \A k \in 1 .. Len(stream) : stream'[k] = stream[k]
      /\ \A k \in 0 .. Len(stream) : End(stream', k) = End(stream, k)
      /\ Total(stream') = Total(stream) + HeaderSize + size
  BY <1>2, <1>3, EndOfAppend
<1>5. TypeOK'
  BY <1>1, <1>2, <1>4 DEF TypeOK
<1>6. Len(handled') <= Len(stream') /\ Len(stream') <= MaxMessages
  <2>1. Len(stream) + 1 <= MaxMessages
    BY <1>2, <1>3, FramingAssumption
  <2> QED
    BY <1>1, <1>2, <1>3, <1>4, <2>1
<1>7. received' <= Total(stream')
  BY <1>1, <1>2, <1>3, <1>4 DEF HeaderSize
<1>8. received' - Sum(recvQueue') = End(stream', Len(handled'))
  <2>1. Len(handled) \in 0 .. Len(stream)
    BY <1>1, <1>3
  <2> QED
    BY <1>1, <1>2, <1>4, <2>1
<1>9. ASSUME NEW k \in DOMAIN handled' PROVE handled'[k] = Payload(stream', k)
  <2>1. k \in DOMAIN handled /\ k - 1 \in 0 .. Len(stream) /\ k \in 1 .. Len(stream)
    BY <1>1, <1>2, <1>3
  <2> QED
    BY <1>1, <1>2, <1>4, <2>1 DEF Payload
<1> QED
  BY <1>1, <1>2, <1>5, <1>6, <1>7, <1>8, <1>9, ReceiveInvThen

\* A chunk more at the end of the queue.
LEMMA ReadSocketKeeps ==
    ASSUME ReceiveInv, NEW n \in Nat, ReadSocket(n)
    PROVE  ReceiveInv'
<1>1. /\ TypeOK /\ Len(handled) <= Len(stream) /\ received <= Total(stream)
      /\ Len(stream) <= MaxMessages
      /\ received - Sum(recvQueue) = End(stream, Len(handled))
      /\ \A k \in DOMAIN handled : handled[k] = Payload(stream, k)
      /\ \A i \in DOMAIN recvQueue : recvQueue[i] > 0
  BY ReceiveInvIs
<1>2. /\ n <= Total(stream) - received /\ received' = received + n
      /\ recvQueue' = IF n = 0 THEN recvQueue ELSE Append(recvQueue, n)
      /\ looping' = TRUE /\ gaveUpFor' = 0 /\ fragmented' \in BOOLEAN
      /\ stream' = stream /\ handled' = handled
  BY DEF ReadSocket, TypeOK
<1>3. /\ received \in Nat /\ recvQueue \in Seq(Nat) /\ Total(stream) \in Nat
      /\ Sum(recvQueue) \in Nat /\ received' \in Nat
  BY <1>1, <1>2, EndProperties, SumType DEF TypeOK
<1>4. /\ recvQueue' \in Seq(Nat)
      /\ Sum(recvQueue') = Sum(recvQueue) + n
      /\ \A i \in DOMAIN recvQueue' : recvQueue'[i] > 0
  <2>1. CASE n = 0
    BY <1>1, <1>2, <1>3, <2>1
  <2>2. CASE n # 0
    <3>1. recvQueue' = Append(recvQueue, n)
      BY <1>2, <2>2
    <3>2. /\ recvQueue' \in Seq(Nat) /\ Len(recvQueue) \in Nat
          /\ DOMAIN recvQueue' = 1 .. Len(recvQueue) + 1
          /\ DOMAIN recvQueue = 1 .. Len(recvQueue)
          /\ \A i \in 1 .. Len(recvQueue) : recvQueue'[i] = recvQueue[i]
          /\ recvQueue'[Len(recvQueue) + 1] = n
      BY <1>3, <3>1, AppendProperties, LenProperties
    <3>3. ASSUME NEW i \in DOMAIN recvQueue' PROVE recvQueue'[i] > 0
      <4>1. i \in 1 .. Len(recvQueue) \/ i = Len(recvQueue) + 1
        BY <3>2
      <4> QED
        BY <1>1, <2>2, <3>2, <4>1
    <3> QED
      BY <1>3, <3>1, <3>2, <3>3, SumOfAppend
  <2> QED
    BY <2>1, <2>2
<1>5. TypeOK'
  <2>1. 0 \in Nat /\ TRUE \in BOOLEAN
    OBVIOUS
  <2> QED
    BY <1>1, <1>2, <1>3, <1>4, <2>1, Zenon DEF TypeOK
<1>6. received' - Sum(recvQueue') = End(stream, Len(handled)) /\ received' <= Total(stream)
  BY <1>1, <1>2, <1>3, <1>4
<1> QED
  BY <1>1, <1>2, <1>4, <1>5, <1>6, ReceiveInvThen

\* As long as Queue:size is at most one, concatUntil looks at the front only.
LEMMA FrontOnly ==
    ASSUME NEW q \in Seq(Nat), q # <<>>, NEW n \in Nat, ConcatUntil(q, n)
    PROVE  Head(q) >= n
<1>1. Len(q) \in Nat /\ Len(q) >= 1
  BY EmptySeq, LenProperties
<1>2. 1 .. QueueSize(q) - 1 = {}
  BY <1>1 DEF QueueSize
<1> QED
  BY <1>2 DEF ConcatUntil

\* A message is popped: the front of the queue begins with it and has all of it.
LEMMA HandleNextKeeps ==
    ASSUME ReceiveInv, HandleNext
    PROVE  ReceiveInv'
<1> DEFINE h == Len(handled)
           front == Head(recvQueue)
           rest == Tail(recvQueue)
<1>1. /\ TypeOK /\ h <= Len(stream) /\ received <= Total(stream)
      /\ Len(stream) <= MaxMessages
      /\ received - Sum(recvQueue) = End(stream, h)
      /\ \A k \in DOMAIN handled : handled[k] = Payload(stream, k)
      /\ \A i \in DOMAIN recvQueue : recvQueue[i] > 0
  BY ReceiveInvIs
<1>2. /\ recvQueue # <<>> /\ looping
      /\ ConcatUntil(recvQueue, HeaderSize)
      /\ \E size \in SizesAt(stream, End(stream, h)) :
          /\ ConcatUntil(recvQueue, size + HeaderSize)
          /\ handled' = Append(handled, [from |-> End(stream, h) + HeaderSize, size |-> size])
          /\ recvQueue' = IF front > size + HeaderSize
                          THEN <<front - size - HeaderSize>> \o rest
                          ELSE rest
      /\ UNCHANGED <<stream, received, looping, gaveUpFor, fragmented>>
  BY <1>1 DEF HandleNext, Popped, QueueBytes
<1>3. /\ stream \in Seq(Sizes) /\ received \in Nat /\ recvQueue \in Seq(Nat)
      /\ handled \in Seq([from : Nat, size : Sizes])
      /\ Len(stream) \in Nat /\ h \in Nat /\ DOMAIN handled = 1 .. h
      /\ Total(stream) \in Nat /\ HeaderSize \in Nat
  BY <1>1, LenProperties, EndProperties DEF TypeOK, HeaderSize
<1>4. /\ front \in Nat /\ rest \in Seq(Nat) /\ Sum(rest) \in Nat
      /\ Sum(recvQueue) = front + Sum(rest) /\ Sum(recvQueue) \in Nat
      /\ \A i \in DOMAIN rest : rest[i] > 0
  <2>1. /\ Len(recvQueue) \in Nat /\ Len(recvQueue) >= 1
        /\ DOMAIN recvQueue = 1 .. Len(recvQueue)
    BY <1>2, <1>3, EmptySeq, LenProperties
  <2>2. /\ front \in Nat /\ rest \in Seq(Nat) /\ Len(rest) = Len(recvQueue) - 1
        /\ \A i \in 1 .. Len(rest) : rest[i] = recvQueue[i + 1]
    BY <1>2, <1>3, <2>1, HeadTailProperties, ElementOfSeq, SMT
  <2>3. DOMAIN rest = 1 .. Len(rest)
    BY <2>2, LenProperties
  <2>4. \A i \in 1 .. Len(rest) : i + 1 \in 1 .. Len(recvQueue)
    BY <2>1, <2>2
  <2>5. \A i \in DOMAIN rest : rest[i] > 0
    BY <1>1, <2>1, <2>2, <2>3, <2>4
  <2> QED
    BY <1>2, <1>3, <2>2, <2>5, SumOfTail, SumType
<1> HIDE DEF h, front, rest
<1>5. front >= HeaderSize
  BY <1>2, <1>3, FrontOnly DEF front
<1>6. h \in 0 .. Len(stream) /\ End(stream, h) \in Nat
  BY <1>1, <1>3, EndProperties
<1>7. End(stream, h) < Total(stream)
  BY <1>1, <1>3, <1>4, <1>5, <1>6 DEF HeaderSize
<1>8. /\ h < Len(stream) /\ h + 1 \in 1 .. Len(stream)
      /\ stream[h + 1] \in Sizes /\ stream[h + 1] \in Nat
      /\ SizesAt(stream, End(stream, h)) = {stream[h + 1]}
      /\ Payload(stream, h + 1) = [from |-> End(stream, h) + HeaderSize, size |-> stream[h + 1]]
      /\ End(stream, h + 1) = End(stream, h) + HeaderSize + stream[h + 1]
  BY <1>3, <1>6, <1>7, NextBegins
<1>9. /\ ConcatUntil(recvQueue, stream[h + 1] + HeaderSize)
      /\ handled' = Append(handled, Payload(stream, h + 1))
      /\ recvQueue' = IF front > stream[h + 1] + HeaderSize
                      THEN <<front - stream[h + 1] - HeaderSize>> \o rest
                      ELSE rest
  BY <1>2, <1>8
<1>10. front >= stream[h + 1] + HeaderSize
  <2>1. stream[h + 1] + HeaderSize \in Nat
    BY <1>3, <1>8
  <2> QED
    BY <1>2, <1>3, <1>9, <2>1, FrontOnly DEF front
<1>11. /\ recvQueue' \in Seq(Nat)
       /\ Sum(recvQueue') = Sum(recvQueue) - (stream[h + 1] + HeaderSize)
       /\ \A i \in DOMAIN recvQueue' : recvQueue'[i] > 0
  <2>1. CASE front > stream[h + 1] + HeaderSize
    <3> DEFINE part == front - stream[h + 1] - HeaderSize
    <3>1. part \in Nat /\ part > 0
      BY <1>3, <1>4, <1>8, <2>1
    <3>2. recvQueue' = <<part>> \o rest
      BY <1>9, <2>1
    <3> HIDE DEF part
    <3>3. /\ recvQueue' \in Seq(Nat) /\ Sum(recvQueue') = part + Sum(rest)
      BY <1>4, <3>1, <3>2, SumOfFront
    <3>4. Len(rest) \in Nat /\ DOMAIN rest = 1 .. Len(rest)
      BY <1>4, LenProperties
    <3>5. /\ DOMAIN recvQueue' = 1 .. Len(rest) + 1
          /\ recvQueue'[1] = part
          /\ \A i \in 2 .. Len(rest) + 1 : recvQueue'[i] = rest[i - 1]
      BY <1>4, <3>1, <3>2, <3>4
    <3>6. ASSUME NEW i \in DOMAIN recvQueue' PROVE recvQueue'[i] > 0
      <4>1. i = 1 \/ (i \in 2 .. Len(rest) + 1 /\ i - 1 \in 1 .. Len(rest))
        BY <3>4, <3>5
      <4> QED
        BY <1>4, <3>1, <3>4, <3>5, <4>1
    <3> QED
      BY <1>3, <1>4, <1>8, <3>3, <3>6 DEF part
  <2>2. CASE ~(front > stream[h + 1] + HeaderSize)
    <3>0. stream[h + 1] + HeaderSize \in Nat /\ front \in Nat
      BY <1>4, <1>8 DEF HeaderSize
    <3>1. recvQueue' = rest /\ front = stream[h + 1] + HeaderSize
      BY <1>9, <1>10, <2>2, <3>0
    <3> QED
      BY <1>4, <3>1
  <2> QED
    BY <2>1, <2>2
<1>12. Payload(stream, h + 1) \in [from : Nat, size : Sizes]
  BY <1>3, <1>6, <1>8
<1>13. /\ handled' \in Seq([from : Nat, size : Sizes])
       /\ Len(handled') = h + 1 /\ DOMAIN handled' = 1 .. h + 1
       /\ \A k \in 1 .. h : handled'[k] = handled[k]
       /\ handled'[h + 1] = Payload(stream, h + 1)
  BY <1>3, <1>9, <1>12, AppendProperties, LenProperties DEF h
<1>14. TypeOK'
  BY <1>1, <1>2, <1>11, <1>13 DEF TypeOK
<1>15. ASSUME NEW k \in DOMAIN handled' PROVE handled'[k] = Payload(stream', k)
  <2>1. k = h + 1 \/ k \in 1 .. h
    BY <1>3, <1>13
  <2> QED
    BY <1>1, <1>2, <1>3, <1>13, <2>1
<1>16. received' - Sum(recvQueue') = End(stream', Len(handled'))
  <2>1. received' = received /\ End(stream', Len(handled')) = End(stream, h + 1)
    BY <1>2, <1>13
  <2>2. End(stream, h + 1) = End(stream, h) + HeaderSize + stream[h + 1]
    BY <1>8
  <2>3. /\ received \in Nat /\ Sum(recvQueue) \in Nat /\ HeaderSize \in Nat
        /\ stream[h + 1] \in Nat /\ End(stream, h) \in Nat
    BY <1>3, <1>4, <1>6, <1>8
  <2> QED
    BY <1>1, <1>11, <2>1, <2>2, <2>3
<1>17. Len(handled') <= Len(stream')
  <2>1. h + 1 <= Len(stream)
    BY <1>3, <1>8
  <2> QED
    BY <1>2, <1>13, <2>1
<1> QED
  BY <1>1, <1>2, <1>11, <1>14, <1>15, <1>16, <1>17, ReceiveInvThen

LEMMA ReceiveStep == ReceiveInv /\ [Next]_(vars) => ReceiveInv'
<1> SUFFICES ASSUME ReceiveInv, [Next]_(vars) PROVE ReceiveInv'
  OBVIOUS
<1>1. CASE \E size \in Sizes : ServerSends(size)
  BY <1>1, ServerSendsKeeps
<1>2. CASE \E n \in 0 .. Total(stream) : ReadSocket(n)
  <2>1. Total(stream) \in Nat
    BY ReceiveInvIs, EndProperties DEF TypeOK
  <2>2. \A n \in 0 .. Total(stream) : n \in Nat
    BY <2>1
  <2> QED
    BY <1>2, <2>2, ReadSocketKeeps
<1>3. CASE NothingToDo \/ NoSize \/ NoMessage \/ UNCHANGED vars
  <2>1. /\ UNCHANGED <<stream, received, recvQueue, handled>>
        /\ looping' \in BOOLEAN /\ fragmented' = fragmented
    BY <1>3, ReceiveInvIs DEF NothingToDo, NoSize, NoMessage,
       ReturnFromLoop, vars, TypeOK
  <2>2. gaveUpFor' \in Nat
    <3>1. CASE NothingToDo \/ UNCHANGED vars
      BY <3>1, ReceiveInvIs DEF NothingToDo, vars, TypeOK
    <3>2. CASE NoSize
      BY <3>2 DEF NoSize, HeaderSize
    <3>3. CASE NoMessage
      <4>1. SizesAt(stream, Popped) \subseteq Nat
        <5>1. stream \in Seq(Sizes)
          BY ReceiveInvIs DEF TypeOK
        <5> QED
          BY <5>1, Streams, FramingAssumption DEF SizesAt, BeginsAt
      <4>2. PICK size \in SizesAt(stream, Popped) : gaveUpFor' = size + HeaderSize
        BY <3>3 DEF NoMessage
      <4> QED
        BY <4>1, <4>2 DEF HeaderSize
    <3> QED
      BY <1>3, <3>1, <3>2, <3>3
  <2>3. TypeOK'
    BY <2>1, <2>2, ReceiveInvIs DEF TypeOK
  <2> QED
    BY <2>1, <2>3, ReceiveInvIs, ReceiveInvThen
<1>4. CASE HandleNext
  BY <1>4, HandleNextKeeps
<1> QED
  BY <1>1, <1>2, <1>3, <1>4 DEF Next

\* The inductive invariant of receive.
THEOREM ReceiveInvariance == Spec => []ReceiveInv
<1> QED
  BY ReceiveInit, ReceiveStep, PTL DEF Spec

\* receive gives the handlers whole messages, in the order they were sent: what
\* concatUntil should have joined is kept, never taken for a message.
THEOREM MessagesAreWhole == Spec => []HandledWhole
<1>1. ReceiveInv => HandledWhole
  BY DEF ReceiveInv
<1> QED
  BY ReceiveInvariance, <1>1, PTL
=============================================================================

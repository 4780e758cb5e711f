------------------------------- MODULE Framing -------------------------------
(***************************************************************************)
(* The byte stream of a connection, in either direction: every message is  *)
(* preceded by its size in four bytes.  A stream is the sequence of the    *)
(* sizes of its messages, and a byte is known by its position.             *)
(***************************************************************************)
EXTENDS Integers, Sequences

CONSTANTS
    Sizes,         \* the sizes messages can have
    MaxMessages    \* bound of the model: messages in the stream

ASSUME FramingAssumption ==
    /\ Sizes \subseteq Nat
    /\ MaxMessages \in Nat

HeaderSize == 4    \* uint32_t

\* The sums of the first elements of a sequence of numbers.
Sums(s) ==
    LET sum[k \in 0 .. Len(s)] == IF k = 0 THEN 0 ELSE sum[k - 1] + s[k]
    IN  sum

Sum(s) == Sums(s)[Len(s)]

\* How many bytes the first k messages take.
End(stream, k) == Sums(stream)[k] + HeaderSize * k

Total(stream) == End(stream, Len(stream))

\* The message that begins after position p, and the size that is read there.
\* If no message begins there, the four bytes can mean anything.
BeginsAt(stream, p) == {k \in DOMAIN stream : End(stream, k - 1) = p}
SizesAt(stream, p) ==
    IF BeginsAt(stream, p) = {} THEN Sizes
    ELSE {stream[k] : k \in BeginsAt(stream, p)}

\* The bytes of message k without its size, as a receiver should take it.
Payload(stream, k) == [from |-> End(stream, k - 1) + HeaderSize, size |-> stream[k]]
=============================================================================

---------------------------- MODULE PacketBytes ----------------------------
(***************************************************************************)
(* Packets as the bytes two readers of this code take them from.  A byte   *)
(* carries its place in the stream, so that a byte nobody sent, or one of  *)
(* another packet, can be told from the right one.                         *)
(***************************************************************************)
EXTENDS Integers, Sequences

CONSTANT Base   \* 128 in the code: a digit of the remaining length is below it

Byte(val, k, i) == [val |-> val, at |-> <<k, i>>]
\* What bzero leaves in a buffer.
Zero == Byte(0, 0, 0)

BodyByte == Base + 1   \* looks like a digit with more to come
Header(k) == Byte(1, k, 0)
Body(k, n) == [i \in 1..n |-> Byte(BodyByte, k, i)]
\* MQTTPacket_encode, for lengths of up to two digits.
Length(k, n) ==
  IF n < Base THEN <<Byte(n, k, -1)>> ELSE <<Byte(Base + (n % Base), k, -1), Byte(n \div Base, k, -2)>>
OnWire(k, n) == <<Header(k)>> \o Length(k, n) \o Body(k, n)

\* What a read ends with: a packet, no data, or an error.
Result(kind, h, b) == [kind |-> kind, header |-> h, body |-> b]
Packet(k, n) == Result("packet", Header(k), Body(k, n))
Nothing == Result("nothing", Zero, <<>>)
ReadFailed == Result("error", Zero, <<>>)
=============================================================================

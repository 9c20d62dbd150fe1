---------------------------- MODULE NetworkReader ----------------------------
(***************************************************************************)
(* readPacket of MQTTClient.c over the receive buffer of MQTTmbedtls.c.    *)
(*                                                                         *)
(* readPacket asks mqtt_mbedtls_read for the header byte, for the digits   *)
(* of the remaining length one at a time, and for the rest of the packet.  *)
(* mqtt_mbedtls_read serves it from mqtt_recvbuf, which                    *)
(* buffered_mbedtls_read fills with what one mbedtls_ssl_read returns: any *)
(* piece of the byte stream.  A byte carries its place in the stream, so   *)
(* that a byte nobody sent can be told from the others.                    *)
(***************************************************************************)
EXTENDS PacketBytes

CONSTANTS
  BodyLengths,  \* lengths of the packets the broker sends, after their header
  MaxPackets,   \* bound on the packets sent
  RecvBufLen    \* MBEDTLS_MQTT_RECV_BUF_LEN, 1024 in the code

ASSUME ReaderAssumption ==
  /\ Base \in Nat \ {0, 1} /\ BodyLengths \subseteq 0..(Base * Base - 1)
  /\ MaxPackets \in Nat /\ RecvBufLen \in Nat \ {0, 1}

VARIABLES
  wire, open,      \* bytes on their way, and whether the peer is there
  sent,            \* packets the broker has sent
  \* struct Network
  mqtt_recvbuf, mqtt_recv_len, mqtt_recv_offset,
  \* mqtt_mbedtls_read
  step,            \* its next step; "done" between two calls
  len, buffer,     \* what it is asked for, what it has copied
  bytes,           \* what it returned
  \* readPacket
  stage, header, multiplier, rem_len,
  last,            \* what the last readPacket ended with
  \* history
  taken,           \* packets that have been handed out
  broken           \* whether a packet has come apart

network == <<wire, open, sent>>
recv == <<mqtt_recvbuf, mqtt_recv_len, mqtt_recv_offset>>
read == <<step, len, buffer, bytes>>
readPacketVars == <<stage, header, multiplier, rem_len, last, taken>>
vars == <<network, recv, read, readPacketVars, broken>>

-----------------------------------------------------------------------------
\* readPacket may also end with a packet without its end.
Torn == Result("torn", Zero, <<>>)
Results == {Nothing, ReadFailed, Torn}

-----------------------------------------------------------------------------
(* The broker. *)

BrokerSends(n) ==
  /\ open /\ Len(sent) < MaxPackets
  /\ LET k == Len(sent) + 1 IN
     /\ sent' = Append(sent, Packet(k, n))
     /\ wire' = wire \o OnWire(k, n)
  /\ UNCHANGED <<open, recv, read, readPacketVars, broken>>
BrokerLeaves ==
  /\ open /\ open' = FALSE
  /\ UNCHANGED <<wire, sent, recv, read, readPacketVars, broken>>

-----------------------------------------------------------------------------
(* buffered_mbedtls_read: the next piece of the stream, or none in time, or the end. *)

\* Mutant: the piece may fill mqtt_recvbuf to its last byte.
Mutant_Filled ==
  \E n \in 1..Len(wire) :
    /\ n <= RecvBufLen
    /\ mqtt_recvbuf' = SubSeq(wire, 1, n) /\ wire' = SubSeq(wire, n + 1, Len(wire))
    /\ mqtt_recv_len' = n /\ mqtt_recv_offset' = 0
Filled ==
  \E n \in 1..Len(wire) :
    /\ n < RecvBufLen
    /\ mqtt_recvbuf' = SubSeq(wire, 1, n) /\ wire' = SubSeq(wire, n + 1, Len(wire))
    /\ mqtt_recv_len' = n /\ mqtt_recv_offset' = 0
FillFails(ret) ==
  /\ ret = 0 \/ (ret = -1 /\ ~open /\ wire = <<>>)
  /\ mqtt_recvbuf' = <<>> /\ mqtt_recv_len' = 0 /\ mqtt_recv_offset' = 0 /\ UNCHANGED wire

-----------------------------------------------------------------------------
(* mqtt_mbedtls_read *)

Remain == mqtt_recv_len - mqtt_recv_offset

\* The n bytes of mqtt_recvbuf from index a; behind the received ones it is clear.
From(a, n) == [i \in 1..n |-> IF a + i <= mqtt_recv_len THEN mqtt_recvbuf[a + i] ELSE Zero]

Returns(rc) == step' = "done" /\ bytes' = rc
\* Mutant: a buffer with one byte left passes for an emptied one.
Mutant_Offset(o) ==
  IF o + 1 >= mqtt_recv_len
  THEN mqtt_recv_offset' = 0 /\ mqtt_recv_len' = 0 /\ mqtt_recvbuf' = <<>>
  ELSE mqtt_recv_offset' = o /\ UNCHANGED <<mqtt_recv_len, mqtt_recvbuf>>
\* An emptied buffer is marked as such.
Offset(o) ==
  IF o = mqtt_recv_len
  THEN mqtt_recv_offset' = 0 /\ mqtt_recv_len' = 0 /\ mqtt_recvbuf' = <<>>
  ELSE mqtt_recv_offset' = o /\ UNCHANGED <<mqtt_recv_len, mqtt_recvbuf>>

\* The buffer is empty: it is filled first.
FirstFill ==
  /\ step = "start" /\ mqtt_recv_len = 0
  /\ \/ Filled /\ step' = "copy" /\ UNCHANGED <<bytes, broken>>
     \/ /\ \E ret \in {0, -1} : FillFails(ret) /\ Returns(ret)
        /\ broken' = (broken \/ stage # "header")
  /\ UNCHANGED <<open, sent, len, buffer, readPacketVars>>
NoFill ==
  /\ step = "start" /\ mqtt_recv_len # 0 /\ step' = "copy"
  /\ UNCHANGED <<network, recv, len, buffer, bytes, readPacketVars, broken>>
\* It holds all that is asked for ...
Copy ==
  /\ step = "copy" /\ len <= Remain
  /\ buffer' = From(mqtt_recv_offset, len)
  /\ Offset(mqtt_recv_offset + len)
  /\ Returns(len)
  /\ UNCHANGED <<network, len, readPacketVars, broken>>
\* ... or not: then it is copied up to and with index mqtt_recv_len, one byte too far.
CopyRemain ==
  /\ step = "copy" /\ len > Remain
  /\ buffer' = From(mqtt_recv_offset, Remain + 1)
  /\ mqtt_recv_offset' = mqtt_recv_len + 1
  /\ step' = "more" /\ broken' = TRUE
  /\ UNCHANGED <<network, mqtt_recvbuf, mqtt_recv_len, len, bytes, readPacketVars>>
\* From the pieces that follow as many bytes as are missing, with the same error.
Refill ==
  /\ step = "more" /\ Len(buffer) < len
  /\ \/ Filled /\ step' = "copyMore" /\ UNCHANGED bytes
     \/ \E ret \in {0, -1} : FillFails(ret) /\ Returns(ret)
  /\ UNCHANGED <<open, sent, len, buffer, readPacketVars, broken>>
CopyMore ==
  /\ step = "copyMore"
  /\ LET n == IF len - Len(buffer) <= mqtt_recv_len THEN len - Len(buffer) ELSE mqtt_recv_len + 1 IN
     /\ buffer' = buffer \o From(0, n)
     /\ mqtt_recv_offset' = n
  /\ step' = "more"
  /\ UNCHANGED <<network, mqtt_recvbuf, mqtt_recv_len, len, bytes, readPacketVars, broken>>
Complete ==
  /\ step = "more" /\ Len(buffer) >= len
  /\ Offset(mqtt_recv_offset) /\ Returns(len)
  /\ UNCHANGED <<network, len, buffer, readPacketVars, broken>>

-----------------------------------------------------------------------------
(* readPacket *)

Ask(n) == step' = "start" /\ len' = n /\ buffer' = <<>> /\ UNCHANGED bytes
Done(result) ==
  /\ stage' = "idle" /\ last' = result
  /\ multiplier' = 1 /\ rem_len' = 0 /\ header' = Zero
  /\ UNCHANGED read

readPacket ==
  /\ stage = "idle" /\ stage' = "header" /\ Ask(1)
  /\ UNCHANGED <<network, recv, header, multiplier, rem_len, last, taken, broken>>
HeaderRead ==
  /\ stage = "header" /\ step = "done"
  /\ \/ /\ bytes = 1 /\ stage' = "length" /\ header' = buffer[1] /\ Ask(1)
        /\ UNCHANGED <<multiplier, rem_len, last>>
     \/ bytes = 0 /\ Done(Nothing)
     \/ bytes = -1 /\ Done(ReadFailed)
  /\ UNCHANGED <<network, recv, taken, broken>>

\* What remains of the packet is read, unless there is nothing to read.
Rest(n) ==
  \/ n > 0 /\ stage' = "body" /\ Ask(n) /\ rem_len' = n /\ UNCHANGED <<header, multiplier, last, taken>>
  \/ n = 0 /\ Done(Result("packet", header, <<>>)) /\ taken' = taken + 1
\* decodePacket stops after four digits; its result is not looked at.
MaxMultiplier == Base * Base * Base
LengthRead ==
  /\ stage = "length" /\ step = "done"
  /\ IF bytes # 1 THEN Rest(rem_len)
     ELSE LET i == buffer[1].val
              n == rem_len + (i % Base) * multiplier
          IN IF i >= Base /\ multiplier < MaxMultiplier
             THEN /\ rem_len' = n /\ multiplier' = multiplier * Base /\ Ask(1)
                  /\ UNCHANGED <<stage, header, last, taken>>
             ELSE Rest(n)
  /\ UNCHANGED <<network, recv, broken>>
\* A body that cannot be read leaves readPacket with the 1 of its first read.
BodyRead ==
  /\ stage = "body" /\ step = "done"
  /\ \/ /\ bytes = rem_len
        /\ Done(Result("packet", header, buffer)) /\ taken' = taken + 1
     \/ bytes # rem_len /\ Done(Torn) /\ UNCHANGED taken
  /\ UNCHANGED <<network, recv, broken>>

-----------------------------------------------------------------------------
Init ==
  /\ wire = <<>> /\ open = TRUE /\ sent = <<>>
  /\ mqtt_recvbuf = <<>> /\ mqtt_recv_len = 0 /\ mqtt_recv_offset = 0
  /\ step = "done" /\ len = 0 /\ buffer = <<>> /\ bytes = 0
  /\ stage = "idle" /\ header = Zero /\ multiplier = 1 /\ rem_len = 0 /\ last = Nothing
  /\ taken = 0 /\ broken = FALSE

Next ==
  \/ \E n \in BodyLengths : BrokerSends(n)
  \/ BrokerLeaves
  \/ FirstFill \/ NoFill \/ Copy \/ CopyRemain \/ Refill \/ CopyMore \/ Complete
  \/ readPacket \/ HeaderRead \/ LengthRead \/ BodyRead
Spec == Init /\ [][Next]_vars

-----------------------------------------------------------------------------
(* Properties. *)

\* Every copy stays within what was asked for, and the extra byte within mqtt_recvbuf: the
\* buffer always keeps one index free (MQTTmbedtls.c:248), and the offset passes it by one.
CopiesWithinBounds ==
  /\ Len(buffer) <= len
  /\ mqtt_recv_len \in 0..(RecvBufLen - 1) /\ mqtt_recv_offset \in 0..(mqtt_recv_len + 1)
  /\ Len(mqtt_recvbuf) = mqtt_recv_len

\* readPacket implements the channel of whole packets MQTTClient is written for, until a
\* packet comes apart: until mqtt_mbedtls_read has needed a second piece of the stream to
\* serve one request, or has found none in the middle of a packet.
Packets == {Packet(k, n) : k \in 1..MaxPackets, n \in BodyLengths}
Stream == INSTANCE PacketStream WITH
  queue <- IF taken <= Len(sent) THEN SubSeq(sent, taken + 1, Len(sent)) ELSE <<>>
StreamSpec == Stream!Spec

\* "write remain", say the two loops of mqtt_mbedtls_read that copy what the buffer still
\* holds (MQTTmbedtls.c:313, 319): every byte they hand out is one the peer has sent.
OnlyRemainIsWritten == \A i \in 1..Len(buffer) : buffer[i] # Zero
=============================================================================

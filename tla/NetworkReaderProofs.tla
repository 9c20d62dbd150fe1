------------------------- MODULE NetworkReaderProofs -------------------------
(***************************************************************************)
(* Theorems about NetworkReader, for every size of the receive buffer and  *)
(* every stream of packets.                                                *)
(***************************************************************************)
EXTENDS NetworkReader, PacketBytesProofs

Steps == {"start", "copy", "more", "copyMore", "done"}

StreamType == wire \in Seq(Bytes) /\ mqtt_recvbuf \in Seq(Bytes) /\ sent \in Seq(Packets)
RequestType ==
  /\ step \in Steps /\ len \in Nat /\ buffer \in Seq(Bytes) /\ bytes \in Int
  /\ multiplier \in Nat /\ rem_len \in Nat
\* A request that was served left as many bytes as it returned.
Served == (step = "done" /\ bytes > 0) => Len(buffer) = bytes
ReaderInv == StreamType /\ RequestType /\ Served /\ CopiesWithinBounds

-----------------------------------------------------------------------------
\* A packet of the broker is a sequence of bytes.
LEMMA SentType ==
  ASSUME NEW k \in Nat, NEW n \in BodyLengths
  PROVE  OnWire(k, n) \in Seq(Bytes)
<1>1. Base \in Nat \ {0, 1} /\ n \in Nat BY ReaderAssumption
<1> QED BY <1>1, OnWireType

\* The n bytes from index a of mqtt_recvbuf are n bytes.
LEMMA FromType ==
  ASSUME StreamType, CopiesWithinBounds, NEW a \in Nat, NEW n \in Nat
  PROVE  From(a, n) \in Seq(Bytes) /\ Len(From(a, n)) = n
<1>1. ASSUME NEW i \in 1..n
      PROVE  (IF a + i <= mqtt_recv_len THEN mqtt_recvbuf[a + i] ELSE Zero) \in Bytes
  <2>1. mqtt_recvbuf \in Seq(Bytes) /\ mqtt_recv_len = Len(mqtt_recvbuf) /\ mqtt_recv_len \in Nat
    BY ReaderAssumption DEF StreamType, CopiesWithinBounds
  <2>2. CASE a + i <= mqtt_recv_len
    <3>1. a + i \in 1..Len(mqtt_recvbuf) BY <2>1, <2>2
    <3> QED BY <2>1, <2>2, <3>1
  <2>3. CASE ~(a + i <= mqtt_recv_len) BY <2>3, ZeroType
  <2> QED BY <2>2, <2>3
<1> QED BY <1>1 DEF From

\* Whatever buffered_mbedtls_read comes back with, the buffer and the wire keep their bounds.
LEMMA FillType ==
  ASSUME ReaderInv, Filled \/ \E ret \in {0, -1} : FillFails(ret)
  PROVE  /\ wire' \in Seq(Bytes) /\ mqtt_recvbuf' \in Seq(Bytes)
         /\ mqtt_recv_len' \in 0..(RecvBufLen - 1) /\ mqtt_recv_offset' = 0
         /\ Len(mqtt_recvbuf') = mqtt_recv_len'
<1>0. wire \in Seq(Bytes) /\ RecvBufLen \in Nat \ {0, 1}
  BY ReaderAssumption DEF ReaderInv, StreamType
<1>1. CASE Filled
  <2>1. PICK n \in 1..Len(wire) :
          /\ n < RecvBufLen
          /\ mqtt_recvbuf' = SubSeq(wire, 1, n) /\ wire' = SubSeq(wire, n + 1, Len(wire))
          /\ mqtt_recv_len' = n /\ mqtt_recv_offset' = 0
    BY <1>1 DEF Filled
  <2>2. SubSeq(wire, 1, n) \in Seq(Bytes) /\ Len(SubSeq(wire, 1, n)) = n BY <1>0
  <2>3. SubSeq(wire, n + 1, Len(wire)) \in Seq(Bytes) BY <1>0
  <2> QED BY <1>0, <2>1, <2>2, <2>3
<1>2. CASE \E ret \in {0, -1} : FillFails(ret)
  BY <1>0, <1>2 DEF FillFails
<1> QED BY <1>1, <1>2

\* Moving the offset within the received bytes keeps the bounds of the buffer.
LEMMA OffsetType ==
  ASSUME ReaderInv, NEW o \in 0..(mqtt_recv_len + 1), Offset(o)
  PROVE  /\ mqtt_recvbuf' \in Seq(Bytes)
         /\ mqtt_recv_len' \in 0..(RecvBufLen - 1)
         /\ mqtt_recv_offset' \in 0..(mqtt_recv_len' + 1)
         /\ Len(mqtt_recvbuf') = mqtt_recv_len'
<1>0. /\ RecvBufLen \in Nat \ {0, 1} /\ mqtt_recvbuf \in Seq(Bytes)
      /\ mqtt_recv_len \in 0..(RecvBufLen - 1) /\ Len(mqtt_recvbuf) = mqtt_recv_len
  BY ReaderAssumption DEF ReaderInv, StreamType, CopiesWithinBounds
<1>1. CASE o = mqtt_recv_len
  <2>1. mqtt_recv_offset' = 0 /\ mqtt_recv_len' = 0 /\ mqtt_recvbuf' = <<>> BY <1>1 DEF Offset
  <2> QED BY <1>0, <2>1
<1>2. CASE o # mqtt_recv_len
  <2>1. mqtt_recv_offset' = o /\ mqtt_recv_len' = mqtt_recv_len /\ mqtt_recvbuf' = mqtt_recvbuf
    BY <1>2 DEF Offset
  <2> QED BY <1>0, <2>1
<1> QED BY <1>1, <1>2

\* The two facts about the sizes that the bounds need.
LEMMA Sizes == RecvBufLen \in Nat \ {0, 1} /\ RecvBufLen - 1 \in Nat
<1>1. RecvBufLen \in Nat \ {0, 1} BY ReaderAssumption
<1> QED BY <1>1

\* The steps of mqtt_mbedtls_read.
LEMMA ReadInv ==
  ASSUME ReaderInv, FirstFill \/ NoFill \/ Copy \/ CopyRemain \/ Refill \/ CopyMore \/ Complete
  PROVE  ReaderInv'
<1> USE DEF ReaderInv
<1>0. /\ mqtt_recv_len \in Nat /\ mqtt_recv_offset \in Nat /\ Remain + 1 \in Nat
      /\ mqtt_recv_offset <= mqtt_recv_len + 1 /\ Remain = mqtt_recv_len - mqtt_recv_offset
      /\ len \in Nat /\ buffer \in Seq(Bytes) /\ Len(buffer) \in Nat /\ Len(buffer) <= len
  BY ReaderAssumption DEF CopiesWithinBounds, Remain, RequestType
<1>1. CASE FirstFill
  <2>1. /\ wire' \in Seq(Bytes) /\ mqtt_recvbuf' \in Seq(Bytes)
        /\ mqtt_recv_len' \in 0..(RecvBufLen - 1) /\ mqtt_recv_offset' = 0
        /\ Len(mqtt_recvbuf') = mqtt_recv_len'
    BY <1>1, FillType DEF FirstFill
  <2>2. StreamType' BY <1>1, <2>1 DEF FirstFill, StreamType
  <2>3. CopiesWithinBounds'
    <3>1. len' = len /\ buffer' = buffer BY <1>1 DEF FirstFill
    <3>2. mqtt_recv_len' \in Nat BY <2>1, Sizes
    <3>3. Len(buffer') <= len' BY <1>0, <3>1
    <3>4. 0 \in 0..(mqtt_recv_len' + 1)
      <4>1. ASSUME NEW x \in Nat PROVE 0 \in 0..(x + 1) OBVIOUS
      <4> QED BY <3>2, <4>1
    <3>5. mqtt_recv_offset' \in 0..(mqtt_recv_len' + 1) BY <2>1, <3>4
    <3> QED BY <2>1, <3>3, <3>5 DEF CopiesWithinBounds
  <2>4. RequestType' /\ Served'
    BY <1>1 DEF FirstFill, RequestType, Served, Steps, Returns, readPacketVars
  <2> QED BY <2>2, <2>3, <2>4
<1>2. CASE NoFill
  BY <1>2 DEF NoFill, StreamType, CopiesWithinBounds, RequestType, Served, Steps, network, recv,
     readPacketVars
<1>3. CASE Copy
  <2>1. buffer' \in Seq(Bytes) /\ Len(buffer') = len BY <1>0, <1>3, FromType DEF Copy
  <2>2. mqtt_recv_offset + len \in 0..(mqtt_recv_len + 1) BY <1>0, <1>3 DEF Copy
  <2>3. /\ mqtt_recvbuf' \in Seq(Bytes)
        /\ mqtt_recv_len' \in 0..(RecvBufLen - 1)
        /\ mqtt_recv_offset' \in 0..(mqtt_recv_len' + 1)
        /\ Len(mqtt_recvbuf') = mqtt_recv_len'
    BY <1>3, <2>2, OffsetType DEF Copy
  <2>4. StreamType' BY <1>3, <2>3 DEF Copy, StreamType, network
  <2>5. CopiesWithinBounds'
    <3>1. len' = len BY <1>3 DEF Copy
    <3>2. Len(buffer') <= len' BY <1>0, <2>1, <3>1
    <3> QED BY <2>3, <3>2 DEF CopiesWithinBounds
  <2>6. RequestType' /\ Served'
    BY <1>0, <1>3, <2>1 DEF Copy, RequestType, Served, Steps, Returns, readPacketVars
  <2> QED BY <2>4, <2>5, <2>6
<1>4. CASE CopyRemain
  <2>1. buffer' \in Seq(Bytes) /\ Len(buffer') = Remain + 1
    BY <1>0, <1>4, FromType DEF CopyRemain
  <2>2. Remain \in Int BY <1>0
  <2>3. StreamType' BY <1>4 DEF CopyRemain, StreamType, network
  <2>4. CopiesWithinBounds'
    <3>1. /\ len' = len /\ mqtt_recv_offset' = mqtt_recv_len + 1 /\ len > Remain
          /\ mqtt_recv_len' = mqtt_recv_len /\ mqtt_recvbuf' = mqtt_recvbuf
      BY <1>4 DEF CopyRemain
    <3>2. Len(buffer') <= len' BY <1>0, <2>1, <2>2, <3>1
    <3>3. mqtt_recv_offset' \in 0..(mqtt_recv_len' + 1) BY <1>0, <3>1
    <3> QED BY <3>1, <3>2, <3>3 DEF CopiesWithinBounds
  <2>5. RequestType' /\ Served'
    BY <1>4, <2>1 DEF CopyRemain, RequestType, Served, Steps, readPacketVars
  <2> QED BY <2>3, <2>4, <2>5
<1>5. CASE Refill
  <2>1. /\ wire' \in Seq(Bytes) /\ mqtt_recvbuf' \in Seq(Bytes)
        /\ mqtt_recv_len' \in 0..(RecvBufLen - 1) /\ mqtt_recv_offset' = 0
        /\ Len(mqtt_recvbuf') = mqtt_recv_len'
    BY <1>5, FillType DEF Refill
  <2>2. StreamType' BY <1>5, <2>1 DEF Refill, StreamType
  <2>3. CopiesWithinBounds'
    <3>1. len' = len /\ buffer' = buffer BY <1>5 DEF Refill
    <3>2. mqtt_recv_len' \in Nat BY <2>1, Sizes
    <3>3. Len(buffer') <= len' BY <1>0, <3>1
    <3>4. 0 \in 0..(mqtt_recv_len' + 1)
      <4>1. ASSUME NEW x \in Nat PROVE 0 \in 0..(x + 1) OBVIOUS
      <4> QED BY <3>2, <4>1
    <3>5. mqtt_recv_offset' \in 0..(mqtt_recv_len' + 1) BY <2>1, <3>4
    <3> QED BY <2>1, <3>3, <3>5 DEF CopiesWithinBounds
  <2>4. RequestType' /\ Served'
    BY <1>5 DEF Refill, RequestType, Served, Steps, Returns, readPacketVars
  <2> QED BY <2>2, <2>3, <2>4
<1>6. CASE CopyMore
  <2> DEFINE missing == len - Len(buffer)
             n == IF missing <= mqtt_recv_len THEN missing ELSE mqtt_recv_len + 1
  <2>1. n \in Nat /\ n <= missing /\ n \in 0..(mqtt_recv_len + 1) BY <1>0
  <2>2. buffer' = buffer \o From(0, n) /\ mqtt_recv_offset' = n BY <1>6 DEF CopyMore
  <2> HIDE DEF n
  <2>3. From(0, n) \in Seq(Bytes) /\ Len(From(0, n)) = n BY <2>1, FromType
  <2>4. buffer' \in Seq(Bytes) /\ Len(buffer') = Len(buffer) + n BY <1>0, <2>2, <2>3
  <2>5. Len(buffer') <= len BY <1>0, <2>1, <2>4
  <2>6. StreamType' BY <1>6 DEF CopyMore, StreamType, network
  <2>7. CopiesWithinBounds' BY <1>6, <2>1, <2>2, <2>5 DEF CopyMore, CopiesWithinBounds
  <2>8. RequestType' /\ Served'
    BY <1>6, <2>4 DEF CopyMore, RequestType, Served, Steps, readPacketVars
  <2> QED BY <2>6, <2>7, <2>8
<1>7. CASE Complete
  <2>1. mqtt_recv_offset \in 0..(mqtt_recv_len + 1) BY <1>0
  <2>2. /\ mqtt_recvbuf' \in Seq(Bytes)
        /\ mqtt_recv_len' \in 0..(RecvBufLen - 1)
        /\ mqtt_recv_offset' \in 0..(mqtt_recv_len' + 1)
        /\ Len(mqtt_recvbuf') = mqtt_recv_len'
    BY <1>7, <2>1, OffsetType DEF Complete
  <2>3. StreamType' BY <1>7, <2>2 DEF Complete, StreamType, network
  <2>4. CopiesWithinBounds' BY <1>7, <2>2 DEF Complete, CopiesWithinBounds
  <2>5. RequestType' /\ Served'
    BY <1>0, <1>7 DEF Complete, RequestType, Served, Steps, Returns, readPacketVars
  <2> QED BY <2>3, <2>4, <2>5
<1> QED BY <1>1, <1>2, <1>3, <1>4, <1>5, <1>6, <1>7

\* The steps of readPacket: they only ask, or finish.
LEMMA PacketInv ==
  ASSUME ReaderInv, readPacket \/ HeaderRead \/ LengthRead \/ BodyRead
  PROVE  ReaderInv'
<1> USE DEF ReaderInv
<1>1. ASSUME UNCHANGED <<network, recv>>, NEW n \in Nat, Ask(n),
             multiplier' \in Nat, rem_len' \in Nat
      PROVE  ReaderInv'
  <2>1. StreamType' BY <1>1 DEF StreamType, network, recv
  <2>2. CopiesWithinBounds' BY <1>1 DEF Ask, CopiesWithinBounds, network, recv
  <2>3. RequestType' /\ Served' BY <1>1 DEF Ask, RequestType, Served, Steps
  <2> QED BY <2>1, <2>2, <2>3
<1>2. ASSUME UNCHANGED <<network, recv>>, NEW result, Done(result)
      PROVE  ReaderInv'
  BY <1>2 DEF Done, StreamType, CopiesWithinBounds, RequestType, Served, network, recv, read
<1>3. multiplier \in Nat /\ rem_len \in Nat BY DEF RequestType
<1>4. CASE readPacket BY <1>1, <1>3, <1>4 DEF readPacket
<1>5. CASE HeaderRead BY <1>1, <1>2, <1>3, <1>5 DEF HeaderRead
<1>6. CASE LengthRead
  <2>1. ASSUME NEW n \in Nat, Rest(n) PROVE ReaderInv'
    BY <1>1, <1>2, <1>3, <1>6, <2>1 DEF LengthRead, Rest
  <2>2. CASE bytes # 1 BY <1>3, <1>6, <2>1, <2>2 DEF LengthRead
  <2>3. CASE bytes = 1
    <3> DEFINE i == buffer[1].val
               n == rem_len + (i % Base) * multiplier
    <3>1. i \in Nat
      <4>1. Len(buffer) = 1 /\ buffer \in Seq(Bytes)
        BY <1>6, <2>3 DEF LengthRead, Served, RequestType
      <4>2. buffer[1] \in Bytes BY <4>1
      <4> QED BY <4>2 DEF Bytes
    <3>2. Base \in Nat \ {0} BY ReaderAssumption
    <3>3. i % Base \in Nat BY <3>1, <3>2
    <3>4. n \in Nat /\ multiplier * Base \in Nat
      <4> HIDE DEF i
      <4> DEFINE d == i % Base
      <4>1. d \in Nat BY <3>3
      <4> HIDE DEF d
      <4>2. d * multiplier \in Nat BY <4>1, <1>3
      <4>3. multiplier * Base \in Nat BY <3>2, <1>3
      <4> QED BY <1>3, <4>2, <4>3 DEF d
    <3>5. \/ rem_len' = n /\ multiplier' = multiplier * Base /\ Ask(1)
          \/ Rest(n)
      BY <1>6, <2>3 DEF LengthRead
    <3> HIDE DEF n
    <3> QED BY <1>1, <1>6, <2>1, <3>4, <3>5 DEF LengthRead
  <2> QED BY <2>2, <2>3
<1>7. CASE BodyRead BY <1>2, <1>7 DEF BodyRead
<1> QED BY <1>4, <1>5, <1>6, <1>7

\* To begin with ...
LEMMA InitReader == Init => ReaderInv
BY ReaderAssumption DEF Init, ReaderInv, StreamType, RequestType, Served, Steps, CopiesWithinBounds

\* ... and in every step, the bounds and the types hold.
LEMMA ReaderStep == ASSUME ReaderInv, [Next]_vars PROVE ReaderInv'
<1> USE DEF ReaderInv
<1>1. ASSUME NEW n \in BodyLengths, BrokerSends(n) PROVE ReaderInv'
  <2> DEFINE k == Len(sent) + 1
  <2>1. k \in Nat /\ k \in 1..MaxPackets
    BY <1>1, ReaderAssumption DEF BrokerSends, StreamType
  <2> HIDE DEF k
  <2>2. Packet(k, n) \in Packets BY <2>1 DEF Packets
  <2>3. /\ wire' = wire \o OnWire(k, n)
        /\ sent' = Append(sent, Packet(k, n))
        /\ UNCHANGED <<recv, read, readPacketVars>>
    BY <1>1 DEF BrokerSends, k
  <2>4. OnWire(k, n) \in Seq(Bytes) BY <2>1, SentType
  <2>5. StreamType' BY <2>2, <2>3, <2>4 DEF StreamType, recv
  <2> QED BY <2>3, <2>5 DEF RequestType, Served, CopiesWithinBounds, recv, read, readPacketVars
<1>2. CASE BrokerLeaves
  BY <1>2 DEF BrokerLeaves, StreamType, RequestType, Served, CopiesWithinBounds, recv, read,
     readPacketVars
<1>3. CASE UNCHANGED vars
  BY <1>3 DEF vars, StreamType, RequestType, Served, CopiesWithinBounds, network, recv, read,
     readPacketVars
<1> QED BY <1>1, <1>2, <1>3, ReadInv, PacketInv DEF Next

\* However the stream is cut into pieces, no copy exceeds its request and none leaves the
\* received bytes by more than the one index the buffer keeps free.
THEOREM BoundsHold == Spec => []CopiesWithinBounds
<1>1. ReaderInv /\ [Next]_vars => ReaderInv' BY ReaderStep
<1>2. ReaderInv => CopiesWithinBounds BY DEF ReaderInv
<1> QED BY <1>1, <1>2, InitReader, PTL DEF Spec

-----------------------------------------------------------------------------
(* The channel of whole packets.  Until a packet comes apart, the bytes readPacket has taken  *)
(* of the current packet and those ahead of it, in its hands, in mqtt_recvbuf and on the      *)
(* wire, are the packets that were not handed out.  mqtt_mbedtls_read only moves bytes among  *)
(* those ahead.                                                                               *)

Unread == SubSeq(mqtt_recvbuf, mqtt_recv_offset + 1, mqtt_recv_len)
Fetched == IF step = "done" /\ stage # "idle" /\ bytes > 0 THEN buffer ELSE <<>>
Ahead == Fetched \o (Unread \o wire)

\* c are the bytes of the current packet that were taken: what is known of them.
AtHeader(c) ==
  /\ stage = "header" /\ c = <<>> /\ rem_len = 0 /\ multiplier = 1
  /\ len = 1 /\ (step = "done" => bytes \in {-1, 0, 1})
AtLength(c) ==
  /\ stage = "length" /\ len = 1 /\ (step = "done" => bytes = 1) /\ c[1] = header
  /\ \/ Len(c) = 1 /\ rem_len = 0 /\ multiplier = 1
     \/ Len(c) = 2 /\ multiplier = Base /\ c[2].val >= Base /\ c[2].val % Base = rem_len
AtBody(c) ==
  /\ stage = "body" /\ len = rem_len /\ (step = "done" => bytes = rem_len)
  /\ rem_len # 0 /\ rem_len = Len(sent[taken + 1].body)
  /\ Known(c, header, Len(Length(0, rem_len)), <<>>, rem_len)
Between(c) == stage = "idle" /\ c = <<>> /\ step = "done" /\ rem_len = 0 /\ multiplier = 1
Consumed(c) == Between(c) \/ AtHeader(c) \/ AtLength(c) \/ AtBody(c)
Carried == \E c \in Seq(Bytes) : Consumed(c) /\ Carries(c \o Ahead, sent, taken + 1)
Kept ==
  ~broken =>
    /\ taken <= Len(sent) /\ step \in {"start", "copy", "done"}
    /\ mqtt_recv_offset <= mqtt_recv_len /\ Carried
StreamInv == taken \in Nat /\ broken \in BOOLEAN /\ Numbered(sent) /\ Kept
StreamTypes == ReaderInv /\ StreamInv

\* The packet a byte is of, and its bytes.
Current(k) == k = taken + 1
LEMMA CurrentPacket ==
  ASSUME StreamTypes, ~broken, NEW k, Current(k), NEW w \in Seq(Bytes),
         Carries(w, sent, k), Len(w) # 0
  PROVE  \E n \in 0..(Base * Base - 1) : IsAt(sent, k, n) /\ StartsWith(w, k, n)
<1> DEFINE n == Len(sent[k].body)
<1>1. /\ sent \in Seq(Packets) /\ taken \in Nat /\ taken <= Len(sent)
      /\ Numbered(sent) /\ Base \in Nat \ {0, 1}
  BY ReaderAssumption DEF StreamTypes, ReaderInv, StreamType, StreamInv, Kept
<1>2. k \in 1..Len(sent) + 1 BY <1>1 DEF Current
<1>3. k \in 1..Len(sent) BY <1>1, <1>2, CarriesFirst
<1>4. n \in BodyLengths
  <2>1. sent[k] \in Packets BY <1>1, <1>3
  <2>2. PICK a \in 1..MaxPackets, b \in BodyLengths : sent[k] = Packet(a, b)
    BY <2>1 DEF Packets
  <2>3. sent[k].body = Body(a, b) BY <2>2 DEF Packet, Result
  <2>4. b \in Nat BY ReaderAssumption
  <2>5. Len(Body(a, b)) = b BY <2>4 DEF Body
  <2> QED BY <2>3, <2>5
<1>5. n \in Nat /\ n \in 0..(Base * Base - 1) BY <1>4, ReaderAssumption
<1>6. Len(sent[k].body) = n /\ w \in Seq(Bytes) /\ Carries(w, sent, k) /\ Len(w) # 0 OBVIOUS
<1> HIDE DEF n
<1>7. Begins(sent, w, k, n) BY <1>1, <1>2, <1>5, <1>6 DEF Begins
<1>8. IsAt(sent, k, n) /\ StartsWith(w, k, n) BY <1>1, <1>7, FirstPacket
<1> QED BY <1>5, <1>8

\* The bytes ahead are bytes.
LEMMA AheadType ==
  ASSUME StreamTypes, mqtt_recv_offset <= mqtt_recv_len
  PROVE  /\ Fetched \in Seq(Bytes) /\ Unread \in Seq(Bytes) /\ wire \in Seq(Bytes)
         /\ Ahead \in Seq(Bytes)
<1>1. /\ wire \in Seq(Bytes) /\ buffer \in Seq(Bytes) /\ mqtt_recvbuf \in Seq(Bytes)
      /\ mqtt_recv_len = Len(mqtt_recvbuf) /\ mqtt_recv_offset \in 0..mqtt_recv_len
  BY ReaderAssumption
     DEF StreamTypes, ReaderInv, StreamType, RequestType, CopiesWithinBounds
<1>2. Fetched \in Seq(Bytes) BY <1>1 DEF Fetched
<1>3. Unread \in Seq(Bytes)
  <2>1. SubSeq(mqtt_recvbuf, mqtt_recv_offset + 1, Len(mqtt_recvbuf)) \in Seq(Bytes)
    BY <1>1, SplitFacts
  <2> QED BY <1>1, <2>1 DEF Unread
<1>4. Unread \o wire \in Seq(Bytes) BY <1>1, <1>3, ConcatFacts
<1> QED BY <1>1, <1>2, <1>3, <1>4, ConcatFacts DEF Ahead

\* What is under way may move as long as the reader knows what it has taken.
LEMMA KeepsCarried ==
  ASSUME StreamTypes, ~broken, UNCHANGED <<sent, taken>>,
         step' \in {"start", "copy", "done"}, mqtt_recv_offset' <= mqtt_recv_len',
         NEW c \in Seq(Bytes), Carries(c \o Ahead, sent, taken + 1),
         NEW d \in Seq(Bytes), d \o Ahead' = c \o Ahead, Consumed(d)'
  PROVE  Kept'
<1>1. taken <= Len(sent) BY DEF StreamTypes, StreamInv, Kept
<1>2. Carries(d \o Ahead', sent', taken' + 1) OBVIOUS
<1>3. Carried' BY <1>2 DEF Carried
<1> QED BY <1>1, <1>3 DEF Kept

\* A step that hands out no packet reads nothing of the channel.
LEMMA QuietStep ==
  ASSUME ~broken, UNCHANGED <<sent, taken, broken>>, last' = last \/ last' \in Results
  PROVE  [Stream!Next]_(Stream!stream)
<1>1. CASE last' = last BY <1>1 DEF Stream!stream
<1>2. CASE last' \in Results
  <2>1. Stream!ReadsNone(last') BY <1>2 DEF Stream!ReadsNone
  <2> QED BY <1>2, <2>1 DEF Stream!Next
<1> QED BY <1>1, <1>2

\* A packet that comes apart ends the promise.
LEMMA BreakStep == ASSUME broken' PROVE Kept' /\ [Stream!Next]_(Stream!stream)
BY DEF Kept, Stream!Next, Stream!Breaks

\* Types, and what is broken stays broken.
LEMMA StreamTypeStep ==
  ASSUME StreamTypes, [Next]_vars
  PROVE  taken' \in Nat /\ broken' \in BOOLEAN /\ Numbered(sent') /\ (broken => broken')
<1>1. sent \in Seq(Packets) /\ taken \in Nat /\ broken \in BOOLEAN /\ Numbered(sent)
  BY DEF StreamTypes, ReaderInv, StreamType, StreamInv
<1>2. CASE UNCHANGED vars BY <1>1, <1>2 DEF vars, network, readPacketVars
<1>3. ASSUME NEW n \in BodyLengths, BrokerSends(n)
      PROVE  Numbered(sent') /\ UNCHANGED <<taken, broken>>
  <2> DEFINE m == Len(sent)
             p == Packet(m + 1, n)
  <2>1. n \in Nat /\ m \in Nat BY <1>1, ReaderAssumption
  <2>2. sent' = Append(sent, p) BY <1>3 DEF BrokerSends
  <2>3. IsPacket(p, m + 1)
    <3>1. p.body = Body(m + 1, n) /\ Len(p.body) = n BY <2>1 DEF Packet, Result, Body
    <3> QED BY <2>1, <3>1 DEF IsPacket
  <2> HIDE DEF p
  <2>4. Len(sent') = m + 1 /\ sent'[m + 1] = p /\ \A k \in 1..m : sent'[k] = sent[k]
    BY <1>1, <2>2
  <2>5. \A k \in 1..m : IsPacket(sent[k], k) BY <1>1 DEF Numbered
  <2> HIDE DEF m
  <2>6. \A k \in 1..m + 1 : k = m + 1 \/ k \in 1..m BY <2>1
  <2>7. \A k \in 1..m + 1 : IsPacket(sent'[k], k) BY <2>3, <2>4, <2>5, <2>6
  <2>8. Numbered(sent') BY <2>4, <2>7 DEF Numbered
  <2> QED BY <1>3, <2>8 DEF BrokerSends, readPacketVars
<1>4. CASE BrokerLeaves \/ NoFill \/ Copy \/ Refill \/ CopyMore \/ Complete \/ readPacket
           \/ HeaderRead
  <2>1. UNCHANGED <<sent, taken, broken>>
    BY <1>4 DEF BrokerLeaves, NoFill, Copy, Refill, CopyMore, Complete, readPacket, HeaderRead,
       network, readPacketVars
  <2> QED BY <1>1, <2>1
<1>5. CASE FirstFill \/ CopyRemain
  <2>1. UNCHANGED <<sent, taken>> /\ broken' \in {broken, TRUE}
    <3>1. CASE FirstFill
      <4>1. broken' = broken \/ broken' = (broken \/ stage # "header") BY <3>1 DEF FirstFill
      <4>2. broken' \in {broken, TRUE} BY <1>1, <4>1
      <4> QED BY <3>1, <4>2 DEF FirstFill, readPacketVars
    <3>2. CASE CopyRemain BY <3>2 DEF CopyRemain, network, readPacketVars
    <3> QED BY <1>5, <3>1, <3>2
  <2> QED BY <1>1, <2>1
<1>6. CASE LengthRead \/ BodyRead
  <2>1. UNCHANGED <<sent, broken>> BY <1>6 DEF LengthRead, BodyRead, network
  <2>2. taken' \in {taken, taken + 1} BY <1>6 DEF LengthRead, BodyRead, Rest
  <2>3. taken' \in Nat BY <1>1, <2>2
  <2> QED BY <1>1, <2>1, <2>3
<1> QED BY <1>1, <1>2, <1>3, <1>4, <1>5, <1>6 DEF Next

\* A packet more behind those the broker has sent.
LEMMA SendStep ==
  ASSUME StreamTypes, ~broken, NEW n \in BodyLengths, BrokerSends(n)
  PROVE  Kept' /\ [Stream!Next]_(Stream!stream)
<1> DEFINE m == Len(sent)
           p == Packet(m + 1, n)
           o == OnWire(m + 1, n)
<1>1. /\ sent \in Seq(Packets) /\ taken \in Nat /\ taken <= Len(sent)
      /\ mqtt_recv_offset <= mqtt_recv_len /\ step \in {"start", "copy", "done"}
      /\ Carried /\ Base \in Nat \ {0, 1} /\ n \in Nat /\ m \in Nat
  BY ReaderAssumption DEF StreamTypes, ReaderInv, StreamType, StreamInv, Kept
<1>2. /\ sent' = Append(sent, p) /\ wire' = wire \o o /\ m < MaxPackets
      /\ UNCHANGED <<recv, read, readPacketVars, broken>>
  BY DEF BrokerSends
<1>3. p \in Packets
  <2>1. m + 1 \in 1..MaxPackets BY <1>1, <1>2, ReaderAssumption
  <2> QED BY <2>1 DEF Packets
<1>4. o \in Seq(Bytes)
  <2>1. m + 1 \in Nat BY <1>1
  <2> QED BY <1>1, <2>1, OnWireType
<1>5. PICK c \in Seq(Bytes) : Consumed(c) /\ Carries(c \o Ahead, sent, taken + 1)
  BY <1>1 DEF Carried
<1>6. /\ Fetched \in Seq(Bytes) /\ Unread \in Seq(Bytes) /\ wire \in Seq(Bytes)
      /\ Ahead \in Seq(Bytes) /\ c \o Ahead \in Seq(Bytes) /\ Len(c) \in Nat
      /\ Len(c \o Ahead) = Len(c) + Len(Ahead) /\ Len(Ahead) \in Nat
  BY <1>1, AheadType, ConcatFacts
<1>7. Carries((c \o Ahead) \o o, Append(sent, p), taken + 1)
  <2>1. taken + 1 \in 1..m + 1 BY <1>1
  <2> QED BY <1>1, <1>3, <1>5, <1>6, <2>1, CarriesMore
<1> HIDE DEF p, o
<1>8. c \o Ahead' = (c \o Ahead) \o o
  <2>1. Fetched' = Fetched /\ Unread' = Unread
    BY <1>2 DEF Fetched, Unread, recv, read, readPacketVars
  <2>2. Ahead' = Fetched \o (Unread \o (wire \o o)) BY <1>2, <2>1 DEF Ahead
  <2>3. (Unread \o wire) \o o = Unread \o (wire \o o) BY <1>4, <1>6
  <2>4. Ahead \o o = Fetched \o ((Unread \o wire) \o o)
    <3>1. Unread \o wire \in Seq(Bytes) BY <1>6, ConcatFacts
    <3>2. \A x \in Seq(Bytes) : (Fetched \o x) \o o = Fetched \o (x \o o) BY <1>4, <1>6
    <3> QED BY <3>1, <3>2 DEF Ahead
  <2>5. (c \o Ahead) \o o = c \o (Ahead \o o) BY <1>4, <1>6
  <2> QED BY <2>2, <2>3, <2>4, <2>5
<1>9. Len(sent') = m + 1 /\ \A i \in 1..m : sent'[i] = sent[i] BY <1>1, <1>2, <1>3
<1>10. Consumed(c)'
  <2>1. CASE Between(c) \/ AtHeader(c) \/ AtLength(c)
    BY <1>2, <2>1 DEF Consumed, Between, AtHeader, AtLength, read, readPacketVars
  <2>2. CASE AtBody(c)
    <3>1. Len(c \o Ahead) # 0
      <4>1. PICK g \in Nat : g = Len(Length(0, rem_len)) BY <2>2 DEF AtBody, Known
      <4>2. Len(c) = 1 + g + 0 BY <2>2, <4>1 DEF AtBody, Known
      <4> QED BY <1>6, <4>1, <4>2
    <3>2. taken + 1 \in 1..Len(sent) + 1 BY <1>1
    <3>3. taken + 1 \in 1..Len(sent) BY <1>1, <1>5, <1>6, <3>1, <3>2, CarriesFirst
    <3>4. taken' = taken BY <1>2 DEF readPacketVars
    <3>5. sent'[taken' + 1] = sent[taken + 1] BY <1>9, <3>3, <3>4
    <3>6. UNCHANGED <<stage, len, rem_len, step, bytes, header>>
      BY <1>2 DEF read, readPacketVars
    <3> QED BY <2>2, <3>5, <3>6 DEF Consumed, AtBody
  <2> QED BY <1>5, <2>1, <2>2 DEF Consumed
<1>11. UNCHANGED <<step, mqtt_recv_offset, mqtt_recv_len, taken, last>>
  BY <1>2 DEF recv, read, readPacketVars
<1>12. Kept'
  <2>1. Carries(c \o Ahead', sent', taken' + 1) BY <1>2, <1>7, <1>8, <1>11
  <2>2. Carried' BY <1>10, <2>1 DEF Carried
  <2>3. taken' <= Len(sent') BY <1>1, <1>9, <1>11
  <2> QED BY <1>1, <1>11, <2>2, <2>3 DEF Kept
<1>13. Stream!Send(p)
  <2> DEFINE q == IF taken <= Len(sent) THEN SubSeq(sent, taken + 1, Len(sent)) ELSE <<>>
  <2>1. q = SubSeq(sent, taken + 1, m) BY <1>1
  <2>2. q' = SubSeq(Append(sent, p), taken + 1, m + 1)
    <3>1. taken' = taken /\ sent' = Append(sent, p) /\ Len(sent') = m + 1 BY <1>2, <1>9, <1>11
    <3>2. taken' <= Len(sent') BY <1>1, <3>1
    <3>3. q' = SubSeq(sent', taken' + 1, Len(sent')) BY <3>2
    <3> QED BY <3>1, <3>3
  <2>3. SubSeq(Append(sent, p), taken + 1, m + 1) = Append(SubSeq(sent, taken + 1, m), p)
    <3>1. taken \in 0..Len(sent) BY <1>1
    <3> QED BY <1>1, <1>3, <3>1, QueueGrows
  <2>4. q' = Append(q, p) BY <2>1, <2>2, <2>3
  <2>5. ~broken /\ UNCHANGED <<last, broken>> BY <1>2, <1>11
  <2> QED BY <2>4, <2>5 DEF Stream!Send
<1> QED BY <1>3, <1>12, <1>13 DEF Stream!Next

\* buffered_mbedtls_read puts a piece of the wire into the empty buffer.
LEMMA FilledMoves ==
  ASSUME ReaderInv, Filled PROVE Unread' \o wire' = wire /\ mqtt_recv_offset' <= mqtt_recv_len'
<1>1. wire \in Seq(Bytes) BY DEF ReaderInv, StreamType
<1>2. PICK n \in 1..Len(wire) :
        /\ mqtt_recvbuf' = SubSeq(wire, 1, n) /\ wire' = SubSeq(wire, n + 1, Len(wire))
        /\ mqtt_recv_len' = n /\ mqtt_recv_offset' = 0
  BY DEF Filled
<1>3. SubSeq(wire, 1, n) \in Seq(Bytes) /\ Len(SubSeq(wire, 1, n)) = n BY <1>1
<1>4. Unread' = SubSeq(wire, 1, n)
  <2>1. \A s \in Seq(Bytes) : SubSeq(s, 0 + 1, Len(s)) = s OBVIOUS
  <2>2. SubSeq(SubSeq(wire, 1, n), 0 + 1, Len(SubSeq(wire, 1, n))) = SubSeq(wire, 1, n)
    BY <1>3, <2>1
  <2>3. Unread' = SubSeq(SubSeq(wire, 1, n), 0 + 1, n) BY <1>2 DEF Unread
  <2> QED BY <1>3, <2>2, <2>3
<1>5. SubSeq(wire, 1, n) \o SubSeq(wire, n + 1, Len(wire)) = wire
  <2>1. <<>> \in Seq(Bytes) OBVIOUS
  <2>2. Moved(<<>>, wire, <<>> \o SubSeq(wire, 1, n), SubSeq(wire, n + 1, Len(wire)), n)
    BY <1>1, <2>1, PieceMoves
  <2>3. <<>> \o wire = wire /\ <<>> \o SubSeq(wire, 1, n) = SubSeq(wire, 1, n) BY <1>1, <1>3
  <2> QED BY <2>2, <2>3 DEF Moved
<1> QED BY <1>1, <1>2, <1>4, <1>5

\* What is copied from the buffer is what was unread there.
LEMMA CopyMoves ==
  ASSUME ReaderInv, mqtt_recv_offset <= mqtt_recv_len, Copy, len # 0, stage # "idle"
  PROVE  Fetched' \o (Unread' \o wire') = Unread \o wire /\ mqtt_recv_offset' <= mqtt_recv_len'
<1>1. /\ wire \in Seq(Bytes) /\ mqtt_recvbuf \in Seq(Bytes) /\ mqtt_recv_len = Len(mqtt_recvbuf)
      /\ mqtt_recv_offset \in 0..mqtt_recv_len /\ len \in Nat /\ mqtt_recv_len \in Nat
  BY ReaderAssumption DEF ReaderInv, StreamType, RequestType, CopiesWithinBounds
<1>2. /\ len <= mqtt_recv_len - mqtt_recv_offset /\ buffer' = From(mqtt_recv_offset, len)
      /\ Offset(mqtt_recv_offset + len) /\ step' = "done" /\ bytes' = len
      /\ UNCHANGED <<wire, stage>>
  BY DEF Copy, Remain, Returns, network, readPacketVars
<1> DEFINE o == mqtt_recv_offset
           e == o + len
           f == From(o, len)
           u == SubSeq(mqtt_recvbuf, e + 1, Len(mqtt_recvbuf))
<1>3. o \in Nat /\ e \in 0..Len(mqtt_recvbuf) /\ Len(mqtt_recvbuf) \in Nat BY <1>1, <1>2
<1>4. Fetched' = f BY <1>1, <1>2 DEF Fetched
<1>5. Unread' = u /\ mqtt_recv_offset' <= mqtt_recv_len'
  <2>1. CASE e = mqtt_recv_len
    <3>1. mqtt_recv_offset' = 0 /\ mqtt_recv_len' = 0 /\ mqtt_recvbuf' = <<>>
      BY <1>2, <2>1 DEF Offset
    <3>2. Unread' = SubSeq(<<>>, 0 + 1, 0) BY <3>1 DEF Unread
    <3>3. SubSeq(<<>>, 0 + 1, 0) = <<>> OBVIOUS
    <3>4. u = <<>> BY <1>1, <2>1
    <3>5. Unread' = u BY <3>2, <3>3, <3>4
    <3> QED BY <3>1, <3>5
  <2>2. CASE e # mqtt_recv_len
    <3>1. mqtt_recv_offset' = e /\ UNCHANGED <<mqtt_recv_len, mqtt_recvbuf>>
      BY <1>2, <2>2 DEF Offset
    <3> QED BY <1>1, <1>3, <3>1 DEF Unread
  <2> QED BY <2>1, <2>2
<1>6. f \in Seq(Bytes) /\ Len(f) = len /\ \A i \in 1..len : f[i] = mqtt_recvbuf[o + i]
  <2>1. f = [i \in 1..len |-> IF o + i <= mqtt_recv_len THEN mqtt_recvbuf[o + i] ELSE Zero]
    BY DEF From
  <2>2. \A i \in 1..len : o + i <= mqtt_recv_len /\ o + i \in 1..Len(mqtt_recvbuf)
    BY <1>1, <1>2, <1>3
  <2>3. \A i \in 1..len : f[i] = mqtt_recvbuf[o + i] BY <2>1, <2>2
  <2>4. f \in Seq(Bytes) /\ Len(f) = len
    BY <1>3, <1>1, FromType DEF ReaderInv
  <2> QED BY <2>3, <2>4
<1>7. /\ u \in Seq(Bytes) /\ Len(u) = Len(mqtt_recvbuf) - e
      /\ \A j \in 1..Len(mqtt_recvbuf) - e : u[j] = mqtt_recvbuf[e + j]
  BY <1>1, <1>3, SplitFacts
<1>8. /\ Unread \in Seq(Bytes) /\ Len(Unread) = Len(mqtt_recvbuf) - o
      /\ \A j \in 1..Len(mqtt_recvbuf) - o : Unread[j] = mqtt_recvbuf[o + j]
  <2>1. o \in 0..Len(mqtt_recvbuf) BY <1>1
  <2>2. Unread = SubSeq(mqtt_recvbuf, o + 1, Len(mqtt_recvbuf)) BY <1>1 DEF Unread
  <2> QED BY <1>1, <2>1, <2>2, SplitFacts
<1>9. f \o u = Unread
  <2> HIDE DEF f, u
  <2>1. /\ f \o u \in Seq(Bytes) /\ Len(f \o u) = Len(f) + Len(u)
        /\ \A i \in 1..Len(f) : (f \o u)[i] = f[i]
        /\ \A i \in 1..Len(u) : (f \o u)[Len(f) + i] = u[i]
    <3>1. f \in Seq(Bytes) /\ u \in Seq(Bytes) BY <1>6, <1>7
    <3> QED BY <3>1, ConcatFacts
  <2>2. Len(f \o u) = Len(Unread) BY <1>1, <1>3, <1>6, <1>7, <1>8, <2>1
  <2>3. ASSUME NEW i \in 1..Len(Unread) PROVE (f \o u)[i] = Unread[i]
    <3>1. CASE i \in 1..len BY <1>1, <1>6, <1>8, <2>1, <2>3, <3>1
    <3>2. CASE i \notin 1..len
      <4>1. PICK j \in 1..Len(mqtt_recvbuf) - e : i = len + j
        <5>1. i - len \in 1..Len(mqtt_recvbuf) - e /\ i = len + (i - len)
          BY <1>1, <1>3, <1>8, <3>2
        <5> QED BY <5>1
      <4>2. (f \o u)[i] = mqtt_recvbuf[e + j] BY <1>6, <1>7, <2>1, <4>1
      <4>3. Unread[i] = mqtt_recvbuf[o + i] BY <1>8
      <4>4. o + i = e + j BY <1>1, <1>3, <4>1
      <4> QED BY <4>2, <4>3, <4>4
    <3> QED BY <3>1, <3>2
  <2> QED BY <1>8, <2>1, <2>2, <2>3, SeqEqual
<1> HIDE DEF f, u
<1>10. (f \o u) \o wire = f \o (u \o wire)
  <2>1. f \in Seq(Bytes) /\ u \in Seq(Bytes) /\ wire \in Seq(Bytes) BY <1>1, <1>6, <1>7
  <2> QED BY <2>1
<1> QED BY <1>2, <1>4, <1>5, <1>9, <1>10

\* What is asked for while a request is served.
LEMMA Asked ==
  ASSUME NEW c, Consumed(c), step \in {"start", "copy"}
  PROVE  stage # "idle" /\ len # 0 /\ (stage = "header" => len = 1)
BY DEF Consumed, Between, AtHeader, AtLength, AtBody

\* A step of a request takes nothing of the packet.
LEMMA StillConsumed ==
  ASSUME NEW c, Consumed(c), step \in {"start", "copy"},
         UNCHANGED <<sent, len, readPacketVars>>,
         \/ step' = "copy"
         \/ step' = "done" /\ (bytes' = len \/ (bytes' \in {0, -1} /\ stage = "header"))
  PROVE  Consumed(c)'
<1>1. UNCHANGED <<stage, header, multiplier, rem_len, last, taken, sent, len>> BY DEF readPacketVars
<1>2. CASE AtHeader(c) BY <1>1, <1>2 DEF Consumed, AtHeader
<1>3. CASE AtLength(c) BY <1>1, <1>3 DEF Consumed, AtLength
<1>4. CASE AtBody(c) BY <1>1, <1>4 DEF Consumed, AtBody
<1> QED BY <1>2, <1>3, <1>4 DEF Consumed, Between

\* mqtt_mbedtls_read moves bytes from the wire to the buffer and to its caller, until a request
\* needs a second piece.
LEMMA RequestStep ==
  ASSUME StreamTypes, ~broken,
         FirstFill \/ NoFill \/ Copy \/ CopyRemain \/ Refill \/ CopyMore \/ Complete
  PROVE  Kept' /\ [Stream!Next]_(Stream!stream)
<1>1. /\ ReaderInv /\ Carried /\ step \in {"start", "copy", "done"}
      /\ mqtt_recv_offset <= mqtt_recv_len /\ broken = FALSE
  BY DEF StreamTypes, StreamInv, Kept
<1>2. PICK c \in Seq(Bytes) : Consumed(c) /\ Carries(c \o Ahead, sent, taken + 1)
  BY <1>1 DEF Carried
<1>3. /\ wire \in Seq(Bytes) /\ mqtt_recvbuf \in Seq(Bytes) /\ mqtt_recv_len = Len(mqtt_recvbuf)
      /\ mqtt_recv_len \in Nat /\ mqtt_recv_offset \in 0..mqtt_recv_len
  BY <1>1, ReaderAssumption DEF ReaderInv, StreamType, CopiesWithinBounds
<1>4. CASE Refill \/ CopyMore \/ Complete BY <1>1, <1>4 DEF Refill, CopyMore, Complete
<1>5. CASE CopyRemain
  <2>1. broken' BY <1>5 DEF CopyRemain
  <2> QED BY <2>1, BreakStep
<1>6. ASSUME step \in {"start", "copy"}, UNCHANGED <<sent, len, readPacketVars, broken>>,
             Fetched' \o (Unread' \o wire') = Unread \o wire, mqtt_recv_offset' <= mqtt_recv_len',
             \/ step' = "copy"
             \/ step' = "done" /\ (bytes' = len \/ (bytes' \in {0, -1} /\ stage = "header"))
      PROVE  Kept' /\ [Stream!Next]_(Stream!stream)
  <2>1. Ahead' = Ahead
    <3>1. Fetched = <<>> BY <1>6 DEF Fetched
    <3>2. Unread \o wire \in Seq(Bytes) BY <1>1, AheadType, ConcatFacts
    <3>3. <<>> \o (Unread \o wire) = Unread \o wire BY <3>2
    <3> QED BY <1>6, <3>1, <3>3 DEF Ahead
  <2>2. Consumed(c)' BY <1>2, <1>6, StillConsumed
  <2>3. UNCHANGED <<sent, taken, last>> BY <1>6 DEF readPacketVars
  <2>4. c \o Ahead' = c \o Ahead BY <2>1
  <2>5. step' \in {"start", "copy", "done"} BY <1>6
  <2>6. Kept' BY <1>2, <1>6, <2>2, <2>3, <2>4, <2>5, KeepsCarried
  <2> QED BY <1>6, <2>3, <2>6, QuietStep
<1>7. CASE NoFill
  <2>1. step = "start" /\ step' = "copy" /\ UNCHANGED <<recv, network, bytes>> BY <1>7 DEF NoFill
  <2>2. Fetched' = <<>> /\ Unread' = Unread /\ wire' = wire
    BY <2>1 DEF Fetched, Unread, recv, network
  <2>3. Unread \o wire \in Seq(Bytes) BY <1>1, AheadType, ConcatFacts
  <2>4. <<>> \o (Unread \o wire) = Unread \o wire BY <2>3
  <2>5. UNCHANGED <<sent, len, readPacketVars, broken>> BY <1>7 DEF NoFill, network
  <2>6. mqtt_recv_offset' <= mqtt_recv_len' BY <1>1, <2>1 DEF recv
  <2> QED BY <1>6, <2>1, <2>2, <2>4, <2>5, <2>6
<1>8. CASE Copy
  <2>1. step = "copy" /\ step' = "done" /\ bytes' = len
        /\ UNCHANGED <<sent, len, readPacketVars, broken>>
    BY <1>8 DEF Copy, Returns, network
  <2>2. stage # "idle" /\ len # 0 BY <1>2, <2>1, Asked
  <2>3. Fetched' \o (Unread' \o wire') = Unread \o wire /\ mqtt_recv_offset' <= mqtt_recv_len'
    BY <1>1, <1>8, <2>2, CopyMoves
  <2> QED BY <1>6, <2>1, <2>3
<1>9. CASE FirstFill
  <2>1. step = "start" /\ mqtt_recv_len = 0 /\ UNCHANGED <<sent, len, readPacketVars>>
    BY <1>9 DEF FirstFill
  <2>2. Unread = <<>> BY <1>3, <2>1 DEF Unread
  <2>3. Unread \o wire = wire
    <3>1. <<>> \o wire = wire BY <1>3
    <3> QED BY <2>2, <3>1
  <2>4. CASE Filled /\ step' = "copy" /\ UNCHANGED <<bytes, broken>>
    <3>1. Unread' \o wire' = wire /\ mqtt_recv_offset' <= mqtt_recv_len'
      BY <1>1, <2>4, FilledMoves
    <3>2. Fetched' = <<>> BY <2>4 DEF Fetched
    <3>3. Fetched' \o (Unread' \o wire') = Unread \o wire
      <4>1. <<>> \o wire = wire BY <1>3
      <4> QED BY <2>3, <3>1, <3>2, <4>1
    <3> QED BY <1>6, <2>1, <2>4, <3>1, <3>3
  <2>5. ASSUME NEW ret \in {0, -1}, FillFails(ret), Returns(ret),
               broken' = (broken \/ stage # "header")
        PROVE  Kept' /\ [Stream!Next]_(Stream!stream)
    <3>1. CASE stage # "header"
      <4>1. broken' BY <2>5, <3>1
      <4> QED BY <4>1, BreakStep
    <3>2. CASE stage = "header"
      <4>1. broken' = broken BY <1>1, <2>5, <3>2
      <4>2. step' = "done" /\ bytes' = ret /\ ~(bytes' > 0) BY <2>5 DEF Returns
      <4>3. Fetched' = <<>> BY <4>2 DEF Fetched
      <4>4. wire' = wire /\ mqtt_recvbuf' = <<>> /\ mqtt_recv_len' = 0 /\ mqtt_recv_offset' = 0
        BY <2>5 DEF FillFails
      <4>5. Unread' = <<>>
        <5>1. Unread' = SubSeq(<<>>, 0 + 1, 0) BY <4>4 DEF Unread
        <5>2. SubSeq(<<>>, 0 + 1, 0) = <<>> OBVIOUS
        <5> QED BY <5>1, <5>2
      <4>6. Fetched' \o (Unread' \o wire') = Unread \o wire
        <5>1. <<>> \o wire = wire /\ <<>> \o (<<>> \o wire) = wire BY <1>3
        <5> QED BY <2>3, <4>3, <4>4, <4>5, <5>1
      <4>7. mqtt_recv_offset' <= mqtt_recv_len' BY <4>4
      <4>8. bytes' \in {0, -1} BY <4>2
      <4> QED BY <1>6, <2>1, <3>2, <4>1, <4>2, <4>6, <4>7, <4>8
    <3> QED BY <3>1, <3>2
  <2> QED BY <1>9, <2>4, <2>5 DEF FirstFill
<1> QED BY <1>4, <1>5, <1>7, <1>8, <1>9

\* readPacket takes what was fetched.
Taken(c, d) ==
  /\ d = c \o Fetched /\ d \in Seq(Bytes) /\ d \o (Unread \o wire) = c \o Ahead
  /\ c \o Ahead \in Seq(Bytes) /\ Len(c \o Ahead) \in Nat
  /\ Len(c) \in Nat /\ Len(d) = Len(c) + Len(Fetched) /\ Len(d) <= Len(c \o Ahead)
  /\ \A i \in 1..Len(d) : d[i] = (c \o Ahead)[i]
  /\ \A i \in 1..Len(c) : d[i] = c[i]
  /\ \A i \in 1..Len(Fetched) : d[Len(c) + i] = Fetched[i]
LEMMA TakesFetched ==
  ASSUME StreamTypes, mqtt_recv_offset <= mqtt_recv_len, NEW c \in Seq(Bytes)
  PROVE  \E d : Taken(c, d)
<1> DEFINE d == c \o Fetched
           r == Unread \o wire
<1>1. Fetched \in Seq(Bytes) /\ r \in Seq(Bytes) /\ Ahead \in Seq(Bytes) /\ Ahead = Fetched \o r
  BY AheadType, ConcatFacts DEF Ahead
<1> HIDE DEF r
<1>2. /\ d \in Seq(Bytes) /\ Len(d) = Len(c) + Len(Fetched) /\ Len(c) \in Nat
      /\ \A i \in 1..Len(c) : d[i] = c[i]
      /\ \A i \in 1..Len(Fetched) : d[Len(c) + i] = Fetched[i]
  BY <1>1, ConcatFacts
<1>3. d \o r = c \o Ahead
  <2>1. (c \o Fetched) \o r = c \o (Fetched \o r) BY <1>1
  <2> QED BY <1>1, <2>1
<1> HIDE DEF d
<1>4. /\ d \o r \in Seq(Bytes) /\ Len(d \o r) = Len(d) + Len(r) /\ Len(d) \in Nat /\ Len(r) \in Nat
      /\ \A i \in 1..Len(d) : (d \o r)[i] = d[i]
  <2>1. d \in Seq(Bytes) /\ r \in Seq(Bytes) BY <1>1, <1>2
  <2> QED BY <2>1, ConcatFacts
<1>5. Len(d \o r) \in Nat /\ Len(d) <= Len(d \o r) BY <1>4
<1> QED BY <1>2, <1>3, <1>4, <1>5 DEF Taken, d, r

\* Asking for more, and ending a call, put nothing in its hands.
LEMMA HandsEmpty ==
  ASSUME StreamTypes, mqtt_recv_offset <= mqtt_recv_len, UNCHANGED <<network, recv>>,
         step' = "start" \/ stage' = "idle"
  PROVE  Ahead' = Unread \o wire
<1>1. Fetched' = <<>> BY DEF Fetched
<1>2. Unread' = Unread /\ wire' = wire BY DEF Unread, network, recv
<1>3. Unread \o wire \in Seq(Bytes) BY AheadType, ConcatFacts
<1>4. <<>> \o (Unread \o wire) = Unread \o wire BY <1>3
<1> QED BY <1>1, <1>2, <1>4 DEF Ahead

\* readPacket asks for more, having taken what was fetched.
LEMMA AsksMore ==
  ASSUME StreamTypes, ~broken, UNCHANGED <<network, recv, taken, last, broken>>,
         NEW n, Ask(n), NEW c \in Seq(Bytes), Carries(c \o Ahead, sent, taken + 1),
         NEW d, Taken(c, d), Consumed(d)'
  PROVE  Kept' /\ [Stream!Next]_(Stream!stream)
<1>1. mqtt_recv_offset <= mqtt_recv_len BY DEF StreamTypes, StreamInv, Kept
<1>2. step' = "start" BY DEF Ask
<1>3. Ahead' = Unread \o wire BY <1>1, <1>2, HandsEmpty
<1>4. d \in Seq(Bytes) /\ d \o Ahead' = c \o Ahead BY <1>3 DEF Taken
<1>5. UNCHANGED <<sent, taken, last, mqtt_recv_offset, mqtt_recv_len>> BY DEF network, recv
<1>6. mqtt_recv_offset' <= mqtt_recv_len' BY <1>1, <1>5
<1>7. Kept' BY <1>2, <1>4, <1>5, <1>6, KeepsCarried
<1> QED BY <1>5, <1>7, QuietStep

\* readPacket begins.
LEMMA BeginStep ==
  ASSUME StreamTypes, ~broken, readPacket
  PROVE  Kept' /\ [Stream!Next]_(Stream!stream)
<1>1. Carried /\ mqtt_recv_offset <= mqtt_recv_len BY DEF StreamTypes, StreamInv, Kept
<1>2. /\ stage = "idle" /\ stage' = "header" /\ Ask(1)
      /\ UNCHANGED <<network, recv, header, multiplier, rem_len, last, taken, broken>>
  BY DEF readPacket
<1>3. PICK c \in Seq(Bytes) : Consumed(c) /\ Carries(c \o Ahead, sent, taken + 1)
  BY <1>1 DEF Carried
<1>4. Between(c) BY <1>2, <1>3 DEF Consumed, AtHeader, AtLength, AtBody
<1>5. PICK d : Taken(c, d) BY <1>1, TakesFetched
<1>6. Fetched = <<>> BY <1>2 DEF Fetched
<1>7. d = <<>> BY <1>4, <1>5, <1>6 DEF Taken, Between
<1>8. AtHeader(d)' BY <1>2, <1>4, <1>7 DEF AtHeader, Between, Ask
<1>9. Consumed(d)' BY <1>8 DEF Consumed
<1> QED BY <1>2, <1>3, <1>5, <1>9, AsksMore

\* What a request that was served left.
LEMMA FetchedAll ==
  ASSUME ReaderInv, step = "done", stage # "idle", bytes > 0
  PROVE  Fetched = buffer /\ buffer \in Seq(Bytes) /\ Len(buffer) = bytes
BY DEF ReaderInv, RequestType, Served, Fetched

\* The first byte of a packet, or none.
LEMMA HeaderStep ==
  ASSUME StreamTypes, ~broken, HeaderRead
  PROVE  Kept' /\ [Stream!Next]_(Stream!stream)
<1>1. Carried /\ mqtt_recv_offset <= mqtt_recv_len /\ ReaderInv
  BY DEF StreamTypes, StreamInv, Kept
<1>2. stage = "header" /\ step = "done" /\ UNCHANGED <<network, recv, taken, broken>>
  BY DEF HeaderRead
<1>3. PICK c \in Seq(Bytes) : Consumed(c) /\ Carries(c \o Ahead, sent, taken + 1)
  BY <1>1 DEF Carried
<1>4. AtHeader(c) BY <1>2, <1>3 DEF Consumed, Between, AtLength, AtBody
<1>5. PICK d : Taken(c, d) BY <1>1, TakesFetched
<1>6. CASE /\ bytes = 1 /\ stage' = "length" /\ header' = buffer[1] /\ Ask(1)
           /\ UNCHANGED <<multiplier, rem_len, last>>
  <2>1. Fetched = buffer /\ Len(buffer) = 1 /\ buffer \in Seq(Bytes)
    BY <1>1, <1>2, <1>6, FetchedAll
  <2>2. Len(c) = 0 BY <1>4 DEF AtHeader
  <2>3. Len(d) = 1 /\ d[1] = buffer[1]
    <3>1. Len(d) = Len(c) + Len(Fetched) /\ \A i \in 1..Len(Fetched) : d[Len(c) + i] = Fetched[i]
      BY <1>5 DEF Taken
    <3> QED BY <2>1, <2>2, <3>1
  <2>4. AtLength(d)' BY <1>4, <1>6, <2>3 DEF AtLength, AtHeader, Ask
  <2>5. Consumed(d)' BY <2>4 DEF Consumed
  <2> QED BY <1>2, <1>3, <1>5, <1>6, <2>5, AsksMore
<1>7. ASSUME NEW r \in {Nothing, ReadFailed}, bytes \in {0, -1}, Done(r)
      PROVE  Kept' /\ [Stream!Next]_(Stream!stream)
  <2>1. Fetched = <<>> BY <1>7 DEF Fetched
  <2>2. d = <<>> /\ d \in Seq(Bytes) BY <1>4, <1>5, <2>1 DEF Taken, AtHeader
  <2>3. stage' = "idle" /\ step' = "done" /\ last' = r /\ multiplier' = 1 /\ rem_len' = 0
    BY <1>2, <1>7 DEF Done, read
  <2>4. Consumed(d)' BY <2>2, <2>3 DEF Consumed, Between
  <2>5. Ahead' = Unread \o wire BY <1>1, <1>2, <2>3, HandsEmpty
  <2>6. d \o Ahead' = c \o Ahead BY <1>5, <2>5 DEF Taken
  <2>7. UNCHANGED <<sent, taken, mqtt_recv_offset, mqtt_recv_len>> BY <1>2 DEF network, recv
  <2>8. mqtt_recv_offset' <= mqtt_recv_len' BY <1>1, <2>7
  <2>9. step' \in {"start", "copy", "done"} BY <2>3
  <2>10. Kept' BY <1>3, <2>2, <2>4, <2>6, <2>7, <2>8, <2>9, KeepsCarried
  <2>11. last' \in Results BY <2>3 DEF Results
  <2> QED BY <1>2, <2>7, <2>10, <2>11, QuietStep
<1> QED BY <1>6, <1>7 DEF HeaderRead

\* The whole packet was taken: it is the next one of the channel.
LEMMA PacketOut ==
  ASSUME StreamTypes, ~broken, step = "done", UNCHANGED <<network, recv, broken>>,
         NEW c \in Seq(Bytes), Carries(c \o Ahead, sent, taken + 1), NEW d, Taken(c, d),
         NEW n, n = Len(sent[taken + 1].body), NEW b,
         Whole(d, header, Len(Length(0, n)), b, n),
         Done(Result("packet", header, b)), taken' = taken + 1
  PROVE  Kept' /\ [Stream!Next]_(Stream!stream)
<1> DEFINE w == c \o Ahead
           r == Unread \o wire
<1>1. /\ sent \in Seq(Packets) /\ Base \in Nat \ {0, 1} /\ taken \in Nat /\ taken <= Len(sent)
      /\ mqtt_recv_offset <= mqtt_recv_len /\ ReaderInv
  BY ReaderAssumption DEF StreamTypes, ReaderInv, StreamType, StreamInv, Kept
<1>2. /\ stage' = "idle" /\ step' = "done" /\ last' = Result("packet", header, b)
      /\ multiplier' = 1 /\ rem_len' = 0
  BY DEF Done, read
<1>3. /\ d \in Seq(Bytes) /\ d \o r = w /\ w \in Seq(Bytes) /\ Len(w) \in Nat /\ Len(d) <= Len(w)
      /\ \A i \in 1..Len(d) : d[i] = w[i]
  BY DEF Taken
<1>4. r \in Seq(Bytes) /\ Ahead' = r
  <2>1. r \in Seq(Bytes) BY <1>1, AheadType, ConcatFacts
  <2> QED BY <1>1, <1>2, <2>1, HandsEmpty
<1>5. UNCHANGED <<sent, mqtt_recv_offset, mqtt_recv_len>> BY DEF network, recv
<1>6. PICK k \in Nat : Current(k) BY <1>1 DEF Current
<1>7. Carries(w, sent, k) BY <1>6 DEF Current
<1> HIDE DEF w, r
<1>8. Len(w) # 0
  <2>1. PICK g \in Nat : g = Len(Length(0, n)) BY DEF Whole, Known
  <2>2. Len(d) = 1 + g + Len(b) /\ Len(b) \in Nat BY <2>1 DEF Whole, Known
  <2> QED BY <1>3, <2>1, <2>2
<1>9. PICK z \in 0..(Base * Base - 1) : IsAt(sent, k, z) /\ StartsWith(w, k, z)
  BY <1>3, <1>6, <1>7, <1>8, CurrentPacket
<1>10. n \in 0..(Base * Base - 1) /\ IsAt(sent, k, n) /\ StartsWith(w, k, n)
  <2>1. z = n BY <1>6, <1>9 DEF IsAt, Current
  <2> QED BY <1>9, <2>1
<1>11. Result("packet", header, b) = Packet(k, n) /\ Len(OnWire(k, n)) = Len(d)
  <2>1. Len(Length(k, n)) = Len(Length(0, n)) BY <1>1, <1>10, DigitsGiveLength
  <2>2. Whole(d, header, Len(Length(k, n)), b, n) BY <2>1, Zenon
  <2>3. Agrees(d, w) BY <1>3 DEF Agrees
  <2>4. StartsWith(w, k, n) /\ Base \in Nat \ {0, 1} /\ k \in Nat BY <1>1, <1>10
  <2>5. Makes(d, header, b, k, n) BY <2>2, <2>3, <2>4, BodyIsWhole
  <2> QED BY <2>5 DEF Makes
<1>12. k \in 1..Len(sent) /\ sent[k] = Packet(k, n) /\ Len(Wire(sent, k)) = Len(d)
  BY <1>10, <1>11 DEF IsAt
<1>13. Carries(r, sent, k + 1) BY <1>1, <1>3, <1>4, <1>7, <1>12, CarriesRest
<1>14. Kept'
  <2>1. <<>> \o Ahead' = r /\ <<>> \in Seq(Bytes) BY <1>4
  <2>2. Carries(<<>> \o Ahead', sent', taken' + 1)
    <3>1. taken' + 1 = k + 1 BY <1>1, <1>6 DEF Current
    <3> QED BY <1>5, <1>13, <2>1, <3>1
  <2>3. Consumed(<<>>)' BY <1>2 DEF Consumed, Between
  <2>4. Carried' BY <2>1, <2>2, <2>3 DEF Carried
  <2>5. taken' <= Len(sent') BY <1>1, <1>5, <1>6, <1>12 DEF Current
  <2>6. mqtt_recv_offset' <= mqtt_recv_len' BY <1>1, <1>5
  <2> QED BY <1>2, <2>4, <2>5, <2>6 DEF Kept
<1>15. Stream!Read
  <2> DEFINE q == IF taken <= Len(sent) THEN SubSeq(sent, taken + 1, Len(sent)) ELSE <<>>
  <2>1. taken \in 0..Len(sent) - 1 BY <1>1, <1>6, <1>12 DEF Current
  <2>2. q = SubSeq(sent, taken + 1, Len(sent)) BY <1>1
  <2>3. q' = SubSeq(sent, taken + 2, Len(sent))
    <3>1. taken' = taken + 1 /\ sent' = sent /\ taken' <= Len(sent') BY <1>5, <2>1
    <3>2. q' = SubSeq(sent', taken' + 1, Len(sent')) BY <3>1
    <3>3. taken' + 1 = taken + 2 BY <1>1, <3>1
    <3> QED BY <3>1, <3>2, <3>3
  <2>4. q # <<>> /\ Head(q) = sent[taken + 1] /\ Tail(q) = q'
    <3>1. /\ SubSeq(sent, taken + 1, Len(sent)) # <<>>
          /\ Head(SubSeq(sent, taken + 1, Len(sent))) = sent[taken + 1]
          /\ Tail(SubSeq(sent, taken + 1, Len(sent))) = SubSeq(sent, taken + 2, Len(sent))
      BY <1>1, <2>1, QueueShrinks
    <3> HIDE DEF q
    <3> QED BY <2>2, <2>3, <3>1
  <2>5. last' = sent[taken + 1] BY <1>2, <1>6, <1>11, <1>12 DEF Current
  <2> QED BY <2>4, <2>5 DEF Stream!Read
<1> QED BY <1>14, <1>15 DEF Stream!Next

\* The length is known: what follows is the body, or the packet is whole without one.
LEMMA LengthDone ==
  ASSUME StreamTypes, ~broken, step = "done", UNCHANGED <<network, recv, broken>>,
         NEW c \in Seq(Bytes), Carries(c \o Ahead, sent, taken + 1), NEW d, Taken(c, d),
         NEW n \in Nat, Rest(n), n = Len(sent[taken + 1].body),
         Len(d) = 1 + Len(Length(0, n)), d[1] = header
  PROVE  Kept' /\ [Stream!Next]_(Stream!stream)
<1>1. Base \in Nat \ {0, 1} /\ 0 \in Nat BY ReaderAssumption
<1>2. PICK g \in Nat : g = Len(Length(0, n)) BY <1>1, LengthType
<1>3. d \in Seq(Bytes) /\ Len(d) = 1 + g + 0 BY <1>2 DEF Taken
<1>4. Known(d, header, Len(Length(0, n)), <<>>, n) BY <1>2, <1>3 DEF Known
<1>5. CASE /\ n > 0 /\ stage' = "body" /\ Ask(n) /\ rem_len' = n
           /\ UNCHANGED <<header, multiplier, last, taken>>
  <2>1. AtBody(d)' BY <1>4, <1>5 DEF AtBody, Ask, network
  <2>2. Consumed(d)' BY <2>1 DEF Consumed
  <2>3. UNCHANGED <<network, recv, taken, last, broken>> BY <1>5
  <2> QED BY <1>5, <2>2, <2>3, AsksMore
<1>6. CASE n = 0 /\ Done(Result("packet", header, <<>>)) /\ taken' = taken + 1
  <2>1. Whole(d, header, Len(Length(0, n)), <<>>, n) BY <1>4, <1>6 DEF Whole
  <2> QED BY <1>6, <2>1, PacketOut
<1> QED BY <1>5, <1>6 DEF Rest

\* The remaining length, digit by digit.
LEMMA LengthStep ==
  ASSUME StreamTypes, ~broken, LengthRead
  PROVE  Kept' /\ [Stream!Next]_(Stream!stream)
<1>1. /\ Carried /\ mqtt_recv_offset <= mqtt_recv_len /\ ReaderInv
      /\ Base \in Nat \ {0, 1} /\ taken \in Nat
  BY ReaderAssumption DEF StreamTypes, StreamInv, Kept
<1>2. stage = "length" /\ step = "done" /\ UNCHANGED <<network, recv, broken>>
  BY DEF LengthRead
<1>3. PICK c \in Seq(Bytes) : Consumed(c) /\ Carries(c \o Ahead, sent, taken + 1)
  BY <1>1 DEF Carried
<1>4. AtLength(c) BY <1>2, <1>3 DEF Consumed, Between, AtHeader, AtBody
<1>5. bytes = 1 /\ c[1] = header BY <1>2, <1>4 DEF AtLength
<1>6. \/ Len(c) = 1 /\ rem_len = 0 /\ multiplier = 1
      \/ Len(c) = 2 /\ multiplier = Base /\ c[2].val >= Base /\ c[2].val % Base = rem_len
  BY <1>4 DEF AtLength
<1>7. PICK d : Taken(c, d) BY <1>1, TakesFetched
<1> DEFINE x == buffer[1]
           b == x.val
           v == rem_len + (b % Base) * multiplier
           w == c \o Ahead
<1>8. \/ /\ b >= Base /\ multiplier < MaxMultiplier
         /\ rem_len' = v /\ multiplier' = multiplier * Base /\ Ask(1)
         /\ UNCHANGED <<stage, header, last, taken>>
      \/ ~(b >= Base /\ multiplier < MaxMultiplier) /\ Rest(v)
  BY <1>5 DEF LengthRead
<1>9. b \in Nat /\ Fetched = buffer /\ Len(buffer) = 1
  <2>1. Fetched = buffer /\ Len(buffer) = 1 /\ buffer \in Seq(Bytes)
    BY <1>1, <1>2, <1>5, FetchedAll
  <2>2. x \in Bytes
    <3>1. buffer \in Seq(Bytes) /\ 1 \in 1..Len(buffer) BY <2>1
    <3> QED BY <3>1
  <2> QED BY <2>1, <2>2 DEF Bytes
<1>10. /\ w \in Seq(Bytes) /\ Len(w) \in Nat /\ Len(d) <= Len(w) /\ Len(d) = Len(c) + 1
       /\ \A i \in 1..Len(d) : d[i] = w[i]
       /\ \A i \in 1..Len(c) : d[i] = c[i]
       /\ d[Len(c) + 1] = x
  BY <1>7, <1>9 DEF Taken
<1> HIDE DEF x, w
<1>11. PICK k \in Nat : Current(k) BY <1>1 DEF Current
<1>12. Carries(w, sent, k) BY <1>3, <1>11 DEF Current, w
<1>13. Len(w) # 0 BY <1>6, <1>10
<1>14. PICK z \in 0..(Base * Base - 1) : IsAt(sent, k, z) /\ StartsWith(w, k, z)
  BY <1>10, <1>11, <1>12, <1>13, CurrentPacket
<1>15. z \in Nat /\ z = Len(sent[taken + 1].body) BY <1>11, <1>14 DEF IsAt, Current
<1>16. /\ w[2].val < Base => Len(Length(0, z)) = 1 /\ 0 + (w[2].val % Base) * 1 = z
       /\ w[2].val >= Base =>
            /\ Len(Length(0, z)) = 2 /\ w[3].val < Base
            /\ (w[2].val % Base) + (w[3].val % Base) * Base = z
  BY <1>1, <1>14, DigitRead
<1>17. d[1] = header
  <2>1. 1 \in 1..Len(c) BY <1>6
  <2> QED BY <1>5, <1>10, <2>1
<1>18. ASSUME Rest(z),
              \/ Len(Length(0, z)) = 1 /\ Len(d) = 2
              \/ Len(Length(0, z)) = 2 /\ Len(d) = 3
       PROVE  Kept' /\ [Stream!Next]_(Stream!stream)
  <2>1. Len(d) = 1 + Len(Length(0, z))
    <3>1. CASE Len(Length(0, z)) = 1 /\ Len(d) = 2
      <4>1. Len(d) = 1 + 1 BY <3>1
      <4> QED BY <3>1, <4>1, Zenon
    <3>2. CASE Len(Length(0, z)) = 2 /\ Len(d) = 3
      <4>1. Len(d) = 1 + 2 BY <3>2
      <4> QED BY <3>2, <4>1, Zenon
    <3> QED BY <1>18, <3>1, <3>2
  <2> QED BY <1>2, <1>3, <1>7, <1>15, <1>17, <1>18, <2>1, LengthDone
<1>19. CASE Len(c) = 1
  <2>1. w[2] = x /\ d[2] = x /\ Len(d) = 2 /\ rem_len = 0 /\ multiplier = 1
    BY <1>6, <1>10, <1>19
  <2>2. CASE b < Base
    <3>1. Len(Length(0, z)) = 1 /\ 0 + (b % Base) * 1 = z BY <1>16, <2>1, <2>2
    <3>2. Rest(v)
      <4>1. ~(b >= Base) BY <1>1, <1>9, <2>2
      <4> QED BY <1>8, <4>1
    <3>3. Rest(z)
      <4>1. v = z BY <2>1, <3>1, Zenon
      <4> HIDE DEF v
      <4> QED BY <3>2, <4>1, Zenon
    <3>4. Len(Length(0, z)) = 1 /\ Len(d) = 2 BY <2>1, <3>1
    <3> HIDE DEF b, v
    <3> QED BY <1>18, <3>3, <3>4
  <2>3. CASE b >= Base
    <3>1. multiplier < MaxMultiplier
      <4>1. Base * Base \in Nat /\ Base * Base > 1 BY <1>1
      <4>2. \A y \in Nat : y > 1 => y * Base > 1 BY <1>1
      <4> QED BY <2>1, <4>1, <4>2 DEF MaxMultiplier
    <3>2. /\ rem_len' = v /\ multiplier' = multiplier * Base /\ Ask(1)
          /\ UNCHANGED <<stage, header, last, taken>>
      BY <1>8, <2>3, <3>1
    <3>3. rem_len' = b % Base
      <4>1. b % Base \in Nat
        <5>1. Base \in Nat \ {0} /\ b \in Int BY <1>1, <1>9
        <5> QED BY <5>1
      <4> QED BY <2>1, <3>2, <4>1
    <3>4. multiplier' = Base BY <1>1, <2>1, <3>2
    <3>5. d[2].val >= Base /\ d[2].val % Base = rem_len' BY <2>1, <2>3, <3>3
    <3>6. d[1] = header' /\ stage' = "length" /\ len' = 1 /\ step' = "start"
      BY <1>2, <1>17, <3>2 DEF Ask
    <3>7. AtLength(d)' BY <2>1, <3>4, <3>5, <3>6 DEF AtLength
    <3>8. Consumed(d)' BY <3>7 DEF Consumed
    <3> QED BY <1>2, <1>3, <1>7, <3>2, <3>8, AsksMore
  <2> QED BY <1>1, <1>9, <2>2, <2>3
<1>20. CASE Len(c) = 2
  <2>1. c[2].val >= Base /\ multiplier = Base /\ rem_len = c[2].val % Base BY <1>6, <1>20
  <2>2. w[2] = c[2] /\ w[3] = x /\ Len(d) = 3 BY <1>10, <1>20
  <2>3. Len(Length(0, z)) = 2 /\ b < Base /\ v = z BY <1>16, <2>1, <2>2
  <2>4. Rest(v)
    <3>1. ~(b >= Base) BY <1>1, <1>9, <2>3
    <3> QED BY <1>8, <3>1
  <2>5. Rest(z)
    <3> HIDE DEF v
    <3> QED BY <2>3, <2>4, Zenon
  <2> QED BY <1>18, <2>2, <2>3, <2>5
<1> QED BY <1>6, <1>19, <1>20

\* The body, in one request.
LEMMA BodyStep ==
  ASSUME StreamTypes, ~broken, BodyRead
  PROVE  Kept' /\ [Stream!Next]_(Stream!stream)
<1>1. Carried /\ mqtt_recv_offset <= mqtt_recv_len /\ ReaderInv
  BY DEF StreamTypes, StreamInv, Kept
<1>2. stage = "body" /\ step = "done" /\ UNCHANGED <<network, recv, broken>> BY DEF BodyRead
<1>3. PICK c \in Seq(Bytes) : Consumed(c) /\ Carries(c \o Ahead, sent, taken + 1)
  BY <1>1 DEF Carried
<1>4. AtBody(c) BY <1>2, <1>3 DEF Consumed, Between, AtHeader, AtLength
<1>5. PICK n \in Nat : n = rem_len BY <1>4 DEF AtBody, Known
<1>6. /\ bytes = n /\ n > 0 /\ n = Len(sent[taken + 1].body)
      /\ Known(c, header, Len(Length(0, n)), <<>>, n)
  BY <1>2, <1>4, <1>5 DEF AtBody
<1>7. PICK d : Taken(c, d) BY <1>1, TakesFetched
<1>8. Fetched = buffer /\ buffer \in Seq(Bytes) /\ Len(buffer) = n
  BY <1>1, <1>2, <1>6, FetchedAll
<1>9. Whole(d, header, Len(Length(0, n)), buffer, n)
  <2>1. PICK g \in Nat : g = Len(Length(0, n)) BY <1>6 DEF Known
  <2>2. Len(c) = 1 + g /\ c[1] = header
    <3>1. Len(c) = 1 + g + 0 /\ c[1] = header BY <1>6, <2>1 DEF Known
    <3> QED BY <2>1, <3>1
  <2>3. /\ d \in Seq(Bytes) /\ Len(d) = 1 + g + n
        /\ \A i \in 1..Len(c) : d[i] = c[i]
        /\ \A i \in 1..n : d[1 + g + i] = buffer[i]
    BY <1>7, <1>8, <2>2 DEF Taken
  <2>4. d[1] = header
    <3>1. 1 \in 1..Len(c) BY <2>1, <2>2
    <3> QED BY <2>2, <2>3, <3>1
  <2>5. Known(d, header, g, buffer, n) BY <1>8, <2>1, <2>3, <2>4 DEF Known
  <2> QED BY <1>8, <2>1, <2>5 DEF Whole
<1>10. Done(Result("packet", header, buffer)) /\ taken' = taken + 1 BY <1>5, <1>6 DEF BodyRead
<1> QED BY <1>2, <1>3, <1>6, <1>7, <1>9, <1>10, PacketOut

\* Init is an empty channel.
LEMMA InitStream == Init => StreamTypes /\ Stream!Init
<1> SUFFICES ASSUME Init PROVE StreamTypes /\ Stream!Init
  OBVIOUS
<1>1. ReaderInv BY InitReader
<1>2. Carries(<<>> \o Ahead, sent, taken + 1)
  <2>1. sent \in Seq(Packets) /\ Len(sent) = 0 /\ taken = 0 BY DEF Init
  <2>2. Carries(<<>>, sent, 0 + 1) BY <2>1, CarriesNone
  <2>3. Fetched = <<>> /\ wire = <<>> BY DEF Init, Fetched
  <2>4. Unread = <<>>
    <3>1. Unread = SubSeq(<<>>, 0 + 1, 0) BY DEF Init, Unread
    <3>2. SubSeq(<<>>, 0 + 1, 0) = <<>> OBVIOUS
    <3> QED BY <3>1, <3>2
  <2>5. <<>> \o (<<>> \o (<<>> \o <<>>)) = <<>> OBVIOUS
  <2>6. <<>> \o Ahead = <<>> BY <2>3, <2>4, <2>5 DEF Ahead
  <2> QED BY <2>1, <2>2, <2>6
<1>3. Carried
  <2>1. Consumed(<<>>) BY DEF Init, Consumed, Between
  <2>2. <<>> \in Seq(Bytes) OBVIOUS
  <2> QED BY <1>2, <2>1, <2>2 DEF Carried
<1>4. StreamInv
  <2>1. sent = <<>> /\ taken \in Nat /\ broken \in BOOLEAN BY DEF Init
  <2>2. taken <= Len(sent) /\ step = "done" /\ mqtt_recv_offset <= mqtt_recv_len BY DEF Init
  <2>3. Numbered(sent) BY <2>1 DEF Numbered
  <2> QED BY <1>3, <2>1, <2>2, <2>3 DEF StreamInv, Kept
<1>5. Stream!Init BY DEF Init, Stream!Init, Results
<1> QED BY <1>1, <1>4, <1>5 DEF StreamTypes

\* Every step is one of the channel, or none.
LEMMA StreamStep ==
  ASSUME StreamTypes, [Next]_vars
  PROVE  StreamInv' /\ [Stream!Next]_(Stream!stream)
<1>1. taken' \in Nat /\ broken' \in BOOLEAN /\ Numbered(sent') /\ (broken => broken')
  BY StreamTypeStep
<1>2. Kept' /\ [Stream!Next]_(Stream!stream)
  <2>1. CASE broken
    <3>1. broken' BY <1>1, <2>1
    <3> QED BY <3>1, BreakStep
  <2>2. CASE ~broken
    <3>1. CASE UNCHANGED vars \/ BrokerLeaves
      <4>1. /\ UNCHANGED <<wire, sent, recv, read, readPacketVars, broken>> /\ Kept
        BY <3>1 DEF vars, network, BrokerLeaves, StreamTypes, StreamInv
      <4>2. Ahead' = Ahead /\ UNCHANGED <<sent, taken, last, broken>>
        BY <4>1 DEF Ahead, Fetched, Unread, recv, read, readPacketVars
      <4>3. \A c : Consumed(c)' = Consumed(c)
        BY <4>1 DEF Consumed, Between, AtHeader, AtLength, AtBody, read, readPacketVars
      <4>4. Carried' = Carried BY <4>2, <4>3 DEF Carried
      <4>5. UNCHANGED <<step, mqtt_recv_offset, mqtt_recv_len>> BY <4>1 DEF read, recv
      <4>6. Kept' BY <4>1, <4>2, <4>4, <4>5 DEF Kept
      <4> QED BY <2>2, <4>2, <4>6, QuietStep
    <3> QED
      BY <2>2, <3>1, SendStep, RequestStep, BeginStep, HeaderStep, LengthStep, BodyStep DEF Next
  <2> QED BY <2>1, <2>2
<1> QED BY <1>1, <1>2 DEF StreamInv

\* For every size of the receive buffer, number base and stream of packets: in whatever pieces
\* mbedtls_ssl_read returns the bytes, readPacket implements the channel that hands out each
\* packet whole, once and in order, until a request needs a second piece or finds none in the
\* middle of a packet.
THEOREM ReadsWholePackets == Spec => StreamSpec
<1>1. StreamTypes /\ [Next]_vars => StreamTypes' /\ [Stream!Next]_(Stream!stream)
  BY ReaderStep, StreamStep DEF StreamTypes
<1>2. Init => StreamTypes /\ Stream!Init BY InitStream
<1> QED BY <1>1, <1>2, PTL DEF Spec, StreamSpec, Stream!Spec
=============================================================================

----------------------------- MODULE PacketCodec -----------------------------
(***************************************************************************)
(* The packets of MQTTPacket/src as bytes: what the client serializes into *)
(* its send buffer, read by its peer, and what its peer sends, read by the *)
(* client, whose deliverMessage then looks for the handlers.  The peer is  *)
(* either the library's own server side or one that goes by the protocol.  *)
(*                                                                         *)
(* One packet at a time is written and read.  Remaining lengths have up to *)
(* four digits; the client's buffers do not hold longer packets.           *)
(***************************************************************************)
EXTENDS TopicMatch, SequencesExt

CONSTANTS
  Base,         \* 128 in the code: a digit of the remaining length is below it
  BufSizes,     \* sizes of the send buffer; 512 in mqtt.c
  StringLens,   \* lengths of its topics, client ids and credentials
  PayloadLens,  \* lengths of the messages the client publishes
  PacketIds, KeepAlives,
  Letters, MaxNameLen, MaxFilterLen  \* what the peer publishes on, what is subscribed to

\* What two bytes hold.
MaxWord == 65535
Word == 0..MaxWord

ASSUME CodecAssumption ==
  /\ Base \in Nat \ {0, 1, 2} /\ BufSizes \subseteq Nat /\ StringLens \subseteq Word
  /\ PayloadLens \subseteq Nat /\ MaxNameLen \in Word /\ MaxFilterLen \in Nat
  /\ PacketIds \subseteq Word /\ KeepAlives \subseteq Word
  /\ Letters \subseteq 0..255 \ Wildcards

\* The longest packets - a CONNECT of five strings, a message and its name - have at most
\* four digits, those of the peer three.
ASSUME LengthAssumption ==
  /\ \A n \in StringLens : 12 + 5 * (n + 2) < Base * Base * Base * Base
  /\ \A n \in StringLens, m \in PayloadLens : 4 + n + m < Base * Base * Base * Base
  /\ 5 + MaxNameLen < Base * Base * Base

VARIABLES
  stage,    \* "idle", "written" by the client, "received" from the peer, "read" by the
            \* client or a peer of the protocol, "served" by the library's server side
  packet,   \* what was to be sent
  buf,      \* its bytes; none when the writer's buffer is too short
  buflen,   \* the size of that buffer
  needed,   \* history: the bytes the packet takes
  got       \* what the reader has made of them

vars == <<stage, packet, buf, buflen, needed, got>>

-----------------------------------------------------------------------------
(* Bytes *)

CONNECT == 1       CONNACK == 2     PUBLISH == 3       PUBACK == 4       PUBREC == 5
PUBREL == 6        PUBCOMP == 7     SUBSCRIBE == 8     SUBACK == 9       UNSUBSCRIBE == 10
UNSUBACK == 11     PINGREQ == 12    DISCONNECT == 14
Acks == {PUBACK, PUBREC, PUBREL, PUBCOMP}

MQTTHeader(type, dup, qos, retain) == 16 * type + 8 * dup + 2 * qos + retain
TypeOf(s) == s[1] \div 16
Bit(byte, i) == (byte \div 2^i) % 2

writeInt(anInt) == <<anInt \div 256, anInt % 256>>
readInt(s) == 256 * s[1] + s[2]
writeMQTTString(string) == writeInt(Len(string)) \o string

MaxRemLen == Base * Base * Base * Base - 1
MQTTPacket_encode[length \in 0..MaxRemLen] ==
  IF length < Base THEN <<length>>
  ELSE <<Base + (length % Base)>> \o MQTTPacket_encode[length \div Base]

\* The number of digits s begins with, and their value.
Digits(s) ==
  CHOOSE k \in 1..4 : (k = 4 \/ s[k] < Base) /\ \A j \in 1..(k - 1) : s[j] >= Base
MQTTPacket_decode(s) ==
  LET value[i \in 1..Digits(s)] ==
        (s[i] % Base) + (IF i < Digits(s) THEN Base * value[i + 1] ELSE 0)
  IN value[1]

\* Mutant: the header byte is not counted.
Mutant_MQTTPacket_len(rem_len) ==
  rem_len + (IF rem_len < Base THEN 1 ELSE IF rem_len < Base * Base THEN 2
             ELSE IF rem_len < Base * Base * Base - 1 THEN 3 ELSE 4)
\* The thresholds are compared with the length and the header byte.
MQTTPacket_len(rem_len) ==
  LET n == rem_len + 1 IN
  n + (IF n < Base THEN 1 ELSE IF n < Base * Base THEN 2
       ELSE IF n < Base * Base * Base - 1 THEN 3 ELSE 4)

\* What follows the fixed header, as far as the remaining length reaches.
Data(s) ==
  LET k == Digits(Tail(s)) IN SubSeq(s, k + 2, k + 1 + MQTTPacket_decode(Tail(s)))
Complete(s) == Len(s) = 1 + Digits(Tail(s)) + MQTTPacket_decode(Tail(s))

-----------------------------------------------------------------------------
(* The client writes. *)

NoPacket == [type |-> 0]
Init == /\ stage = "idle" /\ packet = NoPacket /\ got = NoPacket
        /\ buf = <<>> /\ buflen = 0 /\ needed = 0

Bytes(header, rem_len, body) == <<header>> \o MQTTPacket_encode[rem_len] \o body

\* A packet whose length, as limit tells it, is more than the buffer's is refused.
SerializeTo(to, p, header, rem_len, limit, body) ==
  LET bytes == Bytes(header, rem_len, body) IN
  /\ stage = "idle" /\ stage' = to /\ packet' = p
  /\ \E size \in BufSizes :
       /\ buflen' = size
       /\ buf' = IF limit > size THEN <<>> ELSE bytes
  /\ needed' = Len(bytes)
  /\ UNCHANGED got
Serialize(p, header, rem_len, limit, body) ==
  SerializeTo("written", p, header, rem_len, limit, body)

Strings == {[i \in 1..n |-> 97] : n \in StringLens}
\* An optional string is a sequence of one or none.
Optional(S) == {<<>>} \cup {<<x>> : x \in S}
\* Mutant: the bytes of its length are not counted.
Mutant_OptionalLength(opt) == IF opt = <<>> THEN 0 ELSE Len(opt[1])
OptionalLength(opt) == IF opt = <<>> THEN 0 ELSE Len(opt[1]) + 2
writeOptional(opt) == IF opt = <<>> THEN <<>> ELSE writeMQTTString(opt[1])
Wills == [topicName : Strings, message : Strings, qos : {1}, retained : 0..1]

connectLength(o) ==
  LET will == IF o.will = <<>> THEN 0
              ELSE Len(o.will[1].topicName) + 2 + Len(o.will[1].message) + 2
  IN (IF o.MQTTVersion = 3 THEN 12 ELSE 10) + Len(o.clientID) + 2 + will
       + OptionalLength(o.username) + OptionalLength(o.password)

\* "MQTT" and "MQIsdp", in ASCII.
ProtocolName(version) ==
  IF version = 4 THEN <<77, 81, 84, 84>> ELSE <<77, 81, 73, 115, 100, 112>>
ConnectFlags(o) ==
  2 * o.cleansession + 64 * Len(o.password) + 128 * Len(o.username)
    + (IF o.will = <<>> THEN 0 ELSE 4 + 8 * o.will[1].qos + 32 * o.will[1].retained)
ConnectBody(o) ==
  writeMQTTString(ProtocolName(o.MQTTVersion)) \o <<o.MQTTVersion, ConnectFlags(o)>>
    \o writeInt(o.keepAliveInterval) \o writeMQTTString(o.clientID)
    \o (IF o.will = <<>> THEN <<>>
        ELSE writeMQTTString(o.will[1].topicName) \o writeMQTTString(o.will[1].message))
    \o writeOptional(o.username) \o writeOptional(o.password)
SerializeConnect ==
  \E o \in [type : {CONNECT}, MQTTVersion : {3, 4}, cleansession : 0..1,
            keepAliveInterval : KeepAlives, clientID : Strings, will : Optional(Wills),
            username : Optional(Strings), password : Optional(Strings)] :
    Serialize(o, MQTTHeader(CONNECT, 0, 0, 0), connectLength(o),
              MQTTPacket_len(connectLength(o)), ConnectBody(o))

\* One or two filters in a packet; MQTTSubscribe and MQTTUnsubscribe pass one.
Lists(S) == {<<x>> : x \in S} \cup {<<x, y>> : x \in S, y \in S}
\* The bytes strings take.
SizeOf(strings) == FoldSeq(LAMBDA s, n : n + 2 + Len(s), 0, strings)

subscribeLength(requests) ==
  2 + SizeOf([i \in DOMAIN requests |-> requests[i].topicFilter]) + Len(requests)
subscribeBody(p) ==
  writeInt(p.packetid)
    \o FlattenSeq([i \in DOMAIN p.requests |->
         writeMQTTString(p.requests[i].topicFilter) \o <<p.requests[i].requestedQoS>>])
SerializeSubscribe ==
  \E p \in [type : {SUBSCRIBE}, dup : 0..1, packetid : PacketIds,
            requests : Lists([topicFilter : Strings, requestedQoS : 0..2])] :
    Serialize(p, MQTTHeader(SUBSCRIBE, p.dup, 1, 0), subscribeLength(p.requests),
              MQTTPacket_len(subscribeLength(p.requests)), subscribeBody(p))

unsubscribeLength(filters) == 2 + SizeOf(filters)
unsubscribeBody(p) ==
  writeInt(p.packetid)
    \o FlattenSeq([i \in DOMAIN p.topicFilters |-> writeMQTTString(p.topicFilters[i])])
SerializeUnsubscribe ==
  \E p \in [type : {UNSUBSCRIBE}, dup : 0..1, packetid : PacketIds,
            topicFilters : Lists(Strings)] :
    Serialize(p, MQTTHeader(UNSUBSCRIBE, p.dup, 1, 0), unsubscribeLength(p.topicFilters),
              MQTTPacket_len(unsubscribeLength(p.topicFilters)), unsubscribeBody(p))

\* A message of QoS 0 has no packet id: 0 stands for none.
Publishes(topics, payloadLens) ==
  {p \in [type : {PUBLISH}, dup : {0}, qos : 0..2, retained : 0..1,
          packetid : PacketIds \cup {0}, topicName : topics,
          payload : {[i \in 1..n |-> 0] : n \in payloadLens}] :
     (p.qos = 0) <=> (p.packetid = 0)}
publishLength(qos, topicName, payloadlen) ==
  2 + Len(topicName) + payloadlen + (IF qos > 0 THEN 2 ELSE 0)
PublishHeader(p) == MQTTHeader(PUBLISH, p.dup, p.qos, p.retained)
PublishBody(p) == writeMQTTString(p.topicName)
                    \o (IF p.qos > 0 THEN writeInt(p.packetid) ELSE <<>>) \o p.payload
SerializePublish ==
  \E p \in Publishes(Strings, PayloadLens) :
    LET rem_len == publishLength(p.qos, p.topicName, Len(p.payload)) IN
    Serialize(p, PublishHeader(p), rem_len, MQTTPacket_len(rem_len), PublishBody(p))

AckHeader(type) == MQTTHeader(type, 0, IF type = PUBREL THEN 1 ELSE 0, 0)
SerializeAck ==
  \E p \in [type : Acks, packetid : PacketIds] :
    Serialize(p, AckHeader(p.type), 2, 4, writeInt(p.packetid))

SerializeZero ==
  \E p \in [type : {PINGREQ, DISCONNECT}] :
    Serialize(p, MQTTHeader(p.type, 0, 0, 0), 0, 2, <<>>)

-----------------------------------------------------------------------------
(* The peer sends, in bytes of its own making: nothing here is of the client. *)

\* What the peer may send: one code in a SUBACK, no session, names without wildcards.
TopicNames == UNION {[1..n -> Letters] : n \in 0..MaxNameLen}
PeerPackets ==
  [type : {CONNACK}, sessionPresent : {0}, connack_rc : 0..5]
  \cup [type : {SUBACK}, packetid : PacketIds, grantedQoSs : {<<q>> : q \in {0, 1, 2, 128}}]
  \cup [type : {UNSUBACK} \cup Acks, packetid : PacketIds]
  \cup Publishes(TopicNames, {1})
TwoBytes(n) == <<n \div 256, n % 256>>
PeerBody(p) ==
  CASE p.type = CONNACK -> <<p.sessionPresent, p.connack_rc>>
    [] p.type = SUBACK  -> TwoBytes(p.packetid) \o p.grantedQoSs
    [] p.type = PUBLISH -> TwoBytes(Len(p.topicName)) \o p.topicName
         \o (IF p.qos > 0 THEN TwoBytes(p.packetid) ELSE <<>>) \o p.payload
    [] OTHER -> TwoBytes(p.packetid)
PeerHeader(p) ==
  16 * p.type + CASE p.type = PUBLISH -> 8 * p.dup + 2 * p.qos + p.retained
                  [] p.type = PUBREL  -> 2
                  [] OTHER -> 0
\* The shortest digits that give a remaining length, at most three of them here.
PeerDigits(n) == IF n < Base THEN <<n>>
                 ELSE IF n < Base * Base THEN <<Base + (n % Base), n \div Base>>
                 ELSE <<Base + (n % Base), Base + ((n \div Base) % Base), n \div (Base * Base)>>
PeerSends ==
  /\ stage = "idle" /\ stage' = "received"
  /\ \E p \in PeerPackets :
       /\ packet' = p
       /\ buf' = <<PeerHeader(p)>> \o PeerDigits(Len(PeerBody(p))) \o PeerBody(p)
  /\ UNCHANGED <<buflen, needed, got>>

-----------------------------------------------------------------------------
(* The library's server side answers.  Its limits leave out the fixed header. *)

MQTTSerialize_connack ==
  \E p \in [type : {CONNACK}, sessionPresent : 0..1, connack_rc : 0..5] :
    SerializeTo("received", p, MQTTHeader(CONNACK, 0, 0, 0), 2, 2,
                <<128 * p.sessionPresent, p.connack_rc>>)
MQTTSerialize_suback ==
  \E p \in [type : {SUBACK}, packetid : PacketIds, grantedQoSs : Lists({0, 1, 2, 128})] :
    LET count == Len(p.grantedQoSs) IN
    SerializeTo("received", p, MQTTHeader(SUBACK, 0, 0, 0), 2 + count, 2 + count,
                writeInt(p.packetid) \o p.grantedQoSs)
MQTTSerialize_unsuback ==
  \E p \in [type : {UNSUBACK}, packetid : PacketIds] :
    SerializeTo("received", p, MQTTHeader(UNSUBACK, 0, 0, 0), 2, 2, writeInt(p.packetid))

-----------------------------------------------------------------------------
(* The client reads. *)

\* The outputs of a deserializer that stops early: what its rc says then (often 1,
\* the number of length digits) is not told apart.
Malformed == [type |-> 15]
\* A code was stored behind the caller's array: what the caller finds then is not defined.
Overrun == [type |-> 16]
\* The string that starts at byte i and ends in s: one, or none on failure.
readMQTTLenString(s, i) ==
  IF Len(s) - i < 1 THEN <<>>
  ELSE LET n == readInt(SubSeq(s, i, i + 1)) IN
       IF i + 1 + n > Len(s) THEN <<>> ELSE <<SubSeq(s, i + 2, i + 1 + n)>>

MQTTDeserialize_connack(d) ==
  IF Len(d) < 2 THEN Malformed
  ELSE [type |-> CONNACK, sessionPresent |-> Bit(d[1], 7), connack_rc |-> d[2]]
\* A code is stored while no more than maxcount are: one more than there is room for.
MQTTDeserialize_suback(maxcount, d) ==
  LET count  == Len(d) - 2
      stored == IF count > maxcount THEN maxcount + 1 ELSE count
  IN IF count < 0 THEN Malformed
     ELSE IF stored > maxcount THEN Overrun
     ELSE [type |-> SUBACK, packetid |-> readInt(d), grantedQoSs |-> SubSeq(d, 3, Len(d))]
\* MQTTSubscribe has an array of one.
MaxCount == 1
MQTTDeserialize_ack(type, d) ==
  IF Len(d) < 2 THEN Malformed ELSE [type |-> type, packetid |-> readInt(d)]
MQTTDeserialize_unsuback(d) == MQTTDeserialize_ack(UNSUBACK, d)
MQTTDeserialize_publish(header, d) ==
  LET name == readMQTTLenString(d, 1)
      qos  == Bit(header, 1) + 2 * Bit(header, 2)
  IN IF name = <<>> THEN Malformed
     ELSE LET at == 3 + Len(name[1])
              id == IF qos > 0 THEN readInt(SubSeq(d, at, at + 1)) ELSE 0
          IN [type |-> PUBLISH, dup |-> Bit(header, 3), qos |-> qos,
              retained |-> Bit(header, 0), packetid |-> id, topicName |-> name[1],
              payload |-> SubSeq(d, at + (IF qos > 0 THEN 2 ELSE 0), Len(d))]

\* cycle and waitfor choose the deserializer by the type in the header.
ClientReads ==
  /\ stage = "received" /\ buf # <<>> /\ stage' = "read"
  /\ LET d == Data(buf) IN
     got' = CASE TypeOf(buf) = CONNACK  -> MQTTDeserialize_connack(d)
              [] TypeOf(buf) = SUBACK   -> MQTTDeserialize_suback(MaxCount, d)
              [] TypeOf(buf) = UNSUBACK -> MQTTDeserialize_unsuback(d)
              [] TypeOf(buf) = PUBLISH  -> MQTTDeserialize_publish(buf[1], d)
              [] TypeOf(buf) \in Acks   -> MQTTDeserialize_ack(TypeOf(buf), d)
  /\ UNCHANGED <<packet, buf, buflen, needed>>

-----------------------------------------------------------------------------
(* A peer of the protocol reads a CONNECT by the grammar of MQTT. *)

\* The strings of s from byte i0 on.
PeerStrings(s, i0) ==
  LET from[i \in i0..(Len(s) + 1)] ==
        IF i = Len(s) + 1 THEN <<>>
        ELSE LET string == readMQTTLenString(s, i) IN
             IF string = <<>> THEN <<>>
             ELSE string \o from[i + 2 + Len(string[1])]
  IN from[i0]
PeerConnect(d) ==
  LET name  == readMQTTLenString(d, 1)
      at    == 3 + Len(name[1])
      flags == d[at + 1]
      ss    == PeerStrings(d, at + 4)
      w     == Bit(flags, 2)
      user  == 2 + 2 * w
      pass  == user + Bit(flags, 7)
  IN IF name # <<ProtocolName(d[at])>> \/ Len(ss) # pass + Bit(flags, 6) - 1
     THEN Malformed
     ELSE [type |-> CONNECT, MQTTVersion |-> d[at], cleansession |-> Bit(flags, 1),
           keepAliveInterval |-> readInt(SubSeq(d, at + 2, at + 3)), clientID |-> ss[1],
           will |-> IF w = 0 THEN <<>>
                    ELSE <<[topicName |-> ss[2], message |-> ss[3], retained |-> Bit(flags, 5),
                            qos |-> Bit(flags, 3) + 2 * Bit(flags, 4)]>>,
           username |-> SubSeq(ss, user, pass - 1), password |-> SubSeq(ss, pass, Len(ss))]
PeerReads ==
  /\ stage = "written" /\ buf # <<>> /\ TypeOf(buf) = CONNECT /\ stage' = "read"
  /\ got' = IF Complete(buf) THEN PeerConnect(Data(buf)) ELSE Malformed
  /\ UNCHANGED <<packet, buf, buflen, needed>>

-----------------------------------------------------------------------------
(* The library's server side reads. *)

\* As far as the shorter of the two names goes.
SamePrefix(s, t) ==
  \A i \in 1..Len(s) : i <= Len(t) => s[i] = t[i]
MQTTPacket_checkVersion(protocol, version) ==
  version \in {3, 4} /\ SamePrefix(protocol, ProtocolName(version))

\* A credential of its own length needs three bytes: an empty one at the end is refused.
readCredential(flag, s, i) ==
  IF flag = 1 /\ Len(s) - i + 1 >= 3 THEN readMQTTLenString(s, i) ELSE <<>>
\* Mutant: the will is read whether or not its flag is set.
Mutant_readWill(flag, s, i) ==
  LET topicName == readMQTTLenString(s, i)
      message   == IF topicName = <<>> THEN <<>>
                   ELSE readMQTTLenString(s, i + 2 + Len(topicName[1]))
  IN topicName \o message
\* Topic and message of the will, or fewer than two strings on failure.
readWill(flag, s, i) ==
  LET topicName == IF flag = 0 THEN <<>> ELSE readMQTTLenString(s, i)
      message   == IF topicName = <<>> THEN <<>>
                   ELSE readMQTTLenString(s, i + 2 + Len(topicName[1]))
  IN topicName \o message

\* MQTTPacket_connectData_initializer
InitialVersion == 4
\* The version of the packet is looked at, and not handed out.
MQTTDeserialize_connect(d) ==
  LET Protocol == readMQTTLenString(d, 1)
      at       == 3 + Len(Protocol[1])
      flags    == d[at + 1]
      w        == Bit(flags, 2)
      clientID == readMQTTLenString(d, at + 4)
      atWill   == at + 4 + SizeOf(clientID)
      will     == readWill(w, d, atWill)
      atUser   == atWill + SizeOf(will)
      username == readCredential(Bit(flags, 7), d, atUser)
      password == readCredential(Bit(flags, 6), d, atUser + SizeOf(username))
  IN IF \/ Protocol = <<>> \/ ~MQTTPacket_checkVersion(Protocol[1], d[at])
        \/ clientID = <<>> \/ Len(will) # 2 * w
        \/ Len(username) # Bit(flags, 7) \/ Len(password) # Bit(flags, 6)
        \/ Bit(flags, 6) = 1 /\ Bit(flags, 7) = 0
     THEN Malformed
     ELSE [type |-> CONNECT, MQTTVersion |-> InitialVersion,
           cleansession |-> Bit(flags, 1),
           keepAliveInterval |-> readInt(SubSeq(d, at + 2, at + 3)), clientID |-> clientID[1],
           will |-> IF w = 0 THEN <<>>
                    ELSE <<[topicName |-> will[1], message |-> will[2],
                            retained |-> Bit(flags, 5),
                            qos |-> Bit(flags, 3) + 2 * Bit(flags, 4)]>>,
           username |-> username, password |-> password]

\* The loops over the filters, from byte i on: one list, or none when a string or its
\* QoS is not there.
Requests(d) ==
  LET from[i \in 3..(Len(d) + 1)] ==
        IF i > Len(d) THEN << <<>> >>
        ELSE LET filter == readMQTTLenString(d, i)
                 at     == i + 2 + Len(filter[1])
             IN IF filter = <<>> \/ at > Len(d) \/ from[at + 1] = <<>> THEN <<>>
                ELSE << <<[topicFilter |-> filter[1], requestedQoS |-> d[at]]>>
                          \o from[at + 1][1] >>
  IN from[3]
TopicFilters(d) ==
  LET from[i \in 3..(Len(d) + 1)] ==
        IF i > Len(d) THEN << <<>> >>
        ELSE LET filter == readMQTTLenString(d, i)
                 next   == i + 2 + Len(filter[1])
             IN IF filter = <<>> \/ from[next] = <<>> THEN <<>>
                ELSE << filter \o from[next][1] >>
  IN from[3]
MQTTDeserialize_subscribe(header, d) ==
  LET requests == Requests(d) IN
  IF requests = <<>> THEN Malformed
  ELSE [type |-> SUBSCRIBE, dup |-> Bit(header, 3), packetid |-> readInt(d),
        requests |-> requests[1]]
MQTTDeserialize_unsubscribe(header, d) ==
  LET filters == TopicFilters(d) IN
  IF filters = <<>> THEN Malformed
  ELSE [type |-> UNSUBSCRIBE, dup |-> Bit(header, 3), packetid |-> readInt(d),
        topicFilters |-> filters[1]]

ServerReads ==
  /\ stage = "written" /\ buf # <<>> /\ stage' = "served"
  /\ LET d == Data(buf)
         type == TypeOf(buf)
     IN got' = IF ~Complete(buf) THEN Malformed
               ELSE CASE type = CONNECT -> MQTTDeserialize_connect(d)
                      [] type = SUBSCRIBE -> MQTTDeserialize_subscribe(buf[1], d)
                      [] type = UNSUBSCRIBE -> MQTTDeserialize_unsubscribe(buf[1], d)
                      [] type = PUBLISH -> MQTTDeserialize_publish(buf[1], d)
                      [] type \in Acks  -> MQTTDeserialize_ack(type, d)
                      [] OTHER -> [type |-> type]
  /\ UNCHANGED <<packet, buf, buflen, needed>>

\* A packet was read, or refused: the next one.
NextPacket ==
  /\ stage \in {"read", "served"} \/ (stage # "idle" /\ buf = <<>>)
  /\ stage' = "idle" /\ packet' = NoPacket /\ got' = NoPacket
  /\ buf' = <<>> /\ buflen' = 0 /\ needed' = 0

Next ==
  \/ SerializeConnect \/ SerializeSubscribe \/ SerializeUnsubscribe
  \/ SerializePublish \/ SerializeAck \/ SerializeZero
  \/ PeerSends \/ MQTTSerialize_connack \/ MQTTSerialize_suback \/ MQTTSerialize_unsuback
  \/ ClientReads \/ PeerReads \/ ServerReads \/ NextPacket

Spec == Init /\ [][Next]_vars

-----------------------------------------------------------------------------
(* Properties *)

\* A packet that was written lies in the buffer it was measured for, and one that was
\* refused would have filled it: MQTTPacket_len errs on the safe side, by one byte.  The
\* server side's three answers leave the fixed header out of what they measure.
Fits ==
  stage \in {"written", "received"} /\ needed > 0 =>
    /\ buf # <<>> =>
         Len(buf) <= buflen + IF stage = "written" THEN 0 ELSE 1 + Digits(Tail(buf))
    /\ buf = <<>> => needed >= buflen

\* The reader of a packet gets what its writer was given: the length the
\* MQTTSerialize_ functions announce is that of what they write, strings that
\* are empty or absent do not shift the others, and the digits are read back.
\* Only a SUBACK of more codes than MQTTSubscribe's array holds overruns it.
TooManyCodes(p) == p.type = SUBACK /\ Len(p.grantedQoSs) > MaxCount
RoundTrip == stage = "read" => got = IF TooManyCodes(packet) THEN Overrun ELSE packet

\* So does the library's own server side, which refuses only a password without a user
\* name, and credentials that end in an empty string.  It does not hand out the version.
Refused(p) ==
  /\ p.type = CONNECT
  /\ \/ p.username = <<>> /\ p.password # <<>>
     \/ p.username \o p.password # <<>> /\ Last(p.username \o p.password) = <<>>
HandedOut(p) == IF p.type = CONNECT THEN [p EXCEPT !.MQTTVersion = InitialVersion] ELSE p
ServerUnderstands ==
  stage = "served" => got = IF Refused(packet) THEN Malformed ELSE HandedOut(packet)

Filters == {f \in UNION {[1..n -> Letters \cup Wildcards] : n \in 1..MaxFilterLen} : Correct(f)}
NoEmptyLevel(name) == \A k \in 1..Len(Levels(name)) : Levels(name)[k] # <<>>

\* deliverMessage calls no handler whose filter does not match the name, and
\* every one whose filter does, but for names with an empty level and for the
\* parent of "#".
RightHandlers ==
  stage = "read" /\ got.type = PUBLISH /\ got.qos = 0 /\ got.retained = 0 =>
    \A filter \in Filters :
      LET name == got.topicName
          parent == EndsInAny(Levels(filter)) /\ Len(Levels(name)) < Len(Levels(filter))
      IN /\ Handles(filter, name) => Matches(filter, name)
         /\ Matches(filter, name) /\ NoEmptyLevel(name) /\ ~parent => Handles(filter, name)
=============================================================================

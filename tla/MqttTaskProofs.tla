----------------------------- MODULE MqttTaskProofs -----------------------------
(***************************************************************************)
(* Theorems about MQTTClient, for every value of its constants, and about  *)
(* MqttTask, the task that calls it, for every number of sensors, handler  *)
(* slots, packet ids and every window.                                     *)
(***************************************************************************)
EXTENDS MqttTask, FiniteSetTheorems, TLAPS

-----------------------------------------------------------------------------
(* Packets and writing. *)

\* Pkt builds packets.
LEMMA PktType ==
  ASSUME NEW type \in PacketTypes \cup Pseudo, NEW id \in Ids, NEW val \in 0..128,
         NEW topic \in Topics \cup {NoTopic}, type = "SUBSCRIBE" => topic \in Topics
  PROVE  Pkt(type, id, val, topic) \in Packet
BY DEF Pkt, Packet, Fields

\* Plain builds packets, of any type but SUBSCRIBE.
LEMMA PlainType ==
  ASSUME NEW type \in PacketTypes \cup Pseudo, type # "SUBSCRIBE", NEW id \in Ids
  PROVE  Plain(type, id) \in Packet
BY PktType DEF Plain

\* The two pseudo packets are packets.
LEMMA PseudoType == NoPacket \in Packet /\ ReadFailed \in Packet
<1>1. 0 \in Ids BY ClientAssumption DEF Ids
<1> QED BY <1>1, PlainType DEF NoPacket, ReadFailed, Pseudo

\* What cycle answers is a packet.
LEMMA AnswerType ==
  ASSUME NEW p \in Packet PROVE Answer(p) \in Packet
<1>1. p.id \in Ids BY DEF Packet, Fields
<1> QED BY <1>1, PlainType, PseudoType DEF Answer, PacketTypes

\* Channels keep their type and their bound when the client writes.
LEMMA WrittenType ==
  ASSUME toBroker \in Seq(Packet), Len(toBroker) <= Window, NEW p \in Packet, Written(p)
  PROVE  toBroker' \in Seq(Packet) /\ Len(toBroker') <= Window /\ ping_timer' \in BOOLEAN
<1>1. CASE Live /\ Len(toBroker) < Window /\ toBroker' = Append(toBroker, p)
  <2>1. Len(Append(toBroker, p)) = Len(toBroker) + 1 OBVIOUS
  <2> QED BY <1>1, <2>1, ClientAssumption DEF Written, CountdownPing
<1>2. CASE UNCHANGED toBroker BY <1>2 DEF Written, CountdownPing
<1> QED BY <1>1, <1>2 DEF Written

-----------------------------------------------------------------------------
(* Types *)

\* Return establishes the types of the call's variables ...
LEMMA ReturnType ==
  ASSUME NEW code \in -1..128, Return(code)
  PROVE  FrameType'
BY PseudoType DEF Return, Steps, FrameType

\* ... and so does Begin.
LEMMA BeginType ==
  ASSUME FrameType, NEW p \in Packet, Begin(p)
  PROVE  FrameType'
BY DEF Begin, Steps, FrameType, FAILURE

\* The next packet id is one.
LEMMA NextIdType == ClientType => getNextPacketId \in 1..MaxPacketId
BY ClientAssumption DEF ClientType, getNextPacketId

\* The application's steps keep the types.
LEMMA ApplicationType == TypeOK /\ Application => TypeOK'
<1> SUFFICES ASSUME TypeOK, Application PROVE TypeOK'
  OBVIOUS
<1> USE DEF TypeOK
<1>0. 0 \in Ids /\ 1..MaxPacketId \subseteq Ids BY ClientAssumption DEF Ids
<1>f. FAILURE \in -1..128 BY DEF FAILURE
<1>n. UNCHANGED <<network, unacked, subscribed>> => NetworkType' BY DEF NetworkType, network
<1>1. CASE OpenSession
  <2>1. 1 \in 1..MaxPacketId BY ClientAssumption
  <2>2. ClientType' BY <1>1, <2>1 DEF OpenSession, MQTTClientInit, ClientType
  <2>3. <<>> \in Seq(Packet) /\ Len(<<>>) <= Window BY ClientAssumption
  <2>4. NetworkType' BY <1>1, <2>3 DEF OpenSession, NetworkConnect, NetworkType
  <2>5. FrameType' BY <1>1 DEF OpenSession, NetworkConnect, frame, FrameType
  <2> QED BY <2>2, <2>4, <2>5
<1>2. CASE CloseSession
  <2>1. <<>> \in Seq(Packet) /\ Len(<<>>) <= Window BY ClientAssumption
  <2>2. NetworkType' BY <1>2, <2>1 DEF CloseSession, NetworkDisconnect, history, NetworkType
  <2>3. ClientType' /\ FrameType'
    BY <1>2 DEF CloseSession, client, frame, history, ClientType, FrameType
  <2> QED BY <2>2, <2>3
<1>3. CASE MQTTConnect
  <2>1. Plain("CONNECT", 0) \in Packet BY <1>0, PlainType DEF PacketTypes
  <2>2. ClientType' BY <1>3 DEF MQTTConnect, ClientType, CountdownPing
  <2>3. Return(FAILURE) \/ Begin(Plain("CONNECT", 0)) BY <1>3 DEF MQTTConnect, TooLong
  <2>4. FrameType' BY <1>f, <2>1, <2>3, ReturnType, BeginType
  <2> QED BY <1>3, <1>n, <2>2, <2>4 DEF MQTTConnect
<1>4. CASE MQTTYield
  BY <1>4, <1>n DEF MQTTYield, ClientType, FrameType, client, history, Steps, SUCCESS
<1>5. CASE MQTTDisconnect
  <2>1. Plain("DISCONNECT", 0) \in Packet BY <1>0, PlainType DEF PacketTypes
  <2> QED BY <1>5, <1>n, <2>1, BeginType DEF MQTTDisconnect, ClientType, client
<1>r. ASSUME Request, next_packetid' \in 1..MaxPacketId,
             Return(FAILURE) \/ \E p \in Packet : Begin(p)
      PROVE  TypeOK'
  <2>1. FrameType' BY <1>r, <1>f, ReturnType, BeginType
  <2>2. ClientType' BY <1>r DEF Request, ClientType
  <2> QED BY <1>r, <1>n, <2>1, <2>2 DEF Request
<1>6. ASSUME NEW t \in Topics, MQTTSubscribe(t) PROVE TypeOK'
  <2>1. Pkt("SUBSCRIBE", getNextPacketId, 0, t) \in Packet
    BY <1>0, NextIdType, PktType DEF PacketTypes
  <2>2. next_packetid' \in 1..MaxPacketId
    BY <1>6, NextIdType DEF MQTTSubscribe, NotConnected, WithNextId, ClientType
  <2>3. Return(FAILURE) \/ Begin(Pkt("SUBSCRIBE", getNextPacketId, 0, t))
    BY <1>6 DEF MQTTSubscribe, NotConnected, WithNextId, TooLong
  <2> QED BY <1>6, <1>r, <2>1, <2>2, <2>3 DEF MQTTSubscribe
<1>7. ASSUME NEW t \in Topics, MQTTUnsubscribe(t) PROVE TypeOK'
  <2>1. Pkt("UNSUBSCRIBE", getNextPacketId, 0, t) \in Packet
    BY <1>0, NextIdType, PktType DEF PacketTypes
  <2>2. next_packetid' \in 1..MaxPacketId
    BY <1>7, NextIdType DEF MQTTUnsubscribe, NotConnected, WithNextId, ClientType
  <2>3. Return(FAILURE) \/ Begin(Pkt("UNSUBSCRIBE", getNextPacketId, 0, t))
    BY <1>7 DEF MQTTUnsubscribe, NotConnected, WithNextId, TooLong
  <2> QED BY <1>7, <1>r, <2>1, <2>2, <2>3 DEF MQTTUnsubscribe
<1>8. ASSUME NEW t \in Topics, NEW q \in PublishQoS, MQTTPublish(t, q) PROVE TypeOK'
  <2>0. q \in 0..128 BY ClientAssumption
  <2>1. Pkt("PUBLISH", getNextPacketId, q, t) \in Packet /\ Pkt("PUBLISH", 0, 0, t) \in Packet
    BY <1>0, <2>0, NextIdType, PktType DEF PacketTypes
  <2>2. next_packetid' \in 1..MaxPacketId
    BY <1>8, NextIdType DEF MQTTPublish, NotConnected, WithNextId, ClientType
  <2>3. \/ Return(FAILURE)
        \/ Begin(Pkt("PUBLISH", getNextPacketId, q, t))
        \/ Begin(Pkt("PUBLISH", 0, 0, t))
    BY <1>8 DEF MQTTPublish, NotConnected, WithNextId, TooLong
  <2> QED BY <1>8, <1>r, <2>1, <2>2, <2>3 DEF MQTTPublish
<1> QED BY <1>1, <1>2, <1>3, <1>4, <1>5, <1>6, <1>7, <1>8 DEF Application

\* The call's own steps keep the types.
LEMMA ClientStepType == TypeOK /\ ClientStep => TypeOK'
<1> SUFFICES ASSUME TypeOK, ClientStep PROVE TypeOK'
  OBVIOUS
<1> USE DEF TypeOK
<1>0. 0 \in Ids BY ClientAssumption DEF Ids
<1>f. FAILURE \in -1..128 /\ SUCCESS \in -1..128 BY DEF FAILURE, SUCCESS
<1>c. call.id \in Ids /\ packet.val \in 0..128 BY DEF FrameType, Packet, Fields
<1>u. unacked \cup {call.id} \subseteq Ids BY <1>c DEF NetworkType
<1>1. CASE SendPacket
  <2>1. toBroker' \in Seq(Packet) /\ Len(toBroker') <= Window /\ ping_timer' \in BOOLEAN
    BY <1>1, WrittenType DEF SendPacket, Sent, NotSent, NotWritten, ClientType, FrameType,
       NetworkType
  <2>2. unacked' \subseteq Ids BY <1>1, <1>u DEF SendPacket, Fail, NetworkType
  <2>3. ClientType' BY <1>1, <2>1 DEF SendPacket, ClientType
  <2>4. NetworkType' BY <1>1, <2>1, <2>2 DEF SendPacket, NetworkType
  <2>5. \/ Return(FAILURE) \/ Return(SUCCESS)
        \/ pc' = "check" /\ UNCHANGED <<call, packet, handled, timer, rc, taken>>
    BY <1>1 DEF SendPacket, Fail
  <2>6. FrameType' BY <1>f, <2>5, ReturnType DEF FrameType, Steps
  <2> QED BY <2>3, <2>4, <2>6
<1>2. CASE CheckTimer
  <2>1. unacked' \subseteq Ids BY <1>2, <1>u DEF CheckTimer, Fail, NetworkType
  <2>2. \/ Return(FAILURE) \/ Return(SUCCESS)
        \/ pc' = "read" /\ UNCHANGED <<call, packet, handled, timer, rc, taken>>
    BY <1>2 DEF CheckTimer, Fail
  <2>3. FrameType' BY <1>f, <2>2, ReturnType DEF FrameType, Steps
  <2> QED BY <1>2, <2>1, <2>3 DEF CheckTimer, ClientType, NetworkType, client, network
<1>3. CASE ReadPacket
  <2>1. toClient \in Seq(Packet) /\ toClient # <<>> BY <1>3 DEF ReadPacket, NetworkType
  <2>2. Head(toClient) \in Packet BY <2>1
  <2>3. Tail(toClient) \in Seq(Packet) /\ Len(Tail(toClient)) = Len(toClient) - 1 BY <2>1
  <2>4. Len(Tail(toClient)) <= Window BY <2>1, <2>3, ClientAssumption DEF NetworkType
  <2>5. ClientType' BY <1>3 DEF ReadPacket, ClientType
  <2>6. FrameType' BY <1>3, <2>2 DEF ReadPacket, FrameType, Steps, history
  <2>7. NetworkType' BY <1>3, <2>3, <2>4 DEF ReadPacket, NetworkType, history
  <2> QED BY <2>5, <2>6, <2>7
<1>r. ASSUME ReadsNoPacket(NoPacket) \/ ReadsNoPacket(ReadFailed), link' \in {link, "closed"}
      PROVE  TypeOK'
  <2>1. FrameType' BY <1>r, PseudoType DEF ReadsNoPacket, FrameType, Steps, history
  <2>2. NetworkType' BY <1>r DEF ReadsNoPacket, NetworkType, history
  <2> QED BY <1>r, <2>1, <2>2 DEF ReadsNoPacket, ClientType, client
<1>4. CASE ReadTimeout BY <1>4, <1>r DEF ReadTimeout
<1>5. CASE ReadCloseNotify BY <1>5, <1>r DEF ReadCloseNotify
<1>6. CASE ReadError BY <1>6, <1>r DEF ReadError
<1>7. CASE SendAnswer
  <2>1. Answer(packet) \in Packet BY AnswerType DEF FrameType
  <2>2. toBroker' \in Seq(Packet) /\ Len(toBroker') <= Window /\ ping_timer' \in BOOLEAN
    BY <1>7, <2>1, WrittenType DEF SendAnswer, Sent, NotSent, NotWritten, ClientType, NetworkType
  <2>3. FrameType' BY <1>7, PseudoType DEF SendAnswer, FrameType, Steps, history
  <2> QED BY <1>7, <2>2, <2>3 DEF SendAnswer, ClientType, NetworkType, history
<1>8. CASE keepalive
  <2>1. Plain("PINGREQ", 0) \in Packet BY <1>0, PlainType DEF PacketTypes
  <2>2. toBroker' \in Seq(Packet) /\ Len(toBroker') <= Window /\ ping_timer' \in BOOLEAN
    BY <1>8, <2>1, WrittenType DEF keepalive, NotWritten, ClientType, NetworkType
  <2>3. FrameType' BY <1>8 DEF keepalive, FrameType, Steps, history
  <2> QED BY <1>8, <2>2, <2>3 DEF keepalive, ClientType, NetworkType, history
<1>9. CASE Acknowledged
  <2>1. call.type = "SUBSCRIBE" => call.topic \in Topics BY DEF FrameType, Packet
  <2>2. \E code \in -1..128 : Return(code)
    BY <1>9, <1>f, <1>c DEF Acknowledged, Install
  <2>3. FrameType' BY <2>2, ReturnType
  <2>4. messageHandlers' \in [1..MaxHandlers -> Topics \cup {NoTopic}]
    BY <1>9, <2>1 DEF Acknowledged, Install, ClientType
  <2>5. ClientType' BY <1>9, <2>4 DEF Acknowledged, ClientType
  <2>6. subscribed' \subseteq Topics BY <1>9, <2>1 DEF Acknowledged, NetworkType
  <2>7. unacked' \subseteq Ids BY <1>9, <1>u DEF Acknowledged, NetworkType
  <2>8. NetworkType' BY <1>9, <2>6, <2>7 DEF Acknowledged, NetworkType, network
  <2> QED BY <2>3, <2>5, <2>8
<1>10. CASE Again
  BY <1>10, PseudoType
     DEF Again, ClientType, FrameType, NetworkType, Steps, client, network, history
<1>11. CASE YieldFails
  <2>1. FrameType' BY <1>11, <1>f, ReturnType DEF YieldFails
  <2> QED BY <1>11, <2>1 DEF YieldFails, ClientType, NetworkType, client, network
<1> QED BY <1>1, <1>2, <1>3, <1>4, <1>5, <1>6, <1>7, <1>8, <1>9, <1>10, <1>11 DEF ClientStep

\* A broker answers with at most one packet.
LEMMA RepliesType ==
  ASSUME NEW p \in Packet, NEW r \in Replies(p)
  PROVE  r \in Seq(Packet) /\ Len(r) <= 1
<1>0. 0 \in Ids /\ p.id \in Ids BY ClientAssumption DEF Ids, Packet, Fields
<1>1. ASSUME NEW q \in Packet PROVE <<q>> \in Seq(Packet) /\ Len(<<q>>) <= 1
  OBVIOUS
<1>2. <<>> \in Seq(Packet) /\ Len(<<>>) <= 1 OBVIOUS
<1>3. CASE p.type = "CONNECT"
  <2>1. PICK v \in {0, 5} : r = <<Pkt("CONNACK", p.id, v, NoTopic)>> BY <1>3 DEF Replies
  <2> QED BY <2>1, <1>0, <1>1, PktType DEF PacketTypes
<1>4. CASE p.type = "SUBSCRIBE"
  <2>1. PICK v \in GrantedQoS : r = <<Pkt("SUBACK", p.id, v, NoTopic)>> BY <1>4 DEF Replies
  <2> QED BY <2>1, <1>0, <1>1, PktType, ClientAssumption DEF PacketTypes
<1>5. CASE p.type \notin {"CONNECT", "SUBSCRIBE"}
  <2>1. \/ r = <<>>
        \/ \E type \in {"UNSUBACK", "PUBACK", "PUBREC", "PUBREL", "PUBCOMP"} :
             r = <<Plain(type, p.id)>>
        \/ r = <<Plain("PINGRESP", 0)>>
    BY <1>5 DEF Replies
  <2> QED BY <2>1, <1>0, <1>1, <1>2, PlainType DEF PacketTypes
<1> QED BY <1>3, <1>4, <1>5

\* The surroundings keep the types.
LEMMA EnvironmentType == TypeOK /\ Environment => TypeOK'
<1> SUFFICES ASSUME TypeOK, Environment PROVE TypeOK'
  OBVIOUS
<1> USE DEF TypeOK
<1>t. UNCHANGED <<client, frame>> /\ taken' \in BOOLEAN => ClientType' /\ FrameType'
  BY DEF ClientType, FrameType, client, frame
<1>0. <<>> \in Seq(Packet) /\ Len(<<>>) <= Window BY ClientAssumption
<1>1. CASE BrokerReceives
  <2> DEFINE p == Head(toBroker)
  <2>1. toBroker \in Seq(Packet) /\ toBroker # <<>> BY <1>1 DEF BrokerReceives, NetworkType
  <2>2. p \in Packet BY <2>1
  <2>3. Tail(toBroker) \in Seq(Packet) /\ Len(Tail(toBroker)) <= Window
    <3>1. Len(Tail(toBroker)) = Len(toBroker) - 1 BY <2>1
    <3> QED BY <2>1, <3>1, ClientAssumption DEF NetworkType
  <2>4. PICK r \in Replies(p) :
          /\ toClient' = toClient \o r
          /\ subs' = CASE p.type = "SUBSCRIBE" /\ r[1].val # REFUSED -> subs \cup {p.topic}
                       [] p.type = "UNSUBSCRIBE" -> subs \ {p.topic}
                       [] OTHER -> subs
          /\ link' \in {"closed", "up"}
          /\ toBroker' \in {Tail(toBroker), <<>>}
          /\ taken' \in BOOLEAN
    BY <1>1 DEF BrokerReceives, NetworkType, FrameType
  <2>5. r \in Seq(Packet) /\ Len(r) <= 1 BY <2>2, <2>4, RepliesType
  <2>6. toClient' \in Seq(Packet) /\ Len(toClient') <= Window
    <3>1. toClient \in Seq(Packet) /\ Len(toClient) < Window
      BY <1>1 DEF BrokerReceives, NetworkType, FrameType
    <3>2. toClient \o r \in Seq(Packet) /\ Len(toClient \o r) = Len(toClient) + Len(r)
      BY <3>1, <2>5
    <3>3. Len(r) \in Nat /\ Len(toClient) \in Nat BY <2>5, <3>1
    <3> QED BY <3>1, <3>2, <3>3, <2>4, <2>5, ClientAssumption
  <2>7. subs' \subseteq Topics BY <2>2, <2>4 DEF NetworkType, Packet
  <2>8. UNCHANGED <<client, frame, unacked, subscribed>> BY <1>1 DEF BrokerReceives
  <2> HIDE DEF p
  <2>9. NetworkType' BY <1>0, <2>3, <2>4, <2>6, <2>7, <2>8 DEF NetworkType
  <2> QED BY <1>t, <2>4, <2>8, <2>9
<1>2. ASSUME NEW t \in Topics, NEW q \in InboundQoS, BrokerPublishes(t, q) PROVE TypeOK'
  <2> DEFINE m == Pkt("PUBLISH", IF q = 0 THEN 0 ELSE 1, q, t)
  <2>1. (IF q = 0 THEN 0 ELSE 1) \in Ids BY ClientAssumption DEF Ids
  <2>2. q \in 0..128 BY ClientAssumption
  <2>3. m \in Packet BY <2>1, <2>2, PktType DEF PacketTypes
  <2> HIDE DEF m
  <2>4. toClient' = Append(toClient, m) /\ Len(toClient) < Window
    BY <1>2 DEF BrokerPublishes, m
  <2>5. toClient' \in Seq(Packet) /\ Len(toClient') = Len(toClient) + 1
    BY <2>3, <2>4 DEF NetworkType
  <2>6. Len(toClient') <= Window BY <2>4, <2>5, ClientAssumption DEF NetworkType
  <2>7. NetworkType' BY <1>2, <2>5, <2>6 DEF BrokerPublishes, NetworkType, history
  <2> QED BY <1>2, <1>t, <2>7 DEF BrokerPublishes, FrameType, history
<1>3. CASE LinkChanges
  <2>1. NetworkType' BY <1>3, <1>0 DEF LinkChanges, NetworkType, history
  <2> QED BY <1>3, <1>t, <2>1 DEF LinkChanges, FrameType, history
<1>4. CASE TimerExpires
  BY <1>4 DEF TimerExpires, ClientType, FrameType, NetworkType, client, network, history
<1>5. CASE PingTimerExpires
  BY <1>5 DEF PingTimerExpires, ClientType, FrameType, NetworkType, frame, network, history
<1> QED BY <1>1, <1>2, <1>3, <1>4, <1>5 DEF Environment

\* They hold to begin with.
LEMMA InitType == Init => TypeOK
<1> SUFFICES ASSUME Init PROVE TypeOK
  OBVIOUS
<1>1. 1 \in 1..MaxPacketId BY ClientAssumption
<1>2. [i \in 1..MaxHandlers |-> NoTopic] \in [1..MaxHandlers -> Topics \cup {NoTopic}] OBVIOUS
<1>3. <<>> \in Seq(Packet) /\ Len(<<>>) <= Window BY ClientAssumption
<1>4. ClientType BY <1>1, <1>2 DEF Init, ClientType
<1>5. FrameType
  <2>1. pc = "idle" /\ call = NoPacket /\ packet = NoPacket /\ rc = 0
    BY DEF Init, SUCCESS
  <2>2. handled = FALSE /\ timer = FALSE /\ taken = FALSE BY DEF Init
  <2>3. pc \in Steps /\ call \in Packet /\ packet \in Packet /\ rc \in -1..128
    BY <2>1, PseudoType DEF Steps
  <2> QED BY <2>2, <2>3 DEF FrameType
<1>6. NetworkType BY <1>3 DEF Init, NetworkType
<1> QED BY <1>4, <1>5, <1>6 DEF TypeOK

\* Every step keeps the types.
LEMMA TypeStep == TypeOK /\ [Next]_vars => TypeOK'
<1>1. TypeOK /\ UNCHANGED vars => TypeOK'
  BY DEF TypeOK, ClientType, FrameType, NetworkType, vars, client, frame, network, history
<1> QED BY <1>1, ApplicationType, ClientStepType, EnvironmentType DEF Next

\* Every variable keeps its type, whatever the constants.
THEOREM TypeCorrect == Spec => []TypeOK
BY InitType, TypeStep, PTL DEF Spec

-----------------------------------------------------------------------------
(* Acknowledgements.  A request and the packets that answer it are one token: it is in   *)
(* toBroker as the request, in toClient as its acknowledgement, in the client's hand, and,*)
(* for QoS 2, once more round as PUBREL and PUBCOMP.  A token whose id is not in unacked  *)
(* is fresh; fresh tokens belong to the call in progress, and there is one at most.       *)

Req(p) == WaitsForAck(p) \/ p.type = "PUBREL"
Ack(p) == p.type \in {"CONNACK", "SUBACK", "UNSUBACK", "PUBACK", "PUBREC", "PUBCOMP"}
Fresh(p) == p.id \notin unacked
\* The packet in hand is a token until a PUBREC has been answered.
Held == Ack(packet) /\ (packet.type = "PUBREC" => pc = "answer")
\* The call's request has been sent.
Pending == WaitsForAck(call) /\ pc # "send"

\* No fresh token is in the channel to the broker, to the client, in the client's hand.
BrokerClear == \A j \in 1..Len(toBroker) : ~(Req(toBroker[j]) /\ Fresh(toBroker[j]))
ClientClear == \A j \in 1..Len(toClient) : ~(Ack(toClient[j]) /\ Fresh(toClient[j]))
HandClear == ~(Held /\ Fresh(packet))
AllClear == BrokerClear /\ ClientClear /\ HandClear

BrokerTokens ==
  \A i \in 1..Len(toBroker) : Req(toBroker[i]) /\ Fresh(toBroker[i]) =>
    /\ Pending /\ toBroker[i].id = call.id
    /\ toBroker[i] = call \/ taken
    /\ \A j \in 1..Len(toBroker) : Req(toBroker[j]) /\ Fresh(toBroker[j]) => j = i
    /\ ClientClear
ClientTokens ==
  \A i \in 1..Len(toClient) : Ack(toClient[i]) /\ Fresh(toClient[i]) =>
    /\ Pending /\ toClient[i].id = call.id /\ taken
    /\ \A j \in 1..Len(toClient) : Ack(toClient[j]) /\ Fresh(toClient[j]) => j = i
HeldToken ==
  HandClear \/ (Pending /\ packet.id = call.id /\ taken /\ BrokerClear /\ ClientClear)
\* Between calls, and before a read, the client holds nothing; a call is no PUBREL.
EmptyHand ==
  /\ pc \in {"idle", "send", "check", "read"} => packet = NoPacket
  /\ pc = "idle" => call = NoPacket
  /\ call.type # "PUBREL"
AckInv == BrokerTokens /\ ClientTokens /\ HeldToken /\ EmptyHand

-----------------------------------------------------------------------------
\* The two channels after a packet is appended ...
LEMMA AppendFacts ==
  ASSUME NEW s \in Seq(Packet), NEW x \in Packet
  PROVE  /\ Len(Append(s, x)) = Len(s) + 1
         /\ \A i \in 1..Len(s) + 1 : Append(s, x)[i] = IF i = Len(s) + 1 THEN x ELSE s[i]
OBVIOUS

\* ... and after one is taken.
LEMMA TailFacts ==
  ASSUME NEW s \in Seq(Packet), s # <<>>
  PROVE  /\ Len(Tail(s)) = Len(s) - 1 /\ Head(s) = s[1] /\ 1 \in 1..Len(s)
         /\ \A i \in 1..Len(s) - 1 : Tail(s)[i] = s[i + 1] /\ i + 1 \in 1..Len(s)
OBVIOUS

\* Fresh tokens belong to a request that has been sent and not been given up.
LEMMA TokensArePending == AckInv /\ (~Pending \/ call.id \in unacked) => AllClear
BY DEF AckInv, BrokerTokens, ClientTokens, HeldToken, AllClear, BrokerClear, ClientClear,
       HandClear, Fresh

\* Where there is no fresh token, the invariant asks for an empty hand only.
LEMMA ClearPreserves ==
  ASSUME AllClear', EmptyHand' PROVE AckInv'
BY DEF AckInv, BrokerTokens, ClientTokens, HeldToken, AllClear, BrokerClear, ClientClear,
       HandClear

\* Neither of the pseudo packets is a token.
LEMMA PseudoTokens ==
  /\ ~Ack(NoPacket) /\ ~Ack(ReadFailed) /\ ~Req(NoPacket)
  /\ ~WaitsForAck(NoPacket) /\ NoPacket.type = "NONE" /\ ReadFailed.type = "ERROR"
BY DEF Ack, Req, WaitsForAck, Awaited, NoPacket, ReadFailed, Plain, Pkt

\* Writing a packet that is no request leaves no fresh token where there was none.
LEMMA WritesNoRequest ==
  ASSUME TypeOK, BrokerClear, NEW p \in Packet, ~Req(p), UNCHANGED unacked,
         Written(p) \/ NotWritten
  PROVE  BrokerClear'
<1>1. CASE toBroker' = toBroker BY <1>1 DEF BrokerClear, Fresh
<1>2. CASE toBroker' = Append(toBroker, p)
  <2>1. toBroker \in Seq(Packet) BY DEF TypeOK, NetworkType
  <2> QED BY <1>2, <2>1, AppendFacts DEF BrokerClear, Fresh
<1> QED BY <1>1, <1>2 DEF Written, NotWritten

\* A call that ends without its own acknowledgement gives its id up, and leaves no token.
LEMMA FailClears ==
  ASSUME TypeOK, AckInv, Fail, toBroker' = toBroker, toClient' = toClient
  PROVE  AckInv'
<1>1. BrokerClear' /\ ClientClear'
  <2>1. CASE WaitsForAck(call)
    BY <2>1 DEF Fail, AckInv, BrokerTokens, ClientTokens, BrokerClear, ClientClear, Fresh
  <2>2. CASE ~WaitsForAck(call)
    <3>1. AllClear BY <2>2, TokensArePending DEF Pending
    <3> QED BY <2>2, <3>1 DEF Fail, AllClear, BrokerClear, ClientClear, Fresh
  <2> QED BY <2>1, <2>2
<1>2. HandClear' /\ EmptyHand' BY PseudoTokens DEF Fail, Return, HandClear, Held, EmptyHand
<1> QED BY <1>1, <1>2, ClearPreserves DEF AllClear

\* A call that ends where there is no fresh token leaves none.
LEMMA ReturnClears ==
  ASSUME AllClear, NEW code, Return(code), BrokerClear', toClient' = toClient, UNCHANGED unacked
  PROVE  AckInv'
<1>1. HandClear' /\ EmptyHand' BY PseudoTokens DEF Return, HandClear, Held, EmptyHand
<1>2. ClientClear' BY DEF AllClear, ClientClear, Fresh
<1> QED BY <1>1, <1>2, ClearPreserves DEF AllClear

-----------------------------------------------------------------------------
\* The application's steps: between calls there is no fresh token, and none is made.
LEMMA ApplicationAcks == TypeOK /\ AckInv /\ Application => AckInv'
<1> SUFFICES ASSUME TypeOK, AckInv, Application PROVE AckInv'
  OBVIOUS
<1>0. pc = "idle" BY DEF Application, OpenSession, CloseSession, MQTTConnect, MQTTYield,
        MQTTDisconnect, MQTTSubscribe, MQTTUnsubscribe, MQTTPublish, Idle
<1>1. AllClear /\ packet = NoPacket /\ call = NoPacket
  BY <1>0, PseudoTokens, TokensArePending DEF AckInv, EmptyHand, Pending
<1>2. CASE OpenSession \/ CloseSession
  <2>1. toBroker' = <<>> /\ toClient' = <<>> /\ UNCHANGED <<pc, call, packet>>
    BY <1>2 DEF OpenSession, CloseSession, NetworkConnect, NetworkDisconnect, frame
  <2>2. BrokerClear' /\ ClientClear' BY <2>1 DEF BrokerClear, ClientClear
  <2>3. HandClear' /\ EmptyHand'
    BY <1>0, <1>1, <2>1, PseudoTokens DEF HandClear, Held, EmptyHand
  <2> QED BY <2>2, <2>3, ClearPreserves DEF AllClear
<1>3. ASSUME UNCHANGED <<toBroker, toClient, unacked, packet>>,
             pc' \in {"send", "read"} /\ call'.type # "PUBREL"
      PROVE  AckInv'
  <2>1. BrokerClear' /\ ClientClear' BY <1>1, <1>3 DEF AllClear, BrokerClear, ClientClear, Fresh
  <2>2. HandClear' /\ EmptyHand' BY <1>1, <1>3, PseudoTokens DEF HandClear, Held, EmptyHand
  <2> QED BY <2>1, <2>2, ClearPreserves DEF AllClear
<1>4. ASSUME UNCHANGED <<toBroker, toClient, unacked>>, Return(FAILURE) PROVE AckInv'
  <2>1. BrokerClear' BY <1>1, <1>4 DEF AllClear, BrokerClear, Fresh
  <2> QED BY <1>1, <1>4, <2>1, ReturnClears
<1>5. CASE MQTTConnect
  BY <1>3, <1>4, <1>5 DEF MQTTConnect, TooLong, Begin, network, Plain, Pkt
<1>6. CASE MQTTYield
  BY <1>1, <1>3, <1>6, PseudoTokens DEF MQTTYield, network, history
<1>7. CASE MQTTDisconnect
  BY <1>3, <1>7 DEF MQTTDisconnect, Begin, network, Plain, Pkt
<1>8. ASSUME NEW t \in Topics, MQTTSubscribe(t) \/ MQTTUnsubscribe(t) PROVE AckInv'
  BY <1>3, <1>4, <1>8 DEF MQTTSubscribe, MQTTUnsubscribe, NotConnected, WithNextId, TooLong,
     Begin, Request, network, Pkt
<1>9. ASSUME NEW t \in Topics, NEW q \in PublishQoS, MQTTPublish(t, q) PROVE AckInv'
  BY <1>3, <1>4, <1>9 DEF MQTTPublish, NotConnected, WithNextId, TooLong, Begin, Request,
     network, Pkt
<1> QED BY <1>2, <1>5, <1>6, <1>7, <1>8, <1>9 DEF Application

\* A step that leaves the tokens where they are preserves the invariant.
LEMMA StillPreserves ==
  ASSUME AckInv, UNCHANGED <<toBroker, toClient, unacked, call, taken>>,
         pc # "send", pc' # "send", packet' = packet \/ ~Ack(packet'),
         HandClear => HandClear', EmptyHand'
  PROVE  AckInv'
<1>1. Pending' = Pending BY DEF Pending
<1>2. BrokerClear' = BrokerClear /\ ClientClear' = ClientClear
  BY DEF BrokerClear, ClientClear, Fresh
<1>3. BrokerTokens' /\ ClientTokens'
  BY <1>1, <1>2 DEF AckInv, BrokerTokens, ClientTokens, Fresh
<1>4. HeldToken'
  BY <1>1, <1>2 DEF AckInv, HeldToken, HandClear, Held
<1> QED BY <1>3, <1>4 DEF AckInv

\* sendPacket: the request becomes the one fresh token, or nothing is sent.
LEMMA SendPacketAcks == TypeOK /\ AckInv /\ SendPacket => AckInv'
<1> SUFFICES ASSUME TypeOK, AckInv, SendPacket PROVE AckInv'
  OBVIOUS
<1>0. AllClear /\ packet = NoPacket /\ call.type # "PUBREL" /\ call \in Packet
  <2>1. pc = "send" BY DEF SendPacket
  <2> QED BY <2>1, TokensArePending DEF Pending, AckInv, EmptyHand, TypeOK, FrameType
<1>1. CASE Sent(call) /\ WaitsForAck(call) /\ pc' = "check"
           /\ UNCHANGED <<call, packet, taken, unacked>>
  <2>1. toClient' = toClient BY DEF SendPacket
  <2>2. ClientClear' /\ HandClear' /\ EmptyHand'
    BY <1>0, <1>1, <2>1, PseudoTokens
       DEF AllClear, ClientClear, HandClear, Held, EmptyHand, Fresh
  <2>3. Pending' BY <1>1 DEF Pending
  <2>4. CASE toBroker' = toBroker
    BY <1>0, <1>1, <2>2, <2>4, ClearPreserves DEF AllClear, BrokerClear, Fresh
  <2>5. CASE toBroker' = Append(toBroker, call)
    <3>1. toBroker \in Seq(Packet) BY DEF TypeOK, NetworkType
    <3>2. /\ Len(toBroker') = Len(toBroker) + 1
          /\ \A i \in 1..Len(toBroker) + 1 :
               toBroker'[i] = IF i = Len(toBroker) + 1 THEN call ELSE toBroker[i]
      BY <1>0, <2>5, <3>1, AppendFacts
    <3>3. \A i \in 1..Len(toBroker') :
            Req(toBroker'[i]) /\ toBroker'[i].id \notin unacked => i = Len(toBroker')
      BY <1>0, <3>1, <3>2 DEF AllClear, BrokerClear, Fresh
    <3>4. BrokerTokens' BY <1>1, <2>2, <2>3, <3>2, <3>3 DEF BrokerTokens, Fresh
    <3> QED BY <2>2, <3>4 DEF AckInv, ClientTokens, ClientClear, HeldToken
  <2> QED BY <1>1, <2>4, <2>5 DEF Sent, Written
<1>2. CASE Sent(call) /\ ~WaitsForAck(call) /\ Return(SUCCESS) /\ UNCHANGED unacked
  <2>1. BrokerClear'
    BY <1>0, <1>2, WritesNoRequest DEF Sent, Req, AllClear
  <2> QED BY <1>0, <1>2, <2>1, ReturnClears DEF SendPacket
<1>3. CASE NotSent /\ Fail
  BY <1>3, FailClears DEF SendPacket, NotSent, NotWritten
<1> QED BY <1>1, <1>2, <1>3 DEF SendPacket

\* ReadPacket: the head of toClient comes into the empty hand.
LEMMA ReadPacketAcks == TypeOK /\ AckInv /\ ReadPacket => AckInv'
<1> SUFFICES ASSUME TypeOK, AckInv, ReadPacket PROVE AckInv'
  OBVIOUS
<1>0. /\ toClient \in Seq(Packet) /\ toClient # <<>> /\ packet = NoPacket
      /\ packet' = Head(toClient) /\ toClient' = Tail(toClient)
      /\ UNCHANGED <<toBroker, call, taken, unacked>>
      /\ pc = "read" /\ pc' \in {"keepalive", "answer"}
  BY DEF ReadPacket, TypeOK, NetworkType, AckInv, EmptyHand, history
<1>1. /\ Len(toClient') = Len(toClient) - 1 /\ packet' = toClient[1] /\ 1 \in 1..Len(toClient)
      /\ \A i \in 1..Len(toClient') : toClient'[i] = toClient[i + 1] /\ i + 1 \in 1..Len(toClient)
  BY <1>0, TailFacts
<1>2. Pending' = Pending BY <1>0 DEF Pending
<1>3. EmptyHand' BY <1>0 DEF EmptyHand, AckInv
<1>4. CASE Ack(packet') /\ packet'.id \notin unacked
  <2>1. /\ Pending /\ packet'.id = call.id /\ taken
        /\ \A j \in 1..Len(toClient) : Ack(toClient[j]) /\ Fresh(toClient[j]) => j = 1
    BY <1>1, <1>4 DEF AckInv, ClientTokens, Fresh
  <2>2. ~ClientClear BY <1>1, <1>4 DEF ClientClear, Fresh
  <2>3. BrokerClear' BY <1>0, <2>2 DEF AckInv, BrokerTokens, BrokerClear, Fresh
  <2>4. ClientClear'
    <3>1. \A i \in 1..Len(toClient') : i + 1 # 1 BY <1>0, <1>1
    <3> QED BY <1>0, <1>1, <2>1, <3>1 DEF ClientClear, Fresh
  <2>5. HeldToken' BY <1>0, <1>2, <2>1, <2>3, <2>4 DEF HeldToken
  <2> QED BY <1>3, <2>3, <2>4, <2>5 DEF AckInv, BrokerTokens, ClientTokens, BrokerClear, ClientClear
<1>5. CASE ~(Ack(packet') /\ packet'.id \notin unacked)
  <2>1. HandClear' BY <1>0, <1>5 DEF HandClear, Held, Fresh
  <2>2. ClientClear => ClientClear' BY <1>0, <1>1 DEF ClientClear, Fresh
  <2>3. BrokerTokens' BY <1>0, <1>2, <2>2 DEF AckInv, BrokerTokens, Fresh
  <2>4. ASSUME NEW i \in 1..Len(toClient'), Ack(toClient'[i]), toClient'[i].id \notin unacked
        PROVE  /\ Pending' /\ toClient'[i].id = call'.id /\ taken'
               /\ \A j \in 1..Len(toClient') :
                    Ack(toClient'[j]) /\ toClient'[j].id \notin unacked => j = i
    <3>1. /\ i + 1 \in 1..Len(toClient) /\ Ack(toClient[i + 1]) /\ Fresh(toClient[i + 1])
          /\ toClient'[i] = toClient[i + 1]
      BY <1>0, <1>1, <2>4 DEF Fresh
    <3>2. /\ Pending /\ toClient[i + 1].id = call.id /\ taken
          /\ \A j \in 1..Len(toClient) : Ack(toClient[j]) /\ Fresh(toClient[j]) => j = i + 1
      BY <3>1 DEF AckInv, ClientTokens
    <3>3. ASSUME NEW j \in 1..Len(toClient'), Ack(toClient'[j]), toClient'[j].id \notin unacked
          PROVE  j = i
      <4>1. j + 1 \in 1..Len(toClient) /\ Ack(toClient[j + 1]) /\ Fresh(toClient[j + 1])
        BY <1>0, <1>1, <3>3 DEF Fresh
      <4>2. j + 1 = i + 1 BY <3>2, <4>1
      <4>3. i \in Int /\ j \in Int OBVIOUS
      <4> QED BY <4>2, <4>3
    <3> QED BY <1>0, <1>2, <3>1, <3>2, <3>3
  <2>5. ClientTokens' BY <1>0, <2>4 DEF ClientTokens, Fresh
  <2> QED BY <1>3, <2>1, <2>3, <2>5 DEF AckInv, HeldToken
<1> QED BY <1>4, <1>5

\* SendAnswer: a PUBREC's token goes back to the broker as its PUBREL.
LEMMA SendAnswerAcks == TypeOK /\ AckInv /\ SendAnswer => AckInv'
<1> SUFFICES ASSUME TypeOK, AckInv, SendAnswer PROVE AckInv'
  OBVIOUS
<1> DEFINE a == Answer(packet)
<1>0. /\ toBroker \in Seq(Packet) /\ pc = "answer" /\ UNCHANGED <<toClient, call, taken, unacked>>
      /\ pc' \in {"keepalive", "cycled"} /\ packet' \in {packet, ReadFailed}
  BY DEF SendAnswer, TypeOK, NetworkType, history
<1>1. a \in Packet BY AnswerType DEF TypeOK, FrameType
<1>2. /\ packet.type = "PUBREC" => a = Plain("PUBREL", packet.id)
      /\ packet.type # "PUBREC" => ~Req(a)
  BY DEF Answer, Req, WaitsForAck, Awaited, Plain, Pkt, NoPacket
<1>3. EmptyHand' BY <1>0 DEF EmptyHand, AckInv
<1>4. Pending' = Pending BY <1>0 DEF Pending
<1>5. HandClear => HandClear'
  BY <1>0, PseudoTokens DEF HandClear, Held, Fresh
<1>6. ClientClear' = ClientClear BY <1>0 DEF ClientClear, Fresh
<1>7. CASE toBroker' = toBroker
  <2>1. packet' = packet \/ ~Ack(packet') BY <1>0, PseudoTokens
  <2> QED BY <1>0, <1>3, <1>5, <1>7, <2>1, StillPreserves
<1>8. CASE toBroker' = Append(toBroker, a) /\ packet' = packet /\ pc' = "keepalive"
  <2> HIDE DEF a
  <2>1. /\ Len(toBroker') = Len(toBroker) + 1
        /\ \A i \in 1..Len(toBroker) + 1 :
             toBroker'[i] = IF i = Len(toBroker) + 1 THEN a ELSE toBroker[i]
    BY <1>0, <1>1, <1>8, AppendFacts
  <2>2. Len(toBroker) \in Nat BY <1>0
  <2>3. ClientTokens' BY <1>0, <1>4 DEF AckInv, ClientTokens, Fresh
  <2>4. CASE Req(a) /\ a.id \notin unacked
    <3>1. packet.type = "PUBREC" /\ a.id = packet.id
      BY <1>2, <2>4 DEF Plain, Pkt
    <3>2. ~HandClear BY <1>0, <2>4, <3>1 DEF HandClear, Held, Ack, Fresh
    <3>3. Pending /\ packet.id = call.id /\ taken /\ BrokerClear /\ ClientClear
      BY <3>2 DEF AckInv, HeldToken
    <3>4. \A i \in 1..Len(toBroker') :
            Req(toBroker'[i]) /\ toBroker'[i].id \notin unacked => i = Len(toBroker')
      BY <2>1, <2>2, <3>3 DEF BrokerClear, Fresh
    <3>5. \A i \in 1..Len(toBroker') : i = Len(toBroker') => toBroker'[i] = a
      BY <2>1, <2>2
    <3>6. BrokerTokens'
      BY <1>0, <1>4, <1>6, <3>1, <3>3, <3>4, <3>5 DEF BrokerTokens, Fresh
    <3>7. HandClear' BY <1>0, <1>8, <3>1 DEF HandClear, Held
    <3> QED BY <1>3, <2>3, <3>6, <3>7 DEF AckInv, HeldToken
  <2>5. CASE ~(Req(a) /\ a.id \notin unacked)
    <3>1. \A i \in 1..Len(toBroker') :
            Req(toBroker'[i]) /\ toBroker'[i].id \notin unacked
              => i \in 1..Len(toBroker) /\ toBroker'[i] = toBroker[i]
      BY <2>1, <2>2, <2>5
    <3>2. BrokerTokens' BY <1>0, <1>4, <1>6, <3>1 DEF AckInv, BrokerTokens, Fresh
    <3>3. BrokerClear => BrokerClear' BY <1>0, <3>1 DEF BrokerClear, Fresh
    <3>4. HeldToken' BY <1>0, <1>4, <1>5, <1>6, <1>8, <3>3 DEF AckInv, HeldToken
    <3> QED BY <1>3, <2>3, <3>2, <3>4 DEF AckInv
  <2> QED BY <2>4, <2>5
<1> QED BY <1>0, <1>7, <1>8 DEF SendAnswer, Sent, NotSent, Written, NotWritten

\* keepalive: a PINGREQ is no token.
LEMMA KeepaliveAcks == TypeOK /\ AckInv /\ keepalive => AckInv'
<1> SUFFICES ASSUME TypeOK, AckInv, keepalive PROVE AckInv'
  OBVIOUS
<1> DEFINE a == Plain("PINGREQ", 0)
<1>0. /\ toBroker \in Seq(Packet) /\ pc = "keepalive" /\ pc' = "cycled"
      /\ UNCHANGED <<toClient, call, packet, taken, unacked>>
  BY DEF keepalive, TypeOK, NetworkType, history
<1>1. a \in Packet
  BY PlainType, ClientAssumption DEF Ids, PacketTypes
<1>2. ~Req(a) BY DEF Req, WaitsForAck, Awaited, Plain, Pkt
<1>3. EmptyHand' BY <1>0 DEF EmptyHand, AckInv
<1>4. Pending' = Pending /\ ClientClear' = ClientClear /\ HandClear' = HandClear
  BY <1>0 DEF Pending, ClientClear, HandClear, Held, Fresh
<1> HIDE DEF a
<1>5. \A i \in 1..Len(toBroker') : Req(toBroker'[i])
        => i \in 1..Len(toBroker) /\ toBroker'[i] = toBroker[i]
  <2>1. CASE toBroker' = toBroker BY <2>1
  <2>2. CASE toBroker' = Append(toBroker, a)
    <3>1. Len(toBroker) \in Nat BY <1>0
    <3> QED BY <1>0, <1>1, <1>2, <2>2, <3>1, AppendFacts
  <2> QED BY <2>1, <2>2 DEF keepalive, Written, NotWritten, a
<1>6. BrokerTokens' BY <1>0, <1>4, <1>5 DEF AckInv, BrokerTokens, Fresh
<1>7. BrokerClear => BrokerClear' BY <1>0, <1>5 DEF BrokerClear, Fresh
<1>8. ClientTokens' BY <1>0, <1>4 DEF AckInv, ClientTokens, Fresh
<1>9. HeldToken' BY <1>0, <1>4, <1>7 DEF AckInv, HeldToken
<1> QED BY <1>3, <1>6, <1>8, <1>9 DEF AckInv

\* The accepted acknowledgement is the only fresh token, or there is none.
LEMMA AcknowledgedAcks == TypeOK /\ AckInv /\ Acknowledged => AckInv'
<1> SUFFICES ASSUME TypeOK, AckInv, Acknowledged PROVE AckInv'
  OBVIOUS
<1>0. /\ pc = "cycled" /\ packet.type = Awaited(call) /\ WaitsForAck(call)
      /\ UNCHANGED <<toBroker, toClient>>
      /\ unacked' = IF packet.id = call.id THEN unacked ELSE unacked \cup {call.id}
      /\ \E code : Return(code)
  BY DEF Acknowledged, GotAck, Install, network
<1>1. Held
  <2>1. Awaited(call) \in {"CONNACK", "SUBACK", "UNSUBACK", "PUBACK", "PUBCOMP"}
    BY <1>0 DEF WaitsForAck, Awaited
  <2> QED BY <1>0, <2>1 DEF Held, Ack
<1>2. BrokerClear' /\ ClientClear'
  <2>1. CASE packet.id # call.id
    BY <1>0, <2>1 DEF AckInv, BrokerTokens, ClientTokens, BrokerClear, ClientClear, Fresh
  <2>2. CASE packet.id = call.id
    <3>1. BrokerClear /\ ClientClear
      <4>1. CASE Fresh(packet) BY <1>1, <4>1 DEF AckInv, HeldToken, HandClear
      <4>2. CASE ~Fresh(packet)
        <5>1. call.id \in unacked BY <2>2, <4>2 DEF Fresh
        <5> QED BY <5>1, TokensArePending DEF AllClear
      <4> QED BY <4>1, <4>2
    <3> QED BY <1>0, <2>2, <3>1 DEF BrokerClear, ClientClear, Fresh
  <2> QED BY <2>1, <2>2
<1>3. HandClear' /\ EmptyHand'
  BY <1>0, PseudoTokens DEF Return, HandClear, Held, EmptyHand
<1> QED BY <1>2, <1>3, ClearPreserves DEF AllClear

\* The steps of the call in progress.
LEMMA ClientStepAcks == TypeOK /\ AckInv /\ ClientStep => AckInv'
<1> SUFFICES ASSUME TypeOK, AckInv, ClientStep PROVE AckInv'
  OBVIOUS
<1>e. EmptyHand BY DEF AckInv
<1>s. ASSUME UNCHANGED <<toBroker, toClient, call, history>>, pc \in {"check", "read", "cycled"},
             pc' \in {"check", "read", "keepalive"}, packet' \in {NoPacket, ReadFailed},
             pc' \in {"check", "read"} => packet' = NoPacket
      PROVE  AckInv'
  <2>1. ~Ack(packet') BY <1>s, PseudoTokens
  <2>2. HandClear' BY <2>1 DEF HandClear, Held
  <2>3. EmptyHand' BY <1>e, <1>s DEF EmptyHand
  <2> QED BY <1>s, <2>1, <2>2, <2>3, StillPreserves DEF history
<1>r. ASSUME UNCHANGED <<toBroker, toClient, unacked>>, call = NoPacket,
             Return(SUCCESS) \/ Return(FAILURE)
      PROVE  AckInv'
  <2>1. AllClear BY <1>r, PseudoTokens, TokensArePending DEF Pending
  <2>2. BrokerClear' BY <1>r, <2>1 DEF AllClear, BrokerClear, Fresh
  <2> QED BY <1>r, <2>1, <2>2, ReturnClears
<1>1. CASE SendPacket BY <1>1, SendPacketAcks
<1>2. CASE CheckTimer
  <2>1. CASE /\ ~timer /\ pc' = "read"
             /\ UNCHANGED <<call, packet, handled, timer, rc, taken, unacked>>
    BY <1>2, <1>e, <1>s, <2>1 DEF CheckTimer, EmptyHand, network, history
  <2>2. CASE Fail BY <1>2, <2>2, FailClears DEF CheckTimer, network
  <2>3. CASE call = NoPacket /\ Return(SUCCESS) /\ UNCHANGED unacked
    BY <1>2, <1>r, <2>3 DEF CheckTimer, network
  <2> QED BY <1>2, <2>1, <2>2, <2>3 DEF CheckTimer
<1>3. CASE ReadPacket BY <1>3, ReadPacketAcks
<1>4. CASE ReadTimeout \/ ReadCloseNotify \/ ReadError
  BY <1>4, <1>s DEF ReadTimeout, ReadCloseNotify, ReadError, ReadsNoPacket
<1>5. CASE SendAnswer BY <1>5, SendAnswerAcks
<1>6. CASE keepalive BY <1>6, KeepaliveAcks
<1>7. CASE Acknowledged BY <1>7, AcknowledgedAcks
<1>8. CASE Again BY <1>8, <1>s DEF Again, network
<1>9. CASE YieldFails BY <1>9, <1>r DEF YieldFails, network
<1> QED BY <1>1, <1>2, <1>3, <1>4, <1>5, <1>6, <1>7, <1>8, <1>9 DEF ClientStep

-----------------------------------------------------------------------------
\* What a broker answers: an acknowledgement, if at all, with the id of a request.
LEMMA RepliesAcks ==
  ASSUME NEW p \in Packet, NEW r \in Replies(p), NEW k \in 1..Len(r), Ack(r[k])
  PROVE  Req(p) /\ r[k].id = p.id /\ k = 1 /\ Len(r) = 1
<1>1. CASE p.type = "CONNECT"
  BY <1>1 DEF Replies, Req, WaitsForAck, Awaited, Pkt
<1>2. CASE p.type = "SUBSCRIBE"
  BY <1>2 DEF Replies, Req, WaitsForAck, Awaited, Pkt
<1>3. CASE p.type \notin {"CONNECT", "SUBSCRIBE"}
  BY <1>3 DEF Replies, Req, Ack, WaitsForAck, Awaited, Plain, Pkt
<1> QED BY <1>1, <1>2, <1>3

\* The broker takes a request and puts its acknowledgement in its place.
LEMMA BrokerReceivesAcks == TypeOK /\ AckInv /\ BrokerReceives => AckInv'
<1> SUFFICES ASSUME TypeOK, AckInv, BrokerReceives PROVE AckInv'
  OBVIOUS
<1> DEFINE p == toBroker[1]
<1>0. /\ toBroker \in Seq(Packet) /\ toBroker # <<>> /\ toClient \in Seq(Packet)
      /\ UNCHANGED <<pc, call, packet, unacked>>
      /\ Head(toBroker) = p /\ p \in Packet /\ 1 \in 1..Len(toBroker)
  BY TailFacts DEF BrokerReceives, TypeOK, NetworkType, frame
<1>1. PICK r \in Replies(p) :
        /\ toClient' = toClient \o r
        /\ toBroker' \in {Tail(toBroker), <<>>}
        /\ taken' = (taken \/ (WaitsForAck(p) /\ p = call))
  BY <1>0 DEF BrokerReceives
<1>2. r \in Seq(Packet) /\ Len(r) <= 1 BY <1>0, <1>1, RepliesType
<1> HIDE DEF p
<1>3. EmptyHand' BY <1>0 DEF EmptyHand, AckInv
<1>4. Pending' = Pending /\ HandClear' = HandClear
  BY <1>0 DEF Pending, HandClear, Held, Fresh
<1>5. \A i \in 1..Len(toBroker') :
        toBroker'[i] = toBroker[i + 1] /\ i + 1 \in 1..Len(toBroker) /\ i \in Int
  <2>1. CASE toBroker' = <<>> BY <2>1
  <2>2. CASE toBroker' = Tail(toBroker) BY <1>0, <2>2, TailFacts
  <2> QED BY <1>1, <2>1, <2>2
<1>6. /\ Len(toClient') = Len(toClient) + Len(r)
      /\ \A i \in 1..Len(toClient) : toClient'[i] = toClient[i]
      /\ \A i \in Len(toClient) + 1 .. Len(toClient') :
           i - Len(toClient) \in 1..Len(r) /\ toClient'[i] = r[i - Len(toClient)]
  BY <1>0, <1>1, <1>2
<1>7. Len(toClient) \in Nat BY <1>0
<1>8. \A i \in 1..Len(toClient') : Ack(toClient'[i]) =>
        \/ i \in 1..Len(toClient) /\ toClient'[i] = toClient[i]
        \/ i = Len(toClient) + 1 /\ Req(p) /\ toClient'[i].id = p.id
  BY <1>0, <1>1, <1>2, <1>6, <1>7, RepliesAcks
<1>9. CASE Req(p) /\ Fresh(p)
  <2>1. /\ Pending /\ p.id = call.id /\ ClientClear
        /\ \A j \in 1..Len(toBroker) : Req(toBroker[j]) /\ Fresh(toBroker[j]) => j = 1
        /\ taken'
    <3>1. p = call \/ taken BY <1>0, <1>9 DEF AckInv, BrokerTokens, p
    <3>2. p = call => WaitsForAck(p) BY <1>9 DEF AckInv, EmptyHand, Req
    <3> QED BY <1>0, <1>1, <1>9, <3>1, <3>2 DEF AckInv, BrokerTokens, p
  <2>2. HandClear BY <1>0, <1>9 DEF AckInv, HeldToken, BrokerClear, p
  <2>3. BrokerClear'
    <3>1. \A i \in 1..Len(toBroker') : i + 1 # 1 BY <1>5
    <3> QED BY <1>0, <1>5, <2>1, <3>1 DEF BrokerClear, Fresh
  <2>4. \A i \in 1..Len(toClient') : Ack(toClient'[i]) /\ toClient'[i].id \notin unacked =>
          i = Len(toClient) + 1 /\ toClient'[i].id = p.id
    BY <1>8, <2>1 DEF ClientClear, Fresh
  <2>5. ClientTokens' BY <1>0, <1>4, <2>1, <2>4 DEF ClientTokens, Fresh
  <2> QED BY <1>3, <1>4, <2>2, <2>3, <2>5 DEF AckInv, BrokerTokens, BrokerClear, HeldToken
<1>10. CASE ~(Req(p) /\ Fresh(p))
  <2>1. \A i \in 1..Len(toClient') : Ack(toClient'[i]) /\ toClient'[i].id \notin unacked =>
          i \in 1..Len(toClient) /\ toClient'[i] = toClient[i]
    BY <1>8, <1>10 DEF Fresh
  <2>2. ClientClear => ClientClear' BY <1>0, <2>1 DEF ClientClear, Fresh
  <2>3. BrokerClear => BrokerClear' BY <1>0, <1>5 DEF BrokerClear, Fresh
  <2>4. ClientTokens' BY <1>0, <1>1, <1>4, <2>1 DEF AckInv, ClientTokens, Fresh
  <2>5. ASSUME NEW i \in 1..Len(toBroker'), Req(toBroker'[i]), toBroker'[i].id \notin unacked
        PROVE  /\ Pending /\ toBroker'[i].id = call.id
               /\ toBroker'[i] = call \/ taken
               /\ ClientClear
               /\ \A j \in 1..Len(toBroker') :
                    Req(toBroker'[j]) /\ toBroker'[j].id \notin unacked => j = i
    <3>1. i + 1 \in 1..Len(toBroker) /\ toBroker'[i] = toBroker[i + 1] /\ i \in Int
      BY <1>5
    <3>2. /\ Pending /\ toBroker[i + 1].id = call.id
          /\ toBroker[i + 1] = call \/ taken
          /\ ClientClear
          /\ \A j \in 1..Len(toBroker) : Req(toBroker[j]) /\ Fresh(toBroker[j]) => j = i + 1
      BY <2>5, <3>1 DEF AckInv, BrokerTokens, Fresh
    <3>3. ASSUME NEW j \in 1..Len(toBroker'), Req(toBroker'[j]), toBroker'[j].id \notin unacked
          PROVE  j = i
      <4>1. j + 1 \in 1..Len(toBroker) /\ toBroker'[j] = toBroker[j + 1] /\ j \in Int
        BY <1>5
      <4>2. j + 1 = i + 1 BY <3>2, <3>3, <4>1 DEF Fresh
      <4> QED BY <3>1, <4>1, <4>2
    <3> QED BY <3>1, <3>2, <3>3
  <2>6. BrokerTokens' BY <1>0, <1>1, <1>4, <2>2, <2>5 DEF BrokerTokens, Fresh
  <2>7. HeldToken' BY <1>0, <1>1, <1>4, <2>2, <2>3 DEF AckInv, HeldToken
  <2> QED BY <1>3, <2>4, <2>6, <2>7 DEF AckInv
<1> QED BY <1>9, <1>10

\* The surroundings.
LEMMA EnvironmentAcks == TypeOK /\ AckInv /\ Environment => AckInv'
<1> SUFFICES ASSUME TypeOK, AckInv, Environment PROVE AckInv'
  OBVIOUS
<1>1. CASE BrokerReceives BY <1>1, BrokerReceivesAcks
<1>2. ASSUME NEW t \in Topics, NEW q \in InboundQoS, BrokerPublishes(t, q) PROVE AckInv'
  <2> DEFINE m == Pkt("PUBLISH", IF q = 0 THEN 0 ELSE 1, q, t)
  <2>1. m \in Packet /\ ~Ack(m)
    <3>1. (IF q = 0 THEN 0 ELSE 1) \in Ids /\ q \in 0..128 BY ClientAssumption DEF Ids
    <3> QED BY <3>1, PktType DEF PacketTypes, Ack, Pkt
  <2> HIDE DEF m
  <2>2. /\ toClient \in Seq(Packet) /\ toClient' = Append(toClient, m)
        /\ UNCHANGED <<toBroker, pc, call, packet, taken, unacked>>
    BY <1>2 DEF BrokerPublishes, TypeOK, NetworkType, frame, history, m
  <2>3. \A i \in 1..Len(toClient') : Ack(toClient'[i])
          => i \in 1..Len(toClient) /\ toClient'[i] = toClient[i]
    <3>1. Len(toClient) \in Nat BY <2>2
    <3> QED BY <2>1, <2>2, <3>1, AppendFacts
  <2>4. ClientClear => ClientClear' BY <2>2, <2>3 DEF ClientClear, Fresh
  <2>5. Pending' = Pending /\ HandClear' = HandClear /\ BrokerClear' = BrokerClear
    BY <2>2 DEF Pending, HandClear, Held, BrokerClear, Fresh
  <2>6. BrokerTokens' BY <2>2, <2>4, <2>5 DEF AckInv, BrokerTokens, Fresh
  <2>7. ClientTokens' BY <2>2, <2>3, <2>5 DEF AckInv, ClientTokens, Fresh
  <2>8. HeldToken' BY <2>2, <2>4, <2>5 DEF AckInv, HeldToken
  <2>9. EmptyHand' BY <2>2 DEF AckInv, EmptyHand
  <2> QED BY <2>6, <2>7, <2>8, <2>9 DEF AckInv
<1>3. ASSUME UNCHANGED <<toClient, pc, call, packet, taken, unacked>>,
             toBroker' \in {toBroker, <<>>}
      PROVE  AckInv'
  <2>1. UNCHANGED <<toClient, pc, call, packet, taken, unacked>> BY <1>3
  <2>2. Pending' = Pending /\ HandClear' = HandClear /\ ClientClear' = ClientClear
    BY <2>1 DEF Pending, HandClear, Held, ClientClear, Fresh
  <2>3. BrokerTokens' /\ (BrokerClear => BrokerClear')
    <3>1. CASE toBroker' = toBroker
      BY <2>1, <2>2, <3>1 DEF AckInv, BrokerTokens, BrokerClear, Fresh
    <3>2. CASE toBroker' = <<>>
      BY <3>2 DEF BrokerTokens, BrokerClear
    <3> QED BY <1>3, <3>1, <3>2
  <2>4. ClientTokens' BY <2>1, <2>2 DEF AckInv, ClientTokens, Fresh
  <2>5. HeldToken' BY <2>1, <2>2, <2>3 DEF AckInv, HeldToken
  <2>6. EmptyHand' BY <2>1 DEF AckInv, EmptyHand
  <2> QED BY <2>3, <2>4, <2>5, <2>6 DEF AckInv
<1>4. CASE LinkChanges BY <1>3, <1>4 DEF LinkChanges, frame, history
<1>5. CASE TimerExpires BY <1>3, <1>5 DEF TimerExpires, network, history
<1>6. CASE PingTimerExpires BY <1>3, <1>6 DEF PingTimerExpires, frame, network, history
<1> QED BY <1>1, <1>2, <1>4, <1>5, <1>6 DEF Environment

\* There is nothing to track to begin with.
LEMMA InitAcks == Init => AckInv
<1> SUFFICES ASSUME Init PROVE AckInv
  OBVIOUS
<1>1. /\ toBroker = <<>> /\ toClient = <<>>
      /\ packet = NoPacket /\ call = NoPacket
  BY DEF Init
<1>2. EmptyHand BY <1>1, PseudoTokens DEF EmptyHand
<1>3. BrokerTokens /\ ClientTokens BY <1>1 DEF BrokerTokens, ClientTokens
<1>4. HeldToken BY <1>1, PseudoTokens DEF HeldToken, HandClear, Held
<1> QED BY <1>2, <1>3, <1>4 DEF AckInv

\* Every step keeps track of the acknowledgements.
LEMMA AckStep == TypeOK /\ AckInv /\ [Next]_vars => AckInv'
<1>1. AckInv /\ UNCHANGED vars => AckInv'
  BY DEF AckInv, BrokerTokens, ClientTokens, HeldToken, EmptyHand, BrokerClear, ClientClear,
         HandClear, Held, Pending, Fresh, vars, frame, network, history
<1> QED BY <1>1, ApplicationAcks, ClientStepAcks, EnvironmentAcks DEF Next

\* The inductive invariant holds, whatever the constants.
THEOREM AcksAreTracked == Spec => []AckInv
BY InitAcks, AckStep, TypeCorrect, PTL DEF Spec

\* The acknowledgement in hand: the call's own, or that of a request given up.
LEMMA AcceptedAck ==
  ASSUME AckInv, pc = "cycled", GotAck
  PROVE  packet.id \in unacked \/ (packet.id = call.id /\ taken)
<1>1. Awaited(call) \in {"CONNACK", "SUBACK", "UNSUBACK", "PUBACK", "PUBCOMP"}
  BY DEF GotAck, WaitsForAck, Awaited
<1>2. Held BY <1>1 DEF GotAck, Held, Ack
<1> QED BY <1>2 DEF AckInv, HeldToken, HandClear, Fresh

\* While no request of the session has ended without its own acknowledgement, what ends
\* waitfor acknowledges the very request of the call, and the broker has received it,
\* although waitfor looks at the packet's type alone (MQTTClient.c:359).
THEOREM CleanAcknowledgements == Spec => []CleanSessionAck
<1>1. AckInv => CleanSessionAck BY AcceptedAck DEF CleanSessionAck
<1> QED BY <1>1, AcksAreTracked, PTL

\* An acknowledgement accepted late is one of this session's, for any MAX_PACKET_ID.
THEOREM SessionAcknowledgements == Spec => []AckOfThisSession
<1>1. AckInv => AckOfThisSession BY AcceptedAck DEF AckOfThisSession
<1> QED BY <1>1, AcksAreTracked, PTL

-----------------------------------------------------------------------------
(* Counting packets. *)

\* A set of natural numbers has a least element.
LEMMA LeastElement ==
  ASSUME NEW S \in SUBSET Nat, S # {}
  PROVE  \E i \in S : \A j \in S : i <= j
<1> DEFINE R == OpToRel(<, Nat)
<1>1. IsWellFoundedOn(R, Nat) BY NatLessThanWellFounded, Zenon
<1> HIDE DEF R
<1>2. PICK i \in S : \A j \in S : <<j, i>> \notin R BY <1>1, WFMin
<1>3. \A j \in S : j < i => <<j, i>> \in R
  BY SMT DEF R, OpToRel
<1>4. \A j \in S : ~(j < i) BY <1>2, <1>3, Zenon
<1>5. i \in Nat /\ \A j \in S : j \in Nat OBVIOUS
<1> QED BY <1>4, <1>5

\* How many packets of a type a channel holds.
Count(s, type) == Cardinality(OfType(s, type))

\* The packets of a type in a channel are a finite set.
LEMMA OfTypeFinite ==
  ASSUME NEW s \in Seq(Packet), NEW type
  PROVE  IsFiniteSet(OfType(s, type)) /\ Cardinality(OfType(s, type)) \in Nat
<1>1. Len(s) \in Nat BY SMT
<1>2. IsFiniteSet(1..Len(s)) BY <1>1, FS_Interval
<1>3. OfType(s, type) \in SUBSET (1..Len(s)) BY DEF OfType
<1>4. IsFiniteSet(OfType(s, type)) BY <1>2, <1>3, FS_Subset
<1> QED BY <1>4, FS_CardinalityType

\* Those behind the head are as many as in the tail.
LEMMA OfTypeTail ==
  ASSUME NEW s \in Seq(Packet), s # <<>>, NEW type
  PROVE  Cardinality(OfType(s, type))
           = Cardinality(OfType(Tail(s), type)) + (IF Head(s).type = type THEN 1 ELSE 0)
<1> DEFINE T == OfType(Tail(s), type)
           U == OfType(s, type) \ {1}
           f == [i \in T |-> i + 1]
<1>0. Tail(s) \in Seq(Packet) OBVIOUS
<1>1. /\ Len(s) \in Nat \ {0} /\ Len(Tail(s)) = Len(s) - 1
      /\ \A i \in 1..Len(s) - 1 : Tail(s)[i] = s[i + 1]
      /\ Head(s) = s[1]
  OBVIOUS
<1>2. f \in [T -> U]
  BY <1>1 DEF OfType
<1>3. \A a, b \in T : f[a] = f[b] => a = b
  BY <1>1 DEF OfType
<1>4. \A u \in U : \E t \in T : f[t] = u
  <2> SUFFICES ASSUME NEW u \in U PROVE u - 1 \in T /\ f[u - 1] = u
    OBVIOUS
  <2>1. u \in 2..Len(s) /\ s[u].type = type BY <1>1 DEF OfType
  <2>2. u - 1 \in 1..Len(s) - 1 /\ (u - 1) + 1 = u BY <1>1, <2>1
  <2> QED BY <1>1, <2>1, <2>2 DEF OfType
<1>5. ExistsBijection(T, U)
  BY <1>2, <1>3, <1>4 DEF ExistsBijection, Bijection, Injection, Surjection, IsInjective
<1>6. Cardinality(U) = Cardinality(T)
  BY <1>0, <1>5, OfTypeFinite, FS_Bijection
<1>7. IsFiniteSet(OfType(s, type)) /\ Cardinality(OfType(s, type)) \in Nat BY OfTypeFinite
<1>8. Cardinality(U) = IF 1 \in OfType(s, type) THEN Cardinality(OfType(s, type)) - 1
                       ELSE Cardinality(OfType(s, type))
  BY <1>7, FS_RemoveElement
<1>9. 1 \in OfType(s, type) <=> Head(s).type = type BY <1>1 DEF OfType
<1> QED BY <1>6, <1>7, <1>8, <1>9

\* A packet that is appended counts if it is of the type.
LEMMA CountAppend ==
  ASSUME NEW s \in Seq(Packet), NEW x \in Packet, NEW type
  PROVE  Count(Append(s, x), type) = Count(s, type) + (IF x.type = type THEN 1 ELSE 0)
<1>1. /\ Len(s) \in Nat /\ Len(Append(s, x)) = Len(s) + 1
      /\ \A i \in 1..Len(s) + 1 : Append(s, x)[i] = IF i = Len(s) + 1 THEN x ELSE s[i]
  BY AppendFacts
<1>2. IsFiniteSet(OfType(s, type)) /\ Count(s, type) \in Nat BY OfTypeFinite DEF Count
<1>3. Len(s) + 1 \notin OfType(s, type) BY <1>1 DEF OfType
<1>4. CASE x.type = type
  <2>1. OfType(Append(s, x), type) = OfType(s, type) \cup {Len(s) + 1}
    BY <1>1, <1>4 DEF OfType
  <2> QED BY <1>2, <1>3, <1>4, <2>1, FS_AddElement DEF Count
<1>5. CASE x.type # type
  <2>1. OfType(Append(s, x), type) = OfType(s, type) BY <1>1, <1>5 DEF OfType
  <2> QED BY <1>2, <1>5, <2>1 DEF Count
<1> QED BY <1>4, <1>5

\* A packet that is taken counted if it was of the type.
LEMMA CountTail ==
  ASSUME NEW s \in Seq(Packet), s # <<>>, NEW type
  PROVE  Count(s, type) = Count(Tail(s), type) + (IF Head(s).type = type THEN 1 ELSE 0)
BY OfTypeTail DEF Count

\* A count is a natural number.
LEMMA CountType == ASSUME NEW s \in Seq(Packet), NEW type PROVE Count(s, type) \in Nat
BY OfTypeFinite DEF Count

\* An empty channel has none of any type.
LEMMA CountEmpty == \A type : Count(<<>>, type) = 0
BY FS_EmptySet DEF Count, OfType

\* What a broker answers, by the type of what it has received.
LEMMA RepliesShape ==
  ASSUME NEW p \in Packet, NEW r \in Replies(p)
  PROVE  \/ /\ r = <<>>
            /\ p.type \notin {"CONNECT", "SUBSCRIBE", "UNSUBSCRIBE", "PINGREQ"}
            /\ ~(p.type = "PUBLISH" /\ p.val = 1)
         \/ \E q \in Packet :
              /\ r = <<q>>
              /\ q.type = "PINGRESP" <=> p.type = "PINGREQ"
              /\ q.type = "SUBACK" <=> p.type = "SUBSCRIBE"
              /\ q.type = "PUBACK" <=> p.type = "PUBLISH" /\ p.val = 1
<1>0. 0 \in Ids /\ p.id \in Ids BY ClientAssumption DEF Ids, Packet, Fields
<1> DEFINE Shape(q) == /\ q \in Packet
                       /\ q.type = "PINGRESP" <=> p.type = "PINGREQ"
                       /\ q.type = "SUBACK" <=> p.type = "SUBSCRIBE"
                       /\ q.type = "PUBACK" <=> p.type = "PUBLISH" /\ p.val = 1
<1>1. CASE p.type = "CONNECT"
  <2>1. PICK v \in {0, 5} : r = <<Pkt("CONNACK", p.id, v, NoTopic)>> BY <1>1 DEF Replies
  <2>2. Pkt("CONNACK", p.id, v, NoTopic) \in Packet BY <1>0, PktType DEF PacketTypes
  <2>3. Shape(Pkt("CONNACK", p.id, v, NoTopic)) BY <1>1, <2>2 DEF Pkt
  <2> QED BY <2>1, <2>3
<1>2. CASE p.type = "SUBSCRIBE"
  <2>1. PICK v \in GrantedQoS : r = <<Pkt("SUBACK", p.id, v, NoTopic)>> BY <1>2 DEF Replies
  <2>2. Pkt("SUBACK", p.id, v, NoTopic) \in Packet
    BY <1>0, PktType, ClientAssumption DEF PacketTypes
  <2>3. Shape(Pkt("SUBACK", p.id, v, NoTopic)) BY <1>2, <2>2 DEF Pkt
  <2> QED BY <2>1, <2>3
<1>3. ASSUME NEW type \in {"UNSUBACK", "PUBACK", "PUBREC", "PUBREL", "PUBCOMP", "PINGRESP"},
             NEW id \in Ids, r = <<Plain(type, id)>>, p.type # "SUBSCRIBE",
             type = "PINGRESP" <=> p.type = "PINGREQ",
             type = "PUBACK" <=> p.type = "PUBLISH" /\ p.val = 1
      PROVE  \E q : Shape(q) /\ r = <<q>>
  <2>1. Plain(type, id) \in Packet BY PlainType DEF PacketTypes
  <2>2. Plain(type, id).type = type BY DEF Plain, Pkt
  <2>3. Shape(Plain(type, id)) BY <1>3, <2>1, <2>2
  <2> QED BY <1>3, <2>3
<1>4. CASE p.type = "UNSUBSCRIBE" BY <1>0, <1>3, <1>4 DEF Replies
<1>5. CASE p.type = "PUBLISH" /\ p.val \in {1, 2} BY <1>0, <1>3, <1>5 DEF Replies
<1>6. CASE p.type \in {"PUBREC", "PUBREL"} BY <1>0, <1>3, <1>6 DEF Replies
<1>7. CASE p.type = "PINGREQ" BY <1>0, <1>3, <1>7 DEF Replies
<1>8. CASE /\ p.type \notin {"CONNECT", "SUBSCRIBE", "UNSUBSCRIBE", "PUBREC", "PUBREL", "PINGREQ"}
           /\ ~(p.type = "PUBLISH" /\ p.val \in {1, 2})
  <2>1. r = <<>> BY <1>8 DEF Replies
  <2> QED BY <1>8, <2>1
<1> QED BY <1>1, <1>2, <1>4, <1>5, <1>6, <1>7, <1>8

-----------------------------------------------------------------------------
(* Pings. *)

\* What a call may send; none of them is a ping.
CallTypes == {"NONE", "CONNECT", "SUBSCRIBE", "UNSUBSCRIBE", "PUBLISH", "DISCONNECT"}
PingInv == call.type \in CallTypes /\ PingAccounting

\* The calls never send a ping of their own.
LEMMA PingsUntouched ==
  ASSUME PingInv, call'.type \in CallTypes, Live' => Live,
         UNCHANGED <<toBroker, toClient, ping_outstanding>>
  PROVE  PingInv'
BY DEF PingInv, PingAccounting

\* What the client writes, but for a PINGREQ, leaves the pings as they are.
LEMMA WritesNoPing ==
  ASSUME TypeOK, PingInv, NEW p \in Packet, p.type # "PINGREQ", Written(p) \/ NotWritten,
         call'.type \in CallTypes, UNCHANGED <<link, toClient, ping_outstanding>>
  PROVE  PingInv'
<1>1. CASE toBroker' = toBroker BY <1>1, PingsUntouched DEF Live
<1>2. CASE toBroker' = Append(toBroker, p)
  <2>1. toBroker \in Seq(Packet) BY DEF TypeOK, NetworkType
  <2>2. Count(toBroker', "PINGREQ") = Count(toBroker, "PINGREQ")
    BY <1>2, <2>1, CountAppend, CountType
  <2> QED BY <2>2 DEF PingInv, PingAccounting, Live, Count
<1> QED BY <1>1, <1>2 DEF Written, NotWritten

\* The application starts calls, and sessions with no ping under way.
LEMMA ApplicationPings == TypeOK /\ PingInv /\ Application => PingInv'
<1> SUFFICES ASSUME TypeOK, PingInv, Application PROVE PingInv'
  OBVIOUS
<1>r. \A code : Return(code) => call'.type \in CallTypes
  BY DEF Return, NoPacket, Plain, Pkt, CallTypes
<1>1. CASE OpenSession
  <2>1. toBroker' = <<>> /\ toClient' = <<>> /\ ping_outstanding' = FALSE /\ UNCHANGED call
    BY <1>1 DEF OpenSession, NetworkConnect, MQTTClientInit, frame
  <2>2. Count(toBroker', "PINGREQ") = 0 /\ Count(toClient', "PINGRESP") = 0
    BY <2>1, CountEmpty
  <2> QED BY <2>1, <2>2 DEF PingInv, PingAccounting, Count
<1>2. CASE CloseSession
  BY <1>2 DEF CloseSession, NetworkDisconnect, frame, PingInv, PingAccounting, Live
<1>3. CASE ~OpenSession /\ ~CloseSession
  <2>1. UNCHANGED <<link, toBroker, toClient, ping_outstanding>> /\ call'.type \in CallTypes
    <3>1. CASE MQTTConnect
      BY <3>1, <1>r DEF MQTTConnect, Begin, TooLong, Plain, Pkt, network, CallTypes
    <3>2. CASE MQTTYield BY <3>2 DEF MQTTYield, client, network, PingInv
    <3>3. CASE MQTTDisconnect
      BY <3>3 DEF MQTTDisconnect, Begin, Plain, Pkt, client, network, CallTypes
    <3>4. ASSUME NEW t \in Topics, MQTTSubscribe(t) \/ MQTTUnsubscribe(t)
          PROVE  /\ UNCHANGED <<link, toBroker, toClient, ping_outstanding>>
                 /\ call'.type \in CallTypes
      BY <3>4, <1>r DEF MQTTSubscribe, MQTTUnsubscribe, NotConnected, WithNextId, TooLong, Begin,
         Pkt, Request, network, CallTypes
    <3>5. ASSUME NEW t \in Topics, NEW q \in PublishQoS, MQTTPublish(t, q)
          PROVE  /\ UNCHANGED <<link, toBroker, toClient, ping_outstanding>>
                 /\ call'.type \in CallTypes
      BY <3>5, <1>r DEF MQTTPublish, NotConnected, WithNextId, TooLong, Begin, Pkt, Request,
         network, CallTypes
    <3> QED BY <1>3, <3>1, <3>2, <3>3, <3>4, <3>5 DEF Application
  <2> QED BY <2>1, PingsUntouched DEF Live
<1> QED BY <1>1, <1>2, <1>3

\* A call's own steps: keepalive adds a ping when there is none, cycle takes its answer.
LEMMA ClientStepPings == TypeOK /\ PingInv /\ ClientStep => PingInv'
<1> SUFFICES ASSUME TypeOK, PingInv, ClientStep PROVE PingInv'
  OBVIOUS
<1>t. toBroker \in Seq(Packet) /\ toClient \in Seq(Packet) /\ call \in Packet /\ packet \in Packet
      /\ ping_outstanding \in BOOLEAN
  BY DEF TypeOK, ClientType, FrameType, NetworkType
<1>r. \A code : Return(code) => call'.type \in CallTypes
  BY DEF Return, NoPacket, Plain, Pkt, CallTypes
<1>1. CASE SendPacket
  <2>1. call.type # "PINGREQ" BY DEF PingInv, CallTypes
  <2>2. Written(call) \/ NotWritten BY <1>1 DEF SendPacket, Sent, NotSent
  <2>3. call'.type \in CallTypes BY <1>1, <1>r DEF SendPacket, Fail, PingInv
  <2> QED BY <1>1, <1>t, <2>1, <2>2, <2>3, WritesNoPing DEF SendPacket
<1>2. CASE CheckTimer
  <2>1. call'.type \in CallTypes BY <1>2, <1>r DEF CheckTimer, Fail, PingInv
  <2> QED BY <1>2, <2>1, PingsUntouched DEF CheckTimer, client, network, Live
<1>3. CASE ReadPacket
  <2>1. /\ toClient # <<>> /\ toClient' = Tail(toClient) /\ link # "silent"
        /\ ping_outstanding' = (ping_outstanding /\ Head(toClient).type # "PINGRESP")
        /\ UNCHANGED <<call, link, toBroker>>
    BY <1>3 DEF ReadPacket
  <2>2. Count(toClient, "PINGRESP") =
          Count(toClient', "PINGRESP") + (IF Head(toClient).type = "PINGRESP" THEN 1 ELSE 0)
    BY <1>t, <2>1, CountTail
  <2>3. toClient' \in Seq(Packet) BY <1>t, <2>1
  <2>4. /\ Count(toBroker, "PINGREQ") \in Nat /\ Count(toClient, "PINGRESP") \in Nat
        /\ Count(toClient', "PINGRESP") \in Nat
    BY <1>t, <2>3, CountType
  <2>5. Live' = Live BY <2>1 DEF Live
  <2>6. SUFFICES ASSUME Live
                 PROVE  Count(toBroker, "PINGREQ") + Count(toClient', "PINGRESP")
                          = IF ping_outstanding' THEN 1 ELSE 0
    BY <2>1, <2>5 DEF PingInv, PingAccounting, Count
  <2>7. Count(toBroker, "PINGREQ") + Count(toClient, "PINGRESP")
          = IF ping_outstanding THEN 1 ELSE 0
    BY <2>6 DEF PingInv, PingAccounting, Count
  <2>8. CASE Head(toClient).type = "PINGRESP"
    <3>1. ping_outstanding' = FALSE BY <2>1, <2>8
    <3>2. Count(toClient, "PINGRESP") = Count(toClient', "PINGRESP") + 1 BY <2>2, <2>8
    <3> QED BY <2>4, <2>7, <3>1, <3>2
  <2>9. CASE Head(toClient).type # "PINGRESP"
    <3>1. ping_outstanding' = ping_outstanding BY <1>t, <2>1, <2>9
    <3> QED BY <2>2, <2>4, <2>7, <2>9, <3>1
  <2> QED BY <2>8, <2>9
<1>4. CASE ReadTimeout \/ ReadCloseNotify \/ ReadError
  BY <1>4, PingsUntouched
     DEF ReadTimeout, ReadCloseNotify, ReadError, ReadsNoPacket, PingInv, client, Live
<1>5. CASE SendAnswer
  <2>1. Answer(packet) \in Packet /\ Answer(packet).type # "PINGREQ"
    BY <1>t, AnswerType DEF Answer, NoPacket, Plain, Pkt
  <2>2. Written(Answer(packet)) \/ NotWritten BY <1>5 DEF SendAnswer, Sent, NotSent
  <2> QED BY <1>5, <2>1, <2>2, WritesNoPing DEF SendAnswer, PingInv
<1>6. CASE keepalive
  <2> DEFINE a == Plain("PINGREQ", 0)
  <2>1. a \in Packet /\ a.type = "PINGREQ"
    BY PlainType, ClientAssumption DEF Ids, PacketTypes, Plain, Pkt
  <2>2. UNCHANGED <<link, toClient, call>> BY <1>6 DEF keepalive
  <2> HIDE DEF a
  <2>3. CASE NotWritten /\ UNCHANGED ping_outstanding
    BY <2>2, <2>3, PingsUntouched DEF NotWritten, PingInv, Live
  <2>4. CASE PingDue /\ Written(a) /\ ping_outstanding' = TRUE
    <3>1. CASE Live /\ toBroker' = Append(toBroker, a)
      <4>1. Count(toBroker', "PINGREQ") = Count(toBroker, "PINGREQ") + 1
        BY <1>t, <2>1, <3>1, CountAppend
      <4>2. Count(toBroker, "PINGREQ") + Count(toClient, "PINGRESP") = 0
        BY <2>4, <3>1 DEF PingDue, PingInv, PingAccounting, Count
      <4>3. Count(toBroker, "PINGREQ") \in Nat /\ Count(toClient, "PINGRESP") \in Nat
        BY <1>t, CountType
      <4>4. Count(toBroker', "PINGREQ") + Count(toClient, "PINGRESP") = 1
        BY <4>1, <4>2, <4>3
      <4> QED BY <2>2, <2>4, <4>4 DEF PingInv, PingAccounting, Count
    <3>2. CASE ~Live BY <2>2, <3>2 DEF PingInv, PingAccounting, Live
    <3> QED BY <2>4, <3>1, <3>2 DEF Written
  <2> QED BY <1>6, <2>3, <2>4 DEF keepalive, a
<1>7. CASE Acknowledged
  BY <1>7, <1>r, PingsUntouched DEF Acknowledged, Install, network, Live
<1>8. CASE Again BY <1>8, PingsUntouched DEF Again, PingInv, client, network, Live
<1>9. CASE YieldFails BY <1>9, <1>r, PingsUntouched DEF YieldFails, client, network, Live
<1> QED BY <1>1, <1>2, <1>3, <1>4, <1>5, <1>6, <1>7, <1>8, <1>9 DEF ClientStep

\* The broker answers a ping with one PINGRESP, and sends none unasked.
LEMMA EnvironmentPings == TypeOK /\ PingInv /\ Environment => PingInv'
<1> SUFFICES ASSUME TypeOK, PingInv, Environment PROVE PingInv'
  OBVIOUS
<1>t. toBroker \in Seq(Packet) /\ toClient \in Seq(Packet)
  BY DEF TypeOK, NetworkType
<1>1. CASE BrokerReceives
  <2> DEFINE p == Head(toBroker)
  <2>1. /\ toBroker # <<>> /\ link = "up" /\ UNCHANGED <<call, ping_outstanding>>
        /\ p \in Packet
    BY <1>1, <1>t DEF BrokerReceives, client, frame
  <2>2. PICK r \in Replies(p) :
          toClient' = toClient \o r /\ toBroker' = (IF link' = "up" THEN Tail(toBroker) ELSE <<>>)
          /\ link' \in {"up", "closed"}
    BY <1>1 DEF BrokerReceives
  <2>3. CASE link' = "closed" BY <2>1, <2>3 DEF PingInv, PingAccounting, Live
  <2>4. CASE link' = "up"
    <3>1. Count(toBroker, "PINGREQ") =
            Count(toBroker', "PINGREQ") + (IF p.type = "PINGREQ" THEN 1 ELSE 0)
      BY <1>t, <2>1, <2>2, <2>4, CountTail
    <3> DEFINE Answered == Count(toClient', "PINGRESP") =
                 Count(toClient, "PINGRESP") + (IF p.type = "PINGREQ" THEN 1 ELSE 0)
    <3>2. Answered
      <4>1. CASE r = <<>> /\ p.type # "PINGREQ"
        <5>1. toClient' = toClient BY <1>t, <2>2, <4>1
        <5> QED BY <1>t, <4>1, <5>1, CountType
      <4>2. ASSUME NEW q \in Packet, r = <<q>>, q.type = "PINGRESP" <=> p.type = "PINGREQ"
            PROVE  Answered
        <5>1. toClient' = Append(toClient, q) BY <1>t, <2>2, <4>2
        <5> HIDE DEF p
        <5> QED BY <1>t, <4>2, <5>1, CountAppend
      <4> QED BY <2>1, <4>1, <4>2, RepliesShape
    <3>3. /\ Count(toBroker, "PINGREQ") \in Nat /\ Count(toBroker', "PINGREQ") \in Nat
          /\ Count(toClient, "PINGRESP") \in Nat
      <4>1. toBroker' \in Seq(Packet) BY <1>t, <2>1, <2>2, <2>4
      <4> QED BY <1>t, <4>1, CountType
    <3>4. Count(toBroker', "PINGREQ") + Count(toClient', "PINGRESP")
            = Count(toBroker, "PINGREQ") + Count(toClient, "PINGRESP")
      <4> HIDE DEF p
      <4> QED BY <3>1, <3>2, <3>3
    <3> QED BY <2>1, <2>4, <3>4 DEF PingInv, PingAccounting, Live, Count
  <2> QED BY <2>2, <2>3, <2>4
<1>2. ASSUME NEW t \in Topics, NEW q \in InboundQoS, BrokerPublishes(t, q) PROVE PingInv'
  <2> DEFINE m == Pkt("PUBLISH", IF q = 0 THEN 0 ELSE 1, q, t)
  <2>1. m \in Packet /\ m.type = "PUBLISH"
    <3>1. (IF q = 0 THEN 0 ELSE 1) \in Ids /\ q \in 0..128 BY ClientAssumption DEF Ids
    <3> QED BY <3>1, PktType DEF PacketTypes, Pkt
  <2>2. toClient' = Append(toClient, m) /\ UNCHANGED <<toBroker, link, call, ping_outstanding>>
    BY <1>2 DEF BrokerPublishes, client, frame
  <2> HIDE DEF m
  <2>3. Count(toClient', "PINGRESP") = Count(toClient, "PINGRESP")
    BY <1>t, <2>1, <2>2, CountAppend, CountType
  <2> QED BY <2>2, <2>3 DEF PingInv, PingAccounting, Live, Count
<1>3. CASE LinkChanges
  BY <1>3 DEF LinkChanges, client, frame, PingInv, PingAccounting, Live
<1>4. CASE TimerExpires
  BY <1>4, PingsUntouched DEF TimerExpires, PingInv, client, network, Live
<1>5. CASE PingTimerExpires
  BY <1>5, PingsUntouched DEF PingTimerExpires, PingInv, frame, network, Live
<1> QED BY <1>1, <1>2, <1>3, <1>4, <1>5 DEF Environment

\* To begin with no ping is under way.
LEMMA InitPings == Init => PingInv
BY DEF Init, PingInv, PingAccounting, Live, NoPacket, Plain, Pkt, CallTypes

\* Every step keeps the count of the pings.
LEMMA PingStep == TypeOK /\ PingInv /\ [Next]_vars => PingInv'
<1>1. PingInv /\ UNCHANGED vars => PingInv'
  BY DEF PingInv, PingAccounting, Live, vars, client, frame, network
<1> QED BY <1>1, ApplicationPings, ClientStepPings, EnvironmentPings DEF Next

\* ping_outstanding counts the pings under way, whatever the broker, the link and the clock do,
\* as long as the connection holds: never two of them, and never the flag without one.
THEOREM PingsAreAccounted == Spec => []PingAccounting
<1>1. PingInv => PingAccounting BY DEF PingInv
<1> QED BY <1>1, InitPings, PingStep, TypeCorrect, PTL DEF Spec

-----------------------------------------------------------------------------
(* Subscriptions.  While no request of the session was given up, the one request under way *)
(* is that of the call in progress, so the broker changes its filters for that call alone, *)
(* and a SUBACK that grants finds the filter served.                                       *)

\* A SUBACK answers the SUBSCRIBE of the call, and has been honoured if it grants.
Honoured(p) ==
  p.type = "SUBACK" => call.type = "SUBSCRIBE" /\ (p.val # REFUSED => call.topic \in subs)
OwnRequests ==
  \A i \in 1..Len(toBroker) : Req(toBroker[i]) => toBroker[i] = call \/ toBroker[i].type = "PUBREL"
AcksHonoured == Honoured(packet) /\ \A i \in 1..Len(toClient) : Honoured(toClient[i])
FiltersServed ==
  link # "down" =>
    \A t \in subscribed : t \in subs \/ (call.type = "UNSUBSCRIBE" /\ call.topic = t)
SubInv == unacked = {} => OwnRequests /\ AcksHonoured /\ FiltersServed

\* Nothing is under way.
Quiet ==
  /\ \A i \in 1..Len(toBroker) : ~Req(toBroker[i])
  /\ \A i \in 1..Len(toClient) : ~Ack(toClient[i])
  /\ ~Ack(packet)

\* While nothing was given up, nothing is under way where there is no fresh token.
LEMMA ClearIsQuiet ==
  ASSUME AckInv, AllClear, unacked = {}, packet = NoPacket PROVE Quiet
BY PseudoTokens DEF AllClear, BrokerClear, ClientClear, Fresh, Quiet

\* Where nothing is under way, only the filters count.
LEMMA QuietSubs == ASSUME Quiet', FiltersServed' PROVE SubInv'
BY DEF Quiet, SubInv, OwnRequests, AcksHonoured, Honoured, Ack

\* Between calls every filter is served.
LEMMA ApplicationSubs == TypeOK /\ AckInv /\ SubInv /\ Application => SubInv'
<1> SUFFICES ASSUME TypeOK, AckInv, SubInv, Application PROVE SubInv'
  OBVIOUS
<1>0. pc = "idle" BY DEF Application, OpenSession, CloseSession, MQTTConnect, MQTTYield,
        MQTTDisconnect, MQTTSubscribe, MQTTUnsubscribe, MQTTPublish, Idle
<1>1. AllClear /\ packet = NoPacket /\ call = NoPacket
  BY <1>0, PseudoTokens, TokensArePending DEF AckInv, EmptyHand, Pending
<1>2. CASE OpenSession \/ CloseSession
  <2>1. /\ toBroker' = <<>> /\ toClient' = <<>> /\ UNCHANGED packet
        /\ link' = "down" \/ subscribed' = {}
    BY <1>2 DEF OpenSession, CloseSession, NetworkConnect, NetworkDisconnect, frame
  <2>2. Quiet' BY <1>1, <2>1, PseudoTokens DEF Quiet
  <2>3. FiltersServed' BY <2>1 DEF FiltersServed
  <2> QED BY <2>2, <2>3, QuietSubs
<1>3. CASE ~OpenSession /\ ~CloseSession
  <2>1. UNCHANGED <<network, unacked, subscribed>> /\ packet' = NoPacket
    <3>1. CASE MQTTConnect BY <1>1, <3>1 DEF MQTTConnect, Begin, TooLong, Return
    <3>2. CASE MQTTYield \/ MQTTDisconnect
      BY <1>1, <3>2 DEF MQTTYield, MQTTDisconnect, Begin, history
    <3>3. ASSUME NEW t \in Topics, MQTTSubscribe(t) \/ MQTTUnsubscribe(t)
          PROVE  UNCHANGED <<network, unacked, subscribed>> /\ packet' = NoPacket
      BY <1>1, <3>3 DEF MQTTSubscribe, MQTTUnsubscribe, NotConnected, WithNextId, TooLong, Begin,
         Return, Request
    <3>4. ASSUME NEW t \in Topics, NEW q \in PublishQoS, MQTTPublish(t, q)
          PROVE  UNCHANGED <<network, unacked, subscribed>> /\ packet' = NoPacket
      BY <1>1, <3>4 DEF MQTTPublish, NotConnected, WithNextId, TooLong, Begin, Return, Request
    <3> QED BY <1>3, <3>1, <3>2, <3>3, <3>4 DEF Application
  <2>2. SUFFICES ASSUME unacked = {} PROVE SubInv' BY <2>1 DEF SubInv
  <2>3. Quiet BY <1>1, <2>2, ClearIsQuiet
  <2>4. Quiet' BY <1>1, <2>1, <2>3 DEF Quiet, network
  <2>5. FiltersServed'
    BY <1>1, <2>1, <2>2, PseudoTokens DEF SubInv, FiltersServed, network
  <2> QED BY <2>4, <2>5, QuietSubs
<1> QED BY <1>2, <1>3

\* A call that ends while nothing was given up leaves nothing under way.
LEMMA ReturnSubs ==
  ASSUME NEW code, Return(code), UNCHANGED <<link, toClient, subs, subscribed>>, SubInv,
         unacked = {}, call.type # "UNSUBSCRIBE", AllClear, BrokerClear', unacked' = {}
  PROVE  SubInv'
<1>1. packet' = NoPacket /\ call' = NoPacket BY DEF Return
<1>2. Quiet' BY <1>1, PseudoTokens DEF Quiet, AllClear, BrokerClear, ClientClear, Fresh
<1>3. FiltersServed' BY <1>1 DEF SubInv, FiltersServed
<1> QED BY <1>2, <1>3, QuietSubs

\* A call that gives up leaves its id, or was waiting for nothing.
LEMMA FailSubs ==
  ASSUME AckInv, SubInv, Fail, UNCHANGED <<link, toBroker, toClient, subs, subscribed>>
  PROVE  SubInv'
<1>1. CASE WaitsForAck(call)
  <2>1. unacked' # {} BY <1>1 DEF Fail
  <2> QED BY <2>1 DEF SubInv
<1>2. CASE ~WaitsForAck(call) /\ unacked = {}
  <2>1. AllClear BY <1>2, TokensArePending DEF Pending
  <2>2. unacked' = {} /\ Return(FAILURE) /\ call.type # "UNSUBSCRIBE"
    BY <1>2 DEF Fail, WaitsForAck, Awaited
  <2>3. BrokerClear' BY <1>2, <2>1, <2>2 DEF AllClear, BrokerClear, Fresh
  <2> QED BY <1>2, <2>1, <2>2, <2>3, ReturnSubs
<1>3. CASE ~WaitsForAck(call) /\ unacked # {}
  BY <1>3 DEF Fail, SubInv
<1> QED BY <1>1, <1>2, <1>3

\* A step that leaves the requests and the filters as they are.
LEMMA StillSubs ==
  ASSUME SubInv, UNCHANGED <<toBroker, toClient, call, subs, subscribed, unacked>>,
         packet' = packet \/ packet'.type # "SUBACK", link = "down" => link' = "down"
  PROVE  SubInv'
BY DEF SubInv, OwnRequests, AcksHonoured, Honoured, FiltersServed

\* Of what a call writes once it waits, only a PUBREL asks for an answer.
LEMMA WritesSubs ==
  ASSUME TypeOK, SubInv, NEW p \in Packet, Req(p) => p.type = "PUBREL", Written(p) \/ NotWritten,
         UNCHANGED <<link, toClient, call, subs, subscribed, unacked>>,
         packet' = packet \/ packet'.type # "SUBACK"
  PROVE  SubInv'
<1>1. CASE toBroker' = toBroker BY <1>1, StillSubs
<1>2. CASE toBroker' = Append(toBroker, p)
  <2>1. toBroker \in Seq(Packet) BY DEF TypeOK, NetworkType
  <2>2. OwnRequests => OwnRequests' BY <1>2, <2>1, AppendFacts DEF OwnRequests
  <2>3. AcksHonoured => AcksHonoured' BY DEF AcksHonoured, Honoured
  <2>4. FiltersServed => FiltersServed' BY DEF FiltersServed
  <2> QED BY <2>2, <2>3, <2>4 DEF SubInv
<1> QED BY <1>1, <1>2 DEF Written, NotWritten

\* sendPacket: the one request under way is the call's.
LEMMA SendPacketSubs == TypeOK /\ AckInv /\ SubInv /\ SendPacket => SubInv'
<1> SUFFICES ASSUME TypeOK, AckInv, SubInv, SendPacket PROVE SubInv'
  OBVIOUS
<1>0. /\ AllClear /\ packet = NoPacket /\ call \in Packet /\ toBroker \in Seq(Packet)
      /\ call.type # "PUBREL"
      /\ UNCHANGED <<link, toClient, subs, subscribed>>
  BY TokensArePending DEF SendPacket, AckInv, EmptyHand, Pending, TypeOK, FrameType, NetworkType
<1>1. CASE NotSent /\ Fail BY <1>0, <1>1, FailSubs DEF NotSent, NotWritten
<1>2. CASE Sent(call) /\ ~WaitsForAck(call) /\ Return(SUCCESS) /\ UNCHANGED unacked
  <2>1. ~Req(call) /\ call.type # "UNSUBSCRIBE" BY <1>0, <1>2 DEF Req, WaitsForAck, Awaited
  <2>2. BrokerClear' BY <1>0, <1>2, <2>1, WritesNoRequest DEF AllClear, Sent
  <2> QED BY <1>0, <1>2, <2>1, <2>2, ReturnSubs DEF SubInv
<1>3. CASE Sent(call) /\ WaitsForAck(call) /\ UNCHANGED <<call, packet, unacked>>
  <2>1. SUFFICES ASSUME unacked = {} PROVE SubInv' BY <1>3 DEF SubInv
  <2>2. Quiet BY <1>0, <2>1, ClearIsQuiet
  <2>3. \A i \in 1..Len(toBroker') : Req(toBroker'[i]) => toBroker'[i] = call
    <3>1. CASE toBroker' = toBroker BY <2>2, <3>1 DEF Quiet
    <3>2. CASE toBroker' = Append(toBroker, call) BY <1>0, <2>2, <3>2, AppendFacts DEF Quiet
    <3> QED BY <1>3, <3>1, <3>2 DEF Sent, Written
  <2>4. OwnRequests' BY <1>3, <2>3 DEF OwnRequests
  <2>5. AcksHonoured' BY <1>0, <1>3, <2>1 DEF SubInv, AcksHonoured, Honoured
  <2>6. FiltersServed' BY <1>0, <1>3, <2>1 DEF SubInv, FiltersServed
  <2> QED BY <2>4, <2>5, <2>6 DEF SubInv
<1> QED BY <1>1, <1>2, <1>3 DEF SendPacket

\* A SUBACK comes with its filter served, and is accepted by the call that asked.
LEMMA AcknowledgedSubs == TypeOK /\ AckInv /\ SubInv /\ Acknowledged => SubInv'
<1> SUFFICES ASSUME TypeOK, AckInv, SubInv, Acknowledged, unacked' = {} PROVE SubInv'
  BY DEF SubInv
<1>0. /\ pc = "cycled" /\ packet.type = Awaited(call) /\ WaitsForAck(call)
      /\ UNCHANGED <<link, toBroker, toClient, subs>>
      /\ packet.id = call.id /\ unacked = {}
      /\ \E code : Return(code)
  BY DEF Acknowledged, GotAck, Install, network
<1>1. Awaited(call) \in {"CONNACK", "SUBACK", "UNSUBACK", "PUBACK", "PUBCOMP"}
  BY <1>0 DEF WaitsForAck, Awaited
<1>2. BrokerClear /\ ClientClear
  BY <1>0, <1>1 DEF AckInv, HeldToken, HandClear, Held, Ack, Fresh
<1>3. packet' = NoPacket /\ call' = NoPacket BY <1>0 DEF Return
<1>4. Quiet' BY <1>0, <1>2, <1>3, PseudoTokens DEF Quiet, BrokerClear, ClientClear, Fresh
<1>5. FiltersServed'
  <2>1. CASE call.type = "SUBSCRIBE"
    <3>1. rc' = SUCCESS => packet.val # REFUSED
      BY <2>1 DEF Acknowledged, Install, Return, SUCCESS, REFUSED
    <3>2. packet.val # REFUSED => call.topic \in subs
      BY <1>0, <2>1 DEF SubInv, AcksHonoured, Honoured, Awaited
    <3>3. \/ subscribed' \subseteq subscribed
          \/ rc' = SUCCESS /\ subscribed' = subscribed \cup {call.topic}
      BY <2>1 DEF Acknowledged
    <3> QED BY <1>0, <1>3, <2>1, <3>1, <3>2, <3>3 DEF SubInv, FiltersServed
  <2>2. CASE call.type = "UNSUBSCRIBE"
    BY <1>0, <2>2 DEF Acknowledged, SubInv, FiltersServed
  <2>3. CASE call.type \notin {"SUBSCRIBE", "UNSUBSCRIBE"}
    <3>1. subscribed' = subscribed BY <2>3 DEF Acknowledged
    <3> QED BY <1>0, <2>3, <3>1 DEF SubInv, FiltersServed
  <2> QED BY <2>1, <2>2, <2>3
<1> QED BY <1>4, <1>5, QuietSubs

\* The steps of the call in progress.
LEMMA ClientStepSubs == TypeOK /\ AckInv /\ SubInv /\ ClientStep => SubInv'
<1> SUFFICES ASSUME TypeOK, AckInv, SubInv, ClientStep PROVE SubInv'
  OBVIOUS
<1>p. NoPacket.type # "SUBACK" /\ ReadFailed.type # "SUBACK" BY PseudoTokens
<1>q. ASSUME call = NoPacket, \E code : Return(code),
             UNCHANGED <<link, toBroker, toClient, subs, subscribed, unacked>>
      PROVE  SubInv'
  <2>1. AllClear BY <1>q, PseudoTokens, TokensArePending DEF Pending
  <2>2. BrokerClear' BY <1>q, <2>1 DEF AllClear, BrokerClear, Fresh
  <2> QED BY <1>q, <2>1, <2>2, PseudoTokens, ReturnSubs DEF SubInv
<1>1. CASE SendPacket BY <1>1, SendPacketSubs
<1>2. CASE CheckTimer
  <2>1. CASE /\ ~timer /\ pc' = "read"
             /\ UNCHANGED <<call, packet, handled, timer, rc, taken, unacked>>
    BY <1>2, <2>1, StillSubs DEF CheckTimer, network
  <2>2. CASE Fail BY <1>2, <2>2, FailSubs DEF CheckTimer, network
  <2>3. CASE call = NoPacket /\ Return(SUCCESS) /\ UNCHANGED unacked
    BY <1>2, <1>q, <2>3 DEF CheckTimer, network
  <2> QED BY <1>2, <2>1, <2>2, <2>3 DEF CheckTimer
<1>3. CASE ReadPacket
  <2>1. /\ toClient \in Seq(Packet) /\ toClient # <<>>
        /\ packet' = Head(toClient) /\ toClient' = Tail(toClient)
        /\ UNCHANGED <<link, toBroker, call, subs, subscribed, unacked>>
    BY <1>3 DEF ReadPacket, TypeOK, NetworkType, history
  <2>2. AcksHonoured => AcksHonoured' BY <2>1, TailFacts DEF AcksHonoured, Honoured
  <2>3. (OwnRequests => OwnRequests') /\ (FiltersServed => FiltersServed')
    BY <2>1 DEF OwnRequests, FiltersServed
  <2> QED BY <2>1, <2>2, <2>3 DEF SubInv
<1>4. CASE ReadTimeout \/ ReadCloseNotify \/ ReadError
  BY <1>4, <1>p, StillSubs
     DEF ReadTimeout, ReadCloseNotify, ReadError, ReadsNoPacket, history
<1>5. CASE SendAnswer
  <2>1. Answer(packet) \in Packet BY AnswerType DEF TypeOK, FrameType
  <2>2. Req(Answer(packet)) => Answer(packet).type = "PUBREL"
    BY DEF Answer, Req, WaitsForAck, Awaited, NoPacket, Plain, Pkt
  <2>3. Written(Answer(packet)) \/ NotWritten BY <1>5 DEF SendAnswer, Sent, NotSent
  <2> QED BY <1>5, <1>p, <2>1, <2>2, <2>3, WritesSubs DEF SendAnswer, history
<1>6. CASE keepalive
  <2>1. Plain("PINGREQ", 0) \in Packet BY PlainType, ClientAssumption DEF Ids, PacketTypes
  <2>2. ~Req(Plain("PINGREQ", 0)) BY DEF Req, WaitsForAck, Awaited, Plain, Pkt
  <2> QED BY <1>6, <2>1, <2>2, WritesSubs DEF keepalive, history
<1>7. CASE Acknowledged BY <1>7, AcknowledgedSubs
<1>8. CASE Again BY <1>8, <1>p, StillSubs DEF Again, network, history
<1>9. CASE YieldFails BY <1>9, <1>q DEF YieldFails, network
<1> QED BY <1>1, <1>2, <1>3, <1>4, <1>5, <1>6, <1>7, <1>8, <1>9 DEF ClientStep

\* The broker serves a filter before it says so, and while nothing was given up it hears of
\* filters from the call in progress only.
LEMMA BrokerReceivesSubs == TypeOK /\ SubInv /\ BrokerReceives => SubInv'
<1> SUFFICES ASSUME TypeOK, SubInv, BrokerReceives, unacked = {} PROVE SubInv'
  BY DEF SubInv, BrokerReceives
<1> DEFINE p == toBroker[1]
<1>0. /\ toBroker \in Seq(Packet) /\ toBroker # <<>> /\ toClient \in Seq(Packet)
      /\ link = "up" /\ UNCHANGED <<call, packet, unacked, subscribed>>
      /\ Head(toBroker) = p /\ p \in Packet /\ 1 \in 1..Len(toBroker)
  BY TailFacts DEF BrokerReceives, TypeOK, NetworkType, frame
<1>1. PICK r \in Replies(p) :
        /\ toClient' = toClient \o r
        /\ toBroker' \in {Tail(toBroker), <<>>}
        /\ subs' = CASE p.type = "SUBSCRIBE" /\ r[1].val # REFUSED -> subs \cup {p.topic}
                     [] p.type = "UNSUBSCRIBE" -> subs \ {p.topic}
                     [] OTHER -> subs
  BY <1>0 DEF BrokerReceives
<1>2. p.type \in {"SUBSCRIBE", "UNSUBSCRIBE"} => p = call
  BY <1>0 DEF SubInv, OwnRequests, Req, WaitsForAck, Awaited
<1> HIDE DEF p
<1>3. OwnRequests'
  <2>1. CASE toBroker' = <<>> BY <2>1 DEF OwnRequests
  <2>2. CASE toBroker' = Tail(toBroker)
    BY <1>0, <2>2, TailFacts DEF SubInv, OwnRequests
  <2> QED BY <1>1, <2>1, <2>2
<1>4. ASSUME NEW q, Honoured(q), q.type = "SUBACK"
      PROVE  call.type = "SUBSCRIBE" /\ (q.val # REFUSED => call.topic \in subs')
  <2>1. call.type = "SUBSCRIBE" /\ (q.val # REFUSED => call.topic \in subs)
    BY <1>4 DEF Honoured
  <2>2. p.type # "UNSUBSCRIBE" BY <1>2, <2>1
  <2>3. subs \subseteq subs' BY <1>1, <2>2
  <2> QED BY <2>1, <2>3
<1>5. AcksHonoured'
  <2>0. AcksHonoured BY DEF SubInv
  <2>1. Honoured(packet)' BY <1>0, <1>4, <2>0 DEF AcksHonoured, Honoured
  <2>2. \A i \in 1..Len(toClient) : toClient[i].type = "SUBACK" =>
          call.type = "SUBSCRIBE" /\ (toClient[i].val # REFUSED => call.topic \in subs')
    BY <1>4, <2>0 DEF AcksHonoured
  <2>3. CASE r = <<>>
    <3>1. toClient' = toClient BY <1>0, <1>1, <2>3
    <3> QED BY <1>0, <2>1, <2>2, <3>1 DEF AcksHonoured, Honoured
  <2>4. ASSUME NEW q \in Packet, r = <<q>>, q.type = "SUBACK" <=> p.type = "SUBSCRIBE"
        PROVE  AcksHonoured'
    <3>1. toClient' = Append(toClient, q) BY <1>0, <1>1, <2>4
    <3>2. r[1] = q BY <2>4
    <3>3. q.type = "SUBACK" => call.type = "SUBSCRIBE" /\ (q.val # REFUSED => call.topic \in subs')
      BY <1>1, <1>2, <2>4, <3>2
    <3>4. \A i \in 1..Len(toClient') :
            toClient'[i] = q \/ (i \in 1..Len(toClient) /\ toClient'[i] = toClient[i])
      BY <1>0, <2>4, <3>1, AppendFacts
    <3> QED BY <1>0, <2>1, <2>2, <3>3, <3>4 DEF AcksHonoured, Honoured
  <2> QED BY <1>0, <2>3, <2>4, RepliesShape
<1>6. FiltersServed'
  <2>1. \A t \in subscribed : t \in subs \/ (call.type = "UNSUBSCRIBE" /\ call.topic = t)
    BY <1>0 DEF SubInv, FiltersServed
  <2>2. CASE p.type = "UNSUBSCRIBE"
    <3>1. subs' = subs \ {call.topic} /\ call.type = "UNSUBSCRIBE" BY <1>1, <1>2, <2>2
    <3> QED BY <1>0, <2>1, <3>1 DEF FiltersServed
  <2>3. CASE p.type # "UNSUBSCRIBE"
    <3>1. subs \subseteq subs' BY <1>1, <2>3
    <3> QED BY <1>0, <2>1, <3>1 DEF FiltersServed
  <2> QED BY <2>2, <2>3
<1> QED BY <1>3, <1>5, <1>6 DEF SubInv

\* The surroundings.
LEMMA EnvironmentSubs == TypeOK /\ SubInv /\ Environment => SubInv'
<1> SUFFICES ASSUME TypeOK, SubInv, Environment PROVE SubInv'
  OBVIOUS
<1>1. CASE BrokerReceives BY <1>1, BrokerReceivesSubs
<1>2. ASSUME NEW t \in Topics, NEW q \in InboundQoS, BrokerPublishes(t, q) PROVE SubInv'
  <2> DEFINE m == Pkt("PUBLISH", IF q = 0 THEN 0 ELSE 1, q, t)
  <2>1. m \in Packet /\ m.type = "PUBLISH"
    <3>1. (IF q = 0 THEN 0 ELSE 1) \in Ids /\ q \in 0..128 BY ClientAssumption DEF Ids
    <3> QED BY <3>1, PktType DEF PacketTypes, Pkt
  <2>2. /\ toClient \in Seq(Packet) /\ toClient' = Append(toClient, m)
        /\ UNCHANGED <<link, toBroker, call, packet, subs, subscribed, unacked>>
    BY <1>2 DEF BrokerPublishes, TypeOK, NetworkType, frame, history
  <2> HIDE DEF m
  <2>3. \A i \in 1..Len(toClient') :
          toClient'[i] = m \/ (i \in 1..Len(toClient) /\ toClient'[i] = toClient[i])
    BY <2>1, <2>2, AppendFacts
  <2>4. AcksHonoured => AcksHonoured' BY <2>1, <2>2, <2>3 DEF AcksHonoured, Honoured
  <2>5. (OwnRequests => OwnRequests') /\ (FiltersServed => FiltersServed')
    BY <2>2 DEF OwnRequests, FiltersServed
  <2> QED BY <2>2, <2>4, <2>5 DEF SubInv
<1>3. CASE LinkChanges
  <2>1. /\ toBroker' = <<>> \/ toBroker' = toBroker
        /\ UNCHANGED <<toClient, call, packet, subs, subscribed, unacked>> /\ link # "down"
    BY <1>3 DEF LinkChanges, frame, history
  <2>2. OwnRequests => OwnRequests' BY <2>1 DEF OwnRequests
  <2>3. (AcksHonoured => AcksHonoured') /\ (FiltersServed => FiltersServed')
    BY <2>1 DEF AcksHonoured, Honoured, FiltersServed
  <2> QED BY <2>1, <2>2, <2>3 DEF SubInv
<1>4. CASE TimerExpires \/ PingTimerExpires
  BY <1>4, StillSubs DEF TimerExpires, PingTimerExpires, frame, network, history
<1> QED BY <1>1, <1>2, <1>3, <1>4 DEF Environment

\* To begin with there are no filters.
LEMMA InitSubs == Init => SubInv
<1> SUFFICES ASSUME Init PROVE SubInv
  OBVIOUS
<1>1. toBroker = <<>> /\ toClient = <<>> /\ packet = NoPacket /\ subscribed = {} BY DEF Init
<1> QED BY <1>1, PseudoTokens DEF SubInv, OwnRequests, AcksHonoured, Honoured, FiltersServed

\* Every step keeps track of the subscriptions.
LEMMA SubStep == TypeOK /\ AckInv /\ SubInv /\ [Next]_vars => SubInv'
<1>1. SubInv /\ UNCHANGED vars => SubInv'
  BY DEF SubInv, OwnRequests, AcksHonoured, Honoured, FiltersServed, vars, frame, network, history
<1> QED BY <1>1, ApplicationSubs, ClientStepSubs, EnvironmentSubs DEF Next

\* The inductive invariant of the subscriptions holds, whatever the constants.
THEOREM SubscriptionsAreTracked == Spec => []SubInv
BY InitSubs, SubStep, TypeCorrect, AcksAreTracked, PTL DEF Spec

\* Between the calls of a session in which every request got its own acknowledgement, what
\* MQTTSubscribe reported is what the broker serves.
THEOREM SubscriptionsStayAgreed == Spec => []SubscriptionsAgree
<1>1. AckInv /\ SubInv => SubscriptionsAgree
  BY PseudoTokens DEF AckInv, EmptyHand, SubInv, FiltersServed, SubscriptionsAgree, Live
<1> QED BY <1>1, AcksAreTracked, SubscriptionsAreTracked, PTL

-----------------------------------------------------------------------------
(* Handlers. *)

\* There is a first free slot, if there is a free one.
LEMMA FirstFreeIsFree == FreeSlots # {} => FirstFree \in FreeSlots
<1> SUFFICES ASSUME FreeSlots # {} PROVE FirstFree \in FreeSlots
  OBVIOUS
<1>1. FreeSlots \in SUBSET Nat BY ClientAssumption DEF FreeSlots
<1>2. \E i \in FreeSlots : \A j \in FreeSlots : i <= j BY <1>1, LeastElement
<1> QED BY <1>2 DEF FirstFree

\* Installing a handler takes a free slot, for that topic, and disturbs no other.
LEMMA InstallInFirstFree ==
  ASSUME ClientType, FreeSlots # {}, NEW t \in Topics,
         messageHandlers' = [messageHandlers EXCEPT ![FirstFree] = t]
  PROVE  /\ deliverMessage(t)'
         /\ \A u \in Topics : deliverMessage(u) => deliverMessage(u)'
<1>1. FirstFree \in 1..MaxHandlers /\ messageHandlers[FirstFree] = NoTopic
  BY FirstFreeIsFree DEF FreeSlots
<1>2. \A i \in 1..MaxHandlers :
        messageHandlers'[i] = IF i = FirstFree THEN t ELSE messageHandlers[i]
  BY <1>1 DEF ClientType
<1> HIDE DEF FirstFree
<1>3. deliverMessage(t)' BY <1>1, <1>2 DEF deliverMessage
<1>4. ASSUME NEW u \in Topics, deliverMessage(u) PROVE deliverMessage(u)'
  <2>1. PICK i \in 1..MaxHandlers : messageHandlers[i] = u BY <1>4 DEF deliverMessage
  <2>2. i # FirstFree BY <1>1, <2>1, ClientAssumption
  <2> QED BY <1>2, <2>1, <2>2 DEF deliverMessage
<1> QED BY <1>3, <1>4

\* Every filter has its slot, unless there are none left, and a message in hand has been
\* looked up in the slots.
SlotsInv ==
  /\ \A t \in subscribed : deliverMessage(t) \/ FreeSlots = {}
  /\ packet.type = "PUBLISH" => (handled <=> deliverMessage(packet.topic))

\* A step that leaves slots and filters alone.
LEMMA StillSlots ==
  ASSUME SlotsInv, UNCHANGED <<messageHandlers, subscribed>>,
         UNCHANGED <<packet, handled>> \/ packet'.type # "PUBLISH"
  PROVE  SlotsInv'
BY DEF SlotsInv, deliverMessage, FreeSlots

\* To begin with there is neither a filter nor a message.
LEMMA InitSlots == Init => SlotsInv
<1>1. NoPacket.type # "PUBLISH" BY PseudoTokens
<1> QED BY <1>1 DEF Init, SlotsInv

\* Every step keeps the slots.
LEMMA SlotsStep == TypeOK /\ AckInv /\ SlotsInv /\ [Next]_vars => SlotsInv'
<1> SUFFICES ASSUME TypeOK, AckInv, SlotsInv, [Next]_vars PROVE SlotsInv'
  OBVIOUS
<1>p. NoPacket.type # "PUBLISH" /\ ReadFailed.type # "PUBLISH" BY PseudoTokens
<1>i. pc = "idle" => packet = NoPacket BY DEF AckInv, EmptyHand
<1>r. \A code : Return(code) => packet'.type # "PUBLISH" BY <1>p DEF Return
<1>1. CASE OpenSession
  <2>1. subscribed' = {} /\ packet' = NoPacket
    BY <1>1, <1>i DEF OpenSession, NetworkConnect, frame
  <2> QED BY <1>p, <2>1 DEF SlotsInv
<1>2. CASE CloseSession BY <1>2, StillSlots DEF CloseSession, client, frame, history
<1>3. CASE MQTTConnect
  BY <1>3, <1>r, StillSlots DEF MQTTConnect, Begin, TooLong
<1>4. CASE MQTTYield \/ MQTTDisconnect
  BY <1>4, StillSlots DEF MQTTYield, MQTTDisconnect, Begin, client, history
<1>5. ASSUME NEW t \in Topics, MQTTSubscribe(t) \/ MQTTUnsubscribe(t) PROVE SlotsInv'
  BY <1>5, <1>r, StillSlots
     DEF MQTTSubscribe, MQTTUnsubscribe, NotConnected, WithNextId, TooLong, Begin, Request
<1>6. ASSUME NEW t \in Topics, NEW q \in PublishQoS, MQTTPublish(t, q) PROVE SlotsInv'
  BY <1>6, <1>r, StillSlots DEF MQTTPublish, NotConnected, WithNextId, TooLong, Begin, Request
<1>7. CASE SendPacket BY <1>7, <1>r, StillSlots DEF SendPacket, Fail
<1>8. CASE CheckTimer BY <1>8, <1>r, StillSlots DEF CheckTimer, Fail, client
<1>9. CASE ReadPacket
  <2>1. /\ packet' = Head(toClient) /\ UNCHANGED <<messageHandlers, subscribed>>
        /\ handled' = (packet'.type = "PUBLISH" /\ deliverMessage(packet'.topic))
    BY <1>9 DEF ReadPacket, history
  <2>2. packet'.type = "PUBLISH" =>
          (handled' <=> \E i \in 1..MaxHandlers : messageHandlers'[i] = packet'.topic)
    BY <2>1 DEF deliverMessage
  <2>3. \A t \in subscribed' : deliverMessage(t)' \/ FreeSlots' = {}
    BY <2>1 DEF SlotsInv, deliverMessage, FreeSlots
  <2> QED BY <2>2, <2>3 DEF SlotsInv, deliverMessage
<1>10. CASE ReadTimeout \/ ReadCloseNotify \/ ReadError
  BY <1>10, <1>p, StillSlots
     DEF ReadTimeout, ReadCloseNotify, ReadError, ReadsNoPacket, client, history
<1>11. CASE SendAnswer BY <1>11, <1>p, StillSlots DEF SendAnswer, history
<1>12. CASE keepalive BY <1>12, StillSlots DEF keepalive, history
<1>13. CASE Acknowledged
  <2>1. packet'.type # "PUBLISH" BY <1>13, <1>r DEF Acknowledged, Install
  <2>2. CASE call.type # "SUBSCRIBE"
    <3>1. messageHandlers' = messageHandlers /\ subscribed' \subseteq subscribed
      BY <1>13, <2>2 DEF Acknowledged
    <3> QED BY <2>1, <3>1 DEF SlotsInv, deliverMessage, FreeSlots
  <2>3. CASE call.type = "SUBSCRIBE"
    <3>1. call.topic \in Topics /\ subscribed \subseteq Topics
      BY <2>3 DEF TypeOK, FrameType, NetworkType, Packet
    <3>2. subscribed' \subseteq subscribed \cup {call.topic}
      BY <1>13, <2>3 DEF Acknowledged
    <3>3. Install(call.topic, packet.val) BY <1>13, <2>3 DEF Acknowledged
    <3>4. CASE /\ FreeSlots # {}
               /\ messageHandlers' = [messageHandlers EXCEPT ![FirstFree] = call.topic]
      BY <2>1, <3>1, <3>2, <3>4, InstallInFirstFree DEF TypeOK, SlotsInv
    <3>5. CASE FreeSlots = {} /\ UNCHANGED messageHandlers
      BY <2>1, <3>5 DEF SlotsInv, FreeSlots
    <3>6. CASE packet.val = REFUSED /\ Return(packet.val) /\ UNCHANGED messageHandlers
      <4>1. rc' # SUCCESS BY <3>6 DEF Return, SUCCESS, REFUSED
      <4>2. subscribed' \subseteq subscribed BY <1>13, <2>3, <4>1 DEF Acknowledged
      <4> QED BY <2>1, <3>6, <4>2 DEF SlotsInv, deliverMessage, FreeSlots
    <3> QED BY <3>3, <3>4, <3>5, <3>6 DEF Install
  <2> QED BY <2>2, <2>3
<1>14. CASE Again BY <1>14, <1>p, StillSlots DEF Again, client, history
<1>15. CASE YieldFails BY <1>15, <1>r, StillSlots DEF YieldFails, client
<1>16. CASE Environment
  BY <1>16, StillSlots DEF Environment, BrokerReceives, BrokerPublishes, LinkChanges,
     TimerExpires, PingTimerExpires, client, frame, history
<1>17. CASE UNCHANGED vars BY <1>17, StillSlots DEF vars, client, frame, history
<1> QED BY <1>1, <1>2, <1>3, <1>4, <1>5, <1>6, <1>7, <1>8, <1>9, <1>10, <1>11, <1>12, <1>13,
           <1>14, <1>15, <1>16, <1>17 DEF Next, ClientStep, Application

\* No message for a filter that MQTTSubscribe has reported gets past its handler, unless all
\* the slots were taken, for any number of slots, filters and messages.
THEOREM MessagesReachHandlers == Spec => []NoMessageMissed
<1>1. SlotsInv => NoMessageMissed BY DEF SlotsInv, NoMessageMissed
<1> QED BY <1>1, InitSlots, SlotsStep, TypeCorrect, AcksAreTracked, PTL DEF Spec

-----------------------------------------------------------------------------
(* The task's steps are steps of the client: the application's, a step of a call, or one  *)
(* of the surroundings.  Two are not: the task, once NetworkConnect has failed, still     *)
(* calls MQTTDisconnect, and a lost Wi-Fi silences the link.                              *)

\* Every step of the task is a step of the client, or one of those two.
LEMMA TaskStepsTheClient ==
  ASSUME [TaskNext]_allVars
  PROVE  [Next]_vars \/ DisconnectsNothing \/ WifiDisconnects
<1> USE DEF Next
<1>1. CASE WifiWait \/ OpenFails \/ Connected \/ Subscribed \/ Published \/ Yielded \/ Crashes
           \/ WifiConnects \/ UNCHANGED allVars
  BY <1>1 DEF WifiWait, OpenFails, Connected, Subscribed, Yielded, ExitUnless, Published, Crashes,
     WifiConnects, allVars
<1>2. CASE Opens BY <1>2 DEF Opens, Application
<1>3. CASE Connects \/ Yields \/ Disconnects
  BY <1>3 DEF Connects, Yields, Disconnects, Starts, Application
<1>4. CASE Subscribes
  BY <1>4, TaskAssumption DEF Subscribes, Starts, Application
<1>5. CASE Publishes
  BY <1>5, TaskAssumption DEF Publishes, Starts, Application
<1>6. CASE Restarts BY <1>6 DEF Restarts, Application
<1>7. CASE ClientRuns BY <1>7 DEF ClientRuns
<1>8. CASE BrokerTakes BY <1>8 DEF BrokerTakes, Environment
<1>9. CASE Surroundings BY <1>9 DEF Surroundings, Environment
<1> QED BY <1>1, <1>2, <1>3, <1>4, <1>5, <1>6, <1>7, <1>8, <1>9 DEF TaskNext, TaskStep

\* What the client's own invariants need.
ClientInv == TypeOK /\ AckInv /\ SubInv /\ PingInv /\ SlotsInv

\* They hold under the task too.
THEOREM ClientUnderTask == TaskSpec => []ClientInv
<1>1. TaskInit => ClientInv
  <2> SUFFICES ASSUME Init PROVE ClientInv
    BY DEF TaskInit
  <2> QED BY InitType, InitAcks, InitPings, InitSubs, InitSlots DEF ClientInv
<1>2. ClientInv /\ [TaskNext]_allVars => ClientInv'
  <2> SUFFICES ASSUME ClientInv, [TaskNext]_allVars PROVE ClientInv'
    OBVIOUS
  <2> USE DEF ClientInv
  <2>1. CASE [Next]_vars BY <2>1, TypeStep, AckStep, PingStep, SubStep, SlotsStep
  <2>2. CASE DisconnectsNothing
    <3>1. /\ UNCHANGED <<network, history, next_packetid, ping_outstanding, messageHandlers,
                         ping_timer, pc, call, packet, handled, timer>>
          /\ isconnected' = FALSE /\ rc' = -1
      BY <2>2 DEF DisconnectsNothing, FAILURE
    <3>2. TypeOK'
      <4>1. ClientType' BY <3>1 DEF TypeOK, ClientType
      <4>2. -1 \in -1..128 OBVIOUS
      <4>3. FrameType' BY <3>1, <4>2 DEF TypeOK, FrameType, history
      <4>4. NetworkType' BY <3>1 DEF TypeOK, NetworkType, network, history
      <4> QED BY <4>1, <4>3, <4>4 DEF TypeOK
    <3>3. AckInv'
      BY <3>1 DEF AckInv, BrokerTokens, ClientTokens, HeldToken, EmptyHand, BrokerClear,
         ClientClear, HandClear, Held, Pending, Fresh, network, history
    <3>4. PingInv' BY <3>1, PingsUntouched DEF PingInv, Live, network
    <3>5. SubInv' BY <3>1, StillSubs DEF network, history
    <3>6. SlotsInv' BY <3>1, StillSlots DEF history
    <3> QED BY <3>2, <3>3, <3>4, <3>5, <3>6
  <2>3. CASE WifiDisconnects
    <3>1. /\ UNCHANGED <<client, frame, toBroker, toClient, subs, history>>
          /\ link' = IF link = "up" THEN "silent" ELSE link
      BY <2>3 DEF WifiDisconnects
    <3>2. TypeOK' BY <3>1 DEF TypeOK, ClientType, FrameType, NetworkType, client, frame, history
    <3>3. AckInv'
      BY <3>1 DEF AckInv, BrokerTokens, ClientTokens, HeldToken, EmptyHand, BrokerClear,
         ClientClear, HandClear, Held, Pending, Fresh, frame, history
    <3>4. PingInv'
      <4>1. Live' => Live BY <3>1 DEF Live
      <4> QED BY <3>1, <4>1, PingsUntouched DEF PingInv, client, frame
    <3>5. SubInv' BY <3>1, StillSubs DEF frame, history
    <3>6. SlotsInv' BY <3>1, StillSlots DEF client, frame, history
    <3> QED BY <3>2, <3>3, <3>4, <3>5, <3>6
  <2> QED BY <2>1, <2>2, <2>3, TaskStepsTheClient
<1> QED BY <1>1, <1>2, PTL DEF TaskSpec

-----------------------------------------------------------------------------
(* The task and its calls. *)

\* What a call's own step may do: it leaves its request and the slots alone until it returns,
\* it succeeds without its acknowledgement only where none is awaited, and it writes its
\* request, an acknowledgement or a ping.
LEMMA ClientStepShape ==
  ASSUME TypeOK, ClientStep
  PROVE  /\ pc # "idle" /\ UNCHANGED subs
         /\ pc' # "idle" => UNCHANGED <<call, unacked>>
         /\ \/ Acknowledged
            \/ /\ UNCHANGED messageHandlers
               /\ isconnected' = (isconnected /\ ~(pc = "send" /\ call.type = "DISCONNECT"))
               /\ pc' = "idle" => rc' = FAILURE \/ ~WaitsForAck(call)
         /\ \/ toBroker' = toBroker
            \/ \E p \in Packet :
                 /\ p = call \/ p.type \in {"PUBACK", "PUBREC", "PUBREL", "NONE", "PINGREQ"}
                 /\ toBroker' = Append(toBroker, p)
<1>t. call \in Packet /\ packet \in Packet /\ isconnected \in BOOLEAN
  BY DEF TypeOK, FrameType, ClientType
<1>1. CASE SendPacket
  BY <1>1, <1>t DEF SendPacket, Sent, NotSent, Written, NotWritten, Fail, Return
<1>2. CASE CheckTimer
  BY <1>2, <1>t, PseudoTokens DEF CheckTimer, Fail, Return, client, network
<1>3. CASE ReadPacket BY <1>3, <1>t DEF ReadPacket, history
<1>4. CASE ReadTimeout \/ ReadCloseNotify \/ ReadError
  BY <1>4, <1>t DEF ReadTimeout, ReadCloseNotify, ReadError, ReadsNoPacket, client, history
<1>5. CASE SendAnswer
  <2>1. Answer(packet) \in Packet BY <1>t, AnswerType
  <2>2. Answer(packet).type \in {"PUBACK", "PUBREC", "PUBREL", "NONE"}
    BY DEF Answer, NoPacket, Plain, Pkt
  <2>3. toBroker' = toBroker \/ toBroker' = Append(toBroker, Answer(packet))
    BY <1>5 DEF SendAnswer, Sent, NotSent, Written, NotWritten
  <2> QED BY <1>5, <1>t, <2>1, <2>2, <2>3 DEF SendAnswer, history
<1>6. CASE keepalive
  <2>1. Plain("PINGREQ", 0) \in Packet /\ Plain("PINGREQ", 0).type = "PINGREQ"
    BY PlainType, ClientAssumption DEF Ids, PacketTypes, Plain, Pkt
  <2>2. toBroker' = toBroker \/ toBroker' = Append(toBroker, Plain("PINGREQ", 0))
    BY <1>6 DEF keepalive, Written, NotWritten
  <2> QED BY <1>6, <1>t, <2>1, <2>2 DEF keepalive, history
<1>7. CASE Acknowledged
  <2>1. \E code : Return(code) BY <1>7 DEF Acknowledged, Install
  <2> QED BY <1>7, <2>1 DEF Acknowledged, Return, network
<1>8. CASE Again BY <1>8, <1>t DEF Again, client, network, history
<1>9. CASE YieldFails BY <1>9, <1>t, PseudoTokens DEF YieldFails, Return, client, network
<1> QED BY <1>1, <1>2, <1>3, <1>4, <1>5, <1>6, <1>7, <1>8, <1>9 DEF ClientStep

\* A call is in progress only where the task waits for it, and it is the one made there.
MadeBy(step, c) ==
  \/ step = "connecting" /\ c.type = "CONNECT"
  \/ step = "subscribing" /\ c.type = "SUBSCRIBE" /\ c.topic = RequestTopic
  \/ step = "reporting" /\ Publish1(c)
  \/ step = "yielding" /\ c = NoPacket
  \/ step = "disconnecting" /\ c.type = "DISCONNECT"
NeverUnsubscribes == \A i \in 1..Len(toBroker) : toBroker[i].type # "UNSUBSCRIBE"
CallInv == (pc # "idle" => MadeBy(task, call)) /\ NeverUnsubscribes

\* A step that begins no call and writes nothing.
LEMMA StillCalls ==
  ASSUME CallInv, toBroker' = toBroker \/ toBroker' = <<>>,
         pc' = "idle" \/ UNCHANGED <<pc, call, task>>
  PROVE  CallInv'
<1>1. NeverUnsubscribes' BY DEF CallInv, NeverUnsubscribes
<1> QED BY <1>1 DEF CallInv

\* Every step keeps task and call together.
LEMMA CallStep == ClientInv /\ CallInv /\ [TaskNext]_allVars => CallInv'
<1> SUFFICES ASSUME ClientInv, CallInv, [TaskNext]_allVars PROVE CallInv'
  OBVIOUS
<1>i. pc = "idle" => call = NoPacket BY DEF ClientInv, AckInv, EmptyHand
<1>w. task \notin {"connecting", "subscribing", "reporting", "yielding", "disconnecting"}
        => pc = "idle"
  BY DEF CallInv, MadeBy
<1>1. CASE WifiWait \/ OpenFails \/ Connected \/ Subscribed \/ Published \/ Yielded \/ Crashes
  BY <1>1, <1>w, StillCalls DEF WifiWait, OpenFails, Connected, Subscribed, Yielded, ExitUnless,
     Published, Crashes, Back, vars, frame, network
<1>2. CASE Opens
  BY <1>2, StillCalls DEF Opens, OpenSession, NetworkConnect, frame
<1>3. CASE Connects
  <2>1. toBroker' = toBroker /\ task' = "connecting"
    BY <1>3 DEF Connects, Starts, MQTTConnect, Goto, network
  <2>2. pc' = "idle" \/ call' = Plain("CONNECT", 0)
    BY <1>3 DEF Connects, Starts, MQTTConnect, Begin, TooLong, Return
  <2> QED BY <2>1, <2>2 DEF CallInv, NeverUnsubscribes, MadeBy, Plain, Pkt
<1>4. CASE Subscribes
  <2>1. toBroker' = toBroker /\ task' = "subscribing"
    BY <1>4 DEF Subscribes, Starts, MQTTSubscribe, Request, Goto, network
  <2>2. pc' = "idle" \/ call' = Pkt("SUBSCRIBE", getNextPacketId, 0, RequestTopic)
    BY <1>4 DEF Subscribes, Starts, MQTTSubscribe, NotConnected, WithNextId, Begin, TooLong, Return
  <2> QED BY <2>1, <2>2 DEF CallInv, NeverUnsubscribes, MadeBy, Pkt
<1>5. CASE Publishes
  <2>1. toBroker' = toBroker /\ task' = "reporting"
    BY <1>5 DEF Publishes, Starts, MQTTPublish, Request, Goto, network
  <2>2. pc' = "idle" \/ call' = Pkt("PUBLISH", getNextPacketId, 1, ReportTopic)
    BY <1>5 DEF Publishes, Starts, MQTTPublish, NotConnected, WithNextId, Begin, TooLong, Return
  <2> QED BY <2>1, <2>2 DEF CallInv, NeverUnsubscribes, MadeBy, Publish1, Pkt
<1>6. CASE Yields
  BY <1>6, <1>i DEF Yields, Starts, Goto, MQTTYield, Idle, network, CallInv, NeverUnsubscribes,
     MadeBy
<1>7. CASE Disconnects
  BY <1>7 DEF Disconnects, Starts, Goto, MQTTDisconnect, Begin, network, CallInv,
     NeverUnsubscribes, MadeBy, Plain, Pkt
<1>8. CASE DisconnectsNothing
  BY <1>8, <1>w, StillCalls DEF DisconnectsNothing, network
<1>9. CASE Restarts
  BY <1>9, StillCalls DEF Restarts, Back, CloseSession, NetworkDisconnect, vars, frame, network
<1>10. CASE ClientRuns
  <2>1. ClientStep /\ UNCHANGED task BY <1>10 DEF ClientRuns, progress
  <2>2. TypeOK BY DEF ClientInv
  <2>3. pc # "idle" /\ (pc' # "idle" => call' = call) BY <2>1, <2>2, ClientStepShape
  <2>4. pc' # "idle" => MadeBy(task', call') BY <2>1, <2>3 DEF CallInv
  <2>5. call.type # "UNSUBSCRIBE" BY <2>3, PseudoTokens DEF CallInv, MadeBy, Publish1
  <2>6. CASE toBroker' = toBroker BY <2>4, <2>6 DEF CallInv, NeverUnsubscribes
  <2>7. ASSUME NEW p \in Packet, toBroker' = Append(toBroker, p), p.type # "UNSUBSCRIBE"
        PROVE  CallInv'
    <3>1. toBroker \in Seq(Packet) BY <2>2 DEF TypeOK, NetworkType
    <3>2. NeverUnsubscribes' BY <2>7, <3>1, AppendFacts DEF CallInv, NeverUnsubscribes
    <3> QED BY <2>4, <3>2 DEF CallInv
  <2> QED BY <2>1, <2>2, <2>5, <2>6, <2>7, ClientStepShape
<1>11. CASE BrokerTakes
  <2>1. /\ toBroker \in Seq(Packet) /\ toBroker # <<>> /\ toBroker' \in {Tail(toBroker), <<>>}
        /\ UNCHANGED <<pc, call, task>>
    BY <1>11 DEF BrokerTakes, BrokerReceives, ClientInv, TypeOK, NetworkType, frame, progress
  <2>2. NeverUnsubscribes' BY <2>1, TailFacts DEF CallInv, NeverUnsubscribes
  <2> QED BY <2>1, <2>2 DEF CallInv
<1>12. CASE Surroundings
  BY <1>12, StillCalls DEF Surroundings, BrokerPublishes, LinkChanges, TimerExpires,
     PingTimerExpires, taskVars, progress, frame, network
<1>13. CASE WifiConnects \/ WifiDisconnects \/ UNCHANGED allVars
  BY <1>13, StillCalls DEF WifiConnects, WifiDisconnects, allVars, taskVars, progress, vars, frame,
     network
<1> QED BY <1>1, <1>2, <1>3, <1>4, <1>5, <1>6, <1>7, <1>8, <1>9, <1>10, <1>11, <1>12, <1>13
        DEF TaskNext, TaskStep

-----------------------------------------------------------------------------
(* Types: a round never starts a publish after its last one. *)

TaskType ==
  /\ wifi \in BOOLEAN /\ task \in TaskSteps /\ report \in 1..LastReport + 1
  /\ ret \in -1..128 /\ failed \in BOOLEAN /\ credit \in Int
RoundInv == TaskType /\ (task \in {"report", "reporting"} => report <= LastReport)

\* A publish leads to the next one, to the one after it, or past the last: the last one is
\* a sensor's value, so that a status is never the last.
LEMMA NextReportInRound ==
  ASSUME NEW n \in 1..LastReport, NEW code \in Int
  PROVE  NextReport(n, code) \in 1..LastReport + 1
<1>1. Sensors \in Nat BY TaskAssumption
<1>2. CASE NextReport(n, code) = n + 1 BY <1>1, <1>2 DEF LastReport
<1>3. CASE NextReport(n, code) = n + 2 /\ n % 2 = 0
  <2>1. n # LastReport BY <1>1, <1>3 DEF LastReport
  <2> QED BY <1>1, <1>3, <2>1 DEF LastReport
<1> QED BY <1>2, <1>3 DEF NextReport, IsSensorStatus

\* Every step keeps the types of the task.
LEMMA RoundStep == TypeOK /\ RoundInv /\ [TaskNext]_allVars => RoundInv'
<1> SUFFICES ASSUME TypeOK, RoundInv, [TaskNext]_allVars PROVE RoundInv'
  OBVIOUS
<1> USE DEF RoundInv, TaskType, TaskSteps
<1>c. /\ Sensors \in Nat /\ LastReport \in Nat \ {0}
      /\ rc \in -1..128 /\ {SUCCESS, FAILURE} \subseteq -1..128
  BY TaskAssumption DEF LastReport, TypeOK, FrameType, SUCCESS, FAILURE
<1>1. CASE WifiWait \/ Opens \/ OpenFails
  BY <1>1, <1>c DEF WifiWait, Opens, OpenFails, Goto
<1>2. CASE Connects \/ Subscribes \/ Publishes \/ Yields \/ Disconnects
  BY <1>2, <1>c DEF Connects, Subscribes, Publishes, Yields, Disconnects, Starts, Goto
<1>3. CASE Connected \/ Subscribed \/ Yielded
  <2>1. /\ ret' = rc /\ UNCHANGED <<wifi, credit>>
        /\ task' \in {"subscribe", "report", "yield", "exit"}
    BY <1>3 DEF Connected, Subscribed, Yielded, ExitUnless, Goto
  <2>2. CASE Connected
    <3>1. UNCHANGED <<report, failed>> /\ task' \in {"subscribe", "exit"}
      BY <2>2 DEF Connected, ExitUnless, Goto
    <3> QED BY <2>1, <3>1, <1>c
  <2>3. CASE Subscribed \/ Yielded
    <3>1. report' = 1 /\ failed' \in BOOLEAN BY <2>3 DEF Subscribed, Yielded, NewRound
    <3>2. 1 \in 1..LastReport /\ 1 \in 1..LastReport + 1 BY <1>c
    <3> QED BY <2>1, <3>1, <3>2, <1>c
  <2> QED BY <1>3, <2>2, <2>3
<1>4. CASE Published
  <2>1. report \in 1..LastReport /\ report' = NextReport(report, rc)
    BY <1>4, <1>c DEF Published, Back
  <2>2. report' \in 1..LastReport + 1 BY <2>1, <1>c, NextReportInRound
  <2>3. (failed \/ rc < 0) \in BOOLEAN OBVIOUS
  <2>4. /\ task' = IF report' <= LastReport THEN "report"
                   ELSE IF ret # SUCCESS THEN "exit" ELSE "yield"
        /\ UNCHANGED <<wifi, credit, ret>> /\ failed' \in BOOLEAN
    BY <1>4, <2>3 DEF Published, Goto
  <2>5. task' \in TaskSteps /\ (task' = "report" => report' <= LastReport) /\ task' # "reporting"
    BY <2>4
  <2> QED BY <2>2, <2>4, <2>5, <1>c
<1>5. CASE DisconnectsNothing \/ Crashes \/ Restarts
  BY <1>5, <1>c DEF DisconnectsNothing, Crashes, Restarts, Goto
<1>6. CASE ClientRuns BY <1>6, <1>c DEF ClientRuns, progress
<1>7. CASE BrokerTakes BY <1>7, <1>c DEF BrokerTakes, progress
<1>8. CASE WifiConnects \/ WifiDisconnects
  BY <1>8 DEF WifiConnects, WifiDisconnects
<1>9. CASE Surroundings \/ UNCHANGED allVars
  <2>1. UNCHANGED taskVars BY <1>9 DEF Surroundings, allVars
  <2> QED BY <2>1 DEF taskVars, progress
<1> QED BY <1>1, <1>2, <1>3, <1>4, <1>5, <1>6, <1>7, <1>8, <1>9 DEF TaskNext, TaskStep

\* Initially the task waits for the Wi-Fi bit.
LEMMA InitRound == TaskInit => RoundInv
<1> SUFFICES ASSUME TaskInit PROVE RoundInv
  OBVIOUS
<1>1. 1 \in 1..LastReport + 1 BY TaskAssumption DEF LastReport
<1>2. wifi \in BOOLEAN /\ failed \in BOOLEAN BY DEF TaskInit
<1>3. task = "wait" /\ report = 1 /\ ret = 0 /\ credit = 0 BY DEF TaskInit, SUCCESS
<1> QED BY <1>1, <1>2, <1>3 DEF RoundInv, TaskType, TaskSteps

-----------------------------------------------------------------------------
(* The handshake.  A session begins with nothing given up and every slot free, and keeps   *)
(* both until the task has logged in and subscribed, since it leaves a session in which    *)
(* one of the two has failed; so the acknowledgements are its own, and they are honoured.  *)

Pristine == unacked = {} /\ FreeSlots = 1..MaxHandlers
LoggingIn == task = "connect" \/ (task = "connecting" /\ pc # "idle")
LoggedIn ==
  \/ task = "subscribe" \/ (task = "subscribing" /\ pc # "idle")
  \/ task = "connecting" /\ pc = "idle" /\ rc = SUCCESS
Serving ==
  \/ task \in {"report", "reporting", "yield", "yielding"}
  \/ task = "subscribing" /\ pc = "idle" /\ rc = SUCCESS
Reachable == isconnected /\ deliverMessage(RequestTopic) /\ RequestTopic \in subs
HandshakeInv ==
  /\ LoggingIn => Pristine
  /\ LoggedIn => Pristine /\ isconnected
  /\ Serving => Reachable

\* A step that reaches no new stage of the handshake and leaves the client's side alone.
LEMMA StillHandshake ==
  ASSUME HandshakeInv, UNCHANGED <<isconnected, messageHandlers, unacked>>,
         RequestTopic \in subs => RequestTopic \in subs',
         LoggingIn' => LoggingIn, LoggedIn' => LoggedIn, Serving' => Serving
  PROVE  HandshakeInv'
BY DEF HandshakeInv, Pristine, FreeSlots, Reachable, deliverMessage

\* What an accepted acknowledgement leaves behind.
LEMMA AcknowledgedShape ==
  ASSUME TypeOK, AckInv, SubInv, Acknowledged
  PROVE  /\ pc' = "idle" /\ UNCHANGED subs
         /\ isconnected => isconnected'
         /\ call.type = "CONNECT" /\ rc' = SUCCESS => isconnected'
         /\ call.type # "SUBSCRIBE" => UNCHANGED messageHandlers
         /\ unacked = {} => unacked' = {}
         /\ (/\ call.type = "SUBSCRIBE" /\ call.topic = RequestTopic
             /\ unacked = {} /\ FreeSlots # {} /\ rc' = SUCCESS)
              => deliverMessage(RequestTopic)' /\ RequestTopic \in subs
<1>1. pc = "cycled" /\ GotAck /\ UNCHANGED subs BY DEF Acknowledged, network
<1>2. pc' = "idle"
  <2>1. \E code : Return(code) BY DEF Acknowledged, Install
  <2> QED BY <2>1 DEF Return
<1>3. isconnected => isconnected' BY DEF Acknowledged
<1>4. ASSUME call.type = "CONNECT", rc' = SUCCESS PROVE isconnected'
  <2>1. rc' = packet.val BY <1>4 DEF Acknowledged, Return
  <2> QED BY <1>4, <2>1 DEF Acknowledged, SUCCESS
<1>5. call.type # "SUBSCRIBE" => UNCHANGED messageHandlers BY DEF Acknowledged
<1>6. unacked = {} => packet.id = call.id BY <1>1, AcceptedAck
<1>7. unacked = {} => unacked' = {} BY <1>6 DEF Acknowledged
<1>8. ASSUME call.type = "SUBSCRIBE", call.topic = RequestTopic, unacked = {}, FreeSlots # {},
             rc' = SUCCESS
      PROVE  deliverMessage(RequestTopic)' /\ RequestTopic \in subs
  <2>1. Install(RequestTopic, packet.val) BY <1>8 DEF Acknowledged
  <2>2. packet.val # REFUSED BY <1>8, <2>1 DEF Install, Return, SUCCESS, REFUSED
  <2>3. messageHandlers' = [messageHandlers EXCEPT ![FirstFree] = RequestTopic]
    BY <1>8, <2>1, <2>2 DEF Install
  <2>4. deliverMessage(RequestTopic)'
    BY <1>8, <2>3, InstallInFirstFree, TaskAssumption DEF TypeOK
  <2>5. packet.type = "SUBACK" BY <1>1, <1>8 DEF GotAck, Awaited
  <2> QED BY <1>8, <2>2, <2>4, <2>5 DEF SubInv, AcksHonoured, Honoured
<1> QED BY <1>1, <1>2, <1>3, <1>4, <1>5, <1>7, <1>8

\* Every step keeps the handshake.
LEMMA HandshakeStep ==
  ClientInv /\ CallInv /\ HandshakeInv /\ [TaskNext]_allVars => HandshakeInv'
<1> SUFFICES ASSUME ClientInv, CallInv, HandshakeInv, [TaskNext]_allVars PROVE HandshakeInv'
  OBVIOUS
<1> USE DEF LoggingIn, LoggedIn, Serving
<1>1. CASE WifiWait \/ OpenFails \/ Connected \/ Subscribed \/ Published \/ Yielded \/ Crashes
  <2>1. UNCHANGED <<isconnected, messageHandlers, unacked, subs>>
    BY <1>1 DEF WifiWait, OpenFails, Connected, Subscribed, Published, Yielded, Crashes, ExitUnless,
       vars, client, network, history
  <2>2. pc' = pc /\ rc' = rc
    BY <1>1 DEF WifiWait, OpenFails, Connected, Subscribed, Published, Yielded, Crashes, ExitUnless,
       vars, frame
  <2>3. \/ task' \in {"network", "exit", "wait"}
        \/ task = "connecting" /\ pc = "idle" /\ rc = SUCCESS /\ task' = "subscribe"
        \/ task = "subscribing" /\ pc = "idle" /\ rc = SUCCESS /\ task' = "report"
        \/ task \in {"reporting", "yielding"} /\ task' \in {"report", "yield", "exit"}
    BY <1>1 DEF WifiWait, OpenFails, Connected, Subscribed, Published, Yielded, Crashes, ExitUnless,
       Goto, Back
  <2>4. (LoggingIn' => LoggingIn) /\ (LoggedIn' => LoggedIn) /\ (Serving' => Serving)
    BY <2>2, <2>3
  <2> QED BY <2>1, <2>4, StillHandshake
<1>2. CASE Opens
  <2>1. task' = "connect" /\ unacked' = {}
        /\ messageHandlers' = [i \in 1..MaxHandlers |-> NoTopic]
    BY <1>2 DEF Opens, OpenSession, NetworkConnect, MQTTClientInit
  <2>2. FreeSlots' = 1..MaxHandlers BY <2>1 DEF FreeSlots
  <2> QED BY <2>1, <2>2 DEF HandshakeInv, Pristine
<1>3. CASE Connects
  <2>1. /\ task = "connect" /\ task' = "connecting" /\ UNCHANGED <<messageHandlers, unacked>>
        /\ rc' = FAILURE
    BY <1>3 DEF Connects, Starts, MQTTConnect, Begin, TooLong, Return, Goto
  <2>2. Pristine' BY <2>1 DEF HandshakeInv, Pristine, FreeSlots
  <2> QED BY <2>1, <2>2 DEF HandshakeInv, SUCCESS, FAILURE
<1>4. CASE Subscribes \/ Publishes \/ Yields
  <2>1. UNCHANGED <<isconnected, messageHandlers, unacked, subs>>
    BY <1>4 DEF Subscribes, Publishes, Yields, Starts, MQTTSubscribe, MQTTPublish, MQTTYield,
       Request, network, client, history
  <2>2. \/ task = "subscribe" /\ task' = "subscribing" /\ rc' = FAILURE
        \/ task = "report" /\ task' = "reporting"
        \/ task = "yield" /\ task' = "yielding"
    BY <1>4 DEF Subscribes, Publishes, Yields, Starts, MQTTSubscribe, NotConnected, WithNextId,
       Begin, TooLong, Return, Goto
  <2> QED BY <2>1, <2>2, StillHandshake DEF SUCCESS, FAILURE
<1>5. CASE Disconnects \/ DisconnectsNothing \/ Restarts
  <2>1. task' \in {"disconnecting", "wait"}
    BY <1>5 DEF Disconnects, DisconnectsNothing, Restarts, Starts, Goto
  <2> QED BY <2>1 DEF HandshakeInv
<1>6. CASE ClientRuns
  <2>1. ClientStep /\ UNCHANGED task BY <1>6 DEF ClientRuns, progress
  <2>2. TypeOK /\ AckInv /\ SubInv BY DEF ClientInv
  <2>3. pc # "idle" /\ UNCHANGED subs /\ (pc' # "idle" => UNCHANGED unacked) /\ MadeBy(task, call)
    BY <2>1, <2>2, ClientStepShape DEF CallInv
  <2>4. CASE task = "connecting"
    <3>1. call.type = "CONNECT" BY <2>3, <2>4 DEF MadeBy
    <3>2. WaitsForAck(call) BY <3>1 DEF WaitsForAck, Awaited
    <3>3. Pristine BY <2>3, <2>4 DEF HandshakeInv
    <3>4. UNCHANGED messageHandlers BY <2>1, <2>2, <3>1, ClientStepShape, AcknowledgedShape
    <3>5. CASE pc' # "idle"
      <4>1. Pristine' BY <2>3, <3>3, <3>4, <3>5 DEF Pristine, FreeSlots
      <4> QED BY <2>1, <2>4, <3>5, <4>1 DEF HandshakeInv
    <3>6. CASE pc' = "idle" /\ rc' # SUCCESS
      BY <2>1, <2>4, <3>6 DEF HandshakeInv
    <3>7. CASE pc' = "idle" /\ rc' = SUCCESS
      <4>1. Acknowledged BY <2>1, <2>2, <3>2, <3>7, ClientStepShape DEF SUCCESS, FAILURE
      <4>2. isconnected' /\ unacked' = {}
        BY <2>2, <3>1, <3>3, <3>7, <4>1, AcknowledgedShape DEF Pristine
      <4>3. Pristine' BY <3>3, <3>4, <4>2 DEF Pristine, FreeSlots
      <4> QED BY <2>1, <2>4, <4>2, <4>3 DEF HandshakeInv
    <3> QED BY <3>5, <3>6, <3>7
  <2>5. CASE task = "subscribing"
    <3>1. call.type = "SUBSCRIBE" /\ call.topic = RequestTopic BY <2>3, <2>5 DEF MadeBy
    <3>2. WaitsForAck(call) BY <3>1 DEF WaitsForAck, Awaited
    <3>3. Pristine /\ isconnected BY <2>3, <2>5 DEF HandshakeInv
    <3>4. CASE pc' # "idle"
      <4>1. ~Acknowledged BY <2>2, <3>4, AcknowledgedShape
      <4>2. UNCHANGED <<messageHandlers, unacked>> /\ isconnected'
        BY <2>1, <2>2, <2>3, <3>1, <3>3, <3>4, <4>1, ClientStepShape
      <4>3. Pristine' BY <3>3, <4>2 DEF Pristine, FreeSlots
      <4> QED BY <2>1, <2>5, <3>4, <4>2, <4>3 DEF HandshakeInv
    <3>5. CASE pc' = "idle" /\ rc' # SUCCESS
      BY <2>1, <2>5, <3>5 DEF HandshakeInv
    <3>6. CASE pc' = "idle" /\ rc' = SUCCESS
      <4>1. Acknowledged BY <2>1, <2>2, <3>2, <3>6, ClientStepShape DEF SUCCESS, FAILURE
      <4>2. 1 \in FreeSlots BY <3>3, ClientAssumption DEF Pristine
      <4>3. isconnected' /\ deliverMessage(RequestTopic)' /\ RequestTopic \in subs
        BY <2>2, <3>1, <3>3, <3>6, <4>1, <4>2, AcknowledgedShape DEF Pristine
      <4>4. Reachable' BY <2>3, <4>3 DEF Reachable
      <4> QED BY <2>1, <2>5, <3>6, <4>4 DEF HandshakeInv
    <3> QED BY <3>4, <3>5, <3>6
  <2>6. CASE task \in {"reporting", "yielding"}
    <3>1. call.type \notin {"CONNECT", "SUBSCRIBE", "DISCONNECT"}
      BY <2>3, <2>6, PseudoTokens DEF MadeBy, Publish1
    <3>2. UNCHANGED messageHandlers /\ (isconnected => isconnected')
      BY <2>1, <2>2, <3>1, ClientStepShape, AcknowledgedShape
    <3>3. Reachable BY <2>6 DEF HandshakeInv
    <3>4. Reachable' BY <2>3, <3>2, <3>3 DEF Reachable, deliverMessage
    <3> QED BY <2>1, <2>6, <3>4 DEF HandshakeInv
  <2>7. CASE task = "disconnecting" BY <2>1, <2>7 DEF HandshakeInv
  <2> QED BY <2>3, <2>4, <2>5, <2>6, <2>7 DEF MadeBy
<1>7. CASE BrokerTakes
  <2>1. BrokerReceives /\ UNCHANGED <<task, client, frame, unacked>>
    BY <1>7 DEF BrokerTakes, BrokerReceives, progress
  <2>2. toBroker \in Seq(Packet) /\ toBroker # <<>>
    BY <2>1 DEF BrokerReceives, ClientInv, TypeOK, NetworkType
  <2>3. Head(toBroker).type # "UNSUBSCRIBE"
    BY <2>2, TailFacts DEF CallInv, NeverUnsubscribes
  <2>4. RequestTopic \in subs => RequestTopic \in subs'
    BY <2>1, <2>3 DEF BrokerReceives
  <2> QED BY <2>1, <2>4, StillHandshake DEF client, frame
<1>8. CASE Surroundings
  <2>1. UNCHANGED <<task, isconnected, messageHandlers, pc, rc, unacked, subs>>
    BY <1>8 DEF Surroundings, BrokerPublishes, LinkChanges, TimerExpires, PingTimerExpires,
       taskVars, progress, client, frame, network, history
  <2> QED BY <2>1, StillHandshake
<1>9. CASE WifiConnects \/ WifiDisconnects \/ UNCHANGED allVars
  <2>1. UNCHANGED <<task, isconnected, messageHandlers, pc, rc, unacked, subs>>
    BY <1>9 DEF WifiConnects, WifiDisconnects, allVars, taskVars, progress, vars, client, frame,
       network, history
  <2> QED BY <2>1, StillHandshake
<1> QED BY <1>1, <1>2, <1>3, <1>4, <1>5, <1>6, <1>7, <1>8, <1>9 DEF TaskNext, TaskStep

-----------------------------------------------------------------------------
(* Credit: every confirmation that is under way or in the client's hand answers a publish  *)
(* of the session that the broker has, and that has not yet been reported sent.            *)

Confirmations == Count(toClient, "PUBACK") + (IF packet.type = "PUBACK" THEN 1 ELSE 0)
CreditInv == credit >= Confirmations

\* They are a natural number.
LEMMA ConfirmationsType == TypeOK => Confirmations \in Nat
BY CountType DEF TypeOK, NetworkType, Confirmations

\* A call's step makes no confirmation, and the one that accepts a PUBACK uses one up.
LEMMA ClientConfirmations ==
  ASSUME TypeOK, AckInv, ClientStep
  PROVE  /\ Confirmations' <= Confirmations
         /\ Acknowledged /\ packet.type = "PUBACK" => Confirmations' = Confirmations - 1
<1>t. toClient \in Seq(Packet) /\ Count(toClient, "PUBACK") \in Nat
  BY CountType DEF TypeOK, NetworkType
<1>n. NoPacket.type = "NONE" /\ ReadFailed.type = "ERROR" BY PseudoTokens
<1>1. CASE ReadPacket
  <2>1. /\ toClient # <<>> /\ toClient' = Tail(toClient) /\ packet' = Head(toClient)
        /\ pc = "read" /\ pc' # "idle"
    BY <1>1 DEF ReadPacket
  <2>2. packet = NoPacket BY <2>1 DEF AckInv, EmptyHand
  <2>3. Count(toClient, "PUBACK") =
          Count(toClient', "PUBACK") + (IF packet'.type = "PUBACK" THEN 1 ELSE 0)
    BY <1>t, <2>1, CountTail
  <2>4. ~Acknowledged BY <2>1 DEF Acknowledged
  <2>5. Count(toClient', "PUBACK") \in Nat
    <3>1. toClient' \in Seq(Packet) BY <1>t, <2>1
    <3> QED BY <3>1, CountType
  <2>6. Confirmations' = Count(toClient', "PUBACK") + (IF packet'.type = "PUBACK" THEN 1 ELSE 0)
    BY DEF Confirmations, Count, OfType
  <2> QED BY <1>t, <1>n, <2>2, <2>3, <2>4, <2>5, <2>6 DEF Confirmations
<1>2. CASE toClient' = toClient /\ packet' \in {packet, NoPacket, ReadFailed}
  <2>1. Confirmations' = Count(toClient, "PUBACK") + (IF packet'.type = "PUBACK" THEN 1 ELSE 0)
    BY <1>2 DEF Confirmations, Count, OfType
  <2>2. Acknowledged => packet' = NoPacket
    <3>1. Acknowledged => \E code : Return(code) BY DEF Acknowledged, Install
    <3> QED BY <3>1 DEF Return
  <2> QED BY <1>t, <1>n, <1>2, <2>1, <2>2 DEF Confirmations
<1>3. CASE SendPacket
  BY <1>2, <1>3 DEF SendPacket, Fail, Return
<1>4. CASE CheckTimer \/ Again \/ YieldFails
  BY <1>2, <1>4 DEF CheckTimer, Again, YieldFails, Fail, Return, network
<1>5. CASE ReadTimeout \/ ReadCloseNotify \/ ReadError
  BY <1>2, <1>5 DEF ReadTimeout, ReadCloseNotify, ReadError, ReadsNoPacket
<1>6. CASE SendAnswer \/ keepalive
  BY <1>2, <1>6 DEF SendAnswer, keepalive
<1>7. CASE Acknowledged
  <2>1. \E code : Return(code) BY <1>7 DEF Acknowledged, Install
  <2> QED BY <1>2, <1>7, <2>1 DEF Acknowledged, Return, network
<1> QED BY <1>1, <1>3, <1>4, <1>5, <1>6, <1>7 DEF ClientStep

\* The broker makes one of each publish it takes.
LEMMA BrokerConfirmations ==
  ASSUME TypeOK, BrokerReceives
  PROVE  Confirmations' = IF Publish1(Head(toBroker)) THEN Confirmations + 1 ELSE Confirmations
<1>t. toBroker \in Seq(Packet) /\ toClient \in Seq(Packet) /\ Count(toClient, "PUBACK") \in Nat
  BY CountType DEF TypeOK, NetworkType
<1> DEFINE p == Head(toBroker)
<1>1. p \in Packet /\ UNCHANGED packet BY <1>t DEF BrokerReceives, frame
<1>2. PICK r \in Replies(p) : toClient' = toClient \o r BY DEF BrokerReceives
<1>c. Confirmations' = Count(toClient', "PUBACK") + (IF packet.type = "PUBACK" THEN 1 ELSE 0)
  BY <1>1 DEF Confirmations, Count, OfType
<1>3. CASE r = <<>> /\ ~Publish1(p)
  <2>1. toClient' = toClient BY <1>t, <1>2, <1>3
  <2>2. Confirmations' = Confirmations BY <1>c, <2>1 DEF Confirmations
  <2> QED BY <1>3, <2>2
<1>4. ASSUME NEW q \in Packet, r = <<q>>, q.type = "PUBACK" <=> p.type = "PUBLISH" /\ p.val = 1
      PROVE  Confirmations' = IF Publish1(p) THEN Confirmations + 1 ELSE Confirmations
  <2>1. toClient' = Append(toClient, q) BY <1>t, <1>2, <1>4
  <2> HIDE DEF p
  <2>2. Count(toClient', "PUBACK") =
          Count(toClient, "PUBACK") + (IF q.type = "PUBACK" THEN 1 ELSE 0)
    BY <1>t, <1>4, <2>1, CountAppend
  <2>3. q.type = "PUBACK" <=> Publish1(p) BY <1>4 DEF Publish1
  <2> QED BY <1>c, <1>t, <2>2, <2>3 DEF Confirmations
<1> QED BY <1>1, <1>2, <1>3, <1>4, RepliesShape DEF Publish1

\* Every step keeps the credit.
LEMMA CreditStep ==
  ClientInv /\ CallInv /\ TaskType /\ CreditInv /\ [TaskNext]_allVars => CreditInv'
<1> SUFFICES ASSUME ClientInv, CallInv, TaskType, CreditInv, [TaskNext]_allVars PROVE CreditInv'
  OBVIOUS
<1>t. TypeOK /\ AckInv /\ Confirmations \in Nat /\ credit \in Int /\ credit >= Confirmations
  BY ConfirmationsType DEF ClientInv, TaskType, CreditInv
<1>u. ASSUME UNCHANGED <<credit, toClient, packet>> PROVE CreditInv'
  BY <1>u DEF CreditInv, Confirmations, Count, OfType
<1>e. ASSUME toClient' = <<>>, packet' = NoPacket, credit' \in Nat PROVE CreditInv'
  BY <1>e, CountEmpty, PseudoTokens DEF CreditInv, Confirmations, Count, OfType
<1>1. CASE WifiWait \/ OpenFails \/ Connected \/ Subscribed \/ Published \/ Yielded \/ Crashes
  BY <1>1, <1>u DEF WifiWait, OpenFails, Connected, Subscribed, Published, Yielded, Crashes,
     ExitUnless, Goto, vars, frame, network
<1>2. CASE Opens
  <2>1. packet = NoPacket BY <1>2, <1>t DEF Opens, OpenSession, AckInv, EmptyHand
  <2> QED BY <1>2, <1>e, <2>1 DEF Opens, OpenSession, NetworkConnect, frame
<1>3. CASE Connects \/ Subscribes \/ Publishes \/ Yields \/ Disconnects
  <2>1. UNCHANGED <<credit, toClient>> /\ packet' \in {packet, NoPacket} /\ pc = "idle"
    BY <1>3 DEF Connects, Subscribes, Publishes, Yields, Disconnects, Starts, Goto, MQTTConnect,
       MQTTSubscribe, MQTTPublish, MQTTYield, MQTTDisconnect, Idle, NotConnected, WithNextId, Begin,
       TooLong, Return, Request, network
  <2>2. packet = NoPacket BY <1>t, <2>1 DEF AckInv, EmptyHand
  <2> QED BY <1>u, <2>1, <2>2
<1>4. CASE DisconnectsNothing
  BY <1>4, <1>u DEF DisconnectsNothing, Goto, network
<1>5. CASE Restarts
  <2>1. pc = "idle" /\ credit' = credit BY <1>5 DEF Restarts, Back, Goto
  <2>2. packet = NoPacket BY <1>t, <2>1 DEF AckInv, EmptyHand
  <2>3. CASE link = "down" BY <1>5, <1>u, <2>1, <2>3 DEF Restarts, vars, frame, network
  <2>4. CASE link # "down"
    BY <1>5, <1>e, <1>t, <2>1, <2>2, <2>4 DEF Restarts, CloseSession, NetworkDisconnect, frame
  <2> QED BY <2>3, <2>4
<1>6. CASE ClientRuns
  <2>1. ClientStep /\ TypeOK' BY <1>6, <1>t, ClientStepType DEF ClientRuns
  <2>2. Confirmations' \in Nat
    <3>1. Count(toClient', "PUBACK") \in Nat BY <2>1, CountType DEF TypeOK, NetworkType
    <3> QED BY <3>1 DEF Confirmations, Count, OfType
  <2>3. Confirmations' <= Confirmations BY <1>t, <2>1, ClientConfirmations
  <2>4. CASE credit' = credit BY <1>t, <2>2, <2>3, <2>4 DEF CreditInv
  <2>5. CASE Publish1(call) /\ pc' = "idle" /\ rc' = SUCCESS /\ credit' = credit - 1
    <3>1. Awaited(call) = "PUBACK" BY <2>5 DEF Publish1, Awaited
    <3>2. WaitsForAck(call) BY <3>1 DEF WaitsForAck
    <3>3. Acknowledged BY <1>t, <2>1, <2>5, <3>2, ClientStepShape DEF SUCCESS, FAILURE
    <3>4. packet.type = "PUBACK" BY <3>1, <3>3 DEF Acknowledged, GotAck
    <3>5. Confirmations' = Confirmations - 1 BY <1>t, <2>1, <3>3, <3>4, ClientConfirmations
    <3> QED BY <1>t, <2>2, <2>5, <3>5 DEF CreditInv
  <2> QED BY <1>6, <2>4, <2>5 DEF ClientRuns
<1>7. CASE BrokerTakes
  <2>1. BrokerReceives BY <1>7 DEF BrokerTakes
  <2>2. credit' = IF Publish1(Head(toBroker)) THEN credit + 1 ELSE credit BY <1>7 DEF BrokerTakes
  <2> HIDE DEF Publish1
  <2> QED BY <1>t, <2>1, <2>2, BrokerConfirmations DEF CreditInv
<1>8. CASE Surroundings
  <2>1. credit' = credit /\ UNCHANGED packet
    BY <1>8 DEF Surroundings, BrokerPublishes, LinkChanges, TimerExpires, PingTimerExpires,
       taskVars, frame
  <2>2. ASSUME NEW t \in Topics, NEW q \in InboundQoS, BrokerPublishes(t, q) PROVE CreditInv'
    <3> DEFINE m == Pkt("PUBLISH", IF q = 0 THEN 0 ELSE 1, q, t)
    <3>1. m \in Packet /\ m.type = "PUBLISH"
      <4>1. (IF q = 0 THEN 0 ELSE 1) \in Ids /\ q \in 0..128 BY ClientAssumption DEF Ids
      <4> QED BY <4>1, PktType DEF PacketTypes, Pkt
    <3>2. toClient' = Append(toClient, m) BY <2>2 DEF BrokerPublishes
    <3> HIDE DEF m
    <3>3. toClient \in Seq(Packet) BY <1>t DEF TypeOK, NetworkType
    <3>4. Count(toClient', "PUBACK") = Count(toClient, "PUBACK")
      BY <3>1, <3>2, <3>3, CountAppend, CountType
    <3> QED BY <1>t, <2>1, <3>4 DEF CreditInv, Confirmations, Count
  <2>3. CASE UNCHANGED toClient BY <1>u, <2>1, <2>3
  <2> QED BY <1>8, <2>2, <2>3 DEF Surroundings, LinkChanges, TimerExpires, PingTimerExpires, network
<1>9. CASE WifiConnects \/ WifiDisconnects \/ UNCHANGED allVars
  BY <1>9, <1>u DEF WifiConnects, WifiDisconnects, allVars, taskVars, vars, frame, network
<1> QED BY <1>1, <1>2, <1>3, <1>4, <1>5, <1>6, <1>7, <1>8, <1>9 DEF TaskNext, TaskStep

-----------------------------------------------------------------------------
(* The task's invariant, and what follows from it. *)

TaskInv == ClientInv /\ CallInv /\ RoundInv /\ HandshakeInv /\ CreditInv

\* The invariants of the client and of the task hold together.
THEOREM TaskIsTracked == TaskSpec => []TaskInv
<1>1. TaskInit => CallInv /\ HandshakeInv /\ CreditInv
  <2> SUFFICES ASSUME TaskInit PROVE CallInv /\ HandshakeInv /\ CreditInv
    OBVIOUS
  <2>1. pc = "idle" /\ toBroker = <<>> /\ toClient = <<>> /\ packet = NoPacket
    BY DEF TaskInit, Init
  <2>2. task = "wait" /\ credit = 0 BY DEF TaskInit
  <2>3. CallInv BY <2>1 DEF CallInv, NeverUnsubscribes
  <2>4. HandshakeInv BY <2>2 DEF HandshakeInv, LoggingIn, LoggedIn, Serving
  <2>5. CreditInv BY <2>1, <2>2, CountEmpty, PseudoTokens DEF CreditInv, Confirmations
  <2> QED BY <2>3, <2>4, <2>5
<1>2. ClientInv /\ CallInv /\ RoundInv /\ HandshakeInv /\ CreditInv /\ [TaskNext]_allVars
        => CallInv' /\ RoundInv' /\ HandshakeInv' /\ CreditInv'
  BY CallStep, RoundStep, HandshakeStep, CreditStep DEF ClientInv, RoundInv
<1> QED BY <1>1, <1>2, InitRound, ClientUnderTask, PTL DEF TaskSpec, TaskInv

\* Every variable of the task and of the client has its type: the task never starts a publish
\* after the last of a round (mqtt.c:251-254), for any number of sensors.
THEOREM TaskTypes == TaskSpec => []TaskTypeOK
<1>1. TaskInv => TaskTypeOK BY DEF TaskInv, ClientInv, RoundInv, TaskType, TaskTypeOK
<1> QED BY <1>1, TaskIsTracked, PTL

\* Whatever was late or lost, the CONNACK and the SUBACK that end MQTTConnect and
\* MQTTSubscribe acknowledge these very calls (mqtt.c:234-242).
THEOREM HandshakeIsItsOwn == TaskSpec => []HandshakeAcksAreOwn
<1>1. TaskInv => HandshakeAcksAreOwn
  <2> SUFFICES ASSUME TaskInv, pc = "cycled", GotAck, call.type \in {"CONNECT", "SUBSCRIBE"}
               PROVE  packet.id = call.id /\ taken
    BY DEF HandshakeAcksAreOwn
  <2>1. task \in {"connecting", "subscribing"}
    BY PseudoTokens DEF TaskInv, CallInv, MadeBy, Publish1
  <2>2. unacked = {} BY <2>1 DEF TaskInv, HandshakeInv, LoggingIn, LoggedIn, Pristine
  <2> QED BY <2>2, AcceptedAck DEF TaskInv, ClientInv
<1> QED BY <1>1, TaskIsTracked, PTL

\* While the task reports and yields, it is logged in, its handler has a slot, and the broker
\* serves its filter (mqtt.c:241-270).
THEOREM ReportingStaysReachable == TaskSpec => []ReportingIsReachable
<1>1. TaskInv => ReportingIsReachable
  BY DEF TaskInv, HandshakeInv, Serving, Reachable, ReportingIsReachable
<1> QED BY <1>1, TaskIsTracked, PTL

\* No more publishes of a session are reported sent than the broker has, although waitfor
\* takes any PUBACK for its own (MQTTClient.c:359, :539).
THEOREM ReportsAreBacked == TaskSpec => []NoOverReport
<1>1. TaskInv => NoOverReport
  <2> SUFFICES ASSUME TaskInv PROVE NoOverReport
    OBVIOUS
  <2>1. Confirmations \in Nat BY ConfirmationsType DEF TaskInv, ClientInv
  <2> QED BY <2>1 DEF TaskInv, RoundInv, TaskType, CreditInv, NoOverReport
<1> QED BY <1>1, TaskIsTracked, PTL
=============================================================================

------------------------------ MODULE MQTTClient ------------------------------
(***************************************************************************)
(* The blocking MQTT client of main/MQTTClient-C/src/MQTTClient.c, driven  *)
(* by one thread over one network connection at a time.                    *)
(*                                                                         *)
(* A call of the API runs as a sequence of steps, because the broker, the  *)
(* link and the clock move while the call blocks: sendPacket, then waitfor *)
(* (or MQTTYield), which tests its timer and runs cycle until the awaited  *)
(* packet comes; cycle reads one packet, answers it, runs keepalive and    *)
(* returns.  pc names the step that comes next.                            *)
(*                                                                         *)
(* Outside the repository, and modelled from how the client uses it: the   *)
(* broker, and the link, a pair of FIFO channels of whole packets.         *)
(***************************************************************************)
EXTENDS Integers, Sequences, FiniteSets

CONSTANTS
  MaxPacketId,   \* MAX_PACKET_ID, 65535 in the code
  MaxHandlers,   \* MAX_MESSAGE_HANDLERS, 5 in the code
  Topics,        \* topics the application subscribes to and publishes on
  NoTopic,       \* the null topicFilter of a free handler slot
  GrantedQoS,    \* what the broker's SUBACK may carry: a QoS, or 128, a refusal
  PublishQoS,    \* QoS of the messages the application publishes
  InboundQoS,    \* QoS of the messages the broker delivers
  keepAliveInterval, \* option of MQTTConnect: 0 turns the pings off
  Window         \* packets one direction of the connection holds

ASSUME ClientAssumption ==
  /\ MaxPacketId \in Nat \ {0}
  /\ MaxHandlers \in Nat \ {0}
  /\ NoTopic \notin Topics
  /\ GrantedQoS \subseteq {0, 1, 2, 128}
  /\ PublishQoS \subseteq 0..2
  /\ InboundQoS \subseteq 0..2
  /\ keepAliveInterval \in Nat
  /\ Window \in Nat \ {0}

SUCCESS == 0
FAILURE == -1
REFUSED == 128   \* 0x80, the SUBACK of a rejected subscription

VARIABLES
  \* struct MQTTClient
  isconnected, next_packetid, ping_outstanding,
  messageHandlers,  \* slot -> topicFilter
  ping_timer,       \* whether ping_timer has run out
  \* the call in progress
  pc,               \* its next step
  call,             \* the request it sends; NoPacket for MQTTYield
  packet,           \* what cycle has read
  handled,          \* whether deliverMessage called a handler for it
  timer,            \* whether the call's Timer has run out
  rc,               \* what the last call returned
  \* the connection and the broker
  link, toBroker, toClient,
  subs,             \* filters the broker serves
  \* history of the session, for the properties
  unacked,          \* ids of requests that ended without their own acknowledgement
  taken,            \* whether the broker has received the request of the call
  subscribed        \* filters subscribed with SUCCESS and not unsubscribed since

client == <<isconnected, next_packetid, ping_outstanding, messageHandlers, ping_timer>>
frame == <<pc, call, packet, handled, timer, rc>>
network == <<link, toBroker, toClient, subs>>
history == <<unacked, taken, subscribed>>
vars == <<client, frame, network, history>>

-----------------------------------------------------------------------------
(* Packets.  val is the QoS of a PUBLISH or SUBACK and the code of a CONNACK. *)

PacketTypes == {"CONNECT", "CONNACK", "PUBLISH", "PUBACK", "PUBREC", "PUBREL", "PUBCOMP",
                "SUBSCRIBE", "SUBACK", "UNSUBSCRIBE", "UNSUBACK", "PINGREQ", "PINGRESP",
                "DISCONNECT"}
\* What cycle may also find: nothing to read, or a read error.
Pseudo == {"NONE", "ERROR"}
Ids == 0..MaxPacketId
Fields == [type : PacketTypes \cup Pseudo, id : Ids, val : 0..128, topic : Topics \cup {NoTopic}]
Packet == {p \in Fields : p.type = "SUBSCRIBE" => p.topic \in Topics}

Pkt(type, id, val, topic) == [type |-> type, id |-> id, val |-> val, topic |-> topic]
Plain(type, id) == Pkt(type, id, 0, NoTopic)
NoPacket == Plain("NONE", 0)
ReadFailed == Plain("ERROR", 0)

\* The packet type the caller of waitfor waits for.
Awaited(p) ==
  CASE p.type = "CONNECT" -> "CONNACK"
    [] p.type = "SUBSCRIBE" -> "SUBACK"
    [] p.type = "UNSUBSCRIBE" -> "UNSUBACK"
    [] p.type = "PUBLISH" /\ p.val = 1 -> "PUBACK"
    [] p.type = "PUBLISH" /\ p.val = 2 -> "PUBCOMP"
    [] OTHER -> "NOTHING"
WaitsForAck(p) == Awaited(p) # "NOTHING"

-----------------------------------------------------------------------------
(* Writing.  A live connection refuses a write when its window stays full; one *)
(* the peer has closed swallows it or fails it.                                *)

\* TimerCountdown(&c->ping_timer, c->keepAliveInterval)
CountdownPing == ping_timer' = (keepAliveInterval = 0)

Live == link \in {"up", "silent"}
Written(p) ==
  /\ \/ Live /\ Len(toBroker) < Window /\ toBroker' = Append(toBroker, p)
     \/ ~Live /\ UNCHANGED toBroker
  /\ CountdownPing
CannotWrite == Live => Len(toBroker) = Window
NotWritten == UNCHANGED <<toBroker, ping_timer>>

\* sendPacket: nothing is written once the timer has run out.
Sent(p) == ~timer /\ Written(p)
NotSent == (timer \/ CannotWrite) /\ NotWritten

-----------------------------------------------------------------------------
(* Calls. *)

\* Mutant: the wrap comes one id too late.
Mutant_getNextPacketId == IF next_packetid > MaxPacketId THEN 1 ELSE next_packetid + 1
getNextPacketId == IF next_packetid = MaxPacketId THEN 1 ELSE next_packetid + 1

Idle == pc = "idle" /\ link # "down"

Return(code) ==
  /\ pc' = "idle" /\ rc' = code
  /\ call' = NoPacket /\ packet' = NoPacket /\ handled' = FALSE /\ timer' = FALSE
  /\ taken' = FALSE

\* The request is in the send buffer and its timer runs.
Begin(p) ==
  /\ pc' = "send" /\ call' = p /\ rc' = FAILURE
  /\ UNCHANGED <<packet, handled, timer, taken>>
\* The request is longer than the send buffer.
TooLong == Return(FAILURE)

MQTTConnect ==
  /\ Idle
  /\ \/ isconnected /\ Return(FAILURE) /\ UNCHANGED ping_timer
     \/ ~isconnected /\ CountdownPing /\ (Begin(Plain("CONNECT", 0)) \/ TooLong)
  /\ UNCHANGED <<isconnected, next_packetid, ping_outstanding, messageHandlers, network,
                 unacked, subscribed>>

\* What MQTTSubscribe, MQTTUnsubscribe and MQTTPublish begin with.
NotConnected == ~isconnected /\ Return(FAILURE) /\ UNCHANGED next_packetid
WithNextId(type, val, topic) ==
  /\ next_packetid' = getNextPacketId
  /\ Begin(Pkt(type, getNextPacketId, val, topic)) \/ TooLong
Request ==
  UNCHANGED <<isconnected, ping_outstanding, messageHandlers, ping_timer, network, unacked,
              subscribed>>

MQTTSubscribe(t) ==
  /\ Idle
  /\ NotConnected \/ (isconnected /\ WithNextId("SUBSCRIBE", 0, t))
  /\ Request
MQTTUnsubscribe(t) ==
  /\ Idle
  /\ NotConnected \/ (isconnected /\ WithNextId("UNSUBSCRIBE", 0, t))
  /\ Request
MQTTPublish(t, qos) ==
  /\ Idle
  /\ \/ NotConnected
     \/ isconnected /\ qos # 0 /\ WithNextId("PUBLISH", qos, t)
     \/ /\ isconnected /\ qos = 0
        /\ Begin(Pkt("PUBLISH", 0, 0, t)) \/ TooLong
        /\ UNCHANGED next_packetid
  /\ Request
MQTTYield ==
  /\ Idle
  /\ pc' = "read" /\ rc' = SUCCESS
  /\ UNCHANGED <<call, packet, handled, timer, client, network, history>>
MQTTDisconnect ==
  /\ Idle
  /\ Begin(Plain("DISCONNECT", 0))
  /\ UNCHANGED <<client, network, unacked, subscribed>>

\* A request ends without its acknowledgement.
Fail ==
  /\ Return(FAILURE)
  /\ unacked' = IF WaitsForAck(call) THEN unacked \cup {call.id} ELSE unacked

\* sendPacket in the body of a call.  MQTTDisconnect forgets the session either way.
SendPacket ==
  /\ pc = "send"
  /\ \/ /\ Sent(call) /\ WaitsForAck(call)
        /\ pc' = "check" /\ UNCHANGED <<call, packet, handled, timer, rc, taken, unacked>>
     \/ Sent(call) /\ ~WaitsForAck(call) /\ Return(SUCCESS) /\ UNCHANGED unacked
     \/ NotSent /\ Fail
  /\ isconnected' = (isconnected /\ call.type # "DISCONNECT")
  /\ UNCHANGED <<next_packetid, ping_outstanding, messageHandlers, link, toClient, subs,
                 subscribed>>

\* Mutant: waitfor reads on without looking at its timer.
Mutant_CheckTimer ==
  /\ pc = "check" /\ pc' = "read"
  /\ UNCHANGED <<call, packet, handled, timer, rc, client, network, history>>
\* The loop test of waitfor and of MQTTYield.
CheckTimer ==
  /\ pc = "check"
  /\ \/ ~timer /\ pc' = "read" /\ UNCHANGED <<call, packet, handled, timer, rc, taken, unacked>>
     \/ timer /\ call # NoPacket /\ Fail
     \/ timer /\ call = NoPacket /\ Return(SUCCESS) /\ UNCHANGED unacked
  /\ UNCHANGED <<client, network, subscribed>>

-----------------------------------------------------------------------------
(* cycle *)

\* deliverMessage: whether some slot holds the topic, and so its handler runs.
deliverMessage(t) == \E i \in 1..MaxHandlers : messageHandlers[i] = t

\* Mutant: the PUBREL goes out with no packet id.
Mutant_Answer(p) ==
  CASE p.type = "PUBLISH" /\ p.val = 1 -> Plain("PUBACK", p.id)
    [] p.type = "PUBLISH" /\ p.val = 2 -> Plain("PUBREC", p.id)
    [] p.type = "PUBREC" -> Plain("PUBREL", 0)
    [] OTHER -> NoPacket
\* The acknowledgement cycle sends for what it has read.
Answer(p) ==
  CASE p.type = "PUBLISH" /\ p.val = 1 -> Plain("PUBACK", p.id)
    [] p.type = "PUBLISH" /\ p.val = 2 -> Plain("PUBREC", p.id)
    [] p.type = "PUBREC" -> Plain("PUBREL", p.id)
    [] OTHER -> NoPacket

ReadPacket ==
  /\ pc = "read" /\ link # "silent" /\ toClient # <<>>
  /\ LET p == Head(toClient) IN
     /\ packet' = p
     /\ pc' = IF Answer(p) = NoPacket THEN "keepalive" ELSE "answer"
     /\ handled' = (p.type = "PUBLISH" /\ deliverMessage(p.topic))
     /\ ping_outstanding' = (ping_outstanding /\ p.type # "PINGRESP")
  /\ toClient' = Tail(toClient)
  /\ UNCHANGED <<isconnected, next_packetid, messageHandlers, ping_timer, call, timer, rc,
                 link, toBroker, subs, history>>

ReadsNoPacket(p) ==
  /\ packet' = p /\ pc' = "keepalive"
  /\ UNCHANGED <<client, call, handled, timer, rc, toBroker, toClient, subs, history>>
\* The read waits as long as the timer leaves; on a live connection, what is under way
\* may come too late.
ReadTimeout == pc = "read" /\ timer /\ Live /\ ReadsNoPacket(NoPacket) /\ UNCHANGED link
\* The peer's close_notify passes for a read that found nothing ...
ReadCloseNotify ==
  pc = "read" /\ link = "notify" /\ toClient = <<>> /\ ReadsNoPacket(NoPacket) /\ link' = "closed"
\* ... and only the end of the connection for an error.
ReadError ==
  pc = "read" /\ link = "closed" /\ toClient = <<>> /\ ReadsNoPacket(ReadFailed) /\ UNCHANGED link

\* The acknowledgement goes out under the timer of the call that is waiting.
SendAnswer ==
  /\ pc = "answer"
  /\ \/ Sent(Answer(packet)) /\ pc' = "keepalive" /\ UNCHANGED packet
     \/ NotSent /\ pc' = "cycled" /\ packet' = ReadFailed
  /\ UNCHANGED <<isconnected, next_packetid, ping_outstanding, messageHandlers, call, handled,
                 timer, rc, link, toClient, subs, history>>

\* keepalive, whose result cycle ignores.
\* Mutant: an unanswered ping does not stop the next one.
Mutant_PingDue == keepAliveInterval # 0 /\ ping_timer
PingDue == keepAliveInterval # 0 /\ ping_timer /\ ~ping_outstanding
keepalive ==
  /\ pc = "keepalive" /\ pc' = "cycled"
  /\ \/ PingDue /\ Written(Plain("PINGREQ", 0)) /\ ping_outstanding' = TRUE
     \/ (PingDue => CannotWrite) /\ NotWritten /\ UNCHANGED ping_outstanding
  /\ UNCHANGED <<isconnected, next_packetid, messageHandlers, call, packet, handled, timer, rc,
                 link, toClient, subs, history>>

-----------------------------------------------------------------------------
(* What the callers of cycle do with its result. *)

FreeSlots == {i \in 1..MaxHandlers : messageHandlers[i] = NoTopic}
FirstFree == CHOOSE i \in FreeSlots : \A j \in FreeSlots : i <= j

\* Mutant: a handler only for a granted QoS above 0.
Mutant_InstallAboveQoS0(t, granted) ==
  IF granted \notin {0, REFUSED} /\ FreeSlots # {}
  THEN Return(SUCCESS) /\ messageHandlers' = [messageHandlers EXCEPT ![FirstFree] = t]
  ELSE Return(granted) /\ UNCHANGED messageHandlers
\* Mutant: a refused subscription is taken for a granted one.
Mutant_InstallRefused(t, granted) ==
  IF FreeSlots # {}
  THEN Return(SUCCESS) /\ messageHandlers' = [messageHandlers EXCEPT ![FirstFree] = t]
  ELSE Return(granted) /\ UNCHANGED messageHandlers
\* MQTTSubscribe installs its handler in the first free slot, if there is one.
Install(t, granted) ==
  IF granted # REFUSED /\ FreeSlots # {}
  THEN Return(SUCCESS) /\ messageHandlers' = [messageHandlers EXCEPT ![FirstFree] = t]
  ELSE Return(granted) /\ UNCHANGED messageHandlers

\* Mutant: waitfor takes any packet it gets for the one it waits for.
Mutant_GotAck == WaitsForAck(call) /\ packet.type \notin {"NONE", "ERROR"}
\* The awaited packet has come; the callers look at its type and not at its id.
GotAck == WaitsForAck(call) /\ packet.type = Awaited(call)

Acknowledged ==
  /\ pc = "cycled" /\ GotAck
  /\ CASE call.type = "CONNECT" -> Return(packet.val) /\ UNCHANGED messageHandlers
       [] call.type = "SUBSCRIBE" -> Install(call.topic, packet.val)
       [] OTHER -> Return(SUCCESS) /\ UNCHANGED messageHandlers
  /\ isconnected' = (isconnected \/ (call.type = "CONNECT" /\ packet.val = 0))
  /\ unacked' = IF packet.id = call.id THEN unacked ELSE unacked \cup {call.id}
  /\ subscribed' = CASE call.type = "SUBSCRIBE" /\ rc' = SUCCESS -> subscribed \cup {call.topic}
                      [] call.type = "UNSUBSCRIBE" -> subscribed \ {call.topic}
                      [] OTHER -> subscribed
  /\ UNCHANGED <<next_packetid, ping_outstanding, ping_timer, network>>

\* waitfor goes round again whatever it got, an error too; MQTTYield stops on one.
Again ==
  /\ pc = "cycled" /\ ~GotAck /\ (call = NoPacket => packet.type # "ERROR")
  /\ pc' = "check" /\ packet' = NoPacket /\ handled' = FALSE
  /\ UNCHANGED <<call, timer, rc, client, network, history>>
YieldFails ==
  /\ pc = "cycled" /\ call = NoPacket /\ packet.type = "ERROR"
  /\ Return(FAILURE)
  /\ UNCHANGED <<client, network, unacked, subscribed>>

-----------------------------------------------------------------------------
(* The session: NetworkConnect and MQTTClientInit, NetworkDisconnect. *)

NetworkConnect ==
  /\ link = "down" /\ link' = "up"
  /\ toBroker' = <<>> /\ toClient' = <<>> /\ subs' = {}
  /\ unacked' = {} /\ taken' = FALSE /\ subscribed' = {}
MQTTClientInit ==
  /\ messageHandlers' = [i \in 1..MaxHandlers |-> NoTopic]
  /\ isconnected' = FALSE /\ ping_outstanding' = FALSE
  /\ next_packetid' = 1
  /\ ping_timer' = TRUE   \* TimerInit: an end time of 0
NetworkDisconnect ==
  /\ link' = "down"
  /\ toBroker' = <<>> /\ toClient' = <<>> /\ subs' = {}

OpenSession == pc = "idle" /\ NetworkConnect /\ MQTTClientInit /\ UNCHANGED frame
CloseSession == Idle /\ NetworkDisconnect /\ UNCHANGED <<client, frame, history>>

-----------------------------------------------------------------------------
(* The broker, the link and the clock. *)

\* The one-packet answers a broker may give to p, or no answer.
Replies(p) ==
  CASE p.type = "CONNECT" -> {<<Pkt("CONNACK", p.id, v, NoTopic)>> : v \in {0, 5}}
    [] p.type = "SUBSCRIBE" -> {<<Pkt("SUBACK", p.id, v, NoTopic)>> : v \in GrantedQoS}
    [] p.type = "UNSUBSCRIBE" -> {<<Plain("UNSUBACK", p.id)>>}
    [] p.type = "PUBLISH" /\ p.val = 1 -> {<<Plain("PUBACK", p.id)>>}
    [] p.type = "PUBLISH" /\ p.val = 2 -> {<<Plain("PUBREC", p.id)>>}
    [] p.type = "PUBREC" -> {<<Plain("PUBREL", p.id)>>}
    [] p.type = "PUBREL" -> {<<Plain("PUBCOMP", p.id)>>}
    [] p.type = "PINGREQ" -> {<<Plain("PINGRESP", 0)>>}
    [] OTHER -> {<<>>}

\* It closes the connection on DISCONNECT and after refusing a CONNECT.
BrokerReceives ==
  /\ link = "up" /\ toBroker # <<>> /\ Len(toClient) < Window
  /\ LET p == Head(toBroker) IN \E r \in Replies(p) :
     /\ toClient' = toClient \o r
     /\ subs' = CASE p.type = "SUBSCRIBE" /\ r[1].val # REFUSED -> subs \cup {p.topic}
                  [] p.type = "UNSUBSCRIBE" -> subs \ {p.topic}
                  [] OTHER -> subs
     /\ link' = IF \/ p.type = "DISCONNECT"
                   \/ p.type = "CONNECT" /\ r[1].val # 0
                THEN "closed" ELSE "up"
     /\ toBroker' = IF link' = "up" THEN Tail(toBroker) ELSE <<>>
     /\ taken' = (taken \/ (WaitsForAck(p) /\ p = call))
  /\ UNCHANGED <<client, frame, unacked, subscribed>>

BrokerPublishes(t, qos) ==
  /\ link = "up" /\ t \in subs /\ Len(toClient) < Window
  /\ toClient' = Append(toClient, Pkt("PUBLISH", IF qos = 0 THEN 0 ELSE 1, qos, t))
  /\ UNCHANGED <<client, frame, link, toBroker, subs, history>>

\* The peer leaves, with or without a close_notify; a link that loses its way holds
\* what is in it, until it comes back or the peer has given up.
LinkChanges ==
  /\ \/ link = "up" /\ link' \in {"notify", "closed", "silent"}
     \/ link = "silent" /\ link' \in {"up", "closed"}
  /\ toBroker' = IF link' \in {"notify", "closed"} THEN <<>> ELSE toBroker
  /\ UNCHANGED <<client, frame, toClient, subs, history>>

TimerExpires ==
  /\ pc # "idle" /\ ~timer /\ timer' = TRUE
  /\ UNCHANGED <<client, pc, call, packet, handled, rc, network, history>>
\* Only keepalive looks at ping_timer, so it may as well run out just before.
PingTimerExpires ==
  /\ pc = "keepalive" /\ ~ping_timer /\ ping_timer' = TRUE
  /\ UNCHANGED <<isconnected, next_packetid, ping_outstanding, messageHandlers, frame, network,
                 history>>

-----------------------------------------------------------------------------
Init ==
  /\ isconnected = FALSE /\ next_packetid = 1 /\ ping_outstanding = FALSE
  /\ messageHandlers = [i \in 1..MaxHandlers |-> NoTopic] /\ ping_timer = TRUE
  /\ pc = "idle" /\ call = NoPacket /\ packet = NoPacket /\ handled = FALSE
  /\ timer = FALSE /\ rc = SUCCESS
  /\ link = "down" /\ toBroker = <<>> /\ toClient = <<>> /\ subs = {}
  /\ unacked = {} /\ taken = FALSE /\ subscribed = {}

\* What the calling thread does by itself once a call has begun.
ClientStep ==
  \/ SendPacket \/ CheckTimer
  \/ ReadPacket \/ ReadTimeout \/ ReadCloseNotify \/ ReadError
  \/ SendAnswer \/ keepalive
  \/ Acknowledged \/ Again \/ YieldFails
Environment ==
  \/ BrokerReceives
  \/ \E t \in Topics, q \in InboundQoS : BrokerPublishes(t, q)
  \/ LinkChanges \/ TimerExpires \/ PingTimerExpires
Application ==
  \/ OpenSession \/ CloseSession
  \/ MQTTConnect \/ MQTTYield \/ MQTTDisconnect
  \/ \E t \in Topics : MQTTSubscribe(t) \/ MQTTUnsubscribe(t)
  \/ \E t \in Topics, q \in PublishQoS : MQTTPublish(t, q)

Next == ClientStep \/ Environment \/ Application
Spec == Init /\ [][Next]_vars

\* The thread runs, and time passes.
Fairness == WF_vars(ClientStep) /\ WF_vars(TimerExpires)
FairSpec == Spec /\ Fairness

-----------------------------------------------------------------------------
(* Properties. *)

Steps == {"idle", "send", "check", "read", "answer", "keepalive", "cycled"}

\* The shape of struct MQTTClient, of a call's local variables, and of the connection.
ClientType ==
  /\ isconnected \in BOOLEAN /\ ping_outstanding \in BOOLEAN /\ ping_timer \in BOOLEAN
  /\ next_packetid \in 1..MaxPacketId
  /\ messageHandlers \in [1..MaxHandlers -> Topics \cup {NoTopic}]
FrameType ==
  /\ pc \in Steps /\ call \in Packet /\ packet \in Packet
  /\ handled \in BOOLEAN /\ timer \in BOOLEAN /\ rc \in -1..128 /\ taken \in BOOLEAN
NetworkType ==
  /\ link \in {"down", "up", "silent", "notify", "closed"}
  /\ toBroker \in Seq(Packet) /\ Len(toBroker) <= Window
  /\ toClient \in Seq(Packet) /\ Len(toClient) <= Window
  /\ subs \subseteq Topics /\ subscribed \subseteq Topics /\ unacked \subseteq Ids
\* Every variable has its type: a packet id stays within MAX_PACKET_ID, and neither
\* direction of the connection exceeds its window.
TypeOK == ClientType /\ FrameType /\ NetworkType

\* While no request of the session has ended without its own acknowledgement, the
\* packet that ends waitfor acknowledges the very request the call has sent, and the
\* broker has received that request.  waitfor looks at the packet's type alone
\* (MQTTClient.c:359) and every caller ignores its packet id.
CleanSessionAck ==
  (pc = "cycled" /\ GotAck /\ unacked = {}) => (packet.id = call.id /\ taken)

\* Every acknowledgement a call accepts is that of a request of this session: of the
\* call itself, or of an earlier one that was given up.  So late packets of a session
\* never confirm a request of the next one.
AckOfThisSession ==
  (pc = "cycled" /\ GotAck) => packet.id \in unacked \cup {call.id}

\* ping_outstanding counts the pings under way: while the connection holds, it is set
\* exactly when one PINGREQ or its PINGRESP is between the client and the broker, so
\* keepalive never has two pings outstanding and never stops pinging for good.
OfType(s, type) == {i \in 1..Len(s) : s[i].type = type}
PingAccounting ==
  Live => Cardinality(OfType(toBroker, "PINGREQ")) + Cardinality(OfType(toClient, "PINGRESP"))
          = IF ping_outstanding THEN 1 ELSE 0

\* A message for a filter whose MQTTSubscribe returned SUCCESS reaches a handler, unless
\* all handler slots were taken, when MQTTSubscribe may return SUCCESS without a slot.
NoMessageMissed ==
  (packet.type = "PUBLISH" /\ packet.topic \in subscribed) => (handled \/ FreeSlots = {})

\* Between calls of a session in which every request got its own acknowledgement, the
\* client and the broker agree: what MQTTSubscribe reported is what the broker serves.
SubscriptionsAgree ==
  (pc = "idle" /\ Live /\ unacked = {}) => subscribed \subseteq subs

\* Every call of the API returns: waitfor goes round on errors and on packets nobody
\* waits for, and only its timer bounds it.
CallsReturn == pc # "idle" ~> pc = "idle"
=============================================================================

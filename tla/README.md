# A verification development of the ESP32 MQTT reporter

The firmware (`src/main`) connects an ESP32 to Wi-Fi, opens a TLS connection to an MQTT broker,
subscribes to one topic, and publishes the state of its sensors once a minute. This directory
holds TLA+ modules translated from its source, the TLC configurations that check them on small
instances, and theorems that TLAPS proves for every value of the constants. `PROJECT.json` maps
each definition to the lines it stands for.

Line numbers below are those of `src/main/MQTTClient-C/src/MQTTClient.c` (*MQTTClient.c*),
`src/main/MQTTClient-C/src/mbedtls/MQTTmbedtls.c` (*MQTTmbedtls.c*), `src/main/mqtt.c`,
`src/main/wwifi.c` and `src/components/ds18b20/ds18b20.c`.

## 1. The system

| Component | State it keeps | Operations |
|---|---|---|
| MQTT client (`MQTTClient.c`) | `isconnected`, `next_packetid`, `ping_outstanding`, handler slots, `ping_timer`, the send and read buffers | `MQTTConnect`, `MQTTSubscribe`, `MQTTUnsubscribe`, `MQTTPublish`, `MQTTYield`, `MQTTDisconnect`; inside them `sendPacket`, `waitfor`, `cycle`, `readPacket`, `keepalive`, `deliverMessage` |
| TLS and websocket network (`MQTTmbedtls.c`) | TLS context, `mqtt_recvbuf` with its length and offset, the websocket buffer | `NetworkConnect`, `NetworkDisconnect`, `mqtt_mbedtls_read`, `mqtt_mbedtls_write`, the timers over the wall clock |
| MQTT task (`mqtt.c`) | where it is, `ret`, the configuration `_m` | `mqtt_start`, `mqtt_init`, `mqtt_task`: wait for Wi-Fi, open, log in, subscribe, then report, sleep and yield until something fails, disconnect, again |
| Wi-Fi manager (`wwifi.c`) | `CONNECTED_BIT` and its event group, the table of event hooks | `wwifi_init`, `_event_handler`, `wwifi_connection_waiting` |
| Boot and NTP (`main.c`, `ntp.c`) | whether SNTP runs | `app_main`, `ntp_init` |
| MQTT packet codec (`MQTTPacket/src`) | none; `MQTTTransport` of the reader that does not wait | functions between packets and bytes, of a client and of a server; `MQTTPacket_readnb` |
| BLE switch client (`ble.c`) | the GATT interface, the connection, the command | `ble_task`, `ble_pairing`, the GAP and GATT callbacks; compiled, not called by `app_main` |
| Analog sensors (`components/analog_sensor`) | whether it is initialised, which ADC ports are allocated | init, cleanup, alloc, free, value |
| Temperature sensor (`components/ds18b20`) | whether it is initialised; the reading under way | `DS_init`, `DS_get_temp` |

How they interact. `mqtt_task` is the only thread that calls the client, and the client is the
only caller of the network: there are no locks (`MQTT_TASK` is not defined). The concurrency is
with what surrounds the thread while a call blocks: the broker answers, refuses, publishes or
leaves; the link loses packets' way or ends; the timers of a call and of the pings run out; the
Wi-Fi event task sets and clears `CONNECTED_BIT` and starts NTP, whose answers set the clock that
the timers read. A call of the API is therefore many steps. The sensors are read by the same task,
over hardware that changes between two bytes of a reading.

What is hard. A call gives up on its timer and its acknowledgement arrives in the next call; a
message for the application arrives in the middle of a call that waits for something else; packet
ids wrap; a `PINGRESP` is read by whoever reads next; an error inside `cycle` is dropped by
`waitfor` and not by `MQTTYield`; the task reopens the connection and nothing of the old session
may leak into the new; a TLS record ends in the middle of a packet; the station's events are
handled later than they happen; the clock is set under running timers; a Bluetooth callback answers
to what was asked two requests ago. `PROJECT.json` lists each at
the line where it bites.

What makes each part correct:

* client: every call returns; an acknowledgement confirms the request it was accepted for, unless
  an earlier request was given up in the same session; a message for a subscribed filter reaches a
  handler; at most one ping is under way and pings never stop for good; the subscriptions it
  reported are those the broker serves;
* network: the packets come out whole, once and in order, however the stream is cut, and no copy
  of `mqtt_mbedtls_read` leaves `mqtt_recvbuf` or exceeds what was asked for;
* task: while it reports it can be reached, it never believes more publishes delivered than were,
  a closed connection leads to a new one;
* Wi-Fi and boot: whatever part of the start-up fails, nobody uses the event group before it is
  there; the bit follows the station, which always tries again; timers keep their time;
* codec: each packet fits where it was measured to fit and means the same to its reader; the reader
  that does not wait loses nothing between its calls;
* switch: a pairing ends, leaves nothing behind, and writes nothing but its command;
* sensors: a port has one user and the attenuation it asked for; a reading is what the sensor
  measured.

## 2. The modules

| Module | Models |
|---|---|
| `MQTTClient` | the client, one API call as a sequence of steps, with broker, link and clock |
| `MCMQTTClient` | `MQTTClient` with a state constraint for TLC |
| `MqttTask` (EXTENDS `MQTTClient`) | `mqtt_task` and its publishers over the client, with the Wi-Fi bit |
| `NetworkReader` | `readPacket` and `decodePacket` over `mqtt_mbedtls_read` and `buffered_mbedtls_read`, byte by byte |
| `NonBlockingReader` | `MQTTPacket_readnb` and `MQTTPacket_decodenb` |
| `PacketBytes` | packets as the bytes the two readers take them from |
| `PacketStream` | the abstract channel that both readers implement |
| `TopicMatch` | `isTopicMatched` and the test of `deliverMessage`, and which filters match by MQTT's levels |
| `PacketCodec` (EXTENDS `TopicMatch`) | the serializers and deserializers of `MQTTPacket/src`, of the client and of a server |
| `Timers` | the timers of `MQTTmbedtls.c` and the timeouts of its sockets |
| `Boot` (EXTENDS `Timers`) | `app_main`, `wwifi.c`, `ntp.c`, the wait of `mqtt_task`, and the clock |
| `Ble` | `ble.c` over a stack of requests and events |
| `AnalogSensor`, `Ds18b20` | the two sensor components |
| `Sensors` (EXTENDS both) | `mqtt_init`, with `MCSensors` for TLC |
| `MqttTaskProofs` | the theorems about `MQTTClient` and `MqttTask` |
| `NetworkReaderProofs`, `NonBlockingReaderProofs`, `BootProofs`, `BleProofs`, `SensorsProofs`, `PacketCodecProofs` | the theorems about each |
| `PacketBytesProofs` | lemmas about streams of whole packets |

### MQTTClient

`pc` names the next step of the call in progress: `send` (`sendPacket`), `check` (the loop test of
`waitfor` and `MQTTYield`), `read` (`readPacket` in `cycle`), `answer` (the acknowledgement
`cycle` sends), `keepalive`, `cycled` (the caller looks at `cycle`'s result). The actions bear the
names of the functions; what a function does in one go without blocking is one action. `call` is
the request being sent (or nothing, for `MQTTYield`), `timer` tells whether the call's `Timer` has
run out, `ping_timer` whether the client's has. A struct field keeps its name.

The broker (`Replies`, `BrokerReceives`, `BrokerPublishes`) and the link (`link`, `toBroker`,
`toClient`, `LinkChanges`) are external, and modelled from how the client uses them: the broker may
grant or refuse, answers in order, and may publish on a served filter at any time; the link is `up`,
`silent` (holds what is in it), `notify` (a close_notify comes first, which
`buffered_mbedtls_read` takes for no data, *MQTTmbedtls.c* 253), `closed` or `down`.

Abstractions: a packet is its type, id, one value and a topic; packets are read and written
wholly or not at all; topics match by equality (the firmware uses no wildcard); a packet too long
for the send buffer is the alternative `TooLong`; message handlers do not call the client (the
firmware's handler only logs). `MQTTRun`, which nothing calls, is left out.

`unacked`, `taken` and `subscribed` are history: ids given up in this session, whether the broker
has got the request of the call, and what `MQTTSubscribe` has reported.

### MqttTask

`task` is the line `mqtt_task` is at; a step ending in *-ing* has a call of the client in
progress, and the next step takes up its result `rc`. `Published` keeps the code's order: the
publishers' results go nowhere, and after the last the task tests `ret` (*mqtt.c* 251-261).
`credit` counts the PUBLISHes of the session the broker has received less those the client reported
sent. `Crashes` stands for the undefined outcome of calling `MQTTDisconnect` and
`NetworkDisconnect` after a failed `NetworkConnect` (203-205, 274-275): an ordinary failure
(`DisconnectsNothing`) or a restart.

### NetworkReader and PacketStream

One request to `mqtt_mbedtls_read` is `FirstFill` or `NoFill`, then `Copy`, or `CopyRemain` and as
many `Refill` and `CopyMore` as it takes, then `Complete`. `readPacket` asks for the header
(`HeaderRead`), for one digit of the remaining length at a time (`LengthRead`, which is
`decodePacket`) and for the body (`BodyRead`). A byte carries its place in the stream, so that one
nobody sent can be told apart; a piece the TLS layer returns is any non-empty prefix of the bytes
under way that leaves one index of the buffer free. A digit's base is a constant (128 in the code),
so that a short packet has a length of two digits.

`PacketStream` is the promise: sent packets come out whole, once and in order, or the read tells
there is none. `NetworkReader` implements it (`StreamSpec`) until a packet has come apart: until a
request needed a second piece, or found none in the middle of a packet. That is what justifies the
whole-packet channels of `MQTTClient`, and the condition says how far it does.

### NonBlockingReader

The library's other reader, which the firmware does not use. A step is one use of `getfn` and what
follows it up to the next one, so a call that ends with "call again" and the call after it go on
where a loop would. `len` and `rem_len` mean one thing while the length is read (uses of `getfn`,
the value so far) and another afterwards (bytes in the buffer, bytes to come); the code keeps both
in the same fields of `MQTTTransport`, and so does the model. It implements `PacketStream` as well,
until a packet is given up: `broken` says that one was.

### PacketCodec and TopicMatch

One packet at a time: the client writes it (`Serialize...`) and it is read by a peer that goes by
the protocol (`PeerReads`) or by the library's server side (`ServerReads`); or such a peer sends one
(`PeerSends`), or the library's server side does (`MQTTSerialize_connack`, `_suback`, `_unsuback`),
and the client reads it (`ClientReads`). The buffers hold bytes, because a length measured by one
function and written by another is what can be wrong here. The protocol's peer is external: it
takes each string by its length, and a packet whose strings or remaining length do not add up is
`Malformed`. An absent string differs from an empty one, as a NULL pointer does. MQTT's QoS 0
publish has no id, written 0; the code leaves the variable alone and `cycle` does not use it. Lists
of one and of two filters stand for any.

`MQTTDeserialize_suback` takes the number of codes its caller has room for and lets one more
through; `MQTTSubscribe` has room for one (`MaxCount`), so a SUBACK of two codes is stored past it:
`Overrun`, an outcome like `Malformed`. The server side's lists of filters are compared with
nothing, and the arrays its caller passes are taken to be long enough. `MQTTDeserialize_connect`
looks at the version and leaves the one in its caller's structure, which is taken to be that of
`MQTTPacket_connectData_initializer` (`InitialVersion`). An `MQTTString` has two forms, a C string
or a length with its bytes; they are one here.

`TopicMatch` has the walk of the two pointers as a recursive function, and apart from it `Levels`
and `Matches`, which know nothing of characters' positions.

### Timers and Boot

`Timers` is the arithmetic on `struct timeval`, with the numbers of microseconds and milliseconds as
constants; numbers do not overflow in it. `Boot` runs three tasks side by side: `app_main`, which
goes through `wwifi_init` call by call, each of which may fail, and then starts `mqtt_task`
regardless; the event loop (`_event_handler`), which sees what the station did in the order it did
it, later; and `mqtt_task`, reduced to its wait and to calls under one timer. `wwifi_init` returns
on a failure, except that it does not look at the result of `xEventGroupCreate` (*wwifi.c* 104):
without memory `group` is `"none"` and it goes on. A task that sets, clears or awaits bits of a
group that is not there panics, and the device restarts (`Restart`). The station takes an
`esp_wifi_connect` only when idle, and its queue drops what finds no room; that the call fails for
another reason is left out (its result is ignored, *wwifi.c* 44, 65). The time server sets the clock
forward or back at any time, once NTP runs. `elapsed` and `stepped` are history: the time that
really went by since the timer was set, and whether the clock was set under it.

### Ble

Each request `ble.c` makes goes into `requests`, each callback takes one of `events`; the stack
answers requests in order or ignores those it cannot serve. `Handles` has a disjunct for each case
of `_ble_gap_cb` and `esp_gattc_cb` that requests something or writes a variable; an event of an
interface that is not `gif` is dropped, as the loop over one profile does. The caller pairs again
after `unregistered()`. `written`, `stops` and `lost` are history.

### AnalogSensor, Ds18b20 and Sensors

The users of the ADC ask for any port and any voltage, the module is initialised and cleaned up at
any time, and `mqtt_init` allocates its two ports in between. A reading of the temperature goes byte
by byte and reset pulse by reset pulse. Between any two of them the sensor may leave the bus, come
back (with 85 degrees in its memory, as at power-up) or be shorted (the bus reads zeros). Without a
sensor the bus reads ones. `RST_PULSE` looks twice and the second look counts (*ds18b20.c* 75-77):
the bus is then high again, so only a short reads as no sensor.

## 3. The runs

| Run | Shows |
|---|---|
| `client_full` | `TypeOK`, `NoMessageMissed`, `PingAccounting`, `SubscriptionsAgree`, `CallsReturn`: every API call, sessions without limit, pings on, QoS 0 and 2 published and 1 and 2 received, granted and refused subscriptions, every way a peer can leave |
| `client_acks` | `CleanSessionAck`, `AckOfThisSession`: two packets under way in each direction and ids that wrap at 2 |
| `task` | `TaskTypeOK`, `HandshakeAcksAreOwn`, `ReportingIsReachable`, `NoOverReport`, and `ClosedLinkRestarts` |
| `reader` | `CopiesWithinBounds` and the refinement `StreamSpec` |
| `codec` | `Fits`, `RoundTrip`, `ServerUnderstands`, `RightHandlers`: every packet, through buffers too short, just long enough and ample |
| `nb` | `RestFits`, the refinement `StreamSpec`, and `PacketsComeOut`: pauses and pieces anywhere in a packet |
| `boot` | `NoNeedlessRestart`, `BitCatchesUp`, `NeverStranded`, `ExpiryOnTime`, `SocketsWaitAWhile`, `ComesThrough` |
| `ble` | `CommandOncePerStop`, `NothingLeft`, `PairingEnds` |
| `sensors` | `HolderIsUndisturbed`, `PortsAccounted`, `ReadingIsRight`, `PlausibleIsReal` |
| `v_report`, `v_reader`, `v_temp` | the findings of section 5 |

Bounds, and why they are enough.

* `MaxPacketId` 2 (1 in `client_full`): an id is reused while the acknowledgement of its first
  use is under way, the case that 65535 ids hide. `MaxHandlers` 1 or 2: a full table and a free
  slot.
* `Topics`: one filter, or one subscribed and one reported. Slots compare topics by equality only.
* `Window` 1 or 2 packets in each direction: 1 suffices for a full send window; 2 for a late
  acknowledgement ahead of the right one.
* `MaxUnacked` 1 (`client_acks`): a state with more requests given up is checked and not explored
  further. The theorems drop this bound.
* `MaxCredit` 1, `Sensors` 1: one sensor has both its reports, and the report of the device comes
  before; more sensors repeat the pattern. `MaxCredit` stops the broker from reading a second
  unreported publish; one that is read and reported failed is the case `NoOverReport` is about.
* `reader`: base 2, bodies of 0, 1 and 3 bytes, three packets, a buffer of 8: lengths of one and of
  two digits, a packet of 6 bytes that spans two pieces, a piece that fills the buffer.
* `codec`: base 3, so that the thresholds of `MQTTPacket_len` (128, 16384 and 2097151 in the code)
  are 3, 9 and 26 and packets of a few dozen bytes lie on both sides of each; strings of 0, 2 and 7
  bytes, so that two strings that change places are noticed; buffers of 1 to 80 bytes. Options the
  firmware leaves unused (wills, MQTT 3.1) are part of the library's interface and are included.
  Filters and names of up to four characters have up to five levels, empty ones among them, and
  every place for a wildcard.
* `nb`: base 2, so that lengths 0 and 1 have one digit and 2 and 3 two; four tries for the length,
  as in the code; a buffer of 5 bytes, which a packet of length 2 fills (1 + 2 + 2) and one of
  length 3 exceeds; three packets, so that one follows a packet that was given up.
* `boot`: two microseconds in a millisecond and two milliseconds in a second, so that a timeout of 3
  ms has seconds and milliseconds and every carry and borrow happens within a clock of 11
  microseconds; a socket waits 1 microsecond at least. Names and passwords that fit and that are too
  long. An event queue of 3 (32 in `sdkconfig`) is never full when it matters; with one of 2 TLC
  finds a dropped event, and `BitCatchesUp` and `NeverStranded` violated: the size is not idle.
* `ble`: three advertisements a scan, so that the switch may be seen twice before the stop takes
  effect and another device between; two interfaces, so that events of the last pairing's are told
  from the present one's. No pairing follows one whose scan was stopped twice: from then on the
  opens pile up without bound, and `NothingLeft` says nothing of them.
* `sensors`: two users and two ports; three of the four voltages of the enumeration, and one that is
  none. The temperatures are -16, 0, 1, 400 and 2000 sixteenths of a degree: below zero, zero, one
  whose high byte is zero, two with both bytes, the last at the end of the range. 1360, the value at
  power-up, is in the sensor's memory besides.

Deadlock is checked in every run but `boot` and `ble`. There the program may stop: a start-up that
fails behind the event group leaves a task that waits for ever and, once the clock has come to its
bound, nothing that happens; and a pairing that is lost has nothing that follows.

### Fairness

`CallsReturn` assumes `WF(ClientStep)`, since the FreeRTOS scheduler runs a ready thread and no
higher one keeps the processor, and `WF(TimerExpires)`, since the clock moves and every call has a
finite timeout (`MQTT_TIMEOUT_MS`, 60 s for the yield). `ClosedLinkRestarts` adds `WF(TaskStep)`,
and nothing else: neither broker nor link is fair, a silent peer may be silent for ever, and
Wi-Fi need not come back. `TimerExpires` may happen at once: NTP may step the clock.

`ComesThrough` assumes that `app_main`, the event loop and `mqtt_task` are scheduled, and speaks
only of runs in which the station keeps its address from some time on. `PacketsComeOut` assumes
that the caller calls again and that the transport, having bytes, does not say "call again" for
ever. `PairingEnds` assumes that the stack answers and calls back, that a scan ends (30 s), and
that opening a connection does not fail for ever; the retry of the code has no limit, so without
the last it would not hold.

## 4. The proofs

All theorems assume only what the modules assume of their constants: types, and where needed that
two constants differ or that a number lies in a range. Each is about every value of them.

The client (first part of `MqttTaskProofs`):

* `TypeCorrect`: `Spec => []TypeOK`. `TypeOK` is inductive; one lemma per group of actions.
* `AcksAreTracked`: `Spec => []AckInv`, the inductive invariant of the acknowledgements, and from
  it `CleanAcknowledgements` and `SessionAcknowledgements`. Neither property is inductive: what is
  accepted now was put on its way many steps ago, perhaps as a PUBREC that became a PUBREL and then
  a PUBCOMP. `AckInv` follows that relay. Call a packet *fresh* when it belongs to an acknowledged
  exchange and its id has not been given up. Then `BrokerTokens` and `ClientTokens` say
  that each direction holds at most one fresh packet, that it carries the id of
  the call in progress, and that a packet on its way back means that the broker has received the
  request; `HeldToken` says the same of the packet `cycle` has in hand, and `EmptyHand` ties the
  hand to the steps. A call that ends without its acknowledgement moves its id to `unacked`, which
  turns its token stale; then there is none, and the next call may start with the same
  id after a wrap.
* `PingsAreAccounted`: `PingAccounting`. It is inductive once it is known that no call sends a ping
  of its own (`PingInv`): the flag is set and cleared where a ping enters or its answer leaves.
* `SubscriptionsAreTracked`: `Spec => []SubInv`, and from it `SubscriptionsStayAgreed`. The
  agreement of handler slots and broker is made by three steps far apart: the broker serves the
  filter, its SUBACK travels, the client takes it. So while nothing of the session was given up,
  `SubInv` says that requests under way are the call's own (`OwnRequests`), that a SUBACK that
  grants finds its filter served, on the wire and in hand (`AcksHonoured`), and that every filter
  reported is served unless the call in progress gives it up (`FiltersServed`). It rests on
  `AckInv`, which says whose the one acknowledgement is.
* `MessagesReachHandlers`: `NoMessageMissed`. `SlotsInv` says that each reported filter has a slot
  or no slot is free, and that a message in hand has been looked up in the slots as they are.

The task over the client (second part of `MqttTaskProofs`). The task's steps call the client's and
add their own, so every invariant of the client is shown again of `TaskSpec` (`ClientUnderTask`);
`CallInv` then says which call may be in progress at which line of the task.

* `TaskTypes`: `TaskTypeOK`. `RoundInv` adds that a round starts no publish after its last.
* `HandshakeIsItsOwn`, `ReportingStaysReachable`: `HandshakeAcksAreOwn` and
  `ReportingIsReachable`. `HandshakeInv` carries both through a session: until the task has
  subscribed, nothing was given up and every slot is free (`Pristine`), since it leaves a session in
  which either request failed; past that, client and broker hold the request topic (`Reachable`).
* `ReportsAreBacked`: `NoOverReport`. `CreditInv` says that the PUBLISHes received and not yet
  reported sent are at least the PUBACKs on their way or in hand. That an accepted PUBACK is one of
  them is not enough: a late one must not be counted for two publishes, hence the count.

The readers (`NetworkReaderProofs`, `NonBlockingReaderProofs`, `PacketBytesProofs`):

* `BoundsHold`: `Spec => []CopiesWithinBounds` of `NetworkReader`, for every buffer size and every
  way the stream is cut. Its invariant adds the types of the stream, and that a served request left
  as many bytes as it returned, which is why the digit `LengthRead` looks at exists.
* `RestAlwaysFits`: `Spec => []RestFits` of `NonBlockingReader`. The invariant adds that the bytes
  under way are bytes, so that the value of a length is a number whatever digits come.
* `WholePackets` and `ReadsWholePackets`: `Spec => StreamSpec` of the two readers, that is,
  `MQTTPacket_readnb`, and `readPacket` over `mqtt_mbedtls_read`, over `PacketStream`: for every
  stream, cut anywhere, what they hand out are the packets sent, whole, once and in order, until
  one is given up or has come apart. Initial states map to initial states, a packet sent to a send,
  the last byte of a packet taken to a read, and all else stutters, or reads that there is none, or
  breaks. That needs `StreamInv`: until then, the bytes taken of the current packet followed by those
  ahead of it are exactly the packets not yet handed out (`Carries`), and the reader's variables say
  what it knows of the bytes it has taken (`Consumed`: the header, the first digit of a length, or
  the whole length and a part of the body). For `MQTTPacket_readnb` the bytes ahead are those on the
  wire. For `readPacket` they are also those in `mqtt_recvbuf` and in its hands (`Ahead`), and
  `mqtt_mbedtls_read` only moves bytes among them (`FilledMoves`, `CopyMoves`). The lemmas of
  `PacketBytesProofs` say what is left of such a stream when a digit, a piece or a whole packet
  is taken off it.

Boot and timers (`BootProofs`):

* `RestartsOnlyWithoutGroup`: `NoNeedlessRestart`. `OrderInv` has the order of `wwifi_init`: past
  the second step the group was asked for, unless the arguments were too long; up to there the
  station is off and has posted nothing, and before the last step there is no task.
* `BitFollowsStation` and `StationComesBack`: `BitCatchesUp` and `NeverStranded`. `EventsInv` lists
  the queues each state of the station allows and the bit that goes with them; in particular the
  station that lost its access point has a DISCONNECTED under way as the last of at most three
  events, and it connects again only when that is handled. So the queue never drops one. The
  theorem assumes a queue of three or more; `sdkconfig` gives it 32 and `boot.cfg` three.
* `ExpiresOnTime`, `CountdownIsExact`, `LeftIsRoundedDown`, `SocketWaitIsBounded` of `Timers`: what
  each function returns, in microseconds, across every carry and borrow, for every number of
  microseconds in a millisecond and of milliseconds in a second. From them and `ClockInv` (what is
  left on the clock is what is left of the call) follow `TimersKeepTime` and `SocketsComeBack`.

The switch and the sensors (`BleProofs`, `SensorsProofs`):

* `OnePlace`: `Ble` is in one of nine phases, each with the requests and events it allows, as long
  as no scan was stopped twice (`PhaseInv`), and from it `OverWhenTold`: `NothingLeft`. The phases
  are needed because every handler asks for the next step and tells nobody where it is.
* `WrittenOncePerStop`: `CommandOncePerStop`, without that condition. `TokenInv` counts: a stop of
  the scan puts one token into play, requests and answers hand it on, a written command uses it up.
* `HoldersAreUndisturbed`, `PortsAreAccounted` of `AnalogSensor` under `mqtt_init`: `AnalogInv`
  adds to the two properties that a port that was lost has no holder, without which a holder could
  give back a lost port. The driver is a value, so one lemma about `alloc` serves
  `analog_sensor_alloc` and, twice, `mqtt_init`.
* `ReadingsAreRight`, `PlausiblesAreReal` of `Ds18b20`, for every range of temperatures: neither is
  inductive. `Follows` says what a sensor that stays does in each step of a reading; `ComesAndGoes`
  what one that comes and goes can have in its memory, and that what was read are either two bytes
  of one temperature or a high byte of ones, which no temperature not below zero has.

The codec (`PacketCodecProofs`), for every base of the lengths of three or more, every length of
strings and payloads, every buffer size and every alphabet:

* `CodecInvariance`: `Spec => []CodecInv`. It says what lies in the buffer: the packet that its
  writer was given, framed by the header byte and the digits of its length (`Written` for the
  client's packets, `Sent` for the peer's). The rest is about bytes: `Unframed` takes the frame off
  again, and of each kind of packet there is one lemma that its body is as long as announced and
  one, for each reader, that it is read back (`ConnectRead`, `PeerConnectRead`, `SubscribeRead`,
  `PublishRead`, ...). `At(s, i, t, j)`, "t lies in s from byte i on and ends before byte j",
  carries the positions from the writer's concatenation to the reader's pointer.
* `PacketsFit`, `PacketsRoundTrip`, `PacketsAreServed`: `Fits`, `RoundTrip` and `ServerUnderstands`.
  A packet of the client lies in its buffer; an answer of the server side may run past its own by
  the fixed header. Read back as written are the CONNECTs of the client, by the protocol's peer, and
  all that the peer or the server side sends, by the client, except SUBACKs of more codes than the
  client has room for. Every packet of the client is understood by the server side, but for refused
  credentials and the version. The three assume what `LengthAssumption` says: the longest packet has
  a length of at most four digits (three, of a message of the peer), which is what
  `MQTTPacket_decode` reads. With the code's base of 128 that is 268 million bytes. And strings are
  no longer than their two bytes can tell.
* `HandlersMatch`: `RightHandlers`. `isTopicMatched` compares characters with two pointers, and
  MQTT's rule is about levels. So the invariant of the loop, `RightAnswer`, is about the suffixes
  at the two pointers: the answer for what is left is sound for the levels of what is left, and
  complete when they are `Clean` - no level of the name but perhaps the first, which may be the rest
  of one, is empty, and the name does not end before a `#`. Each branch of the loop is a lemma
  (`RightLetter`, `RightPlus`, `RightLevel`, `RightAny`; `WrongLetter`, `WrongLevel`, `WrongEnd`).

The codec's loops are recursive functions. The library's induction takes an operator as its
parameter, which these provers cannot instantiate; `Least` (a set of numbers that is not empty
has a least element, from `WellFoundedInduction`) needs none. From it follow `Induction` and
`Recursion`, both about sets and functions: a recursive function over an interval exists when each
of its values depends on the later ones only. They give each loop its recursive equation
(`PeerStringsLoop`, `RequestsAreRead`, `TopicFiltersLoop`, `LevelsLoop`, `MatchedLoop`), and the
induction over the positions is then a proof that a set of numbers has all of them.

Only model-checked: liveness (`CallsReturn`, `ClosedLinkRestarts`, `PacketsComeOut`, `ComesThrough`,
`PairingEnds`), which the prover cannot reach. A theorem states every other property that a passing
run checks. `MQTTPacket_readnb` and `readPacket` are proved over packets as `PacketBytes` frames
them, in lengths of one and two digits; that the frames of `PacketCodec` are such packets is not
stated.

## 5. Findings

* `v_report`: the task tests `ret` for failed publishes (*mqtt.c* 256) and no publisher's result is
  ever stored in it. A round whose publishes all failed goes on to `MQTTYield`.
* `v_reader`: the loops that "write remain" (*MQTTmbedtls.c* 313, 319) run one index too far: a
  request that the buffer cannot fill is given a zero nobody sent. The bounds still hold, because a
  fill leaves one index of the buffer free.
* `v_temp`: "Returns temperature from sensor" (*ds18b20.c* 80). `char` is unsigned on this
  processor, and the two bytes of a temperature below zero add up to one near 4095 degrees
  (`temp1+(temp2*256)`, 98).

Also seen, and not a run:

* client: "should be the same as the packetid above" (*MQTTClient.c* 495) is not compared, so
  `MQTTUnsubscribe` returns success on the late answer to an earlier one; "all failure return codes
  must be negative" (`MQTTClient.h` 59), while a refused CONNECT returns the broker's positive code
  and a refused subscription 0x80; two MQTTSubscribe calls of a filter take two slots and
  MQTTUnsubscribe frees none; `cycle` ignores `keepalive`'s result, so an unanswered ping is never
  noticed;
* codec: `MQTTDeserialize_suback` calls its parameter "the maximum number of members allowed in the
  grantedQoSs array" (`MQTTSubscribeClient.c` 93) and stores one more (123), with `MQTTSubscribe`
  passing one `int` (`RoundTrip` excepts what is too much); `MQTTDeserialize_connect` takes "the
  connect data structure to be filled out" (`MQTTConnectServer.c` 46) and leaves its version as it
  was (`ServerUnderstands` says so); `MQTTPacket_len` compares its thresholds with the length plus
  the header byte, so it asks for one byte too many at 127, 16383 and 2097150 to 2097151 (`Fits`
  allows for it); the server side's serializers leave the fixed header out of what they compare with
  the buffer (`Fits` says by how much); several `MQTTDeserialize_` functions leave in `rc` the
  number of length digits, often 1 and so success, for a body too short, and leave their outputs
  unset (`Malformed`; no packet of the run is that short); the session-present flag is taken from
  bit 7 of its byte, by both sides; the server side refuses a CONNECT whose last credential is
  empty, or with a password and no user name (`ServerUnderstands` excepts both); `+` does not match
  an empty level, nor `a/#` the name `a` (`RightHandlers` excepts both);
* `MQTTPacket_readnb`: a use of the transport that got nothing counts as a digit of the length, so
  four pauses end a healthy stream in the error that the comments (`MQTTPacket.c` 322, 358) keep
  apart from "call again"; a packet without a body never comes out, since it is asked for in zero
  bytes and zero means "call again";
* network: `readPacket` asks for as many bytes as the remaining length announces (*MQTTClient.c* 122)
  and does not compare it with `readbuf_size`;
* Wi-Fi: nothing tests the result of `xEventGroupCreate` (*wwifi.c* 104), so without memory for it
  the device restarts when the group is first used;
* timers: when the clock is set back, a call under way lasts longer by as much;
* watchdog: `sdkconfig` gives a watched task 5 s, and a round of `mqtt_task` takes 62 s;
* switch: every further advertisement of the switch that is handled before the scan stops opens
  another connection, and the command may be written as often (`CommandOncePerStop`);
* temperature: an absent sensor passes for present, and reads as 4095.94 degrees.

## 6. Not modelled

The size of `readbuf` (`NetworkReader` places the bytes it reads without a bound; the bounds it
checks are those of `mqtt_recvbuf` and of a request); an `esp_wifi_connect` that fails for want of
memory; the two forms of an `MQTTString`; the websocket frames (the build sets `MQTT_WEBSOCKET` to
0, *mqtt.c* 20); the output buffer of the TLS layer, in which a write that timed out stays for the
next one; the TLS handshake; memory, which each failed session loses some of; `MQTTFormat.c`, which
words packets for a log, `MQTTPacket_equals` and `MQTTPacket_read`, which nothing calls; the bits of
a byte on the 1-wire bus, its delays (a conversion may take a tick longer than the 75 the code
waits), and what the ADC measures (I/O); the watchdog, whose 5 s need no model to be compared with a
round; a second `ble_pairing` while one is under way, which the interface leaves to its caller;
`sdkconfig`, the linker script, `cert.c`, `help.c`; the unit-test harness.

## 7. Plan

Done: every component that keeps state, and the theorems above. What is left:

1. Proofs: that the frames of `PacketCodec` are packets of `PacketBytes`, which would join the
   theorems of the readers with those of the codec.
2. The output buffer of the TLS layer under `sendPacket`, whose record survives a write that timed
   out, and with it the packets a broker sees that the client has given up.
3. The websocket frames, should a build set `MQTT_WEBSOCKET`.

## 8. Running

    tlc -workers 2 -config client_full.cfg MQTTClient.tla
    tlc -workers 2 -config client_acks.cfg MCMQTTClient.tla
    tlc -workers 2 -config task.cfg MqttTask.tla
    tlc -workers 2 -config reader.cfg NetworkReader.tla
    tlc -workers 2 -config codec.cfg PacketCodec.tla
    tlc -workers 2 -config nb.cfg NonBlockingReader.tla
    tlc -workers 2 -config boot.cfg Boot.tla
    tlc -workers 2 -config ble.cfg Ble.tla
    tlc -workers 2 -config sensors.cfg MCSensors.tla
    tlapm MqttTaskProofs.tla
    tlapm NetworkReaderProofs.tla
    tlapm NonBlockingReaderProofs.tla
    tlapm PacketBytesProofs.tla
    tlapm BootProofs.tla
    tlapm BleProofs.tla
    tlapm SensorsProofs.tla
    tlapm PacketCodecProofs.tla

Each run takes less than two minutes, the proofs a few, those of the codec about ten.

------------------------------- MODULE MqttTask -------------------------------
(***************************************************************************)
(* mqtt_task of main/mqtt.c: one FreeRTOS task that waits for the Wi-Fi    *)
(* bit of main/wwifi.c, opens a connection, logs in, subscribes, and then  *)
(* reports its sensors and yields to the client, for as long as the calls  *)
(* it looks at succeed.  Its calls run as the steps of MQTTClient, with    *)
(* the broker, the link, the clock and the Wi-Fi events in between.        *)
(***************************************************************************)
EXTENDS MQTTClient

CONSTANTS
  RequestTopic,  \* the filter mqtt_task subscribes to
  ReportTopic,   \* the topics it publishes on; nothing here tells them apart
  Sensors,       \* light, mic and temperature: 3 in the code
  MaxCredit      \* bound on the publishes of a session the broker has and the task gave up

ASSUME TaskAssumption ==
  /\ RequestTopic \in Topics /\ ReportTopic \in Topics /\ RequestTopic # ReportTopic
  /\ 1 \in PublishQoS   \* its publishes are QoS 1
  /\ Sensors \in Nat /\ MaxCredit \in Nat \ {0}

VARIABLES
  wifi,     \* CONNECTED_BIT of _wifi_event_group
  task,     \* where mqtt_task is
  report,   \* the publish of the current round, in their order
  ret,      \* its local variable ret
  failed,   \* history: a publish of this round has failed
  credit    \* history: PUBLISHes of this session the broker has, less those reported sent

progress == <<wifi, task, report, ret>>
taskVars == <<progress, failed, credit>>
allVars == <<vars, taskVars>>

-----------------------------------------------------------------------------
(* The reports of a round: the device's status, then each sensor's status and value. *)

LastReport == 1 + 2 * Sensors
IsSensorStatus(n) == n > 1 /\ n % 2 = 0
\* Mutant: it skips the next sensor's status too.
Mutant_NextReport(n, code) == IF IsSensorStatus(n) /\ code < 0 THEN n + 3 ELSE n + 1
\* A sensor whose status could not be published skips its value.
NextReport(n, code) == IF IsSensorStatus(n) /\ code < 0 THEN n + 2 ELSE n + 1

-----------------------------------------------------------------------------
(* The task.  A step that starts a call leaves it to ClientStep; the step after it takes *)
(* up the result when the call is back.                                                  *)

Goto(step) == task' = step /\ UNCHANGED <<wifi, credit>>
Back(step) == task = step /\ pc = "idle"

WifiWait ==
  /\ task = "wait" /\ wifi /\ Goto("network")
  /\ UNCHANGED <<report, ret, failed, vars>>

\* NetworkInit and NetworkConnect; on success MQTTClientInit.
Opens ==
  /\ task = "network" /\ wifi /\ OpenSession
  /\ task' = "connect" /\ ret' = SUCCESS /\ credit' = 0
  /\ UNCHANGED <<wifi, report, failed>>
OpenFails ==
  /\ task = "network" /\ Goto("exit") /\ ret' = FAILURE
  /\ UNCHANGED <<report, failed, vars>>

Starts(step, Call, busy) ==
  /\ task = step /\ Call /\ Goto(busy)
  /\ UNCHANGED <<report, ret, failed>>
Connects == Starts("connect", MQTTConnect, "connecting")
Subscribes == Starts("subscribe", MQTTSubscribe(RequestTopic), "subscribing")
Publishes == Starts("report", MQTTPublish(ReportTopic, 1), "reporting")
Yields == Starts("yield", MQTTYield, "yielding")

\* Mutant: a result that goes nowhere.
Mutant_ExitUnless(step, next) ==
  /\ Back(step) /\ ret' = SUCCESS /\ Goto(next) /\ UNCHANGED vars
\* ret = ...; if (ret != SUCCESS) goto exit;
ExitUnless(step, next) ==
  /\ Back(step) /\ ret' = rc
  /\ Goto(IF ret' = SUCCESS THEN next ELSE "exit")
  /\ UNCHANGED vars
Connected == ExitUnless("connecting", "subscribe") /\ UNCHANGED <<report, failed>>
NewRound == report' = 1 /\ failed' = FALSE
\* Mutant: a failed MQTTSubscribe is tried again on the same connection.
Mutant_Subscribed ==
  /\ Back("subscribing") /\ ret' = rc
  /\ Goto(IF ret' = SUCCESS THEN "report" ELSE "subscribe")
  /\ NewRound /\ UNCHANGED vars
Subscribed == ExitUnless("subscribing", "report") /\ NewRound
Yielded == ExitUnless("yielding", "report") /\ NewRound

\* The publishers' results go nowhere; after the last of them the task tests ret, which
\* still holds the result of MQTTSubscribe or MQTTYield, and sleeps for two seconds.
Published ==
  /\ Back("reporting") /\ report' = NextReport(report, rc)
  /\ failed' = (failed \/ rc < 0)
  /\ Goto(IF report' <= LastReport THEN "report" ELSE IF ret # SUCCESS THEN "exit" ELSE "yield")
  /\ UNCHANGED <<ret, vars>>

\* exit: MQTTDisconnect, over a connection ...
Disconnects == Starts("exit", MQTTDisconnect, "disconnecting")
\* ... or over none, when NetworkConnect has failed and cleaned up: nothing can be sent.
DisconnectsNothing ==
  /\ task = "exit" /\ link = "down" /\ Goto("disconnecting")
  /\ isconnected' = FALSE /\ rc' = FAILURE
  /\ UNCHANGED <<report, ret, failed, network, history, next_packetid, ping_outstanding,
                 messageHandlers, ping_timer, pc, call, packet, handled, timer>>
\* Then the client may be uninitialised memory and the TLS context has been torn down:
\* using them is undefined, and may end in a processor exception, and so in a restart.
Crashes ==
  /\ task = "exit" /\ link = "down"
  /\ wifi' = FALSE /\ task' = "wait" /\ ret' = SUCCESS
  /\ UNCHANGED <<report, failed, credit, vars>>
\* NetworkDisconnect, and from the top.
Restarts ==
  /\ Back("disconnecting") /\ Goto("wait")
  /\ IF link = "down" THEN UNCHANGED vars ELSE CloseSession
  /\ UNCHANGED <<report, ret, failed>>

-----------------------------------------------------------------------------
(* Around the task. *)

\* The Wi-Fi events of wwifi.c; without Wi-Fi nothing moves on the link.
WifiConnects ==
  /\ ~wifi /\ wifi' = TRUE
  /\ UNCHANGED <<task, report, ret, failed, credit, vars>>
WifiDisconnects ==
  /\ wifi /\ wifi' = FALSE /\ link' = IF link = "up" THEN "silent" ELSE link
  /\ UNCHANGED <<task, report, ret, failed, credit, client, frame, toBroker, toClient,
                 subs, history>>

Publish1(p) == p.type = "PUBLISH" /\ p.val = 1
\* The client runs; a PUBLISH it reports sent costs a credit.
ClientRuns ==
  /\ ClientStep
  /\ credit' = IF Publish1(call) /\ pc' = "idle" /\ rc' = SUCCESS THEN credit - 1 ELSE credit
  /\ UNCHANGED <<progress, failed>>
\* The broker takes a packet; a PUBLISH earns one.
BrokerTakes ==
  /\ BrokerReceives
  /\ Publish1(Head(toBroker)) => credit < MaxCredit
  /\ credit' = IF Publish1(Head(toBroker)) THEN credit + 1 ELSE credit
  /\ UNCHANGED <<progress, failed>>
Surroundings ==
  /\ \/ \E t \in Topics, q \in InboundQoS : BrokerPublishes(t, q)
     \/ LinkChanges /\ (link = "silent" => wifi)
     \/ TimerExpires \/ PingTimerExpires
  /\ UNCHANGED taskVars

-----------------------------------------------------------------------------
TaskInit ==
  /\ Init
  /\ wifi = FALSE /\ task = "wait" /\ report = 1 /\ ret = SUCCESS
  /\ failed = FALSE /\ credit = 0

TaskStep ==
  \/ WifiWait \/ Opens \/ OpenFails
  \/ Connects \/ Connected \/ Subscribes \/ Subscribed
  \/ Publishes \/ Published \/ Yields \/ Yielded
  \/ Disconnects \/ DisconnectsNothing \/ Crashes \/ Restarts
TaskNext ==
  TaskStep \/ ClientRuns \/ BrokerTakes \/ Surroundings \/ WifiConnects \/ WifiDisconnects

\* The scheduler runs the task, and time passes.
TaskSpec ==
  /\ TaskInit /\ [][TaskNext]_allVars
  /\ WF_allVars(TaskStep) /\ WF_allVars(ClientRuns) /\ WF_allVars(TimerExpires /\ UNCHANGED taskVars)

-----------------------------------------------------------------------------
(* Properties. *)

TaskSteps == {"wait", "network", "connect", "connecting", "subscribe", "subscribing",
              "report", "reporting", "yield", "yielding", "exit", "disconnecting"}
\* Every variable of the task has its type: it never starts a publish after the last of
\* a round (mqtt.c:251-254).
TaskTypeOK ==
  /\ TypeOK
  /\ wifi \in BOOLEAN /\ task \in TaskSteps /\ report \in 1..LastReport + 1
  /\ ret \in -1..128 /\ failed \in BOOLEAN /\ credit \in Int

\* mqtt_task logs in and subscribes once per session, so the acknowledgements of these two
\* are always its own; only publishes can meet a late one.
HandshakeAcksAreOwn ==
  (pc = "cycled" /\ GotAck /\ call.type \in {"CONNECT", "SUBSCRIBE"})
    => (packet.id = call.id /\ taken)

\* While the task reports or yields, it can be reached: it is logged in, its handler is in
\* place, and the broker serves its filter, however late or lost any answer was.
ReportingIsReachable ==
  task \in {"report", "reporting", "yield", "yielding"}
    => isconnected /\ deliverMessage(RequestTopic) /\ RequestTopic \in subs

\* The task never believes that more of a session's publishes reached the broker than did,
\* although a publish may be confirmed by the late acknowledgement of another.
NoOverReport == credit >= 0

\* A connection the peer has closed is given up: the pending calls time out, MQTTYield
\* finds the read error, and the task starts again.
ClosedLinkRestarts == link = "closed" ~> link = "down"

\* if (ret != SUCCESS) { "MQTTPublish: %d"; goto exit; } (mqtt.c:256-258): a round in which
\* a publish failed ends the session and does not go on to MQTTYield.
FailedRoundExits == task = "yield" => ~failed
=============================================================================

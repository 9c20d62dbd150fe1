-------------------------------- MODULE Boot --------------------------------
(***************************************************************************)
(* From power-up to the first sessions: app_main, wwifi.c, ntp.c and the   *)
(* clock.                                                                  *)
(*                                                                         *)
(* Three tasks run: app_main, which goes through wwifi_init and starts     *)
(* mqtt_task; the event loop, which calls _event_handler for each event;   *)
(* and mqtt_task, which waits for CONNECTED_BIT and then runs sessions     *)
(* under timers.  The GOT_IP that lets mqtt_task go also starts NTP, whose *)
(* answers set the wall clock the timers are read from.                    *)
(*                                                                         *)
(* External: the Wi-Fi station with its event queue, the time server, and  *)
(* the system, which restarts the device when a call is given no group.    *)
(***************************************************************************)
EXTENDS Timers, Sequences

CONSTANTS
  SsidLengths, PasswordLengths,   \* what wwifi_init may be given
  QueueSize,      \* CONFIG_SYSTEM_EVENT_QUEUE_SIZE, 32 in sdkconfig
  Timeout,        \* MQTT_TIMEOUT_MS, 2000 in the code
  ServerSeconds,  \* times the time server gives
  MaxClock        \* bound on the clock and on the length of a call, in microseconds

ASSUME BootAssumption ==
  /\ SsidLengths \subseteq Nat /\ PasswordLengths \subseteq Nat
  /\ QueueSize \in Nat /\ QueueSize >= 3   \* room for the events of one connection
  /\ Timeout \in Nat /\ ServerSeconds \subseteq Int /\ MaxClock \in Nat

VARIABLES
  pc,               \* the step of app_main
  ssid, password,   \* lengths of the arguments of wwifi_init
  group,            \* _wifi_event_group: "unset", "created", "none" without memory for it
  bits,             \* CONNECTED_BIT
  ntp_initialized,
  station,          \* the Wi-Fi driver
  queue,            \* its events
  task,             \* mqtt_task
  \* the clock and the timer of the call mqtt_task is in
  clock, end_time,
  elapsed,          \* microseconds since that timer was set
  stepped           \* whether the clock was set since then

args == <<ssid, password>>
wifi == <<station, queue>>
timing == <<clock, end_time, elapsed, stepped>>
vars == <<pc, args, group, bits, ntp_initialized, wifi, task, timing>>

-----------------------------------------------------------------------------
(* The station. *)

\* esp_event_send drops what finds no room.
Post(event) == queue' = IF Len(queue) < QueueSize THEN Append(queue, event) ELSE queue
StationMoves(from, to, event) ==
  /\ station \in from /\ station' = to /\ Post(event)
  /\ UNCHANGED <<pc, args, group, bits, ntp_initialized, task, timing>>
Associates == StationMoves({"connecting"}, "associated", "CONNECTED")
GetsAddress == StationMoves({"associated"}, "ip", "GOT_IP")
LosesConnection == StationMoves({"connecting", "associated", "ip"}, "idle", "DISCONNECTED")
\* One that is connected or on its way refuses.
esp_wifi_connect == station' = IF station = "idle" THEN "connecting" ELSE station

-----------------------------------------------------------------------------
(* app_main *)

\* Mutant: the group is created when it is first needed, behind the event loop.
Mutant_InitSteps == <<"credentials", "loop", "group", "wifi", "storage", "mode", "config", "start">>
\* wwifi_init, call by call.
InitSteps == <<"credentials", "group", "loop", "wifi", "storage", "mode", "config", "start">>
Fit == ssid <= 32 /\ password <= 64

Succeeds(step) ==
  /\ step = "credentials" => Fit
  /\ group' = IF step = "group" THEN "created" ELSE group
  /\ IF step = "start" THEN station' = "idle" /\ Post("START") ELSE UNCHANGED wifi
  /\ pc' = pc + 1
\* An error makes wwifi_init return, and app_main goes on.  Only that there is no memory for
\* the group is not tested: wwifi_init goes on.
Fails(step) ==
  /\ step = "credentials" => ~Fit
  /\ group' = IF step = "group" THEN "none" ELSE group
  /\ pc' = IF step = "group" THEN pc + 1 ELSE Len(InitSteps) + 1
  /\ UNCHANGED wifi
wwifi_init ==
  /\ pc <= Len(InitSteps)
  /\ Succeeds(InitSteps[pc]) \/ Fails(InitSteps[pc])
  /\ UNCHANGED <<args, bits, ntp_initialized, task, timing>>
mqtt_start ==
  /\ pc = Len(InitSteps) + 1 /\ pc' = pc + 1
  /\ task' = "waiting"
  /\ UNCHANGED <<args, group, bits, ntp_initialized, wifi, timing>>

-----------------------------------------------------------------------------
(* The event loop. *)

\* The program starts again with its names and passwords; the clock may run on.
Restart ==
  /\ pc' = 1 /\ group' = "unset" /\ bits' = FALSE /\ ntp_initialized' = FALSE
  /\ station' = "off" /\ queue' = <<>> /\ task' = "none"
  /\ clock' \in {clock, Timeval(0, 0)} /\ end_time' = TimerInit /\ elapsed' = 0
  /\ stepped' = FALSE
  /\ UNCHANGED args

\* A second call returns early and leaves NTP as it is.
ntp_init == ntp_initialized' = TRUE
\* The hooks of an event; ntp_start is the only one there is.
_wwifi_event_handler(id) ==
  IF id = "STA_CONNECTED" THEN ntp_init ELSE UNCHANGED ntp_initialized

Started == esp_wifi_connect /\ UNCHANGED <<bits, ntp_initialized>>
GotIp == bits' = TRUE /\ _wwifi_event_handler("STA_CONNECTED") /\ UNCHANGED station
\* Mutant: only a connection that was up is set up again.
Mutant_Disconnected ==
  /\ bits' = FALSE
  /\ IF bits THEN esp_wifi_connect ELSE UNCHANGED station
  /\ _wwifi_event_handler("DISCONNECTED")
\* Mutant: the bit stays set while the station reconnects.
Mutant_StaysSet == esp_wifi_connect /\ UNCHANGED bits /\ _wwifi_event_handler("DISCONNECTED")
Disconnected ==
  /\ bits' = FALSE
  /\ esp_wifi_connect
  /\ _wwifi_event_handler("DISCONNECTED")
NeedsGroup(event) == event \in {"GOT_IP", "DISCONNECTED"}
Handle(event) ==
  /\ queue' = Tail(queue)
  /\ CASE event = "START" -> Started
       [] event = "GOT_IP" -> GotIp
       [] event = "DISCONNECTED" -> Disconnected
       [] OTHER -> UNCHANGED <<bits, station, ntp_initialized>>
  /\ UNCHANGED <<pc, args, group, task, timing>>
_event_handler ==
  /\ queue # <<>>
  /\ IF NeedsGroup(Head(queue)) /\ group # "created" THEN Restart ELSE Handle(Head(queue))

-----------------------------------------------------------------------------
(* mqtt_task and its timers. *)

SetTimer == end_time' = TimerCountdownMS(Timeout, clock) /\ elapsed' = 0 /\ stepped' = FALSE

\* Mutant: the bit is cleared by who has seen it (xClearOnExit).
Mutant_wwifi_connection_waiting ==
  /\ task = "waiting"
  /\ \/ group # "created" /\ Restart
     \/ /\ group = "created" /\ bits /\ task' = "session" /\ bits' = FALSE /\ SetTimer
        /\ UNCHANGED <<pc, args, group, ntp_initialized, wifi, clock>>
\* The wait, and the first call of the session.
wwifi_connection_waiting ==
  /\ task = "waiting"
  /\ \/ group # "created" /\ Restart
     \/ /\ group = "created" /\ bits /\ task' = "session" /\ SetTimer
        /\ UNCHANGED <<pc, args, group, bits, ntp_initialized, wifi, clock>>
NextCall ==
  /\ task = "session" /\ SetTimer
  /\ UNCHANGED <<pc, args, group, bits, ntp_initialized, wifi, task, clock>>
\* The task gives a session up, because of a timer that ran out or for another reason.
SessionEnds ==
  /\ task = "session" /\ task' = "waiting"
  /\ UNCHANGED <<pc, args, group, bits, ntp_initialized, wifi, timing>>

Tick ==
  /\ clock' = timeradd(clock, Timeval(0, 1)) /\ elapsed' = elapsed + 1
  /\ Micros(clock') <= MaxClock /\ elapsed' <= MaxClock
  /\ UNCHANGED <<pc, args, group, bits, ntp_initialized, wifi, task, end_time, stepped>>
\* sntp sets the clock, forward or back.
TimeServerAnswers(s) ==
  /\ ntp_initialized /\ station = "ip"
  /\ clock' = Timeval(s, 0) /\ stepped' = TRUE
  /\ UNCHANGED <<pc, args, group, bits, ntp_initialized, wifi, task, end_time, elapsed>>

-----------------------------------------------------------------------------
Init ==
  /\ pc = 1 /\ ssid \in SsidLengths /\ password \in PasswordLengths
  /\ group = "unset" /\ bits = FALSE /\ ntp_initialized = FALSE
  /\ station = "off" /\ queue = <<>> /\ task = "none"
  /\ clock = Timeval(0, 0) /\ end_time = TimerInit /\ elapsed = 0 /\ stepped = FALSE

Next ==
  \/ Associates \/ GetsAddress \/ LosesConnection
  \/ wwifi_init \/ mqtt_start
  \/ _event_handler
  \/ wwifi_connection_waiting \/ NextCall \/ SessionEnds
  \/ Tick \/ \E s \in ServerSeconds : TimeServerAnswers(s)
Spec == Init /\ [][Next]_vars

\* Every task runs, as the scheduler of equal or falling load sees to.
FairSpec ==
  /\ Spec
  /\ WF_vars(wwifi_init \/ mqtt_start) /\ WF_vars(_event_handler)
  /\ WF_vars(wwifi_connection_waiting)

-----------------------------------------------------------------------------
(* Properties. *)

\* Whatever fails in wwifi_init, and app_main ignores it (main.c:51), neither mqtt_task nor an
\* event of the station meets a group that is not there yet: the device restarts over it only
\* with a name or password that is too long, or without the memory for one, which nothing
\* tests (wwifi.c:104).
NoNeedlessRestart == [][pc' < pc => ~Fit \/ group = "none"]_vars

\* Once the events on their way are handled, CONNECTED_BIT says whether the station has an
\* address; until then the last of them does.
ForBit == {i \in 1..Len(queue) : queue[i] \in {"GOT_IP", "DISCONNECTED"}}
BitCatchesUp ==
  (station = "ip") <=>
    \/ ForBit = {} /\ bits
    \/ \E i \in ForBit : queue[i] = "GOT_IP" /\ \A j \in ForBit : j <= i

\* A station that is not connected and does not try has an event on its way whose handling
\* makes it try again: no loss, at whatever moment, leaves the device off the network.
NeverStranded ==
  station = "idle" => \E i \in 1..Len(queue) : queue[i] \in {"START", "DISCONNECTED"}

\* As long as nobody sets the clock, a timer has run out exactly when the time it was given
\* has gone by, across every carry from microseconds to seconds.
ExpiryOnTime ==
  (task = "session" /\ ~stepped) =>
    (TimerIsExpired(end_time, clock) <=> elapsed >= Timeout * UsPerMs)

\* Even when the clock is set under it, a call never makes a socket wait for ever; while it is
\* not, no longer than what is left of the call, or than the least wait there is.
LeftOver == Timeout * UsPerMs - elapsed
SocketsWaitAWhile ==
  task = "session" =>
    LET wait == Micros(SocketTimeout(TimerLeftMS(end_time, clock)))
    IN wait > 0 /\ (~stepped => wait <= LeftOver \/ wait = LeastWait)

\* While the station keeps its address, mqtt_task gets past its wait, each time it comes to it.
ComesThrough == <>[](station = "ip") => []<>(task = "session")
=============================================================================

----------------------------- MODULE BootProofs -----------------------------
(***************************************************************************)
(* Theorems about Boot, for every unit of time, timeout, time server,      *)
(* length of the event queue and every way the start-up may fail.          *)
(***************************************************************************)
EXTENDS Boot, SequenceTheorems, TLAPS

-----------------------------------------------------------------------------
(* The arithmetic of Timers, for every time and timeout. *)

\* The units are natural numbers.
LEMMA UnitsType ==
  UsPerSec \in Nat \ {0} /\ UsPerMs \in Nat \ {0} /\ MsPerSec \in Nat \ {0}
  /\ LeastWait \in Nat \ {0} /\ LeastWait < UsPerSec
<1>1. UsPerSec \in Int BY TimersAssumption DEF UsPerSec
<1> QED BY <1>1, TimersAssumption

\* Multiplication keeps the order, and a step of the left factor is the right factor.
LEMMA Multiples ==
  ASSUME NEW u \in Nat \ {0}
  PROVE  /\ \A a \in Int : a * u \in Int /\ (a + 1) * u = a * u + u /\ (a - 1) * u = a * u - u
         /\ \A a, b \in Int : (a + b) * u = a * u + b * u /\ (a - b) * u = a * u - b * u
         /\ \A a \in Nat : a * u \in Nat /\ (a > 0 => a * u >= u)
         /\ \A a \in Int : a < 0 => a * u <= -u
<1>1. \A a \in Int : a * u \in Int /\ (a + 1) * u = a * u + u /\ (a - 1) * u = a * u - u OBVIOUS
<1>2. \A a, b \in Int : (a + b) * u = a * u + b * u /\ (a - b) * u = a * u - b * u OBVIOUS
<1>3. \A a \in Nat : a * u \in Nat /\ (a > 0 => a * u >= u) OBVIOUS
<1>4. \A a \in Int : a < 0 => a * u <= -u OBVIOUS
<1> QED BY <1>1, <1>2, <1>3, <1>4

\* Division rounds down.
LEMMA Division ==
  ASSUME NEW a \in Nat, NEW u \in Nat \ {0}
  PROVE  /\ a \div u \in Nat /\ a % u \in 0..(u - 1)
         /\ a = (a \div u) * u + (a % u)
<1>1. a \in Int OBVIOUS
<1> QED BY <1>1

\* timeradd and timersub add and subtract, and keep the microseconds below a second.
LEMMA AddSub ==
  ASSUME NEW a \in Times, NEW b \in Times
  PROVE  /\ timeradd(a, b) \in Times /\ Micros(timeradd(a, b)) = Micros(a) + Micros(b)
         /\ timersub(a, b) \in Times /\ Micros(timersub(a, b)) = Micros(a) - Micros(b)
<1>1. /\ a.sec \in Int /\ a.usec \in Int /\ 0 <= a.usec /\ a.usec < UsPerSec
      /\ b.sec \in Int /\ b.usec \in Int /\ 0 <= b.usec /\ b.usec < UsPerSec
      /\ UsPerSec \in Nat \ {0}
  BY UnitsType DEF Times
<1>2. /\ a.sec * UsPerSec \in Int /\ b.sec * UsPerSec \in Int
      /\ (a.sec + b.sec) * UsPerSec = a.sec * UsPerSec + b.sec * UsPerSec
      /\ (a.sec - b.sec) * UsPerSec = a.sec * UsPerSec - b.sec * UsPerSec
      /\ (a.sec + b.sec + 1) * UsPerSec = (a.sec + b.sec) * UsPerSec + UsPerSec
      /\ (a.sec - b.sec - 1) * UsPerSec = (a.sec - b.sec) * UsPerSec - UsPerSec
  BY <1>1, Multiples
<1>3. timeradd(a, b) \in Times /\ timersub(a, b) \in Times
  BY <1>1 DEF timeradd, timersub, Timeval, Times
<1>4. Micros(timeradd(a, b)) = Micros(a) + Micros(b)
  BY <1>1, <1>2 DEF timeradd, Timeval, Micros
<1>5. Micros(timersub(a, b)) = Micros(a) - Micros(b)
  BY <1>1, <1>2 DEF timersub, Timeval, Micros
<1> QED BY <1>3, <1>4, <1>5

\* An interval is what was asked for.
LEMMA IntervalMicros ==
  ASSUME NEW ms \in Nat
  PROVE  Interval(ms) \in Times /\ Micros(Interval(ms)) = ms * UsPerMs
<1> DEFINE q == ms \div MsPerSec
           r == ms % MsPerSec
<1>1. q \in Nat /\ r \in 0..(MsPerSec - 1) /\ ms = q * MsPerSec + r
  BY UnitsType, Division
<1>2. Interval(ms) = [sec |-> q, usec |-> r * UsPerMs] BY DEF Interval, Timeval
<1> HIDE DEF q, r
<1>3. r * UsPerMs \in Nat /\ r * UsPerMs < UsPerSec
  <2>1. MsPerSec - 1 - r \in Nat /\ r \in Nat /\ UsPerMs \in Nat \ {0} BY <1>1, UnitsType
  <2>2. (MsPerSec - 1 - r) * UsPerMs \in Nat /\ r * UsPerMs \in Nat BY <2>1, Multiples
  <2>3. /\ (MsPerSec - 1 - r) * UsPerMs = (MsPerSec - 1) * UsPerMs - r * UsPerMs
        /\ (MsPerSec - 1) * UsPerMs = MsPerSec * UsPerMs - UsPerMs
        /\ MsPerSec * UsPerMs \in Int
    BY <2>1, UnitsType, Multiples
  <2>4. MsPerSec * UsPerMs = UsPerSec BY UnitsType DEF UsPerSec
  <2> QED BY <2>1, <2>2, <2>3, <2>4
<1>4. q * UsPerSec + r * UsPerMs = ms * UsPerMs
  <2>1. q * UsPerSec = (q * MsPerSec) * UsPerMs BY <1>1, UnitsType DEF UsPerSec
  <2>2. q * MsPerSec \in Int /\ r \in Int BY <1>1, UnitsType
  <2>3. (q * MsPerSec + r) * UsPerMs = (q * MsPerSec) * UsPerMs + r * UsPerMs
    BY <2>2, UnitsType, Multiples
  <2> QED BY <1>1, <2>1, <2>3
<1>5. Interval(ms) \in Times BY <1>1, <1>2, <1>3, UnitsType DEF Times
<1>6. Micros(Interval(ms)) = ms * UsPerMs BY <1>2, <1>4 DEF Micros
<1> QED BY <1>5, <1>6

\* A time is at most zero when its microseconds are.
LEMMA SignOfMicros ==
  ASSUME NEW t \in Times
  PROVE  /\ AtMostZero(t) <=> Micros(t) <= 0
         /\ t.sec < 0 <=> Micros(t) < 0
<1>1. /\ t.sec \in Int /\ t.usec \in Int /\ 0 <= t.usec /\ t.usec < UsPerSec
      /\ UsPerSec \in Nat \ {0}
  BY UnitsType DEF Times
<1>2. /\ t.sec < 0 => t.sec * UsPerSec <= -UsPerSec
      /\ t.sec > 0 => t.sec * UsPerSec >= UsPerSec
      /\ t.sec = 0 => t.sec * UsPerSec = 0
      /\ t.sec * UsPerSec \in Int
  BY <1>1, Multiples
<1> QED BY <1>1, <1>2 DEF AtMostZero, Micros

-----------------------------------------------------------------------------
\* A timer has run out exactly when the clock has reached its end: for every clock and every
\* end, also when the microseconds of the two borrow from the seconds.
THEOREM ExpiresOnTime ==
  ASSUME NEW deadline \in Times, NEW now \in Times
  PROVE  TimerIsExpired(deadline, now) <=> Micros(deadline) <= Micros(now)
<1>1. Micros(deadline) \in Int /\ Micros(now) \in Int
  BY UnitsType, Multiples DEF Times, Micros
<1> QED BY <1>1, AddSub, SignOfMicros DEF TimerIsExpired

\* A timer that is set ends as many milliseconds later as it was given.
THEOREM CountdownIsExact ==
  ASSUME NEW now \in Times, NEW timeout \in Nat
  PROVE  /\ TimerCountdownMS(timeout, now) \in Times
         /\ Micros(TimerCountdownMS(timeout, now)) = Micros(now) + timeout * UsPerMs
         /\ Micros(TimerCountdown(timeout, now)) = Micros(now) + timeout * UsPerSec
<1>1. Timeval(timeout, 0) \in Times /\ Micros(Timeval(timeout, 0)) = timeout * UsPerSec
  BY UnitsType, Multiples DEF Timeval, Times, Micros
<1> QED BY <1>1, IntervalMicros, AddSub DEF TimerCountdownMS, TimerCountdown

\* No socket waits for ever, whatever is left of the timer: a timeout of 0 is never set.  And
\* none waits longer than it was asked to, or than LeastWait.
THEOREM SocketWaitIsBounded ==
  ASSUME NEW ms \in Nat
  PROVE  /\ ~AtMostZero(SocketTimeout(ms))
         /\ Micros(SocketTimeout(ms)) = IF ms = 0 THEN LeastWait ELSE ms * UsPerMs
<1>1. Interval(ms) \in Times /\ Micros(Interval(ms)) = ms * UsPerMs BY IntervalMicros
<1>2. ms * UsPerMs \in Nat /\ (ms * UsPerMs <= 0 <=> ms = 0) BY UnitsType, Multiples
<1>3. AtMostZero(Interval(ms)) <=> ms = 0 BY <1>1, <1>2, SignOfMicros
<1>4. ~AtMostZero(Timeval(0, LeastWait)) /\ Micros(Timeval(0, LeastWait)) = LeastWait
  BY UnitsType DEF AtMostZero, Timeval, Micros
<1> QED BY <1>1, <1>3, <1>4 DEF SocketTimeout

\* What is left of a timer is rounded down to milliseconds, and is nothing when it has run out.
THEOREM LeftIsRoundedDown ==
  ASSUME NEW deadline \in Times, NEW now \in Times
  PROVE  LET left == Micros(deadline) - Micros(now)
             ms == TimerLeftMS(deadline, now)
         IN /\ ms \in Nat
            /\ left < 0 => ms = 0
            /\ left >= 0 => ms * UsPerMs <= left /\ left < ms * UsPerMs + UsPerMs
<1> DEFINE d == timersub(deadline, now)
           q == d.usec \div UsPerMs
<1>1. d \in Times /\ Micros(d) = Micros(deadline) - Micros(now) BY AddSub
<1>2. d.sec < 0 <=> Micros(d) < 0 BY <1>1, SignOfMicros
<1>3. TimerLeftMS(deadline, now) = IF d.sec < 0 THEN 0 ELSE d.sec * MsPerSec + q
  BY DEF TimerLeftMS
<1>4. d.sec \in Int /\ d.usec \in Nat BY <1>1, UnitsType DEF Times
<1> HIDE DEF d
<1>5. q \in Nat /\ q * UsPerMs <= d.usec /\ d.usec < q * UsPerMs + UsPerMs
  <2>1. /\ q \in Nat /\ d.usec % UsPerMs \in 0..(UsPerMs - 1)
        /\ d.usec = q * UsPerMs + (d.usec % UsPerMs)
    BY <1>4, UnitsType, Division
  <2> QED BY <1>4, <2>1, UnitsType, Multiples
<1> HIDE DEF q
<1>6. CASE d.sec >= 0
  <2>1. d.sec * MsPerSec \in Nat /\ d.sec * MsPerSec + q \in Nat
    BY <1>4, <1>5, <1>6, UnitsType, Multiples
  <2>2. (d.sec * MsPerSec + q) * UsPerMs = (d.sec * MsPerSec) * UsPerMs + q * UsPerMs
    BY <1>5, <2>1, UnitsType, Multiples
  <2>3. (d.sec * MsPerSec) * UsPerMs = d.sec * UsPerSec BY <1>4, UnitsType DEF UsPerSec
  <2>4. d.sec * UsPerSec \in Int /\ q * UsPerMs \in Int /\ UsPerMs \in Int
    BY <1>4, <1>5, UnitsType
  <2>5. Micros(d) = d.sec * UsPerSec + d.usec BY DEF Micros
  <2> QED BY <1>1, <1>2, <1>3, <1>4, <1>5, <1>6, <2>1, <2>2, <2>3, <2>4, <2>5
<1>7. CASE d.sec < 0
  <2>1. Micros(deadline) - Micros(now) < 0 BY <1>1, <1>2, <1>7
  <2>2. TimerLeftMS(deadline, now) = 0 BY <1>3, <1>7
  <2>3. Micros(deadline) \in Int /\ Micros(now) \in Int
    BY UnitsType, Multiples DEF Times, Micros
  <2> QED BY <2>1, <2>2, <2>3
<1> QED BY <1>4, <1>6, <1>7

-----------------------------------------------------------------------------
(* The start-up. *)

\* mqtt_task comes last, and past the second step of wwifi_init there is a group, if there was
\* memory for it; the station is off before.
OrderInv ==
  /\ pc \in Nat \ {0} /\ group \in {"unset", "created", "none"}
  /\ pc <= 9 => task = "none"
  /\ Fit /\ pc > 2 => group # "unset"
  /\ pc <= 2 => queue = <<>> /\ station = "off"
\* What is left on the clock is what is left of the time that was given.
ClockInv ==
  /\ clock \in Times /\ end_time \in Times /\ elapsed \in Nat
  /\ (task = "session" /\ ~stepped) => Micros(end_time) = Micros(clock) + LeftOver

\* A station has the events of one connection under way and no more: it connects again only
\* when the last of them, DISCONNECTED, is handled.  So three places in the queue are enough,
\* and nothing is dropped.
Connecting == <<"CONNECTED">>
Connected == <<"CONNECTED", "GOT_IP">>
Address == <<"GOT_IP">>
Losses == {<<"DISCONNECTED">>, <<"CONNECTED", "DISCONNECTED">>, <<"GOT_IP", "DISCONNECTED">>,
           <<"CONNECTED", "GOT_IP", "DISCONNECTED">>}
EventsInv ==
  /\ pc <= 8 => station = "off"
  /\ \/ station \in {"off", "connecting"} /\ queue = <<>> /\ bits = FALSE
     \/ station = "associated" /\ queue \in {<<>>, Connecting} /\ bits = FALSE
     \/ station = "ip" /\ queue = <<>> /\ bits = TRUE
     \/ station = "ip" /\ queue \in {Address, Connected} /\ bits = FALSE
     \/ station = "idle" /\ queue = <<"START">> /\ bits = FALSE
     \/ station = "idle" /\ queue \in Losses

-----------------------------------------------------------------------------
\* A restarted device is where it started, and its clock is a time again.
LEMMA Restarted ==
  ASSUME Restart PROVE OrderInv' /\ EventsInv' /\ (clock \in Times => ClockInv')
<1>1. pc' = 1 /\ group' = "unset" /\ task' = "none" /\ queue' = <<>> /\ station' = "off"
  BY DEF Restart
<1>2. OrderInv'
  <2>1. pc' \in Nat \ {0} /\ pc' <= 9 /\ ~(pc' > 2) BY <1>1
  <2> QED BY <1>1, <2>1 DEF OrderInv
<1>3. EventsInv' BY <1>1 DEF Restart, EventsInv
<1>4. clock \in Times => ClockInv'
  <2>1. Timeval(0, 0) \in Times BY UnitsType DEF Timeval, Times
  <2>2. /\ clock' \in {clock, Timeval(0, 0)} /\ end_time' = Timeval(0, 0) /\ elapsed' = 0
        /\ task' # "session"
    BY <1>1 DEF Restart, TimerInit
  <2> QED BY <2>1, <2>2 DEF ClockInv
<1> QED BY <1>2, <1>3, <1>4

\* The start-up keeps its order.
LEMMA OrderHolds == Spec => []OrderInv
<1>1. Init => OrderInv
  <2> SUFFICES ASSUME Init PROVE OrderInv
    OBVIOUS
  <2>1. pc = 1 /\ group = "unset" /\ task = "none" /\ queue = <<>> /\ station = "off" BY DEF Init
  <2>2. pc <= 9 /\ ~(pc > 2) /\ pc \in Nat \ {0} BY <2>1
  <2> QED BY <2>1, <2>2 DEF OrderInv
<1>2. OrderInv /\ [Next]_vars => OrderInv'
  <2> SUFFICES ASSUME OrderInv, [Next]_vars PROVE OrderInv'
    OBVIOUS
  <2> USE DEF OrderInv, Fit
  <2>1. CASE wwifi_init
    <3>1. pc \in 1..8 /\ task = "none" BY <2>1 DEF wwifi_init, InitSteps
    <3>2. UNCHANGED <<ssid, password, task>> BY <2>1 DEF wwifi_init, args
    <3>3. pc' \in 2..9 /\ group' \in {group, "created", "none"}
      BY <2>1, <3>1 DEF wwifi_init, Succeeds, Fails, InitSteps
    <3>4. CASE pc = 1
      <4>1. Fit => pc' = 2 BY <2>1, <3>4 DEF wwifi_init, Succeeds, Fails, InitSteps
      <4>2. UNCHANGED wifi BY <2>1, <3>4 DEF wwifi_init, Succeeds, Fails, InitSteps
      <4>3. queue' = <<>> /\ station' = "off" BY <3>4, <4>2 DEF wifi
      <4> QED BY <3>1, <3>2, <3>3, <4>1, <4>3
    <3>5. CASE pc = 2
      <4>1. pc' = 3 /\ group' # "unset"
        BY <2>1, <3>5 DEF wwifi_init, Succeeds, Fails, InitSteps
      <4> QED BY <3>1, <3>2, <3>3, <4>1
    <3>6. CASE pc > 2
      <4>1. pc' > 2 BY <2>1, <3>1, <3>6 DEF wwifi_init, Succeeds, Fails, InitSteps
      <4>2. group # "unset" => group' # "unset" BY <3>3
      <4> QED BY <3>1, <3>2, <3>3, <3>6, <4>1, <4>2
    <3> QED BY <3>1, <3>4, <3>5, <3>6
  <2>2. CASE mqtt_start BY <2>2 DEF mqtt_start, InitSteps, args, wifi
  <2>3. CASE wwifi_connection_waiting
    <3>1. CASE Restart BY <3>1, Restarted
    <3>2. CASE ~Restart BY <2>3, <3>2 DEF wwifi_connection_waiting, args, wifi
    <3> QED BY <3>1, <3>2
  <2>4. CASE NextCall \/ SessionEnds BY <2>4 DEF NextCall, SessionEnds, args, wifi
  <2>5. CASE _event_handler
    <3>1. CASE Restart BY <3>1, Restarted
    <3>2. CASE ~Restart
      <4>1. queue # <<>> /\ UNCHANGED <<pc, args, group, task>>
        BY <2>5, <3>2 DEF _event_handler, Handle
      <4> QED BY <4>1 DEF args
    <3> QED BY <3>1, <3>2
  <2>6. CASE Associates \/ GetsAddress \/ LosesConnection
    <3>1. station # "off" /\ UNCHANGED <<pc, args, group, task>>
      BY <2>6 DEF Associates, GetsAddress, LosesConnection, StationMoves
    <3> QED BY <3>1 DEF args
  <2>7. CASE Tick \/ \E s \in ServerSeconds : TimeServerAnswers(s)
    BY <2>7 DEF Tick, TimeServerAnswers, args, wifi
  <2>8. CASE UNCHANGED vars BY <2>8 DEF vars, args, wifi
  <2> QED BY <2>1, <2>2, <2>3, <2>4, <2>5, <2>6, <2>7, <2>8 DEF Next
<1> QED BY <1>1, <1>2, PTL DEF Spec

\* However wwifi_init ends, and whatever the station does meanwhile, the device restarts only
\* with a name or password that is too long, or when there was no memory for the group.
THEOREM RestartsOnlyWithoutGroup == Spec => NoNeedlessRestart
<1>1. OrderInv /\ [Next]_vars => [pc' < pc => ~Fit \/ group = "none"]_vars
  <2> SUFFICES ASSUME OrderInv, Next, pc' < pc PROVE ~Fit \/ group = "none"
    OBVIOUS
  <2>1. pc \in Nat \ {0} BY DEF OrderInv
  <2>2. ~wwifi_init /\ ~mqtt_start
    <3>1. wwifi_init \/ mqtt_start => pc' \in Nat /\ pc' > pc
      BY <2>1 DEF wwifi_init, mqtt_start, Succeeds, Fails, InitSteps
    <3> QED BY <2>1, <3>1
  <2>3. group # "created" /\ (task = "waiting" \/ queue # <<>>)
    <3>1. pc' # pc BY <2>1
    <3> QED BY <2>2, <3>1 DEF Next, Associates, GetsAddress, LosesConnection, StationMoves,
              _event_handler, Handle, wwifi_connection_waiting, NextCall, SessionEnds, Tick,
              TimeServerAnswers
  <2>4. pc > 2
    <3>1. CASE task = "waiting"
      <4>1. ~(pc <= 9) BY <3>1 DEF OrderInv
      <4> QED BY <2>1, <4>1
    <3>2. CASE queue # <<>>
      <4>1. ~(pc <= 2) BY <3>2 DEF OrderInv
      <4> QED BY <2>1, <4>1
    <3> QED BY <2>3, <3>1, <3>2
  <2> QED BY <2>3, <2>4 DEF OrderInv
<1> QED BY <1>1, OrderHolds, PTL DEF Spec, NoNeedlessRestart

-----------------------------------------------------------------------------
\* A step that starts the timer leaves exactly the time that was given.
LEMMA SetTimerInv ==
  ASSUME ClockInv, SetTimer, UNCHANGED clock
  PROVE  ClockInv'
<1>1. /\ end_time' \in Times /\ elapsed' = 0
      /\ Micros(end_time') = Micros(clock) + Timeout * UsPerMs
  BY CountdownIsExact, BootAssumption DEF SetTimer, ClockInv
<1>2. Timeout * UsPerMs \in Int BY UnitsType, BootAssumption
<1>3. (Micros(clock))' = Micros(clock) /\ (Micros(end_time))' = Micros(end_time') BY DEF Micros
<1>4. LeftOver' = Timeout * UsPerMs BY <1>1, <1>2 DEF LeftOver
<1> QED BY <1>1, <1>3, <1>4 DEF ClockInv

\* A tick takes the same from both.
LEMMA TickInv ==
  ASSUME ClockInv, Tick
  PROVE  ClockInv'
<1>1. Timeval(0, 1) \in Times /\ Micros(Timeval(0, 1)) = 1
  BY UnitsType DEF Timeval, Times, Micros
<1>2. clock' \in Times /\ Micros(clock') = Micros(clock) + 1
  BY <1>1, AddSub DEF Tick, ClockInv
<1>3. elapsed' = elapsed + 1 /\ UNCHANGED <<task, end_time, stepped>> BY DEF Tick
<1>4. (Micros(clock))' = Micros(clock') /\ (Micros(end_time))' = Micros(end_time)
  BY <1>3 DEF Micros
<1>5. Timeout * UsPerMs \in Int /\ elapsed \in Int /\ Micros(clock) \in Int
  BY UnitsType, Multiples, BootAssumption DEF ClockInv, Times, Micros
<1>6. LeftOver' = LeftOver - 1 /\ LeftOver \in Int BY <1>3, <1>5 DEF LeftOver
<1> QED BY <1>2, <1>3, <1>4, <1>5, <1>6 DEF ClockInv

\* While nobody sets the clock, the timer of a call ends when its time has gone by.
LEMMA ClockHolds == Spec => []ClockInv
<1>1. Init => ClockInv
  BY UnitsType DEF Init, ClockInv, TimerInit, Timeval, Times
<1>2. ClockInv /\ [Next]_vars => ClockInv'
  <2> SUFFICES ASSUME ClockInv, [Next]_vars PROVE ClockInv'
    OBVIOUS
  <2>1. CASE wwifi_connection_waiting
    <3>1. CASE SetTimer /\ UNCHANGED clock BY <3>1, SetTimerInv
    <3>2. CASE Restart BY <3>2, Restarted DEF ClockInv
    <3> QED BY <2>1, <3>1, <3>2 DEF wwifi_connection_waiting
  <2>2. CASE NextCall BY <2>2, SetTimerInv DEF NextCall
  <2>3. CASE Tick BY <2>3, TickInv
  <2>4. ASSUME NEW s \in ServerSeconds, TimeServerAnswers(s) PROVE ClockInv'
    <3>1. Timeval(s, 0) \in Times BY UnitsType, BootAssumption DEF Timeval, Times
    <3> QED BY <2>4, <3>1 DEF TimeServerAnswers, ClockInv
  <2>5. CASE mqtt_start \/ SessionEnds
    BY <2>5 DEF mqtt_start, SessionEnds, ClockInv, timing
  <2>6. CASE Restart BY <2>6, Restarted DEF ClockInv
  <2>7. CASE \/ Associates \/ GetsAddress \/ LosesConnection \/ wwifi_init
             \/ Handle(Head(queue)) \/ UNCHANGED vars
    <3>1. UNCHANGED <<task, timing>>
      BY <2>7 DEF Associates, GetsAddress, LosesConnection, StationMoves, wwifi_init, Handle, vars
    <3> QED BY <3>1 DEF ClockInv, timing, LeftOver, Micros
  <2> QED BY <2>1, <2>2, <2>3, <2>4, <2>5, <2>6, <2>7 DEF Next, _event_handler
<1> QED BY <1>1, <1>2, PTL DEF Spec

\* A call's timer never runs out early or late, for every unit, timeout and sequence of ticks
\* and calls, as long as the time server has not set the clock during the call.
THEOREM TimersKeepTime == Spec => []ExpiryOnTime
<1>1. ClockInv => ExpiryOnTime
  <2> SUFFICES ASSUME ClockInv, task = "session", ~stepped
               PROVE  TimerIsExpired(end_time, clock) <=> elapsed >= Timeout * UsPerMs
    BY DEF ExpiryOnTime
  <2>1. TimerIsExpired(end_time, clock) <=> Micros(end_time) <= Micros(clock)
    BY ExpiresOnTime DEF ClockInv
  <2>2. Micros(end_time) = Micros(clock) + LeftOver BY DEF ClockInv
  <2>3. Timeout * UsPerMs \in Int /\ elapsed \in Int /\ Micros(clock) \in Int
    BY UnitsType, Multiples, BootAssumption DEF ClockInv, Times, Micros
  <2> QED BY <2>1, <2>2, <2>3 DEF LeftOver
<1> QED BY <1>1, ClockHolds, PTL

\* Whatever the clock says, and whoever sets it, no call makes a socket wait for ever; and a
\* clock that nobody sets keeps every wait within what is left of the call.
THEOREM SocketsComeBack == Spec => []SocketsWaitAWhile
<1>1. ClockInv => SocketsWaitAWhile
  <2> SUFFICES ASSUME ClockInv, task = "session"
               PROVE  LET wait == Micros(SocketTimeout(TimerLeftMS(end_time, clock)))
                      IN wait > 0 /\ (~stepped => wait <= LeftOver \/ wait = LeastWait)
    BY DEF SocketsWaitAWhile
  <2> DEFINE ms == TimerLeftMS(end_time, clock)
             left == Micros(end_time) - Micros(clock)
  <2>1. ms \in Nat /\ (left < 0 => ms = 0) /\ (left >= 0 => ms * UsPerMs <= left)
    BY LeftIsRoundedDown DEF ClockInv
  <2>2. Micros(clock) \in Int /\ Micros(end_time) \in Int
    BY UnitsType, Multiples DEF ClockInv, Times, Micros
  <2>3. ~stepped => left = LeftOver
    <3>1. Timeout * UsPerMs \in Int /\ elapsed \in Int
      BY UnitsType, Multiples, BootAssumption DEF ClockInv
    <3> QED BY <2>2, <3>1 DEF ClockInv, LeftOver
  <2>4. left \in Int BY <2>2
  <2> HIDE DEF ms, left
  <2>5. Micros(SocketTimeout(ms)) = IF ms = 0 THEN LeastWait ELSE ms * UsPerMs
    BY <2>1, SocketWaitIsBounded
  <2>6. ms # 0 => ms * UsPerMs >= UsPerMs /\ ms * UsPerMs \in Nat BY <2>1, UnitsType, Multiples
  <2>7. Micros(SocketTimeout(ms)) > 0 BY <2>1, <2>5, <2>6, UnitsType
  <2>8. ~stepped => Micros(SocketTimeout(ms)) <= LeftOver \/ Micros(SocketTimeout(ms)) = LeastWait
    BY <2>1, <2>3, <2>4, <2>5, <2>6
  <2> QED BY <2>7, <2>8 DEF ms
<1> QED BY <1>1, ClockHolds, PTL

-----------------------------------------------------------------------------
(* Wi-Fi events. *)

\* Short queues, event by event.
LEMMA ShortQueues ==
  /\ Len(<<>>) = 0 /\ \A e : Append(<<>>, e) = <<e>>
  /\ \A a : Len(<<a>>) = 1 /\ Head(<<a>>) = a /\ Tail(<<a>>) = <<>>
  /\ \A a, b : Len(<<a, b>>) = 2 /\ Head(<<a, b>>) = a /\ Tail(<<a, b>>) = <<b>>
  /\ \A a, b, c : Len(<<a, b, c>>) = 3 /\ Head(<<a, b, c>>) = a /\ Tail(<<a, b, c>>) = <<b, c>>
OBVIOUS

\* One more event.
LEMMA Appends ==
  ASSUME NEW S, NEW a \in S, NEW b \in S, NEW e \in S
  PROVE  Append(<<a>>, e) = <<a, e>> /\ Append(<<a, b>>, e) = <<a, b, e>>
<1>1. <<a>> \in Seq(S) /\ <<a, b>> \in Seq(S) /\ <<a, e>> \in Seq(S) /\ <<a, b, e>> \in Seq(S)
  OBVIOUS
<1>2. Append(<<a>>, e) = <<a, e>>
  <2> DEFINE s == Append(<<a>>, e)
  <2>1. s \in Seq(S) /\ Len(s) = 2 /\ s[1] = a /\ s[2] = e BY <1>1
  <2>2. Len(<<a, e>>) = 2 /\ <<a, e>>[1] = a /\ <<a, e>>[2] = e OBVIOUS
  <2> HIDE DEF s
  <2>3. \A i \in 1..Len(s) : s[i] = <<a, e>>[i] BY <2>1, <2>2
  <2>4. s = <<a, e>> BY <1>1, <2>1, <2>2, <2>3, SeqEqual
  <2> QED BY <2>4 DEF s
<1>3. Append(<<a, b>>, e) = <<a, b, e>>
  <2> DEFINE s == Append(<<a, b>>, e)
  <2>1. s \in Seq(S) /\ Len(s) = 3 /\ s[1] = a /\ s[2] = b /\ s[3] = e BY <1>1
  <2>2. Len(<<a, b, e>>) = 3 /\ <<a, b, e>>[1] = a /\ <<a, b, e>>[2] = b /\ <<a, b, e>>[3] = e
    OBVIOUS
  <2> HIDE DEF s
  <2>3. \A i \in 1..Len(s) : s[i] = <<a, b, e>>[i] BY <2>1, <2>2
  <2>4. s = <<a, b, e>> BY <1>1, <2>1, <2>2, <2>3, SeqEqual
  <2> QED BY <2>4 DEF s
<1> QED BY <1>2, <1>3

\* The events of a connection, one after the other.
LEMMA EventAppends ==
  /\ Append(<<"CONNECTED">>, "GOT_IP") = <<"CONNECTED", "GOT_IP">>
  /\ Append(<<"CONNECTED">>, "DISCONNECTED") = <<"CONNECTED", "DISCONNECTED">>
  /\ Append(<<"GOT_IP">>, "DISCONNECTED") = <<"GOT_IP", "DISCONNECTED">>
  /\ Append(<<"CONNECTED", "GOT_IP">>, "DISCONNECTED") = <<"CONNECTED", "GOT_IP", "DISCONNECTED">>
<1> DEFINE E == {"CONNECTED", "GOT_IP", "DISCONNECTED"}
<1>1. "CONNECTED" \in E /\ "GOT_IP" \in E /\ "DISCONNECTED" \in E OBVIOUS
<1> HIDE DEF E
<1> QED BY <1>1, Appends, Zenon

\* There is room for an event where fewer than three are waiting.
LEMMA Posted ==
  ASSUME NEW event, Post(event), Len(queue) \in 0..2
  PROVE  queue' = Append(queue, event)
<1>1. \A n \in 0..2 : n < QueueSize BY BootAssumption
<1>2. Len(queue) < QueueSize BY <1>1
<1> QED BY <1>2 DEF Post

\* The start-up posts START once, as the station's first event.
LEMMA StartUpEvents ==
  ASSUME OrderInv, EventsInv, wwifi_init PROVE EventsInv'
<1>1. pc \in 1..8 /\ bits' = bits BY DEF OrderInv, wwifi_init, InitSteps
<1>2. station = "off" /\ queue = <<>> /\ bits = FALSE BY <1>1 DEF EventsInv
<1>3. CASE UNCHANGED wifi
  BY <1>1, <1>2, <1>3 DEF EventsInv, wifi
<1>4. CASE Succeeds("start") /\ pc = 8
  <2>1. station' = "idle" /\ Post("START") /\ pc' = 9 BY <1>4 DEF Succeeds
  <2>2. queue' = <<"START">> BY <1>2, <2>1, Posted, ShortQueues
  <2> QED BY <1>1, <1>2, <2>1, <2>2 DEF EventsInv
<1>5. CASE Succeeds(InitSteps[pc]) /\ pc \in 1..7
  <2>1. InitSteps[pc] # "start" BY <1>5 DEF InitSteps
  <2>2. UNCHANGED wifi BY <1>5, <2>1 DEF Succeeds
  <2> QED BY <1>3, <2>2
<1>6. CASE Succeeds(InitSteps[pc]) /\ pc = 8
  <2>1. InitSteps[pc] = "start" BY <1>6 DEF InitSteps
  <2> QED BY <1>4, <1>6, <2>1
<1>7. CASE Fails(InitSteps[pc])
  <2>1. UNCHANGED wifi BY <1>7 DEF Fails, wifi
  <2> QED BY <1>3, <2>1
<1> QED BY <1>1, <1>5, <1>6, <1>7 DEF wwifi_init

\* The station adds the next event of its connection.
LEMMA StationEvents ==
  ASSUME EventsInv, Associates \/ GetsAddress \/ LosesConnection PROVE EventsInv'
<1> USE DEF Connecting, Connected, Address, Losses
<1>1. UNCHANGED <<pc, bits>> /\ station # "off"
  BY DEF Associates, GetsAddress, LosesConnection, StationMoves
<1>2. ~(pc <= 8) BY <1>1 DEF EventsInv
<1>3. CASE Associates
  <2>1. station = "connecting" /\ station' = "associated" /\ Post("CONNECTED")
    BY <1>3 DEF Associates, StationMoves
  <2>2. queue = <<>> /\ bits = FALSE BY <2>1 DEF EventsInv
  <2>3. queue' = <<"CONNECTED">> BY <2>1, <2>2, Posted, ShortQueues
  <2> QED BY <1>1, <2>1, <2>2, <2>3 DEF EventsInv
<1>4. CASE GetsAddress
  <2>1. station = "associated" /\ station' = "ip" /\ Post("GOT_IP")
    BY <1>4 DEF GetsAddress, StationMoves
  <2>2. queue \in {<<>>, <<"CONNECTED">>} /\ bits = FALSE BY <2>1 DEF EventsInv
  <2>3. Len(queue) \in 0..2 BY <2>2, ShortQueues
  <2>4. queue' \in {<<"GOT_IP">>, <<"CONNECTED", "GOT_IP">>}
    <3>1. queue' = Append(queue, "GOT_IP") BY <2>1, <2>3, Posted
    <3>2. CASE queue = <<>> BY <3>1, <3>2, ShortQueues
    <3>3. CASE queue = <<"CONNECTED">>
      <4>1. Append(<<"CONNECTED">>, "GOT_IP") = <<"CONNECTED", "GOT_IP">> BY EventAppends
      <4> QED BY <3>1, <3>3, <4>1
    <3> QED BY <2>2, <3>2, <3>3
  <2> QED BY <1>1, <2>1, <2>2, <2>4 DEF EventsInv
<1>5. CASE LosesConnection
  <2>1. station \in {"connecting", "associated", "ip"} /\ station' = "idle" /\ Post("DISCONNECTED")
    BY <1>5 DEF LosesConnection, StationMoves
  <2>2. queue \in {<<>>, <<"CONNECTED">>, <<"GOT_IP">>, <<"CONNECTED", "GOT_IP">>}
    BY <2>1 DEF EventsInv
  <2>3. Len(queue) \in 0..2 BY <2>2, ShortQueues
  <2>4. queue' = Append(queue, "DISCONNECTED") BY <2>1, <2>3, Posted
  <2>5. queue' \in Losses
    <3>1. CASE queue = <<>> BY <2>4, <3>1, ShortQueues
    <3>2. CASE queue = <<"CONNECTED">> \/ queue = <<"GOT_IP">> BY <2>4, <3>2, EventAppends
    <3>3. CASE queue = <<"CONNECTED", "GOT_IP">> BY <2>4, <3>3, EventAppends
    <3> QED BY <2>2, <3>1, <3>2, <3>3
  <2> QED BY <1>1, <2>1, <2>5 DEF EventsInv
<1> QED BY <1>3, <1>4, <1>5

\* The event loop takes the first of them; with DISCONNECTED it takes the last.
LEMMA HandledEvents ==
  ASSUME EventsInv, queue # <<>>, Handle(Head(queue)) PROVE EventsInv'
<1> USE DEF Connecting, Connected, Address, Losses
<1>1. pc' = pc /\ queue # <<>> /\ queue' = Tail(queue) BY DEF Handle
<1>2. CASE queue = <<"START">>
  <2>1. queue' = <<>> /\ Head(queue) = "START" BY <1>1, <1>2, ShortQueues
  <2>2. station = "idle" /\ bits = FALSE BY <1>2 DEF EventsInv
  <2>3. station' = "connecting" /\ bits' = bits
    BY <2>1, <2>2 DEF Handle, Started, esp_wifi_connect
  <2> QED BY <1>1, <2>1, <2>2, <2>3 DEF EventsInv
<1>3. CASE queue = <<"DISCONNECTED">>
  <2>1. queue' = <<>> /\ Head(queue) = "DISCONNECTED" BY <1>1, <1>3, ShortQueues
  <2>2. station = "idle" BY <1>3 DEF EventsInv
  <2>3. station' = "connecting" /\ bits' = FALSE
    BY <2>1, <2>2 DEF Handle, Disconnected, esp_wifi_connect
  <2> QED BY <1>1, <2>1, <2>2, <2>3 DEF EventsInv
<1>4. CASE Head(queue) = "CONNECTED"
  <2>1. UNCHANGED <<station, bits>> BY <1>4 DEF Handle
  <2>2. queue \in {<<"CONNECTED">>, <<"CONNECTED", "GOT_IP">>, <<"CONNECTED", "DISCONNECTED">>,
                   <<"CONNECTED", "GOT_IP", "DISCONNECTED">>}
    BY <1>1, <1>4, ShortQueues DEF EventsInv
  <2> QED
    <3>1. CASE queue = <<"CONNECTED">>
      BY <1>1, <2>1, <3>1, ShortQueues DEF EventsInv
    <3>2. CASE queue = <<"CONNECTED", "GOT_IP">>
      BY <1>1, <2>1, <3>2, ShortQueues DEF EventsInv
    <3>3. CASE queue = <<"CONNECTED", "DISCONNECTED">>
      BY <1>1, <2>1, <3>3, ShortQueues DEF EventsInv
    <3>4. CASE queue = <<"CONNECTED", "GOT_IP", "DISCONNECTED">>
      BY <1>1, <2>1, <3>4, ShortQueues DEF EventsInv
    <3> QED BY <2>2, <3>1, <3>2, <3>3, <3>4
<1>5. CASE Head(queue) = "GOT_IP"
  <2>1. station' = station /\ bits' = TRUE BY <1>5 DEF Handle, GotIp
  <2>2. queue \in {<<"GOT_IP">>, <<"GOT_IP", "DISCONNECTED">>}
    BY <1>1, <1>5, ShortQueues DEF EventsInv
  <2>3. CASE queue = <<"GOT_IP">> BY <1>1, <2>1, <2>3, ShortQueues DEF EventsInv
  <2>4. CASE queue = <<"GOT_IP", "DISCONNECTED">>
    BY <1>1, <2>1, <2>4, ShortQueues DEF EventsInv
  <2> QED BY <2>2, <2>3, <2>4
<1>6. Head(queue) \in {"CONNECTED", "GOT_IP"} \/ queue \in {<<"START">>, <<"DISCONNECTED">>}
  <2>1. \/ queue \in {<<"START">>, <<"DISCONNECTED">>}
        \/ queue \in {<<"CONNECTED">>, <<"GOT_IP">>}
        \/ queue \in {<<"CONNECTED", "GOT_IP">>, <<"CONNECTED", "DISCONNECTED">>,
                     <<"GOT_IP", "DISCONNECTED">>}
        \/ queue = <<"CONNECTED", "GOT_IP", "DISCONNECTED">>
    BY <1>1 DEF EventsInv
  <2> QED BY <2>1, ShortQueues
<1> QED BY <1>2, <1>3, <1>4, <1>5, <1>6

\* Nothing else touches the station, its events or the bit.
LEMMA EventsHold == Spec => []EventsInv
<1>1. Init => EventsInv BY DEF Init, EventsInv
<1>2. OrderInv /\ EventsInv /\ [Next]_vars => EventsInv'
  <2> SUFFICES ASSUME OrderInv, EventsInv, [Next]_vars PROVE EventsInv'
    OBVIOUS
  <2>1. CASE mqtt_start
    <3>1. UNCHANGED <<station, queue, bits>> /\ ~(pc' <= 8)
      BY <2>1 DEF mqtt_start, wifi, InitSteps
    <3> QED BY <3>1 DEF EventsInv
  <2>2. CASE Restart BY <2>2, Restarted
  <2>3. CASE \/ (wwifi_connection_waiting /\ ~Restart) \/ NextCall \/ SessionEnds \/ Tick
             \/ (\E s \in ServerSeconds : TimeServerAnswers(s)) \/ UNCHANGED vars
    <3>1. UNCHANGED <<pc, station, queue, bits>>
      BY <2>3 DEF wwifi_connection_waiting, NextCall, SessionEnds, Tick, TimeServerAnswers, vars,
         wifi
    <3> QED BY <3>1 DEF EventsInv
  <2>4. CASE _event_handler /\ ~Restart BY <2>4, HandledEvents DEF _event_handler
  <2> QED BY <2>1, <2>2, <2>3, <2>4, StationEvents, StartUpEvents DEF Next
<1> QED BY <1>1, <1>2, OrderHolds, PTL DEF Spec

\* The bit follows the station: the last GOT_IP or DISCONNECTED under way says what it will be,
\* and with none under way it is right (wwifi.c:46-62), for a queue of at least three events.
THEOREM BitFollowsStation == Spec => []BitCatchesUp
<1>1. EventsInv => BitCatchesUp
  <2> SUFFICES ASSUME EventsInv PROVE BitCatchesUp
    OBVIOUS
  <2> USE DEF BitCatchesUp, ForBit, Connecting, Connected, Address, Losses
  <2>1. CASE queue = <<>>
    <3>1. ForBit = {} BY <2>1, ShortQueues
    <3>2. station = "ip" <=> bits = TRUE BY <2>1 DEF EventsInv
    <3>3. bits \in BOOLEAN BY <2>1 DEF EventsInv
    <3> QED BY <3>1, <3>2, <3>3
  <2>2. CASE queue \in {<<"START">>, <<"CONNECTED">>}
    <3>1. ForBit = {} BY <2>2
    <3>2. station # "ip" /\ bits = FALSE BY <2>2 DEF EventsInv
    <3> QED BY <3>1, <3>2
  <2>3. CASE queue \in {<<"GOT_IP">>, <<"CONNECTED", "GOT_IP">>}
    <3>1. station = "ip"
      <4>1. queue \notin Losses /\ queue \notin {<<>>, <<"CONNECTED">>, <<"START">>}
        <5>1. queue[Len(queue)] = "GOT_IP" /\ Len(queue) # 0 BY <2>3
        <5>2. \A q \in Losses : q[Len(q)] = "DISCONNECTED" OBVIOUS
        <5>3. \A q \in {<<"CONNECTED">>, <<"START">>} : q[Len(q)] # "GOT_IP" OBVIOUS
        <5> HIDE DEF Losses
        <5> QED BY <5>1, <5>2, <5>3, ShortQueues
      <4> HIDE DEF Losses
      <4> QED BY <4>1 DEF EventsInv
    <3>2. Len(queue) \in 1..2 /\ queue[Len(queue)] = "GOT_IP" BY <2>3
    <3>3. Len(queue) \in ForBit BY <3>2
    <3>4. \A j \in 1..Len(queue) : j <= Len(queue) BY <3>2
    <3> QED BY <3>1, <3>2, <3>3, <3>4
  <2>4. CASE queue \in Losses
    <3>1. station # "ip" BY <2>4 DEF EventsInv
    <3>2. Len(queue) \in ForBit /\ queue[Len(queue)] = "DISCONNECTED" BY <2>4
    <3>3. Len(queue) \in Nat /\ ForBit \subseteq 1..Len(queue) BY <2>4
    <3> QED BY <3>1, <3>2, <3>3
  <2> QED BY <2>1, <2>2, <2>3, <2>4 DEF EventsInv
<1> QED BY <1>1, EventsHold, PTL

\* A station that is idle has the event on its way that makes it connect (wwifi.c:42-44, 59-65).
THEOREM StationComesBack == Spec => []NeverStranded
<1>1. EventsInv => NeverStranded
  <2> SUFFICES ASSUME EventsInv, station = "idle"
               PROVE  \E i \in 1..Len(queue) : queue[i] \in {"START", "DISCONNECTED"}
    BY DEF NeverStranded
  <2>1. queue = <<"START">> \/ queue \in Losses BY DEF EventsInv
  <2>2. Len(queue) \in 1..Len(queue) /\ queue[Len(queue)] \in {"START", "DISCONNECTED"}
    BY <2>1 DEF Losses
  <2> QED BY <2>2
<1> QED BY <1>1, EventsHold, PTL
=============================================================================

------------------------------- MODULE Timers -------------------------------
(***************************************************************************)
(* The timers of MQTTmbedtls.c: a Timer is the wall-clock time it ends at, *)
(* and what is left of it becomes the timeout of a socket.                 *)
(***************************************************************************)
EXTENDS Integers

CONSTANTS
  UsPerMs,    \* microseconds of a millisecond, 1000 in the code
  MsPerSec,   \* milliseconds of a second, 1000 in the code
  LeastWait   \* microseconds a socket waits at least, 100 in the code

UsPerSec == UsPerMs * MsPerSec

ASSUME TimersAssumption ==
  /\ UsPerMs \in Nat \ {0} /\ MsPerSec \in Nat \ {0}
  /\ LeastWait \in 1..(UsPerSec - 1)

-----------------------------------------------------------------------------
\* struct timeval
Timeval(s, us) == [sec |-> s, usec |-> us]
Times == [sec : Int, usec : 0..(UsPerSec - 1)]

timeradd(a, b) ==
  LET s == a.sec + b.sec
      us == a.usec + b.usec
  IN IF us >= UsPerSec THEN Timeval(s + 1, us - UsPerSec) ELSE Timeval(s, us)
timersub(a, b) ==
  LET s == a.sec - b.sec
      us == a.usec - b.usec
  IN IF us < 0 THEN Timeval(s - 1, us + UsPerSec) ELSE Timeval(s, us)

Interval(ms) == Timeval(ms \div MsPerSec, (ms % MsPerSec) * UsPerMs)
AtMostZero(t) == t.sec < 0 \/ (t.sec = 0 /\ t.usec <= 0)

TimerInit == Timeval(0, 0)
\* Mutant: the microseconds are not looked at.
Mutant_TimerIsExpired(end_time, now) == timersub(end_time, now).sec <= 0
TimerIsExpired(end_time, now) == AtMostZero(timersub(end_time, now))
TimerCountdownMS(timeout, now) == timeradd(now, Interval(timeout))
TimerCountdown(timeout, now) == timeradd(now, Timeval(timeout, 0))
TimerLeftMS(end_time, now) ==
  LET left == timersub(end_time, now)
  IN IF left.sec < 0 THEN 0 ELSE left.sec * MsPerSec + left.usec \div UsPerMs

\* Mutant: nothing stands in for an interval of 0.
Mutant_SocketTimeout(timeout_ms) == Interval(timeout_ms)
\* The timeout buffered_mbedtls_read and buffered_mbedtls_write give the socket, for which 0
\* would mean to wait for ever.
SocketTimeout(timeout_ms) ==
  IF AtMostZero(Interval(timeout_ms)) THEN Timeval(0, LeastWait) ELSE Interval(timeout_ms)

-----------------------------------------------------------------------------
\* What a time stands for.
Micros(t) == t.sec * UsPerSec + t.usec
=============================================================================

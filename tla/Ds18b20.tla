------------------------------ MODULE Ds18b20 ------------------------------
(***************************************************************************)
(* ds18b20.c: the temperature, read over a bus of one wire.  A reading is  *)
(* DS_get_temp, a byte or a reset pulse at a time, in sixteenths of a      *)
(* degree.                                                                 *)
(*                                                                         *)
(* External: the sensor, which can leave the bus, come back and be shorted *)
(* between any two of them, and the pull-up of the bus, which reads as     *)
(* ones when nobody answers.  The bits of a byte are in time.              *)
(***************************************************************************)
EXTENDS Integers

CONSTANTS
  Temperatures,   \* sixteenths of a degree the sensor may measure
  Warmest         \* 2000, the 125 degrees its range ends at

PowerOn == 1360   \* 85 degrees
Bytes == 256
Words == 65536

\* What it measures fits in 15 bits and a sign.
ASSUME Ds18b20Assumption ==
  Warmest \in PowerOn..(Words \div 2 - 1) /\ Temperatures \subseteq (-Warmest)..Warmest

VARIABLES
  init,      \* init
  step,      \* where the reading is
  low, high, \* temp1 and temp2
  temp,      \* what the reading has given; 0 before it ends
  \* the sensor
  place,     \* on the bus, away from it, or shorted
  mode,      \* what it does with the next byte
  scratch,   \* the temperature in its memory
  \* history of the reading
  steady,    \* whether the sensor was on the bus all the time
  shorted,   \* whether the bus was shorted at some time
  measured   \* what has been measured, or NotMeasured

firmware == <<init, step, low, high, temp>>
sensor == <<mode, scratch>>
readingHistory == <<steady, shorted, measured>>
dsVars == <<firmware, place, sensor, readingHistory>>

NotMeasured == Warmest + 1
Idle == "idle"

-----------------------------------------------------------------------------
(* The sensor. *)

\* Commands: skip the address, convert, read the memory.
SkipRom == 204
Convert == 68
ReadScratchpad == 190

\* Power comes with the bus.
Moves ==
  /\ place' \in {"on the bus", "away", "shorted"} \ {place}
  /\ mode' = Idle /\ scratch' = PowerOn
  /\ steady' = FALSE /\ shorted' = (shorted \/ place' = "shorted")
  /\ UNCHANGED <<firmware, measured>>

OnTheBus == place = "on the bus"
\* A command it waits for is followed; any other leaves it silent until a reset.
Obeys(command) ==
  IF ~OnTheBus THEN UNCHANGED <<sensor, measured>>
  ELSE \/ /\ command = SkipRom
          /\ mode' = (IF mode = "rom" THEN "function" ELSE Idle) /\ UNCHANGED <<scratch, measured>>
       \/ /\ command = Convert /\ mode = "function"
          /\ mode' = Idle /\ scratch' \in Temperatures /\ measured' = scratch'
       \/ /\ command = ReadScratchpad /\ mode = "function"
          /\ mode' = "sends low" /\ UNCHANGED <<scratch, measured>>
       \/ /\ command # SkipRom /\ mode # "function"
          /\ mode' = Idle /\ UNCHANGED <<scratch, measured>>
\* Two bytes of two's complement, the low one first.
Word(t) == t % Words
Line ==
  IF OnTheBus /\ mode = "sends low" THEN Word(scratch) % Bytes
  ELSE IF OnTheBus /\ mode = "sends high" THEN Word(scratch) \div Bytes
  ELSE IF place = "shorted" THEN 0 ELSE Bytes - 1
Sent ==
  /\ mode' = (IF mode = "sends low" THEN "sends high" ELSE Idle)
  /\ UNCHANGED <<scratch, measured>>

-----------------------------------------------------------------------------
(* The firmware. *)

\* Mutant: the sensor is not made to listen again.
Mutant_RST_PULSE == UNCHANGED mode
\* The second look at the bus, after the sensor has answered, is the one that counts: a bus
\* without a sensor is high then, as one with it.
RST_PULSE == mode' = IF OnTheBus THEN "rom" ELSE mode
Presence == place # "shorted"

\* Mutant: the high byte comes first.
Mutant_Sixteenths(temp1, temp2) == temp1 * Bytes + temp2
\* temp1 + temp2 * 256, of two chars that are unsigned on this processor.
Sixteenths(temp1, temp2) == temp1 + temp2 * Bytes

DS_init == init' = 1 /\ UNCHANGED <<step, low, high, temp, place, sensor, readingHistory>>

\* The steps of a reading, and what each of them ends with.
Goes(from, to) == step = from /\ step' = to
Kept == UNCHANGED <<init, low, high, temp, place, steady, shorted>>

NotInitialized ==
  /\ step \in {"off", "done"} /\ init = 0
  /\ step' = "off" /\ temp' = 0
  /\ UNCHANGED <<init, low, high, place, sensor, readingHistory>>
Begins ==
  /\ step \in {"off", "done"} /\ init = 1
  /\ RST_PULSE
  /\ temp' = 0 /\ step' = (IF Presence THEN "skip" ELSE "done")
  /\ steady' = OnTheBus /\ shorted' = ~Presence /\ measured' = NotMeasured
  /\ UNCHANGED <<init, low, high, place, scratch>>
send_byte ==
  \/ Goes("skip", "convert") /\ Obeys(SkipRom) /\ Kept
  \/ Goes("convert", "delay") /\ Obeys(Convert) /\ Kept
  \/ Goes("skip again", "ask") /\ Obeys(SkipRom) /\ Kept
  \/ Goes("ask", "read low") /\ Obeys(ReadScratchpad) /\ Kept
\* Whether the reset after the conversion was answered is not looked at.
Delayed == Goes("delay", "skip again") /\ RST_PULSE /\ Kept /\ UNCHANGED <<scratch, measured>>
read_byte ==
  /\ \/ Goes("read low", "read high") /\ low' = Line /\ UNCHANGED high
     \/ Goes("read high", "end") /\ high' = Line /\ UNCHANGED low
  /\ Sent /\ UNCHANGED <<init, temp, place, steady, shorted>>
Ends ==
  /\ Goes("end", "done")
  /\ RST_PULSE /\ temp' = Sixteenths(low, high) /\ low' = 0 /\ high' = 0
  /\ UNCHANGED <<init, place, scratch, readingHistory>>
DS_get_temp == NotInitialized \/ Begins \/ send_byte \/ Delayed \/ read_byte \/ Ends

DsInit ==
  /\ init = 0 /\ step = "off" /\ low = 0 /\ high = 0 /\ temp = 0
  /\ place = "on the bus" /\ mode = Idle /\ scratch = PowerOn
  /\ steady = FALSE /\ shorted = FALSE /\ measured = NotMeasured
DsStep == DS_get_temp \/ Moves

-----------------------------------------------------------------------------
(* Properties. *)

\* With the sensor on the bus all the time, a temperature that is not below zero is given as it
\* was measured by this very reading (ds18b20.c:92-98).
ReadingIsRight == (step = "done" /\ steady /\ measured >= 0) => temp = measured

\* However often the sensor comes and goes, unless the bus is shorted, what a reading gives is
\* the temperature it has measured, the 85 degrees of a sensor that has just come, or more than
\* any sensor measures: never a temperature made of the bytes of two.
PlausibleIsReal == (step = "done" /\ ~shorted /\ temp <= Warmest) => temp \in {measured, PowerOn}

\* What the comment says of DS_get_temp (ds18b20.c:80): "Returns temperature from sensor".
ReturnsTemperature == (step = "done" /\ steady) => temp = measured
=============================================================================

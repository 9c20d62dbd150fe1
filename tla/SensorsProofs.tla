--------------------------- MODULE SensorsProofs ---------------------------
(***************************************************************************)
(* For any users, ports and temperatures: a port is disturbed by nobody,   *)
(* none gets lost but those given back too late, a temperature of a sensor *)
(* that stays on the bus is the one it has measured, and one that comes    *)
(* and goes gives no temperature of its own making.                        *)
(***************************************************************************)
EXTENDS Sensors, TLAPS

-----------------------------------------------------------------------------
(* The ports of the ADC. *)

Levels == {"0db", "2_5db", "6db", "11db"}
DriverOK(d, h, k, s) ==
  /\ d \in [_initialized : BOOLEAN, allocated : SUBSET Channels, atten : [Channels -> Levels]]
  /\ h \in [Users -> Channels \cup {NULL}]
  /\ k \in [Users -> Voltages \cup {Invalid}]
  /\ s \subseteq Channels

\* A holder's port is its own, is not lost and is set as the holder asked.
HoldersOK(d, h, k, s) ==
  \A u \in Users : h[u] # NULL =>
    /\ h[u] \notin s
    /\ k[u] \in Voltages /\ d.atten[h[u]] = Attenuation[k[u]]
    /\ \A w \in Users \ {u} : h[w] # h[u]
Accounted(d, h, s) == d.allocated = ({h[u] : u \in Users} \ {NULL}) \cup s
PortsOK(d, h, k, s) == DriverOK(d, h, k, s) /\ HoldersOK(d, h, k, s) /\ Accounted(d, h, s)

LEMMA DriverType ==
  ASSUME NEW b \in BOOLEAN, NEW a \in SUBSET Channels, NEW t \in [Channels -> Levels]
  PROVE  Driver(b, a, t) \in
           [_initialized : BOOLEAN, allocated : SUBSET Channels, atten : [Channels -> Levels]]
BY DEF Driver

LEMMA Levelled == \A v \in Voltages : Attenuation[v] \in Levels
BY DEF Attenuation, Voltages, Levels

\* analog_sensor_alloc, whether it gives the port or not, for a user without one.
LEMMA AllocKeeps ==
  ASSUME NEW d, NEW h, NEW k, NEW s, PortsOK(d, h, k, s), NULL \notin Channels,
         NEW u \in Users, NEW c \in Channels, NEW v, h[u] = NULL
  PROVE  PortsOK(alloc(d, c, v), [h EXCEPT ![u] = Given(d, c, v)],
                 [k EXCEPT ![u] = GivenFor(d, c, v)], s)
<1> DEFINE e == alloc(d, c, v)
           g == [h EXCEPT ![u] = Given(d, c, v)]
           l == [k EXCEPT ![u] = GivenFor(d, c, v)]
<1>1. CASE Allocates(d, c, v)
  <2>1. /\ e.allocated = d.allocated \cup {c}
        /\ e.atten = [d.atten EXCEPT ![c] = Attenuation[v]]
        /\ e = Driver(TRUE, d.allocated \cup {c}, e.atten)
        /\ g = [h EXCEPT ![u] = c] /\ l = [k EXCEPT ![u] = v]
    BY <1>1 DEF alloc, Configured, Driver, Given, GivenFor
  <2>2. v \in Voltages /\ c \notin d.allocated /\ Attenuation[v] \in Levels
    BY <1>1, Levelled DEF Allocates
  <2>3. DriverOK(e, g, l, s)
    <3> HIDE DEF e, g, l
    <3>1. e.atten \in [Channels -> Levels] /\ d.allocated \cup {c} \in SUBSET Channels
      BY <2>1, <2>2 DEF PortsOK, DriverOK
    <3>2. Driver(TRUE, d.allocated \cup {c}, e.atten) \in
            [_initialized : BOOLEAN, allocated : SUBSET Channels, atten : [Channels -> Levels]]
      BY <3>1, DriverType
    <3>3. g \in [Users -> Channels \cup {NULL}] /\ l \in [Users -> Voltages \cup {Invalid}]
      BY <2>1, <2>2 DEF PortsOK, DriverOK
    <3> QED BY <2>1, <3>2, <3>3 DEF PortsOK, DriverOK
  <2>4. c \notin s /\ \A w \in Users : h[w] # c
    BY <2>2 DEF PortsOK, Accounted
  <2>5. ASSUME NEW x \in Users, g[x] # NULL
        PROVE  /\ g[x] \notin s
               /\ l[x] \in Voltages /\ e.atten[g[x]] = Attenuation[l[x]]
               /\ \A w \in Users \ {x} : g[w] # g[x]
    <3> HIDE DEF e, g, l
    <3>1. CASE x = u
      BY <3>1, <2>1, <2>2, <2>4 DEF PortsOK, DriverOK
    <3>2. CASE x # u
      BY <3>2, <2>1, <2>4, <2>5 DEF PortsOK, DriverOK, HoldersOK
    <3> QED BY <3>1, <3>2
  <2>6. Accounted(e, g, s)
    <3> HIDE DEF e, g, l
    <3> QED BY <2>1 DEF PortsOK, DriverOK, Accounted
  <2> QED BY <2>3, <2>5, <2>6 DEF PortsOK, HoldersOK
<1>2. CASE ~Allocates(d, c, v)
  <2>1. e = d /\ g = h
    BY <1>2 DEF alloc, Given, PortsOK, DriverOK
  <2>2. l = [k EXCEPT ![u] = Invalid]
    BY <1>2 DEF GivenFor
  <2>3. DriverOK(e, g, l, s)
    BY <2>1, <2>2 DEF PortsOK, DriverOK
  <2>4. HoldersOK(e, g, l, s)
    <3> HIDE DEF e, g, l
    <3> QED BY <2>1, <2>2 DEF PortsOK, DriverOK, HoldersOK
  <2> QED BY <2>1, <2>3, <2>4 DEF PortsOK
<1> QED BY <1>1, <1>2

AnalogInv == PortsOK(adc, held, asked, stuck)

LEMMA InitializedKeeps ==
  ASSUME AnalogInv, NEW b \in BOOLEAN
  PROVE  PortsOK([adc EXCEPT !._initialized = b], held, asked, stuck)
BY DEF AnalogInv, PortsOK, DriverOK, HoldersOK, Accounted

LEMMA FreeKeeps ==
  ASSUME AnalogInv, NULL \notin Channels, NEW u \in Users, analog_sensor_free(u)
  PROVE  AnalogInv'
<1>1. held' = [held EXCEPT ![u] = NULL] /\ asked' = [asked EXCEPT ![u] = Invalid]
  BY DEF analog_sensor_free
<1>2. CASE held[u] # NULL /\ adc._initialized
  <2>1. adc' = [adc EXCEPT !.allocated = @ \ {held[u]}] /\ stuck' = stuck
    BY <1>2 DEF analog_sensor_free
  <2>2. DriverOK(adc', held', asked', stuck')
    BY <1>1, <2>1 DEF AnalogInv, PortsOK, DriverOK
  <2>3. HoldersOK(adc', held', asked', stuck')
    BY <1>1, <2>1 DEF AnalogInv, PortsOK, DriverOK, HoldersOK
  <2>4. Accounted(adc', held', stuck')
    BY <1>1, <1>2, <2>1 DEF AnalogInv, PortsOK, DriverOK, HoldersOK, Accounted
  <2> QED BY <2>2, <2>3, <2>4 DEF AnalogInv, PortsOK
<1>3. CASE ~(held[u] # NULL /\ adc._initialized)
  <2>1. adc' = adc /\ stuck' = stuck \cup ({held[u]} \ {NULL})
    BY <1>3 DEF analog_sensor_free
  <2>2. DriverOK(adc', held', asked', stuck')
    BY <1>1, <2>1 DEF AnalogInv, PortsOK, DriverOK
  <2>3. HoldersOK(adc', held', asked', stuck')
    BY <1>1, <2>1 DEF AnalogInv, PortsOK, DriverOK, HoldersOK
  <2>4. Accounted(adc', held', stuck')
    BY <1>1, <2>1 DEF AnalogInv, PortsOK, DriverOK, HoldersOK, Accounted
  <2> QED BY <2>2, <2>3, <2>4 DEF AnalogInv, PortsOK
<1> QED BY <1>2, <1>3

LEMMA MqttInitKeeps == AnalogInv /\ mqtt_init => AnalogInv'
<1> SUFFICES ASSUME AnalogInv, mqtt_init PROVE AnalogInv'
  OBVIOUS
<1> DEFINE ready == [adc EXCEPT !._initialized = TRUE]
           lit == alloc(ready, LIGHT_ADC_PORT, "3_9")
           heldLit == [held EXCEPT ![Light] = Given(ready, LIGHT_ADC_PORT, "3_9")]
           askedLit == [asked EXCEPT ![Light] = GivenFor(ready, LIGHT_ADC_PORT, "3_9")]
           heldBoth == [heldLit EXCEPT ![Sound] = Given(lit, SOUND_ADC_PORT, "3_9")]
           askedBoth == [askedLit EXCEPT ![Sound] = GivenFor(lit, SOUND_ADC_PORT, "3_9")]
<1>1. PortsOK(ready, held, asked, stuck)
  BY InitializedKeeps
<1>2. Light \in Users /\ held[Light] = NULL /\ Sound \in Users /\ held[Sound] = NULL /\ Light # Sound
  BY SensorsAssumption DEF mqtt_init
<1>3. LIGHT_ADC_PORT \in Channels /\ SOUND_ADC_PORT \in Channels /\ NULL \notin Channels
  BY SensorsAssumption
<1>4. PortsOK(lit, heldLit, askedLit, stuck)
  <2> HIDE DEF ready
  <2> QED BY <1>1, <1>2, <1>3, AllocKeeps
<1>5. heldLit[Sound] = NULL
  BY <1>1, <1>2 DEF PortsOK, DriverOK
<1>6. PortsOK(alloc(lit, SOUND_ADC_PORT, "3_9"), heldBoth, askedBoth, stuck)
  <2> HIDE DEF lit, heldLit, askedLit
  <2> QED BY <1>2, <1>3, <1>4, <1>5, AllocKeeps
<1>7. adc' = alloc(lit, SOUND_ADC_PORT, "3_9") /\ stuck' = stuck
  BY DEF mqtt_init
<1>8. held' = [held EXCEPT ![Light] = Given(ready, LIGHT_ADC_PORT, "3_9"),
                           ![Sound] = Given(lit, SOUND_ADC_PORT, "3_9")]
  BY DEF mqtt_init
<1>9. asked' = [asked EXCEPT ![Light] = GivenFor(ready, LIGHT_ADC_PORT, "3_9"),
                             ![Sound] = GivenFor(lit, SOUND_ADC_PORT, "3_9")]
  BY DEF mqtt_init
<1>10. held' = heldBoth
  <2> HIDE DEF ready, lit
  <2> QED BY <1>8
<1>11. askedBoth = asked'
  <2> HIDE DEF ready, lit
  <2> QED BY <1>9
<1> QED
  <2> HIDE DEF lit, heldBoth, askedBoth
  <2> QED BY <1>6, <1>7, <1>10, <1>11 DEF AnalogInv

LEMMA AnalogStepKeeps == AnalogInv /\ AnalogStep => AnalogInv'
<1> SUFFICES ASSUME AnalogInv, AnalogStep PROVE AnalogInv'
  OBVIOUS
<1>1. CASE analog_sensor_init
  <2>1. PortsOK([adc EXCEPT !._initialized = TRUE], held, asked, stuck)
    BY InitializedKeeps
  <2> QED BY <1>1, <2>1 DEF analog_sensor_init, AnalogInv
<1>2. CASE analog_sensor_cleanup
  <2>1. PortsOK([adc EXCEPT !._initialized = FALSE], held, asked, stuck)
    BY InitializedKeeps
  <2> QED BY <1>2, <2>1 DEF analog_sensor_cleanup, AnalogInv
<1>3. ASSUME NEW u \in Users, NEW c \in Channels, NEW v \in Wanted, analog_sensor_alloc(u, c, v)
      PROVE  AnalogInv'
  BY <1>3, AllocKeeps, SensorsAssumption DEF analog_sensor_alloc, AnalogInv
<1>4. ASSUME NEW u \in Users, analog_sensor_free(u)
      PROVE  AnalogInv'
  BY <1>4, FreeKeeps, SensorsAssumption
<1> QED BY <1>1, <1>2, <1>3, <1>4 DEF AnalogStep

LEMMA AnalogInvariant == Spec => []AnalogInv
<1>1. Init => AnalogInv
  BY DriverType DEF Init, AnalogInit, AnalogInv, PortsOK, DriverOK, HoldersOK, Accounted, Driver,
                    Reset, Levels
<1>2. AnalogInv /\ [Next]_vars => AnalogInv'
  <2> SUFFICES ASSUME AnalogInv, [Next]_vars PROVE AnalogInv'
    OBVIOUS
  <2>1. CASE mqtt_init
    BY <2>1, MqttInitKeeps
  <2>2. CASE AnalogStep
    BY <2>2, AnalogStepKeeps
  <2>3. CASE UNCHANGED analogVars
    BY <2>3 DEF analogVars, AnalogInv
  <2> QED BY <2>1, <2>2, <2>3 DEF Next, vars
<1> QED BY <1>1, <1>2, PTL DEF Spec

\* Whoever has a port reads it as it asked for it, and nobody else has it.
THEOREM HoldersAreUndisturbed == Spec => []HolderIsUndisturbed
<1>1. AnalogInv => HolderIsUndisturbed
  BY DEF AnalogInv, PortsOK, HoldersOK, HolderIsUndisturbed, analog_sensor_value
<1> QED BY <1>1, AnalogInvariant, PTL

\* The ports that are refused are those in use and those given back too late.
THEOREM PortsAreAccounted == Spec => []PortsAccounted
<1>1. AnalogInv => PortsAccounted
  BY DEF AnalogInv, PortsOK, Accounted, PortsAccounted
<1> QED BY <1>1, AnalogInvariant, PTL

-----------------------------------------------------------------------------
(* The temperature. *)

LowByte(t) == Word(t) % Bytes
HighByte(t) == Word(t) \div Bytes

LEMMA TwosComplement ==
  ASSUME NEW t \in Int, 0 - 32767 <= t, t <= 32767
  PROVE  /\ (t % 65536) % 256 \in 0..255
         /\ t >= 0 => ((t % 65536) % 256) + ((t % 65536) \div 256) * 256 = t
         /\ t < 0 => ((t % 65536) % 256) + ((t % 65536) \div 256) * 256 = t + 65536
OBVIOUS

\* Two bytes make the temperature again, unless it is below zero: then, as when nobody sends the
\* high one, they make more than the sensor measures.
LEMMA Together ==
  ASSUME NEW t \in Int, 0 - Warmest <= t, t <= Warmest
  PROVE  /\ LowByte(t) \in 0..(Bytes - 1)
         /\ t >= 0 => Sixteenths(LowByte(t), HighByte(t)) = t
         /\ t < 0 => Sixteenths(LowByte(t), HighByte(t)) > Warmest
<1>1. Warmest \in Int /\ Warmest <= 32767
  BY Ds18b20Assumption DEF PowerOn, Words
<1>2. 0 - 32767 <= t /\ t <= 32767
  BY <1>1
<1> QED BY <1>1, <1>2, TwosComplement DEF LowByte, HighByte, Sixteenths, Word, Bytes, Words

LEMMA Unanswered ==
  ASSUME NEW x \in 0..(Bytes - 1)
  PROVE  Sixteenths(x, Bytes - 1) > Warmest
BY Ds18b20Assumption DEF PowerOn, Words, Bytes, Sixteenths

Measurable == (-Warmest)..Warmest
Steps == {"off", "skip", "convert", "delay", "skip again", "ask", "read low", "read high",
          "end", "done"}
Converted == {"delay", "skip again", "ask", "read low", "read high", "end"}

DsTypeOK ==
  /\ init \in {0, 1} /\ step \in Steps
  /\ low \in 0..(Bytes - 1) /\ high \in 0..(Bytes - 1) /\ temp \in Nat
  /\ place \in {"on the bus", "away", "shorted"}
  /\ mode \in {Idle, "rom", "function", "sends low", "sends high"}
  /\ scratch \in Measurable /\ measured \in Measurable \cup {NotMeasured}
  /\ steady \in BOOLEAN /\ shorted \in BOOLEAN

\* What the sensor does in each step while it stays on the bus.
Follows == steady =>
  /\ OnTheBus
  /\ step \in {"skip", "skip again"} => mode = "rom"
  /\ step \in {"convert", "ask"} => mode = "function"
  /\ step = "read low" => mode = "sends low"
  /\ step = "read high" => mode = "sends high"
  /\ step \in Converted => measured = scratch
  /\ step \in {"skip", "convert"} => measured = NotMeasured
  /\ step \in {"read high", "end"} => low = LowByte(scratch)
  /\ step = "end" => high = HighByte(scratch)

\* What a sensor that comes and goes has in its memory, and what can be read of it.
ComesAndGoes ==
  /\ place = "shorted" => shorted
  /\ ~OnTheBus => mode = Idle /\ scratch = PowerOn
  /\ (OnTheBus /\ step = "skip" /\ mode # "rom") => scratch = PowerOn
  /\ (OnTheBus /\ step = "convert" /\ mode # "function") => scratch = PowerOn
  /\ step \in Converted => scratch \in {measured, PowerOn}
  /\ (OnTheBus /\ step = "read low") => mode \in {Idle, "sends low"}
  /\ (OnTheBus /\ step = "read high") => mode \in {Idle, "sends high"}
  /\ (step = "read high" /\ mode = "sends high") => low = LowByte(scratch)
  /\ (step = "end" /\ ~shorted) =>
       \/ high = Bytes - 1
       \/ \E t \in {measured, PowerOn} \cap Measurable : low = LowByte(t) /\ high = HighByte(t)

DsInv == DsTypeOK /\ Follows /\ ComesAndGoes /\ ReadingIsRight /\ PlausibleIsReal

LEMMA MeasurableBytes ==
  /\ PowerOn \in Measurable /\ Temperatures \subseteq Measurable
  /\ \A t \in Measurable :
       /\ t \in Int /\ t <= Warmest /\ t # NotMeasured
       /\ LowByte(t) \in 0..(Bytes - 1)
       /\ t >= 0 => Sixteenths(LowByte(t), HighByte(t)) = t
       /\ t < 0 => Sixteenths(LowByte(t), HighByte(t)) > Warmest
<1>1. Warmest \in Int /\ PowerOn \in Int /\ PowerOn <= Warmest /\ 0 <= PowerOn
  BY Ds18b20Assumption DEF PowerOn, Words
<1>2. PowerOn \in Measurable /\ Temperatures \subseteq Measurable
  BY <1>1, Ds18b20Assumption DEF Measurable
<1>3. ASSUME NEW t \in Measurable
      PROVE  t \in Int /\ 0 - Warmest <= t /\ t <= Warmest /\ t # NotMeasured
  BY <1>1 DEF Measurable, NotMeasured
<1> QED BY <1>2, <1>3, Together

\* What is on the line is a byte.
LEMMA LineIsByte == DsTypeOK => Line \in 0..(Bytes - 1)
<1>1. ASSUME NEW t \in Measurable PROVE HighByte(t) \in 0..(Bytes - 1)
  <2>1. t \in Int
    BY <1>1, MeasurableBytes
  <2> QED BY <2>1 DEF HighByte, Word, Bytes, Words
<1>2. 0 \in 0..(Bytes - 1) /\ Bytes - 1 \in 0..(Bytes - 1)
  BY DEF Bytes
<1> QED BY <1>1, <1>2, MeasurableBytes DEF DsTypeOK, Line, LowByte, HighByte

LEMMA SixteenthsType ==
  ASSUME NEW a \in 0..(Bytes - 1), NEW b \in 0..(Bytes - 1)
  PROVE  Sixteenths(a, b) \in Nat
BY DEF Sixteenths, Bytes

LEMMA DsInitial == DsInit => DsInv
<1> SUFFICES ASSUME DsInit PROVE DsInv
  OBVIOUS
<1>1. 0 \in 0..(Bytes - 1)
  BY DEF Bytes
<1>2. DsTypeOK
  BY <1>1, MeasurableBytes DEF DsInit, DsTypeOK, Steps
<1>3. Follows /\ ComesAndGoes /\ ReadingIsRight /\ PlausibleIsReal
  BY DEF DsInit, Follows, ComesAndGoes, ReadingIsRight, PlausibleIsReal, Converted, OnTheBus
<1> QED BY <1>2, <1>3 DEF DsInv

\* The sensor moves: whatever was going on is over.
LEMMA MovesKeeps == DsInv /\ Moves => DsInv'
<1> SUFFICES ASSUME DsInv, Moves PROVE DsInv'
  OBVIOUS
<1>1. DsTypeOK'
  BY MeasurableBytes DEF DsInv, DsTypeOK, Moves, firmware
<1>2. Follows' /\ ReadingIsRight' /\ PlausibleIsReal'
  BY DEF DsInv, DsTypeOK, Follows, ReadingIsRight, PlausibleIsReal, Moves, firmware
<1>3. ComesAndGoes'
  BY DEF DsInv, DsTypeOK, ComesAndGoes, Moves, firmware, Idle, OnTheBus
<1> QED BY <1>1, <1>2, <1>3 DEF DsInv

LEMMA BeginsKeeps == DsInv /\ (NotInitialized \/ Begins) => DsInv'
<1>1. ASSUME DsInv, NotInitialized PROVE DsInv'
  BY <1>1 DEF NotInitialized, DsInv, DsTypeOK, Follows, ComesAndGoes, ReadingIsRight,
       PlausibleIsReal, Steps, Converted, OnTheBus, sensor, readingHistory, Measurable
<1>2. ASSUME DsInv, Begins PROVE DsInv'
  <2>1. DsTypeOK'
    BY <1>2 DEF Begins, DsInv, DsTypeOK, Steps, RST_PULSE, OnTheBus, Presence
  <2>2. Follows' /\ ComesAndGoes'
    BY <1>2 DEF Begins, DsInv, DsTypeOK, Follows, ComesAndGoes, Converted, RST_PULSE, OnTheBus,
                Presence
  <2>3. ReadingIsRight' /\ PlausibleIsReal'
    BY <1>2 DEF Begins, DsInv, DsTypeOK, ReadingIsRight, PlausibleIsReal, OnTheBus, Presence
  <2> QED BY <2>1, <2>2, <2>3 DEF DsInv
<1> QED BY <1>1, <1>2

\* What a command does to the sensor.
LEMMA Obeyed ==
  /\ Obeys(SkipRom) =>
       /\ scratch' = scratch /\ measured' = measured
       /\ IF OnTheBus THEN mode' = (IF mode = "rom" THEN "function" ELSE Idle) ELSE mode' = mode
  /\ Obeys(Convert) =>
       \/ OnTheBus /\ mode = "function" /\ mode' = Idle /\ scratch' \in Temperatures /\ measured' = scratch'
       \/ ~(OnTheBus /\ mode = "function") /\ mode' \in {mode, Idle} /\ UNCHANGED <<scratch, measured>>
  /\ Obeys(ReadScratchpad) =>
       /\ scratch' = scratch /\ measured' = measured
       /\ IF OnTheBus THEN mode' = (IF mode = "function" THEN "sends low" ELSE Idle) ELSE mode' = mode
<1>1. SkipRom # Convert /\ SkipRom # ReadScratchpad /\ Convert # ReadScratchpad
  BY DEF SkipRom, Convert, ReadScratchpad
<1> QED BY <1>1 DEF Obeys, sensor

LEMMA SendKeeps == DsInv /\ (send_byte \/ Delayed) => DsInv'
<1> SUFFICES ASSUME DsInv, send_byte \/ Delayed PROVE DsInv'
  OBVIOUS
<1> USE DEF Kept, OnTheBus
<1>1. ASSUME NEW from \in {"skip", "skip again"}, step = from,
             step' = IF from = "skip" THEN "convert" ELSE "ask", Obeys(SkipRom), Kept
      PROVE  DsInv'
  <2>1. DsTypeOK' /\ step' # "done"
    BY <1>1, Obeyed DEF DsInv, DsTypeOK, Steps
  <2>2. Follows'
    BY <1>1, Obeyed DEF DsInv, Follows, Converted
  <2>3. ComesAndGoes'
    BY <1>1, Obeyed DEF DsInv, ComesAndGoes, Converted
  <2> QED BY <2>1, <2>2, <2>3 DEF DsInv, ReadingIsRight, PlausibleIsReal
<1>2. CASE Goes("convert", "delay") /\ Obeys(Convert) /\ Kept
  <2>1. DsTypeOK' /\ step' # "done"
    BY <1>2, Obeyed, MeasurableBytes DEF Goes, DsInv, DsTypeOK, Steps
  <2>2. Follows'
    BY <1>2, Obeyed DEF Goes, DsInv, Follows, Converted
  <2>3. ComesAndGoes'
    BY <1>2, Obeyed DEF Goes, DsInv, ComesAndGoes, Converted
  <2> QED BY <2>1, <2>2, <2>3 DEF DsInv, ReadingIsRight, PlausibleIsReal
<1>3. CASE Goes("ask", "read low") /\ Obeys(ReadScratchpad) /\ Kept
  <2>1. DsTypeOK' /\ step' # "done"
    BY <1>3, Obeyed DEF Goes, DsInv, DsTypeOK, Steps
  <2>2. Follows'
    BY <1>3, Obeyed DEF Goes, DsInv, Follows, Converted
  <2>3. ComesAndGoes'
    BY <1>3, Obeyed DEF Goes, DsInv, ComesAndGoes, Converted
  <2> QED BY <2>1, <2>2, <2>3 DEF DsInv, ReadingIsRight, PlausibleIsReal
<1>4. CASE Delayed
  <2>1. DsTypeOK' /\ step' # "done"
    BY <1>4 DEF Delayed, Goes, RST_PULSE, DsInv, DsTypeOK, Steps
  <2>2. Follows' /\ ComesAndGoes'
    BY <1>4 DEF Delayed, Goes, RST_PULSE, DsInv, Follows, ComesAndGoes, Converted
  <2> QED BY <2>1, <2>2 DEF DsInv, ReadingIsRight, PlausibleIsReal
<1>5. CASE Goes("skip", "convert") /\ Obeys(SkipRom) /\ Kept
  BY <1>5, <1>1 DEF Goes
<1>6. CASE Goes("skip again", "ask") /\ Obeys(SkipRom) /\ Kept
  BY <1>6, <1>1 DEF Goes
<1> QED BY <1>2, <1>3, <1>4, <1>5, <1>6 DEF send_byte

LEMMA ReadKeeps == DsInv /\ read_byte => DsInv'
<1> SUFFICES ASSUME DsInv, read_byte PROVE DsInv'
  OBVIOUS
<1> USE DEF Goes, Sent, Idle, OnTheBus
<1>1. DsTypeOK'
  BY LineIsByte DEF read_byte, DsInv, DsTypeOK, Steps
<1>2. Follows'
  BY DEF read_byte, DsInv, DsTypeOK, Follows, Converted, Line, LowByte, HighByte
<1>3. ComesAndGoes'
  <2>1. CASE step = "read low"
    BY <2>1 DEF read_byte, DsInv, DsTypeOK, ComesAndGoes, Converted, Line, LowByte
  <2>2. CASE step = "read high"
    <3>1. mode # "sends low" /\ high' = Line /\ low' = low /\ step' = "end"
      BY <2>2 DEF read_byte, DsInv, ComesAndGoes
    <3>2. ASSUME ~shorted
          PROVE  \/ high' = Bytes - 1
                 \/ mode = "sends high" /\ low = LowByte(scratch) /\ high' = HighByte(scratch)
      <4>1. place # "shorted" \/ shorted
        BY DEF DsInv, ComesAndGoes
      <4> QED BY <3>1, <3>2, <4>1, <2>2 DEF DsInv, DsTypeOK, ComesAndGoes, Line, HighByte
    <3> QED BY <3>1, <3>2, <2>2 DEF read_byte, DsInv, DsTypeOK, ComesAndGoes, Converted
  <2> QED BY <2>1, <2>2 DEF read_byte
<1>4. step' # "done"
  BY DEF read_byte
<1> QED BY <1>1, <1>2, <1>3, <1>4 DEF DsInv, ReadingIsRight, PlausibleIsReal

LEMMA EndsKeeps == DsInv /\ Ends => DsInv'
<1> SUFFICES ASSUME DsInv, Ends PROVE DsInv'
  OBVIOUS
<1>1. step = "end" /\ step' = "done" /\ temp' = Sixteenths(low, high) /\ low' = 0 /\ high' = 0
  BY DEF Ends, Goes
<1>2. Sixteenths(low, high) \in Nat
  BY SixteenthsType DEF DsInv, DsTypeOK
<1>3. DsTypeOK'
  <2>1. 0 \in 0..(Bytes - 1)
    BY DEF Bytes
  <2> QED BY <1>1, <1>2, <2>1 DEF Ends, DsInv, DsTypeOK, Steps, RST_PULSE, OnTheBus, readingHistory
<1>4. Follows' /\ ComesAndGoes'
  BY <1>1 DEF Ends, DsInv, Follows, ComesAndGoes, Converted, RST_PULSE, OnTheBus, readingHistory
<1>5. ReadingIsRight'
  BY <1>1, MeasurableBytes DEF Ends, DsInv, DsTypeOK, Follows, Converted, ReadingIsRight,
       readingHistory
<1>6. PlausibleIsReal'
  <2>1. CASE high = Bytes - 1
    <3>1. temp' > Warmest
      BY <2>1, <1>1, Unanswered DEF DsInv, DsTypeOK
    <3> QED BY <3>1, <1>1, <1>2, Ds18b20Assumption DEF PlausibleIsReal, PowerOn, Words
  <2>2. ASSUME NEW t \in {measured, PowerOn} \cap Measurable,
               low = LowByte(t), high = HighByte(t)
        PROVE  PlausibleIsReal'
    <3>1. CASE t >= 0
      BY <3>1, <2>2, <1>1, MeasurableBytes DEF PlausibleIsReal, Ends, readingHistory
    <3>2. CASE t < 0
      <4>1. temp' > Warmest
        BY <3>2, <2>2, <1>1, MeasurableBytes
      <4> QED BY <4>1, <1>1, <1>2, Ds18b20Assumption DEF PlausibleIsReal, PowerOn, Words
    <3> QED BY <3>1, <3>2, <2>2, MeasurableBytes
  <2> QED BY <2>1, <2>2, <1>1 DEF DsInv, ComesAndGoes, PlausibleIsReal, Ends, readingHistory
<1> QED BY <1>3, <1>4, <1>5, <1>6 DEF DsInv

\* None of it is about init.
LEMMA Stutters ==
  ASSUME DsInv, init' \in {0, 1}, UNCHANGED <<step, low, high, temp, place, sensor, readingHistory>>
  PROVE  DsInv'
<1> USE DEF sensor, readingHistory
<1>1. DsTypeOK'
  BY DEF DsInv, DsTypeOK
<1>2. Follows'
  BY DEF DsInv, Follows, OnTheBus
<1>3. ComesAndGoes'
  BY DEF DsInv, ComesAndGoes, OnTheBus
<1>4. ReadingIsRight' /\ PlausibleIsReal'
  BY DEF DsInv, ReadingIsRight, PlausibleIsReal
<1> QED BY <1>1, <1>2, <1>3, <1>4 DEF DsInv

LEMMA DsInvariant == Spec => []DsInv
<1>1. Init => DsInv
  BY DsInitial DEF Init
<1>2. DsInv /\ [Next]_vars => DsInv'
  <2> SUFFICES ASSUME DsInv, [Next]_vars PROVE DsInv'
    OBVIOUS
  <2>1. CASE DsStep
    BY <2>1, MovesKeeps, BeginsKeeps, SendKeeps, ReadKeeps, EndsKeeps DEF DsStep, DS_get_temp
  <2>2. CASE mqtt_init
    <3>1. init' = 1 /\ UNCHANGED <<step, low, high, temp, place, sensor, readingHistory>>
      BY <2>2 DEF mqtt_init, DS_init
    <3> QED BY <3>1, Stutters
  <2>3. CASE UNCHANGED dsVars
    BY <2>3, Stutters DEF dsVars, firmware, DsInv, DsTypeOK
  <2> QED BY <2>1, <2>2, <2>3 DEF Next, vars
<1> QED BY <1>1, <1>2, PTL DEF Spec

\* A temperature from zero up is the one measured, if the sensor stays on the bus.
THEOREM ReadingsAreRight == Spec => []ReadingIsRight
<1>1. DsInv => ReadingIsRight
  BY DEF DsInv
<1> QED BY <1>1, DsInvariant, PTL

\* Coming and going makes no temperature of its own.
THEOREM PlausiblesAreReal == Spec => []PlausibleIsReal
<1>1. DsInv => PlausibleIsReal
  BY DEF DsInv
<1> QED BY <1>1, DsInvariant, PTL
=============================================================================

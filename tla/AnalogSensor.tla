---------------------------- MODULE AnalogSensor ----------------------------
(***************************************************************************)
(* analog_sensor.c: hands out the ports of the ADC, each with the          *)
(* attenuation its user asks for.  The users are external: a user frees    *)
(* the port it holds and uses it no more.                                  *)
(***************************************************************************)
EXTENDS Naturals

CONSTANTS
  Users,      \* who allocates a port, the light and the sound sensor in mqtt.c
  Channels,   \* ports of the ADC
  Invalid,    \* a voltage that is none of the enumeration
  Wanted      \* the voltages that users ask for

VARIABLES
  adc,     \* _initialized; _analog_sensor, the ports that are allocated; their attenuation
  held,    \* the port each user has, or NULL
  asked,   \* history: the voltage it was allocated for
  stuck    \* history: ports given back when the module was not initialised

analogVars == <<adc, held, asked, stuck>>

Voltages == {"1_1", "1_5", "2_2", "3_9"}
NULL == "null"

-----------------------------------------------------------------------------
\* switch (voltage), and the attenuation a port has before it is given one.
Attenuation == [v \in Voltages |-> CASE v = "1_1" -> "0db" [] v = "1_5" -> "2_5db"
                                     [] v = "2_2" -> "6db" [] v = "3_9" -> "11db"]
Reset == "0db"

Driver(initialized, allocated, atten) ==
  [_initialized |-> initialized, allocated |-> allocated, atten |-> atten]

\* When analog_sensor_alloc gives the port and not NULL; the driver and the user after it.
Allocates(d, channel, voltage) ==
  d._initialized /\ voltage \in Voltages /\ channel \notin d.allocated
Given(d, channel, voltage) == IF Allocates(d, channel, voltage) THEN channel ELSE NULL
GivenFor(d, channel, voltage) == IF Allocates(d, channel, voltage) THEN voltage ELSE Invalid

Configured(d, channel, voltage) ==
  Driver(TRUE, d.allocated \cup {channel}, [d.atten EXCEPT ![channel] = Attenuation[voltage]])
\* Mutant: the port is configured before it is looked up.
Mutant_alloc(d, channel, voltage) ==
  IF d._initialized /\ voltage \in Voltages THEN Configured(d, channel, voltage) ELSE d
alloc(d, channel, voltage) ==
  IF Allocates(d, channel, voltage) THEN Configured(d, channel, voltage) ELSE d

analog_sensor_init == adc' = [adc EXCEPT !._initialized = TRUE] /\ UNCHANGED <<held, asked, stuck>>
\* Mutant: the next initialisation begins with no port allocated.
Mutant_analog_sensor_cleanup ==
  /\ adc' = [adc EXCEPT !._initialized = FALSE, !.allocated = {}]
  /\ UNCHANGED <<held, asked, stuck>>
analog_sensor_cleanup ==
  adc' = [adc EXCEPT !._initialized = FALSE] /\ UNCHANGED <<held, asked, stuck>>

\* A user that has no port asks for one.
analog_sensor_alloc(u, channel, voltage) ==
  /\ held[u] = NULL
  /\ adc' = alloc(adc, channel, voltage)
  /\ held' = [held EXCEPT ![u] = Given(adc, channel, voltage)]
  /\ asked' = [asked EXCEPT ![u] = GivenFor(adc, channel, voltage)]
  /\ UNCHANGED stuck
\* Before the initialisation nothing is freed; a NULL is let pass.
analog_sensor_free(u) ==
  /\ IF held[u] # NULL /\ adc._initialized
     THEN adc' = [adc EXCEPT !.allocated = @ \ {held[u]}] /\ UNCHANGED stuck
     ELSE UNCHANGED adc /\ stuck' = stuck \cup ({held[u]} \ {NULL})
  /\ held' = [held EXCEPT ![u] = NULL] /\ asked' = [asked EXCEPT ![u] = Invalid]

\* What a reading says: -1, or the port and the attenuation it was taken with.
analog_sensor_value(u) == IF held[u] = NULL THEN <<NULL, NULL>> ELSE <<held[u], adc.atten[held[u]]>>

AnalogInit ==
  /\ adc = Driver(FALSE, {}, [c \in Channels |-> Reset])
  /\ held = [u \in Users |-> NULL] /\ asked \in [Users -> {Invalid}] /\ stuck = {}
AnalogStep ==
  \/ analog_sensor_init \/ analog_sensor_cleanup
  \/ \E u \in Users :
       \/ \E c \in Channels, v \in Wanted : analog_sensor_alloc(u, c, v)
       \/ analog_sensor_free(u)

-----------------------------------------------------------------------------
(* Properties. *)

\* A user has its port alone and reads it with the attenuation it asked for, whoever else asks
\* for that port and whatever is initialised and cleaned up meanwhile (analog_sensor.c:54-59).
HolderIsUndisturbed ==
  \A u \in Users : held[u] # NULL =>
    /\ analog_sensor_value(u) = <<held[u], Attenuation[asked[u]]>>
    /\ \A w \in Users \ {u} : held[w] # held[u]

\* A port is refused only to who asks for one that is in use, but for those that were given back
\* while the module was not initialised: these are lost (analog_sensor.c:68).
PortsAccounted == adc.allocated = ({held[u] : u \in Users} \ {NULL}) \cup stuck
=============================================================================

------------------------------ MODULE Sensors ------------------------------
(***************************************************************************)
(* The sensors of the firmware: mqtt_init, which readies them all, the     *)
(* ports of the ADC, which other users may ask for as well, and the        *)
(* thermometer, which the mqtt task reads.                                 *)
(***************************************************************************)
EXTENDS AnalogSensor, Ds18b20

CONSTANTS
  Light, Sound,                   \* the two users in mqtt.c
  LIGHT_ADC_PORT, SOUND_ADC_PORT

ASSUME SensorsAssumption ==
  /\ {Light, Sound} \subseteq Users /\ Light # Sound
  /\ {LIGHT_ADC_PORT, SOUND_ADC_PORT} \subseteq Channels /\ LIGHT_ADC_PORT # SOUND_ADC_PORT
  /\ NULL \notin Channels

vars == <<analogVars, dsVars>>

\* analog_sensor_init, DS_init and two analog_sensor_alloc, once, when neither user has a port.
mqtt_init ==
  LET ready == [adc EXCEPT !._initialized = TRUE]
      withLight == alloc(ready, LIGHT_ADC_PORT, "3_9")
  IN /\ init = 0 /\ held[Light] = NULL /\ held[Sound] = NULL
     /\ adc' = alloc(withLight, SOUND_ADC_PORT, "3_9")
     /\ held' = [held EXCEPT ![Light] = Given(ready, LIGHT_ADC_PORT, "3_9"),
                             ![Sound] = Given(withLight, SOUND_ADC_PORT, "3_9")]
     /\ asked' = [asked EXCEPT ![Light] = GivenFor(ready, LIGHT_ADC_PORT, "3_9"),
                               ![Sound] = GivenFor(withLight, SOUND_ADC_PORT, "3_9")]
     /\ DS_init
     /\ UNCHANGED stuck

Init == AnalogInit /\ DsInit
Next ==
  \/ mqtt_init
  \/ AnalogStep /\ UNCHANGED dsVars
  \/ DsStep /\ UNCHANGED analogVars
Spec == Init /\ [][Next]_vars
=============================================================================

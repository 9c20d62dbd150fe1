SPECIFICATION Spec
CONSTANTS
  Users = {light, sound}
  Light = light
  Sound = sound
  Channels = {p3, p4}
  LIGHT_ADC_PORT = p4
  SOUND_ADC_PORT = p3
  Invalid = "invalid"
  Wanted = {"1_1", "2_2", "3_9", "invalid"}
  Temperatures <- MCTemperatures
  Warmest = 2000
INVARIANTS
  HolderIsUndisturbed
  PortsAccounted
  ReadingIsRight
  PlausibleIsReal

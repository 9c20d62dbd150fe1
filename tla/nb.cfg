SPECIFICATION FairSpec
CONSTANTS
  Base = 2
  BodyLengths = {0, 1, 2, 3}
  MaxPackets = 3
  MaxDigits = 4
  BufLen = 5
INVARIANT RestFits
PROPERTIES StreamSpec PacketsComeOut

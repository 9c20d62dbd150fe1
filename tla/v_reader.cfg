SPECIFICATION Spec
CONSTANTS
  Base = 2
  BodyLengths = {0, 1, 2}
  MaxPackets = 2
  RecvBufLen = 6
INVARIANT OnlyRemainIsWritten

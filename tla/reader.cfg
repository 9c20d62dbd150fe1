SPECIFICATION Spec
CONSTANTS
  Base = 2
  BodyLengths = {0, 1, 3}
  MaxPackets = 3
  RecvBufLen = 8
INVARIANT CopiesWithinBounds
PROPERTY StreamSpec

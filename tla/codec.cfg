SPECIFICATION Spec
CONSTANTS
  Base = 3
  BufSizes = {1, 3, 9, 30, 80}
  StringLens = {0, 2, 7}
  PayloadLens = {0, 1, 40}
  PacketIds = {1, 256, 65535}
  KeepAlives = {0, 600}
  Letters = {47, 97, 98}
  MaxNameLen = 4
  MaxFilterLen = 4
INVARIANTS
  Fits
  RoundTrip
  ServerUnderstands
  RightHandlers

SPECIFICATION FairSpec
CONSTANTS
  UsPerMs = 2
  MsPerSec = 2
  LeastWait = 1
  SsidLengths = {6, 33}
  PasswordLengths = {8, 65}
  QueueSize = 3
  Timeout = 3
  ServerSeconds = {0, 2}
  MaxClock = 11
INVARIANTS
  BitCatchesUp
  NeverStranded
  ExpiryOnTime
  SocketsWaitAWhile
PROPERTIES
  NoNeedlessRestart
  ComesThrough
CHECK_DEADLOCK FALSE

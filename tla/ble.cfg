SPECIFICATION FairSpec
CONSTANTS
  Commands = {on, off}
  Interfaces = {3, 4}
  MaxAdverts = 3
INVARIANTS
  CommandOncePerStop
  NothingLeft
PROPERTIES
  PairingEnds
CHECK_DEADLOCK FALSE

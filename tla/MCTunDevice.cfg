SPECIFICATION TunFairSpec
CONSTANTS
  Sizes <- MCSizes
  Pipe = 4
  HighWater = 6
  Commands = 3
INVARIANTS TypeOK PacketsArriveWhole
PROPERTIES ClosingRemovesIt
CHECK_DEADLOCK FALSE

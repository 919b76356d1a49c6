SPECIFICATION FairSpec
CONSTANTS
  Runs = 2
  Count = 2
  NetMax = 2
CHECK_DEADLOCK FALSE
INVARIANTS
  StampOwn
  PrintedOnce
PROPERTIES
  PongOwn
  ServerPairs
  ClientEnds

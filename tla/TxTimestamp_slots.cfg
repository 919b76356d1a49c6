SPECIFICATION FairSpec
CONSTANTS
  Skbs = {s1, s2}
  NoSkb = NoSkb
  Ids = {1}
  None = 0
  Period = 2
  Margin = 0
  Word = 2
  ReadLag = 1
  MaxRetry = 2
  Windows <- OneWindow
  Faults = {"rx"}
  FirstTime = 1
  LastSubmit = 2
  MaxTime = 4
  MaxIoctls = 1
  MaxRx = 1
CHECK_DEADLOCK FALSE
INVARIANTS
  SlotOwned
  RefsExact
  OwnTimestamp
  WaitsForWindow
PROPERTIES
  SlotFreed
  QueueWakes
  ServesSenders

SPECIFICATION Spec
CONSTANTS
  Word = 4096
  Kilo = 10
  TCs <- TwoClasses
  Frames <- QueueFrames
  Schedules <- NoSchedules
  Starts = {0}
  Offloads <- NoOffloads
  TcMaps <- IdentityMap
  NoSkb = NoSkb
  NoOut = NoOut
  HwQueueSize = 4
  BeQueueSize = 2
  TsnQueueSize = 3
  CounterMod = 5
  CreditMax = 100000
  MinBytes = 1
  NsPerByte = 1
  MetaSize = 1
  BufferSize = 3
  H2CLatency = 1
  ToMargin = 3
  Faults = {"dma", "mem"}
  Deltas = {1}
  MaxTime = 1
  MaxFrames = 6
  MaxConfigs = 1
  MaxEntries = 1
  MaxDur = 1
CHECK_DEADLOCK FALSE
INVARIANTS
  TrackerExact
  TrackerCovers
  BeLeavesRoom
PROPERTIES
  CountersExact

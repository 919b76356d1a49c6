SPECIFICATION Spec
CONSTANTS
  Word = 4096
  Kilo = 10
  TCs <- TwoClasses
  Frames <- GateFrames
  Schedules <- GateSchedules
  Starts = {0}
  Offloads <- NoOffloads
  TcMaps <- IdentityMap
  NoSkb = NoSkb
  NoOut = NoOut
  HwQueueSize = 4
  BeQueueSize = 2
  TsnQueueSize = 3
  CounterMod = 16
  CreditMax = 100000
  MinBytes = 1
  NsPerByte = 1
  MetaSize = 1
  BufferSize = 4
  H2CLatency = 1
  ToMargin = 3
  Faults = {}
  Deltas = {2}
  MaxTime = 11
  MaxFrames = 1
  MaxConfigs = 1
  MaxEntries = 3
  MaxDur = 2
CHECK_DEADLOCK FALSE
INVARIANTS
  ValidWindow

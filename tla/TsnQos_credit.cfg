SPECIFICATION Spec
CONSTANTS
  Word = 4096
  Kilo = 10
  TCs <- TwoClasses
  Frames <- ShapedFrames
  Schedules <- TakingTurns
  Starts = {0}
  Offloads <- ShapedOffloads
  TcMaps <- BothMaps
  NoSkb = NoSkb
  NoOut = NoOut
  HwQueueSize = 3
  BeQueueSize = 2
  TsnQueueSize = 2
  CounterMod = 7
  CreditMax = 1200
  MinBytes = 1
  NsPerByte = 8
  MetaSize = 14
  BufferSize = 24
  H2CLatency = 1
  ToMargin = 3
  Faults = {}
  Deltas = {700}
  MaxTime = 701
  MaxFrames = 4
  MaxConfigs = 2
  MaxEntries = 1
  MaxDur = 1
CHECK_DEADLOCK FALSE
INVARIANTS
  CreditSpent
  BandwidthKept

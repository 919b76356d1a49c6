SPECIFICATION ConfigSpec
CONSTANTS
  Word = 4096
  Kilo = 10
  TCs <- ThreeClasses
  Frames <- FileFrames
  Schedules <- FileSchedules
  Starts = {0}
  Offloads <- FileOffloads
  TcMaps <- FileMaps
  NoSkb = NoSkb
  NoOut = NoOut
  HwQueueSize = 4
  BeQueueSize = 2
  TsnQueueSize = 3
  CounterMod = 16
  CreditMax = 100000
  MinBytes = 1
  NsPerByte = 1
  MetaSize = 1
  BufferSize = 4
  H2CLatency = 1
  ToMargin = 3
  Faults = {}
  Deltas = {1}
  MaxTime = 5
  MaxFrames = 1
  MaxConfigs = 3
  Files <- SmallFiles
  Prios = {0, 1, 2}
  LinkSpeed = 1000
  MaxEntries = 4
  MaxDur = 2
  MaxCycle = 5
CHECK_DEADLOCK FALSE
INVARIANTS
  WindowFollowsFile
  WindowEarliest
  DelayWindowOpen
  WindowSoon
  CreditFollowsFile

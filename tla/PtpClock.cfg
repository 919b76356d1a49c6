SPECIFICATION Spec
CONSTANTS
  Den = 2
  Nominal = 4
  Scales = {3, 5}
  NsIn1s = 8
  Half = 4
  Deltas <- TheDeltas
  Hosts = {24}
  ClockMax = 6
  OpsMax = 3
CHECK_DEADLOCK FALSE
INVARIANTS
  PulseAligned
  CycleMatches
  RoundTrip
PROPERTIES
  ReadsFollow

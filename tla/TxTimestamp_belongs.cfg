SPECIFICATION Spec
CONSTANTS
  Skbs = {s1, s2, s3}
  NoSkb = NoSkb
  Ids = {1}
  None = 0
  Period = 5
  Margin = 1
  Word = 10
  ReadLag = 1
  MaxRetry = 2
  Windows <- SomeWindows
  Faults = {"rx"}
  FirstTime = 1
  LastSubmit = 6
  MaxTime = 10
  MaxIoctls = 1
  MaxRx = 1
SYMMETRY Symmetry
CHECK_DEADLOCK FALSE
INVARIANTS
  TimestampBelongs

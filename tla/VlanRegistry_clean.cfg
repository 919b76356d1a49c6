SPECIFICATION Spec
CONSTANTS
  Procs = {p1, p2}
  Vlans = {v1, v2}
  Inodes = {i1, i2, i3, i4, i5, i6}
  NoProc = NoProc
  NoInode = NoInode
  Slots = 3
  MaxOpens = 2
  Configs <- Configured
  Faults = {}
SYMMETRY Symmetry
CHECK_DEADLOCK FALSE
INVARIANTS
  VlanTracksUsers
  VlanReady

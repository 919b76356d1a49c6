SPECIFICATION Spec
CONSTANTS
  Procs = {p1, p2}
  Vlans = {v1}
  Inodes = {i1, i2, i3, i4}
  NoProc = NoProc
  NoInode = NoInode
  Slots = 3
  MaxOpens = 2
  Configs <- TasOnly
  Faults = {}
SYMMETRY Symmetry
CHECK_DEADLOCK FALSE
INVARIANTS
  OpenedVlanExists

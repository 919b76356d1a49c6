SPECIFICATION FairSpec
CONSTANTS
  Procs = {p1, p2}
  Vlans = {v1}
  Inodes = {i1, i2, i3, i4}
  NoProc = NoProc
  NoInode = NoInode
  Slots = 3
  MaxOpens = 2
  Configs <- FailingConfigs
  Faults = {"crash", "cmd", "shm", "perm", "sock"}
CHECK_DEADLOCK FALSE
INVARIANTS
  RegistryInv
  RegistryExclusion
  UsersRegistered
  UsedVlanExists
  LockReleased
PROPERTIES
  ServesUsers
  OperationsEnd

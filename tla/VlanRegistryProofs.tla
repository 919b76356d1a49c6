------------------------- MODULE VlanRegistryProofs -------------------------
(***************************************************************************)
(* The registry protects its users, for any number of processes, VLANs and *)
(* inodes and under every failure of the environment: as long as the name  *)
(* of a segment is not raced and no pid of a living user is lost, for want *)
(* of a slot or because another process may not signal its process.        *)
(***************************************************************************)
EXTENDS VlanRegistry, TLAPS

\* Removing an entry and dropping the dead and the denied gives a vector again.
LEMMA VectorTypes ==
  ASSUME NEW s \in Segments, NEW p \in Procs, NEW denied
  PROVE  /\ Empty \in Segments
         /\ Push(s, p) \in Segments
         /\ RemoveFirst(s, p) \in Segments
         /\ RetainAlive(s, denied) \in Segments
  BY DEF Segments, Empty, Push, RemoveFirst, RetainAlive

\* The inode open_shmem or get_shmem_fd returns, and what it does to the rest.
LEMMA ShmOpenFacts ==
  ASSUME TypeOK, NEW v \in Vlans, NEW i \in Inodes, ShmOpen(v, i)
  PROVE  /\ named' \in [Vlans -> Inodes \cup {NoInode}]
         /\ data' \in [Inodes -> Segments]
         /\ named'[v] = i
         /\ \A w \in Vlans : w # v => named'[w] = named[w]
         /\ named[v] # NoInode => UNCHANGED <<named, data>>
         /\ named[v] = NoInode => i \in FreeInodes
         /\ \A j \in Inodes : j \notin FreeInodes => data'[j] = data[j]
  <1>1. Empty \in Segments
    BY DEF Segments, Empty
  <1>2. CASE named[v] # NoInode
    BY <1>2 DEF ShmOpen, TypeOK
  <1>3. CASE named[v] = NoInode
    <2>1. i \in FreeInodes /\ named' = [named EXCEPT ![v] = i]
                          /\ data' = [data EXCEPT ![i] = Empty]
      BY <1>3 DEF ShmOpen, NewInode
    <2>2. /\ named' \in [Vlans -> Inodes \cup {NoInode}]
          /\ named'[v] = i
          /\ \A w \in Vlans : w # v => named'[w] = named[w]
      BY <2>1 DEF TypeOK
    <2>3. /\ data' \in [Inodes -> Segments]
          /\ \A j \in Inodes : j \notin FreeInodes => data'[j] = data[j]
      BY <1>1, <2>1 DEF TypeOK
    <2> QED
      BY <1>3, <2>1, <2>2, <2>3
  <1> QED
    BY <1>2, <1>3

\* So does a write over a part of a longer vector.
LEMMA OverlayType ==
  ASSUME NEW d \in Segments, NEW s \in Segments, NEW p \in Procs,
         NEW o \in Overlay(d, s, p)
  PROVE  o \in Segments
  <1>1. (IF Total(s) < Slots THEN Push(s, p) ELSE s) \in Segments
    BY VectorTypes
  <1>2. [Procs -> 0..Slots] \subseteq Segments
    BY RegistryAssumption DEF Segments
  <1> QED
    BY <1>1, <1>2 DEF Overlay

----------------------------------------------------------------------------
\* The typing invariant, with the part of RegistryInv it needs: data is only
\* looked up through an inode that is open.
Typed == TypeOK /\ Descriptors

\* Before the first open every variable has its type.
LEMMA InitTyped == Init => Typed
  BY RegistryAssumption
     DEF Init, Typed, TypeOK, Descriptors, Steps, CriticalSteps, Segments, Empty

\* get_shmem_fd, the first call of an open and of a close, keeps the types.
LEMMA GetFdTyped ==
  ASSUME Typed, NEW p \in Procs, NEW v \in Vlans, pc[p] = "idle", GetFd(p, v),
         op' \in [Procs -> {"create", "delete"}],
         socks' \in [Procs -> [Vlans -> Nat]],
         opens' \in [Procs -> Nat], config' = config
  PROVE  Typed'
  <1>1. PICK i \in Inodes : ShmOpen(v, i) /\ fd' = [fd EXCEPT ![p] = i]
    BY DEF GetFd
  <1>2. named' \in [Vlans -> Inodes \cup {NoInode}] /\ data' \in [Inodes -> Segments]
    BY <1>1, ShmOpenFacts DEF Typed
  <1>3. TypeOK'
    BY <1>1, <1>2 DEF Typed, TypeOK, GetFd, Goto, Steps, netVars
  <1>4. Descriptors'
    BY <1>1, RegistryAssumption
       DEF Typed, TypeOK, Descriptors, GetFd, Goto, netVars, CriticalSteps
  <1> QED
    BY <1>3, <1>4 DEF Typed

\* The end of an operation, for the actions that return.
LEMMA ReturnFacts ==
  ASSUME Typed, NEW p \in Procs, Return(p)
  PROVE  /\ fd' \in [Procs -> Inodes \cup {NoInode}]
         /\ map' \in [Procs -> Inodes \cup {NoInode}]
         /\ vec' \in [Procs -> Segments]
         /\ fd'[p] = NoInode /\ map'[p] = NoInode
         /\ \A q \in Procs : q # p => fd'[q] = fd[q] /\ map'[q] = map[q]
  <1>1. Empty \in Segments
    BY DEF Segments, Empty
  <1> QED
    BY <1>1 DEF Typed, TypeOK, Return

\* The vector that delete_vlan reads back, and what its signals may cost.
LEMMA LoadDeleteFacts ==
  ASSUME Typed, NEW p \in Procs, LoadDelete(p)
  PROVE  /\ map[p] \in Inodes /\ data[map[p]] \in Segments
         /\ vec' \in [Procs -> Segments]
         /\ \A q \in Procs : q # p => vec'[q] = vec[q]
         /\ breach \subseteq breach' /\ breach' \subseteq breach \cup {"perm"}
         /\ "perm" \notin breach' =>
              vec'[p] = RetainAlive(RemoveFirst(data[map[p]], p), {})
         /\ Faults = {} => breach' = breach
  <1>1. map[p] \in Inodes /\ data[map[p]] \in Segments
    BY DEF Typed, TypeOK, Descriptors, LoadDelete
  <1>2. PICK denied \in Denied(p) :
          /\ vec' = [vec EXCEPT ![p] = RetainAlive(RemoveFirst(data[map[p]], p), denied)]
          /\ breach' = IF denied # {} THEN breach \cup {"perm"} ELSE breach
    BY DEF LoadDelete
  <1>3. RetainAlive(RemoveFirst(data[map[p]], p), denied) \in Segments
    BY <1>1, VectorTypes
  <1>4. vec \in [Procs -> Segments]
    BY DEF Typed, TypeOK
  <1>5. Faults = {} => denied = {}
    BY DEF Denied, Fails
  <1> QED
    BY <1>1, <1>2, <1>3, <1>4, <1>5

\* The end of a process keeps the types.
LEMMA DieTyped ==
  ASSUME Typed, NEW p \in Procs, Die(p)
  PROVE  Typed'
  <1>1. lock' \in [Inodes -> Procs \cup {NoProc}] /\ socks' \in [Procs -> [Vlans -> Nat]]
    BY DEF Die, Typed, TypeOK
  <1>2. TypeOK'
    BY <1>1, ReturnFacts DEF Die, Typed, TypeOK, Goto, Steps, netVars
  <1>3. Descriptors'
    BY ReturnFacts DEF Die, Typed, TypeOK, Goto, Descriptors, CriticalSteps
  <1> QED
    BY <1>2, <1>3 DEF Typed

\* A command changes the kernel's side and the process's own step and result only.
CommandSteps == {"add", "up", "qos", "children", "write", "dellink", "delqdisc", "unlock"}

\* An ip or tc command, and writing the segment, keep the types.
LEMMA CommandTyped ==
  ASSUME Typed, NEW p \in Procs, pc[p] \in CommandSteps,
         NEW l \in CommandSteps, pc' = [pc EXCEPT ![p] = l],
         res' = res \/ res' = [res EXCEPT ![p] = "err"],
         link' \in [Vlans -> {"none", "down", "up"}],
         qdisc' \in {"none", "root", "full"},
         breach' \subseteq {"race", "full", "shared", "shm", "perm"},
         UNCHANGED <<shmVars, useVars, op, vlan, fd, map, vec>>
  PROVE  Typed'
  <1>1. pc' \in [Procs -> Steps] /\ res' \in [Procs -> {"ok", "err"}]
    BY DEF Typed, TypeOK, CommandSteps, Steps, CriticalSteps
  <1>2. TypeOK'
    BY <1>1 DEF Typed, TypeOK, shmVars, useVars
  <1>3. Descriptors'
    BY DEF Typed, TypeOK, Descriptors, CommandSteps, CriticalSteps
  <1> QED
    BY <1>2, <1>3 DEF Typed

\* Every step keeps the types, and a descriptor open inside an operation.
LEMMA NextTyped == Typed /\ [Next]_vars => Typed'
  <1> SUFFICES ASSUME Typed, [Next]_vars PROVE Typed'
    OBVIOUS
  <1> USE RegistryAssumption
  <1>1. ASSUME NEW p \in Procs, NEW v \in Vlans, SockOpen(p, v) PROVE Typed'
    <2>1. /\ op' \in [Procs -> {"create", "delete"}]
          /\ opens' \in [Procs -> Nat]
          /\ socks' \in [Procs -> [Vlans -> Nat]]
      BY <1>1 DEF SockOpen, Typed, TypeOK
    <2> QED
      BY <1>1, <2>1, GetFdTyped DEF SockOpen
  <1>2. ASSUME NEW p \in Procs, NEW v \in Vlans, SockClose(p, v) PROVE Typed'
    <2>1. /\ op' \in [Procs -> {"create", "delete"}]
          /\ opens' \in [Procs -> Nat]
          /\ socks' \in [Procs -> [Vlans -> Nat]]
      BY <1>2 DEF SockClose, Typed, TypeOK
    <2> QED
      BY <1>2, <2>1, GetFdTyped DEF SockClose
  <1>3. ASSUME NEW p \in Procs, Lock(p) PROVE Typed'
    BY <1>3 DEF Typed, TypeOK, Descriptors, Lock, Goto, Steps, CriticalSteps,
                netVars, useVars, localVars
  <1>4. ASSUME NEW p \in Procs, OpenShmem(p) PROVE Typed'
    <2>1. PICK i \in Inodes : ShmOpen(vlan[p], i) /\ map' = [map EXCEPT ![p] = i]
      BY <1>4 DEF OpenShmem
    <2>2. named' \in [Vlans -> Inodes \cup {NoInode}] /\ data' \in [Inodes -> Segments]
      BY <2>1, ShmOpenFacts DEF Typed, TypeOK
    <2>3. pc' = [pc EXCEPT ![p] = "load"] \/ pc' = [pc EXCEPT ![p] = "store"]
      BY <1>4 DEF OpenShmem, Goto
    <2>4. TypeOK'
      BY <1>4, <2>1, <2>2, <2>3
         DEF OpenShmem, Typed, TypeOK, Steps, CriticalSteps, netVars, useVars
    <2>5. Descriptors'
      BY <1>4, <2>1, <2>3 DEF OpenShmem, Typed, TypeOK, Descriptors, CriticalSteps
    <2> QED
      BY <2>4, <2>5 DEF Typed
  <1>5. ASSUME NEW p \in Procs, LoadCreate(p) PROVE Typed'
    BY <1>5 DEF Typed, TypeOK, Descriptors, LoadCreate, Goto, Steps, CriticalSteps,
                netVars, useVars, shmVars
  <1>6. ASSUME NEW p \in Procs, LoadDelete(p) PROVE Typed'
    <2>1. /\ vec' \in [Procs -> Segments]
          /\ breach' \subseteq {"race", "full", "shared", "shm", "perm"}
      BY <1>6, LoadDeleteFacts DEF Typed, TypeOK
    <2> QED
      BY <1>6, <2>1 DEF Typed, TypeOK, Descriptors, LoadDelete, Goto, Steps,
                        CriticalSteps, netVars, useVars, shmVars
  <1>7. ASSUME NEW p \in Procs, LinkAdd(p) PROVE Typed'
    <2>1. \E l \in CommandSteps : pc' = [pc EXCEPT ![p] = l]
      BY <1>7 DEF LinkAdd, CreateFailed, Goto, CommandSteps
    <2>2. link' \in [Vlans -> {"none", "down", "up"}] /\ qdisc' = qdisc
      BY <1>7 DEF LinkAdd, Typed, TypeOK
    <2>3. res' = res \/ res' = [res EXCEPT ![p] = "err"]
      BY <1>7 DEF LinkAdd, CreateFailed
    <2>4. breach' \subseteq {"race", "full", "shared", "shm", "perm"}
      BY <1>7 DEF LinkAdd, Typed, TypeOK
    <2> QED
      BY <1>7, <2>1, <2>2, <2>3, <2>4, CommandTyped DEF LinkAdd, CommandSteps, Typed, TypeOK
  <1>8. ASSUME NEW p \in Procs, LinkUp(p) PROVE Typed'
    <2>1. \E l \in CommandSteps : pc' = [pc EXCEPT ![p] = l]
      BY <1>8 DEF LinkUp, CreateFailed, AfterUp, Goto, CommandSteps
    <2>2. link' \in [Vlans -> {"none", "down", "up"}] /\ qdisc' = qdisc
      BY <1>8 DEF LinkUp, Typed, TypeOK
    <2>3. res' = res \/ res' = [res EXCEPT ![p] = "err"]
      BY <1>8 DEF LinkUp, CreateFailed
    <2>4. breach' \subseteq {"race", "full", "shared", "shm", "perm"}
      BY <1>8 DEF LinkUp, Typed, TypeOK
    <2> QED
      BY <1>8, <2>1, <2>2, <2>3, <2>4, CommandTyped DEF LinkUp, CommandSteps, Typed, TypeOK
  <1>9. ASSUME NEW p \in Procs, SetupQos(p) PROVE Typed'
    <2>1. \E l \in CommandSteps : pc' = [pc EXCEPT ![p] = l]
      BY <1>9 DEF SetupQos, CreateFailed, Goto, CommandSteps
    <2>2. qdisc' \in {"none", "root", "full"} /\ link' = link
      BY <1>9 DEF SetupQos, Typed, TypeOK
    <2>3. res' = res \/ res' = [res EXCEPT ![p] = "err"]
      BY <1>9 DEF SetupQos, CreateFailed
    <2>4. breach' \subseteq {"race", "full", "shared", "shm", "perm"}
      BY <1>9 DEF SetupQos, Typed, TypeOK
    <2> QED
      BY <1>9, <2>1, <2>2, <2>3, <2>4, CommandTyped DEF SetupQos, CommandSteps, Typed, TypeOK
  <1>10. ASSUME NEW p \in Procs, SetupChildren(p) PROVE Typed'
    <2>1. \E l \in CommandSteps : pc' = [pc EXCEPT ![p] = l]
      BY <1>10 DEF SetupChildren, CreateFailed, Goto, CommandSteps
    <2>2. qdisc' \in {"none", "root", "full"} /\ link' = link
      BY <1>10 DEF SetupChildren, Typed, TypeOK
    <2>3. res' = res \/ res' = [res EXCEPT ![p] = "err"]
      BY <1>10 DEF SetupChildren, CreateFailed
    <2>4. breach' \subseteq {"race", "full", "shared", "shm", "perm"}
      BY <1>10 DEF SetupChildren, Typed, TypeOK
    <2> QED
      BY <1>10, <2>1, <2>2, <2>3, <2>4, CommandTyped DEF SetupChildren, CommandSteps, Typed, TypeOK
  <1>11. ASSUME NEW p \in Procs, StoreCreate(p) PROVE Typed'
    <2>1. map[p] \in Inodes /\ data[map[p]] \in Segments /\ vec[p] \in Segments
      BY <1>11 DEF Typed, TypeOK, Descriptors, StoreCreate
    <2>2. Push(data[map[p]], p) \in Segments /\ Empty \in Segments
      BY <2>1, VectorTypes
    <2>3. Overlay(data[map[p]], vec[p], p) \subseteq Segments
      BY <2>1, OverlayType
    <2>4. data' \in [Inodes -> Segments] /\ breach' \subseteq {"race", "full", "shared", "shm", "perm"}
      <3>1. breach' = breach \/ breach' = breach \cup {"full"}
        BY <1>11 DEF StoreCreate
      <3>2. \E s \in Segments : data' = [data EXCEPT ![map[p]] = s] \/ data' = data
        BY <1>11, <2>1, <2>2, <2>3 DEF StoreCreate
      <3>3. data' \in [Inodes -> Segments]
        BY <2>1, <3>2 DEF Typed, TypeOK
      <3>4. breach' \subseteq {"race", "full", "shared", "shm", "perm"}
        BY <3>1 DEF Typed, TypeOK
      <3> QED
        BY <3>3, <3>4
    <2>5. TypeOK'
      BY <1>11, <2>2, <2>4 DEF Typed, TypeOK, StoreCreate, Goto, Steps, netVars, useVars
    <2>6. Descriptors'
      BY <1>11 DEF Typed, TypeOK, Descriptors, StoreCreate, Goto, CriticalSteps
    <2> QED
      BY <2>5, <2>6 DEF Typed
  <1>12. ASSUME NEW p \in Procs, StoreDelete(p) PROVE Typed'
    <2>1. map[p] \in Inodes /\ Empty \in Segments
      BY <1>12, VectorTypes DEF Typed, TypeOK, Descriptors, StoreDelete, Segments, Empty
    <2>2. TypeOK'
      BY <1>12, <2>1
         DEF Typed, TypeOK, StoreDelete, Goto, Steps, CriticalSteps, netVars, useVars
    <2>3. Descriptors'
      BY <1>12 DEF Typed, TypeOK, Descriptors, StoreDelete, Goto, CriticalSteps
    <2> QED
      BY <2>2, <2>3 DEF Typed
  <1>13. ASSUME NEW p \in Procs, Unlink(p) PROVE Typed'
    <2>0. named' \in [Vlans -> Inodes \cup {NoInode}]
      <3>1. named \in [Vlans -> Inodes \cup {NoInode}]
        BY DEF Typed, TypeOK
      <3>2. named' = named \/ named' = [named EXCEPT ![vlan[p]] = NoInode]
        BY <1>13 DEF Unlink
      <3> QED
        BY ONLY <3>1, <3>2
    <2>1. CASE pc' = [pc EXCEPT ![p] = "dellink"] /\ UNCHANGED <<fd, map, vec>>
      <3>1. breach' \subseteq {"race", "full", "shared", "shm", "perm"}
        BY <1>13 DEF Unlink, Typed, TypeOK
      <3>2. TypeOK'
        BY <1>13, <2>0, <2>1, <3>1
           DEF Unlink, Typed, TypeOK, Steps, CriticalSteps, netVars, useVars
      <3>3. Descriptors'
        BY <1>13, <2>1 DEF Unlink, Typed, TypeOK, Descriptors, CriticalSteps
      <3> QED
        BY <3>2, <3>3 DEF Typed
    <2>2. CASE pc' = [pc EXCEPT ![p] = "idle"] /\ Return(p)
      <3>1. TypeOK'
        <4>1. /\ fd' \in [Procs -> Inodes \cup {NoInode}]
              /\ map' \in [Procs -> Inodes \cup {NoInode}] /\ vec' \in [Procs -> Segments]
          BY <2>2, ReturnFacts
        <4>2. breach' \subseteq {"race", "full", "shared", "shm", "perm"}
          BY <1>13 DEF Unlink, Typed, TypeOK
        <4>3. pc' \in [Procs -> Steps]
          BY <2>2 DEF Typed, TypeOK, Steps
        <4>4. UNCHANGED <<data, lock, netVars, useVars, op, vlan, res>>
          BY <1>13 DEF Unlink
        <4> QED
          BY <2>0, <4>1, <4>2, <4>3, <4>4 DEF Typed, TypeOK, netVars, useVars
      <3>2. Descriptors'
        BY <2>2, ReturnFacts DEF Typed, TypeOK, Descriptors, CriticalSteps
      <3> QED
        BY <3>1, <3>2 DEF Typed
    <2> QED
      BY <1>13, <2>1, <2>2 DEF Unlink, Goto
  <1>14. ASSUME NEW p \in Procs, LinkDel(p) PROVE Typed'
    <2>1. \E l \in CommandSteps : pc' = [pc EXCEPT ![p] = l]
      BY <1>14 DEF LinkDel, Goto, CommandSteps
    <2>2. link' \in [Vlans -> {"none", "down", "up"}] /\ qdisc' = qdisc
      BY <1>14 DEF LinkDel, Typed, TypeOK
    <2>3. res' = res \/ res' = [res EXCEPT ![p] = "err"]
      BY <1>14 DEF LinkDel
    <2>4. breach' \subseteq {"race", "full", "shared", "shm", "perm"}
      BY <1>14 DEF LinkDel, Typed, TypeOK
    <2> QED
      BY <1>14, <2>1, <2>2, <2>3, <2>4, CommandTyped DEF LinkDel, CommandSteps, Typed, TypeOK
  <1>15. ASSUME NEW p \in Procs, QdiscDel(p) PROVE Typed'
    <2>1. \E l \in CommandSteps : pc' = [pc EXCEPT ![p] = l]
      BY <1>15 DEF QdiscDel, Goto, CommandSteps
    <2>2. qdisc' \in {"none", "root", "full"} /\ link' = link
      BY <1>15 DEF QdiscDel, Typed, TypeOK
    <2>3. res' = res \/ res' = [res EXCEPT ![p] = "err"]
      BY <1>15 DEF QdiscDel
    <2>4. breach' \subseteq {"race", "full", "shared", "shm", "perm"}
      BY <1>15 DEF QdiscDel, Typed, TypeOK
    <2> QED
      BY <1>15, <2>1, <2>2, <2>3, <2>4, CommandTyped DEF QdiscDel, CommandSteps, Typed, TypeOK
  <1>16. ASSUME NEW p \in Procs, Unlock(p) PROVE Typed'
    <2>1. lock' \in [Inodes -> Procs \cup {NoProc}]
      BY <1>16 DEF Unlock, Typed, TypeOK
    <2>2. TypeOK'
      BY <1>16, <2>1, ReturnFacts
         DEF Unlock, Typed, TypeOK, Goto, Steps, netVars, useVars
    <2>3. Descriptors'
      BY <1>16, ReturnFacts DEF Unlock, Typed, TypeOK, Goto, Descriptors, CriticalSteps
    <2> QED
      BY <2>2, <2>3 DEF Typed
  <1>17. ASSUME NEW p \in Procs, Bind(p) PROVE Typed'
    <2>1. socks' \in [Procs -> [Vlans -> Nat]]
      <3>1. CASE UNCHANGED socks
        BY <3>1 DEF Typed, TypeOK
      <3>2. CASE socks' = [socks EXCEPT ![p][vlan[p]] = @ + 1]
        BY <3>2 DEF Typed, TypeOK
      <3> QED
        BY <1>17, <3>1, <3>2 DEF Bind
    <2> QED
      BY <1>17, <2>1 DEF Typed, TypeOK, Descriptors, Bind, Goto, Steps, CriticalSteps,
                         netVars, shmVars, localVars
  <1>18. ASSUME NEW p \in Procs, PanicUnmapped(p) \/ PanicNoLink(p) \/ Crash(p)
         PROVE Typed'
    BY <1>18, DieTyped DEF PanicUnmapped, PanicNoLink, Crash
  <1>19. ASSUME NEW p \in Procs, ShmFails(p) PROVE Typed'
    <2>1. TypeOK'
      BY <1>19, ReturnFacts
         DEF ShmFails, Typed, TypeOK, Goto, Steps, netVars, useVars, shmVars
    <2>2. Descriptors'
      BY <1>19, ReturnFacts DEF ShmFails, Typed, TypeOK, Goto, Descriptors, CriticalSteps
    <2> QED
      BY <2>1, <2>2 DEF Typed
  <1>20. CASE UNCHANGED vars
    BY <1>20 DEF vars, Typed, TypeOK, Descriptors, shmVars, netVars, useVars, localVars
  <1> QED
    BY <1>1, <1>2, <1>3, <1>4, <1>5, <1>6, <1>7, <1>8, <1>9, <1>10, <1>11, <1>12,
       <1>13, <1>14, <1>15, <1>16, <1>17, <1>18, <1>19, <1>20 DEF Next, Step

\* Every variable stays in its range, and the code never reads or writes through
\* an inode that is not open.
THEOREM TypeCorrect == Spec => []TypeOK
  <1>1. Spec => []Typed
    BY InitTyped, NextTyped, PTL DEF Spec
  <1>2. Typed => TypeOK
    BY DEF Typed
  <1> QED
    BY <1>1, <1>2, PTL

----------------------------------------------------------------------------
(* The lock: who is inside an operation owns the lock of the inode it opened. *)

\* At first nobody is inside an operation.
LEMMA InitHolding == Init => Holding /\ OpSteps
  BY DEF Init, Holding, OpSteps, CriticalSteps, TailSteps

\* A process that ends loses its own locks only.
LEMMA DieHolding ==
  ASSUME Typed, Holding, OpSteps, NEW p \in Procs, Die(p)
  PROVE  Holding' /\ OpSteps'
  <1>1. \A q \in Procs : q # p => pc'[q] = pc[q] /\ fd'[q] = fd[q] /\ op'[q] = op[q]
    BY ReturnFacts DEF Die, Goto, Typed, TypeOK
  <1>2. pc'[p] = "dead"
    BY DEF Die, Goto, Typed, TypeOK
  <1>3. \A i \in Inodes : lock[i] # p => lock'[i] = lock[i]
    BY DEF Die
  <1>4. ASSUME NEW q \in Procs, pc'[q] \in CriticalSteps \cup {"unlock"}
        PROVE  lock'[fd'[q]] = q
    <2>1. q # p
      BY <1>2, <1>4 DEF CriticalSteps
    <2>2. fd[q] \in Inodes
      BY <1>1, <1>4, <2>1 DEF Typed, TypeOK, Descriptors
    <2> QED
      BY <1>1, <1>3, <1>4, <2>1, <2>2 DEF Holding
  <1>5. OpSteps'
    BY <1>1, <1>2 DEF OpSteps, TailSteps
  <1> QED
    BY <1>4, <1>5 DEF Holding

\* Steps that leave locks, descriptors and operations alone.
LEMMA QuietHolding ==
  ASSUME Typed, Holding, OpSteps, NEW p \in Procs, NEW l \in Steps,
         pc' = [pc EXCEPT ![p] = l], UNCHANGED <<lock, fd, op>>,
         l \in CriticalSteps \cup {"unlock"} => pc[p] \in CriticalSteps,
         l \in {"unlink"} \cup TailSteps => op[p] = "delete",
         l \in {"add", "up", "qos", "children", "bind"} => op[p] = "create"
  PROVE  Holding' /\ OpSteps'
  <1>1. \A q \in Procs : q # p => pc'[q] = pc[q]
    BY DEF Typed, TypeOK
  <1>2. pc'[p] = l
    BY DEF Typed, TypeOK
  <1>3. Holding'
    BY <1>1, <1>2 DEF Holding
  <1>4. OpSteps'
    BY <1>1, <1>2 DEF OpSteps
  <1> QED
    BY <1>3, <1>4

\* Every step keeps it that who is inside an operation owns the lock of its inode.
LEMMA NextHolding ==
  ASSUME Typed, Holding, OpSteps, [Next]_vars
  PROVE  Holding' /\ OpSteps'
  <1> USE RegistryAssumption
  <1>1. ASSUME NEW p \in Procs, NEW v \in Vlans, SockOpen(p, v) \/ SockClose(p, v)
        PROVE  Holding' /\ OpSteps'
    <2>1. PICK i \in Inodes : fd' = [fd EXCEPT ![p] = i]
      BY <1>1 DEF SockOpen, SockClose, GetFd
    <2>2. PICK o \in {"create", "delete"} : op' = [op EXCEPT ![p] = o]
      BY <1>1 DEF SockOpen, SockClose
    <2>3. pc' = [pc EXCEPT ![p] = "lock"] /\ lock' = lock
      BY <1>1 DEF SockOpen, SockClose, GetFd, Goto
    <2> QED
      BY <2>1, <2>2, <2>3
         DEF Typed, TypeOK, Holding, OpSteps, CriticalSteps, TailSteps
  <1>2. ASSUME NEW p \in Procs, Lock(p) PROVE Holding' /\ OpSteps'
    <2>1. fd[p] \in Inodes /\ pc' = [pc EXCEPT ![p] = "read"] /\ UNCHANGED <<fd, op>>
      BY <1>2 DEF Lock, Goto, Typed, TypeOK, Descriptors, localVars
    <2>2. lock' = [lock EXCEPT ![fd[p]] = p] /\ lock[fd[p]] \in {NoProc, p}
      BY <1>2 DEF Lock
    <2>3. ASSUME NEW q \in Procs, q # p, pc[q] \in CriticalSteps \cup {"unlock"}
          PROVE  lock'[fd[q]] = q
      <3>1. lock[fd[q]] = q /\ fd[q] \in Inodes
        BY <2>3 DEF Holding, Typed, TypeOK, Descriptors
      <3> QED
        BY <2>1, <2>2, <2>3, <3>1 DEF Typed, TypeOK
    <2>4. lock'[fd[p]] = p
      BY <2>1, <2>2 DEF Typed, TypeOK
    <2>5. Holding'
      BY <2>1, <2>3, <2>4 DEF Typed, TypeOK, Holding
    <2>6. OpSteps'
      BY <2>1 DEF Typed, TypeOK, OpSteps, TailSteps
    <2> QED
      BY <2>5, <2>6
  <1>3. ASSUME NEW p \in Procs, OpenShmem(p) PROVE Holding' /\ OpSteps'
    <2>1. pc[p] \in CriticalSteps /\ \E l \in {"load", "store"} : pc' = [pc EXCEPT ![p] = l]
      BY <1>3 DEF OpenShmem, Goto, CriticalSteps
    <2> QED
      BY <1>3, <2>1, QuietHolding DEF OpenShmem, Steps, CriticalSteps, TailSteps
  <1>4. ASSUME NEW p \in Procs, LoadCreate(p) PROVE Holding' /\ OpSteps'
    <2>1. \E l \in {"add", "write"} : pc' = [pc EXCEPT ![p] = l]
      BY <1>4 DEF LoadCreate, Goto
    <2> QED
      BY <1>4, <2>1, QuietHolding DEF LoadCreate, Steps, CriticalSteps, TailSteps, shmVars
  <1>5. ASSUME NEW p \in Procs, LoadDelete(p) PROVE Holding' /\ OpSteps'
    BY <1>5, QuietHolding DEF LoadDelete, Goto, Steps, CriticalSteps, TailSteps, shmVars
  <1>6. ASSUME NEW p \in Procs, LinkAdd(p) PROVE Holding' /\ OpSteps'
    <2>1. op[p] = "create" /\ \E l \in {"up", "write"} : pc' = [pc EXCEPT ![p] = l]
      BY <1>6 DEF LinkAdd, CreateFailed, Goto, OpSteps
    <2> QED
      BY <1>6, <2>1, QuietHolding DEF LinkAdd, Steps, CriticalSteps, TailSteps, shmVars
  <1>7. ASSUME NEW p \in Procs, LinkUp(p) PROVE Holding' /\ OpSteps'
    <2>1. op[p] = "create" /\ \E l \in {"qos", "write"} : pc' = [pc EXCEPT ![p] = l]
      BY <1>7 DEF LinkUp, AfterUp, CreateFailed, Goto, OpSteps
    <2> QED
      BY <1>7, <2>1, QuietHolding DEF LinkUp, Steps, CriticalSteps, TailSteps, shmVars
  <1>8. ASSUME NEW p \in Procs, SetupQos(p) PROVE Holding' /\ OpSteps'
    <2>1. op[p] = "create" /\ \E l \in {"children", "write"} : pc' = [pc EXCEPT ![p] = l]
      BY <1>8 DEF SetupQos, CreateFailed, Goto, OpSteps
    <2> QED
      BY <1>8, <2>1, QuietHolding DEF SetupQos, Steps, CriticalSteps, TailSteps, shmVars
  <1>9. ASSUME NEW p \in Procs, SetupChildren(p) PROVE Holding' /\ OpSteps'
    <2>1. pc' = [pc EXCEPT ![p] = "write"]
      BY <1>9 DEF SetupChildren, CreateFailed, Goto
    <2> QED
      BY <1>9, <2>1, QuietHolding DEF SetupChildren, Steps, CriticalSteps, TailSteps, shmVars
  <1>10. ASSUME NEW p \in Procs, StoreCreate(p) PROVE Holding' /\ OpSteps'
    BY <1>10, QuietHolding DEF StoreCreate, Goto, Steps, CriticalSteps, TailSteps
  <1>11. ASSUME NEW p \in Procs, StoreDelete(p) PROVE Holding' /\ OpSteps'
    <2>1. \E l \in {"unlink", "unlock"} : pc' = [pc EXCEPT ![p] = l]
      BY <1>11 DEF StoreDelete, Goto
    <2> QED
      BY <1>11, <2>1, QuietHolding DEF StoreDelete, Steps, CriticalSteps, TailSteps
  <1>12. ASSUME NEW p \in Procs, Unlink(p) PROVE Holding' /\ OpSteps'
    <2>1. CASE pc' = [pc EXCEPT ![p] = "dellink"] /\ UNCHANGED <<fd, map, vec>>
      BY <1>12, <2>1, QuietHolding DEF Unlink, OpSteps, Steps, CriticalSteps, TailSteps
    <2>2. CASE pc' = [pc EXCEPT ![p] = "idle"] /\ Return(p)
      BY <1>12, <2>2, ReturnFacts
         DEF Unlink, Typed, TypeOK, Holding, OpSteps, CriticalSteps, TailSteps
    <2> QED
      BY <1>12, <2>1, <2>2 DEF Unlink, Goto
  <1>13. ASSUME NEW p \in Procs, LinkDel(p) PROVE Holding' /\ OpSteps'
    <2>1. op[p] = "delete" /\ \E l \in {"delqdisc", "unlock"} : pc' = [pc EXCEPT ![p] = l]
      BY <1>13 DEF LinkDel, Goto, OpSteps, TailSteps
    <2> QED
      BY <1>13, <2>1, QuietHolding DEF LinkDel, Steps, CriticalSteps, TailSteps, shmVars
  <1>14. ASSUME NEW p \in Procs, QdiscDel(p) PROVE Holding' /\ OpSteps'
    BY <1>14, QuietHolding DEF QdiscDel, Goto, Steps, CriticalSteps, TailSteps, shmVars
  <1>15. ASSUME NEW p \in Procs, Unlock(p) PROVE Holding' /\ OpSteps'
    <2>1. fd[p] \in Inodes /\ lock[fd[p]] = p
      BY <1>15 DEF Unlock, Typed, TypeOK, Descriptors, Holding
    <2>2. \A i \in Inodes : lock[i] # p => lock'[i] = lock[i]
      BY <1>15 DEF Unlock, Typed, TypeOK
    <2>3. /\ \A q \in Procs : q # p => pc'[q] = pc[q] /\ fd'[q] = fd[q]
          /\ pc'[p] \in {"bind", "idle"}
          /\ pc'[p] = "bind" => op[p] = "create"
          /\ op' = op
      BY <1>15, ReturnFacts DEF Unlock, Goto, Typed, TypeOK
    <2>4. ASSUME NEW q \in Procs, pc'[q] \in CriticalSteps \cup {"unlock"}
          PROVE  lock'[fd'[q]] = q
      <3>1. q # p
        BY <2>3, <2>4 DEF CriticalSteps
      <3>2. fd[q] \in Inodes
        BY <2>3, <2>4, <3>1 DEF Typed, TypeOK, Descriptors
      <3> QED
        BY <2>2, <2>3, <2>4, <3>1, <3>2 DEF Holding
    <2>5. OpSteps'
      BY <2>3 DEF OpSteps, TailSteps
    <2> QED
      BY <2>4, <2>5 DEF Holding
  <1>16. ASSUME NEW p \in Procs, Bind(p) PROVE Holding' /\ OpSteps'
    BY <1>16, QuietHolding
       DEF Bind, Goto, Steps, CriticalSteps, TailSteps, shmVars, localVars
  <1>17. ASSUME NEW p \in Procs, PanicUnmapped(p) \/ PanicNoLink(p) \/ Crash(p)
         PROVE  Holding' /\ OpSteps'
    BY <1>17, DieHolding DEF PanicUnmapped, PanicNoLink, Crash
  <1>18. ASSUME NEW p \in Procs, ShmFails(p) PROVE Holding' /\ OpSteps'
    BY <1>18, ReturnFacts
       DEF ShmFails, Goto, Typed, TypeOK, Holding, OpSteps, CriticalSteps, TailSteps, shmVars
  <1>19. CASE UNCHANGED vars
    BY <1>19 DEF vars, Holding, OpSteps, shmVars, localVars
  <1> QED
    BY <1>1, <1>2, <1>3, <1>4, <1>5, <1>6, <1>7, <1>8, <1>9, <1>10, <1>11, <1>12,
       <1>13, <1>14, <1>15, <1>16, <1>17, <1>18, <1>19 DEF Next, Step

----------------------------------------------------------------------------
(* The name: without a race it leads to the inode whose lock is held.        *)

Named == "race" \notin breach => NameStable

\* Steps before the name is taken away, in which the inode must be the named one.
NameSteps == (CriticalSteps \ TailSteps) \cup {"lock"}

\* At first no process has an inode open that its name could leave.
LEMMA InitNamed == Init => Named
  BY DEF Init, Named, NameStable, CriticalSteps, TailSteps

\* A breach is never forgotten.
LEMMA BreachGrows == ASSUME [Next]_vars PROVE breach \subseteq breach'
  <1>1. ASSUME NEW p \in Procs, NEW v \in Vlans, SockOpen(p, v) \/ SockClose(p, v)
        PROVE  breach \subseteq breach'
    BY ONLY <1>1 DEF SockOpen, SockClose, GetFd
  <1>2. ASSUME NEW p \in Procs,
               \/ Lock(p) \/ OpenShmem(p) \/ LoadCreate(p) \/ LoadDelete(p)
               \/ LinkAdd(p) \/ LinkUp(p) \/ SetupQos(p) \/ SetupChildren(p)
        PROVE  breach \subseteq breach'
    BY ONLY <1>2 DEF Lock, OpenShmem, LoadCreate, LoadDelete, LinkAdd, LinkUp, SetupQos, SetupChildren
  <1>3. ASSUME NEW p \in Procs,
               \/ StoreCreate(p) \/ StoreDelete(p) \/ Unlink(p) \/ LinkDel(p) \/ QdiscDel(p)
        PROVE  breach \subseteq breach'
    BY ONLY <1>3 DEF StoreCreate, StoreDelete, Unlink, LinkDel, QdiscDel
  <1>4. ASSUME NEW p \in Procs,
               \/ Unlock(p) \/ Bind(p) \/ PanicUnmapped(p) \/ PanicNoLink(p)
               \/ Crash(p) \/ ShmFails(p)
        PROVE  breach \subseteq breach'
    BY ONLY <1>4 DEF Unlock, Bind, PanicUnmapped, PanicNoLink, Crash, Die, ShmFails
  <1>5. CASE UNCHANGED vars
    BY ONLY <1>5 DEF vars
  <1> QED
    BY <1>1, <1>2, <1>3, <1>4, <1>5 DEF Next, Step

\* Of two processes at work on one VLAN one does not hold the lock of the named inode.
LEMMA Exclusion ==
  ASSUME Typed, Holding, NameStable, NEW p \in Procs, NEW q \in Procs,
         vlan[p] = vlan[q], pc[p] \in CriticalSteps, pc[q] \in CriticalSteps
  PROVE  p = q
  <1>1. CASE pc[p] \notin TailSteps /\ pc[q] \notin TailSteps
    <2>1. fd[p] = fd[q]
      BY <1>1 DEF NameStable
    <2> QED
      BY <2>1 DEF Holding
  <1>2. CASE pc[p] \in TailSteps /\ pc[q] \in TailSteps
    BY <1>2 DEF NameStable
  <1>3. CASE pc[p] \in TailSteps /\ pc[q] \notin TailSteps
    <2>1. named[vlan[p]] = NoInode /\ fd[q] = named[vlan[q]]
      BY <1>3 DEF NameStable
    <2> QED
      BY <2>1 DEF Typed, Descriptors
  <1>4. CASE pc[p] \notin TailSteps /\ pc[q] \in TailSteps
    <2>1. named[vlan[q]] = NoInode /\ fd[p] = named[vlan[p]]
      BY <1>4 DEF NameStable
    <2> QED
      BY <2>1 DEF Typed, Descriptors
  <1> QED
    BY <1>1, <1>2, <1>3, <1>4

\* Steps that neither make nor remove a name.
LEMMA QuietNamed ==
  ASSUME Typed, Named, NEW p \in Procs, NEW l \in Steps,
         breach \subseteq breach',
         pc' = [pc EXCEPT ![p] = l], UNCHANGED <<named, vlan>>,
         \A q \in Procs : q # p => fd'[q] = fd[q] /\ map'[q] = map[q],
         l \in NameSteps => pc[p] \in NameSteps /\ fd'[p] = fd[p],
         l \notin {"load", "store"},
         l \in TailSteps => pc[p] \in TailSteps
  PROVE  Named'
  <1> SUFFICES ASSUME "race" \notin breach' PROVE NameStable'
    BY DEF Named
  <1>1. NameStable
    BY DEF Named
  <1>2. \A q \in Procs : q # p => pc'[q] = pc[q]
    BY DEF Typed, TypeOK
  <1>3. pc'[p] = l
    BY DEF Typed, TypeOK
  <1>4. ASSUME NEW q \in Procs
        PROVE  /\ pc'[q] \in NameSteps => fd'[q] = named[vlan[q]]
               /\ pc'[q] \in {"load", "store"} => map'[q] = named[vlan[q]]
               /\ pc'[q] \in TailSteps => named[vlan[q]] = NoInode
               /\ pc'[q] \in TailSteps => pc[q] \in TailSteps
    BY <1>1, <1>2, <1>3 DEF NameStable, NameSteps
  <1> QED
    BY <1>1, <1>4 DEF NameStable, NameSteps

\* A new descriptor is that of the name, unless the last user is about to unlink it.
LEMMA GetFdNamed ==
  ASSUME Typed, Named, NEW p \in Procs, NEW v \in Vlans, pc[p] = "idle", GetFd(p, v)
  PROVE  Named'
  <1> USE RegistryAssumption
  <1> SUFFICES ASSUME "race" \notin breach' PROVE NameStable'
    BY DEF Named
  <1>1. NameStable /\ \A q \in Procs \ {p} : ~(vlan[q] = v /\ pc[q] \in TailSteps)
    BY DEF Named, GetFd
  <1>2. PICK i \in Inodes : ShmOpen(v, i) /\ fd' = [fd EXCEPT ![p] = i]
    BY DEF GetFd
  <1>3. /\ named'[v] = i
        /\ \A w \in Vlans : w # v => named'[w] = named[w]
        /\ named[v] # NoInode => named' = named
        /\ named[v] = NoInode => i \in FreeInodes
    BY <1>2, ShmOpenFacts DEF Typed
  <1>4. /\ pc'[p] = "lock" /\ vlan'[p] = v /\ fd'[p] = i /\ map' = map
        /\ \A q \in Procs : q # p => pc'[q] = pc[q] /\ vlan'[q] = vlan[q] /\ fd'[q] = fd[q]
    BY <1>2 DEF GetFd, Goto, Typed, TypeOK
  <1>5. \A w \in Vlans : w # v /\ named'[w] # NoInode => named'[w] # i
    BY <1>1, <1>3 DEF FreeInodes, NameStable
  <1>6. \A w, x \in Vlans : named'[w] = named'[x] /\ named'[w] # NoInode => w = x
    BY <1>1, <1>3, <1>5 DEF NameStable
  <1>7. ASSUME NEW q \in Procs
        PROVE  /\ pc'[q] \in NameSteps => fd'[q] = named'[vlan'[q]]
               /\ pc'[q] \in {"load", "store"} => map'[q] = named'[vlan'[q]]
               /\ pc'[q] \in TailSteps => q # p /\ named'[vlan'[q]] = NoInode
    <2>1. CASE q = p
      BY <1>3, <1>4, <2>1 DEF TailSteps
    <2>2. CASE q # p
      <3>1. vlan[q] \in Vlans
        BY DEF Typed, TypeOK
      <3>2. pc[q] \in NameSteps => fd[q] = named[vlan[q]] /\ fd[q] # NoInode
        BY <1>1 DEF NameStable, NameSteps, Typed, Descriptors
      <3>3. pc[q] \in {"load", "store"} => map[q] = named[vlan[q]] /\ map[q] # NoInode
        BY <1>1 DEF NameStable, Typed, Descriptors
      <3>4. pc[q] \in TailSteps => named[vlan[q]] = NoInode /\ vlan[q] # v
        BY <1>1, <2>2 DEF NameStable
      <3> QED
        BY <1>3, <1>4, <2>2, <3>1, <3>2, <3>3, <3>4
    <2> QED
      BY <2>1, <2>2
  <1>8. \A q, r \in Procs : pc'[q] \in TailSteps /\ pc'[r] \in TailSteps /\ vlan'[q] = vlan'[r]
                            => q = r
    BY <1>1, <1>4, <1>7 DEF NameStable
  <1> QED
    BY <1>6, <1>7, <1>8 DEF NameStable, NameSteps

\* Without a race, every step keeps a name on the inode that its users have open.
LEMMA NextNamed ==
  ASSUME Typed, Holding, Named, [Next]_vars
  PROVE  Named'
  <1> USE RegistryAssumption
  <1>0. breach \subseteq breach'
    BY BreachGrows
  <1>1. ASSUME NEW p \in Procs, NEW v \in Vlans, SockOpen(p, v) \/ SockClose(p, v)
        PROVE  Named'
    BY <1>1, GetFdNamed DEF SockOpen, SockClose
  <1>2. ASSUME NEW p \in Procs, Lock(p) PROVE Named'
    <2>1. pc[p] = "lock" /\ pc' = [pc EXCEPT ![p] = "read"] /\ UNCHANGED <<named, vlan, fd, map>>
      BY <1>2 DEF Lock, Goto, localVars
    <2>2. "read" \in Steps \cap NameSteps /\ "lock" \in NameSteps /\ "read" \notin TailSteps
      BY DEF Steps, NameSteps, CriticalSteps, TailSteps
    <2> QED
      BY <1>0, <2>1, <2>2, QuietNamed
  <1>3. ASSUME NEW p \in Procs, OpenShmem(p) PROVE Named'
    <2> SUFFICES ASSUME "race" \notin breach' PROVE NameStable'
      BY DEF Named
    <2>1. NameStable
      BY <1>0 DEF Named
    <2>2. vlan[p] \in Vlans /\ named[vlan[p]] # NoInode
      BY <1>3, <2>1
         DEF OpenShmem, NameStable, CriticalSteps, TailSteps, Typed, TypeOK, Descriptors
    <2>3. PICK i \in Inodes : ShmOpen(vlan[p], i) /\ map' = [map EXCEPT ![p] = i]
      BY <1>3 DEF OpenShmem
    <2>4. named' = named /\ i = named[vlan[p]]
      BY <2>2, <2>3, ShmOpenFacts DEF Typed
    <2>5. /\ pc[p] \in NameSteps /\ pc'[p] \in {"load", "store"}
          /\ \A q \in Procs : q # p => pc'[q] = pc[q]
          /\ UNCHANGED <<fd, vlan>>
      BY <1>3 DEF OpenShmem, Goto, Typed, TypeOK, NameSteps, CriticalSteps, TailSteps
    <2>6. map'[p] = named[vlan[p]] /\ \A q \in Procs : q # p => map'[q] = map[q]
      BY <2>3, <2>4 DEF Typed, TypeOK
    <2>7. \A q \in Procs : /\ pc'[q] \in NameSteps => fd[q] = named[vlan[q]]
                           /\ pc'[q] \in {"load", "store"} => map'[q] = named[vlan[q]]
                           /\ pc'[q] \in TailSteps => pc[q] \in TailSteps
      BY <2>1, <2>5, <2>6 DEF NameStable, NameSteps, TailSteps
    <2> QED
      BY <2>1, <2>4, <2>5, <2>7 DEF NameStable, NameSteps
  <1>4. ASSUME NEW p \in Procs, LoadCreate(p) PROVE Named'
    <2>1. \E l \in {"add", "write"} : pc' = [pc EXCEPT ![p] = l]
      BY <1>4 DEF LoadCreate, Goto
    <2>2. \A q \in Procs : q # p => map'[q] = map[q]
      BY <1>4 DEF LoadCreate, Typed, TypeOK
    <2> QED
      BY <1>0, <1>4, <2>1, <2>2, QuietNamed
         DEF LoadCreate, Steps, NameSteps, CriticalSteps, TailSteps, shmVars
  <1>5. ASSUME NEW p \in Procs, LoadDelete(p) PROVE Named'
    <2>1. \A q \in Procs : q # p => map'[q] = map[q]
      BY <1>5 DEF LoadDelete, Typed, TypeOK
    <2> QED
      BY <1>0, <1>5, <2>1, QuietNamed
         DEF LoadDelete, Goto, Steps, NameSteps, CriticalSteps, TailSteps, shmVars
  <1>6. ASSUME NEW p \in Procs, LinkAdd(p) PROVE Named'
    <2>1. \E l \in {"up", "write"} : pc' = [pc EXCEPT ![p] = l]
      BY <1>6 DEF LinkAdd, CreateFailed, Goto
    <2> QED
      BY <1>0, <1>6, <2>1, QuietNamed
         DEF LinkAdd, Steps, NameSteps, CriticalSteps, TailSteps, shmVars
  <1>7. ASSUME NEW p \in Procs, LinkUp(p) PROVE Named'
    <2>1. \E l \in {"qos", "write"} : pc' = [pc EXCEPT ![p] = l]
      BY <1>7 DEF LinkUp, AfterUp, CreateFailed, Goto
    <2> QED
      BY <1>0, <1>7, <2>1, QuietNamed
         DEF LinkUp, Steps, NameSteps, CriticalSteps, TailSteps, shmVars
  <1>8. ASSUME NEW p \in Procs, SetupQos(p) PROVE Named'
    <2>1. \E l \in {"children", "write"} : pc' = [pc EXCEPT ![p] = l]
      BY <1>8 DEF SetupQos, CreateFailed, Goto
    <2> QED
      BY <1>0, <1>8, <2>1, QuietNamed
         DEF SetupQos, Steps, NameSteps, CriticalSteps, TailSteps, shmVars
  <1>9. ASSUME NEW p \in Procs, SetupChildren(p) PROVE Named'
    <2>1. pc' = [pc EXCEPT ![p] = "write"]
      BY <1>9 DEF SetupChildren, CreateFailed, Goto
    <2>2. /\ "write" \in Steps /\ "write" \notin {"load", "store"} /\ "write" \notin TailSteps
          /\ pc[p] \in NameSteps
      BY <1>9 DEF SetupChildren, Steps, NameSteps, CriticalSteps, TailSteps
    <2> QED
      BY <1>0, <1>9, <2>1, <2>2, QuietNamed DEF SetupChildren, shmVars
  <1>10. ASSUME NEW p \in Procs, StoreCreate(p) \/ StoreDelete(p) PROVE Named'
    <2>1. /\ \E l \in {"unlink", "unlock"} : pc' = [pc EXCEPT ![p] = l]
          /\ pc[p] = "store" /\ UNCHANGED <<named, vlan, fd>>
      BY <1>10 DEF StoreCreate, StoreDelete, Goto
    <2>2. \A q \in Procs : q # p => map'[q] = map[q]
      BY <1>10 DEF StoreCreate, StoreDelete, Typed, TypeOK
    <2> QED
      BY <1>0, <2>1, <2>2, QuietNamed DEF Steps, NameSteps, CriticalSteps, TailSteps
  <1>11. ASSUME NEW p \in Procs, Unlink(p) PROVE Named'
    <2>1. CASE named[vlan[p]] = NoInode
      <3>1. \A q \in Procs : q # p => fd'[q] = fd[q] /\ map'[q] = map[q]
        BY <1>11, <2>1, ReturnFacts DEF Unlink
      <3> QED
        BY <1>0, <1>11, <2>1, <3>1, QuietNamed
           DEF Unlink, Goto, Steps, NameSteps, CriticalSteps, TailSteps
    <2>2. CASE named[vlan[p]] # NoInode
      <3> SUFFICES ASSUME "race" \notin breach' PROVE NameStable'
        BY DEF Named
      <3>1. NameStable
        BY <1>0 DEF Named
      <3>2. \A q \in Procs \ {p} : fd[q] # named[vlan[p]] /\ map[q] # named[vlan[p]]
        BY <1>11, <2>2 DEF Unlink
      <3>3. /\ named' = [named EXCEPT ![vlan[p]] = NoInode]
            /\ pc[p] = "unlink" /\ pc' = [pc EXCEPT ![p] = "dellink"]
            /\ UNCHANGED <<fd, map, vlan>>
        BY <1>11, <2>2 DEF Unlink, Goto
      <3>4. /\ named'[vlan[p]] = NoInode
            /\ \A w \in Vlans : w # vlan[p] => named'[w] = named[w]
            /\ \A q \in Procs : vlan[q] \in Vlans
            /\ pc'[p] = "dellink"
            /\ \A q \in Procs : q # p => pc'[q] = pc[q]
        BY <3>3 DEF Typed, TypeOK
      <3>5. \A v, w \in Vlans : named'[v] = named'[w] /\ named'[v] # NoInode => v = w
        BY <3>1, <3>4 DEF NameStable
      <3>6. ASSUME NEW q \in Procs
            PROVE  /\ pc'[q] \in NameSteps => fd[q] = named'[vlan[q]]
                   /\ pc'[q] \in {"load", "store"} => map[q] = named'[vlan[q]]
                   /\ pc'[q] \in TailSteps => named'[vlan[q]] = NoInode
                   /\ q # p /\ pc'[q] \in TailSteps => vlan[q] # vlan[p]
        <4>1. CASE q = p
          BY <3>4, <4>1 DEF NameSteps, TailSteps
        <4>2. CASE q # p
          <5>1. /\ pc[q] \in NameSteps => fd[q] = named[vlan[q]] /\ vlan[q] # vlan[p]
                /\ pc[q] \in {"load", "store"} => map[q] = named[vlan[q]] /\ vlan[q] # vlan[p]
                /\ pc[q] \in TailSteps => named[vlan[q]] = NoInode /\ vlan[q] # vlan[p]
            BY <2>2, <3>1, <3>2, <4>2 DEF NameStable, NameSteps
          <5> QED
            BY <3>4, <4>2, <5>1
        <4> QED
          BY <4>1, <4>2
      <3>7. \A q, r \in Procs : pc'[q] \in TailSteps /\ pc'[r] \in TailSteps /\ vlan[q] = vlan[r]
                                => q = r
        BY <3>1, <3>4, <3>6 DEF NameStable
      <3> QED
        BY <3>3, <3>5, <3>6, <3>7 DEF NameStable, NameSteps
    <2> QED
      BY <2>1, <2>2
  <1>12. ASSUME NEW p \in Procs, LinkDel(p) PROVE Named'
    <2>1. \E l \in {"delqdisc", "unlock"} : pc' = [pc EXCEPT ![p] = l]
      BY <1>12 DEF LinkDel, Goto
    <2> QED
      BY <1>0, <1>12, <2>1, QuietNamed
         DEF LinkDel, Steps, NameSteps, CriticalSteps, TailSteps, shmVars
  <1>13. ASSUME NEW p \in Procs, QdiscDel(p) PROVE Named'
    <2>1. pc' = [pc EXCEPT ![p] = "unlock"]
      BY <1>13 DEF QdiscDel, Goto
    <2>2. /\ "unlock" \in Steps /\ "unlock" \notin {"load", "store"}
          /\ "unlock" \notin TailSteps /\ "unlock" \notin NameSteps
      BY DEF Steps, NameSteps, CriticalSteps, TailSteps
    <2> QED
      BY <1>0, <1>13, <2>1, <2>2, QuietNamed DEF QdiscDel, shmVars
  <1>14. ASSUME NEW p \in Procs, Unlock(p) PROVE Named'
    <2>1. \E l \in {"bind", "idle"} : pc' = [pc EXCEPT ![p] = l]
      BY <1>14 DEF Unlock, Goto
    <2>2. \A q \in Procs : q # p => fd'[q] = fd[q] /\ map'[q] = map[q]
      BY <1>14, ReturnFacts DEF Unlock
    <2> QED
      BY <1>0, <1>14, <2>1, <2>2, QuietNamed
         DEF Unlock, Steps, NameSteps, CriticalSteps, TailSteps
  <1>15. ASSUME NEW p \in Procs, Bind(p) PROVE Named'
    <2>1. pc' = [pc EXCEPT ![p] = "idle"]
      BY <1>15 DEF Bind, Goto
    <2>2. /\ "idle" \in Steps /\ "idle" \notin {"load", "store"}
          /\ "idle" \notin TailSteps /\ "idle" \notin NameSteps
      BY DEF Steps, NameSteps, CriticalSteps, TailSteps
    <2> QED
      BY <1>0, <1>15, <2>1, <2>2, QuietNamed DEF Bind, shmVars, localVars
  <1>16. ASSUME NEW p \in Procs, PanicUnmapped(p) \/ PanicNoLink(p) \/ Crash(p)
         PROVE  Named'
    <2>1. Die(p)
      BY <1>16 DEF PanicUnmapped, PanicNoLink, Crash
    <2>2. \A q \in Procs : q # p => fd'[q] = fd[q] /\ map'[q] = map[q]
      BY <2>1, ReturnFacts DEF Die
    <2> QED
      BY <1>0, <2>1, <2>2, QuietNamed
         DEF Die, Goto, Steps, NameSteps, CriticalSteps, TailSteps
  <1>17. ASSUME NEW p \in Procs, ShmFails(p) PROVE Named'
    <2>1. \A q \in Procs : q # p => fd'[q] = fd[q] /\ map'[q] = map[q]
      BY <1>17, ReturnFacts DEF ShmFails
    <2>2. pc' = [pc EXCEPT ![p] = "idle"] /\ UNCHANGED <<named, vlan>>
      BY <1>17 DEF ShmFails, Goto, shmVars
    <2>3. "idle" \in Steps /\ "idle" \notin NameSteps /\ "idle" \notin TailSteps
      BY DEF Steps, NameSteps, CriticalSteps, TailSteps
    <2> QED
      BY <1>0, <2>1, <2>2, <2>3, QuietNamed
  <1>18. CASE UNCHANGED vars
    BY <1>18 DEF vars, Named, NameStable, shmVars, localVars
  <1> QED
    BY <1>1, <1>2, <1>3, <1>4, <1>5, <1>6, <1>7, <1>8, <1>9, <1>10, <1>11, <1>12,
       <1>13, <1>14, <1>15, <1>16, <1>17, <1>18 DEF Next, Step

\* As long as no segment's name was raced, at most one process works on a VLAN
\* between lock_shmem and unlock_shmem, although the lock belongs to an inode and
\* the segment is opened by name.
THEOREM LockProtects == Spec => []RegistryExclusion
  <1> DEFINE I == Typed /\ Holding /\ OpSteps /\ Named
  <1>1. Init => I
    BY InitTyped, InitHolding, InitNamed
  <1>2. I /\ [Next]_vars => I'
    BY NextTyped, NextHolding, NextNamed
  <1>3. I => RegistryExclusion
    BY Exclusion DEF Named, RegistryExclusion
  <1> QED
    BY <1>1, <1>2, <1>3, PTL DEF Spec

----------------------------------------------------------------------------
(* The count: the named segment holds every user.                            *)

VecSteps == {"add", "up", "qos", "children", "write", "store"}
GoneSteps == {"unlink"} \cup TailSteps

\* The vector process p holds, and what it says of the other processes.
VectorOK(p) ==
  /\ op[p] = "create" /\ pc[p] \in VecSteps => vec[p] = data[named[vlan[p]]]
  /\ op[p] = "delete" /\ pc[p] \in {"write", "store"}
       => /\ \A q \in Procs \ {p} : vec[p][q] >= Need(q, vlan[p])
          /\ vec[p][p] >= socks[p][vlan[p]]
  /\ pc[p] \in GoneSteps => \A q \in Procs : Need(q, vlan[p]) = 0

\* The segment of v holds process q as often as it has to.
SegmentOK(q, v) ==
  Need(q, v) > 0 => named[v] # NoInode /\ data[named[v]][q] >= Need(q, v)

DeadOK(q) == pc[q] = "dead" => \A v \in Vlans : socks[q][v] = 0

\* The count of users, process by process, in this state and in the next one.
LEMMA CountedParts ==
  /\ Counted <=> /\ \A q \in Procs : DeadOK(q)
                 /\ \A q \in Procs, v \in Vlans : SegmentOK(q, v)
                 /\ \A p \in Procs : VectorOK(p)
  /\ Counted' <=> /\ \A q \in Procs : DeadOK(q)'
                  /\ \A q \in Procs, v \in Vlans : SegmentOK(q, v)'
                  /\ \A p \in Procs : VectorOK(p)'
  BY DEF Counted, DeadOK, SegmentOK, VectorOK, VecSteps, GoneSteps

\* The entries a process needs are a number, at least that of its sockets.
LEMMA NeedType ==
  ASSUME Typed, NEW q \in Procs, NEW v \in Vlans
  PROVE  Need(q, v) \in Nat /\ Need(q, v) >= socks[q][v] /\ socks[q][v] \in Nat
  BY DEF Need, Typed, TypeOK

\* The same in the next state.
LEMMA NeedTypePrimed ==
  ASSUME Typed', NEW q \in Procs, NEW v \in Vlans
  PROVE  Need(q, v)' \in Nat /\ Need(q, v)' >= socks'[q][v] /\ socks'[q][v] \in Nat
  BY DEF Need, Typed, TypeOK

\* The other processes stay as they are.
OthersSame(p) ==
  \A q \in Procs : q # p => /\ pc'[q] = pc[q] /\ op'[q] = op[q] /\ vlan'[q] = vlan[q]
                            /\ socks'[q] = socks[q] /\ vec'[q] = vec[q]

\* A step of one process does not change the entries that another one needs.
LEMMA OthersNeed ==
  ASSUME NEW p \in Procs, OthersSame(p), NEW q \in Procs, q # p, NEW v
  PROVE  Need(q, v)' = Need(q, v)
  BY DEF OthersSame, Need, Pending

\* A step of p that leaves the named segments alone and claims no new registration
\* keeps the count, when p's own vector is right afterwards.
LEMMA QuietCounted ==
  ASSUME Typed, Typed', NameStable, Counted, NEW p \in Procs, OthersSame(p),
         \A v \in Vlans : named[v] # NoInode => /\ named'[v] = named[v]
                                                /\ data'[named[v]] = data[named[v]],
         \A v \in Vlans : Need(p, v)' <= Need(p, v),
         VectorOK(p)', DeadOK(p)'
  PROVE  Counted'
  <1>1. ASSUME NEW q \in Procs, NEW v \in Vlans PROVE Need(q, v)' <= Need(q, v)
    BY OthersNeed, NeedType
  <1>2. ASSUME NEW q \in Procs, NEW v \in Vlans PROVE SegmentOK(q, v)'
    <2>1. SegmentOK(q, v)
      BY CountedParts
    <2>2. Need(q, v) \in Nat /\ Need(q, v)' \in Nat /\ Need(q, v)' <= Need(q, v)
      BY <1>1, NeedType, NeedTypePrimed
    <2>3. named[v] # NoInode => data[named[v]][q] \in Nat
      BY DEF Typed, TypeOK, Segments
    <2> QED
      BY <2>1, <2>2, <2>3 DEF SegmentOK
  <1>3. ASSUME NEW q \in Procs PROVE DeadOK(q)'
    BY CountedParts DEF OthersSame, DeadOK
  <1>4. ASSUME NEW r \in Procs, r # p PROVE VectorOK(r)'
    <2>1. VectorOK(r) /\ vlan[r] \in Vlans
      BY CountedParts DEF Typed, TypeOK
    <2>2. /\ pc'[r] = pc[r] /\ op'[r] = op[r] /\ vlan'[r] = vlan[r]
          /\ socks'[r] = socks[r] /\ vec'[r] = vec[r]
      BY <1>4 DEF OthersSame
    <2>3. pc[r] \in VecSteps => /\ named'[vlan[r]] = named[vlan[r]]
                                /\ data'[named[vlan[r]]] = data[named[vlan[r]]]
      BY <2>1 DEF NameStable, VecSteps, CriticalSteps, TailSteps, Typed, Descriptors
    <2>w. PICK w \in Vlans : w = vlan[r] /\ w = vlan'[r]
      BY <2>1, <2>2
    <2>4. ASSUME NEW q \in Procs
          PROVE  /\ Need(q, w)' <= Need(q, w)
                 /\ Need(q, w)' \in Nat /\ Need(q, w) \in Nat
                 /\ vec[r][q] \in Nat
      <3>1. vec[r][q] \in Nat
        BY DEF Typed, TypeOK, Segments
      <3> QED
        BY <1>1, <3>1, NeedType, NeedTypePrimed
    <2>5. /\ op'[r] = "create" /\ pc'[r] \in VecSteps => vec'[r] = data'[named'[vlan'[r]]]
          /\ op'[r] = "delete" /\ pc'[r] \in {"write", "store"}
               => vec'[r][r] >= socks'[r][vlan'[r]]
      BY <2>1, <2>2, <2>3 DEF VectorOK
    <2>6. ASSUME NEW q \in Procs, q # r, op'[r] = "delete", pc'[r] \in {"write", "store"}
          PROVE  vec'[r][q] >= Need(q, w)'
      <3>1. vec[r][q] >= Need(q, w)
        BY <2>1, <2>2, <2>6, <2>w DEF VectorOK
      <3> QED
        BY <2>2, <2>4, <3>1
    <2>7. ASSUME NEW q \in Procs, pc'[r] \in GoneSteps PROVE Need(q, w)' = 0
      <3>1. Need(q, w) = 0
        BY <2>1, <2>2, <2>7, <2>w DEF VectorOK
      <3> QED
        BY <2>4, <3>1
    <2>8. \A q \in Procs : Need(q, vlan[r])' = Need(q, w)'
      BY <2>w DEF Need, Pending
    <2> QED
      BY <2>5, <2>6, <2>7, <2>8 DEF VectorOK
  <1> QED
    BY <1>2, <1>3, <1>4, CountedParts

CreatePending == {"unlock", "bind"}
DeletePending == {"lock", "read", "load", "write", "store"}

\* The steps inside an operation that write no segment.
LEMMA QuietStep ==
  ASSUME Typed, Typed', NameStable, Counted, NEW p \in Procs, NEW l \in Steps \ {"dead"},
         pc' = [pc EXCEPT ![p] = l], UNCHANGED <<named, data, vlan, op, socks>>,
         \A q \in Procs : q # p => vec'[q] = vec[q],
         op[p] = "create" /\ l \in VecSteps => vec'[p] = data[named[vlan[p]]],
         op[p] = "delete" /\ l \in {"write", "store"} => pc[p] = "write" /\ vec'[p] = vec[p],
         l \in GoneSteps => pc[p] \in GoneSteps,
         op[p] = "create" /\ l \in CreatePending => pc[p] \in CreatePending,
         op[p] = "delete" /\ l \in DeletePending => pc[p] \in DeletePending
  PROVE  Counted'
  <1>1. pc'[p] = l /\ \A q \in Procs : q # p => pc'[q] = pc[q]
    BY DEF Typed, TypeOK
  <1>2. OthersSame(p)
    BY <1>1 DEF OthersSame
  <1>3. \A v \in Vlans : Pending(p, v)' => Pending(p, v)
    BY <1>1 DEF Pending, CreatePending, DeletePending
  <1>4. \A v \in Vlans : Need(p, v)' <= Need(p, v)
    BY <1>3 DEF Need, Typed, TypeOK
  <1>5. DeadOK(p)'
    BY <1>1 DEF DeadOK
  <1>6. VectorOK(p)'
    <2>1. VectorOK(p)
      BY CountedParts
    <2>2. PICK w \in Vlans : w = vlan[p] /\ w = vlan'[p]
      BY DEF Typed, TypeOK
    <2>3. \A q \in Procs \ {p} : Need(q, w)' = Need(q, w)
      BY <1>2, OthersNeed
    <2>4. op'[p] = "create" /\ pc'[p] \in VecSteps => vec'[p] = data'[named'[vlan'[p]]]
      BY <1>1
    <2>5. ASSUME op'[p] = "delete", pc'[p] \in {"write", "store"}
          PROVE  /\ \A q \in Procs \ {p} : vec'[p][q] >= Need(q, w)'
                 /\ vec'[p][p] >= socks'[p][w]
      BY <1>1, <2>1, <2>2, <2>3, <2>5 DEF VectorOK
    <2>6. ASSUME pc'[p] \in GoneSteps, NEW q \in Procs PROVE Need(q, w)' = 0
      <3>1. Need(q, w) = 0
        BY <1>1, <2>1, <2>2, <2>6 DEF VectorOK
      <3>2. Need(q, w)' <= Need(q, w) /\ Need(q, w)' \in Nat
        BY <1>4, <2>3, <3>1, NeedTypePrimed
      <3> QED
        BY <3>1, <3>2
    <2>7. \A q \in Procs : Need(q, vlan[p])' = Need(q, w)'
      BY <2>2 DEF Need, Pending
    <2> QED
      BY <2>2, <2>4, <2>5, <2>6, <2>7 DEF VectorOK
  <1> QED
    BY <1>2, <1>4, <1>5, <1>6, QuietCounted

\* The step after open_shmem: the name is there, so it only maps the segment.
LEMMA OpenShmemCounted ==
  ASSUME Typed, Typed', NameStable, Counted, NEW p \in Procs, OpenShmem(p)
  PROVE  Counted'
  <1>1. vlan[p] \in Vlans /\ named[vlan[p]] # NoInode
    BY DEF OpenShmem, NameStable, CriticalSteps, TailSteps, Typed, TypeOK, Descriptors
  <1>2. UNCHANGED <<named, data>>
    BY <1>1 DEF OpenShmem, ShmOpen
  <1>3. PICK l \in {"load", "store"} : /\ pc' = [pc EXCEPT ![p] = l]
                                       /\ l = "load" => pc[p] = "read"
                                       /\ l = "store" => pc[p] = "write"
    BY DEF OpenShmem, Goto
  <1>4. op[p] = "create" /\ l \in VecSteps => vec[p] = data[named[vlan[p]]]
    BY <1>3, CountedParts DEF VectorOK, VecSteps
  <1>5. UNCHANGED <<vlan, op, socks, vec>> /\ l \in Steps \ {"dead"}
    BY DEF OpenShmem, useVars, Steps, CriticalSteps
  <1>6. l \notin GoneSteps /\ l \notin CreatePending /\ pc[p] \in DeletePending
    BY <1>3 DEF GoneSteps, TailSteps, CreatePending, DeletePending
  <1> QED
    BY <1>2, <1>3, <1>4, <1>5, <1>6, QuietStep

\* delete_vlan drops its own entry and the dead, and nobody else unless it is denied to
\* signal it.
LEMMA LoadDeleteCounted ==
  ASSUME Typed, Typed', NameStable, Counted, NEW p \in Procs, LoadDelete(p),
         "perm" \notin breach'
  PROVE  Counted'
  <1>1. PICK w \in Vlans : w = vlan[p] /\ w = vlan'[p]
    BY DEF LoadDelete, Typed, TypeOK
  <1>2. map[p] = named[w] /\ named[w] \in Inodes /\ data[named[w]] \in Segments
    BY <1>1 DEF LoadDelete, NameStable, Typed, TypeOK, Descriptors
  <1>3. /\ pc[p] = "load" /\ op[p] = "delete" /\ pc'[p] = "write"
        /\ UNCHANGED <<named, data, vlan, op, socks>>
    BY DEF LoadDelete, Goto, Typed, TypeOK, shmVars, useVars
  <1>4. OthersSame(p)
    BY <1>3 DEF LoadDelete, Goto, OthersSame, Typed, TypeOK
  <1>5. \A v \in Vlans : Need(p, v)' = Need(p, v)
    BY <1>3 DEF Need, Pending
  <1>6. Need(p, w) = socks[p][w] + 1 /\ socks[p][w] \in Nat
    BY <1>1, <1>3 DEF Need, Pending, Typed, TypeOK
  <1>7. vec'[p] = RetainAlive(RemoveFirst(data[named[w]], p), {})
    BY <1>2, LoadDeleteFacts
  <1>8. ASSUME NEW q \in Procs
        PROVE  /\ SegmentOK(q, w) /\ data[named[w]][q] \in Nat /\ Need(q, w) \in Nat
               /\ DeadOK(q)
    BY <1>2, CountedParts, NeedType DEF Segments
  <1>9. vec'[p][p] >= socks[p][w]
    <2>1. data[named[w]][p] >= socks[p][w] + 1
      BY <1>6, <1>8 DEF SegmentOK
    <2>2. vec'[p][p] = data[named[w]][p] - 1
      BY <1>2, <1>3, <1>6, <1>7, <1>8, <2>1 DEF RetainAlive, RemoveFirst, Alive, Segments
    <2> QED
      BY <1>6, <1>8, <2>1, <2>2
  <1>10. ASSUME NEW q \in Procs, q # p PROVE vec'[p][q] >= Need(q, w)
    <2>1. CASE pc[q] = "dead"
      <3>1. Need(q, w) = 0
        BY <1>8, <2>1 DEF DeadOK, Need, Pending
      <3>2. vec'[p][q] = 0
        BY <1>7, <2>1 DEF RetainAlive, Alive
      <3> QED
        BY <3>1, <3>2
    <2>2. CASE pc[q] # "dead"
      <3>1. vec'[p][q] = data[named[w]][q]
        BY <1>2, <1>7, <1>10, <2>2 DEF RetainAlive, RemoveFirst, Alive, Segments
      <3> QED
        BY <1>8, <3>1 DEF SegmentOK
    <2> QED
      BY <2>1, <2>2
  <1>11. VectorOK(p)'
    <2>1. \A q \in Procs : Need(q, vlan[p])' = Need(q, w)'
      BY <1>1 DEF Need, Pending
    <2>2. \A q \in Procs \ {p} : vec'[p][q] >= Need(q, w)'
      BY <1>4, <1>10, OthersNeed
    <2>3. pc'[p] \notin GoneSteps /\ op'[p] # "create"
      BY <1>3 DEF GoneSteps, TailSteps
    <2> QED
      BY <1>1, <1>3, <1>9, <2>1, <2>2, <2>3 DEF VectorOK
  <1>12. DeadOK(p)'
    BY <1>3 DEF DeadOK
  <1>13. \A v \in Vlans : Need(p, v)' <= Need(p, v)
    BY <1>5, NeedType
  <1> QED
    BY <1>3, <1>4, <1>11, <1>12, <1>13, QuietCounted

\* get_shmem_fd: a socket being closed is still counted, one being opened not yet.
LEMMA GetFdCounted ==
  ASSUME Typed, Typed', NameStable, Counted, NEW p \in Procs, NEW v \in Vlans,
         SockOpen(p, v) \/ SockClose(p, v)
  PROVE  Counted'
  <1>1. /\ pc[p] = "idle" /\ pc'[p] = "lock" /\ vlan'[p] = v
        /\ \A q \in Procs : q # p => pc'[q] = pc[q] /\ vlan'[q] = vlan[q]
        /\ vec' = vec
    BY DEF SockOpen, SockClose, GetFd, Goto, Typed, TypeOK
  <1>2. /\ \A q \in Procs : q # p => op'[q] = op[q] /\ socks'[q] = socks[q]
        /\ op'[p] = "create" => socks' = socks
        /\ op'[p] = "delete" => /\ socks[p][v] > 0 /\ socks'[p][v] = socks[p][v] - 1
                                /\ \A w \in Vlans : w # v => socks'[p][w] = socks[p][w]
    BY DEF SockOpen, SockClose, Typed, TypeOK
  <1>3. OthersSame(p)
    BY <1>1, <1>2 DEF OthersSame
  <1>4. ASSUME NEW w \in Vlans PROVE Need(p, w)' <= Need(p, w)
    <2>1. socks[p][w] \in Nat /\ socks'[p][w] \in Nat /\ op'[p] \in {"create", "delete"}
      BY DEF Typed, TypeOK
    <2>2. Need(p, w) = socks[p][w]
      BY <1>1, <2>1 DEF Need, Pending
    <2>3. CASE op'[p] = "create"
      BY <1>1, <1>2, <2>1, <2>2, <2>3 DEF Need, Pending
    <2>4. CASE op'[p] = "delete"
      BY <1>1, <1>2, <2>1, <2>2, <2>4 DEF Need, Pending
    <2> QED
      BY <2>1, <2>3, <2>4
  <1>5. VectorOK(p)' /\ DeadOK(p)'
    BY <1>1 DEF VectorOK, DeadOK, VecSteps, GoneSteps, TailSteps
  <1>6. PICK i \in Inodes : ShmOpen(v, i)
    BY DEF SockOpen, SockClose, GetFd
  <1>7. ASSUME NEW w \in Vlans, named[w] # NoInode
        PROVE  named'[w] = named[w] /\ data'[named[w]] = data[named[w]]
    <2>1. named[w] \in Inodes /\ named[w] \notin FreeInodes
      BY <1>7 DEF FreeInodes, Typed, TypeOK
    <2> QED
      BY <1>6, <1>7, <2>1, ShmOpenFacts DEF Typed
  <1> QED
    BY <1>3, <1>4, <1>5, <1>7, QuietCounted

\* create_vlan adds the own pid to an up-to-date vector.
LEMMA StoreCreateCounted ==
  ASSUME Typed, Typed', Holding, NameStable, Counted, NEW p \in Procs, StoreCreate(p),
         "full" \notin breach'
  PROVE  Counted'
  <1>1. PICK w \in Vlans : w = vlan[p] /\ w = vlan'[p]
    BY DEF StoreCreate, Typed, TypeOK
  <1>2. map[p] = named[w] /\ named[w] \in Inodes /\ data[named[w]] \in Segments
    BY <1>1 DEF StoreCreate, NameStable, Typed, TypeOK, Descriptors
  <1>3. /\ pc[p] = "store" /\ op[p] = "create" /\ pc'[p] = "unlock"
        /\ UNCHANGED <<named, vlan, op, socks>>
    BY DEF StoreCreate, Goto, Typed, TypeOK, useVars
  <1>4. OthersSame(p)
    BY <1>3 DEF StoreCreate, Goto, OthersSame, Typed, TypeOK
  <1>5. vec[p] = data[named[w]]
    BY <1>1, <1>3, CountedParts DEF VectorOK, VecSteps
  <1>6. data' = [data EXCEPT ![named[w]] = Push(data[named[w]], p)]
    BY <1>2, <1>5 DEF StoreCreate
  <1>7. /\ data'[named[w]][p] = data[named[w]][p] + 1
        /\ \A q \in Procs : q # p => data'[named[w]][q] = data[named[w]][q]
        /\ \A q \in Procs : data[named[w]][q] \in Nat
    BY <1>2, <1>6 DEF Push, Segments, Typed, TypeOK
  <1>8. \A v \in Vlans : v # w /\ named[v] # NoInode => data'[named[v]] = data[named[v]]
    BY <1>2, <1>6 DEF NameStable, Typed, TypeOK
  <1>9. /\ Need(p, w)' = socks[p][w] + 1 /\ Need(p, w) = socks[p][w] /\ socks[p][w] \in Nat
        /\ \A v \in Vlans : v # w => Need(p, v)' = Need(p, v)
    BY <1>1, <1>3 DEF Need, Pending, Typed, TypeOK
  <1>10. ASSUME NEW q \in Procs, NEW v \in Vlans PROVE SegmentOK(q, v)'
    <2>1. SegmentOK(q, v) /\ Need(q, v) \in Nat
      BY CountedParts, NeedType
    <2>2. CASE v = w /\ q = p
      BY <1>2, <1>3, <1>7, <1>9, <2>1, <2>2, RegistryAssumption DEF SegmentOK
    <2>3. CASE v = w /\ q # p
      <3>1. Need(q, v)' = Need(q, v)
        BY <1>4, <2>3, OthersNeed
      <3> QED
        BY <1>2, <1>3, <1>7, <2>1, <2>3, <3>1 DEF SegmentOK
    <2>4. CASE v # w
      <3>1. Need(q, v)' = Need(q, v)
        BY <1>4, <1>9, <2>4, OthersNeed
      <3> QED
        BY <1>3, <1>8, <2>1, <2>4, <3>1 DEF SegmentOK
    <2> QED
      BY <2>2, <2>3, <2>4
  <1>11. ASSUME NEW q \in Procs PROVE DeadOK(q)'
    BY <1>3, <1>4, CountedParts DEF OthersSame, DeadOK
  <1>12. ASSUME NEW r \in Procs PROVE VectorOK(r)'
    <2>1. CASE r = p
      BY <1>3, <2>1 DEF VectorOK, VecSteps, GoneSteps, TailSteps
    <2>2. CASE r # p
      <3>1. /\ VectorOK(r) /\ pc'[r] = pc[r] /\ op'[r] = op[r] /\ vec'[r] = vec[r]
        BY <1>4, <2>2, CountedParts DEF OthersSame
      <3>2. CASE pc[r] \notin VecSteps \cup GoneSteps
        BY <3>1, <3>2 DEF VectorOK, VecSteps
      <3>3. CASE pc[r] \in VecSteps \cup GoneSteps
        <4>1. PICK x \in Vlans : x = vlan[r] /\ x = vlan'[r]
          BY <1>3 DEF Typed, TypeOK
        <4>2. x # w
          BY <1>1, <1>3, <2>2, <3>3, <4>1, Exclusion
             DEF VecSteps, GoneSteps, TailSteps, CriticalSteps
        <4>3. \A q \in Procs : Need(q, x)' = Need(q, x)
          BY <1>4, <1>9, <4>2, OthersNeed
        <4>4. \A q \in Procs : Need(q, vlan[r])' = Need(q, x)'
          BY <4>1 DEF Need, Pending
        <4>5. pc[r] \in VecSteps => data'[named[x]] = data[named[x]]
          <5>1. pc[r] \in VecSteps => pc[r] \in CriticalSteps /\ pc[r] \notin TailSteps
            BY DEF VecSteps, CriticalSteps, TailSteps
          <5>2. pc[r] \in VecSteps => fd[r] = named[x] /\ fd[r] # NoInode
            <6>1. /\ pc[r] \in CriticalSteps \ TailSteps => fd[r] = named[vlan[r]]
                  /\ pc[r] \in CriticalSteps => fd[r] # NoInode
              BY DEF NameStable, Typed, Descriptors
            <6> QED
              BY ONLY <4>1, <5>1, <6>1
          <5> QED
            BY <1>8, <4>2, <5>2
        <4> QED
          BY <1>3, <3>1, <4>1, <4>3, <4>4, <4>5 DEF VectorOK
      <3> QED
        BY <3>2, <3>3
    <2> QED
      BY <2>1, <2>2
  <1> QED
    BY <1>10, <1>11, <1>12, CountedParts

\* delete_vlan writes a vector that still counts everyone else.
LEMMA StoreDeleteCounted ==
  ASSUME Typed, Typed', Holding, NameStable, Counted, NEW p \in Procs, StoreDelete(p)
  PROVE  Counted'
  <1>1. PICK w \in Vlans : w = vlan[p] /\ w = vlan'[p]
    BY DEF StoreDelete, Typed, TypeOK
  <1>2. map[p] = named[w] /\ named[w] \in Inodes
    BY <1>1 DEF StoreDelete, NameStable, Typed, TypeOK, Descriptors
  <1>3. /\ pc[p] = "store" /\ op[p] = "delete" /\ pc'[p] \in {"unlink", "unlock"}
        /\ pc'[p] = "unlink" => vec[p] = Empty
        /\ UNCHANGED <<named, vlan, op, socks>>
    BY DEF StoreDelete, Goto, Typed, TypeOK, useVars
  <1>4. OthersSame(p)
    BY <1>3 DEF StoreDelete, Goto, OthersSame, Typed, TypeOK
  <1>5. data'[named[w]] = vec[p] /\ \A q \in Procs : vec[p][q] \in Nat
    BY <1>2 DEF StoreDelete, Segments, Typed, TypeOK
  <1>6. \A v \in Vlans : v # w /\ named[v] # NoInode => data'[named[v]] = data[named[v]]
    BY <1>2 DEF StoreDelete, NameStable, Typed, TypeOK
  <1>7. /\ Need(p, w)' = socks[p][w] /\ socks[p][w] \in Nat
        /\ \A v \in Vlans : v # w => Need(p, v)' = Need(p, v)
    BY <1>1, <1>3 DEF Need, Pending, Typed, TypeOK
  <1>8. \A q \in Procs : vec[p][q] >= Need(q, w)' /\ Need(q, w)' \in Nat
    <2>1. VectorOK(p)
      BY CountedParts
    <2>2. vec[p][p] >= socks[p][w] /\ \A q \in Procs \ {p} : vec[p][q] >= Need(q, w)
      BY <1>1, <1>3, <2>1 DEF VectorOK
    <2> QED
      BY <1>4, <1>7, <2>2, OthersNeed, NeedTypePrimed
  <1>9. ASSUME NEW q \in Procs, NEW v \in Vlans PROVE SegmentOK(q, v)'
    <2>1. CASE v = w
      BY <1>2, <1>3, <1>5, <1>8, <2>1, RegistryAssumption DEF SegmentOK
    <2>2. CASE v # w
      <3>1. Need(q, v)' = Need(q, v)
        BY <1>4, <1>7, <2>2, OthersNeed
      <3>2. SegmentOK(q, v)
        BY CountedParts
      <3> QED
        BY <1>3, <1>6, <2>2, <3>1, <3>2 DEF SegmentOK
    <2> QED
      BY <2>1, <2>2
  <1>10. ASSUME NEW q \in Procs PROVE DeadOK(q)'
    BY <1>3, <1>4, CountedParts DEF OthersSame, DeadOK
  <1>11. ASSUME NEW r \in Procs PROVE VectorOK(r)'
    <2>1. CASE r = p
      <3>1. \A q \in Procs : Need(q, vlan[p])' = Need(q, w)'
        BY <1>1 DEF Need, Pending
      <3>2. pc'[p] = "unlink" => \A q \in Procs : Need(q, w)' = 0
        BY <1>3, <1>8 DEF Empty
      <3> QED
        BY <1>3, <2>1, <3>1, <3>2 DEF VectorOK, VecSteps, GoneSteps, TailSteps
    <2>2. CASE r # p
      <3>1. /\ VectorOK(r) /\ pc'[r] = pc[r] /\ op'[r] = op[r] /\ vec'[r] = vec[r]
        BY <1>4, <2>2, CountedParts DEF OthersSame
      <3>2. CASE pc[r] \notin VecSteps \cup GoneSteps
        BY <3>1, <3>2 DEF VectorOK, VecSteps
      <3>3. CASE pc[r] \in VecSteps \cup GoneSteps
        <4>1. PICK x \in Vlans : x = vlan[r] /\ x = vlan'[r]
          BY <1>3 DEF Typed, TypeOK
        <4>2. x # w
          BY <1>1, <1>3, <2>2, <3>3, <4>1, Exclusion
             DEF VecSteps, GoneSteps, TailSteps, CriticalSteps
        <4>3. \A q \in Procs : Need(q, x)' = Need(q, x)
          BY <1>4, <1>7, <4>2, OthersNeed
        <4>4. \A q \in Procs : Need(q, vlan[r])' = Need(q, x)'
          BY <4>1 DEF Need, Pending
        <4>5. pc[r] \in VecSteps => data'[named[x]] = data[named[x]]
          <5>1. pc[r] \in VecSteps => pc[r] \in CriticalSteps /\ pc[r] \notin TailSteps
            BY DEF VecSteps, CriticalSteps, TailSteps
          <5>2. pc[r] \in VecSteps => fd[r] = named[x] /\ fd[r] # NoInode
            <6>1. /\ pc[r] \in CriticalSteps \ TailSteps => fd[r] = named[vlan[r]]
                  /\ pc[r] \in CriticalSteps => fd[r] # NoInode
              BY DEF NameStable, Typed, Descriptors
            <6> QED
              BY ONLY <4>1, <5>1, <6>1
          <5> QED
            BY <1>6, <4>2, <5>2
        <4> QED
          BY <1>3, <3>1, <4>1, <4>3, <4>4, <4>5 DEF VectorOK
      <3> QED
        BY <3>2, <3>3
    <2> QED
      BY <2>1, <2>2
  <1> QED
    BY <1>9, <1>10, <1>11, CountedParts

\* The name goes when nobody needs it.
LEMMA UnlinkCounted ==
  ASSUME Typed, Typed', Holding, NameStable, Counted, NEW p \in Procs, Unlink(p),
         named[vlan[p]] # NoInode
  PROVE  Counted'
  <1>1. PICK w \in Vlans : w = vlan[p] /\ w = vlan'[p]
    BY DEF Unlink, Typed, TypeOK
  <1>2. /\ pc[p] = "unlink" /\ pc'[p] = "dellink"
        /\ UNCHANGED <<data, vlan, op, socks, vec>>
        /\ \A v \in Vlans : v # w => named'[v] = named[v]
    BY <1>1 DEF Unlink, Goto, Typed, TypeOK, useVars
  <1>3. OthersSame(p)
    BY <1>2 DEF Unlink, Goto, OthersSame, Typed, TypeOK
  <1>4. ASSUME NEW q \in Procs, NEW v \in Vlans PROVE Need(q, v)' = Need(q, v)
    <2>1. CASE q = p
      BY <1>2, <2>1 DEF Need, Pending
    <2> QED
      BY <1>3, <2>1, OthersNeed
  <1>5. \A q \in Procs : Need(q, w) = 0
    BY <1>1, <1>2, CountedParts DEF VectorOK, GoneSteps
  <1>6. ASSUME NEW q \in Procs, NEW v \in Vlans PROVE SegmentOK(q, v)'
    <2>1. CASE v = w
      BY <1>4, <1>5, <2>1 DEF SegmentOK
    <2>2. CASE v # w
      BY <1>2, <1>4, <2>2, CountedParts DEF SegmentOK
    <2> QED
      BY <2>1, <2>2
  <1>7. ASSUME NEW q \in Procs PROVE DeadOK(q)'
    BY <1>2, <1>3, CountedParts DEF OthersSame, DeadOK
  <1>8. ASSUME NEW r \in Procs PROVE VectorOK(r)'
    <2>1. PICK x \in Vlans : x = vlan[r] /\ x = vlan'[r]
      BY <1>2 DEF Typed, TypeOK
    <2>2. \A q \in Procs : Need(q, vlan[r])' = Need(q, x)'
      BY <2>1 DEF Need, Pending
    <2>3. CASE r = p
      <3>1. x = w /\ pc'[r] = "dellink"
        BY <1>1, <1>2, <2>1, <2>3
      <3>2. \A q \in Procs : Need(q, vlan[r])' = 0
        BY <1>4, <1>5, <2>2, <3>1
      <3> QED
        BY <3>1, <3>2 DEF VectorOK, VecSteps
    <2>4. CASE r # p
      <3>1. VectorOK(r) /\ pc'[r] = pc[r]
        BY <1>3, <2>4, CountedParts DEF OthersSame
      <3>2. pc[r] \in VecSteps => x # w
        BY <1>1, <1>2, <2>1, <2>4, Exclusion DEF VecSteps, CriticalSteps
      <3>3. \A q \in Procs : Need(q, vlan[r])' = Need(q, x)
        BY <1>4, <2>2
      <3> QED
        BY <1>2, <2>1, <3>1, <3>2, <3>3 DEF VectorOK, VecSteps
    <2> QED
      BY <2>3, <2>4
  <1> QED
    BY <1>6, <1>7, <1>8, CountedParts

\* A registration becomes a socket, or stays behind when a socket call fails.
LEMMA BindCounted ==
  ASSUME Typed, Typed', NameStable, OpSteps, Counted, NEW p \in Procs, Bind(p)
  PROVE  Counted'
  <1>1. /\ pc[p] = "bind" /\ pc'[p] = "idle" /\ op[p] = "create"
        /\ UNCHANGED <<named, data, vlan, op, vec>>
    BY DEF Bind, Goto, Typed, TypeOK, OpSteps, shmVars, localVars
  <1>2. /\ \A q \in Procs : q # p => socks'[q] = socks[q]
        /\ \A v \in Vlans : v # vlan[p] => socks'[p][v] = socks[p][v]
        /\ socks'[p][vlan[p]] \in {socks[p][vlan[p]], socks[p][vlan[p]] + 1}
    <2>1. CASE UNCHANGED socks
      BY <2>1
    <2>2. CASE socks' = [socks EXCEPT ![p][vlan[p]] = @ + 1]
      BY <2>2 DEF Typed, TypeOK
    <2> QED
      BY <2>1, <2>2 DEF Bind
  <1>3. OthersSame(p)
    BY <1>1, <1>2 DEF Bind, Goto, OthersSame, Typed, TypeOK
  <1>4. ASSUME NEW v \in Vlans PROVE Need(p, v)' <= Need(p, v)
    <2>1. socks[p][v] \in Nat /\ socks'[p][v] \in Nat
      BY DEF Typed, TypeOK
    <2>2. Need(p, v)' = socks'[p][v]
      BY <1>1, <2>1 DEF Need, Pending
    <2>3. Need(p, v) = socks[p][v] + IF v = vlan[p] THEN 1 ELSE 0
      BY <1>1 DEF Need, Pending
    <2> QED
      BY <1>2, <2>1, <2>2, <2>3
  <1>5. VectorOK(p)' /\ DeadOK(p)'
    BY <1>1 DEF VectorOK, DeadOK, VecSteps, GoneSteps, TailSteps
  <1> QED
    BY <1>1, <1>3, <1>4, <1>5, QuietCounted

\* A process that ends needs no entries any more.
LEMMA DieCounted ==
  ASSUME Typed, Typed', NameStable, Counted, NEW p \in Procs, Die(p)
  PROVE  Counted'
  <1>1. /\ pc'[p] = "dead" /\ UNCHANGED <<named, data, vlan, op>>
        /\ \A v \in Vlans : socks'[p][v] = 0
    BY DEF Die, Goto, Typed, TypeOK
  <1>2. OthersSame(p)
    BY <1>1 DEF Die, Goto, Return, OthersSame, Typed, TypeOK
  <1>3. \A v \in Vlans : Need(p, v)' <= Need(p, v)
    <2>1. \A v \in Vlans : Need(p, v)' = 0
      BY <1>1 DEF Need, Pending
    <2> QED
      BY <2>1, NeedType
  <1>4. VectorOK(p)' /\ DeadOK(p)'
    BY <1>1 DEF VectorOK, DeadOK, VecSteps, GoneSteps, TailSteps
  <1> QED
    BY <1>1, <1>2, <1>3, <1>4, QuietCounted

\* Without a race, a full segment or a denied signal, every step keeps all users counted.
LEMMA NextCounted ==
  ASSUME Typed, Typed', Holding, OpSteps, NameStable, Counted,
         "full" \notin breach', "perm" \notin breach', [Next]_vars
  PROVE  Counted'
  <1> USE DEF Steps, CriticalSteps, GoneSteps, TailSteps, VecSteps, CreatePending, DeletePending
  <1>0. \A p \in Procs : op[p] \in {"create", "delete"} /\ vlan[p] \in Vlans
    BY DEF Typed, TypeOK
  <1>1. ASSUME NEW p \in Procs, NEW v \in Vlans, SockOpen(p, v) \/ SockClose(p, v)
        PROVE  Counted'
    BY <1>1, GetFdCounted
  <1>2. ASSUME NEW p \in Procs, Lock(p) PROVE Counted'
    BY <1>2, QuietStep DEF Lock, Goto, useVars, localVars
  <1>3. ASSUME NEW p \in Procs, OpenShmem(p) PROVE Counted'
    BY <1>3, OpenShmemCounted
  <1>4. ASSUME NEW p \in Procs, LoadCreate(p) PROVE Counted'
    <2>1. PICK l \in {"add", "write"} : pc' = [pc EXCEPT ![p] = l]
      BY <1>4 DEF LoadCreate, Goto
    <2>2. map[p] = named[vlan[p]]
      BY <1>4 DEF LoadCreate, NameStable
    <2>3. vec'[p] = data[named[vlan[p]]] /\ \A q \in Procs : q # p => vec'[q] = vec[q]
      BY <1>4, <2>2 DEF LoadCreate, Typed, TypeOK
    <2>4. op[p] = "create" /\ UNCHANGED <<named, data, vlan, op, socks>>
      BY <1>4 DEF LoadCreate, shmVars, useVars
    <2> QED
      BY <2>1, <2>3, <2>4, QuietStep
  <1>5. ASSUME NEW p \in Procs, LoadDelete(p) PROVE Counted'
    BY <1>5, LoadDeleteCounted
  <1>6. ASSUME NEW p \in Procs,
               LinkAdd(p) \/ LinkUp(p) \/ SetupQos(p) \/ SetupChildren(p)
        PROVE  Counted'
    <2>1. /\ pc[p] \in {"add", "up", "qos", "children"}
          /\ \E l \in {"up", "qos", "children", "write"} : pc' = [pc EXCEPT ![p] = l]
      BY <1>6 DEF LinkAdd, LinkUp, SetupQos, SetupChildren, AfterUp, CreateFailed, Goto
    <2>2. op[p] = "create"
      BY <2>1 DEF OpSteps
    <2>3. vec[p] = data[named[vlan[p]]]
      BY <2>1, <2>2, CountedParts DEF VectorOK
    <2>4. UNCHANGED <<named, data, vlan, op, socks, vec>>
      BY <1>6 DEF LinkAdd, LinkUp, SetupQos, SetupChildren, shmVars, useVars
    <2> QED
      BY <2>1, <2>2, <2>3, <2>4, QuietStep
  <1>7. ASSUME NEW p \in Procs, StoreCreate(p) PROVE Counted'
    BY <1>7, StoreCreateCounted
  <1>8. ASSUME NEW p \in Procs, StoreDelete(p) PROVE Counted'
    BY <1>8, StoreDeleteCounted
  <1>9. ASSUME NEW p \in Procs, Unlink(p) PROVE Counted'
    <2>1. named[vlan[p]] # NoInode
      BY <1>9 DEF Unlink, NameStable, Typed, Descriptors
    <2> QED
      BY <1>9, <2>1, UnlinkCounted
  <1>10. ASSUME NEW p \in Procs, LinkDel(p) \/ QdiscDel(p) PROVE Counted'
    <2>1. /\ pc[p] \in TailSteps
          /\ \E l \in {"delqdisc", "unlock"} : pc' = [pc EXCEPT ![p] = l]
      BY <1>10 DEF LinkDel, QdiscDel, Goto
    <2>2. op[p] = "delete"
      BY <2>1 DEF OpSteps
    <2>3. UNCHANGED <<named, data, vlan, op, socks, vec>>
      BY <1>10 DEF LinkDel, QdiscDel, shmVars, useVars
    <2> QED
      BY <2>1, <2>2, <2>3, QuietStep
  <1>11. ASSUME NEW p \in Procs, Unlock(p) PROVE Counted'
    <2>1. /\ pc[p] = "unlock" /\ UNCHANGED <<named, data, vlan, op, socks>>
          /\ \E l \in {"bind", "idle"} : pc' = [pc EXCEPT ![p] = l]
      BY <1>11 DEF Unlock, Goto, useVars
    <2>2. \A q \in Procs : q # p => vec'[q] = vec[q]
      BY <1>11 DEF Unlock, Return, Typed, TypeOK
    <2> QED
      BY <2>1, <2>2, QuietStep
  <1>12. ASSUME NEW p \in Procs, Bind(p) PROVE Counted'
    BY <1>12, BindCounted
  <1>13. ASSUME NEW p \in Procs, PanicUnmapped(p) \/ PanicNoLink(p) \/ Crash(p)
         PROVE  Counted'
    BY <1>13, DieCounted DEF PanicUnmapped, PanicNoLink, Crash
  <1>14. ASSUME NEW p \in Procs, ShmFails(p) PROVE Counted'
    <2>1. pc' = [pc EXCEPT ![p] = "idle"] /\ UNCHANGED <<named, data, vlan, op, socks>>
      BY <1>14 DEF ShmFails, Goto, shmVars, useVars
    <2>2. \A q \in Procs : q # p => vec'[q] = vec[q]
      BY <1>14 DEF ShmFails, Return, Typed, TypeOK
    <2> QED
      BY <2>1, <2>2, QuietStep
  <1>15. CASE UNCHANGED vars
    BY <1>15 DEF vars, Counted, Need, Pending, shmVars, useVars, localVars
  <1> QED
    BY <1>1, <1>2, <1>3, <1>4, <1>5, <1>6, <1>7, <1>8, <1>9, <1>10, <1>11, <1>12,
       <1>13, <1>14, <1>15 DEF Next, Step

----------------------------------------------------------------------------
(* The VLAN: it is there as long as somebody has a socket on it.             *)

LinkThere == \A p \in Procs, v \in Vlans : socks[p][v] > 0 => link[v] # "none"

\* While users are counted, no step takes the interface from under a socket.
LEMMA NextLinkThere ==
  ASSUME Typed, Counted, LinkThere, [Next]_vars
  PROVE  LinkThere'
  <1>1. ASSUME \A q \in Procs, v \in Vlans : socks'[q][v] > 0 => socks[q][v] > 0,
               \A v \in Vlans : link[v] # "none" => link'[v] # "none"
        PROVE  LinkThere'
    BY <1>1 DEF LinkThere
  <1>2. ASSUME NEW p \in Procs, NEW v \in Vlans, SockOpen(p, v) \/ SockClose(p, v)
        PROVE  LinkThere'
    <2>1. link' = link
      BY <1>2 DEF SockOpen, SockClose, GetFd, netVars
    <2>2. \A q \in Procs, w \in Vlans : socks'[q][w] > 0 => socks[q][w] > 0
      <3>1. CASE SockOpen(p, v)
        BY <3>1 DEF SockOpen
      <3>2. CASE SockClose(p, v)
        BY <3>2 DEF SockClose, Typed, TypeOK
      <3> QED
        BY <1>2, <3>1, <3>2
    <2> QED
      BY <1>1, <2>1, <2>2
  <1>3. ASSUME NEW p \in Procs,
               \/ Lock(p) \/ OpenShmem(p) \/ LoadCreate(p) \/ LoadDelete(p)
               \/ SetupQos(p) \/ SetupChildren(p) \/ StoreCreate(p) \/ StoreDelete(p)
               \/ Unlink(p) \/ QdiscDel(p) \/ Unlock(p) \/ ShmFails(p)
        PROVE  LinkThere'
    <2>1. UNCHANGED <<link, socks>>
      BY <1>3 DEF Lock, OpenShmem, LoadCreate, LoadDelete, SetupQos, SetupChildren,
                  StoreCreate, StoreDelete, Unlink, QdiscDel, Unlock, ShmFails, netVars, useVars
    <2> QED
      BY <1>1, <2>1
  <1>4. ASSUME NEW p \in Procs, LinkAdd(p) \/ LinkUp(p) PROVE LinkThere'
    <2>1. socks' = socks
      BY <1>4 DEF LinkAdd, LinkUp, useVars
    <2>2. \A v \in Vlans : link[v] # "none" => link'[v] # "none"
      BY <1>4 DEF LinkAdd, LinkUp, Typed, TypeOK
    <2> QED
      BY <1>1, <2>1, <2>2
  <1>5. ASSUME NEW p \in Procs, LinkDel(p) PROVE LinkThere'
    <2>1. pc[p] \in GoneSteps /\ vlan[p] \in Vlans /\ socks' = socks
      BY <1>5 DEF LinkDel, GoneSteps, TailSteps, Typed, TypeOK, useVars
    <2>2. \A q \in Procs : Need(q, vlan[p]) = 0
      BY <2>1, CountedParts DEF VectorOK
    <2>3. \A q \in Procs : ~(socks[q][vlan[p]] > 0)
      BY <2>1, <2>2, NeedType
    <2>4. \A v \in Vlans : v # vlan[p] => link'[v] = link[v]
      BY <1>5 DEF LinkDel, Typed, TypeOK
    <2> QED
      BY <2>1, <2>3, <2>4 DEF LinkThere
  <1>6. ASSUME NEW p \in Procs, Bind(p) PROVE LinkThere'
    <2>1. link' = link /\ link[vlan[p]] # "none"
      BY <1>6 DEF Bind, netVars
    <2>2. \A q \in Procs, v \in Vlans : socks'[q][v] > 0 => socks[q][v] > 0 \/ v = vlan[p]
      <3>1. CASE UNCHANGED socks
        BY <3>1
      <3>2. CASE socks' = [socks EXCEPT ![p][vlan[p]] = @ + 1]
        BY <3>2 DEF Typed, TypeOK
      <3> QED
        BY <1>6, <3>1, <3>2 DEF Bind
    <2> QED
      BY <2>1, <2>2 DEF LinkThere
  <1>7. ASSUME NEW p \in Procs, PanicUnmapped(p) \/ PanicNoLink(p) \/ Crash(p)
        PROVE  LinkThere'
    <2>1. Die(p)
      BY <1>7 DEF PanicUnmapped, PanicNoLink, Crash
    <2>2. link' = link /\ \A q \in Procs, v \in Vlans : socks'[q][v] > 0 => socks[q][v] > 0
      BY <2>1 DEF Die, netVars, Typed, TypeOK
    <2> QED
      BY <1>1, <2>2
  <1>8. CASE UNCHANGED vars
    BY <1>1, <1>8 DEF vars, netVars, useVars
  <1> QED
    BY <1>2, <1>3, <1>4, <1>5, <1>6, <1>7, <1>8 DEF Next, Step

----------------------------------------------------------------------------
\* RegistryInv is inductive (together with the types).
THEOREM RegistryInvariant == Spec => [](TypeOK /\ RegistryInv)
  <1>1. Init => TypeOK /\ RegistryInv
    <2> SUFFICES ASSUME Init PROVE TypeOK /\ RegistryInv
      OBVIOUS
    <2>1. Counted
      BY DEF Init, Counted, Need, Pending, TailSteps
    <2>2. UsedVlanExists
      BY DEF Init, UsedVlanExists
    <2> QED
      BY <2>1, <2>2, InitTyped, InitHolding, InitNamed DEF Typed, Named, RegistryInv
  <1>2. TypeOK /\ RegistryInv /\ [Next]_vars => (TypeOK /\ RegistryInv)'
    <2> SUFFICES ASSUME TypeOK, RegistryInv, [Next]_vars PROVE (TypeOK /\ RegistryInv)'
      OBVIOUS
    <2>1. Typed /\ Holding /\ OpSteps /\ Named
      BY DEF Typed, RegistryInv, Named
    <2>2. Typed' /\ Holding' /\ OpSteps' /\ Named'
      BY <2>1, NextTyped, NextHolding, NextNamed
    <2>3. ASSUME Sound' PROVE Counted' /\ UsedVlanExists'
      <3>1. Sound /\ "race" \notin breach /\ "full" \notin breach' /\ "perm" \notin breach'
        BY <2>3, BreachGrows DEF Sound
      <3>2. NameStable /\ Counted /\ LinkThere
        BY <3>1, <2>1 DEF RegistryInv, Named, UsedVlanExists, LinkThere
      <3>3. Counted'
        BY <2>1, <2>2, <3>1, <3>2, NextCounted
      <3>4. LinkThere'
        BY <2>1, <3>2, NextLinkThere
      <3> QED
        BY <3>3, <3>4 DEF UsedVlanExists, LinkThere
    <2> QED
      BY <2>2, <2>3 DEF Typed, Named, RegistryInv
  <1> QED
    BY <1>1, <1>2, PTL DEF Spec

\* Every open socket is counted in the segment its VLAN's name leads to, under every
\* failure, unless the name was raced, the segment overflowed, or a
\* process was denied to signal a user and dropped its pid.
THEOREM EveryUserRegistered == Spec => []UsersRegistered
  <1>1. TypeOK /\ RegistryInv => UsersRegistered
    <2> SUFFICES ASSUME TypeOK, RegistryInv, Sound, NEW p \in Procs, NEW v \in Vlans,
                        socks[p][v] > 0
                 PROVE  named[v] # NoInode /\ data[named[v]][p] >= socks[p][v]
      BY DEF UsersRegistered
    <2>1. Typed /\ SegmentOK(p, v)
      BY CountedParts DEF Typed, RegistryInv
    <2>2. Need(p, v) \in Nat /\ Need(p, v) >= socks[p][v] /\ socks[p][v] \in Nat
      BY <2>1, NeedType
    <2>3. named[v] # NoInode /\ data[named[v]][p] >= Need(p, v)
      BY <2>1, <2>2 DEF SegmentOK
    <2>4. data[named[v]][p] \in Nat
      BY <2>3 DEF TypeOK, Segments
    <2> QED
      BY <2>2, <2>3, <2>4
  <1> QED
    BY <1>1, RegistryInvariant, PTL

\* No socket outlives its VLAN, under the same condition.
THEOREM NoSocketWithoutVlan == Spec => []UsedVlanExists
  <1>1. TypeOK /\ RegistryInv => UsedVlanExists
    BY DEF RegistryInv, UsedVlanExists
  <1> QED
    BY <1>1, RegistryInvariant, PTL

----------------------------------------------------------------------------
(* What the registry amounts to for the users of the library: locks are    *)
(* given back, a VLAN is there and ready as long as it is used, and        *)
(* VlanRegistry implements VlanUsers.  The proofs build on                 *)
(* RegistryInvariant.                                                      *)

\* The steps from lock_shmem to unlock_shmem.
HeldSteps == CriticalSteps \cup {"unlock"}

\* The invariant behind LockReleased: the owner of a lock is inside its operation
\* and the lock is that of the descriptor it will unlock.
LockHeld ==
  breach \cap {"race", "shm"} = {} =>
    \A i \in Inodes : lock[i] # NoProc => pc[lock[i]] \in HeldSteps /\ fd[lock[i]] = i

\* At first no lock is taken.
LEMMA InitLockHeld == Init => LockHeld
  BY DEF Init, LockHeld

\* A step of p that leaves the locks alone, and p inside its operation if it was.
LEMMA QuietLock ==
  ASSUME Typed, LockHeld, NEW p \in Procs, breach \subseteq breach', lock' = lock,
         \A q \in Procs : q # p => pc'[q] = pc[q] /\ fd'[q] = fd[q],
         pc[p] \in HeldSteps => pc'[p] \in HeldSteps /\ fd'[p] = fd[p]
  PROVE  LockHeld'
  <1>1. \A i \in Inodes : lock[i] # NoProc => lock[i] \in Procs
    BY DEF Typed, TypeOK
  <1> QED
    BY <1>1 DEF LockHeld

\* Steps between lock_shmem and unlock_shmem.
LEMMA InsideLock ==
  ASSUME Typed, LockHeld, NEW p \in Procs, NEW l \in HeldSteps, breach \subseteq breach',
         pc' = [pc EXCEPT ![p] = l], UNCHANGED <<lock, fd>>
  PROVE  LockHeld'
  BY QuietLock DEF Typed, TypeOK

\* The kernel drops the locks of a process that ends.
LEMMA DieLock ==
  ASSUME Typed, LockHeld, NEW p \in Procs, breach \subseteq breach', Die(p)
  PROVE  LockHeld'
  <1>1. \A i \in Inodes : lock'[i] # NoProc => lock'[i] = lock[i] /\ lock[i] # p
    BY DEF Die
  <1>2. \A q \in Procs : q # p => pc'[q] = pc[q] /\ fd'[q] = fd[q]
    BY ReturnFacts DEF Die, Goto, Typed, TypeOK
  <1>3. \A i \in Inodes : lock[i] # NoProc => lock[i] \in Procs
    BY DEF Typed, TypeOK
  <1> QED
    BY <1>1, <1>2, <1>3 DEF LockHeld

\* Without a race and a failed shared-memory call, every step keeps a lock with a
\* process that will give it back.
LEMMA NextLockHeld ==
  ASSUME Typed, Named, LockHeld, [Next]_vars
  PROVE  LockHeld'
  <1> USE RegistryAssumption
  <1>0. breach \subseteq breach'
    BY BreachGrows
  <1>1. ASSUME NEW p \in Procs, NEW v \in Vlans, SockOpen(p, v) \/ SockClose(p, v)
        PROVE  LockHeld'
    <2>1. pc[p] = "idle" /\ lock' = lock /\ pc' = [pc EXCEPT ![p] = "lock"]
      BY <1>1 DEF SockOpen, SockClose, GetFd, Goto
    <2>2. \A q \in Procs : q # p => pc'[q] = pc[q] /\ fd'[q] = fd[q]
      BY <1>1, <2>1 DEF SockOpen, SockClose, GetFd, Typed, TypeOK
    <2> QED
      BY <1>0, <2>1, <2>2, QuietLock DEF HeldSteps, CriticalSteps
  <1>2. ASSUME NEW p \in Procs, Lock(p) PROVE LockHeld'
    <2> SUFFICES ASSUME breach' \cap {"race", "shm"} = {}, NEW i \in Inodes, lock'[i] # NoProc
                 PROVE  pc'[lock'[i]] \in HeldSteps /\ fd'[lock'[i]] = i
      BY DEF LockHeld
    <2>1. /\ pc[p] = "lock" /\ fd[p] \in Inodes /\ fd' = fd
          /\ pc'[p] = "read" /\ \A q \in Procs : q # p => pc'[q] = pc[q]
          /\ lock'[fd[p]] = p /\ \A j \in Inodes : j # fd[p] => lock'[j] = lock[j]
      BY <1>2 DEF Lock, Goto, localVars, Typed, TypeOK, Descriptors
    <2>2. CASE i = fd[p]
      BY <2>1, <2>2 DEF HeldSteps, CriticalSteps
    <2>3. CASE i # fd[p]
      <3>1. lock[i] \in Procs /\ pc[lock[i]] \in HeldSteps /\ fd[lock[i]] = i
        BY <1>0, <2>1, <2>3 DEF LockHeld, Typed, TypeOK
      <3> QED
        BY <2>1, <2>3, <3>1 DEF HeldSteps, CriticalSteps
    <2> QED
      BY <2>2, <2>3
  <1>3. ASSUME NEW p \in Procs, OpenShmem(p) PROVE LockHeld'
    <2>1. \E l \in {"load", "store"} : pc' = [pc EXCEPT ![p] = l]
      BY <1>3 DEF OpenShmem, Goto
    <2> QED
      BY <1>0, <1>3, <2>1, InsideLock DEF OpenShmem, HeldSteps, CriticalSteps
  <1>4. ASSUME NEW p \in Procs, LoadCreate(p) \/ LoadDelete(p) PROVE LockHeld'
    <2>1. \E l \in {"add", "write"} : pc' = [pc EXCEPT ![p] = l]
      BY <1>4 DEF LoadCreate, LoadDelete, Goto
    <2> QED
      BY <1>0, <1>4, <2>1, InsideLock DEF LoadCreate, LoadDelete, HeldSteps, CriticalSteps, shmVars
  <1>5. ASSUME NEW p \in Procs, LinkAdd(p) \/ LinkUp(p) \/ SetupQos(p) \/ SetupChildren(p)
        PROVE  LockHeld'
    <2>1. \E l \in {"up", "qos", "children", "write"} : pc' = [pc EXCEPT ![p] = l]
      BY <1>5 DEF LinkAdd, LinkUp, SetupQos, SetupChildren, AfterUp, CreateFailed, Goto
    <2>2. UNCHANGED <<lock, fd>>
      BY <1>5 DEF LinkAdd, LinkUp, SetupQos, SetupChildren, shmVars
    <2> QED
      BY <1>0, <2>1, <2>2, InsideLock DEF HeldSteps, CriticalSteps
  <1>6. ASSUME NEW p \in Procs, StoreCreate(p) \/ StoreDelete(p) PROVE LockHeld'
    <2>1. \E l \in {"unlink", "unlock"} : pc' = [pc EXCEPT ![p] = l]
      BY <1>6 DEF StoreCreate, StoreDelete, Goto
    <2> QED
      BY <1>0, <1>6, <2>1, InsideLock DEF StoreCreate, StoreDelete, HeldSteps, CriticalSteps
  <1>7. ASSUME NEW p \in Procs, Unlink(p) PROVE LockHeld'
    <2> SUFFICES ASSUME breach' \cap {"race", "shm"} = {} PROVE LockHeld'
      BY DEF LockHeld
    <2>1. named[vlan[p]] # NoInode
      BY <1>0, <1>7 DEF Unlink, Named, NameStable, Typed, Descriptors, CriticalSteps, TailSteps
    <2> QED
      BY <1>0, <1>7, <2>1, InsideLock DEF Unlink, Goto, HeldSteps, CriticalSteps
  <1>8. ASSUME NEW p \in Procs, LinkDel(p) \/ QdiscDel(p) PROVE LockHeld'
    <2>1. \E l \in {"delqdisc", "unlock"} : pc' = [pc EXCEPT ![p] = l]
      BY <1>8 DEF LinkDel, QdiscDel, Goto
    <2> QED
      BY <1>0, <1>8, <2>1, InsideLock DEF LinkDel, QdiscDel, HeldSteps, CriticalSteps, shmVars
  <1>9. ASSUME NEW p \in Procs, Unlock(p) PROVE LockHeld'
    <2> SUFFICES ASSUME breach' \cap {"race", "shm"} = {}, NEW i \in Inodes, lock'[i] # NoProc
                 PROVE  pc'[lock'[i]] \in HeldSteps /\ fd'[lock'[i]] = i
      BY DEF LockHeld
    <2>1. \A q \in Procs : q # p => pc'[q] = pc[q] /\ fd'[q] = fd[q]
      BY <1>9, ReturnFacts DEF Unlock, Goto, Typed, TypeOK
    <2>2. lock'[i] = lock[i] /\ lock[i] \in Procs
      BY <1>9 DEF Unlock, Typed, TypeOK
    <2>3. pc[lock[i]] \in HeldSteps /\ fd[lock[i]] = i
      BY <1>0, <2>2 DEF LockHeld
    <2>4. lock[i] # p
      BY <1>9, <2>2, <2>3 DEF Unlock, Typed, TypeOK
    <2> QED
      BY <2>1, <2>2, <2>3, <2>4
  <1>10. ASSUME NEW p \in Procs, Bind(p) PROVE LockHeld'
    BY <1>0, <1>10, QuietLock
       DEF Bind, Goto, HeldSteps, CriticalSteps, shmVars, localVars, Typed, TypeOK
  <1>11. ASSUME NEW p \in Procs, PanicUnmapped(p) \/ PanicNoLink(p) \/ Crash(p)
         PROVE  LockHeld'
    BY <1>0, <1>11, DieLock DEF PanicUnmapped, PanicNoLink, Crash
  <1>12. ASSUME NEW p \in Procs, ShmFails(p) PROVE LockHeld'
    BY <1>12 DEF ShmFails, LockHeld
  <1>13. CASE UNCHANGED vars
    BY <1>13 DEF vars, LockHeld, shmVars, localVars
  <1> QED
    BY <1>1, <1>2, <1>3, <1>4, <1>5, <1>6, <1>7, <1>8, <1>9, <1>10, <1>11, <1>12, <1>13
       DEF Next, Step

\* The lock of a segment is given back on every path of create_vlan and delete_vlan,
\* those of failed ip and tc commands and of a process that is killed too: a lock that
\* is taken belongs to a process inside one of them.  (Excepted are a raced name and
\* the early returns after a failed shared-memory call.)
THEOREM LockGivenBack == Spec => []LockReleased
  <1> DEFINE I == Typed /\ Holding /\ OpSteps /\ Named /\ LockHeld
  <1>1. Init => I
    BY InitTyped, InitHolding, InitNamed, InitLockHeld
  <1>2. I /\ [Next]_vars => I'
    BY NextTyped, NextHolding, NextNamed, NextLockHeld
  <1>3. I => LockReleased
    BY DEF LockHeld, LockReleased, Sound, HeldSteps
  <1> QED
    BY <1>1, <1>2, <1>3, PTL DEF Spec

----------------------------------------------------------------------------
(* VlanRegistry implements VlanUsers.                                        *)

Existing == {v \in Vlans : link[v] # "none"}

\* Before the first open there is neither a VLAN nor a user.
LEMMA InitServes == Init => Users!Init
  BY DEF Init, Users!Init, Users!NoSockets, Sound

\* Steps that change nothing for the users.
LEMMA ServesQuietly ==
  ASSUME Sound, Sound', UNCHANGED <<Existing, socks>>
  PROVE  UNCHANGED Users!vars
  BY DEF Existing, Users!vars

\* Every step of the registry is one of the abstract specification, or none.
LEMMA NextServes ==
  ASSUME TypeOK, RegistryInv, [Next]_vars
  PROVE  [Users!Next]_(Users!vars)
  <1>1. CASE ~Sound'
    BY <1>1 DEF Users!Next
  <1>2. CASE Sound'
    <2>0. Sound /\ Typed /\ Counted
      BY <1>2, BreachGrows DEF Sound, RegistryInv, Typed
    <2>1. ASSUME NEW p \in Procs, NEW v \in Vlans, SockOpen(p, v)
          PROVE  UNCHANGED <<Existing, socks>>
      BY <2>1 DEF SockOpen, GetFd, netVars, Existing
    <2>2. ASSUME NEW p \in Procs, NEW v \in Vlans, SockClose(p, v)
          PROVE  Users!Close(p, v)
      BY <2>2 DEF SockClose, GetFd, netVars, Users!Close
    <2>3. ASSUME NEW p \in Procs,
                 \/ Lock(p) \/ OpenShmem(p) \/ LoadCreate(p) \/ LoadDelete(p)
                 \/ SetupQos(p) \/ SetupChildren(p) \/ StoreCreate(p) \/ StoreDelete(p)
                 \/ Unlink(p) \/ QdiscDel(p) \/ Unlock(p) \/ ShmFails(p)
          PROVE  UNCHANGED <<Existing, socks>>
      <3>1. UNCHANGED <<link, socks>>
        BY <2>3 DEF Lock, OpenShmem, LoadCreate, LoadDelete, SetupQos, SetupChildren,
                    StoreCreate, StoreDelete, Unlink, QdiscDel, Unlock, ShmFails,
                    netVars, useVars
      <3> QED
        BY <3>1 DEF Existing
    <2>4. ASSUME NEW p \in Procs, NEW v \in Vlans, v = vlan[p], LinkAdd(p)
          PROVE  UNCHANGED <<Existing, socks>> \/ Users!Create(v)
      <3>1. socks' = socks /\ vlan[p] \in Vlans
        BY <2>0, <2>4 DEF LinkAdd, useVars, Typed, TypeOK
      <3>2. CASE UNCHANGED link
        BY <3>1, <3>2 DEF Existing
      <3>3. CASE link' = [link EXCEPT ![vlan[p]] = "down"]
        <4>1. link'[vlan[p]] = "down" /\ \A w \in Vlans : w # vlan[p] => link'[w] = link[w]
          BY <2>0, <3>1, <3>3 DEF Typed, TypeOK
        <4>2. Existing' = Existing \cup {vlan[p]}
          BY <3>1, <4>1 DEF Existing
        <4> QED
          BY <2>4, <3>1, <4>2 DEF Users!Create, Existing
      <3> QED
        BY <2>4, <3>2, <3>3 DEF LinkAdd
    <2>5. ASSUME NEW p \in Procs, LinkUp(p) PROVE UNCHANGED <<Existing, socks>>
      <3>1. socks' = socks /\ \A v \in Vlans : link'[v] # "none" <=> link[v] # "none"
        BY <2>0, <2>5 DEF LinkUp, useVars, Typed, TypeOK
      <3> QED
        BY <3>1 DEF Existing
    <2>6. ASSUME NEW p \in Procs, NEW v \in Vlans, v = vlan[p], LinkDel(p)
          PROVE  UNCHANGED <<Existing, socks>> \/ Users!Remove(v)
      <3>1. socks' = socks /\ vlan[p] \in Vlans /\ pc[p] \in GoneSteps
        BY <2>0, <2>6 DEF LinkDel, useVars, Typed, TypeOK, GoneSteps, TailSteps
      <3>2. \A q \in Procs : socks[q][vlan[p]] = 0
        <4>1. \A q \in Procs : Need(q, vlan[p]) = 0
          BY <2>0, <3>1, CountedParts DEF VectorOK
        <4> QED
          BY <2>0, <3>1, <4>1, NeedType
      <3>3. CASE UNCHANGED link
        BY <3>1, <3>3 DEF Existing
      <3>4. CASE link' = [link EXCEPT ![vlan[p]] = "none"]
        <4>1. link'[vlan[p]] = "none" /\ \A w \in Vlans : w # vlan[p] => link'[w] = link[w]
          BY <2>0, <3>1, <3>4 DEF Typed, TypeOK
        <4>2. Existing' = Existing \ {vlan[p]}
          BY <3>1, <4>1 DEF Existing
        <4> QED
          BY <2>6, <3>1, <3>2, <4>2 DEF Users!Remove, Existing
      <3> QED
        BY <2>6, <3>3, <3>4 DEF LinkDel
    <2>7. ASSUME NEW p \in Procs, NEW v \in Vlans, v = vlan[p], Bind(p)
          PROVE  UNCHANGED <<Existing, socks>> \/ Users!Open(p, v)
      <3>1. link' = link /\ vlan[p] \in Existing
        BY <2>0, <2>7 DEF Bind, netVars, Existing, Typed, TypeOK
      <3>2. CASE UNCHANGED socks
        BY <3>1, <3>2 DEF Existing
      <3>3. CASE socks' = [socks EXCEPT ![p][vlan[p]] = @ + 1]
        BY <2>7, <3>1, <3>3 DEF Users!Open, Existing
      <3> QED
        BY <2>7, <3>2, <3>3 DEF Bind
    <2>8. ASSUME NEW p \in Procs, PanicUnmapped(p) \/ PanicNoLink(p) \/ Crash(p)
          PROVE  Users!Exit(p)
      BY <2>8 DEF PanicUnmapped, PanicNoLink, Crash, Die, netVars, Users!Exit, Users!NoSockets
    <2>9. ASSUME UNCHANGED vars PROVE UNCHANGED <<Existing, socks>>
      BY <2>9 DEF vars, netVars, useVars, Existing
    <2> DEFINE Served ==
          \/ UNCHANGED <<Existing, socks>>
          \/ \E p \in Procs, v \in Vlans : Users!Open(p, v) \/ Users!Close(p, v)
          \/ \E p \in Procs : Users!Exit(p)
          \/ \E v \in Vlans : Users!Create(v) \/ Users!Remove(v)
    <2>10. Served
      <3>1. \A p \in Procs : vlan[p] \in Vlans
        BY <2>0 DEF Typed, TypeOK
      <3>2. ASSUME NEW p \in Procs, NEW v \in Vlans, SockOpen(p, v) \/ SockClose(p, v)
            PROVE  Served
        BY <2>1, <2>2, <3>2
      <3>3. ASSUME NEW p \in Procs, Step(p) \/ Crash(p) \/ ShmFails(p)
            PROVE  Served
        <4>1. CASE LinkAdd(p) \/ LinkDel(p) \/ Bind(p)
          <5>1. PICK v \in Vlans : v = vlan[p]
            BY <3>1
          <5>2. \/ UNCHANGED <<Existing, socks>>
                \/ Users!Create(v) \/ Users!Remove(v) \/ Users!Open(p, v)
            BY <2>4, <2>6, <2>7, <4>1, <5>1
          <5> QED
            BY <5>2
        <4>2. CASE PanicUnmapped(p) \/ PanicNoLink(p) \/ Crash(p)
          BY <2>8, <4>2
        <4>3. CASE ~(\/ LinkAdd(p) \/ LinkDel(p) \/ Bind(p)
                     \/ PanicUnmapped(p) \/ PanicNoLink(p) \/ Crash(p))
          BY <2>3, <2>5, <3>3, <4>3 DEF Step
        <4> QED
          BY <4>1, <4>2, <4>3
      <3> HIDE DEF Served
      <3>4. CASE Next
        BY <3>2, <3>3, <3>4 DEF Next
      <3> QED
        BY <2>9, <3>4 DEF Served
    <2> QED
      BY <1>2, <2>0, <2>10, ServesQuietly DEF Users!Next
  <1> QED
    BY <1>1, <1>2

\* The registry implements its abstract specification: whatever the interleaving of
\* processes and whichever commands, calls and processes fail, what a user of sock_open
\* and sock_close sees is a VLAN that exists when it gets its socket and that is removed
\* only when nobody has one, as long as no name is raced and no segment overflows.
THEOREM RegistryServesUsers == Spec => ServesUsers
  <1>1. Init => Users!Init
    BY InitServes
  <1>2. TypeOK /\ RegistryInv /\ [Next]_vars => [Users!Next]_(Users!vars)
    BY NextServes
  <1> QED
    BY <1>1, <1>2, RegistryInvariant, PTL DEF Spec, ServesUsers, Users!Spec

----------------------------------------------------------------------------
(* Without failures, the VLAN follows the segment.                           *)

\* create_vlan makes this VLAN: it does not fail and does not panic.
Managed(v) == config.qos # "both" /\ v \in config.mapped
Occupied(v) == named[v] # NoInode /\ data[named[v]] # Empty

\* The steps at which the interface and the segment may disagree.
BusySteps == {"add", "up", "qos", "children", "write", "store", "unlink", "dellink", "delqdisc"}
SetupSteps == {"up", "qos", "children"}
Steady(v) == \A p \in Procs : vlan[p] = v => pc[p] \notin BusySteps

\* The interface of v, when nobody is about to change it.
LinkOK(v) ==
  /\ ~Managed(v) => link[v] = "none"
  /\ Managed(v) /\ Steady(v) => link[v] = (IF Occupied(v) THEN "up" ELSE "none")

\* The interface as process p expects it.
StepOK(p) ==
  /\ pc[p] \in SetupSteps => Managed(vlan[p])
  /\ pc[p] \in SetupSteps \cup {"add"} => vec[p] = Empty
  /\ Managed(vlan[p]) =>
       /\ pc[p] \in {"add", "delqdisc"} => link[vlan[p]] = "none"
       /\ pc[p] = "up" => link[vlan[p]] = "down"
       /\ pc[p] \in {"qos", "children", "write", "store", "unlink", "dellink"}
            => link[vlan[p]] = "up"

LinksFollow == (\A v \in Vlans : LinkOK(v)) /\ (\A p \in Procs : StepOK(p))

\* The qdisc of the parent interface is complete for every VLAN that is set up.
QdiscFollows ==
  config.qos \in {"tas", "cbs"} =>
    /\ \A v \in Vlans :
         link[v] # "none" /\ (\A p \in Procs : vlan[p] = v => pc[p] \notin SetupSteps)
           => qdisc = "full"
    /\ \A p \in Procs : pc[p] = "children" => qdisc # "none"

\* The invariant behind VlanTracksUsers and VlanReady.
CleanInv == breach = {} /\ Faults = {} => LinksFollow /\ QdiscFollows

\* The registry inside a run without failures and breaches.
CleanState == Typed /\ Holding /\ OpSteps /\ NameStable /\ Counted /\ LinkThere

\* At first there is neither an interface nor a segment.
LEMMA InitClean == Init => CleanInv
  BY DEF Init, CleanInv, LinksFollow, LinkOK, StepOK, Steady, Occupied, QdiscFollows,
         SetupSteps, BusySteps

\* A step of p inside its operation concerns no VLAN but its own.
LEMMA InsideLinks ==
  ASSUME CleanState, LinksFollow, NEW p \in Procs, pc[p] \in CriticalSteps,
         UNCHANGED <<config, vlan>>,
         \A q \in Procs : q # p => pc'[q] = pc[q] /\ vec'[q] = vec[q],
         \A v \in Vlans : v # vlan[p] => link'[v] = link[v] /\ (Occupied(v)' <=> Occupied(v)),
         StepOK(p)', LinkOK(vlan[p])'
  PROVE  LinksFollow'
  <1>1. ASSUME NEW q \in Procs, q # p PROVE StepOK(q)'
    <2>1. StepOK(q) /\ vlan[q] \in Vlans
      BY DEF LinksFollow, CleanState, Typed, TypeOK
    <2>2. CASE vlan[q] = vlan[p]
      <3>1. pc[q] \notin CriticalSteps
        BY <1>1, <2>2, Exclusion DEF CleanState
      <3> QED
        BY <1>1, <3>1 DEF StepOK, SetupSteps, CriticalSteps
    <2>3. CASE vlan[q] # vlan[p]
      <3>1. link'[vlan[q]] = link[vlan[q]] /\ pc'[q] = pc[q] /\ vec'[q] = vec[q]
        BY <1>1, <2>1, <2>3
      <3> QED
        BY <2>1, <3>1 DEF StepOK, Managed
    <2> QED
      BY <2>2, <2>3
  <1>2. ASSUME NEW v \in Vlans, v # vlan[p] PROVE LinkOK(v)'
    <2>1. LinkOK(v) /\ link'[v] = link[v] /\ (Occupied(v)' <=> Occupied(v))
      BY <1>2 DEF LinksFollow
    <2>2. Steady(v)' <=> Steady(v)
      BY <1>2 DEF Steady
    <2> QED
      BY <2>1, <2>2 DEF LinkOK, Managed
  <1>3. vlan[p] \in Vlans
    BY DEF CleanState, Typed, TypeOK
  <1>4. ASSUME NEW v \in Vlans, v = vlan[p] PROVE LinkOK(v)'
    BY <1>4 DEF LinkOK, Managed, Steady, Occupied
  <1> QED
    BY <1>1, <1>2, <1>4 DEF LinksFollow

\* A step of p outside the part that changes interfaces and segments.
LEMMA QuietLinks ==
  ASSUME CleanState, LinksFollow, NEW p \in Procs, pc[p] \notin BusySteps, pc'[p] \notin BusySteps,
         UNCHANGED <<config, link>>,
         \A q \in Procs : q # p => pc'[q] = pc[q] /\ vec'[q] = vec[q] /\ vlan'[q] = vlan[q],
         \A v \in Vlans : Occupied(v)' <=> Occupied(v)
  PROVE  LinksFollow'
  <1>1. ASSUME NEW v \in Vlans PROVE LinkOK(v)'
    <2>1. Steady(v)' <=> Steady(v)
      BY DEF Steady
    <2> QED
      BY <2>1 DEF LinksFollow, LinkOK, Managed
  <1>2. ASSUME NEW q \in Procs PROVE StepOK(q)'
    <2>1. CASE q = p
      BY <2>1 DEF StepOK, BusySteps, SetupSteps
    <2>2. CASE q # p
      BY <2>2 DEF LinksFollow, StepOK, Managed
    <2> QED
      BY <2>1, <2>2
  <1> QED
    BY <1>1, <1>2 DEF LinksFollow

\* A new, empty segment occupies no VLAN.
LEMMA GetFdOccupied ==
  ASSUME CleanState, NEW p \in Procs, NEW w \in Vlans, GetFd(p, w), NEW v \in Vlans
  PROVE  Occupied(v)' <=> Occupied(v)
  <1> USE RegistryAssumption
  <1>1. PICK i \in Inodes : ShmOpen(w, i)
    BY DEF GetFd
  <1>2. CASE named[w] # NoInode
    BY <1>1, <1>2 DEF ShmOpen, Occupied
  <1>3. CASE named[w] = NoInode
    <2>1. /\ named' = [named EXCEPT ![w] = i] /\ data' = [data EXCEPT ![i] = Empty]
          /\ i \in FreeInodes
      BY <1>1, <1>3 DEF ShmOpen, NewInode
    <2>2. CASE v = w
      BY <1>3, <2>1, <2>2 DEF Occupied, CleanState, Typed, TypeOK
    <2>3. CASE v # w
      <3>1. named'[v] = named[v] /\ named[v] # i
        BY <2>1, <2>3 DEF CleanState, Typed, TypeOK, FreeInodes
      <3> QED
        BY <2>1, <3>1 DEF Occupied, CleanState, Typed, TypeOK
    <2> QED
      BY <2>2, <2>3
  <1> QED
    BY <1>2, <1>3

\* What a process about to read the segment finds.
LEMMA Reading ==
  ASSUME CleanState, LinksFollow, NEW p \in Procs, pc[p] \in {"read", "load"}
  PROVE  /\ vlan[p] \in Vlans
         /\ ~Managed(vlan[p]) => link[vlan[p]] = "none"
         /\ Managed(vlan[p]) => link[vlan[p]] = (IF Occupied(vlan[p]) THEN "up" ELSE "none")
         /\ op[p] = "delete" => Occupied(vlan[p])
         /\ named[vlan[p]] \in Inodes
         /\ pc[p] = "load" => map[p] = named[vlan[p]]
  <1>1. vlan[p] \in Vlans /\ pc[p] \in CriticalSteps
    BY DEF CleanState, Typed, TypeOK, CriticalSteps
  <1>2. Steady(vlan[p])
    BY <1>1, Exclusion DEF CleanState, Steady, BusySteps, CriticalSteps
  <1>3. pc[p] = "load" => map[p] = named[vlan[p]]
    BY DEF CleanState, NameStable
  <1>4. named[vlan[p]] \in Inodes
    BY <1>1 DEF CleanState, NameStable, Typed, TypeOK, Descriptors, CriticalSteps, TailSteps
  <1>5. ASSUME op[p] = "delete" PROVE Occupied(vlan[p])
    <2>1. Need(p, vlan[p]) > 0
      BY <1>1, <1>5 DEF Need, Pending, CleanState, Typed, TypeOK
    <2>2. SegmentOK(p, vlan[p])
      BY <1>1, CountedParts DEF CleanState
    <2>3. data[named[vlan[p]]][p] > 0
      <3>1. data[named[vlan[p]]][p] \in Nat /\ Need(p, vlan[p]) \in Nat
        BY <1>1, <1>4, NeedType DEF CleanState, Typed, TypeOK, Segments
      <3> QED
        BY <2>1, <2>2, <3>1 DEF SegmentOK
    <2>4. data[named[vlan[p]]] # Empty
      BY <2>3 DEF Empty
    <2> QED
      BY <1>4, <2>4, RegistryAssumption DEF Occupied
  <1>6. LinkOK(vlan[p])
    BY <1>1 DEF LinksFollow
  <1> QED
    BY <1>1, <1>2, <1>3, <1>4, <1>5, <1>6 DEF LinkOK

\* A step of p to one at which the interface is still p's own affair.
LEMMA BusyLinks ==
  ASSUME CleanState, LinksFollow, NEW p \in Procs, pc[p] \in CriticalSteps,
         NEW l \in BusySteps, pc' = [pc EXCEPT ![p] = l], UNCHANGED <<config, vlan>>,
         \A q \in Procs : q # p => vec'[q] = vec[q],
         \A v \in Vlans : v # vlan[p] => link'[v] = link[v] /\ (Occupied(v)' <=> Occupied(v)),
         ~Managed(vlan[p]) => link'[vlan[p]] = "none",
         StepOK(p)'
  PROVE  LinksFollow'
  <1>1. pc'[p] = l /\ \A q \in Procs : q # p => pc'[q] = pc[q]
    BY DEF CleanState, Typed, TypeOK
  <1>2. LinkOK(vlan[p])'
    BY <1>1 DEF LinkOK, Managed, Steady
  <1> QED
    BY <1>1, <1>2, InsideLinks

\* The commands of create_vlan and delete_vlan, when none of them fails.
LEMMA CommandLinks ==
  ASSUME CleanState, LinksFollow, Faults = {}, breach' = {}, NEW p \in Procs,
         \/ LinkAdd(p) \/ LinkUp(p) \/ SetupQos(p) \/ SetupChildren(p) \/ LinkDel(p)
  PROVE  LinksFollow'
  <1>1. /\ pc[p] \in CriticalSteps /\ vlan[p] \in Vlans /\ StepOK(p)
        /\ ~Managed(vlan[p]) => link[vlan[p]] = "none"
        /\ UNCHANGED <<named, data, config, vlan, vec>>
    <2>1. pc[p] \in CriticalSteps
      BY DEF LinkAdd, LinkUp, SetupQos, SetupChildren, LinkDel, CriticalSteps
    <2>2. UNCHANGED <<named, data, config, vlan, vec>>
      BY DEF LinkAdd, LinkUp, SetupQos, SetupChildren, LinkDel, shmVars, useVars
    <2>3. vlan[p] \in Vlans
      BY DEF CleanState, Typed, TypeOK
    <2> QED
      BY <2>1, <2>2, <2>3 DEF LinksFollow, LinkOK
  <1>2. \A v \in Vlans : Occupied(v)' <=> Occupied(v)
    BY <1>1 DEF Occupied
  <1>3. ASSUME NEW l \in BusySteps, pc' = [pc EXCEPT ![p] = l],
               \A v \in Vlans : v # vlan[p] => link'[v] = link[v],
               ~Managed(vlan[p]) => link'[vlan[p]] = "none",
               StepOK(p)'
        PROVE  LinksFollow'
    BY <1>1, <1>2, <1>3, BusyLinks
  <1>4. \A l \in BusySteps : pc' = [pc EXCEPT ![p] = l] => pc'[p] = l
    BY DEF CleanState, Typed, TypeOK
  <1>5. ASSUME NEW s \in {"none", "down", "up"}, link' = [link EXCEPT ![vlan[p]] = s]
        PROVE  /\ link'[vlan[p]] = s
               /\ \A v \in Vlans : v # vlan[p] => link'[v] = link[v]
    BY <1>1, <1>5 DEF CleanState, Typed, TypeOK
  <1> USE DEF BusySteps, SetupSteps
  <1>6. CASE LinkAdd(p)
    <2>1. CASE ~Managed(vlan[p])
      <3>1. link' = link /\ pc' = [pc EXCEPT ![p] = "write"]
        BY <1>6, <2>1 DEF LinkAdd, CreateFailed, Goto, Managed
      <3>2. StepOK(p)'
        BY <1>1, <1>4, <2>1, <3>1 DEF StepOK, Managed
      <3> QED
        BY <1>1, <1>3, <3>1, <3>2
    <2>2. CASE Managed(vlan[p])
      <3>1. link[vlan[p]] = "none" /\ vec[p] = Empty
        BY <1>1, <1>6, <2>2 DEF LinkAdd, StepOK
      <3>2. link' = [link EXCEPT ![vlan[p]] = "down"] /\ pc' = [pc EXCEPT ![p] = "up"]
        BY <1>6, <2>2, <3>1 DEF LinkAdd, Fails, Goto, Managed
      <3>3. StepOK(p)'
        BY <1>1, <1>4, <1>5, <2>2, <3>1, <3>2 DEF StepOK, Managed
      <3> QED
        BY <1>3, <1>5, <2>2, <3>2, <3>3
    <2> QED
      BY <2>1, <2>2
  <1>7. CASE LinkUp(p)
    <2>1. Managed(vlan[p]) /\ link[vlan[p]] = "down" /\ vec[p] = Empty
      BY <1>1, <1>7 DEF LinkUp, StepOK
    <2>2. /\ link' = [link EXCEPT ![vlan[p]] = "up"]
          /\ \E l \in {"qos", "write"} : pc' = [pc EXCEPT ![p] = l]
      BY <1>7, <2>1 DEF LinkUp, Fails, Goto, AfterUp
    <2>3. StepOK(p)'
      BY <1>1, <1>4, <1>5, <2>1, <2>2 DEF StepOK, Managed
    <2> QED
      BY <1>3, <1>5, <2>1, <2>2, <2>3
  <1>8. CASE SetupQos(p) \/ SetupChildren(p)
    <2>1. Managed(vlan[p]) /\ link[vlan[p]] = "up" /\ vec[p] = Empty
      BY <1>1, <1>8 DEF SetupQos, SetupChildren, StepOK
    <2>2. link' = link /\ \E l \in {"children", "write"} : pc' = [pc EXCEPT ![p] = l]
      BY <1>8 DEF SetupQos, SetupChildren, CreateFailed, Goto
    <2>3. StepOK(p)'
      BY <1>1, <1>4, <2>1, <2>2 DEF StepOK, Managed
    <2> QED
      BY <1>3, <2>1, <2>2, <2>3
  <1>9. CASE LinkDel(p)
    <2>1. CASE ~Managed(vlan[p])
      <3>1. link' = link /\ pc' = [pc EXCEPT ![p] = "unlock"]
        BY <1>1, <1>9, <2>1 DEF LinkDel, Goto
      <3>2. pc'[p] = "unlock" /\ \A q \in Procs : q # p => pc'[q] = pc[q]
        BY <3>1 DEF CleanState, Typed, TypeOK
      <3>3. StepOK(p)' /\ LinkOK(vlan[p])'
        BY <1>1, <2>1, <3>1, <3>2 DEF StepOK, LinkOK, Managed
      <3> QED
        BY <1>1, <1>2, <3>1, <3>2, <3>3, InsideLinks
    <2>2. CASE Managed(vlan[p])
      <3>1. link[vlan[p]] = "up"
        BY <1>1, <1>9, <2>2 DEF LinkDel, StepOK
      <3>2. link' = [link EXCEPT ![vlan[p]] = "none"] /\ pc' = [pc EXCEPT ![p] = "delqdisc"]
        BY <1>9, <3>1 DEF LinkDel, Fails, Goto
      <3>3. StepOK(p)'
        BY <1>1, <1>4, <1>5, <2>2, <3>2 DEF StepOK, Managed
      <3> QED
        BY <1>3, <1>5, <2>2, <3>2, <3>3
    <2> QED
      BY <2>1, <2>2
  <1> QED
    BY <1>6, <1>7, <1>8, <1>9

\* read_shmem: who finds the segment empty finds no interface, and who finds a user
\* finds the interface up.
LEMMA LoadLinks ==
  ASSUME CleanState, LinksFollow, NEW p \in Procs, LoadCreate(p) \/ LoadDelete(p)
  PROVE  LinksFollow'
  <1> USE DEF BusySteps, SetupSteps
  <1>1. pc[p] = "load" /\ UNCHANGED <<named, data, link, config, vlan, op>>
    BY DEF LoadCreate, LoadDelete, shmVars, netVars, useVars
  <1>2. /\ vlan[p] \in Vlans
        /\ ~Managed(vlan[p]) => link[vlan[p]] = "none"
        /\ Managed(vlan[p]) => link[vlan[p]] = (IF Occupied(vlan[p]) THEN "up" ELSE "none")
        /\ op[p] = "delete" => Occupied(vlan[p])
        /\ map[p] = named[vlan[p]] /\ named[vlan[p]] \in Inodes
    BY <1>1, Reading
  <1>3. \A q \in Procs : q # p => vec'[q] = vec[q]
    BY LoadDeleteFacts DEF LoadCreate, CleanState, Typed, TypeOK
  <1>4. \A v \in Vlans : Occupied(v)' <=> Occupied(v)
    BY <1>1 DEF Occupied
  <1>5. \E l \in {"add", "write"} : pc' = [pc EXCEPT ![p] = l] /\ pc'[p] = l
    BY DEF LoadCreate, LoadDelete, Goto, CleanState, Typed, TypeOK
  <1>6. StepOK(p)'
    <2>1. pc'[p] = "add" => vec'[p] = Empty /\ ~Occupied(vlan[p])
      BY <1>2 DEF LoadCreate, LoadDelete, Goto, Occupied, CleanState, Typed, TypeOK
    <2>2. pc'[p] = "write" => Occupied(vlan[p])
      BY <1>2, RegistryAssumption
         DEF LoadCreate, LoadDelete, Goto, Occupied, CleanState, Typed, TypeOK
    <2> QED
      BY <1>1, <1>2, <1>5, <2>1, <2>2 DEF StepOK, Managed
  <1> QED
    BY <1>1, <1>2, <1>3, <1>4, <1>5, <1>6, BusyLinks DEF CriticalSteps

\* A vector with one pid more is not empty.
LEMMA PushedNotEmpty ==
  ASSUME NEW s \in Segments, NEW p \in Procs
  PROVE  Push(s, p) # Empty
  <1>1. Push(s, p)[p] = s[p] + 1 /\ s[p] \in Nat /\ Empty[p] = 0
    BY DEF Push, Segments, Empty
  <1>2. Push(s, p)[p] # Empty[p]
    BY <1>1
  <1> QED
    BY <1>2

\* write_shmem: afterwards the segment holds a user, or its holder goes on to unlink it.
LEMMA StoreLinks ==
  ASSUME CleanState, LinksFollow, breach' = {}, NEW p \in Procs,
         StoreCreate(p) \/ StoreDelete(p)
  PROVE  LinksFollow'
  <1> USE DEF BusySteps, SetupSteps
  <1>1. /\ pc[p] = "store" /\ UNCHANGED <<named, link, config, vlan, op>>
        /\ vlan[p] \in Vlans
    BY DEF StoreCreate, StoreDelete, netVars, useVars, CleanState, Typed, TypeOK
  <1>2. map[p] = named[vlan[p]] /\ map[p] \in Inodes /\ named[vlan[p]] # NoInode
    BY <1>1 DEF CleanState, NameStable, Typed, TypeOK, Descriptors
  <1>3. ~Managed(vlan[p]) => link[vlan[p]] = "none"
    BY <1>1 DEF LinksFollow, LinkOK
  <1>4. Managed(vlan[p]) => link[vlan[p]] = "up"
    BY <1>1 DEF LinksFollow, StepOK
  <1>5. \A q \in Procs : q # p => vec'[q] = vec[q]
    BY DEF StoreCreate, StoreDelete, CleanState, Typed, TypeOK
  <1>6. PICK s \in Segments : /\ data' = [data EXCEPT ![map[p]] = s]
                              /\ pc' = [pc EXCEPT ![p] = IF s = Empty THEN "unlink" ELSE "unlock"]
    <2>1. vec[p] \in Segments /\ data[map[p]] \in Segments
      BY <1>2 DEF CleanState, Typed, TypeOK
    <2>2. CASE StoreDelete(p)
      BY <2>1, <2>2 DEF StoreDelete, Goto
    <2>3. CASE StoreCreate(p)
      <3>1. data[map[p]] = vec[p]
        BY <1>1, <1>2, <2>3, CountedParts DEF StoreCreate, CleanState, VectorOK, VecSteps
      <3>2. data' = [data EXCEPT ![map[p]] = Push(data[map[p]], p)]
        BY <2>3, <3>1 DEF StoreCreate
      <3>3. Push(data[map[p]], p) # Empty /\ Push(data[map[p]], p) \in Segments
        BY <2>1, VectorTypes, PushedNotEmpty
      <3> QED
        BY <2>3, <3>2, <3>3 DEF StoreCreate, Goto
    <2> QED
      BY <2>2, <2>3
  <1>7. data'[map[p]] = s /\ \A j \in Inodes : j # map[p] => data'[j] = data[j]
    BY <1>2, <1>6 DEF CleanState, Typed, TypeOK
  <1>8. \A v \in Vlans : v # vlan[p] => (Occupied(v)' <=> Occupied(v))
    <2>1. \A v \in Vlans : v # vlan[p] /\ named[v] # NoInode => named[v] \in Inodes /\ named[v] # map[p]
      BY <1>1, <1>2 DEF CleanState, NameStable, Typed, TypeOK
    <2> QED
      BY <1>1, <1>7, <2>1 DEF Occupied
  <1>9. Occupied(vlan[p])' <=> s # Empty
    BY <1>1, <1>2, <1>7 DEF Occupied
  <1>10. pc'[p] = (IF s = Empty THEN "unlink" ELSE "unlock") /\ \A q \in Procs : q # p => pc'[q] = pc[q]
    BY <1>6 DEF CleanState, Typed, TypeOK
  <1>11. StepOK(p)'
    BY <1>1, <1>4, <1>10 DEF StepOK, Managed
  <1>12. LinkOK(vlan[p])'
    <2>1. Steady(vlan[p])' => s # Empty
      BY <1>1, <1>10 DEF Steady
    <2> QED
      BY <1>1, <1>3, <1>4, <1>9, <2>1 DEF LinkOK, Managed
  <1> QED
    BY <1>1, <1>5, <1>8, <1>10, <1>11, <1>12, InsideLinks DEF CriticalSteps

\* The last user's deletion, from shm_unlink to the qdisc.
LEMMA DeleteLinks ==
  ASSUME CleanState, LinksFollow, NEW p \in Procs, Unlink(p) \/ QdiscDel(p)
  PROVE  LinksFollow'
  <1> USE DEF BusySteps, SetupSteps
  <1>1. vlan[p] \in Vlans /\ StepOK(p) /\ (~Managed(vlan[p]) => link[vlan[p]] = "none")
    BY DEF LinksFollow, LinkOK, CleanState, Typed, TypeOK
  <1>2. UNCHANGED <<data, link, config, vlan>>
    BY DEF Unlink, QdiscDel, shmVars, netVars, useVars
  <1>3. CASE Unlink(p)
    <2>1. named[vlan[p]] # NoInode
      BY <1>3 DEF Unlink, CleanState, NameStable, Typed, Descriptors, CriticalSteps, TailSteps
    <2>2. /\ named' = [named EXCEPT ![vlan[p]] = NoInode] /\ vec' = vec
          /\ pc[p] = "unlink" /\ pc' = [pc EXCEPT ![p] = "dellink"] /\ pc'[p] = "dellink"
      BY <1>3, <2>1 DEF Unlink, Goto, CleanState, Typed, TypeOK
    <2>3. \A v \in Vlans : v # vlan[p] => (Occupied(v)' <=> Occupied(v))
      BY <1>2, <2>2 DEF Occupied, CleanState, Typed, TypeOK
    <2>4. StepOK(p)'
      BY <1>1, <1>2, <2>2 DEF StepOK, Managed
    <2> QED
      BY <1>1, <1>2, <2>2, <2>3, <2>4, BusyLinks DEF CriticalSteps
  <1>4. CASE QdiscDel(p)
    <2>1. UNCHANGED <<named, vec>> /\ pc[p] = "delqdisc" /\ pc' = [pc EXCEPT ![p] = "unlock"]
      BY <1>4 DEF QdiscDel, Goto, shmVars
    <2>2. pc'[p] = "unlock" /\ \A q \in Procs : q # p => pc'[q] = pc[q]
      BY <2>1 DEF CleanState, Typed, TypeOK
    <2>3. named[vlan[p]] = NoInode /\ link[vlan[p]] = "none"
      BY <1>1, <2>1 DEF CleanState, NameStable, TailSteps, StepOK
    <2>4. \A v \in Vlans : Occupied(v)' <=> Occupied(v)
      BY <1>2, <2>1 DEF Occupied
    <2>5. StepOK(p)' /\ LinkOK(vlan[p])'
      BY <1>2, <2>1, <2>2, <2>3 DEF StepOK, LinkOK, Occupied
    <2> QED
      BY <1>2, <2>1, <2>2, <2>4, <2>5, InsideLinks DEF CriticalSteps
  <1> QED
    BY <1>3, <1>4

\* Without failures and breaches, every step keeps the interfaces with their segments.
LEMMA NextLinks ==
  ASSUME CleanState, LinksFollow, Faults = {}, breach' = {}, [Next]_vars
  PROVE  LinksFollow'
  <1> USE DEF BusySteps
  <1>1. ASSUME NEW p \in Procs, NEW v \in Vlans, SockOpen(p, v) \/ SockClose(p, v)
        PROVE  LinksFollow'
    <2>1. GetFd(p, v) /\ pc[p] = "idle" /\ UNCHANGED <<config, link>>
      BY <1>1 DEF SockOpen, SockClose, GetFd, netVars
    <2>2. \A w \in Vlans : Occupied(w)' <=> Occupied(w)
      BY <2>1, GetFdOccupied
    <2>3. /\ pc'[p] = "lock"
          /\ \A q \in Procs : q # p => pc'[q] = pc[q] /\ vec'[q] = vec[q] /\ vlan'[q] = vlan[q]
      BY <2>1 DEF GetFd, Goto, CleanState, Typed, TypeOK
    <2> QED
      BY <2>1, <2>2, <2>3, QuietLinks
  <1>2. ASSUME NEW p \in Procs, Lock(p) PROVE LinksFollow'
    <2>1. pc[p] = "lock" /\ UNCHANGED <<named, data, config, link, vec, vlan>>
      BY <1>2 DEF Lock, netVars, useVars, localVars
    <2>2. pc'[p] = "read" /\ \A q \in Procs : q # p => pc'[q] = pc[q]
      BY <1>2 DEF Lock, Goto, CleanState, Typed, TypeOK
    <2>3. \A v \in Vlans : Occupied(v)' <=> Occupied(v)
      BY <2>1 DEF Occupied
    <2> QED
      BY <2>1, <2>2, <2>3, QuietLinks
  <1>3. ASSUME NEW p \in Procs, OpenShmem(p) PROVE LinksFollow'
    <2>1. vlan[p] \in Vlans /\ named[vlan[p]] # NoInode
      BY <1>3
         DEF OpenShmem, CleanState, NameStable, CriticalSteps, TailSteps, Typed, TypeOK, Descriptors
    <2>2. UNCHANGED <<named, data, config, link, vec, vlan>>
      BY <1>3, <2>1 DEF OpenShmem, ShmOpen, netVars, useVars
    <2>3. \A v \in Vlans : Occupied(v)' <=> Occupied(v)
      BY <2>2 DEF Occupied
    <2>4. CASE pc[p] = "read"
      <3>1. pc'[p] = "load" /\ \A q \in Procs : q # p => pc'[q] = pc[q]
        BY <1>3, <2>4 DEF OpenShmem, Goto, CleanState, Typed, TypeOK
      <3> QED
        BY <2>2, <2>3, <2>4, <3>1, QuietLinks
    <2>5. CASE pc[p] = "write"
      <3>1. pc' = [pc EXCEPT ![p] = "store"] /\ pc'[p] = "store"
        BY <1>3, <2>5 DEF OpenShmem, Goto, CleanState, Typed, TypeOK
      <3>2. StepOK(p)'
        BY <2>2, <2>5, <3>1 DEF LinksFollow, StepOK, Managed, SetupSteps
      <3>3. ~Managed(vlan[p]) => link'[vlan[p]] = "none"
        BY <2>1, <2>2 DEF LinksFollow, LinkOK
      <3> QED
        BY <2>2, <2>3, <2>5, <3>1, <3>2, <3>3, BusyLinks DEF CriticalSteps
    <2> QED
      BY <1>3, <2>4, <2>5 DEF OpenShmem
  <1>4. ASSUME NEW p \in Procs, LoadCreate(p) \/ LoadDelete(p) PROVE LinksFollow'
    BY <1>4, LoadLinks
  <1>5. ASSUME NEW p \in Procs,
               LinkAdd(p) \/ LinkUp(p) \/ SetupQos(p) \/ SetupChildren(p) \/ LinkDel(p)
        PROVE  LinksFollow'
    BY <1>5, CommandLinks
  <1>6. ASSUME NEW p \in Procs, StoreCreate(p) \/ StoreDelete(p) PROVE LinksFollow'
    BY <1>6, StoreLinks
  <1>7. ASSUME NEW p \in Procs, Unlink(p) \/ QdiscDel(p) PROVE LinksFollow'
    BY <1>7, DeleteLinks
  <1>8. ASSUME NEW p \in Procs, Unlock(p) \/ Bind(p) \/ PanicNoLink(p) PROVE LinksFollow'
    <2>1. pc[p] \notin BusySteps /\ UNCHANGED <<named, data, config, link, vlan>>
      BY <1>8 DEF Unlock, Bind, PanicNoLink, Die, netVars, useVars, shmVars, localVars
    <2>2. pc'[p] \in {"bind", "idle", "dead"} /\ \A q \in Procs : q # p => pc'[q] = pc[q]
      BY <1>8 DEF Unlock, Bind, PanicNoLink, Die, Goto, CleanState, Typed, TypeOK
    <2>3. \A q \in Procs : q # p => vec'[q] = vec[q]
      BY <1>8 DEF Unlock, Bind, PanicNoLink, Die, Return, localVars, CleanState, Typed, TypeOK
    <2>4. \A v \in Vlans : Occupied(v)' <=> Occupied(v)
      BY <2>1 DEF Occupied
    <2> QED
      BY <2>1, <2>2, <2>3, <2>4, QuietLinks
  <1>9. ASSUME NEW p \in Procs, PanicUnmapped(p) PROVE LinksFollow'
    <2>1. /\ pc[p] = "add" /\ ~Managed(vlan[p]) /\ vlan[p] \in Vlans
          /\ UNCHANGED <<named, data, config, link, vlan>>
      BY <1>9 DEF PanicUnmapped, Die, Managed, netVars, CleanState, Typed, TypeOK
    <2>2. pc'[p] = "dead" /\ \A q \in Procs : q # p => pc'[q] = pc[q] /\ vec'[q] = vec[q]
      BY <1>9 DEF PanicUnmapped, Die, Goto, Return, CleanState, Typed, TypeOK
    <2>3. \A v \in Vlans : Occupied(v)' <=> Occupied(v)
      BY <2>1 DEF Occupied
    <2>4. link[vlan[p]] = "none"
      BY <2>1 DEF LinksFollow, LinkOK
    <2>5. StepOK(p)' /\ LinkOK(vlan[p])'
      BY <2>1, <2>2, <2>4 DEF StepOK, LinkOK, Managed, SetupSteps
    <2> QED
      BY <2>1, <2>2, <2>3, <2>5, InsideLinks DEF CriticalSteps
  <1>10. ASSUME NEW p \in Procs, Crash(p) \/ ShmFails(p) PROVE FALSE
    BY <1>10 DEF Crash, ShmFails, Fails
  <1>11. CASE UNCHANGED vars
    BY <1>11 DEF vars, shmVars, netVars, useVars, localVars, LinksFollow, LinkOK, StepOK,
                 Managed, Steady, Occupied
  <1> QED
    BY <1>1, <1>2, <1>3, <1>4, <1>5, <1>6, <1>7, <1>8, <1>9, <1>10, <1>11 DEF Next, Step

\* ... and the qdisc complete for every VLAN that is set up: it is deleted only when
\* no other VLAN of the interface is left, and added only when there was none.
LEMMA NextQdisc ==
  ASSUME CleanState, LinksFollow, LinksFollow', QdiscFollows, Faults = {}, breach' = {},
         [Next]_vars
  PROVE  QdiscFollows'
  <1> USE DEF SetupSteps
  <1> DEFINE Setting(v) == \E p \in Procs : vlan[p] = v /\ pc[p] \in SetupSteps
  <1>0. config' = config
    <2>1. ASSUME NEW p \in Procs, NEW v \in Vlans, SockOpen(p, v) \/ SockClose(p, v)
          PROVE  config' = config
      BY ONLY <2>1 DEF SockOpen, SockClose
    <2>2. ASSUME NEW p \in Procs, Step(p) PROVE config' = config
      BY ONLY <2>2
         DEF Step, Lock, OpenShmem, LoadCreate, LoadDelete, LinkAdd, LinkUp, SetupQos, SetupChildren,
             StoreCreate, StoreDelete, Unlink, LinkDel, QdiscDel, Unlock, Bind, PanicUnmapped,
             PanicNoLink, Die, useVars
    <2>3. ASSUME NEW p \in Procs, Crash(p) \/ ShmFails(p) PROVE config' = config
      BY ONLY <2>3 DEF Crash, Die, ShmFails, useVars
    <2>4. CASE UNCHANGED vars
      BY ONLY <2>4 DEF vars, useVars
    <2> QED
      BY <2>1, <2>2, <2>3, <2>4 DEF Next
  <1> SUFFICES ASSUME config.qos \in {"tas", "cbs"}
               PROVE  /\ \A v \in Vlans : link'[v] # "none" /\ ~Setting(v)' => qdisc' = "full"
                      /\ \A p \in Procs : pc'[p] = "children" => qdisc' # "none"
    BY <1>0 DEF QdiscFollows
  <1>1. /\ \A v \in Vlans : link[v] # "none" /\ ~Setting(v) => qdisc = "full"
        /\ \A p \in Procs : pc[p] = "children" => qdisc # "none"
    BY DEF QdiscFollows
  <1> DEFINE Goal == /\ \A v \in Vlans : link'[v] # "none" /\ ~Setting(v)' => qdisc' = "full"
                     /\ \A p \in Procs : pc'[p] = "children" => qdisc' # "none"
  <1>2. ASSUME NEW p \in Procs, qdisc' = qdisc,
               \A v \in Vlans : link'[v] # "none" => link[v] # "none",
               pc[p] \notin SetupSteps, pc'[p] \notin SetupSteps,
               \A q \in Procs : q # p => pc'[q] = pc[q] /\ vlan'[q] = vlan[q]
        PROVE  Goal
    BY <1>1, <1>2
  <1>3. ASSUME NEW p \in Procs, NEW v \in Vlans, SockOpen(p, v) \/ SockClose(p, v)
        PROVE  Goal
    <2>1. pc[p] = "idle" /\ UNCHANGED <<qdisc, link>>
      BY <1>3 DEF SockOpen, SockClose, GetFd, netVars
    <2>2. /\ pc'[p] = "lock" /\ \A q \in Procs : q # p => pc'[q] = pc[q] /\ vlan'[q] = vlan[q]
      BY <1>3 DEF SockOpen, SockClose, GetFd, Goto, CleanState, Typed, TypeOK
    <2> QED
      BY <1>2, <2>1, <2>2
  <1>4. ASSUME NEW p \in Procs,
               \/ Lock(p) \/ OpenShmem(p) \/ LoadCreate(p) \/ LoadDelete(p) \/ StoreCreate(p)
               \/ StoreDelete(p) \/ Unlink(p) \/ Unlock(p) \/ Bind(p) \/ PanicUnmapped(p)
               \/ PanicNoLink(p)
        PROVE  Goal
    <2>1. pc[p] \notin SetupSteps /\ UNCHANGED <<qdisc, link, vlan>>
      BY <1>4 DEF Lock, OpenShmem, LoadCreate, LoadDelete, StoreCreate, StoreDelete, Unlink,
                  Unlock, Bind, PanicUnmapped, PanicNoLink, Die, netVars, localVars
    <2>2. PICK l \in Steps \ SetupSteps : pc' = [pc EXCEPT ![p] = l]
      BY <1>4 DEF Lock, OpenShmem, LoadCreate, LoadDelete, StoreCreate, StoreDelete, Unlink,
                  Unlock, Bind, PanicUnmapped, PanicNoLink, Die, Goto, Steps, CriticalSteps
    <2>3. pc'[p] = l /\ \A q \in Procs : q # p => pc'[q] = pc[q]
      BY <2>2 DEF CleanState, Typed, TypeOK
    <2> QED
      BY <1>2, <2>1, <2>2, <2>3
  <1>5. ASSUME NEW p \in Procs, LinkDel(p) PROVE Goal
    <2>1. pc[p] \notin SetupSteps /\ UNCHANGED <<qdisc, vlan>>
      BY <1>5 DEF LinkDel
    <2>2. pc'[p] \in {"unlock", "delqdisc"} /\ \A q \in Procs : q # p => pc'[q] = pc[q]
      BY <1>5 DEF LinkDel, Goto, CleanState, Typed, TypeOK
    <2>3. \A v \in Vlans : link'[v] # "none" => link[v] # "none"
      BY <1>5 DEF LinkDel, CleanState, Typed, TypeOK
    <2> QED
      BY <1>2, <2>1, <2>2, <2>3
  <1>6. ASSUME NEW p \in Procs, LinkAdd(p) PROVE Goal
    <2>1. UNCHANGED <<qdisc, vlan>> /\ pc[p] = "add"
      BY <1>6 DEF LinkAdd
    <2>2. /\ pc'[p] \in {"up", "write"} /\ \A q \in Procs : q # p => pc'[q] = pc[q]
          /\ pc'[p] = "write" => link' = link
          /\ \A v \in Vlans : v # vlan[p] => link'[v] = link[v]
      BY <1>6 DEF LinkAdd, CreateFailed, Goto, CleanState, Typed, TypeOK
    <2> QED
      BY <1>1, <2>1, <2>2
  <1>7. ASSUME NEW p \in Procs, LinkUp(p) PROVE Goal
    <2>1. UNCHANGED <<qdisc, vlan>> /\ pc[p] = "up" /\ StepOK(p)
      BY <1>7 DEF LinkUp, LinksFollow
    <2>2. link[vlan[p]] # "none"
      BY <2>1 DEF StepOK
    <2>3. /\ pc'[p] = "qos" /\ \A q \in Procs : q # p => pc'[q] = pc[q]
          /\ \A v \in Vlans : v # vlan[p] => link'[v] = link[v]
      BY <1>7, <2>2 DEF LinkUp, Fails, AfterUp, Goto, CleanState, Typed, TypeOK
    <2> QED
      BY <1>1, <2>1, <2>3
  <1>8. ASSUME NEW p \in Procs, SetupQos(p) PROVE Goal
    <2>1. pc[p] = "qos" /\ UNCHANGED <<link, vlan>>
      BY <1>8 DEF SetupQos
    <2>2. \A q \in Procs : q # p => pc'[q] = pc[q]
      BY <1>8 DEF SetupQos, CreateFailed, Goto, CleanState, Typed, TypeOK
    <2>3. CASE qdisc' = "full" /\ pc'[p] = "write"
      BY <2>3
    <2>4. CASE qdisc = "none" /\ qdisc' = "root" /\ pc'[p] = "children"
      BY <1>1, <2>1, <2>2, <2>4
    <2>5. \/ qdisc' = "full" /\ pc'[p] = "write"
          \/ qdisc = "none" /\ qdisc' = "root" /\ pc'[p] = "children"
      BY <1>8 DEF SetupQos, Fails, Goto, CleanState, Typed, TypeOK
    <2> QED
      BY <2>3, <2>4, <2>5
  <1>9. ASSUME NEW p \in Procs, SetupChildren(p) PROVE Goal
    <2>1. qdisc # "none"
      BY <1>1, <1>9 DEF SetupChildren
    <2>2. qdisc' = "full"
      BY <1>9, <2>1 DEF SetupChildren, Fails
    <2> QED
      BY <2>2
  <1>10. ASSUME NEW p \in Procs, QdiscDel(p) PROVE Goal
    <2>1. pc[p] = "delqdisc" /\ UNCHANGED <<link, vlan>> /\ vlan[p] \in Vlans
      BY <1>10 DEF QdiscDel, CleanState, Typed, TypeOK
    <2>2. \A v \in Vlans : v # vlan[p] => link[v] = "none"
      BY <1>10 DEF QdiscDel
    <2>3. link[vlan[p]] = "none"
      BY <2>1 DEF LinksFollow, LinkOK, StepOK
    <2>4. pc'[p] = "unlock" /\ \A q \in Procs : q # p => pc'[q] = pc[q]
      BY <1>10 DEF QdiscDel, Goto, CleanState, Typed, TypeOK
    <2>5. ASSUME NEW q \in Procs, pc'[q] = "children" PROVE FALSE
      <3>1. q # p /\ pc[q] = "children" /\ vlan[q] \in Vlans
        BY <2>4, <2>5 DEF CleanState, Typed, TypeOK
      <3>2. link[vlan[q]] = "up"
        BY <3>1 DEF LinksFollow, StepOK
      <3> QED
        BY <2>2, <2>3, <3>1, <3>2
    <2> QED
      BY <2>1, <2>2, <2>3, <2>5
  <1>11. ASSUME NEW p \in Procs, Crash(p) \/ ShmFails(p) PROVE FALSE
    BY <1>11 DEF Crash, ShmFails, Fails
  <1>12. ASSUME UNCHANGED vars PROVE Goal
    BY <1>1, <1>12 DEF vars, netVars, localVars
  <1> HIDE DEF Goal
  <1>13. Goal
    BY <1>3, <1>4, <1>5, <1>6, <1>7, <1>8, <1>9, <1>10, <1>11, <1>12 DEF Next, Step
  <1> QED
    BY <1>13 DEF Goal

\* The registry's invariant, in a run without breaches.
LEMMA CleanStates == ASSUME TypeOK, RegistryInv, breach = {} PROVE CleanState
  BY DEF CleanState, Typed, RegistryInv, Sound, UsedVlanExists, LinkThere

\* CleanInv is inductive together with RegistryInv.
THEOREM CleanInvariant == Spec => []CleanInv
  <1>1. Init => CleanInv
    BY InitClean
  <1>2. TypeOK /\ RegistryInv /\ CleanInv /\ [Next]_vars => CleanInv'
    <2> SUFFICES ASSUME TypeOK, RegistryInv, CleanInv, [Next]_vars, breach' = {}, Faults = {}
                 PROVE  LinksFollow' /\ QdiscFollows'
      BY DEF CleanInv
    <2>1. breach = {}
      BY BreachGrows
    <2>2. CleanState /\ LinksFollow /\ QdiscFollows
      BY <2>1, CleanStates DEF CleanInv
    <2>3. LinksFollow'
      BY <2>2, NextLinks
    <2> QED
      BY <2>2, <2>3, NextQdisc
  <1> QED
    BY <1>1, <1>2, RegistryInvariant, PTL DEF Spec

\* Without failures of the environment, a VLAN that no process is just creating or
\* deleting is up exactly when its segment holds a pid: create_vlan and delete_vlan
\* leave neither a user without an interface nor an interface without a user.
THEOREM VlanFollowsUsers == Spec => []VlanTracksUsers
  <1>1. CleanInv => VlanTracksUsers
    <2> SUFFICES ASSUME CleanInv, breach = {}, Faults = {}, config.qos # "both",
                        NEW v \in Vlans \cap config.mapped, Quiet(v)
                 PROVE  link[v] = "up" <=> named[v] # NoInode /\ data[named[v]] # Empty
      BY DEF VlanTracksUsers
    <2>1. LinkOK(v) /\ Managed(v) /\ Steady(v)
      BY DEF CleanInv, LinksFollow, Managed, Steady, Quiet, BusySteps
    <2> QED
      BY <2>1 DEF LinkOK, Occupied
  <1> QED
    BY <1>1, CleanInvariant, PTL

\* A socket is on a VLAN that is up and whose traffic control is complete, from the
\* return of sock_open to sock_close, unless the VLANs of the interface got in each
\* other's way at the qdisc they share.
THEOREM SocketsReady == Spec => []VlanReady
  <1>1. TypeOK /\ RegistryInv /\ CleanInv => VlanReady
    <2> SUFFICES ASSUME TypeOK, RegistryInv, CleanInv, breach = {}, Faults = {},
                        NEW p \in Procs, NEW v \in Vlans, socks[p][v] > 0
                 PROVE  link[v] = "up" /\ (config.qos \in {"tas", "cbs"} => qdisc = "full")
      BY DEF VlanReady
    <2>1. CleanState /\ LinksFollow /\ QdiscFollows
      BY CleanStates DEF CleanInv
    <2>2. Need(p, v) \in Nat /\ Need(p, v) > 0
      BY <2>1, NeedType DEF CleanState
    <2>3. named[v] \in Inodes /\ data[named[v]] # Empty
      <3>1. SegmentOK(p, v)
        BY <2>1, CountedParts DEF CleanState
      <3>2. named[v] \in Inodes /\ data[named[v]][p] >= Need(p, v)
        BY <2>2, <3>1 DEF SegmentOK, TypeOK
      <3>3. data[named[v]][p] \in Nat
        BY <3>2 DEF TypeOK, Segments
      <3>4. data[named[v]][p] # 0
        BY <2>2, <3>2, <3>3
      <3> QED
        BY <3>2, <3>4 DEF Empty
    <2>4. link[v] # "none" /\ Managed(v)
      BY <2>1 DEF CleanState, LinkThere, LinksFollow, LinkOK
    <2>5. ASSUME NEW q \in Procs, vlan[q] = v
          PROVE  pc[q] \notin {"add", "up", "qos", "children", "delqdisc"}
      <3>1. VectorOK(q) /\ StepOK(q) /\ (pc[q] \in {"add", "up", "qos", "children"} => op[q] = "create")
        BY <2>1, CountedParts DEF CleanState, LinksFollow, OpSteps
      <3>2. pc[q] \notin {"add", "up", "qos", "children"}
        BY <2>3, <2>5, <3>1 DEF VectorOK, StepOK, VecSteps, SetupSteps
      <3>3. pc[q] # "delqdisc"
        BY <2>4, <2>5, <3>1 DEF StepOK
      <3> QED
        BY <3>2, <3>3
    <2>6. link[v] = "up"
      <3>1. CASE Steady(v)
        BY <2>1, <2>3, <2>4, <3>1, RegistryAssumption DEF LinksFollow, LinkOK, Occupied
      <3>2. CASE ~Steady(v)
        <4>1. PICK q \in Procs : vlan[q] = v /\ pc[q] \in BusySteps
          BY <3>2 DEF Steady
        <4>2. pc[q] \in {"write", "store", "unlink", "dellink"}
          BY <2>5, <4>1 DEF BusySteps
        <4> QED
          BY <2>1, <2>4, <4>1, <4>2 DEF LinksFollow, StepOK
      <3> QED
        BY <3>1, <3>2
    <2>7. config.qos \in {"tas", "cbs"} => qdisc = "full"
      BY <2>1, <2>4, <2>5 DEF QdiscFollows, SetupSteps
    <2> QED
      BY <2>6, <2>7
  <1> QED
    BY <1>1, RegistryInvariant, CleanInvariant, PTL

============================================================================

---------------------------- MODULE VlanRegistry ----------------------------
(***************************************************************************)
(* How processes share a VLAN interface (src/src/lib.rs, src/src/vlan.rs). *)
(*                                                                         *)
(* Every process that opens a TsnSocket on a VLAN registers its pid in a   *)
(* POSIX shared-memory segment named after the VLAN.  The first user runs  *)
(* `ip link add` and `tc qdisc`, the last one deletes the segment and the  *)
(* interface.  The segment's own inode carries the fcntl lock that is to   *)
(* make the whole operation atomic, but read_shmem and write_shmem open    *)
(* the segment again BY NAME, and shm_unlink takes the name away while     *)
(* others may already wait on the lock of the old inode.                   *)
(*                                                                         *)
(* A vector of pids is kept as the number of times each pid occurs in it;  *)
(* the order of the entries shows only when a write covers a part of a     *)
(* longer vector (see Overlay).                                            *)
(***************************************************************************)
EXTENDS Naturals, FiniteSets, FiniteSetsExt

CONSTANTS
  Procs,     \* process ids
  Vlans,     \* VLAN ids of ONE parent interface
  Inodes,    \* shared-memory objects
  NoProc, NoInode,
  Slots,     \* SHM_SIZE / size_of::<u32>(): pids a segment holds (32)
  MaxOpens,  \* bound: sock_open calls per process
  Configs,   \* the configurations of the interface to consider
  Faults     \* the failures of the environment: see FaultKinds

FaultKinds == {"crash",  \* a process is killed
               "cmd",    \* ip or tc fails
               "shm",    \* shm_open, mmap, munmap, shm_unlink or fcntl fails
               "perm",   \* kill may not signal a process of another user
               "sock"}   \* socket, setsockopt or bind fails

\* What config.yaml says of the interface: the traffic control to set up, and
\* the VLANs that have an egress-qos-map.
ConfigType == [qos : {"none", "tas", "cbs", "both"}, mapped : SUBSET Vlans]

ASSUME RegistryAssumption ==
  /\ NoProc \notin Procs
  /\ NoInode \notin Inodes
  /\ Slots \in Nat \ {0}
  /\ MaxOpens \in Nat
  /\ Configs \subseteq ConfigType
  /\ Faults \subseteq FaultKinds

VARIABLES
  config,  \* the interface's entry in config.yaml
  named,   \* the inode each VLAN's segment name leads to
  data,    \* the pids each inode holds
  lock,    \* the process that holds the fcntl lock of each inode
  link,    \* the VLAN interface in the kernel
  qdisc,   \* the root qdisc of the parent interface
  socks,   \* sockets open and not being closed, per process and VLAN
  opens,   \* sock_open calls made so far
  pc, op, vlan, \* where each process is: step, operation and VLAN
  fd,      \* the inode behind shm_fd
  map,     \* the inode open_shmem mapped
  vec,     \* vlan_vec
  res,     \* the result of the commands run so far: "ok" or "err"
  breach   \* auxiliary: which known limits of the protocol were overrun

shmVars   == <<named, data, lock>>
netVars   == <<link, qdisc>>
localVars == <<op, vlan, fd, map, vec, res>>
useVars   == <<config, socks, opens>>
vars == <<shmVars, netVars, useVars, pc, localVars, breach>>

----------------------------------------------------------------------------
(* Pid vectors. *)

Segments == [Procs -> Nat]
Empty == [q \in Procs |-> 0]
Total(s) == MapThenSumSet(LAMBDA q : s[q], Procs)
Push(s, p) == [s EXCEPT ![p] = @ + 1]
RemoveFirst(s, p) == [s EXCEPT ![p] = IF @ > 0 THEN @ - 1 ELSE 0]

Alive(p) == pc[p] # "dead"

\* retain of the pids with kill(pid, None).is_ok(): those of the dead go, and those of the
\* processes that the caller is denied to signal.
RetainAlive(s, denied) == [q \in Procs |-> IF Alive(q) /\ q \notin denied THEN s[q] ELSE 0]

\* write_shmem of v with p pushed last over a segment that holds d: the slots
\* behind the written ones keep their pids, and a pid behind the last slot is lost.
Overlay(d, v, p) ==
  LET new == IF Total(v) < Slots THEN Push(v, p) ELSE v
      written == Total(v) + 1
  IN  IF Total(d) <= written
      THEN {new}
      ELSE {s \in [Procs -> 0..Slots] :
              /\ \A q \in Procs : new[q] <= s[q] /\ s[q] <= new[q] + d[q]
              /\ Total(s) = Total(d)}

----------------------------------------------------------------------------
(* Shared-memory objects (external: shm_open, shm_unlink, fcntl).  An inode  *)
(* without a name, an opener or a lock is gone; shm_open with O_CREAT makes  *)
(* a new, zeroed one when the name is free.                                  *)

FreeInodes == {i \in Inodes :
                 /\ \A v \in Vlans : named[v] # i
                 /\ \A q \in Procs : fd[q] # i /\ map[q] # i
                 /\ lock[i] = NoProc}
\* Inodes have no identity: any free one will do.
NewInode == CHOOSE i \in FreeInodes : TRUE

ShmOpen(v, i) ==
  \/ /\ named[v] # NoInode
     /\ i = named[v]
     /\ UNCHANGED <<named, data>>
  \/ /\ named[v] = NoInode
     /\ FreeInodes # {} /\ i = NewInode
     /\ named' = [named EXCEPT ![v] = i]
     /\ data' = [data EXCEPT ![i] = Empty]

Goto(p, l) == pc' = [pc EXCEPT ![p] = l]

\* The process holds the lock and still has work to do on the segment or the VLAN.
CriticalSteps == {"read", "load", "add", "up", "qos", "children", "write",
                  "store", "unlink", "dellink", "delqdisc"}
\* ... and has already taken the name away, but not yet the VLAN.
TailSteps == {"dellink", "delqdisc"}

----------------------------------------------------------------------------
Init ==
  /\ config \in Configs
  /\ named = [v \in Vlans |-> NoInode]
  /\ data = [i \in Inodes |-> Empty]
  /\ lock = [i \in Inodes |-> NoProc]
  /\ link = [v \in Vlans |-> "none"]
  /\ qdisc = "none"
  /\ socks = [p \in Procs |-> [v \in Vlans |-> 0]]
  /\ opens = [p \in Procs |-> 0]
  /\ pc = [p \in Procs |-> "idle"]
  /\ op = [p \in Procs |-> "create"]
  /\ vlan \in [Procs -> Vlans]
  /\ fd = [p \in Procs |-> NoInode]
  /\ map = [p \in Procs |-> NoInode]
  /\ vec = [p \in Procs |-> Empty]
  /\ res = [p \in Procs |-> "ok"]
  /\ breach = {}

\* get_shmem_fd: the lock will be taken on the inode the name leads to NOW.
\* Opening a name whose last user is still deleting the VLAN is a race.
GetFd(p, v) ==
  /\ \E i \in Inodes : ShmOpen(v, i) /\ fd' = [fd EXCEPT ![p] = i]
  /\ breach' = IF \E q \in Procs \ {p} : vlan[q] = v /\ pc[q] \in TailSteps
               THEN breach \cup {"race"} ELSE breach
  /\ vlan' = [vlan EXCEPT ![p] = v]
  /\ res' = [res EXCEPT ![p] = "ok"]
  /\ Goto(p, "lock")
  /\ UNCHANGED <<lock, netVars, map, vec>>

\* sock_open, up to the first system call that touches shared state.
SockOpen(p, v) ==
  /\ pc[p] = "idle"
  /\ opens[p] < MaxOpens
  /\ opens' = [opens EXCEPT ![p] = @ + 1]
  /\ op' = [op EXCEPT ![p] = "create"]
  /\ GetFd(p, v)
  /\ UNCHANGED <<config, socks>>

\* sock_close: from here on the caller no longer uses the socket, also when delete_vlan
\* fails and the descriptor stays open.
SockClose(p, v) ==
  /\ pc[p] = "idle"
  /\ socks[p][v] > 0
  /\ socks' = [socks EXCEPT ![p][v] = @ - 1]
  /\ op' = [op EXCEPT ![p] = "delete"]
  /\ GetFd(p, v)
  /\ UNCHANGED <<config, opens>>

\* Mutant: F_SETLK whose failure is ignored.
LockIgnoresOwner(p) ==
  /\ pc[p] = "lock"
  /\ lock' = [lock EXCEPT ![fd[p]] = p]
  /\ Goto(p, "read")
  /\ UNCHANGED <<named, data, netVars, useVars, localVars, breach>>

\* lock_shmem: F_SETLKW waits for another process, never for its own lock.
Lock(p) ==
  /\ pc[p] = "lock"
  /\ lock[fd[p]] \in {NoProc, p}
  /\ lock' = [lock EXCEPT ![fd[p]] = p]
  /\ Goto(p, "read")
  /\ UNCHANGED <<named, data, netVars, useVars, localVars, breach>>

\* open_shmem of read_shmem and write_shmem: by name, whatever shm_fd is.
OpenShmem(p) ==
  /\ \/ pc[p] = "read" /\ Goto(p, "load")
     \/ pc[p] = "write" /\ Goto(p, "store")
  /\ \E i \in Inodes : ShmOpen(vlan[p], i) /\ map' = [map EXCEPT ![p] = i]
  /\ UNCHANGED <<lock, netVars, useVars, op, vlan, fd, vec, res, breach>>

\* The copy of read_shmem in create_vlan, and its test for the first user.
LoadCreate(p) ==
  /\ pc[p] = "load" /\ op[p] = "create"
  /\ vec' = [vec EXCEPT ![p] = data[map[p]]]
  /\ Goto(p, IF data[map[p]] = Empty THEN "add" ELSE "write")
  /\ map' = [map EXCEPT ![p] = NoInode]
  /\ UNCHANGED <<shmVars, netVars, useVars, op, vlan, fd, res, breach>>

Fails(kind) == kind \in Faults

\* Mutant: retain() drops every entry of the own pid instead of the first.
LoadDeleteAllOwn(p) ==
  /\ pc[p] = "load" /\ op[p] = "delete"
  /\ vec' = [vec EXCEPT ![p] = RetainAlive([data[map[p]] EXCEPT ![p] = 0], {})]
  /\ map' = [map EXCEPT ![p] = NoInode]
  /\ Goto(p, "write")
  /\ UNCHANGED <<shmVars, netVars, useVars, op, vlan, fd, res, breach>>

\* The sets of registered live processes whose kill may answer EPERM.
Denied(p) ==
  IF Fails("perm") THEN SUBSET {q \in Procs \ {p} : Alive(q) /\ data[map[p]][q] > 0} ELSE {{}}

\* The copy of read_shmem in delete_vlan: without one entry of the own pid
\* and without the pids of processes that kill does not reach.
LoadDelete(p) ==
  /\ pc[p] = "load" /\ op[p] = "delete"
  /\ \E denied \in Denied(p) :
       /\ vec' = [vec EXCEPT ![p] = RetainAlive(RemoveFirst(data[map[p]], p), denied)]
       /\ breach' = IF denied # {} THEN breach \cup {"perm"} ELSE breach
  /\ map' = [map EXCEPT ![p] = NoInode]
  /\ Goto(p, "write")
  /\ UNCHANGED <<shmVars, netVars, useVars, op, vlan, fd, res>>

----------------------------------------------------------------------------
(* vlan::create_vlan: one step per command, the first failure ends it and   *)
(* nothing that was done is undone.                                         *)

\* A command failed: create_vlan goes on to push the pid all the same.
CreateFailed(p) ==
  /\ res' = [res EXCEPT ![p] = "err"]
  /\ Goto(p, "write")

\* The last step of the configuration: nothing, taprio, or mqprio and its cbs.
AfterUp == IF config.qos \in {"tas", "cbs"} THEN "qos" ELSE "write"

\* Mutant: `ip link set up` is forgotten.
LinkAddForgetsUp(p) ==
  /\ pc[p] = "add"
  /\ config.qos # "both" /\ vlan[p] \in config.mapped
  /\ link[vlan[p]] = "none"
  /\ link' = [link EXCEPT ![vlan[p]] = "down"]
  /\ Goto(p, AfterUp)
  /\ UNCHANGED <<shmVars, qdisc, useVars, op, vlan, fd, map, vec, res, breach>>

\* ip link add, refused for an interface that exists, and never reached when
\* the configuration has both a TAS and a CBS part.
LinkAdd(p) ==
  /\ pc[p] = "add"
  /\ \/ /\ config.qos = "both"
        /\ CreateFailed(p)
        /\ UNCHANGED link
     \/ /\ config.qos # "both" /\ vlan[p] \in config.mapped
        /\ link[vlan[p]] # "none" \/ Fails("cmd")
        /\ CreateFailed(p)
        /\ UNCHANGED link
     \/ /\ config.qos # "both" /\ vlan[p] \in config.mapped
        /\ link[vlan[p]] = "none"
        /\ link' = [link EXCEPT ![vlan[p]] = "down"]
        /\ Goto(p, "up")
        /\ UNCHANGED res
  /\ UNCHANGED <<shmVars, qdisc, useVars, op, vlan, fd, map, vec, breach>>

\* ip link set up
LinkUp(p) ==
  /\ pc[p] = "up"
  /\ \/ /\ link[vlan[p]] = "none" \/ Fails("cmd")
        /\ CreateFailed(p)
        /\ UNCHANGED link
     \/ /\ link[vlan[p]] # "none"
        /\ link' = [link EXCEPT ![vlan[p]] = "up"]
        /\ Goto(p, AfterUp)
        /\ UNCHANGED res
  /\ UNCHANGED <<shmVars, qdisc, useVars, op, vlan, fd, map, vec, breach>>

\* setup_tas replaces the root qdisc of the parent interface; setup_cbs ADDS
\* one, which tc refuses when there is one already.
SetupQos(p) ==
  /\ pc[p] = "qos"
  /\ \/ /\ Fails("cmd") \/ (config.qos = "cbs" /\ qdisc # "none")
        /\ CreateFailed(p)
        /\ UNCHANGED qdisc
     \/ /\ config.qos = "tas"
        /\ qdisc' = "full"
        /\ Goto(p, "write")
        /\ UNCHANGED res
     \/ /\ config.qos = "cbs" /\ qdisc = "none"
        /\ qdisc' = "root"
        /\ Goto(p, "children")
        /\ UNCHANGED res
  /\ breach' = IF config.qos = "cbs" /\ qdisc # "none"
               THEN breach \cup {"shared"} ELSE breach
  /\ UNCHANGED <<shmVars, link, useVars, op, vlan, fd, map, vec>>

\* The cbs children of setup_cbs, under the root qdisc just added.
SetupChildren(p) ==
  /\ pc[p] = "children"
  /\ \/ /\ qdisc = "none" \/ Fails("cmd")
        /\ CreateFailed(p)
        /\ UNCHANGED qdisc
     \/ /\ qdisc # "none"
        /\ qdisc' = "full"
        /\ Goto(p, "write")
        /\ UNCHANGED res
  /\ UNCHANGED <<shmVars, link, useVars, op, vlan, fd, map, vec, breach>>

----------------------------------------------------------------------------
\* Mutant: the pid is not pushed when the segment already has users.
StoreCreateOnlyFirst(p) ==
  /\ pc[p] = "store" /\ op[p] = "create"
  /\ data' = [data EXCEPT ![map[p]] = IF vec[p] = Empty THEN Push(@, p) ELSE @]
  /\ map' = [map EXCEPT ![p] = NoInode]
  /\ vec' = [vec EXCEPT ![p] = Empty]
  /\ Goto(p, "unlock")
  /\ UNCHANGED <<named, lock, netVars, useVars, op, vlan, fd, res, breach>>

\* write_shmem of create_vlan: the pid is recorded even when a command failed.
StoreCreate(p) ==
  /\ pc[p] = "store" /\ op[p] = "create"
  /\ LET d == data[map[p]]
     IN  IF d = vec[p]
         THEN IF Total(d) < Slots
              THEN /\ data' = [data EXCEPT ![map[p]] = Push(d, p)]
                   /\ UNCHANGED breach
              ELSE /\ breach' = breach \cup {"full"}
                   /\ UNCHANGED data
         ELSE /\ \E s \in Overlay(d, vec[p], p) : data' = [data EXCEPT ![map[p]] = s]
              /\ breach' = IF Total(vec[p]) < Slots THEN breach
                           ELSE breach \cup {"full"}
  /\ map' = [map EXCEPT ![p] = NoInode]
  /\ vec' = [vec EXCEPT ![p] = Empty]
  /\ Goto(p, "unlock")
  /\ UNCHANGED <<named, lock, netVars, useVars, op, vlan, fd, res>>

\* Mutant: every close deletes the VLAN.
StoreDeleteAlwaysLast(p) ==
  /\ pc[p] = "store" /\ op[p] = "delete"
  /\ data' = [data EXCEPT ![map[p]] = vec[p]]
  /\ map' = [map EXCEPT ![p] = NoInode]
  /\ vec' = [vec EXCEPT ![p] = Empty]
  /\ Goto(p, "unlink")
  /\ UNCHANGED <<named, lock, netVars, useVars, op, vlan, fd, res, breach>>

\* write_shmem of delete_vlan: resized to all slots, it covers the segment.
StoreDelete(p) ==
  /\ pc[p] = "store" /\ op[p] = "delete"
  /\ data' = [data EXCEPT ![map[p]] = vec[p]]
  /\ map' = [map EXCEPT ![p] = NoInode]
  /\ vec' = [vec EXCEPT ![p] = Empty]
  /\ Goto(p, IF vec[p] = Empty THEN "unlink" ELSE "unlock")
  /\ UNCHANGED <<named, lock, netVars, useVars, op, vlan, fd, res, breach>>

\* The operation is over; the descriptors stay open but are never used again.
Return(p) ==
  /\ fd' = [fd EXCEPT ![p] = NoInode]
  /\ map' = [map EXCEPT ![p] = NoInode]
  /\ vec' = [vec EXCEPT ![p] = Empty]

\* Mutant: the segment goes, the VLAN stays.
UnlinkKeepsVlan(p) ==
  /\ pc[p] = "unlink"
  /\ named' = [named EXCEPT ![vlan[p]] = NoInode]
  /\ Goto(p, "unlock")
  /\ UNCHANGED <<data, lock, netVars, useVars, localVars, breach>>

\* shm_unlink.  When the name is gone already delete_vlan returns at once: the
\* lock stays with the process.  Taking the name away from an inode that
\* another process has open is a race.
Unlink(p) ==
  /\ pc[p] = "unlink"
  /\ \/ /\ named[vlan[p]] # NoInode
        /\ named' = [named EXCEPT ![vlan[p]] = NoInode]
        /\ breach' = IF \E q \in Procs \ {p} : named[vlan[p]] \in {fd[q], map[q]}
                     THEN breach \cup {"race"} ELSE breach
        /\ Goto(p, "dellink")
        /\ UNCHANGED <<fd, map, vec>>
     \/ /\ named[vlan[p]] = NoInode
        /\ Goto(p, "idle")
        /\ Return(p)
        /\ UNCHANGED <<named, breach>>
  /\ UNCHANGED <<data, lock, netVars, useVars, op, vlan, res>>

\* Mutant: `?` on a failed ip link del, before unlock_shmem.
LinkDelReturnsEarly(p) ==
  /\ pc[p] = "dellink"
  /\ \/ /\ link[vlan[p]] = "none" \/ Fails("cmd")
        /\ Goto(p, "idle")
        /\ Return(p)
        /\ UNCHANGED link
     \/ /\ link[vlan[p]] # "none"
        /\ link' = [link EXCEPT ![vlan[p]] = "none"]
        /\ Goto(p, "delqdisc")
        /\ UNCHANGED <<fd, map, vec>>
  /\ UNCHANGED <<shmVars, qdisc, useVars, op, vlan, res, breach>>

\* ip link del of vlan::delete_vlan
LinkDel(p) ==
  /\ pc[p] = "dellink"
  /\ \/ /\ link[vlan[p]] = "none" \/ Fails("cmd")
        /\ res' = [res EXCEPT ![p] = "err"]
        /\ Goto(p, "unlock")
        /\ UNCHANGED link
     \/ /\ link[vlan[p]] # "none"
        /\ link' = [link EXCEPT ![vlan[p]] = "none"]
        /\ Goto(p, "delqdisc")
        /\ UNCHANGED res
  /\ UNCHANGED <<shmVars, qdisc, useVars, op, vlan, fd, map, vec, breach>>

\* tc qdisc delete dev <ifname> root: the qdisc all VLANs of the interface use.
QdiscDel(p) ==
  /\ pc[p] = "delqdisc"
  /\ \/ /\ qdisc = "none" \/ Fails("cmd")
        /\ res' = [res EXCEPT ![p] = "err"]
        /\ UNCHANGED qdisc
     \/ /\ qdisc # "none"
        /\ qdisc' = "none"
        /\ UNCHANGED res
  /\ breach' = IF \E v \in Vlans \ {vlan[p]} : link[v] # "none"
               THEN breach \cup {"shared"} ELSE breach
  /\ Goto(p, "unlock")
  /\ UNCHANGED <<shmVars, link, useVars, op, vlan, fd, map, vec>>

\* Mutant: create_vlan or delete_vlan returns without unlock_shmem.
UnlockForgotten(p) ==
  /\ pc[p] = "unlock"
  /\ Goto(p, IF op[p] = "create" /\ res[p] = "ok" THEN "bind" ELSE "idle")
  /\ Return(p)
  /\ UNCHANGED <<shmVars, netVars, useVars, op, vlan, res, breach>>

\* unlock_shmem and the return of create_vlan or delete_vlan.
Unlock(p) ==
  /\ pc[p] = "unlock"
  /\ lock' = [lock EXCEPT ![fd[p]] = IF @ = p THEN NoProc ELSE @]
  /\ Goto(p, IF op[p] = "create" /\ res[p] = "ok" THEN "bind" ELSE "idle")
  /\ Return(p)
  /\ UNCHANGED <<named, data, netVars, useVars, op, vlan, res, breach>>

\* The end of sock_open: a failed socket call leaves the pid registered.
Bind(p) ==
  /\ pc[p] = "bind"
  /\ link[vlan[p]] # "none"
  /\ \/ socks' = [socks EXCEPT ![p][vlan[p]] = @ + 1]
     \/ Fails("sock") /\ UNCHANGED socks
  /\ Goto(p, "idle")
  /\ UNCHANGED <<shmVars, netVars, config, opens, localVars, breach>>

----------------------------------------------------------------------------
\* A process ends: the kernel closes its descriptors and drops its locks, its
\* pid stays in the segment.
Die(p) ==
  /\ Goto(p, "dead")
  /\ lock' = [i \in Inodes |-> IF lock[i] = p THEN NoProc ELSE lock[i]]
  /\ socks' = [socks EXCEPT ![p] = [v \in Vlans |-> 0]]
  /\ Return(p)
  /\ UNCHANGED <<named, data, netVars, config, opens, op, vlan, res, breach>>

\* egress_qos_map.get(...).unwrap() in vlan::create_vlan
PanicUnmapped(p) ==
  /\ pc[p] = "add" /\ config.qos # "both" /\ vlan[p] \notin config.mapped
  /\ Die(p)

\* if_nametoindex(...).expect("vlan_ifname index") in sock_open
PanicNoLink(p) ==
  /\ pc[p] = "bind" /\ link[vlan[p]] = "none"
  /\ Die(p)

Crash(p) ==
  /\ Fails("crash")
  /\ Alive(p)
  /\ Die(p)

\* lock_shmem, read_shmem, write_shmem, shm_unlink or unlock_shmem fails: `?` returns from
\* the middle of the operation, and a lock that was taken stays taken.  read_shmem and
\* write_shmem fail at shm_open ("read", "write"), at mmap ("load", "store") or, the copy
\* made, at munmap: then as if the next call failed.
ShmFails(p) ==
  /\ Fails("shm")
  /\ pc[p] \in {"lock", "read", "load", "write", "store", "unlink", "unlock"}
  /\ Goto(p, "idle")
  /\ Return(p)
  /\ breach' = breach \cup {"shm"}
  /\ UNCHANGED <<shmVars, netVars, useVars, op, vlan, res>>

Step(p) ==
  \/ Lock(p) \/ OpenShmem(p) \/ LoadCreate(p) \/ LoadDelete(p)
  \/ LinkAdd(p) \/ LinkUp(p) \/ SetupQos(p) \/ SetupChildren(p)
  \/ StoreCreate(p) \/ StoreDelete(p) \/ Unlink(p) \/ LinkDel(p) \/ QdiscDel(p)
  \/ Unlock(p) \/ Bind(p) \/ PanicUnmapped(p) \/ PanicNoLink(p)

Next ==
  \E p \in Procs :
    \/ \E v \in Vlans : SockOpen(p, v) \/ SockClose(p, v)
    \/ Step(p)
    \/ Crash(p)
    \/ ShmFails(p)

Spec == Init /\ [][Next]_vars

\* Every process runs on; opening and closing sockets is the application's choice.
FairSpec == Spec /\ \A p \in Procs : WF_vars(Step(p))

----------------------------------------------------------------------------
(* Properties. *)

Steps == CriticalSteps \cup {"idle", "lock", "unlock", "bind", "dead"}

\* Every variable stays in its range.
TypeOK ==
  /\ config \in ConfigType
  /\ named \in [Vlans -> Inodes \cup {NoInode}]
  /\ data \in [Inodes -> Segments]
  /\ lock \in [Inodes -> Procs \cup {NoProc}]
  /\ link \in [Vlans -> {"none", "down", "up"}]
  /\ qdisc \in {"none", "root", "full"}
  /\ socks \in [Procs -> [Vlans -> Nat]]
  /\ opens \in [Procs -> Nat]
  /\ pc \in [Procs -> Steps]
  /\ op \in [Procs -> {"create", "delete"}]
  /\ vlan \in [Procs -> Vlans]
  /\ fd \in [Procs -> Inodes \cup {NoInode}]
  /\ map \in [Procs -> Inodes \cup {NoInode}]
  /\ vec \in [Procs -> Segments]
  /\ res \in [Procs -> {"ok", "err"}]
  /\ breach \subseteq {"race", "full", "shared", "shm", "perm"}

\* No race on a segment's name and no lost pid so far.  The breaches are the
\* weak points of the protocol; the properties say that everything else is sound.
Sound == breach \cap {"race", "full", "perm"} = {}

\* The lock protects the VLAN: as long as no name was taken away from an inode in
\* use, no two processes work on one VLAN between lock_shmem and unlock_shmem.
RegistryExclusion ==
  "race" \notin breach =>
    \A p, q \in Procs :
      p # q /\ vlan[p] = vlan[q] => ~(pc[p] \in CriticalSteps /\ pc[q] \in CriticalSteps)

\* Every open socket is counted: the segment the name leads to holds the pid of
\* a process at least once for each socket the process has on the VLAN.
UsersRegistered ==
  Sound =>
    \A p \in Procs, v \in Vlans :
      socks[p][v] > 0 => /\ named[v] # NoInode
                         /\ data[named[v]][p] >= socks[p][v]

\* No socket outlives its VLAN: while a process has a socket on a VLAN the
\* interface exists, whichever commands, calls and processes failed.
UsedVlanExists ==
  Sound => \A p \in Procs, v \in Vlans : socks[p][v] > 0 => link[v] # "none"

\* The lock of a segment is given back: only a process inside create_vlan or
\* delete_vlan holds one, on every path that a failed command takes too (the
\* early returns after a failed shared-memory call are the exception).
LockReleased ==
  Sound /\ "shm" \notin breach =>
    \A i \in Inodes : lock[i] # NoProc => pc[lock[i]] \in CriticalSteps \cup {"unlock"}

\* Nobody is inside create_vlan or delete_vlan for v.
Quiet(v) == \A p \in Procs : vlan[p] = v => pc[p] \in {"idle", "bind", "dead"}

\* Without failures a VLAN is there exactly as long as the segment holds a pid,
\* and it is up: neither a user without a VLAN nor a VLAN without a user.
VlanTracksUsers ==
  breach = {} /\ Faults = {} /\ config.qos # "both" =>
    \A v \in Vlans \cap config.mapped :
      Quiet(v) => (link[v] = "up" <=> named[v] # NoInode /\ data[named[v]] # Empty)

\* A socket is handed out on a VLAN that is up and whose traffic control is in
\* place, and neither is lost while the socket is open, except through the qdisc
\* of the parent interface, which all its VLANs add and delete as if it were theirs.
VlanReady ==
  breach = {} /\ Faults = {} =>
    \A p \in Procs, v \in Vlans :
      socks[p][v] > 0 => /\ link[v] = "up"
                         /\ config.qos \in {"tas", "cbs"} => qdisc = "full"

\* if_nametoindex(...).expect("vlan_ifname index"): when create_vlan returned Ok,
\* the VLAN interface exists.
OpenedVlanExists ==
  \A p \in Procs : pc[p] = "bind" => link[vlan[p]] # "none"

\* Every sock_open and sock_close ends, although it may have to wait for the lock
\* and the holder of the lock may crash (a failed shared-memory call may keep it).
OperationsEnd ==
  \A p \in Procs : pc[p] = "lock" ~> pc[p] \in {"idle", "dead"} \/ "shm" \in breach

\* The abstract specification, with the VLANs and sockets of this one.
Users == INSTANCE VlanUsers WITH
           exists <- {v \in Vlans : link[v] # "none"}, users <- socks, broken <- ~Sound

\* All that locks, segments, commands, crashes and failures amount to for the users
\* of the library: VLANs come, go only without users, and no socket is without one.
ServesUsers == Users!Spec

----------------------------------------------------------------------------
(* The inductive invariant behind RegistryExclusion, UsersRegistered and     *)
(* UsedVlanExists (proved in VlanRegistryProofs).                            *)

\* A process has the lock's inode open during the operation, and a mapping only
\* while it copies.
Descriptors ==
  \A p \in Procs :
    /\ fd[p] # NoInode <=> pc[p] \in CriticalSteps \cup {"lock", "unlock"}
    /\ map[p] # NoInode <=> pc[p] \in {"load", "store"}

\* From lock_shmem to unlock_shmem the process owns the lock of the inode it opened.
Holding ==
  \A p \in Procs : pc[p] \in CriticalSteps \cup {"unlock"} => lock[fd[p]] = p

\* Without a race the locked inode is the one the name leads to, until the holder
\* itself takes the name away, and then nobody puts it back before the VLAN is gone.
NameStable ==
  /\ \A v, w \in Vlans : named[v] = named[w] /\ named[v] # NoInode => v = w
  /\ \A p \in Procs :
       /\ pc[p] \in (CriticalSteps \ TailSteps) \cup {"lock"} => fd[p] = named[vlan[p]]
       /\ pc[p] \in {"load", "store"} => map[p] = named[vlan[p]]
       /\ pc[p] \in TailSteps => named[vlan[p]] = NoInode
  /\ \A p, q \in Procs : pc[p] \in TailSteps /\ pc[q] \in TailSteps /\ vlan[p] = vlan[q]
                          => p = q

\* The registrations process q has to have for v: one per socket, and one for the
\* socket it is opening (once written) or closing (until its entry is removed).
Pending(q, v) ==
  vlan[q] = v /\ \/ op[q] = "create" /\ pc[q] \in {"unlock", "bind"}
                 \/ op[q] = "delete" /\ pc[q] \in {"lock", "read", "load", "write", "store"}
Need(q, v) == socks[q][v] + IF Pending(q, v) THEN 1 ELSE 0

\* The segment counts every user (the dead are none), a vector in hand is up to date,
\* and who is about to delete the VLAN saw the last user go.
Counted ==
  /\ \A q \in Procs, v \in Vlans : pc[q] = "dead" => socks[q][v] = 0
  /\ \A q \in Procs, v \in Vlans :
       Need(q, v) > 0 => named[v] # NoInode /\ data[named[v]][q] >= Need(q, v)
  /\ \A p \in Procs :
       /\ op[p] = "create" /\ pc[p] \in {"add", "up", "qos", "children", "write", "store"}
            => vec[p] = data[named[vlan[p]]]
       /\ op[p] = "delete" /\ pc[p] \in {"write", "store"}
            => /\ \A q \in Procs \ {p} : vec[p][q] >= Need(q, vlan[p])
               /\ vec[p][p] >= socks[p][vlan[p]]
       /\ pc[p] \in {"unlink"} \cup TailSteps => \A q \in Procs : Need(q, vlan[p]) = 0

\* Which operation takes which steps.
OpSteps ==
  \A p \in Procs :
    /\ pc[p] \in {"unlink"} \cup TailSteps => op[p] = "delete"
    /\ pc[p] \in {"add", "up", "qos", "children", "bind"} => op[p] = "create"

\* The invariant, for the faults run and the proof.
RegistryInv ==
  /\ Descriptors
  /\ Holding
  /\ OpSteps
  /\ "race" \notin breach => NameStable
  /\ Sound => Counted /\ UsedVlanExists

============================================================================

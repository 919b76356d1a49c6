----------------------------- MODULE VlanUsers -----------------------------
(***************************************************************************)
(* What the registry of VlanRegistry promises to the users of sock_open    *)
(* and sock_close: a VLAN interface is there as long as somebody has a     *)
(* socket on it.  No locks, no segments, no commands.                      *)
(***************************************************************************)
EXTENDS Naturals

CONSTANTS Procs, Vlans

VARIABLES
  exists,   \* the VLANs that exist
  users,    \* the sockets of each process on each VLAN
  broken    \* a known limit was overrun, and nothing is promised any more

vars == <<exists, users, broken>>

NoSockets == [v \in Vlans |-> 0]

Init == exists = {} /\ users = [p \in Procs |-> NoSockets] /\ broken = FALSE

\* A socket is handed out on a VLAN that exists.
Open(p, v) ==
  /\ v \in exists
  /\ users' = [users EXCEPT ![p][v] = @ + 1]
  /\ UNCHANGED exists

Close(p, v) ==
  /\ users[p][v] > 0
  /\ users' = [users EXCEPT ![p][v] = @ - 1]
  /\ UNCHANGED exists

Exit(p) == users' = [users EXCEPT ![p] = NoSockets] /\ UNCHANGED exists

Create(v) == exists' = exists \cup {v} /\ UNCHANGED users

\* Only a VLAN nobody uses is removed.
Remove(v) ==
  /\ \A p \in Procs : users[p][v] = 0
  /\ exists' = exists \ {v}
  /\ UNCHANGED users

Next ==
  \/ /\ ~broken' /\ UNCHANGED broken
     /\ \/ \E p \in Procs, v \in Vlans : Open(p, v) \/ Close(p, v)
        \/ \E p \in Procs : Exit(p)
        \/ \E v \in Vlans : Create(v) \/ Remove(v)
  \/ broken'

Spec == Init /\ [][Next]_vars
============================================================================

--------------------------- MODULE MCVlanRegistry ---------------------------
(* Small instances of VlanRegistry for TLC. *)
EXTENDS VlanRegistry, TLC

Symmetry == Permutations(Procs)

\* The traffic control with the most steps, the one that is refused, and no mapping.
FailingConfigs == [qos : {"cbs", "both"}, mapped : {Vlans}]
                  \cup [qos : {"tas"}, mapped : {{}}]
Configured == [qos : {"none", "tas", "cbs", "both"}, mapped : {Vlans}]
TasOnly == [qos : {"tas"}, mapped : {Vlans}]
============================================================================

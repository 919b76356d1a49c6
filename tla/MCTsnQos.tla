------------------------------ MODULE MCTsnQos ------------------------------
(* Small instances of TsnQos for TLC. *)
EXTENDS TsnQos

\* Schedules of up to MaxEntries entries that open and close the gates of all classes.
\* Slots and times are even and frames take an odd time: none fills a slot exactly, which
\* ValidWindow would stop at before it meets a window that ends before it begins.
CONSTANTS MaxEntries, MaxDur
GateSchedules ==
  UNION {[1..n -> [dur : {2 * d : d \in 1..MaxDur}, open : {{}, TCs}]] : n \in 1..MaxEntries}

OneClass == {0}
TwoClasses == {0, 1}
IdentityMap == {[p \in {0, 1} |-> p]}
MapToOne == {[p \in {0, 1} |-> 0]}
BothMaps == IdentityMap \cup MapToOne

NoSchedules == {}
\* A schedule that opens one gate after the other.
TakingTurns == {<<[dur |-> 1, open |-> {0}], [dur |-> 1, open |-> {1}]>>}
NoOffloads == {}

\* An untagged frame and two of priority 1.
GateFrames == [prio : {0}, gptp : {FALSE}, bytes : {1}]
              \cup [prio : {1}, gptp : {FALSE}, bytes : {1, 3}]
\* A best-effort, a tagged and a gPTP frame.
QueueFrames == [prio : {0, 1}, gptp : {FALSE}, bytes : {1}]
               \cup [prio : {0}, gptp : {TRUE}, bytes : {1}]

\* A class with 30 % of a link of 1000 bit/s (Kilo = 10): frames of up to 16 bytes.
ShapedFrames == [prio : {1}, gptp : {FALSE}, bytes : {10, 16}]
ShapedOffloads == {CalcCredits(300, 128, 1000)}
============================================================================

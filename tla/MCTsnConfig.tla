---------------------------- MODULE MCTsnConfig ----------------------------
(* A small instance of TsnConfig for TLC. *)
EXTENDS TsnConfig

CONSTANTS MaxEntries, MaxDur, MaxCycle

ThreeClasses == 0..2

\* Priority 1 alone or after 2, and all others; cycles of at most MaxCycle.
Entries == [dur : 1..MaxDur, prio : {<<1>>, <<2, 1>>, <<-1>>}]
Schedule(n) == {s \in [1..n -> Entries] : CycleNs(s) <= MaxCycle}
\* A priority listed twice, and one that is not accepted.
OddSchedules == {<<[dur |-> 2, prio |-> <<1, 1>>], [dur |-> 1, prio |-> <<-1>>]>>,
                 <<[dur |-> 1, prio |-> <<0, 1>>]>>}

Stream(p, c, b) == [prio |-> p, class |-> c, bandwidth |-> b, frame |-> 64]
Shaped == {<<Stream(2, "a", 300), Stream(1, "b", 155)>>,
           <<Stream(1, "a", 207), Stream(2, "b", 300)>>,
           <<Stream(2, "b", 300), Stream(1, "a", 200)>>}

SmallFiles ==
  [kind : {"tas"}, entries : UNION {Schedule(n) : n \in 1..MaxEntries} \cup OddSchedules]
  \cup [kind : {"cbs"}, entries : Shaped]

\* What the files come to.
FileMaps == {[p \in Prios |-> p]} \cup {PrioMap(f) : f \in Loaded("tas") \cup Loaded("cbs")}
FileSchedules == {SchedEntries(f) : f \in Loaded("tas")}
FileOffloads == {Children(f, qid) : f \in Loaded("cbs"), qid \in {1, 2}}

\* An untagged frame, two of priority 1 and one of priority 2.
FileFrames == [prio : {0}, gptp : {FALSE}, bytes : {1}]
              \cup [prio : {1}, gptp : {FALSE}, bytes : {1, 2}]
              \cup [prio : {2}, gptp : {FALSE}, bytes : {1}]
============================================================================

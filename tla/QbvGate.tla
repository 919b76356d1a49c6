------------------------------ MODULE QbvGate ------------------------------
(***************************************************************************)
(* The gate schedule of the driver (driver/XDMA/linux-kernel/xdma/tsn.c):  *)
(* bake_qos_config turns the entries of a taprio schedule into one list of *)
(* alternating open and closed slots per traffic class, and get_timestamps *)
(* looks up in that list when a frame may be sent.                         *)
(*                                                                         *)
(* A schedule is a sequence of entries [dur, open], open being the set of  *)
(* the traffic classes whose gate the entry opens.                         *)
(***************************************************************************)
EXTENDS Integers, Sequences, SequencesExt

CONSTANT Word  \* 2^64 in the code: the width of a timestamp_t

ASSUME WordAssumption == Word \in Nat \ {0}

\* config->qbv.slots as traffic class tc sees them.
Column(sched, tc) ==
  [i \in DOMAIN sched |-> [open |-> tc \in sched[i].open, dur |-> sched[i].dur]]

\* One round of the baking loop: entries with the same gate become one slot.
Merge(acc, s) ==
  IF Last(acc).open = s.open
  THEN [acc EXCEPT ![Len(acc)].dur = @ + s.dur]
  ELSE Append(acc, s)

\* Mutant: the slots are not filled up to pairs.
BakePrioUnpaired(sched, tc) ==
  LET col == Column(sched, tc)
      merged[i \in 0..Len(col)] ==
        IF i = 0 THEN <<[open |-> col[1].open, dur |-> 0]>> ELSE Merge(merged[i - 1], col[i])
  IN  merged[Len(col)]

\* Mutant: the first slot gets its duration before the loop counts it again.
BakePrioFirstTwice(sched, tc) ==
  LET col == Column(sched, tc)
      merged[i \in 0..Len(col)] ==
        IF i = 0 THEN <<col[1]>> ELSE Merge(merged[i - 1], col[i])
      slots == merged[Len(col)]
  IN  IF Len(slots) % 2 = 1
      THEN Append(slots, [open |-> ~Last(slots).open, dur |-> 0])
      ELSE slots

\* The slots of one traffic class, filled up to open-close pairs.
BakePrio(sched, tc) ==
  LET col == Column(sched, tc)
      merged[i \in 0..Len(col)] ==
        IF i = 0 THEN <<[open |-> col[1].open, dur |-> 0]>> ELSE Merge(merged[i - 1], col[i])
      slots == merged[Len(col)]
  IN  IF Len(slots) % 2 = 1
      THEN Append(slots, [open |-> ~Last(slots).open, dur |-> 0])
      ELSE slots

\* Where slot k begins in the cycle; slot Len(slots) + 1 is the end of the cycle.
Begin(slots, k) ==
  LET b[i \in 1..k] == IF i = 1 THEN 0 ELSE b[i - 1] + slots[i - 1].dur IN b[k]

CycleNs(slots) == Begin(slots, Len(slots) + 1)

Baked(sched, tcs) ==
  [cycle |-> CycleNs(sched), prios |-> [tc \in tcs |-> BakePrio(sched, tc)]]

\* The slot that a time `rem` after the start of the cycle falls in: a time on the
\* border of two slots belongs to the EARLIER one.
SlotAt(slots, rem) ==
  Min({k \in DOMAIN slots : rem <= Begin(slots, k + 1)})

\* Mutant: a frame that fits exactly has to wait.
SkippedIfTight(open, left, sending) ==
  IF ~open THEN 1 ELSE IF left <= sending THEN 2 ELSE 0

\* How many slots the frame skips: a closed one, or an open one with too little time
\* left and the closed one behind it.
Skipped(open, left, sending) ==
  IF ~open THEN 1 ELSE IF left < sending THEN 2 ELSE 0

\* The first slot follows the last.
Following(slots, k) == (k % Len(slots)) + 1

\* The windows of a frame that may start in a slot that opens at `opens`, and again in
\* the next opening.
Windows(slots, slot, opens, from, sending, delay) ==
  LET closed == Following(slots, slot)
      closes == opens + slots[slot].dur
      reopens == closes + slots[closed].dur
      recloses == reopens + slots[Following(slots, closed)].dur
  IN  [ok |-> TRUE,
       from |-> Max({opens, from}),
       to |-> closes - sending,
       dfrom |-> IF delay THEN reopens ELSE 0,
       dto |-> IF delay THEN recloses - sending ELSE 0]

\* ... and of one that is ready in slot `at`, `left` before its end.
WindowsFrom(slots, at, left, from, sending, delay) ==
  LET next == Following(slots, at)
      skipped == Skipped(slots[at].open, left, sending)
      slot == IF skipped = 0 THEN at ELSE IF skipped = 1 THEN next ELSE Following(slots, next)
      opens == IF skipped = 0 THEN from + left - slots[at].dur
               ELSE IF skipped = 1 THEN from + left
               ELSE from + left + slots[next].dur
  IN  Windows(slots, slot, opens, from, sending, delay)

\* get_timestamps with Qbv enabled: a frame that is ready at `from` and needs
\* `sending` ns may start in from..to, and again in dfrom..dto.
GetTimestamps(baked, start, from, tc, sending, delay) ==
  LET slots == baked.prios[tc]
      rem == ((from - start) % Word) % baked.cycle
      at == SlotAt(slots, rem)
      none == [ok |-> FALSE, from |-> 0, to |-> 0, dfrom |-> 0, dto |-> 0]
      always == [ok |-> TRUE, from |-> from, to |-> from - 1,
                 dfrom |-> IF delay THEN from ELSE 0,
                 dto |-> IF delay THEN from - 1 ELSE 0]
  IN  IF Len(slots) = 2 /\ slots[2].dur = 0
      THEN IF slots[1].open THEN always ELSE none
      ELSE WindowsFrom(slots, at, Begin(slots, at + 1) - rem, from, sending, delay)

----------------------------------------------------------------------------
(* What the schedule means: the reference for the baked one. *)

\* The gate of tc at time t, straight from the entries of the schedule.
OpenAt(sched, start, tc, t) ==
  LET rem == (t - start) % CycleNs(sched)
  IN  \E i \in DOMAIN sched :
        /\ Begin(sched, i) <= rem /\ rem < Begin(sched, i + 1)
        /\ tc \in sched[i].open

\* The gate is open during the whole transmission of a frame.
OpenDuring(sched, start, tc, t, sending) ==
  \A u \in t .. (t + sending - 1) : OpenAt(sched, start, tc, u)

\* ... and the transmission ends before the schedule starts over.
WithinCycle(sched, start, t, sending) ==
  ((t - start) % CycleNs(sched)) + sending <= CycleNs(sched)

\* At time t an opening of the gate ends, or the schedule starts over.
ClosesAt(sched, start, tc, t) ==
  ~OpenAt(sched, start, tc, t) \/ (t - start) % CycleNs(sched) = 0

AlwaysClosed(sched, tc) == \A i \in DOMAIN sched : tc \notin sched[i].open
AlwaysOpen(sched, tc) == \A i \in DOMAIN sched : tc \in sched[i].open

\* The gate is closed both when the cycle begins and when it ends.
ClosedAtBothEnds(sched, tc) ==
  tc \notin sched[1].open /\ tc \notin Last(sched).open

\* Every slot in which the gate is open holds the frame ("Need to check if the
\* slot is big enough to fit the frame. But, That is a user fault").
Fits(slots, sending) ==
  \A i \in DOMAIN slots : slots[i].open /\ slots[i].dur > 0 => slots[i].dur >= sending
============================================================================

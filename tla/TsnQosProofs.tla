---------------------------- MODULE TsnQosProofs ----------------------------
(***************************************************************************)
(* Proofs about the hardware-queue tracker and the credit-based shaper of  *)
(* TsnQos, for queues, counters, slopes, limits, frames and numbers of     *)
(* frames of any size.                                                     *)
(*                                                                         *)
(* The tracker: its books always balance (TrackerExact), hence what left   *)
(* the hardware since the last reading is less than the range of a         *)
(* counter, hence a reading finds out exactly how many frames left.        *)
(*                                                                         *)
(* The shaper: available_at is never before last_update and never so early *)
(* that more than the credit of one ns is missing then.  So every frame of *)
(* a shaped class is charged, and its charge is at most rounded, by the    *)
(* conversions to int32_t and by loCredit; the sum of what was sent and of *)
(* the credit that is left never exceeds what was earned.                  *)
(***************************************************************************)
EXTENDS TsnQos, TLAPS

----------------------------------------------------------------------------
(* The tracker: arithmetic modulo the width of a counter. *)

\* The remainder is determined by its range.
LEMMA ModUnique ==
  ASSUME NEW M \in Nat \ {0}, NEW q \in Int, NEW r \in Int, 0 <= r, r < M
  PROVE  (M * q + r) % M = r
OBVIOUS

\* Division with remainder.
LEMMA ModSplit ==
  ASSUME NEW M \in Nat \ {0}, NEW d \in Int
  PROVE  /\ d \div M \in Int /\ d % M \in Int
         /\ 0 <= d % M /\ d % M < M
         /\ d = M * (d \div M) + (d % M)
OBVIOUS

\* add_u32_counter: a running counter that wrapped still gives the exact number of
\* events since the sum t was taken, when there were fewer than M of them.
LEMMA WrapDifference ==
  ASSUME NEW M \in Nat \ {0}, NEW d \in Nat, NEW t \in Nat, t <= d, d - t < M
  PROVE  ((d % M) - t) % M = d - t
<1> DEFINE q == d \div M
           k == -q
           r == d % M
<1>1. q \in Int /\ r \in Int /\ d = M * q + r
  BY ModSplit
<1> HIDE DEF q, r
<1>2. k \in Int /\ M * k = -(M * q) /\ M * q \in Int
  BY <1>1
<1> HIDE DEF k
<1>3. r - t = M * k + (d - t)
  BY <1>1, <1>2
<1>4. (M * k + (d - t)) % M = d - t
  <2>1. d - t \in Int /\ 0 <= d - t
    OBVIOUS
  <2> QED BY <1>2, <2>1, ModUnique
<1> QED BY <1>3, <1>4 DEF r

\* The register after one more event.
LEMMA WrapSuccessor ==
  ASSUME NEW M \in Nat \ {0}, NEW d \in Nat
  PROVE  ((d % M) + 1) % M = (d + 1) % M
<1> DEFINE k == d \div M
<1> DEFINE j == (d + 1) \div M
<1>1. k \in Int /\ d % M \in Int /\ d = M * k + (d % M)
  BY ModSplit
<1>2. /\ j \in Int /\ (d + 1) % M \in Int
      /\ d + 1 = M * j + ((d + 1) % M)
      /\ 0 <= (d + 1) % M /\ (d + 1) % M < M
  BY ModSplit
<1> HIDE DEF k, j
<1>3. j - k \in Int /\ M * (j - k) = M * j - M * k
  BY <1>1, <1>2
<1>4. (d % M) + 1 = M * (j - k) + ((d + 1) % M)
  BY <1>1, <1>2, <1>3
<1> QED BY <1>2, <1>3, <1>4, ModUnique

\* The lesser of two numbers.
LEMMA LesserOfTwo ==
  ASSUME NEW a \in Int, NEW b \in Int, a <= b
  PROVE  Min({a, b}) = a
<1> DEFINE P(x) == x \in {a, b} /\ \A y \in {a, b} : x <= y
<1>1. P(a)
  OBVIOUS
<1>2. \A x : P(x) => x = a
  OBVIOUS
<1>3. (CHOOSE x : P(x)) = a
  BY <1>1, <1>2
<1> QED BY <1>3 DEF Min

----------------------------------------------------------------------------
(* The tracker. *)

\* The inductive invariant.
TrackerInv == TypeOK /\ TrackerExact /\ TrackerCovers

\* A reading of the counters is exact, and leaves in the tracker what is in the
\* hardware and what was leaked.
LEMMA Reading ==
  ASSUME TrackerInv
  PROVE  /\ NewTotalTx = totalTx + txReg
         /\ NewTotalDrop = drops
         /\ Updated \in Nat
         /\ Updated = IF Stale THEN InHw + leaked ELSE pending
<1>1. CounterMod \in Nat \ {0} /\ HwQueueSize \in Nat /\ HwQueueSize < CounterMod
  BY QosAssumption
<1>2. /\ InHw \in Nat /\ pending \in Nat /\ pending <= HwQueueSize /\ leaked \in Nat
      /\ totalTx \in Nat /\ txReg \in Nat /\ totalDrop \in Nat /\ drops \in Nat
      /\ totalDrop <= drops /\ lastTx = totalTx + totalDrop
      /\ pending + lastTx = InHw + (totalTx + txReg + drops) + leaked
  BY DEF TrackerInv, TypeOK, TrackerExact, TrackerCovers, InHw
<1>3. drops - totalDrop <= HwQueueSize
  BY <1>1, <1>2
<1>4. (dropReg - totalDrop) % CounterMod = drops - totalDrop
  <2>1. drops - totalDrop < CounterMod
    BY <1>1, <1>2, <1>3
  <2>2. ((drops % CounterMod) - totalDrop) % CounterMod = drops - totalDrop
    BY <1>1, <1>2, <2>1, WrapDifference
  <2> QED BY <2>2 DEF TrackerInv, TrackerExact
<1>5. NewTotalDrop = drops /\ NewTotalTx = totalTx + txReg
  BY <1>2, <1>4 DEF NewTotalDrop, NewTotalTx
<1>6. ASSUME Stale PROVE Popped = NewTotalTx + NewTotalDrop - lastTx
  <2> DEFINE n == NewTotalTx + NewTotalDrop - lastTx
  <2>1. n \in Int /\ n <= pending
    BY <1>2, <1>5
  <2>2. Popped = Min({n, pending})
    BY <1>6 DEF Popped
  <2> HIDE DEF n
  <2>3. Min({n, pending}) = n
    BY <1>2, <2>1, LesserOfTwo
  <2> QED BY <2>2, <2>3 DEF n
<1>7. CASE Stale
  BY <1>2, <1>5, <1>6, <1>7 DEF Updated
<1>8. CASE ~Stale
  BY <1>2, <1>5, <1>8 DEF Updated, Popped
<1> QED BY <1>7, <1>8

\* The books after update_buffer_track balance, for the tracker's value u.
Balanced(u) ==
  /\ lastTx' \in Nat /\ totalTx' \in Nat /\ totalDrop' \in Nat /\ txReg' \in Nat
  /\ u + lastTx' = InHw + (totalTx' + txReg' + drops) + leaked
  /\ lastTx' = totalTx' + totalDrop'
  /\ totalDrop' <= drops
  /\ u \in Nat /\ InHw <= u /\ u <= pending
  /\ lastTx' # lastTx => lastTx' = totalTx + txReg + drops

\* update_buffer_track keeps the books balanced.
LEMMA Updating ==
  ASSUME TrackerInv, ReadCounters
  PROVE  Balanced(Updated)
<1>1. /\ InHw \in Nat /\ pending \in Nat /\ leaked \in Nat /\ InHw <= pending
      /\ totalTx \in Nat /\ txReg \in Nat /\ totalDrop \in Nat /\ drops \in Nat /\ lastTx \in Nat
      /\ totalDrop <= drops /\ lastTx = totalTx + totalDrop
      /\ pending + lastTx = InHw + (totalTx + txReg + drops) + leaked
  BY DEF TrackerInv, TypeOK, TrackerExact, TrackerCovers, InHw
<1>2. CASE Stale
  <2>1. Updated = InHw + leaked /\ NewTotalTx = totalTx + txReg /\ NewTotalDrop = drops
    BY <1>2, Reading
  <2>2. /\ totalTx' = totalTx + txReg /\ txReg' = 0 /\ totalDrop' = drops
        /\ lastTx' = totalTx + txReg + drops
    BY <1>2, <2>1 DEF ReadCounters
  <2> QED BY <1>1, <2>1, <2>2 DEF Balanced
<1>3. CASE ~Stale
  <2>1. Updated = pending
    BY <1>3, Reading
  <2>2. UNCHANGED <<totalTx, txReg, totalDrop, lastTx>>
    BY <1>3 DEF ReadCounters
  <2> QED BY <1>1, <2>1, <2>2 DEF Balanced
<1> QED BY <1>2, <1>3

\* No limit exceeds the hardware queue.
LEMMA Limits ==
  ASSUME NEW skb
  PROVE  QueueLimit(skb) \in Nat /\ QueueLimit(skb) <= HwQueueSize
BY QosAssumption DEF QueueLimit

\* What every step does to the tracker.
TrackerStep ==
  TrackerInv' /\ (lastTx' # lastTx => lastTx' = totalTx + txReg + drops)

\* A step that leaves the tracker and the hardware alone.
LEMMA TrackerIdle ==
  ASSUME TrackerInv, UNCHANGED <<trackVars, hwVars, leaked>>
  PROVE  TrackerStep
BY DEF TrackerStep, TrackerInv, TypeOK, TrackerExact, TrackerCovers, InHw, trackVars, hwVars

\* start_xmit that does not count the frame.
LEMMA TrackerRefuses ==
  ASSUME TrackerInv, ReadCounters, pending' = Updated, UNCHANGED <<hw, dropReg, drops, leaked>>
  PROVE  TrackerStep
<1>1. Balanced(Updated)
  BY Updating
<1>2. HwQueueSize \in Nat
  BY QosAssumption
<1>3. TypeOK' /\ InHw' = InHw /\ InHw \in Nat
  <2>1. InHw' = InHw /\ InHw \in Nat
    BY DEF TrackerInv, TypeOK, InHw
  <2>2. /\ pending' \in Nat /\ lastTx' \in Nat /\ totalTx' \in Nat
        /\ totalDrop' \in Nat /\ txReg' \in Nat
    BY <1>1 DEF Balanced
  <2> QED BY <2>1, <2>2 DEF TrackerInv, TypeOK
<1>4. TrackerExact'
  BY <1>1, <1>3 DEF Balanced, TrackerInv, TrackerExact
<1>5. TrackerCovers'
  BY <1>1, <1>2, <1>3 DEF Balanced, TrackerInv, TypeOK, TrackerCovers
<1> QED BY <1>1, <1>3, <1>4, <1>5 DEF Balanced, TrackerStep, TrackerInv

\* A frame that is counted reaches the hardware, or is leaked.
OneMore ==
  /\ hw' \in [{"be", "tsn"} -> Nat] /\ leaked' \in Nat
  /\ InHw' + leaked' = InHw + leaked + 1
  /\ InHw' \in Nat /\ InHw' <= InHw + 1

\* start_xmit hands the frame to the DMA engine: one frame more in the hardware.
LEMMA Arriving ==
  ASSUME TypeOK, NEW c \in {"be", "tsn"}, hw' = [hw EXCEPT ![c] = @ + 1], leaked' = leaked
  PROVE  OneMore
<1>1. hw \in [{"be", "tsn"} -> Nat] /\ leaked \in Nat
  BY DEF TypeOK
<1>2. CASE c = "be"
  BY <1>1, <1>2 DEF InHw, OneMore
<1>3. CASE c = "tsn"
  BY <1>1, <1>3 DEF InHw, OneMore
<1> QED BY <1>2, <1>3

\* dma_map_single fails in start_xmit: one frame more that never leaves.
LEMMA Leaking ==
  ASSUME TypeOK, hw' = hw, leaked' = leaked + 1
  PROVE  OneMore
BY DEF TypeOK, InHw, OneMore

\* start_xmit that counts the frame.
LEMMA TrackerCounts ==
  ASSUME TrackerInv, ReadCounters, NEW limit \in Nat, limit <= HwQueueSize,
         Updated < limit, pending' = Updated + 1, UNCHANGED <<dropReg, drops>>, OneMore
  PROVE  TrackerStep
<1>1. Balanced(Updated)
  BY Updating
<1>2. HwQueueSize \in Nat /\ leaked \in Nat /\ InHw \in Nat
  BY QosAssumption DEF TrackerInv, TypeOK, InHw
<1>3. pending' \in Nat /\ pending' <= HwQueueSize /\ InHw' <= pending'
  BY <1>1, <1>2 DEF Balanced, OneMore
<1>4. dropReg' \in 0 .. (CounterMod - 1) /\ drops' \in Nat /\ dropReg' = drops' % CounterMod
  BY DEF TrackerInv, TypeOK, TrackerExact
<1>5. drops \in Nat
  BY DEF TrackerInv, TypeOK
<1>6. pending' + lastTx' = InHw' + (totalTx' + txReg' + drops') + leaked'
  <2>1. drops' = drops
    OBVIOUS
  <2>2. /\ Updated \in Int /\ lastTx' \in Int /\ totalTx' \in Int /\ txReg' \in Int
        /\ Updated + lastTx' = InHw + (totalTx' + txReg' + drops) + leaked
    BY <1>1 DEF Balanced
  <2>3. InHw' \in Int /\ leaked' \in Int /\ InHw' + leaked' = InHw + leaked + 1
    BY DEF OneMore
  <2>4. (Updated + 1) + lastTx' = InHw' + (totalTx' + txReg' + drops) + leaked'
    <3>1. /\ hw["be"] \in Nat /\ hw["tsn"] \in Nat
          /\ hw["be"]' \in Nat /\ hw["tsn"]' \in Nat
      BY DEF OneMore, TrackerInv, TypeOK
    <3> QED BY <1>2, <1>5, <2>2, <2>3, <3>1 DEF InHw
  <2> QED BY <2>1, <2>4
<1> QED BY <1>1, <1>3, <1>4, <1>6
  DEF Balanced, OneMore, TrackerStep, TrackerInv, TypeOK, TrackerExact, TrackerCovers

\* A frame leaves the hardware.
LEMMA TrackerLeaves ==
  ASSUME TrackerInv, NEW c \in {"be", "tsn"}, HwSends(c) \/ HwDrops(c)
  PROVE  TrackerStep
<1>1. /\ hw \in [{"be", "tsn"} -> Nat] /\ hw[c] > 0 /\ hw' = [hw EXCEPT ![c] = @ - 1]
      /\ UNCHANGED <<trackVars, leaked>>
  BY DEF HwSends, HwDrops, TrackerInv, TypeOK
<1>2. hw' \in [{"be", "tsn"} -> Nat] /\ InHw' = InHw - 1 /\ InHw \in Nat /\ InHw' \in Nat
  <2>1. CASE c = "be"
    BY <1>1, <2>1 DEF InHw
  <2>2. CASE c = "tsn"
    BY <1>1, <2>2 DEF InHw
  <2> QED BY <2>1, <2>2
<1>3. CASE HwSends(c)
  <2>1. txReg' = txReg + 1 /\ UNCHANGED <<dropReg, drops>>
    BY <1>3 DEF HwSends
  <2> QED BY <1>1, <1>2, <2>1
    DEF TrackerStep, TrackerInv, TypeOK, TrackerExact, TrackerCovers, trackVars
<1>4. CASE HwDrops(c)
  <2>1. drops' = drops + 1 /\ dropReg' = (dropReg + 1) % CounterMod /\ UNCHANGED txReg
    BY <1>4 DEF HwDrops
  <2>2. CounterMod \in Nat \ {0} /\ HwQueueSize \in Nat
    BY QosAssumption
  <2>3. dropReg' = drops' % CounterMod /\ dropReg' \in 0 .. (CounterMod - 1)
    <3>1. drops \in Nat /\ dropReg = drops % CounterMod
      BY DEF TrackerInv, TypeOK, TrackerExact
    <3>2. dropReg' = (drops + 1) % CounterMod
      BY <2>1, <2>2, <3>1, WrapSuccessor
    <3>3. (drops + 1) % CounterMod \in Int /\ 0 <= (drops + 1) % CounterMod
          /\ (drops + 1) % CounterMod < CounterMod
      BY <2>2, <3>1, ModSplit
    <3> QED BY <2>1, <2>2, <3>2, <3>3
  <2> QED BY <1>1, <1>2, <2>1, <2>2, <2>3
    DEF TrackerStep, TrackerInv, TypeOK, TrackerExact, TrackerCovers, trackVars
<1> QED BY <1>3, <1>4

----------------------------------------------------------------------------
(* The specification. *)

\* The driver starts with empty books.
LEMMA TrackerInit == Init => TrackerInv
<1> SUFFICES ASSUME Init PROVE TrackerInv
  OBVIOUS
<1>1. CounterMod \in Nat \ {0} /\ HwQueueSize \in Nat
  BY QosAssumption
<1>2. 0 % CounterMod = 0
  BY <1>1
<1> QED BY <1>1, <1>2 DEF Init, TrackerInv, TypeOK, TrackerExact, TrackerCovers, InHw

\* Every step keeps the books balanced.
LEMMA TrackerNext == TrackerInv /\ [Next]_vars => TrackerStep
<1> SUFFICES ASSUME TrackerInv, [Next]_vars PROVE TrackerStep
  OBVIOUS
<1>1. CASE Configure
  <2>1. UNCHANGED <<trackVars, hwVars, leaked>>
    BY <1>1 DEF Configure, SetMqprio, SetQav, SetQbv, DestroyQbv
  <2> QED BY <2>1, TrackerIdle
<1>2. CASE Xmit
  <2> PICK skb \in Offered : \/ XmitFreed(skb) \/ XmitRefused(skb) \/ XmitFull(skb)
                            \/ XmitSent(skb) \/ XmitUnmapped(skb)
    BY <1>2 DEF Xmit
  <2>1. CASE XmitFreed(skb)
    BY <2>1, TrackerIdle DEF XmitFreed
  <2>2. CASE XmitRefused(skb)
    BY <2>2, TrackerRefuses DEF XmitRefused
  <2>3. CASE XmitFull(skb)
    BY <2>3, TrackerRefuses DEF XmitFull
  <2>4. CASE XmitSent(skb)
    <3> DEFINE c == IF BestEffort(skb) THEN "be" ELSE "tsn"
    <3>1. c \in {"be", "tsn"} /\ hw' = [hw EXCEPT ![c] = @ + 1] /\ UNCHANGED <<dropReg, drops, leaked>>
      BY <2>4 DEF XmitSent
    <3> HIDE DEF c
    <3>2. OneMore
      BY <3>1, Arriving DEF TrackerInv
    <3>3. ReadCounters /\ Updated < QueueLimit(skb) /\ pending' = Updated + 1
      BY <2>4 DEF XmitSent, Fill
    <3> QED BY <3>1, <3>2, <3>3, Limits, TrackerCounts
  <2>5. CASE XmitUnmapped(skb)
    <3>1. leaked' = leaked + 1 /\ UNCHANGED <<hw, dropReg, drops>>
      BY <2>5 DEF XmitUnmapped
    <3>2. OneMore
      BY <3>1, Leaking DEF TrackerInv
    <3>3. ReadCounters /\ Updated < QueueLimit(skb) /\ pending' = Updated + 1
      BY <2>5 DEF XmitUnmapped, Fill
    <3> QED BY <3>1, <3>2, <3>3, Limits, TrackerCounts
  <2> QED BY <2>1, <2>2, <2>3, <2>4, <2>5
<1>3. CASE TxIsr
  BY <1>3, TrackerIdle DEF TxIsr
<1>4. ASSUME NEW c \in {"be", "tsn"}, HwSends(c) \/ HwDrops(c) PROVE TrackerStep
  BY <1>4, TrackerLeaves
<1>5. ASSUME NEW d \in Deltas, Tick(d) PROVE TrackerStep
  BY <1>5, TrackerIdle DEF Tick
<1>6. CASE UNCHANGED vars
  BY <1>6, TrackerIdle DEF vars
<1> QED BY <1>1, <1>2, <1>3, <1>4, <1>5, <1>6 DEF Next

\* The invariant of every behaviour.
THEOREM TrackerInvariant == Spec => []TrackerInv
<1>1. TrackerInv /\ [Next]_vars => TrackerInv'
  BY TrackerNext DEF TrackerStep
<1> QED BY <1>1, TrackerInit, PTL DEF Spec

\* The counters of tsn.c and alinx_arch.c never go below zero, whatever the hardware does.
THEOREM QosTypes == Spec => []TypeOK
BY TrackerInvariant, PTL DEF TrackerInv

\* update_buffer_track: what the tracker counts is what the hardware has, what has left
\* since the last reading, and what was leaked by a failed DMA mapping.
THEOREM TrackerBalances == Spec => []TrackerExact
BY TrackerInvariant, PTL DEF TrackerInv

\* The driver never gives the hardware more than HW_QUEUE_SIZE frames.
THEOREM QueueNeverOverrun == Spec => []TrackerCovers
BY TrackerInvariant, PTL DEF TrackerInv

\* Whenever the tracker takes over the counters it misses no frame and counts none twice.
THEOREM CountersNeverLost == Spec => CountersExact
<1>1. TrackerInv /\ [Next]_vars => [lastTx' # lastTx => lastTx' = totalTx + txReg + drops]_vars
  BY TrackerNext DEF TrackerStep
<1> QED BY <1>1, TrackerInvariant, PTL DEF Spec, CountersExact

----------------------------------------------------------------------------
(* The room that is left for time-sensitive frames. *)

\* Without shaping a schedule is always in force: bake_qos_config puts the open one in
\* place, and tsn_fill_metadata looks at the limit of best-effort frames.
RoomInv ==
  Offloads = {} =>
    /\ qbv.enabled
    /\ qav = [tc \in TCs |-> ZeroQav]
    /\ hw["be"] <= BeQueueSize

\* tsn_init_configs starts with the open schedule and no shaped class.
LEMMA RoomInit == Init => RoomInv
<1> SUFFICES ASSUME Init PROVE RoomInv
  OBVIOUS
<1>1. qbv.enabled
  BY DEF Init, ForcedQbv, NoQbv, ZeroQav
<1> QED BY <1>1, QosAssumption DEF Init, RoomInv

\* spend_qav_credit leaves a class alone that is not shaped.
LEMMA NothingSpent ==
  ASSUME NEW skb, qav = [tc \in TCs |-> ZeroQav], Spend(skb)
  PROVE  qav' = qav
<1> DEFINE tc == TcOf(skb)
<1>1. PICK q \in SpendQavCredit(qav[tc], Ready(skb), Length(skb)) : qav' = [qav EXCEPT ![tc] = q]
  BY DEF Spend
<1> HIDE DEF tc
<1>2. CASE tc \in TCs
  <2>1. ~qav[tc].enabled
    BY <1>2 DEF ZeroQav
  <2>2. q = qav[tc]
    BY <1>1, <2>1 DEF SpendQavCredit
  <2> QED BY <1>1, <1>2, <2>2
<1>3. CASE tc \notin TCs
  BY <1>1, <1>3
<1> QED BY <1>2, <1>3

\* No step takes the schedule away while no class is shaped, and start_xmit refuses a
\* best-effort frame at its limit.
LEMMA RoomNext == TrackerInv /\ RoomInv /\ [Next]_vars => RoomInv'
<1> SUFFICES ASSUME TrackerInv, RoomInv, [Next]_vars, Offloads = {}
             PROVE  /\ qbv.enabled' /\ qav' = [tc \in TCs |-> ZeroQav]
                    /\ hw'["be"] <= BeQueueSize
  BY DEF RoomInv
<1>0. /\ qbv.enabled /\ qav = [tc \in TCs |-> ZeroQav] /\ hw["be"] <= BeQueueSize
      /\ hw \in [{"be", "tsn"} -> Nat] /\ BeQueueSize \in Nat
  BY QosAssumption DEF RoomInv, TrackerInv, TypeOK
<1>1. CASE Configure
  <2>1. qav' = qav /\ hw' = hw
    BY <1>1 DEF Configure, SetMqprio, SetQav, SetQbv, DestroyQbv, hwVars
  <2>2. \A tc \in TCs : ~qav[tc].enabled
    BY <1>0 DEF ZeroQav
  <2>3. \A q : ForcedQbv(q, qav).enabled
    BY <2>2 DEF ForcedQbv
  <2>4. qbv' = qbv \/ \E q : qbv' = ForcedQbv(q, qav)
    BY <1>1 DEF Configure, SetMqprio, SetQav, SetQbv, DestroyQbv, BakeQosConfig
  <2> QED BY <1>0, <2>1, <2>3, <2>4
<1>2. CASE Xmit
  <2> PICK skb \in Offered : \/ XmitFreed(skb) \/ XmitRefused(skb) \/ XmitFull(skb)
                            \/ XmitSent(skb) \/ XmitUnmapped(skb)
    BY <1>2 DEF Xmit
  <2>1. CASE XmitFreed(skb) \/ XmitRefused(skb)
    BY <1>0, <2>1 DEF XmitFreed, XmitRefused, configVars, hwVars
  <2>2. ~DontCare(skb)
    BY <1>0 DEF DontCare
  <2>3. CASE XmitFull(skb)
    BY <2>2, <2>3 DEF XmitFull
  <2>4. CASE XmitUnmapped(skb)
    <3>1. qav' = qav
      BY <1>0, <2>4, NothingSpent DEF XmitUnmapped, Fill
    <3> QED BY <1>0, <2>4, <3>1 DEF XmitUnmapped
  <2>5. CASE XmitSent(skb)
    <3>1. qav' = qav
      BY <1>0, <2>5, NothingSpent DEF XmitSent, Fill
    <3>2. qbv' = qbv
      BY <2>5 DEF XmitSent
    <3>3. CASE BestEffort(skb)
      <4>1. Updated < BeQueueSize /\ ReadCounters
        BY <2>2, <2>5, <3>3 DEF XmitSent, Fill, QueueLimit
      <4>2. InHw <= Updated /\ Updated \in Nat
        BY <4>1, Updating DEF Balanced
      <4>3. hw' = [hw EXCEPT !["be"] = @ + 1]
        BY <2>5, <3>3 DEF XmitSent
      <4>4. hw["be"] + 1 <= BeQueueSize
        BY <1>0, <4>1, <4>2 DEF InHw
      <4> QED BY <1>0, <3>1, <3>2, <4>3, <4>4
    <3>4. CASE ~BestEffort(skb)
      <4>1. hw' = [hw EXCEPT !["tsn"] = @ + 1]
        BY <2>5, <3>4 DEF XmitSent
      <4> QED BY <1>0, <3>1, <3>2, <4>1
    <3> QED BY <3>3, <3>4
  <2> QED BY <2>1, <2>3, <2>4, <2>5
<1>3. CASE TxIsr
  BY <1>0, <1>3 DEF TxIsr, configVars, hwVars
<1>4. ASSUME NEW c \in {"be", "tsn"}, HwSends(c) \/ HwDrops(c)
      PROVE  /\ qbv.enabled' /\ qav' = [tc \in TCs |-> ZeroQav]
             /\ hw'["be"] <= BeQueueSize
  <2>1. hw' = [hw EXCEPT ![c] = @ - 1] /\ UNCHANGED configVars
    BY <1>4 DEF HwSends, HwDrops
  <2>2. hw'["be"] <= hw["be"] /\ hw'["be"] \in Int
    <3>1. CASE c = "be"
      BY <1>0, <2>1, <3>1
    <3>2. CASE c = "tsn"
      BY <1>0, <2>1, <3>2
    <3> QED BY <3>1, <3>2
  <2> QED BY <1>0, <2>1, <2>2 DEF configVars
<1>5. ASSUME NEW d \in Deltas, Tick(d)
      PROVE  /\ qbv.enabled' /\ qav' = [tc \in TCs |-> ZeroQav]
             /\ hw'["be"] <= BeQueueSize
  BY <1>0, <1>5 DEF Tick, configVars, hwVars
<1>6. CASE UNCHANGED vars
  BY <1>0, <1>6 DEF vars, configVars, hwVars
<1> QED BY <1>1, <1>2, <1>3, <1>4, <1>5, <1>6 DEF Next

\* As long as no class is shaped, best-effort frames never take more than BE_QUEUE_SIZE of
\* the hardware queue (tsn_fill_metadata), the rest is left to time-sensitive ones.
THEOREM BestEffortBounded == Spec => []BeLeavesRoom
<1>1. RoomInv => BeLeavesRoom
  BY DEF RoomInv, BeLeavesRoom
<1>2. Spec => []RoomInv
  BY RoomInit, RoomNext, TrackerInvariant, PTL DEF Spec
<1> QED BY <1>1, <1>2, PTL

----------------------------------------------------------------------------
(* The credit-based shaper: the invariant. *)

\* A frame that start_xmit may be offered: every map gives its priority a class.
SkbOK(skb) == skb.bytes \in Nat /\ \A m \in TcMaps : m[skb.prio] \in TCs

\* The slopes and limits of a shaped class.
Sloped(q) ==
  /\ q.idle \in Nat \ {0}
  /\ q.send <= 0
  /\ q.hi >= 0
  /\ -CreditMax - 1 <= q.lo

\* What spend_qav_credit leaves a shaped class with: when it is available again, it lacks
\* less than the credit of one ns.
CreditLeft(q) ==
  /\ q.lo <= q.credit
  /\ -q.credit <= q.idle * (q.avail - q.last) + q.idle

\* The class keeps to the max_frame its loCredit stands for.
KeepsMaxFrame(q, u) == u.longest * (-q.send) < Kilo - q.lo

\* The credit earned while the class was not sending, the burst hiCredit allows, and the
\* two roundings of each frame.
Allowance(q, u) == q.hi + q.idle * (q.last - u.since - u.sent) + u.n * (Kilo + q.idle)

\* What was sent is covered, and what was sent together with the credit that is left.
Covered(q, u) ==
  /\ u.sent * (-q.send) <= Allowance(q, u) + u.longest * (-q.send)
  /\ u.sent * (-q.send) + q.credit <= Allowance(q, u)

QavStates == [enabled : BOOLEAN, idle : Int, send : Int, hi : Int, lo : Int,
              credit : Int, last : Int, avail : Int]
UsedStates == [since : Int, sent : Nat, n : Nat, longest : Nat]

\* The books of one class.
ClassOK(q, u) ==
  /\ q.last <= q.avail
  /\ u.n = 0 => u.sent = 0
  /\ q.enabled => Sloped(q)
  /\ q.enabled /\ u.n > 0 => CreditLeft(q)
  /\ q.enabled /\ u.n > 0 /\ KeepsMaxFrame(q, u) => Covered(q, u)

\* The inductive invariant.
CreditInv ==
  /\ now \in Nat /\ totalAvail \in Nat /\ tcMap \in TcMaps
  /\ held # NoSkb => SkbOK(held)
  /\ qav \in [TCs -> QavStates]
  /\ used \in [TCs -> UsedStates]
  /\ \A tc \in TCs : ClassOK(qav[tc], used[tc])
  /\ CreditSpent

----------------------------------------------------------------------------
(* Numbers. *)

\* The greater of two numbers.
LEMMA MaxOfTwo ==
  ASSUME NEW a \in Int, NEW b \in Int
  PROVE  /\ Max({a, b}) \in {a, b}
         /\ Max({a, b}) >= a /\ Max({a, b}) >= b
<1> DEFINE m == IF a >= b THEN a ELSE b
<1>1. m \in {a, b} /\ \A y \in {a, b} : m >= y
  OBVIOUS
<1> HIDE DEF m
<1>2. \E x \in {a, b} : \A y \in {a, b} : x >= y
  BY <1>1
<1> DEFINE c == CHOOSE x \in {a, b} : \A y \in {a, b} : x >= y
<1>3. c \in {a, b} /\ \A y \in {a, b} : c >= y
  BY <1>2
<1>4. Max({a, b}) = c
  BY DEF Max
<1> HIDE DEF c
<1> QED BY <1>3, <1>4

\* The lesser of two numbers.
LEMMA MinOfTwo ==
  ASSUME NEW a \in Int, NEW b \in Int
  PROVE  /\ Min({a, b}) \in {a, b}
         /\ Min({a, b}) <= a /\ Min({a, b}) <= b
<1> DEFINE m == IF a <= b THEN a ELSE b
<1>1. m \in {a, b} /\ \A y \in {a, b} : m <= y
  OBVIOUS
<1> HIDE DEF m
<1>2. \E x \in {a, b} : \A y \in {a, b} : x =< y
  BY <1>1
<1> DEFINE c == CHOOSE x \in {a, b} : \A y \in {a, b} : x =< y
<1>3. c \in {a, b} /\ \A y \in {a, b} : c =< y
  BY <1>2
<1>4. Min({a, b}) = c
  BY DEF Min
<1> HIDE DEF c
<1> QED BY <1>3, <1>4

\* A conversion to int32_t never adds to a number above the least one.
LEMMA Converted ==
  ASSUME NEW x \in Int, NEW y \in ToInt32(x)
  PROVE  /\ y \in Int
         /\ y <= x \/ y = -CreditMax - 1
BY ShaperAssumption DEF ToInt32

\* Waiting for (-c) \div idle ns earns all but the credit of one ns.
LEMMA WaitEarns ==
  ASSUME NEW idle \in Nat \ {0}, NEW c \in Int, c < 0
  PROVE  /\ (-c) \div idle \in Nat
         /\ -c <= idle * ((-c) \div idle) + idle
<1> DEFINE b == -c
           w == b \div idle
           r == b % idle
<1>1. b \in Nat
  OBVIOUS
<1> HIDE DEF b
<1>2. w \in Int /\ r \in Int /\ 0 <= r /\ r < idle /\ b = idle * w + r
  BY <1>1
<1>3. w >= 0
  BY <1>1
<1> HIDE DEF w, r
<1>4. b <= idle * w + idle
  <2>1. idle * w \in Int
    BY <1>2
  <2> QED BY <1>1, <1>2, <2>1
<1>5. w \in Nat
  BY <1>2, <1>3
<1> QED BY <1>4, <1>5 DEF b, w

\* The time a frame takes.
LEMMA SendingTime ==
  ASSUME NEW bytes \in Nat
  PROVE  BytesToNs(bytes) \in Nat
<1>1. MinBytes \in Nat /\ NsPerByte \in Nat
  BY QosAssumption
<1>2. Max({bytes, MinBytes}) \in Nat
  <2> DEFINE m == Max({bytes, MinBytes})
  <2>1. m \in {bytes, MinBytes}
    BY <1>1, MaxOfTwo
  <2> HIDE DEF m
  <2>2. m \in Nat
    BY <1>1, <2>1
  <2> QED BY <2>2 DEF m
<1> QED BY <1>1, <1>2 DEF BytesToNs

----------------------------------------------------------------------------
(* spend_qav_credit. *)

\* What one frame of d ns costs a shaped class: its credit is limited by what it had
\* and earned, or has reached loCredit.
LEMMA Charged ==
  ASSUME NEW q \in QavStates, Sloped(q), NEW at \in Int, NEW bytes \in Nat,
         q.enabled, at >= q.last, at >= q.avail,
         NEW q2 \in SpendQavCredit(q, at, bytes)
  PROVE  \E e \in Int, c \in Int :
           /\ e <= q.hi
           /\ e <= q.credit + (at - q.last) * q.idle
              \/ q.credit + (at - q.last) * q.idle < -CreditMax - 1
           /\ q.lo <= c
           /\ c = q.lo \/ c <= e + BytesToNs(bytes) * q.send
           /\ q2 = SentUntil(q, c, at + BytesToNs(bytes))
<1> DEFINE d == BytesToNs(bytes)
           x == q.credit + (at - q.last) * q.idle
<1>1. d \in Nat
  BY SendingTime
<1>2. /\ q.last \in Int /\ q.avail \in Int /\ q.idle \in Int /\ q.send \in Int /\ q.credit \in Int
      /\ q.lo \in Int /\ q.hi \in Int
  BY DEF QavStates
<1>3. x \in Int
  BY <1>2
<1>4. PICK e0 \in ToInt32(x) : \E c0 \in ToInt32(Min({e0, q.hi}) + d * q.send) :
        q2 = SentUntil(q, Max({c0, q.lo}), at + d)
  <2>1. ~(~q.enabled \/ at < q.last \/ at < q.avail)
    BY <1>2
  <2>2. q2 \in UNION {{SentUntil(q, Max({c0, q.lo}), at + d) :
                         c0 \in ToInt32(Min({e0, q.hi}) + d * q.send)} : e0 \in ToInt32(x)}
    BY <2>1 DEF SpendQavCredit
  <2> QED BY <2>2
<1> PICK c0 \in ToInt32(Min({e0, q.hi}) + d * q.send) :
            q2 = SentUntil(q, Max({c0, q.lo}), at + d)
  BY <1>4
<1> DEFINE e == Min({e0, q.hi})
           c == Max({c0, q.lo})
<1> HIDE DEF d, x
<1>5. e0 \in Int /\ (e0 <= x \/ e0 = -CreditMax - 1)
  BY <1>3, Converted
<1>6. e \in {e0, q.hi} /\ e <= e0 /\ e <= q.hi
  BY <1>2, <1>5, MinOfTwo
<1>7. e \in Int
  BY <1>2, <1>5, <1>6
<1>8. e <= x \/ x < -CreditMax - 1
  BY <1>3, <1>5, <1>6, <1>7, ShaperAssumption
<1> HIDE DEF e
<1>9. e + d * q.send \in Int
  BY <1>1, <1>2, <1>7
<1>10. c0 \in ToInt32(e + d * q.send)
  BY DEF e
<1>11. c0 \in Int /\ (c0 <= e + d * q.send \/ c0 = -CreditMax - 1)
  BY <1>9, <1>10, Converted
<1>12. c \in {c0, q.lo} /\ c >= c0 /\ c >= q.lo
  BY <1>2, <1>11, MaxOfTwo
<1>13. c \in Int
  BY <1>2, <1>11, <1>12
<1> HIDE DEF c
<1>14. c = q.lo \/ c <= e + d * q.send
  <2>1. -CreditMax - 1 <= q.lo /\ CreditMax \in Nat
    BY ShaperAssumption DEF Sloped
  <2> QED BY <1>2, <1>9, <1>11, <1>12, <1>13, <2>1
<1>15. q2 = SentUntil(q, c, at + d)
  BY DEF c
<1>16. q.lo <= c
  BY <1>2, <1>12, <1>13
<1> QED BY <1>6, <1>7, <1>8, <1>13, <1>14, <1>15, <1>16 DEF d, x

\* The bookkeeping of the model: a frame of d ns that is ready at `at'.
Using(u, at, d) == [since |-> IF u.n = 0 THEN at ELSE u.since,
                    sent |-> u.sent + d, n |-> u.n + 1, longest |-> Max({u.longest, d})]

\* The longest frame.
LEMMA UsingTypes ==
  ASSUME NEW u \in UsedStates, NEW at \in Int, NEW d \in Nat
  PROVE  /\ Using(u, at, d) \in UsedStates
         /\ Using(u, at, d).longest >= u.longest /\ Using(u, at, d).longest >= d
<1> DEFINE m == Max({u.longest, d})
<1>1. u.longest \in Nat /\ u.since \in Int /\ u.sent \in Nat /\ u.n \in Nat
  BY DEF UsedStates
<1>2. m \in {u.longest, d} /\ m >= u.longest /\ m >= d
  <2>1. u.longest \in Int /\ d \in Int
    BY <1>1
  <2> QED BY ONLY <2>1, MaxOfTwo
<1> HIDE DEF m
<1>3. m \in Nat
  BY <1>1, <1>2
<1>4. Using(u, at, d) = [since |-> IF u.n = 0 THEN at ELSE u.since,
                         sent |-> u.sent + d, n |-> u.n + 1, longest |-> m]
  BY DEF Using, m
<1> QED BY <1>1, <1>2, <1>3, <1>4 DEF UsedStates

\* The arithmetic of one frame, S being what a ns of sending costs.  A is the allowance
\* before the frame and W what was earned since the last one.
LEMMA FrameCovered ==
  ASSUME NEW sentS \in Int, NEW dS \in Int, NEW longS \in Int, NEW A \in Int, NEW W \in Int,
         NEW K \in Int, NEW idle \in Int, NEW credit \in Int, NEW e \in Int, NEW c \in Int,
         NEW lo \in Int,
         sentS + credit <= A, e <= credit + W, -credit <= W + idle,
         c = lo \/ c <= e - dS,
         dS < K - lo, dS <= longS, K >= 0, idle >= 0
  PROVE  /\ sentS + dS <= (A + W + (K + idle)) + longS
         /\ (sentS + dS) + c <= A + W + (K + idle)
OBVIOUS

\* The arithmetic of the first frame since the credit was configured.
LEMMA FirstCovered ==
  ASSUME NEW dS \in Int, NEW longS \in Int, NEW hi \in Int, NEW K \in Int, NEW idle \in Int,
         NEW e \in Int, NEW c \in Int, NEW lo \in Int,
         e <= hi, hi >= 0, c = lo \/ c <= e - dS, dS < K - lo, dS <= longS, K >= 0, idle >= 0
  PROVE  /\ dS <= (hi + (K + idle)) + longS
         /\ dS + c <= hi + (K + idle)
OBVIOUS

\* The allowance grows with the time in which the class did not send, and by the
\* roundings of the frame.
LEMMA AllowanceGrows ==
  ASSUME NEW idle \in Int, NEW k \in Int, NEW hi \in Int, NEW last \in Int, NEW since \in Int,
         NEW sent \in Int, NEW n \in Int, NEW at \in Int, NEW d \in Int
  PROVE  hi + idle * ((at + d) - since - (sent + d)) + (n + 1) * k
           = (hi + idle * (last - since - sent) + n * k) + idle * (at - last) + k
<1>1. (at + d) - since - (sent + d) = (last - since - sent) + (at - last)
  OBVIOUS
<1> DEFINE y == last - since - sent
           z == at - last
<1>2. y \in Int /\ z \in Int
  OBVIOUS
<1> HIDE DEF y, z
<1>3. idle * (y + z) = idle * y + idle * z /\ idle * y \in Int /\ idle * z \in Int
  BY <1>2
<1>4. (n + 1) * k = n * k + k /\ n * k \in Int
  OBVIOUS
<1>5. idle * ((at + d) - since - (sent + d)) = idle * y + idle * z
  BY <1>1, <1>3 DEF y, z
<1> DEFINE a == idle * y
           b == idle * z
           m == n * k
<1>6. a \in Int /\ b \in Int /\ m \in Int
  BY <1>3, <1>4
<1>7. /\ idle * ((at + d) - since - (sent + d)) = a + b
      /\ (n + 1) * k = m + k
  BY <1>4, <1>5
<1> HIDE DEF a, b, m
<1>8. hi + (a + b) + (m + k) = (hi + a + m) + b + k
  BY <1>6
<1>9. hi + idle * ((at + d) - since - (sent + d)) + (n + 1) * k
        = (hi + a + m) + b + k
  BY <1>7, <1>8
<1> QED BY <1>9 DEF a, b, m, y, z

\* A class that is not shaped is left alone.
LEMMA Unshaped ==
  ASSUME NEW q, NEW at, NEW bytes, ~q.enabled, NEW q2 \in SpendQavCredit(q, at, bytes)
  PROVE  q2 = q
BY DEF SpendQavCredit

\* The fields of a class that has sent until `end' and is left with credit c.
LEMMA SentFields ==
  ASSUME NEW q \in QavStates, Sloped(q), NEW c \in Int, NEW end \in Int
  PROVE  LET r == SentUntil(q, c, end)
         IN  /\ r \in QavStates
             /\ r.enabled = q.enabled /\ r.idle = q.idle /\ r.send = q.send
             /\ r.hi = q.hi /\ r.lo = q.lo
             /\ r.credit = c /\ r.last = end
             /\ end <= r.avail
             /\ -c <= q.idle * (r.avail - end) + q.idle
<1> DEFINE w == IF c < 0 THEN (-c) \div q.idle ELSE 0
           r == SentUntil(q, c, end)
<1>1. q.idle \in Nat \ {0}
  BY DEF Sloped
<1>2. w \in Nat /\ -c <= q.idle * w + q.idle
  <2>1. CASE c < 0
    BY <1>1, <2>1, WaitEarns
  <2>2. CASE ~(c < 0)
    BY <1>1, <2>2
  <2> QED BY <2>1, <2>2
<1>3. r.avail = end + w
  <2>1. CASE c < 0
    BY <2>1 DEF SentUntil, QavStates
  <2>2. CASE ~(c < 0)
    BY <2>2 DEF SentUntil, QavStates
  <2> QED BY <2>1, <2>2
<1>4. /\ r.enabled = q.enabled /\ r.idle = q.idle /\ r.send = q.send
      /\ r.hi = q.hi /\ r.lo = q.lo
      /\ r.credit = c /\ r.last = end
  BY DEF SentUntil, QavStates
<1> HIDE DEF w
<1>5. r \in QavStates
  <2> DEFINE v == IF c < 0 THEN end + ((-c) \div q.idle) ELSE end
  <2>1. v \in Int
    BY <1>2 DEF w
  <2> HIDE DEF v
  <2>2. r = [q EXCEPT !.credit = c, !.last = end, !.avail = v]
    BY DEF SentUntil, v
  <2> QED BY <2>1, <2>2 DEF QavStates
<1> HIDE DEF r
<1>6. r.avail - end = w /\ end <= r.avail
  BY <1>2, <1>3
<1> QED BY <1>2, <1>4, <1>5, <1>6 DEF r

\* spend_qav_credit keeps the books of the class.
LEMMA SpendKeeps ==
  ASSUME NEW q \in QavStates, NEW u \in UsedStates, ClassOK(q, u),
         NEW at \in Int, q.enabled => at >= q.avail, NEW bytes \in Nat,
         NEW q2 \in SpendQavCredit(q, at, bytes),
         NEW u2, u2 = Using(u, at, BytesToNs(bytes))
  PROVE  q2 \in QavStates /\ ClassOK(q2, u2)
<1>1. CASE ~q.enabled
  <2>1. q2 = q
    BY <1>1, Unshaped
  <2>2. u2.n # 0
    BY DEF Using, UsedStates
  <2> QED BY <1>1, <2>1, <2>2 DEF ClassOK
<1>2. CASE q.enabled
  <2> DEFINE d == BytesToNs(bytes)
  <2>1. d \in Nat /\ u2 = Using(u, at, d)
    BY SendingTime
  <2> HIDE DEF d
  <2>2. /\ q.last \in Int /\ q.avail \in Int /\ q.idle \in Nat \ {0} /\ q.send \in Int
        /\ q.credit \in Int /\ q.lo \in Int /\ q.hi \in Int
        /\ Sloped(q) /\ q.send <= 0 /\ q.hi >= 0 /\ -CreditMax - 1 <= q.lo
    BY <1>2 DEF ClassOK, QavStates, Sloped
  <2>3. at >= q.avail /\ at >= q.last
    BY <1>2, <2>2 DEF ClassOK
  <2>4. PICK e \in Int, c \in Int :
          /\ e <= q.hi
          /\ e <= q.credit + (at - q.last) * q.idle
             \/ q.credit + (at - q.last) * q.idle < -CreditMax - 1
          /\ q.lo <= c
          /\ c = q.lo \/ c <= e + d * q.send
          /\ q2 = SentUntil(q, c, at + d)
    BY <1>2, <2>2, <2>3, Charged DEF d
  <2>5. /\ q2 \in QavStates
        /\ q2.enabled = q.enabled /\ q2.idle = q.idle /\ q2.send = q.send
        /\ q2.hi = q.hi /\ q2.lo = q.lo
        /\ q2.credit = c /\ q2.last = at + d
        /\ at + d <= q2.avail
        /\ -c <= q.idle * (q2.avail - (at + d)) + q.idle
    <3>1. at + d \in Int
      BY <2>1
    <3> QED BY <2>2, <2>4, <3>1, SentFields
  <2>6. /\ u2.sent = u.sent + d /\ u2.n = u.n + 1 /\ u2.longest \in Nat
        /\ u2.since = (IF u.n = 0 THEN at ELSE u.since)
        /\ u2.longest >= u.longest /\ u2.longest >= d
        /\ u.longest \in Nat /\ u.since \in Int /\ u.sent \in Nat /\ u.n \in Nat
    BY <2>1, UsingTypes DEF Using, UsedStates
  <2>7. CreditLeft(q2)
    BY <2>4, <2>5 DEF CreditLeft
  <2>8. Sloped(q2)
    BY <2>2, <2>5 DEF Sloped
  <2>9. ASSUME KeepsMaxFrame(q2, u2) PROVE Covered(q2, u2)
    <3> DEFINE S == -q.send
               K == Kilo
               k == K + q.idle
               dS == d * S
               longS == u2.longest * S
               W == q.idle * (at - q.last)
    <3>1. S \in Nat /\ K \in Nat /\ k \in Nat
      BY <2>2, ShaperAssumption
    <3>2. longS < K - q.lo
      BY <2>5, <2>9 DEF KeepsMaxFrame
    <3>3. d * q.send = -(d * S)
      BY <2>1, <2>2
    <3> HIDE DEF S, K, k
    <3>4. dS \in Int /\ longS \in Int /\ W \in Int
      BY <2>1, <2>2, <2>6, <3>1
    <3>5. dS <= longS /\ u.longest * S <= longS /\ u.longest * S \in Int
      BY <2>1, <2>6, <3>1
    <3> HIDE DEF dS, longS, W
    <3>6. dS < K - q.lo /\ (c = q.lo \/ c <= e - dS)
      <4>1. c = q.lo \/ c <= e - dS
        BY <2>4, <3>3, <3>4 DEF dS
      <4> QED BY <2>2, <3>1, <3>2, <3>4, <3>5, <4>1
    <3>7. CASE u.n = 0
      <4>1. u2.sent = d /\ u2.n = 1 /\ u2.since = at
        BY <2>1, <2>6, <3>7 DEF ClassOK
      <4>2. Allowance(q2, u2) = q.hi + k
        <5>1. (at + d) - at - d = 0
          BY <2>1
        <5>2. Allowance(q2, u2) = q.hi + q.idle * ((at + d) - at - d) + 1 * k
          BY <2>5, <4>1 DEF Allowance, k, K
        <5> QED BY <2>2, <3>1, <5>1, <5>2
      <4>3. /\ dS <= (q.hi + (K + q.idle)) + longS
            /\ dS + c <= q.hi + (K + q.idle)
        BY <2>2, <2>4, <3>1, <3>4, <3>5, <3>6, FirstCovered
      <4>4. u2.sent * (-q2.send) = dS /\ u2.longest * (-q2.send) = longS /\ q2.credit = c
        BY <2>5, <4>1 DEF dS, longS, S
      <4> QED BY <4>2, <4>3, <4>4 DEF Covered, k
    <3>8. CASE u.n # 0
      <4> DEFINE A == Allowance(q, u)
                 sentS == u.sent * S
      <4>1. A \in Int /\ sentS \in Int
        BY <2>2, <2>6, <3>1 DEF Allowance, K
      <4>2. CreditLeft(q)
        BY <1>2, <2>6, <3>8 DEF ClassOK
      <4>3. sentS + q.credit <= A
        <5>1. u.longest * S < K - q.lo
          BY <2>2, <3>1, <3>2, <3>4, <3>5
        <5>2. KeepsMaxFrame(q, u)
          BY <5>1 DEF KeepsMaxFrame, S, K
        <5>3. Covered(q, u)
          BY <1>2, <2>6, <3>8, <5>2 DEF ClassOK
        <5> QED BY <5>3 DEF Covered, S
      <4>4. -q.credit <= W + q.idle /\ W >= 0
        <5> DEFINE w == q.avail - q.last
                   v == at - q.last
        <5>1. w \in Nat /\ v \in Nat /\ w <= v
          BY <2>2, <2>3 DEF ClassOK
        <5> HIDE DEF w, v
        <5>2. q.idle * w <= q.idle * v /\ q.idle * w \in Nat /\ q.idle * v \in Nat
          BY <2>2, <5>1
        <5>3. -q.credit <= q.idle * w + q.idle
          BY <4>2 DEF CreditLeft, w
        <5>4. W = q.idle * v
          BY DEF W, v
        <5> HIDE DEF W
        <5>5. -q.credit <= W + q.idle
          <6> DEFINE x == q.idle * w
          <6>1. x \in Nat /\ x <= W /\ -q.credit <= x + q.idle
            BY <5>2, <5>3, <5>4
          <6> HIDE DEF x
          <6> QED BY <2>2, <3>4, <6>1
        <5> QED BY <5>2, <5>4, <5>5
      <4>5. e <= q.credit + W
        <5>1. (at - q.last) * q.idle = W
          BY <2>2 DEF W
        <5>2. e <= q.credit + W \/ q.credit + W < -CreditMax - 1
          BY <2>4, <5>1
        <5>3. q.lo <= q.credit
          BY <4>2 DEF CreditLeft
        <5> QED BY <2>2, <3>4, <4>4, <5>2, <5>3, ShaperAssumption
      <4>6. Allowance(q2, u2) = A + W + k
        <5>1. u2.sent = u.sent + d /\ u2.n = u.n + 1 /\ u2.since = u.since
          BY <2>6, <3>8
        <5>2. Allowance(q2, u2) = q.hi + q.idle * ((at + d) - u.since - (u.sent + d)) + (u.n + 1) * k
          BY <2>5, <5>1 DEF Allowance, k, K
        <5>3. A = q.hi + q.idle * (q.last - u.since - u.sent) + u.n * k
          BY DEF Allowance, k, K
        <5>4. /\ q.idle \in Int /\ k \in Int /\ q.hi \in Int /\ q.last \in Int /\ u.since \in Int
              /\ u.sent \in Int /\ u.n \in Int /\ at \in Int /\ d \in Int
          BY <2>1, <2>2, <2>6, <3>1
        <5>5. q.hi + q.idle * ((at + d) - u.since - (u.sent + d)) + (u.n + 1) * k
                = (q.hi + q.idle * (q.last - u.since - u.sent) + u.n * k)
                    + q.idle * (at - q.last) + k
          BY ONLY <5>4, AllowanceGrows
        <5> HIDE DEF A
        <5> QED BY <5>2, <5>3, <5>5 DEF W
      <4>7. u2.sent * (-q2.send) = sentS + dS /\ u2.longest * (-q2.send) = longS /\ q2.credit = c
        <5>1. (u.sent + d) * S = u.sent * S + d * S
          BY <2>1, <2>6, <3>1
        <5>2. u2.sent = u.sent + d /\ -q2.send = S
          BY <2>5, <2>6 DEF S
        <5> QED BY <2>5, <5>1, <5>2 DEF dS, longS
      <4> HIDE DEF A, sentS
      <4>8. /\ sentS + dS <= (A + W + (K + q.idle)) + longS
            /\ (sentS + dS) + c <= A + W + (K + q.idle)
        <5>1. K \in Int /\ q.idle \in Int /\ K >= 0 /\ q.idle >= 0
          BY <2>2, <3>1
        <5> QED BY ONLY <2>2, <3>4, <3>5, <3>6, <4>1, <4>3, <4>4, <4>5, <5>1, FrameCovered,
                        e \in Int, c \in Int
      <4> QED BY <4>6, <4>7, <4>8 DEF Covered, k
    <3> QED BY <3>7, <3>8
  <2>10. u2.n # 0
    BY <2>6
  <2> QED BY <1>2, <2>5, <2>7, <2>8, <2>9, <2>10 DEF ClassOK
<1> QED BY <1>1, <1>2

----------------------------------------------------------------------------
(* start_xmit. *)

\* The books of all classes.
BooksOK ==
  /\ qav \in [TCs -> QavStates]
  /\ used \in [TCs -> UsedStates]
  /\ \A tc \in TCs : ClassOK(qav[tc], used[tc])

\* The length of a frame, and of the frame that comes back with a header more.
LEMMA LengthNat ==
  ASSUME NEW skb, skb.bytes \in Nat
  PROVE  Length(skb) \in Nat
<1> DEFINE m == Max({MinBytes, skb.bytes})
<1>1. MinBytes \in Int /\ skb.bytes \in Int /\ MinBytes \in Nat
  BY QosAssumption
<1>2. m \in {MinBytes, skb.bytes}
  BY ONLY <1>1, MaxOfTwo
<1> HIDE DEF m
<1>3. m \in Nat
  BY <1>1, <1>2
<1> QED BY <1>3 DEF Length, m

\* The frames the stack offers, and those that are put back.
LEMMA FramesOK ==
  ASSUME CreditInv, NEW skb \in Offered
  PROVE  /\ SkbOK(skb)
         /\ SkbOK(Pushed(skb))
         /\ \A h \in PushedFilled(skb) : SkbOK(h)
<1>1. SkbOK(skb)
  <2>1. CASE held # NoSkb
    BY <2>1 DEF Offered, CreditInv
  <2>2. CASE held = NoSkb
    <3>1. PICK f \in Frames : skb = [prio |-> f.prio, gptp |-> f.gptp, bytes |-> f.bytes]
      BY <2>2 DEF Offered
    <3> QED BY <3>1, ShaperAssumption DEF SkbOK
  <2> QED BY <2>1, <2>2
<1>2. Length(skb) + MetaSize \in Nat
  BY <1>1, LengthNat, QosAssumption DEF SkbOK
<1>3. SkbOK(Pushed(skb))
  BY <1>2, ShaperAssumption DEF SkbOK, Pushed
<1>4. ASSUME NEW h \in PushedFilled(skb) PROVE SkbOK(h)
  <2>1. PICK f \in Frames : h = [Pushed(skb) EXCEPT !.prio = f.prio, !.gptp = f.gptp]
    BY DEF PushedFilled
  <2>2. h.bytes = Length(skb) + MetaSize /\ h.prio = f.prio
    BY <2>1 DEF Pushed
  <2> QED BY <1>2, <2>2, ShaperAssumption DEF SkbOK
<1> QED BY <1>1, <1>3, <1>4

\* A frame of a shaped class is not ready before the class is available again.
LEMMA ReadyAvailable ==
  ASSUME CreditInv, NEW skb, SkbOK(skb)
  PROVE  /\ TcOf(skb) \in TCs
         /\ Ready(skb) \in Int
         /\ qav[TcOf(skb)].enabled => /\ Ready(skb) >= qav[TcOf(skb)].avail
                                     /\ Ready(skb) >= qav[TcOf(skb)].last
<1> DEFINE q == qav[TcOf(skb)]
           arrived == now + H2CLatency
           allowed == IF q.enabled THEN Max({arrived, q.avail}) ELSE arrived
<1>1. TcOf(skb) \in TCs
  BY DEF CreditInv, SkbOK, TcOf
<1>2. /\ q.avail \in Int /\ q.last \in Int /\ q.last <= q.avail
      /\ arrived \in Int /\ totalAvail \in Int
  BY <1>1, QosAssumption DEF CreditInv, QavStates, ClassOK
<1>3. Ready(skb) = IF BestEffort(skb) /\ ~DontCare(skb) THEN Max({allowed, totalAvail}) ELSE allowed
  BY DEF Ready
<1> HIDE DEF q, arrived
<1>4. allowed \in Int /\ (q.enabled => allowed >= q.avail)
  <2> DEFINE m == Max({arrived, q.avail})
  <2>1. m \in {arrived, q.avail} /\ m >= q.avail
    BY ONLY <1>2, MaxOfTwo
  <2> HIDE DEF m
  <2>2. allowed = IF q.enabled THEN m ELSE arrived
    BY DEF m
  <2> QED BY <1>2, <2>1, <2>2
<1> HIDE DEF allowed
<1>5. Ready(skb) \in Int /\ Ready(skb) >= allowed
  <2> DEFINE m == Max({allowed, totalAvail})
  <2>1. m \in {allowed, totalAvail} /\ m >= allowed
    BY ONLY <1>2, <1>4, MaxOfTwo
  <2>2. Ready(skb) = m \/ Ready(skb) = allowed
    BY <1>3
  <2> HIDE DEF m
  <2> QED BY <1>2, <1>4, <2>1, <2>2
<1>6. q.enabled => Ready(skb) >= q.avail /\ Ready(skb) >= q.last
  BY <1>2, <1>4, <1>5
<1> QED BY <1>1, <1>5, <1>6 DEF q

\* tsn_fill_metadata keeps the books.
LEMMA SpendBooks ==
  ASSUME CreditInv, NEW skb, SkbOK(skb), Spend(skb)
  PROVE  BooksOK' /\ totalAvail' \in Nat
<1> DEFINE tc == TcOf(skb)
           d == BytesToNs(Length(skb))
           u == used[tc]
           at == Ready(skb)
<1>1. tc \in TCs /\ at \in Int /\ (qav[tc].enabled => at >= qav[tc].avail)
  BY ReadyAvailable
<1>2. Length(skb) \in Nat /\ d \in Nat
  BY LengthNat, SendingTime DEF SkbOK
<1>3. PICK q \in SpendQavCredit(qav[tc], at, Length(skb)) : qav' = [qav EXCEPT ![tc] = q]
  BY DEF Spend
<1>4. totalAvail' = totalAvail + d /\ used' = [used EXCEPT ![tc] = Using(u, at, d)]
  BY DEF Spend, Using
<1>5. /\ qav \in [TCs -> QavStates] /\ used \in [TCs -> UsedStates]
      /\ \A t \in TCs : ClassOK(qav[t], used[t])
  BY DEF CreditInv
<1>6. PICK u2 : u2 = Using(u, at, d)
  OBVIOUS
<1>7. u2 \in UsedStates
  BY <1>1, <1>2, <1>5, <1>6, UsingTypes
<1>8. q \in QavStates /\ ClassOK(q, u2)
  <2>1. qav[tc] \in QavStates /\ used[tc] \in UsedStates /\ ClassOK(qav[tc], used[tc])
    BY <1>1, <1>5
  <2> QED BY <1>1, <1>2, <1>3, <1>6, <2>1, SpendKeeps
<1> HIDE DEF tc, d, u, at
<1>9. qav' \in [TCs -> QavStates] /\ used' \in [TCs -> UsedStates]
  BY <1>1, <1>3, <1>4, <1>5, <1>6, <1>7, <1>8
<1>10. ASSUME NEW t \in TCs PROVE ClassOK(qav'[t], used'[t])
  <2>1. CASE t = tc
    <3>1. qav'[t] = q /\ used'[t] = u2
      BY <1>3, <1>4, <1>5, <1>6, <2>1
    <3> QED BY <1>8, <3>1
  <2>2. CASE t # tc
    <3>1. qav'[t] = qav[t] /\ used'[t] = used[t]
      BY <1>3, <1>4, <1>5, <2>2
    <3> QED BY <1>5, <3>1
  <2> QED BY <2>1, <2>2
<1>11. totalAvail' \in Nat
  BY <1>2, <1>4 DEF CreditInv
<1> QED BY <1>9, <1>10, <1>11 DEF BooksOK

----------------------------------------------------------------------------
(* The other steps. *)

\* tsn_set_qav starts the books of the class anew.
LEMMA SetQavBooks ==
  ASSUME CreditInv, NEW tc \in TCs, NEW on \in BOOLEAN, NEW o \in Offloads, SetQav(tc, on, o)
  PROVE  BooksOK'
<1> DEFINE s == QavSlopes(o)
<1>1. PICK q : q = [qav[tc] EXCEPT !.enabled = on, !.idle = s.idle, !.send = s.send,
                                  !.hi = s.hi, !.lo = s.lo]
  OBVIOUS
<1>2. qav' = [qav EXCEPT ![tc] = q]
  <2>1. qav' = [qav EXCEPT ![tc] = [qav[tc] EXCEPT !.enabled = on, !.idle = s.idle,
                                     !.send = s.send, !.hi = s.hi, !.lo = s.lo]]
    BY DEF SetQav
  <2> QED BY <1>1, <2>1
<1>3. used' = [used EXCEPT ![tc] = Unused]
  BY DEF SetQav
<1>4. /\ s.idle \in Nat \ {0} /\ s.send \in Int /\ s.send <= 0 /\ s.hi \in Nat
      /\ s.lo \in Int /\ -CreditMax - 1 <= s.lo
  BY ShaperAssumption
<1> HIDE DEF s
<1>5. /\ qav \in [TCs -> QavStates] /\ used \in [TCs -> UsedStates]
      /\ \A t \in TCs : ClassOK(qav[t], used[t])
  BY DEF CreditInv
<1>6. /\ q \in QavStates
      /\ q.idle = s.idle /\ q.send = s.send /\ q.hi = s.hi /\ q.lo = s.lo
      /\ q.last = qav[tc].last /\ q.avail = qav[tc].avail
  <2>1. qav[tc] \in QavStates
    BY <1>5
  <2>2. q = [enabled |-> on, idle |-> s.idle, send |-> s.send, hi |-> s.hi, lo |-> s.lo,
             credit |-> qav[tc].credit, last |-> qav[tc].last, avail |-> qav[tc].avail]
    BY <1>1, <2>1 DEF QavStates
  <2>3. qav[tc].credit \in Int /\ qav[tc].last \in Int /\ qav[tc].avail \in Int
    BY <2>1 DEF QavStates
  <2>4. q \in QavStates
    BY <1>4, <2>2, <2>3 DEF QavStates
  <2> QED BY <2>2, <2>4
<1>7. Unused \in UsedStates /\ Unused.n = 0 /\ Unused.sent = 0
  BY DEF Unused, UsedStates
<1>8. q.last <= q.avail
  BY <1>5, <1>6 DEF ClassOK
<1>9. Sloped(q)
  BY <1>4, <1>6 DEF Sloped
<1>10. ClassOK(q, Unused)
  BY <1>7, <1>8, <1>9 DEF ClassOK
<1>11. qav' \in [TCs -> QavStates] /\ used' \in [TCs -> UsedStates]
  BY <1>2, <1>3, <1>5, <1>6, <1>7
<1>12. ASSUME NEW t \in TCs PROVE ClassOK(qav'[t], used'[t])
  <2>1. CASE t = tc
    <3>1. qav'[t] = q /\ used'[t] = Unused
      BY <1>2, <1>3, <1>5, <2>1
    <3> QED BY <1>10, <3>1
  <2>2. CASE t # tc
    <3>1. qav'[t] = qav[t] /\ used'[t] = used[t]
      BY <1>2, <1>3, <1>5, <2>2
    <3> QED BY <1>5, <3>1
  <2> QED BY <2>1, <2>2
<1> QED BY <1>11, <1>12 DEF BooksOK

\* Steps that touch neither the books nor a frame.
LEMMA BooksLeft ==
  ASSUME CreditInv, UNCHANGED <<qav, used>>
  PROVE  BooksOK'
BY DEF CreditInv, BooksOK

\* tsn_init_configs shapes no class.
LEMMA CreditInit == Init => CreditInv
<1> SUFFICES ASSUME Init PROVE CreditInv
  OBVIOUS
<1>1. /\ now \in Nat /\ totalAvail \in Nat /\ tcMap \in TcMaps /\ held = NoSkb /\ out = NoOut
      /\ qav = [tc \in TCs |-> ZeroQav] /\ used = [tc \in TCs |-> Unused]
  BY QosAssumption DEF Init
<1>2. ZeroQav \in QavStates /\ Unused \in UsedStates
  BY DEF ZeroQav, QavStates, Unused, UsedStates
<1>3. ClassOK(ZeroQav, Unused)
  BY DEF ClassOK, ZeroQav, Unused
<1> QED BY <1>1, <1>2, <1>3 DEF CreditInv, CreditSpent

\* A configuration command forgets the last frame, and keeps the books or starts them anew.
LEMMA ConfigureBooks ==
  ASSUME CreditInv, Configure
  PROVE  /\ BooksOK' /\ out' = NoOut /\ tcMap' \in TcMaps
         /\ UNCHANGED <<now, totalAvail, held>>
<1>1. CASE \E m \in TcMaps : SetMqprio(m)
  <2>1. /\ UNCHANGED <<qav, used>> /\ out' = NoOut /\ tcMap' \in TcMaps
        /\ UNCHANGED <<now, totalAvail, held>>
    BY <1>1 DEF SetMqprio
  <2> QED BY <2>1, BooksLeft
<1>2. CASE \E tc \in TCs, on \in BOOLEAN, o \in Offloads : SetQav(tc, on, o)
  <2>1. PICK tc \in TCs, on \in BOOLEAN, o \in Offloads : SetQav(tc, on, o)
    BY <1>2
  <2>2. BooksOK'
    BY <2>1, SetQavBooks
  <2>3. out' = NoOut /\ UNCHANGED <<now, totalAvail, held, tcMap>>
    BY <2>1 DEF SetQav, BakeQosConfig
  <2> QED BY <2>2, <2>3 DEF CreditInv
<1>3. CASE (\E s \in Schedules, t \in Starts : SetQbv(s, t)) \/ DestroyQbv
  <2>1. UNCHANGED <<qav, used>> /\ out' = NoOut /\ UNCHANGED <<now, totalAvail, held, tcMap>>
    BY <1>3 DEF SetQbv, DestroyQbv, BakeQosConfig
  <2> QED BY <2>1, BooksLeft DEF CreditInv
<1> QED BY <1>1, <1>2, <1>3 DEF Configure

\* A frame that is filled in was charged.
LEMMA FillSpent ==
  ASSUME CreditInv, NEW skb \in Offered, Fill(skb)
  PROVE  BooksOK' /\ totalAvail' \in Nat /\ CreditSpent'
<1>1. SkbOK(skb) /\ Spend(skb)
  BY FramesOK DEF Fill
<1>2. BooksOK' /\ totalAvail' \in Nat
  BY <1>1, SpendBooks
<1>3. qav[TcOf(skb)].enabled => /\ Ready(skb) >= qav[TcOf(skb)].last
                               /\ Ready(skb) >= qav[TcOf(skb)].avail
  BY <1>1, ReadyAvailable
<1>4. out'.spent
  BY <1>3 DEF Fill
<1> QED BY <1>2, <1>4 DEF CreditSpent

\* Every step keeps the invariant.
LEMMA CreditNext == CreditInv /\ [Next]_vars => CreditInv'
<1> SUFFICES ASSUME CreditInv, [Next]_vars PROVE CreditInv'
  OBVIOUS
<1>0. now \in Nat /\ totalAvail \in Nat /\ tcMap \in TcMaps /\ CreditSpent
  BY DEF CreditInv
<1>1. CASE Configure
  <2>1. CreditSpent'
    BY <1>1, ConfigureBooks DEF CreditSpent
  <2> QED BY <1>1, <2>1, ConfigureBooks DEF CreditInv, BooksOK
<1>2. CASE Xmit
  <2> PICK skb \in Offered : \/ XmitFreed(skb) \/ XmitRefused(skb) \/ XmitFull(skb)
                            \/ XmitSent(skb) \/ XmitUnmapped(skb)
    BY <1>2 DEF Xmit
  <2>0. SkbOK(skb) /\ SkbOK(Pushed(skb)) /\ \A h \in PushedFilled(skb) : SkbOK(h)
    BY FramesOK
  <2>1. CASE XmitFreed(skb) \/ XmitRefused(skb)
    <3>1. UNCHANGED <<now, tcMap, qav, used, totalAvail, out>> /\ held' \in {NoSkb, Pushed(skb)}
      BY <2>1 DEF XmitFreed, XmitRefused, configVars
    <3>2. BooksOK'
      BY <3>1, BooksLeft
    <3> QED BY <1>0, <2>0, <3>1, <3>2 DEF CreditInv, BooksOK, CreditSpent
  <2>2. CASE XmitFull(skb)
    <3>1. UNCHANGED <<now, tcMap, out>> /\ held' \in PushedFilled(skb) /\ Spend(skb)
      BY <2>2 DEF XmitFull
    <3>2. BooksOK' /\ totalAvail' \in Nat
      BY <2>0, <3>1, SpendBooks
    <3> QED BY <1>0, <2>0, <3>1, <3>2 DEF CreditInv, BooksOK, CreditSpent
  <2>3. CASE XmitSent(skb)
    <3>1. UNCHANGED <<now, tcMap>> /\ held' = NoSkb /\ Fill(skb)
      BY <2>3 DEF XmitSent
    <3>2. BooksOK' /\ totalAvail' \in Nat /\ CreditSpent'
      BY <3>1, FillSpent
    <3> QED BY <1>0, <3>1, <3>2 DEF CreditInv, BooksOK
  <2>4. CASE XmitUnmapped(skb)
    <3>1. UNCHANGED <<now, tcMap>> /\ held' \in PushedFilled(skb) /\ Fill(skb)
      BY <2>4 DEF XmitUnmapped
    <3>2. BooksOK' /\ totalAvail' \in Nat /\ CreditSpent'
      BY <3>1, FillSpent
    <3> QED BY <1>0, <2>0, <3>1, <3>2 DEF CreditInv, BooksOK
  <2> QED BY <2>1, <2>2, <2>3, <2>4
<1>3. ASSUME UNCHANGED <<tcMap, qav, used, totalAvail, held, out>>, now' \in Nat
      PROVE  CreditInv'
  <2>1. BooksOK'
    BY <1>3, BooksLeft
  <2> QED BY <1>0, <1>3, <2>1 DEF CreditInv, BooksOK, CreditSpent, SkbOK
<1>4. CASE TxIsr
  BY <1>0, <1>3, <1>4 DEF TxIsr, configVars
<1>5. ASSUME NEW c \in {"be", "tsn"}, HwSends(c) \/ HwDrops(c) PROVE CreditInv'
  BY <1>0, <1>3, <1>5 DEF HwSends, HwDrops, configVars
<1>6. ASSUME NEW d \in Deltas, Tick(d) PROVE CreditInv'
  <2>1. now' = now + d /\ d \in Nat
    BY <1>6, QosAssumption DEF Tick
  <2> QED BY <1>0, <1>3, <1>6, <2>1 DEF Tick, configVars
<1>7. CASE UNCHANGED vars
  BY <1>0, <1>3, <1>7 DEF vars, configVars
<1> QED BY <1>1, <1>2, <1>4, <1>5, <1>6, <1>7 DEF Next

\* The books of spend_qav_credit hold in every behaviour.
THEOREM CreditInvariant == Spec => []CreditInv
BY CreditInit, CreditNext, PTL DEF Spec

\* The error return of spend_qav_credit is never taken: every frame of a shaped class is
\* charged, whatever is reconfigured between two of them.
THEOREM AlwaysCharged == Spec => []CreditSpent
BY CreditInvariant, PTL DEF CreditInv

\* A shaped class never gets more than its bandwidth, a burst and the roundings of
\* tsn_set_qav and spend_qav_credit, however many frames it sends and whatever int32_t
\* makes of a credit that is out of range.
THEOREM BandwidthNeverExceeded == Spec => []BandwidthKept
<1>1. CreditInv => BandwidthKept
  <2> SUFFICES ASSUME CreditInv, NEW tc \in TCs,
                      qav[tc].enabled, used[tc].n > 0, KeepsMaxFrame(qav[tc], used[tc])
               PROVE  LET u == used[tc]
                          q == qav[tc]
                      IN  u.sent * (-q.send) <=
                            q.hi + q.idle * (q.last - u.since - u.sent)
                                 + u.longest * (-q.send) + u.n * (Kilo + q.idle)
    BY DEF BandwidthKept, KeepsMaxFrame
  <2> DEFINE u == used[tc]
             q == qav[tc]
             a == u.sent * (-q.send)
             b == q.idle * (q.last - u.since - u.sent)
             l == u.longest * (-q.send)
             r == u.n * (Kilo + q.idle)
  <2>1. a <= (q.hi + b + r) + l
    BY DEF CreditInv, ClassOK, Covered, Allowance
  <2>2. q \in QavStates /\ u \in UsedStates
    BY DEF CreditInv
  <2>3. q.hi \in Int /\ a \in Int /\ b \in Int /\ l \in Int /\ r \in Int
    BY <2>2, ShaperAssumption DEF QavStates, UsedStates
  <2> HIDE DEF a, b, l, r
  <2>4. a <= q.hi + b + l + r
    BY <2>1, <2>3
  <2> QED BY <2>4 DEF a, b, l, r
<1> QED BY <1>1, CreditInvariant, PTL

----------------------------------------------------------------------------
(* What calc_credits of the library gives the driver. *)

\* Division with remainder.
LEMMA DivSplit ==
  ASSUME NEW a \in Int, NEW b \in Nat \ {0}
  PROVE  /\ a \div b \in Int
         /\ b * (a \div b) <= a /\ a < b * (a \div b) + b
<1>1. a \div b \in Int /\ a % b \in 0 .. (b - 1) /\ a = b * (a \div b) + (a % b)
  OBVIOUS
<1> DEFINE p == b * (a \div b)
           r == a % b
<1>2. p \in Int /\ r \in Int /\ 0 <= r /\ r < b /\ a = p + r
  BY <1>1
<1> HIDE DEF p, r
<1>3. p <= a /\ a < p + b
  BY <1>2
<1> QED BY <1>1, <1>3 DEF p

\* A quotient lies between the numbers whose multiples enclose the dividend.
LEMMA DivBetween ==
  ASSUME NEW a \in Int, NEW b \in Nat \ {0}, NEW m \in Int, NEW n \in Int,
         b * m <= a, a < b * (n + 1)
  PROVE  a \div b \in Int /\ m <= a \div b /\ a \div b <= n
<1> DEFINE k == a \div b
<1>1. k \in Int /\ b * k <= a /\ a < b * k + b
  BY DivSplit
<1> HIDE DEF k
<1>2. m <= k
  <2> SUFFICES ASSUME k + 1 <= m PROVE FALSE
    BY <1>1
  <2>1. b * (k + 1) <= b * m /\ b * (k + 1) = b * k + b /\ b * k \in Int /\ b * m \in Int
    BY <1>1
  <2> QED BY <1>1, <2>1
<1>3. k <= n
  <2> SUFFICES ASSUME n + 1 <= k PROVE FALSE
    BY <1>1
  <2>1. b * (n + 1) <= b * k /\ b * (n + 1) \in Int /\ b * k \in Int
    BY <1>1
  <2> QED BY <1>1, <2>1
<1> QED BY <1>1, <1>2, <1>3 DEF k

\* The signs of a quotient.
LEMMA DivSign ==
  ASSUME NEW a \in Int, NEW b \in Nat \ {0}
  PROVE  /\ a >= 0 => a \div b \in Nat
         /\ a <= 0 => a \div b \in Int /\ a \div b <= 0
         /\ a >= b => a \div b \in Nat \ {0}
<1> DEFINE k == a \div b
<1>1. k \in Int /\ b * k <= a /\ a < b * k + b
  BY DivSplit
<1> HIDE DEF k
<1>2. a >= 0 => k >= 0
  <2> SUFFICES ASSUME a >= 0, k + 1 <= 0 PROVE FALSE
    BY <1>1
  <2>1. b * (k + 1) <= 0 /\ b * (k + 1) = b * k + b /\ b * k \in Int
    BY <1>1
  <2> QED BY <1>1, <2>1
<1>3. a <= 0 => k <= 0
  <2> SUFFICES ASSUME a <= 0, k >= 1 PROVE FALSE
    BY <1>1
  <2>1. b * k > 0 /\ b * k \in Int
    BY <1>1
  <2> QED BY <1>1, <2>1
<1>4. a >= b => k # 0
  <2> SUFFICES ASSUME a >= b, k = 0 PROVE FALSE
    OBVIOUS
  <2>1. b * k = 0
    BY <1>1
  <2> QED BY <1>1, <2>1
<1>5. /\ a >= 0 => k \in Nat
      /\ a <= 0 => k \in Int /\ k <= 0
      /\ a >= b => k \in Nat \ {0}
  BY <1>1, <1>2, <1>3, <1>4
<1> QED BY <1>5 DEF k

\* How far below zero a quotient gets.
LEMMA NegativeQuotient ==
  ASSUME NEW x \in Int, NEW b \in Nat \ {0}, NEW n \in Nat, x <= 0, -(b * n) <= x
  PROVE  /\ x \div b \in Int /\ x \div b <= 0
         /\ -n <= x \div b
<1>1. b * (-n) = -(b * n) /\ -n \in Int
  OBVIOUS
<1>2. b * (-n) <= x /\ x < b * (0 + 1)
  BY <1>1
<1> QED BY <1>1, <1>2, DivBetween

\* The slopes and limits tsn_set_qav makes of what calc_credits gives for a class of at
\* least 1 Mbit/s and at most the speed of the link, whose longest frame has maxFrame bits,
\* are those ShaperAssumption asks for: hi_credit and lo_credit fit into an int32_t.
THEOREM CalculatedCreditsFit ==
  ASSUME NEW bandwidth \in Nat, NEW maxFrame \in Nat, NEW linkspeed \in Nat \ {0},
         Kilo * Kilo <= bandwidth, bandwidth <= linkspeed,
         maxFrame * Kilo <= CreditMax
  PROVE  LET s == QavSlopes(CalcCredits(bandwidth, maxFrame, linkspeed))
         IN  /\ s.idle \in Nat \ {0}
             /\ s.send \in Int /\ s.send <= 0
             /\ s.hi \in 0 .. CreditMax
             /\ s.lo \in Int /\ -CreditMax - 1 <= s.lo
<1>0. Kilo \in Nat \ {0} /\ CreditMax \in Nat
  BY ShaperAssumption
<1> DEFINE c == CalcCredits(bandwidth, maxFrame, linkspeed)
<1>1. TruncDiv(c.idleslope, Kilo) \in Nat \ {0}
  <2> DEFINE i == bandwidth \div Kilo
  <2>1. i \in Int /\ Kilo <= i
    <3>1. Kilo * Kilo <= bandwidth /\ bandwidth < Kilo * (bandwidth + 1)
      BY <1>0
    <3> QED BY <1>0, <3>1, DivBetween
  <2>2. c.idleslope = i
    BY DEF CalcCredits, FloorDiv
  <2> HIDE DEF i
  <2>3. i \div Kilo \in Nat \ {0} /\ i >= 0
    BY <1>0, <2>1, DivSign
  <2> QED BY <2>2, <2>3 DEF TruncDiv
<1>2. TruncDiv(c.sendslope, Kilo) \in Int /\ TruncDiv(c.sendslope, Kilo) <= 0
  <2> DEFINE x == bandwidth - linkspeed
             y == x \div Kilo
  <2>1. x \in Int /\ x <= 0
    OBVIOUS
  <2>2. c.sendslope = y
    BY DEF CalcCredits, FloorDiv
  <2> HIDE DEF x
  <2>3. y \in Int /\ y <= 0
    BY <1>0, <2>1, DivSign
  <2> HIDE DEF y
  <2>4. -y \in Int /\ -y >= 0
    BY <2>3
  <2>5. (-y) \div Kilo \in Nat /\ (y >= 0 => y \div Kilo \in Int /\ y \div Kilo <= 0)
    BY <1>0, <2>3, <2>4, DivSign
  <2>6. TruncDiv(y, Kilo) \in Int /\ TruncDiv(y, Kilo) <= 0
    BY <2>3, <2>5 DEF TruncDiv
  <2> QED BY <2>2, <2>6
<1>3. c.hicredit \in Nat /\ c.hicredit <= maxFrame
  <2> DEFINE x == -(bandwidth * maxFrame)
  <2>1. bandwidth * maxFrame \in Nat /\ bandwidth * maxFrame <= linkspeed * maxFrame
    OBVIOUS
  <2>2. c.hicredit = -(x \div linkspeed)
    BY DEF CalcCredits, CeilDiv
  <2>3. x \in Int /\ x <= 0 /\ -(linkspeed * maxFrame) <= x
    BY <2>1
  <2> HIDE DEF x
  <2>4. x \div linkspeed \in Int /\ x \div linkspeed <= 0 /\ -maxFrame <= x \div linkspeed
    BY <2>3, NegativeQuotient
  <2> QED BY <2>2, <2>4
<1>4. c.locredit \in Int /\ -maxFrame <= c.locredit
  <2> DEFINE x == -((bandwidth - linkspeed) * maxFrame)
             y == x \div linkspeed
  <2>1. x \in Int /\ 0 <= x /\ x < linkspeed * (maxFrame + 1)
    <3> DEFINE g == linkspeed - bandwidth
    <3>1. g \in Nat /\ g <= linkspeed
      OBVIOUS
    <3>2. x = g * maxFrame
      OBVIOUS
    <3> HIDE DEF g
    <3>3. /\ g * maxFrame \in Nat /\ g * maxFrame <= linkspeed * maxFrame
          /\ linkspeed * maxFrame \in Nat
          /\ linkspeed * (maxFrame + 1) = linkspeed * maxFrame + linkspeed
      BY <3>1
    <3> HIDE DEF x
    <3> QED BY <3>2, <3>3
  <2>2. c.locredit = -y
    BY DEF CalcCredits, CeilDiv
  <2> HIDE DEF x
  <2>3. y \in Int /\ y <= maxFrame
    <3>1. linkspeed * 0 <= x /\ 0 \in Int /\ maxFrame \in Int
      BY <2>1
    <3> QED BY <2>1, <3>1, DivBetween
  <2> HIDE DEF y
  <2> QED BY <2>2, <2>3
<1> DEFINE s == QavSlopes(c)
<1>5. /\ s.idle = TruncDiv(c.idleslope, Kilo) /\ s.send = TruncDiv(c.sendslope, Kilo)
      /\ s.hi = c.hicredit * Kilo /\ s.lo = c.locredit * Kilo
  BY DEF QavSlopes
<1> HIDE DEF c
<1>6. s.hi \in 0 .. CreditMax
  <2>1. c.hicredit * Kilo \in Nat /\ c.hicredit * Kilo <= maxFrame * Kilo /\ maxFrame * Kilo \in Nat
    BY <1>0, <1>3
  <2> QED BY <1>0, <1>5, <2>1
<1>7. s.lo \in Int /\ -CreditMax - 1 <= s.lo
  <2>1. (-maxFrame) * Kilo <= c.locredit * Kilo /\ c.locredit * Kilo \in Int
    BY <1>0, <1>4
  <2>2. (-maxFrame) * Kilo = -(maxFrame * Kilo) /\ maxFrame * Kilo \in Int
    BY <1>0
  <2> QED BY <1>0, <1>5, <2>1, <2>2
<1> QED BY <1>1, <1>2, <1>5, <1>6, <1>7 DEF c

\* The same for the credits calc_credits gives class b, whose hiCredit makes room for the
\* frames of class a: as long as the two classes ask for no more than the link has, and
\* the longest frames of both together have no more than CreditMax / Kilo bits.
THEOREM CalculatedCreditsFitB ==
  ASSUME NEW bandwidthA \in Nat, NEW maxFrameA \in Nat,
         NEW bandwidth \in Nat, NEW maxFrame \in Nat, NEW linkspeed \in Nat \ {0},
         Kilo * Kilo <= bandwidth, bandwidthA + bandwidth <= linkspeed,
         (maxFrame + maxFrameA) * Kilo <= CreditMax
  PROVE  LET s == QavSlopes(CalcCreditsB(bandwidthA, maxFrameA, bandwidth, maxFrame, linkspeed))
         IN  /\ s.idle \in Nat \ {0}
             /\ s.send \in Int /\ s.send <= 0
             /\ s.hi \in 0 .. CreditMax
             /\ s.lo \in Int /\ -CreditMax - 1 <= s.lo
<1>0. Kilo \in Nat \ {0} /\ CreditMax \in Nat
  BY ShaperAssumption
<1> DEFINE c == CalcCredits(bandwidth, maxFrame, linkspeed)
           b == CalcCreditsB(bandwidthA, maxFrameA, bandwidth, maxFrame, linkspeed)
           rest == linkspeed - bandwidthA
           x == -(bandwidth * (maxFrame * linkspeed + maxFrameA * rest))
           d == rest * linkspeed
<1>1. /\ b.idleslope = c.idleslope /\ b.sendslope = c.sendslope /\ b.locredit = c.locredit
      /\ b.hicredit = -(x \div d)
  BY DEF CalcCreditsB, CalcCredits, CeilDiv
<1>2. /\ rest \in Nat \ {0} /\ bandwidth <= rest /\ rest <= linkspeed
      /\ bandwidth <= linkspeed
  <2>1. Kilo * Kilo \in Nat \ {0}
    BY <1>0
  <2> QED BY <2>1
<1> HIDE DEF rest
<1>3. d \in Nat \ {0}
  BY <1>2
<1> DEFINE n == maxFrame + maxFrameA
<1>4. x \in Int /\ x <= 0 /\ -(d * n) <= x
  <2> DEFINE y == maxFrame * linkspeed + maxFrameA * rest
             z == linkspeed * n
  <2>1. /\ maxFrame * linkspeed \in Nat /\ maxFrameA * rest \in Nat
        /\ maxFrameA * linkspeed \in Nat
        /\ maxFrameA * rest <= maxFrameA * linkspeed
        /\ z = maxFrame * linkspeed + maxFrameA * linkspeed
    BY <1>2
  <2>2. y \in Nat /\ z \in Nat /\ y <= z
    BY ONLY <2>1
  <2>3. d * n = rest * z
    BY <1>2
  <2> HIDE DEF y, z, d, n
  <2>4. bandwidth * y \in Nat /\ bandwidth * y <= rest * y
    BY <1>2, <2>2
  <2>5. rest * y \in Nat /\ rest * z \in Nat /\ rest * y <= rest * z
    BY <1>2, <2>2
  <2>6. x = -(bandwidth * y)
    BY DEF y
  <2> HIDE DEF x
  <2> QED BY ONLY <2>3, <2>4, <2>5, <2>6
<1> HIDE DEF x, d
<1>5. b.hicredit \in Nat /\ b.hicredit <= n
  <2>1. n \in Nat
    OBVIOUS
  <2> HIDE DEF n
  <2>2. x \div d \in Int /\ x \div d <= 0 /\ -n <= x \div d
    BY <1>3, <1>4, <2>1, NegativeQuotient
  <2> QED BY <1>1, <2>1, <2>2
<1> DEFINE s == QavSlopes(c)
           t == QavSlopes(b)
<1>6. t.idle = s.idle /\ t.send = s.send /\ t.lo = s.lo /\ t.hi = b.hicredit * Kilo
  BY <1>1 DEF QavSlopes
<1>7. t.hi \in 0 .. CreditMax
  <2>1. n \in Nat /\ n * Kilo <= CreditMax
    OBVIOUS
  <2> DEFINE h == b.hicredit
  <2> HIDE DEF n
  <2>2. h \in Nat /\ h <= n
    BY <1>5
  <2> HIDE DEF h
  <2>3. h * Kilo \in Nat /\ h * Kilo <= n * Kilo /\ n * Kilo \in Nat
    BY <1>0, <2>1, <2>2
  <2>4. h * Kilo \in 0 .. CreditMax
    BY ONLY <1>0, <2>1, <2>3
  <2> QED BY <1>6, <2>4 DEF h
<1>8. /\ s.idle \in Nat \ {0} /\ s.send \in Int /\ s.send <= 0
      /\ s.lo \in Int /\ -CreditMax - 1 <= s.lo
  <2>1. maxFrame * Kilo <= CreditMax
    <3>1. /\ (maxFrame + maxFrameA) * Kilo = maxFrame * Kilo + maxFrameA * Kilo
          /\ maxFrame * Kilo \in Nat /\ maxFrameA * Kilo \in Nat
      BY <1>0
    <3> QED BY <1>0, <3>1
  <2> QED BY <1>2, <2>1, CalculatedCreditsFit
<1> QED BY <1>6, <1>7, <1>8
============================================================================

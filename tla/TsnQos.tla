------------------------------- MODULE TsnQos -------------------------------
(***************************************************************************)
(* The transmit path of the network driver (driver/XDMA/linux-kernel/xdma: *)
(* xdma_netdev.c, tsn.c, alinx_arch.c and the transmit part of xdma_isr).  *)
(*                                                                         *)
(* start_xmit puts a metadata header in front of the frame, lets           *)
(* tsn_fill_metadata choose the times at which the hardware may send it    *)
(* (gate schedule, credit of the class, room in the hardware queue) and    *)
(* starts the DMA engine; the interrupt handler wakes the queue.  A frame   *)
(* that is answered with NETDEV_TX_BUSY comes back AS IT IS, its header     *)
(* included.  Times are in ns.                                              *)
(***************************************************************************)
EXTENDS QbvGate, CbsCredits

CONSTANTS
  TCs,           \* traffic classes, 0 .. TC_COUNT - 1
  Frames,        \* frames the stack may send: [prio, gptp, bytes]
  Schedules,     \* schedules tc may install
  Starts,        \* base times
  Offloads,      \* credit parameters tc may install: see CalcCredits
  TcMaps,        \* priority-to-class maps of mqprio
  NoSkb, NoOut,
  HwQueueSize,   \* HW_QUEUE_SIZE
  BeQueueSize,   \* BE_QUEUE_SIZE, and HW_QUEUE_SIZE - HW_QUEUE_SIZE_PAD
  TsnQueueSize,  \* TSN_QUEUE_SIZE
  CounterMod,    \* 2^32: the width of a hardware counter
  CreditMax,     \* 2^31 - 1: the largest int32_t
  MinBytes,      \* ETH_ZLEN
  NsPerByte,     \* 8 * NS_IN_1S / link_speed
  MetaSize,      \* TX_METADATA_SIZE
  BufferSize,    \* XDMA_BUFFER_SIZE
  H2CLatency,    \* H2C_LATENCY_NS
  ToMargin,      \* _DEFAULT_TO_MARGIN_
  Faults,        \* "dma": dma_map_single fails; "mem": pskb_expand_head fails
  Deltas,        \* steps of the clock
  MaxTime,       \* bound: the clock
  MaxFrames,     \* bound: frames given to the driver
  MaxConfigs     \* bound: changes of the configuration

ASSUME QosAssumption ==
  /\ BeQueueSize \in Nat /\ TsnQueueSize \in Nat /\ HwQueueSize \in Nat
  /\ BeQueueSize <= TsnQueueSize /\ TsnQueueSize <= HwQueueSize
  /\ HwQueueSize < CounterMod /\ CounterMod \in Nat
  /\ 0 \in TCs
  /\ Deltas \subseteq Nat /\ Starts \subseteq Nat
  /\ MaxTime \in Nat /\ MaxFrames \in Nat /\ MaxConfigs \in Nat
  /\ MinBytes \in Nat \ {0} /\ NsPerByte \in Nat \ {0} /\ MetaSize \in Nat /\ H2CLatency \in Nat

\* What the shaper takes for granted: every priority has a class, sending costs credit
\* and waiting earns some (an idle slope of 0 would be divided by), and the limits of the
\* credit fit into an int32_t.  TsnQosProofs shows that calc_credits sees to it for
\* bandwidths from 1 Mbit/s, together no more than the link has, and frames of no more
\* than CreditMax / Kilo bits.
ASSUME ShaperAssumption ==
  /\ Kilo \in Nat \ {0} /\ CreditMax \in Nat
  /\ \A f \in Frames : f.bytes \in Nat
  /\ \A m \in TcMaps : m[0] \in TCs /\ \A f \in Frames : m[f.prio] \in TCs
  /\ \A o \in Offloads :
       /\ QavSlopes(o).idle \in Nat \ {0}
       /\ QavSlopes(o).send \in Int /\ QavSlopes(o).send <= 0
       /\ QavSlopes(o).hi \in 0 .. CreditMax
       /\ QavSlopes(o).lo \in Int /\ -CreditMax - 1 <= QavSlopes(o).lo

\* taprio takes no schedule without entries and no entry without a duration.
ASSUME ScheduleAssumption ==
  \A s \in Schedules : s \in Seq([dur : Nat \ {0}, open : SUBSET TCs]) /\ Len(s) > 0

VARIABLES
  now,        \* the PTP time
  qbv,        \* config->qbv
  baked,      \* config->qbv_baked
  qav,        \* config->qav
  tcMap,      \* the class of each priority
  pending, lastTx,     \* config->buffer_tracker
  totalAvail, \* config->total_available_at
  tx,         \* priv->tx_skb: the frame the DMA engine works on; the queue is stopped
  held,       \* the frame the stack has to submit again
  hw,         \* frames in the hardware, "be" and "tsn"
  txReg, totalTx,      \* the cleared-on-read counters and their sums
  dropReg, totalDrop,  \* the 32-bit running counters and their sums
  out,        \* the metadata of the last frame since the configuration changed
  used,       \* auxiliary: what each class sent since its credit was configured
  drops,      \* auxiliary: frames the hardware dropped so far
  leaked,     \* auxiliary: frames counted in the tracker that never reached it
  frames, configs      \* frames and configurations so far

configVars == <<qbv, baked, qav, tcMap>>
hwVars     == <<hw, txReg, dropReg, drops>>
trackVars  == <<pending, lastTx, totalTx, totalDrop>>
vars == <<now, configVars, trackVars, totalAvail, tx, held, hwVars, out, used, leaked,
          frames, configs>>

InHw == hw["be"] + hw["tsn"]

----------------------------------------------------------------------------
(* Configuration. *)

\* The schedule bake_qos_config puts in place when neither Qbv nor Qav is on.
OpenSchedule == <<[dur |-> 1, open |-> TCs]>>

NoQbv == [enabled |-> FALSE, start |-> 0, slots |-> OpenSchedule]

\* bake_qos_config
ForcedQbv(q, credits) ==
  IF ~q.enabled /\ \A tc \in TCs : ~credits[tc].enabled
  THEN [enabled |-> TRUE, start |-> 0, slots |-> OpenSchedule]
  ELSE q

BakeQosConfig(q, credits) ==
  /\ qbv' = ForcedQbv(q, credits)
  /\ baked' = Baked(ForcedQbv(q, credits).slots, TCs)
  /\ out' = NoOut
  /\ configs' = configs + 1

ZeroQav == [enabled |-> FALSE, idle |-> 0, send |-> 0, hi |-> 0, lo |-> 0,
            credit |-> 0, last |-> 0, avail |-> 0]
Unused == [since |-> 0, sent |-> 0, n |-> 0, longest |-> 0]

\* tsn_init_configs, at a time that has nothing to do with 0
Init ==
  /\ now = H2CLatency
  /\ qav = [tc \in TCs |-> ZeroQav]
  /\ qbv = ForcedQbv(NoQbv, qav)
  /\ baked = Baked(OpenSchedule, TCs)
  /\ tcMap \in TcMaps
  /\ pending = 0 /\ lastTx = 0 /\ totalTx = 0 /\ totalDrop = 0
  /\ totalAvail = 0
  /\ tx = NoSkb /\ held = NoSkb
  /\ hw = [c \in {"be", "tsn"} |-> 0]
  /\ txReg = 0 /\ dropReg = 0 /\ drops = 0 /\ leaked = 0
  /\ out = NoOut
  /\ used = [tc \in TCs |-> Unused]
  /\ frames = 0 /\ configs = 0

\* tsn_set_mqprio
SetMqprio(m) ==
  /\ configs < MaxConfigs
  /\ m # tcMap
  /\ tcMap' = m
  /\ out' = NoOut
  /\ configs' = configs + 1
  /\ UNCHANGED <<now, qbv, baked, qav, trackVars, totalAvail, tx, held, hwVars, used,
                 leaked, frames>>

\* tsn_set_qav: the credit, and the time of the last update, stay as they are.
SetQav(tc, on, offload) ==
  /\ configs < MaxConfigs
  /\ LET s == QavSlopes(offload)
     IN  qav' = [qav EXCEPT ![tc] = [@ EXCEPT !.enabled = on, !.idle = s.idle,
                                             !.send = s.send, !.hi = s.hi, !.lo = s.lo]]
  /\ BakeQosConfig(qbv, qav')
  /\ used' = [used EXCEPT ![tc] = Unused]
  /\ UNCHANGED <<now, tcMap, trackVars, totalAvail, tx, held, hwVars, leaked, frames>>

\* tsn_set_qbv with TAPRIO_CMD_REPLACE
SetQbv(sched, start) ==
  /\ configs < MaxConfigs
  /\ BakeQosConfig([enabled |-> TRUE, start |-> start, slots |-> sched], qav)
  /\ UNCHANGED <<now, qav, tcMap, trackVars, totalAvail, tx, held, hwVars, used, leaked, frames>>

\* tsn_set_qbv with TAPRIO_CMD_DESTROY
DestroyQbv ==
  /\ configs < MaxConfigs
  /\ BakeQosConfig([qbv EXCEPT !.enabled = FALSE], qav)
  /\ UNCHANGED <<now, qav, tcMap, trackVars, totalAvail, tx, held, hwVars, used, leaked, frames>>

----------------------------------------------------------------------------
(* The credit of a class (spend_qav_credit). *)

\* (int32_t) of a double: out of range, x86 gives the least value and ARM saturates.
ToInt32(x) ==
  IF x > CreditMax THEN {-CreditMax - 1, CreditMax}
  ELSE IF x < -CreditMax - 1 THEN {-CreditMax - 1} ELSE {x}

BytesToNs(bytes) == Max({bytes, MinBytes}) * NsPerByte

\* Mutant: the class may send again at once.
SentUntilNoWait(q, c, end) == [q EXCEPT !.credit = c, !.last = end, !.avail = end]

\* The state of a class whose credit is c when its frame ends.
SentUntil(q, c, end) ==
  [q EXCEPT !.credit = c, !.last = end,
            !.avail = IF c < 0 THEN end + ((-c) \div q.idle) ELSE end]

\* The states spend_qav_credit may leave a class in.
SpendQavCredit(q, at, bytes) ==
  IF ~q.enabled \/ at < q.last \/ at < q.avail THEN {q}
  ELSE UNION {{SentUntil(q, Max({c, q.lo}), at + BytesToNs(bytes)) :
                 c \in ToInt32(Min({e, q.hi}) + BytesToNs(bytes) * q.send)} :
              e \in ToInt32(q.credit + (at - q.last) * q.idle)}

----------------------------------------------------------------------------
(* The hardware queue. *)

\* alinx_get_tx_packets and alinx_get_total_tx_drop_packets.  Of the four drop counters
\* the sum is made of, the three for frames that missed their times run on: one of them
\* stands for all.  The fourth clears like the count of sent frames, which stands for it.
NewTotalTx == totalTx + txReg
\* Mutant: a counter that wrapped counts down.
NewTotalDropNoWrap == totalDrop + (dropReg - totalDrop)
NewTotalDrop == totalDrop + ((dropReg - totalDrop) % CounterMod)

\* The tracker after update_buffer_track, which reads the counters only when the
\* queue may be full.
Stale == pending >= BeQueueSize
Popped == IF Stale THEN Min({NewTotalTx + NewTotalDrop - lastTx, pending}) ELSE 0
Updated == pending - Popped

\* Mutant: last_tx_count is not updated.
ReadCountersForgetsLast ==
  IF Stale
  THEN /\ totalTx' = NewTotalTx /\ txReg' = 0
       /\ totalDrop' = NewTotalDrop
       /\ UNCHANGED lastTx
  ELSE UNCHANGED <<totalTx, txReg, totalDrop, lastTx>>

ReadCounters ==
  IF Stale
  THEN /\ totalTx' = NewTotalTx /\ txReg' = 0
       /\ totalDrop' = NewTotalDrop
       /\ lastTx' = NewTotalTx + NewTotalDrop
  ELSE UNCHANGED <<totalTx, txReg, totalDrop, lastTx>>

----------------------------------------------------------------------------
(* start_xmit.  The frame is a new one, or the one that was refused before. *)

Offered ==
  IF held # NoSkb THEN {held}
  ELSE IF frames < MaxFrames
       THEN {[prio |-> f.prio, gptp |-> f.gptp, bytes |-> f.bytes] : f \in Frames}
       ELSE {}

\* frame_length: the length of the skb, with the headers of earlier attempts.
Length(skb) == Max({MinBytes, skb.bytes})

\* The skb after skb_push.  Its first bytes are no Ethernet header any more: an
\* empty metadata header reads as an untagged frame.
Pushed(skb) == [prio |-> 0, gptp |-> FALSE, bytes |-> Length(skb) + MetaSize]

\* The queue is stopped from the start of the DMA until the interrupt.
Submit(skb) ==
  /\ tx = NoSkb
  /\ skb \in Offered
  /\ frames' = IF held = NoSkb THEN frames + 1 ELSE frames

\* Too long, or no memory for the header: the frame is freed.  (When skb_padto fails it
\* has freed the frame already and start_xmit frees it again: what the kernel's memory is
\* then is not modelled.)
XmitFreed(skb) ==
  /\ Submit(skb)
  /\ Length(skb) > BufferSize \/ "mem" \in Faults
  /\ held' = NoSkb
  /\ UNCHANGED <<now, configVars, trackVars, totalAvail, tx, hwVars, out, used, leaked, configs>>

TcOf(skb) == tcMap[skb.prio]
BestEffort(skb) == ~skb.gptp /\ skb.prio = 0

\* Neither Qbv nor the class's Qav is on: "Don't care. Just fill in the metadata".
DontCare(skb) == ~qbv.enabled /\ ~qav[TcOf(skb)].enabled

\* Mutant: one limit for all frames.
QueueLimitSame(skb) == IF DontCare(skb) THEN HwQueueSize ELSE TsnQueueSize

QueueLimit(skb) ==
  IF DontCare(skb) THEN HwQueueSize
  ELSE IF BestEffort(skb) THEN BeQueueSize ELSE TsnQueueSize

\* Mutant: available_at of the class is not looked at.
ReadyIgnoresCredit(skb) ==
  IF BestEffort(skb) /\ ~DontCare(skb) THEN Max({now + H2CLatency, totalAvail})
  ELSE now + H2CLatency

\* `from`, the time from which the frame is ready to be sent.
Ready(skb) ==
  LET q == qav[TcOf(skb)]
      arrived == now + H2CLatency
      allowed == IF q.enabled THEN Max({arrived, q.avail}) ELSE arrived
  IN  IF BestEffort(skb) /\ ~DontCare(skb) THEN Max({allowed, totalAvail}) ELSE allowed

\* The timestamps of the frame: the result of get_timestamps is not looked at.  The
\* branch DontCare sets from and to only; delay_from and delay_to are not initialised,
\* and the hardware, told to drop a late frame, does not look at them.
Timestamps(skb) ==
  IF DontCare(skb) THEN [ok |-> TRUE, from |-> totalAvail, to |-> totalAvail + ToMargin]
  ELSE IF qbv.enabled
       THEN GetTimestamps(baked, qbv.start, Ready(skb), TcOf(skb),
                          BytesToNs(Length(skb)), ~BestEffort(skb))
       ELSE [ok |-> TRUE, from |-> Ready(skb), to |-> Ready(skb) - 1,
             dfrom |-> Ready(skb), dto |-> Ready(skb) - 1]

\* The credit is spent, and the time of the frame added up.
Spend(skb) ==
  LET tc == TcOf(skb)
      d == BytesToNs(Length(skb))
      u == used[tc]
  IN  /\ \E q \in SpendQavCredit(qav[tc], Ready(skb), Length(skb)) :
           qav' = [qav EXCEPT ![tc] = q]
      /\ totalAvail' = totalAvail + d
      /\ used' = [used EXCEPT ![tc] =
                    [since |-> IF u.n = 0 THEN Ready(skb) ELSE u.since,
                     sent |-> u.sent + d, n |-> u.n + 1, longest |-> Max({u.longest, d})]]

\* tsn_fill_metadata returns false before anything is spent.
XmitRefused(skb) ==
  /\ Submit(skb)
  /\ Length(skb) <= BufferSize
  /\ ~DontCare(skb)
  /\ Updated >= QueueLimit(skb)
  /\ ReadCounters
  /\ pending' = Updated
  /\ held' = Pushed(skb)
  /\ UNCHANGED <<now, configVars, totalAvail, tx, hw, dropReg, drops, out, used, leaked, configs>>

\* The skb when the metadata were filled in before the error: what the next attempt
\* takes the header for (delay_to is where the Ethernet type was) is anyone's guess.
PushedFilled(skb) == {[Pushed(skb) EXCEPT !.prio = f.prio, !.gptp = f.gptp] : f \in Frames}

\* append_buffer_track finds the queue full.
XmitFull(skb) ==
  /\ Submit(skb)
  /\ Length(skb) <= BufferSize
  /\ DontCare(skb)
  /\ Updated >= QueueLimit(skb)
  /\ ReadCounters
  /\ pending' = Updated
  /\ Spend(skb)
  /\ held' \in PushedFilled(skb)
  /\ UNCHANGED <<now, qbv, baked, tcMap, tx, hw, dropReg, drops, out, leaked, configs>>

\* The metadata are filled in and the frame is counted.
Fill(skb) ==
  /\ Submit(skb)
  /\ Length(skb) <= BufferSize
  /\ Updated < QueueLimit(skb)
  /\ ReadCounters
  /\ pending' = Updated + 1
  /\ Spend(skb)
  /\ LET q == qav[TcOf(skb)]
     IN out' = [prio |-> skb.prio, tc |-> TcOf(skb), ready |-> Ready(skb),
                sending |-> BytesToNs(Length(skb)), delay |-> ~BestEffort(skb), gated |-> qbv.enabled,
                spent |-> q.enabled => Ready(skb) >= q.last /\ Ready(skb) >= q.avail,
                ts |-> Timestamps(skb)]

\* ... and given to the DMA engine.
XmitSent(skb) ==
  /\ Fill(skb)
  /\ tx' = skb
  /\ held' = NoSkb
  /\ hw' = [hw EXCEPT ![IF BestEffort(skb) THEN "be" ELSE "tsn"] = @ + 1]
  /\ UNCHANGED <<now, qbv, baked, tcMap, dropReg, drops, leaked, configs>>

\* dma_map_single fails: the frame was counted, and comes back.
XmitUnmapped(skb) ==
  /\ "dma" \in Faults
  /\ Fill(skb)
  /\ held' \in PushedFilled(skb)
  /\ leaked' = leaked + 1
  /\ UNCHANGED <<now, qbv, baked, tcMap, tx, hw, dropReg, drops, configs>>

\* xdma_isr for the transmit channel.
TxIsr ==
  /\ tx # NoSkb
  /\ tx' = NoSkb
  /\ UNCHANGED <<now, configVars, trackVars, totalAvail, held, hwVars, out, used, leaked,
                 frames, configs>>

----------------------------------------------------------------------------
(* The hardware (external): a frame is sent or dropped, and counted once.  A frame that  *)
(* is dropped into the counter that clears is, to the tracker, as one that is sent.      *)

HwSends(c) ==
  /\ hw[c] > 0
  /\ hw' = [hw EXCEPT ![c] = @ - 1]
  /\ txReg' = txReg + 1
  /\ UNCHANGED <<now, configVars, trackVars, totalAvail, tx, held, dropReg, drops, out, used,
                 leaked, frames, configs>>

HwDrops(c) ==
  /\ hw[c] > 0
  /\ hw' = [hw EXCEPT ![c] = @ - 1]
  /\ dropReg' = (dropReg + 1) % CounterMod
  /\ drops' = drops + 1
  /\ UNCHANGED <<now, configVars, trackVars, totalAvail, tx, held, txReg, out, used,
                 leaked, frames, configs>>

Tick(d) ==
  /\ now + d <= MaxTime
  /\ now' = now + d
  /\ UNCHANGED <<configVars, trackVars, totalAvail, tx, held, hwVars, out, used, leaked,
                 frames, configs>>

Configure ==
  \/ \E m \in TcMaps : SetMqprio(m)
  \/ \E tc \in TCs, on \in BOOLEAN, o \in Offloads : SetQav(tc, on, o)
  \/ \E s \in Schedules, t \in Starts : SetQbv(s, t)
  \/ DestroyQbv

Xmit ==
  \E skb \in Offered :
    \/ XmitFreed(skb)
    \/ XmitRefused(skb)
    \/ XmitFull(skb)
    \/ XmitSent(skb)
    \/ XmitUnmapped(skb)

Next ==
  \/ Configure
  \/ Xmit
  \/ TxIsr
  \/ \E c \in {"be", "tsn"} : HwSends(c) \/ HwDrops(c)
  \/ \E d \in Deltas : Tick(d)

Spec == Init /\ [][Next]_vars

----------------------------------------------------------------------------
(* Properties. *)

\* The counters are natural numbers.
TypeOK ==
  /\ pending \in Nat /\ lastTx \in Nat /\ totalTx \in Nat /\ totalDrop \in Nat
  /\ hw \in [{"be", "tsn"} -> Nat]
  /\ txReg \in Nat /\ drops \in Nat /\ leaked \in Nat
  /\ dropReg \in 0 .. (CounterMod - 1)

\* The hardware queue cannot be overrun: the tracker counts every frame the
\* hardware has, although it reads the counters only now and then, the counters
\* clear or wrap, and the DMA may fail after the frame was counted.
TrackerCovers == InHw <= pending /\ pending <= HwQueueSize

\* The inductive invariant: what the tracker counts is what is in the hardware, what
\* has left it since the counters were last read, and what never got there.
TrackerExact ==
  /\ pending + lastTx = InHw + (totalTx + txReg + drops) + leaked
  /\ lastTx = totalTx + totalDrop
  /\ totalDrop <= drops
  /\ dropReg = drops % CounterMod

\* When the tracker takes over the counters it has counted every frame that left the
\* hardware exactly once, although some counters clear and the others wrap around.
CountersExact == [][lastTx' # lastTx => lastTx' = totalTx + txReg + drops]_vars

\* Best-effort frames leave room for the others: they never fill the hardware
\* queue beyond BE_QUEUE_SIZE.  (When a class is shaped and the schedule is taken away,
\* Qbv is really off, and tsn_fill_metadata no longer looks at that limit.)
BeLeavesRoom == Offloads = {} => hw["be"] <= BeQueueSize

\* A frame with a usable schedule: tc's gate opens, every opening holds the frame, and
\* the cycle does not both begin and end with a closed gate.
Usable ==
  /\ out # NoOut
  /\ out.gated
  /\ out.ready >= qbv.start
  /\ ~AlwaysClosed(qbv.slots, out.tc)
  /\ Fits(baked.prios[out.tc], out.sending)
  /\ ~ClosedAtBothEnds(qbv.slots, out.tc)

OpenWhile(t) == OpenDuring(qbv.slots, qbv.start, out.tc, t, out.sending)

\* The frame is not held back: from is the first moment since the frame is ready from
\* which it fits into the rest of an opening (of one cycle).
WindowEarliest ==
  Usable =>
    /\ out.ts.from >= out.ready
    /\ \A t \in out.ready .. (out.ts.from - 1) :
         ~(OpenWhile(t) /\ WithinCycle(qbv.slots, qbv.start, t, out.sending))

\* The second chance lies in a later opening and is as safe as the first one.  It ends
\* with that opening: it is a single moment (dfrom = dto) only for a frame that fills the
\* opening.
DelayWindowOpen ==
  Usable /\ out.delay /\ ~AlwaysOpen(qbv.slots, out.tc) =>
    /\ out.ts.to + out.sending <= out.ts.dfrom
    /\ out.ts.dfrom <= out.ts.dto
    /\ \A t \in out.ts.dfrom .. out.ts.dto : OpenWhile(t)
    /\ ClosesAt(qbv.slots, qbv.start, out.tc, out.ts.dto + out.sending)

\* The gate holds a frame up for one cycle at most, and its second chance comes within a
\* cycle of the first one, however long the frame is and wherever in the cycle it becomes
\* ready.
WindowSoon ==
  out # NoOut /\ out.gated /\ out.ready >= qbv.start /\ ~AlwaysClosed(qbv.slots, out.tc) =>
    /\ out.ts.from <= out.ready + CycleNs(qbv.slots)
    /\ out.delay => out.ts.dfrom <= out.ts.from + CycleNs(qbv.slots)

\* "Invalid timestamps, from >= to", and the same of the second window: what the debug
\* assertions say of a frame that every opening holds.
ValidWindow ==
  out # NoOut /\ out.gated /\ ~AlwaysClosed(qbv.slots, out.tc)
              /\ ~AlwaysOpen(qbv.slots, out.tc)
              /\ Fits(baked.prios[out.tc], out.sending)
    => /\ out.ts.from < out.ts.to
       /\ out.delay => out.ts.dfrom < out.ts.dto

\* Every frame of a shaped class is charged: the error return of spend_qav_credit
\* ("Invalid timestamp Qav spending") is never taken.
CreditSpent == out # NoOut => out.spent

\* A shaped class that keeps to its max_frame (the frame loCredit stands for) gets no
\* more than its bandwidth: what it sent since its credit was configured is covered by
\* the credit earned meanwhile, up to the burst that hiCredit allows, one frame, and two
\* roundings a frame: that of loCredit, by less than one bit, and that of available_at,
\* by less than one ns.
BandwidthKept ==
  \A tc \in TCs :
    LET u == used[tc]
        q == qav[tc]
    IN  q.enabled /\ u.n > 0 /\ u.longest * (-q.send) < Kilo - q.lo =>
          u.sent * (-q.send) <=
            q.hi + q.idle * (q.last - u.since - u.sent)
                 + u.longest * (-q.send) + u.n * (Kilo + q.idle)

============================================================================

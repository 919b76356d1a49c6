----------------------------- MODULE TxTimestamp -----------------------------
(***************************************************************************)
(* Transmit timestamps of the network driver (driver/XDMA/linux-kernel/xdma: *)
(* the end of xdma_netdev_start_xmit, do_tx_work, the ioctl that switches  *)
(* timestamps on, and xdma_isr).                                           *)
(*                                                                         *)
(* The hardware writes the time of every frame with a timestamp id into    *)
(* the one register of that id.  start_xmit claims the id's slot for a     *)
(* frame whose sender wants a timestamp; a work item then polls the        *)
(* register until it differs from the last timestamp, or gives up.  The    *)
(* work queue, the interrupt, the ioctl and the hardware run concurrently  *)
(* with start_xmit.  Times are ticks of the system clock, of which the     *)
(* metadata header of a frame carries only the low bits.  The clock and the *)
(* timestamp registers are 64 bits wide and read in two halves, which may  *)
(* be those of two different values.                                       *)
(***************************************************************************)
EXTENDS Integers

CONSTANTS
  Skbs, NoSkb,
  Ids,         \* TSN_TIMESTAMP_ID_GPTP and TSN_TIMESTAMP_ID_NORMAL
  None,        \* TSN_TIMESTAMP_ID_NONE
  Period,      \* 2^29: what the low bits can tell apart
  Margin,      \* TX_WORK_OVERFLOW_MARGIN
  Word,        \* 2^32: what one half of a register can tell apart
  ReadLag,     \* bound: the clock's ticks from the read of one half to that of the other
  MaxRetry,    \* TX_TSTAMP_MAX_RETRY
  Windows,     \* what tsn_fill_metadata may choose: [lead, len], from = now + lead
               \* and to (or delay_to) = from + len; len = -1 is an always open gate
  Faults,      \* "rx": a received frame is too short, or there is no memory for it
  FirstTime,   \* the clock when the device is set up
  LastSubmit,  \* bound: no frame is submitted later
  MaxTime,     \* bound: the clock
  MaxIoctls,   \* bound: changes of the configuration
  MaxRx        \* bound: received frames

ASSUME TimestampAssumption ==
  /\ NoSkb \notin Skbs
  /\ None \notin Ids
  /\ Period \in Nat \ {0}
  /\ Margin \in Nat
  /\ Word \in Nat \ {0} /\ Word % Period = 0
  /\ ReadLag \in 0 .. Word
  /\ MaxRetry \in Nat \ {0}
  /\ Windows \subseteq [lead : Int, len : Nat \cup {-1}]
  /\ FirstTime \in Nat /\ LastSubmit \in Nat /\ MaxTime \in Nat /\ MaxIoctls \in Nat /\ MaxRx \in Nat

VARIABLES
  now,         \* the system clock
  txOn,        \* priv->tstamp_config.tx_type == HWTSTAMP_TX_ON
  meta,        \* the metadata of each frame: [id, at, from, to, wants]
  given,       \* frames the stack has submitted
  pc, cur,     \* where start_xmit is, and its skb
  bit,         \* priv->state: the ids whose slot is taken
  workSkb,     \* priv->tx_work_skb
  startAfter, waitUntil, retry, last,  \* ... tx_work_start_after and so on
  queued,      \* the work items on the work queue
  work, skb, tstamp,  \* where do_tx_work is, per id, and its local variables
  tx,          \* priv->tx_skb
  irq, irqOn,  \* interrupts requested, and those enabled
  hw,          \* frames in the hardware
  reg,         \* the timestamp register of each id
  refs,        \* references to each skb
  stamps,      \* the timestamp given to the sender of each frame: [id, time]
  sentAt,      \* auxiliary: when the hardware sent each frame
  dropped,     \* auxiliary: frames the hardware dropped
  lost,        \* auxiliary: frames whose timestamp was given up
  stray,       \* auxiliary: ids whose register some frame without the slot may write
  torn,        \* auxiliary: ids for which halves of two timestamps were taken for one
  ahead,       \* auxiliary: ids whose work item has read the clock too late by a Word
  ioctls, rxs  \* ioctl calls and received frames so far

slotVars == <<bit, workSkb, startAfter, waitUntil, retry, last, queued>>
workVars == <<work, skb, tstamp, torn, ahead>>
xmitVars == <<meta, given, pc, cur>>
isrVars  == <<tx, irq, irqOn, rxs>>
hwVars   == <<hw, reg, sentAt, dropped>>
vars == <<now, txOn, xmitVars, slotVars, workVars, isrVars, hwVars, refs, stamps, lost,
          stray, ioctls>>

AllIds == Ids \cup {None}
NoStamp == [id |-> None, time |-> -1]
NoMeta == [id |-> None, at |-> 0, from |-> 0, to |-> 0, wants |-> FALSE]

Init ==
  /\ now = FirstTime
  /\ txOn = FALSE
  /\ meta = [s \in Skbs |-> NoMeta] /\ given = {} /\ pc = "idle" /\ cur = NoSkb
  /\ bit = {} /\ queued = {}
  /\ workSkb = [i \in AllIds |-> NoSkb]
  /\ startAfter = [i \in AllIds |-> 0] /\ waitUntil = [i \in AllIds |-> 0]
  /\ retry = [i \in Ids |-> 0] /\ last = [i \in Ids |-> 0]
  /\ work = [i \in Ids |-> "idle"] /\ skb = [i \in Ids |-> NoSkb]
  /\ tstamp = [i \in Ids |-> 0]
  /\ tx = NoSkb /\ irq = {} /\ irqOn = {"c2h", "h2c"} /\ rxs = 0
  /\ hw = {} /\ reg = [i \in Ids |-> 0]
  /\ sentAt = [s \in Skbs |-> 0] /\ dropped = {}
  /\ refs = [s \in Skbs |-> 0]
  /\ stamps = [s \in Skbs |-> NoStamp]
  /\ lost = {} /\ stray = {} /\ torn = {} /\ ahead = {} /\ ioctls = 0

\* xdma_set_ts_config
SetTsConfig ==
  /\ ioctls < MaxIoctls
  /\ ioctls' = ioctls + 1
  /\ txOn' = ~txOn
  /\ UNCHANGED <<now, xmitVars, slotVars, workVars, isrVars, hwVars, refs, stamps, lost, stray>>

----------------------------------------------------------------------------
(* A register is read by halves, in the order the compiler likes. *)

Part(h, t) == IF h = "high" THEN (t \div Word) * Word ELSE t % Word
Other(h) == IF h = "high" THEN "low" ELSE "high"

\* alinx_get_sys_clock, when the clock is `now` as its low half is read: the high half is
\* read shortly before or after, and a carry may come between.  (A clock that stands still
\* at its bound has none.)
AlinxGetSysClock ==
  {now} \cup {c \in {now - Word} : c >= 0 /\ now % Word < ReadLag /\ now < MaxTime}
        \cup {c \in {now + Word} : now % Word >= Word - ReadLag /\ now < MaxTime}

----------------------------------------------------------------------------
(* start_xmit, from tsn_fill_metadata on. *)

\* Mutant: no overflow of the low bits.
ExtendNoOverflow(at, tick) == at - (at % Period) + tick

\* The time that starts with the high bits of the clock at `at` and ends in `tick`;
\* a tick slightly behind the clock is no overflow.
Extend(at, tick) ==
  LET lower == at % Period
      same == at - lower + tick
  IN  IF lower > tick /\ lower - tick > Margin THEN same + Period ELSE same

\* The clock is read, and the id chosen by the configuration of the moment.  From a torn
\* clock come the same low bits of the window, as Period divides Word.  Frames that are
\* not submitted yet differ in nothing: the next one is any of them.
XmitFill(s, id, wants, w) ==
  /\ pc = "idle" /\ tx = NoSkb
  /\ s \in Skbs \ given /\ now <= LastSubmit
  /\ s = CHOOSE t \in Skbs \ given : TRUE
  /\ given' = given \cup {s}
  /\ cur' = s
  /\ refs' = [refs EXCEPT ![s] = 1]
  /\ \E at \in AlinxGetSysClock :
       meta' = [meta EXCEPT ![s] = [id |-> IF txOn THEN id ELSE None, at |-> at,
                                    from |-> now + w.lead, to |-> now + w.lead + w.len,
                                    wants |-> wants]]
  /\ pc' = "claim"
  /\ UNCHANGED <<now, txOn, slotVars, workVars, isrVars, hwVars, stamps, lost, stray, ioctls>>

\* Mutant: no reference is taken.
SkbGetNone(s) == refs
\* skb_get
SkbGet(s) == [refs EXCEPT ![s] = @ + 1]

\* test_and_set_bit_lock succeeds.  The configuration is read again: when it was
\* switched on meanwhile, the slot is that of TSN_TIMESTAMP_ID_NONE, whose work item is
\* not initialised and which schedule_work refuses, so that the slot stays taken.
XmitClaim ==
  LET m == meta[cur]
  IN  /\ pc = "claim"
      /\ m.wants /\ txOn /\ m.id \notin bit
      /\ bit' = bit \cup {m.id}
      /\ workSkb' = [workSkb EXCEPT ![m.id] = cur]
      /\ refs' = SkbGet(cur)
      /\ startAfter' = [startAfter EXCEPT ![m.id] = Extend(m.at, m.from % Period)]
      /\ waitUntil' = [waitUntil EXCEPT ![m.id] = Extend(m.at, m.to % Period)]
      /\ IF m.id = None
         THEN lost' = lost \cup {cur} /\ UNCHANGED queued
         ELSE queued' = queued \cup {m.id} /\ UNCHANGED lost
      /\ pc' = "start"
      /\ UNCHANGED <<now, txOn, meta, given, cur, retry, last, workVars, isrVars, hwVars,
                     stamps, stray, ioctls>>

\* No timestamp wanted, or none to be had: the header keeps the id all the same.
XmitSkip ==
  LET m == meta[cur]
  IN  /\ pc = "claim"
      /\ ~(m.wants /\ txOn /\ m.id \notin bit)
      /\ stray' = stray \cup ({m.id} \ {None})
      /\ pc' = "start"
      /\ UNCHANGED <<now, txOn, meta, given, cur, slotVars, workVars, isrVars, hwVars, refs,
                     stamps, lost, ioctls>>

\* The DMA engine is started, and will ask for an interrupt.
XmitStart ==
  /\ pc = "start"
  /\ tx' = cur
  /\ hw' = hw \cup {cur}
  /\ irq' = irq \cup {"h2c"}
  /\ pc' = "idle" /\ cur' = NoSkb
  /\ UNCHANGED <<now, txOn, meta, given, slotVars, workVars, irqOn, rxs, reg, sentAt, dropped,
                 refs, stamps, lost, stray, ioctls>>

----------------------------------------------------------------------------
(* do_tx_work.  A work item runs once at a time; it may be queued again while it  *)
(* still runs.                                                                    *)

\* Mutants: last_tx_tstamp is not updated, the retries not counted, and the work not
\* queued again.
LastTstampKept(i, t) == last
UncountedRetry(i, clock) == retry
ScheduleNothing(i) == queued

\* last_tx_tstamp, and the count after success or return_error
LastTstamp(i, t) == [last EXCEPT ![i] = t]
RetryReset(i) == [retry EXCEPT ![i] = 0]
\* The tries before the end of the window are not counted.
NextRetry(i, clock) == [retry EXCEPT ![i] = IF clock < waitUntil[i] THEN @ ELSE @ + 1]
\* schedule_work
ScheduleWork(i) == queued \cup {i}

\* do_tx_work returns.
Leave(i) ==
  /\ work' = [work EXCEPT ![i] = "idle"]
  /\ skb' = [skb EXCEPT ![i] = NoSkb]
  /\ tstamp' = [tstamp EXCEPT ![i] = 0]

\* What is remembered of a clock read by the work of id i.
Ahead(i, clock) == IF clock > now THEN ahead \cup {i} ELSE ahead

\* Before start_after the work only queues itself again, which changes nothing.
WorkStart(i) ==
  /\ i \in queued /\ work[i] = "idle"
  /\ \E clock \in AlinxGetSysClock : clock >= startAfter[i] /\ ahead' = Ahead(i, clock)
  /\ queued' = queued \ {i}
  /\ skb' = [skb EXCEPT ![i] = workSkb[i]]
  /\ work' = [work EXCEPT ![i] = "read"]
  /\ UNCHANGED <<now, txOn, xmitVars, bit, workSkb, startAfter, waitUntil, retry, last, tstamp,
                 torn, isrVars, hwVars, refs, stamps, lost, stray, ioctls>>

\* alinx_read_tx_timestamp: the first half, and work[i] is the half that is missing ...
WorkReadHalf(i) ==
  /\ work[i] = "read"
  /\ \E h \in {"high", "low"} :
       /\ tstamp' = [tstamp EXCEPT ![i] = Part(h, reg[i])]
       /\ work' = [work EXCEPT ![i] = Other(h)]
  /\ UNCHANGED <<now, txOn, xmitVars, slotVars, skb, torn, ahead, isrVars, hwVars, refs, stamps,
                 lost, stray, ioctls>>

\* ... and the other.
TxTstamp(i) == tstamp[i] + Part(work[i], reg[i])

\* A new timestamp is taken for the frame's, and the slot is free before it is delivered.
WorkRead(i) ==
  LET t == TxTstamp(i)
  IN  /\ work[i] \in {"high", "low"}
      /\ tstamp' = [tstamp EXCEPT ![i] = t]
      /\ IF t = last[i]
         THEN /\ work' = [work EXCEPT ![i] = "check"]
              /\ UNCHANGED <<retry, last, workSkb, bit, torn, ahead>>
         ELSE /\ retry' = RetryReset(i)
              /\ last' = LastTstamp(i, t)
              /\ workSkb' = [workSkb EXCEPT ![i] = NoSkb]
              /\ bit' = bit \ {i}
              /\ work' = [work EXCEPT ![i] = "deliver"]
              /\ torn' = IF t = reg[i] THEN torn ELSE torn \cup {i}
              /\ ahead' = ahead \ {i}
      /\ UNCHANGED <<now, txOn, xmitVars, startAfter, waitUntil, queued, skb, isrVars, hwVars,
                     refs, stamps, lost, stray, ioctls>>

\* The register has not changed: until the end of the window that is to be expected,
\* and a few times after it too.
WorkRetry(i) ==
  /\ work[i] = "check"
  /\ \E clock \in AlinxGetSysClock :
       /\ clock < waitUntil[i] \/ retry[i] + 1 < MaxRetry
       /\ retry' = NextRetry(i, clock)
       /\ ahead' = Ahead(i, clock)
  /\ queued' = ScheduleWork(i)
  /\ Leave(i)
  /\ UNCHANGED <<now, txOn, xmitVars, bit, workSkb, startAfter, waitUntil, last, torn,
                 isrVars, hwVars, refs, stamps, lost, stray, ioctls>>

\* return_error: the slot is free, but tx_work_skb keeps its reference for good.
WorkGivesUp(i) ==
  /\ work[i] = "check"
  /\ \E clock \in AlinxGetSysClock : clock >= waitUntil[i]
  /\ retry[i] + 1 >= MaxRetry
  /\ retry' = RetryReset(i)
  /\ bit' = bit \ {i}
  /\ ahead' = ahead \ {i}
  /\ Leave(i)
  /\ lost' = lost \cup {skb[i]}
  /\ stray' = IF skb[i] \in dropped THEN stray ELSE stray \cup {i}
  /\ UNCHANGED <<now, txOn, xmitVars, workSkb, startAfter, waitUntil, last, queued,
                 torn, isrVars, hwVars, refs, stamps, ioctls>>

\* skb_tstamp_tx and dev_kfree_skb_any
WorkDeliver(i) ==
  /\ work[i] = "deliver"
  /\ stamps' = [stamps EXCEPT ![skb[i]] = [id |-> i, time |-> tstamp[i]]]
  /\ refs' = [refs EXCEPT ![skb[i]] = @ - 1]
  /\ Leave(i)
  /\ UNCHANGED <<now, txOn, xmitVars, slotVars, torn, ahead, isrVars, hwVars, lost, stray,
                 ioctls>>

----------------------------------------------------------------------------
(* xdma_isr: all requested interrupts are disabled, and enabled again one by one. *)

Requested == irq \cap irqOn

\* Mutant: the transmit channel is not looked at after a received frame.
TxDoneAlone == Requested = {"h2c"}
\* The transmit channel is looked at in any case.
TxDone == "h2c" \in Requested

IsrServes ==
  /\ Requested # {}
  /\ irq' = irq \ Requested
  /\ IF TxDone
     THEN tx' = NoSkb /\ refs' = [refs EXCEPT ![tx] = @ - 1]
     ELSE UNCHANGED <<tx, refs>>
  /\ UNCHANGED <<now, txOn, xmitVars, slotVars, workVars, irqOn, rxs, hwVars, stamps, lost, stray,
                 ioctls>>

\* The received frame is bad: the handler returns with only the receive interrupt
\* enabled again, whatever else was requested.
IsrRxFails ==
  /\ "rx" \in Faults
  /\ "c2h" \in Requested
  /\ irq' = irq \ {"c2h"}
  /\ irqOn' = (irqOn \ Requested) \cup {"c2h"}
  /\ UNCHANGED <<now, txOn, xmitVars, slotVars, workVars, tx, rxs, hwVars, refs, stamps, lost,
                 stray, ioctls>>

----------------------------------------------------------------------------
(* The hardware (external).  A frame is sent at the start of its window or later, or   *)
(* dropped.  A frame takes longer than a tick, so that no two have the same timestamp. *)
(* The hardware writes a register as a whole.                                          *)

HwSends(s) ==
  /\ s \in hw
  /\ now >= meta[s].from /\ now < MaxTime
  /\ now' = now + 1
  /\ hw' = hw \ {s}
  /\ sentAt' = [sentAt EXCEPT ![s] = now']
  /\ reg' = [i \in Ids |-> IF i = meta[s].id THEN now' ELSE reg[i]]
  /\ UNCHANGED <<txOn, xmitVars, slotVars, workVars, isrVars, dropped, refs, stamps, lost, stray,
                 ioctls>>

HwDrops(s) ==
  /\ s \in hw
  /\ hw' = hw \ {s}
  /\ dropped' = dropped \cup {s}
  /\ UNCHANGED <<now, txOn, xmitVars, slotVars, workVars, isrVars, reg, sentAt, refs, stamps, lost,
                 stray, ioctls>>

HwReceives ==
  /\ "c2h" \notin irq /\ rxs < MaxRx
  /\ irq' = irq \cup {"c2h"}
  /\ rxs' = rxs + 1
  /\ UNCHANGED <<now, txOn, xmitVars, slotVars, workVars, tx, irqOn, hwVars, refs, stamps, lost,
                 stray, ioctls>>

Tick ==
  /\ now < MaxTime
  /\ now' = now + 1
  /\ UNCHANGED <<txOn, xmitVars, slotVars, workVars, isrVars, hwVars, refs, stamps, lost, stray,
                 ioctls>>

Xmit == XmitClaim \/ XmitSkip \/ XmitStart

Work(i) ==
  WorkStart(i) \/ WorkReadHalf(i) \/ WorkRead(i) \/ WorkRetry(i) \/ WorkGivesUp(i) \/ WorkDeliver(i)

Isr == IsrServes \/ IsrRxFails

Next ==
  \/ SetTsConfig
  \/ \E s \in Skbs, i \in Ids, wants \in BOOLEAN, w \in Windows : XmitFill(s, i, wants, w)
  \/ Xmit
  \/ \E i \in Ids : Work(i)
  \/ Isr
  \/ \E s \in Skbs : HwSends(s) \/ HwDrops(s)
  \/ HwReceives
  \/ Tick

Spec == Init /\ [][Next]_vars

\* start_xmit, the work queue and the interrupt handler run on, and time passes.
FairSpec ==
  /\ Spec
  /\ WF_vars(Xmit) /\ WF_vars(Isr) /\ WF_vars(Tick)
  /\ \A i \in Ids : WF_vars(Work(i))

----------------------------------------------------------------------------
(* Properties. *)

\* Every variable stays in its range; the retries of a slot stay below the limit.
TypeOK ==
  /\ now \in Nat /\ txOn \in BOOLEAN
  /\ meta \in [Skbs -> [id : AllIds, at : Nat, from : Int, to : Int, wants : BOOLEAN]]
  /\ given \subseteq Skbs /\ cur \in Skbs \cup {NoSkb}
  /\ pc \in {"idle", "claim", "start"}
  /\ bit \subseteq AllIds /\ queued \subseteq Ids
  /\ workSkb \in [AllIds -> Skbs \cup {NoSkb}]
  /\ startAfter \in [AllIds -> Nat] /\ waitUntil \in [AllIds -> Nat]
  /\ retry \in [Ids -> 0 .. (MaxRetry - 1)] /\ last \in [Ids -> Nat]
  /\ work \in [Ids -> {"idle", "read", "high", "low", "check", "deliver"}]
  /\ skb \in [Ids -> Skbs \cup {NoSkb}] /\ tstamp \in [Ids -> Nat]
  /\ tx \in Skbs \cup {NoSkb}
  /\ irq \subseteq {"c2h", "h2c"} /\ irqOn \subseteq {"c2h", "h2c"}
  /\ hw \subseteq Skbs /\ reg \in [Ids -> Nat]
  /\ refs \in [Skbs -> Nat]
  /\ stamps \in [Skbs -> [id : AllIds, time : Nat \cup {-1}]]
  /\ sentAt \in [Skbs -> Nat]
  /\ dropped \subseteq Skbs /\ lost \subseteq Skbs
  /\ stray \subseteq Ids /\ torn \subseteq Ids /\ ahead \subseteq Ids
  /\ rxs \in Nat /\ ioctls \in Nat

Running(i) == work[i] \in {"read", "high", "low", "check"}

\* A slot that is taken has exactly one work item that will free it, waiting or running,
\* and that item never finds tx_work_skb empty; a free slot has none, so that no two
\* frames share a slot.
SlotOwned ==
  \A i \in Ids :
    /\ i \in bit <=> i \in queued \/ Running(i)
    /\ ~(i \in queued /\ Running(i))
    /\ i \in bit => workSkb[i] # NoSkb
    /\ Running(i) => skb[i] = workSkb[i]

Held(b) == IF b THEN 1 ELSE 0

\* The timestamp machinery of id i has a reference to s.
Holds(i, s) == \/ i \in bit /\ workSkb[i] = s
               \/ work[i] = "deliver" /\ skb[i] = s

\* Every skb has as many references as it has users: the transmit path, a timestamp slot
\* or a work item about to deliver, and the reference lost when a timestamp is given up.
\* So nobody uses a freed skb, and none is kept but those given up.
RefsExact ==
  \A s \in Skbs :
    refs[s] = Held(s \in {cur, tx}) + Held(\E i \in Ids : Holds(i, s)) + Held(s \in lost)

\* The register of the id, or what is kept of it, may be that of another frame.
Doubtful == stray \cup torn

\* A timestamp is the time at which its own frame was sent, unless another frame may have
\* written the register of the id (one that was sent without the slot, or one whose
\* timestamp had been given up although the hardware had not dropped it), or the halves
\* of two timestamps were taken for one: then last_tx_tstamp is wrong from there on.
OwnTimestamp ==
  \A s \in Skbs :
    stamps[s] # NoStamp => stamps[s].time = sentAt[s] \/ stamps[s].id \in Doubtful

\* "Tx timestamp is not updated. Try again": a changed register holds the timestamp of
\* the frame that is waited for.
TimestampBelongs ==
  \A s \in Skbs : stamps[s] # NoStamp => stamps[s].time = sentAt[s]

\* The low bits determine the window: it lies in the period that begins now.
InPeriod(m) == \A t \in {m.from, m.to} : m.at <= t /\ t - m.at < Period - Margin

\* No timestamp is given up, and no register read, too early: the work waits for the
\* window of the frame, although the header holds only the low bits of its times.  (When
\* start_xmit reads a torn clock the period is another; when the work reads a clock that
\* is ahead it does not wait.)
WaitsForWindow ==
  \A i \in Ids \ ahead :
    i \in bit /\ InPeriod(meta[workSkb[i]]) =>
      /\ Running(i) => now >= meta[workSkb[i]].from
      /\ retry[i] > 0 => now >= meta[workSkb[i]].to

\* Every slot that is taken is given back, whether the hardware sends or drops the frame.
SlotFreed == \A i \in Ids : i \in bit ~> i \notin bit

\* The transmit queue is woken again, unless a failed receive left its interrupt disabled.
QueueWakes == tx # NoSkb ~> (tx = NoSkb \/ "h2c" \notin irqOn)

\* The abstract specification: an id waits for the frame of its slot, and for none when
\* the slot is free.
WaitedFor == [i \in Ids |-> IF i \in bit THEN workSkb[i] ELSE NoSkb]
DueFor == [i \in Ids |-> IF work[i] = "deliver" THEN skb[i] ELSE NoSkb]
TimeGiven == [s \in Skbs |-> stamps[s].time]

Service == INSTANCE StampService WITH
             waiting <- WaitedFor, due <- DueFor, stamp <- TimeGiven, latest <- last,
             fouled <- Doubtful

\* All that slots, work items, registers and interrupts amount to for a sender: it gets
\* one answer, the time of its own frame or none, although the slot goes to the next
\* frame before the answer is delivered, and a late time may still come after the work
\* has given up.  A time read by halves is wrong only if it and the last one lie in
\* different rounds of the low half.
ServesSenders == Service!Spec

----------------------------------------------------------------------------
(* What RefsExact rests on (proved in TxTimestampProofs). *)

\* start_xmit works on one frame at a time, and the next one waits for the interrupt.
OneFrame ==
  /\ pc = "idle" <=> cur = NoSkb
  /\ pc # "idle" => tx = NoSkb
  /\ "h2c" \in irq <=> tx # NoSkb
  /\ {cur, tx} \subseteq given \cup {NoSkb}

\* A frame is in one place of the timestamp machinery only, and not yet in any before
\* start_xmit has claimed its slot.
Apart ==
  /\ lost \subseteq given
  /\ pc = "claim" => cur \notin lost
  /\ \A i \in Ids, s \in Skbs :
       Holds(i, s) => s \in given \ lost /\ ~(pc = "claim" /\ cur = s)
  /\ \A i, j \in Ids, s \in Skbs : Holds(i, s) /\ Holds(j, s) => i = j
  /\ \A i \in Ids : work[i] = "deliver" => skb[i] # NoSkb /\ (i \in bit => workSkb[i] # skb[i])

\* The inductive invariant.
SlotInv == TypeOK /\ SlotOwned /\ RefsExact /\ OneFrame /\ Apart

\* What WaitsForWindow rests on: the times of a slot are those of its frame, and the work
\* reads the register and counts retries only after them.
Waiting ==
  \A i \in Ids :
    /\ i \in bit => /\ startAfter[i] = Extend(meta[workSkb[i]].at, meta[workSkb[i]].from % Period)
                    /\ waitUntil[i] = Extend(meta[workSkb[i]].at, meta[workSkb[i]].to % Period)
    /\ Running(i) => now >= startAfter[i] \/ i \in ahead
    /\ retry[i] > 0 => i \in bit /\ (now >= waitUntil[i] \/ i \in ahead)

\* Frames the hardware has or is about to get.
Flight == hw \cup (IF pc = "start" THEN {cur} ELSE {})

\* What OwnTimestamp rests on: a frame passes through the hardware once, after it has
\* claimed its slot and before it has a timestamp, which is that of its own id.
Journey ==
  /\ hw \cup dropped \subseteq given /\ hw \cap dropped = {}
  /\ pc # "idle" => cur \notin hw \cup dropped
  /\ pc = "claim" => stamps[cur] = NoStamp
  /\ \A s \in Skbs : stamps[s] # NoStamp => s \in given /\ stamps[s].id \in Ids
  /\ \A i \in Ids, s \in Skbs : Holds(i, s) => meta[s].id = i

\* ... and, as long as no other frame may write the register, it changes only when the
\* frame of the slot is sent.
OwnOf(i) ==
  /\ i \notin bit => reg[i] = last[i]
  /\ i \in bit => \/ reg[i] = last[i]
                  \/ /\ reg[i] = sentAt[workSkb[i]] /\ reg[i] # 0
                     /\ workSkb[i] \notin dropped
  /\ \A h \in {"high", "low"} : work[i] = h =>
       \E t \in {last[i], reg[i]} : tstamp[i] = Part(Other(h), t)
  /\ \A s \in Flight : meta[s].id = i => i \in bit /\ workSkb[i] = s /\ reg[i] = last[i]
  /\ work[i] = "deliver" => tstamp[i] = sentAt[skb[i]]
  /\ \A s \in Skbs : stamps[s].id = i => stamps[s].time = sentAt[s] /\ meta[s].id = i /\ s \notin Flight

OwnRegister == \A i \in Ids \ Doubtful : OwnOf(i)

\* What ServesSenders rests on besides: no frame has a time yet to come,
TimesGrow == \A s \in Skbs : sentAt[s] <= now

\* ... a frame has a time only when it has left the hardware,
SentOnce ==
  \A s \in Skbs :
    sentAt[s] # 0 => s \in given \ (Flight \cup dropped) /\ ~(pc = "claim" /\ cur = s)

\* ... and one with an answer gets no other.
AnsweredOnce ==
  /\ \A s \in Skbs : stamps[s] # NoStamp => s \notin lost
  /\ \A i \in Ids, s \in Skbs : Holds(i, s) => stamps[s] = NoStamp

Answers == TimesGrow /\ SentOnce /\ AnsweredOnce
============================================================================

-------------------------- MODULE TxTimestampProofs --------------------------
(* The invariants of TxTimestamp, for any frames, ids, windows, clocks and failures. *)
EXTENDS TxTimestamp, TLAPS

\* Extend gives a time.
LEMMA ExtendType ==
  ASSUME NEW at \in Nat, NEW t \in Int
  PROVE  Extend(at, t % Period) \in Nat
<1>1. /\ at % Period \in 0 .. (Period - 1) /\ at % Period <= at
      /\ t % Period \in 0 .. (Period - 1)
  BY TimestampAssumption
<1> QED  BY <1>1, TimestampAssumption DEF Extend

\* The clock, torn or not, is a number, and one that is late is known to be.
LEMMA ClockType ==
  ASSUME now \in Nat, NEW c \in AlinxGetSysClock
  PROVE  c \in Nat
<1> QED  BY TimestampAssumption DEF AlinxGetSysClock

\* A half of a time is a number, and so is what two halves make.
LEMMA PartType ==
  ASSUME NEW h, NEW t \in Nat
  PROVE  Part(h, t) \in Nat
<1>1. t \div Word \in Nat /\ t % Word \in Nat /\ Word \in Nat  BY TimestampAssumption
<1>2. (t \div Word) * Word \in Nat  BY <1>1
<1> QED  BY <1>1, <1>2 DEF Part

\* The two halves of a time make that time.
LEMMA PartsWhole ==
  ASSUME NEW h \in {"high", "low"}, NEW t \in Nat
  PROVE  Part(Other(h), t) + Part(h, t) = t
<1> DEFINE q == t \div Word
           r == t % Word
<1>1. q \in Int /\ r \in Int /\ t = Word * q + r /\ Word \in Nat  BY TimestampAssumption
<1>2. q * Word = Word * q  BY <1>1
<1> HIDE DEF q, r
<1>3. q * Word + r = t /\ r + q * Word = t  BY <1>1, <1>2
<1> QED  BY <1>3 DEF Part, Other, q, r

\* The invariant holds when the device is set up.
LEMMA SlotInit == Init => SlotInv
<1> SUFFICES ASSUME Init PROVE SlotInv  OBVIOUS
<1> USE TimestampAssumption
<1>1. TypeOK
  <2>1. meta \in [Skbs -> [id : AllIds, at : Nat, from : Int, to : Int, wants : BOOLEAN]]
    BY DEF Init, NoMeta, AllIds
  <2>2. stamps \in [Skbs -> [id : AllIds, time : Nat \cup {-1}]]  BY DEF Init, NoStamp, AllIds
  <2>3. retry \in [Ids -> 0 .. (MaxRetry - 1)] /\ last \in [Ids -> Nat] /\ reg \in [Ids -> Nat]
    BY DEF Init
  <2>4. /\ startAfter \in [AllIds -> Nat] /\ waitUntil \in [AllIds -> Nat]
        /\ workSkb \in [AllIds -> Skbs \cup {NoSkb}]
    BY DEF Init
  <2> QED  BY <2>1, <2>2, <2>3, <2>4 DEF Init, TypeOK
<1>2. SlotOwned  BY DEF Init, SlotOwned, Running
<1>3. RefsExact /\ Apart  BY DEF Init, RefsExact, Held, Apart, Holds
<1>4. OneFrame  BY DEF Init, OneFrame
<1> QED  BY <1>1, <1>2, <1>3, <1>4 DEF SlotInv

\* What the invariant says of slots and references, as long as the following stay.
slotState == <<pc, cur, tx, given, bit, workSkb, queued, work, skb, lost, refs>>

\* A step that leaves slots, references and the transmit path alone keeps the invariant.
LEMMA SlotIdle ==
  ASSUME SlotOwned, RefsExact, Apart, UNCHANGED slotState
  PROVE  SlotOwned' /\ RefsExact' /\ Apart'
<1> USE DEF slotState
<1>1. \A i, s : Holds(i, s)' <=> Holds(i, s)  BY DEF Holds
<1>2. SlotOwned'  BY DEF SlotOwned, Running
<1>3. RefsExact'  BY <1>1 DEF RefsExact, Held
<1>4. Apart'  BY <1>1 DEF Apart
<1> QED  BY <1>2, <1>3, <1>4

\* Every step keeps the types; references only grow or are given back by who has one.
LEMMA NextTyped == SlotInv /\ [Next]_vars => TypeOK'
<1> SUFFICES ASSUME SlotInv, [Next]_vars PROVE TypeOK'  OBVIOUS
<1> USE TimestampAssumption
<1>t. TypeOK  BY DEF SlotInv
<1>1. CASE SetTsConfig  BY <1>1, <1>t DEF SetTsConfig, TypeOK, xmitVars, slotVars, workVars, isrVars, hwVars
<1>2. ASSUME NEW s \in Skbs, NEW i \in Ids, NEW wants \in BOOLEAN, NEW w \in Windows, XmitFill(s, i, wants, w)
      PROVE  TypeOK'
  <2>0. AlinxGetSysClock \subseteq Nat  BY <1>t, ClockType DEF TypeOK
  <2>1. now + w.lead \in Int /\ now + w.lead + w.len \in Int
    <3>1. now \in Int /\ w.lead \in Int /\ w.len \in Int
      <4>1. now \in Nat  BY ONLY <1>t DEF TypeOK
      <4>2. w \in [lead : Int, len : Nat \cup {-1}]  BY ONLY w \in Windows, TimestampAssumption
      <4> QED  BY ONLY <4>1, <4>2
    <3> QED  BY ONLY <3>1
  <2>2. meta' \in [Skbs -> [id : AllIds, at : Nat, from : Int, to : Int, wants : BOOLEAN]]
    <3>1. PICK at \in AlinxGetSysClock :
            meta' = [meta EXCEPT ![s] = [id |-> IF txOn THEN i ELSE None, at |-> at,
                                         from |-> now + w.lead, to |-> now + w.lead + w.len,
                                         wants |-> wants]]
      BY ONLY <1>2 DEF XmitFill
    <3>2. [id |-> IF txOn THEN i ELSE None, at |-> at, from |-> now + w.lead,
           to |-> now + w.lead + w.len, wants |-> wants]
            \in [id : AllIds, at : Nat, from : Int, to : Int, wants : BOOLEAN]
      BY <2>0, <2>1 DEF AllIds
    <3> QED  BY <1>t, <3>1, <3>2 DEF TypeOK
  <2>3. refs' \in [Skbs -> Nat]  BY <1>2, <1>t DEF XmitFill, TypeOK
  <2> QED  BY <1>2, <1>t, <2>2, <2>3 DEF XmitFill, TypeOK, slotVars, workVars, isrVars, hwVars
<1>3. CASE XmitClaim
  <2>1. cur \in Skbs  BY <1>3, <1>t DEF SlotInv, OneFrame, XmitClaim, SkbGet, TypeOK
  <2>2. meta[cur].id \in AllIds /\ meta[cur].at \in Nat /\ meta[cur].from \in Int /\ meta[cur].to \in Int
    BY <2>1, <1>t DEF TypeOK
  <2>3. /\ Extend(meta[cur].at, meta[cur].from % Period) \in Nat
        /\ Extend(meta[cur].at, meta[cur].to % Period) \in Nat
    BY <2>2, ExtendType
  <2>4. /\ startAfter' \in [AllIds -> Nat] /\ waitUntil' \in [AllIds -> Nat]
        /\ workSkb' \in [AllIds -> Skbs \cup {NoSkb}]
    BY <1>3, <1>t, <2>1, <2>3 DEF XmitClaim, SkbGet, TypeOK
  <2>5. bit' \subseteq AllIds /\ queued' \subseteq Ids /\ lost' \subseteq Skbs
    BY <1>3, <1>t, <2>1, <2>2 DEF XmitClaim, SkbGet, TypeOK, AllIds
  <2>6. refs' \in [Skbs -> Nat]  BY <1>3, <1>t, <2>1 DEF XmitClaim, SkbGet, TypeOK
  <2> QED  BY <1>3, <1>t, <2>4, <2>5, <2>6 DEF XmitClaim, SkbGet, TypeOK, workVars, isrVars, hwVars
<1>4. CASE XmitSkip
  <2>1. cur \in Skbs  BY <1>4, <1>t DEF SlotInv, OneFrame, XmitSkip, TypeOK
  <2>2. stray' \subseteq Ids  BY <1>4, <1>t, <2>1 DEF XmitSkip, TypeOK, AllIds
  <2> QED  BY <1>4, <1>t, <2>2 DEF XmitSkip, TypeOK, slotVars, workVars, isrVars, hwVars
<1>5. CASE XmitStart
  <2>1. cur \in Skbs  BY <1>5, <1>t DEF SlotInv, OneFrame, XmitStart, TypeOK
  <2> QED  BY <1>5, <1>t, <2>1 DEF XmitStart, TypeOK, slotVars, workVars
<1>6. ASSUME NEW i \in Ids, WorkStart(i) PROVE TypeOK'
  <2>1. ahead' \subseteq Ids  BY <1>6, <1>t DEF WorkStart, Ahead, TypeOK
  <2> QED  BY <1>6, <1>t, <2>1 DEF WorkStart, TypeOK, AllIds, xmitVars, isrVars, hwVars
<1>18. ASSUME NEW i \in Ids, WorkReadHalf(i) PROVE TypeOK'
  <2>1. PICK h \in {"high", "low"} :
          /\ tstamp' = [tstamp EXCEPT ![i] = Part(h, reg[i])]
          /\ work' = [work EXCEPT ![i] = Other(h)]
    BY <1>18 DEF WorkReadHalf
  <2>2. Part(h, reg[i]) \in Nat /\ Other(h) \in {"high", "low"}
    BY <1>t, PartType DEF TypeOK, Other
  <2> QED  BY <1>18, <1>t, <2>1, <2>2 DEF WorkReadHalf, TypeOK, xmitVars, slotVars, isrVars, hwVars
<1>7. ASSUME NEW i \in Ids, WorkRead(i) PROVE TypeOK'
  <2>0. TxTstamp(i) \in Nat  BY <1>t, PartType DEF TxTstamp, TypeOK
  <2>1. retry' \in [Ids -> 0 .. (MaxRetry - 1)]  BY <1>7, <1>t DEF WorkRead, LastTstamp, RetryReset, TypeOK
  <2>2. last' \in [Ids -> Nat] /\ tstamp' \in [Ids -> Nat]
    BY <2>0, <1>7, <1>t DEF WorkRead, LastTstamp, RetryReset, TypeOK
  <2>5. torn' \subseteq Ids /\ ahead' \subseteq Ids  BY <1>7, <1>t DEF WorkRead, TypeOK
  <2>3. workSkb' \in [AllIds -> Skbs \cup {NoSkb}] /\ bit' \subseteq AllIds
    BY <1>7, <1>t DEF WorkReadHalf, WorkRead, LastTstamp, RetryReset, TypeOK
  <2>4. work' \in [Ids -> {"idle", "read", "high", "low", "check", "deliver"}]
    <3>1. work' = [work EXCEPT ![i] = "check"] \/ work' = [work EXCEPT ![i] = "deliver"]
      BY <1>7 DEF WorkRead
    <3>2. work \in [Ids -> {"idle", "read", "high", "low", "check", "deliver"}]  BY <1>t DEF TypeOK
    <3> QED  BY ONLY <3>1, <3>2
  <2> QED  BY <1>7, <1>t, <2>1, <2>2, <2>3, <2>4, <2>5 DEF WorkReadHalf, WorkRead, LastTstamp, RetryReset, TypeOK, xmitVars, isrVars, hwVars
<1>8. ASSUME NEW i \in Ids, WorkRetry(i) PROVE TypeOK'
  <2>1. retry' \in [Ids -> 0 .. (MaxRetry - 1)]
    <3>1. PICK clock \in AlinxGetSysClock :
            /\ clock < waitUntil[i] \/ retry[i] + 1 < MaxRetry
            /\ retry' = NextRetry(i, clock)
      BY <1>8 DEF WorkRetry
    <3>2. clock \in Nat /\ waitUntil[i] \in Nat /\ retry[i] \in 0 .. (MaxRetry - 1)
      BY <1>t, ClockType DEF TypeOK, AllIds
    <3>3. (IF clock < waitUntil[i] THEN retry[i] ELSE retry[i] + 1) \in 0 .. (MaxRetry - 1)
      BY <3>1, <3>2
    <3> QED  BY <3>1, <3>3, <1>t DEF NextRetry, TypeOK
  <2>2. ahead' \subseteq Ids  BY <1>8, <1>t DEF WorkRetry, Ahead, TypeOK
  <2> QED  BY <1>8, <1>t, <2>1, <2>2 DEF WorkRetry, NextRetry, ScheduleWork, Leave, TypeOK, xmitVars, isrVars, hwVars
<1>9. ASSUME NEW i \in Ids, WorkGivesUp(i) PROVE TypeOK'
  <2>1. retry' \in [Ids -> 0 .. (MaxRetry - 1)]  BY <1>9, <1>t DEF WorkGivesUp, RetryReset, TypeOK
  <2>2. skb[i] \in Skbs  BY <1>9, <1>t DEF WorkGivesUp, RetryReset, TypeOK, SlotInv, SlotOwned, Running
  <2> QED  BY <1>9, <1>t, <2>1, <2>2 DEF WorkGivesUp, RetryReset, Leave, TypeOK, xmitVars, isrVars, hwVars
<1>10. ASSUME NEW i \in Ids, WorkDeliver(i) PROVE TypeOK'
  <2>1. skb[i] \in Skbs /\ Holds(i, skb[i])
    BY <1>10, <1>t DEF WorkDeliver, TypeOK, SlotInv, Apart, Holds
  <2>2. refs[skb[i]] - 1 \in Nat
    <3> DEFINE s == skb[i]
    <3>1. Held(\E j \in Ids : Holds(j, s)) = 1  BY <2>1 DEF Held
    <3>2. refs[s] = Held(s \in {cur, tx}) + 1 + Held(s \in lost)
      BY <2>1, <3>1 DEF SlotInv, RefsExact
    <3> QED  BY <3>2 DEF Held
  <2>3. refs' \in [Skbs -> Nat]
    <3>1. refs' = [refs EXCEPT ![skb[i]] = refs[skb[i]] - 1]  BY <1>10 DEF WorkDeliver
    <3> QED  BY <3>1, <1>t, <2>1, <2>2 DEF TypeOK
  <2>4. stamps' \in [Skbs -> [id : AllIds, time : Nat \cup {-1}]]
    BY <1>10, <1>t, <2>1 DEF WorkDeliver, TypeOK, AllIds
  <2> QED  BY <1>10, <1>t, <2>3, <2>4 DEF WorkDeliver, Leave, TypeOK, xmitVars, slotVars, isrVars, hwVars
<1>11. CASE IsrServes
  <2>1. refs' \in [Skbs -> Nat]
    <3>1. CASE "h2c" \in Requested
      <4>1. tx \in Skbs  BY <3>1, <1>t DEF SlotInv, OneFrame, Requested, TypeOK
      <4>2. refs[tx] - 1 \in Nat
        <5>1. refs[tx] = Held(tx \in {cur, tx}) + Held(\E i \in Ids : Holds(i, tx)) + Held(tx \in lost)
          BY <4>1 DEF SlotInv, RefsExact
        <5> QED  BY ONLY <5>1 DEF Held
      <4>3. refs' = [refs EXCEPT ![tx] = refs[tx] - 1]  BY <3>1, <1>11 DEF IsrServes, TxDone
      <4> QED  BY <4>1, <4>2, <4>3, <1>t DEF TypeOK
    <3>2. CASE "h2c" \notin Requested  BY <3>2, <1>11, <1>t DEF IsrServes, TxDone, TypeOK
    <3> QED  BY <3>1, <3>2
  <2> QED  BY <1>11, <1>t, <2>1 DEF IsrServes, TxDone, TypeOK, xmitVars, slotVars, workVars, hwVars
<1>12. CASE IsrRxFails
  BY <1>12, <1>t DEF IsrRxFails, TypeOK, xmitVars, slotVars, workVars, hwVars
<1>13. ASSUME NEW s \in Skbs, HwSends(s) PROVE TypeOK'
  <2>1. now' \in Nat /\ sentAt' \in [Skbs -> Nat] /\ reg' \in [Ids -> Nat]
    BY <1>13, <1>t DEF HwSends, TypeOK
  <2> QED  BY <1>13, <1>t, <2>1 DEF HwSends, TypeOK, xmitVars, slotVars, workVars, isrVars
<1>14. ASSUME NEW s \in Skbs, HwDrops(s) PROVE TypeOK'
  BY <1>14, <1>t DEF HwDrops, TypeOK, xmitVars, slotVars, workVars, isrVars
<1>15. CASE HwReceives
  BY <1>15, <1>t DEF HwReceives, TypeOK, xmitVars, slotVars, workVars, hwVars
<1>16. CASE Tick  BY <1>16, <1>t DEF Tick, TypeOK, xmitVars, slotVars, workVars, isrVars, hwVars
<1>17. CASE UNCHANGED vars
  BY <1>17, <1>t DEF vars, TypeOK, xmitVars, slotVars, workVars, isrVars, hwVars
<1> QED
  BY <1>1, <1>2, <1>3, <1>4, <1>5, <1>6, <1>7, <1>8, <1>9, <1>10, <1>11, <1>12, <1>13, <1>14,
     <1>15, <1>16, <1>17, <1>18
  DEF Next, Xmit, Work, Isr

\* start_xmit takes a new frame, whose only user it is.
LEMMA FillSlots ==
  ASSUME SlotInv, NEW s \in Skbs, NEW i \in Ids, NEW wants \in BOOLEAN, NEW w \in Windows,
         XmitFill(s, i, wants, w)
  PROVE  SlotOwned' /\ RefsExact' /\ OneFrame' /\ Apart'
<1> USE TimestampAssumption DEF SlotInv, slotVars, workVars, isrVars
<1>1. /\ UNCHANGED <<bit, workSkb, queued, work, skb, tx, irq, lost>>
      /\ cur' = s /\ pc' = "claim" /\ given' = given \cup {s} /\ s \notin given
      /\ refs' = [refs EXCEPT ![s] = 1]
      /\ cur = NoSkb /\ tx = NoSkb
  BY DEF XmitFill, OneFrame
<1>2. SlotOwned'  BY <1>1 DEF SlotOwned, Running
<1>3. OneFrame'  BY <1>1 DEF OneFrame
<1>4. \A j, t : Holds(j, t)' <=> Holds(j, t)  BY <1>1 DEF Holds
<1>5. s \notin lost /\ \A j \in Ids : ~Holds(j, s)  BY <1>1 DEF Apart
<1>6. Apart'  BY <1>1, <1>4, <1>5 DEF Apart
<1>7. RefsExact'
  <2> SUFFICES ASSUME NEW t \in Skbs
               PROVE  refs'[t] = Held(t \in {cur', tx'}) + Held(\E j \in Ids : Holds(j, t)') + Held(t \in lost')
    BY DEF RefsExact
  <2>1. CASE t = s  BY <2>1, <1>1, <1>4, <1>5 DEF Held, TypeOK
  <2>2. CASE t # s
    <3>1. refs'[t] = refs[t]  BY <2>2, <1>1 DEF TypeOK
    <3>2. t \in {cur', tx'} <=> t \in {cur, tx}  BY <2>2, <1>1
    <3> QED  BY <3>1, <3>2, <1>1, <1>4 DEF RefsExact, Held
  <2> QED  BY <2>1, <2>2
<1> QED  BY <1>2, <1>3, <1>6, <1>7

\* start_xmit takes the slot of the frame's id, with a reference.
LEMMA ClaimSlots ==
  ASSUME SlotInv, XmitClaim
  PROVE  SlotOwned' /\ RefsExact' /\ OneFrame' /\ Apart'
<1> USE TimestampAssumption DEF SlotInv, workVars, isrVars
<1> DEFINE id == meta[cur].id
<1>1. /\ UNCHANGED <<work, skb, cur, tx, irq, given>>
      /\ pc = "claim" /\ pc' = "start"
      /\ id \notin bit /\ bit' = bit \cup {id}
      /\ workSkb' = [workSkb EXCEPT ![id] = cur]
      /\ refs' = [refs EXCEPT ![cur] = @ + 1]
      /\ lost' = IF id = None THEN lost \cup {cur} ELSE lost
      /\ queued' = IF id = None THEN queued ELSE queued \cup {id}
  BY DEF XmitClaim, SkbGet
<1>2. cur \in Skbs /\ cur \in given /\ cur \notin lost /\ cur # NoSkb
  BY <1>1 DEF OneFrame, Apart, TypeOK
<1>3. id \in AllIds  BY <1>2 DEF TypeOK
<1>4. workSkb' \in [AllIds -> Skbs \cup {NoSkb}] /\ workSkb'[id] = cur
      /\ \A j \in Ids : j # id => workSkb'[j] = workSkb[j]
  BY <1>1, <1>2, <1>3 DEF TypeOK, AllIds
<1>5. \A j \in Ids : ~Holds(j, cur)  BY <1>1, <1>2 DEF Apart
<1> HIDE DEF id
<1>6. \A j \in Ids, t \in Skbs : Holds(j, t)' <=> (Holds(j, t) \/ (j = id /\ t = cur))
  BY <1>1, <1>4 DEF Holds
<1>7. SlotOwned'
  <2> SUFFICES ASSUME NEW j \in Ids
               PROVE  /\ j \in bit' <=> j \in queued' \/ Running(j)'
                      /\ ~(j \in queued' /\ Running(j)')
                      /\ j \in bit' => workSkb'[j] # NoSkb
                      /\ Running(j)' => skb'[j] = workSkb'[j]
    BY DEF SlotOwned
  <2>1. Running(j)' = Running(j)  BY <1>1 DEF Running
  <2>2. CASE j = id  BY <2>1, <2>2, <1>1, <1>2, <1>4 DEF SlotOwned
  <2>3. CASE j # id  BY <2>1, <2>3, <1>1, <1>4 DEF SlotOwned
  <2> QED  BY <2>2, <2>3
<1>8. OneFrame'  BY <1>1 DEF OneFrame
<1>9. Apart'
  <2>1. lost' \subseteq given'  BY <1>1, <1>2 DEF Apart
  <2>2. \A j \in Ids, t \in Skbs : Holds(j, t)' => t \in given' \ lost'
    <3> SUFFICES ASSUME NEW j \in Ids, NEW t \in Skbs, Holds(j, t)' PROVE t \in given' \ lost'
      OBVIOUS
    <3>1. CASE Holds(j, t)
      <4>1. t # cur /\ t \in given \ lost  BY <3>1, <1>5 DEF Apart
      <4> QED  BY <4>1, <1>1
    <3>2. CASE j = id /\ t = cur  BY <3>2, <1>1, <1>2
    <3> QED  BY <3>1, <3>2, <1>6
  <2>3. \A j, k \in Ids, t \in Skbs : Holds(j, t)' /\ Holds(k, t)' => j = k
    BY <1>5, <1>6 DEF Apart
  <2>4. ASSUME NEW j \in Ids, work'[j] = "deliver"
        PROVE  skb'[j] # NoSkb /\ (j \in bit' => workSkb'[j] # skb'[j])
    <3>1. work[j] = "deliver" /\ skb[j] # NoSkb /\ skb[j] \in Skbs  BY <2>4, <1>1 DEF Apart, TypeOK
    <3>2. Holds(j, skb[j])  BY <3>1 DEF Holds
    <3>3. skb[j] # cur  BY <3>2, <1>5
    <3>4. CASE j = id  BY <3>1, <3>3, <3>4, <1>1, <1>4
    <3>5. CASE j # id  BY <3>1, <3>5, <1>1, <1>4 DEF Apart
    <3> QED  BY <3>4, <3>5
  <2> QED  BY <2>1, <2>2, <2>3, <2>4, <1>1 DEF Apart
<1>10. RefsExact'
  <2> SUFFICES ASSUME NEW t \in Skbs
               PROVE  refs'[t] = Held(t \in {cur', tx'}) + Held(\E j \in Ids : Holds(j, t)') + Held(t \in lost')
    BY DEF RefsExact
  <2>1. refs[t] = Held(t \in {cur, tx}) + Held(\E j \in Ids : Holds(j, t)) + Held(t \in lost)
    BY DEF RefsExact
  <2>2. CASE t # cur
    <3>1. refs'[t] = refs[t]  BY <2>2, <1>1 DEF TypeOK
    <3>2. t \in lost' <=> t \in lost  BY <2>2, <1>1
    <3>3. (\E j \in Ids : Holds(j, t)') <=> \E j \in Ids : Holds(j, t)  BY <2>2, <1>6
    <3> QED  BY <2>1, <3>1, <3>2, <3>3, <1>1 DEF Held
  <2>3. CASE t = cur
    <3>1. refs'[t] = refs[t] + 1  BY <2>3, <1>1, <1>2 DEF TypeOK
    <3>2. refs[t] = 1
      <4>1. ~(\E j \in Ids : Holds(j, t)) /\ t \notin lost /\ t \in {cur, tx}  BY <2>3, <1>2, <1>5
      <4> QED  BY <4>1, <2>1 DEF Held
    <3>3. CASE id = None
      <4>1. id \notin Ids /\ t \in lost' /\ t \in {cur', tx'}  BY <2>3, <3>3, <1>1
      <4>2. ~(\E j \in Ids : Holds(j, t)')  BY <4>1, <2>3, <1>5, <1>6
      <4> QED  BY <3>1, <3>2, <4>1, <4>2 DEF Held
    <3>4. CASE id # None
      <4>1. id \in Ids /\ t \notin lost' /\ t \in {cur', tx'}
        BY <2>3, <3>4, <1>1, <1>2, <1>3 DEF AllIds
      <4>2. \E j \in Ids : Holds(j, t)'  BY <4>1, <2>3, <1>6
      <4> QED  BY <3>1, <3>2, <4>1, <4>2 DEF Held
    <3> QED  BY <3>3, <3>4
  <2> QED  BY <2>2, <2>3
<1> QED  BY <1>7, <1>8, <1>9, <1>10

\* The frame goes to the hardware, and is the interrupt's from now on.
LEMMA StartSlots ==
  ASSUME SlotInv, XmitStart
  PROVE  SlotOwned' /\ RefsExact' /\ OneFrame' /\ Apart'
<1> USE TimestampAssumption DEF SlotInv, slotVars, workVars
<1>1. /\ UNCHANGED <<bit, workSkb, queued, work, skb, lost, refs, given>>
      /\ tx = NoSkb /\ cur # NoSkb /\ tx' = cur /\ cur' = NoSkb
      /\ irq' = irq \cup {"h2c"} /\ pc' = "idle"
  BY DEF XmitStart, OneFrame
<1>2. SlotOwned'  BY <1>1 DEF SlotOwned, Running
<1>3. OneFrame'  BY <1>1 DEF OneFrame
<1>4. \A j, t : Holds(j, t)' <=> Holds(j, t)  BY <1>1 DEF Holds
<1>5. Apart'  BY <1>1, <1>4 DEF Apart
<1>6. RefsExact'
  <2>1. {cur', tx'} = {cur, tx}  BY <1>1
  <2> QED  BY <2>1, <1>1, <1>4 DEF RefsExact, Held
<1> QED  BY <1>2, <1>3, <1>5, <1>6

\* A frame that is sent without a slot.
LEMMA SkipSlots ==
  ASSUME SlotInv, XmitSkip
  PROVE  SlotOwned' /\ RefsExact' /\ OneFrame' /\ Apart'
<1> USE DEF SlotInv, slotVars, workVars, isrVars
<1>1. /\ UNCHANGED <<bit, workSkb, queued, work, skb, lost, refs, given, tx, cur, irq>>
      /\ pc = "claim" /\ pc' = "start"
  BY DEF XmitSkip
<1>2. SlotOwned'  BY <1>1 DEF SlotOwned, Running
<1>3. OneFrame'  BY <1>1 DEF OneFrame
<1>4. \A j, t : Holds(j, t)' <=> Holds(j, t)  BY <1>1 DEF Holds
<1>5. Apart'  BY <1>1, <1>4 DEF Apart
<1>6. RefsExact'  BY <1>1, <1>4 DEF RefsExact, Held
<1> QED  BY <1>2, <1>3, <1>5, <1>6

\* do_tx_work starts, reads a register that has not changed, or queues itself again: the
\* slot keeps its one work item.
LEMMA PollSlots ==
  ASSUME SlotInv, NEW i \in Ids,
         WorkStart(i) \/ WorkReadHalf(i) \/ (WorkRead(i) /\ TxTstamp(i) = last[i]) \/ WorkRetry(i)
  PROVE  SlotOwned' /\ RefsExact' /\ OneFrame' /\ Apart'
<1> USE DEF SlotInv, xmitVars, isrVars
<1>1. UNCHANGED <<bit, workSkb, lost, refs, given, tx, cur, irq, pc>>
  BY DEF WorkStart, WorkReadHalf, WorkRead, LastTstamp, RetryReset, WorkRetry, NextRetry, ScheduleWork, slotVars
<1>2. work[i] # "deliver" /\ work'[i] # "deliver" /\ work' = [work EXCEPT ![i] = work'[i]]
  BY DEF WorkStart, WorkReadHalf, WorkRead, LastTstamp, RetryReset, WorkRetry, NextRetry, ScheduleWork, Leave, Other, slotVars, TypeOK
<1>3. \A j \in Ids : j # i => work'[j] = work[j] /\ skb'[j] = skb[j] /\ (j \in queued' <=> j \in queued)
  BY DEF WorkStart, WorkReadHalf, WorkRead, LastTstamp, RetryReset, WorkRetry, NextRetry, ScheduleWork, Leave, Other, slotVars, TypeOK
<1>4. SlotOwned'
  <2> SUFFICES ASSUME NEW j \in Ids
               PROVE  /\ j \in bit' <=> j \in queued' \/ Running(j)'
                      /\ ~(j \in queued' /\ Running(j)')
                      /\ j \in bit' => workSkb'[j] # NoSkb
                      /\ Running(j)' => skb'[j] = workSkb'[j]
    BY DEF SlotOwned
  <2>1. CASE j # i  BY <2>1, <1>1, <1>3 DEF SlotOwned, Running
  <2>2. CASE j = i
    <3>1. CASE WorkStart(i)  BY <2>2, <3>1, <1>1 DEF WorkStart, SlotOwned, Running, TypeOK
    <3>2. CASE WorkRead(i) /\ TxTstamp(i) = last[i]
      BY <2>2, <3>2, <1>1 DEF WorkReadHalf, WorkRead, LastTstamp, RetryReset, SlotOwned, Running, TypeOK
    <3>4. CASE WorkReadHalf(i)
      BY <2>2, <3>4, <1>1 DEF WorkReadHalf, Other, SlotOwned, Running, TypeOK, slotVars
    <3>3. CASE WorkRetry(i)
      BY <2>2, <3>3, <1>1 DEF WorkRetry, NextRetry, ScheduleWork, Leave, SlotOwned, Running, TypeOK
    <3> QED  BY <3>1, <3>2, <3>3, <3>4
  <2> QED  BY <2>1, <2>2
<1>5. OneFrame'  BY <1>1 DEF OneFrame
<1>6. \A j \in Ids, t \in Skbs : Holds(j, t)' <=> Holds(j, t)  BY <1>1, <1>2, <1>3 DEF Holds
<1>7. Apart'
  <2>1. \A j \in Ids : work'[j] = "deliver" => work[j] = "deliver" /\ skb'[j] = skb[j]
    BY <1>2, <1>3
  <2> QED  BY <2>1, <1>1, <1>6 DEF Apart
<1>8. RefsExact'  BY <1>1, <1>6 DEF RefsExact, Held
<1> QED  BY <1>4, <1>5, <1>7, <1>8

\* do_tx_work takes a timestamp: the reference of the slot becomes its own.
LEMMA TakeSlots ==
  ASSUME SlotInv, NEW i \in Ids, WorkRead(i), TxTstamp(i) # last[i]
  PROVE  SlotOwned' /\ RefsExact' /\ OneFrame' /\ Apart'
<1> USE TimestampAssumption DEF SlotInv, xmitVars, isrVars
<1>1. /\ UNCHANGED <<lost, refs, given, tx, cur, irq, pc, queued, skb>>
      /\ work[i] \in {"high", "low"} /\ work' = [work EXCEPT ![i] = "deliver"]
      /\ bit' = bit \ {i} /\ workSkb' = [workSkb EXCEPT ![i] = NoSkb]
  BY DEF WorkReadHalf, WorkRead, LastTstamp, RetryReset
<1>2. i \in bit /\ i \notin queued /\ skb[i] = workSkb[i] /\ skb[i] # NoSkb
  BY <1>1 DEF SlotOwned, Running
<1>3. \A j \in Ids : j # i => /\ work'[j] = work[j] /\ workSkb'[j] = workSkb[j]
                              /\ (j \in bit' <=> j \in bit)
  BY <1>1 DEF TypeOK, AllIds
<1>4. work'[i] = "deliver" /\ i \notin bit'  BY <1>1 DEF TypeOK
<1>5. \A j \in Ids, t \in Skbs : Holds(j, t)' <=> Holds(j, t)
  <2> TAKE j \in Ids, t \in Skbs
  <2>1. CASE j = i  BY <2>1, <1>1, <1>2, <1>4 DEF Holds
  <2>2. CASE j # i  BY <2>2, <1>1, <1>3 DEF Holds
  <2> QED  BY <2>1, <2>2
<1>6. SlotOwned'
  <2> SUFFICES ASSUME NEW j \in Ids
               PROVE  /\ j \in bit' <=> j \in queued' \/ Running(j)'
                      /\ ~(j \in queued' /\ Running(j)')
                      /\ j \in bit' => workSkb'[j] # NoSkb
                      /\ Running(j)' => skb'[j] = workSkb'[j]
    BY DEF SlotOwned
  <2>1. CASE j # i  BY <2>1, <1>1, <1>3 DEF SlotOwned, Running
  <2>2. CASE j = i  BY <2>2, <1>1, <1>2, <1>4 DEF Running
  <2> QED  BY <2>1, <2>2
<1>7. OneFrame'  BY <1>1 DEF OneFrame
<1>8. Apart'
  <2>1. \A j \in Ids : work'[j] = "deliver" =>
          skb'[j] # NoSkb /\ (j \in bit' => workSkb'[j] # skb'[j])
    <3> TAKE j \in Ids
    <3>1. CASE j = i  BY <3>1, <1>1, <1>2, <1>4
    <3>2. CASE j # i  BY <3>2, <1>1, <1>3 DEF Apart
    <3> QED  BY <3>1, <3>2
  <2> QED  BY <2>1, <1>1, <1>5 DEF Apart
<1>9. RefsExact'  BY <1>1, <1>5 DEF RefsExact, Held
<1> QED  BY <1>6, <1>7, <1>8, <1>9

\* do_tx_work gives up: the reference of the slot is lost with the timestamp.
LEMMA GiveUpSlots ==
  ASSUME SlotInv, NEW i \in Ids, WorkGivesUp(i)
  PROVE  SlotOwned' /\ RefsExact' /\ OneFrame' /\ Apart'
<1> USE TimestampAssumption DEF SlotInv, xmitVars, isrVars
<1>1. /\ UNCHANGED <<workSkb, refs, given, tx, cur, irq, pc, queued>>
      /\ work[i] = "check" /\ work' = [work EXCEPT ![i] = "idle"]
      /\ skb' = [skb EXCEPT ![i] = NoSkb]
      /\ bit' = bit \ {i} /\ lost' = lost \cup {skb[i]}
  BY DEF WorkGivesUp, RetryReset, Leave
<1>2. /\ i \in bit /\ i \notin queued /\ skb[i] = workSkb[i] /\ skb[i] \in Skbs
      /\ Holds(i, skb[i])
  BY <1>1 DEF SlotOwned, Running, TypeOK, Holds
<1>3. \A j \in Ids : j # i => /\ work'[j] = work[j] /\ skb'[j] = skb[j]
                              /\ (j \in bit' <=> j \in bit)
  BY <1>1 DEF TypeOK
<1>4. work'[i] = "idle" /\ i \notin bit'  BY <1>1 DEF TypeOK
<1>5. \A j \in Ids, t \in Skbs : Holds(j, t)' <=> (Holds(j, t) /\ t # skb[i])
  <2> TAKE j \in Ids, t \in Skbs
  <2>1. CASE j = i  BY <2>1, <1>1, <1>2, <1>4 DEF Holds
  <2>2. CASE j # i
    <3>1. ~Holds(j, skb[i])  BY <2>2, <1>2 DEF Apart
    <3> QED  BY <2>2, <3>1, <1>1, <1>3 DEF Holds
  <2> QED  BY <2>1, <2>2
<1>6. SlotOwned'
  <2> SUFFICES ASSUME NEW j \in Ids
               PROVE  /\ j \in bit' <=> j \in queued' \/ Running(j)'
                      /\ ~(j \in queued' /\ Running(j)')
                      /\ j \in bit' => workSkb'[j] # NoSkb
                      /\ Running(j)' => skb'[j] = workSkb'[j]
    BY DEF SlotOwned
  <2>1. CASE j # i  BY <2>1, <1>1, <1>3 DEF SlotOwned, Running
  <2>2. CASE j = i  BY <2>2, <1>1, <1>2, <1>4 DEF Running
  <2> QED  BY <2>1, <2>2
<1>7. OneFrame'  BY <1>1 DEF OneFrame
<1>8. Apart'
  <2>1. lost' \subseteq given' /\ (pc' = "claim" => cur' \notin lost')
    BY <1>1, <1>2 DEF Apart
  <2>2. \A j \in Ids : work'[j] = "deliver" =>
          skb'[j] # NoSkb /\ (j \in bit' => workSkb'[j] # skb'[j])
    BY <1>1, <1>3, <1>4 DEF Apart
  <2>3. \A j \in Ids, t \in Skbs :
          Holds(j, t)' => t \in given' \ lost' /\ ~(pc' = "claim" /\ cur' = t)
    BY <1>1, <1>5 DEF Apart
  <2> QED  BY <2>1, <2>2, <2>3, <1>5 DEF Apart
<1>9. RefsExact'
  <2> SUFFICES ASSUME NEW t \in Skbs
               PROVE  refs'[t] = Held(t \in {cur', tx'}) + Held(\E j \in Ids : Holds(j, t)') + Held(t \in lost')
    BY DEF RefsExact
  <2>1. refs[t] = Held(t \in {cur, tx}) + Held(\E j \in Ids : Holds(j, t)) + Held(t \in lost)
    BY DEF RefsExact
  <2>2. CASE t # skb[i]
    <3>1. (\E j \in Ids : Holds(j, t)') <=> \E j \in Ids : Holds(j, t)  BY <2>2, <1>5
    <3>2. t \in lost' <=> t \in lost  BY <2>2, <1>1
    <3> QED  BY <2>1, <3>1, <3>2, <1>1 DEF Held
  <2>3. CASE t = skb[i]
    <3>1. t \notin lost /\ t \in lost'  BY <2>3, <1>1, <1>2 DEF Apart
    <3>2. (\E j \in Ids : Holds(j, t)) /\ ~(\E j \in Ids : Holds(j, t)')
      BY <2>3, <1>2, <1>5
    <3> QED  BY <2>1, <3>1, <3>2, <1>1 DEF Held
  <2> QED  BY <2>2, <2>3
<1> QED  BY <1>6, <1>7, <1>8, <1>9

\* do_tx_work delivers the timestamp and gives its reference back; the slot may already
\* be that of another frame.
LEMMA DeliverSlots ==
  ASSUME SlotInv, NEW i \in Ids, WorkDeliver(i)
  PROVE  SlotOwned' /\ RefsExact' /\ OneFrame' /\ Apart'
<1> USE TimestampAssumption DEF SlotInv, xmitVars, isrVars, slotVars
<1>1. /\ UNCHANGED <<bit, lost, workSkb, given, tx, cur, irq, pc, queued>>
      /\ work[i] = "deliver" /\ work' = [work EXCEPT ![i] = "idle"]
      /\ skb' = [skb EXCEPT ![i] = NoSkb]
      /\ refs' = [refs EXCEPT ![skb[i]] = refs[skb[i]] - 1]
  BY DEF WorkDeliver, Leave
<1>2. skb[i] \in Skbs /\ Holds(i, skb[i])  BY <1>1 DEF Apart, TypeOK, Holds
<1>3. \A j \in Ids : j # i => work'[j] = work[j] /\ skb'[j] = skb[j]  BY <1>1 DEF TypeOK
<1>4. work'[i] = "idle"  BY <1>1 DEF TypeOK
<1>5. \A j \in Ids, t \in Skbs : Holds(j, t)' <=> (Holds(j, t) /\ t # skb[i])
  <2> TAKE j \in Ids, t \in Skbs
  <2>1. CASE j = i  BY <2>1, <1>1, <1>4 DEF Holds, Apart
  <2>2. CASE j # i
    <3>1. ~Holds(j, skb[i])  BY <2>2, <1>2 DEF Apart
    <3> QED  BY <2>2, <3>1, <1>1, <1>3 DEF Holds
  <2> QED  BY <2>1, <2>2
<1>6. SlotOwned'
  <2> SUFFICES ASSUME NEW j \in Ids
               PROVE  /\ j \in bit' <=> j \in queued' \/ Running(j)'
                      /\ ~(j \in queued' /\ Running(j)')
                      /\ j \in bit' => workSkb'[j] # NoSkb
                      /\ Running(j)' => skb'[j] = workSkb'[j]
    BY DEF SlotOwned
  <2>1. CASE j # i  BY <2>1, <1>1, <1>3 DEF SlotOwned, Running
  <2>2. CASE j = i  BY <2>2, <1>1, <1>4 DEF SlotOwned, Running
  <2> QED  BY <2>1, <2>2
<1>7. OneFrame'  BY <1>1 DEF OneFrame
<1>8. Apart'
  <2>1. \A j \in Ids : work'[j] = "deliver" => work[j] = "deliver" /\ skb'[j] = skb[j]
    BY <1>3, <1>4
  <2> QED  BY <2>1, <1>1, <1>5 DEF Apart
<1>9. RefsExact'
  <2> SUFFICES ASSUME NEW t \in Skbs
               PROVE  refs'[t] = Held(t \in {cur', tx'}) + Held(\E j \in Ids : Holds(j, t)') + Held(t \in lost')
    BY DEF RefsExact
  <2>1. refs[t] = Held(t \in {cur, tx}) + Held(\E j \in Ids : Holds(j, t)) + Held(t \in lost)
    BY DEF RefsExact
  <2>2. CASE t # skb[i]
    <3>1. (\E j \in Ids : Holds(j, t)') <=> \E j \in Ids : Holds(j, t)  BY <2>2, <1>5
    <3>2. refs'[t] = refs[t]  BY <2>2, <1>1 DEF TypeOK
    <3> QED  BY <2>1, <3>1, <3>2, <1>1 DEF Held
  <2>3. CASE t = skb[i]
    <3>1. refs'[t] = refs[t] - 1  BY <2>3, <1>1, <1>2 DEF TypeOK
    <3>2. (\E j \in Ids : Holds(j, t)) /\ ~(\E j \in Ids : Holds(j, t)')
      BY <2>3, <1>2, <1>5
    <3> QED  BY <2>1, <3>1, <3>2, <1>1 DEF Held
  <2> QED  BY <2>2, <2>3
<1> QED  BY <1>6, <1>7, <1>8, <1>9

\* The interrupt of the transmit channel gives the reference of the transmit path back.
LEMMA IsrSlots ==
  ASSUME SlotInv, IsrServes
  PROVE  SlotOwned' /\ RefsExact' /\ OneFrame' /\ Apart'
<1> USE TimestampAssumption DEF SlotInv, xmitVars, workVars, slotVars
<1>1. /\ UNCHANGED <<bit, lost, workSkb, given, cur, pc, queued, work, skb>>
      /\ irq' = irq \ Requested
  BY DEF IsrServes, TxDone
<1>2. SlotOwned'  BY <1>1 DEF SlotOwned, Running
<1>3. \A j, t : Holds(j, t)' <=> Holds(j, t)  BY <1>1 DEF Holds
<1>4. Apart'  BY <1>1, <1>3 DEF Apart
<1>5. CASE "h2c" \notin Requested
  <2>1. UNCHANGED <<tx, refs>> /\ ("h2c" \in irq' <=> "h2c" \in irq)  BY <1>1, <1>5 DEF IsrServes, TxDone
  <2>2. OneFrame'  BY <2>1, <1>1 DEF OneFrame
  <2>3. RefsExact'  BY <2>1, <1>1, <1>3 DEF RefsExact, Held
  <2> QED  BY <2>2, <2>3, <1>2, <1>4
<1>6. CASE "h2c" \in Requested
  <2>1. tx' = NoSkb /\ refs' = [refs EXCEPT ![tx] = refs[tx] - 1] /\ "h2c" \notin irq'
    BY <1>1, <1>6 DEF IsrServes, TxDone
  <2>2. tx \in Skbs /\ cur = NoSkb  BY <1>6 DEF Requested, OneFrame, TypeOK
  <2>3. OneFrame'  BY <2>1, <2>2, <1>1 DEF OneFrame
  <2>4. RefsExact'
    <3> SUFFICES ASSUME NEW t \in Skbs
                 PROVE  refs'[t] = Held(t \in {cur', tx'}) + Held(\E j \in Ids : Holds(j, t)') + Held(t \in lost')
      BY DEF RefsExact
    <3>1. refs[t] = Held(t \in {cur, tx}) + Held(\E j \in Ids : Holds(j, t)) + Held(t \in lost)
      BY DEF RefsExact
    <3>2. t \notin {cur', tx'} /\ (t \in {cur, tx} <=> t = tx)  BY <2>1, <2>2, <1>1
    <3>3. refs'[t] = IF t = tx THEN refs[t] - 1 ELSE refs[t]  BY <2>1, <2>2 DEF TypeOK
    <3> QED  BY <3>1, <3>2, <3>3, <1>1, <1>3 DEF Held
  <2> QED  BY <2>3, <2>4, <1>2, <1>4
<1> QED  BY <1>5, <1>6

\* Every step keeps the invariant.
LEMMA SlotNext == SlotInv /\ [Next]_vars => SlotInv'
<1> SUFFICES ASSUME SlotInv, [Next]_vars PROVE SlotOwned' /\ RefsExact' /\ OneFrame' /\ Apart'
  BY NextTyped DEF SlotInv
<1>1. CASE UNCHANGED <<slotState, irq>>
  <2>1. OneFrame'  BY <1>1 DEF SlotInv, OneFrame, slotState
  <2> QED  BY <1>1, <2>1, SlotIdle DEF SlotInv
<1>2. CASE SetTsConfig \/ Tick \/ UNCHANGED vars \/ \E s \in Skbs : HwSends(s) \/ HwDrops(s)
  BY <1>1, <1>2 DEF SetTsConfig, Tick, HwSends, HwDrops, vars, slotState, slotVars, workVars,
                    xmitVars, isrVars
<1>3. CASE IsrRxFails \/ HwReceives
  <2>1. UNCHANGED slotState /\ ("h2c" \in irq' <=> "h2c" \in irq)
    BY <1>3 DEF IsrRxFails, HwReceives, slotState, slotVars, workVars, xmitVars
  <2>2. OneFrame'  BY <2>1 DEF SlotInv, OneFrame, slotState
  <2> QED  BY <2>1, <2>2, SlotIdle DEF SlotInv
<1>4. CASE \E s \in Skbs, i \in Ids, wants \in BOOLEAN, w \in Windows : XmitFill(s, i, wants, w)
  BY <1>4, FillSlots
<1>5. CASE Xmit  BY <1>5, ClaimSlots, SkipSlots, StartSlots DEF Xmit
<1>6. ASSUME NEW i \in Ids, Work(i) PROVE SlotOwned' /\ RefsExact' /\ OneFrame' /\ Apart'
  BY <1>6, PollSlots, TakeSlots, GiveUpSlots, DeliverSlots DEF Work
<1>7. CASE IsrServes  BY <1>7, IsrSlots
<1> QED  BY <1>2, <1>3, <1>4, <1>5, <1>6, <1>7 DEF Next, Isr

\* The inductive invariant of the slots and the references.
THEOREM SlotSafe == Spec => []SlotInv
<1> QED  BY SlotInit, SlotNext, PTL DEF Spec

\* Every variable keeps its type.
THEOREM TxTypeCorrect == Spec => []TypeOK
<1>1. SlotInv => TypeOK  BY DEF SlotInv
<1> QED  BY <1>1, SlotSafe, PTL

\* A slot has exactly one work item, which will free it, and no two frames share a slot:
\* do_tx_work and start_xmit agree through priv->state alone.
THEOREM SlotNeverShared == Spec => []SlotOwned
<1>1. SlotInv => SlotOwned  BY DEF SlotInv
<1> QED  BY <1>1, SlotSafe, PTL

\* No skb is used after it is freed, and none leaks but those do_tx_work gives up.
THEOREM NoUseAfterFree == Spec => []RefsExact
<1>1. SlotInv => RefsExact  BY DEF SlotInv
<1> QED  BY <1>1, SlotSafe, PTL

\* The high bits of the clock and the low bits of a time in the period that follows give
\* that time back.
LEMMA ExtendExact ==
  ASSUME NEW at \in Nat, NEW t \in Int, at <= t, t - at < Period - Margin
  PROVE  Extend(at, t % Period) = t
<1> DEFINE q == at \div Period
           r == t \div Period
           L == at % Period
           T == t % Period
<1>1. /\ q \in Int /\ r \in Int /\ L \in Int /\ T \in Int
      /\ 0 <= L /\ L < Period /\ 0 <= T /\ T < Period
      /\ at = Period * q + L /\ t = Period * r + T
      /\ Period \in Nat \ {0} /\ Margin \in Nat
  BY TimestampAssumption
<1> HIDE DEF q, r, L, T
<1>2. Period * (r - q) = (t - at) - (T - L)
  <2>1. Period * (r - q) = Period * r - Period * q  BY <1>1
  <2> QED  BY <2>1, <1>1
<1>3. r - q < 2
  <2> SUFFICES ASSUME r - q >= 2 PROVE FALSE  BY <1>1
  <2>1. Period * (r - q) >= Period * 2  BY <1>1
  <2> QED  BY <2>1, <1>1, <1>2
<1>4. r - q > -1
  <2> SUFFICES ASSUME r - q <= -1 PROVE FALSE  BY <1>1
  <2>1. Period * (r - q) <= -Period  BY <1>1
  <2> QED  BY <2>1, <1>1, <1>2
<1>5. CASE r = q
  <2>1. t - at = T - L  BY <1>1, <1>2, <1>5
  <2>2. Extend(at, T) = at - L + T  BY <2>1, <1>1 DEF Extend, L
  <2> QED  BY <2>1, <2>2, <1>1 DEF T
<1>6. CASE r = q + 1
  <2>1. t - at = Period + (T - L)
    <3>1. r - q = 1  BY <1>1, <1>6
    <3> QED  BY <3>1, <1>1, <1>2
  <2>2. Extend(at, T) = at - L + T + Period  BY <2>1, <1>1 DEF Extend, L
  <2> QED  BY <2>1, <2>2, <1>1 DEF T
<1> QED  BY <1>1, <1>3, <1>4, <1>5, <1>6

\* Every step keeps the times of the slots those of their frames.
LEMMA WaitingNext == SlotInv /\ Waiting /\ [Next]_vars => Waiting'
<1> SUFFICES ASSUME SlotInv, Waiting, [Next]_vars PROVE Waiting'  OBVIOUS
<1> USE TimestampAssumption
<1>t. /\ TypeOK /\ now \in Nat
      /\ \A i \in Ids : startAfter[i] \in Nat /\ waitUntil[i] \in Nat /\ retry[i] \in Nat
  BY DEF SlotInv, TypeOK, AllIds
<1>1. ASSUME UNCHANGED <<bit, workSkb, startAfter, waitUntil, retry, work, ahead>>, now' \in Nat, now' >= now,
             \A s \in given : meta'[s] = meta[s]
      PROVE  Waiting'
  <2>1. \A i \in Ids : i \in bit => workSkb[i] \in given
    BY DEF SlotInv, SlotOwned, Apart, Holds, TypeOK, AllIds
  <2> QED  BY <1>1, <1>t, <2>1 DEF Waiting, Running
<1>2. CASE \E s \in Skbs, i \in Ids, wants \in BOOLEAN, w \in Windows : XmitFill(s, i, wants, w)
  <2>1. \A s \in given : meta'[s] = meta[s]  BY <1>2, <1>t DEF XmitFill, TypeOK
  <2>2. UNCHANGED <<now, bit, workSkb, startAfter, waitUntil, retry, work, ahead>>
    BY <1>2 DEF XmitFill, slotVars, workVars
  <2> QED  BY <1>1, <1>t, <2>1, <2>2
<1>3. CASE SetTsConfig \/ UNCHANGED vars \/ XmitSkip \/ XmitStart \/ Isr \/ HwReceives
           \/ \E s \in Skbs : HwDrops(s)
  BY <1>1, <1>3, <1>t DEF SetTsConfig, vars, XmitSkip, XmitStart, Isr, IsrServes, TxDone, IsrRxFails,
     HwReceives, HwDrops, slotVars, workVars, xmitVars
<1>4. CASE Tick \/ \E s \in Skbs : HwSends(s)
  BY <1>1, <1>4, <1>t DEF Tick, HwSends, slotVars, workVars, xmitVars
<1>5. CASE XmitClaim
  <2> DEFINE id == meta[cur].id
  <2>1. id \in AllIds /\ id \notin bit
    BY <1>5, <1>t DEF XmitClaim, SkbGet, SlotInv, OneFrame, TypeOK
  <2>2. /\ UNCHANGED <<now, meta, retry, work, ahead>> /\ bit' = bit \cup {id}
        /\ workSkb'[id] = cur
        /\ startAfter'[id] = Extend(meta[cur].at, meta[cur].from % Period)
        /\ waitUntil'[id] = Extend(meta[cur].at, meta[cur].to % Period)
        /\ \A j \in Ids : j # id => /\ startAfter'[j] = startAfter[j] /\ waitUntil'[j] = waitUntil[j]
                                    /\ workSkb'[j] = workSkb[j]
    BY <1>5, <1>t, <2>1 DEF XmitClaim, SkbGet, TypeOK, AllIds, workVars
  <2> HIDE DEF id
  <2>3. ~Running(id) \/ id \notin Ids  BY <2>1 DEF SlotInv, SlotOwned
  <2> QED  BY <1>t, <2>1, <2>2, <2>3 DEF Waiting, Running
<1>6. ASSUME NEW i \in Ids, Work(i) PROVE Waiting'
  <2>1. /\ UNCHANGED <<now, meta, startAfter, waitUntil>>
        /\ bit' \subseteq bit
        /\ \A j \in Ids : j # i => /\ work'[j] = work[j] /\ retry'[j] = retry[j]
                                   /\ workSkb'[j] = workSkb[j] /\ (j \in bit' <=> j \in bit)
                                   /\ (j \in ahead' <=> j \in ahead)
    BY <1>6, <1>t DEF Work, WorkStart, WorkReadHalf, WorkRead, LastTstamp, RetryReset, WorkRetry, NextRetry, ScheduleWork, WorkGivesUp, RetryReset, WorkDeliver, Leave, Ahead,
       xmitVars, slotVars, TypeOK, AllIds
  <2>2. /\ i \in bit' => workSkb'[i] = workSkb[i]
        /\ Running(i)' => now >= startAfter[i] \/ i \in ahead'
        /\ retry'[i] > 0 => i \in bit' /\ (now >= waitUntil[i] \/ i \in ahead')
    <3>1. CASE WorkStart(i)
      <4>1. PICK clock \in AlinxGetSysClock : clock >= startAfter[i] /\ ahead' = Ahead(i, clock)
        BY <3>1 DEF WorkStart
      <4>2. clock \in Nat  BY <1>t, ClockType
      <4>3. now >= startAfter[i] \/ i \in ahead'  BY <4>1, <4>2, <1>t DEF Ahead
      <4>4. ahead \subseteq ahead'  BY <4>1 DEF Ahead
      <4> QED  BY <3>1, <4>3, <4>4, <1>t DEF WorkStart, Waiting
    <3>6. CASE WorkReadHalf(i)
      BY <3>6, <1>t DEF WorkReadHalf, Waiting, Running, TypeOK, slotVars
    <3>2. CASE WorkRead(i)
      BY <3>2, <1>t DEF WorkReadHalf, WorkRead, LastTstamp, RetryReset, Waiting, Running, TypeOK
    <3>3. CASE WorkRetry(i)
      <4>0. PICK clock \in AlinxGetSysClock :
              retry' = NextRetry(i, clock) /\ ahead' = Ahead(i, clock)
        BY <3>3 DEF WorkRetry
      <4>1. /\ retry'[i] = (IF clock < waitUntil[i] THEN retry[i] ELSE retry[i] + 1)
            /\ work'[i] = "idle" /\ bit' = bit /\ workSkb' = workSkb /\ work[i] = "check"
        BY <3>3, <4>0, <1>t DEF WorkRetry, NextRetry, Leave, TypeOK
      <4>2. i \in bit  BY <4>1 DEF SlotInv, SlotOwned, Running
      <4>3. clock \in Nat  BY <1>t, ClockType
      <4>4. ahead \subseteq ahead' /\ (clock > now => i \in ahead')  BY <4>0 DEF Ahead
      <4>5. CASE clock < waitUntil[i]
        <5>1. retry'[i] = retry[i]  BY <4>1, <4>5
        <5> QED  BY <5>1, <4>1, <4>2, <4>4 DEF Waiting, Running
      <4>6. CASE ~(clock < waitUntil[i])
        <5>1. now >= waitUntil[i] \/ i \in ahead'  BY <4>3, <4>4, <4>6, <1>t
        <5> QED  BY <5>1, <4>1, <4>2 DEF Running
      <4> QED  BY <4>5, <4>6
    <3>4. CASE WorkGivesUp(i)
      BY <3>4, <1>t DEF WorkGivesUp, RetryReset, Leave, Running, TypeOK
    <3>5. CASE WorkDeliver(i)
      BY <3>5, <1>t DEF WorkDeliver, Leave, Waiting, Running, TypeOK, slotVars
    <3> QED  BY <1>6, <3>1, <3>2, <3>3, <3>4, <3>5, <3>6 DEF Work
  <2> QED  BY <1>t, <2>1, <2>2 DEF Waiting, Running
<1> QED  BY <1>2, <1>3, <1>4, <1>5, <1>6 DEF Next, Xmit

\* No register is read and no timestamp given up before the window of the frame, for every
\* width of the tick counter and every margin.
THEOREM NeverTooEarly == Spec => []WaitsForWindow
<1>1. Init => Waiting  BY DEF Init, Waiting, Running
<1>2. SlotInv /\ Waiting => WaitsForWindow
  <2> SUFFICES ASSUME SlotInv, Waiting, NEW i \in Ids \ ahead, i \in bit, InPeriod(meta[workSkb[i]])
               PROVE  /\ Running(i) => now >= meta[workSkb[i]].from
                      /\ retry[i] > 0 => now >= meta[workSkb[i]].to
    BY DEF WaitsForWindow
  <2> DEFINE m == meta[workSkb[i]]
  <2>1. workSkb[i] \in Skbs  BY DEF SlotInv, SlotOwned, TypeOK, AllIds
  <2>2. m.at \in Nat /\ m.from \in Int /\ m.to \in Int  BY <2>1 DEF SlotInv, TypeOK
  <2>3. Extend(m.at, m.from % Period) = m.from /\ Extend(m.at, m.to % Period) = m.to
    BY <2>2, ExtendExact DEF InPeriod
  <2> QED  BY <2>3 DEF Waiting
<1> QED  BY <1>1, <1>2, SlotSafe, WaitingNext, PTL DEF Spec

\* Frames pass through the hardware once: steps of start_xmit.
LEMMA JourneyXmit ==
  ASSUME SlotInv, Journey, Xmit \/ \E s \in Skbs, i \in Ids, wants \in BOOLEAN, w \in Windows :
                                      XmitFill(s, i, wants, w)
  PROVE  Journey'
<1> USE TimestampAssumption DEF SlotInv
<1>1. ASSUME NEW s \in Skbs, NEW i \in Ids, NEW wants \in BOOLEAN, NEW w \in Windows,
             XmitFill(s, i, wants, w)
      PROVE  Journey'
  <2>1. /\ UNCHANGED <<bit, workSkb, work, skb, hw, dropped, stamps>>
        /\ cur' = s /\ given' = given \cup {s} /\ s \notin given
        /\ \A t \in given : meta'[t] = meta[t]
    BY <1>1 DEF XmitFill, slotVars, workVars, hwVars, TypeOK
  <2>2. \A j \in Ids, t \in Skbs : Holds(j, t)' <=> Holds(j, t)  BY <2>1 DEF Holds
  <2>3. \A j \in Ids, t \in Skbs : Holds(j, t)' => meta'[t].id = j
    BY <2>1, <2>2 DEF Apart, Journey
  <2> QED  BY <2>1, <2>3 DEF Journey, NoStamp
<1>2. CASE XmitClaim
  <2> DEFINE id == meta[cur].id
  <2>1. /\ UNCHANGED <<meta, cur, given, work, skb, hw, dropped, stamps>>
        /\ pc = "claim" /\ pc' = "start" /\ bit' = bit \cup {id}
        /\ workSkb' = [workSkb EXCEPT ![id] = cur]
    BY <1>2 DEF XmitClaim, SkbGet, workVars, hwVars
  <2>2. id \in AllIds  BY <2>1 DEF OneFrame, TypeOK
  <2>3. ASSUME NEW j \in Ids, NEW t \in Skbs, Holds(j, t)' PROVE meta'[t].id = j
    <3>1. CASE j = id /\ t = cur  BY <3>1, <2>1
    <3>2. CASE ~(j = id /\ t = cur)
      <4>1. Holds(j, t)  BY <2>1, <2>2, <2>3, <3>2 DEF Holds, TypeOK, AllIds
      <4> QED  BY <4>1, <2>1 DEF Journey
    <3> QED  BY <3>1, <3>2
  <2> QED  BY <2>1, <2>3 DEF Journey, NoStamp
<1>3. CASE XmitSkip
  <2>1. /\ UNCHANGED <<bit, workSkb, meta, cur, given, work, skb, hw, dropped, stamps>>
        /\ pc = "claim" /\ pc' = "start"
    BY <1>3 DEF XmitSkip, workVars, hwVars, slotVars
  <2>2. \A j \in Ids, t \in Skbs : Holds(j, t)' <=> Holds(j, t)  BY <2>1 DEF Holds
  <2> QED  BY <2>1, <2>2 DEF Journey, NoStamp
<1>4. CASE XmitStart
  <2>1. /\ UNCHANGED <<bit, workSkb, meta, given, work, skb, dropped, stamps>>
        /\ pc = "start" /\ pc' = "idle" /\ hw' = hw \cup {cur}
    BY <1>4 DEF XmitStart, workVars, slotVars
  <2>2. cur \in given /\ cur \notin dropped  BY <2>1 DEF OneFrame, Journey
  <2>3. \A j \in Ids, t \in Skbs : Holds(j, t)' <=> Holds(j, t)  BY <2>1 DEF Holds
  <2> QED  BY <2>1, <2>2, <2>3 DEF Journey, NoStamp
<1> QED  BY <1>1, <1>2, <1>3, <1>4 DEF Xmit

\* ... and the other steps.
LEMMA JourneyNext == SlotInv /\ Journey /\ [Next]_vars => Journey'
<1> SUFFICES ASSUME SlotInv, Journey, [Next]_vars PROVE Journey'  OBVIOUS
<1> USE TimestampAssumption DEF SlotInv
<1>1. ASSUME UNCHANGED <<meta, cur, given, pc, stamps>>,
             UNCHANGED <<hw, dropped>> \/ \E s \in hw : hw' = hw \ {s} /\ dropped' \subseteq dropped \cup {s},
             \A j \in Ids, t \in Skbs : Holds(j, t)' => Holds(j, t)
      PROVE  Journey'
  BY <1>1 DEF Journey, NoStamp
<1>2. CASE SetTsConfig \/ Tick \/ Isr \/ HwReceives \/ UNCHANGED vars \/ \E s \in Skbs : HwSends(s) \/ HwDrops(s)
  <2>1. UNCHANGED <<meta, cur, given, pc, stamps, bit, workSkb, work, skb>>
    BY <1>2 DEF SetTsConfig, Tick, Isr, IsrServes, TxDone, IsrRxFails, HwReceives, HwSends, HwDrops, vars,
       xmitVars, slotVars, workVars
  <2>2. UNCHANGED <<hw, dropped>> \/ \E s \in hw : hw' = hw \ {s} /\ dropped' \subseteq dropped \cup {s}
    BY <1>2 DEF SetTsConfig, Tick, Isr, IsrServes, TxDone, IsrRxFails, HwReceives, HwSends, HwDrops, vars, hwVars
  <2>3. \A j \in Ids, t \in Skbs : Holds(j, t)' => Holds(j, t)  BY <2>1 DEF Holds
  <2> QED  BY <1>1, <2>1, <2>2, <2>3
<1>3. ASSUME NEW i \in Ids, WorkStart(i) \/ WorkReadHalf(i) \/ WorkRead(i) \/ WorkRetry(i) \/ WorkGivesUp(i) PROVE Journey'
  <2>1. UNCHANGED <<meta, cur, given, pc, stamps, hw, dropped>>
    BY <1>3 DEF WorkStart, WorkReadHalf, WorkRead, LastTstamp, RetryReset, WorkRetry, NextRetry, ScheduleWork, WorkGivesUp, RetryReset, xmitVars, hwVars
  <2>2. ASSUME NEW j \in Ids, NEW t \in Skbs, Holds(j, t)' PROVE Holds(j, t)
    <3>1. CASE j = i
      <4>1. CASE WorkRead(i) /\ TxTstamp(i) # last[i]
        <5>1. /\ work[i] \in {"high", "low"} /\ bit' = bit \ {i} /\ skb' = skb
          BY <4>1 DEF WorkRead
        <5>2. i \in bit /\ skb[i] = workSkb[i]  BY <5>1 DEF SlotOwned, Running
        <5> QED  BY <5>1, <5>2, <3>1, <2>2 DEF Holds
      <4>2. CASE ~(WorkRead(i) /\ TxTstamp(i) # last[i])
        <5>1. bit' \subseteq bit /\ workSkb' = workSkb /\ work'[i] # "deliver"
          BY <4>2, <1>3 DEF WorkStart, WorkReadHalf, WorkRead, LastTstamp, RetryReset, WorkRetry, NextRetry, ScheduleWork, WorkGivesUp, Leave, Other, slotVars, TypeOK
        <5> QED  BY <5>1, <3>1, <2>2 DEF Holds
      <4> QED  BY <4>1, <4>2
    <3>2. CASE j # i
      BY <3>2, <2>2, <1>3 DEF WorkStart, WorkReadHalf, WorkRead, LastTstamp, RetryReset, WorkRetry, NextRetry, ScheduleWork, WorkGivesUp, Leave, Holds, slotVars, TypeOK, AllIds
    <3> QED  BY <3>1, <3>2
  <2> QED  BY <1>1, <2>1, <2>2
<1>4. ASSUME NEW i \in Ids, WorkDeliver(i) PROVE Journey'
  <2>1. /\ UNCHANGED <<meta, cur, given, pc, hw, dropped, bit, workSkb>>
        /\ work[i] = "deliver" /\ work' = [work EXCEPT ![i] = "idle"]
        /\ skb' = [skb EXCEPT ![i] = NoSkb]
        /\ stamps' = [stamps EXCEPT ![skb[i]] = [id |-> i, time |-> tstamp[i]]]
    BY <1>4 DEF WorkDeliver, Leave, xmitVars, slotVars, hwVars
  <2>2. skb[i] \in Skbs /\ Holds(i, skb[i])  BY <2>1 DEF Apart, TypeOK, Holds
  <2>3. skb[i] \in given /\ ~(pc = "claim" /\ cur = skb[i])  BY <2>2 DEF Apart
  <2>4. \A t \in Skbs : stamps'[t] = IF t = skb[i] THEN [id |-> i, time |-> tstamp[i]] ELSE stamps[t]
    BY <2>1, <2>2 DEF TypeOK
  <2>5. \A t \in Skbs : stamps'[t] # NoStamp => t \in given' /\ stamps'[t].id \in Ids
    BY <2>1, <2>3, <2>4 DEF Journey
  <2>6. pc' = "claim" => stamps'[cur'] = NoStamp
    BY <2>1, <2>3, <2>4 DEF Journey, OneFrame, TypeOK
  <2>7. \A j \in Ids, t \in Skbs : Holds(j, t)' => Holds(j, t)
    BY <2>1 DEF Holds, TypeOK
  <2> QED  BY <2>1, <2>5, <2>6, <2>7 DEF Journey, NoStamp
<1> QED  BY <1>2, <1>3, <1>4, JourneyXmit DEF Next, Work

\* The register of an id stays that of its slot: steps of start_xmit.
LEMMA OwnXmit ==
  ASSUME SlotInv, Journey, NEW i \in Ids, OwnOf(i), i \notin Doubtful',
         Xmit \/ \E s \in Skbs, k \in Ids, wants \in BOOLEAN, w \in Windows : XmitFill(s, k, wants, w)
  PROVE  OwnOf(i)'
<1> USE TimestampAssumption DEF SlotInv, Doubtful
<1>1. ASSUME NEW s \in Skbs, NEW k \in Ids, NEW wants \in BOOLEAN, NEW w \in Windows,
             XmitFill(s, k, wants, w)
      PROVE  OwnOf(i)'
  <2>1. /\ UNCHANGED <<bit, workSkb, work, skb, tstamp, hw, dropped, reg, last, sentAt, stamps>>
        /\ pc = "idle" /\ pc' = "claim" /\ s \notin given
        /\ \A t \in given : meta'[t] = meta[t]
    BY <1>1 DEF XmitFill, slotVars, workVars, hwVars, TypeOK
  <2>2. Flight = hw /\ Flight' = hw /\ hw \subseteq given  BY <2>1 DEF Flight, Journey
  <2>3. \A t \in Skbs : stamps[t].id = i => t \in given
    BY DEF Journey, NoStamp
  <2> QED  BY <2>1, <2>2, <2>3 DEF OwnOf
<1>2. CASE XmitClaim
  <2> DEFINE id == meta[cur].id
  <2>1. /\ UNCHANGED <<meta, work, skb, tstamp, hw, dropped, reg, last, sentAt, stamps, cur>>
        /\ pc = "claim" /\ pc' = "start" /\ id \notin bit /\ bit' = bit \cup {id}
        /\ workSkb' = [workSkb EXCEPT ![id] = cur]
    BY <1>2 DEF XmitClaim, SkbGet, workVars, hwVars
  <2>2. /\ cur \in Skbs /\ id \in AllIds /\ Flight = hw /\ Flight' = hw \cup {cur}
        /\ stamps[cur].id # i
    BY <2>1 DEF OneFrame, TypeOK, Flight, Journey, NoStamp
  <2>3. /\ workSkb'[id] = cur /\ (i # id => workSkb'[i] = workSkb[i])
    BY <2>1, <2>2 DEF TypeOK, AllIds
  <2> HIDE DEF id
  <2>4. CASE i = id
    <3>1. reg[i] = last[i] /\ \A t \in hw : meta[t].id # i  BY <2>1, <2>2, <2>4 DEF OwnOf
    <3>2. \A t \in Skbs : stamps[t].id = i => t # cur  BY <2>2
    <3> QED  BY <2>1, <2>2, <2>3, <2>4, <3>1, <3>2 DEF OwnOf
  <2>5. CASE i # id
    <3>1. meta[cur].id # i  BY <2>5 DEF id
    <3>2. \A t \in Skbs : stamps[t].id = i => t # cur  BY <2>2
    <3>3. i \in bit' <=> i \in bit  BY <2>1, <2>5
    <3> QED  BY <2>1, <2>2, <2>3, <2>5, <3>1, <3>2, <3>3 DEF OwnOf
  <2> QED  BY <2>4, <2>5
<1>3. CASE XmitSkip
  <2>1. /\ UNCHANGED <<meta, bit, workSkb, work, skb, tstamp, hw, dropped, reg, last, sentAt, stamps, cur>>
        /\ pc = "claim" /\ pc' = "start" /\ stray' = stray \cup ({meta[cur].id} \ {None})
    BY <1>3 DEF XmitSkip, workVars, hwVars, slotVars
  <2>2. /\ cur \in Skbs /\ Flight = hw /\ Flight' = hw \cup {cur}
        /\ stamps[cur].id # i /\ meta[cur].id # i
    BY <2>1 DEF OneFrame, TypeOK, Flight, Journey, NoStamp
  <2> QED  BY <2>1, <2>2 DEF OwnOf
<1>4. CASE XmitStart
  <2>1. /\ UNCHANGED <<meta, bit, workSkb, work, skb, tstamp, dropped, reg, last, sentAt, stamps>>
        /\ pc = "start" /\ pc' = "idle" /\ hw' = hw \cup {cur}
    BY <1>4 DEF XmitStart, workVars, slotVars
  <2>2. Flight' = Flight  BY <2>1 DEF Flight
  <2> QED  BY <2>1, <2>2 DEF OwnOf
<1> QED  BY <1>1, <1>2, <1>3, <1>4 DEF Xmit

\* Steps of do_tx_work for the id itself keep it so.
LEMMA OwnWork ==
  ASSUME SlotInv, Journey, NEW i \in Ids, OwnOf(i), i \notin Doubtful', Work(i)
  PROVE  OwnOf(i)'
<1> USE TimestampAssumption DEF SlotInv, xmitVars, slotVars, hwVars
<1>0. UNCHANGED <<meta, hw, dropped, reg, sentAt, pc, cur>> /\ Flight' = Flight
  BY DEF Work, WorkStart, WorkReadHalf, WorkRead, WorkRetry, WorkGivesUp, WorkDeliver, Flight
<1>1. CASE WorkStart(i) \/ WorkRetry(i) \/ (WorkRead(i) /\ TxTstamp(i) = last[i])
  <2>1. UNCHANGED <<bit, workSkb, last, stamps>> /\ work'[i] \notin {"high", "low", "deliver"}
    BY <1>1 DEF WorkStart, WorkRead, WorkRetry, Leave, TypeOK
  <2> QED  BY <2>1, <1>0 DEF OwnOf
<1>2. CASE WorkReadHalf(i)
  <2>1. PICK h \in {"high", "low"} :
          /\ tstamp' = [tstamp EXCEPT ![i] = Part(h, reg[i])]
          /\ work' = [work EXCEPT ![i] = Other(h)]
    BY <1>2 DEF WorkReadHalf
  <2>2. /\ UNCHANGED <<bit, workSkb, last, stamps>>
        /\ tstamp'[i] = Part(h, reg[i]) /\ work'[i] = Other(h)
    BY <1>2, <2>1 DEF WorkReadHalf, TypeOK
  <2>3. Other(Other(h)) = h /\ Other(h) # "deliver"  BY DEF Other
  <2>4. \A g \in {"high", "low"} : work'[i] = g => tstamp'[i] = Part(Other(g), reg'[i])
    BY <2>2, <2>3, <1>0
  <2> QED  BY <2>2, <2>3, <2>4, <1>0 DEF OwnOf
<1>3. CASE WorkRead(i) /\ TxTstamp(i) # last[i]
  <2>1. /\ UNCHANGED <<skb, stamps>> /\ work[i] \in {"high", "low"} /\ work'[i] = "deliver"
        /\ bit' = bit \ {i}
        /\ tstamp'[i] = TxTstamp(i) /\ last'[i] = TxTstamp(i)
        /\ i \notin torn' => TxTstamp(i) = reg[i]
    BY <1>3 DEF WorkRead, LastTstamp, TypeOK
  <2>2. i \in bit /\ skb[i] = workSkb[i]  BY <2>1 DEF SlotOwned, Running
  <2>3. tstamp'[i] = reg[i] /\ last'[i] = reg[i] /\ reg[i] # last[i]
    BY <1>3, <2>1 DEF Doubtful
  <2>4. tstamp'[i] = sentAt[skb[i]] /\ \A t \in Flight : meta[t].id # i
    BY <2>2, <2>3 DEF OwnOf
  <2> QED  BY <2>1, <2>3, <2>4, <1>0 DEF OwnOf
<1>4. CASE WorkGivesUp(i)
  <2>1. /\ UNCHANGED <<last, stamps>> /\ work[i] = "check" /\ work'[i] = "idle" /\ bit' = bit \ {i}
        /\ skb[i] \in dropped
    BY <1>4 DEF WorkGivesUp, Leave, Doubtful, TypeOK
  <2>2. i \in bit /\ skb[i] = workSkb[i] /\ skb[i] \notin Flight
    BY <2>1 DEF SlotOwned, Running, Flight, Journey
  <2>3. reg[i] = last[i] /\ \A t \in Flight : meta[t].id # i
    BY <2>1, <2>2 DEF OwnOf
  <2> QED  BY <2>1, <2>3, <1>0 DEF OwnOf
<1>5. CASE WorkDeliver(i)
  <2>1. /\ UNCHANGED <<bit, workSkb, last>> /\ work[i] = "deliver" /\ work'[i] = "idle"
        /\ stamps' = [stamps EXCEPT ![skb[i]] = [id |-> i, time |-> tstamp[i]]]
    BY <1>5 DEF WorkDeliver, Leave, TypeOK
  <2>2. skb[i] \in Skbs /\ Holds(i, skb[i]) /\ (i \in bit => workSkb[i] # skb[i])
    BY <2>1 DEF Apart, TypeOK, Holds
  <2>3. meta[skb[i]].id = i  BY <2>2 DEF Journey
  <2>4. skb[i] \notin Flight /\ tstamp[i] = sentAt[skb[i]]  BY <2>1, <2>2, <2>3 DEF OwnOf
  <2>5. \A t \in Skbs : stamps'[t] = IF t = skb[i] THEN [id |-> i, time |-> tstamp[i]] ELSE stamps[t]
    BY <2>1, <2>2 DEF TypeOK
  <2>6. \A t \in Skbs : stamps'[t].id = i => stamps'[t].time = sentAt[t] /\ meta[t].id = i /\ t \notin Flight
    BY <2>3, <2>4, <2>5 DEF OwnOf
  <2> QED  BY <2>1, <2>6, <1>0 DEF OwnOf
<1> QED  BY <1>1, <1>2, <1>3, <1>4, <1>5 DEF Work

\* ... and those of another id.
LEMMA OwnOther ==
  ASSUME SlotInv, NEW i \in Ids, OwnOf(i), NEW k \in Ids, k # i, Work(k)
  PROVE  OwnOf(i)'
<1> USE TimestampAssumption DEF SlotInv, xmitVars, slotVars, hwVars
<1>1. /\ UNCHANGED <<meta, hw, dropped, reg, sentAt>> /\ Flight' = Flight
      /\ last'[i] = last[i] /\ (i \in bit' <=> i \in bit) /\ workSkb'[i] = workSkb[i]
      /\ work'[i] = work[i] /\ skb'[i] = skb[i] /\ tstamp'[i] = tstamp[i]
  BY DEF Work, WorkStart, WorkReadHalf, WorkRead, LastTstamp, RetryReset, WorkRetry, NextRetry, ScheduleWork, WorkGivesUp, RetryReset, WorkDeliver, Leave, Flight, TypeOK, AllIds
<1>2. \A t \in Skbs : stamps'[t].id = i => stamps'[t] = stamps[t]
  <2>1. CASE WorkDeliver(k)
    BY <2>1 DEF WorkDeliver, TypeOK
  <2>2. CASE ~WorkDeliver(k)
    BY <2>2 DEF Work, WorkStart, WorkReadHalf, WorkRead, LastTstamp, RetryReset, WorkRetry, NextRetry, ScheduleWork, WorkGivesUp, RetryReset
  <2> QED  BY <2>1, <2>2
<1> QED  BY <1>1, <1>2 DEF OwnOf

\* The hardware sends or drops a frame.
LEMMA OwnHw ==
  ASSUME SlotInv, Journey, NEW i \in Ids, OwnOf(i), NEW s \in Skbs, HwSends(s) \/ HwDrops(s)
  PROVE  OwnOf(i)'
<1> USE TimestampAssumption DEF SlotInv
<1>1. /\ UNCHANGED <<meta, pc, cur, bit, workSkb, last, work, skb, tstamp, stamps>>
      /\ s \in hw /\ hw' = hw \ {s} /\ Flight' \subseteq Flight /\ s \in Flight /\ s \notin Flight'
  BY DEF HwSends, HwDrops, xmitVars, slotVars, workVars, Flight, Journey
<1>2. /\ \A t \in Skbs : t # s => sentAt'[t] = sentAt[t] /\ (t \in dropped' <=> t \in dropped)
      /\ meta[s].id # i => reg'[i] = reg[i]
  BY DEF HwSends, HwDrops, TypeOK
<1>3. \A t \in Skbs : stamps[t].id = i => t # s  BY <1>1 DEF OwnOf
<1>4. work[i] = "deliver" => sentAt'[skb[i]] = sentAt[skb[i]]
  <2> SUFFICES ASSUME work[i] = "deliver" PROVE skb[i] # s /\ skb[i] \in Skbs  BY <1>2
  <2>1. skb[i] \in Skbs /\ Holds(i, skb[i]) /\ (i \in bit => workSkb[i] # skb[i])
    BY DEF Apart, TypeOK, Holds
  <2>2. meta[skb[i]].id = i  BY <2>1 DEF Journey
  <2> QED  BY <2>1, <2>2, <1>1 DEF OwnOf
<1>5. i \in bit => workSkb[i] \in Skbs /\ meta[workSkb[i]].id = i
  BY DEF SlotOwned, TypeOK, AllIds, Journey, Holds
<1>6. CASE meta[s].id # i
  <2>1. i \in bit => workSkb[i] # s  BY <1>5, <1>6
  <2> QED  BY <2>1, <1>1, <1>2, <1>3, <1>4, <1>5, <1>6 DEF OwnOf
<1>7. CASE meta[s].id = i
  <2>1. i \in bit /\ workSkb[i] = s /\ reg[i] = last[i] /\ s \notin dropped
    BY <1>1, <1>7 DEF OwnOf, Journey
  <2>2. \A t \in Flight' : meta[t].id # i  BY <2>1, <1>1 DEF OwnOf
  <2>3. reg'[i] = last[i] \/ (reg'[i] = sentAt'[s] /\ reg'[i] # 0 /\ s \notin dropped')
    BY <2>1, <1>7 DEF HwSends, HwDrops, TypeOK
  <2> QED  BY <2>1, <2>2, <2>3, <1>1, <1>2, <1>3, <1>4 DEF OwnOf
<1> QED  BY <1>6, <1>7

\* Every step keeps OwnRegister.
LEMMA OwnNext == SlotInv /\ Journey /\ OwnRegister /\ [Next]_vars => OwnRegister'
<1> SUFFICES ASSUME SlotInv, Journey, OwnRegister, [Next]_vars, NEW i \in Ids, i \notin Doubtful'
             PROVE  OwnOf(i)'
  BY DEF OwnRegister, OwnOf
<1>1. Doubtful \subseteq Doubtful'
  BY DEF Doubtful, workVars, Next, vars, SetTsConfig, XmitFill, Xmit, XmitClaim, SkbGet, XmitSkip, XmitStart, Work, WorkStart,
     WorkReadHalf, WorkRead, LastTstamp, RetryReset, WorkRetry, NextRetry, ScheduleWork, WorkGivesUp, RetryReset, WorkDeliver, Isr, IsrServes, TxDone, IsrRxFails, HwSends, HwDrops,
     HwReceives, Tick
<1>2. OwnOf(i)  BY <1>1 DEF OwnRegister, OwnOf
<1>3. CASE SetTsConfig \/ Isr \/ HwReceives \/ Tick \/ UNCHANGED vars
  <2>1. UNCHANGED <<meta, pc, cur, bit, workSkb, last, work, skb, tstamp, stamps, hw, dropped, reg, sentAt>>
    BY <1>3 DEF SetTsConfig, Isr, IsrServes, TxDone, IsrRxFails, HwReceives, Tick, vars, xmitVars, slotVars,
       workVars, hwVars
  <2> QED  BY <2>1, <1>2 DEF OwnOf, Flight
<1>4. ASSUME NEW k \in Ids, Work(k) PROVE OwnOf(i)'
  BY <1>2, <1>4, OwnWork, OwnOther
<1> QED  BY <1>2, <1>3, <1>4, OwnXmit, OwnHw DEF Next

\* A sender that gets a timestamp gets that of its own frame, whatever the hardware drops
\* and the work gives up, unless a frame without the slot may write the same register or
\* the halves of two timestamps were taken for one.
THEOREM TimestampOwn == Spec => []OwnTimestamp
<1>1. Init => Journey /\ OwnRegister
  BY TimestampAssumption DEF Init, Journey, OwnRegister, OwnOf, Holds, Flight, NoStamp, NoMeta, AllIds
<1>2. Journey /\ OwnRegister => OwnTimestamp
  BY DEF Journey, OwnRegister, OwnOf, OwnTimestamp
<1> QED  BY <1>1, <1>2, SlotSafe, JourneyNext, OwnNext, PTL DEF Spec

----------------------------------------------------------------------------
(* The refinement of StampService. *)

\* The times of frames follow the clock.
LEMMA TimesNext == SlotInv /\ TimesGrow /\ [Next]_vars => TimesGrow'
<1> SUFFICES ASSUME SlotInv, TimesGrow, [Next]_vars PROVE TimesGrow'  OBVIOUS
<1>t. now \in Nat /\ sentAt \in [Skbs -> Nat]  BY DEF SlotInv, TypeOK
<1>1. CASE sentAt' = sentAt /\ now' \in {now, now + 1}  BY <1>1, <1>t DEF TimesGrow
<1>2. CASE ~ \E s \in Skbs : HwSends(s)
  <2>1. sentAt' = sentAt /\ now' \in {now, now + 1}
    BY <1>2 DEF Next, SetTsConfig, Xmit, XmitClaim, XmitSkip, XmitStart, Isr, IsrServes, IsrRxFails,
       HwReceives, HwDrops, XmitFill, Tick, Work, WorkStart, WorkReadHalf, WorkRead, WorkRetry,
       WorkGivesUp, WorkDeliver, vars, hwVars
  <2> QED  BY <2>1, <1>1
<1>3. ASSUME NEW s \in Skbs, HwSends(s) PROVE TimesGrow'
  <2>1. now' = now + 1 /\ \A u \in Skbs : sentAt'[u] \in {sentAt[u], now'}
    BY <1>3, <1>t DEF HwSends
  <2> QED  BY <2>1, <1>t DEF TimesGrow
<1> QED  BY <1>2, <1>3

\* A frame goes to the hardware once.
LEMMA SentNext == SlotInv /\ Journey /\ SentOnce /\ [Next]_vars => SentOnce'
<1> SUFFICES ASSUME SlotInv, Journey, SentOnce, [Next]_vars PROVE SentOnce'  OBVIOUS
<1> USE DEF SlotInv
<1>1. ASSUME UNCHANGED <<given, pc, cur, hw, dropped, sentAt>> PROVE SentOnce'
  BY <1>1 DEF SentOnce, Flight
<1>2. CASE \/ SetTsConfig \/ Isr \/ HwReceives \/ Tick \/ UNCHANGED vars \/ \E i \in Ids : Work(i)
  <2>1. UNCHANGED <<given, pc, cur, hw, dropped, sentAt>>
    BY <1>2 DEF SetTsConfig, Isr, IsrServes, IsrRxFails, HwReceives, Tick, vars, Work, WorkStart,
       WorkReadHalf, WorkRead, WorkRetry, WorkGivesUp, WorkDeliver, xmitVars, hwVars
  <2> QED  BY <2>1, <1>1
<1>3. ASSUME NEW s \in Skbs, NEW i \in Ids, NEW wants \in BOOLEAN, NEW w \in Windows,
             XmitFill(s, i, wants, w)
      PROVE  SentOnce'
  <2>1. /\ UNCHANGED <<hw, dropped, sentAt>> /\ pc = "idle" /\ pc' = "claim" /\ cur' = s
        /\ s \notin given /\ given' = given \cup {s}
    BY <1>3 DEF XmitFill, hwVars
  <2>2. Flight' = Flight  BY <2>1 DEF Flight
  <2> QED  BY <2>1, <2>2 DEF SentOnce
<1>4. CASE XmitClaim \/ XmitSkip
  <2>1. UNCHANGED <<given, cur, hw, dropped, sentAt>> /\ pc = "claim" /\ pc' = "start"
    BY <1>4 DEF XmitClaim, XmitSkip, hwVars
  <2>2. Flight' = Flight \cup {cur}  BY <2>1 DEF Flight
  <2> QED  BY <2>1, <2>2 DEF SentOnce
<1>5. CASE XmitStart
  <2>1. UNCHANGED <<given, dropped, sentAt>> /\ pc = "start" /\ pc' = "idle" /\ hw' = hw \cup {cur}
    BY <1>5 DEF XmitStart
  <2>2. Flight' = Flight  BY <2>1 DEF Flight
  <2> QED  BY <2>1, <2>2 DEF SentOnce
<1>6. ASSUME NEW s \in Skbs, HwSends(s) \/ HwDrops(s) PROVE SentOnce'
  <2>1. /\ UNCHANGED <<given, pc, cur>> /\ s \in hw /\ hw' = hw \ {s}
        /\ \A u \in Skbs : u # s => sentAt'[u] = sentAt[u] /\ (u \in dropped' <=> u \in dropped)
    BY <1>6 DEF HwSends, HwDrops, xmitVars, TypeOK
  <2>2. s \in given /\ s \notin dropped /\ ~(pc # "idle" /\ cur = s)  BY <2>1 DEF Journey
  <2>3. Flight' = Flight \ {s}  BY <2>1, <2>2 DEF Flight
  <2>4. CASE HwSends(s)
    <3>1. dropped' = dropped  BY <2>4 DEF HwSends
    <3> QED  BY <2>1, <2>2, <2>3, <3>1 DEF SentOnce
  <2>5. CASE HwDrops(s)
    <3>1. sentAt' = sentAt  BY <2>5 DEF HwDrops
    <3>2. sentAt[s] = 0  BY <2>1 DEF SentOnce, Flight
    <3> QED  BY <2>1, <2>3, <3>1, <3>2 DEF SentOnce
  <2> QED  BY <1>6, <2>4, <2>5
<1> QED  BY <1>2, <1>3, <1>4, <1>5, <1>6 DEF Next, Xmit

\* A frame is taken for a timestamp only by start_xmit, before it has any.
LEMMA HoldsNext ==
  ASSUME SlotInv, [Next]_vars, NEW i \in Ids, NEW s \in Skbs, Holds(i, s)', ~Holds(i, s)
  PROVE  XmitClaim /\ s = cur
<1> USE TimestampAssumption DEF SlotInv
<1>1. CASE UNCHANGED <<bit, workSkb, work, skb>>  BY <1>1 DEF Holds
<1>2. CASE \/ SetTsConfig \/ Isr \/ HwReceives \/ Tick \/ UNCHANGED vars \/ XmitSkip \/ XmitStart
           \/ \E u \in Skbs : HwSends(u) \/ HwDrops(u)
           \/ \E u \in Skbs, j \in Ids, wants \in BOOLEAN, w \in Windows : XmitFill(u, j, wants, w)
  <2>1. UNCHANGED <<bit, workSkb, work, skb>>
    BY <1>2 DEF SetTsConfig, Isr, IsrServes, IsrRxFails, HwReceives, Tick, vars, XmitSkip, XmitStart,
       HwSends, HwDrops, XmitFill, slotVars, workVars
  <2> QED  BY <2>1, <1>1
<1>3. CASE XmitClaim
  <2>1. /\ UNCHANGED <<work, skb>> /\ bit' = bit \cup {meta[cur].id}
        /\ workSkb' = [workSkb EXCEPT ![meta[cur].id] = cur]
    BY <1>3 DEF XmitClaim, workVars
  <2> QED  BY <2>1, <1>3 DEF Holds, TypeOK, AllIds
<1>4. ASSUME NEW k \in Ids, Work(k) PROVE FALSE
  <2>1. CASE i # k
    <3>1. /\ (i \in bit' <=> i \in bit) /\ workSkb'[i] = workSkb[i]
          /\ work'[i] = work[i] /\ skb'[i] = skb[i]
      BY <2>1, <1>4 DEF Work, WorkStart, WorkReadHalf, WorkRead, WorkRetry, WorkGivesUp, WorkDeliver, Leave, slotVars,
         TypeOK, AllIds
    <3> QED  BY <3>1 DEF Holds
  <2>2. CASE i = k /\ WorkRead(i) /\ TxTstamp(i) # last[i]
    <3>1. work[i] \in {"high", "low"} /\ bit' = bit \ {i} /\ skb' = skb  BY <2>2 DEF WorkRead
    <3>2. i \in bit /\ skb[i] = workSkb[i]  BY <3>1 DEF SlotOwned, Running
    <3> QED  BY <3>1, <3>2 DEF Holds
  <2>3. CASE i = k /\ ~(WorkRead(i) /\ TxTstamp(i) # last[i])
    <3>1. bit' \subseteq bit /\ workSkb' = workSkb /\ work'[i] # "deliver"
      BY <2>3, <1>4 DEF Work, WorkStart, WorkReadHalf, WorkRead, WorkRetry, WorkGivesUp, WorkDeliver, Leave, Other, slotVars,
         TypeOK
    <3> QED  BY <3>1 DEF Holds
  <2> QED  BY <2>1, <2>2, <2>3
<1> QED  BY <1>2, <1>3, <1>4 DEF Next, Xmit

\* A frame gets one answer.
LEMMA AnswersNext == SlotInv /\ Journey /\ Answers /\ [Next]_vars => Answers'
<1> SUFFICES ASSUME SlotInv, Journey, Answers, [Next]_vars PROVE AnsweredOnce'
  BY TimesNext, SentNext DEF Answers
<1> USE DEF SlotInv
<1>0. AnsweredOnce  BY DEF Answers
<1>1. pc = "claim" => stamps[cur] = NoStamp  BY DEF Journey
<1>2. ASSUME stamps' = stamps, \A s \in lost' : s \in lost \/ stamps[s] = NoStamp
      PROVE  AnsweredOnce'
  <2>1. \A i \in Ids, s \in Skbs : Holds(i, s)' => stamps[s] = NoStamp
    <3> SUFFICES ASSUME NEW i \in Ids, NEW s \in Skbs, Holds(i, s)' PROVE stamps[s] = NoStamp
      OBVIOUS
    <3>1. CASE Holds(i, s)  BY <3>1, <1>0 DEF AnsweredOnce
    <3>2. CASE ~Holds(i, s)
      <4>1. XmitClaim /\ s = cur  BY <3>2, HoldsNext
      <4> QED  BY <4>1, <1>1 DEF XmitClaim
    <3> QED  BY <3>1, <3>2
  <2> QED  BY <2>1, <1>2, <1>0 DEF AnsweredOnce, NoStamp
<1>3. CASE \/ SetTsConfig \/ Isr \/ HwReceives \/ Tick \/ UNCHANGED vars \/ XmitSkip \/ XmitStart
           \/ \E s \in Skbs : HwSends(s) \/ HwDrops(s)
           \/ \E s \in Skbs, i \in Ids, wants \in BOOLEAN, w \in Windows : XmitFill(s, i, wants, w)
           \/ \E i \in Ids : WorkStart(i) \/ WorkReadHalf(i) \/ WorkRead(i) \/ WorkRetry(i)
  <2>1. UNCHANGED <<stamps, lost>>
    BY <1>3 DEF SetTsConfig, Isr, IsrServes, IsrRxFails, HwReceives, Tick, vars, XmitSkip, XmitStart,
       HwSends, HwDrops, XmitFill, WorkStart, WorkReadHalf, WorkRead, WorkRetry
  <2> QED  BY <2>1, <1>2
<1>4. CASE XmitClaim
  <2>1. pc = "claim" /\ stamps' = stamps /\ lost' \subseteq lost \cup {cur}
    BY <1>4 DEF XmitClaim
  <2> QED  BY <2>1, <1>1, <1>2
<1>5. ASSUME NEW i \in Ids, WorkGivesUp(i) PROVE AnsweredOnce'
  <2>1. work[i] = "check" /\ stamps' = stamps /\ lost' = lost \cup {skb[i]}
    BY <1>5 DEF WorkGivesUp
  <2>2. skb[i] \in Skbs /\ Holds(i, skb[i])
    BY <2>1 DEF SlotOwned, Running, TypeOK, Holds
  <2>3. stamps[skb[i]] = NoStamp  BY <2>2, <1>0 DEF AnsweredOnce
  <2> QED  BY <2>1, <2>3, <1>2
<1>6. ASSUME NEW i \in Ids, WorkDeliver(i) PROVE AnsweredOnce'
  <2>1. /\ work[i] = "deliver" /\ lost' = lost /\ UNCHANGED <<bit, workSkb>>
        /\ stamps' = [stamps EXCEPT ![skb[i]] = [id |-> i, time |-> tstamp[i]]]
        /\ work' = [work EXCEPT ![i] = "idle"] /\ skb' = [skb EXCEPT ![i] = NoSkb]
    BY <1>6 DEF WorkDeliver, Leave, slotVars
  <2>2. skb[i] \in Skbs /\ Holds(i, skb[i]) /\ (i \in bit => workSkb[i] # skb[i])
    BY <2>1 DEF Apart, TypeOK, Holds
  <2>3. skb[i] \notin lost  BY <2>2 DEF Apart
  <2>4. \A s \in Skbs : stamps'[s] = IF s = skb[i] THEN [id |-> i, time |-> tstamp[i]] ELSE stamps[s]
    BY <2>1, <2>2 DEF TypeOK
  <2>5. \A j \in Ids, s \in Skbs : Holds(j, s)' => Holds(j, s) /\ s # skb[i]
    <3> SUFFICES ASSUME NEW j \in Ids, NEW s \in Skbs, Holds(j, s)' PROVE Holds(j, s) /\ s # skb[i]
      OBVIOUS
    <3>1. CASE j = i  BY <3>1, <2>1, <2>2 DEF Holds, TypeOK
    <3>2. CASE j # i
      <4>1. Holds(j, s)  BY <3>2, <2>1 DEF Holds, TypeOK
      <4> QED  BY <4>1, <3>2, <2>2 DEF Apart
    <3> QED  BY <3>1, <3>2
  <2>6. \A s \in Skbs : stamps'[s] # NoStamp => s \notin lost'
    BY <2>1, <2>3, <2>4, <1>0 DEF AnsweredOnce
  <2>7. \A j \in Ids, s \in Skbs : Holds(j, s)' => stamps'[s] = NoStamp
    BY <2>4, <2>5, <1>0 DEF AnsweredOnce
  <2> QED  BY <2>6, <2>7 DEF AnsweredOnce, NoStamp
<1> QED  BY <1>3, <1>4, <1>5, <1>6 DEF Next, Xmit, Work

\* What the abstract specification sees.
seen == <<WaitedFor, DueFor, TimeGiven, lost, sentAt, dropped, last, Doubtful>>

\* A step that leaves the slots, the timestamps and the hardware alone is a stutter.
LEMMA SeenIdle ==
  ASSUME UNCHANGED <<bit, workSkb, work, skb, stamps>>
  PROVE  UNCHANGED <<WaitedFor, DueFor, TimeGiven>>
<1> QED  BY DEF WaitedFor, DueFor, TimeGiven

\* The steps of start_xmit: a frame asks, is refused, or makes its id doubtful.
LEMMA XmitServes ==
  ASSUME SlotInv, Journey, Answers, Xmit
  PROVE  UNCHANGED seen \/ Service!Next
<1> USE TimestampAssumption DEF SlotInv
<1>1. CASE XmitStart
  <2>1. UNCHANGED <<bit, workSkb, work, skb, stamps, lost, sentAt, dropped, last, stray, torn>>
    BY <1>1 DEF XmitStart, slotVars, workVars
  <2> QED  BY <2>1, SeenIdle DEF seen, Doubtful
<1>2. CASE XmitSkip
  <2>1. /\ UNCHANGED <<bit, workSkb, work, skb, stamps, lost, sentAt, dropped, last, torn>>
        /\ stray' = stray \cup ({meta[cur].id} \ {None})
    BY <1>2 DEF XmitSkip, slotVars, workVars, hwVars
  <2>2. cur \in Skbs /\ meta[cur].id \in AllIds
    BY <1>2 DEF XmitSkip, OneFrame, TypeOK
  <2>3. UNCHANGED <<WaitedFor, DueFor, TimeGiven>>  BY <2>1, SeenIdle
  <2>4. CASE meta[cur].id = None
    <3>1. Doubtful' = Doubtful  BY <2>1, <2>4 DEF Doubtful
    <3> QED  BY <2>1, <2>3, <3>1 DEF seen
  <2>5. CASE meta[cur].id # None
    <3>1. meta[cur].id \in Ids  BY <2>2, <2>5 DEF AllIds
    <3>2. Doubtful' = Doubtful \cup {meta[cur].id}  BY <2>1, <2>5 DEF Doubtful
    <3>3. Service!Foul(meta[cur].id)  BY <2>1, <2>3, <3>2 DEF Service!Foul
    <3> QED  BY <3>1, <3>3 DEF Service!Next
  <2> QED  BY <2>4, <2>5
<1>3. CASE XmitClaim
  <2> DEFINE id == meta[cur].id
  <2>1. /\ UNCHANGED <<work, skb, stamps, sentAt, dropped, last, Doubtful>>
        /\ pc = "claim" /\ id \notin bit /\ bit' = bit \cup {id}
        /\ workSkb' = [workSkb EXCEPT ![id] = cur]
        /\ lost' = IF id = None THEN lost \cup {cur} ELSE lost
    BY <1>3 DEF XmitClaim, Doubtful, workVars, hwVars
  <2>2. cur \in Skbs /\ cur # NoSkb /\ id \in AllIds
    BY <2>1 DEF OneFrame, TypeOK
  <2>3. cur \notin lost /\ (\A i \in Ids : ~Holds(i, cur)) /\ sentAt[cur] = 0 /\ stamps[cur] = NoStamp
    BY <2>1, <2>2 DEF Apart, Journey, Answers, SentOnce
  <2>4. Service!Fresh(cur)
    <3>1. TimeGiven[cur] = -1  BY <2>2, <2>3 DEF TimeGiven, NoStamp
    <3>2. \A i \in Ids : WaitedFor[i] # cur /\ DueFor[i] # cur
      BY <2>2, <2>3 DEF WaitedFor, DueFor, Holds
    <3> QED  BY <2>3, <3>1, <3>2 DEF Service!Fresh
  <2>5. DueFor' = DueFor /\ TimeGiven' = TimeGiven  BY <2>1 DEF DueFor, TimeGiven
  <2> HIDE DEF id
  <2>6. CASE id = None
    <3>1. \A i \in Ids : (i \in bit' <=> i \in bit) /\ workSkb'[i] = workSkb[i]
      BY <2>1, <2>2, <2>6 DEF TypeOK, AllIds
    <3>2. WaitedFor' = WaitedFor  BY <3>1 DEF WaitedFor
    <3>3. Service!Refuse(cur)  BY <2>1, <2>3, <2>4, <2>5, <2>6, <3>2 DEF Service!Refuse
    <3> QED  BY <2>2, <3>3 DEF Service!Next
  <2>7. CASE id # None
    <3>1. id \in Ids  BY <2>2, <2>7 DEF AllIds
    <3>2. WaitedFor[id] = NoSkb  BY <2>1, <3>1 DEF WaitedFor
    <3>3. WaitedFor' = [WaitedFor EXCEPT ![id] = cur]
      <4>1. workSkb'[id] = cur /\ id \in bit'  BY <2>1, <2>2 DEF TypeOK
      <4>2. \A i \in Ids : i # id => (i \in bit' <=> i \in bit) /\ workSkb'[i] = workSkb[i]
        BY <2>1 DEF TypeOK, AllIds
      <4> QED  BY <4>1, <4>2, <3>1 DEF WaitedFor
    <3>4. Service!Ask(cur, id)
      BY <2>1, <2>3, <2>4, <2>5, <2>7, <3>2, <3>3 DEF Service!Ask
    <3> QED  BY <2>2, <3>1, <3>4 DEF Service!Next
  <2> QED  BY <2>6, <2>7
<1> QED  BY <1>1, <1>2, <1>3 DEF Xmit

\* A clean id takes the time of the frame it waits for, or, when that time and the last
\* one have different high halves, a mixture of the two.
LEMMA TakenOwn ==
  ASSUME SlotInv, NEW i \in Ids, OwnOf(i), WorkRead(i), TxTstamp(i) # last[i]
  PROVE  /\ sentAt[skb[i]] # 0
         /\ TxTstamp(i) # reg[i] => sentAt[skb[i]] \div Word # last[i] \div Word
         /\ TxTstamp(i) = reg[i] => TxTstamp(i) = sentAt[skb[i]]
<1> USE DEF SlotInv
<1>1. PICK h \in {"high", "low"} : work[i] = h  BY DEF WorkRead
<1>2. i \in bit /\ skb[i] = workSkb[i]  BY <1>1 DEF SlotOwned, Running
<1>3. reg[i] \in Nat /\ last[i] \in Nat  BY DEF TypeOK
<1>4. PICK t \in {last[i], reg[i]} : TxTstamp(i) = Part(Other(h), t) + Part(h, reg[i])
  BY <1>1 DEF OwnOf, TxTstamp
<1>5. reg[i] # last[i]
  <2>1. reg[i] = last[i] => TxTstamp(i) = reg[i]  BY <1>3, <1>4, PartsWhole
  <2> QED  BY <2>1
<1>6. sentAt[skb[i]] = reg[i] /\ reg[i] # 0  BY <1>2, <1>5 DEF OwnOf
<1>7. ASSUME TxTstamp(i) # reg[i] PROVE reg[i] \div Word # last[i] \div Word
  <2>1. t = last[i]  BY <1>3, <1>4, <1>7, PartsWhole
  <2>2. SUFFICES ASSUME reg[i] \div Word = last[i] \div Word PROVE FALSE  OBVIOUS
  <2>3. Part("high", reg[i]) = Part("high", last[i])  BY <2>2 DEF Part
  <2>4. CASE h = "low"
    <3>1. TxTstamp(i) = Part(Other(h), reg[i]) + Part(h, reg[i])  BY <1>4, <2>1, <2>3, <2>4 DEF Other
    <3> QED  BY <3>1, <1>3, <1>7, PartsWhole
  <2>5. CASE h = "high"
    <3>1. TxTstamp(i) = Part(Other(h), last[i]) + Part(h, last[i])  BY <1>4, <2>1, <2>3, <2>5
    <3> QED  BY <3>1, <1>3, PartsWhole
  <2> QED  BY <2>4, <2>5
<1> QED  BY <1>6, <1>7

\* The steps of do_tx_work: the id has a time, delivers it, or gives the frame up.
LEMMA WorkServes ==
  ASSUME SlotInv, Journey, OwnRegister, Answers, NEW i \in Ids, Work(i)
  PROVE  UNCHANGED seen \/ Service!Next
<1> USE TimestampAssumption DEF SlotInv
<1>1. CASE WorkStart(i) \/ WorkReadHalf(i) \/ WorkRetry(i) \/ (WorkRead(i) /\ TxTstamp(i) = last[i])
  <2>1. UNCHANGED <<bit, workSkb, stamps, lost, sentAt, dropped, last, stray, torn>>
    BY <1>1 DEF WorkStart, WorkReadHalf, WorkRetry, WorkRead, slotVars, hwVars
  <2>2. work[i] # "deliver" /\ work'[i] # "deliver"
    BY <1>1 DEF WorkStart, WorkReadHalf, WorkRetry, WorkRead, Leave, Other, TypeOK
  <2>3. \A j \in Ids : j # i => work'[j] = work[j] /\ skb'[j] = skb[j]
    BY <1>1 DEF WorkStart, WorkReadHalf, WorkRetry, WorkRead, Leave, TypeOK
  <2>4. DueFor' = DueFor  BY <2>2, <2>3 DEF DueFor
  <2> QED  BY <2>1, <2>4 DEF seen, WaitedFor, TimeGiven, Doubtful
<1>2. CASE WorkRead(i) /\ TxTstamp(i) # last[i]
  <2>1. /\ UNCHANGED <<skb, stamps, lost, sentAt, dropped, stray>>
        /\ work[i] \in {"high", "low"} /\ work' = [work EXCEPT ![i] = "deliver"]
        /\ bit' = bit \ {i} /\ workSkb' = [workSkb EXCEPT ![i] = NoSkb]
        /\ last' = [last EXCEPT ![i] = TxTstamp(i)]
        /\ torn' = IF TxTstamp(i) = reg[i] THEN torn ELSE torn \cup {i}
    BY <1>2 DEF WorkRead, LastTstamp, hwVars
  <2>2. i \in bit /\ skb[i] = workSkb[i] /\ skb[i] # NoSkb
    BY <2>1 DEF SlotOwned, Running
  <2>3. WaitedFor[i] = skb[i] /\ DueFor[i] = NoSkb  BY <2>1, <2>2 DEF WaitedFor, DueFor
  <2>4. last'[i] = TxTstamp(i)  BY <2>1 DEF TypeOK
  <2>5. DueFor' = [DueFor EXCEPT ![i] = WaitedFor[i]]
    <3>1. work'[i] = "deliver" /\ \A j \in Ids : j # i => work'[j] = work[j]
      BY <2>1 DEF TypeOK
    <3> QED  BY <2>1, <2>3, <3>1 DEF DueFor
  <2>6. WaitedFor' = [WaitedFor EXCEPT ![i] = NoSkb]
    <3>1. \A j \in Ids : j # i => (j \in bit' <=> j \in bit) /\ workSkb'[j] = workSkb[j]
      BY <2>1 DEF TypeOK, AllIds
    <3> QED  BY <2>1, <3>1 DEF WaitedFor
  <2>7. TimeGiven' = TimeGiven  BY <2>1 DEF TimeGiven
  <2>8. Service!TakeTime(i)
    BY <2>1, <2>2, <2>3, <2>4, <2>5, <2>6, <2>7 DEF Service!TakeTime
  <2>9. CASE i \notin Doubtful /\ TxTstamp(i) # reg[i]
    <3>1. sentAt[skb[i]] # 0 /\ sentAt[skb[i]] \div Word # last[i] \div Word
      BY <1>2, <2>9, TakenOwn DEF OwnRegister
    <3>2. Doubtful' = Doubtful \cup {i}  BY <2>1, <2>9 DEF Doubtful
    <3>3. Service!Mix(i)  BY <2>3, <2>8, <3>1, <3>2 DEF Service!Mix
    <3> QED  BY <3>3 DEF Service!Next
  <2>10. CASE ~(i \notin Doubtful /\ TxTstamp(i) # reg[i])
    <3>1. i \notin Doubtful => sentAt[skb[i]] # 0 /\ last'[i] = sentAt[skb[i]]
      BY <1>2, <2>4, <2>10, TakenOwn DEF OwnRegister
    <3>2. Doubtful' = Doubtful  BY <2>1, <2>10 DEF Doubtful
    <3>3. Service!Take(i)  BY <2>3, <2>8, <3>1, <3>2 DEF Service!Take
    <3> QED  BY <3>3 DEF Service!Next
  <2> QED  BY <2>9, <2>10
<1>3. CASE WorkGivesUp(i)
  <2>1. /\ UNCHANGED <<workSkb, stamps, sentAt, dropped, last, torn>>
        /\ work[i] = "check" /\ work' = [work EXCEPT ![i] = "idle"]
        /\ skb' = [skb EXCEPT ![i] = NoSkb]
        /\ bit' = bit \ {i} /\ lost' = lost \cup {skb[i]}
        /\ stray' = IF skb[i] \in dropped THEN stray ELSE stray \cup {i}
    BY <1>3 DEF WorkGivesUp, Leave, hwVars
  <2>2. i \in bit /\ skb[i] = workSkb[i] /\ skb[i] # NoSkb
    BY <2>1 DEF SlotOwned, Running
  <2>3. WaitedFor[i] = skb[i]  BY <2>2 DEF WaitedFor
  <2>4. WaitedFor' = [WaitedFor EXCEPT ![i] = NoSkb]  BY <2>1 DEF WaitedFor
  <2>5. DueFor' = DueFor
    <3>1. work'[i] = "idle" /\ \A j \in Ids : j # i => work'[j] = work[j] /\ skb'[j] = skb[j]
      BY <2>1 DEF TypeOK
    <3> QED  BY <2>1, <3>1 DEF DueFor
  <2>6. TimeGiven' = TimeGiven  BY <2>1 DEF TimeGiven
  <2>7. Doubtful' = IF skb[i] \in dropped THEN Doubtful ELSE Doubtful \cup {i}
    BY <2>1 DEF Doubtful
  <2>8. Service!GiveUp(i)  BY <2>1, <2>2, <2>3, <2>4, <2>5, <2>6, <2>7 DEF Service!GiveUp
  <2> QED  BY <2>8 DEF Service!Next
<1>4. CASE WorkDeliver(i)
  <2>1. /\ UNCHANGED <<bit, workSkb, lost, sentAt, dropped, last, Doubtful>>
        /\ work[i] = "deliver" /\ work' = [work EXCEPT ![i] = "idle"]
        /\ skb' = [skb EXCEPT ![i] = NoSkb]
        /\ stamps' = [stamps EXCEPT ![skb[i]] = [id |-> i, time |-> tstamp[i]]]
    BY <1>4 DEF WorkDeliver, Leave, Doubtful, slotVars, hwVars
  <2>2. skb[i] \in Skbs /\ skb[i] # NoSkb /\ Holds(i, skb[i])
    BY <2>1 DEF Apart, TypeOK, Holds
  <2>3. skb[i] \notin lost /\ stamps[skb[i]] = NoStamp /\ tstamp[i] \in Nat
    BY <2>1, <2>2 DEF Apart, Answers, AnsweredOnce, TypeOK
  <2>4. i \notin Doubtful => tstamp[i] = sentAt[skb[i]]
    BY <2>1 DEF OwnRegister, OwnOf
  <2>5. DueFor[i] = skb[i]  BY <2>1 DEF DueFor
  <2>6. TimeGiven[skb[i]] = -1  BY <2>2, <2>3 DEF TimeGiven, NoStamp
  <2>7. TimeGiven' = [TimeGiven EXCEPT ![skb[i]] = tstamp[i]]
    <3>1. \A s \in Skbs : stamps'[s] = IF s = skb[i] THEN [id |-> i, time |-> tstamp[i]] ELSE stamps[s]
      BY <2>1, <2>2 DEF TypeOK
    <3>2. \A s \in Skbs : stamps'[s].time = IF s = skb[i] THEN tstamp[i] ELSE stamps[s].time
      BY <3>1
    <3> QED  BY <2>2, <3>2 DEF TimeGiven
  <2>8. TimeGiven'[skb[i]] = tstamp[i]  BY <2>2, <2>7 DEF TimeGiven
  <2>9. DueFor' = [DueFor EXCEPT ![i] = NoSkb]
    <3>1. work'[i] = "idle" /\ \A j \in Ids : j # i => work'[j] = work[j] /\ skb'[j] = skb[j]
      BY <2>1 DEF TypeOK
    <3> QED  BY <3>1 DEF DueFor
  <2>10. WaitedFor' = WaitedFor  BY <2>1 DEF WaitedFor
  <2>11. Service!Deliver(i)
    BY <2>1, <2>2, <2>3, <2>4, <2>5, <2>6, <2>7, <2>8, <2>9, <2>10 DEF Service!Deliver
  <2> QED  BY <2>11 DEF Service!Next
<1> QED  BY <1>1, <1>2, <1>3, <1>4 DEF Work

\* The hardware sends or drops the frame.
LEMMA HwServes ==
  ASSUME SlotInv, Journey, Answers, NEW s \in Skbs, HwSends(s) \/ HwDrops(s)
  PROVE  Service!Next
<1>1. /\ UNCHANGED <<bit, workSkb, work, skb, stamps, lost, last, Doubtful>> /\ s \in hw
  BY DEF HwSends, HwDrops, Doubtful, slotVars, workVars
<1>2. UNCHANGED <<WaitedFor, DueFor, TimeGiven>>  BY <1>1, SeenIdle
<1>3. s \notin dropped /\ sentAt[s] = 0
  BY <1>1 DEF Journey, Answers, SentOnce, Flight
<1>4. CASE HwDrops(s)
  <2>1. Service!Drop(s)  BY <1>1, <1>2, <1>3, <1>4 DEF HwDrops, Service!Drop
  <2> QED  BY <2>1 DEF Service!Next
<1>5. CASE HwSends(s)
  <2>1. sentAt \in [Skbs -> Nat] /\ now \in Nat  BY DEF SlotInv, TypeOK
  <2>2. sentAt' = [sentAt EXCEPT ![s] = now + 1] /\ dropped' = dropped
    BY <1>5 DEF HwSends
  <2>3. sentAt'[s] = now + 1  BY <2>1, <2>2
  <2>4. \A u \in Skbs : sentAt[u] < sentAt'[s]
    BY <2>1, <2>3 DEF Answers, TimesGrow
  <2>5. Service!Send(s)  BY <1>1, <1>2, <1>3, <2>2, <2>3, <2>4 DEF Service!Send
  <2> QED  BY <2>5 DEF Service!Next
<1> QED  BY <1>4, <1>5

\* Every step is one of the abstract specification, or invisible there.
LEMMA NextServes ==
  SlotInv /\ Journey /\ OwnRegister /\ Answers /\ [Next]_vars => [Service!Next]_(Service!vars)
<1> SUFFICES ASSUME SlotInv, Journey, OwnRegister, Answers, [Next]_vars
             PROVE  UNCHANGED seen \/ Service!Next
  BY DEF seen, Service!vars
<1>1. CASE \/ SetTsConfig \/ Isr \/ HwReceives \/ Tick \/ UNCHANGED vars
           \/ \E s \in Skbs, i \in Ids, wants \in BOOLEAN, w \in Windows : XmitFill(s, i, wants, w)
  <2>1. UNCHANGED <<bit, workSkb, work, skb, stamps, lost, sentAt, dropped, last, stray, torn>>
    BY <1>1 DEF SetTsConfig, Isr, IsrServes, IsrRxFails, HwReceives, Tick, vars, XmitFill,
       slotVars, workVars, hwVars
  <2> QED  BY <2>1, SeenIdle DEF seen, Doubtful
<1>2. CASE Xmit  BY <1>2, XmitServes
<1>3. CASE \E i \in Ids : Work(i)  BY <1>3, WorkServes
<1>4. CASE \E s \in Skbs : HwSends(s) \/ HwDrops(s)  BY <1>4, HwServes
<1> QED  BY <1>1, <1>2, <1>3, <1>4 DEF Next

\* The driver implements its abstract specification: whatever the interleaving of
\* start_xmit, the work queue, the hardware and the ioctl, and whatever is dropped or given
\* up, a sender that asks gets at most one answer, the time of its own frame as long as
\* nothing else may have written the register and its two halves were not read apart
\* across a change of the high one, and an id serves one frame at a time.
THEOREM DriverServesSenders == Spec => ServesSenders
<1>1. Init => Journey /\ OwnRegister /\ Answers
  BY TimestampAssumption DEF Init, Journey, OwnRegister, OwnOf, Answers, TimesGrow, SentOnce,
     AnsweredOnce, Holds, Flight, NoStamp, NoMeta, AllIds
<1>2. Init => Service!Init
  BY DEF Init, Service!Init, WaitedFor, DueFor, TimeGiven, NoStamp, Doubtful
<1> QED
  BY <1>1, <1>2, SlotSafe, JourneyNext, OwnNext, AnswersNext, NextServes, PTL
  DEF Spec, ServesSenders, Service!Spec
============================================================================

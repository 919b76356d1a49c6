---------------------------- MODULE StampService ----------------------------
(***************************************************************************)
(* What the driver promises to the senders of frames that want a transmit  *)
(* timestamp (TxTimestamp implements it): a frame that asks is answered     *)
(* once, with the time at which it was sent itself or not at all, and an    *)
(* id serves one frame at a time.  What can spoil the times of an id is     *)
(* named.  No work items, registers, references or interrupts.             *)
(***************************************************************************)
EXTENDS Integers

CONSTANTS
  Skbs, NoSkb, Ids,
  Word       \* what the low half of a time can tell apart

VARIABLES
  waiting,  \* the frame that each id waits for
  due,      \* the frame whose timestamp it is about to deliver
  stamp,    \* the timestamp of each frame, or -1
  lost,     \* frames that will never get one
  sentAt,   \* when each frame was sent, or 0
  dropped,  \* frames that will never be sent
  latest,   \* the time each id took last
  fouled    \* ids whose times may be mixed up: they promise no times

vars == <<waiting, due, stamp, lost, sentAt, dropped, latest, fouled>>

Init ==
  /\ waiting = [i \in Ids |-> NoSkb] /\ due = [i \in Ids |-> NoSkb]
  /\ stamp = [s \in Skbs |-> -1] /\ lost = {}
  /\ sentAt = [s \in Skbs |-> 0] /\ dropped = {}
  /\ latest = [i \in Ids |-> 0] /\ fouled = {}

\* The frame has not asked yet.
Fresh(s) ==
  /\ stamp[s] = -1 /\ s \notin lost
  /\ \A i \in Ids : waiting[i] # s /\ due[i] # s

\* A frame asks before it is sent.
Ask(s, i) ==
  /\ Fresh(s) /\ sentAt[s] = 0
  /\ waiting[i] = NoSkb
  /\ waiting' = [waiting EXCEPT ![i] = s]
  /\ UNCHANGED <<due, stamp, lost, sentAt, dropped, latest, fouled>>

\* ... in vain.
Refuse(s) ==
  /\ Fresh(s) /\ sentAt[s] = 0
  /\ lost' = lost \cup {s}
  /\ UNCHANGED <<waiting, due, stamp, sentAt, dropped, latest, fouled>>

\* A frame is sent once, and no two at the same time.
Send(s) ==
  /\ sentAt[s] = 0 /\ s \notin dropped
  /\ \A u \in Skbs : sentAt[u] < sentAt'[s]
  /\ sentAt' = [sentAt EXCEPT ![s] = sentAt'[s]]
  /\ UNCHANGED <<waiting, due, stamp, lost, dropped, latest, fouled>>

Drop(s) ==
  /\ sentAt[s] = 0 /\ s \notin dropped
  /\ dropped' = dropped \cup {s}
  /\ UNCHANGED <<waiting, due, stamp, lost, sentAt, latest, fouled>>

\* A frame that did not ask uses the id.
Foul(i) ==
  /\ fouled' = fouled \cup {i}
  /\ UNCHANGED <<waiting, due, stamp, lost, sentAt, dropped, latest>>

\* The id has a time, and may wait for the next frame before it delivers this one's.
TakeTime(i) ==
  /\ waiting[i] # NoSkb /\ due[i] = NoSkb
  /\ due' = [due EXCEPT ![i] = waiting[i]]
  /\ waiting' = [waiting EXCEPT ![i] = NoSkb]
  /\ latest' = [latest EXCEPT ![i] = latest'[i]]
  /\ UNCHANGED <<stamp, lost, sentAt, dropped>>

\* It is that of the frame, which was sent before.
Take(i) ==
  /\ TakeTime(i)
  /\ i \notin fouled => sentAt[waiting[i]] # 0 /\ latest'[i] = sentAt[waiting[i]]
  /\ UNCHANGED fouled

\* The frame was sent in another round of the low half than the one before it: the time
\* may be put together from those of both.
Mix(i) ==
  /\ TakeTime(i)
  /\ sentAt[waiting[i]] # 0
  /\ sentAt[waiting[i]] \div Word # latest[i] \div Word
  /\ fouled' = fouled \cup {i}

Deliver(i) ==
  LET s == due[i]
  IN  /\ s # NoSkb
      /\ stamp[s] = -1 /\ s \notin lost
      /\ stamp'[s] \in Nat
      /\ i \notin fouled => stamp'[s] = sentAt[s]
      /\ stamp' = [stamp EXCEPT ![s] = stamp'[s]]
      /\ due' = [due EXCEPT ![i] = NoSkb]
      /\ UNCHANGED <<waiting, lost, sentAt, dropped, latest, fouled>>

\* The id waits no longer.  The frame may still be sent, unless it was dropped.
GiveUp(i) ==
  /\ waiting[i] # NoSkb
  /\ lost' = lost \cup {waiting[i]}
  /\ waiting' = [waiting EXCEPT ![i] = NoSkb]
  /\ fouled' = IF waiting[i] \in dropped THEN fouled ELSE fouled \cup {i}
  /\ UNCHANGED <<due, stamp, sentAt, dropped, latest>>

Next ==
  \/ \E s \in Skbs : Refuse(s) \/ Send(s) \/ Drop(s) \/ \E i \in Ids : Ask(s, i)
  \/ \E i \in Ids : Foul(i) \/ Take(i) \/ Mix(i) \/ Deliver(i) \/ GiveUp(i)

Spec == Init /\ [][Next]_vars
============================================================================

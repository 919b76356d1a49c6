-------------------------- MODULE ThroughputProofs --------------------------
(* The invariants of Throughput, for any number of clients, frames, losses,  *)
(* durations and attempts.                                                   *)
EXTENDS Throughput, FiniteSetTheorems, SequenceTheorems, TLAPS

-----------------------------------------------------------------------------
(* Sequences.                                                               *)

\* What is left of the threads when one ends: all others, and nothing new.
LEMMA RemoveRest ==
  ASSUME NEW S, NEW s \in Seq(S), NEW i \in 1 .. Len(s)
  PROVE  /\ Remove(s, i) \in Seq(S)
         /\ \A j \in DOMAIN Remove(s, i) : \E k \in DOMAIN s : Remove(s, i)[j] = s[k]
         /\ \A k \in DOMAIN s \ {i} : \E j \in DOMAIN Remove(s, i) : Remove(s, i)[j] = s[k]
<1> DEFINE a == SubSeq(s, 1, i - 1)
           b == SubSeq(s, i + 1, Len(s))
<1>1. Len(s) \in Nat /\ DOMAIN s = 1 .. Len(s)  OBVIOUS
<1>2. /\ a \in Seq(S) /\ Len(a) = i - 1
      /\ \A j \in 1 .. (i - 1) : a[j] = s[j]
  <2>1. \A j \in 1 .. (i - 1) : s[j] \in S  BY <1>1
  <2>2. /\ SubSeq(s, 1, i - 1) \in Seq(S)
        /\ Len(SubSeq(s, 1, i - 1)) = IF 1 <= i - 1 THEN (i - 1) - 1 + 1 ELSE 0
        /\ \A j \in 1 .. (i - 1) - 1 + 1 : SubSeq(s, 1, i - 1)[j] = s[1 + j - 1]
    BY <1>1, <2>1, SubSeqProperties
  <2>3. \A j \in 1 .. (i - 1) : j \in 1 .. (i - 1) - 1 + 1 /\ 1 + j - 1 = j  BY <1>1
  <2> QED  BY <1>1, <2>2, <2>3
<1>3. /\ b \in Seq(S) /\ Len(b) = Len(s) - i
      /\ \A j \in 1 .. (Len(s) - i) : b[j] = s[i + j]
  <2>1. \A j \in (i + 1) .. Len(s) : s[j] \in S  BY <1>1
  <2>2. /\ SubSeq(s, i + 1, Len(s)) \in Seq(S)
        /\ Len(SubSeq(s, i + 1, Len(s))) =
              IF i + 1 <= Len(s) THEN Len(s) - (i + 1) + 1 ELSE 0
        /\ \A j \in 1 .. Len(s) - (i + 1) + 1 :
              SubSeq(s, i + 1, Len(s))[j] = s[(i + 1) + j - 1]
    BY <1>1, <2>1, SubSeqProperties
  <2>3. \A j \in 1 .. (Len(s) - i) :
          j \in 1 .. Len(s) - (i + 1) + 1 /\ (i + 1) + j - 1 = i + j
    BY <1>1
  <2> QED  BY <1>1, <2>2, <2>3
<1> HIDE DEF a, b
<1>4. /\ a \o b \in Seq(S) /\ Len(a \o b) = Len(s) - 1
      /\ \A j \in 1 .. (i - 1) : (a \o b)[j] = s[j]
      /\ \A j \in i .. (Len(s) - 1) : (a \o b)[j] = s[j + 1]
  <2>1. /\ a \o b \in Seq(S) /\ Len(a \o b) = Len(a) + Len(b)
        /\ \A j \in 1 .. Len(a) + Len(b) :
              (a \o b)[j] = IF j <= Len(a) THEN a[j] ELSE b[j - Len(a)]
    BY <1>2, <1>3, ConcatProperties
  <2>2. ASSUME NEW j \in 1 .. (i - 1) PROVE (a \o b)[j] = s[j]  BY <1>1, <1>2, <1>3, <2>1
  <2>3. ASSUME NEW j \in i .. (Len(s) - 1) PROVE (a \o b)[j] = s[j + 1]
    <3>1. j - Len(a) \in 1 .. (Len(s) - i) /\ ~(j <= Len(a)) /\ j \in 1 .. Len(a) + Len(b)
          /\ i + (j - Len(a)) = j + 1
      BY <1>1, <1>2, <1>3
    <3> QED  BY <1>3, <2>1, <3>1
  <2> QED  BY <1>1, <1>2, <1>3, <2>1, <2>2, <2>3
<1>5. Remove(s, i) = a \o b  BY DEF Remove, a, b
<1>d. DOMAIN Remove(s, i) = 1 .. (Len(s) - 1)
  <2>1. \A q \in Seq(S) : DOMAIN q = 1 .. Len(q)  OBVIOUS
  <2> QED  BY <1>4, <1>5, <2>1
<1> DEFINE r == Remove(s, i)
<1>r. /\ \A j \in 1 .. (i - 1) : r[j] = s[j]
      /\ \A j \in i .. (Len(s) - 1) : r[j] = s[j + 1]
      /\ DOMAIN r = 1 .. (Len(s) - 1)
  BY <1>4, <1>5, <1>d
<1> HIDE DEF r
<1>6. ASSUME NEW j \in DOMAIN r PROVE \E k \in DOMAIN s : r[j] = s[k]
  <2>1. CASE j < i  BY <1>1, <1>r, <2>1
  <2>2. CASE j >= i
    <3>1. j + 1 \in DOMAIN s /\ j \in i .. (Len(s) - 1)  BY <1>1, <1>r, <2>2
    <3> QED  BY <1>r, <3>1
  <2> QED  BY <1>1, <1>r, <2>1, <2>2
<1>7. ASSUME NEW k \in DOMAIN s \ {i} PROVE \E j \in DOMAIN r : r[j] = s[k]
  <2>1. CASE k < i  BY <1>1, <1>r, <2>1
  <2>2. CASE k > i
    <3>1. k - 1 \in DOMAIN r /\ k - 1 \in i .. (Len(s) - 1) /\ (k - 1) + 1 = k
      BY <1>1, <1>r, <2>2
    <3> QED  BY <1>r, <3>1
  <2> QED  BY <1>1, <2>1, <2>2
<1> QED  BY <1>4, <1>5, <1>6, <1>7 DEF r

\* The server takes the first frame of its socket.
LEMMA TailRest ==
  ASSUME NEW S, NEW q \in Seq(S), q # <<>>
  PROVE  /\ Tail(q) \in Seq(S) /\ Head(q) = q[1] /\ q[1] \in S /\ 1 \in DOMAIN q
         /\ \A i \in DOMAIN Tail(q) : i \in Nat /\ i + 1 \in DOMAIN q /\ Tail(q)[i] = q[i + 1]
         /\ \A i \in DOMAIN q \ {1} : i - 1 \in DOMAIN Tail(q) /\ Tail(q)[i - 1] = q[i]
<1>1. Len(q) \in Nat \ {0} /\ DOMAIN q = 1 .. Len(q)  OBVIOUS
<1>2. /\ Tail(q) \in Seq(S) /\ Len(Tail(q)) = Len(q) - 1
      /\ \A i \in 1 .. (Len(q) - 1) : Tail(q)[i] = q[i + 1]
  BY <1>1
<1>3. DOMAIN Tail(q) = 1 .. (Len(q) - 1)  BY <1>1, <1>2
<1> QED  BY <1>1, <1>2, <1>3

\* The link puts a frame behind the others.
LEMMA AppendRest ==
  ASSUME NEW S, NEW q \in Seq(S), NEW f \in S
  PROVE  /\ Append(q, f) \in Seq(S) /\ Len(q) \in Nat
         /\ DOMAIN q = 1 .. Len(q) /\ DOMAIN Append(q, f) = 1 .. (Len(q) + 1)
         /\ Append(q, f)[Len(q) + 1] = f
         /\ \A i \in DOMAIN q : Append(q, f)[i] = q[i]
OBVIOUS

-----------------------------------------------------------------------------
(* Types.                                                                   *)

Pcs == {"off", "reqStart", "waitStart", "data", "reqEnd", "waitEnd", "ended", "killed"}
ClientType == [pc : Pcs, tries : 0 .. (Tries - 1), timer : Ages, id : 0 .. DataMax, dur : Durations]
GhostType == [owner : Clients \cup {Nobody}, mixed : BOOLEAN, age : Ages, dead : BOOLEAN,
              losses : 0 .. LostMax]
StatsType == [duration : Durations \cup {0}, pkts : Nat, lastId : 0 .. DataMax]

\* The assumption on the constants, one by one.
LEMMA Positive ==
  /\ NClients \in Nat /\ NClients >= 1 /\ Tries \in Nat /\ Tries >= 1
  /\ DataMax \in Nat /\ DataMax >= 1 /\ LostMax \in Nat /\ LostMax >= 1
  /\ QueueMax \in Nat /\ QueueMax >= 1 /\ WorkersMax \in Nat /\ WorkersMax >= 1
  /\ DurMax \in Nat /\ AgeMax \in Nat /\ AgeMax = DurMax + 1 /\ Ages = 0 .. AgeMax
  /\ \A d \in Durations : d \in Nat /\ d <= DurMax /\ d + 1 \in Ages
  /\ 0 \in Ages /\ 0 \in 0 .. (Tries - 1) /\ 0 \in 0 .. DataMax /\ 0 \in 0 .. LostMax
<1>1. \A x \in {NClients, Tries, DataMax, LostMax, QueueMax, WorkersMax} : x \in Nat \ {0}
  BY ToolAssumption
<1>2. /\ NClients \in Nat \ {0} /\ Tries \in Nat \ {0} /\ DataMax \in Nat \ {0}
      /\ LostMax \in Nat \ {0} /\ QueueMax \in Nat \ {0} /\ WorkersMax \in Nat \ {0}
  BY <1>1
<1>3. DurMax \in Nat /\ \A d \in Durations : d \in 0 .. DurMax  BY ToolAssumption
<1> QED  BY <1>2, <1>3 DEF AgeMax, Ages

\* An age that grows stays within its bound.
LEMMA OlderBounded ==
  ASSUME NEW top \in Nat, NEW n \in Nat, NEW a \in 0 .. n, top <= n
  PROVE  Older(a, top) \in 0 .. n
BY DEF Older

\* A loop of the client starts with its counters at zero.
LEMMA EnterType ==
  ASSUME NEW cl \in ClientType, NEW p \in Pcs
  PROVE  Enter(cl, p) \in ClientType
<1>1. 0 \in Ages /\ 0 \in 0 .. (Tries - 1)  BY Positive
<1> QED  BY <1>1 DEF Enter, ClientType

\* A client that goes on keeps its socket's contents within the kinds of answer.
LEMMA ProceedType ==
  ASSUME TypeOK, NEW c \in Clients, NEW cl \in ClientType, Proceed(c, cl)
  PROVE  /\ client' \in [Clients -> ClientType]
         /\ inbox' \in [Clients -> SUBSET {"ResStart", "ResEnd"}]
BY DEF TypeOK, ClientType, Pcs, Proceed

\* A frame sent, or lost.
LEMMA SendType ==
  ASSUME TypeOK, NEW f \in Frames, Send(f)
  PROVE  /\ toServer' \in Seq(Frames) /\ ghost' \in GhostType
<1>1. ghost \in GhostType /\ toServer \in Seq(Frames)  BY DEF TypeOK, GhostType
<1>2. ghost.losses \in 0 .. LostMax /\ LostMax \in Nat  BY <1>1, Positive DEF GhostType
<1>3. Older(ghost.losses, LostMax) \in 0 .. LostMax  BY <1>2 DEF Older
<1>4. CASE toServer' = Append(toServer, f) /\ UNCHANGED ghost  BY <1>1, <1>4
<1>5. CASE /\ UNCHANGED toServer
           /\ ghost' = IF Alive THEN [ghost EXCEPT !.losses = Older(@, LostMax)] ELSE ghost
  BY <1>1, <1>3, <1>5 DEF GhostType
<1> QED  BY <1>4, <1>5 DEF Send

\* The process of the server ends.
LEMMA ExitType ==
  ASSUME NEW how \in {"closed", "panicked"}, Exit(how)
  PROVE  /\ toServer' \in Seq(Frames) /\ srv' \in {"on", "closed", "panicked"}
         /\ running' \in BOOLEAN /\ stats' \in StatsType
         /\ workers' \in Seq(Workers) /\ ghost' \in GhostType
<1>1. stats' \in StatsType  BY Positive DEF Exit, StatsType, NoStats
<1>2. ghost' \in GhostType  BY Positive DEF Exit, GhostType, Remembered, Nobody
<1>3. <<>> \in Seq(Frames) /\ <<>> \in Seq(Workers)  OBVIOUS
<1> QED  BY <1>1, <1>2, <1>3 DEF Exit

\* Every step keeps the types.
LEMMA NextTyped == TypeOK /\ [Next]_vars => TypeOK'
<1> SUFFICES ASSUME TypeOK, [Next]_vars PROVE TypeOK'  OBVIOUS
<1> USE Positive
<1>t. /\ client \in [Clients -> ClientType]
      /\ inbox \in [Clients -> SUBSET {"ResStart", "ResEnd"}]
      /\ toServer \in Seq(Frames) /\ srv \in {"on", "closed", "panicked"}
      /\ running \in BOOLEAN /\ stats \in StatsType
      /\ workers \in Seq(Workers) /\ ghost \in GhostType
  BY DEF TypeOK, ClientType, Pcs, StatsType, GhostType
<1> DEFINE Typed == /\ client' \in [Clients -> ClientType]
                    /\ inbox' \in [Clients -> SUBSET {"ResStart", "ResEnd"}]
                    /\ toServer' \in Seq(Frames) /\ srv' \in {"on", "closed", "panicked"}
                    /\ running' \in BOOLEAN /\ stats' \in StatsType
                    /\ workers' \in Seq(Workers) /\ ghost' \in GhostType
<1>w. \A i \in 1 .. Len(workers) : workers[i] \in Workers  BY <1>t
<1>u. SUFFICES Typed  BY DEF TypeOK, ClientType, Pcs, StatsType, GhostType
<1>f. ASSUME NEW c \in Clients, NEW o \in {"ReqStart", "Data", "ReqEnd"}
      PROVE  Frame(c, o) \in Frames
  BY <1>t DEF Frame, Frames, ClientType
<1>1. ASSUME NEW c \in Clients, ClientOpen(c) PROVE Typed
  <2> HIDE Positive
  <2>1. client' \in [Clients -> ClientType]
    <3>1. client[c] \in ClientType  BY ONLY <1>t, c \in Clients
    <3>2. [client[c] EXCEPT !.pc = "reqStart"] \in ClientType
      BY ONLY <3>1 DEF ClientType, Pcs
    <3>3. client' = [client EXCEPT ![c] = [client[c] EXCEPT !.pc = "reqStart"]]
      BY ONLY <1>1 DEF ClientOpen
    <3> QED  BY ONLY <1>t, <3>2, <3>3
  <2> QED  BY ONLY <1>1, <1>t, <2>1 DEF ClientOpen
<1>2. ASSUME NEW c \in Clients, ClientRequest(c) PROVE Typed
  <2>1. PICK o \in {"ReqStart", "ReqEnd"}, w \in {"waitStart", "waitEnd"} :
          /\ Send(Frame(c, o))
          /\ client' = [client EXCEPT ![c].pc = w, ![c].timer = 0]
    BY <1>2 DEF ClientRequest
  <2>2. toServer' \in Seq(Frames) /\ ghost' \in GhostType  BY <1>f, <2>1, SendType
  <2>3. client' \in [Clients -> ClientType]
    <3>1. [client[c] EXCEPT !.pc = w, !.timer = 0] \in ClientType
      <4>1. client[c] \in ClientType /\ 0 \in Ages  BY <1>t
      <4> HIDE Positive
      <4> QED  BY <4>1 DEF ClientType, Pcs
    <3>2. client' = [client EXCEPT ![c] = [client[c] EXCEPT !.pc = w, !.timer = 0]]
      BY <1>t, <2>1
    <3> QED  BY <1>t, <3>1, <3>2
  <2> QED  BY <1>2, <1>t, <2>2, <2>3 DEF ClientRequest
<1>3. ASSUME NEW c \in Clients, ClientReceive(c) PROVE Typed
  <2>1. Enter(client[c], NextPc(client[c].pc)) \in ClientType
    BY <1>3, <1>t, EnterType DEF ClientReceive, NextPc, Pcs
  <2> QED  BY <1>3, <1>t, <2>1, ProceedType DEF ClientReceive
<1>4. ASSUME NEW c \in Clients, ClientTimeout(c) PROVE Typed
  <2>1. client[c] \in ClientType /\ client[c].pc \in {"waitStart", "waitEnd"}
    BY <1>4, <1>t DEF ClientTimeout
  <2>2. NextPc(client[c].pc) \in Pcs /\ AgainPc(client[c].pc) \in Pcs
    BY <2>1 DEF NextPc, AgainPc, Pcs
  <2>3. AfterTimeout(client[c]) \in ClientType
    <3>1. CASE client[c].tries + 1 < Tries
      <4>1. client[c].tries + 1 \in 0 .. (Tries - 1)
        <5>1. client[c].tries \in 0 .. (Tries - 1)  BY ONLY <2>1 DEF ClientType
        <5>2. Tries \in Nat  BY ONLY Positive
        <5> QED  BY ONLY <3>1, <5>1, <5>2
      <4> HIDE Positive
      <4> QED  BY <2>1, <2>2, <3>1, <4>1 DEF AfterTimeout, ClientType
    <3>2. CASE ~(client[c].tries + 1 < Tries)
      BY <2>1, <2>2, <3>2, EnterType DEF AfterTimeout
    <3> QED  BY <3>1, <3>2
  <2> QED  BY <1>4, <1>t, <2>3, ProceedType DEF ClientTimeout
<1>5. ASSUME NEW c \in Clients, ClientData(c) PROVE Typed
  <2>1. client[c] \in ClientType /\ client[c].id + 1 \in 0 .. DataMax
    <3>1. client[c] \in ClientType  BY <1>t
    <3>2. client[c].id \in 0 .. DataMax  BY <3>1 DEF ClientType
    <3>3. client[c].id < DataMax - 1 \/ client[c].id < DataMax  BY <1>5 DEF ClientData
    <3> QED  BY <3>1, <3>2, <3>3
  <2>2. toServer' \in Seq(Frames) /\ ghost' \in GhostType
    BY <1>5, <1>f, SendType DEF ClientData
  <2>3. Enter(client[c], "reqEnd") \in ClientType  BY <2>1, EnterType DEF Pcs
  <2>4. [Enter(client[c], "reqEnd") EXCEPT !.id = @ + 1] \in ClientType
    BY <2>1, <2>3 DEF Enter, ClientType
  <2>5. [client[c] EXCEPT !.id = @ + 1] \in ClientType  BY <2>1 DEF ClientType
  <2>6. client' \in [Clients -> ClientType]  BY <1>5, <1>t, <2>4, <2>5 DEF ClientData
  <2> QED  BY <1>5, <1>t, <2>2, <2>6 DEF ClientData
<1>6. ASSUME NEW c \in Clients, ClientInterrupt(c) PROVE Typed
  <2>1. client[c] \in ClientType  BY <1>t
  <2>2. Enter(client[c], "killed") \in ClientType  BY <2>1, EnterType DEF Pcs
  <2>3. [client[c] EXCEPT !.timer = client[c].dur + 1] \in ClientType
    <3>1. client[c].dur + 1 \in Ages  BY <2>1 DEF ClientType
    <3> HIDE Positive
    <3> QED  BY <2>1, <3>1 DEF ClientType
  <2>4. client' \in [Clients -> ClientType] /\ inbox' \in [Clients -> SUBSET {"ResStart", "ResEnd"}]
    BY <1>6, <2>2, <2>3, ProceedType DEF ClientInterrupt
  <2> QED  BY <1>6, <1>t, <2>4 DEF ClientInterrupt
<1>7. CASE ServerStart
  <2>1. /\ Tail(toServer) \in Seq(Frames) /\ Head(toServer) \in Frames
    BY <1>7, <1>t, TailRest DEF ServerStart, Got
  <2>2. CASE running  BY <1>7, <1>t, <2>1, <2>2 DEF ServerStart
  <2>3. CASE ~running
    <3>1. stats' \in StatsType
      <4>1. stats' = NewStats(Head(toServer).dur)  BY <1>7, <2>3 DEF ServerStart
      <4>2. Head(toServer).dur \in Durations /\ 0 \in 0 .. DataMax  BY <2>1 DEF Frames
      <4> HIDE Positive
      <4> QED  BY <4>1, <4>2 DEF NewStats, NoStats, StatsType
    <3>2. ghost' \in GhostType
      <4>1. ghost' = [ghost EXCEPT !.owner = Head(toServer).from, !.mixed = FALSE, !.age = 0,
                                   !.dead = FALSE]
        BY <1>7, <2>3 DEF ServerStart
      <4>2. Head(toServer).from \in Clients /\ 0 \in Ages  BY <2>1 DEF Frames
      <4> HIDE Positive
      <4> QED  BY <1>t, <4>1, <4>2 DEF GhostType
    <3>3. inbox' \in [Clients -> SUBSET {"ResStart", "ResEnd"}]
      <4>1. Answer("ResStart")  BY <1>7, <2>3 DEF ServerStart
      <4> QED  BY <1>t, <4>1 DEF Answer
    <3>4. workers' \in Seq(Workers)
      <4>1. \A i \in 1 .. Len(workers) : [workers[i] EXCEPT !.fresh = FALSE] \in Workers
        BY <1>w DEF Workers
      <4>2. [i \in 1 .. Len(workers) |-> [workers[i] EXCEPT !.fresh = FALSE]] \in Seq(Workers)
        <5>1. Len(workers) \in Nat  BY ONLY <1>w
        <5> QED  BY ONLY <4>1, <5>1
      <4>3. NewWorker \in Workers  BY DEF NewWorker, Workers
      <4>4. workers' = Append([i \in 1 .. Len(workers) |-> [workers[i] EXCEPT !.fresh = FALSE]],
                              NewWorker)
        BY <1>7, <2>3 DEF ServerStart
      <4> QED  BY <4>2, <4>3, <4>4, AppendRest
    <3> QED  BY <1>7, <1>t, <2>1, <2>3, <3>1, <3>2, <3>3, <3>4 DEF ServerStart
  <2> QED  BY <1>t, <2>2, <2>3
<1>8. CASE ServerData
  <2>1. /\ Tail(toServer) \in Seq(Frames) /\ Head(toServer) \in Frames
    BY <1>8, <1>t, TailRest DEF ServerData, Got
  <2>2. stats' \in StatsType  
    <3>1. stats' = [stats EXCEPT !.lastId = Head(toServer).id, !.pkts = stats.pkts + 1]
      BY <1>8, <1>t DEF ServerData, Counted, StatsType
    <3>2. Head(toServer).id \in 0 .. DataMax /\ stats.pkts + 1 \in Nat
      <4>1. Head(toServer).id \in 0 .. DataMax  BY <2>1 DEF Frames
      <4>2. stats.pkts \in Nat  BY <1>t DEF StatsType
      <4> QED  BY <4>1, <4>2
    <3> HIDE Positive
    <3> QED  BY <1>t, <3>1, <3>2 DEF StatsType
  <2>3. ghost' \in GhostType  BY <1>8, <1>t DEF ServerData, GhostType
  <2> QED  BY <1>8, <1>t, <2>1, <2>2, <2>3 DEF ServerData
<1>9. CASE ServerEnd
  <2>1. Tail(toServer) \in Seq(Frames)  BY <1>9, <1>t, TailRest DEF ServerEnd, Got
  <2>2. inbox' \in [Clients -> SUBSET {"ResStart", "ResEnd"}]
    BY <1>9, <1>t DEF ServerEnd, Answer
  <2>3. CASE Exit("panicked")  BY <1>9, <1>t, <2>2, <2>3, ExitType DEF ServerEnd
  <2>4. CASE stats.duration # 0  BY <1>9, <1>t, <2>1, <2>2, <2>4 DEF ServerEnd
  <2> QED  BY <1>9, <2>3, <2>4 DEF ServerEnd
<1>10. CASE ServerClose  BY <1>10, <1>t, ExitType DEF ServerClose
<1>11. ASSUME NEW i \in 1 .. Len(workers), WorkerTest(i) PROVE Typed
  <2>1. Remove(workers, i) \in Seq(Workers)  BY <1>t, RemoveRest
  <2>2. [workers EXCEPT ![i].pc = "asleep"] \in Seq(Workers)
    <3>1. [workers[i] EXCEPT !.pc = "asleep"] \in Workers  BY <1>w DEF Workers
    <3> QED  BY <1>t, <3>1
  <2> QED  BY <1>11, <1>t, <2>1, <2>2 DEF WorkerTest
<1>12. ASSUME NEW i \in 1 .. Len(workers), WorkerReport(i) PROVE Typed
  <2>1. Remove(workers, i) \in Seq(Workers)  BY <1>t, RemoveRest
  <2>2. NextLap(workers[i]) \in Workers  BY <1>w, <1>t DEF NextLap, Workers, StatsType
  <2>3. [workers EXCEPT ![i] = NextLap(workers[i])] \in Seq(Workers)  BY <1>t, <2>2
  <2>4. workers' \in Seq(Workers)  BY <1>12, <2>1, <2>3 DEF WorkerReport
  <2>5. running' \in BOOLEAN  BY <1>12, <1>t DEF WorkerReport, TestOver
  <2>6. workers[i].fresh \in BOOLEAN  BY <1>w DEF Workers
  <2>7. [ghost EXCEPT !.dead = @ \/ (workers[i].fresh /\ running)] \in GhostType
    BY <1>t, <2>6 DEF GhostType
  <2>8. ghost' \in GhostType  BY <1>12, <1>t, <2>7 DEF WorkerReport
  <2> QED  BY <1>12, <1>t, <2>4, <2>5, <2>8 DEF WorkerReport
<1>13. CASE Tick
  <2>1. AgeMax \in Nat /\ Ages = 0 .. AgeMax  OBVIOUS
  <2>2. ASSUME NEW c \in Clients
        PROVE  [client[c] EXCEPT !.timer = Older(@, TimerMax(client[c]))] \in ClientType
    <3>1. client[c] \in ClientType  BY <1>t
    <3>2. TimerMax(client[c]) \in Nat /\ TimerMax(client[c]) <= AgeMax
      <4>1. client[c].dur \in Nat /\ client[c].dur <= DurMax  BY <3>1 DEF ClientType
      <4>2. AgeMax \in Nat /\ DurMax \in Nat /\ AgeMax = DurMax + 1  BY ONLY Positive
      <4> QED  BY ONLY <4>1, <4>2 DEF TimerMax
    <3>3. Older(client[c].timer, TimerMax(client[c])) \in Ages
      BY <2>1, <3>1, <3>2, OlderBounded DEF ClientType
    <3> QED  BY <3>1, <3>3 DEF ClientType
  <2>3. client' \in [Clients -> ClientType]  BY <1>13, <2>2 DEF Tick
  <2>4. ASSUME NEW i \in 1 .. Len(workers)
        PROVE  [workers[i] EXCEPT !.age = Older(@, AgeMax), !.pc = "awake"] \in Workers
    <3>1. workers[i] \in Workers  BY <1>w
    <3>2. Older(workers[i].age, AgeMax) \in Ages
      <4>1. workers[i].age \in 0 .. AgeMax  BY <2>1, <3>1 DEF Workers
      <4>2. Older(workers[i].age, AgeMax) \in 0 .. AgeMax  BY <2>1, <4>1 DEF Older
      <4> QED  BY <2>1, <4>2
    <3> QED  BY <3>1, <3>2 DEF Workers
  <2>5. workers' \in Seq(Workers)
    <3>1. Len(workers) \in Nat  BY <1>t
    <3>2. workers' = [i \in 1 .. Len(workers) |->
                        [workers[i] EXCEPT !.age = Older(@, AgeMax), !.pc = "awake"]]
      BY <1>13 DEF Tick
    <3>3. \A i \in 1 .. Len(workers) :
             [workers[i] EXCEPT !.age = Older(@, AgeMax), !.pc = "awake"] \in Workers
      BY <2>4
    <3>4. workers' \in [1 .. Len(workers) -> Workers]  BY <3>2, <3>3, Zenon
    <3>5. \A n \in Nat : \A q \in [1 .. n -> Workers] : q \in Seq(Workers)  OBVIOUS
    <3> QED  BY <3>1, <3>4, <3>5, Zenon
  <2>6. ghost' \in GhostType
    <3>1. Older(ghost.age, AgeMax) \in Ages  BY <1>t, <2>1, OlderBounded DEF GhostType
    <3> QED  BY <1>13, <1>t, <3>1 DEF Tick, GhostType
  <2> QED  BY <1>13, <1>t, <2>3, <2>5, <2>6 DEF Tick
<1>14. CASE UNCHANGED vars  BY <1>14, <1>t DEF vars
<1> QED
  BY <1>1, <1>2, <1>3, <1>4, <1>5, <1>6, <1>7, <1>8, <1>9, <1>10, <1>11, <1>12, <1>13, <1>14
     DEF Next, ClientStep, ServerStep

-----------------------------------------------------------------------------
(* The inductive invariant.                                                 *)

IsData(f) == f.op = "Data"
Positions(q, c) == {i \in DOMAIN q : q[i].op = "Data" /\ q[i].from = c}

\* The thread of the current test is as old as the test.
FreshAge == \A i \in DOMAIN workers : workers[i].fresh => workers[i].age = ghost.age

\* Data of one client is in its socket's order, and not ahead of the client.
QueueOrder ==
    /\ \A i, j \in DOMAIN toServer :
          i < j /\ IsData(toServer[i]) /\ IsData(toServer[j]) /\ toServer[i].from = toServer[j].from
              => toServer[i].id <= toServer[j].id
    /\ \A i \in DOMAIN toServer :
          IsData(toServer[i]) => toServer[i].id <= client[toServer[i].from].id

\* While the counters are the owner's alone, last_id is behind what still comes.
Ahead ==
    ~ghost.mixed =>
        /\ \A i \in DOMAIN toServer :
              IsData(toServer[i]) /\ toServer[i].from = ghost.owner
                  => stats.lastId <= toServer[i].id
        /\ ghost.owner \in Clients => stats.lastId <= client[ghost.owner].id

\* A client sends no Data before it has sent its last ReqStart.
StartFirst ==
    /\ \A i, j \in DOMAIN toServer :
          i < j /\ IsData(toServer[i]) /\ toServer[j].op = "ReqStart"
              => toServer[i].from # toServer[j].from
    /\ \A c \in Clients :
          client[c].pc \in {"off", "reqStart", "waitStart"} =>
              client[c].id = 0 /\ Positions(toServer, c) = {}

\* Behind a ReqStart that is not taken yet, all Data of its client still waits.
StartWhole ==
    Alive /\ ghost.losses = 0 =>
        \A c \in Clients :
            (\E i \in DOMAIN toServer : toServer[i].op = "ReqStart" /\ toServer[i].from = c)
                => client[c].id = Cardinality(Positions(toServer, c))

ThreadInv == TypeOK /\ FreshAge /\ TestWatched
OrderInv == ThreadInv /\ QueueOrder /\ Ahead /\ FreshNeverUnderflows
CountInv == TypeOK /\ StartFirst /\ StartWhole /\ CountsOwn

-----------------------------------------------------------------------------
(* What the steps leave alone.                                              *)

\* Sending changes nothing of what is remembered but the count of losses.
LEMMA SendGhost ==
  ASSUME TypeOK, NEW f, Send(f)
  PROVE  /\ ghost'.age = ghost.age /\ ghost'.dead = ghost.dead
         /\ ghost'.owner = ghost.owner /\ ghost'.mixed = ghost.mixed
BY DEF TypeOK, Send

\* A client works on its own state and on the link.
LEMMA ClientQuiet ==
  ASSUME TypeOK, NEW c \in Clients, ClientStep(c) \/ ClientInterrupt(c)
  PROVE  /\ UNCHANGED <<srv, running, stats, workers>>
         /\ ghost'.age = ghost.age /\ ghost'.dead = ghost.dead
         /\ ghost'.owner = ghost.owner /\ ghost'.mixed = ghost.mixed
<1>1. CASE ClientOpen(c) \/ ClientReceive(c) \/ ClientTimeout(c) \/ ClientInterrupt(c)
  BY <1>1 DEF ClientOpen, ClientReceive, ClientTimeout, ClientInterrupt
<1>2. CASE ClientRequest(c)
  <2>1. \E f : Send(f)  BY <1>2 DEF ClientRequest
  <2> QED  BY <1>2, <2>1, SendGhost DEF ClientRequest
<1>3. CASE ClientData(c)  BY <1>3, SendGhost DEF ClientData
<1> QED  BY <1>1, <1>2, <1>3 DEF ClientStep

\* The threads after an accepted ReqStart: the new one alone is fresh.
LEMMA StartWorkers ==
  ASSUME TypeOK, ServerStart, ~running
  PROVE  /\ Len(workers) + 1 \in DOMAIN workers' /\ workers'[Len(workers) + 1] = NewWorker
         /\ \A i \in DOMAIN workers' : workers'[i].fresh => workers'[i] = NewWorker
         /\ ghost'.age = 0 /\ ghost'.dead = FALSE /\ ghost'.mixed = FALSE
         /\ ghost'.owner = Head(toServer).from /\ ghost'.losses = ghost.losses
         /\ stats'.pkts = 0 /\ stats'.lastId = 0
<1> DEFINE old == [i \in 1 .. Len(workers) |-> [workers[i] EXCEPT !.fresh = FALSE]]
<1>1. workers \in Seq(Workers) /\ Len(workers) \in Nat  BY DEF TypeOK
<1>2. workers' = Append(old, NewWorker)  BY DEF ServerStart
<1>3. \A i \in 1 .. Len(workers) : workers[i] \in Workers  BY <1>1
<1>4. \A i \in 1 .. Len(workers) : old[i] \in Workers /\ old[i].fresh = FALSE
  BY <1>3 DEF Workers
<1>5. old \in Seq(Workers) /\ Len(old) = Len(workers)  BY <1>1, <1>4
<1>6. NewWorker \in Workers  BY Positive DEF NewWorker, Workers
<1> HIDE DEF old
<1>7. /\ DOMAIN workers' = 1 .. (Len(workers) + 1) /\ workers'[Len(workers) + 1] = NewWorker
      /\ \A i \in 1 .. Len(workers) : workers'[i] = old[i]
  BY <1>1, <1>2, <1>5, <1>6, AppendRest
<1>8. \A i \in DOMAIN workers' : workers'[i].fresh => workers'[i] = NewWorker
  BY <1>1, <1>4, <1>7
<1>9. /\ ghost'.age = 0 /\ ghost'.dead = FALSE /\ ghost'.mixed = FALSE
      /\ ghost'.owner = Head(toServer).from /\ ghost'.losses = ghost.losses
  BY DEF TypeOK, ServerStart
<1>10. stats'.pkts = 0 /\ stats'.lastId = 0  BY DEF ServerStart, NewStats, NoStats
<1> QED  BY <1>1, <1>7, <1>8, <1>9, <1>10

-----------------------------------------------------------------------------
(* The threads.                                                             *)

\* Every step of a client, the server or a statistics thread keeps the account of the
\* running test and its threads.
LEMMA ThreadStep == ThreadInv /\ [Next]_vars => ThreadInv'
<1> SUFFICES ASSUME ThreadInv, [Next]_vars PROVE ThreadInv'  OBVIOUS
<1>t. TypeOK /\ TypeOK'  BY NextTyped DEF ThreadInv
<1>g. SUFFICES FreshAge' /\ TestWatched'  BY <1>t DEF ThreadInv
<1>i. FreshAge /\ TestWatched  BY DEF ThreadInv
<1>w. /\ workers \in Seq(Workers) /\ Len(workers) \in Nat /\ DOMAIN workers = 1 .. Len(workers)
      /\ \A i \in DOMAIN workers : workers[i] \in Workers
  <2>1. workers \in Seq(Workers)  BY ONLY <1>t DEF TypeOK
  <2> QED  BY ONLY <2>1
<1>1. ASSUME NEW c \in Clients, ClientStep(c) \/ ClientInterrupt(c) PROVE FreshAge' /\ TestWatched'
  <2>1. UNCHANGED <<srv, running, workers>> /\ ghost'.age = ghost.age /\ ghost'.dead = ghost.dead
    BY <1>1, <1>t, ClientQuiet
  <2> QED  BY <1>i, <2>1 DEF FreshAge, TestWatched, Alive
<1>2. CASE ServerStart
  <2>1. CASE running  BY <1>2, <1>i, <2>1 DEF ServerStart, FreshAge, TestWatched, Alive
  <2>2. CASE ~running
    <3>1. NewWorker.fresh /\ NewWorker.age = 0  BY DEF NewWorker
    <3>2. /\ Len(workers) + 1 \in DOMAIN workers' /\ workers'[Len(workers) + 1] = NewWorker
          /\ \A i \in DOMAIN workers' : workers'[i].fresh => workers'[i] = NewWorker
          /\ ghost'.age = 0
      BY <1>2, <1>t, <2>2, StartWorkers
    <3> QED  BY <3>1, <3>2 DEF FreshAge, TestWatched
  <2> QED  BY <2>1, <2>2
<1>3. CASE ServerData
  <2>1. ghost'.age = ghost.age /\ ghost'.dead = ghost.dead  BY <1>3, <1>t DEF ServerData, TypeOK
  <2> QED  BY <1>3, <1>i, <2>1 DEF ServerData, FreshAge, TestWatched, Alive
<1>4. ASSUME NEW how \in {"closed", "panicked"}, Exit(how) PROVE FreshAge' /\ TestWatched'
  BY <1>4 DEF Exit, FreshAge, TestWatched, Alive
<1>5. CASE ServerEnd
  <2>1. CASE Exit("panicked")  BY <1>4, <2>1
  <2>2. CASE stats.duration # 0  BY <1>5, <1>i, <2>2 DEF ServerEnd, FreshAge, TestWatched, Alive
  <2> QED  BY <1>5, <2>1, <2>2 DEF ServerEnd
<1>6. CASE ServerClose  BY <1>4, <1>6 DEF ServerClose
<1>7. ASSUME NEW i \in 1 .. Len(workers), WorkerTest(i) PROVE FreshAge' /\ TestWatched'
  <2>1. CASE running
    <3>1. workers' = [workers EXCEPT ![i].pc = "asleep"] /\ UNCHANGED <<srv, running, ghost>>
      BY <1>7, <2>1 DEF WorkerTest
    <3>2. DOMAIN workers' = DOMAIN workers
          /\ \A j \in DOMAIN workers : /\ workers'[j].fresh = workers[j].fresh
                                       /\ workers'[j].age = workers[j].age
      BY <1>w, <3>1 DEF Workers
    <3> QED  BY <1>i, <3>1, <3>2 DEF FreshAge, TestWatched, Alive
  <2>2. CASE ~running
    <3>1. workers' = Remove(workers, i) /\ UNCHANGED <<srv, running, ghost>>
      BY <1>7, <2>2 DEF WorkerTest
    <3>2. \A j \in DOMAIN workers' : \E k \in DOMAIN workers : workers'[j] = workers[k]
      BY <1>w, <3>1, RemoveRest
    <3> QED  BY <1>i, <2>2, <3>1, <3>2 DEF FreshAge, TestWatched
  <2> QED  BY <2>1, <2>2
<1>8. ASSUME NEW i \in 1 .. Len(workers), WorkerReport(i) PROVE FreshAge' /\ TestWatched'
  <2>1. ghost'.age = ghost.age /\ UNCHANGED srv  BY <1>8, <1>t DEF WorkerReport, TypeOK
  <2>2. ASSUME workers' = Remove(workers, i),
               \/ running' = FALSE
               \/ /\ UNCHANGED running
                  /\ ghost' = [ghost EXCEPT !.dead = @ \/ (workers[i].fresh /\ running)]
        PROVE  FreshAge' /\ TestWatched'
    <3>r. workers' = Remove(workers, i)  BY <2>2
    <3>a. \A j \in DOMAIN workers' : \E k \in DOMAIN workers : workers'[j] = workers[k]
      BY <1>w, <3>r, RemoveRest
    <3>b. \A k \in DOMAIN workers \ {i} :
             \E j \in DOMAIN Remove(workers, i) : Remove(workers, i)[j] = workers[k]
      BY <1>w, RemoveRest
    <3>1. /\ \A j \in DOMAIN workers' : \E k \in DOMAIN workers : workers'[j] = workers[k]
          /\ \A k \in DOMAIN workers \ {i} : \E j \in DOMAIN workers' : workers'[j] = workers[k]
      BY <3>r, <3>a, <3>b
    <3>2. FreshAge'  BY <1>i, <2>1, <3>1 DEF FreshAge
    <3>3. CASE running' = FALSE  BY <3>2, <3>3 DEF TestWatched
    <3>4. CASE UNCHANGED running /\ ghost' = [ghost EXCEPT !.dead = @ \/ (workers[i].fresh /\ running)]
      <4>1. ghost'.dead = (ghost.dead \/ (workers[i].fresh /\ running))  BY <1>t, <3>4 DEF TypeOK
      <4>2. SUFFICES ASSUME running, Alive, ~ghost.dead, ~workers[i].fresh
                     PROVE  \E j \in DOMAIN workers' : workers'[j].fresh
        BY <2>1, <3>2, <3>4, <4>1 DEF TestWatched, Alive
      <4>3. PICK k \in DOMAIN workers : workers[k].fresh  BY <1>i, <4>2 DEF TestWatched
      <4> QED  BY <3>1, <4>2, <4>3
    <3> QED  BY <2>2, <3>3, <3>4
  <2>3. CASE workers' = [workers EXCEPT ![i] = NextLap(workers[i])] /\ UNCHANGED <<running, ghost>>
    <3>1. /\ DOMAIN workers' = DOMAIN workers
          /\ \A j \in DOMAIN workers : /\ workers'[j].fresh = workers[j].fresh
                                       /\ workers'[j].age = workers[j].age
      BY <1>w, <2>3 DEF Workers, NextLap
    <3> QED  BY <1>i, <2>1, <2>3, <3>1 DEF FreshAge, TestWatched, Alive
  <2> QED  BY <1>8, <2>2, <2>3 DEF WorkerReport, TestOver
<1>9. CASE Tick
  <2>1. /\ DOMAIN workers' = DOMAIN workers
        /\ \A j \in DOMAIN workers : /\ workers'[j].fresh = workers[j].fresh
                                     /\ workers'[j].age = Older(workers[j].age, AgeMax)
    BY <1>9, <1>w DEF Tick, Workers
  <2>2. ghost'.age = Older(ghost.age, AgeMax) /\ ghost'.dead = ghost.dead
    BY <1>9, <1>t DEF Tick, TypeOK
  <2>3. UNCHANGED <<running, srv>>  BY <1>9 DEF Tick
  <2>4. FreshAge'  BY <1>i, <2>1, <2>2 DEF FreshAge
  <2>5. TestWatched'  BY <1>i, <2>1, <2>2, <2>3 DEF TestWatched, Alive
  <2> QED  BY <2>4, <2>5
<1>10. CASE UNCHANGED vars  BY <1>10, <1>i DEF vars, FreshAge, TestWatched, Alive
<1> QED
  BY <1>1, <1>2, <1>3, <1>5, <1>6, <1>7, <1>8, <1>9, <1>10 DEF Next, ServerStep

\* A test is ended by a ReqEnd, by its own thread in time, or by a thread left over.
LEMMA EndKept ==
  ThreadInv /\ [Next]_vars =>
    (running /\ ~running' /\ Alive' => EndTaken \/ ghost.age > stats.duration \/ Stale)
<1> SUFFICES ASSUME ThreadInv, [Next]_vars, running, ~running', Alive'
             PROVE  EndTaken \/ ghost.age > stats.duration \/ Stale
  OBVIOUS
<1>1. ASSUME NEW c \in Clients, ClientStep(c) \/ ClientInterrupt(c) PROVE FALSE
  BY <1>1, ClientQuiet DEF ThreadInv
<1>2. CASE ServerStart  BY <1>2 DEF ServerStart
<1>3. CASE ServerData  BY <1>3 DEF ServerData
<1>4. CASE ServerEnd
  <2>1. ~Exit("panicked")  BY DEF Exit, Alive
  <2> QED  BY <1>4, <2>1 DEF ServerEnd, Got, EndTaken
<1>5. CASE ServerClose  BY <1>5 DEF ServerClose, Exit, Alive
<1>6. ASSUME NEW i \in 1 .. Len(workers), WorkerTest(i) PROVE FALSE  BY <1>6 DEF WorkerTest
<1>7. ASSUME NEW i \in 1 .. Len(workers), WorkerReport(i)
      PROVE  ghost.age > stats.duration \/ Stale
  <2>1. Expired(workers[i])  BY <1>7 DEF WorkerReport
  <2>2. i \in DOMAIN workers  BY DEF ThreadInv, TypeOK
  <2>3. CASE workers[i].fresh
    BY <2>1, <2>2, <2>3 DEF Expired, ThreadInv, FreshAge
  <2>4. CASE ~workers[i].fresh  BY <2>2, <2>4 DEF Stale
  <2> QED  BY <2>3, <2>4
<1>8. CASE Tick  BY <1>8 DEF Tick
<1>9. CASE UNCHANGED vars  BY <1>9 DEF vars
<1> QED  BY <1>1, <1>2, <1>3, <1>4, <1>5, <1>6, <1>7, <1>8, <1>9 DEF Next, ServerStep

-----------------------------------------------------------------------------
(* The order of the frames.                                                 *)

\* A client puts at most one frame into the server's socket, with its own id, and
\* counts upwards.
LEMMA ClientQueue ==
  ASSUME TypeOK, NEW c \in Clients, ClientStep(c) \/ ClientInterrupt(c)
  PROVE  /\ \A d \in Clients : client[d].id \in Nat /\ client'[d].id \in Nat
                              /\ client[d].id <= client'[d].id
         /\ \/ toServer' = toServer
            \/ \E f \in Frames : /\ toServer' = Append(toServer, f)
                                 /\ f.from = c /\ f.id = client[c].id
<1>t. client \in [Clients -> ClientType]  BY DEF TypeOK, ClientType, Pcs
<1>n. \A d \in Clients : client[d] \in ClientType /\ client[d].id \in Nat
  <2>1. \A d \in Clients : client[d] \in ClientType  BY <1>t
  <2> QED  BY <2>1, Positive DEF ClientType
<1>f. ASSUME NEW o \in {"ReqStart", "Data", "ReqEnd"}
      PROVE  Frame(c, o) \in Frames /\ Frame(c, o).from = c /\ Frame(c, o).id = client[c].id
  BY <1>t DEF Frame, Frames, ClientType
<1>s. ASSUME NEW f, Send(f) PROVE toServer' = toServer \/ toServer' = Append(toServer, f)
  BY <1>s DEF Send
<1>e. ASSUME NEW p PROVE Enter(client[c], p).id = client[c].id  BY <1>n DEF Enter, ClientType
<1>p. ASSUME NEW cl, Proceed(c, cl), cl.id = client[c].id
      PROVE  \A d \in Clients : client'[d].id = client[d].id
  BY <1>p, <1>t DEF Proceed
<1>1. CASE ClientOpen(c)
  <2>1. \A d \in Clients : client'[d].id = client[d].id  BY <1>1, <1>t, <1>n DEF ClientOpen, ClientType
  <2> QED  BY <1>1, <1>n, <2>1 DEF ClientOpen
<1>2. CASE ClientRequest(c)
  <2>1. PICK o \in {"ReqStart", "ReqEnd"}, w \in {"waitStart", "waitEnd"} :
          /\ Send(Frame(c, o))
          /\ client' = [client EXCEPT ![c].pc = w, ![c].timer = 0]
    BY <1>2 DEF ClientRequest
  <2>2. \A d \in Clients : client'[d].id = client[d].id  BY <1>t, <1>n, <2>1 DEF ClientType
  <2>3. toServer' = toServer \/ toServer' = Append(toServer, Frame(c, o))  BY <1>s, <2>1
  <2> QED  BY <1>n, <1>f, <2>2, <2>3
<1>3. CASE ClientReceive(c)
  <2>1. \A d \in Clients : client'[d].id = client[d].id  BY <1>3, <1>e, <1>p DEF ClientReceive
  <2> QED  BY <1>3, <1>n, <2>1 DEF ClientReceive
<1>4. CASE ClientTimeout(c)
  <2>1. AfterTimeout(client[c]).id = client[c].id  BY <1>e, <1>n DEF AfterTimeout, ClientType
  <2>2. \A d \in Clients : client'[d].id = client[d].id  BY <1>4, <1>p, <2>1 DEF ClientTimeout
  <2> QED  BY <1>4, <1>n, <2>2 DEF ClientTimeout
<1>5. CASE ClientData(c)
  <2>1. /\ [Enter(client[c], "reqEnd") EXCEPT !.id = @ + 1].id = client[c].id + 1
        /\ [client[c] EXCEPT !.id = @ + 1].id = client[c].id + 1
    BY <1>n DEF Enter, ClientType
  <2>2. client'[c].id = client[c].id + 1  BY <1>5, <1>t, <2>1 DEF ClientData
  <2>3. \A d \in Clients \ {c} : client'[d] = client[d]  BY <1>5, <1>t DEF ClientData
  <2>4. toServer' = toServer \/ toServer' = Append(toServer, Frame(c, "Data"))
    BY <1>5, <1>s DEF ClientData
  <2> QED  BY <1>n, <1>f, <2>2, <2>3, <2>4
<1>6. CASE ClientInterrupt(c)
  <2>1. [client[c] EXCEPT !.timer = client[c].dur + 1].id = client[c].id  BY <1>n DEF ClientType
  <2>2. \A d \in Clients : client'[d].id = client[d].id
    BY <1>6, <1>e, <1>p, <2>1 DEF ClientInterrupt
  <2> QED  BY <1>6, <1>n, <2>2 DEF ClientInterrupt
<1> QED  BY <1>1, <1>2, <1>3, <1>4, <1>5, <1>6 DEF ClientStep

\* Taking the first frame keeps the order.
LEMMA TakeOrder ==
  ASSUME TypeOK, QueueOrder, toServer # <<>>, toServer' = Tail(toServer), client' = client
  PROVE  QueueOrder'
<1>1. toServer \in Seq(Frames)  BY DEF TypeOK
<1>2. \A i \in DOMAIN toServer' :
         i \in Nat /\ i + 1 \in DOMAIN toServer /\ toServer'[i] = toServer[i + 1]
  BY <1>1, TailRest
<1>3. \A i, j \in DOMAIN toServer' : i < j => i + 1 < j + 1  BY <1>2
<1> QED  BY <1>2, <1>3 DEF QueueOrder

\* The ticking of clients' timers leaves their ids.
LEMMA TickIds ==
  ASSUME TypeOK, Tick
  PROVE  \A c \in Clients : client'[c].id = client[c].id /\ client'[c].pc = client[c].pc
<1> SUFFICES ASSUME NEW c \in Clients
             PROVE  client'[c].id = client[c].id /\ client'[c].pc = client[c].pc
  OBVIOUS
<1>1. client'[c] = [client[c] EXCEPT !.timer = Older(@, TimerMax(client[c]))]  BY DEF Tick
<1>2. client[c] \in ClientType  BY DEF TypeOK, ClientType, Pcs
<1> QED  BY ONLY <1>1, <1>2 DEF ClientType

\* Every step keeps the order of a client's Data, and last_id behind what still comes
\* from the client whose test the counters are.
LEMMA OrderStep == OrderInv /\ [Next]_vars => OrderInv'
<1> SUFFICES ASSUME OrderInv, [Next]_vars PROVE OrderInv'  OBVIOUS
<1>t. TypeOK /\ TypeOK' /\ ThreadInv'  BY ThreadStep DEF OrderInv, ThreadInv
<1>i. QueueOrder /\ Ahead /\ FreshNeverUnderflows  BY DEF OrderInv
<1>g. SUFFICES QueueOrder' /\ Ahead' /\ FreshNeverUnderflows'  BY <1>t DEF OrderInv
<1>q. /\ toServer \in Seq(Frames) /\ DOMAIN toServer = 1 .. Len(toServer) /\ Len(toServer) \in Nat
      /\ \A i \in DOMAIN toServer : toServer[i] \in Frames
  <2>1. toServer \in Seq(Frames)  BY ONLY <1>t DEF TypeOK
  <2> QED  BY ONLY <2>1
<1>w. /\ workers \in Seq(Workers) /\ Len(workers) \in Nat /\ DOMAIN workers = 1 .. Len(workers)
      /\ \A i \in DOMAIN workers : workers[i] \in Workers
  <2>1. workers \in Seq(Workers)  BY ONLY <1>t DEF TypeOK
  <2> QED  BY ONLY <2>1
<1>n. /\ \A i \in DOMAIN toServer : toServer[i].id \in Nat /\ toServer[i].from \in Clients
      /\ stats.lastId \in Nat /\ stats.pkts \in Nat
      /\ \A i \in DOMAIN workers : workers[i].lastId \in Nat /\ workers[i].lastPkts \in Nat
      /\ Nobody \notin Clients
  <2>1. \A i \in DOMAIN toServer : toServer[i].id \in Nat /\ toServer[i].from \in Clients
    <3> SUFFICES ASSUME NEW i \in DOMAIN toServer
                 PROVE  toServer[i].id \in Nat /\ toServer[i].from \in Clients
      OBVIOUS
    <3>1. PICK f : f = toServer[i]  OBVIOUS
    <3>2. f \in Frames  BY ONLY <1>q, <3>1, i \in DOMAIN toServer
    <3>3. DataMax \in Nat  BY ONLY Positive
    <3>4. f.id \in 0 .. DataMax /\ f.from \in Clients  BY ONLY <3>2 DEF Frames
    <3> QED  BY ONLY <3>1, <3>3, <3>4
  <2>2. stats.lastId \in Nat /\ stats.pkts \in Nat  BY <1>t, Positive DEF TypeOK
  <2>3. \A i \in DOMAIN workers : workers[i].lastId \in Nat /\ workers[i].lastPkts \in Nat
    BY <1>w, Positive DEF Workers
  <2>4. Nobody \notin Clients  BY DEF Nobody, Clients
  <2> QED  BY <2>1, <2>2, <2>3, <2>4
<1>1. ASSUME NEW c \in Clients, ClientStep(c) \/ ClientInterrupt(c)
      PROVE  QueueOrder' /\ Ahead' /\ FreshNeverUnderflows'
  <2>1. /\ UNCHANGED <<stats, workers>> /\ ghost'.owner = ghost.owner /\ ghost'.mixed = ghost.mixed
    BY <1>1, <1>t, ClientQuiet
  <2>2. \A d \in Clients : client[d].id \in Nat /\ client'[d].id \in Nat
                          /\ client[d].id <= client'[d].id
    BY <1>1, <1>t, ClientQueue
  <2>3. FreshNeverUnderflows'  BY <1>i, <2>1 DEF FreshNeverUnderflows, Underflow
  <2>4. CASE toServer' = toServer
    <3>1. QueueOrder'  BY <1>i, <1>n, <2>2, <2>4 DEF QueueOrder
    <3>2. Ahead'  BY <1>i, <1>n, <2>1, <2>2, <2>4 DEF Ahead
    <3> QED  BY <2>3, <3>1, <3>2
  <2>5. ASSUME NEW f \in Frames, toServer' = Append(toServer, f), f.from = c, f.id = client[c].id
        PROVE  QueueOrder' /\ Ahead'
    <3> DEFINE n == Len(toServer)
    <3>1. /\ DOMAIN toServer' = 1 .. (n + 1) /\ toServer'[n + 1] = f
          /\ \A k \in 1 .. n : toServer'[k] = toServer[k]
      BY <1>q, <2>5, AppendRest
    <3>2. ASSUME NEW i \in DOMAIN toServer', NEW j \in DOMAIN toServer', i < j,
                 IsData(toServer'[i]), IsData(toServer'[j]), toServer'[i].from = toServer'[j].from
          PROVE  toServer'[i].id <= toServer'[j].id
      <4>1. i \in 1 .. n /\ toServer'[i] = toServer[i]  BY <1>q, <3>1, <3>2
      <4>2. CASE j = n + 1
        <5>1. toServer'[j] = f  BY <3>1, <4>2
        <5>2. toServer[i].id <= client[c].id  BY <1>i, <1>q, <2>5, <3>2, <4>1, <5>1 DEF QueueOrder
        <5> QED  BY <2>5, <4>1, <5>1, <5>2
      <4>3. CASE j # n + 1
        <5>1. j \in 1 .. n /\ toServer'[j] = toServer[j]  BY <1>q, <3>1, <4>3
        <5> QED  BY <1>i, <1>q, <3>2, <4>1, <5>1 DEF QueueOrder
      <4> QED  BY <4>2, <4>3
    <3>3. ASSUME NEW i \in DOMAIN toServer', IsData(toServer'[i])
          PROVE  toServer'[i].id <= client'[toServer'[i].from].id
      <4>1. CASE i = n + 1  BY <2>2, <2>5, <3>1, <4>1
      <4>2. CASE i # n + 1
        <5>1. i \in DOMAIN toServer /\ toServer'[i] = toServer[i]  BY <1>q, <3>1, <4>2
        <5>2. toServer[i].id <= client[toServer[i].from].id  BY <1>i, <3>3, <5>1 DEF QueueOrder
        <5> QED  BY <1>n, <2>2, <5>1, <5>2
      <4> QED  BY <4>1, <4>2
    <3>4. QueueOrder'  BY <3>2, <3>3 DEF QueueOrder
    <3>5. Ahead'
      <4>1. SUFFICES ASSUME ~ghost.mixed
                     PROVE  /\ \A i \in DOMAIN toServer' :
                                 IsData(toServer'[i]) /\ toServer'[i].from = ghost.owner
                                    => stats.lastId <= toServer'[i].id
                            /\ ghost.owner \in Clients => stats.lastId <= client'[ghost.owner].id
        BY <2>1 DEF Ahead
      <4>2. ASSUME NEW i \in DOMAIN toServer', IsData(toServer'[i]), toServer'[i].from = ghost.owner
            PROVE  stats.lastId <= toServer'[i].id
        <5>1. CASE i = n + 1  BY <1>i, <2>5, <3>1, <4>1, <4>2, <5>1 DEF Ahead
        <5>2. CASE i # n + 1
          <6>1. i \in DOMAIN toServer /\ toServer'[i] = toServer[i]  BY <1>q, <3>1, <5>2
          <6> QED  BY <1>i, <4>1, <4>2, <6>1 DEF Ahead
        <5> QED  BY <5>1, <5>2
      <4>3. ghost.owner \in Clients => stats.lastId <= client'[ghost.owner].id
        BY <1>i, <1>n, <2>2, <4>1 DEF Ahead
      <4> QED  BY <4>2, <4>3
    <3> QED  BY <3>4, <3>5
  <2> QED  BY <1>1, <1>t, <2>3, <2>4, <2>5, ClientQueue
<1>2. CASE ServerStart
  <2>1. toServer # <<>> /\ toServer' = Tail(toServer) /\ client' = client
    BY <1>2 DEF ServerStart, Got
  <2>2. QueueOrder'  BY <1>i, <1>t, <2>1, TakeOrder
  <2>3. \A i \in DOMAIN toServer' :
           i \in Nat /\ i + 1 \in DOMAIN toServer /\ toServer'[i] = toServer[i + 1]
    BY <1>q, <2>1, TailRest
  <2>4. CASE running
    <3>1. UNCHANGED <<stats, workers, ghost>>  BY <1>2, <2>4 DEF ServerStart
    <3>2. Ahead'  BY <1>i, <2>1, <2>3, <3>1 DEF Ahead
    <3>3. FreshNeverUnderflows'  BY <1>i, <3>1 DEF FreshNeverUnderflows, Underflow
    <3> QED  BY <2>2, <3>2, <3>3
  <2>5. CASE ~running
    <3>1. /\ \A i \in DOMAIN workers' : workers'[i].fresh => workers'[i] = NewWorker
          /\ stats'.pkts = 0 /\ stats'.lastId = 0
      BY <1>2, <1>t, <2>5, StartWorkers
    <3>2. \A i \in DOMAIN toServer' : toServer'[i].id \in Nat  BY <1>n, <2>3
    <3>3. \A d \in Clients : client'[d].id \in Nat  BY <1>t, Positive DEF TypeOK
    <3>4. Ahead'  BY <3>1, <3>2, <3>3 DEF Ahead
    <3>5. NewWorker.lastId = 0 /\ NewWorker.lastPkts = 0  BY DEF NewWorker
    <3>6. FreshNeverUnderflows'  BY <3>1, <3>5 DEF FreshNeverUnderflows, Underflow
    <3> QED  BY <2>2, <3>4, <3>6
  <2> QED  BY <2>4, <2>5
<1>3. CASE ServerData
  <2> DEFINE f == Head(toServer)
  <2>1. /\ toServer # <<>> /\ toServer' = Tail(toServer) /\ client' = client /\ IsData(f)
        /\ UNCHANGED workers
    BY <1>3 DEF ServerData, Got, IsData
  <2>2. QueueOrder'  BY <1>i, <1>t, <2>1, TakeOrder
  <2>3. \A i \in DOMAIN toServer' :
           i \in Nat /\ i + 1 \in DOMAIN toServer /\ toServer'[i] = toServer[i + 1]
    BY <1>q, <2>1, TailRest
  <2>4. f = toServer[1] /\ 1 \in DOMAIN toServer  BY <1>q, <2>1, TailRest
  <2>5. /\ ghost'.mixed = (ghost.mixed \/ f.from # ghost.owner) /\ ghost'.owner = ghost.owner
        /\ stats'.lastId = f.id /\ stats'.pkts = stats.pkts + 1
    BY <1>3, <1>t DEF ServerData, Counted, TypeOK
  <2> HIDE DEF f
  <2>6. CASE ghost'.mixed  BY <2>2, <2>6 DEF Ahead, FreshNeverUnderflows
  <2>7. CASE ~ghost'.mixed
    <3>1. ~ghost.mixed /\ f.from = ghost.owner  BY <2>5, <2>7
    <3>2. stats.lastId <= f.id  BY <1>i, <2>1, <2>4, <3>1 DEF Ahead
    <3>3. ASSUME NEW i \in DOMAIN toServer', IsData(toServer'[i]), toServer'[i].from = ghost.owner
          PROVE  f.id <= toServer'[i].id
      <4>1. i + 1 \in DOMAIN toServer /\ 1 < i + 1 /\ toServer'[i] = toServer[i + 1]
        BY <1>t, <1>q, <2>3
      <4> QED  BY <1>i, <2>1, <2>4, <3>1, <3>3, <4>1 DEF QueueOrder
    <3>4. f.id <= client'[ghost.owner].id  BY <1>i, <2>1, <2>4, <3>1 DEF QueueOrder
    <3>5. Ahead'  BY <2>5, <3>3, <3>4 DEF Ahead
    <3>6. f.id \in Nat  BY <1>n, <2>4
    <3>7. ASSUME NEW i \in DOMAIN workers, workers[i].fresh
          PROVE  ~(stats'.pkts < workers[i].lastPkts \/ stats'.lastId < workers[i].lastId)
      <4>1. ~(stats.pkts < workers[i].lastPkts \/ stats.lastId < workers[i].lastId)
        BY <1>i, <3>1, <3>7 DEF FreshNeverUnderflows, Underflow
      <4> QED  BY <1>n, <2>5, <3>2, <3>6, <4>1
    <3>8. FreshNeverUnderflows'  BY <2>1, <3>7 DEF FreshNeverUnderflows, Underflow
    <3> QED  BY <2>2, <3>5, <3>8
  <2> QED  BY <2>6, <2>7
<1>4. ASSUME NEW how \in {"closed", "panicked"}, Exit(how)
      PROVE  QueueOrder' /\ Ahead' /\ FreshNeverUnderflows'
  <2>1. /\ toServer' = <<>> /\ workers' = <<>> /\ ghost'.owner = Nobody
    BY <1>4 DEF Exit, Remembered
  <2> QED  BY <1>n, <2>1 DEF QueueOrder, Ahead, FreshNeverUnderflows
<1>5. CASE ServerEnd
  <2>1. CASE Exit("panicked")  BY <1>4, <2>1
  <2>2. CASE stats.duration # 0
    <3>1. /\ toServer # <<>> /\ toServer' = Tail(toServer) /\ client' = client
          /\ UNCHANGED <<stats, workers, ghost>>
      BY <1>5, <2>2 DEF ServerEnd, Got
    <3>2. QueueOrder'  BY <1>i, <1>t, <3>1, TakeOrder
    <3>3. \A i \in DOMAIN toServer' :
             i \in Nat /\ i + 1 \in DOMAIN toServer /\ toServer'[i] = toServer[i + 1]
      BY <1>q, <3>1, TailRest
    <3>4. Ahead'  BY <1>i, <3>1, <3>3 DEF Ahead
    <3>5. FreshNeverUnderflows'  BY <1>i, <3>1 DEF FreshNeverUnderflows, Underflow
    <3> QED  BY <3>2, <3>4, <3>5
  <2> QED  BY <1>5, <2>1, <2>2 DEF ServerEnd
<1>6. CASE ServerClose  BY <1>4, <1>6 DEF ServerClose
<1>7. ASSUME NEW i \in 1 .. Len(workers), WorkerTest(i) \/ WorkerReport(i)
      PROVE  QueueOrder' /\ Ahead' /\ FreshNeverUnderflows'
  <2>1. /\ UNCHANGED <<client, toServer, stats>>
        /\ ghost'.owner = ghost.owner /\ ghost'.mixed = ghost.mixed
    BY <1>7, <1>t DEF WorkerTest, WorkerReport, TypeOK
  <2>2. QueueOrder' /\ Ahead'  BY <1>i, <2>1 DEF QueueOrder, Ahead
  <2>3. CASE workers' = Remove(workers, i)
    <3>1. \A j \in DOMAIN workers' : \E k \in DOMAIN workers : workers'[j] = workers[k]
      BY <1>w, <2>3, RemoveRest
    <3> QED  BY <1>i, <2>1, <2>2, <3>1 DEF FreshNeverUnderflows, Underflow
  <2>4. CASE workers' = [workers EXCEPT ![i].pc = "asleep"]
    <3>1. /\ DOMAIN workers' = DOMAIN workers
          /\ \A j \in DOMAIN workers : /\ workers'[j].fresh = workers[j].fresh
                                       /\ workers'[j].lastId = workers[j].lastId
                                       /\ workers'[j].lastPkts = workers[j].lastPkts
      BY <1>w, <2>4 DEF Workers
    <3> QED  BY <1>i, <2>1, <2>2, <3>1 DEF FreshNeverUnderflows, Underflow
  <2>5. CASE workers' = [workers EXCEPT ![i] = NextLap(workers[i])]
    <3>1. /\ DOMAIN workers' = DOMAIN workers
          /\ \A j \in DOMAIN workers \ {i} : workers'[j] = workers[j]
          /\ workers'[i].lastId = stats.lastId /\ workers'[i].lastPkts = stats.pkts
      BY <1>w, <2>5 DEF Workers, NextLap
    <3> QED  BY <1>i, <1>n, <2>1, <2>2, <3>1 DEF FreshNeverUnderflows, Underflow
  <2> QED  BY <1>7, <2>3, <2>4, <2>5 DEF WorkerTest, WorkerReport
<1>8. CASE Tick
  <2>1. /\ UNCHANGED <<toServer, stats>>
        /\ ghost'.owner = ghost.owner /\ ghost'.mixed = ghost.mixed
        /\ \A c \in Clients : client'[c].id = client[c].id
    BY <1>8, <1>t, TickIds DEF Tick, TypeOK
  <2>2. /\ DOMAIN workers' = DOMAIN workers
        /\ \A j \in DOMAIN workers : /\ workers'[j].fresh = workers[j].fresh
                                     /\ workers'[j].lastId = workers[j].lastId
                                     /\ workers'[j].lastPkts = workers[j].lastPkts
    BY <1>8, <1>w DEF Tick, Workers
  <2>3. QueueOrder' /\ Ahead'  BY <1>i, <1>n, <2>1 DEF QueueOrder, Ahead
  <2>4. FreshNeverUnderflows'  BY <1>i, <2>1, <2>2 DEF FreshNeverUnderflows, Underflow
  <2> QED  BY <2>3, <2>4
<1>9. CASE UNCHANGED vars
  BY <1>9, <1>i DEF vars, QueueOrder, Ahead, FreshNeverUnderflows, Underflow
<1> QED  BY <1>1, <1>2, <1>3, <1>5, <1>6, <1>7, <1>8, <1>9 DEF Next, ServerStep

-----------------------------------------------------------------------------
(* The counts.                                                              *)

Early == {"off", "reqStart", "waitStart"}

\* The Data of a client in a socket is a finite number of frames.
LEMMA PositionsFinite ==
  ASSUME NEW q \in Seq(Frames), NEW c
  PROVE  IsFiniteSet(Positions(q, c)) /\ Cardinality(Positions(q, c)) \in Nat
<1>1. DOMAIN q = 1 .. Len(q) /\ Len(q) \in Nat  OBVIOUS
<1>2. IsFiniteSet(1 .. Len(q))  BY <1>1, FS_Interval
<1>3. Positions(q, c) \subseteq 1 .. Len(q)  BY <1>1 DEF Positions
<1>4. IsFiniteSet(Positions(q, c))  BY <1>2, <1>3, FS_Subset
<1> QED  BY <1>4, FS_CardinalityType

\* Taking the first frame takes one from the count of its client.
LEMMA PositionsTail ==
  ASSUME NEW q \in Seq(Frames), q # <<>>, NEW c
  PROVE  /\ Head(q).op = "Data" /\ Head(q).from = c =>
              Cardinality(Positions(q, c)) = Cardinality(Positions(Tail(q), c)) + 1
         /\ ~(Head(q).op = "Data" /\ Head(q).from = c) =>
              Cardinality(Positions(q, c)) = Cardinality(Positions(Tail(q), c))
<1> DEFINE p == Positions(q, c)
           r == Positions(Tail(q), c)
           g == [i \in p \ {1} |-> i - 1]
<1>1. /\ Tail(q) \in Seq(Frames) /\ Head(q) = q[1] /\ 1 \in DOMAIN q
      /\ \A i \in DOMAIN Tail(q) : i \in Nat /\ i + 1 \in DOMAIN q /\ Tail(q)[i] = q[i + 1]
      /\ \A i \in DOMAIN q \ {1} : i - 1 \in DOMAIN Tail(q) /\ Tail(q)[i - 1] = q[i]
  BY TailRest
<1>d. /\ DOMAIN q \subseteq Nat /\ \A i \in DOMAIN Tail(q) : i >= 1
  <2>1. DOMAIN Tail(q) = 1 .. Len(Tail(q)) /\ DOMAIN q = 1 .. Len(q)  BY <1>1
  <2>2. Len(q) \in Nat /\ Len(Tail(q)) \in Nat  BY <1>1
  <2> QED  BY <2>1, <2>2
<1>2. IsFiniteSet(p) /\ IsFiniteSet(r) /\ Cardinality(p) \in Nat /\ Cardinality(r) \in Nat
  BY <1>1, PositionsFinite
<1>3. p \subseteq Nat  BY <1>d DEF Positions
<1>4. \A i \in p \ {1} : i - 1 \in r  BY <1>1 DEF Positions
<1>5. \A k \in r : k \in Nat /\ k >= 1 /\ k + 1 \in p /\ k + 1 # 1 /\ (k + 1) - 1 = k
  BY <1>1, <1>d DEF Positions
<1>6. 1 \in p <=> Head(q).op = "Data" /\ Head(q).from = c  BY <1>1 DEF Positions
<1> HIDE DEF p, r
<1>7. g \in [p \ {1} -> r]  BY <1>4
<1>8. \A i, j \in p \ {1} : g[i] = g[j] => i = j  BY <1>3
<1>9. \A k \in r : \E i \in p \ {1} : g[i] = k
  <2> TAKE k \in r
  <2>1. k + 1 \in p \ {1} /\ g[k + 1] = k  BY <1>5
  <2> QED  BY <2>1
<1>10. ExistsBijection(p \ {1}, r)
  <2> HIDE DEF g
  <2>1. DOMAIN g = p \ {1}  BY <1>7
  <2>2. g \in Injection(p \ {1}, r)  BY <1>7, <1>8, <2>1 DEF Injection, IsInjective
  <2>3. g \in Surjection(p \ {1}, r)  BY <1>7, <1>9 DEF Surjection
  <2> QED  BY <2>2, <2>3 DEF ExistsBijection, Bijection
<1>11. /\ IsFiniteSet(p \ {1})
       /\ Cardinality(p \ {1}) = IF 1 \in p THEN Cardinality(p) - 1 ELSE Cardinality(p)
  BY <1>2, FS_RemoveElement
<1>12. Cardinality(r) = Cardinality(p \ {1})  BY <1>10, <1>11, FS_Bijection
<1>13. CASE 1 \in p  BY <1>2, <1>6, <1>11, <1>12, <1>13 DEF p, r
<1>14. CASE 1 \notin p  BY <1>2, <1>6, <1>11, <1>12, <1>14 DEF p, r
<1> QED  BY <1>13, <1>14

\* A Data frame behind the others adds one to the count of its client.
LEMMA PositionsAppend ==
  ASSUME NEW q \in Seq(Frames), NEW f \in Frames, NEW c
  PROVE  /\ f.op = "Data" /\ f.from = c =>
              Cardinality(Positions(Append(q, f), c)) = Cardinality(Positions(q, c)) + 1
         /\ ~(f.op = "Data" /\ f.from = c) => Positions(Append(q, f), c) = Positions(q, c)
<1>1. /\ Len(q) \in Nat /\ DOMAIN q = 1 .. Len(q) /\ DOMAIN Append(q, f) = 1 .. (Len(q) + 1)
      /\ Append(q, f)[Len(q) + 1] = f
      /\ \A i \in DOMAIN q : Append(q, f)[i] = q[i]
  BY AppendRest
<1>2. \A i \in 1 .. (Len(q) + 1) : i \in 1 .. Len(q) \/ i = Len(q) + 1  BY <1>1
<1>3. Len(q) + 1 \notin 1 .. Len(q) /\ Len(q) + 1 \in 1 .. (Len(q) + 1)
      /\ 1 .. Len(q) \subseteq 1 .. (Len(q) + 1)
  BY <1>1
<1>4. CASE f.op = "Data" /\ f.from = c
  <2>1. Positions(Append(q, f), c) = Positions(q, c) \cup {Len(q) + 1}
    BY <1>1, <1>2, <1>3, <1>4 DEF Positions
  <2>2. Len(q) + 1 \notin Positions(q, c)  BY <1>1, <1>3 DEF Positions
  <2>3. IsFiniteSet(Positions(q, c))  BY PositionsFinite
  <2>4. Cardinality(Positions(q, c) \cup {Len(q) + 1}) = Cardinality(Positions(q, c)) + 1
    BY <2>2, <2>3, FS_AddElement
  <2> QED  BY <1>4, <2>1, <2>4
<1>5. CASE ~(f.op = "Data" /\ f.from = c)
  <2>1. Positions(Append(q, f), c) = Positions(q, c)
    BY <1>1, <1>2, <1>3, <1>5 DEF Positions
  <2> QED  BY <1>5, <2>1
<1> QED  BY <1>4, <1>5

\* A frame that is not counted as lost is in the socket.
LEMMA SendNoLoss ==
  ASSUME TypeOK, NEW f, Send(f), Alive, ghost'.losses = 0
  PROVE  toServer' = Append(toServer, f) /\ ghost.losses = 0
<1>1. ghost.losses \in Nat /\ ghost.losses <= LostMax  BY Positive DEF TypeOK
<1>2. Older(ghost.losses, LostMax) # 0  BY <1>1, Positive DEF Older
<1>3. ASSUME ghost' = [ghost EXCEPT !.losses = Older(@, LostMax)] PROVE FALSE
  <2>1. ghost'.losses = Older(ghost.losses, LostMax)  BY <1>3 DEF TypeOK
  <2> QED  BY <1>2, <2>1
<1> QED  BY <1>3 DEF Send

\* The conjuncts of CountInv besides the types.
Counts == StartFirst /\ StartWhole /\ CountsOwn

\* A step that moves no frame and counts nothing keeps the counts.
LEMMA CountQuiet ==
  ASSUME TypeOK, Counts, UNCHANGED <<toServer, srv, stats>>,
         ghost'.owner = ghost.owner, ghost'.mixed = ghost.mixed, ghost'.losses = ghost.losses,
         \A d \in Clients : /\ client'[d].id = client[d].id
                            /\ client'[d].pc \in Early => client[d].pc \in Early
  PROVE  Counts'
<1>1. StartFirst'  BY DEF Counts, StartFirst, Early
<1>2. StartWhole'  BY DEF Counts, StartWhole, Alive
<1>3. CountsOwn'  BY DEF Counts, CountsOwn, Alive, InFlight
<1> QED  BY <1>1, <1>2, <1>3 DEF Counts

\* The server takes a frame: what concerns the frames alone.
LEMMA CountTake ==
  ASSUME TypeOK, Counts, toServer # <<>>, toServer' = Tail(toServer), client' = client,
         srv' = srv, ghost'.losses = ghost.losses
  PROVE  StartFirst' /\ StartWhole'
<1>q. toServer \in Seq(Frames)  BY DEF TypeOK
<1>1. /\ Head(toServer) = toServer[1] /\ 1 \in DOMAIN toServer
      /\ \A i \in DOMAIN toServer' :
           i \in Nat /\ i + 1 \in DOMAIN toServer /\ toServer'[i] = toServer[i + 1]
  BY <1>q, TailRest
<1>2. \A i \in DOMAIN toServer' : i >= 1
  <2>1. Tail(toServer) \in Seq(Frames)  BY <1>q, TailRest
  <2>2. DOMAIN Tail(toServer) = 1 .. Len(Tail(toServer)) /\ Len(Tail(toServer)) \in Nat  BY <2>1
  <2> QED  BY <2>2
<1>3. \A i, j \in DOMAIN toServer' : i < j => i + 1 < j + 1  BY <1>1
<1>4. StartFirst'
  <2>1. \A i, j \in DOMAIN toServer' :
          i < j /\ IsData(toServer'[i]) /\ toServer'[j].op = "ReqStart"
              => toServer'[i].from # toServer'[j].from
    BY <1>1, <1>3 DEF Counts, StartFirst
  <2>2. \A c : \A i \in Positions(toServer', c) : i + 1 \in Positions(toServer, c)
    BY <1>1 DEF Positions
  <2>3. \A c \in Clients : client'[c].pc \in {"off", "reqStart", "waitStart"} =>
              client'[c].id = 0 /\ Positions(toServer', c) = {}
    BY <2>2 DEF Counts, StartFirst
  <2> QED  BY <2>1, <2>3 DEF StartFirst
<1>5. StartWhole'
  <2>1. SUFFICES ASSUME Alive, ghost.losses = 0, NEW c \in Clients, NEW i \in DOMAIN toServer',
                        toServer'[i].op = "ReqStart", toServer'[i].from = c
                 PROVE  client[c].id = Cardinality(Positions(toServer', c))
    BY DEF StartWhole, Alive
  <2>2. i + 1 \in DOMAIN toServer /\ toServer'[i] = toServer[i + 1] /\ 1 < i + 1
    BY <1>1, <1>2
  <2>3. client[c].id = Cardinality(Positions(toServer, c))
    BY <2>1, <2>2 DEF Counts, StartWhole
  <2>4. ~(Head(toServer).op = "Data" /\ Head(toServer).from = c)
    BY <1>1, <2>1, <2>2 DEF Counts, StartFirst, IsData
  <2> QED  BY <1>q, <2>3, <2>4, PositionsTail
<1> QED  BY <1>4, <1>5

\* Every step keeps the count: what the server has counted and what still waits in its
\* queue is what the client has sent, unless a frame was lost.
LEMMA CountStep == CountInv /\ [Next]_vars => CountInv'
<1> SUFFICES ASSUME CountInv, [Next]_vars PROVE CountInv'  OBVIOUS
<1>t. TypeOK /\ TypeOK'  BY NextTyped DEF CountInv
<1>i. Counts  BY DEF CountInv, Counts
<1>g. SUFFICES Counts'  BY <1>t DEF CountInv, Counts
<1>q. /\ toServer \in Seq(Frames) /\ DOMAIN toServer = 1 .. Len(toServer) /\ Len(toServer) \in Nat
  BY <1>t DEF TypeOK
<1>c. /\ client \in [Clients -> ClientType] /\ \A d \in Clients : client[d] \in ClientType
  BY <1>t DEF TypeOK, ClientType, Pcs
<1>p. \A d : Positions(toServer, d) = InFlight(d) /\ Positions(toServer', d) = InFlight(d)'
  BY DEF Positions, InFlight
<1>n. ASSUME NEW c \in Clients, NEW cl, Proceed(c, cl), cl.id = client[c].id,
             cl.pc \in Early => client[c].pc \in Early
      PROVE  \A d \in Clients : /\ client'[d].id = client[d].id
                                /\ client'[d].pc \in Early => client[d].pc \in Early
  BY <1>n, <1>c DEF Proceed
<1>e. ASSUME NEW c \in Clients, NEW p
      PROVE  Enter(client[c], p).id = client[c].id /\ Enter(client[c], p).pc = p
  BY <1>c DEF Enter, ClientType
<1>1. ASSUME NEW c \in Clients, ClientOpen(c) PROVE Counts'
  <2>1. \A d \in Clients : /\ client'[d].id = client[d].id
                           /\ client'[d].pc \in Early => client[d].pc \in Early
    BY <1>1, <1>c DEF ClientOpen, ClientType, Early
  <2> QED  BY <1>1, <1>i, <1>t, <2>1, CountQuiet DEF ClientOpen
<1>2. ASSUME NEW c \in Clients, ClientReceive(c) PROVE Counts'
  <2>1. NextPc(client[c].pc) \notin Early  BY <1>2 DEF ClientReceive, NextPc, Early
  <2>2. \A d \in Clients : /\ client'[d].id = client[d].id
                           /\ client'[d].pc \in Early => client[d].pc \in Early
    BY <1>2, <1>e, <1>n, <2>1 DEF ClientReceive
  <2> QED  BY <1>2, <1>i, <1>t, <2>2, CountQuiet DEF ClientReceive
<1>3. ASSUME NEW c \in Clients, ClientTimeout(c) PROVE Counts'
  <2>1. client[c].pc \in {"waitStart", "waitEnd"}  BY <1>3 DEF ClientTimeout
  <2>2. AfterTimeout(client[c]).id = client[c].id  BY <1>c, <1>e DEF AfterTimeout, ClientType
  <2>3. AfterTimeout(client[c]).pc \in Early => client[c].pc \in Early
    <3>1. NextPc(client[c].pc) \notin Early  BY <2>1 DEF NextPc, Early
    <3>2. AgainPc(client[c].pc) \in Early => client[c].pc \in Early  BY <2>1 DEF AgainPc, Early
    <3>3. AfterTimeout(client[c]).pc \in {AgainPc(client[c].pc), NextPc(client[c].pc)}
      BY <1>c, <1>e DEF AfterTimeout, ClientType
    <3> QED  BY <3>1, <3>2, <3>3
  <2>4. \A d \in Clients : /\ client'[d].id = client[d].id
                           /\ client'[d].pc \in Early => client[d].pc \in Early
    BY <1>3, <1>n, <2>2, <2>3 DEF ClientTimeout
  <2> QED  BY <1>3, <1>i, <1>t, <2>4, CountQuiet DEF ClientTimeout
<1>4. ASSUME NEW c \in Clients, ClientInterrupt(c) PROVE Counts'
  <2>1. CASE Proceed(c, Enter(client[c], "killed"))
    <3>1. \A d \in Clients : /\ client'[d].id = client[d].id
                             /\ client'[d].pc \in Early => client[d].pc \in Early
      BY <1>e, <1>n, <2>1 DEF Early
    <3> QED  BY <1>4, <1>i, <1>t, <3>1, CountQuiet DEF ClientInterrupt
  <2>2. CASE Proceed(c, [client[c] EXCEPT !.timer = client[c].dur + 1])
    <3>1. /\ [client[c] EXCEPT !.timer = client[c].dur + 1].id = client[c].id
          /\ [client[c] EXCEPT !.timer = client[c].dur + 1].pc = client[c].pc
      BY <1>c DEF ClientType
    <3>2. \A d \in Clients : /\ client'[d].id = client[d].id
                             /\ client'[d].pc \in Early => client[d].pc \in Early
      BY <1>n, <2>2, <3>1
    <3> QED  BY <1>4, <1>i, <1>t, <3>2, CountQuiet DEF ClientInterrupt
  <2> QED  BY <1>4, <2>1, <2>2 DEF ClientInterrupt
\* A frame of c is sent: o, with the id of c before the step.
<1>s. ASSUME NEW c \in Clients, NEW o \in {"ReqStart", "Data", "ReqEnd"}, Send(Frame(c, o)),
             UNCHANGED <<srv, stats>>,
             \A d \in Clients \ {c} : client'[d] = client[d],
             client'[c].id = IF o = "Data" THEN client[c].id + 1 ELSE client[c].id,
             client'[c].pc \in Early => client[c].pc \in Early /\ o # "Data",
             o = "ReqStart" => client[c].pc \in Early
      PROVE  Counts'
  <2> DEFINE f == Frame(c, o)
             n == Len(toServer)
  <2>1. f \in Frames /\ f.op = o /\ f.from = c  BY <1>c DEF Frame, Frames, ClientType
  <2>2. toServer' = toServer \/ toServer' = Append(toServer, f)  BY <1>s DEF Send
  <2>3. ghost'.owner = ghost.owner /\ ghost'.mixed = ghost.mixed  BY <1>s, <1>t, SendGhost
  <2>4. Alive /\ ghost'.losses = 0 => toServer' = Append(toServer, f) /\ ghost.losses = 0
    BY <1>s, <1>t, SendNoLoss
  <2> HIDE DEF f
  <2>5. StartFirst'
    <3>1. ASSUME NEW d \in Clients, client'[d].pc \in Early
          PROVE  client'[d].id = 0 /\ Positions(toServer', d) = {}
      <4>1. client[d].pc \in Early /\ client'[d].id = client[d].id /\ ~(o = "Data" /\ c = d)
        BY <1>s, <3>1
      <4>2. client[d].id = 0 /\ Positions(toServer, d) = {}
        BY <1>i, <4>1 DEF Counts, StartFirst, Early
      <4>3. Positions(toServer', d) = Positions(toServer, d)
        BY <1>q, <2>1, <2>2, <4>1, PositionsAppend
      <4> QED  BY <4>1, <4>2, <4>3
    <3>2. CASE toServer' = toServer  BY <1>i, <3>1, <3>2 DEF Counts, StartFirst, Early
    <3>3. CASE toServer' = Append(toServer, f)
      <4>1. /\ DOMAIN toServer' = 1 .. (n + 1) /\ toServer'[n + 1] = f
            /\ \A k \in 1 .. n : toServer'[k] = toServer[k]
        BY <1>q, <2>1, <3>3, AppendRest
      <4>2. ASSUME NEW i \in DOMAIN toServer', NEW j \in DOMAIN toServer', i < j,
                   IsData(toServer'[i]), toServer'[j].op = "ReqStart"
            PROVE  toServer'[i].from # toServer'[j].from
        <5>1. i \in 1 .. n /\ toServer'[i] = toServer[i]  BY <1>q, <4>1, <4>2
        <5>2. CASE j = n + 1
          <6>1. toServer'[j] = f /\ o = "ReqStart"  BY <2>1, <4>1, <4>2, <5>2
          <6>2. Positions(toServer, c) = {}  BY <1>i, <1>s, <6>1 DEF Counts, StartFirst, Early
          <6>3. toServer[i].from # c  BY <1>q, <4>2, <5>1, <6>2 DEF Positions, IsData
          <6> QED  BY <2>1, <5>1, <6>1, <6>3
        <5>3. CASE j # n + 1
          <6>1. j \in 1 .. n /\ toServer'[j] = toServer[j]  BY <1>q, <4>1, <5>3
          <6> QED  BY <1>i, <1>q, <4>2, <5>1, <6>1 DEF Counts, StartFirst
        <5> QED  BY <5>2, <5>3
      <4> QED  BY <3>1, <4>2 DEF StartFirst, Early
    <3> QED  BY <2>2, <3>2, <3>3
  <2>6. ASSUME Alive, ghost'.losses = 0, NEW d \in Clients, client[d].id \in Nat
        PROVE  /\ ghost.losses = 0
               /\ \A k \in Nat : client[d].id = k + Cardinality(Positions(toServer, d)) =>
                                  client'[d].id = k + Cardinality(Positions(toServer', d))
    <3>1. toServer' = Append(toServer, f) /\ ghost.losses = 0  BY <2>4, <2>6
    <3>2. Cardinality(Positions(toServer, d)) \in Nat  BY <1>q, PositionsFinite
    <3>3. CASE d = c /\ o = "Data"
      <4>1. Cardinality(Positions(toServer', d)) = Cardinality(Positions(toServer, d)) + 1
        BY <1>q, <2>1, <3>1, <3>3, PositionsAppend
      <4> QED  BY <1>s, <2>6, <3>1, <3>2, <3>3, <4>1
    <3>4. CASE ~(d = c /\ o = "Data")
      <4>1. Positions(toServer', d) = Positions(toServer, d)
        BY <1>q, <2>1, <3>1, <3>4, PositionsAppend
      <4>2. client'[d].id = client[d].id  BY <1>s, <3>4
      <4> QED  BY <3>1, <4>1, <4>2
    <3> QED  BY <3>3, <3>4
  <2>7. \A d \in Clients : client[d].id \in Nat  BY <1>c, Positive DEF ClientType
  <2>8. StartWhole'
    <3>1. SUFFICES ASSUME Alive, ghost'.losses = 0, NEW d \in Clients, NEW i \in DOMAIN toServer',
                          toServer'[i].op = "ReqStart", toServer'[i].from = d
                   PROVE  client'[d].id = Cardinality(Positions(toServer', d))
      BY <1>s DEF StartWhole, Alive
    <3>2. toServer' = Append(toServer, f) /\ ghost.losses = 0  BY <2>4, <3>1
    <3>3. Cardinality(Positions(toServer, d)) \in Nat /\ Cardinality(Positions(toServer', d)) \in Nat
      <4>1. toServer' \in Seq(Frames)  BY <1>t DEF TypeOK
      <4> QED  BY <1>q, <4>1, PositionsFinite
    <3>4. client[d].id = Cardinality(Positions(toServer, d))
      <4>1. /\ DOMAIN toServer' = 1 .. (n + 1) /\ toServer'[n + 1] = f
            /\ \A k \in 1 .. n : toServer'[k] = toServer[k]
        BY <1>q, <2>1, <3>2, AppendRest
      <4>2. CASE i = n + 1
        <5>1. d = c /\ o = "ReqStart"  BY <2>1, <3>1, <4>1, <4>2
        <5>2. client[c].id = 0 /\ Positions(toServer, c) = {}
          BY <1>i, <1>s, <5>1 DEF Counts, StartFirst, Early
        <5> QED  BY <5>1, <5>2, FS_EmptySet
      <4>3. CASE i # n + 1
        <5>1. i \in DOMAIN toServer /\ toServer'[i] = toServer[i]  BY <1>q, <4>1, <4>3
        <5> QED  BY <1>i, <3>1, <3>2, <5>1 DEF Counts, StartWhole
      <4> QED  BY <4>2, <4>3
    <3>5. \A k \in Nat : client[d].id = k + Cardinality(Positions(toServer, d)) =>
                         client'[d].id = k + Cardinality(Positions(toServer', d))
      BY <2>6, <2>7, <3>1
    <3> QED  BY <3>3, <3>4, <3>5
  <2>9. CountsOwn'
    <3>1. SUFFICES ASSUME NEW d \in Clients, Alive, ghost.owner = d, ~ghost.mixed,
                          ghost'.losses = 0
                   PROVE  client'[d].id = stats.pkts + Cardinality(Positions(toServer', d))
      BY <1>s, <1>p, <2>3 DEF CountsOwn, Alive
    <3>2. ghost.losses = 0  BY <2>6, <2>7, <3>1
    <3>3. client[d].id = stats.pkts + Cardinality(Positions(toServer, d))
      BY <1>i, <1>p, <3>1, <3>2 DEF Counts, CountsOwn
    <3>4. stats.pkts \in Nat  BY <1>t DEF TypeOK
    <3> QED  BY <2>6, <2>7, <3>1, <3>3, <3>4
  <2> QED  BY <2>5, <2>8, <2>9 DEF Counts
<1>5. ASSUME NEW c \in Clients, ClientRequest(c) PROVE Counts'
  <2>1. CASE /\ client[c].pc = "reqStart" /\ Send(Frame(c, "ReqStart"))
             /\ client' = [client EXCEPT ![c].pc = "waitStart", ![c].timer = 0]
    <3>1. /\ client'[c].id = client[c].id /\ client[c].pc \in Early
          /\ \A d \in Clients \ {c} : client'[d] = client[d]
      BY <1>c, <2>1 DEF ClientType, Early
    <3> QED  BY <1>5, <1>s, <2>1, <3>1 DEF ClientRequest
  <2>2. CASE /\ client[c].pc = "reqEnd" /\ Send(Frame(c, "ReqEnd"))
             /\ client' = [client EXCEPT ![c].pc = "waitEnd", ![c].timer = 0]
    <3>1. /\ client'[c].id = client[c].id /\ client'[c].pc \notin Early
          /\ \A d \in Clients \ {c} : client'[d] = client[d]
      BY <1>c, <2>2 DEF ClientType, Early
    <3> QED  BY <1>5, <1>s, <2>2, <3>1 DEF ClientRequest
  <2> QED  BY <1>5, <2>1, <2>2 DEF ClientRequest
<1>6. ASSUME NEW c \in Clients, ClientData(c) PROVE Counts'
  <2>1. /\ [Enter(client[c], "reqEnd") EXCEPT !.id = @ + 1].id = client[c].id + 1
        /\ [Enter(client[c], "reqEnd") EXCEPT !.id = @ + 1].pc = "reqEnd"
        /\ [client[c] EXCEPT !.id = @ + 1].id = client[c].id + 1
        /\ [client[c] EXCEPT !.id = @ + 1].pc = client[c].pc
    BY <1>c DEF Enter, ClientType
  <2>2. client[c].pc = "data"  BY <1>6 DEF ClientData
  <2>3. client'[c].id = client[c].id + 1 /\ client'[c].pc \in {"reqEnd", "data"}
    BY <1>6, <1>c, <2>1, <2>2 DEF ClientData
  <2>4. \A d \in Clients \ {c} : client'[d] = client[d]  BY <1>6, <1>c DEF ClientData
  <2>5. client'[c].pc \notin Early  BY <2>3 DEF Early
  <2> QED  BY <1>6, <1>s, <2>3, <2>4, <2>5 DEF ClientData
<1>7. CASE ServerStart
  <2>1. toServer # <<>> /\ toServer' = Tail(toServer) /\ client' = client /\ srv' = srv
        /\ Head(toServer).op = "ReqStart" /\ Alive
    BY <1>7 DEF ServerStart, Got
  <2>2. \A d : Cardinality(Positions(toServer', d)) = Cardinality(Positions(toServer, d))
    BY <1>q, <2>1, PositionsTail
  <2>3. CASE running
    <3>1. UNCHANGED <<stats, ghost>>  BY <1>7, <2>3 DEF ServerStart
    <3>2. StartFirst' /\ StartWhole'  BY <1>i, <1>t, <2>1, <3>1, CountTake
    <3>3. CountsOwn'  BY <1>i, <1>p, <2>1, <2>2, <3>1 DEF Counts, CountsOwn, Alive
    <3> QED  BY <3>2, <3>3 DEF Counts
  <2>4. CASE ~running
    <3>1. /\ ghost'.owner = Head(toServer).from /\ ghost'.losses = ghost.losses
          /\ stats'.pkts = 0
      BY <1>7, <1>t, <2>4, StartWorkers
    <3>2. StartFirst' /\ StartWhole'  BY <1>i, <1>t, <2>1, <3>1, CountTake
    <3>3. CountsOwn'
      <4>1. SUFFICES ASSUME NEW d \in Clients, ghost'.owner = d, ghost'.losses = 0
                     PROVE  client[d].id = 0 + Cardinality(Positions(toServer', d))
        BY <1>p, <2>1, <3>1 DEF CountsOwn
      <4>2. Head(toServer) = toServer[1] /\ 1 \in DOMAIN toServer  BY <1>q, <2>1, TailRest
      <4>3. client[d].id = Cardinality(Positions(toServer, d))
        BY <1>i, <2>1, <3>1, <4>1, <4>2 DEF Counts, StartWhole
      <4>4. Cardinality(Positions(toServer, d)) \in Nat  BY <1>q, PositionsFinite
      <4> QED  BY <2>2, <4>3, <4>4
    <3> QED  BY <3>2, <3>3 DEF Counts
  <2> QED  BY <2>3, <2>4
<1>8. CASE ServerData
  <2>1. toServer # <<>> /\ toServer' = Tail(toServer) /\ client' = client /\ srv' = srv
        /\ Head(toServer).op = "Data"
    BY <1>8 DEF ServerData, Got
  <2>2. /\ ghost'.mixed = (ghost.mixed \/ Head(toServer).from # ghost.owner)
        /\ ghost'.owner = ghost.owner /\ ghost'.losses = ghost.losses
        /\ stats'.pkts = stats.pkts + 1
    BY <1>8, <1>t DEF ServerData, Counted, TypeOK
  <2>3. StartFirst' /\ StartWhole'  BY <1>i, <1>t, <2>1, <2>2, CountTake
  <2>4. CountsOwn'
    <3>1. SUFFICES ASSUME NEW d \in Clients, Alive, ghost.owner = d, ~ghost'.mixed,
                          ghost.losses = 0
                   PROVE  client[d].id = (stats.pkts + 1) + Cardinality(Positions(toServer', d))
      BY <1>p, <2>1, <2>2 DEF CountsOwn, Alive
    <3>2. ~ghost.mixed /\ Head(toServer).from = d  BY <2>2, <3>1
    <3>3. client[d].id = stats.pkts + Cardinality(Positions(toServer, d))
      BY <1>i, <1>p, <3>1, <3>2 DEF Counts, CountsOwn
    <3>4. Cardinality(Positions(toServer, d)) = Cardinality(Positions(toServer', d)) + 1
      BY <1>q, <2>1, <3>2, PositionsTail
    <3>5. stats.pkts \in Nat /\ Cardinality(Positions(toServer', d)) \in Nat
      <4>1. toServer' \in Seq(Frames) /\ stats.pkts \in Nat  BY <1>t DEF TypeOK
      <4> QED  BY <4>1, PositionsFinite
    <3> QED  BY <3>3, <3>4, <3>5
  <2> QED  BY <2>3, <2>4 DEF Counts
<1>9. ASSUME NEW how \in {"closed", "panicked"}, Exit(how), client' = client PROVE Counts'
  <2>1. toServer' = <<>> /\ ~Alive'  BY <1>9 DEF Exit, Alive
  <2>2. \A c : Positions(toServer', c) = {}  BY <2>1 DEF Positions
  <2>3. StartFirst'  BY <1>9, <1>i, <2>1, <2>2 DEF Counts, StartFirst
  <2> QED  BY <2>1, <2>3 DEF Counts, StartWhole, CountsOwn
<1>10. CASE ServerEnd
  <2>1. CASE Exit("panicked")  BY <1>9, <1>10, <2>1 DEF ServerEnd
  <2>2. CASE stats.duration # 0
    <3>1. /\ toServer # <<>> /\ toServer' = Tail(toServer) /\ client' = client
          /\ UNCHANGED <<srv, stats, ghost>> /\ Head(toServer).op = "ReqEnd"
      BY <1>10, <2>2 DEF ServerEnd, Got
    <3>2. \A d : Cardinality(Positions(toServer', d)) = Cardinality(Positions(toServer, d))
      BY <1>q, <3>1, PositionsTail
    <3>3. StartFirst' /\ StartWhole'  BY <1>i, <1>t, <3>1, CountTake
    <3>4. CountsOwn'  BY <1>i, <1>p, <3>1, <3>2 DEF Counts, CountsOwn, Alive
    <3> QED  BY <3>3, <3>4 DEF Counts
  <2> QED  BY <1>10, <2>1, <2>2 DEF ServerEnd
<1>11. CASE ServerClose  BY <1>9, <1>11 DEF ServerClose
<1>12. ASSUME NEW i \in 1 .. Len(workers), WorkerTest(i) \/ WorkerReport(i) PROVE Counts'
  <2>1. /\ UNCHANGED <<client, toServer, srv, stats>> /\ ghost'.owner = ghost.owner
        /\ ghost'.mixed = ghost.mixed /\ ghost'.losses = ghost.losses
    BY <1>12, <1>t DEF WorkerTest, WorkerReport, TypeOK
  <2> QED  BY <1>i, <1>t, <2>1, CountQuiet
<1>13. CASE Tick
  <2>1. /\ UNCHANGED <<toServer, srv, stats>> /\ ghost'.owner = ghost.owner
        /\ ghost'.mixed = ghost.mixed /\ ghost'.losses = ghost.losses
    BY <1>13, <1>t DEF Tick, TypeOK
  <2>2. \A c \in Clients : client'[c].id = client[c].id /\ client'[c].pc = client[c].pc
    BY <1>13, <1>t, TickIds
  <2> QED  BY <1>i, <1>t, <2>1, <2>2, CountQuiet
<1>14. CASE UNCHANGED vars  BY <1>14, <1>i, <1>t, CountQuiet DEF vars
<1> QED
  BY <1>1, <1>2, <1>3, <1>4, <1>5, <1>6, <1>7, <1>8, <1>10, <1>11, <1>12, <1>13, <1>14
     DEF Next, ClientStep, ServerStep

-----------------------------------------------------------------------------
(* The theorems.                                                            *)

\* The invariants hold when the server starts.
LEMMA ToolInit == Init => OrderInv /\ CountInv
<1> SUFFICES ASSUME Init PROVE OrderInv /\ CountInv  OBVIOUS
<1>1. /\ toServer = <<>> /\ workers = <<>> /\ running = FALSE /\ srv = "on"
      /\ stats = NoStats /\ ghost = Remembered /\ inbox = [c \in Clients |-> {}]
  BY DEF Init
<1>2. \A c \in Clients : client[c] \in [pc : {"off"}, tries : {0}, timer : {0}, id : {0}, dur : Durations]
  BY DEF Init
<1>3. TypeOK
  <2>1. \A c \in Clients : client[c] \in ClientType
    <3>1. 0 \in Ages /\ 0 \in 0 .. (Tries - 1) /\ 0 \in 0 .. DataMax  BY Positive
    <3> QED  BY <1>2, <3>1 DEF ClientType, Pcs
  <2>2. client \in [Clients -> ClientType]  BY <2>1 DEF Init
  <2>3. stats \in StatsType  BY <1>1, Positive DEF StatsType, NoStats
  <2>4. ghost \in GhostType  BY <1>1, Positive DEF GhostType, Remembered, Nobody
  <2>5. toServer \in Seq(Frames) /\ workers \in Seq(Workers)  BY <1>1
  <2>6. inbox \in [Clients -> SUBSET {"ResStart", "ResEnd"}]  BY <1>1
  <2> QED  BY <1>1, <2>2, <2>3, <2>4, <2>5, <2>6 DEF TypeOK, ClientType, Pcs, StatsType, GhostType
<1>4. /\ ~(ghost.owner \in Clients)  BY <1>1 DEF Remembered, Nobody, Clients
<1>5. FreshAge /\ TestWatched  BY <1>1 DEF FreshAge, TestWatched
<1>6. QueueOrder /\ Ahead /\ FreshNeverUnderflows
  BY <1>1, <1>4 DEF QueueOrder, Ahead, FreshNeverUnderflows
<1>7. \A c : Positions(toServer, c) = {}  BY <1>1 DEF Positions
<1>8. StartFirst  BY <1>1, <1>2, <1>7 DEF StartFirst
<1>9. StartWhole /\ CountsOwn  BY <1>1, <1>4 DEF StartWhole, CountsOwn
<1> QED  BY <1>3, <1>5, <1>6, <1>8, <1>9 DEF OrderInv, ThreadInv, CountInv

\* Every variable keeps its type, whatever the number of clients and attempts.
THEOREM ToolTypes == Spec => []TypeOK
<1>1. Init => TypeOK  BY ToolInit DEF CountInv
<1>2. TypeOK /\ [Next]_vars => TypeOK'  BY NextTyped
<1> QED  BY <1>1, <1>2, PTL DEF Spec

\* A running test has its own statistics thread (stats_worker), so that
\* TEST_RUNNING is cleared even if no ReqEnd ever comes.
THEOREM AlwaysWatched == Spec => []TestWatched
<1>1. Init => ThreadInv  BY ToolInit DEF OrderInv
<1>2. ThreadInv => TestWatched  BY DEF ThreadInv
<1> QED  BY <1>1, <1>2, ThreadStep, PTL DEF Spec

\* No test ends before its time but by a ReqEnd or a thread of an earlier test.
THEOREM NoEarlyEnd == Spec => TestKept
<1>1. Init => ThreadInv  BY ToolInit DEF OrderInv
<1>2. ThreadInv /\ [Next]_vars =>
        [running /\ ~running' /\ Alive' =>
            EndTaken \/ ghost.age > stats.duration \/ Stale]_vars
  BY EndKept
<1> QED  BY <1>1, <1>2, ThreadStep, PTL DEF Spec, TestKept

\* The thread of the current test never subtracts below zero while the counters
\* are those of one client.
THEOREM NoUnderflow == Spec => []FreshNeverUnderflows
<1>1. Init => OrderInv  BY ToolInit
<1>2. OrderInv => FreshNeverUnderflows  BY DEF OrderInv
<1> QED  BY <1>1, <1>2, OrderStep, PTL DEF Spec

\* Every Data packet of a test that has the server for itself is counted once,
\* through retries of ReqStart and tests accepted twice.
THEOREM CountedOnce == Spec => []CountsOwn
<1>1. Init => CountInv  BY ToolInit
<1>2. CountInv => CountsOwn  BY DEF CountInv
<1> QED  BY <1>1, <1>2, CountStep, PTL DEF Spec
=============================================================================

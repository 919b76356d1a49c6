---------------------------- MODULE LatencyProofs ----------------------------
(***************************************************************************)
(* What the latency tool promises for every number of runs, count and       *)
(* capacity of the link: the timestamp the client works with is its own     *)
(* unless one was given up on, a ping is printed once, and with its own     *)
(* answer, and the server pairs a Sync with the Tx of its own run unless    *)
(* that Tx was lost.                                                        *)
(***************************************************************************)
EXTENDS Latency, TLAPS

\* What the ghost variable holds, and that a run has a number.
GhostOK ==
    /\ ghost \in [lost : SUBSET Txs, owed : BOOLEAN, stale : BOOLEAN,
                  done : SUBSET Ids, once : BOOLEAN]
    /\ client.pc # "off" => client.run # 0

\* Between two runs nothing is left of the last one but frames on the link.
OffClean ==
    client.pc = "off" =>
        /\ client.id = 1 /\ pings = NoPings /\ ghost.done = {}
        /\ pending = {} /\ errq = <<>>

TypeInv == TypeOK /\ GhostOK /\ OffClean

\* The packet whose timestamp the client waits for.
Sent == Pkt(IF client.pc = "consume" THEN "Sync"
            ELSE IF client.oneway THEN "Tx" ELSE "Ping")

\* As long as no call has given up too early, the device and the error queue hold
\* at most one timestamp between them, that of the packet just sent.
OneOwed ==
    ~ghost.owed =>
        \/ pending = {} /\ errq = <<>>
        \/ /\ client.pc \in {"stamp", "consume"}
           /\ \/ pending = {Sent} /\ errq = <<>>
              \/ pending = {} /\ errq = <<Sent>>

\* The ids the client has not come to: none of them waits for an answer or has
\* been printed.
Ahead(i) == i > client.id \/ (i = client.id /\ client.pc \in {"off", "send", "stamp"})
PingsInv ==
    /\ ghost.once
    /\ \A i \in Ids :
          /\ pings[i] # None =>
                /\ i \notin ghost.done
                /\ ghost.owed \/ pings[i] \in {Now, <<client.run, i, "Ping">>}
          /\ Ahead(i) => pings[i] = None /\ i \notin ghost.done

StampInv == OneOwed /\ StampOwn

\* Only answers to pings come to the client; in a run that found the link empty
\* only frames of this run are on it.
NetInv ==
    /\ \A k \in DOMAIN toClient : toClient[k][3] = "Ping"
    /\ client.pc # "off" /\ ~ghost.stale =>
          /\ \A k \in DOMAIN toClient : toClient[k][1] = client.run
          /\ \A k \in DOMAIN toServer : toServer[k][1] = client.run

\* The server meets a Sync of run r and id i behind the first k frames of its
\* queue: unless its Tx was lost, the Tx it will then find under i, the last one of
\* those k or else the one noted now, is of the same run.
TxAt(j, i) == toServer[j][2] = i /\ toServer[j][3] = "Tx"
Paired(r, i, k) ==
    \/ <<r, i, "Tx">> \in ghost.lost
    \/ /\ \A j \in 1..k :
             TxAt(j, i) /\ (\A l \in (j + 1)..k : ~TxAt(l, i)) => toServer[j][1] = r
       /\ (\A j \in 1..k : ~TxAt(j, i)) => txs[i] = None \/ txs[i][1] = r

\* Every Sync on its way is paired, and so is the one the client will send next.
SyncsPaired ==
    \A k \in DOMAIN toServer, r \in 1..Runs, i \in Ids :
        toServer[k] = <<r, i, "Sync">> => Paired(r, i, k - 1)
NextPaired ==
    \A r \in 1..Runs, i \in Ids :
        /\ client.pc = "sync" \/ (client.pc = "stamp" /\ client.oneway)
        /\ r = client.run /\ i = client.id
        => Paired(r, i, Len(toServer))
PairInv == SyncsPaired /\ NextPaired

-----------------------------------------------------------------------------
(* Types.                                                                   *)

ClientType ==
    [pc : {"off", "send", "stamp", "sync", "consume", "recv", "pause", "drain"},
     run : 0..Runs, oneway : BOOLEAN, id : Ids, ts : Stamps]
GhostType == [lost : SUBSET Txs, owed : BOOLEAN, stale : BOOLEAN,
              done : SUBSET Ids, once : BOOLEAN]

\* A packet is the triple of its parts, and no timestamp of one is None or Now.
LEMMA PacketParts ==
    ASSUME NEW p \in Packets
    PROVE  /\ p[1] \in 1..Runs /\ p[2] \in Ids /\ p[3] \in {"Tx", "Sync", "Ping"}
           /\ p = <<p[1], p[2], p[3]>> /\ p # None /\ p # Now /\ p \in Stamps
  BY LatencyAssumption DEF Packets, Stamps, None, Now

\* The packets of the current run are packets.
LEMMA PktType ==
    ASSUME TypeInv, client.pc # "off", NEW o \in {"Tx", "Sync", "Ping"}
    PROVE  /\ Pkt(o) \in Packets /\ Pkt(o)[1] = client.run
           /\ {Pkt(o)} \cap Txs \in SUBSET Txs
  <1>1. client.run \in 1..Runs /\ client.id \in Ids
    BY LatencyAssumption DEF TypeInv, TypeOK, GhostOK
  <1> QED BY <1>1 DEF Pkt, Packets

\* `continue` stays in the run, and comes to the next id or to the last loop.
LEMMA ContinueType ==
    ASSUME TypeInv, client.pc # "off"
    PROVE  /\ Continue \in ClientType
           /\ Continue.run = client.run /\ Continue.oneway = client.oneway
           /\ Continue.ts = None
           /\ \/ Continue.pc = "send" /\ Continue.id = client.id + 1
              \/ Continue.pc = "drain" /\ Continue.id = client.id
  <1>1. client \in ClientType /\ None \in Stamps
    BY DEF TypeInv, TypeOK, ClientType, Stamps
  <1>2. CASE client.id < Count
    <2>1. client.id + 1 \in Ids
      BY <1>1, <1>2, LatencyAssumption DEF ClientType, Ids
    <2> QED BY <1>1, <1>2, <2>1 DEF Continue, Forget, ClientType
  <1>3. CASE ~(client.id < Count)
    BY <1>1, <1>3 DEF Continue, Forget, ClientType
  <1> QED BY <1>2, <1>3

\* At changes nothing but the place.
LEMMA AtType ==
    ASSUME client \in ClientType,
           NEW c \in {"send", "stamp", "sync", "consume", "recv", "pause", "drain"}
    PROVE  /\ At(c) \in ClientType /\ At(c).pc = c /\ At(c).run = client.run
           /\ At(c).id = client.id /\ At(c).oneway = client.oneway /\ At(c).ts = client.ts
           /\ Forget(c) \in ClientType /\ Forget(c).pc = c /\ Forget(c).run = client.run
           /\ Forget(c).id = client.id /\ Forget(c).oneway = client.oneway
           /\ Forget(c).ts = None
  BY DEF At, Forget, ClientType, Stamps

\* Tail and Append keep the type of a queue and move its entries.
LEMMA TailType ==
    ASSUME NEW S, NEW q \in Seq(S), q # <<>>
    PROVE  /\ Head(q) \in S /\ Tail(q) \in Seq(S) /\ Len(q) \in Nat \ {0}
           /\ Len(Tail(q)) = Len(q) - 1 /\ DOMAIN q = 1..Len(q) /\ Head(q) = q[1]
           /\ DOMAIN Tail(q) = 1..(Len(q) - 1)
           /\ \A k \in DOMAIN Tail(q) : k + 1 \in DOMAIN q /\ Tail(q)[k] = q[k + 1]
  OBVIOUS

LEMMA AppendType ==
    ASSUME NEW S, NEW q \in Seq(S), NEW p \in S
    PROVE  /\ Append(q, p) \in Seq(S) /\ Len(Append(q, p)) = Len(q) + 1
           /\ Len(q) \in Nat /\ DOMAIN q = 1..Len(q)
           /\ DOMAIN Append(q, p) = 1..(Len(q) + 1)
           /\ \A k \in DOMAIN q : Append(q, p)[k] = q[k]
           /\ Append(q, p)[Len(q) + 1] = p
  OBVIOUS

\* What a frame put on the link or lost leaves: its timestamp is owed.
LEMMA TransmitType ==
    ASSUME TypeInv, client.pc # "off", NEW o \in {"Tx", "Sync", "Ping"}, Transmit(Pkt(o))
    PROVE  /\ toServer' \in Seq(Packets) /\ pending' = pending \cup {Pkt(o)}
           /\ pending' \subseteq Packets /\ ghost' \in GhostType
           /\ ghost'.owed = ghost.owed /\ ghost'.stale = ghost.stale
           /\ ghost'.done = ghost.done /\ ghost'.once = ghost.once
           /\ \A p \in pending' \cup {errq[k] : k \in DOMAIN errq} : p[1] = client.run
  <1>1. Pkt(o) \in Packets /\ Pkt(o)[1] = client.run /\ {Pkt(o)} \cap Txs \in SUBSET Txs
    BY PktType
  <1>2. /\ toServer \in Seq(Packets) /\ pending \subseteq Packets /\ ghost \in GhostType
        /\ \A p \in pending \cup {errq[k] : k \in DOMAIN errq} : p[1] = client.run
    BY DEF TypeInv, TypeOK, GhostOK, GhostType
  <1>3. /\ pending' = pending \cup {Pkt(o)}
        /\ \/ toServer' = Append(toServer, Pkt(o)) /\ ghost' = ghost
           \/ /\ toServer' = toServer
              /\ ghost' = [ghost EXCEPT !.lost = @ \cup ({Pkt(o)} \cap Txs)]
    BY DEF Transmit
  <1>4. toServer' \in Seq(Packets) BY <1>1, <1>2, <1>3
  <1>5. /\ ghost' \in GhostType
        /\ ghost'.owed = ghost.owed /\ ghost'.stale = ghost.stale
        /\ ghost'.done = ghost.done /\ ghost'.once = ghost.once
    BY <1>1, <1>2, <1>3 DEF GhostType
  <1> QED BY <1>1, <1>2, <1>3, <1>4, <1>5

\* What get_tx_timestamp returns and leaves.
LEMMA GetType ==
    ASSUME TypeInv, NEW ts, GetTxTimestamp(ts)
    PROVE  /\ ts \in Packets \cup {Now} /\ errq' \in Seq(Packets) /\ ghost' \in GhostType
           /\ {errq'[k] : k \in DOMAIN errq'} \subseteq {errq[k] : k \in DOMAIN errq}
           /\ ghost'.lost = ghost.lost /\ ghost'.stale = ghost.stale
           /\ ghost'.done = ghost.done /\ ghost'.once = ghost.once
           /\ \/ errq # <<>> /\ ts = Head(errq) /\ errq' = Tail(errq) /\ ghost' = ghost
              \/ errq = <<>> /\ ts = Now /\ errq' = errq /\ ghost'.owed = (ghost.owed \/ pending # {})
  <1>1. errq \in Seq(Packets) /\ ghost \in GhostType
    BY DEF TypeInv, TypeOK, GhostOK, GhostType
  <1>2. CASE errq # <<>> /\ ts = Head(errq) /\ errq' = Tail(errq) /\ UNCHANGED ghost
    BY <1>1, <1>2, TailType
  <1>3. CASE /\ errq = <<>> /\ ts = Now
             /\ ghost' = [ghost EXCEPT !.owed = @ \/ pending # {}]
             /\ UNCHANGED errq
    BY <1>1, <1>3 DEF GhostType
  <1> QED BY <1>2, <1>3 DEF GetTxTimestamp

\* What a frame taken by the client leaves: its id is printed, or nothing.
LEMMA MatchType ==
    ASSUME TypeInv, NEW then, NEW otherwise, Match(then, otherwise)
    PROVE  /\ toClient # <<>> /\ toClient' = Tail(toClient)
           /\ toClient' \in Seq(Packets) /\ toClient[1] \in Packets
           /\ pings' \in [Ids -> Stamps] /\ ghost' \in GhostType
           /\ ghost'.lost = ghost.lost /\ ghost'.stale = ghost.stale /\ ghost'.owed = ghost.owed
           /\ \/ /\ pings[toClient[1][2]] # None /\ pings' = [pings EXCEPT ![toClient[1][2]] = None]
                 /\ client' = then /\ ghost'.done = ghost.done \cup {toClient[1][2]}
                 /\ ghost'.once = (ghost.once /\ toClient[1][2] \notin ghost.done)
              \/ pings' = pings /\ client' = otherwise /\ ghost' = ghost
  <1>1. /\ toClient \in Seq(Packets) /\ ghost \in GhostType /\ pings \in [Ids -> Stamps]
        /\ None \in Stamps
    BY DEF TypeInv, TypeOK, GhostOK, GhostType, Stamps
  <1>2. /\ toClient # <<>> /\ toClient' = Tail(toClient)
        /\ toClient' \in Seq(Packets) /\ toClient[1] \in Packets /\ Head(toClient) = toClient[1]
    BY <1>1, TailType DEF Match
  <1>3. toClient[1][2] \in Ids
    BY <1>2, PacketParts
  <1>4. CASE /\ pings[toClient[1][2]] # None
             /\ pings' = Without(pings, toClient[1][2])
             /\ client' = then
             /\ ghost' = [ghost EXCEPT !.done = @ \cup {toClient[1][2]},
                                       !.once = @ /\ toClient[1][2] \notin ghost.done]
    BY <1>1, <1>2, <1>3, <1>4 DEF Without, GhostType
  <1>5. CASE client' = otherwise /\ pings' = pings /\ ghost' = ghost
    BY <1>1, <1>2, <1>5
  <1> QED BY <1>2, <1>4, <1>5 DEF Match

\* The types are kept by every step; the timestamps of a run go with its socket.
LEMMA TypeStep == ASSUME TypeInv, [Next]_vars PROVE TypeInv'
  <1>t. /\ client \in ClientType /\ ghost \in GhostType
        /\ pings \in [Ids -> Stamps] /\ txs \in [Ids -> Stamps] /\ running \in BOOLEAN
        /\ pending \subseteq Packets /\ errq \in Seq(Packets)
        /\ \A p \in pending \cup {errq[k] : k \in DOMAIN errq} : p[1] = client.run
        /\ toServer \in Seq(Packets) /\ toClient \in Seq(Packets)
        /\ client.pc # "off" => client.run # 0
    BY DEF TypeInv, TypeOK, GhostOK, ClientType, GhostType
  <1>n. None \in Stamps /\ Now \in Stamps /\ NoPings \in [Ids -> Stamps] /\ 1 \in Ids
    BY LatencyAssumption DEF Stamps, NoPings, Ids
  <1>s. ASSUME
        /\ client' \in ClientType /\ ghost' \in GhostType
        /\ pings' \in [Ids -> Stamps] /\ txs' \in [Ids -> Stamps] /\ running' \in BOOLEAN
        /\ pending' \subseteq Packets /\ errq' \in Seq(Packets)
        /\ \A p \in pending' \cup {errq'[k] : k \in DOMAIN errq'} : p[1] = client'.run
        /\ toServer' \in Seq(Packets) /\ toClient' \in Seq(Packets)
        /\ client'.pc # "off" => client'.run # 0
        /\ OffClean'
        PROVE TypeInv'
    <2>1. TypeOK' BY <1>s DEF TypeOK, ClientType
    <2>2. GhostOK' BY <1>s DEF GhostOK, GhostType
    <2> QED BY <1>s, <2>1, <2>2 DEF TypeInv
  <1>1. ASSUME NEW oneway \in BOOLEAN, Start(oneway) PROVE TypeInv'
    <2>1. /\ client' \in ClientType /\ client'.pc = "send" /\ client'.run = client.run + 1
          /\ client'.run # 0
      <3>1. client.run + 1 \in 0..Runs /\ client.run + 1 # 0 /\ client.id \in Ids /\ client.ts \in Stamps
        BY <1>1, <1>t, LatencyAssumption DEF Start, ClientType
      <3>2. client' = [client EXCEPT !.pc = "send", !.run = client.run + 1, !.oneway = oneway]
        BY <1>1 DEF Start
      <3> QED BY <1>1, <1>t, <3>1, <3>2 DEF ClientType
    <2>2. ghost' \in GhostType
      BY <1>1, <1>t DEF Start, GhostType
    <2>3. pending = {} /\ errq = <<>>
      BY <1>1 DEF Start, TypeInv, OffClean
    <2> QED BY <1>1, <1>t, <1>s, <2>1, <2>2, <2>3 DEF Start, net, OffClean
  <1>2. CASE Send
    <2>1. client.pc # "off" /\ client.pc = "send" BY <1>2 DEF Send
    <2>2. CASE Transmit(Pkt(IF client.oneway THEN "Tx" ELSE "Ping")) /\ client' = At("stamp")
      <3>1. PICK o \in {"Tx", "Sync", "Ping"} : Transmit(Pkt(o))
        BY <2>2
      <3>2. client' \in ClientType /\ client'.pc # "off" /\ client'.run = client.run
        BY <1>t, <2>2, AtType
      <3> QED BY <1>2, <1>t, <1>s, <2>1, <3>1, <3>2, TransmitType DEF Send, OffClean
    <2>3. CASE client' = Continue /\ UNCHANGED <<pending, toServer, ghost>>
      BY <1>2, <1>t, <1>s, <2>1, <2>3, ContinueType DEF Send, OffClean
    <2> QED BY <1>2, <2>2, <2>3 DEF Send
  <1>3. CASE Stamp
    <2>1. PICK ts : /\ GetTxTimestamp(ts)
                    /\ client' = [client EXCEPT !.ts = ts,
                                    !.pc = IF client.oneway THEN "sync" ELSE "recv"]
                    /\ pings' = Stamped(ts)
      BY <1>3 DEF Stamp
    <2>2. ts \in Stamps /\ client.pc = "stamp"
      BY <1>3, <2>1, GetType DEF Stamp, Stamps
    <2>3. /\ client' \in ClientType /\ client'.run = client.run /\ client'.pc # "off"
      BY <1>t, <2>1, <2>2 DEF ClientType
    <2>4. pings' \in [Ids -> Stamps]
      BY <1>t, <2>1, <2>2 DEF Stamped, ClientType
    <2>5. \A p \in pending' \cup {errq'[k] : k \in DOMAIN errq'} : p[1] = client'.run
      BY <1>3, <1>t, <2>1, <2>3, GetType DEF Stamp
    <2> QED BY <1>3, <1>t, <1>s, <2>1, <2>2, <2>3, <2>4, <2>5, GetType DEF Stamp, net, OffClean
  <1>4. CASE Sync
    <2>1. client.pc # "off" /\ client.pc = "sync" BY <1>4 DEF Sync
    <2>2. CASE Transmit(Pkt("Sync")) /\ client' = Forget("consume")
      <3>1. client' \in ClientType /\ client'.pc # "off" /\ client'.run = client.run
        BY <1>t, <2>2, AtType
      <3> QED BY <1>4, <1>t, <1>s, <2>1, <2>2, <3>1, TransmitType DEF Sync, OffClean
    <2>3. CASE client' = Continue /\ UNCHANGED <<pending, toServer, ghost>>
      BY <1>4, <1>t, <1>s, <2>1, <2>3, ContinueType DEF Sync, OffClean
    <2> QED BY <1>4, <2>2, <2>3 DEF Sync
  <1>5. CASE Consume
    <2>1. PICK ts : GetTxTimestamp(ts)
      BY <1>5 DEF Consume, ConsumeTimestamp
    <2>2. client' \in ClientType /\ client'.run = client.run /\ client'.pc # "off" /\ client.pc = "consume"
      BY <1>5, <1>t, AtType DEF Consume
    <2>3. \A p \in pending' \cup {errq'[k] : k \in DOMAIN errq'} : p[1] = client'.run
      BY <1>5, <1>t, <2>1, <2>2, GetType DEF Consume
    <2> QED BY <1>5, <1>t, <1>s, <2>1, <2>2, <2>3, GetType DEF Consume, net, OffClean
  <1>6. CASE Recv
    <2>1. client.pc = "recv" /\ Match(Forget("pause"), Continue)
      BY <1>6 DEF Recv
    <2>2. client' \in ClientType /\ client'.run = client.run /\ client'.pc # "off"
      BY <1>t, <2>1, MatchType, AtType, ContinueType
    <2>3. UNCHANGED <<running, pending, errq, toServer, txs>>
      BY <2>1 DEF Match
    <2> QED BY <1>t, <1>s, <2>1, <2>2, <2>3, MatchType DEF OffClean
  <1>7. CASE RecvTimeout
    <2>1. /\ client.pc = "recv" /\ client' = Continue
          /\ UNCHANGED <<pings, running, pending, errq, net, txs, ghost>>
      BY <1>7 DEF RecvTimeout, GiveUp
    <2> QED BY <1>t, <1>s, <2>1, ContinueType DEF net, OffClean
  <1>8. CASE Pause
    <2>1. client.pc = "pause" /\ UNCHANGED <<pings, running, pending, errq, net, txs, ghost>>
      BY <1>8 DEF Pause
    <2>2. client' \in ClientType /\ client'.run = client.run /\ client'.pc # "off"
      BY <1>8, <1>t, <2>1, AtType, ContinueType DEF Pause, AfterPause
    <2> QED BY <1>t, <1>s, <2>1, <2>2 DEF net, OffClean
  <1>9. CASE Drain
    <2>1. client.pc = "drain" /\ Match(client, client)
      BY <1>9 DEF Drain
    <2>2. client' = client
      BY <2>1, MatchType
    <2>3. UNCHANGED <<running, pending, errq, toServer, txs>>
      BY <2>1 DEF Match
    <2> QED BY <1>t, <1>s, <2>1, <2>2, <2>3, MatchType DEF OffClean
  <1>10. CASE Close
    <2>1. client' \in ClientType /\ client'.pc = "off" /\ client'.id = 1
      BY <1>10, <1>t, <1>n DEF Close, ClientType
    <2>2. ghost' \in GhostType /\ ghost'.done = {}
      BY <1>10, <1>t DEF Close, GhostType
    <2> QED BY <1>10, <1>t, <1>n, <1>s, <2>1, <2>2 DEF Close, net, OffClean
  <1>11. CASE Interrupt
    BY <1>11, <1>t, <1>s DEF Interrupt, net, OffClean
  <1>12. CASE Serve
    <2>1. /\ toServer # <<>> /\ toServer' = Tail(toServer)
          /\ UNCHANGED <<client, pings, running, pending, errq, ghost>>
      BY <1>12 DEF Serve
    <2>2. toServer' \in Seq(Packets) /\ Head(toServer) \in Packets
      BY <1>t, <2>1, TailType
    <2>3. Head(toServer)[2] \in Ids /\ Head(toServer) \in Stamps
      BY <2>2, PacketParts
    <2>4. txs' \in [Ids -> Stamps] /\ toClient' \in Seq(Packets)
      <3>1. /\ \/ txs' = [txs EXCEPT ![Head(toServer)[2]] = Head(toServer)]
               \/ txs' = [txs EXCEPT ![Head(toServer)[2]] = None] \/ txs' = txs
            /\ toClient' = toClient \/ toClient' = Append(toClient, Head(toServer))
        BY <1>12 DEF Serve, Noted, Without
      <3>2. txs' \in [Ids -> Stamps] BY <1>t, <1>n, <2>2, <2>3, <3>1
      <3>3. Append(toClient, Head(toServer)) \in Seq(Packets) BY <1>t, <2>2, AppendType
      <3>4. toClient' \in Seq(Packets) BY <1>t, <3>1, <3>3
      <3> QED BY <3>2, <3>4
    <2> QED BY <1>t, <1>s, <2>1, <2>2, <2>4 DEF TypeInv, OffClean
  <1>13. CASE ServerRestart
    BY <1>13, <1>t, <1>n, <1>s DEF ServerRestart, TypeInv, OffClean
  <1>14. CASE DeviceStamps
    <2>1. PICK p \in pending : pending' = pending \ {p} /\ errq' \in {errq, Append(errq, p)}
      BY <1>14 DEF DeviceStamps
    <2>2. /\ errq' \in Seq(Packets)
          /\ {errq'[k] : k \in DOMAIN errq'} \subseteq {errq[k] : k \in DOMAIN errq} \cup {p}
      <3>1. CASE errq' = errq BY <1>t, <3>1
      <3>2. CASE errq' = Append(errq, p)
        <4>1. p \in Packets BY <1>t, <2>1
        <4>2. /\ errq' \in Seq(Packets) /\ DOMAIN errq' = 1..(Len(errq) + 1)
              /\ DOMAIN errq = 1..Len(errq) /\ Len(errq) \in Nat
              /\ \A k \in DOMAIN errq : errq'[k] = errq[k]
              /\ errq'[Len(errq) + 1] = p
          BY <1>t, <3>2, <4>1, AppendType
        <4>3. ASSUME NEW k \in DOMAIN errq' PROVE errq'[k] \in {errq[j] : j \in DOMAIN errq} \cup {p}
          <5>1. k = Len(errq) + 1 \/ k \in DOMAIN errq BY <4>2
          <5> QED BY <4>2, <5>1
        <4> QED BY <4>2, <4>3
      <3> QED BY <2>1, <3>1, <3>2
    <2>3. client.pc # "off"
      BY <2>1 DEF TypeInv, OffClean
    <2> QED BY <1>14, <1>t, <1>s, <2>1, <2>2, <2>3 DEF DeviceStamps, net, OffClean
  <1>15. CASE UNCHANGED vars
    BY <1>15, <1>t, <1>s DEF vars, net, TypeInv, OffClean
  <1> QED BY <1>1, <1>2, <1>3, <1>4, <1>5, <1>6, <1>7, <1>8, <1>9, <1>10, <1>11, <1>12,
             <1>13, <1>14, <1>15 DEF Next, ClientStep

\* The types hold in the first state.
LEMMA TypeInit == ASSUME Init PROVE TypeInv
  <1>1. None \in Stamps /\ NoPings \in [Ids -> Stamps] /\ 1 \in Ids
    BY LatencyAssumption DEF Stamps, NoPings, Ids
  <1>2. TypeOK BY <1>1, LatencyAssumption DEF Init, TypeOK
  <1> QED BY <1>2 DEF Init, TypeInv, GhostOK, OffClean

\* Every variable of the latency tool has its type in every reachable state, and
\* no timestamp of an earlier run is in the error queue (new_socket of each run).
THEOREM TypesKept == Spec => []TypeOK
  <1>1. Spec => []TypeInv
    BY TypeInit, TypeStep, PTL DEF Spec
  <1> QED BY <1>1, PTL DEF TypeInv

-----------------------------------------------------------------------------
(* The timestamp of the packet just sent.                                   *)

\* A call takes the one timestamp there is, or finds none: unless it gives up on
\* one, both the device and the queue are empty after it.
LEMMA GetEmpties ==
    ASSUME TypeInv, OneOwed, client.pc \in {"stamp", "consume"},
           NEW ts, GetTxTimestamp(ts), pending' = pending, ~ghost'.owed
    PROVE  ts \in {Now, Sent} /\ pending' = {} /\ errq' = <<>>
  <1>1. ghost.owed \in BOOLEAN
    BY DEF TypeInv, GhostOK
  <1>2. CASE errq # <<>> /\ ts = Head(errq) /\ errq' = Tail(errq) /\ ghost' = ghost
    <2>1. pending = {} /\ errq = <<Sent>>
      BY <1>2 DEF OneOwed
    <2> QED BY <1>2, <2>1
  <1>3. CASE errq = <<>> /\ ts = Now /\ errq' = errq /\ ghost'.owed = (ghost.owed \/ pending # {})
    BY <1>3
  <1> QED BY <1>2, <1>3, GetType

\* The client's timestamp is its own as long as the queue holds at most that one.
LEMMA StampStep == ASSUME TypeInv, StampInv, [Next]_vars PROVE StampInv'
  <1>t. /\ client \in ClientType /\ ghost \in GhostType
        /\ pending \subseteq Packets /\ errq \in Seq(Packets)
    BY DEF TypeInv, TypeOK, GhostOK, ClientType, GhostType
  <1>i. OneOwed /\ StampOwn BY DEF StampInv
  <1>k. ASSUME client.pc \notin {"stamp", "consume"}, ghost'.owed = ghost.owed,
               pending' = pending, errq' = errq, client'.pc \notin {"sync", "recv"}
        PROVE  StampInv'
    BY <1>i, <1>k DEF StampInv, OneOwed, StampOwn
  <1>1. ASSUME NEW oneway \in BOOLEAN, Start(oneway) PROVE StampInv'
    <2>1. client'.pc = "send" /\ ghost'.owed = ghost.owed
      BY <1>1, <1>t DEF Start, ClientType, GhostType
    <2> QED BY <1>1, <1>k, <2>1 DEF Start
  <1>2. CASE Send
    <2>1. client.pc # "off" /\ client.pc = "send" BY <1>2 DEF Send
    <2>2. CASE Transmit(Pkt(IF client.oneway THEN "Tx" ELSE "Ping")) /\ client' = At("stamp")
      <3>1. PICK o \in {"Tx", "Sync", "Ping"} : Transmit(Pkt(o)) /\ o = IF client.oneway THEN "Tx" ELSE "Ping"
        BY <2>2
      <3>2. /\ client'.pc = "stamp" /\ client'.run = client.run
            /\ client'.id = client.id /\ client'.oneway = client.oneway
        BY <1>t, <2>2, AtType
      <3>3. Sent' = Pkt(o)
        BY <3>1, <3>2 DEF Sent, Pkt
      <3>4. pending' = pending \cup {Pkt(o)} /\ ghost'.owed = ghost.owed /\ errq' = errq
        BY <1>2, <2>1, <3>1, TransmitType DEF Send
      <3>5. OneOwed'
        BY <1>i, <2>1, <3>2, <3>3, <3>4 DEF OneOwed
      <3> QED BY <3>2, <3>5 DEF StampInv, StampOwn
    <2>3. CASE client' = Continue /\ UNCHANGED <<pending, toServer, ghost>>
      BY <1>2, <1>k, <2>1, <2>3, ContinueType DEF Send
    <2> QED BY <1>2, <2>2, <2>3 DEF Send
  <1>3. CASE Stamp
    <2>1. PICK ts : /\ GetTxTimestamp(ts)
                    /\ client' = [client EXCEPT !.ts = ts,
                                    !.pc = IF client.oneway THEN "sync" ELSE "recv"]
      BY <1>3 DEF Stamp
    <2>2. client.pc = "stamp" /\ pending' = pending
      BY <1>3 DEF Stamp
    <2>3. /\ client'.ts = ts /\ client'.pc = IF client.oneway THEN "sync" ELSE "recv"
          /\ client'.run = client.run /\ client'.id = client.id /\ client'.oneway = client.oneway
      BY <1>t, <2>1 DEF ClientType
    <2>4. ~ghost'.owed => ts \in {Now, Sent} /\ pending' = {} /\ errq' = <<>>
      BY <1>i, <2>1, <2>2, GetEmpties
    <2>5. Sent = Pkt(IF client.oneway THEN "Tx" ELSE "Ping")'
      BY <2>2, <2>3 DEF Sent, Pkt
    <2> QED BY <2>3, <2>4, <2>5 DEF StampInv, OneOwed, StampOwn
  <1>4. CASE Sync
    <2>1. client.pc # "off" /\ client.pc = "sync" BY <1>4 DEF Sync
    <2>2. CASE Transmit(Pkt("Sync")) /\ client' = Forget("consume")
      <3>2. client'.pc = "consume" /\ client'.run = client.run /\ client'.id = client.id
        BY <1>t, <2>2, AtType
      <3>3. Sent' = Pkt("Sync")
        BY <3>2 DEF Sent, Pkt
      <3>4. pending' = pending \cup {Pkt("Sync")} /\ ghost'.owed = ghost.owed /\ errq' = errq
        BY <1>4, <2>1, <2>2, TransmitType DEF Sync
      <3>5. OneOwed'
        BY <1>i, <2>1, <3>2, <3>3, <3>4 DEF OneOwed
      <3> QED BY <3>2, <3>5 DEF StampInv, StampOwn
    <2>3. CASE client' = Continue /\ UNCHANGED <<pending, toServer, ghost>>
      BY <1>4, <1>k, <2>1, <2>3, ContinueType DEF Sync
    <2> QED BY <1>4, <2>2, <2>3 DEF Sync
  <1>5. CASE Consume
    <2>1. PICK ts : GetTxTimestamp(ts)
      BY <1>5 DEF Consume, ConsumeTimestamp
    <2>2. client.pc = "consume" /\ pending' = pending /\ client'.pc = "pause"
      BY <1>5, <1>t, AtType DEF Consume
    <2>3. ~ghost'.owed => pending' = {} /\ errq' = <<>>
      BY <1>i, <2>1, <2>2, GetEmpties
    <2> QED BY <2>2, <2>3 DEF StampInv, OneOwed, StampOwn
  <1>6. CASE Recv
    <2>1. client.pc = "recv" /\ Match(Forget("pause"), Continue)
      BY <1>6 DEF Recv
    <2>2. client'.pc \in {"pause", "send", "drain"}
      BY <1>t, <2>1, MatchType, AtType, ContinueType
    <2>3. ghost'.owed = ghost.owed /\ UNCHANGED <<pending, errq>>
      BY <2>1, MatchType DEF Match
    <2> QED BY <1>k, <2>1, <2>2, <2>3
  <1>7. CASE RecvTimeout
    <2>1. client.pc = "recv" /\ client' = Continue /\ UNCHANGED <<pending, errq, ghost>>
      BY <1>7 DEF RecvTimeout, GiveUp
    <2> QED BY <1>k, <2>1, ContinueType
  <1>8. CASE Pause
    <2>1. client.pc = "pause" /\ UNCHANGED <<pending, errq, ghost>>
      BY <1>8 DEF Pause
    <2>2. client'.pc \in {"send", "drain"}
      BY <1>8, <1>t, <2>1, AtType, ContinueType DEF Pause, AfterPause
    <2> QED BY <1>k, <2>1, <2>2
  <1>9. CASE Drain
    <2>1. client.pc = "drain" /\ Match(client, client)
      BY <1>9 DEF Drain
    <2>2. client' = client /\ ghost'.owed = ghost.owed /\ UNCHANGED <<pending, errq>>
      BY <2>1, MatchType DEF Match
    <2> QED BY <1>k, <2>1, <2>2
  <1>10. CASE Close
    <2>1. client'.pc = "off" /\ pending' = {} /\ errq' = <<>>
      BY <1>10, <1>t DEF Close, ClientType
    <2> QED BY <2>1 DEF StampInv, OneOwed, StampOwn
  <1>11. CASE UNCHANGED <<client, pending, errq, ghost>>
    BY <1>i, <1>11 DEF StampInv, OneOwed, StampOwn, Sent, Pkt
  <1>12. CASE DeviceStamps
    <2>1. PICK p \in pending : pending' = pending \ {p} /\ errq' \in {errq, Append(errq, p)}
      BY <1>12 DEF DeviceStamps
    <2>2. UNCHANGED <<client, ghost>>
      BY <1>12 DEF DeviceStamps
    <2>3. StampOwn' BY <1>i, <2>2 DEF StampOwn, Pkt
    <2>4. ASSUME ~ghost.owed PROVE OneOwed'
      <3>1. client.pc \in {"stamp", "consume"} /\ pending = {Sent} /\ errq = <<>> /\ p = Sent
        BY <1>i, <2>1, <2>4 DEF OneOwed
      <3>2. pending' = {} /\ errq' \in {<<>>, <<Sent>>}
        BY <2>1, <3>1
      <3>3. Sent' = Sent BY <2>2 DEF Sent, Pkt
      <3> QED BY <2>2, <3>1, <3>2, <3>3 DEF OneOwed
    <2> QED BY <2>2, <2>3, <2>4 DEF StampInv, OneOwed
  <1>13. CASE Interrupt \/ Serve \/ ServerRestart \/ UNCHANGED vars
    BY <1>11, <1>13 DEF Interrupt, Serve, ServerRestart, vars
  <1> QED BY <1>1, <1>2, <1>3, <1>4, <1>5, <1>6, <1>7, <1>8, <1>9, <1>10, <1>12, <1>13
          DEF Next, ClientStep

\* In every reachable state the timestamp the client works with is that of the
\* packet it has just sent, or the fallback, unless a call has given up on one that
\* came later (get_tx_timestamp takes the first entry of the error queue, whosever).
THEOREM StampIsOwn == Spec => []StampOwn
  <1>1. Init => TypeInv /\ StampInv
    BY TypeInit DEF Init, StampInv, OneOwed, StampOwn
  <1>2. Spec => [](TypeInv /\ StampInv)
    BY <1>1, TypeStep, StampStep, PTL DEF Spec
  <1> QED BY <1>2, PTL DEF StampInv

-----------------------------------------------------------------------------
(* Pings and their answers.                                                 *)

\* A step that prints nothing and only leaves ids behind keeps the invariant.
LEMMA PingsKept ==
    ASSUME PingsInv, pings' = pings, ghost'.done = ghost.done, ghost'.once = ghost.once,
           ghost'.owed = ghost.owed, client'.run = client.run,
           \A i \in Ids : Ahead(i)' => Ahead(i)
    PROVE  PingsInv'
  BY DEF PingsInv

\* `continue` leaves its id behind.
LEMMA ContinueAhead ==
    ASSUME TypeInv, client.pc # "off", client' = Continue
    PROVE  client'.run = client.run /\ \A i \in Ids : Ahead(i)' => Ahead(i)
  <1>1. client.id \in Nat /\ Ids \subseteq Nat
    BY LatencyAssumption DEF TypeInv, TypeOK, Ids
  <1>2. /\ client'.run = client.run
        /\ \/ client'.pc = "send" /\ client'.id = client.id + 1
           \/ client'.pc = "drain" /\ client'.id = client.id
    BY ContinueType
  <1>3. ASSUME NEW i \in Ids, Ahead(i)' PROVE Ahead(i)
    <2>1. i > client'.id \/ (i = client'.id /\ client'.pc \in {"off", "send", "stamp"})
      BY <1>3 DEF Ahead
    <2>2. i > client.id
      BY <1>1, <1>2, <2>1
    <2> QED BY <2>2 DEF Ahead
  <1> QED BY <1>2, <1>3

\* A step that stays in the turn leaves no id ahead that was not.
LEMMA TurnAhead ==
    ASSUME client'.id = client.id,
           client'.pc \in {"off", "send", "stamp"} => client.pc \in {"off", "send", "stamp"}
    PROVE  \A i \in Ids : Ahead(i)' => Ahead(i)
  BY DEF Ahead

\* A frame that is printed was waited for, and is waited for no more.
LEMMA MatchPings ==
    ASSUME TypeInv, PingsInv, NEW then, NEW otherwise, Match(then, otherwise),
           client'.run = client.run, \A i \in Ids : Ahead(i)' => Ahead(i)
    PROVE  PingsInv'
  <1>1. pings \in [Ids -> Stamps] /\ ghost.once \in BOOLEAN
    BY DEF TypeInv, TypeOK, GhostOK
  <1>2. CASE /\ pings[toClient[1][2]] # None /\ pings' = [pings EXCEPT ![toClient[1][2]] = None]
             /\ ghost'.done = ghost.done \cup {toClient[1][2]}
             /\ ghost'.once = (ghost.once /\ toClient[1][2] \notin ghost.done)
             /\ ghost'.owed = ghost.owed
    <2> DEFINE n == toClient[1][2]
    <2>1. n \in Ids
      BY MatchType, PacketParts
    <2>2. n \notin ghost.done /\ ~Ahead(n)
      BY <1>2, <2>1 DEF PingsInv
    <2>3. ghost'.once
      BY <1>2, <2>2 DEF PingsInv
    <2>4. \A i \in Ids : pings'[i] = IF i = n THEN None ELSE pings[i]
      BY <1>1, <1>2, <2>1
    <2>5. \A i \in Ids : i \in ghost'.done <=> i = n \/ i \in ghost.done
      BY <1>2, <2>1
    <2> HIDE DEF n
    <2> QED BY <1>2, <2>2, <2>3, <2>4, <2>5 DEF PingsInv
  <1>3. CASE pings' = pings /\ ghost' = ghost
    BY <1>3, PingsKept
  <1> QED BY <1>2, <1>3, MatchType

\* No ping is printed twice, and each waits with its own timestamp.
LEMMA PingsStep == ASSUME TypeInv, StampInv, PingsInv, [Next]_vars, StampInv' PROVE PingsInv'
  <1>t. /\ client \in ClientType /\ ghost \in GhostType /\ pings \in [Ids -> Stamps]
        /\ client.id \in Nat /\ Ids \subseteq Nat
    BY LatencyAssumption DEF TypeInv, TypeOK, GhostOK, ClientType, GhostType, Ids
  <1>1. ASSUME NEW oneway \in BOOLEAN, Start(oneway) PROVE PingsInv'
    <2>1. pings = NoPings /\ ghost.done = {} /\ pings' = pings
      BY <1>1 DEF Start, TypeInv, OffClean
    <2>2. ghost'.done = ghost.done /\ ghost'.once = ghost.once
      BY <1>1, <1>t DEF Start, GhostType
    <2> QED BY <2>1, <2>2 DEF PingsInv, NoPings
  <1>2. CASE Send
    <2>1. client.pc # "off" /\ client.pc = "send" /\ pings' = pings BY <1>2 DEF Send
    <2>2. CASE Transmit(Pkt(IF client.oneway THEN "Tx" ELSE "Ping")) /\ client' = At("stamp")
      <3>1. PICK o \in {"Tx", "Sync", "Ping"} : Transmit(Pkt(o))
        BY <2>2
      <3>2. client'.pc = "stamp" /\ client'.run = client.run /\ client'.id = client.id
        BY <1>t, <2>2, AtType
      <3> QED BY <2>1, <3>1, <3>2, TransmitType, TurnAhead, PingsKept
    <2>3. CASE client' = Continue /\ UNCHANGED <<pending, toServer, ghost>>
      BY <2>1, <2>3, ContinueAhead, PingsKept
    <2> QED BY <1>2, <2>2, <2>3 DEF Send
  <1>3. CASE Stamp
    <2>1. PICK ts : /\ GetTxTimestamp(ts)
                    /\ client' = [client EXCEPT !.ts = ts,
                                    !.pc = IF client.oneway THEN "sync" ELSE "recv"]
                    /\ pings' = Stamped(ts)
      BY <1>3 DEF Stamp
    <2>2. client.pc = "stamp" /\ client.id \in Ids
      BY <1>3, <1>t DEF Stamp, ClientType
    <2>3. /\ client'.ts = ts /\ client'.pc = IF client.oneway THEN "sync" ELSE "recv"
          /\ client'.run = client.run /\ client'.id = client.id /\ client'.oneway = client.oneway
      BY <1>t, <2>1 DEF ClientType
    <2>4. /\ ghost'.done = ghost.done /\ ghost'.once = ghost.once
          /\ ~ghost'.owed => ~ghost.owed
      BY <2>1, GetType
    <2>5. \A j \in Ids : Ahead(j)' => Ahead(j) /\ j # client.id
      BY <1>t, <2>2, <2>3 DEF Ahead
    <2>6. \A j \in Ids : pings'[j] = IF ~client.oneway /\ j = client.id THEN ts ELSE pings[j]
      BY <1>t, <2>1, <2>2 DEF Stamped
    <2>7. Ahead(client.id)
      BY <2>2 DEF Ahead
    <2>8. ~client.oneway /\ ~ghost'.owed => ts \in {Now, <<client.run, client.id, "Ping">>}
      BY <2>3 DEF StampInv, StampOwn, Pkt
    <2> QED BY <2>2, <2>3, <2>4, <2>5, <2>6, <2>7, <2>8 DEF PingsInv
  <1>4. CASE Sync
    <2>1. client.pc # "off" /\ client.pc = "sync" /\ pings' = pings BY <1>4 DEF Sync
    <2>2. CASE Transmit(Pkt("Sync")) /\ client' = Forget("consume")
      <3>1. client'.pc = "consume" /\ client'.run = client.run /\ client'.id = client.id
        BY <1>t, <2>2, AtType
      <3> QED BY <2>1, <2>2, <3>1, TransmitType, TurnAhead, PingsKept
    <2>3. CASE client' = Continue /\ UNCHANGED <<pending, toServer, ghost>>
      BY <2>1, <2>3, ContinueAhead, PingsKept
    <2> QED BY <1>4, <2>2, <2>3 DEF Sync
  <1>5. CASE Consume
    <2>1. PICK ts : GetTxTimestamp(ts)
      BY <1>5 DEF Consume, ConsumeTimestamp
    <2>2. /\ client'.pc = "pause" /\ client'.run = client.run /\ client'.id = client.id
          /\ pings' = pings
      BY <1>5, <1>t, AtType DEF Consume
    <2>3. /\ ghost'.done = ghost.done /\ ghost'.once = ghost.once
          /\ ~ghost'.owed => ~ghost.owed
      BY <2>1, GetType
    <2> QED BY <2>2, <2>3, TurnAhead DEF PingsInv
  <1>6. CASE Recv
    <2>1. client.pc = "recv" /\ Match(Forget("pause"), Continue)
      BY <1>6 DEF Recv
    <2>2. client' = Forget("pause") \/ client' = Continue
      BY <2>1, MatchType
    <2>3. CASE client' = Forget("pause")
      <3>1. client'.pc = "pause" /\ client'.run = client.run /\ client'.id = client.id
        BY <1>t, <2>3, AtType
      <3> QED BY <2>1, <3>1, TurnAhead, MatchPings
    <2>4. CASE client' = Continue
      BY <2>1, <2>4, ContinueAhead, MatchPings
    <2> QED BY <2>2, <2>3, <2>4
  <1>7. CASE RecvTimeout
    <2>1. client.pc = "recv" /\ client' = Continue /\ UNCHANGED <<pings, ghost>>
      BY <1>7 DEF RecvTimeout, GiveUp
    <2> QED BY <2>1, ContinueAhead, PingsKept
  <1>8. CASE Pause
    <2>1. client.pc = "pause" /\ UNCHANGED <<pings, ghost>> /\ client' \in {Continue, At("drain")}
      BY <1>8 DEF Pause, AfterPause
    <2>2. CASE client' = Continue
      BY <2>1, <2>2, ContinueAhead, PingsKept
    <2>3. CASE client' = At("drain")
      <3>1. client'.pc = "drain" /\ client'.run = client.run /\ client'.id = client.id
        BY <1>t, <2>3, AtType
      <3> QED BY <2>1, <3>1, TurnAhead, PingsKept
    <2> QED BY <2>1, <2>2, <2>3
  <1>9. CASE Drain
    <2>1. client.pc = "drain" /\ Match(client, client)
      BY <1>9 DEF Drain
    <2>2. client' = client
      BY <2>1, MatchType
    <2> QED BY <2>1, <2>2, TurnAhead, MatchPings
  <1>10. CASE Close
    <2>1. pings' = NoPings /\ ghost'.done = {} /\ ghost'.once = TRUE
      BY <1>10, <1>t DEF Close, GhostType
    <2> QED BY <2>1 DEF PingsInv, NoPings
  <1>11. CASE UNCHANGED <<client, pings, ghost>>
    BY <1>11, TurnAhead, PingsKept
  <1>12. CASE Interrupt \/ Serve \/ ServerRestart \/ DeviceStamps \/ UNCHANGED vars
    BY <1>11, <1>12 DEF Interrupt, Serve, ServerRestart, DeviceStamps, vars
  <1> QED BY <1>1, <1>2, <1>3, <1>4, <1>5, <1>6, <1>7, <1>8, <1>9, <1>10, <1>12
          DEF Next, ClientStep

\* Everything about the pings holds together.
LEMMA PingsAlways == Spec => [](TypeInv /\ StampInv /\ PingsInv)
  <1>1. Init => TypeInv /\ StampInv /\ PingsInv
    BY TypeInit DEF Init, StampInv, OneOwed, StampOwn, PingsInv, NoPings
  <1>2. TypeInv /\ StampInv /\ PingsInv /\ [Next]_vars => (TypeInv /\ StampInv /\ PingsInv)'
    BY TypeStep, StampStep, PingsStep
  <1> QED BY <1>1, <1>2, PTL DEF Spec

\* No ping of a run is printed twice (the removal from the HashMap in do_client),
\* whatever answers to earlier runs come in.
THEOREM EachPrintedOnce == Spec => []PrintedOnce
  BY PingsAlways, PTL DEF PingsInv, PrintedOnce

\* A frame put on the link is of the current run.
LEMMA TransmitNet ==
    ASSUME TypeInv, client.pc # "off", NEW o \in {"Tx", "Sync", "Ping"}, Transmit(Pkt(o)),
           \A k \in DOMAIN toServer : toServer[k][1] = client.run
    PROVE  \A k \in DOMAIN toServer' : toServer'[k][1] = client.run
  <1>1. Pkt(o) \in Packets /\ Pkt(o)[1] = client.run /\ toServer \in Seq(Packets)
    BY PktType DEF TypeInv, TypeOK
  <1>2. CASE toServer' = toServer
    BY <1>2
  <1>3. CASE toServer' = Append(toServer, Pkt(o))
    <2>1. /\ DOMAIN toServer' = 1..(Len(toServer) + 1) /\ DOMAIN toServer = 1..Len(toServer)
          /\ Len(toServer) \in Nat /\ toServer'[Len(toServer) + 1] = Pkt(o)
          /\ \A k \in DOMAIN toServer : toServer'[k] = toServer[k]
      BY <1>1, <1>3, AppendType
    <2>2. \A k \in DOMAIN toServer' : k = Len(toServer) + 1 \/ k \in DOMAIN toServer
      BY <2>1
    <2> QED BY <1>1, <2>1, <2>2
  <1> QED BY <1>2, <1>3 DEF Transmit

\* In a run that found the link empty only its own frames are on it.
LEMMA NetStep == ASSUME TypeInv, NetInv, [Next]_vars PROVE NetInv'
  <1>t. /\ client \in ClientType /\ ghost \in GhostType
        /\ toServer \in Seq(Packets) /\ toClient \in Seq(Packets)
    BY DEF TypeInv, TypeOK, GhostOK, ClientType, GhostType
  <1>k. ASSUME toClient' = toClient, toServer' = toServer, client'.run = client.run,
               client.pc # "off" \/ client'.pc = client.pc, ghost'.stale = ghost.stale
        PROVE  NetInv'
    BY <1>k DEF NetInv
  <1>m. ASSUME toClient # <<>>, toClient' = Tail(toClient), toServer' = toServer,
               client'.run = client.run, client.pc # "off", ghost'.stale = ghost.stale
        PROVE  NetInv'
    <2>1. \A k \in DOMAIN toClient' : k + 1 \in DOMAIN toClient /\ toClient'[k] = toClient[k + 1]
      BY <1>t, <1>m, TailType
    <2> QED BY <1>m, <2>1 DEF NetInv
  <1>1. ASSUME NEW oneway \in BOOLEAN, Start(oneway) PROVE NetInv'
    <2>1. /\ ghost'.stale = (toServer # <<>> \/ toClient # <<>>)
          /\ toServer' = toServer /\ toClient' = toClient
      BY <1>1, <1>t DEF Start, GhostType, net
    <2>2. ~ghost'.stale => toServer' = <<>> /\ toClient' = <<>>
      BY <2>1
    <2>3. DOMAIN <<>> = {} OBVIOUS
    <2> QED BY <2>1, <2>2, <2>3 DEF NetInv
  <1>2. CASE Send
    <2>1. client.pc # "off" /\ client.pc = "send" /\ toClient' = toClient BY <1>2 DEF Send
    <2>2. CASE Transmit(Pkt(IF client.oneway THEN "Tx" ELSE "Ping")) /\ client' = At("stamp")
      <3>1. PICK o \in {"Tx", "Sync", "Ping"} : Transmit(Pkt(o))
        BY <2>2
      <3>2. client'.run = client.run
        BY <1>t, <2>2, AtType
      <3> QED BY <2>1, <3>1, <3>2, TransmitType, TransmitNet DEF NetInv
    <2>3. CASE client' = Continue /\ UNCHANGED <<pending, toServer, ghost>>
      BY <1>k, <2>1, <2>3, ContinueType
    <2> QED BY <1>2, <2>2, <2>3 DEF Send
  <1>3. CASE Stamp
    <2>1. PICK ts : /\ GetTxTimestamp(ts)
                    /\ client' = [client EXCEPT !.ts = ts,
                                    !.pc = IF client.oneway THEN "sync" ELSE "recv"]
      BY <1>3 DEF Stamp
    <2>2. client'.run = client.run /\ client.pc # "off" /\ UNCHANGED net
      BY <1>3, <1>t, <2>1 DEF Stamp, ClientType
    <2> QED BY <1>k, <2>1, <2>2, GetType DEF net
  <1>4. CASE Sync
    <2>1. client.pc # "off" /\ toClient' = toClient BY <1>4 DEF Sync
    <2>2. CASE Transmit(Pkt("Sync")) /\ client' = Forget("consume")
      <3>1. client'.run = client.run
        BY <1>t, <2>2, AtType
      <3> QED BY <2>1, <2>2, <3>1, TransmitType, TransmitNet DEF NetInv
    <2>3. CASE client' = Continue /\ UNCHANGED <<pending, toServer, ghost>>
      BY <1>k, <2>1, <2>3, ContinueType
    <2> QED BY <1>4, <2>2, <2>3 DEF Sync
  <1>5. CASE Consume
    <2>1. PICK ts : GetTxTimestamp(ts)
      BY <1>5 DEF Consume, ConsumeTimestamp
    <2>2. client'.run = client.run /\ client.pc # "off" /\ UNCHANGED net
      BY <1>5, <1>t, AtType DEF Consume
    <2> QED BY <1>k, <2>1, <2>2, GetType DEF net
  <1>6. CASE Recv
    <2>1. client.pc = "recv" /\ Match(Forget("pause"), Continue)
      BY <1>6 DEF Recv
    <2>2. client'.run = client.run
      BY <1>t, <2>1, MatchType, AtType, ContinueType
    <2>3. toServer' = toServer BY <2>1 DEF Match
    <2> QED BY <1>m, <2>1, <2>2, <2>3, MatchType
  <1>7. CASE RecvTimeout
    <2>1. client.pc = "recv" /\ client' = Continue /\ UNCHANGED <<net, ghost>>
      BY <1>7 DEF RecvTimeout, GiveUp
    <2> QED BY <1>k, <2>1, ContinueType DEF net
  <1>8. CASE Pause
    <2>1. client.pc = "pause" /\ UNCHANGED <<net, ghost>>
      BY <1>8 DEF Pause
    <2>2. client'.run = client.run
      BY <1>8, <1>t, <2>1, AtType, ContinueType DEF Pause, AfterPause
    <2> QED BY <1>k, <2>1, <2>2 DEF net
  <1>9. CASE Drain
    <2>1. client.pc = "drain" /\ Match(client, client)
      BY <1>9 DEF Drain
    <2>2. client' = client
      BY <2>1, MatchType
    <2>3. toServer' = toServer BY <2>1 DEF Match
    <2> QED BY <1>m, <2>1, <2>2, <2>3, MatchType
  <1>10. CASE Close
    <2>1. client'.pc = "off" /\ toClient' = toClient
      BY <1>10, <1>t DEF Close, ClientType, net
    <2> QED BY <2>1 DEF NetInv
  <1>11. CASE UNCHANGED <<client, net, ghost>>
    BY <1>k, <1>11 DEF net
  <1>12. CASE Interrupt \/ DeviceStamps \/ UNCHANGED vars
    BY <1>11, <1>12 DEF Interrupt, DeviceStamps, vars, net
  <1>13. CASE Serve
    <2>1. toServer # <<>> /\ toServer' = Tail(toServer) /\ UNCHANGED <<client, ghost>>
      BY <1>13 DEF Serve
    <2>2. /\ \A k \in DOMAIN toServer' : k + 1 \in DOMAIN toServer /\ toServer'[k] = toServer[k + 1]
          /\ Head(toServer) = toServer[1] /\ 1 \in DOMAIN toServer /\ Head(toServer) \in Packets
      BY <1>t, <2>1, TailType
    <2>3. CASE toClient' = toClient
      BY <2>1, <2>2, <2>3 DEF NetInv
    <2>4. CASE toClient' = Append(toClient, Head(toServer)) /\ Head(toServer)[3] = "Ping"
      <3>1. /\ DOMAIN toClient' = 1..(Len(toClient) + 1) /\ DOMAIN toClient = 1..Len(toClient)
            /\ Len(toClient) \in Nat /\ toClient'[Len(toClient) + 1] = toServer[1]
            /\ \A k \in DOMAIN toClient : toClient'[k] = toClient[k]
        BY <1>t, <2>2, <2>4, AppendType
      <3>2. \A k \in DOMAIN toClient' : k = Len(toClient) + 1 \/ k \in DOMAIN toClient
        BY <3>1
      <3> QED BY <2>1, <2>2, <2>4, <3>1, <3>2 DEF NetInv
    <2> QED BY <1>13, <2>3, <2>4 DEF Serve
  <1>14. CASE ServerRestart
    <2>1. toServer' = <<>> /\ UNCHANGED <<client, toClient, ghost>>
      BY <1>14 DEF ServerRestart
    <2>2. DOMAIN toServer' = {} BY <2>1
    <2> QED BY <2>1, <2>2 DEF NetInv
  <1> QED BY <1>1, <1>2, <1>3, <1>4, <1>5, <1>6, <1>7, <1>8, <1>9, <1>10, <1>12, <1>13, <1>14
          DEF Next, ClientStep

\* Where an id waits, a frame at the head of the link is the answer to its ping.
LEMMA PongState ==
    ASSUME TypeInv, PingsInv, NetInv, toClient # <<>>, pings[Head(toClient)[2]] # None,
           ~ghost.stale
    PROVE  /\ Head(toClient)[1] = client.run
           /\ ghost.owed \/ pings[Head(toClient)[2]] \in {Now, Head(toClient)}
  <1>1. toClient \in Seq(Packets) BY DEF TypeInv, TypeOK
  <1>2. Head(toClient) = toClient[1] /\ 1 \in DOMAIN toClient /\ toClient[1] \in Packets
    BY <1>1, TailType
  <1>3. /\ toClient[1][2] \in Ids
        /\ toClient[1] = <<toClient[1][1], toClient[1][2], toClient[1][3]>>
    BY <1>2, PacketParts
  <1>4. client.pc # "off"
    BY <1>2, <1>3 DEF TypeInv, OffClean, NoPings
  <1>5. toClient[1][1] = client.run /\ toClient[1][3] = "Ping"
    BY <1>2, <1>4 DEF NetInv
  <1>6. ghost.owed \/ pings[toClient[1][2]] \in {Now, <<client.run, toClient[1][2], "Ping">>}
    BY <1>2, <1>3 DEF PingsInv
  <1> QED BY <1>2, <1>3, <1>5, <1>6

\* A round trip is printed with the answer to its own ping and the timestamp of that
\* ping, unless frames of an earlier run were under way when this one started or a
\* call has given up on a timestamp (do_client matches an answer by its id alone).
THEOREM PongIsOwn == Spec => PongOwn
  <1>1. Init => NetInv
    BY DEF Init, NetInv
  <1>2. Spec => [](TypeInv /\ PingsInv /\ NetInv)
    BY <1>1, PingsAlways, NetStep, PTL DEF Spec
  <1>3. TypeInv /\ PingsInv /\ NetInv =>
          [LET pong == Head(toClient)
           IN  ClientTakes /\ pings[pong[2]] # None /\ ~ghost.stale =>
                  /\ pong[1] = client.run
                  /\ ghost.owed \/ pings[pong[2]] \in {Now, pong}]_vars
    BY PongState DEF ClientTakes
  <1> QED BY <1>2, <1>3, PTL DEF PongOwn

-----------------------------------------------------------------------------
(* The Tx that a Sync is paired with.                                       *)

\* Frames put on the link behind it, and frames lost, leave a Sync paired.
LEMMA PairedKept ==
    ASSUME NEW r, NEW i, NEW k \in Nat, Paired(r, i, k), txs' = txs,
           ghost.lost \subseteq ghost'.lost, \A j \in 1..k : toServer'[j] = toServer[j]
    PROVE  Paired(r, i, k)'
  <1>1. CASE <<r, i, "Tx">> \in ghost.lost
    BY <1>1 DEF Paired
  <1>2. CASE <<r, i, "Tx">> \notin ghost.lost
    <2>1. \A j \in 1..k : TxAt(j, i)' = TxAt(j, i)
      BY DEF TxAt
    <2>2. \A j \in 1..k : \A l \in (j + 1)..k : l \in 1..k
      OBVIOUS
    <2>3. ASSUME NEW j \in 1..k, TxAt(j, i)', \A l \in (j + 1)..k : ~TxAt(l, i)'
          PROVE  toServer'[j][1] = r
      BY <1>2, <2>1, <2>2, <2>3 DEF Paired
    <2>4. ASSUME \A j \in 1..k : ~TxAt(j, i)' PROVE txs'[i] = None \/ txs'[i][1] = r
      BY <1>2, <2>1, <2>4 DEF Paired
    <2> QED BY <2>3, <2>4 DEF Paired
  <1> QED BY <1>1, <1>2

\* A Tx on the link pairs the Sync that follows it.
LEMMA PairedBehindTx ==
    ASSUME NEW r, NEW i, NEW n \in Nat, toServer'[n + 1] = <<r, i, "Tx">>
    PROVE  Paired(r, i, n + 1)'
  <1>1. TxAt(n + 1, i)' /\ toServer'[n + 1][1] = r
    BY DEF TxAt
  <1>2. ASSUME NEW j \in 1..(n + 1), \A l \in (j + 1)..(n + 1) : ~TxAt(l, i)'
        PROVE  j = n + 1
    <2>1. j # n + 1 => n + 1 \in (j + 1)..(n + 1)
      OBVIOUS
    <2> QED BY <1>1, <1>2, <2>1
  <1>3. n + 1 \in 1..(n + 1) OBVIOUS
  <1> QED BY <1>1, <1>2, <1>3 DEF Paired

\* What a turn of the server does with the entry of an id.
LEMMA ServeTxs ==
    ASSUME TypeInv, Serve, NEW i \in Ids
    PROVE  /\ toServer[1][2] = i /\ toServer[1][3] = "Tx" => txs'[i] = toServer[1]
           /\ ~(toServer[1][2] = i /\ toServer[1][3] = "Tx") => txs'[i] \in {txs[i], None}
  <1>1. txs \in [Ids -> Stamps] /\ toServer \in Seq(Packets) /\ toServer # <<>>
    BY DEF TypeInv, TypeOK, Serve
  <1>2. Head(toServer) = toServer[1] /\ toServer[1] \in Packets
    BY <1>1, TailType
  <1>3. toServer[1][2] \in Ids
    BY <1>2, PacketParts
  <1>4. \/ toServer[1][3] = "Tx" /\ txs' = [txs EXCEPT ![toServer[1][2]] = toServer[1]]
        \/ toServer[1][3] = "Sync" /\ txs' = [txs EXCEPT ![toServer[1][2]] = None]
        \/ toServer[1][3] # "Tx" /\ txs' = txs
    BY <1>2 DEF Serve, Noted, Without
  <1> QED BY <1>1, <1>3, <1>4

\* A frame taken by the server leaves the Syncs behind it paired.
LEMMA PairedServed ==
    ASSUME TypeInv, Serve, NEW r, NEW i \in Ids, NEW k \in 1..Len(toServer), Paired(r, i, k)
    PROVE  Paired(r, i, k - 1)'
  <1>1. /\ toServer # <<>> /\ toServer' = Tail(toServer) /\ ghost' = ghost
        /\ toServer \in Seq(Packets)
    BY DEF Serve, TypeInv, TypeOK
  <1>2. Len(toServer) \in Nat /\ k \in Nat /\ k >= 1
    BY <1>1
  <1>3. \A j \in 1..(k - 1) : toServer'[j] = toServer[j + 1] /\ j + 1 \in 1..k
    BY <1>1, <1>2, TailType
  <1>4. \A j \in 1..(k - 1) : TxAt(j, i)' = TxAt(j + 1, i)
    BY <1>3 DEF TxAt
  <1>5. CASE <<r, i, "Tx">> \in ghost.lost
    BY <1>1, <1>5 DEF Paired
  <1>6. CASE <<r, i, "Tx">> \notin ghost.lost
    <2>1. /\ \A j \in 1..k :
               TxAt(j, i) /\ (\A l \in (j + 1)..k : ~TxAt(l, i)) => toServer[j][1] = r
          /\ (\A j \in 1..k : ~TxAt(j, i)) => txs[i] = None \/ txs[i][1] = r
      BY <1>6 DEF Paired
    <2>2. ASSUME NEW j \in 1..(k - 1), TxAt(j, i)', \A l \in (j + 1)..(k - 1) : ~TxAt(l, i)'
          PROVE  toServer'[j][1] = r
      <3>1. TxAt(j + 1, i) /\ j + 1 \in 1..k
        BY <1>3, <1>4, <2>2
      <3>2. ASSUME NEW l \in (j + 2)..k PROVE ~TxAt(l, i)
        <4>1. l - 1 \in (j + 1)..(k - 1) /\ l - 1 \in 1..(k - 1) /\ (l - 1) + 1 = l
          BY <1>2
        <4> QED BY <1>4, <2>2, <4>1
      <3>3. (j + 1) + 1 = j + 2 BY <1>2
      <3> QED BY <1>3, <2>1, <3>1, <3>2, <3>3
    <2>3. ASSUME \A j \in 1..(k - 1) : ~TxAt(j, i)' PROVE txs'[i] = None \/ txs'[i][1] = r
      <3>1. ASSUME NEW l \in 2..k PROVE ~TxAt(l, i)
        <4>1. l - 1 \in 1..(k - 1) /\ (l - 1) + 1 = l
          BY <1>2
        <4> QED BY <1>4, <2>3, <4>1
      <3>2. CASE TxAt(1, i)
        <4>1. 1 \in 1..k /\ 1 + 1 = 2 BY <1>2
        <4>2. toServer[1][1] = r
          BY <2>1, <3>1, <3>2, <4>1
        <4> QED BY <3>2, <4>2, ServeTxs DEF TxAt
      <3>3. CASE ~TxAt(1, i)
        <4>1. \A j \in 1..k : j = 1 \/ j \in 2..k BY <1>2
        <4>2. txs[i] = None \/ txs[i][1] = r
          BY <2>1, <3>1, <3>3, <4>1
        <4> QED BY <3>3, <4>2, ServeTxs DEF TxAt
      <3> QED BY <3>2, <3>3
    <2> QED BY <2>2, <2>3 DEF Paired
  <1> QED BY <1>5, <1>6

\* The Syncs on the link stay paired when a frame is put on it or lost, and a Tx
\* pairs the Sync to come.
LEMMA TransmitPairs ==
    ASSUME TypeInv, SyncsPaired, client.pc # "off", NEW o \in {"Tx", "Sync", "Ping"},
           Transmit(Pkt(o)), txs' = txs, NEW n \in 1..Runs, n = client.run,
           NEW m \in Ids, m = client.id, o = "Sync" => Paired(n, m, Len(toServer))
    PROVE  /\ SyncsPaired'
           /\ o = "Tx" => Paired(n, m, Len(toServer))'
  <1>1. /\ Pkt(o) \in Packets /\ toServer \in Seq(Packets) /\ Len(toServer) \in Nat
        /\ DOMAIN toServer = 1..Len(toServer) /\ Pkt(o) = <<n, m, o>>
    BY PktType DEF TypeInv, TypeOK, Pkt
  <1>2. ghost \in GhostType BY DEF TypeInv, GhostOK, GhostType
  <1>3. CASE /\ toServer' = toServer
             /\ ghost' = [ghost EXCEPT !.lost = @ \cup ({Pkt(o)} \cap Txs)]
    <2>1. ghost'.lost = ghost.lost \cup ({Pkt(o)} \cap Txs)
      BY <1>2, <1>3 DEF GhostType
    <2>2. ASSUME NEW k \in DOMAIN toServer', NEW r \in 1..Runs, NEW i \in Ids,
                 toServer'[k] = <<r, i, "Sync">>
          PROVE  Paired(r, i, k - 1)'
      <3>1. Paired(r, i, k - 1) /\ k - 1 \in Nat
        BY <1>1, <1>3, <2>2 DEF SyncsPaired
      <3>2. ghost.lost \subseteq ghost'.lost BY <2>1
      <3>3. \A j \in 1..(k - 1) : toServer'[j] = toServer[j] BY <1>3
      <3> QED BY <3>1, <3>2, <3>3, PairedKept
    <2>3. ASSUME o = "Tx" PROVE <<n, m, "Tx">> \in ghost'.lost
      BY <1>1, <2>1, <2>3 DEF Txs
    <2> QED BY <2>2, <2>3 DEF SyncsPaired, Paired
  <1>4. CASE toServer' = Append(toServer, Pkt(o)) /\ ghost' = ghost
    <2>1. /\ Len(toServer') = Len(toServer) + 1 /\ toServer'[Len(toServer) + 1] = <<n, m, o>>
          /\ DOMAIN toServer' = 1..(Len(toServer) + 1)
          /\ \A k \in DOMAIN toServer : toServer'[k] = toServer[k]
      BY <1>1, <1>4, AppendType
    <2>2. ASSUME NEW k \in DOMAIN toServer', NEW r \in 1..Runs, NEW i \in Ids,
                 toServer'[k] = <<r, i, "Sync">>
          PROVE  Paired(r, i, k - 1)'
      <3>1. /\ k - 1 \in Nat /\ \A j \in 1..(k - 1) : j \in DOMAIN toServer
            /\ k = Len(toServer) + 1 \/ k \in DOMAIN toServer
        BY <1>1, <2>1
      <3>2. CASE k \in DOMAIN toServer
        BY <1>4, <2>1, <2>2, <3>1, <3>2, PairedKept DEF SyncsPaired
      <3>3. CASE k = Len(toServer) + 1
        <4>1. r = n /\ i = m /\ o = "Sync" /\ k - 1 = Len(toServer)
          BY <1>1, <2>1, <2>2, <3>3
        <4>2. Paired(r, i, k - 1)
          BY <4>1
        <4> QED BY <1>4, <2>1, <3>1, <4>2, PairedKept
      <3> QED BY <3>1, <3>2, <3>3
    <2>3. ASSUME o = "Tx" PROVE Paired(n, m, Len(toServer))'
      <3>1. PICK l \in Nat : l = Len(toServer) BY <1>1
      <3>2. Paired(n, m, l + 1)'
        BY <2>1, <2>3, <3>1, PairedBehindTx
      <3>3. Len(toServer)' = l + 1 BY <2>1, <3>1
      <3> QED BY <3>2, <3>3 DEF Paired
    <2> QED BY <2>2, <2>3 DEF SyncsPaired
  <1> QED BY <1>3, <1>4 DEF Transmit

\* A step that leaves the link, the entries and the losses alone keeps every Sync
\* paired.
LEMMA PairsKept ==
    ASSUME TypeInv, PairInv, toServer' = toServer, txs' = txs, ghost'.lost = ghost.lost,
           \/ client'.pc \notin {"sync", "stamp"}
           \/ client'.pc = "sync" /\ client.pc = "stamp" /\ client.oneway
           \/ client'.pc = client.pc,
           client'.oneway = client.oneway \/ client'.pc \notin {"sync", "stamp"},
           client'.run = client.run \/ client'.pc \notin {"sync", "stamp"},
           client'.id = client.id \/ client'.pc \notin {"sync", "stamp"}
    PROVE  PairInv'
  <1>1. /\ toServer \in Seq(Packets) /\ Len(toServer) \in Nat
        /\ DOMAIN toServer = 1..Len(toServer)
    BY DEF TypeInv, TypeOK
  <1>2. ASSUME NEW k \in Nat, NEW r, NEW i, Paired(r, i, k) PROVE Paired(r, i, k)'
    BY <1>2, PairedKept
  <1>3. SyncsPaired'
    <2>1. \A k \in DOMAIN toServer : k - 1 \in Nat BY <1>1
    <2> QED BY <1>2, <2>1 DEF PairInv, SyncsPaired
  <1>4. NextPaired'
    <2> SUFFICES ASSUME NEW r \in 1..Runs, NEW i \in Ids,
                        client'.pc = "sync" \/ (client'.pc = "stamp" /\ client'.oneway),
                        r = client'.run, i = client'.id
                 PROVE  Paired(r, i, Len(toServer))'
      BY DEF NextPaired
    <2>1. Paired(r, i, Len(toServer))
      BY DEF PairInv, NextPaired
    <2>2. PICK l \in Nat : l = Len(toServer) BY <1>1
    <2>3. Paired(r, i, l) BY <2>1, <2>2
    <2>4. Paired(r, i, l)' BY <1>2, <2>3
    <2>5. Len(toServer)' = l BY <2>2
    <2> QED BY <2>4, <2>5 DEF Paired
  <1> QED BY <1>3, <1>4 DEF PairInv

\* Every Sync on the link stays paired.
LEMMA PairStep == ASSUME TypeInv, PairInv, [Next]_vars PROVE PairInv'
  <1>t. /\ client \in ClientType /\ ghost \in GhostType
        /\ toServer \in Seq(Packets) /\ Len(toServer) \in Nat
        /\ DOMAIN toServer = 1..Len(toServer)
        /\ client.pc # "off" => client.run \in 1..Runs
    BY LatencyAssumption DEF TypeInv, TypeOK, GhostOK, ClientType, GhostType
  <1>1. ASSUME NEW oneway \in BOOLEAN, Start(oneway) PROVE PairInv'
    <2>1. client'.pc = "send" /\ ghost'.lost = ghost.lost /\ UNCHANGED <<toServer, txs>>
      BY <1>1, <1>t DEF Start, ClientType, GhostType, net
    <2> QED BY <2>1, PairsKept
  <1>2. CASE Send
    <2>1. client.pc # "off" /\ client.pc = "send" /\ txs' = txs BY <1>2 DEF Send
    <2>2. CASE Transmit(Pkt(IF client.oneway THEN "Tx" ELSE "Ping")) /\ client' = At("stamp")
      <3>1. PICK o \in {"Tx", "Sync", "Ping"} :
              Transmit(Pkt(o)) /\ o = IF client.oneway THEN "Tx" ELSE "Ping"
        BY <2>2
      <3>2. /\ client'.pc = "stamp" /\ client'.run = client.run
            /\ client'.id = client.id /\ client'.oneway = client.oneway
        BY <1>t, <2>2, AtType
      <3>3. PICK n \in 1..Runs, m \in Ids : n = client.run /\ m = client.id
        BY <1>t, <2>1 DEF ClientType
      <3>4. SyncsPaired' /\ (client.oneway => Paired(n, m, Len(toServer))')
        BY <2>1, <3>1, <3>3, TransmitPairs DEF PairInv
      <3>5. NextPaired'
        BY <3>2, <3>3, <3>4 DEF NextPaired
      <3> QED BY <3>4, <3>5 DEF PairInv
    <2>3. CASE client' = Continue /\ UNCHANGED <<pending, toServer, ghost>>
      BY <2>1, <2>3, ContinueType, PairsKept
    <2> QED BY <1>2, <2>2, <2>3 DEF Send
  <1>3. CASE Stamp
    <2>1. PICK ts : /\ GetTxTimestamp(ts)
                    /\ client' = [client EXCEPT !.ts = ts,
                                    !.pc = IF client.oneway THEN "sync" ELSE "recv"]
      BY <1>3 DEF Stamp
    <2>2. /\ client'.pc = IF client.oneway THEN "sync" ELSE "recv"
          /\ client'.run = client.run /\ client'.id = client.id /\ client'.oneway = client.oneway
      BY <1>t, <2>1 DEF ClientType
    <2>3. client.pc = "stamp" /\ toServer' = toServer /\ txs' = txs
      BY <1>3 DEF Stamp, net
    <2> QED BY <2>1, <2>2, <2>3, GetType, PairsKept
  <1>4. CASE Sync
    <2>1. client.pc # "off" /\ client.pc = "sync" /\ txs' = txs BY <1>4 DEF Sync
    <2>2. CASE Transmit(Pkt("Sync")) /\ client' = Forget("consume")
      <3>1. client'.pc = "consume"
        BY <1>t, <2>2, AtType
      <3>2. PICK n \in 1..Runs, m \in Ids : n = client.run /\ m = client.id
        BY <1>t, <2>1 DEF ClientType
      <3>3. Paired(n, m, Len(toServer))
        BY <2>1, <3>2 DEF PairInv, NextPaired
      <3>4. SyncsPaired'
        BY <2>1, <2>2, <3>2, <3>3, TransmitPairs DEF PairInv
      <3> QED BY <3>1, <3>4 DEF PairInv, NextPaired
    <2>3. CASE client' = Continue /\ UNCHANGED <<pending, toServer, ghost>>
      BY <2>1, <2>3, ContinueType, PairsKept
    <2> QED BY <1>4, <2>2, <2>3 DEF Sync
  <1>5. CASE Consume
    <2>1. PICK ts : GetTxTimestamp(ts)
      BY <1>5 DEF Consume, ConsumeTimestamp
    <2>2. client'.pc = "pause" /\ UNCHANGED <<toServer, txs>>
      BY <1>5, <1>t, AtType DEF Consume, net
    <2> QED BY <2>1, <2>2, GetType, PairsKept
  <1>6. CASE Recv
    <2>1. client.pc = "recv" /\ Match(Forget("pause"), Continue)
      BY <1>6 DEF Recv
    <2>2. client'.pc \in {"pause", "send", "drain"}
      BY <1>t, <2>1, MatchType, AtType, ContinueType
    <2>3. ghost'.lost = ghost.lost /\ UNCHANGED <<toServer, txs>>
      BY <2>1, MatchType DEF Match
    <2> QED BY <2>2, <2>3, PairsKept
  <1>7. CASE RecvTimeout
    <2>1. client.pc = "recv" /\ client' = Continue /\ UNCHANGED <<toServer, txs, ghost>>
      BY <1>7 DEF RecvTimeout, GiveUp, net
    <2> QED BY <2>1, ContinueType, PairsKept
  <1>8. CASE Pause
    <2>1. client.pc = "pause" /\ UNCHANGED <<toServer, txs, ghost>>
      BY <1>8 DEF Pause, net
    <2>2. client'.pc \in {"send", "drain"}
      BY <1>8, <1>t, <2>1, AtType, ContinueType DEF Pause, AfterPause
    <2> QED BY <2>1, <2>2, PairsKept
  <1>9. CASE Drain
    <2>1. client.pc = "drain" /\ Match(client, client)
      BY <1>9 DEF Drain
    <2>2. client' = client /\ ghost'.lost = ghost.lost /\ UNCHANGED <<toServer, txs>>
      BY <2>1, MatchType DEF Match
    <2> QED BY <2>1, <2>2, PairsKept
  <1>10. CASE Close
    <2>1. client'.pc = "off" /\ ghost'.lost = ghost.lost /\ UNCHANGED <<toServer, txs>>
      BY <1>10, <1>t DEF Close, ClientType, GhostType, net
    <2> QED BY <2>1, PairsKept
  <1>11. CASE Serve
    <2>1. toServer # <<>> /\ toServer' = Tail(toServer) /\ client' = client
      BY <1>11 DEF Serve
    <2>2. /\ Len(toServer') = Len(toServer) - 1
          /\ \A k \in DOMAIN toServer' :
                /\ k + 1 \in DOMAIN toServer /\ toServer'[k] = toServer[k + 1]
                /\ k \in 1..Len(toServer) /\ k = (k + 1) - 1
          /\ Len(toServer) \in 1..Len(toServer)
      BY <1>t, <2>1, TailType
    <2>3. ASSUME NEW k \in DOMAIN toServer', NEW r \in 1..Runs, NEW i \in Ids,
                 toServer'[k] = <<r, i, "Sync">>
          PROVE  Paired(r, i, k - 1)'
      <3>1. Paired(r, i, (k + 1) - 1)
        BY <2>2, <2>3 DEF PairInv, SyncsPaired
      <3>2. Paired(r, i, k)
        BY <2>2, <3>1
      <3> QED BY <1>11, <2>2, <3>2, PairedServed
    <2>4. ASSUME NEW r \in 1..Runs, NEW i \in Ids,
                 client'.pc = "sync" \/ (client'.pc = "stamp" /\ client'.oneway),
                 r = client'.run, i = client'.id
          PROVE  Paired(r, i, Len(toServer))'
      <3>1. PICK l \in 1..Len(toServer) : l = Len(toServer) BY <2>2
      <3>2. Paired(r, i, l)
        BY <2>1, <2>4, <3>1 DEF PairInv, NextPaired
      <3>3. Paired(r, i, l - 1)'
        BY <1>11, <3>1, <3>2, PairedServed
      <3>4. Len(toServer)' = l - 1 BY <2>2, <3>1
      <3> QED BY <3>3, <3>4 DEF Paired
    <2> QED BY <2>3, <2>4 DEF PairInv, SyncsPaired, NextPaired
  <1>12. CASE ServerRestart
    <2>1. toServer' = <<>> /\ txs' = NoPings
      BY <1>12 DEF ServerRestart
    <2>2. DOMAIN toServer' = {} /\ Len(toServer)' = 0 /\ 1..0 = {}
      BY <2>1
    <2>3. ASSUME NEW r \in 1..Runs, NEW i \in Ids PROVE Paired(r, i, Len(toServer))'
      BY <2>1, <2>2 DEF Paired, NoPings
    <2> QED BY <2>2, <2>3 DEF PairInv, SyncsPaired, NextPaired
  <1>13. CASE Interrupt \/ DeviceStamps \/ UNCHANGED vars
    <2>1. UNCHANGED <<client, toServer, txs, ghost>>
      BY <1>13 DEF Interrupt, DeviceStamps, vars, net
    <2> QED BY <2>1, PairsKept
  <1> QED BY <1>1, <1>2, <1>3, <1>4, <1>5, <1>6, <1>7, <1>8, <1>9, <1>10, <1>11, <1>12, <1>13
          DEF Next, ClientStep

\* A Sync at the head of the link finds the Tx of its own run, or none, or its own
\* Tx was lost.
LEMMA PairState ==
    ASSUME TypeInv, PairInv, toServer # <<>>, Head(toServer)[3] = "Sync",
           txs[Head(toServer)[2]] # None
    PROVE  \/ txs[Head(toServer)[2]][1] = Head(toServer)[1]
           \/ <<Head(toServer)[1], Head(toServer)[2], "Tx">> \in ghost.lost
  <1>1. toServer \in Seq(Packets) BY DEF TypeInv, TypeOK
  <1>2. Head(toServer) = toServer[1] /\ 1 \in DOMAIN toServer /\ toServer[1] \in Packets
    BY <1>1, TailType
  <1>3. PICK r \in 1..Runs, i \in Ids :
          toServer[1] = <<r, i, "Sync">> /\ r = toServer[1][1] /\ i = toServer[1][2]
    BY <1>2, PacketParts
  <1>4. Paired(r, i, 1 - 1)
    BY <1>2, <1>3 DEF PairInv, SyncsPaired
  <1>5. 1..(1 - 1) = {} OBVIOUS
  <1> QED BY <1>2, <1>3, <1>4, <1>5 DEF Paired

\* The server takes the timestamps of a Tx and a Sync of one run for a latency, or the
\* Tx of that Sync was lost (do_server keeps the entries of its HashMap by id alone),
\* however the runs of the client and the restarts of the server fall.
THEOREM ServerPairsOwn == Spec => ServerPairs
  <1>1. Init => PairInv
    BY DEF Init, PairInv, SyncsPaired, NextPaired
  <1>2. Spec => [](TypeInv /\ PairInv)
    BY <1>1, TypeInit, TypeStep, PairStep, PTL DEF Spec
  <1>3. TypeInv /\ PairInv =>
          [LET sync == Head(toServer)
               tx == txs[sync[2]]
           IN  ServerTakes /\ sync[3] = "Sync" /\ tx # None =>
                  tx[1] = sync[1] \/ <<sync[1], sync[2], "Tx">> \in ghost.lost]_vars
    BY PairState DEF ServerTakes
  <1> QED BY <1>2, <1>3, PTL DEF ServerPairs

=============================================================================

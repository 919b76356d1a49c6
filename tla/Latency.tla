------------------------------- MODULE Latency -------------------------------
(***************************************************************************)
(* The latency tool (src/bin/latency.rs) with the timestamp calls of the    *)
(* library (lib.rs): a server, and a client that is run several times, one  *)
(* way (Tx, then Sync with the transmit timestamp of Tx) or round trip      *)
(* (Ping, Pong).  The link loses frames; the device delivers a transmit     *)
(* timestamp late or never.                                                 *)
(*                                                                          *)
(* A packet is <<run, id, op>>.  A timestamp is the packet it belongs to,   *)
(* so that the properties can tell whose it is, or Now for the fallback     *)
(* SystemTime::now().  How long a call waits is not counted: it may give up *)
(* whenever nothing has come.                                               *)
(***************************************************************************)
EXTENDS Naturals, Sequences

CONSTANTS
    Runs,    \* bound: runs of the client
    Count,   \* args.count
    NetMax   \* bound: frames under way in each direction, others are lost

ASSUME LatencyAssumption == {Runs, Count, NetMax} \subseteq Nat \ {0}

VARIABLES
    client,    \* [pc, run, oneway, id, ts]: do_client and its tx_timestamp
    pings,     \* the client's HashMap timestamps
    running,   \* RUNNING of the client
    pending,   \* packets whose transmit timestamp the device still owes
    errq,      \* the error queue of the client's socket
    toServer, toClient,
    txs,       \* the server's HashMap timestamps
    ghost      \* what the properties remember: see Init

vars == <<client, pings, running, pending, errq, toServer, toClient, txs, ghost>>
net == <<toServer, toClient>>

Ids == 1..Count
None == <<0, 0, "none">>
NoPings == [i \in Ids |-> None]
Now == <<0, 0, "now">>
Txs == (1..Runs) \X Ids \X {"Tx"}
Pkt(op) == <<client.run, client.id, op>>

-----------------------------------------------------------------------------
(* The client.  `continue` goes to the next turn without the test of RUNNING *)
(* that ends a complete one.                                                *)

At(pc) == [client EXCEPT !.pc = pc]
Forget(pc) == [client EXCEPT !.pc = pc, !.ts = None]
\* Mutant: the same turn again.
SameAgain == Forget("send")
Continue == IF client.id < Count THEN [Forget("send") EXCEPT !.id = @ + 1]
            ELSE Forget("drain")

\* do_client up to the loop.  Frames of an earlier run may still be on the link.
Start(oneway) ==
    /\ client.pc = "off" /\ client.run < Runs
    /\ client' = [client EXCEPT !.pc = "send", !.run = @ + 1, !.oneway = oneway]
    /\ ghost' = [ghost EXCEPT !.stale = toServer # <<>> \/ toClient # <<>>]
    /\ UNCHANGED <<pings, running, pending, errq, net, txs>>

\* sock.send: the frame reaches the server's socket or is lost on the way, and
\* the device owes its timestamp.
Transmit(p) ==
    /\ pending' = pending \cup {p}
    /\ \/ /\ Len(toServer) < NetMax /\ toServer' = Append(toServer, p)
          /\ UNCHANGED ghost
       \/ /\ UNCHANGED toServer
          /\ ghost' = [ghost EXCEPT !.lost = @ \cup ({p} \cap Txs)]

Send ==
    /\ client.pc = "send"
    /\ \/ /\ Transmit(Pkt(IF client.oneway THEN "Tx" ELSE "Ping"))
          /\ client' = At("stamp")
       \/ /\ client' = Continue     \* send failed
          /\ UNCHANGED <<pending, toServer, ghost>>
    /\ UNCHANGED <<pings, running, errq, toClient, txs>>

\* get_tx_timestamp: the first entry of the error queue, whosever it is; the
\* poll gives up after a second.
GetTxTimestamp(ts) ==
    \/ errq # <<>> /\ ts = Head(errq) /\ errq' = Tail(errq) /\ UNCHANGED ghost
    \/ /\ errq = <<>> /\ ts = Now
       /\ ghost' = [ghost EXCEPT !.owed = @ \/ pending # {}]
       /\ UNCHANGED errq

\* Mutant: every ping waiting gets the new timestamp.
StampedAll(ts) == [i \in Ids |-> IF pings[i] # None \/ (~client.oneway /\ i = client.id)
                               THEN ts ELSE None]
Stamped(ts) == IF client.oneway THEN pings ELSE [pings EXCEPT ![client.id] = ts]
Stamp ==
    /\ client.pc = "stamp"
    /\ \E ts \in {Now} \cup {errq[k] : k \in DOMAIN errq} :
          /\ GetTxTimestamp(ts)
          /\ client' = [client EXCEPT !.ts = ts,
                          !.pc = IF client.oneway THEN "sync" ELSE "recv"]
          /\ pings' = Stamped(ts)
    /\ UNCHANGED <<running, pending, net, txs>>

\* The Sync packet carries client.ts.
Sync ==
    /\ client.pc = "sync"
    /\ \/ Transmit(Pkt("Sync")) /\ client' = Forget("consume")
       \/ /\ client' = Continue     \* send failed
          /\ UNCHANGED <<pending, toServer, ghost>>
    /\ UNCHANGED <<pings, running, errq, toClient, txs>>

\* Mutant: the timestamp of Sync stays in the queue.
ConsumeNothing == UNCHANGED <<errq, ghost>>

\* "Must consume packet's timestamp"
ConsumeTimestamp == \E ts \in {Now} \cup {errq[k] : k \in DOMAIN errq} : GetTxTimestamp(ts)
Consume ==
    /\ client.pc = "consume"
    /\ ConsumeTimestamp
    /\ client' = At("pause")
    /\ UNCHANGED <<pings, running, pending, net, txs>>

\* Mutant: the entry is not removed.
EntryKept(m, i) == m
Without(m, i) == [m EXCEPT ![i] = None]

\* A received frame is matched by its id alone.
Match(then, otherwise) ==
    LET pong == Head(toClient) IN
    /\ toClient # <<>> /\ toClient' = Tail(toClient)
    /\ \/ /\ pings[pong[2]] # None
          /\ pings' = Without(pings, pong[2])
          /\ client' = then
          /\ ghost' = [ghost EXCEPT !.done = @ \cup {pong[2]},
                                    !.once = @ /\ pong[2] \notin ghost.done]
       \/ /\ pings[pong[2]] = None
          /\ client' = otherwise
          /\ UNCHANGED <<pings, ghost>>
    /\ UNCHANGED <<running, pending, errq, toServer, txs>>

GiveUp(pc, then) ==
    /\ client.pc = pc /\ toClient = <<>> /\ client' = then
    /\ UNCHANGED <<pings, running, pending, errq, net, txs, ghost>>

Recv == client.pc = "recv" /\ Match(Forget("pause"), Continue)
RecvTimeout == GiveUp("recv", Continue)

\* The pause between turns, then the test of RUNNING.
AfterPause == IF running THEN Continue ELSE At("drain")
Pause ==
    /\ client.pc = "pause" /\ client' = AfterPause
    /\ UNCHANGED <<pings, running, pending, errq, net, txs, ghost>>

\* The last loop waits for the answers that are missing; it ends when there are
\* none, or when its time is over.  The error queue goes with the socket.
Missing == {i \in Ids : pings[i] # None}
Drain == client.pc = "drain" /\ Missing # {} /\ Match(client, client)
Close ==
    /\ client.pc = "drain"
    /\ client' = [client EXCEPT !.pc = "off", !.oneway = FALSE, !.id = 1]
    /\ pings' = NoPings /\ pending' = {} /\ errq' = <<>> /\ running' = TRUE
    /\ ghost' = [ghost EXCEPT !.owed = FALSE, !.once = TRUE, !.done = {}, !.stale = FALSE]
    /\ UNCHANGED <<net, txs>>

Interrupt ==
    /\ client.pc # "off" /\ running /\ running' = FALSE
    /\ UNCHANGED <<client, pings, pending, errq, net, txs, ghost>>

-----------------------------------------------------------------------------
(* The server: recv_perf_packet and one turn of do_server.                  *)

\* Mutant: the first Tx of an id is kept.
NotedFirst(p) == IF txs[p[2]] = None THEN [txs EXCEPT ![p[2]] = p] ELSE txs
Noted(p) == [txs EXCEPT ![p[2]] = p]

Serve ==
    LET p == Head(toServer)
        op == p[3]
        id == p[2]
    IN  /\ toServer # <<>> /\ toServer' = Tail(toServer)
        /\ \/ /\ op = "Tx" /\ txs' = Noted(p)
              /\ UNCHANGED <<toClient>>
           \/ /\ op = "Sync" /\ txs[id] # None
              /\ txs' = Without(txs, id)    \* and is printed
              /\ UNCHANGED toClient
           \/ /\ op = "Sync" /\ txs[id] = None     \* TX ID not found
              /\ UNCHANGED <<txs, toClient>>
           \/ /\ op = "Ping"
              /\ toClient' \in {toClient} \cup
                    IF Len(toClient) < NetMax THEN {Append(toClient, p)} ELSE {}
              /\ UNCHANGED <<txs>>
        /\ UNCHANGED <<client, pings, running, pending, errq, ghost>>

\* SIGINT, and a new server.
ServerRestart ==
    /\ txs' = NoPings /\ toServer' = <<>>
    /\ UNCHANGED <<client, pings, running, pending, errq, toClient, ghost>>

\* The device delivers a timestamp it owes, or never does.
DeviceStamps ==
    /\ \E p \in pending :
          /\ pending' = pending \ {p}
          /\ errq' \in {errq, Append(errq, p)}
    /\ UNCHANGED <<client, pings, running, net, txs, ghost>>

Init ==
    /\ client = [pc |-> "off", run |-> 0, oneway |-> FALSE, id |-> 1, ts |-> None]
    /\ pings = NoPings /\ txs = NoPings
    /\ running = TRUE /\ pending = {} /\ errq = <<>>
    /\ toServer = <<>> /\ toClient = <<>>
    \* Tx packets lost on the way to the server; whether a call has given up on a
    \* timestamp the device still owed; whether frames of an earlier run were
    \* under way when this one started; the ids printed in this run, and whether
    \* each was once
    /\ ghost = [lost |-> {}, owed |-> FALSE, stale |-> FALSE, done |-> {}, once |-> TRUE]

ClientStep == Send \/ Stamp \/ Sync \/ Consume \/ Recv \/ RecvTimeout \/ Pause \/ Drain \/ Close

Next ==
    \/ \E oneway \in BOOLEAN : Start(oneway)
    \/ ClientStep \/ Interrupt \/ Serve \/ ServerRestart \/ DeviceStamps

Spec == Init /\ [][Next]_vars
FairSpec == Spec /\ WF_vars(ClientStep) /\ WF_vars(Serve)

-----------------------------------------------------------------------------
(* Properties.                                                              *)

Packets == (1..Runs) \X Ids \X {"Tx", "Sync", "Ping"}
Stamps == Packets \cup {None, Now}

\* Every variable has its type, and the error queue holds no timestamp of an
\* earlier run.
TypeOK ==
    /\ client \in [pc : {"off", "send", "stamp", "sync", "consume", "recv", "pause", "drain"},
                   run : 0..Runs, oneway : BOOLEAN, id : Ids, ts : Stamps]
    /\ pings \in [Ids -> Stamps] /\ txs \in [Ids -> Stamps] /\ running \in BOOLEAN
    /\ pending \subseteq Packets /\ errq \in Seq(Packets)
    /\ \A p \in pending \cup {errq[k] : k \in DOMAIN errq} : p[1] = client.run
    /\ toServer \in Seq(Packets) /\ toClient \in Seq(Packets)

\* The transmit timestamp the client works with is that of the packet it has just
\* sent, or the fallback, unless a call has given up on a timestamp that came
\* later: from then on every packet gets the one of its predecessor.
StampOwn ==
    client.pc \in {"sync", "recv"} /\ ~ghost.owed
        => client.ts \in {Now, Pkt(IF client.oneway THEN "Tx" ELSE "Ping")}

ClientTakes == toClient # <<>> /\ toClient' = Tail(toClient)
ServerTakes == toServer # <<>> /\ toServer' = Tail(toServer)

\* A round trip is printed with the answer to its own ping, and with the timestamp
\* of that ping if none was given up on, however late answers come, unless frames
\* of an earlier run were still under way when this one started.
PongOwn ==
    [][LET pong == Head(toClient)
       IN  ClientTakes /\ pings[pong[2]] # None /\ ~ghost.stale =>
              /\ pong[1] = client.run
              /\ ghost.owed \/ pings[pong[2]] \in {Now, pong}]_vars

\* Every ping of a run is printed at most once, also when answers to an earlier
\* run come in.
PrintedOnce == ghost.once

\* The server takes the timestamps of a Tx and a Sync of the same run for one
\* latency, unless the Tx of that Sync was lost, when an entry that an earlier
\* run left under the same id takes its place.
ServerPairs ==
    [][LET sync == Head(toServer)
           tx == txs[sync[2]]
       IN  ServerTakes /\ sync[3] = "Sync" /\ tx # None =>
              tx[1] = sync[1] \/ <<sync[1], sync[2], "Tx">> \in ghost.lost]_vars

\* Every run of the client comes to its end, whatever is lost and whether it is
\* interrupted or not.
ClientEnds == client.pc # "off" ~> client.pc = "off"
=============================================================================

----------------------------- MODULE Throughput -----------------------------
(***************************************************************************)
(* The throughput tool (src/bin/throughput.rs): one server (do_server), the *)
(* statistics threads it spawns (stats_worker) and the clients              *)
(* (do_client), over a link that loses frames.                              *)
(*                                                                          *)
(* Time passes in seconds (Tick).  Only what the code compares is kept of   *)
(* it: ages since an Instant was taken, which stop growing once every       *)
(* comparison with them is decided.  total_bytes grows and is reset with    *)
(* pkt_count, which stands for both.                                        *)
(***************************************************************************)
EXTENDS Integers, Sequences, FiniteSets

CONSTANTS
    NClients,    \* the clients, each runs do_client once
    Durations,   \* the values of -d
    DurMax,      \* bound: the longest of them
    Tries,       \* attempts to get an answer (3 in the code)
    DataMax,     \* bound: Data packets of one client
    LostMax,     \* bound: frames to the server that are lost
    QueueMax,    \* bound: frames waiting in the server's socket, others are dropped
    WorkersMax   \* bound: statistics threads alive

ASSUME ToolAssumption ==
    /\ DurMax \in Nat /\ Durations \subseteq 0..DurMax
    /\ {NClients, Tries, DataMax, LostMax, QueueMax, WorkersMax} \subseteq Nat \ {0}

VARIABLES
    client,      \* [pc, tries, timer, id, dur] of each client
    inbox,       \* the kinds of answer in the socket of each client
    toServer,    \* frames in the socket of the server
    srv,         \* the server's process: "on" "closed" "panicked"
    running,     \* TEST_RUNNING
    stats,       \* STATS
    workers,     \* the threads running stats_worker
    ghost        \* what the properties remember

vars == <<client, inbox, toServer, srv, running, stats, workers, ghost>>

AgeMax == DurMax + 1
Ages == 0..AgeMax
Clients == 1..NClients
Nobody == 0
Closed == {"off", "ended", "killed"}

Alive == srv = "on"

-----------------------------------------------------------------------------
(* The link.  A full socket drops, and so may the link.                     *)

Older(a, top) == IF a < top THEN a + 1 ELSE a

Send(f) ==
    \/ /\ Alive /\ Len(toServer) < QueueMax
       /\ toServer' = Append(toServer, f)
       /\ UNCHANGED ghost
    \/ /\ ghost.losses < LostMax \/ Len(toServer) = QueueMax \/ ~Alive
       /\ UNCHANGED toServer
       /\ ghost' = IF Alive THEN [ghost EXCEPT !.losses = Older(@, LostMax)] ELSE ghost

-----------------------------------------------------------------------------
(* The client.                                                              *)

Frame(c, o) == [op |-> o, from |-> c, dur |-> client[c].dur, id |-> client[c].id]

NextPc(pc) == CASE pc = "waitStart" -> "data" [] pc = "waitEnd" -> "ended"
AgainPc(pc) == CASE pc = "waitStart" -> "reqStart" [] pc = "waitEnd" -> "reqEnd"
Wanted(pc) == CASE pc = "waitStart" -> "ResStart" [] pc = "waitEnd" -> "ResEnd"

\* Every loop starts with its own Instant and attempts.
Enter(cl, pc) == [cl EXCEPT !.pc = pc, !.tries = 0, !.timer = 0]

\* wait_for_response skips every frame but the awaited one: of the answers in a
\* client's socket only which kinds are there matters, and only of those it has
\* yet to wait for.
Awaited(pc) ==
    CASE pc \in Closed -> {}
      [] pc \in {"reqStart", "waitStart"} -> {"ResStart", "ResEnd"}
      [] OTHER -> {"ResEnd"}
Proceed(c, cl) ==
    /\ client' = [client EXCEPT ![c] = cl]
    /\ inbox' = [inbox EXCEPT ![c] = @ \cap Awaited(cl.pc)]

\* sock_open and set_timeout.  The clients are alike: they start in their order.
ClientOpen(c) ==
    /\ client[c].pc = "off" /\ \A d \in 1..c - 1 : client[d].pc # "off"
    /\ client' = [client EXCEPT ![c].pc = "reqStart"]
    /\ UNCHANGED <<inbox, toServer, srv, running, stats, workers, ghost>>

\* One turn of the loop that sends ReqStart or ReqEnd.
ClientRequest(c) ==
    LET Req(pc, op, wait) ==
            /\ client[c].pc = pc
            /\ Send(Frame(c, op))
            /\ client' = [client EXCEPT ![c].pc = wait, ![c].timer = 0]
    IN  /\ \/ Req("reqStart", "ReqStart", "waitStart")
           \/ Req("reqEnd", "ReqEnd", "waitEnd")
        /\ UNCHANGED <<inbox, srv, running, stats, workers>>

\* wait_for_response finds the answer.
ClientReceive(c) ==
    LET cl == client[c] IN
    /\ cl.pc \in {"waitStart", "waitEnd"} /\ Wanted(cl.pc) \in inbox[c]
    /\ Proceed(c, Enter(cl, NextPc(cl.pc)))
    /\ UNCHANGED <<toServer, srv, running, stats, workers, ghost>>

\* The client goes on after its last attempt whether it was answered or not.
AfterTimeout(cl) ==
    IF cl.tries + 1 < Tries
       THEN [cl EXCEPT !.pc = AgainPc(cl.pc), !.tries = @ + 1]
       ELSE Enter(cl, NextPc(cl.pc))

ClientTimeout(c) ==
    /\ client[c].pc \in {"waitStart", "waitEnd"} /\ client[c].timer >= 1
    /\ Proceed(c, AfterTimeout(client[c]))
    /\ UNCHANGED <<toServer, srv, running, stats, workers, ghost>>

\* One turn of the Data loop: send, count, and test how long it has run.
DataOver(cl) == cl.timer > cl.dur
ClientData(c) ==
    LET cl == client[c] IN
    /\ cl.pc = "data"
    /\ cl.id < DataMax - 1 \/ (cl.id < DataMax /\ DataOver(cl))
    /\ Send(Frame(c, "Data"))
    /\ client' = [client EXCEPT ![c] =
                    IF DataOver(cl) THEN [Enter(cl, "reqEnd") EXCEPT !.id = @ + 1]
                    ELSE [cl EXCEPT !.id = @ + 1]]
    /\ UNCHANGED <<inbox, srv, running, stats, workers>>

\* SIGINT kills the client until the handler is installed.  Then it clears
\* RUNNING, which the Data loop tests together with its Instant: as if its time
\* were over.  Later it has no effect.
ClientInterrupt(c) ==
    /\ \/ /\ client[c].pc \in {"reqStart", "waitStart"}
          /\ Proceed(c, Enter(client[c], "killed"))
       \/ /\ client[c].pc = "data" /\ ~DataOver(client[c])
          /\ Proceed(c, [client[c] EXCEPT !.timer = client[c].dur + 1])
    /\ UNCHANGED <<toServer, srv, running, stats, workers, ghost>>

-----------------------------------------------------------------------------
(* The server: one frame, or the end.                                       *)

NoStats == [duration |-> 0, pkts |-> 0, lastId |-> 0]
\* Mutant: the counters are not reset.
StatsKept(d) == [stats EXCEPT !.duration = d]
NewStats(d) == [NoStats EXCEPT !.duration = d]

\* What the properties remember: the client of the last accepted test, whether
\* Data of another one was counted since, the age of the test, whether its
\* thread panicked, and how many frames to the server were lost.
Remembered == [owner |-> Nobody, mixed |-> FALSE, age |-> 0, dead |-> FALSE, losses |-> 0]

\* The process ends, with its threads, its socket and its memory.
Exit(how) ==
    /\ srv' = how /\ toServer' = <<>> /\ workers' = <<>>
    /\ running' = FALSE /\ stats' = NoStats /\ ghost' = Remembered

\* The answer is addressed to nobody (the destination is read from the buffer
\* that is being built), so that any of the open sockets may get it.
Answer(o) ==
    \E got \in SUBSET {c \in Clients : o \in Awaited(client[c].pc)} :
        inbox' = [c \in Clients |-> IF c \in got THEN inbox[c] \cup {o} ELSE inbox[c]]

\* Mutant: the thread starts from the counters of the last test.
BaselineFromStats == [age |-> 0, pc |-> "test", fresh |-> TRUE,
                      lastId |-> stats.lastId, lastPkts |-> stats.pkts]

NewWorker == [age |-> 0, pc |-> "test", lastId |-> 0, lastPkts |-> 0, fresh |-> TRUE]
Got(o) == Alive /\ toServer # <<>> /\ Head(toServer).op = o

ServerStart ==
    LET f == Head(toServer) IN
    /\ Got("ReqStart") /\ toServer' = Tail(toServer)
    /\ \/ /\ running
          /\ UNCHANGED <<inbox, running, stats, workers, ghost>>
       \/ /\ ~running /\ Len(workers) < WorkersMax
          /\ stats' = NewStats(f.dur)
          /\ running' = TRUE
          /\ workers' = Append([i \in 1..Len(workers) |->
                                  [workers[i] EXCEPT !.fresh = FALSE]], NewWorker)
          /\ Answer("ResStart")
          /\ ghost' = [ghost EXCEPT !.owner = f.from, !.mixed = FALSE, !.age = 0,
                                    !.dead = FALSE]
    /\ UNCHANGED <<client, srv>>

\* Data is counted whether a test runs or not.
Counted(st, f) == [st EXCEPT !.lastId = f.id, !.pkts = @ + 1]
ServerData ==
    LET f == Head(toServer) IN
    /\ Got("Data") /\ toServer' = Tail(toServer)
    /\ stats' = Counted(stats, f)
    /\ ghost' = [ghost EXCEPT !.mixed = @ \/ f.from # ghost.owner]
    /\ UNCHANGED <<client, inbox, srv, running, workers>>

\* The rate printed at the end is a division by the duration of the last
\* test: by zero when no test was accepted yet, which ends the server.
ServerEnd ==
    /\ Got("ReqEnd")
    /\ Answer("ResEnd")
    /\ \/ stats.duration = 0 /\ Exit("panicked")
       \/ /\ stats.duration # 0
          /\ running' = FALSE
          /\ toServer' = Tail(toServer)
          /\ UNCHANGED <<srv, workers, stats, ghost>>
    /\ UNCHANGED client

\* SIGINT, at the latest point at which the loop has not seen it: RUNNING is
\* tested before every frame and nothing else reads it.
ServerClose ==
    /\ Alive /\ Exit("closed")
    /\ UNCHANGED <<client, inbox>>

-----------------------------------------------------------------------------
(* The statistics thread workers[i].  It shares STATS and TEST_RUNNING with  *)
(* the server without a lock.                                               *)

Remove(s, i) == SubSeq(s, 1, i - 1) \o SubSeq(s, i + 1, Len(s))

NextLap(w) == [w EXCEPT !.pc = "test", !.lastId = stats.lastId, !.lastPkts = stats.pkts]

\* The loop ends when TEST_RUNNING is clear, else the thread sleeps until a
\* second has passed since last_time.
WorkerTest(i) ==
    /\ workers[i].pc = "test"
    /\ workers' = IF running THEN [workers EXCEPT ![i].pc = "asleep"] ELSE Remove(workers, i)
    /\ UNCHANGED <<client, inbox, toServer, srv, running, stats, ghost>>

\* The counters it subtracts are unsigned: below zero a debug build panics
\* and a release build wraps.
Underflow(w) == stats.pkts < w.lastPkts \/ stats.lastId < w.lastId

\* Mutant: the test ends a second early.
ExpiredEarly(w) == w.age >= stats.duration
\* Mutant: TEST_RUNNING stays set.
TestLeftOn == running

\* Awake, it reads the counters; it ends the test when that has lasted long
\* enough, and else goes on to the next lap.
Expired(w) == w.age > stats.duration
TestOver == FALSE
WorkerReport(i) ==
    LET w == workers[i] IN
    /\ w.pc = "awake"
    /\ \/ /\ Underflow(w)
          /\ workers' = Remove(workers, i)
          /\ ghost' = [ghost EXCEPT !.dead = @ \/ (w.fresh /\ running)]
          /\ UNCHANGED running
       \/ /\ Expired(w)
          /\ running' = TestOver
          /\ workers' = Remove(workers, i)
          /\ UNCHANGED ghost
       \/ /\ ~Expired(w)
          /\ workers' = [workers EXCEPT ![i] = NextLap(w)]
          /\ UNCHANGED <<running, ghost>>
    /\ UNCHANGED <<client, inbox, toServer, srv, stats>>

-----------------------------------------------------------------------------
TimerMax(cl) == CASE cl.pc \in {"waitStart", "waitEnd"} -> 1
                  [] cl.pc = "data" -> cl.dur + 1
                  [] OTHER -> 0

\* A thread that can run does so before a second has passed.
Tick ==
    /\ \A i \in DOMAIN workers : workers[i].pc # "test"
    /\ client' = [c \in Clients |->
            [client[c] EXCEPT !.timer = Older(@, TimerMax(client[c]))]]
    /\ workers' = [i \in 1..Len(workers) |->
            [workers[i] EXCEPT !.age = Older(@, AgeMax), !.pc = "awake"]]
    /\ ghost' = [ghost EXCEPT !.age = Older(@, AgeMax)]
    /\ UNCHANGED <<inbox, toServer, srv, running, stats>>

Init ==
    /\ client \in [Clients -> [pc : {"off"}, tries : {0}, timer : {0}, id : {0},
                               dur : Durations]]
    /\ inbox = [c \in Clients |-> {}]
    /\ toServer = <<>>
    /\ srv = "on"
    /\ running = FALSE
    /\ stats = NoStats
    /\ workers = <<>>
    /\ ghost = Remembered

ClientStep(c) ==
    \/ ClientOpen(c) \/ ClientRequest(c) \/ ClientReceive(c) \/ ClientTimeout(c) \/ ClientData(c)
ServerStep == ServerStart \/ ServerData \/ ServerEnd

Next ==
    \/ \E c \in Clients : ClientStep(c) \/ ClientInterrupt(c)
    \/ ServerStep \/ ServerClose
    \/ \E i \in 1..Len(workers) : WorkerTest(i) \/ WorkerReport(i)
    \/ Tick

Spec == Init /\ [][Next]_vars

-----------------------------------------------------------------------------
(* Properties.                                                              *)

Frames == [op : {"ReqStart", "Data", "ReqEnd"}, from : Clients, dur : Durations,
           id : 0..DataMax]
Workers == [age : Ages, pc : {"test", "asleep", "awake"},
            lastId : 0..DataMax, lastPkts : Nat, fresh : BOOLEAN]

\* Every variable has its type: the counters of STATS never go below zero and
\* an age stays within what the code compares.
TypeOK ==
    /\ client \in [Clients -> [pc : {"off", "reqStart", "waitStart", "data", "reqEnd",
                                     "waitEnd", "ended", "killed"},
                               tries : 0..Tries - 1, timer : Ages, id : 0..DataMax,
                               dur : Durations]]
    /\ inbox \in [Clients -> SUBSET {"ResStart", "ResEnd"}]
    /\ toServer \in Seq(Frames)
    /\ srv \in {"on", "closed", "panicked"}
    /\ running \in BOOLEAN
    /\ stats \in [duration : Durations \cup {0}, pkts : Nat, lastId : 0..DataMax]
    /\ workers \in Seq(Workers)
    /\ ghost \in [owner : Clients \cup {Nobody}, mixed : BOOLEAN, age : Ages,
                   dead : BOOLEAN, losses : 0..LostMax]

InFlight(c) == {i \in DOMAIN toServer : toServer[i].op = "Data" /\ toServer[i].from = c}

\* While no frame was lost and no Data of another client was counted since the
\* test of c was accepted, every Data packet c sent is in pkt_count or still in
\* the server's socket: a repeated ReqStart (ignored while a test runs, accepted
\* again after its statistics thread has ended it) never resets the counts of
\* its own test.
CountsOwn ==
    \A c \in Clients :
        Alive /\ ghost.owner = c /\ ~ghost.mixed /\ ghost.losses = 0 =>
            client[c].id = stats.pkts + Cardinality(InFlight(c))

\* The statistics thread of the current test never subtracts below zero while
\* only its own client's Data is counted; threads left over from earlier tests
\* and interleaved clients do (stats_worker, `bytes - last_bytes`,
\* `id - last_id`).
FreshNeverUnderflows ==
    \A i \in DOMAIN workers :
        workers[i].fresh /\ ~ghost.mixed
            => ~Underflow(workers[i])

\* A running test has its own statistics thread, so that a client that dies
\* without ReqEnd does not leave TEST_RUNNING set for ever.
TestWatched ==
    running /\ Alive /\ ~ghost.dead =>
        \E i \in DOMAIN workers : workers[i].fresh

Stale == \E i \in DOMAIN workers : ~workers[i].fresh
EndTaken == toServer # <<>> /\ Head(toServer).op = "ReqEnd" /\ toServer' = Tail(toServer)

\* A test ends by a ReqEnd or after its whole duration, never earlier, unless a
\* thread of an earlier test is still alive and takes the new test for its own.
TestKept == [][running /\ ~running' /\ Alive' =>
                 EndTaken \/ ghost.age > stats.duration \/ Stale]_vars

=============================================================================

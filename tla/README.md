# TLA+ models of libtsn

libtsn lets Linux applications send time-sensitive traffic: a Rust library and
tools (`src/src`) that set up VLAN interfaces and traffic control, and a network
driver for an FPGA network card (`src/driver/XDMA/linux-kernel/xdma`) that does
the scheduling. This directory holds TLA+ models of the parts where several
processes, interrupts or the hardware interfere, TLC configurations that check
them, and TLAPS proofs.

## Inventory

| Component | State | Operations | Hard because | Correct when |
|---|---|---|---|---|
| VLAN registry (`lib.rs`) | one shared-memory segment of 32 pids per VLAN, an fcntl lock on its inode | `sock_open`/`create_vlan`, `sock_close`/`delete_vlan` | several processes, crashes, names unlinked under a waiter, failing calls | a VLAN lives exactly as long as it has users |
| VLAN and tc commands (`vlan.rs`) | the interfaces and the root qdisc in the kernel | `ip link`, `tc qdisc` | one of several commands fails; the qdisc belongs to the parent of all VLANs | the first user sets up all, the last one removes all |
| Configuration (`config.rs`, `tas.rs`, `cbs.rs`) | none (pure) | read, normalise, `calc_credits` | rounding, numbering of classes by the order of the file | the driver does for a priority what the file says |
| Socket data path (`lib.rs`) | the socket | send, receive, timestamps from the error queue | late timestamps | a timestamp belongs to its packet |
| Gate schedule (`tsn.c`) | `qbv`, `qbv_baked` | `tsn_set_qbv`, `bake_qos_config`, `get_timestamps` | borders of slots, wrap-around of the cycle | a frame is sent only into an open gate |
| Credit shaper (`tsn.c`) | `qav[]`: credit, last update, available_at | `tsn_set_qav`, `spend_qav_credit` | conversion of credits, stale state after reconfiguration | a class keeps its bandwidth |
| Queue tracker (`tsn.c`, `alinx_arch.c`) | `pending_packets`, `last_tx_count`, sums of counters | `update_buffer_track`, `append_buffer_track` | counters read rarely, clear or wrap; failures after counting | the hardware queue is never overrun |
| Network device (`xdma_netdev.c`) | `tx_skb`, stopped queue, timestamp slots | `start_xmit`, `setup_tc`, `do_tx_work`, ioctl | interrupt, work queue and transmit path run concurrently | every frame is sent once, a timestamp belongs to its frame |
| Interrupt handler (`libxdma.c`) | masked interrupts | `xdma_isr` | an error on receive leaves before transmit is served | every interrupt is served |
| PTP clock (`alinx_ptp.c`) | `offset`, `ticks_scale`, pulse and cycle registers | gettimex, settime, adjtime, adjfine, conversions | counter read in two halves, readers without the lock | the time advances as asked, the pulse is at a full second |
| Latency tool (`latency.rs`) | timestamps by id on both sides, `RUNNING` | ping-pong, one-way | lost, late and duplicate packets | a round trip is measured for its own packet |
| Throughput tool (`throughput.rs`) | `TEST_RUNNING`, `STATS`, statistics threads | start, data, end with retries | lost answers, threads of the last test | counts belong to one test, and a test ends |
| Sample application (`sample/`) | buffer pool, thread queues | allocate, send, receive, free | threads | an example; the pool is worth a later model |
| Vendored drivers (QDMA, XVSEC, most of `libxdma.c`, `cdev_*`) | | | third-party code | not modelled |

They interact as follows. An application calls the library; the library
serialises itself with other applications through the segment's lock and runs
`ip` and `tc`. `tc` reaches the driver through `xdma_netdev_setup_tc`, which
changes the configuration of the scheduler; frames reach it through
`xdma_netdev_start_xmit`, where the schedule, the credit and the tracker choose
a frame's times, put into a header in front of the frame. The hardware sends or
drops the frame by those times and counts it; an interrupt releases the frame
and wakes the queue.

The hazards in `PROJECT.json` say, line by line, what is hard to test here; the
properties below are aimed at them.

## Modules

| Module | Models | Extends |
|---|---|---|
| `VlanRegistry` | `lib.rs` (create, delete, open, close, shared memory), `vlan.rs` | |
| `VlanUsers` | what the registry promises: a VLAN exists while it has users | |
| `QbvGate` | `bake_qos_config`, `get_timestamps` of `tsn.c`, as operators, next to the meaning of a schedule | |
| `CbsCredits` | `calc_credits` of `cbs.rs`, slopes of `tsn_set_qav`, as operators | |
| `TsnQos` | the transmit path: `start_xmit`, `tsn_fill_metadata`, tracker, credit, counters, interrupt | `QbvGate`, `CbsCredits` |
| `TsnConfig` | `normalise_tas`, `normalise_cbs`, `setup_tas`, `setup_cbs`, composed with the driver | `TsnQos` |
| `TxTimestamp` | timestamp slots: end of `start_xmit`, `do_tx_work`, ioctl, `xdma_isr` | |
| `StampService` | what the timestamp slots promise to those who ask for a timestamp | |
| `PtpClock` | `alinx_ptp.c` and the clock registers of `alinx_arch.c` | |
| `Throughput` | `throughput.rs`: server, statistics threads, clients, the link | |
| `Latency` | `latency.rs` with the send and timestamp calls of `lib.rs` | |
| `MC...` | the instances for TLC | the module of that name |
| `VlanRegistryProofs`, `TsnQosProofs`, `TxTimestampProofs`, `ThroughputProofs`, `LatencyProofs`, `PtpClockProofs` | theorems | the module of that name |
| `QbvProofs` | theorems about the gate schedule, with the lemmas on its slots | `TsnQosProofs` |
| `ConfigProofs` | theorems about the configuration file, on top of those about gate and shaper | `TsnConfig`, `QbvProofs` |

Operators named after a mistake, with a comment "Mutant: ...", are altered forms
of the definition below them; `PROJECT.json` says which property each one breaks.

### VlanRegistry

A process is a program counter `pc[p]` with the local variables of `create_vlan`
and `delete_vlan`: `fd` (the inode behind `shm_fd`), `map` (what `open_shmem`
mapped), `vec` (`vlan_vec`), `res`. Shared are the names and contents of the
segments, the fcntl locks, the links and the root qdisc. Each system call and
each `ip` or `tc` command is a step:

`GetFd` (`shm_open`) - `Lock` - `OpenShmem` - `LoadCreate`/`LoadDelete`
(`read_shmem`, dead pids removed) - `LinkAdd` - `LinkUp` - `SetupQos` -
`SetupChildren` - `OpenShmem` - `StoreCreate`/`StoreDelete` (`write_shmem`) -
`Unlink` - `LinkDel` - `QdiscDel` - `Unlock` - `Bind`.

The lock belongs to the inode, but `read_shmem` and `write_shmem` open the segment
again by its name, and `shm_unlink` takes the name away: the model keeps names and
inodes apart for that reason. A pid vector is the number of times each pid occurs;
the order of entries matters only where a write covers part of a longer vector
(`Overlay`). `Faults` selects crashes and failing commands, shared-memory and
socket calls, and processes that may not signal each other. A failed shared-memory call
(`ShmFails`) is any of `shm_open`, `mmap`, `munmap`, `shm_unlink` and the locking and
unlocking `fcntl`; a `munmap` that fails after the copy is made amounts to a failure of the next
call. The auxiliary `breach` records that a known limit of the protocol was
overrun: `race` (a name was taken away from an inode another process was about to
use), `full` (the segment has no free entry), `perm` (`delete_vlan` took the EPERM of `kill`
for a dead process and dropped the pid of a living user), `shm` (a shared-memory call
failed) and `shared` (the qdisc of the parent
was changed through another VLAN). The safety properties hold for behaviours
without the breach they name; `registry_expect` shows that a race happens. Process ids
are not reused. A socket counts as closed from the first step of `sock_close`: when
`delete_vlan` fails the code leaves the descriptor to its caller, of which the registry
promises nothing more.

`VlanUsers` knows neither locks nor segments nor commands: sockets are opened on
existing VLANs, and only a VLAN without users is removed. `ServesUsers` is its
specification under the mapping `exists` = the interfaces that are there, `users` =
the sockets, `broken` = a breach happened; after a breach nothing is promised.

### TsnQos

One frame at a time is with the driver (`tx`), one may have been refused and
waits at the stack with its metadata (`held`); the hardware holds counts of
best-effort and other frames, and the two kinds of counter (cleared by reading,
running with wrap-around). `Submit` is what the stack offers. `XmitRefused`,
`XmitFull`, `XmitFreed`, `XmitUnmapped` and `XmitSent` are the returns of
`start_xmit`, each with everything done before it. `SetQbv`, `DestroyQbv`, `SetQav` and
`SetMqprio` are the branches of `setup_tc`, with the trailing `bake_qos_config`.
Times are ns; `CounterMod` and `CreditMax` are the widths of the registers and of
`int32_t`, so that wrap-around and conversion happen in small instances. The four drop
counters of `alinx_arch.c` are one, of the three that run on and wrap: the fourth is
cleared by reading, as the counter of sent frames is, which is in the model. When
`skb_padto` fails it has freed the frame already, and `start_xmit` frees it again
(xdma_netdev.c:137-141); `XmitFreed` has the frame gone and not the damage of the second free.

### TsnConfig

`file` is the configuration of the interface as the YAML reader hands it over: a
schedule of entries with priority lists, or the priorities of `cbs` in the order of
the file. `Listing`, `Firsts`, `Named`, `TcNumber`, `PrioMap`, `GateMask`, `Total` and
`Children` are what `normalise_tas` and `normalise_cbs` compute; what the code does in a
loop is a recursive function over the entries. The commands (`todo`) are run one by
one: `RunMap` (the qdisc's priority map), then `RunTaprio` or, in any order,
`RunChild`, each being the driver's action of `TsnQos` for it; frames and time go on
in between (`Drive`). The properties read the file directly, without classes, masks
or slots, so that the numbering, the mask, the map, the baking and the look-up are
checked together. `ConfigAssumption` connects the files with the constants of `TsnQos`,
which are the maps, schedules and credits `tc` may install there: they contain what
normalisation makes of the files.

### TxTimestamp

The same transmit path seen from the timestamps. `start_xmit` is cut where others
can come between: `XmitFill` (clock and configuration are read), `XmitClaim` or
`XmitSkip` (`test_and_set_bit_lock`), `XmitStart` (DMA). `do_tx_work` is
`WorkStart`, `WorkReadHalf` and `WorkRead`, then `WorkRetry`, `WorkGivesUp` or `WorkDeliver`. The
interrupt handler is one step, `IsrServes`, or `IsrRxFails` for its early returns.
A header holds times modulo `Period`; `Extend` finds the period again.

The 64-bit registers are read in two halves, of `Word` ticks, and C does not say which is
read first. Of a timestamp register the halves are two steps, since the hardware may write
it any number of times in between; `TxTstamp` puts them together, and `last_tx_tstamp` keeps
what came out. The clock moves on its own, so that of its two reads only the carry matters:
`AlinxGetSysClock` is the set of values that a read may give at a moment, a `Word` too low
or too high when the low half has just wrapped or is about to (`ReadLag`). `start_xmit` and
`do_tx_work` read it in this way at every place.
`sentAt`, `dropped`, `lost`, `stray`, `torn` and `ahead` are auxiliary: `torn` has the ids for which halves of two
timestamps were put together, `ahead` those whose work read a clock a `Word` too high.

`StampService` knows neither slots nor work items, registers, references or
interrupts: a frame asks for its timestamp through an id before it is sent (`Ask`) or is refused,
the id takes the time of the frame it waits for (`Take`) and delivers it (`Deliver`),
or gives up (`GiveUp`); between `Take` and `Deliver` the id may already wait for the next frame.
It may also take a mixture of that time and the one it took last (`Mix`), but only when the two lie in
different rounds of the low half, which is once in 34 s.
`ServesSenders` is its specification under the mapping `waiting` = the frame of the slot if
the slot is taken, `due` = the frame of a work item about to deliver, `stamp` = the times
given, `latest` = `last`, `fouled` = `stray` and `torn`. An id that is fouled still answers once, but
promises no times.

`TsnQos` and `TxTimestamp` overlap in `start_xmit`, and `Windows` is what the
first one hands to the second: all the latter knows of a schedule is a lead time
and a length. They are separate because their states multiply.

### PtpClock

The counter `clock`, the registers `cycle` and `pulse`, and `offset` and `scale` of
`ptp_data` (`ticks_scale` is a fixed-point number `scale / Den`; conversions
truncate as the code's do). The operation that holds the lock is `op`: `Gettimex`,
`Settime`, `Adjtime` and `Adjfine` begin it, `ReadFirst` and `ReadSecond` read the
two halves of the counter with ticks in between, and the `...End` actions write what
the operation computes, in the order of the code: `AdjfineScale` and `AdjfineOffset`
are apart because the readers without the lock (`ReaderFirst`, `ReaderSecond`, the
transmit and receive paths) can come between. `ref` remembers a time the clock
showed and the tick it was read at. `Settime` takes times from `offset` on only, a bound on
the inputs of an unsigned subtraction, and `ptp_device_init`, which sets the clock for the first time,
is a `Settime` as the first operation.

### Throughput

Clients with the steps of `do_client` (request, wait with retries, data, request to
end, wait), the server's loop with `TEST_RUNNING` and `STATS`, and a sequence of
statistics threads, each with its own memory of the counters. A thread tests
`TEST_RUNNING` (`WorkerTest`), sleeps a second and reports (`WorkerReport`), which
may end the test or, in a debug build, panic on an underflow. Frames to the server
may be lost, and queue up; of the answers in a client's socket only the kinds still
awaited are kept, since `wait_for_response` skips all others. A thread is `fresh`
when it is the one of the current test. `ghost` remembers whose test it is, whether
frames of another client were counted in it (`mixed`), losses, and its age.

### Latency

The client is run several times against one server, one way (Tx, Sync) or round trip
(Ping, Pong). The device owes a timestamp for each packet sent (`pending`) and puts it
into the error queue sooner or later or never; `get_tx_timestamp` takes the FIRST
entry of that queue, or gives up, and the tool falls back to the present time. A
timestamp is the name of the packet it belongs to, so that the properties can tell
whose it is. `txs` is the server's map of receive times by id, `pings` the client's.
Frames are lost, sends fail, the client is interrupted and the server restarted.
`ghost` remembers a timestamp given up and still owed, lost Tx packets, frames of an
earlier run under way at a start, and pings printed twice.

## Runs

All runs but `throughput` set `CHECK_DEADLOCK FALSE`: opens, frames, time and
configuration changes are bounded, and a system without requests may stop. The
expected violations are listed under Findings.

| Run | Bounds | Checks |
|---|---|---|
| `registry_faults` | 2 processes, 1 VLAN, 2 opens each, 4 inodes, 3 entries, all failures, three configurations, fair | `RegistryInv`, `RegistryExclusion`, `UsersRegistered`, `UsedVlanExists`, `LockReleased`, `ServesUsers`, `OperationsEnd` |
| `registry_clean` | 2 processes, 2 VLANs of one parent, 2 opens each, no failures | `VlanTracksUsers`, `VlanReady` |
| `registry_expect` | 2 processes, 1 VLAN, no failures | violation of `OpenedVlanExists` |
| `config` | every schedule file of up to 4 entries of 1 or 2 ns with a cycle of up to 5 over three lists of priorities, 3 files with shaped classes, one frame at any phase of the cycle | `WindowFollowsFile`, `WindowEarliest`, `DelayWindowOpen`, `WindowSoon`, `CreditFollowsFile` |
| `qos_tracker` | 6 frames, queue of 4, limits 2 and 3, counters modulo 5, failing DMA and memory | `TrackerExact`, `TrackerCovers`, `BeLeavesRoom`, `CountersExact` |
| `qos_credit` | 4 frames of two sizes, 30 % of the link, 2 reconfigurations | `CreditSpent`, `BandwidthKept` |
| `qos_window` | schedules of up to 3 entries of even length, frames of odd length (none fills an opening exactly) | violation of `ValidWindow` |
| `tx_slots` | 2 frames, 1 id, halves and period of 2 ticks, no margin, 2 retries, a window of two ticks, 1 ioctl, 1 received frame, clock from 1 to 4, fair | `SlotOwned`, `RefsExact`, `OwnTimestamp`, `WaitsForWindow`, `SlotFreed`, `QueueWakes`, `ServesSenders` |
| `tx_belongs` | 3 frames, 1 id, period 5, margin 1, no change of a high half | violation of `TimestampBelongs` |
| `throughput` | 2 clients, duration 1, 2 attempts, 2 Data packets, queue of 2, losses counted up to 1, 2 threads | `CountsOwn`, `FreshNeverUnderflows`, `TestWatched`, `TestKept` |
| `latency` | 2 runs, count 2, 2 frames each way, fair | `StampOwn`, `PrintedOnce`, `PongOwn`, `ServerPairs`, `ClientEnds` |
| `ptp` | 3 operations, 6 ticks, halves of 4 ticks, seconds of 8 ns, three rates | `PulseAligned`, `CycleMatches`, `RoundTrip`, `ReadsFollow` |

The type invariant of every module that has one is a theorem, for any bounds, so no run
checks it again.
`BandwidthKept` counts two roundings a frame, of `lo_credit` and of `available_at`; the
proof showed that the first alone is not enough: at 90 % of the link the truncation of
`available_at` adds up to more than that after some dozens of frames, far more than an
instance for TLC sends.

Why the bounds are enough to be interesting:

- Two processes with two opens each reach the first user, a second user, the last
  user, a reopening after the last close, and a segment of 3 entries that
  overflows only with pids left over by crashes. The inodes suffice for one new
  segment per open.
- The lists name priority 1 alone, 2 and 1, and all others, in every order over 4
  entries: the numbering depends on the order, a column of one class takes every
  pattern of open and closed, and the clock runs through more than a cycle. The
  frames have all three priorities and two lengths.
- A counter modulo 5 with a queue of 4 is as narrow as the assumption
  `HwQueueSize < CounterMod` allows, and 6 frames let it wrap.
- Halves of 2 ticks and a clock from 1 to 4: each of two frames may be sent in the round in which
  it was submitted or in the next one, the second timestamp differs from the first in the low
  half, the high one, or both, and a carry meets every read of the clock. The period is as long as a half, so the
  window of a frame crosses its border, and every frame with an untorn clock is one that
  `WaitsForWindow` speaks of. The ids of `TxTimestamp` share nothing but the frames, so
  one id shows their behaviour; the proofs are for any set of ids.
- Two clients and two threads are the least with which the thread of an ended test is
  still there when the next one starts, and with one loss each answer and request is
  lost in some behaviour. The proofs are for any numbers.
- Two runs of two packets: a late answer or timestamp meets the next packet of its run
  or the same id of the next run, which is all a third one could do.
- Halves of 4 ticks let a carry happen between the two reads, and three operations
  give a setting, a change of rate, and one that builds on both.

### Fairness

`registry_faults` assumes weak fairness of each process's next step, that is, the
scheduler runs runnable processes and the commands they wait for end. Waiting for
the lock is not a step; the lock is free again whenever its holder ends or dies,
and with bounded opens it cannot be taken away forever. Crashes and failures are
never required to happen; `OperationsEnd` excepts the lock that stays behind after a
failed shared-memory call.

`tx_slots` assumes weak fairness of `start_xmit`, of the interrupt handler, of each
work item (the kernel's work queue runs what is queued) and of the clock. Nothing
is assumed of the hardware: it may keep or drop a frame.

`latency` assumes weak fairness of the client's steps, whose waits all have timeouts,
and of the server's loop. Nothing is assumed of the link, the device, or that an
interrupt comes.

## Findings

- **registry_expect**: `sock_open` expects the interface to exist when
  `create_vlan` returned Ok. A process that waits for the lock of a segment whose
  last user unlinks it goes on with a segment of its own, while the other one still
  deletes the interface.
- **qos_window**: a class whose gate is closed in the first and in the last entry
  gets windows that end before they begin, which the debug assertions of `get_timestamps`
  call invalid (tsn.c:408 and 413). They also call a window of one moment invalid (`from = to`), which
  the same function gives to a frame that fills the rest of an opening exactly, and which is
  right: `WindowFollowsFile` and `DelayWindowOpen` say that a window has one moment only for such
  a frame, since it ends with its opening. `ValidWindow` is the assertion as it stands; its
  instance has no exact fit, so that its trace shows the other case.
- **tx_belongs**: any change of the timestamp register is taken for the awaited
  frame's timestamp, also one made by a frame nobody wanted a timestamp for, and also one that
  only the two halves of the read make.

Each is excluded from the properties that hold by a named condition (`breach`,
`ClosedAtBothEnds`, `stray` and `torn`), so that these say precisely what remains right.
The models also contain, without a finding, the following: a refused frame comes back
with its metadata and is sent with a second header; the second `settime` does not set the
clock to the time asked for; a client whose ResStart is lost sends into a test that
may be another's; a file that names class b before class a gives each queue the
other's credits, and a priority listed twice in an entry opens another gate; the segment entry of a process
that failed in `bind`, the pid of a living user that another user's close purges;
the skb whose timestamp was given up and is never freed;
the frame of a class whose gate never opens, sent although `get_timestamps` answers false; and
the transmit interrupt that stays disabled after a bad received frame.

## Proofs

All are about any sets of processes, VLANs, frames and ids and any values of the
numeric constants, from the assumptions next to the CONSTANTS
(`RegistryAssumption`, `QosAssumption`, `ShaperAssumption`, `ScheduleAssumption`,
`WordAssumption`, `ConfigAssumption`, `TimestampAssumption`, `ToolAssumption`,
`LatencyAssumption`, `PtpAssumption`), which TLC evaluates in the runs.
The inductive invariants were checked by TLC on the instances of the runs before they
were proved. Three assumptions say more than that a constant is a number:

- `ShaperAssumption`: what `tc` installs has a positive idle slope, a send slope that
  costs credit and both limits within `int32_t`. The driver does not check this (an idle slope
  below 1 Mbit/s is rounded to 0, by which `spend_qav_credit` divides, and `hicredit * 1000`
  may overflow at tsn.c:500), but the library
  computes such parameters: `CalculatedCreditsFit` and `CalculatedCreditsFitB` prove it of
  `calc_credits` for every class of 1 Mbit/s, as long as both together need no more than the
  link and their largest frames no more than `int32_t` holds in thousandths of a bit (268 KB).
- `ConfigAssumption`: besides the connection above, an entry of a schedule lasts at least
  1 ns, the entries of `cbs` have different priorities (they are the keys of a YAML
  mapping), no file needs more classes than the driver has, and no stream asks for
  more than the speed of the link. Nothing in the library checks the last two; a stream
  above the speed of the link gives a send slope above 0, and a class that gains credit by
  sending.
- `PtpAssumption`: every rate makes a tick take at least a nanosecond and at most a
  second, and there is a fastest and a slowest one. `ptp_info.max_adj` keeps the rate
  within an eighth of 8 ns a tick.

**VlanRegistryProofs.** `TypeCorrect`, `LockProtects`, `RegistryInvariant`,
`EveryUserRegistered`, `NoSocketWithoutVlan`. `RegistryExclusion` is not inductive:
the lock is one of an inode, the property one of a name. The invariant
`RegistryInv` climbs from the one to the other: a process has an inode open while
it is inside (`Descriptors`) and owns its lock between `lock_shmem` and
`unlock_shmem` (`Holding`); without a race that inode is the one the name leads to
(`NameStable`), hence two processes inside for one VLAN would own one lock. Given
exclusion, the vector a process has in its hand is that of the segment, less one entry of its own and
the pids `kill` does not reach, and every socket is counted in it (`Counted`), hence who deletes the interface saw the
last user go (`UsedVlanExists`).

The second part of the module has `LockGivenBack`, `RegistryServesUsers`, `VlanFollowsUsers`,
`SocketsReady`, built on `RegistryInvariant`. `LockHeld` says more than `LockReleased`:
the owner of a lock is between `lock_shmem` and `unlock_shmem` and the lock is that of the
descriptor it will unlock, so that the step that leaves the operation gives back this
lock. `RegistryServesUsers` is the refinement: the initial state maps to one without VLANs
and users, `Bind` maps to the opening of a socket, whose VLAN is there by
`UsedVlanExists`, `LinkDel` maps to a removal, which is allowed because whoever deletes
the link saw the last user go, and every other step maps to an abstract step or to none;
after a breach the abstract specification allows everything. `CleanInv` (no breach, no
failures) relates each link to the vector of its segment (`LinksFollow`), with what a
process in the middle of an operation is about to do to it, and the root qdisc to the
links of its interface (`QdiscFollows`); `VlanTracksUsers` and `VlanReady` are what is left of
it for a VLAN nobody works on.

**TsnQosProofs.** `QosTypes`, `TrackerBalances`, `QueueNeverOverrun`,
`CountersNeverLost`, `BestEffortBounded`. The books balance (`TrackerExact`), so
the frames dropped since the last reading are at most the frames pending, which is
less than the counter's width; therefore the difference modulo the width is the
number of frames, and the reading is exact (`CountersExact`). A frame is added only
below the limits, which gives `TrackerCovers` and, with the kinds of frames in the
hardware, `BeLeavesRoom`.

The shaper's part is `CreditInvariant`, `AlwaysCharged`, `BandwidthNeverExceeded`, and the two
theorems about `calc_credits`. Neither property is inductive. `CreditInv` has for each class: `last_update` is not
after `available_at`, hence a frame, which is not ready before `available_at`, is never
refused by `spend_qav_credit`; at `available_at` a class lacks less than the credit of
one ns (`CreditLeft`); and what was sent plus the credit that is left is covered by the
credit earned, the burst and the roundings (`Covered`). The last is where
`spend_qav_credit` could go wrong: the lemma `Charged` shows that a conversion to
`int32_t` never adds credit, and that the lower limit adds at most what `CreditLeft` and
the class's `max_frame` allow. The old credit that `tsn_set_qav` leaves in place does no
harm, since the upper limit is applied before the first frame is charged.

**QbvProofs.** `BakeCorrect`, `GateWindows`, `GateInvariant`, `NeverHeldBack`,
`SecondChanceSafe`, `GateRespected`, `GateWait`, `NeverStarved`, for schedules of any length. The beginning of a slot and
the baking loop are recursive functions, and the library's induction theorems cannot be
used, so what they compute is proved for one step, and the lemma `Reaches` goes from the
steps to the whole: a set that holds 1 and with each number below n the next one holds all of
1..n, because otherwise the predecessor would map a finite set injectively into a smaller
one (`FS_PigeonHole`). `Merged` is the invariant of the baking loop: the slots merged so far
alternate, are as long as the entries they stand for, and are open when those open the
gate. Behind it, the slots are laid along the time axis (`Edge`), cycle after cycle: a slot
begins where the one before it ends, with the other gate, also across the border of two
cycles. The lemma `Chosen` follows the search of `get_timestamps` and the one or two slots it skips;
nothing the frame passes over would have been of use (`NothingBefore`). `GateWindows` sums
up what a frame gets: that no frame started in one of its two windows meets a closed gate needs
neither `Fits` nor `ClosedAtBothEnds`; that they are not empty, and where they end, needs both.
`GateRespected` says the first of `TsnQos`, with the class whose gate never opens: its baked
slots are the one pair for which `get_timestamps` answers false (`NeverOpens`).
`GateWait` bounds the waiting: two different slots together last a cycle at most (`SlotPair`),
so the slot in which the search settles, which is at most two further on, opens within a cycle
(`SearchWait`), and so does the opening after that (`NextOpening`).
It needs no `Fits` either: a frame too long for every opening is not put off forever.
`GateInv` carries it to `TsnQos`: the baked slots are those of the installed schedule after
every `tsn_set_qbv`, `tsn_set_qav` and reset, and the last frame got its times from them. The
theorems assume `ScheduleAssumption` (a schedule has an entry, and no entry is empty), and
hold while the time since the schedule's base fits into 64 bits (`BeforeWrap`, 584 years): in
general a cycle does not divide 2^64, so the phase jumps when the clock wraps.

**ConfigProofs.** `ConfigImplementsDriver`, `ConfigInvariant`, `FileFollowed`,
`FilePrompt`, `FileSecondChance`, `CreditFollowed`, for any files. `ConfigSpec` has the driver with its commands taken from a
file, so the theorems about the driver hold of it once each command is shown to be a step of
`TsnQos` (`ConfigImplementsDriver`). `ConfigInv` says that what has been run is in force and
what has not is not there yet, through frames and interrupts in between. The rest is what
normalisation computes. The mask of an entry is a sum of powers of two, written as
recursive functions and not with `2 ^ n`, for which the provers have no rules: adding a power
that is not yet in a sum sets its bit and no other (`AddBit`), so the bit of a class
is set when a priority of the entry has it (`GateMaskBits`). The number of a class counts the
priorities met before, so that two priorities of the schedule never share one
(`OwnClass`) and all others share the last (`SharedClass`). Hence `FileGate`: the gate of a
priority's class, as installed, is open at a time exactly when the file, read by itself, opens the
priority; and with `GateInv` and `GateWindows`, `FileFollowed`. The lemma `FileFrame` says it
of the last frame once, and `FilePrompt` and `FileSecondChance` translate with it what
`NeverHeldBack`, `NeverStarved` and `SecondChanceSafe` say of slots into what the file says. `NoRepeats` is needed: a
priority listed twice is added twice, and its bit is carried into that of another class.
`CreditFollowed` is about the rounding (`SlopesRounded`), once the sums over the streams
of a class are known to be its only stream (`TwoBandwidths`).

**TxTimestampProofs.** `TxTypeCorrect`, `SlotNeverShared`, `NoUseAfterFree` from
the invariant `SlotInv`: besides the properties themselves, `start_xmit` has one
frame at a time (`OneFrame`), and a frame is in one place of the timestamp
machinery at most and not before its claim (`Apart`): without it a reference could
be counted twice. `NeverTooEarly` adds that the times of a slot are those of its
frame (`Waiting`), and the lemma `ExtendExact`: for times less than
`Period - Margin` ahead, the low bits and the clock give the time back.
`TimestampOwn` adds that a frame passes through the hardware once (`Journey`) and
that the register of an id without stray frames changes only by the frame of its
slot, from the last timestamp to that of this frame (`OwnRegister`): hence the half that has been read is one
of these two times, and what the second one completes is one of them or is torn. The lemma
`PartsWhole` puts a time together from its own halves.

`DriverServesSenders` is the refinement of `StampService`. Besides those invariants it needs
`Answers`: no frame has a time yet to come (`TimesGrow`); a frame has a time only once it has left the hardware, so that it asks
before it is sent and is sent once (`SentOnce`); a frame with an answer is neither in a
slot nor given up (`AnsweredOnce`). `XmitClaim` then maps to `Ask` or, with the id of no
timestamp, to `Refuse`, `XmitSkip` to `Foul` or nothing, `WorkRead`, when it finds another time, to `Take` or to `Mix` (`TakenOwn`: a mixture of two times in one round is one of
them, since their high halves are equal), `WorkDeliver` and `WorkGivesUp` to `Deliver` and `GiveUp`, and the hardware's steps to
`Send` and `Drop`; every other step maps to none.

**ThroughputProofs.** `ToolTypes`, `AlwaysWatched`, `NoEarlyEnd`, `NoUnderflow`,
`CountedOnce`, from three invariants. `ThreadInv`: the fresh thread is as old as its
test (`FreshAge`), so that only it can find the duration over in time, and while a test
runs and no thread has panicked, a thread is there to end it (`TestWatched`);
`TestKept`, the action property that a test ends by a ReqEnd or after its whole
duration unless a thread of an earlier test is left, follows from it. `OrderInv`: Data of a client stays in order and is not ahead of
the client (`QueueOrder`), and while the counters hold frames of their owner only,
`last_id` is not ahead of what still comes (`Ahead`); hence the subtraction of ids
cannot underflow. `CountInv`: a client's Data comes behind its last ReqStart
(`StartFirst`, `StartWhole`), hence, when nothing was lost, the count since that
ReqStart and the Data still in the queue add up to what was sent (`CountsOwn`).

**LatencyProofs.** `TypesKept`, `StampIsOwn`, `EachPrintedOnce`, `PongIsOwn`,
`ServerPairsOwn`. `StampInv`: until a call gives up, at most one timestamp is owed or
queued, that of the packet just sent, so the first entry of the error queue is the right one.
`PingsInv`: an id that is still to be sent neither waits nor was printed, so a late answer
cannot bring a printed ping back. `NetInv`: only Pings are answered, and when the link was empty at
the start, only frames of this run are on it; with `StampInv` this gives `PongOwn`.
`PairInv`: in front of each Sync on the link, or else in the server's map, the last Tx of
its id is of the same run, or its Tx was lost (`SyncsPaired`, and `NextPaired` for the Sync
that is not yet sent); the link keeps the order, so the Sync finds that Tx.

**PtpClockProofs.** `TypesKept`, `ConversionsInvert`, `PulsesAligned`, `CyclesMatch`,
`ReadingsFollow`. The conversions are two truncating divisions, and a tick of at least
1 ns makes the second undo the first up to one tick. `RegsInv` says which of the registers
agree with `offset` and `scale` in the middle of which operation. `ReadsFollow` compares
a reading with one before, with operations, torn reads and readers without the lock in
between. Its invariant `ReadsInv` has an *anchor*: a tick between the two readings from
which on the present parameters hold and at which the time shown is within the
bounds (`Anchor`), so that a reading after the anchor is in the bounds by the present rate,
and `adjfine`, which keeps the time of the tick it read, moves the anchor there and pays
one ns. A reader that nobody raced has the parameters of one moment (`ReaderInv`).

Only model-checked:

- the liveness properties (`OperationsEnd`, `SlotFreed`, `QueueWakes`, `ClientEnds`), which
  need fairness; that a throughput test ends is checked only by its safety core,
  `TestWatched`: with fairness the instance is too large;
- what the runs that end in a violation show.

## Not modelled

- Vendored and third-party code, which is most of the lines under `driver/`: QDMA,
  XVSEC, the character devices and the DMA library of XDMA, their tools. The TSN driver
  uses of it what `TsnQos` and `TxTimestamp` model of the DMA engine and interrupts.
- Opening and closing the network device; the contents of received frames.
- The counters of the hardware are assumed 0 when the driver is loaded.
- `PtpClock` is not composed with the transmit path: `TsnQos` and `TxTimestamp` have a
  clock that does not go back. Times near 2^64 are out of its range.
- Units, YAML, `ethtool`, and the text of commands, with it the `egress-qos-map`.
- `recv`, `recv_msg`, `set_timeout` and `get_rx_timestamp`, one system call each.
- Argument parsing, printing, `time.rs` (sleep calibration), the predecessor in Python,
  the demonstration under `sample/`.

## Plan

Done: registry, transmit path, timestamps, throughput and latency tools, PTP clock,
configuration, and the theorems listed above: every safety property of a passing run is a
theorem. What is left:

1. Opening and closing of the network device while frames and work items are under way.
2. A clock that goes back, composed with the transmit path.

------------------------------ MODULE PtpClock ------------------------------
(***************************************************************************)
(* The PTP clock of the driver (alinx_ptp.c, alinx_arch.c): a free running  *)
(* tick counter, and the offset and ticks_scale that turn ticks into a      *)
(* time.  The operations of the ptp_clock_info run one at a time under the  *)
(* spin lock; the transmit and receive paths convert without it.            *)
(*                                                                          *)
(* ticks_scale, a double, is a fixed-point number: scale / Den nanoseconds  *)
(* per tick.  A conversion from double truncates.  Times are far from 2^64, *)
(* where u64 arithmetic is that of the integers.                            *)
(***************************************************************************)
EXTENDS Integers

CONSTANTS
    Den, Nominal,  \* TICKS_SCALE is Nominal / Den
    Scales,        \* the scales adjfine asks for, scaled_ppm # 0
    NsIn1s,        \* NS_IN_1S
    Half,          \* 2^32: the counter is read in two halves
    Deltas,        \* arguments of adjtime
    Hosts,         \* arguments of settime
    ClockMax,      \* bound: ticks
    OpsMax         \* bound: operations

ASSUME PtpAssumption ==
    /\ {Den, Nominal, NsIn1s, Half} \subseteq Nat \ {0}
    /\ Scales \subseteq Nat \ {0}
    /\ Deltas \subseteq Int /\ Hosts \subseteq Nat
    /\ {ClockMax, OpsMax} \subseteq Nat
    \* ptp_info.max_adj keeps every scale within an eighth of 8 ns per tick: a tick
    \* takes at least a nanosecond and at most a second, and there is a fastest rate.
    /\ \A s \in Scales \cup {Nominal} : Den <= s /\ s <= NsIn1s * Den
    /\ \E s \in Scales \cup {Nominal} : \A u \in Scales \cup {Nominal} : u <= s
    /\ \E s \in Scales \cup {Nominal} : \A u \in Scales \cup {Nominal} : s <= u

VARIABLES
    clock,         \* REG_SYS_CLOCK
    cycle,         \* REG_CYCLE_1S
    pulse,         \* REG_NEXT_PULSE_AT
    offset, scale, \* ptp_data
    op,            \* the operation that holds ptp_data->lock
    reader,        \* a conversion without the lock
    ref,           \* what the properties remember: a time the clock showed
    ops            \* operations so far

vars == <<clock, cycle, pulse, offset, scale, op, reader, ref, ops>>
params == <<cycle, pulse, offset, scale>>

-----------------------------------------------------------------------------
(* Conversions.                                                             *)

Mul(s, c) == (s * c) \div Den
Time(c, s, o) == Mul(s, c) + o           \* alinx_get_timestamp
\* Mutant: the offset is not taken off.
TicksNoOffset(t, s, o) == (t * Den) \div s
\* Mutant: the nominal scale is used.
TicksNominal(t, s, o) == ((t - o) * Den) \div Nominal
Ticks(t, s, o) == ((t - o) * Den) \div s \* alinx_timestamp_to_sysclock

\* set_pulse_at: the tick of the next full second.
NextPulse(c, s, o) ==
    LET now == Time(c, s, o) IN Ticks(now - (now % NsIn1s) + NsIn1s, s, o)

Reserved == (NsIn1s * Den) \div Nominal  \* RESERVED_CYCLE
\* Mutant: the register is not written.
CycleKept(s) == cycle
CycleOf(s) == (NsIn1s * Den) \div s      \* alinx_set_ticks_scale

-----------------------------------------------------------------------------
(* The operations.  All but the reader hold the lock from their start until *)
(* Idle.  "settime" and "fine" are between the write of ticks_scale and the *)
(* write of offset, which the readers can see.                              *)

Idle == [kind |-> "none", arg |-> 0, half |-> "none", part |-> 0, clk |-> 0,
         from |-> 0, read |-> FALSE, torn |-> FALSE]
Lock(k, a) == [Idle EXCEPT !.kind = k, !.arg = a]
Window == op.kind \in {"settime", "fine"}

NoRef == [known |-> FALSE, val |-> 0, clk |-> 0, fines |-> 0]
RefAt(v, c) == [known |-> TRUE, val |-> v, clk |-> c, fines |-> 0]

\* A reader that overlaps a change of the parameters is not judged.
Raced == IF reader.pc = "idle" THEN reader ELSE [reader EXCEPT !.raced = TRUE]

Begin ==
    /\ op.kind = "none" /\ ops < OpsMax /\ ops' = ops + 1
    /\ UNCHANGED <<clock, cycle, pulse>>

Gettimex ==
    /\ Begin /\ op' = Lock("gettimex", 0)
    /\ UNCHANGED <<offset, scale, reader, ref>>

\* alinx_ptp_settime, first part: the scale becomes the nominal one.  host >= offset is a
\* bound of the model, not a test of the code: from a time below the old offset the clock
\* would be set to one below zero, which wraps around in the code (see SettimeEnd).  The
\* call in ptp_device_init is an operation like any other, as a rule the first one.
Settime(host) ==
    /\ Begin /\ host >= offset
    /\ scale' = Nominal /\ op' = Lock("settime", host)
    /\ reader' = Raced /\ ref' = NoRef
    /\ UNCHANGED offset

\* alinx_ptp_adjtime: the offset is changed before the clock is read.
Adjtime(delta) ==
    /\ Begin /\ offset' = offset + delta /\ op' = Lock("pulse", 0)
    /\ reader' = Raced /\ ref' = IF ref.known THEN [ref EXCEPT !.val = @ + delta] ELSE ref
    /\ UNCHANGED scale

\* alinx_ptp_adjfine; for scaled_ppm = 0 it reads the clock and leaves the
\* scale as it is, also when that is not the nominal one.
Adjfine(s) ==
    /\ Begin /\ op' = Lock(IF s = 0 THEN "nothing" ELSE "adjfine", s)
    /\ UNCHANGED <<offset, scale, reader, ref>>

\* alinx_get_sys_clock: two reads, in the order the compiler likes.
ReadFirst ==
    \E h \in {"hi", "lo"} :
        /\ op.kind \notin {"none", "fine"} /\ ~op.read /\ op.half = "none"
        /\ op' = [op EXCEPT !.half = h, !.from = clock,
                            !.part = IF h = "hi" THEN clock \div Half ELSE clock % Half]
        /\ UNCHANGED <<clock, params, reader, ref, ops>>

\* The value is torn when a carry came between the two reads.
Assemble(hi, lo) == (hi * Half) + lo
ReadSecond ==
    LET c == IF op.half = "hi" THEN Assemble(op.part, clock % Half)
             ELSE Assemble(clock \div Half, op.part)
    IN  /\ op.half # "none"
        /\ op' = [op EXCEPT !.half = "none", !.part = 0, !.from = 0, !.read = TRUE,
                            !.clk = c, !.torn = c \notin op.from..clock]
        /\ UNCHANGED <<clock, params, reader, ref, ops>>

Finish(kind) == op.kind = kind /\ op.read /\ op' = Idle /\ UNCHANGED <<clock, ops>>

GettimexEnd ==
    /\ Finish("gettimex")
    /\ ref' = IF op.torn THEN ref ELSE RefAt(Time(op.clk, scale, offset), op.clk)
    /\ UNCHANGED <<params, reader>>

\* The new offset is computed from a time that includes the old one, so that
\* the clock shows the time asked for only if the old offset was zero.
SettimeEnd ==
    LET o == op.arg - Time(op.clk, scale, offset) IN
    /\ Finish("settime")
    /\ offset' = o /\ cycle' = Reserved /\ pulse' = NextPulse(op.clk, scale, o)
    /\ ref' = IF op.torn \/ offset # 0 THEN NoRef ELSE RefAt(op.arg, op.clk)
    /\ UNCHANGED <<scale, reader>>

PulseEnd ==
    /\ Finish("pulse") /\ pulse' = NextPulse(op.clk, scale, offset)
    /\ UNCHANGED <<cycle, offset, scale, reader, ref>>

NothingEnd == Finish("nothing") /\ UNCHANGED <<params, reader, ref>>

\* adjfine writes the scale, then the offset and cycle_1s; the time the clock
\* shows at the tick it has read stays the same.
AdjfineScale ==
    /\ op.kind = "adjfine" /\ op.read
    /\ scale' = op.arg
    /\ op' = [op EXCEPT !.kind = "fine", !.arg = Time(op.clk, scale, offset)]
    /\ reader' = Raced
    /\ ref' = IF op.torn \/ ~ref.known \/ ref.clk > op.clk THEN NoRef
              ELSE [ref EXCEPT !.fines = @ + 1]
    /\ UNCHANGED <<clock, cycle, pulse, offset, ops>>

\* Mutant: the offset is corrected in the wrong direction.
CorrectionNegated(cur, new) == new - cur
Correction(cur, new) == cur - new
AdjfineOffset ==
    /\ op.kind = "fine"
    /\ offset' = offset + Correction(op.arg, Time(op.clk, scale, offset))
    /\ cycle' = CycleOf(scale)
    /\ op' = Lock("pulse", 0)
    /\ UNCHANGED <<clock, pulse, scale, reader, ref, ops>>

-----------------------------------------------------------------------------
(* alinx_sysclock_to_timestamp of a tick the hardware has noted, without    *)
(* the lock: offset and ticks_scale are two reads in either order.          *)

NoReader == [pc |-> "idle", clk |-> 0, got |-> 0, raced |-> FALSE]

ReaderFirst ==
    /\ reader.pc = "idle"
    /\ reader' \in {[pc |-> "offset", clk |-> clock, got |-> offset, raced |-> Window],
                    [pc |-> "scale", clk |-> clock, got |-> scale, raced |-> Window]}
    /\ UNCHANGED <<clock, params, op, ref, ops>>

ReaderSecond ==
    LET v == IF reader.pc = "offset" THEN Time(reader.clk, scale, reader.got)
             ELSE Time(reader.clk, reader.got, offset)
    IN  /\ reader.pc # "idle" /\ reader' = NoReader
        /\ ref' = IF reader.raced \/ (ref.known /\ reader.clk < ref.clk) THEN ref
                  ELSE RefAt(v, reader.clk)
        /\ UNCHANGED <<clock, params, op, ops>>

Tick ==
    /\ clock < ClockMax /\ clock' = clock + 1
    /\ UNCHANGED <<params, op, reader, ref, ops>>

Init ==
    /\ clock = 0 /\ cycle = 0 /\ pulse = 0
    /\ offset = 0 /\ scale = Nominal /\ op = Idle
    /\ reader = NoReader /\ ref = NoRef /\ ops = 0

Next ==
    \/ Gettimex \/ GettimexEnd
    \/ \E h \in Hosts : Settime(h)
    \/ SettimeEnd
    \/ \E d \in Deltas : Adjtime(d)
    \/ PulseEnd
    \/ \E s \in Scales \cup {0} : Adjfine(s)
    \/ NothingEnd \/ AdjfineScale \/ AdjfineOffset
    \/ ReadFirst \/ ReadSecond \/ ReaderFirst \/ ReaderSecond \/ Tick

Spec == Init /\ [][Next]_vars

-----------------------------------------------------------------------------
(* Properties.                                                              *)

Kinds == {"none", "gettimex", "settime", "adjfine", "fine", "pulse", "nothing"}
Clocks == 0..((ClockMax \div Half) * Half + Half - 1)

\* Every variable has its type; a clock value put together from two halves stays
\* below the next multiple of 2^32, carry or not.
TypeOK ==
    /\ clock \in Clocks /\ cycle \in Nat /\ pulse \in Int
    /\ offset \in Int /\ scale \in Scales \cup {Nominal}
    /\ op \in [kind : Kinds, arg : Int, half : {"none", "hi", "lo"}, part : Nat,
               clk : Clocks, from : Clocks, read : BOOLEAN, torn : BOOLEAN]
    /\ reader \in [pc : {"idle", "offset", "scale"}, clk : Clocks, got : Int,
                   raced : BOOLEAN]
    /\ ref \in [known : BOOLEAN, val : Int, clk : Clocks, fines : Nat]
    /\ ops \in 0..OpsMax

Fastest == CHOOSE s \in Scales \cup {Nominal} : \A u \in Scales \cup {Nominal} : u <= s
Slowest == CHOOSE s \in Scales \cup {Nominal} : \A u \in Scales \cup {Nominal} : s <= u

\* The time read by gettimex, or converted by a reader, follows what was asked
\* of the clock: since the last reading (moved by adjtime's delta, and begun by
\* a settime on a clock whose offset was zero) it has advanced as the ticks in
\* between say, at a rate adjfine was asked for, up to one nanosecond for each
\* change of the rate.  Excepted are torn reads of the counter, readers that overlap
\* a change of the parameters, and readings between the tick adjfine has read
\* and its change of the rate, which takes effect from that tick on.
ReadsFollow ==
    [][(GettimexEnd \/ ReaderSecond) /\ ref.known /\ ref' # ref /\ ref'.clk >= ref.clk =>
        LET ticks == ref'.clk - ref.clk
            slack == ref.fines + 1
        IN  /\ ref'.val - ref.val <= Mul(Fastest, ticks) + slack
            /\ ref'.val - ref.val >= Mul(Slowest, ticks) - slack]_vars

\* Outside an operation the next pulse is at a full second of the PTP time: the
\* second begins between that tick and the one after it, also when the tick was
\* computed from a torn counter.
PulseAligned ==
    op.kind = "none" =>
        LET next == Time(pulse + 1, scale, offset)
        IN  next - (next % NsIn1s) >= Time(pulse, scale, offset)

\* Outside an operation the register of ticks per second (0 stands for the
\* nominal value, alinx_get_cycle_1s) agrees with ticks_scale.
CycleMatches ==
    op.kind = "none" =>
        (IF cycle = 0 THEN Reserved ELSE cycle) = (NsIn1s * Den) \div scale

\* The tick of a time (fill of a frame's window, tsn.c) is that of the tick the
\* time was converted from, or the one before it.
RoundTrip ==
    Ticks(Time(clock, scale, offset), scale, offset) \in {clock - 1, clock}
=============================================================================

--------------------------- MODULE PtpClockProofs ---------------------------
(***************************************************************************)
(* What the PTP clock promises for every scale, second and width of the     *)
(* counter's halves: the conversions invert each other up to one tick, the  *)
(* pulse and cycle registers agree with the parameters outside an           *)
(* operation, and readings follow what was asked of the clock.              *)
(***************************************************************************)
EXTENDS PtpClock, TLAPS

-----------------------------------------------------------------------------
(* Division.                                                                *)

\* A positive factor cancels.
LEMMA CancelLess ==
    ASSUME NEW m \in Nat \ {0}, NEW a \in Int, NEW b \in Int, m * a < m * b
    PROVE  a < b
  <1>1. a >= b => m * a >= m * b
    <2>1. a >= b => \E d \in Nat : a = b + d
      <3>1. a >= b => a - b \in Nat /\ a = b + (a - b) OBVIOUS
      <3> QED BY <3>1
    <2>2. ASSUME NEW d \in Nat, a = b + d PROVE m * a >= m * b
      <3>1. m * d \in Nat OBVIOUS
      <3>2. m * a = m * b + m * d BY <2>2
      <3> QED BY <3>1, <3>2
    <2> QED BY <2>1, <2>2
  <1>2. m * a \in Int /\ m * b \in Int OBVIOUS
  <1> QED BY <1>1, <1>2

\* The quotient rounds down.
LEMMA DivFloor ==
    ASSUME NEW m \in Nat \ {0}, NEW x \in Int
    PROVE  /\ x \div m \in Int /\ m * (x \div m) \in Int
           /\ m * (x \div m) <= x /\ x < m * (x \div m) + m
  OBVIOUS

\* A number fits below the quotient exactly if its multiple fits.
LEMMA DivLower ==
    ASSUME NEW m \in Nat \ {0}, NEW x \in Int, NEW q \in Int, m * q <= x
    PROVE  q <= x \div m
  <1>1. PICK d \in Int : d = x \div m /\ x < m * d + m BY DivFloor
  <1>2. m * (d + 1) = m * d + m /\ m * q \in Int /\ m * d \in Int BY <1>1
  <1>3. m * q < m * (d + 1) BY <1>1, <1>2
  <1>4. q < d + 1 BY <1>3, CancelLess
  <1> QED BY <1>1, <1>4

LEMMA DivUpper ==
    ASSUME NEW m \in Nat \ {0}, NEW x \in Int, NEW q \in Int, x < m * q
    PROVE  x \div m < q
  <1>1. PICK d \in Int : d = x \div m /\ m * d <= x BY DivFloor
  <1>2. m * d \in Int /\ m * q \in Int BY <1>1
  <1>3. m * d < m * q BY <1>1, <1>2
  <1>4. d < q BY <1>3, CancelLess
  <1> QED BY <1>1, <1>4

\* The quotient of a larger number is no smaller.
LEMMA DivMono ==
    ASSUME NEW m \in Nat \ {0}, NEW x \in Int, NEW y \in Int, x <= y
    PROVE  x \div m <= y \div m
  <1>1. PICK d \in Int : d = x \div m /\ m * d <= x /\ m * d \in Int BY DivFloor
  <1>2. m * d <= y BY <1>1
  <1> QED BY <1>1, <1>2, DivLower

\* What ticks the scale makes of two spans, up to one nanosecond of truncation.
LEMMA MulSplit ==
    ASSUME NEW s \in Nat, NEW x \in Int, NEW y \in Int
    PROVE  /\ Mul(s, x) \in Int /\ Mul(s, y) \in Int /\ Mul(s, x + y) \in Int
           /\ Mul(s, x) + Mul(s, y) <= Mul(s, x + y)
           /\ Mul(s, x + y) <= Mul(s, x) + Mul(s, y) + 1
  <1>d. Den \in Nat \ {0} BY PtpAssumption
  <1>1. PICK X \in Int, Y \in Int : X = s * x /\ Y = s * y OBVIOUS
  <1>2. s * (x + y) = X + Y BY <1>1
  <1>3. PICK p \in Int, q \in Int : p = X \div Den /\ q = Y \div Den
    BY <1>d, DivFloor
  <1>4. /\ Den * p \in Int /\ Den * q \in Int /\ Den * p <= X /\ X < Den * p + Den
        /\ Den * q <= Y /\ Y < Den * q + Den
    BY <1>d, <1>3, DivFloor
  <1>5. Den * (p + q) = Den * p + Den * q /\ Den * (p + q + 2) = Den * p + Den * q + Den + Den
    BY <1>d
  <1>6. p + q <= (X + Y) \div Den
    BY <1>d, <1>4, <1>5, DivLower
  <1>7. (X + Y) \div Den < p + q + 2
    BY <1>d, <1>4, <1>5, DivUpper
  <1>8. Mul(s, x) = p /\ Mul(s, y) = q /\ Mul(s, x + y) = (X + Y) \div Den
    BY <1>1, <1>2, <1>3 DEF Mul
  <1>9. (X + Y) \div Den \in Int BY <1>d, DivFloor
  <1> QED BY <1>6, <1>7, <1>8, <1>9

\* A faster clock counts no less.
LEMMA MulFaster ==
    ASSUME NEW s \in Nat, NEW u \in Nat, s <= u, NEW c \in Nat
    PROVE  Mul(s, c) <= Mul(u, c)
  <1>1. PICK d \in Nat : u = s + d
    <2>1. u - s \in Nat /\ u = s + (u - s) OBVIOUS
    <2> QED BY <2>1
  <1>2. u * c = s * c + d * c /\ d * c \in Nat /\ s * c \in Int /\ u * c \in Int BY <1>1
  <1>3. s * c <= u * c BY <1>2
  <1> QED BY <1>2, <1>3, PtpAssumption, DivMono DEF Mul

-----------------------------------------------------------------------------
(* Conversions.                                                             *)

Rates == Scales \cup {Nominal}

\* Every scale is a positive number of Den-ths, and the constants are what they are.
LEMMA Constants ==
    /\ Den \in Nat \ {0} /\ NsIn1s \in Nat \ {0} /\ Half \in Nat \ {0} /\ Nominal \in Rates
    /\ ClockMax \in Nat /\ OpsMax \in Nat
    /\ \A s \in Rates : s \in Nat \ {0} /\ Den <= s /\ s <= NsIn1s * Den
  BY PtpAssumption DEF Rates

\* A time converted to ticks and back: the tick found is the last that shows no
\* later time.
LEMMA TicksBetween ==
    ASSUME NEW s \in Rates, NEW o \in Int, NEW t \in Int
    PROVE  /\ Ticks(t, s, o) \in Int
           /\ Time(Ticks(t, s, o), s, o) \in Int /\ Time(Ticks(t, s, o) + 1, s, o) \in Int
           /\ Time(Ticks(t, s, o), s, o) <= t /\ t <= Time(Ticks(t, s, o) + 1, s, o)
  <1>1. s \in Nat \ {0} /\ Den \in Nat \ {0} BY Constants
  <1>2. PICK x \in Int : x = t - o OBVIOUS
  <1>3. x * Den \in Int /\ x * Den = Den * x BY <1>1
  <1>4. PICK p \in Int : p = (x * Den) \div s BY <1>1, <1>3, DivFloor
  <1>5. s * p \in Int /\ s * p <= Den * x /\ Den * x < s * p + s /\ s * (p + 1) = s * p + s
    BY <1>1, <1>3, <1>4, DivFloor
  <1>6. Den * (x + 1) = Den * x + Den /\ s * p < Den * (x + 1) BY <1>1, <1>3, <1>5
  <1>7. (s * p) \div Den < x + 1 BY <1>1, <1>5, <1>6, DivUpper
  <1>8. x <= (s * (p + 1)) \div Den
    <2>1. Den * x <= s * (p + 1) /\ s * (p + 1) \in Int BY <1>1, <1>3, <1>5
    <2> QED BY <1>1, <2>1, DivLower
  <1>9. (s * p) \div Den \in Int /\ (s * (p + 1)) \div Den \in Int
    BY <1>1, <1>5, DivFloor
  <1>10. Ticks(t, s, o) = p BY <1>2, <1>4 DEF Ticks
  <1> QED BY <1>2, <1>7, <1>8, <1>9, <1>10 DEF Time, Mul

\* The tick of the time of a tick is that tick or the one before.
LEMMA RoundTripOf ==
    ASSUME NEW s \in Rates, NEW o \in Int, NEW c \in Int
    PROVE  Ticks(Time(c, s, o), s, o) \in {c - 1, c}
  <1>1. s \in Nat \ {0} /\ Den \in Nat \ {0} /\ Den <= s BY Constants
  <1>2. PICK q \in Int : /\ q = (s * c) \div Den /\ Den * q \in Int
                         /\ Den * q <= s * c /\ s * c < Den * q + Den
    BY <1>1, DivFloor
  <1>3. (Time(c, s, o) - o) * Den = Den * q
    <2>1. Time(c, s, o) - o = q BY <1>2 DEF Time, Mul
    <2> QED BY <1>1, <2>1
  <1>4. PICK d \in Int : d = (Den * q) \div s BY <1>1, <1>2, DivFloor
  <1>5. c - 1 <= d
    <2>1. s * (c - 1) = s * c - s /\ s * c \in Int BY <1>1
    <2>2. s * (c - 1) <= Den * q BY <1>1, <1>2, <2>1
    <2> QED BY <1>1, <1>2, <1>4, <2>2, DivLower
  <1>6. d < c + 1
    <2>1. s * (c + 1) = s * c + s /\ s * c \in Int BY <1>1
    <2>2. Den * q < s * (c + 1) BY <1>1, <1>2, <2>1
    <2> QED BY <1>1, <1>2, <1>4, <2>2, DivUpper
  <1> QED BY <1>3, <1>4, <1>5, <1>6 DEF Ticks

\* The multiple of a second below a time is no earlier than any full second at or
\* before that time.
LEMMA FullSecond ==
    ASSUME NEW t \in Int
    PROVE  /\ t - (t % NsIn1s) \in Int
           /\ \E k \in Int : t - (t % NsIn1s) = NsIn1s * k
           /\ \A k \in Int : NsIn1s * k <= t => NsIn1s * k <= t - (t % NsIn1s)
  <1>n. NsIn1s \in Nat \ {0} BY Constants
  <1>1. PICK d \in Int : d = t \div NsIn1s BY <1>n, DivFloor
  <1>2. t % NsIn1s \in Int /\ t = NsIn1s * d + (t % NsIn1s) /\ NsIn1s * d \in Int
    BY <1>n, <1>1
  <1>3. t - (t % NsIn1s) = NsIn1s * d BY <1>2
  <1>4. ASSUME NEW k \in Int, NsIn1s * k <= t PROVE NsIn1s * k <= NsIn1s * d
    <2>1. k <= d BY <1>n, <1>1, <1>4, DivLower
    <2>2. PICK e \in Nat : d = k + e
      <3>1. d - k \in Nat /\ d = k + (d - k) BY <2>1
      <3> QED BY <3>1
    <2>3. NsIn1s * d = NsIn1s * k + NsIn1s * e /\ NsIn1s * e \in Nat /\ NsIn1s * k \in Int
      BY <1>n, <2>2
    <2> QED BY <2>3
  <1> QED BY <1>2, <1>3, <1>4

\* What PulseAligned says of a tick and parameters.
Aligned(p, s, o) ==
    LET next == Time(p + 1, s, o) IN next - (next % NsIn1s) >= Time(p, s, o)

\* set_pulse_at writes a tick in which a full second begins, whatever the tick it
\* has read.
LEMMA PulseAt ==
    ASSUME NEW s \in Rates, NEW o \in Int, NEW c \in Int
    PROVE  NextPulse(c, s, o) \in Int /\ Aligned(NextPulse(c, s, o), s, o)
  <1>n. NsIn1s \in Nat \ {0} /\ s \in Nat \ {0} /\ Den \in Nat \ {0} BY Constants
  <1>1. PICK now \in Int : now = Time(c, s, o)
    <2>1. s * c \in Int BY <1>n
    <2>2. Time(c, s, o) \in Int BY <1>n, <2>1, DivFloor DEF Time, Mul
    <2> QED BY <2>2
  <1>2. PICK k \in Int : now - (now % NsIn1s) = NsIn1s * k
    BY FullSecond
  <1>3. PICK P \in Int : P = NsIn1s * (k + 1)
    BY <1>n
  <1>4. now - (now % NsIn1s) + NsIn1s = P
    BY <1>n, <1>2, <1>3
  <1>5. PICK p \in Int : p = Ticks(P, s, o)
    BY TicksBetween
  <1>6. PICK t0 \in Int, t1 \in Int : /\ t0 = Time(p, s, o) /\ t1 = Time(p + 1, s, o)
                                     /\ t0 <= P /\ P <= t1
    BY <1>5, TicksBetween
  <1>7. P <= t1 - (t1 % NsIn1s) /\ t1 - (t1 % NsIn1s) \in Int
    BY <1>3, <1>6, FullSecond
  <1>8. NextPulse(c, s, o) = p
    BY <1>1, <1>4, <1>5 DEF NextPulse
  <1> QED BY <1>6, <1>7, <1>8 DEF Aligned

-----------------------------------------------------------------------------
(* The inductive invariants.                                                *)

\* What the operation under way knows: the half of the counter it has read, the
\* scale it will write, the tick it has read.
OpOK ==
    /\ clock \in 0..ClockMax
    /\ op.half = "hi" => op.part <= ClockMax \div Half
    /\ op.half = "lo" => op.part < Half
    /\ op.half # "none" => op.from <= clock
    /\ op.read /\ ~op.torn => op.clk <= clock
    /\ op.read => op.half = "none"
    /\ op.kind = "fine" => op.read
    /\ op.kind = "adjfine" => op.arg \in Scales
    /\ op.kind = "settime" => scale = Nominal

TypeInv == TypeOK /\ OpOK

\* The registers agree with the parameters except between the write of a parameter
\* and that of the register.
RegsInv ==
    /\ op.kind \notin {"settime", "fine", "pulse"} => Aligned(pulse, scale, offset)
    /\ op.kind \notin {"settime", "fine"} =>
          (IF cycle = 0 THEN Reserved ELSE cycle) = (NsIn1s * Den) \div scale

\* A reader that is not raced has read what the parameters still are, outside the
\* window in which they do not agree.
ReaderInv ==
    reader.pc # "idle" /\ ~reader.raced =>
        /\ ~Window /\ reader.clk <= clock
        /\ reader.got = IF reader.pc = "offset" THEN offset ELSE scale

\* The time shown at tick a, once the operation under way has written the offset.
Shown(a) == IF op.kind = "fine" THEN op.arg ELSE Time(a, scale, offset)

\* The tick a from which the present parameters hold, that of the last adjfine or of
\* the last reading: the time it shows follows the last reading, and whatever is
\* being read is not before it, unless it is the reading itself.
Anchor(a) ==
    /\ ref.clk <= a /\ a <= clock
    /\ Shown(a) - ref.val <= Mul(Fastest, a - ref.clk) + ref.fines
    /\ Shown(a) - ref.val >= Mul(Slowest, a - ref.clk) - ref.fines
    /\ op.kind = "fine" => a = op.clk
    /\ a = ref.clk \/ /\ op.half # "none" => a <= op.from
                      /\ op.read /\ ~op.torn => a <= op.clk
                      /\ reader.pc # "idle" /\ ~reader.raced => a <= reader.clk

ReadsInv ==
    /\ ReaderInv
    /\ op.kind = "settime" => ~ref.known
    /\ ref.known => \E a \in Nat : Anchor(a)

-----------------------------------------------------------------------------
(* Types.                                                                   *)

OpType == [kind : Kinds, arg : Int, half : {"none", "hi", "lo"}, part : Nat,
           clk : Clocks, from : Clocks, read : BOOLEAN, torn : BOOLEAN]
ReaderType == [pc : {"idle", "offset", "scale"}, clk : Clocks, got : Int, raced : BOOLEAN]
RefType == [known : BOOLEAN, val : Int, clk : Clocks, fines : Nat]

\* The clock values are natural numbers, and the counter never reaches the end of
\* them.
LEMMA ClocksType ==
    /\ Clocks \subseteq Nat /\ 0..ClockMax \subseteq Clocks /\ 0 \in Clocks
    /\ \A hi, lo \in Nat : hi <= ClockMax \div Half /\ lo < Half => Assemble(hi, lo) \in Clocks
  <1>1. Half \in Nat \ {0} /\ ClockMax \in Nat BY Constants
  <1>2. PICK d \in Int : d = ClockMax \div Half /\ ClockMax < Half * d + Half /\ Half * d \in Int
    BY <1>1, DivFloor
  <1>3. d * Half = Half * d BY <1>1
  <1>4. Clocks = 0..(d * Half + Half - 1) BY <1>2 DEF Clocks
  <1>5. ASSUME NEW hi \in Nat, NEW lo \in Nat, hi <= d, lo < Half
        PROVE  Assemble(hi, lo) \in Clocks
    <2>1. PICK e \in Nat : d = hi + e
      <3>1. d - hi \in Nat /\ d = hi + (d - hi) BY <1>5
      <3> QED BY <3>1
    <2>2. d * Half = hi * Half + e * Half /\ e * Half \in Nat /\ hi * Half \in Nat
      BY <1>1, <2>1
    <2> QED BY <1>1, <1>4, <1>5, <2>2 DEF Assemble
  <1> QED BY <1>1, <1>2, <1>3, <1>4, <1>5

LEMMA ClockNumber == ASSUME NEW c \in Clocks PROVE c \in Nat /\ c \in Int
  <1>1. c \in Nat BY ClocksType
  <1> QED BY <1>1

\* A time is a number.
LEMMA TimeType ==
    ASSUME NEW s \in Rates, NEW o \in Int, NEW c \in Int
    PROVE  Mul(s, c) \in Int /\ Time(c, s, o) \in Int
  <1>1. Den \in Nat \ {0} /\ s * c \in Int BY Constants
  <1> QED BY <1>1, DivFloor DEF Time, Mul

\* An operation starts with nothing read.
LEMMA LockType ==
    ASSUME NEW k \in Kinds, NEW a \in Int
    PROVE  /\ Lock(k, a) \in OpType /\ Lock(k, a).kind = k /\ Lock(k, a).arg = a
           /\ Lock(k, a).half = "none" /\ ~Lock(k, a).read
           /\ Idle \in OpType /\ Idle.kind = "none" /\ Idle.half = "none" /\ ~Idle.read
  <1>1. 0 \in Clocks BY ClocksType
  <1>2. Idle \in OpType /\ Idle.kind = "none" /\ Idle.half = "none" /\ ~Idle.read
    BY <1>1 DEF Idle, OpType, Kinds
  <1>3. Lock(k, a) = [Idle EXCEPT !.kind = k, !.arg = a] BY DEF Lock
  <1>4. /\ Lock(k, a) \in OpType /\ Lock(k, a).kind = k /\ Lock(k, a).arg = a
        /\ Lock(k, a).half = Idle.half /\ Lock(k, a).read = Idle.read
    BY <1>2, <1>3 DEF OpType
  <1> QED BY <1>2, <1>4

\* A read of the first half.
LEMMA ReadFirstOp ==
    ASSUME TypeInv, ReadFirst
    PROVE  /\ op' \in OpType /\ op'.kind = op.kind /\ op'.arg = op.arg /\ op'.clk = op.clk
           /\ ~op'.read /\ ~op.read /\ op'.half # "none" /\ op'.from = clock
           /\ op'.half = "hi" => op'.part <= ClockMax \div Half
           /\ op'.half = "lo" => op'.part < Half
           /\ op.kind \notin {"none", "fine"}
           /\ UNCHANGED <<clock, params, reader, ref, ops>>
  <1>1. PICK h \in {"hi", "lo"} :
          /\ op.kind \notin {"none", "fine"} /\ ~op.read /\ op.half = "none"
          /\ op' = [op EXCEPT !.half = h, !.from = clock,
                              !.part = IF h = "hi" THEN clock \div Half ELSE clock % Half]
          /\ UNCHANGED <<clock, params, reader, ref, ops>>
    BY DEF ReadFirst
  <1>2. /\ op \in OpType /\ clock \in Nat /\ clock <= ClockMax /\ clock \in Clocks
        /\ Half \in Nat \ {0} /\ ClockMax \in Nat
    BY Constants DEF TypeInv, TypeOK, OpOK, OpType
  <1>3. clock \div Half \in Nat /\ clock % Half \in Nat /\ clock % Half < Half
    BY <1>2
  <1>4. clock \div Half <= ClockMax \div Half
    BY <1>2, DivMono
  <1> QED BY <1>1, <1>2, <1>3, <1>4 DEF OpType

\* A read of the second half: a clock value, between the two reads unless torn.
LEMMA ReadSecondOp ==
    ASSUME TypeInv, ReadSecond
    PROVE  /\ op' \in OpType /\ op'.kind = op.kind /\ op'.arg = op.arg
           /\ op'.read /\ op'.half = "none" /\ op.half # "none"
           /\ ~op'.torn => op.from <= op'.clk /\ op'.clk <= clock
           /\ UNCHANGED <<clock, params, reader, ref, ops>>
  <1> DEFINE c == IF op.half = "hi" THEN Assemble(op.part, clock % Half)
                  ELSE Assemble(clock \div Half, op.part)
  <1>1. /\ op.half # "none"
        /\ op' = [op EXCEPT !.half = "none", !.part = 0, !.from = 0, !.read = TRUE,
                            !.clk = c, !.torn = c \notin op.from..clock]
        /\ UNCHANGED <<clock, params, reader, ref, ops>>
    BY DEF ReadSecond
  <1>2. /\ op \in OpType /\ clock \in Nat /\ clock <= ClockMax
        /\ Half \in Nat \ {0} /\ ClockMax \in Nat /\ 0 \in Clocks
        /\ op.half = "hi" => op.part <= ClockMax \div Half
        /\ op.half = "lo" => op.part < Half
    BY Constants, ClocksType DEF TypeInv, TypeOK, OpOK, OpType
  <1>3. /\ clock \div Half \in Nat /\ clock % Half \in Nat /\ clock % Half < Half
        /\ op.part \in Nat /\ op.half \in {"none", "hi", "lo"} /\ op.from \in Clocks
    BY <1>2 DEF OpType
  <1>4. clock \div Half <= ClockMax \div Half
    BY <1>2, DivMono
  <1>5. c \in Clocks
    BY <1>1, <1>2, <1>3, <1>4, ClocksType
  <1>6. c \in Nat /\ op.from \in Nat
    BY <1>3, <1>5, ClocksType
  <1> HIDE DEF c
  <1>7. /\ op' \in OpType /\ op'.kind = op.kind /\ op'.arg = op.arg
        /\ op'.read /\ op'.half = "none" /\ op'.clk = c /\ op'.torn = (c \notin op.from..clock)
    BY <1>1, <1>2, <1>5 DEF OpType
  <1>8. ~op'.torn => op.from <= op'.clk /\ op'.clk <= clock
    <2>1. ~op'.torn => c \in op.from..clock BY <1>7
    <2> QED BY <1>2, <1>6, <1>7, <2>1
  <1> QED BY <1>1, <1>7, <1>8

\* The types are kept by every step.
LEMMA TypeStep == ASSUME TypeInv, [Next]_vars PROVE TypeInv'
  <1>t. /\ clock \in Clocks /\ clock \in 0..ClockMax /\ cycle \in Nat /\ pulse \in Int
        /\ offset \in Int /\ scale \in Rates /\ op \in OpType /\ reader \in ReaderType
        /\ ref \in RefType /\ ops \in 0..OpsMax
    BY DEF TypeInv, TypeOK, OpOK, OpType, ReaderType, RefType, Rates
  <1>o. OpOK BY DEF TypeInv
  <1>c. /\ Clocks \subseteq Nat /\ 0 \in Clocks /\ Nominal \in Rates /\ NoRef \in RefType
        /\ ClockMax \in Nat /\ OpsMax \in Nat /\ Rates \subseteq Nat /\ NoReader \in ReaderType
        /\ 0..ClockMax \subseteq Clocks
    BY Constants, ClocksType DEF NoRef, RefType, NoReader, ReaderType
  <1>r. Raced \in ReaderType
    BY <1>t DEF Raced, ReaderType
  <1>a. \A v \in Int, c \in Clocks : RefAt(v, c) \in RefType
    BY DEF RefAt, RefType
  <1>s. ASSUME clock' \in 0..ClockMax, cycle' \in Nat, pulse' \in Int, offset' \in Int,
               scale' \in Rates, op' \in OpType, reader' \in ReaderType, ref' \in RefType,
               ops' \in 0..OpsMax, OpOK'
        PROVE  TypeInv'
    BY <1>s, <1>c DEF TypeInv, TypeOK, OpType, ReaderType, RefType, Rates
  <1>b. ASSUME Begin, NEW k \in Kinds \ {"fine"}, NEW a \in Int, op' = Lock(k, a), offset' \in Int,
               scale' \in Rates, reader' \in ReaderType, ref' \in RefType,
               k = "adjfine" => a \in Scales, k = "settime" => scale' = Nominal
        PROVE  TypeInv'
    <2>1. /\ op' \in OpType /\ op'.kind = k /\ op'.arg = a /\ op'.half = "none" /\ ~op'.read
      BY <1>b, LockType
    <2>2. ops' \in 0..OpsMax /\ UNCHANGED <<clock, cycle, pulse>>
      BY <1>b, <1>t, <1>c DEF Begin
    <2>3. OpOK'
      BY <1>b, <1>t, <2>1, <2>2 DEF OpOK
    <2> QED BY <1>b, <1>s, <1>t, <2>1, <2>2, <2>3
  <1>f. ASSUME NEW k \in Kinds, Finish(k), cycle' \in Nat, pulse' \in Int, offset' \in Int,
               scale' = scale, reader' = reader, ref' \in RefType
        PROVE  TypeInv'
    <2>1. op' \in OpType /\ op'.kind = "none" /\ op'.half = "none" /\ ~op'.read
      BY <1>f, LockType DEF Finish, Kinds
    <2>2. UNCHANGED <<clock, ops>> BY <1>f DEF Finish
    <2>3. OpOK' BY <1>t, <2>1, <2>2 DEF OpOK
    <2> QED BY <1>f, <1>s, <1>t, <2>1, <2>2, <2>3
  <1>p. /\ op.clk \in Int /\ op.clk \in Clocks /\ op.arg \in Int
        /\ Time(op.clk, scale, offset) \in Int /\ NextPulse(op.clk, scale, offset) \in Int
    <2>1. op.clk \in Clocks /\ op.arg \in Int BY <1>t DEF OpType
    <2>2. op.clk \in Int BY <2>1, ClockNumber
    <2> QED BY <1>t, <2>1, <2>2, TimeType, PulseAt
  <1>1. CASE Gettimex
    BY <1>1, <1>b, <1>t DEF Gettimex, Kinds
  <1>2. CASE GettimexEnd
    BY <1>2, <1>f, <1>t, <1>p, <1>a DEF GettimexEnd, Kinds, params
  <1>3. ASSUME NEW h \in Hosts, Settime(h) PROVE TypeInv'
    <2>1. h \in Int BY PtpAssumption
    <2> QED BY <1>3, <1>b, <1>t, <1>c, <1>r, <2>1 DEF Settime, Kinds
  <1>4. CASE SettimeEnd
    <2>1. Reserved \in Nat
      BY PtpAssumption DEF Reserved
    <2> DEFINE o == op.arg - Time(op.clk, scale, offset)
    <2>2. o \in Int BY <1>p
    <2>3. NextPulse(op.clk, scale, o) \in Int BY <1>t, <1>p, <2>2, PulseAt
    <2>4. RefAt(op.arg, op.clk) \in RefType BY <1>p, <1>a
    <2> QED BY <1>4, <1>f, <1>t, <1>c, <2>1, <2>2, <2>3, <2>4 DEF SettimeEnd, Kinds
  <1>5. ASSUME NEW d \in Deltas, Adjtime(d) PROVE TypeInv'
    <2>1. d \in Int BY PtpAssumption
    <2>2. offset' \in Int BY <1>5, <1>t, <2>1 DEF Adjtime
    <2>3. ref' \in RefType BY <1>5, <1>t, <2>1 DEF Adjtime, RefType
    <2> QED BY <1>5, <1>b, <1>t, <1>r, <2>2, <2>3 DEF Adjtime, Kinds
  <1>6. CASE PulseEnd
    BY <1>6, <1>f, <1>t, <1>p DEF PulseEnd, Kinds
  <1>7. ASSUME NEW s \in Scales \cup {0}, Adjfine(s) PROVE TypeInv'
    <2>1. s \in Int /\ (s # 0 => s \in Scales) BY PtpAssumption
    <2> QED BY <1>7, <1>b, <1>t, <2>1 DEF Adjfine, Kinds
  <1>8. CASE NothingEnd
    BY <1>8, <1>f, <1>t DEF NothingEnd, Kinds, params
  <1>9. CASE AdjfineScale
    <2>1. op.kind = "adjfine" /\ op.read /\ scale' = op.arg /\ op.arg \in Scales
      BY <1>9, <1>o DEF AdjfineScale, OpOK
    <2>2. op' = [op EXCEPT !.kind = "fine", !.arg = Time(op.clk, scale, offset)]
      BY <1>9 DEF AdjfineScale
    <2>3. /\ op' \in OpType /\ op'.kind = "fine" /\ op'.half = op.half /\ op'.part = op.part
          /\ op'.from = op.from /\ op'.read = op.read /\ op'.torn = op.torn /\ op'.clk = op.clk
      BY <1>t, <1>p, <2>2 DEF OpType, Kinds
    <2>4. ref' \in RefType
      BY <1>9, <1>t, <1>c DEF AdjfineScale, RefType
    <2>5. OpOK'
      BY <1>9, <1>o, <2>3 DEF AdjfineScale, OpOK
    <2> QED BY <1>9, <1>s, <1>t, <1>r, <2>1, <2>3, <2>4, <2>5 DEF AdjfineScale, Rates
  <1>10. CASE AdjfineOffset
    <2>1. op' = Lock("pulse", 0) BY <1>10 DEF AdjfineOffset
    <2>2. op' \in OpType /\ op'.kind = "pulse" /\ op'.half = "none" /\ ~op'.read
      BY <2>1, LockType DEF Kinds
    <2>3. offset' \in Int BY <1>10, <1>t, <1>p DEF AdjfineOffset, Correction
    <2>4. cycle' \in Nat
      <3>1. scale \in Nat \ {0} /\ NsIn1s \in Nat /\ Den \in Nat BY <1>t, Constants
      <3>2. NsIn1s * Den \in Nat BY <3>1
      <3>3. (NsIn1s * Den) \div scale \in Nat BY <3>1, <3>2
      <3> QED BY <1>10, <3>3 DEF AdjfineOffset, CycleOf
    <2>5. OpOK' BY <1>10, <1>o, <2>2 DEF AdjfineOffset, OpOK
    <2> QED BY <1>10, <1>s, <1>t, <2>2, <2>3, <2>4, <2>5 DEF AdjfineOffset
  <1>11. CASE ReadFirst
    <2>1. OpOK' BY <1>11, <1>t, <1>o, <1>c, ReadFirstOp DEF OpOK, params
    <2> QED BY <1>11, <1>s, <1>t, <2>1, ReadFirstOp DEF params
  <1>12. CASE ReadSecond
    <2>1. OpOK' BY <1>12, <1>t, <1>o, ReadSecondOp DEF OpOK, params
    <2> QED BY <1>12, <1>s, <1>t, <2>1, ReadSecondOp DEF params
  <1>13. CASE ReaderFirst
    <2>1. reader' \in ReaderType
      <3>1. Window \in BOOLEAN BY DEF Window
      <3>2. scale \in Int BY <1>t, <1>c
      <3> QED BY <1>13, <1>t, <3>1, <3>2 DEF ReaderFirst, ReaderType
    <2>2. OpOK' BY <1>13, <1>o DEF ReaderFirst, OpOK, params
    <2> QED BY <1>13, <1>s, <1>t, <2>1, <2>2 DEF ReaderFirst, params
  <1>14. CASE ReaderSecond
    <2>1. reader.clk \in Clocks /\ reader.clk \in Int /\ reader.got \in Int
      <3>1. reader.clk \in Clocks /\ reader.got \in Int BY <1>t DEF ReaderType
      <3> QED BY <3>1, ClockNumber
    <2>2. reader.pc = "offset" => Time(reader.clk, scale, reader.got) \in Int
      BY <1>t, <2>1, TimeType
    <2>3. reader.pc # "offset" => Time(reader.clk, reader.got, offset) \in Int
      <3>1. reader.got * reader.clk \in Int BY <2>1
      <3> QED BY <1>t, <3>1, Constants, DivFloor DEF Time, Mul
    <2>4. ref' \in RefType
      BY <1>14, <1>t, <1>a, <2>1, <2>2, <2>3 DEF ReaderSecond
    <2>5. OpOK' BY <1>14, <1>o DEF ReaderSecond, OpOK, params
    <2> QED BY <1>14, <1>s, <1>t, <1>c, <2>4, <2>5 DEF ReaderSecond, params
  <1>15. CASE Tick
    <2>1. clock' \in 0..ClockMax /\ clock <= clock' BY <1>15, <1>t, <1>c DEF Tick
    <2>2. op.from \in Nat /\ op.clk \in Nat BY <1>t, <1>c DEF OpType
    <2>3. OpOK' BY <1>15, <1>t, <1>o, <1>c, <2>1, <2>2 DEF Tick, OpOK, params
    <2> QED BY <1>15, <1>s, <1>t, <2>1, <2>3 DEF Tick, params
  <1>16. CASE UNCHANGED vars
    BY <1>16, <1>t, <1>o, <1>s DEF vars, OpOK
  <1> QED BY <1>1, <1>2, <1>3, <1>4, <1>5, <1>6, <1>7, <1>8, <1>9, <1>10, <1>11, <1>12,
             <1>13, <1>14, <1>15, <1>16 DEF Next

\* The types hold in the first state.
LEMMA TypeInit == ASSUME Init PROVE TypeInv
  <1>1. 0 \in Clocks /\ ClockMax \in Nat /\ OpsMax \in Nat BY ClocksType, Constants
  <1>2. Idle \in OpType /\ Idle.kind = "none" /\ Idle.half = "none" /\ ~Idle.read
    BY LockType DEF Kinds
  <1>3. NoReader \in ReaderType /\ NoRef \in RefType
    BY <1>1 DEF NoReader, ReaderType, NoRef, RefType
  <1>4. TypeOK BY <1>1, <1>2, <1>3 DEF Init, TypeOK, OpType, ReaderType, RefType
  <1> QED BY <1>1, <1>2, <1>4 DEF Init, TypeInv, OpOK

LEMMA TypeAlways == Spec => []TypeInv
  BY TypeInit, TypeStep, PTL DEF Spec

\* Every variable of the PTP clock has its type in every reachable state: a counter
\* put together from two halves stays below the next multiple of 2^32, carry or not
\* (alinx_get_sys_clock).
THEOREM TypesKept == Spec => []TypeOK
  BY TypeAlways, PTL DEF TypeInv

\* The tick of a time is that of the tick the time was converted from, or the one
\* before it (alinx_timestamp_to_sysclock, alinx_sysclock_to_timestamp), whatever
\* operation is under way.
THEOREM ConversionsInvert == Spec => []RoundTrip
  <1>1. TypeInv => RoundTrip
    <2> SUFFICES ASSUME TypeInv PROVE RoundTrip OBVIOUS
    <2>1. scale \in Rates /\ offset \in Int /\ clock \in Int
      BY Constants DEF TypeInv, TypeOK, OpOK, Rates
    <2> QED BY <2>1, RoundTripOf DEF RoundTrip
  <1> QED BY <1>1, TypeAlways, PTL

-----------------------------------------------------------------------------
(* The registers.                                                           *)

\* The registers follow the parameters.
LEMMA RegsStep == ASSUME TypeInv, RegsInv, [Next]_vars PROVE RegsInv'
  <1>t. scale \in Rates /\ offset \in Int /\ op \in OpType /\ op.clk \in Int /\ op.arg \in Int
    <2>1. scale \in Rates /\ offset \in Int /\ op \in OpType
      BY DEF TypeInv, TypeOK, OpType, Rates
    <2>2. op.clk \in Clocks /\ op.arg \in Int BY <2>1 DEF OpType
    <2> QED BY <2>1, <2>2, ClockNumber
  <1>k. ASSUME UNCHANGED params, op.kind \notin {"settime", "fine", "pulse"} \/ op'.kind = op.kind
        PROVE  RegsInv'
    BY <1>k DEF RegsInv, params, Aligned
  <1>1. CASE Gettimex
    BY <1>1, <1>k DEF Gettimex, Begin, params
  <1>2. CASE GettimexEnd
    BY <1>2, <1>k DEF GettimexEnd, Finish
  <1>3. ASSUME NEW h \in Hosts, Settime(h) PROVE RegsInv'
    <2>1. h \in Int BY PtpAssumption
    <2>2. op'.kind = "settime" BY <1>3, <2>1, LockType DEF Settime, Kinds
    <2> QED BY <2>2 DEF RegsInv
  <1>4. CASE SettimeEnd
    <2>1. op.kind = "settime" /\ scale = Nominal /\ scale' = scale /\ cycle' = Reserved
      BY <1>4 DEF SettimeEnd, Finish, TypeInv, OpOK
    <2>2. PICK o \in Int : o = op.arg - Time(op.clk, scale, offset)
      BY <1>t, TimeType
    <2>3. offset' = o /\ pulse' = NextPulse(op.clk, scale, o)
      BY <1>4, <2>2 DEF SettimeEnd
    <2>4. Aligned(NextPulse(op.clk, scale, o), scale, o)
      BY <1>t, <2>2, PulseAt
    <2>5. Aligned(pulse, scale, offset)'
      BY <2>1, <2>3, <2>4 DEF Aligned
    <2>6. (IF cycle' = 0 THEN Reserved ELSE cycle') = (NsIn1s * Den) \div scale'
      BY <2>1 DEF Reserved
    <2> QED BY <2>5, <2>6 DEF RegsInv
  <1>5. ASSUME NEW d \in Deltas, Adjtime(d) PROVE RegsInv'
    <2>1. op.kind = "none" /\ op' = Lock("pulse", 0) /\ cycle' = cycle /\ scale' = scale
      BY <1>5 DEF Adjtime, Begin
    <2>2. op'.kind = "pulse" BY <2>1, LockType DEF Kinds
    <2> QED BY <2>1, <2>2 DEF RegsInv
  <1>6. CASE PulseEnd
    <2>1. op.kind = "pulse" /\ UNCHANGED <<cycle, offset, scale>>
          /\ pulse' = NextPulse(op.clk, scale, offset)
      BY <1>6 DEF PulseEnd, Finish
    <2>2. Aligned(pulse, scale, offset)'
      <3>1. Aligned(NextPulse(op.clk, scale, offset), scale, offset) BY <1>t, PulseAt
      <3> QED BY <2>1, <3>1 DEF Aligned
    <2> QED BY <2>1, <2>2 DEF RegsInv
  <1>7. ASSUME NEW s \in Scales \cup {0}, Adjfine(s) PROVE RegsInv'
    BY <1>7, <1>k DEF Adjfine, Begin, params
  <1>8. CASE NothingEnd
    BY <1>8, <1>k DEF NothingEnd, Finish
  <1>9. CASE AdjfineScale
    <2>1. op'.kind = "fine" BY <1>9, <1>t DEF AdjfineScale, OpType
    <2> QED BY <2>1 DEF RegsInv
  <1>10. CASE AdjfineOffset
    <2>1. op' = Lock("pulse", 0) /\ scale' = scale /\ cycle' = (NsIn1s * Den) \div scale
      BY <1>10 DEF AdjfineOffset, CycleOf
    <2>2. op'.kind = "pulse" BY <2>1, LockType DEF Kinds
    <2>3. /\ scale \in Nat \ {0} /\ NsIn1s * Den \in Int /\ scale * 1 <= NsIn1s * Den
      BY <1>t, Constants
    <2>4. 1 <= (NsIn1s * Den) \div scale /\ (NsIn1s * Den) \div scale \in Int
      BY <2>3, DivLower, DivFloor
    <2> QED BY <2>1, <2>2, <2>4 DEF RegsInv
  <1>11. CASE ReadFirst
    BY <1>11, <1>k, ReadFirstOp
  <1>12. CASE ReadSecond
    BY <1>12, <1>k, ReadSecondOp
  <1>13. CASE ReaderFirst \/ ReaderSecond \/ Tick \/ UNCHANGED vars
    BY <1>13, <1>k DEF ReaderFirst, ReaderSecond, Tick, vars, params
  <1> QED BY <1>1, <1>2, <1>3, <1>4, <1>5, <1>6, <1>7, <1>8, <1>9, <1>10, <1>11, <1>12, <1>13
          DEF Next

LEMMA RegsAlways == Spec => [](TypeInv /\ RegsInv)
  <1>1. ASSUME Init PROVE RegsInv
    <2>1. /\ pulse = 0 /\ offset = 0 /\ scale = Nominal /\ cycle = 0
          /\ Nominal \in Nat \ {0} /\ Den \in Nat \ {0} /\ NsIn1s \in Nat \ {0}
      BY <1>1, Constants DEF Init
    <2>2. PICK t \in Int : t = Time(1, Nominal, 0)
      BY Constants, TimeType
    <2>3. Nominal * 1 \in Int /\ Den * 0 <= Nominal * 1 BY <2>1
    <2>4. 0 <= t BY <2>1, <2>2, <2>3, DivLower DEF Time, Mul
    <2>5. Time(0, Nominal, 0) = 0
      <3>1. Nominal * 0 = 0 /\ 0 \div Den = 0 BY <2>1
      <3> QED BY <3>1 DEF Time, Mul
    <2>6. NsIn1s * 0 = 0 BY <2>1
    <2>7. 0 <= t - (t % NsIn1s) BY <2>4, <2>6, FullSecond
    <2>8. Aligned(pulse, scale, offset) BY <2>1, <2>2, <2>5, <2>7 DEF Aligned
    <2> QED BY <2>1, <2>8 DEF RegsInv, Reserved
  <1> QED BY <1>1, TypeAlways, RegsStep, PTL DEF Spec

\* Outside an operation the next pulse begins a full second of the PTP time (set_pulse_at
\* of settime, adjtime and adjfine), also when it was computed from a torn counter.
THEOREM PulsesAligned == Spec => []PulseAligned
  <1>1. RegsInv => PulseAligned
    BY DEF RegsInv, PulseAligned, Aligned
  <1> QED BY <1>1, RegsAlways, PTL

\* Outside an operation the register of ticks per second agrees with ticks_scale
\* (set_cycle_1s of settime, alinx_set_ticks_scale of adjfine).
THEOREM CyclesMatch == Spec => []CycleMatches
  <1>1. RegsInv => CycleMatches
    BY DEF RegsInv, CycleMatches
  <1> QED BY <1>1, RegsAlways, PTL

-----------------------------------------------------------------------------
(* Readings.                                                                *)

\* There is a fastest and a slowest rate.
LEMMA Extremes ==
    /\ Fastest \in Nat /\ Slowest \in Nat
    /\ \A s \in Rates : Slowest <= s /\ s <= Fastest
  <1>1. Fastest \in Rates /\ \A u \in Rates : u <= Fastest
    BY PtpAssumption DEF Fastest, Rates
  <1>2. Slowest \in Rates /\ \A u \in Rates : Slowest <= u
    BY PtpAssumption DEF Slowest, Rates
  <1> QED BY <1>1, <1>2, Constants

\* From a tick whose time follows the reading of tick r, with f nanoseconds of
\* truncation, every later tick does with one more.
LEMMA Advance ==
    ASSUME NEW s \in Rates, NEW o \in Int, NEW r \in Nat, NEW a \in Nat, NEW c \in Nat,
           r <= a, a <= c, NEW v \in Int, NEW f \in Nat,
           Time(a, s, o) - v <= Mul(Fastest, a - r) + f,
           Time(a, s, o) - v >= Mul(Slowest, a - r) - f
    PROVE  /\ Time(c, s, o) - v <= Mul(Fastest, c - r) + (f + 1)
           /\ Time(c, s, o) - v >= Mul(Slowest, c - r) - (f + 1)
  <1>1. /\ s \in Nat /\ Fastest \in Nat /\ Slowest \in Nat /\ Slowest <= s /\ s <= Fastest
    BY Constants, Extremes
  <1>2. PICK x \in Nat, y \in Nat : x = a - r /\ y = c - a
    <2>1. a - r \in Nat /\ c - a \in Nat OBVIOUS
    <2> QED BY <2>1
  <1>3. c = a + y /\ c - r = x + y BY <1>2
  <1>i. a \in Int /\ x \in Int /\ y \in Int OBVIOUS
  <1>4. /\ Mul(s, a) \in Int /\ Mul(s, y) \in Int /\ Mul(s, a + y) \in Int
        /\ Mul(s, a) + Mul(s, y) <= Mul(s, a + y)
        /\ Mul(s, a + y) <= Mul(s, a) + Mul(s, y) + 1
    BY <1>1, <1>i, MulSplit
  <1>5. /\ Mul(Fastest, x) \in Int /\ Mul(Fastest, y) \in Int /\ Mul(Fastest, x + y) \in Int
        /\ Mul(Fastest, x) + Mul(Fastest, y) <= Mul(Fastest, x + y)
    BY <1>1, <1>i, MulSplit
  <1>6. /\ Mul(Slowest, x) \in Int /\ Mul(Slowest, y) \in Int /\ Mul(Slowest, x + y) \in Int
        /\ Mul(Slowest, x + y) <= Mul(Slowest, x) + Mul(Slowest, y) + 1
    BY <1>1, <1>i, MulSplit
  <1>7. Mul(s, y) <= Mul(Fastest, y) /\ Mul(Slowest, y) <= Mul(s, y)
    BY <1>1, MulFaster
  <1>8. Time(a, s, o) = Mul(s, a) + o /\ Time(c, s, o) = Mul(s, a + y) + o
    BY <1>3 DEF Time
  <1>9. /\ Mul(s, a) + o - v <= Mul(Fastest, x) + f
        /\ Mul(s, a) + o - v >= Mul(Slowest, x) - f
    <2>1. a - r = x BY <1>2
    <2>2. Mul(Fastest, a - r) = Mul(Fastest, x) /\ Mul(Slowest, a - r) = Mul(Slowest, x)
      BY <2>1, Zenon
    <2> QED BY <1>4, <1>5, <1>6, <1>8, <2>2
  <1>10. /\ Mul(s, a + y) + o - v <= Mul(Fastest, x + y) + (f + 1)
         /\ Mul(s, a + y) + o - v >= Mul(Slowest, x + y) - (f + 1)
    BY <1>4, <1>5, <1>6, <1>7, <1>9
  <1>11. Mul(Fastest, c - r) = Mul(Fastest, x + y) /\ Mul(Slowest, c - r) = Mul(Slowest, x + y)
    BY <1>3, Zenon
  <1> QED BY <1>4, <1>5, <1>6, <1>8, <1>10, <1>11

\* What is read outside a change of the parameters, at a tick not before the last
\* reading, follows that reading.
LEMMA Follows ==
    ASSUME TypeInv, NEW a \in Nat, Anchor(a), ref.known, op.kind # "fine", NEW c \in Nat, a <= c
    PROVE  /\ Time(c, scale, offset) - ref.val <= Mul(Fastest, c - ref.clk) + (ref.fines + 1)
           /\ Time(c, scale, offset) - ref.val >= Mul(Slowest, c - ref.clk) - (ref.fines + 1)
  <1>1. scale \in Rates /\ offset \in Int /\ ref \in RefType
    BY DEF TypeInv, TypeOK, Rates, RefType
  <1>2. ref.clk \in Nat /\ ref.val \in Int /\ ref.fines \in Nat
    BY <1>1, ClockNumber DEF RefType
  <1>3. /\ ref.clk <= a
        /\ Time(a, scale, offset) - ref.val <= Mul(Fastest, a - ref.clk) + ref.fines
        /\ Time(a, scale, offset) - ref.val >= Mul(Slowest, a - ref.clk) - ref.fines
    BY DEF Anchor, Shown
  <1> QED BY <1>1, <1>2, <1>3, Advance

\* A tick just read is its own anchor.
LEMMA AnchorAtReading ==
    ASSUME NEW v \in Int, NEW c \in Nat, ref' = RefAt(v, c), c <= clock', op'.kind # "fine",
           Time(c, scale', offset') = v
    PROVE  Anchor(c)'
  <1>1. ref'.clk = c /\ ref'.val = v /\ ref'.fines = 0 BY DEF RefAt
  <1>2. Fastest \in Nat /\ Slowest \in Nat BY Extremes
  <1>3. c - c = 0 /\ v - v = 0 OBVIOUS
  <1>4. Mul(Fastest, 0) = 0 /\ Mul(Slowest, 0) = 0
    <2>1. Fastest * 0 = 0 /\ Slowest * 0 = 0 /\ 0 \div Den = 0 BY <1>2, Constants
    <2> QED BY <2>1 DEF Mul
  <1>5. Shown(c)' = v BY DEF Shown
  <1> QED BY <1>1, <1>3, <1>4, <1>5 DEF Anchor

\* A reader marked by a change of the parameters stays marked.
LEMMA RacedReader ==
    ASSUME reader \in ReaderType
    PROVE  Raced.pc = "idle" \/ Raced.raced
  BY DEF Raced, ReaderType

\* An unmarked reader still has the parameters.
LEMMA ReaderStep == ASSUME TypeInv, ReaderInv, [Next]_vars PROVE ReaderInv'
  <1>t. op \in OpType /\ reader \in ReaderType /\ clock \in Nat /\ reader.clk \in Nat
    <2>1. op \in OpType /\ reader \in ReaderType /\ clock \in Nat /\ reader.clk \in Clocks
      BY Constants DEF TypeInv, TypeOK, OpOK, OpType, ReaderType
    <2> QED BY <2>1, ClockNumber
  <1>r. ASSUME reader' = Raced PROVE ReaderInv'
    BY <1>r, <1>t, RacedReader DEF ReaderInv
  <1>k. ASSUME UNCHANGED <<clock, offset, scale, reader>>,
               op'.kind = op.kind \/ op'.kind \notin {"settime", "fine"}
        PROVE  ReaderInv'
    BY <1>k DEF ReaderInv, Window
  <1>w. ASSUME Window, reader' = reader PROVE ReaderInv'
    BY <1>w DEF ReaderInv
  <1>f. ASSUME NEW k, Finish(k) PROVE op'.kind = "none" /\ op.kind = k /\ clock' = clock
    BY <1>f DEF Finish, Idle
  <1>1. CASE Gettimex
    <2>1. op'.kind = "gettimex" BY <1>1, LockType DEF Gettimex, Kinds
    <2> QED BY <1>1, <1>k, <2>1 DEF Gettimex, Begin
  <1>2. CASE GettimexEnd
    BY <1>2, <1>k, <1>f DEF GettimexEnd, params
  <1>3. ASSUME NEW h \in Hosts, Settime(h) PROVE ReaderInv'
    BY <1>3, <1>r DEF Settime
  <1>4. CASE SettimeEnd
    BY <1>4, <1>w DEF SettimeEnd, Finish, Window
  <1>5. ASSUME NEW d \in Deltas, Adjtime(d) PROVE ReaderInv'
    BY <1>5, <1>r DEF Adjtime
  <1>6. CASE PulseEnd
    BY <1>6, <1>k, <1>f DEF PulseEnd
  <1>7. ASSUME NEW s \in Scales \cup {0}, Adjfine(s) PROVE ReaderInv'
    <2>1. s \in Int BY PtpAssumption
    <2>2. op'.kind \in {"nothing", "adjfine"} BY <1>7, <2>1, LockType DEF Adjfine, Kinds
    <2> QED BY <1>7, <1>k, <2>2 DEF Adjfine, Begin
  <1>8. CASE NothingEnd
    BY <1>8, <1>k, <1>f DEF NothingEnd, params
  <1>9. CASE AdjfineScale
    BY <1>9, <1>r DEF AdjfineScale
  <1>10. CASE AdjfineOffset
    BY <1>10, <1>w DEF AdjfineOffset, Window
  <1>11. CASE ReadFirst
    BY <1>11, <1>k, ReadFirstOp DEF params
  <1>12. CASE ReadSecond
    BY <1>12, <1>k, ReadSecondOp DEF params
  <1>13. CASE ReaderFirst
    <2>1. /\ reader'.clk = clock /\ reader'.raced = Window
          /\ \/ reader'.pc = "offset" /\ reader'.got = offset
             \/ reader'.pc = "scale" /\ reader'.got = scale
      BY <1>13 DEF ReaderFirst
    <2>2. UNCHANGED <<clock, offset, scale, op>> BY <1>13 DEF ReaderFirst, params
    <2>3. ~reader'.raced => ~Window BY <2>1
    <2>4. Window' = Window BY <2>2 DEF Window
    <2> QED BY <1>t, <2>1, <2>2, <2>3, <2>4 DEF ReaderInv
  <1>14. CASE ReaderSecond
    BY <1>14 DEF ReaderSecond, ReaderInv, NoReader
  <1>15. CASE Tick
    <2>1. UNCHANGED <<offset, scale, op, reader>> /\ clock' = clock + 1
      BY <1>15 DEF Tick, params
    <2> QED BY <1>t, <2>1 DEF ReaderInv, Window
  <1>16. CASE UNCHANGED vars
    BY <1>16, <1>k DEF vars
  <1> QED BY <1>1, <1>2, <1>3, <1>4, <1>5, <1>6, <1>7, <1>8, <1>9, <1>10, <1>11, <1>12,
             <1>13, <1>14, <1>15, <1>16 DEF Next

\* A reading that counts is made at or after the anchor, and shows the time there.
LEMMA ReadingShown ==
    ASSUME TypeInv, ReaderInv, reader.pc # "idle", ~reader.raced, ReaderSecond
    PROVE  /\ reader.clk \in Nat /\ reader.clk <= clock /\ ~Window
           /\ ref' = IF ref.known /\ reader.clk < ref.clk THEN ref
                     ELSE RefAt(Time(reader.clk, scale, offset), reader.clk)
  <1>1. reader.clk \in Nat /\ reader.pc \in {"idle", "offset", "scale"}
    <2>1. reader.clk \in Clocks /\ reader.pc \in {"idle", "offset", "scale"}
      BY DEF TypeInv, TypeOK
    <2> QED BY <2>1, ClockNumber
  <1>2. /\ ~Window /\ reader.clk <= clock
        /\ reader.got = IF reader.pc = "offset" THEN offset ELSE scale
    BY DEF ReaderInv
  <1> QED BY <1>1, <1>2 DEF ReaderSecond

\* A step that leaves the parameters and the reading alone keeps the anchor, if what
\* is read after it is not before the anchor.
LEMMA AnchorKept ==
    ASSUME NEW a \in Nat, Anchor(a), UNCHANGED <<offset, scale, ref>>, a <= clock',
           \/ op'.kind # "fine" /\ op.kind # "fine"
           \/ op'.kind = op.kind /\ op'.arg = op.arg /\ op'.clk = op.clk,
           a = ref.clk \/ /\ op'.half # "none" => a <= op'.from
                          /\ op'.read /\ ~op'.torn => a <= op'.clk
                          /\ reader'.pc # "idle" /\ ~reader'.raced => a <= reader'.clk
    PROVE  Anchor(a)'
  <1>1. Shown(a)' = Shown(a) BY DEF Shown
  <1> QED BY <1>1 DEF Anchor

\* The anchor follows the readings and the changes of the rate.
LEMMA AnchorStep == ASSUME TypeInv, ReadsInv, [Next]_vars, ref'.known PROVE \E a \in Nat : Anchor(a)'
  <1>t. /\ scale \in Rates /\ offset \in Int /\ op \in OpType /\ reader \in ReaderType
        /\ ref \in RefType /\ clock \in Nat /\ op.clk \in Nat /\ op.arg \in Int /\ op.from \in Nat
        /\ ref.clk \in Nat /\ ref.val \in Int /\ ref.fines \in Nat /\ reader.clk \in Nat
    <2>1. /\ scale \in Rates /\ offset \in Int /\ op \in OpType /\ reader \in ReaderType
          /\ ref \in RefType /\ clock \in Nat
      BY Constants DEF TypeInv, TypeOK, OpOK, OpType, ReaderType, RefType, Rates
    <2>2. /\ op.clk \in Clocks /\ op.from \in Clocks /\ op.arg \in Int /\ ref.clk \in Clocks
          /\ ref.val \in Int /\ ref.fines \in Nat /\ reader.clk \in Clocks
      BY <2>1 DEF OpType, RefType, ReaderType
    <2> QED BY <2>1, <2>2, ClockNumber
  <1>r. Raced.pc = "idle" \/ Raced.raced BY <1>t, RacedReader
  <1>n. ~NoRef.known BY DEF NoRef
  <1>p. ASSUME ref.known
        PROVE  \E a \in Nat : Anchor(a) /\ a <= clock
    BY <1>p DEF ReadsInv, Anchor
  <1>b. ASSUME op.kind = "none", NEW k \in Kinds \ {"fine"}, NEW x \in Int, op' = Lock(k, x),
               UNCHANGED <<clock, offset, scale, reader, ref>>
        PROVE  \E a \in Nat : Anchor(a)'
    <2>1. PICK a \in Nat : Anchor(a) /\ a <= clock BY <1>b, <1>p
    <2>2. op'.kind = k /\ op'.half = "none" /\ ~op'.read BY <1>b, LockType
    <2>3. Anchor(a)' BY <1>b, <2>1, <2>2, AnchorKept DEF Anchor
    <2> QED BY <2>3
  <1>f. ASSUME op.kind # "fine", op' = Idle, UNCHANGED <<clock, offset, scale, reader, ref>>
        PROVE  \E a \in Nat : Anchor(a)'
    <2>1. PICK a \in Nat : Anchor(a) /\ a <= clock BY <1>f, <1>p
    <2>2. op'.kind = "none" /\ op'.half = "none" /\ ~op'.read BY <1>f DEF Idle
    <2>3. Anchor(a)' BY <1>f, <2>1, <2>2, AnchorKept DEF Anchor
    <2> QED BY <2>3
  <1>1. CASE Gettimex
    BY <1>1, <1>b DEF Gettimex, Begin, Kinds
  <1>2. CASE GettimexEnd
    <2>1. /\ op.kind = "gettimex" /\ op.read /\ op' = Idle
          /\ UNCHANGED <<clock, offset, scale, reader>>
      BY <1>2 DEF GettimexEnd, Finish, params
    <2>2. CASE op.torn
      BY <1>2, <1>f, <2>1, <2>2 DEF GettimexEnd
    <2>3. CASE ~op.torn
      <3>1. PICK v \in Int : v = Time(op.clk, scale, offset) BY <1>t, TimeType
      <3>2. ref' = RefAt(v, op.clk) BY <1>2, <2>3, <3>1 DEF GettimexEnd
      <3>3. op.clk <= clock BY <2>1, <2>3 DEF TypeInv, OpOK
      <3>4. op'.kind = "none" BY <2>1 DEF Idle
      <3>5. Time(op.clk, scale', offset') = v BY <2>1, <3>1
      <3>6. PICK c \in Nat : c = op.clk BY <1>t
      <3>7. Anchor(c)' BY <2>1, <3>2, <3>3, <3>4, <3>5, <3>6, AnchorAtReading
      <3> QED BY <3>7
    <2> QED BY <2>2, <2>3
  <1>3. ASSUME NEW h \in Hosts, Settime(h) PROVE \E a \in Nat : Anchor(a)'
    BY <1>3, <1>n DEF Settime
  <1>4. CASE SettimeEnd
    <2>1. /\ op.kind = "settime" /\ op.read /\ op' = Idle /\ UNCHANGED <<clock, scale, reader>>
          /\ offset' = op.arg - Time(op.clk, scale, offset)
          /\ ref' = IF op.torn \/ offset # 0 THEN NoRef ELSE RefAt(op.arg, op.clk)
      BY <1>4 DEF SettimeEnd, Finish
    <2>2. ~op.torn /\ offset = 0 /\ ref' = RefAt(op.arg, op.clk)
      BY <1>n, <2>1
    <2>3. PICK c \in Nat : c = op.clk BY <1>t
    <2>4. c <= clock' BY <2>1, <2>2, <2>3 DEF TypeInv, OpOK
    <2>5. op'.kind = "none" BY <2>1 DEF Idle
    <2>6. Time(c, scale', offset') = op.arg
      <3>1. op.clk \in Int BY <1>t
      <3>2. Mul(scale, op.clk) \in Int BY <1>t, <3>1, TimeType
      <3> QED BY <1>t, <2>1, <2>2, <2>3, <3>2 DEF Time
    <2>7. PICK v \in Int : v = op.arg BY <1>t
    <2>8. Anchor(c)' BY <2>2, <2>3, <2>4, <2>5, <2>6, <2>7, AnchorAtReading
    <2> QED BY <2>8
  <1>5. ASSUME NEW d \in Deltas, Adjtime(d) PROVE \E a \in Nat : Anchor(a)'
    <2>1. d \in Int BY PtpAssumption
    <2>2. /\ op.kind = "none" /\ op' = Lock("pulse", 0) /\ offset' = offset + d /\ scale' = scale
          /\ clock' = clock /\ reader' = Raced
          /\ ref' = IF ref.known THEN [ref EXCEPT !.val = @ + d] ELSE ref
      BY <1>5 DEF Adjtime, Begin
    <2>3. op'.kind = "pulse" /\ op'.half = "none" /\ ~op'.read BY <2>2, LockType DEF Kinds
    <2>4. ref.known BY <2>2
    <2>5. ref'.clk = ref.clk /\ ref'.fines = ref.fines /\ ref'.val = ref.val + d
      BY <1>t, <2>2, <2>4 DEF RefType
    <2>6. PICK a \in Nat : Anchor(a) /\ a <= clock BY <1>p, <2>4
    <2>7. Shown(a)' - ref'.val = Shown(a) - ref.val
      <3>1. a \in Int OBVIOUS
      <3>2. Mul(scale, a) \in Int BY <1>t, <3>1, TimeType
      <3>3. Shown(a)' = Mul(scale, a) + (offset + d) BY <2>2, <2>3 DEF Shown, Time
      <3>4. Shown(a) = Mul(scale, a) + offset BY <2>2 DEF Shown, Time
      <3> QED BY <1>t, <2>1, <2>5, <3>2, <3>3, <3>4
    <2>8. Anchor(a)' BY <1>r, <2>2, <2>3, <2>5, <2>6, <2>7 DEF Anchor
    <2> QED BY <2>8
  <1>6. CASE PulseEnd
    BY <1>6, <1>f DEF PulseEnd, Finish
  <1>7. ASSUME NEW s \in Scales \cup {0}, Adjfine(s) PROVE \E a \in Nat : Anchor(a)'
    <2>1. s \in Int BY PtpAssumption
    <2> QED BY <1>7, <1>b, <2>1 DEF Adjfine, Begin, Kinds
  <1>8. CASE NothingEnd
    BY <1>8, <1>f DEF NothingEnd, Finish, params
  <1>9. CASE AdjfineScale
    <2>1. /\ op.kind = "adjfine" /\ op.read /\ clock' = clock /\ reader' = Raced
          /\ op' = [op EXCEPT !.kind = "fine", !.arg = Time(op.clk, scale, offset)]
          /\ ref' = IF op.torn \/ ~ref.known \/ ref.clk > op.clk THEN NoRef
                    ELSE [ref EXCEPT !.fines = @ + 1]
      BY <1>9 DEF AdjfineScale
    <2>2. ~op.torn /\ ref.known /\ ref.clk <= op.clk /\ ref' = [ref EXCEPT !.fines = @ + 1]
      BY <1>t, <1>n, <2>1
    <2>3. ref'.clk = ref.clk /\ ref'.val = ref.val /\ ref'.fines = ref.fines + 1
      BY <1>t, <2>2 DEF RefType
    <2>4. /\ op'.kind = "fine" /\ op'.arg = Time(op.clk, scale, offset) /\ op'.clk = op.clk
          /\ op'.half = op.half
      BY <1>t, <2>1 DEF OpType
    <2>5. PICK a \in Nat : Anchor(a) /\ a <= clock BY <1>p, <2>2
    <2>6. PICK c \in Nat : c = op.clk BY <1>t
    <2>7. a <= c /\ c <= clock
      BY <1>t, <2>1, <2>2, <2>5, <2>6 DEF Anchor, TypeInv, OpOK
    <2>8. /\ Time(c, scale, offset) - ref.val <= Mul(Fastest, c - ref.clk) + (ref.fines + 1)
          /\ Time(c, scale, offset) - ref.val >= Mul(Slowest, c - ref.clk) - (ref.fines + 1)
      BY <2>1, <2>2, <2>5, <2>7, Follows
    <2>9. Shown(c)' = Time(c, scale, offset)
      BY <2>4, <2>6 DEF Shown
    <2>10. op'.half = "none"
      BY <2>1, <2>4 DEF TypeInv, OpOK
    <2>11. Anchor(c)'
      BY <1>r, <2>1, <2>2, <2>3, <2>4, <2>6, <2>7, <2>8, <2>9, <2>10 DEF Anchor
    <2> QED BY <2>11
  <1>10. CASE AdjfineOffset
    <2>1. /\ op.kind = "fine" /\ UNCHANGED <<clock, scale, reader, ref>> /\ op' = Lock("pulse", 0)
          /\ offset' = offset + (op.arg - Time(op.clk, scale, offset))
      BY <1>10 DEF AdjfineOffset, Correction
    <2>2. op'.kind = "pulse" /\ op'.half = "none" /\ ~op'.read BY <2>1, LockType DEF Kinds
    <2>3. PICK a \in Nat : Anchor(a) /\ a <= clock BY <1>p, <2>1
    <2>4. a = op.clk /\ Shown(a) = op.arg BY <2>1, <2>3 DEF Anchor, Shown
    <2>5. Shown(a)' = op.arg
      <3>1. PICK m \in Int : m = Mul(scale, op.clk) BY <1>t, TimeType
      <3>2. Shown(a)' = m + (offset + (op.arg - (m + offset)))
        BY <2>1, <2>2, <2>4, <3>1 DEF Shown, Time
      <3> QED BY <1>t, <3>1, <3>2
    <2>6. Anchor(a)' BY <2>1, <2>2, <2>3, <2>4, <2>5 DEF Anchor
    <2> QED BY <2>6
  <1>11. CASE ReadFirst
    <2>1. UNCHANGED <<clock, offset, scale, reader, ref>> BY <1>11, ReadFirstOp DEF params
    <2>2. PICK a \in Nat : Anchor(a) /\ a <= clock BY <1>p, <2>1
    <2>3. Anchor(a)' BY <1>11, <2>1, <2>2, ReadFirstOp, AnchorKept DEF Anchor
    <2> QED BY <2>3
  <1>12. CASE ReadSecond
    <2>1. UNCHANGED <<clock, offset, scale, reader, ref>> BY <1>12, ReadSecondOp DEF params
    <2>2. PICK a \in Nat : Anchor(a) /\ a <= clock BY <1>p, <2>1
    <2>3. op'.clk \in Nat
      <3>1. op'.clk \in Clocks BY <1>12, ReadSecondOp DEF OpType
      <3> QED BY <3>1, ClockNumber
    <2>4. op.kind # "fine" BY <1>12 DEF ReadSecond, TypeInv, OpOK
    <2>5. a = ref.clk \/ (~op'.torn => a <= op'.clk)
      BY <1>12, <1>t, <2>2, <2>3, ReadSecondOp DEF Anchor
    <2>6. Anchor(a)' BY <1>12, <2>1, <2>2, <2>4, <2>5, ReadSecondOp, AnchorKept DEF Anchor
    <2> QED BY <2>6
  <1>13. CASE ReaderFirst
    <2>1. reader'.clk = clock /\ UNCHANGED <<clock, offset, scale, op, ref>>
      BY <1>13 DEF ReaderFirst, params
    <2>2. PICK a \in Nat : Anchor(a) /\ a <= clock BY <1>p, <2>1
    <2>3. Anchor(a)' BY <2>1, <2>2, AnchorKept DEF Anchor
    <2> QED BY <2>3
  <1>14. CASE ReaderSecond
    <2>1. /\ reader.pc # "idle" /\ reader'.pc = "idle" /\ UNCHANGED <<clock, offset, scale, op>>
      BY <1>14 DEF ReaderSecond, NoReader, params
    <2>2. CASE ref' = ref
      <3>1. PICK a \in Nat : Anchor(a) /\ a <= clock BY <1>p, <2>2
      <3>2. Anchor(a)' BY <2>1, <2>2, <3>1, AnchorKept DEF Anchor
      <3> QED BY <3>2
    <2>3. CASE ref' # ref
      <3>1. ~reader.raced BY <1>14, <2>3 DEF ReaderSecond
      <3>2. PICK c \in Nat : c = reader.clk BY <1>t
      <3>3. PICK v \in Int : v = Time(c, scale, offset) BY <1>t, TimeType
      <3>4. /\ ref' = RefAt(v, c) /\ c <= clock /\ op.kind # "fine"
        BY <1>14, <2>1, <2>3, <3>1, <3>2, <3>3, ReadingShown DEF ReadsInv, Window
      <3>5. Anchor(c)' BY <2>1, <3>3, <3>4, AnchorAtReading
      <3> QED BY <3>5
    <2> QED BY <2>2, <2>3
  <1>15. CASE Tick
    <2>1. clock' = clock + 1 /\ UNCHANGED <<offset, scale, op, reader, ref>>
      BY <1>15 DEF Tick, params
    <2>2. PICK a \in Nat : Anchor(a) /\ a <= clock BY <1>p, <2>1
    <2>3. a <= clock' BY <1>t, <2>1, <2>2
    <2>4. Anchor(a)' BY <2>1, <2>2, <2>3, AnchorKept DEF Anchor
    <2> QED BY <2>4
  <1>16. CASE UNCHANGED vars
    <2>1. UNCHANGED <<clock, offset, scale, op, reader, ref>> BY <1>16 DEF vars
    <2>2. PICK a \in Nat : Anchor(a) /\ a <= clock BY <1>p, <2>1
    <2>3. Anchor(a)' BY <2>1, <2>2, AnchorKept DEF Anchor
    <2> QED BY <2>3
  <1> QED BY <1>1, <1>2, <1>3, <1>4, <1>5, <1>6, <1>7, <1>8, <1>9, <1>10, <1>11, <1>12,
             <1>13, <1>14, <1>15, <1>16 DEF Next

\* The readings' invariant is kept.
LEMMA ReadsStep == ASSUME TypeInv, ReadsInv, [Next]_vars PROVE ReadsInv'
  <1>1. ReaderInv' BY ReaderStep DEF ReadsInv
  <1>2. op'.kind = "settime" => ~ref'.known
    <2>t. op \in OpType /\ (op.kind = "settime" => ~ref.known)
      BY DEF TypeInv, TypeOK, OpType, ReadsInv
    <2>1. CASE Gettimex
      <3>1. op'.kind = "gettimex" BY <2>1, LockType DEF Gettimex, Kinds
      <3> QED BY <3>1
    <2>2. ASSUME NEW k, Finish(k) PROVE op'.kind = "none"
      BY <2>2 DEF Finish, Idle
    <2>3. ASSUME NEW h \in Hosts, Settime(h) PROVE ~ref'.known
      BY <2>3 DEF Settime, NoRef
    <2>4. CASE GettimexEnd \/ SettimeEnd \/ PulseEnd \/ NothingEnd
      <3>1. \E k \in Kinds : Finish(k)
        BY <2>4 DEF GettimexEnd, SettimeEnd, PulseEnd, NothingEnd, Kinds
      <3> QED BY <2>2, <3>1
    <2>5. ASSUME NEW d \in Deltas, Adjtime(d) PROVE op'.kind = "pulse"
      BY <2>5, LockType DEF Adjtime, Kinds
    <2>6. ASSUME NEW s \in Scales \cup {0}, Adjfine(s) PROVE op'.kind \in {"nothing", "adjfine"}
      <3>1. s \in Int BY PtpAssumption
      <3> QED BY <2>6, <3>1, LockType DEF Adjfine, Kinds
    <2>7. CASE AdjfineScale
      <3>1. op'.kind = "fine" BY <2>7, <2>t DEF AdjfineScale, OpType
      <3> QED BY <3>1
    <2>8. CASE AdjfineOffset
      <3>1. op'.kind = "pulse" BY <2>8, LockType DEF AdjfineOffset, Kinds
      <3> QED BY <3>1
    <2>9. CASE ReadFirst
      BY <2>9, <2>t, ReadFirstOp
    <2>10. CASE ReadSecond
      BY <2>10, <2>t, ReadSecondOp
    <2>11. CASE ReaderSecond
      <3>1. op' = op BY <2>11 DEF ReaderSecond
      <3>2. CASE op.kind = "settime"
        <4>1. reader.pc # "idle" /\ reader.raced
          BY <2>11, <3>2 DEF ReaderSecond, ReadsInv, ReaderInv, Window
        <4> QED BY <2>11, <2>t, <3>2, <4>1 DEF ReaderSecond
      <3> QED BY <3>1, <3>2
    <2>12. CASE ReaderFirst \/ Tick \/ UNCHANGED vars
      BY <2>12, <2>t DEF ReaderFirst, Tick, vars
    <2> QED BY <2>1, <2>3, <2>4, <2>5, <2>6, <2>7, <2>8, <2>9, <2>10, <2>11, <2>12 DEF Next
  <1>3. ref'.known => \E a \in Nat : Anchor(a)'
    BY AnchorStep
  <1> QED BY <1>1, <1>2, <1>3 DEF ReadsInv

\* Every reading that counts follows the last one.
LEMMA ReadingFollows ==
    ASSUME TypeInv, ReadsInv, GettimexEnd \/ ReaderSecond, ref.known, ref' # ref,
           ref'.clk >= ref.clk
    PROVE  /\ ref'.val - ref.val <= Mul(Fastest, ref'.clk - ref.clk) + (ref.fines + 1)
           /\ ref'.val - ref.val >= Mul(Slowest, ref'.clk - ref.clk) - (ref.fines + 1)
  <1>t. ref.clk \in Nat /\ op.clk \in Nat /\ reader.clk \in Nat
    <2>1. ref.clk \in Clocks /\ op.clk \in Clocks /\ reader.clk \in Clocks
      BY DEF TypeInv, TypeOK
    <2> QED BY <2>1, ClockNumber
  <1>1. PICK a \in Nat : Anchor(a) BY DEF ReadsInv
  <1>2. ASSUME NEW c \in Nat, a <= c, op.kind # "fine",
               ref' = RefAt(Time(c, scale, offset), c)
        PROVE  /\ ref'.val - ref.val <= Mul(Fastest, ref'.clk - ref.clk) + (ref.fines + 1)
               /\ ref'.val - ref.val >= Mul(Slowest, ref'.clk - ref.clk) - (ref.fines + 1)
    <2>1. ref'.val = Time(c, scale, offset) /\ ref'.clk = c BY <1>2 DEF RefAt
    <2>2. /\ Time(c, scale, offset) - ref.val <= Mul(Fastest, c - ref.clk) + (ref.fines + 1)
          /\ Time(c, scale, offset) - ref.val >= Mul(Slowest, c - ref.clk) - (ref.fines + 1)
      BY <1>1, <1>2, Follows
    <2> QED BY <2>1, <2>2
  <1>3. CASE GettimexEnd
    <2>1. /\ op.kind = "gettimex" /\ op.read /\ ~op.torn
          /\ ref' = RefAt(Time(op.clk, scale, offset), op.clk)
      BY <1>3 DEF GettimexEnd, Finish
    <2>2. ref'.clk = op.clk BY <2>1 DEF RefAt
    <2>3. a <= op.clk BY <1>1, <2>1, <2>2 DEF Anchor
    <2> QED BY <1>2, <1>t, <2>1, <2>3
  <1>4. CASE ReaderSecond
    <2>1. reader.pc # "idle" /\ ~reader.raced BY <1>4 DEF ReaderSecond
    <2>2. /\ ref' = RefAt(Time(reader.clk, scale, offset), reader.clk) /\ op.kind # "fine"
      BY <1>4, <2>1, ReadingShown DEF ReadsInv, Window
    <2>3. ref'.clk = reader.clk BY <2>2 DEF RefAt
    <2>4. a <= reader.clk BY <1>1, <2>1, <2>3 DEF Anchor
    <2> QED BY <1>2, <1>t, <2>2, <2>4
  <1> QED BY <1>3, <1>4

\* The time of the PTP clock follows what settime, adjtime and adjfine asked of it, at
\* a rate that was asked for and up to one nanosecond for each change of the rate,
\* whatever operations, ticks and conversions without the lock come in between.
THEOREM ReadingsFollow == Spec => ReadsFollow
  <1>1. ASSUME Init PROVE ReadsInv
    BY <1>1 DEF Init, ReadsInv, ReaderInv, NoReader, NoRef, Idle
  <1>2. Spec => [](TypeInv /\ ReadsInv)
    BY <1>1, TypeAlways, ReadsStep, PTL DEF Spec
  <1>3. TypeInv /\ ReadsInv =>
          [(GettimexEnd \/ ReaderSecond) /\ ref.known /\ ref' # ref /\ ref'.clk >= ref.clk =>
            LET ticks == ref'.clk - ref.clk
                slack == ref.fines + 1
            IN  /\ ref'.val - ref.val <= Mul(Fastest, ticks) + slack
                /\ ref'.val - ref.val >= Mul(Slowest, ticks) - slack]_vars
    BY ReadingFollows
  <1> QED BY <1>2, <1>3, PTL DEF ReadsFollow

=============================================================================

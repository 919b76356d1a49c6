---------------------------- MODULE ConfigProofs ----------------------------
(***************************************************************************)
(* Proofs about the configuration file: what the driver does for a         *)
(* priority is what the file says.  The parts of the argument:             *)
(*                                                                         *)
(* - What normalisation computes in a loop is a recursive function; it     *)
(*   exists (LoopExists), and a set with 0 and all successors holds its    *)
(*   domain (ReachesZero).                                                 *)
(* - The mask of an entry without repeated classes is a sum of different   *)
(*   powers of two, so its bit tc is set exactly when the entry has the    *)
(*   class tc (GateMaskBits).                                              *)
(* - A priority of the schedule has a class of its own (OwnClass), and     *)
(*   all others share the class of -1 (SharedClass).  With the masks, an   *)
(*   entry of the command opens the class of p exactly when the entry of   *)
(*   the file lists p, or -1 when no entry lists p (EntryOpens); hence     *)
(*   the gate of the driver is open when the file says so (FileGate).      *)
(* - ConfigInv: what has been run is in force.  Every step of ConfigNext   *)
(*   is a step of the driver or leaves it alone (ConfigImplementsDriver),  *)
(*   so GateInv of QbvProofs holds too.  The two together give             *)
(*   FileFollowed.                                                         *)
(* - In files like config.yaml the sums over the streams of a class are    *)
(*   the values of its only stream (TwoBandwidths); CreditFollowed is      *)
(*   left with the rounding to whole kbit/s and Mbit/s (SlopesRounded).    *)
(***************************************************************************)
EXTENDS TsnConfig, QbvProofs

----------------------------------------------------------------------------
(* Loops: what a recursive function over 0..n computes.                    *)

\* A set that holds 0 and with each number below n the next one holds all of 0..n.
LEMMA ReachesZero ==
  ASSUME NEW n \in Nat, NEW T, 0 \in T, \A k \in 0..(n - 1) : k \in T => k + 1 \in T
  PROVE  0..n \subseteq T
<1> DEFINE U == {k \in 1..(n + 1) : k - 1 \in T}
<1>1. 1 \in U
  OBVIOUS
<1>2. ASSUME NEW k \in 1..((n + 1) - 1), k \in U PROVE k + 1 \in U
  <2>1. k - 1 \in 0..(n - 1) /\ (k - 1) + 1 = (k + 1) - 1
    OBVIOUS
  <2> QED BY <1>2, <2>1
<1>3. n + 1 \in Nat
  OBVIOUS
<1> HIDE DEF U
<1>4. 1..(n + 1) \subseteq U
  BY ONLY <1>1, <1>2, <1>3, Reaches
<1> SUFFICES ASSUME NEW k \in 0..n PROVE k \in T
  OBVIOUS
<1>5. k + 1 \in U /\ (k + 1) - 1 = k
  BY <1>4
<1> QED BY <1>5 DEF U

\* g is the loop that begins with a and applies F to what it has and the next of x.
Loop(g, F, a, x, n) == g = [i \in 0..n |-> IF i = 0 THEN a ELSE F[<<g[i - 1], x[i]>>]]

\* Every loop has a result.
LEMMA LoopExists ==
  ASSUME NEW A, NEW B, NEW F \in [A \X B -> A], NEW a \in A, NEW n \in Nat, NEW x \in [1..n -> B]
  PROVE  \E g \in [0..n -> A] : Loop(g, F, a, x, n)
<1> DEFINE T == {k \in 0..n : \E g \in [0..k -> A] : Loop(g, F, a, x, k)}
<1>1. 0 \in T
  <2> DEFINE g == [i \in 0..0 |-> a]
  <2>1. g \in [0..0 -> A] /\ Loop(g, F, a, x, 0)
    BY DEF Loop
  <2> QED BY <2>1
<1>2. ASSUME NEW k \in 0..(n - 1), k \in T PROVE k + 1 \in T
  <2>1. PICK g \in [0..k -> A] : Loop(g, F, a, x, k)
    BY <1>2
  <2> DEFINE b == F[<<g[k], x[k + 1]>>]
             h == [i \in 0..(k + 1) |-> IF i <= k THEN g[i] ELSE b]
  <2>2. b \in A
    <3>1. g[k] \in A /\ x[k + 1] \in B
      OBVIOUS
    <3>2. <<g[k], x[k + 1]>> \in A \X B
      BY <3>1
    <3> QED BY <3>2
  <2>3. \A i \in 0..k : g[i] = IF i = 0 THEN a ELSE F[<<g[i - 1], x[i]>>]
    BY <2>1 DEF Loop
  <2> DEFINE r == [i \in 0..(k + 1) |-> IF i = 0 THEN a ELSE F[<<h[i - 1], x[i]>>]]
  <2>4. ASSUME NEW i \in 0..(k + 1) PROVE h[i] = r[i]
    <3>1. CASE i = 0
      <4>0. 0 \in 0..k
        OBVIOUS
      <4>1. g[0] = a
        BY ONLY <2>3, <4>0
      <4>2. h[0] = g[0] /\ r[0] = a
        BY <4>1
      <4> QED BY <3>1, <4>1, <4>2
    <3>2. CASE i \in 1..k
      <4>1. h[i] = g[i] /\ h[i - 1] = g[i - 1]
        BY <3>2
      <4>2. g[i] = F[<<g[i - 1], x[i]>>]
        BY <2>3, <3>2
      <4>3. r[i] = F[<<h[i - 1], x[i]>>]
        BY <3>2
      <4> QED BY <4>1, <4>2, <4>3
    <3>3. CASE i = k + 1
      <4>1. h[i] = b /\ h[i - 1] = g[k] /\ i # 0
        BY <3>3
      <4> QED BY <3>3, <4>1
    <3> QED BY <3>1, <3>2, <3>3
  <2>5. h = r
    <3> HIDE DEF b
    <3> QED BY <2>4
  <2>6. h \in [0..(k + 1) -> A]
    <3> HIDE DEF b
    <3> QED BY <2>2
  <2>7. Loop(h, F, a, x, k + 1)
    BY ONLY <2>5 DEF Loop
  <2>8. k + 1 \in 0..n
    OBVIOUS
  <2> HIDE DEF h
  <2> QED BY <2>6, <2>7, <2>8
<1> HIDE DEF T
<1>3. 0..n \subseteq T
  BY ONLY <1>1, <1>2, ReachesZero, n \in Nat
<1>4. n \in T
  BY <1>3
<1> QED BY <1>4 DEF T

----------------------------------------------------------------------------
(* Bits.                                                                   *)

\* The recursion of Bit.
Bits(g, n) == g = [i \in 0..n |-> IF i = 0 THEN 1 ELSE 2 * g[i - 1]]

\* There is such a function, and Bit is its value.
LEMMA BitLoop ==
  ASSUME NEW n \in Nat
  PROVE  \E g : Bits(g, n) /\ Bit(n) = g[n]
<1> DEFINE F == [p \in Nat \X {0} |-> 2 * p[1]]
           x == [i \in 1..n |-> 0]
           bit == CHOOSE g : g = [i \in 0..n |-> IF i = 0 THEN 1 ELSE 2 * g[i - 1]]
<1>1. F \in [Nat \X {0} -> Nat] /\ x \in [1..n -> {0}] /\ 1 \in Nat
  OBVIOUS
<1> HIDE DEF F, x
<1>2. PICK g \in [0..n -> Nat] : Loop(g, F, 1, x, n)
  BY ONLY <1>1, LoopExists, n \in Nat
<1>3. ASSUME NEW i \in 0..n PROVE g[i] = IF i = 0 THEN 1 ELSE 2 * g[i - 1]
  <2>1. CASE i = 0
    BY <1>2, <2>1 DEF Loop
  <2>2. CASE i # 0
    <3>1. g[i] = F[<<g[i - 1], x[i]>>]
      BY <1>2, <2>2 DEF Loop
    <3>2. g[i - 1] \in Nat /\ x[i] \in {0}
      BY <1>1, <2>2
    <3>3. F[<<g[i - 1], x[i]>>] = 2 * g[i - 1]
      BY <3>2 DEF F
    <3> QED BY <2>2, <3>1, <3>3
  <2> QED BY <2>1, <2>2
<1>4. Bits(g, n)
  BY <1>3 DEF Bits
<1>5. Bits(bit, n)
  BY <1>4 DEF Bits
<1>6. Bit(n) = bit[n]
  BY DEF Bit
<1> HIDE DEF bit
<1> QED BY <1>5, <1>6

\* 1 << (n + 1) is twice 1 << n.
LEMMA BitNext ==
  ASSUME NEW n \in Nat
  PROVE  Bit(0) = 1 /\ Bit(n + 1) = 2 * Bit(n)
<1>1. PICK g : Bits(g, n) /\ Bit(n) = g[n]
  BY BitLoop
<1>2. PICK h : Bits(h, n + 1) /\ Bit(n + 1) = h[n + 1]
  BY BitLoop
<1>3. PICK f : Bits(f, 0) /\ Bit(0) = f[0]
  BY BitLoop
<1> DEFINE T == {i \in 0..n : g[i] = h[i]}
<1>4. 0 \in T
  BY <1>1, <1>2 DEF Bits
<1>5. ASSUME NEW k \in 0..(n - 1), k \in T PROVE k + 1 \in T
  <2>1. k + 1 \in 0..n /\ k + 1 # 0 /\ (k + 1) - 1 = k /\ k + 1 \in 0..(n + 1)
    OBVIOUS
  <2>2. g[k + 1] = 2 * g[k] /\ h[k + 1] = 2 * h[k]
    BY <1>1, <1>2, <2>1 DEF Bits
  <2> QED BY <1>5, <2>1, <2>2
<1> HIDE DEF T
<1>6. n \in T
  <2>1. 0..n \subseteq T
    BY ONLY <1>4, <1>5, ReachesZero, n \in Nat
  <2> QED BY <2>1
<1>7. h[n + 1] = 2 * h[n]
  <2>1. n + 1 \in 0..(n + 1) /\ n + 1 # 0 /\ (n + 1) - 1 = n
    OBVIOUS
  <2> QED BY <1>2, <2>1 DEF Bits
<1>8. f[0] = 1
  BY <1>3 DEF Bits
<1> QED BY <1>1, <1>2, <1>3, <1>6, <1>7, <1>8 DEF T

\* 1 << n is positive.
LEMMA BitPositive ==
  ASSUME NEW n \in Nat
  PROVE  Bit(n) \in Nat \ {0}
<1> DEFINE T == {k \in 0..n : Bit(k) \in Nat \ {0}}
<1>1. 0 \in T
  BY BitNext
<1>2. ASSUME NEW k \in 0..(n - 1), k \in T PROVE k + 1 \in T
  <2>1. Bit(k + 1) = 2 * Bit(k)
    BY BitNext
  <2> QED BY <1>2, <2>1
<1> HIDE DEF T
<1>3. 0..n \subseteq T
  BY ONLY <1>1, <1>2, ReachesZero, n \in Nat
<1>4. n \in T
  BY <1>3
<1> QED BY <1>4 DEF T

\* 1 << (n + m) is a multiple of 1 << n.
LEMMA BitSum ==
  ASSUME NEW n \in Nat, NEW m \in Nat
  PROVE  Bit(n + m) = Bit(n) * Bit(m)
<1> DEFINE T == {k \in 0..m : Bit(n + k) = Bit(n) * Bit(k)}
<1>1. 0 \in T
  <2>1. Bit(0) = 1 /\ Bit(n) \in Nat /\ n + 0 = n
    BY BitNext, BitPositive
  <2> QED BY <2>1
<1>2. ASSUME NEW k \in 0..(m - 1), k \in T PROVE k + 1 \in T
  <2>1. n + k \in Nat /\ n + (k + 1) = (n + k) + 1 /\ k + 1 \in 0..m
    OBVIOUS
  <2>2. Bit(n + (k + 1)) = 2 * Bit(n + k) /\ Bit(k + 1) = 2 * Bit(k)
    BY <2>1, BitNext
  <2>3. PICK a \in Nat, b \in Nat : a = Bit(n) /\ b = Bit(k)
    BY BitPositive
  <2>4. 2 * (a * b) = a * (2 * b)
    OBVIOUS
  <2> QED BY <1>2, <2>1, <2>2, <2>3, <2>4
<1> HIDE DEF T
<1>3. 0..m \subseteq T
  BY ONLY <1>1, <1>2, ReachesZero, m \in Nat
<1>4. m \in T
  BY <1>3
<1> QED BY <1>4 DEF T

\* A quotient is known by its remainder.
LEMMA DivExact ==
  ASSUME NEW b \in Nat \ {0}, NEW q \in Int, NEW r \in Nat, r < b, NEW a \in Int, a = b * q + r
  PROVE  a \div b = q
<1>1. b * (q + 1) = b * q + b /\ b * q \in Int
  OBVIOUS
<1>2. b * q <= a /\ a < b * (q + 1)
  BY <1>1
<1> QED BY <1>2, DivBetween

\* Adding 1 << n to a number that lacks this bit sets it and leaves the other bits alone.
LEMMA AddBit ==
  ASSUME NEW x \in Nat, NEW n \in Nat, NEW t \in Nat, (x \div Bit(n)) % 2 = 0
  PROVE  ((x + Bit(n)) \div Bit(t)) % 2 = IF t = n THEN 1 ELSE (x \div Bit(t)) % 2
<1>1. PICK P \in Nat \ {0} : P = Bit(n)
  BY BitPositive
<1>2. PICK B \in Nat \ {0} : B = Bit(t)
  BY BitPositive
<1>3. PICK q \in Nat, r \in Nat : q = x \div P /\ r < P /\ x = P * q + r
  <2>1. x \div P \in Nat
    BY ONLY x \in Nat, P \in Nat \ {0}, DivSign
  <2>2. PICK p \in Int : p = P * (x \div P) /\ p <= x /\ x < p + P
    BY ONLY x \in Nat, P \in Nat \ {0}, DivSplit
  <2>3. x - p \in Nat /\ x - p < P /\ x = p + (x - p)
    BY ONLY x \in Nat, P \in Nat \ {0}, p \in Int, <2>2
  <2> QED BY <2>1, <2>2, <2>3
<1>4. PICK e \in Nat : q = 2 * e
  <2>1. q % 2 = 0
    BY <1>1, <1>3
  <2> QED BY <2>1
<1>5. CASE t = n
  <2>1. x + P = P * (q + 1) + r
    <3>1. P * (q + 1) = P * q + P /\ P * q \in Nat
      OBVIOUS
    <3> QED BY <1>3, <3>1
  <2>2. (x + P) \div P = q + 1
    <3>1. PICK y \in Nat, k \in Nat : y = x + P /\ k = q + 1
      OBVIOUS
    <3>2. y = P * k + r
      BY ONLY <2>1, <3>1
    <3>3. y \div P = k
      BY ONLY <1>3, <3>2, P \in Nat \ {0}, y \in Nat, k \in Nat, r \in Nat, DivExact
    <3> QED BY ONLY <3>1, <3>3
  <2>3. (q + 1) % 2 = 1
    BY <1>4
  <2> QED BY <1>1, <1>5, <2>2, <2>3
<1>6. CASE t > n
  <2>1. PICK M \in Nat \ {0} : B = (2 * P) * M
    <3>1. t - (n + 1) \in Nat /\ (n + 1) + (t - (n + 1)) = t
      BY <1>6
    <3>2. Bit(n + 1) = 2 * Bit(n) /\ Bit(t) = Bit(n + 1) * Bit(t - (n + 1))
      <4>1. Bit((n + 1) + (t - (n + 1))) = Bit(n + 1) * Bit(t - (n + 1))
        BY <3>1, BitSum
      <4> QED BY <3>1, <4>1, BitNext
    <3> QED BY <1>1, <1>2, <3>1, <3>2, BitPositive
  <2>2. PICK u \in Nat, v \in Nat : v < M /\ e = M * u + v
    <3>1. e \div M \in Nat
      BY ONLY e \in Nat, M \in Nat \ {0}, DivSign
    <3>2. PICK p \in Int : p = M * (e \div M) /\ p <= e /\ e < p + M
      BY ONLY e \in Nat, M \in Nat \ {0}, DivSplit
    <3>3. e - p \in Nat /\ e - p < M /\ e = p + (e - p)
      BY ONLY e \in Nat, M \in Nat \ {0}, p \in Int, <3>2
    <3> QED BY <3>1, <3>2, <3>3
  <2>3. PICK d \in Nat : d = (2 * P) * v /\ d + 2 * P <= B
    <3>1. (2 * P) * (v + 1) <= (2 * P) * M
      BY <2>2
    <3>2. (2 * P) * (v + 1) = (2 * P) * v + 2 * P /\ (2 * P) * v \in Nat
      OBVIOUS
    <3> QED BY <2>1, <3>1, <3>2
  <2>4. P * q = B * u + d
    <3>1. P * (2 * (M * u + v)) = ((2 * P) * M) * u + (2 * P) * v
      OBVIOUS
    <3> QED BY <1>4, <2>1, <2>2, <2>3, <3>1
  <2>5. B * u \in Nat /\ P * q \in Nat
    OBVIOUS
  <2>6. x = B * u + (d + r) /\ x + P = B * u + (d + r + P)
    BY <1>3, <2>4, <2>5
  <2>7. d + r < B /\ d + r + P < B /\ d + r \in Nat /\ d + r + P \in Nat
    BY <1>3, <2>3
  <2>8. x \div B = u
    BY <2>6, <2>7, DivExact
  <2>9. (x + P) \div B = u
    BY <2>6, <2>7, DivExact
  <2> QED BY <1>1, <1>2, <1>6, <2>8, <2>9
<1>7. CASE t < n
  <2>1. PICK M \in Nat \ {0} : P = (2 * B) * M
    <3>1. n - (t + 1) \in Nat /\ (t + 1) + (n - (t + 1)) = n
      BY <1>7
    <3>2. Bit(t + 1) = 2 * Bit(t) /\ Bit(n) = Bit(t + 1) * Bit(n - (t + 1))
      <4>1. Bit((t + 1) + (n - (t + 1))) = Bit(t + 1) * Bit(n - (t + 1))
        BY <3>1, BitSum
      <4> QED BY <3>1, <4>1, BitNext
    <3> QED BY <1>1, <1>2, <3>1, <3>2, BitPositive
  <2>2. PICK u \in Nat, v \in Nat : u = x \div B /\ v < B /\ x = B * u + v
    <3>1. x \div B \in Nat
      BY ONLY x \in Nat, B \in Nat \ {0}, DivSign
    <3>2. PICK p \in Int : p = B * (x \div B) /\ p <= x /\ x < p + B
      BY ONLY x \in Nat, B \in Nat \ {0}, DivSplit
    <3>3. x - p \in Nat /\ x - p < B /\ x = p + (x - p)
      BY ONLY x \in Nat, B \in Nat \ {0}, p \in Int, <3>2
    <3> QED BY <3>1, <3>2, <3>3
  <2>3. x + P = B * (u + 2 * M) + v
    <3>1. B * (u + 2 * M) = B * u + (2 * B) * M /\ B * u \in Nat
      OBVIOUS
    <3> QED BY <2>1, <2>2, <3>1
  <2>4. (x + P) \div B = u + 2 * M
    <3>1. x + P \in Int /\ u + 2 * M \in Int
      OBVIOUS
    <3>2. v \in Nat /\ v < B /\ B \in Nat \ {0}
      BY <2>2
    <3> QED BY ONLY <2>3, <3>1, <3>2, DivExact
  <2>5. (u + 2 * M) % 2 = u % 2
    OBVIOUS
  <2> QED BY <1>1, <1>2, <1>7, <2>2, <2>4, <2>5
<1> QED BY <1>5, <1>6, <1>7

\* The recursion of GateMask: the bits of the classes x[1] .. x[n] together.
Masks(g, x, n) == g = [i \in 0..n |-> IF i = 0 THEN 0 ELSE g[i - 1] + Bit(x[i])]

\* There is such a function.
LEMMA MasksExist ==
  ASSUME NEW n \in Nat, NEW x \in [1..n -> Nat]
  PROVE  \E g \in [0..n -> Nat] : Masks(g, x, n)
<1> DEFINE F == [p \in Nat \X Nat |-> p[1] + Bit(p[2])]
<1>1. F \in [Nat \X Nat -> Nat]
  <2>1. \A p \in Nat \X Nat : p[1] + Bit(p[2]) \in Nat
    <3> SUFFICES ASSUME NEW p \in Nat \X Nat PROVE p[1] + Bit(p[2]) \in Nat
      OBVIOUS
    <3>1. p[1] \in Nat /\ p[2] \in Nat
      OBVIOUS
    <3>2. Bit(p[2]) \in Nat
      BY <3>1, BitPositive
    <3> QED BY <3>1, <3>2
  <2> QED BY <2>1
<1> HIDE DEF F
<1>2. 0 \in Nat
  OBVIOUS
<1>3. PICK g \in [0..n -> Nat] : Loop(g, F, 0, x, n)
  BY ONLY <1>1, <1>2, LoopExists, n \in Nat, x \in [1..n -> Nat]
<1>4. ASSUME NEW i \in 0..n PROVE g[i] = IF i = 0 THEN 0 ELSE g[i - 1] + Bit(x[i])
  <2>1. CASE i = 0
    BY <1>3, <2>1 DEF Loop
  <2>2. CASE i # 0
    <3>1. g[i] = F[<<g[i - 1], x[i]>>]
      BY <1>3, <2>2 DEF Loop
    <3>2. g[i - 1] \in Nat /\ x[i] \in Nat
      BY <2>2
    <3>3. F[<<g[i - 1], x[i]>>] = g[i - 1] + Bit(x[i])
      BY <3>2 DEF F
    <3> QED BY <2>2, <3>1, <3>3
  <2> QED BY <2>1, <2>2
<1>5. g = [i \in 0..n |-> IF i = 0 THEN 0 ELSE g[i - 1] + Bit(x[i])]
  BY ONLY <1>4, g \in [0..n -> Nat]
<1> QED BY <1>5 DEF Masks

\* Each class that occurs, once, is a bit of the mask.
LEMMA MaskBits ==
  ASSUME NEW n \in Nat, NEW x \in [1..n -> Nat], \A j, k \in 1..n : x[j] = x[k] => j = k,
         NEW g, Masks(g, x, n)
  PROVE  /\ g[n] \in Nat
         /\ \A t \in Nat : (g[n] \div Bit(t)) % 2 = IF \E k \in 1..n : x[k] = t THEN 1 ELSE 0
<1> DEFINE Right(m) == \A t \in Nat : (g[m] \div Bit(t)) % 2 = IF \E k \in 1..m : x[k] = t THEN 1 ELSE 0
           T == {m \in 0..n : g[m] \in Nat /\ Right(m)}
<1>1. 0 \in T
  <2>1. g[0] = 0
    BY DEF Masks
  <2>2. ASSUME NEW t \in Nat PROVE (0 \div Bit(t)) % 2 = 0
    <3>1. PICK b \in Nat \ {0} : b = Bit(t)
      BY BitPositive
    <3>2. 0 \div b = 0
      <4>1. 0 = b * 0 + 0 /\ 0 < b /\ 0 \in Int /\ 0 \in Nat
        OBVIOUS
      <4> QED BY ONLY <4>1, DivExact, b \in Nat \ {0}
    <3> QED BY <3>1, <3>2
  <2>3. Right(0)
    BY <2>1, <2>2
  <2> QED BY <2>1, <2>3
<1>2. ASSUME NEW m \in 0..(n - 1), m \in T PROVE m + 1 \in T
  <2>1. m + 1 \in 0..n /\ m + 1 \in 1..n /\ (m + 1) - 1 = m /\ m + 1 # 0
    OBVIOUS
  <2>2. PICK c \in Nat : c = x[m + 1]
    BY <2>1
  <2>3. g[m + 1] = g[m] + Bit(c)
    BY <2>1, <2>2 DEF Masks
  <2>4. g[m] \in Nat /\ Right(m)
    BY <1>2
  <2>5. ~\E k \in 1..m : x[k] = c
    BY <2>1, <2>2
  <2>6. (g[m] \div Bit(c)) % 2 = 0
    BY <2>4, <2>5
  <2>7. ASSUME NEW t \in Nat
        PROVE  (g[m + 1] \div Bit(t)) % 2 = IF \E k \in 1..(m + 1) : x[k] = t THEN 1 ELSE 0
    <3>1. (g[m + 1] \div Bit(t)) % 2 = IF t = c THEN 1 ELSE (g[m] \div Bit(t)) % 2
      BY <2>3, <2>4, <2>6, AddBit
    <3>2. (\E k \in 1..(m + 1) : x[k] = t) <=> (t = c \/ \E k \in 1..m : x[k] = t)
      BY <2>1, <2>2
    <3>3. (g[m] \div Bit(t)) % 2 = IF \E k \in 1..m : x[k] = t THEN 1 ELSE 0
      BY <2>4
    <3> HIDE DEF Right
    <3> QED BY <3>1, <3>2, <3>3
  <2>8. g[m + 1] \in Nat
    <3>1. g[m] \in Nat /\ Bit(c) \in Nat
      BY <2>4, BitPositive
    <3> QED BY ONLY <2>3, <3>1
  <2> QED BY <2>1, <2>7, <2>8
<1> HIDE DEF T
<1>3. 0..n \subseteq T
  BY ONLY <1>1, <1>2, ReachesZero, n \in Nat
<1>4. n \in T
  BY <1>3
<1> QED BY <1>4 DEF T

\* GateMask has the bit of a class when the entry lists a priority of this class, provided
\* that the priorities it lists have classes of their own.
LEMMA GateMaskBits ==
  ASSUME NEW f, NEW e, e.prio \in Seq(Int), \A k \in DOMAIN e.prio : TcNumber(f, e.prio[k]) \in Nat,
         \A j, k \in DOMAIN e.prio : TcNumber(f, e.prio[j]) = TcNumber(f, e.prio[k]) => j = k,
         NEW t \in Nat
  PROVE  (GateMask(f, e) \div Bit(t)) % 2 = 1 <=> \E k \in DOMAIN e.prio : TcNumber(f, e.prio[k]) = t
<1>1. PICK n \in Nat : n = Len(e.prio) /\ DOMAIN e.prio = 1..n
  OBVIOUS
<1>2. PICK x : x = [k \in 1..n |-> TcNumber(f, e.prio[k])]
  OBVIOUS
<1>3. x \in [1..n -> Nat]
  BY <1>1, <1>2
<1> DEFINE sum == CHOOSE g : g = [i \in 0..n |-> IF i = 0 THEN 0
                                                ELSE g[i - 1] + Bit(TcNumber(f, e.prio[i]))]
<1>4. GateMask(f, e) = sum[n]
  BY <1>1 DEF GateMask
<1>5. Masks(sum, x, n)
  <2>1. PICK g : Masks(g, x, n)
    BY <1>3, MasksExist
  <2>2. \A h : Masks(h, x, n) <=>
                h = [i \in 0..n |-> IF i = 0 THEN 0 ELSE h[i - 1] + Bit(TcNumber(f, e.prio[i]))]
    <3> SUFFICES ASSUME NEW h
                 PROVE  [i \in 0..n |-> IF i = 0 THEN 0 ELSE h[i - 1] + Bit(x[i])] =
                        [i \in 0..n |-> IF i = 0 THEN 0 ELSE h[i - 1] + Bit(TcNumber(f, e.prio[i]))]
      BY DEF Masks
    <3>1. \A i \in 0..n : i # 0 => x[i] = TcNumber(f, e.prio[i])
      BY <1>2
    <3> QED BY <3>1
  <2>3. sum = [i \in 0..n |-> IF i = 0 THEN 0 ELSE sum[i - 1] + Bit(TcNumber(f, e.prio[i]))]
    BY <2>1, <2>2
  <2> HIDE DEF sum
  <2> QED BY <2>2, <2>3
<1> HIDE DEF sum
<1>6. \A j, k \in 1..n : x[j] = x[k] => j = k
  BY <1>1, <1>2
<1>7. (sum[n] \div Bit(t)) % 2 = IF \E k \in 1..n : x[k] = t THEN 1 ELSE 0
  BY <1>3, <1>5, <1>6, MaskBits
<1>8. (\E k \in 1..n : x[k] = t) <=> \E k \in DOMAIN e.prio : TcNumber(f, e.prio[k]) = t
  BY <1>1, <1>2
<1> QED BY <1>4, <1>7, <1>8

----------------------------------------------------------------------------
(* The numbering of the classes.                                           *)

\* The recursion of FlattenSeq.
Joins(g, ss, n) == g = [i \in 1..n |-> IF i = 1 THEN ss[i] ELSE g[i - 1] \o ss[i]]

\* There is such a function.
LEMMA JoinsExist ==
  ASSUME NEW S, NEW ss \in Seq(Seq(S)), Len(ss) > 0
  PROVE  \E g \in [1..Len(ss) -> Seq(S)] : Joins(g, ss, Len(ss))
<1>1. PICK n \in Nat \ {0} : n = Len(ss) /\ \A i \in 1..n : ss[i] \in Seq(S)
  OBVIOUS
<1> DEFINE F == [p \in Seq(S) \X Seq(S) |-> p[1] \o p[2]]
           x == [i \in 1..(n - 1) |-> ss[i + 1]]
<1>2. F \in [Seq(S) \X Seq(S) -> Seq(S)]
  <2>1. \A p \in Seq(S) \X Seq(S) : p[1] \o p[2] \in Seq(S)
    OBVIOUS
  <2> QED BY <2>1
<1>3. x \in [1..(n - 1) -> Seq(S)] /\ ss[1] \in Seq(S) /\ n - 1 \in Nat
  BY <1>1
<1> HIDE DEF F
<1>4. PICK h \in [0..(n - 1) -> Seq(S)] : Loop(h, F, ss[1], x, n - 1)
  <2> HIDE DEF x
  <2> QED BY ONLY <1>2, <1>3, LoopExists
<1> DEFINE g == [i \in 1..n |-> h[i - 1]]
<1>5. ASSUME NEW i \in 1..n PROVE h[i - 1] = IF i = 1 THEN ss[i] ELSE g[i - 1] \o ss[i]
  <2>1. CASE i = 1
    <3>1. h[0] = ss[1]
      BY <1>4 DEF Loop
    <3> QED BY <2>1, <3>1
  <2>2. CASE i # 1
    <3>1. i - 1 \in 0..(n - 1) /\ i - 1 # 0 /\ i - 1 \in 1..(n - 1) /\ (i - 1) + 1 = i
          /\ (i - 1) - 1 \in 0..(n - 1) /\ i - 1 \in 1..n
      BY <2>2
    <3>2. h[i - 1] = F[<<h[(i - 1) - 1], x[i - 1]>>]
      BY <1>4, <3>1 DEF Loop
    <3>3. x[i - 1] = ss[i] /\ ss[i] \in Seq(S) /\ h[(i - 1) - 1] \in Seq(S) /\ g[i - 1] = h[(i - 1) - 1]
      BY <1>1, <3>1
    <3>4. F[<<h[(i - 1) - 1], x[i - 1]>>] = h[(i - 1) - 1] \o ss[i]
      <4> HIDE DEF x
      <4> QED BY <3>3 DEF F
    <3> QED BY <2>2, <3>2, <3>3, <3>4
  <2> QED BY <2>1, <2>2
<1>6. g \in [1..n -> Seq(S)]
  <2>1. \A i \in 1..n : h[i - 1] \in Seq(S)
    BY <1>3
  <2> QED BY <2>1
<1>7. g = [i \in 1..n |-> IF i = 1 THEN ss[i] ELSE g[i - 1] \o ss[i]]
  BY <1>5
<1> HIDE DEF g
<1>8. Joins(g, ss, n)
  BY <1>7 DEF Joins
<1> QED BY <1>1, <1>6, <1>8

\* A sequence with the elements of the sequences of ss.
HasAll(flat, ss) ==
  \A v : (\E k \in DOMAIN flat : flat[k] = v)
         <=> (\E i \in DOMAIN ss : \E j \in DOMAIN ss[i] : ss[i][j] = v)

\* FlattenSeq loses no element and adds none.
LEMMA FlattenAll ==
  ASSUME NEW S, NEW ss \in Seq(Seq(S))
  PROVE  FlattenSeq(ss) \in Seq(S) /\ HasAll(FlattenSeq(ss), ss)
<1>0. SUFFICES /\ FlattenSeq(ss) \in Seq(S)
               /\ \A v : (\E k \in DOMAIN FlattenSeq(ss) : FlattenSeq(ss)[k] = v)
                         <=> (\E i \in DOMAIN ss : \E j \in DOMAIN ss[i] : ss[i][j] = v)
  BY DEF HasAll
<1>1. CASE Len(ss) = 0
  <2>1. FlattenSeq(ss) = ss /\ ss = <<>> /\ DOMAIN ss = {}
    BY <1>1 DEF FlattenSeq
  <2> QED BY <2>1
<1>2. CASE Len(ss) # 0
  <2>1. PICK n \in Nat \ {0} : n = Len(ss) /\ DOMAIN ss = 1..n /\ \A i \in 1..n : ss[i] \in Seq(S)
    BY <1>2
  <2> DEFINE flat == CHOOSE g : g = [i \in 1..n |-> IF i = 1 THEN ss[i] ELSE g[i - 1] \o ss[i]]
  <2>2. FlattenSeq(ss) = flat[n]
    BY <1>2, <2>1 DEF FlattenSeq
  <2>3. Joins(flat, ss, n)
    <3>1. \E g : Joins(g, ss, n)
      BY <2>1, JoinsExist
    <3> QED BY <3>1 DEF Joins
  <2> HIDE DEF flat
  <2> DEFINE Whole(k) == /\ flat[k] \in Seq(S)
                         /\ \A v : (\E m \in DOMAIN flat[k] : flat[k][m] = v)
                                   <=> (\E i \in 1..k : \E j \in DOMAIN ss[i] : ss[i][j] = v)
             T == {k \in 1..n : Whole(k)}
  <2>4. 1 \in T
    <3>1. flat[1] = ss[1] /\ ss[1] \in Seq(S) /\ 1..1 = {1}
      BY <2>1, <2>3 DEF Joins
    <3> QED BY <3>1
  <2>5. ASSUME NEW k \in 1..(n - 1), k \in T PROVE k + 1 \in T
    <3>1. k + 1 \in 1..n /\ k + 1 # 1 /\ (k + 1) - 1 = k
      OBVIOUS
    <3>2. flat[k + 1] = flat[k] \o ss[k + 1]
      BY <2>3, <3>1 DEF Joins
    <3>3. PICK a, b : a = flat[k] /\ b = ss[k + 1]
      OBVIOUS
    <3>4. a \in Seq(S) /\ b \in Seq(S)
      BY <2>1, <2>5, <3>1, <3>3
    <3>5. a \o b \in Seq(S)
      BY <3>4
    <3>6. ASSUME NEW v PROVE (\E m \in DOMAIN (a \o b) : (a \o b)[m] = v)
                             <=> (\E m \in DOMAIN a : a[m] = v) \/ (\E j \in DOMAIN b : b[j] = v)
      <4>1. Len(a \o b) = Len(a) + Len(b) /\ Len(a) \in Nat /\ Len(b) \in Nat
            /\ DOMAIN (a \o b) = 1..(Len(a) + Len(b)) /\ DOMAIN a = 1..Len(a) /\ DOMAIN b = 1..Len(b)
        BY <3>4
      <4>2. ASSUME NEW m \in DOMAIN (a \o b), (a \o b)[m] = v
            PROVE  (\E l \in DOMAIN a : a[l] = v) \/ (\E j \in DOMAIN b : b[j] = v)
        <5>1. CASE m <= Len(a)
          BY <3>4, <4>1, <4>2, <5>1
        <5>2. CASE m > Len(a)
          <6>1. m - Len(a) \in DOMAIN b /\ (a \o b)[m] = b[m - Len(a)]
            BY <3>4, <4>1, <5>2
          <6> QED BY <4>2, <6>1
        <5> QED BY <4>1, <5>1, <5>2
      <4>3. ASSUME NEW l \in DOMAIN a, a[l] = v PROVE \E m \in DOMAIN (a \o b) : (a \o b)[m] = v
        <5>1. l \in DOMAIN (a \o b) /\ (a \o b)[l] = a[l]
          BY <3>4, <4>1
        <5> QED BY <4>3, <5>1
      <4>4. ASSUME NEW j \in DOMAIN b, b[j] = v PROVE \E m \in DOMAIN (a \o b) : (a \o b)[m] = v
        <5>1. Len(a) + j \in DOMAIN (a \o b) /\ (a \o b)[Len(a) + j] = b[j]
          BY <3>4, <4>1
        <5> QED BY <4>4, <5>1
      <4> QED BY <4>2, <4>3, <4>4
    <3>7. ASSUME NEW v
          PROVE  (\E i \in 1..(k + 1) : \E j \in DOMAIN ss[i] : ss[i][j] = v)
                 <=> (\E i \in 1..k : \E j \in DOMAIN ss[i] : ss[i][j] = v)
                     \/ (\E j \in DOMAIN b : b[j] = v)
      <4>1. 1..(k + 1) = (1..k) \cup {k + 1}
        OBVIOUS
      <4> QED BY ONLY <3>3, <4>1
    <3>8. \A v : (\E m \in DOMAIN a : a[m] = v)
                <=> (\E i \in 1..k : \E j \in DOMAIN ss[i] : ss[i][j] = v)
      BY <2>5, <3>3
    <3>9. Whole(k + 1)
      <4>1. flat[k + 1] = a \o b
        BY <3>2, <3>3
      <4>2. ASSUME NEW v PROVE (\E m \in DOMAIN (a \o b) : (a \o b)[m] = v)
                               <=> (\E i \in 1..(k + 1) : \E j \in DOMAIN ss[i] : ss[i][j] = v)
        BY ONLY <3>6, <3>7, <3>8
      <4> QED BY ONLY <3>5, <4>1, <4>2
    <3> QED BY <3>1, <3>9
  <2> HIDE DEF T
  <2>6. 1..n \subseteq T
    BY ONLY <2>4, <2>5, Reaches, n \in Nat \ {0}
  <2>7. n \in T
    BY <2>6
  <2>8. Whole(n)
    BY ONLY <2>7 DEF T
  <2> HIDE DEF Whole
  <2>9. PICK all : all = flat[n] /\ all = FlattenSeq(ss)
    BY ONLY <2>2
  <2>10. /\ all \in Seq(S)
         /\ \A v : (\E m \in DOMAIN all : all[m] = v)
                   <=> (\E i \in 1..n : \E j \in DOMAIN ss[i] : ss[i][j] = v)
    BY ONLY <2>8, <2>9 DEF Whole
  <2>11. DOMAIN ss = 1..n
    BY ONLY <2>1
  <2> QED BY ONLY <2>9, <2>10, <2>11
<1> QED BY <1>1, <1>2

\* The places with a class of their own that come before that of priority p.
Before(f, p) == {i \in Firsts(f) : \A j \in Firsts(f) : Listing(f)[j] = p => i < j}

\* The class of a priority is known by that.
LEMMA BeforeTypes ==
  ASSUME NEW f, Listing(f) \in Seq(Int)
  PROVE  /\ Firsts(f) \subseteq Nat /\ IsFiniteSet(Firsts(f)) /\ Cardinality(Firsts(f)) \in Nat
         /\ \A p : /\ Before(f, p) \subseteq Firsts(f) /\ IsFiniteSet(Before(f, p))
                  /\ TcNumber(f, p) = Cardinality(Before(f, p)) /\ TcNumber(f, p) \in Nat
<1>1. PICK n \in Nat : n = Len(Listing(f)) /\ DOMAIN Listing(f) = 1..n
  OBVIOUS
<1>2. Firsts(f) \in SUBSET (1..n)
  BY <1>1 DEF Firsts
<1>3. IsFiniteSet(1..n)
  BY FS_Interval
<1>4. IsFiniteSet(Firsts(f))
  BY <1>2, <1>3, FS_Subset
<1>5. ASSUME NEW p
      PROVE  /\ Before(f, p) \subseteq Firsts(f) /\ IsFiniteSet(Before(f, p))
             /\ TcNumber(f, p) = Cardinality(Before(f, p)) /\ TcNumber(f, p) \in Nat
  <2>1. Before(f, p) \in SUBSET Firsts(f)
    BY DEF Before
  <2>2. IsFiniteSet(Before(f, p))
    BY <1>4, <2>1, FS_Subset
  <2>3. TcNumber(f, p) = Cardinality(Before(f, p))
    BY DEF TcNumber, Before
  <2> QED BY <2>1, <2>2, <2>3, FS_CardinalityType
<1> QED BY <1>2, <1>4, <1>5, FS_CardinalityType

\* A priority has one place.
LEMMA OnePlace ==
  ASSUME NEW f, Listing(f) \in Seq(Int), NEW i \in Firsts(f), NEW j \in Firsts(f),
         Listing(f)[i] = Listing(f)[j]
  PROVE  i = j
<1>1. i \in Nat \ {0} /\ j \in Nat \ {0}
  BY DEF Firsts
<1>2. ~(i < j)
  <2> SUFFICES ASSUME i < j PROVE FALSE
    OBVIOUS
  <2>1. i \in 1..(j - 1)
    BY <1>1
  <2> QED BY <2>1 DEF Firsts
<1>3. ~(j < i)
  <2> SUFFICES ASSUME j < i PROVE FALSE
    OBVIOUS
  <2>1. j \in 1..(i - 1)
    BY <1>1
  <2> QED BY <2>1 DEF Firsts
<1> QED BY <1>1, <1>2, <1>3

\* All priorities without a class of their own share one, which no other has.
LEMMA SharedClass ==
  ASSUME NEW f, Listing(f) \in Seq(Int), NEW p
  PROVE  p \notin Named(f) <=> TcNumber(f, p) = Cardinality(Firsts(f))
<1>1. CASE p \notin Named(f)
  <2>1. Before(f, p) = Firsts(f)
    BY <1>1 DEF Named, Before
  <2> QED BY <1>1, <2>1, BeforeTypes
<1>2. CASE p \in Named(f)
  <2>1. PICK i \in Firsts(f) : Listing(f)[i] = p
    BY <1>2 DEF Named
  <2>2. i \notin Before(f, p)
    <3>1. i \in Nat
      BY BeforeTypes
    <3> QED BY <2>1, <3>1 DEF Before
  <2>3. Before(f, p) \in SUBSET Firsts(f) /\ Before(f, p) # Firsts(f) /\ IsFiniteSet(Firsts(f))
    BY <2>1, <2>2, BeforeTypes
  <2>4. Cardinality(Before(f, p)) # Cardinality(Firsts(f))
    BY <2>3, FS_Subset
  <2> QED BY <1>2, <2>4, BeforeTypes
<1> QED BY <1>1, <1>2

\* A priority whose place comes first has another class.
LEMMA ClassesOrdered ==
  ASSUME NEW f, Listing(f) \in Seq(Int), NEW i \in Firsts(f), NEW j \in Firsts(f), i < j
  PROVE  TcNumber(f, Listing(f)[i]) # TcNumber(f, Listing(f)[j])
<1>1. PICK p, q : p = Listing(f)[i] /\ q = Listing(f)[j]
  OBVIOUS
<1>2. Firsts(f) \subseteq Nat
  BY BeforeTypes
<1>3. i \notin Before(f, p)
  BY <1>1, <1>2 DEF Before
<1>4. i \in Before(f, q)
  <2>1. \A k \in Firsts(f) : Listing(f)[k] = q => k = j
    BY <1>1, OnePlace
  <2> QED BY <2>1 DEF Before
<1>5. Before(f, p) \in SUBSET Before(f, q)
  <2> SUFFICES ASSUME NEW k \in Before(f, p) PROVE k \in Before(f, q)
    OBVIOUS
  <2>1. k \in Firsts(f) /\ k < i
    BY <1>1 DEF Before
  <2>2. k < j
    BY <1>2, <2>1
  <2>3. \A l \in Firsts(f) : Listing(f)[l] = q => l = j
    BY <1>1, OnePlace
  <2> QED BY <2>1, <2>2, <2>3 DEF Before
<1>6. IsFiniteSet(Before(f, q)) /\ Before(f, p) # Before(f, q)
  BY <1>3, <1>4, BeforeTypes
<1>7. Cardinality(Before(f, p)) # Cardinality(Before(f, q))
  BY <1>5, <1>6, FS_Subset
<1> QED BY <1>1, <1>7, BeforeTypes

\* Priorities with the same class are the same, or both have no class of their own.
LEMMA OwnClass ==
  ASSUME NEW f, Listing(f) \in Seq(Int), NEW p, NEW q, TcNumber(f, p) = TcNumber(f, q)
  PROVE  p = q \/ (p \notin Named(f) /\ q \notin Named(f))
<1>1. p \in Named(f) <=> q \in Named(f)
  BY SharedClass
<1> SUFFICES ASSUME p \in Named(f), q \in Named(f), p # q PROVE FALSE
  BY <1>1
<1>2. PICK i \in Firsts(f), j \in Firsts(f) : Listing(f)[i] = p /\ Listing(f)[j] = q
  BY DEF Named
<1>3. i \in Nat /\ j \in Nat /\ i # j
  BY <1>2, BeforeTypes
<1>4. CASE i < j
  BY <1>2, <1>4, ClassesOrdered
<1>5. CASE j < i
  BY <1>2, <1>5, ClassesOrdered
<1> QED BY <1>3, <1>4, <1>5

\* A listed priority has a first place.
LEMMA FirstPlace ==
  ASSUME NEW f, Listing(f) \in Seq(Int), NEW k \in DOMAIN Listing(f),
         f.kind = "tas" => Listing(f)[k] > 0
  PROVE  Listing(f)[k] \in Named(f)
<1> DEFINE all == Listing(f)
           p == all[k]
           S == {i \in DOMAIN all : all[i] = p}
<1>1. PICK n \in Nat : n = Len(all) /\ DOMAIN all = 1..n
  OBVIOUS
<1>2. S \in SUBSET (1..n) /\ S # {}
  BY <1>1
<1>3. PICK m \in S : \A i \in S : m <= i
  <2> HIDE DEF S
  <2> QED BY ONLY <1>2, LeastElement, n \in Nat
<1>4. m \in DOMAIN all /\ all[m] = p /\ m \in Nat
  BY <1>1
<1>5. \A j \in 1..(m - 1) : all[j] # all[m]
  <2> SUFFICES ASSUME NEW j \in 1..(m - 1), all[j] = p PROVE FALSE
    BY <1>4
  <2>1. j \in S /\ j < m
    BY <1>1, <1>4
  <2> QED BY <1>3, <1>4, <2>1
<1>6. m \in Firsts(f)
  BY <1>4, <1>5 DEF Firsts
<1> QED BY <1>4, <1>6 DEF Named

----------------------------------------------------------------------------
(* The gate masks say what the file says.                                  *)

\* What the reader makes of a schedule file.
LEMMA LoadedTas ==
  ASSUME NEW f \in Loaded("tas")
  PROVE  /\ f.kind = "tas"
         /\ f.entries \in Seq(TasEntries)
         /\ \A i \in DOMAIN f.entries :
              /\ f.entries[i].prio \in Seq(Int) /\ f.entries[i].dur \in Nat \ {0}
              /\ \A k \in DOMAIN f.entries[i].prio :
                   f.entries[i].prio[k] > 0 \/ f.entries[i].prio[k] = -1
         /\ SchedEntries(f) \in Schedule /\ SchedEntries(f) \in Schedules
         /\ PrioMap(f) \in TcMaps
<1>1. f.kind = "tas" /\ Accepted(f)
  BY DEF Loaded
<1>2. f.entries \in Seq(TasEntries)
  BY ConfigAssumption
<1>3. ASSUME NEW i \in DOMAIN f.entries
      PROVE  /\ f.entries[i].prio \in Seq(Int) /\ f.entries[i].dur \in Nat \ {0}
             /\ \A k \in DOMAIN f.entries[i].prio :
                  f.entries[i].prio[k] > 0 \/ f.entries[i].prio[k] = -1
  <2>1. f.entries[i] \in TasEntries
    <3>1. PICK es, R : es = f.entries /\ R = TasEntries
      OBVIOUS
    <3>2. es \in Seq(R) /\ i \in DOMAIN es
      BY <1>2, <1>3, <3>1
    <3>3. es[i] \in R
      BY ONLY <3>2
    <3> QED BY <3>1, <3>3
  <2>2. f.entries[i].prio \in Seq(Int) /\ f.entries[i].dur \in Nat \ {0}
    BY <2>1 DEF TasEntries
  <2>3. ASSUME NEW k \in DOMAIN f.entries[i].prio
        PROVE  f.entries[i].prio[k] > 0 \/ f.entries[i].prio[k] = -1
    <3>1. f.entries[i].prio[k] \in ToSet(f.entries[i].prio)
      BY DEF ToSet
    <3> QED BY <1>1, <3>1 DEF Accepted
  <2> QED BY <2>2, <2>3
<1>4. SchedEntries(f) \in Schedules /\ PrioMap(f) \in TcMaps
  BY ConfigAssumption
<1>5. SchedEntries(f) \in Schedule
  BY <1>4, ScheduleAssumption DEF Schedule
<1> QED BY <1>1, <1>2, <1>3, <1>4, <1>5

\* normalise_tas meets the priorities the entries list.
LEMMA ListingTas ==
  ASSUME NEW f \in Loaded("tas")
  PROVE  /\ Listing(f) \in Seq(Int)
         /\ \A p : (\E k \in DOMAIN Listing(f) : Listing(f)[k] = p)
                   <=> (\E i \in DOMAIN f.entries : Lists(f.entries[i], p))
<1> DEFINE ss == [i \in DOMAIN f.entries |-> f.entries[i].prio]
<1>1. f.kind = "tas" /\ \A i \in DOMAIN f.entries : f.entries[i].prio \in Seq(Int)
  BY LoadedTas
<1>2. PICK n \in Nat : DOMAIN f.entries = 1..n
  BY LoadedTas
<1>3. ss \in Seq(Seq(Int)) /\ DOMAIN ss = DOMAIN f.entries
  BY <1>1, <1>2
<1>4. Listing(f) = FlattenSeq(ss)
  BY <1>1 DEF Listing
<1>5. ASSUME NEW p, NEW i \in DOMAIN f.entries
      PROVE  Lists(f.entries[i], p) <=> \E j \in DOMAIN ss[i] : ss[i][j] = p
  <2>1. DOMAIN f.entries[i].prio = 1..Len(f.entries[i].prio) /\ ss[i] = f.entries[i].prio
    BY <1>1
  <2> QED BY <2>1 DEF Lists, Contains
<1> HIDE DEF ss
<1>6. /\ FlattenSeq(ss) \in Seq(Int)
      /\ \A p : (\E k \in DOMAIN FlattenSeq(ss) : FlattenSeq(ss)[k] = p)
                <=> (\E i \in DOMAIN ss : \E j \in DOMAIN ss[i] : ss[i][j] = p)
  <2>1. ss \in Seq(Seq(Int))
    BY ONLY <1>3
  <2>2. FlattenSeq(ss) \in Seq(Int) /\ HasAll(FlattenSeq(ss), ss)
    BY ONLY <2>1, FlattenAll
  <2> QED BY ONLY <2>2 DEF HasAll
<1>7. ASSUME NEW p PROVE (\E i \in DOMAIN ss : \E j \in DOMAIN ss[i] : ss[i][j] = p)
                         <=> (\E i \in DOMAIN f.entries : Lists(f.entries[i], p))
  <2>1. PICK D : D = DOMAIN f.entries /\ D = DOMAIN ss
    BY <1>3
  <2>2. \A i \in D : Lists(f.entries[i], p) <=> \E j \in DOMAIN ss[i] : ss[i][j] = p
    BY ONLY <1>5, <2>1
  <2> QED BY ONLY <2>1, <2>2
<1> QED BY ONLY <1>4, <1>6, <1>7

\* A priority has a class of its own when it is positive and listed.
LEMMA NamedListed ==
  ASSUME NEW f \in Loaded("tas"), NEW p
  PROVE  p \in Named(f) <=> p > 0 /\ \E i \in DOMAIN f.entries : Lists(f.entries[i], p)
<1>1. CASE p \in Named(f)
  <2>1. PICK k \in Firsts(f) : Listing(f)[k] = p
    BY <1>1 DEF Named
  <2>2. k \in DOMAIN Listing(f) /\ p > 0
    BY <2>1, LoadedTas DEF Firsts
  <2> QED BY <1>1, <2>1, <2>2, ListingTas
<1>2. ASSUME p > 0, NEW i \in DOMAIN f.entries, Lists(f.entries[i], p) PROVE p \in Named(f)
  <2>1. PICK k \in DOMAIN Listing(f) : Listing(f)[k] = p
    BY <1>2, ListingTas
  <2> QED BY <1>2, <2>1, ListingTas, FirstPlace
<1> QED BY <1>1, <1>2

\* The mask of an entry opens the classes of the priorities it lists.
LEMMA MaskOpens ==
  ASSUME NEW f \in Loaded("tas"), NEW i \in DOMAIN f.entries, IsInjective(f.entries[i].prio),
         NEW tc \in TCs
  PROVE  tc \in SchedEntries(f)[i].open <=> \E q : Lists(f.entries[i], q) /\ TcNumber(f, q) = tc
<1>1. PICK e : e = f.entries[i]
  OBVIOUS
<1>2. PICK n \in Nat : n = Len(e.prio) /\ DOMAIN e.prio = 1..n
  BY <1>1, LoadedTas
<1>3. /\ e.prio \in Seq(Int) /\ \A k \in 1..n : e.prio[k] > 0 \/ e.prio[k] = -1
      /\ \A j, k \in 1..n : e.prio[j] = e.prio[k] => j = k
  BY <1>1, <1>2, LoadedTas DEF IsInjective
<1>4. Listing(f) \in Seq(Int)
  BY ListingTas
<1>5. ASSUME NEW j \in 1..n, NEW k \in 1..n, TcNumber(f, e.prio[j]) = TcNumber(f, e.prio[k])
      PROVE  j = k
  <2>1. e.prio[j] = e.prio[k] \/ (e.prio[j] \notin Named(f) /\ e.prio[k] \notin Named(f))
    BY <1>4, <1>5, OwnClass
  <2>2. \A l \in 1..n : e.prio[l] > 0 => e.prio[l] \in Named(f)
    <3>1. \A l \in 1..n : Lists(e, e.prio[l])
      BY <1>2 DEF Lists, Contains
    <3> QED BY <1>1, <3>1, NamedListed
  <2>3. e.prio[j] = e.prio[k]
    BY <1>3, <2>1, <2>2
  <2> QED BY <1>3, <2>3
<1>6. tc \in Nat /\ \A k \in 1..n : TcNumber(f, e.prio[k]) \in Nat
  BY <1>4, BeforeTypes, ConfigAssumption
<1>7. (GateMask(f, e) \div Bit(tc)) % 2 = 1 <=> \E k \in 1..n : TcNumber(f, e.prio[k]) = tc
  <2>1. DOMAIN e.prio = 1..n /\ e.prio \in Seq(Int) /\ tc \in Nat
    BY <1>2, <1>3, <1>6
  <2>2. \A k \in DOMAIN e.prio : TcNumber(f, e.prio[k]) \in Nat
    BY <1>6, <2>1
  <2>3. \A j, k \in DOMAIN e.prio : TcNumber(f, e.prio[j]) = TcNumber(f, e.prio[k]) => j = k
    BY <1>5, <2>1
  <2>4. (GateMask(f, e) \div Bit(tc)) % 2 = 1
           <=> \E k \in DOMAIN e.prio : TcNumber(f, e.prio[k]) = tc
    BY ONLY <2>1, <2>2, <2>3, GateMaskBits, Zenon
  <2> QED BY ONLY <2>1, <2>4
<1>8. tc \in SchedEntries(f)[i].open <=> (GateMask(f, e) \div Bit(tc)) % 2 = 1
  BY <1>1 DEF SchedEntries
<1>9. (\E k \in 1..n : TcNumber(f, e.prio[k]) = tc) <=> \E q : Lists(e, q) /\ TcNumber(f, q) = tc
  BY <1>2 DEF Lists, Contains
<1> QED BY <1>1, <1>7, <1>8, <1>9

\* What FileOpens looks for in the entries: the priority, or -1 for those not listed.
Sought(f, p) == IF p > 0 /\ \E i \in DOMAIN f.entries : Lists(f.entries[i], p) THEN p ELSE -1

\* An entry opens the class of a priority exactly when it lists it.
LEMMA EntryOpens ==
  ASSUME NEW f \in Loaded("tas"), NEW i \in DOMAIN f.entries, IsInjective(f.entries[i].prio),
         NEW p \in Prios
  PROVE  TcNumber(f, p) \in TCs /\ TcNumber(f, p) \in SchedEntries(f)[i].open
           <=> TcNumber(f, p) \in TCs /\ Lists(f.entries[i], Sought(f, p))
<1> SUFFICES ASSUME TcNumber(f, p) \in TCs
             PROVE  (\E q : Lists(f.entries[i], q) /\ TcNumber(f, q) = TcNumber(f, p))
                      <=> Lists(f.entries[i], Sought(f, p))
  BY MaskOpens
<1>1. Listing(f) \in Seq(Int) /\ p \in Nat
  BY ListingTas, ConfigAssumption
<1>2. ASSUME NEW q, Lists(f.entries[i], q)
      PROVE  q \in Int /\ (q \in Named(f) \/ q = -1)
  <2>1. f.entries[i].prio \in Seq(Int)
    BY LoadedTas
  <2>2. PICK k \in DOMAIN f.entries[i].prio : f.entries[i].prio[k] = q
    BY <1>2, <2>1 DEF Lists, Contains
  <2>3. q \in Int /\ (q > 0 \/ q = -1)
    BY <2>1, <2>2, LoadedTas
  <2> QED BY <1>2, <2>3, NamedListed
<1>3. -1 \notin Named(f)
  BY NamedListed
<1>4. CASE p \in Named(f)
  <2>1. Sought(f, p) = p
    BY <1>4, NamedListed DEF Sought
  <2>2. ASSUME NEW q, Lists(f.entries[i], q), TcNumber(f, q) = TcNumber(f, p) PROVE q = p
    BY <1>1, <1>4, <2>2, OwnClass
  <2> QED BY <2>1, <2>2
<1>5. CASE p \notin Named(f)
  <2>1. Sought(f, p) = -1
    BY <1>5, NamedListed DEF Sought
  <2>2. ASSUME NEW q, Lists(f.entries[i], q), TcNumber(f, q) = TcNumber(f, p) PROVE q = -1
    <3>1. q = p \/ q \notin Named(f)
      BY <1>1, <2>2, OwnClass
    <3> QED BY <1>2, <1>5, <2>2, <3>1
  <2>3. TcNumber(f, -1) = TcNumber(f, p)
    BY <1>1, <1>3, <1>5, SharedClass
  <2> QED BY <2>1, <2>2, <2>3
<1> QED BY <1>4, <1>5

\* The schedule begins its entries when the file does.
LEMMA SchedBegins ==
  ASSUME NEW f \in Loaded("tas")
  PROVE  /\ DOMAIN SchedEntries(f) = DOMAIN f.entries
         /\ Len(SchedEntries(f)) = Len(f.entries)
         /\ \A k \in 1..(Len(f.entries) + 1) : Begin(SchedEntries(f), k) = Begin(f.entries, k)
         /\ CycleNs(SchedEntries(f)) = CycleNs(f.entries)
<1>1. PICK n, es, ss : n = Len(f.entries) /\ es = f.entries /\ ss = SchedEntries(f)
  OBVIOUS
<1>2. n \in Nat /\ DOMAIN es = 1..n
  <2>1. PICK R : es \in Seq(R)
    BY <1>1, LoadedTas
  <2>2. n = Len(es)
    BY <1>1
  <2> QED BY ONLY <2>1, <2>2
<1>3. ss = [i \in 1..n |-> [dur |-> es[i].dur,
                            open |-> {tc \in TCs : (GateMask(f, es[i]) \div Bit(tc)) % 2 = 1}]]
  BY <1>1, <1>2 DEF SchedEntries
<1>4. DOMAIN ss = 1..n /\ \A i \in 1..n : ss[i].dur = es[i].dur
  BY <1>3
<1>5. Len(ss) = n
  <2>1. ss \in Schedule
    BY <1>1, LoadedTas
  <2>2. ss \in Seq([dur : Nat \ {0}, open : SUBSET TCs])
    BY <2>1 DEF Schedule
  <2>3. DOMAIN ss = 1..Len(ss) /\ Len(ss) \in Nat
    BY ONLY <2>2
  <2>4. 1..Len(ss) = 1..n
    BY <1>4, <2>3
  <2>5. PICK l : l = Len(ss)
    OBVIOUS
  <2>6. l \in Nat /\ 1..l = 1..n
    BY <2>3, <2>4, <2>5
  <2>7. ~(l < n) /\ ~(n < l)
    <3>1. n \in 1..n <=> n \in 1..l
      BY ONLY <2>6
    <3>2. l \in 1..n <=> l \in 1..l
      BY ONLY <2>6
    <3> QED BY ONLY <1>2, <2>6, <3>1, <3>2
  <2> QED BY ONLY <1>2, <2>5, <2>6, <2>7
<1>6. ASSUME NEW k \in 1..(n + 1) PROVE Begin(ss, k) = Begin(es, k)
  <2>1. k \in Nat \ {0} /\ \A i \in 1..(k - 1) : i \in 1..n
    BY <1>2
  <2>2. \A i \in 1..(k - 1) : ss[i].dur = es[i].dur
    BY <1>4, <2>1
  <2> QED BY ONLY <2>1, <2>2, BeginPrefix
<1>7. CycleNs(ss) = CycleNs(es)
  <2>1. n + 1 \in 1..(n + 1)
    BY <1>2
  <2>2. Begin(ss, n + 1) = Begin(es, n + 1)
    BY <1>6, <2>1
  <2>3. CycleNs(ss) = Begin(ss, n + 1) /\ CycleNs(es) = Begin(es, n + 1)
    BY <1>1, <1>5 DEF CycleNs
  <2> QED BY <2>2, <2>3
<1> QED BY <1>1, <1>2, <1>4, <1>5, <1>6, <1>7

\* The gate of a priority's class is open exactly when the file opens the priority.
LEMMA FileGate ==
  ASSUME NEW f \in Loaded("tas"), NoRepeats(f), NEW p \in Prios, TcNumber(f, p) \in TCs,
         NEW t \in Int
  PROVE  OpenAt(SchedEntries(f), 0, TcNumber(f, p), t) <=> FileOpens(f, p, t)
<1>1. PICK n, es, ss, tc, q : n = Len(f.entries) /\ es = f.entries /\ ss = SchedEntries(f)
                              /\ tc = TcNumber(f, p) /\ q = Sought(f, p)
  OBVIOUS
<1>2. n \in Nat /\ DOMAIN es = 1..n
  <2>1. PICK R : es \in Seq(R)
    BY <1>1, LoadedTas
  <2>2. n = Len(es)
    BY <1>1
  <2> QED BY ONLY <2>1, <2>2
<1>3. /\ DOMAIN ss = 1..n /\ CycleNs(ss) = CycleNs(es)
      /\ \A k \in 1..(n + 1) : Begin(ss, k) = Begin(es, k)
  BY <1>1, <1>2, SchedBegins
<1>4. ASSUME NEW i \in 1..n PROVE tc \in ss[i].open <=> Lists(es[i], q)
  <2>1. i \in DOMAIN f.entries /\ IsInjective(f.entries[i].prio)
    BY <1>1, <1>2 DEF NoRepeats
  <2>2. TcNumber(f, p) \in SchedEntries(f)[i].open <=> Lists(f.entries[i], Sought(f, p))
    BY <2>1, EntryOpens
  <2> QED BY <1>1, <2>2
<1>5. PICK rem : rem = t % CycleNs(es)
  OBVIOUS
<1>6. (t - 0) % CycleNs(ss) = rem
  BY <1>3, <1>5
<1>7. OpenAt(ss, 0, tc, t) <=> \E i \in 1..n : /\ Begin(ss, i) <= rem /\ rem < Begin(ss, i + 1)
                                              /\ tc \in ss[i].open
  BY <1>3, <1>6 DEF OpenAt
<1>8. FileOpens(f, p, t) <=> \E i \in 1..n : /\ Begin(es, i) <= rem /\ rem < Begin(es, i + 1)
                                            /\ Lists(es[i], q)
  BY <1>1, <1>2, <1>5 DEF FileOpens, Sought
<1>9. ASSUME NEW i \in 1..n
      PROVE  Begin(ss, i) = Begin(es, i) /\ Begin(ss, i + 1) = Begin(es, i + 1)
  <2>1. i \in 1..(n + 1) /\ i + 1 \in 1..(n + 1)
    BY <1>2
  <2> QED BY <1>3, <2>1
<1>10. OpenAt(ss, 0, tc, t) <=> FileOpens(f, p, t)
  BY ONLY <1>4, <1>7, <1>8, <1>9
<1> QED BY <1>1, <1>10

\* A gate that every entry opens is open at any time.
LEMMA AlwaysOpenAt ==
  ASSUME NEW sched \in Schedule, NEW tc, AlwaysOpen(sched, tc), NEW start \in Int, NEW t \in Int
  PROVE  OpenAt(sched, start, tc, t)
<1>1. PICK n, C, r : n = Len(sched) /\ C = CycleNs(sched) /\ r = (t - start) % C
  OBVIOUS
<1>2. C \in Nat \ {0}
  BY <1>1, BakeCorrect, Shape
<1>3. r \in Nat /\ r < C
  <2>1. t - start \in Int
    OBVIOUS
  <2>2. (t - start) % C \in Int /\ 0 <= (t - start) % C /\ (t - start) % C < C
    BY ONLY <1>2, <2>1, ModSplit
  <2> QED BY <1>1, <2>2
<1>4. /\ n \in Nat /\ DOMAIN sched = 1..n /\ \A i \in 1..n : sched[i].dur \in Nat
      /\ C = Begin(sched, n + 1)
  BY <1>1, ColumnGate DEF CycleNs
<1>5. PICK i \in 1..n : In(sched, i, r)
  BY <1>3, <1>4, SlotExists
<1> QED BY <1>1, <1>4, <1>5 DEF OpenAt, In, AlwaysOpen

----------------------------------------------------------------------------
(* The commands give the driver what the file says, and nothing else.      *)

\* The commands for a file.
Commands(f) == {"map"} \cup (IF f.kind = "tas" THEN {"taprio"} ELSE ToSet(Child))

\* The cbs command of class tc has been run.
Ran(tc) == \E qid \in {1, 2} : tc = qid - 1 /\ Child[qid] \notin todo

\* The inductive invariant: what has been run is in force, as the file has it, and what
\* has not been run is not.
ConfigInv ==
  /\ file \in Loaded("tas") \cup Loaded("cbs") /\ todo \subseteq Commands(file)
  /\ "map" \notin todo => tcMap = PrioMap(file)
  /\ file.kind = "tas" /\ "taprio" \notin todo =>
       /\ "map" \notin todo
       /\ qbv = [enabled |-> TRUE, start |-> 0, slots |-> SchedEntries(file)]
  /\ file.kind = "cbs" =>
       /\ \A tc \in TCs : qav[tc].enabled <=> Ran(tc)
       /\ \A qid \in {1, 2} : Child[qid] \notin todo =>
            /\ qav[qid - 1].idle = QavSlopes(Children(file, qid)).idle
            /\ qav[qid - 1].send = QavSlopes(Children(file, qid)).send
  /\ held # NoSkb => held.prio \in Prios
  /\ out # NoOut => out.prio \in Prios /\ out.tc = tcMap[out.prio]

\* Everything the commands install is of the driver's CONSTANTS.
LEMMA Installed ==
  ASSUME NEW f \in Loaded("tas") \cup Loaded("cbs")
  PROVE  /\ f.kind \in {"tas", "cbs"} /\ f \in Loaded(f.kind)
         /\ PrioMap(f) \in TcMaps
         /\ f.kind = "tas" => SchedEntries(f) \in Schedules
         /\ f.kind = "cbs" => /\ {0, 1} \subseteq TCs
                              /\ \A qid \in {1, 2} : Children(f, qid) \in Offloads
BY ConfigAssumption DEF Loaded

\* The two commands of mqprio's children.
LEMMA Childs ==
  /\ Child[1] = "child1" /\ Child[2] = "child2" /\ ToSet(Child) = {"child1", "child2"}
BY DEF Child, ToSet

\* The driver starts as it does without files.
LEMMA ConfigStarts == ConfigInit => Init /\ ConfigInv
<1> SUFFICES ASSUME ConfigInit PROVE Init /\ ConfigInv
  OBVIOUS
<1>1. /\ Init /\ todo = Commands(file) /\ file \in Loaded("tas") \cup Loaded("cbs")
  BY DEF ConfigInit, Commands
<1>2. held = NoSkb /\ out = NoOut /\ qav = [tc \in TCs |-> ZeroQav]
  BY <1>1 DEF Init
<1>3. file.kind = "tas" => "taprio" \in todo
  BY <1>1 DEF Commands
<1>4. ASSUME file.kind = "cbs"
      PROVE  /\ \A tc \in TCs : ~qav[tc].enabled
             /\ \A qid \in {1, 2} : Child[qid] \in todo
  <2>1. \A tc \in TCs : ~qav[tc].enabled
    BY <1>2 DEF ZeroQav
  <2>2. \A qid \in {1, 2} : Child[qid] \in todo
    BY <1>1, <1>4, Childs DEF Commands
  <2> QED BY <2>1, <2>2
<1> QED BY <1>1, <1>2, <1>3, <1>4 DEF ConfigInv, Ran, Commands

\* The commands, as steps of the driver.
LEMMA CommandsAreSteps ==
  ASSUME ConfigInv
  PROVE  /\ RunMap => Configure \/ UNCHANGED vars
         /\ RunTaprio => Configure
         /\ \A qid \in {1, 2} : RunChild(qid) => Configure
<1>1. file \in Loaded("tas") \cup Loaded("cbs") /\ todo \subseteq Commands(file)
  BY DEF ConfigInv
<1>2. RunMap => Configure \/ UNCHANGED vars
  BY <1>1, Installed DEF RunMap, Configure
<1>3. ASSUME RunTaprio PROVE Configure
  <2>1. "taprio" \in todo /\ SetQbv(SchedEntries(file), 0)
    BY <1>3 DEF RunTaprio
  <2>2. file.kind = "tas"
    BY <1>1, <2>1, Childs DEF Commands
  <2>3. SchedEntries(file) \in Schedules /\ 0 \in Starts
    BY <1>1, <2>2, Installed, ConfigAssumption
  <2> QED BY <2>1, <2>3 DEF Configure
<1>4. ASSUME NEW qid \in {1, 2}, RunChild(qid) PROVE Configure
  <2>1. Child[qid] \in todo /\ SetQav(qid - 1, TRUE, Children(file, qid))
    BY <1>4 DEF RunChild
  <2>2. file.kind = "cbs"
    BY <1>1, <2>1, Childs, Installed DEF Commands
  <2>3. Children(file, qid) \in Offloads /\ qid - 1 \in {0, 1} /\ {0, 1} \subseteq TCs
    BY <1>1, <2>2, Installed
  <2>4. qid - 1 \in TCs /\ TRUE \in BOOLEAN
    BY <2>3
  <2> QED BY <2>1, <2>3, <2>4 DEF Configure
<1> QED BY <1>2, <1>3, <1>4

\* Every step, of tc or of the driver, is a step of the driver.
LEMMA ConfigSteps == ConfigInv /\ [ConfigNext]_<<vars, configFileVars>> => [Next]_vars
<1> SUFFICES ASSUME ConfigInv, [ConfigNext]_<<vars, configFileVars>> PROVE [Next]_vars
  OBVIOUS
<1>1. ASSUME RunMap \/ RunTaprio \/ \E qid \in {1, 2} : RunChild(qid) PROVE [Next]_vars
  BY <1>1, CommandsAreSteps DEF Next
<1>2. ASSUME Drive PROVE [Next]_vars
  BY <1>2 DEF Drive, Next
<1> QED BY <1>1, <1>2 DEF ConfigNext

\* What start_xmit may leave of a frame keeps a priority of the VLAN header.
LEMMA PrioKept ==
  ASSUME ConfigInv, NEW skb \in Offered
  PROVE  /\ skb.prio \in Prios /\ Pushed(skb).prio \in Prios
         /\ \A h \in PushedFilled(skb) : h.prio \in Prios
<1>1. skb.prio \in Prios
  <2>1. CASE held # NoSkb
    BY <2>1 DEF Offered, ConfigInv
  <2>2. CASE held = NoSkb
    <3>1. PICK f \in Frames : skb = [prio |-> f.prio, gptp |-> f.gptp, bytes |-> f.bytes]
      BY <2>2 DEF Offered
    <3> QED BY <3>1, ConfigAssumption
  <2> QED BY <2>1, <2>2
<1>2. Pushed(skb).prio \in Prios
  BY ConfigAssumption DEF Pushed
<1>3. ASSUME NEW h \in PushedFilled(skb) PROVE h.prio \in Prios
  <2>1. PICK f \in Frames : h = [Pushed(skb) EXCEPT !.prio = f.prio, !.gptp = f.gptp]
    BY DEF PushedFilled
  <2>2. h.prio = f.prio
    BY <2>1 DEF Pushed
  <2> QED BY <2>2, ConfigAssumption
<1> QED BY <1>1, <1>2, <1>3

\* A class is shaped as before.
SameShape(q, r) == q.enabled = r.enabled /\ q.idle = r.idle /\ q.send = r.send

\* Sending a frame changes no slope.
LEMMA SpendShape ==
  ASSUME CreditInv, NEW skb, Spend(skb)
  PROVE  /\ DOMAIN qav' = TCs
         /\ \A tc \in TCs : SameShape(qav'[tc], qav[tc])
<1>1. qav \in [TCs -> QavStates]
  BY DEF CreditInv
<1>2. PICK s, q : q \in SpendQavCredit(qav[s], Ready(skb), Length(skb)) /\ qav' = [qav EXCEPT ![s] = q]
  BY DEF Spend
<1>3. ASSUME s \in TCs PROVE SameShape(q, qav[s])
  <2>1. qav[s] \in QavStates
    BY <1>1, <1>3
  <2>2. q = qav[s] \/ \E c, end : q = SentUntil(qav[s], c, end)
    BY <1>2 DEF SpendQavCredit
  <2>3. ASSUME NEW c, NEW end, q = SentUntil(qav[s], c, end) PROVE SameShape(q, qav[s])
    BY <2>1, <2>3 DEF SentUntil, QavStates, SameShape
  <2> QED BY <2>2, <2>3 DEF SameShape
<1>4. ASSUME NEW tc \in TCs PROVE SameShape(qav'[tc], qav[tc])
  <2>1. CASE tc = s
    <3>1. qav'[tc] = q
      BY <1>1, <1>2, <2>1
    <3> QED BY <1>3, <2>1, <3>1
  <2>2. CASE tc # s
    <3>1. qav'[tc] = qav[tc]
      BY <1>1, <1>2, <2>2
    <3> QED BY <3>1 DEF SameShape
  <2> QED BY <2>1, <2>2
<1>5. DOMAIN qav' = TCs
  BY <1>1, <1>2
<1> QED BY <1>4, <1>5

\* Steps that change neither file, commands, map nor schedule, and no slope.
LEMMA ConfigKeeps ==
  ASSUME ConfigInv, UNCHANGED <<file, todo, tcMap, qbv>>,
         \A tc \in TCs : SameShape(qav'[tc], qav[tc]),
         held' # NoSkb => held'.prio \in Prios,
         out' # NoOut => out'.prio \in Prios /\ out'.tc = tcMap'[out'.prio]
  PROVE  ConfigInv'
<1>1. PICK f : f = file
  OBVIOUS
<1>2. file' = f /\ todo' = todo /\ tcMap' = tcMap /\ qbv' = qbv /\ f = file
  BY <1>1
<1>3. f.kind = "cbs" =>
        /\ \A tc \in TCs : qav'[tc].enabled <=> \E qid \in {1, 2} : tc = qid - 1 /\ Child[qid] \notin todo'
        /\ \A qid \in {1, 2} : Child[qid] \notin todo' =>
             /\ qav'[qid - 1].idle = QavSlopes(Children(f, qid)).idle
             /\ qav'[qid - 1].send = QavSlopes(Children(f, qid)).send
  <2> SUFFICES ASSUME f.kind = "cbs"
               PROVE  /\ \A tc \in TCs : qav'[tc].enabled <=>
                           \E qid \in {1, 2} : tc = qid - 1 /\ Child[qid] \notin todo'
                      /\ \A qid \in {1, 2} : Child[qid] \notin todo' =>
                           /\ qav'[qid - 1].idle = QavSlopes(Children(f, qid)).idle
                           /\ qav'[qid - 1].send = QavSlopes(Children(f, qid)).send
    OBVIOUS
  <2>1. {0, 1} \subseteq TCs
    BY <1>1, Installed DEF ConfigInv
  <2>2. ASSUME NEW qid \in {1, 2} PROVE qid - 1 \in TCs
    BY <2>1
  <2>3. /\ \A tc \in TCs : qav[tc].enabled <=> \E qid \in {1, 2} : tc = qid - 1 /\ Child[qid] \notin todo
        /\ \A qid \in {1, 2} : Child[qid] \notin todo =>
             /\ qav[qid - 1].idle = QavSlopes(Children(f, qid)).idle
             /\ qav[qid - 1].send = QavSlopes(Children(f, qid)).send
    BY <1>1 DEF ConfigInv, Ran
  <2>4. \A tc \in TCs : /\ qav'[tc].enabled = qav[tc].enabled
                        /\ qav'[tc].idle = qav[tc].idle /\ qav'[tc].send = qav[tc].send
    BY DEF SameShape
  <2> QED BY <1>2, <2>2, <2>3, <2>4
<1>4. f.kind = "tas" /\ "taprio" \notin todo' =>
        /\ "map" \notin todo'
        /\ qbv' = [enabled |-> TRUE, start |-> 0, slots |-> SchedEntries(f)]
  BY <1>2 DEF ConfigInv
<1>5. /\ f \in Loaded("tas") \cup Loaded("cbs") /\ todo' \subseteq Commands(f)
      /\ "map" \notin todo' => tcMap' = PrioMap(f)
  BY <1>2 DEF ConfigInv
<1> QED BY <1>2, <1>3, <1>4, <1>5 DEF ConfigInv, Ran

\* The driver's own steps.
LEMMA DriveKeeps ==
  ASSUME CreditInv, ConfigInv, Drive
  PROVE  ConfigInv'
<1>1. UNCHANGED <<file, todo>>
  BY DEF Drive, configFileVars
<1>2. /\ held # NoSkb => held.prio \in Prios
      /\ out # NoOut => out.prio \in Prios /\ out.tc = tcMap[out.prio]
  BY DEF ConfigInv
<1>3. CASE TxIsr \/ \E d \in Deltas : Tick(d)
  <2>1. UNCHANGED <<tcMap, qbv, qav, held, out>>
    BY <1>3 DEF TxIsr, Tick, configVars
  <2>2. \A tc \in TCs : SameShape(qav'[tc], qav[tc])
    BY <2>1 DEF SameShape
  <2> QED BY <1>1, <1>2, <2>1, <2>2, ConfigKeeps
<1>4. CASE Xmit
  <2>1. PICK skb \in Offered : \/ XmitFreed(skb) \/ XmitRefused(skb) \/ XmitFull(skb)
                               \/ XmitSent(skb) \/ XmitUnmapped(skb)
    BY <1>4 DEF Xmit
  <2>2. /\ skb.prio \in Prios /\ Pushed(skb).prio \in Prios
        /\ \A h \in PushedFilled(skb) : h.prio \in Prios
    BY PrioKept
  <2>3. UNCHANGED <<tcMap, qbv>>
    BY <2>1 DEF XmitFreed, XmitRefused, XmitFull, XmitSent, XmitUnmapped, configVars
  <2>4. \A tc \in TCs : SameShape(qav'[tc], qav[tc])
    <3>1. CASE XmitFreed(skb) \/ XmitRefused(skb)
      <4>1. qav' = qav
        BY <3>1 DEF XmitFreed, XmitRefused, configVars
      <4> QED BY <4>1 DEF SameShape
    <3>2. CASE XmitFull(skb) \/ XmitSent(skb) \/ XmitUnmapped(skb)
      <4>1. Spend(skb)
        BY <3>2 DEF XmitFull, XmitSent, XmitUnmapped, Fill
      <4> QED BY <4>1, SpendShape
    <3> QED BY <2>1, <3>1, <3>2
  <2>5. held' # NoSkb => held'.prio \in Prios
    BY <2>1, <2>2 DEF XmitFreed, XmitRefused, XmitFull, XmitSent, XmitUnmapped
  <2>6. out' # NoOut => out'.prio \in Prios /\ out'.tc = tcMap'[out'.prio]
    <3>1. CASE XmitFreed(skb) \/ XmitRefused(skb) \/ XmitFull(skb)
      <4>1. out' = out
        BY <3>1 DEF XmitFreed, XmitRefused, XmitFull
      <4> QED BY <1>2, <2>3, <4>1
    <3>2. CASE XmitSent(skb) \/ XmitUnmapped(skb)
      <4>1. out'.prio = skb.prio /\ out'.tc = tcMap[skb.prio]
        BY <3>2 DEF XmitSent, XmitUnmapped, Fill, TcOf
      <4> QED BY <2>2, <2>3, <4>1
    <3> QED BY <2>1, <3>1, <3>2
  <2> QED BY <1>1, <2>3, <2>4, <2>5, <2>6, ConfigKeeps
<1> QED BY <1>3, <1>4 DEF Drive

\* The map is installed.
LEMMA MapKeeps ==
  ASSUME ConfigInv, RunMap
  PROVE  ConfigInv'
<1>1. PICK f : f = file
  OBVIOUS
<1>2. "map" \in todo /\ todo' = todo \ {"map"} /\ file' = f
  BY <1>1 DEF RunMap
<1>3. UNCHANGED <<qbv, qav, held>>
  BY DEF RunMap, SetMqprio, vars, configVars
<1>4. tcMap' = PrioMap(f) /\ (out' = NoOut \/ (out' = out /\ tcMap' = tcMap))
  BY <1>1 DEF RunMap, SetMqprio, vars, configVars
<1>5. f.kind = "tas" => "taprio" \in todo'
  BY <1>1, <1>2 DEF ConfigInv
<1>6. \A qid \in {1, 2} : Child[qid] \notin todo' <=> Child[qid] \notin todo
  BY <1>2, Childs
<1>7. f.kind = "cbs" =>
        /\ \A tc \in TCs : qav'[tc].enabled <=> \E qid \in {1, 2} : tc = qid - 1 /\ Child[qid] \notin todo'
        /\ \A qid \in {1, 2} : Child[qid] \notin todo' =>
             /\ qav'[qid - 1].idle = QavSlopes(Children(f, qid)).idle
             /\ qav'[qid - 1].send = QavSlopes(Children(f, qid)).send
  <2>1. f.kind = "cbs" =>
          /\ \A tc \in TCs : qav[tc].enabled <=> \E qid \in {1, 2} : tc = qid - 1 /\ Child[qid] \notin todo
          /\ \A qid \in {1, 2} : Child[qid] \notin todo =>
               /\ qav[qid - 1].idle = QavSlopes(Children(f, qid)).idle
               /\ qav[qid - 1].send = QavSlopes(Children(f, qid)).send
    BY <1>1 DEF ConfigInv, Ran
  <2> QED BY <1>3, <1>6, <2>1
<1>8. /\ f \in Loaded("tas") \cup Loaded("cbs") /\ todo' \subseteq Commands(f)
      /\ held' # NoSkb => held'.prio \in Prios
      /\ out' # NoOut => out'.prio \in Prios /\ out'.tc = tcMap'[out'.prio]
  BY <1>1, <1>2, <1>3, <1>4 DEF ConfigInv
<1> QED BY <1>2, <1>4, <1>5, <1>7, <1>8 DEF ConfigInv, Ran

\* The schedule is installed.
LEMMA TaprioKeeps ==
  ASSUME ConfigInv, RunTaprio
  PROVE  ConfigInv'
<1>1. PICK f : f = file
  OBVIOUS
<1>2. /\ "map" \notin todo /\ "taprio" \in todo /\ todo' = todo \ {"taprio"} /\ file' = f
      /\ SetQbv(SchedEntries(f), 0)
  BY <1>1 DEF RunTaprio
<1>3. UNCHANGED <<tcMap, held>> /\ out' = NoOut
  BY <1>2 DEF SetQbv, BakeQosConfig
<1>4. qbv' = [enabled |-> TRUE, start |-> 0, slots |-> SchedEntries(f)]
  BY <1>2 DEF SetQbv, BakeQosConfig, ForcedQbv
<1>5. f.kind = "tas"
  <2>1. "taprio" \in Commands(f)
    BY <1>1, <1>2 DEF ConfigInv
  <2> QED BY <2>1, Childs DEF Commands
<1>6. /\ f \in Loaded("tas") \cup Loaded("cbs") /\ todo' \subseteq Commands(f)
      /\ tcMap' = PrioMap(f)
      /\ held' # NoSkb => held'.prio \in Prios
  BY <1>1, <1>2, <1>3 DEF ConfigInv
<1> QED BY <1>2, <1>3, <1>4, <1>5, <1>6 DEF ConfigInv

\* The credits of a queue are installed.
LEMMA ChildKeeps ==
  ASSUME CreditInv, ConfigInv, NEW qid \in {1, 2}, RunChild(qid)
  PROVE  ConfigInv'
<1>1. PICK f, o : f = file /\ o = Children(f, qid)
  OBVIOUS
<1>2. /\ "map" \notin todo /\ Child[qid] \in todo /\ todo' = todo \ {Child[qid]} /\ file' = f
      /\ SetQav(qid - 1, TRUE, o)
  BY <1>1 DEF RunChild
<1>3. UNCHANGED <<tcMap, held>> /\ out' = NoOut
  BY <1>2 DEF SetQav, BakeQosConfig
<1>4. f.kind = "cbs"
  <2>1. Child[qid] \in Commands(f) /\ f.kind \in {"tas", "cbs"}
    BY <1>1, <1>2, Installed DEF ConfigInv
  <2> QED BY <2>1, Childs DEF Commands
<1>5. 0 \in TCs /\ 1 \in TCs /\ qav \in [TCs -> QavStates]
  <2>1. {0, 1} \subseteq TCs
    BY <1>1, <1>4, Installed DEF ConfigInv
  <2> QED BY <2>1 DEF CreditInv
<1>6. PICK c : c = qid - 1
  OBVIOUS
<1>7. c \in TCs /\ \A k \in {1, 2} : k - 1 \in TCs /\ (k - 1 = c <=> k = qid)
  BY <1>5, <1>6
<1>8. PICK q : q = [qav[c] EXCEPT !.enabled = TRUE, !.idle = QavSlopes(o).idle,
                                !.send = QavSlopes(o).send, !.hi = QavSlopes(o).hi,
                                !.lo = QavSlopes(o).lo]
  OBVIOUS
<1>9. qav' = [qav EXCEPT ![c] = q]
  BY <1>2, <1>6, <1>8 DEF SetQav
<1>10. q.enabled = TRUE /\ q.idle = QavSlopes(o).idle /\ q.send = QavSlopes(o).send
  <2>1. qav[c] \in QavStates
    BY <1>5, <1>7
  <2> QED BY <1>8, <2>1 DEF QavStates
<1>11. qav'[c] = q /\ \A tc \in TCs : tc # c => qav'[tc] = qav[tc]
  BY <1>5, <1>7, <1>9
<1>12. \A k \in {1, 2} : Child[k] \notin todo' <=> Child[k] \notin todo \/ k = qid
  BY <1>2, Childs
<1>13. /\ \A tc \in TCs : qav[tc].enabled <=> \E k \in {1, 2} : tc = k - 1 /\ Child[k] \notin todo
       /\ \A k \in {1, 2} : Child[k] \notin todo =>
            /\ qav[k - 1].idle = QavSlopes(Children(f, k)).idle
            /\ qav[k - 1].send = QavSlopes(Children(f, k)).send
  BY <1>1, <1>4 DEF ConfigInv, Ran
<1>14. ASSUME NEW tc \in TCs
       PROVE  qav'[tc].enabled <=> \E k \in {1, 2} : tc = k - 1 /\ Child[k] \notin todo'
  <2>1. CASE tc = c
    BY <1>6, <1>10, <1>11, <1>12, <2>1
  <2>2. CASE tc # c
    BY <1>7, <1>11, <1>12, <1>13, <2>2
  <2> QED BY <2>1, <2>2
<1>15. ASSUME NEW k \in {1, 2}, Child[k] \notin todo'
       PROVE  /\ qav'[k - 1].idle = QavSlopes(Children(f, k)).idle
              /\ qav'[k - 1].send = QavSlopes(Children(f, k)).send
  <2>1. CASE k = qid
    BY <1>1, <1>6, <1>10, <1>11, <2>1
  <2>2. CASE k # qid
    BY <1>7, <1>11, <1>12, <1>13, <1>15, <2>2
  <2> QED BY <2>1, <2>2
<1>16. /\ f \in Loaded("tas") \cup Loaded("cbs") /\ todo' \subseteq Commands(f)
       /\ tcMap' = PrioMap(f)
       /\ held' # NoSkb => held'.prio \in Prios
  BY <1>1, <1>2, <1>3 DEF ConfigInv
<1> QED BY <1>2, <1>3, <1>4, <1>14, <1>15, <1>16 DEF ConfigInv, Ran

\* Every step keeps the invariant.
LEMMA ConfigNextKeeps ==
  CreditInv /\ ConfigInv /\ [ConfigNext]_<<vars, configFileVars>> => ConfigInv'
<1> SUFFICES ASSUME CreditInv, ConfigInv, [ConfigNext]_<<vars, configFileVars>> PROVE ConfigInv'
  OBVIOUS
<1>1. CASE UNCHANGED <<vars, configFileVars>>
  <2>1. UNCHANGED <<file, todo, tcMap, qbv, qav, held, out>>
    BY <1>1 DEF vars, configVars, configFileVars
  <2>2. \A tc \in TCs : SameShape(qav'[tc], qav[tc])
    BY <2>1 DEF SameShape
  <2>3. /\ held # NoSkb => held.prio \in Prios
        /\ out # NoOut => out.prio \in Prios /\ out.tc = tcMap[out.prio]
    BY DEF ConfigInv
  <2> QED BY <2>1, <2>2, <2>3, ConfigKeeps
<1> QED BY <1>1, MapKeeps, TaprioKeeps, ChildKeeps, DriveKeeps DEF ConfigNext

\* Refinement: whatever file is read and whenever its commands are run, the driver does
\* what TsnQos lets it do, and what is proved of the driver holds.
THEOREM ConfigImplementsDriver == ConfigSpec => Spec
<1>1. ConfigSpec => [](CreditInv /\ ConfigInv)
  <2>1. ConfigInit => CreditInv /\ ConfigInv
    BY ConfigStarts, CreditInit
  <2>2. CreditInv /\ ConfigInv /\ [ConfigNext]_<<vars, configFileVars>> => (CreditInv /\ ConfigInv)'
    BY ConfigSteps, CreditNext, ConfigNextKeeps
  <2> QED BY <2>1, <2>2, PTL DEF ConfigSpec
<1>2. ConfigInit => Init
  BY ConfigStarts
<1>3. ConfigInv /\ [ConfigNext]_<<vars, configFileVars>> => [Next]_vars
  BY ConfigSteps
<1> QED BY <1>1, <1>2, <1>3, PTL DEF ConfigSpec, Spec

\* What the driver has installed is always what the commands run so far were given.
THEOREM ConfigInvariant == ConfigSpec => []ConfigInv
<1>1. ConfigInit => ConfigInv
  BY ConfigStarts
<1>2. CreditInv /\ ConfigInv /\ [ConfigNext]_<<vars, configFileVars>> => ConfigInv'
  BY ConfigNextKeeps
<1>3. ConfigSpec => []CreditInv
  BY ConfigImplementsDriver, CreditInvariant, PTL
<1> QED BY <1>1, <1>2, <1>3, PTL DEF ConfigSpec

\* A frame is on the wire only while the file opens its priority.
THEOREM FileFollowed == ConfigSpec => [](BeforeWrap => WindowFollowsFile)
<1>1. ConfigInv /\ GateInv /\ BeforeWrap => WindowFollowsFile
  <2> SUFFICES ASSUME ConfigInv, GateInv, BeforeWrap,
                      file.kind = "tas", todo = {}, NoRepeats(file), Usable
               PROVE  IF out.ts.to = out.ts.from - 1
                      THEN \A t \in 0 .. (CycleNs(file.entries) - 1) : FileOpens(file, out.prio, t)
                      ELSE /\ out.ts.from <= out.ts.to
                           /\ \A t \in out.ts.from .. (out.ts.to + out.sending - 1) :
                                FileOpens(file, out.prio, t)
                           /\ FileEnds(file, out.prio, out.ts.to + out.sending)
    BY DEF WindowFollowsFile
  <2>1. PICK f, p, tc, sched : f = file /\ p = out.prio /\ tc = out.tc /\ sched = SchedEntries(f)
    OBVIOUS
  <2>2. f \in Loaded("tas") /\ NoRepeats(f)
    BY <2>1, Installed DEF ConfigInv
  <2>3. qbv.slots = sched /\ qbv.start = 0
    BY <2>1 DEF ConfigInv
  <2>4. p \in Prios /\ tc \in TCs /\ tc = TcNumber(f, p)
    <3>1. out # NoOut /\ tcMap = PrioMap(f)
      BY <2>1 DEF Usable, ConfigInv
    <3>2. p \in Prios /\ tc = PrioMap(f)[p] /\ tc \in TCs
      BY <2>1, <3>1 DEF ConfigInv, GateInv
    <3> QED BY <3>2 DEF PrioMap
  <2>5. \A t \in Int : OpenAt(sched, 0, tc, t) <=> FileOpens(f, p, t)
    BY <2>1, <2>2, <2>4, FileGate
  <2>6. PICK from, to, sending : from = out.ts.from /\ to = out.ts.to /\ sending = out.sending
    OBVIOUS
  <2>7. \/ AlwaysOpen(sched, tc) /\ to = from - 1
        \/ /\ from <= to /\ \A t \in from .. to : OpenDuring(sched, 0, tc, t, sending)
           /\ ClosesAt(sched, 0, tc, to + sending)
    <3>1. /\ WindowsRight(sched, 0, tc, out.ready, sending, out.delay, out.ts)
          /\ baked.prios[tc] = BakePrio(sched, tc)
      <4>1. /\ WindowsRight(qbv.slots, qbv.start, out.tc, out.ready, out.sending, out.delay, out.ts)
            /\ baked.prios[out.tc] = BakePrio(qbv.slots, out.tc)
        BY OutRight DEF Usable
      <4> QED BY <2>1, <2>3, <2>6, <4>1
    <3>2. ~ClosedAtBothEnds(sched, tc) /\ Fits(BakePrio(sched, tc), sending)
      BY <2>1, <2>3, <2>6, <3>1 DEF Usable
    <3> QED BY <2>6, <3>1, <3>2 DEF WindowsRight
  <2>8. sched \in Schedule
    BY <2>1, <2>2, LoadedTas
  <2>9. sending \in Nat \ {0} /\ from \in Int /\ to \in Int
    <3>1. WindowsRight(qbv.slots, qbv.start, out.tc, out.ready, out.sending, out.delay, out.ts)
      BY OutRight DEF Usable
    <3> QED BY <2>6, <3>1 DEF GateInv, Usable, WindowsRight
  <2>10. CASE AlwaysOpen(sched, tc) /\ to = from - 1
    <3>1. \A t \in Int : FileOpens(f, p, t)
      BY <2>5, <2>8, <2>10, AlwaysOpenAt
    <3>2. \A t \in 0 .. (CycleNs(f.entries) - 1) : t \in Int
      OBVIOUS
    <3> QED BY <2>1, <2>6, <2>10, <3>1, <3>2
  <2>11. CASE /\ from <= to /\ \A t \in from .. to : OpenDuring(sched, 0, tc, t, sending)
              /\ ClosesAt(sched, 0, tc, to + sending)
    <3>1. to # from - 1
      BY <2>9, <2>11
    <3>2. ASSUME NEW t \in from .. (to + sending - 1) PROVE FileOpens(f, p, t)
      <4>1. PICK u \in from .. to : t \in u .. (u + sending - 1)
        <5>1. CASE t <= to
          BY <2>9, <5>1
        <5>2. CASE ~(t <= to)
          BY <2>9, <2>11, <5>2
        <5> QED BY <5>1, <5>2
      <4>2. OpenAt(sched, 0, tc, t)
        BY <2>11, <4>1 DEF OpenDuring
      <4> QED BY <2>5, <2>9, <3>2, <4>2
    <3>3. FileEnds(f, p, to + sending)
      <4>1. PICK end : end = to + sending
        OBVIOUS
      <4>2. end \in Int /\ end - 0 = end
        BY <2>9, <4>1
      <4>3. CycleNs(sched) = CycleNs(f.entries)
        BY <2>1, <2>2, SchedBegins
      <4>4. ~OpenAt(sched, 0, tc, end) \/ end % CycleNs(f.entries) = 0
        BY <2>11, <4>1, <4>2, <4>3 DEF ClosesAt
      <4> QED BY <2>5, <4>1, <4>2, <4>4 DEF FileEnds
    <3> QED BY <2>1, <2>6, <2>11, <3>1, <3>2, <3>3
  <2> QED BY <2>7, <2>10, <2>11
<1>2. ConfigSpec => []GateInv
  BY ConfigImplementsDriver, GateInvariant, PTL
<1> QED BY <1>1, <1>2, ConfigInvariant, PTL

\* A frame by the file: its gate opens when the file opens its priority.
LEMMA FileFrame ==
  ASSUME ConfigInv, GateInv, BeforeWrap, file.kind = "tas", todo = {}, NoRepeats(file), Usable
  PROVE  /\ CycleNs(qbv.slots) = CycleNs(file.entries) /\ qbv.start = 0
         /\ \A t \in Int : OpenAt(qbv.slots, qbv.start, out.tc, t) <=> FileOpens(file, out.prio, t)
         /\ WindowsRight(qbv.slots, qbv.start, out.tc, out.ready, out.sending, out.delay, out.ts)
         /\ out.ready \in Int /\ out.sending \in Nat \ {0}
<1>1. file \in Loaded("tas")
  BY Installed DEF ConfigInv
<1>2. qbv.slots = SchedEntries(file) /\ qbv.start = 0
  BY DEF ConfigInv
<1>3. out.prio \in Prios /\ out.tc \in TCs /\ out.tc = TcNumber(file, out.prio)
  <2>1. out # NoOut /\ tcMap = PrioMap(file)
    BY DEF Usable, ConfigInv
  <2>2. out.prio \in Prios /\ out.tc = PrioMap(file)[out.prio] /\ out.tc \in TCs
    BY <2>1 DEF ConfigInv, GateInv
  <2> QED BY <2>2 DEF PrioMap
<1>4. \A t \in Int : OpenAt(SchedEntries(file), 0, TcNumber(file, out.prio), t)
                      <=> FileOpens(file, out.prio, t)
  BY <1>1, <1>3, FileGate
<1>5. CycleNs(SchedEntries(file)) = CycleNs(file.entries)
  BY <1>1, SchedBegins
<1>6. WindowsRight(qbv.slots, qbv.start, out.tc, out.ready, out.sending, out.delay, out.ts)
  BY OutRight DEF Usable
<1>7. out.ready \in Int /\ out.sending \in Nat \ {0}
  BY DEF GateInv, Usable
<1> QED BY <1>2, <1>3, <1>4, <1>5, <1>6, <1>7

\* The frame is not held back: it is sent within a cycle, and any earlier time would have
\* met one at which the file does not open its priority, or the end of the cycle.
EarliestByFile ==
  file.kind = "tas" /\ todo = {} /\ NoRepeats(file) /\ Usable =>
    /\ out.ready <= out.ts.from /\ out.ts.from <= out.ready + CycleNs(file.entries)
    /\ \A t \in out.ready .. (out.ts.from - 1) :
         \/ \E u \in t .. (t + out.sending - 1) : ~FileOpens(file, out.prio, u)
         \/ ~((t % CycleNs(file.entries)) + out.sending <= CycleNs(file.entries))

\* No frame waits longer than the file asks for, whatever classes, masks and slots are in
\* between.
THEOREM FilePrompt == ConfigSpec => [](BeforeWrap => EarliestByFile)
<1>1. ConfigInv /\ GateInv /\ BeforeWrap /\ (BeforeWrap => WindowSoon) => EarliestByFile
  <2> SUFFICES ASSUME ConfigInv, GateInv, BeforeWrap, WindowSoon,
                      file.kind = "tas", todo = {}, NoRepeats(file), Usable
               PROVE  /\ out.ready <= out.ts.from
                      /\ out.ts.from <= out.ready + CycleNs(file.entries)
                      /\ \A t \in out.ready .. (out.ts.from - 1) :
                           \/ \E u \in t .. (t + out.sending - 1) : ~FileOpens(file, out.prio, u)
                           \/ ~((t % CycleNs(file.entries)) + out.sending <= CycleNs(file.entries))
    BY DEF EarliestByFile
  <2>1. PICK C : C = CycleNs(file.entries)
    OBVIOUS
  <2>2. /\ CycleNs(qbv.slots) = C /\ qbv.start = 0
        /\ \A t \in Int : OpenAt(qbv.slots, qbv.start, out.tc, t) <=> FileOpens(file, out.prio, t)
        /\ WindowsRight(qbv.slots, qbv.start, out.tc, out.ready, out.sending, out.delay, out.ts)
        /\ out.ready \in Int /\ out.sending \in Nat \ {0}
    BY <2>1, FileFrame
  <2>3. out.ts.from <= out.ready + C
    BY <2>2 DEF WindowSoon, Usable
  <2>4. /\ out.ts.from \in Int /\ out.ts.from >= out.ready
        /\ NothingBefore(qbv.slots, qbv.start, out.tc, out.sending, out.ready, out.ts.from)
    BY <2>2 DEF WindowsRight
  <2>5. out.ready <= out.ts.from
    BY ONLY <2>2, <2>4
  <2>6. ASSUME NEW t \in out.ready .. (out.ts.from - 1)
        PROVE  \/ \E u \in t .. (t + out.sending - 1) : ~FileOpens(file, out.prio, u)
               \/ ~((t % C) + out.sending <= C)
    <3>1. t \in Int /\ t - 0 = t
      BY ONLY <2>2, <2>4, <2>6
    <3>2. \/ ~OpenDuring(qbv.slots, qbv.start, out.tc, t, out.sending)
          \/ ~WithinCycle(qbv.slots, qbv.start, t, out.sending)
      BY <2>4 DEF NothingBefore
    <3>3. CASE ~OpenDuring(qbv.slots, qbv.start, out.tc, t, out.sending)
      <4>1. PICK u \in t .. (t + out.sending - 1) : ~OpenAt(qbv.slots, qbv.start, out.tc, u)
        BY <3>3 DEF OpenDuring
      <4>2. u \in Int
        BY ONLY <2>2, <3>1, u \in t .. (t + out.sending - 1)
      <4> QED BY ONLY <2>2, <4>1, <4>2
    <3>4. CASE ~WithinCycle(qbv.slots, qbv.start, t, out.sending)
      BY <2>2, <3>1, <3>4 DEF WithinCycle
    <3> QED BY <3>2, <3>3, <3>4
  <2> QED BY <2>1, <2>3, <2>5, <2>6
<1>2. ConfigSpec => [](GateInv /\ (BeforeWrap => WindowSoon))
  BY ConfigImplementsDriver, GateInvariant, NeverStarved, PTL
<1> QED BY <1>1, <1>2, ConfigInvariant, PTL

\* What the hardware is to do with a frame that missed its window: the second chance, and
\* the transmission that begins in it, lie where the file opens the priority.
SecondByFile ==
  file.kind = "tas" /\ todo = {} /\ NoRepeats(file) /\ Usable
                    /\ out.delay /\ ~AlwaysOpen(qbv.slots, out.tc) =>
    /\ out.ts.to + out.sending <= out.ts.dfrom
    /\ out.ts.dfrom <= out.ts.dto
    /\ out.ts.dfrom <= out.ts.from + CycleNs(file.entries)
    /\ \A t \in out.ts.dfrom .. out.ts.dto, u \in Int :
         t <= u /\ u < t + out.sending => FileOpens(file, out.prio, u)

\* The second chance keeps to the file as the first one does, and comes within a cycle.
THEOREM FileSecondChance == ConfigSpec => [](BeforeWrap => SecondByFile)
<1>1. /\ ConfigInv /\ GateInv /\ BeforeWrap
      /\ (BeforeWrap => WindowSoon) /\ (BeforeWrap => DelayWindowOpen)
      => SecondByFile
  <2> SUFFICES ASSUME ConfigInv, GateInv, BeforeWrap, WindowSoon, DelayWindowOpen,
                      file.kind = "tas", todo = {}, NoRepeats(file), Usable,
                      out.delay, ~AlwaysOpen(qbv.slots, out.tc)
               PROVE  /\ out.ts.to + out.sending <= out.ts.dfrom
                      /\ out.ts.dfrom <= out.ts.dto
                      /\ out.ts.dfrom <= out.ts.from + CycleNs(file.entries)
                      /\ \A t \in out.ts.dfrom .. out.ts.dto, u \in Int :
                           t <= u /\ u < t + out.sending => FileOpens(file, out.prio, u)
    BY DEF SecondByFile
  <2>1. PICK C : C = CycleNs(file.entries)
    OBVIOUS
  <2>2. /\ CycleNs(qbv.slots) = C
        /\ \A t \in Int : OpenAt(qbv.slots, qbv.start, out.tc, t) <=> FileOpens(file, out.prio, t)
        /\ out.sending \in Nat \ {0}
    BY <2>1, FileFrame
  <2>3. out.ts.dfrom <= out.ts.from + C
    BY <2>2 DEF WindowSoon, Usable
  <2>4. /\ out.ts.to + out.sending <= out.ts.dfrom
        /\ out.ts.dfrom <= out.ts.dto
        /\ \A t \in out.ts.dfrom .. out.ts.dto : OpenWhile(t)
    BY DEF DelayWindowOpen
  <2>5. ASSUME NEW t \in out.ts.dfrom .. out.ts.dto, NEW u \in Int, t <= u, u < t + out.sending
        PROVE  FileOpens(file, out.prio, u)
    <3>1. u \in t .. (t + out.sending - 1)
      <4>1. t \in Int /\ out.sending \in Int
        BY <2>2
      <4> QED BY ONLY <2>5, <4>1
    <3>2. OpenAt(qbv.slots, qbv.start, out.tc, u)
      BY <2>4, <3>1 DEF OpenWhile, OpenDuring
    <3> QED BY ONLY <2>2, <2>5, <3>2
  <2> QED BY <2>1, <2>3, <2>4, <2>5
<1>2. ConfigSpec => [](GateInv /\ (BeforeWrap => WindowSoon) /\ (BeforeWrap => DelayWindowOpen))
  BY ConfigImplementsDriver, GateInvariant, NeverStarved, SecondChanceSafe, PTL
<1> QED BY <1>1, <1>2, ConfigInvariant, PTL

----------------------------------------------------------------------------
(* The credits say what the file says.                                     *)

\* What the reader makes of a file of two streams, one of each class.
LEMMA LoadedCbs ==
  ASSUME NEW f \in Loaded("cbs"), InOrder(f)
  PROVE  /\ f.kind = "cbs" /\ DOMAIN f.entries = {1, 2} /\ Len(f.entries) = 2
         /\ f.entries[1].class = "a" /\ f.entries[2].class = "b"
         /\ \A i \in {1, 2} : /\ f.entries[i].prio \in Int
                              /\ f.entries[i].bandwidth \in 0..LinkSpeed
         /\ f.entries[1].prio # f.entries[2].prio
         /\ LinkSpeed \in Nat
<1>1. PICK es, R : es = f.entries /\ R = CbsEntries
  OBVIOUS
<1>2. es \in Seq(R)
  <2>1. f.entries \in Seq(CbsEntries)
    BY ConfigAssumption
  <2> QED BY ONLY <1>1, <2>1
<1>3. /\ \A i, j \in DOMAIN es : es[i].prio = es[j].prio => i = j
      /\ \A i \in DOMAIN es : es[i].bandwidth <= LinkSpeed
  <2>1. /\ \A i, j \in DOMAIN f.entries : f.entries[i].prio = f.entries[j].prio => i = j
        /\ \A i \in DOMAIN f.entries : f.entries[i].bandwidth <= LinkSpeed
    BY ConfigAssumption
  <2> QED BY ONLY <1>1, <2>1
<1>4. Len(es) = 2 /\ es[1].class = "a" /\ es[2].class = "b"
  BY <1>1 DEF InOrder
<1>5. DOMAIN es = 1..2 /\ 1..2 = {1, 2}
  <2>1. DOMAIN es = 1..Len(es)
    BY ONLY <1>2
  <2> QED BY <1>4, <2>1
<1>6. \A i \in {1, 2} : es[i] \in R
  BY ONLY <1>2, <1>5
<1>7. \A i \in {1, 2} : es[i].prio \in Prios /\ es[i].bandwidth \in Nat
  BY <1>1, <1>6 DEF CbsEntries
<1>8. es[1].prio # es[2].prio
  <2>1. 1 \in DOMAIN es /\ 2 \in DOMAIN es /\ 1 # 2
    BY <1>5
  <2> QED BY <1>3, <2>1
<1>9. Prios \subseteq Int /\ LinkSpeed \in Nat /\ f.kind = "cbs"
  BY ConfigAssumption DEF Loaded
<1>10. \A i \in {1, 2} : es[i].bandwidth \in 0..LinkSpeed
  BY <1>3, <1>5, <1>7, <1>9
<1> QED BY <1>1, <1>4, <1>5, <1>7, <1>8, <1>9, <1>10

\* The classes of the two priorities, and of all others.
LEMMA TwoClasses ==
  ASSUME NEW f \in Loaded("cbs"), InOrder(f)
  PROVE  /\ TcNumber(f, f.entries[1].prio) = 0
         /\ TcNumber(f, f.entries[2].prio) = 1
         /\ \A p : p # f.entries[1].prio /\ p # f.entries[2].prio => TcNumber(f, p) = 2
<1>1. PICK a, b : a = f.entries[1].prio /\ b = f.entries[2].prio
  OBVIOUS
<1>2. a # b /\ f.kind = "cbs" /\ DOMAIN f.entries = {1, 2}
  BY <1>1, LoadedCbs
<1>3. Listing(f) = [i \in {1, 2} |-> f.entries[i].prio]
  BY <1>2 DEF Listing
<1>4. DOMAIN Listing(f) = {1, 2} /\ Listing(f)[1] = a /\ Listing(f)[2] = b
  BY <1>1, <1>3
<1>5. Firsts(f) = {1, 2}
  <2>1. \A i \in {1, 2} : \A j \in 1..(i - 1) : Listing(f)[j] # Listing(f)[i]
    <3>1. \A i \in {1, 2} : \A j \in 1..(i - 1) : i = 2 /\ j = 1
      OBVIOUS
    <3> QED BY <1>2, <1>4, <3>1
  <2> QED BY <1>2, <1>4, <2>1 DEF Firsts
<1>6. \A p : TcNumber(f, p) =
               Cardinality({i \in {1, 2} : \A j \in {1, 2} : Listing(f)[j] = p => i < j})
  BY <1>5 DEF TcNumber
<1>7. TcNumber(f, a) = 0
  <2>1. {i \in {1, 2} : \A j \in {1, 2} : Listing(f)[j] = a => i < j} = {}
    BY <1>2, <1>4
  <2> QED BY <1>6, <2>1, FS_EmptySet
<1>8. TcNumber(f, b) = 1
  <2>1. {i \in {1, 2} : \A j \in {1, 2} : Listing(f)[j] = b => i < j} = {1}
    BY <1>2, <1>4
  <2>2. Cardinality({1}) = 1
    BY FS_Singleton
  <2> QED BY <1>6, <2>1, <2>2
<1>9. ASSUME NEW p, p # a, p # b PROVE TcNumber(f, p) = 2
  <2>1. {i \in {1, 2} : \A j \in {1, 2} : Listing(f)[j] = p => i < j} = 1..2
    BY <1>4, <1>9
  <2>2. Cardinality(1..2) = 2
    <3>1. 1 \in Int /\ 2 \in Int
      OBVIOUS
    <3>2. Cardinality(1..2) = IF 1 > 2 THEN 0 ELSE 2 - 1 + 1
      BY ONLY <3>1, FS_Interval
    <3> QED BY <3>2
  <2> QED BY <1>6, <2>1, <2>2
<1> QED BY <1>1, <1>7, <1>8, <1>9

\* The sums over two streams.
LEMMA TwoSum ==
  ASSUME NEW f, Len(f.entries) = 2, NEW class, NEW amount, NEW x \in Int, NEW y \in Int,
         x = (IF f.entries[1].class = class THEN amount[1] ELSE 0),
         y = (IF f.entries[2].class = class THEN amount[2] ELSE 0)
  PROVE  Total(f, class, amount) = x + y
<1> DEFINE at(i) == IF f.entries[i].class = class THEN amount[i] ELSE 0
           step(g) == [i \in 0..2 |-> IF i = 0 THEN 0 ELSE g[i - 1] + at(i)]
           sum == CHOOSE g : g = step(g)
           h == [i \in 0..2 |-> IF i = 0 THEN 0 ELSE IF i = 1 THEN x ELSE x + y]
<1>1. Total(f, class, amount) = sum[2]
  BY DEF Total
<1>2. at(1) = x /\ at(2) = y
  OBVIOUS
<1> HIDE DEF at
<1>3. h = step(h)
  <2>1. h[0] = 0 /\ h[1] = x /\ h[2] = x + y
    OBVIOUS
  <2>2. step(h)[0] = 0 /\ step(h)[1] = h[0] + at(1) /\ step(h)[2] = h[1] + at(2)
    OBVIOUS
  <2>3. \A i \in 0..2 : h[i] = step(h)[i]
    <3>1. \A i \in 0..2 : i = 0 \/ i = 1 \/ i = 2
      OBVIOUS
    <3>2. h[0] = step(h)[0] /\ h[1] = step(h)[1] /\ h[2] = step(h)[2]
      BY <1>2, <2>1, <2>2
    <3> QED BY ONLY <3>1, <3>2
  <2> QED BY <2>3
<1> HIDE DEF h
<1>4. sum = step(sum)
  BY <1>3
<1> HIDE DEF sum
<1>5. sum[0] = 0 /\ sum[1] = sum[0] + at(1) /\ sum[2] = sum[1] + at(2)
  BY <1>4
<1>6. sum[2] = x + y
  BY <1>2, <1>5
<1> QED BY <1>1, <1>6

\* The bandwidths calc_credits is called with.
LEMMA TwoBandwidths ==
  ASSUME NEW f \in Loaded("cbs"), InOrder(f)
  PROVE  /\ Bandwidth(f, "a") = f.entries[1].bandwidth
         /\ Bandwidth(f, "b") = f.entries[2].bandwidth
<1>1. PICK m, x, y : /\ m = [i \in DOMAIN f.entries |-> f.entries[i].bandwidth]
                     /\ x = f.entries[1].bandwidth /\ y = f.entries[2].bandwidth
  OBVIOUS
<1>2. /\ m[1] = x /\ m[2] = y /\ x \in Int /\ y \in Int /\ 0 \in Int /\ Len(f.entries) = 2
      /\ f.entries[1].class = "a" /\ f.entries[2].class = "b"
  BY <1>1, LoadedCbs
<1>3. Total(f, "a", m) = x + 0
  BY ONLY <1>2, TwoSum
<1>4. Total(f, "b", m) = 0 + y
  BY ONLY <1>2, TwoSum
<1> QED BY <1>1, <1>2, <1>3, <1>4 DEF Bandwidth

\* The slopes the driver takes them for, up to the two roundings.
LEMMA SlopesRounded ==
  ASSUME NEW bandwidth \in Nat, NEW speed \in Nat, bandwidth <= speed
  PROVE  /\ Rounded(TruncDiv(FloorDiv(bandwidth, Kilo), Kilo), bandwidth)
         /\ Rounded(-TruncDiv(FloorDiv(bandwidth - speed, Kilo), Kilo), speed - bandwidth)
<1>0. Kilo \in Nat \ {0}
  BY ShaperAssumption
<1>1. PICK K : K = Kilo
  OBVIOUS
<1>2. K \in Nat \ {0} /\ Kilo * Kilo = K * K
  BY <1>0, <1>1
<1>3. ASSUME NEW r \in Int, NEW y \in Int, NEW v \in Int,
             K * v <= y, y < K * v + K, K * y < r + K, r < K * y + K
      PROVE  Rounded(v, r)
  <2>1. y + 1 <= K * (v + 1) /\ K * v \in Int /\ K * (v + 1) \in Int
    <3>1. K * v \in Int /\ K * (v + 1) = K * v + K
      BY <1>2
    <3> QED BY <1>2, <1>3, <3>1
  <2>2. K * (K * v) <= K * y
    BY <1>2, <1>3, <2>1
  <2>3. K * (y + 1) <= K * (K * (v + 1)) /\ K * (y + 1) = K * y + K
    BY <1>2, <2>1
  <2>4. v * (K * K) = K * (K * v) /\ (v + 1) * (K * K) = K * (K * (v + 1))
    BY <1>2
  <2>5. K * (K * v) \in Int /\ K * (K * (v + 1)) \in Int /\ K * y \in Int
    BY <1>2, <2>1
  <2>6. v * (K * K) < r + K /\ r < (v + 1) * (K * K)
    BY <1>2, <1>3, <2>2, <2>3, <2>4, <2>5
  <2> QED BY <1>1, <1>2, <2>6 DEF Rounded
<1>4. Rounded(TruncDiv(FloorDiv(bandwidth, Kilo), Kilo), bandwidth)
  <2>1. PICK y, v : y = bandwidth \div K /\ v = y \div K
    OBVIOUS
  <2>2. y \in Int /\ K * y <= bandwidth /\ bandwidth < K * y + K
    BY <1>2, <2>1, DivSplit
  <2>3. y >= 0
    BY <1>2, <2>1, DivSign
  <2>4. v \in Int /\ K * v <= y /\ y < K * v + K
    BY <1>2, <2>1, <2>2, DivSplit
  <2>5. TruncDiv(FloorDiv(bandwidth, Kilo), Kilo) = v
    BY <1>1, <2>1, <2>3 DEF TruncDiv, FloorDiv
  <2>6. K * y < bandwidth + K
    <3>1. K * y \in Int
      BY <1>2, <2>2
    <3> QED BY <1>2, <2>2, <3>1
  <2>7. Rounded(v, bandwidth)
    BY <1>3, <2>2, <2>4, <2>6
  <2> QED BY <2>5, <2>7
<1>5. Rounded(-TruncDiv(FloorDiv(bandwidth - speed, Kilo), Kilo), speed - bandwidth)
  <2>1. PICK x, z : x = bandwidth - speed /\ z = x \div K
    OBVIOUS
  <2>2. x \in Int /\ x <= 0 /\ speed - bandwidth = -x
    BY <2>1
  <2>3. z \in Int /\ K * z <= x /\ x < K * z + K /\ z <= 0
    BY <1>2, <2>1, <2>2, DivSplit, DivSign
  <2>4. PICK y, v : y = -z /\ v = y \div K
    OBVIOUS
  <2>5. y \in Int /\ y >= 0 /\ K * y = -(K * z) /\ K * z \in Int
    BY <1>2, <2>3, <2>4
  <2>6. v \in Int /\ K * v <= y /\ y < K * v + K
    BY <1>2, <2>4, <2>5, DivSplit
  <2>7. TruncDiv(FloorDiv(bandwidth - speed, Kilo), Kilo) = -v
    <3>1. TruncDiv(z, K) = IF z >= 0 THEN z \div K ELSE -v
      BY <2>4 DEF TruncDiv
    <3>2. z >= 0 => z = 0 /\ y = 0 /\ z \div K = v
      BY <2>3, <2>4
    <3>3. y = 0 => v = 0
      <4> SUFFICES ASSUME y = 0 PROVE v = 0
        OBVIOUS
      <4>1. 0 \div K = 0
        BY <1>2
      <4> QED BY <2>4, <4>1
    <3>4. TruncDiv(z, K) = -v
      BY <2>6, <3>1, <3>2, <3>3
    <3> QED BY <1>1, <2>1, <3>4 DEF FloorDiv
  <2>8. K * y < -x + K /\ -x < K * y + K
    BY <1>2, <2>2, <2>3, <2>5
  <2>9. Rounded(v, -x)
    <3>1. -x \in Int
      BY <2>2
    <3> QED BY <1>3, <2>5, <2>6, <2>8, <3>1
  <2>10. -(-v) = v
    BY <2>6
  <2> QED BY <2>2, <2>7, <2>9, <2>10
<1> QED BY <1>4, <1>5

\* Every priority is shaped by the bandwidth of its own class.
THEOREM CreditFollowed == ConfigSpec => []CreditFollowsFile
<1>1. ConfigInv => CreditFollowsFile
  <2> SUFFICES ASSUME ConfigInv, file.kind = "cbs", todo = {}, InOrder(file), NEW p \in Prios
               PROVE  LET q == qav[tcMap[p]]
                          mine == {i \in DOMAIN file.entries : file.entries[i].prio = p}
                      IN  /\ q.enabled <=> mine # {}
                          /\ \A i \in mine :
                               /\ Rounded(q.idle, file.entries[i].bandwidth)
                               /\ Rounded(-q.send, LinkSpeed - file.entries[i].bandwidth)
    BY DEF CreditFollowsFile
  <2>1. PICK f, a, b, q, tc : /\ f = file /\ a = f.entries[1].prio /\ b = f.entries[2].prio
                              /\ tc = tcMap[p] /\ q = qav[tc]
    OBVIOUS
  <2>2. f \in Loaded("cbs") /\ InOrder(f)
    BY <2>1, Installed DEF ConfigInv
  <2>3. DOMAIN f.entries = {1, 2} /\ a # b
    BY <2>1, <2>2, LoadedCbs
  <2>4. tc = TcNumber(f, p) /\ tc \in TCs
    <3>1. tcMap = PrioMap(f) /\ PrioMap(f) \in [Prios -> TCs]
      BY <2>1, <2>2, ConfigAssumption DEF ConfigInv
    <3>2. tc \in TCs
      BY <2>1, <3>1
    <3>3. tc = PrioMap(f)[p]
      BY <2>1, <3>1
    <3> QED BY <3>2, <3>3 DEF PrioMap
  <2>5. (p = a => tc = 0) /\ (p = b => tc = 1) /\ (p # a /\ p # b => tc = 2)
    BY <2>1, <2>2, <2>4, TwoClasses
  <2>6. q.enabled <=> tc = 0 \/ tc = 1
    <3>1. q.enabled <=> \E qid \in {1, 2} : tc = qid - 1
      BY <2>1, <2>4 DEF ConfigInv, Ran
    <3>2. (\E qid \in {1, 2} : tc = qid - 1) <=> tc = 0 \/ tc = 1
      <4>1. 1 - 1 = 0 /\ 2 - 1 = 1
        OBVIOUS
      <4> QED BY <4>1
    <3> QED BY <3>1, <3>2
  <2>7. /\ qav[0].idle = QavSlopes(Children(f, 1)).idle /\ qav[0].send = QavSlopes(Children(f, 1)).send
        /\ qav[1].idle = QavSlopes(Children(f, 2)).idle /\ qav[1].send = QavSlopes(Children(f, 2)).send
    <3>1. \A qid \in {1, 2} : /\ qav[qid - 1].idle = QavSlopes(Children(f, qid)).idle
                              /\ qav[qid - 1].send = QavSlopes(Children(f, qid)).send
      BY <2>1 DEF ConfigInv
    <3>2. 1 - 1 = 0 /\ 2 - 1 = 1
      OBVIOUS
    <3> QED BY <3>1, <3>2
  <2>8. ASSUME NEW c, NEW w, c.idleslope = FloorDiv(w, Kilo), c.sendslope = FloorDiv(w - LinkSpeed, Kilo),
               w \in 0..LinkSpeed
        PROVE  Rounded(QavSlopes(c).idle, w) /\ Rounded(-QavSlopes(c).send, LinkSpeed - w)
    <3>1. w \in Nat /\ LinkSpeed \in Nat /\ w <= LinkSpeed
      BY <2>2, <2>8, LoadedCbs
    <3>2. /\ Rounded(TruncDiv(FloorDiv(w, Kilo), Kilo), w)
          /\ Rounded(-TruncDiv(FloorDiv(w - LinkSpeed, Kilo), Kilo), LinkSpeed - w)
      BY ONLY <3>1, SlopesRounded
    <3> QED BY <2>8, <3>2 DEF QavSlopes
  <2>9. /\ f.entries[1].bandwidth \in 0..LinkSpeed /\ f.entries[2].bandwidth \in 0..LinkSpeed
        /\ Bandwidth(f, "a") = f.entries[1].bandwidth /\ Bandwidth(f, "b") = f.entries[2].bandwidth
    BY <2>2, LoadedCbs, TwoBandwidths
  <2>10. p = a => /\ Rounded(q.idle, f.entries[1].bandwidth)
                  /\ Rounded(-q.send, LinkSpeed - f.entries[1].bandwidth)
    <3>1. PICK c, w : c = Children(f, 1) /\ w = f.entries[1].bandwidth
      OBVIOUS
    <3>2. /\ c.idleslope = FloorDiv(w, Kilo) /\ c.sendslope = FloorDiv(w - LinkSpeed, Kilo)
          /\ w \in 0..LinkSpeed
      BY <2>9, <3>1 DEF Children, CalcCredits
    <3>3. Rounded(QavSlopes(c).idle, w) /\ Rounded(-QavSlopes(c).send, LinkSpeed - w)
      BY <2>8, <3>2
    <3> QED BY <2>1, <2>5, <2>7, <3>1, <3>3
  <2>11. p = b => /\ Rounded(q.idle, f.entries[2].bandwidth)
                  /\ Rounded(-q.send, LinkSpeed - f.entries[2].bandwidth)
    <3>1. PICK c, w : c = Children(f, 2) /\ w = f.entries[2].bandwidth
      OBVIOUS
    <3>2. /\ c.idleslope = FloorDiv(w, Kilo) /\ c.sendslope = FloorDiv(w - LinkSpeed, Kilo)
          /\ w \in 0..LinkSpeed
      BY <2>9, <3>1 DEF Children, CalcCreditsB, CalcCredits
    <3>3. Rounded(QavSlopes(c).idle, w) /\ Rounded(-QavSlopes(c).send, LinkSpeed - w)
      BY <2>8, <3>2
    <3> QED BY <2>1, <2>5, <2>7, <3>1, <3>3
  <2>12. PICK mine : mine = {i \in DOMAIN f.entries : f.entries[i].prio = p}
    OBVIOUS
  <2>13. (1 \in mine <=> p = a) /\ (2 \in mine <=> p = b) /\ mine \subseteq {1, 2}
    BY <2>1, <2>3, <2>12
  <2>14. q.enabled <=> mine # {}
    <3>1. mine # {} <=> p = a \/ p = b
      BY <2>13
    <3>2. tc = 0 \/ tc = 1 <=> p = a \/ p = b
      BY <2>5
    <3> QED BY <2>6, <3>1, <3>2
  <2>15. \A i \in mine : /\ Rounded(q.idle, f.entries[i].bandwidth)
                         /\ Rounded(-q.send, LinkSpeed - f.entries[i].bandwidth)
    BY <2>10, <2>11, <2>13
  <2> QED BY <2>1, <2>12, <2>14, <2>15
<1> QED BY <1>1, ConfigInvariant, PTL

=============================================================================

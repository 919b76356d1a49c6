----------------------------- MODULE QbvProofs -----------------------------
(***************************************************************************)
(* Proofs about the gate schedule: bake_qos_config keeps what a schedule   *)
(* says of each class, and the times get_timestamps chooses are right, for *)
(* every schedule.                                                         *)
(*                                                                         *)
(* The argument has five parts.                                            *)
(*   1. Begin and the baking loop are recursive functions.  What they      *)
(*      compute is proved step by step along the slots, and from the steps *)
(*      to the whole by Reaches, which rests on the pigeonhole principle.  *)
(*   2. Merged says what the slots of the first entries stand for; one     *)
(*      round of the loop keeps it, and the slot of length 0 that fills up *)
(*      the last pair does as well.                                        *)
(*   3. The slots are laid along the time axis, cycle after cycle; slot    *)
(*      Following(s, k) begins where slot k ends, with the other gate.     *)
(*   4. The slot get_timestamps finds, and the one or two it skips, give   *)
(*      the windows that GateWindows states.                               *)
(*   5. GateInv carries this to the behaviours of TsnQos: the slots in use *)
(*      are those of the schedule installed when the last frame came.      *)
(***************************************************************************)
EXTENDS TsnQosProofs, FiniteSetTheorems, SequenceTheorems, TLAPS

----------------------------------------------------------------------------
(* Induction.                                                              *)

\* A set that holds 1 and with each number below n the next one holds all of 1..n.
\* Otherwise the predecessor maps the numbers it misses, up to one of them, injectively
\* into themselves without that one, which no finite set allows.
LEMMA Reaches ==
  ASSUME NEW n \in Nat, NEW T, 1 \in T, \A k \in 1..(n - 1) : k \in T => k + 1 \in T
  PROVE  1..n \subseteq T
<1> SUFFICES ASSUME NEW m \in 1..n, m \notin T PROVE FALSE
  OBVIOUS
<1> DEFINE B == {k \in 1..m : k \notin T}
           pred == [k \in B |-> k - 1]
<1>1. IsFiniteSet(B) /\ IsFiniteSet(B \ {m}) /\ Cardinality(B \ {m}) < Cardinality(B)
  <2>1. B \in SUBSET (1..m) /\ m \in B
    OBVIOUS
  <2>2. IsFiniteSet(1..m)
    BY FS_Interval
  <2> HIDE DEF B
  <2>3. IsFiniteSet(B)
    BY <2>1, <2>2, FS_Subset
  <2>4. Cardinality(B) \in Nat
    BY <2>3, FS_CardinalityType
  <2>5. IsFiniteSet(B \ {m}) /\ Cardinality(B \ {m}) = Cardinality(B) - 1
    BY <2>1, <2>3, FS_RemoveElement
  <2> QED BY <2>3, <2>4, <2>5
<1>2. pred \in [B -> B \ {m}]
  <2> SUFFICES ASSUME NEW k \in B PROVE k - 1 \in B \ {m}
    OBVIOUS
  <2>1. k \in 1..m /\ k # 1
    OBVIOUS
  <2>2. k - 1 \in 1..m /\ k - 1 \in 1..(n - 1) /\ (k - 1) + 1 = k /\ k - 1 # m
    BY <2>1
  <2> QED BY <2>2
<1>3. \E x, y \in B : x # y /\ pred[x] = pred[y]
  <2> HIDE DEF B, pred
  <2> QED BY <1>1, <1>2, FS_PigeonHole
<1> QED BY <1>3

\* The least element of a set of positive numbers.
LEMMA LeastElement ==
  ASSUME NEW n \in Nat, NEW S \in SUBSET (1..n), S # {}
  PROVE  /\ Min(S) \in S
         /\ \A y \in S : Min(S) <= y
<1> DEFINE T == {k \in 1..n : \A y \in S : k <= y}
<1>1. \E x \in S : \A y \in S : x <= y
  <2> SUFFICES ASSUME \A x \in S : \E y \in S : y < x PROVE FALSE
    OBVIOUS
  <2>1. PICK z \in S : TRUE
    OBVIOUS
  <2>2. 1 \in T
    BY <2>1
  <2>3. ASSUME NEW k \in 1..(n - 1), k \in T PROVE k + 1 \in T
    <3>1. k \notin S
      BY <2>3
    <3> QED BY <2>3, <3>1
  <2> HIDE DEF T
  <2>4. 1..n \subseteq T
    BY <2>2, <2>3, Reaches
  <2>5. n \in T /\ z \in 1..n
    BY <2>1, <2>4
  <2>6. PICK y \in S : y < z
    BY <2>1
  <2> QED BY <2>5, <2>6 DEF T
<1> DEFINE m == CHOOSE x \in S : \A y \in S : x =< y
<1>2. m \in S /\ \A y \in S : m =< y
  BY <1>1
<1>3. Min(S) = m
  BY DEF Min
<1> QED BY <1>2, <1>3

----------------------------------------------------------------------------
(* Where the slots begin.                                                  *)

\* The recursion of Begin: what g[i] is for i in 1..k.
Sums(g, s, k) == g = [i \in 1..k |-> IF i = 1 THEN 0 ELSE g[i - 1] + s[i - 1].dur]

\* There is such a function.
LEMMA SumsExist ==
  ASSUME NEW s, NEW n \in Nat \ {0}
  PROVE  \E g : Sums(g, s, n)
<1> DEFINE T == {k \in 1..n : \E g : Sums(g, s, k)}
<1>1. 1 \in T
  <2>1. Sums([i \in 1..1 |-> 0], s, 1)
    BY DEF Sums
  <2> QED BY <2>1
<1>2. ASSUME NEW k \in 1..(n - 1), k \in T PROVE k + 1 \in T
  <2>1. PICK g : Sums(g, s, k)
    BY <1>2
  <2> DEFINE h == [i \in 1..(k + 1) |-> IF i <= k THEN g[i] ELSE g[k] + s[k].dur]
  <2>2. Sums(h, s, k + 1)
    <3> SUFFICES ASSUME NEW i \in 1..(k + 1)
                 PROVE  h[i] = IF i = 1 THEN 0 ELSE h[i - 1] + s[i - 1].dur
      BY DEF Sums
    <3>1. CASE i = k + 1
      BY <3>1
    <3>2. CASE i <= k
      <4>1. g[i] = IF i = 1 THEN 0 ELSE g[i - 1] + s[i - 1].dur
        BY <2>1, <3>2 DEF Sums
      <4> QED BY <3>2, <4>1
    <3> QED BY <3>1, <3>2
  <2> QED BY <2>2
<1> HIDE DEF T
<1>3. 1..n \subseteq T
  BY <1>1, <1>2, Reaches
<1>4. n \in T
  BY <1>3
<1> QED BY <1>4 DEF T

\* Two such functions agree.
LEMMA SumsAgree ==
  ASSUME NEW s, NEW t, NEW n \in Nat, NEW m \in Nat, n <= m,
         NEW g, Sums(g, s, n), NEW h, Sums(h, t, m),
         \A i \in 1..(n - 1) : s[i].dur = t[i].dur
  PROVE  \A i \in 1..n : g[i] = h[i]
<1> DEFINE T == {i \in 1..n : g[i] = h[i]}
<1>0. CASE n = 0
  BY <1>0
<1> SUFFICES ASSUME n # 0 PROVE \A i \in 1..n : g[i] = h[i]
  BY <1>0
<1>1. 1 \in T
  BY DEF Sums
<1>2. ASSUME NEW k \in 1..(n - 1), k \in T PROVE k + 1 \in T
  <2>1. g[k + 1] = g[(k + 1) - 1] + s[(k + 1) - 1].dur /\ h[k + 1] = h[(k + 1) - 1] + t[(k + 1) - 1].dur
    BY DEF Sums
  <2>2. (k + 1) - 1 = k
    OBVIOUS
  <2> QED BY <1>2, <2>1, <2>2
<1> HIDE DEF T
<1>3. 1..n \subseteq T
  BY <1>1, <1>2, Reaches
<1> QED BY <1>3 DEF T

\* Begin is the value of such a function.
LEMMA BeginSums ==
  ASSUME NEW s, NEW k \in Nat \ {0}
  PROVE  \E g : Sums(g, s, k) /\ Begin(s, k) = g[k]
<1> DEFINE b == CHOOSE g : g = [i \in 1..k |-> IF i = 1 THEN 0 ELSE g[i - 1] + s[i - 1].dur]
<1>1. b = [i \in 1..k |-> IF i = 1 THEN 0 ELSE b[i - 1] + s[i - 1].dur]
  BY SumsExist DEF Sums
<1>2. Begin(s, k) = b[k]
  BY DEF Begin
<1> HIDE DEF b
<1> QED BY <1>1, <1>2 DEF Sums

\* The first slot begins at 0, and each other one where the one before it ends.
LEMMA BeginNext ==
  ASSUME NEW s, NEW k \in Nat \ {0}
  PROVE  /\ Begin(s, 1) = 0
         /\ Begin(s, k + 1) = Begin(s, k) + s[k].dur
<1>1. PICK g : Sums(g, s, k) /\ Begin(s, k) = g[k]
  BY BeginSums
<1>2. PICK h : Sums(h, s, k + 1) /\ Begin(s, k + 1) = h[k + 1]
  BY BeginSums
<1>3. PICK f : Sums(f, s, 1) /\ Begin(s, 1) = f[1]
  BY BeginSums
<1>4. Begin(s, 1) = 0
  BY <1>3 DEF Sums
<1>5. g[k] = h[k]
  <2>1. \A i \in 1..k : g[i] = h[i]
    BY <1>1, <1>2, SumsAgree
  <2> QED BY <2>1
<1>6. h[k + 1] = h[(k + 1) - 1] + s[(k + 1) - 1].dur /\ (k + 1) - 1 = k
  BY <1>2 DEF Sums
<1> QED BY <1>1, <1>2, <1>4, <1>5, <1>6

\* Where a slot begins depends on the slots before it only.
LEMMA BeginPrefix ==
  ASSUME NEW s, NEW t, NEW k \in Nat \ {0}, \A i \in 1..(k - 1) : s[i].dur = t[i].dur
  PROVE  Begin(s, k) = Begin(t, k)
<1>1. PICK g : Sums(g, s, k) /\ Begin(s, k) = g[k]
  BY BeginSums
<1>2. PICK h : Sums(h, t, k) /\ Begin(t, k) = h[k]
  BY BeginSums
<1>3. \A i \in 1..k : g[i] = h[i]
  BY <1>1, <1>2, SumsAgree
<1> QED BY <1>1, <1>2, <1>3

\* The beginnings are natural numbers, in order.
LEMMA BeginOrder ==
  ASSUME NEW s, NEW n \in Nat, \A i \in 1..n : s[i].dur \in Nat
  PROVE  /\ \A k \in 1..(n + 1) : Begin(s, k) \in Nat
         /\ \A i, k \in 1..(n + 1) : i <= k => Begin(s, i) <= Begin(s, k)
<1>1. \A k \in 1..(n + 1) : Begin(s, k) \in Nat
  <2> DEFINE T == {k \in 1..(n + 1) : Begin(s, k) \in Nat}
  <2>1. 1 \in T
    BY BeginNext
  <2>2. ASSUME NEW k \in 1..((n + 1) - 1), k \in T PROVE k + 1 \in T
    <3>1. k \in 1..n /\ k + 1 \in 1..(n + 1)
      OBVIOUS
    <3>2. Begin(s, k + 1) = Begin(s, k) + s[k].dur
      BY BeginNext
    <3> QED BY <2>2, <3>1, <3>2
  <2> HIDE DEF T
  <2>3. n + 1 \in Nat
    OBVIOUS
  <2>4. 1..(n + 1) \subseteq T
    BY ONLY <2>1, <2>2, <2>3, Reaches
  <2> QED BY <2>4 DEF T
<1>2. ASSUME NEW i \in 1..(n + 1) PROVE \A k \in 1..(n + 1) : i <= k => Begin(s, i) <= Begin(s, k)
  <2> DEFINE T == {k \in 1..(n + 1) : i <= k => Begin(s, i) <= Begin(s, k)}
  <2>1. 1 \in T
    BY <1>1
  <2>2. ASSUME NEW k \in 1..((n + 1) - 1), k \in T PROVE k + 1 \in T
    <3>1. k \in 1..n /\ k \in 1..(n + 1) /\ k + 1 \in 1..(n + 1)
      OBVIOUS
    <3>2. Begin(s, k + 1) = Begin(s, k) + s[k].dur
      BY BeginNext
    <3>3. Begin(s, k) <= Begin(s, k + 1)
      BY <1>1, <3>1, <3>2
    <3>4. CASE i = k + 1
      BY <1>1, <3>4
    <3>5. CASE i <= k
      BY <1>1, <2>2, <3>1, <3>3, <3>5
    <3>6. CASE i > k + 1
      BY <3>6
    <3> QED BY <3>4, <3>5, <3>6
  <2> HIDE DEF T
  <2>3. n + 1 \in Nat
    OBVIOUS
  <2>4. 1..(n + 1) \subseteq T
    BY ONLY <2>1, <2>2, <2>3, Reaches
  <2> QED BY <2>4 DEF T
<1> QED BY <1>1, <1>2

\* Time r of the cycle falls in slot k.
In(s, k, r) == Begin(s, k) <= r /\ r < Begin(s, k + 1)

\* A time falls in one slot only.
LEMMA SlotUnique ==
  ASSUME NEW s, NEW n \in Nat, \A i \in 1..n : s[i].dur \in Nat,
         NEW r \in Int, NEW i \in 1..n, NEW k \in 1..n, In(s, i, r), In(s, k, r)
  PROVE  i = k
<1>1. i + 1 \in 1..(n + 1) /\ k + 1 \in 1..(n + 1) /\ i \in 1..(n + 1) /\ k \in 1..(n + 1)
  OBVIOUS
<1>2. /\ Begin(s, i) \in Nat /\ Begin(s, k) \in Nat
      /\ Begin(s, i + 1) \in Nat /\ Begin(s, k + 1) \in Nat
  BY <1>1, BeginOrder
<1>3. CASE i < k
  <2>1. Begin(s, i + 1) <= Begin(s, k)
    BY <1>1, <1>3, BeginOrder
  <2> QED BY <1>2, <2>1 DEF In
<1>4. CASE k < i
  <2>1. Begin(s, k + 1) <= Begin(s, i)
    BY <1>1, <1>4, BeginOrder
  <2> QED BY <1>2, <2>1 DEF In
<1> QED BY <1>3, <1>4

\* ... and every time of the cycle falls in one.
LEMMA SlotExists ==
  ASSUME NEW s, NEW n \in Nat, \A i \in 1..n : s[i].dur \in Nat,
         NEW r \in Nat, r < Begin(s, n + 1)
  PROVE  \E k \in 1..n : In(s, k, r)
<1> SUFFICES ASSUME \A k \in 1..n : ~In(s, k, r) PROVE FALSE
  OBVIOUS
<1> DEFINE T == {k \in 1..(n + 1) : Begin(s, k) <= r}
<1>1. 1 \in T
  BY BeginNext
<1>2. ASSUME NEW k \in 1..((n + 1) - 1), k \in T PROVE k + 1 \in T
  <2>1. k \in 1..n /\ k + 1 \in 1..(n + 1)
    OBVIOUS
  <2>2. Begin(s, k + 1) \in Nat
    BY <2>1, BeginOrder
  <2> QED BY <1>2, <2>1, <2>2 DEF In
<1> HIDE DEF T
<1>3. n + 1 \in Nat
  OBVIOUS
<1>4. 1..(n + 1) \subseteq T
  BY ONLY <1>1, <1>2, <1>3, Reaches
<1>5. n + 1 \in 1..(n + 1)
  OBVIOUS
<1>6. Begin(s, n + 1) <= r /\ Begin(s, n + 1) \in Nat
  BY <1>4, <1>5, BeginOrder DEF T
<1> QED BY <1>6

----------------------------------------------------------------------------
(* The baking loop.                                                        *)

\* A schedule as tc may install it.
Schedule == {s \in Seq([dur : Nat \ {0}, open : SUBSET TCs]) : Len(s) > 0}

\* The slots of one gate, none of them empty.
Slot == [open : BOOLEAN, dur : Nat \ {0}]
Gate == Seq(Slot)

\* Its slots.
LEMMA GateSlot ==
  ASSUME NEW g \in Gate
  PROVE  /\ Len(g) \in Nat /\ DOMAIN g = 1..Len(g)
         /\ \A k \in 1..Len(g) : g[k] \in Slot
         /\ \A k \in 1..Len(g) : g[k].open \in BOOLEAN /\ g[k].dur \in Nat /\ g[k].dur > 0
<1>1. Len(g) \in Nat /\ DOMAIN g = 1..Len(g) /\ \A k \in 1..Len(g) : g[k] \in Slot
  BY DEF Gate
<1> QED BY <1>1 DEF Slot

\* The slots that stand for the first i entries of column c: they take as long,
\* alternate, begin and end as the column does, and the gate is at any time what the
\* entry of that time says.
Merged(c, i, acc) ==
  /\ acc \in Gate /\ Len(acc) > 0
  /\ Begin(acc, Len(acc) + 1) = Begin(c, i + 1)
  /\ acc[1].open = c[1].open
  /\ acc[Len(acc)].open = c[i].open
  /\ \A k \in 1..(Len(acc) - 1) : acc[k + 1].open # acc[k].open
  /\ \A k \in 1..Len(acc), e \in 1..i, r \in Nat :
       In(acc, k, r) /\ In(c, e, r) => acc[k].open = c[e].open

\* The first entry.
LEMMA MergeFirst ==
  ASSUME NEW c \in Gate, Len(c) > 0,
         NEW acc, acc = Merge(<<[open |-> c[1].open, dur |-> 0]>>, c[1])
  PROVE  Merged(c, 1, acc)
<1>1. c[1] \in Slot
  BY GateSlot
<1>2. acc = <<c[1]>>
  <2> DEFINE a == <<[open |-> c[1].open, dur |-> 0]>>
  <2>1. Len(a) = 1 /\ a[1] = [open |-> c[1].open, dur |-> 0] /\ Last(a) = a[1]
    BY DEF Last
  <2>2. acc = [a EXCEPT ![1].dur = @ + c[1].dur]
    BY <2>1 DEF Merge
  <2>3. c[1] = [open |-> c[1].open, dur |-> c[1].dur] /\ 0 + c[1].dur = c[1].dur
    BY <1>1 DEF Slot
  <2>4. [a EXCEPT ![1].dur = @ + c[1].dur] = <<[open |-> c[1].open, dur |-> 0 + c[1].dur]>>
    OBVIOUS
  <2> QED BY <2>2, <2>3, <2>4
<1>3. acc \in Gate /\ Len(acc) = 1 /\ acc[1] = c[1]
  <2>1. <<c[1]>> \in Seq(Slot)
    BY <1>1
  <2>2. acc \in Gate
    BY <1>2, <2>1 DEF Gate
  <2>3. Len(<<c[1]>>) = 1 /\ <<c[1]>>[1] = c[1]
    OBVIOUS
  <2> QED BY <1>2, <2>2, <2>3
<1>4. Begin(acc, 1 + 1) = Begin(c, 1 + 1)
  BY <1>3, BeginNext
<1>5. \A k \in 1..Len(acc), e \in 1..1 : acc[k].open = c[e].open
  BY <1>3
<1> QED BY <1>3, <1>4, <1>5 DEF Merged

\* An entry with the same gate makes the last slot longer.
LEMMA MergeLonger ==
  ASSUME NEW c \in Gate, NEW i \in 1..(Len(c) - 1), NEW acc, Merged(c, i, acc),
         acc[Len(acc)].open = c[i + 1].open,
         NEW res, res = [acc EXCEPT ![Len(acc)].dur = @ + c[i + 1].dur]
  PROVE  Merged(c, i + 1, res)
<1> DEFINE L == Len(acc)
<1>1. /\ acc \in Gate /\ L \in Nat /\ L > 0
      /\ Len(c) \in Nat /\ i \in Nat /\ i + 1 \in 1..Len(c) /\ i \in 1..Len(c)
      /\ c[i + 1].dur \in Nat /\ c[i + 1].dur > 0 /\ c[i + 1].open \in BOOLEAN
      /\ \A k \in 1..L : acc[k] \in Slot /\ acc[k].dur \in Nat
      /\ \A k \in 1..Len(c) : c[k].dur \in Nat
  BY GateSlot DEF Merged
<1>2. PICK x : x = [acc[L] EXCEPT !.dur = @ + c[i + 1].dur]
  OBVIOUS
<1>3. res = [acc EXCEPT ![L] = x]
  BY <1>2
<1>4. x \in Slot /\ x.open = acc[L].open /\ x.dur = acc[L].dur + c[i + 1].dur
  <2>1. acc[L] \in Slot
    <3>1. L \in 1..L
      BY ONLY <1>1
    <3>2. \A k \in 1..L : acc[k] \in Slot
      BY ONLY <1>1
    <3> QED BY ONLY <3>1, <3>2
  <2> QED BY <1>1, <1>2, <2>1 DEF Slot
<1>5. res \in Gate /\ Len(res) = L
  <2>1. acc \in Seq(Slot)
    BY <1>1 DEF Gate
  <2> HIDE DEF L
  <2>2. res \in Seq(Slot) /\ Len(res) = Len(acc)
    <3>1. L \in 1..Len(acc)
      BY <1>1 DEF L
    <3> QED BY ONLY <1>3, <1>4, <2>1, <3>1, ExceptSeq
  <2> QED BY <2>2 DEF Gate, L
<1>6. /\ \A k \in 1..L : k # L => res[k] = acc[k]
      /\ res[L] = x
  <2>1. acc \in Seq(Slot)
    BY <1>1 DEF Gate
  <2> HIDE DEF L
  <2> QED BY <1>1, <1>3, <2>1 DEF L
<1>7. \A k \in 1..L : res[k].open = acc[k].open
  BY <1>4, <1>6
<1>8. \A k \in 1..L : Begin(res, k) = Begin(acc, k)
  <2> SUFFICES ASSUME NEW k \in 1..L PROVE Begin(res, k) = Begin(acc, k)
    OBVIOUS
  <2>1. \A e \in 1..(k - 1) : res[e].dur = acc[e].dur
    BY <1>1, <1>6
  <2> HIDE DEF L
  <2>2. k \in Nat \ {0}
    BY <1>1
  <2> QED BY ONLY <2>1, <2>2, BeginPrefix
<1> HIDE DEF L
<1>9. /\ \A k \in 1..(L + 1) : Begin(acc, k) \in Nat
      /\ \A k, e \in 1..(L + 1) : e <= k => Begin(acc, e) <= Begin(acc, k)
  <2>1. \A k \in 1..L : acc[k].dur \in Nat
    BY <1>1
  <2> QED BY ONLY <1>1, <2>1, BeginOrder
<1>10. /\ \A k \in 1..(Len(c) + 1) : Begin(c, k) \in Nat
       /\ \A k, e \in 1..(Len(c) + 1) : e <= k => Begin(c, e) <= Begin(c, k)
  <2>1. Len(c) \in Nat /\ \A k \in 1..Len(c) : c[k].dur \in Nat
    BY <1>1
  <2> QED BY ONLY <2>1, BeginOrder
<1>11. Begin(acc, L + 1) = Begin(c, i + 1)
  BY DEF Merged, L
<1>12. Begin(res, L + 1) = Begin(c, (i + 1) + 1)
  <2>1. L \in 1..L /\ L \in Nat \ {0} /\ i + 1 \in Nat \ {0} /\ L + 1 \in 1..(L + 1)
    BY <1>1
  <2>2. /\ Begin(res, L + 1) = Begin(acc, L) + x.dur
        /\ Begin(acc, L + 1) = Begin(acc, L) + acc[L].dur
    <3>1. /\ Begin(res, L + 1) = Begin(res, L) + res[L].dur
          /\ Begin(acc, L + 1) = Begin(acc, L) + acc[L].dur
      BY ONLY <2>1, BeginNext
    <3>2. Begin(res, L) = Begin(acc, L) /\ res[L] = x
      BY ONLY <1>6, <1>8, <2>1
    <3> QED BY ONLY <3>1, <3>2
  <2>3. Begin(c, (i + 1) + 1) = Begin(c, i + 1) + c[i + 1].dur
    BY <2>1, BeginNext
  <2>4. Begin(acc, L) \in Nat /\ acc[L].dur \in Nat /\ c[i + 1].dur \in Nat
    <3>1. L \in 1..(L + 1)
      BY ONLY <2>1
    <3>2. acc[L].dur \in Nat /\ c[i + 1].dur \in Nat
      BY ONLY <1>1, <2>1
    <3> QED BY ONLY <1>9, <3>1, <3>2
  <2> QED BY ONLY <1>4, <1>11, <2>2, <2>3, <2>4
<1>13. ASSUME NEW k \in 1..L, NEW e \in 1..(i + 1), NEW r \in Nat, In(res, k, r), In(c, e, r)
       PROVE  res[k].open = c[e].open
  <2>1. /\ e \in 1..(Len(c) + 1) /\ e + 1 \in 1..(Len(c) + 1) /\ i + 1 \in 1..(Len(c) + 1)
        /\ k \in 1..(L + 1) /\ k + 1 \in 1..(L + 1) /\ L + 1 \in 1..(L + 1) /\ L \in 1..(L + 1)
    <3>1. i \in Nat /\ i + 1 <= Len(c) /\ Len(c) \in Nat /\ e \in 1..(i + 1)
      BY ONLY <1>1, <1>13
    <3>2. L \in Nat /\ k \in 1..L
      BY ONLY <1>1, <1>13
    <3>3. e \in 1..(Len(c) + 1) /\ e + 1 \in 1..(Len(c) + 1) /\ i + 1 \in 1..(Len(c) + 1)
      BY ONLY <3>1
    <3>4. k \in 1..(L + 1) /\ k + 1 \in 1..(L + 1) /\ L + 1 \in 1..(L + 1) /\ L \in 1..(L + 1)
      BY ONLY <3>2
    <3> QED BY ONLY <3>3, <3>4
  <2>2. CASE e = i + 1
    <3>1. CASE k = L
      BY <1>7, <2>2, <3>1 DEF L
    <3>2. CASE k # L
      <4>1. k + 1 \in 1..L
        BY <1>1, <3>2
      <4>2. r < Begin(acc, k + 1)
        BY <1>8, <1>13, <4>1 DEF In
      <4>3. Begin(acc, k + 1) <= Begin(acc, L + 1) /\ Begin(c, i + 1) <= r
        BY <1>1, <1>9, <1>13, <2>1, <2>2 DEF In
      <4>4. Begin(acc, k + 1) \in Nat /\ Begin(acc, L + 1) \in Nat
        BY <1>9, <2>1
      <4>5. r < Begin(acc, L + 1) /\ Begin(acc, L + 1) <= r
        BY <1>11, <4>2, <4>3, <4>4
      <4> QED BY <4>4, <4>5
    <3> QED BY <3>1, <3>2
  <2>3. CASE e # i + 1
    <3>1. e \in 1..i
      BY <2>3
    <3>2. r < Begin(acc, L + 1)
      <4>1. e + 1 \in 1..(Len(c) + 1) /\ i + 1 \in 1..(Len(c) + 1) /\ e + 1 <= i + 1
        BY <1>1, <3>1
      <4>2. Begin(c, e + 1) <= Begin(c, i + 1) /\ Begin(c, e + 1) \in Nat /\ Begin(c, i + 1) \in Nat
        BY <1>10, <4>1
      <4>3. r < Begin(c, e + 1) /\ r \in Nat
        BY <1>13, <2>1 DEF In
      <4> QED BY ONLY <1>11, <4>2, <4>3
    <3>3. In(acc, k, r)
      <4>1. Begin(acc, k) <= r
        BY <1>8, <1>13 DEF In
      <4>2. CASE k = L
        BY <3>2, <4>1, <4>2 DEF In
      <4>3. CASE k # L
        <5>1. k + 1 \in 1..L
          BY <1>1, <4>3
        <5> QED BY <1>8, <1>13, <4>1, <5>1 DEF In
      <4> QED BY <4>2, <4>3
    <3>4. acc[k].open = c[e].open
      BY <1>13, <3>1, <3>3 DEF Merged, L
    <3> QED BY <1>7, <3>4
  <2> QED BY <2>2, <2>3
<1>14. res[1].open = c[1].open /\ res[L].open = c[i + 1].open
  <2>1. 1 \in 1..L /\ L \in 1..L
    BY <1>1
  <2>2. acc[1].open = c[1].open /\ acc[L].open = c[i + 1].open
    BY DEF Merged, L
  <2> QED BY <1>7, <2>1, <2>2
<1>15. \A k \in 1..(L - 1) : res[k + 1].open # res[k].open
  <2> SUFFICES ASSUME NEW k \in 1..(L - 1) PROVE res[k + 1].open # res[k].open
    OBVIOUS
  <2>1. k \in 1..L /\ k + 1 \in 1..L
    BY <1>1
  <2>2. acc[k + 1].open # acc[k].open
    BY DEF Merged, L
  <2> QED BY <1>7, <2>1, <2>2
<1>16. \A k \in 1..L, e \in 1..(i + 1), r \in Nat :
         In(res, k, r) /\ In(c, e, r) => res[k].open = c[e].open
  BY <1>13
<1> QED BY ONLY <1>1, <1>5, <1>12, <1>14, <1>15, <1>16 DEF Merged

\* An entry with the other gate becomes a slot of its own.
LEMMA MergeAppend ==
  ASSUME NEW c \in Gate, NEW i \in 1..(Len(c) - 1), NEW acc, Merged(c, i, acc),
         acc[Len(acc)].open # c[i + 1].open,
         NEW res, res = Append(acc, c[i + 1])
  PROVE  Merged(c, i + 1, res)
<1> DEFINE L == Len(acc)
           x == c[i + 1]
<1>1. /\ acc \in Gate /\ L \in Nat /\ L > 0
      /\ Len(c) \in Nat /\ i \in Nat /\ i + 1 \in 1..Len(c) /\ i \in 1..Len(c)
      /\ x \in Slot /\ x.dur \in Nat
      /\ \A k \in 1..L : acc[k].dur \in Nat
      /\ \A k \in 1..Len(c) : c[k].dur \in Nat
  <2>1. acc \in Gate /\ Len(acc) > 0
    BY DEF Merged
  <2>2. Len(acc) \in Nat /\ \A k \in 1..Len(acc) : acc[k].dur \in Nat
    BY ONLY <2>1, GateSlot
  <2>3. Len(c) \in Nat /\ \A k \in 1..Len(c) : c[k] \in Slot /\ c[k].dur \in Nat
    BY ONLY c \in Gate, GateSlot
  <2>4. i \in Nat /\ i + 1 \in 1..Len(c) /\ i \in 1..Len(c)
    BY ONLY <2>3, i \in 1..(Len(c) - 1)
  <2> QED BY ONLY <2>1, <2>2, <2>3, <2>4
<1>2. /\ res \in Gate /\ Len(res) = L + 1
      /\ \A k \in 1..L : res[k] = acc[k]
      /\ res[L + 1] = x
  <2>1. acc \in Seq(Slot)
    BY <1>1 DEF Gate
  <2> HIDE DEF x
  <2>2. res = Append(acc, x)
    BY DEF x
  <2> QED BY <1>1, <2>1, <2>2, AppendProperties DEF Gate, L
<1>3. \A k \in 1..(L + 1) : Begin(res, k) = Begin(acc, k)
  <2> SUFFICES ASSUME NEW k \in 1..(L + 1) PROVE Begin(res, k) = Begin(acc, k)
    OBVIOUS
  <2> HIDE DEF L
  <2>1. \A e \in 1..(k - 1) : res[e].dur = acc[e].dur
    BY <1>1, <1>2
  <2>2. k \in Nat \ {0}
    BY <1>1
  <2> QED BY ONLY <2>1, <2>2, BeginPrefix
<1> HIDE DEF L, x
<1>4. /\ \A k \in 1..(L + 1) : Begin(acc, k) \in Nat
      /\ \A k, e \in 1..(L + 1) : e <= k => Begin(acc, e) <= Begin(acc, k)
  <2>1. \A k \in 1..L : acc[k].dur \in Nat
    BY <1>1
  <2> QED BY ONLY <1>1, <2>1, BeginOrder
<1>5. /\ \A k \in 1..(Len(c) + 1) : Begin(c, k) \in Nat
      /\ \A k, e \in 1..(Len(c) + 1) : e <= k => Begin(c, e) <= Begin(c, k)
  <2>1. Len(c) \in Nat /\ \A k \in 1..Len(c) : c[k].dur \in Nat
    BY <1>1
  <2> QED BY ONLY <2>1, BeginOrder
<1>6. Begin(acc, L + 1) = Begin(c, i + 1)
  BY DEF Merged, L
<1>7. Begin(res, (L + 1) + 1) = Begin(c, (i + 1) + 1)
  <2>1. L + 1 \in 1..(L + 1) /\ L + 1 \in Nat \ {0} /\ i + 1 \in Nat \ {0}
    BY <1>1
  <2>2. Begin(res, (L + 1) + 1) = Begin(res, L + 1) + x.dur
    BY <1>2, <2>1, BeginNext
  <2>3. Begin(c, (i + 1) + 1) = Begin(c, i + 1) + x.dur
    BY <2>1, BeginNext DEF x
  <2> QED BY <1>3, <1>6, <2>1, <2>2, <2>3
<1>8. ASSUME NEW k \in 1..(L + 1), NEW e \in 1..(i + 1), NEW r \in Nat, In(res, k, r), In(c, e, r)
      PROVE  res[k].open = c[e].open
  <2>1. /\ e \in 1..(Len(c) + 1) /\ e + 1 \in 1..(Len(c) + 1) /\ i + 1 \in 1..(Len(c) + 1)
        /\ L + 1 \in 1..(L + 1)
    BY <1>1
  <2>2. /\ Begin(c, e) \in Nat /\ Begin(c, e + 1) \in Nat /\ Begin(c, i + 1) \in Nat
        /\ Begin(c, e) <= r /\ r < Begin(c, e + 1)
    BY <1>5, <1>8, <2>1 DEF In
  <2>3. CASE k = L + 1
    <3>1. Begin(c, i + 1) <= r
      BY <1>3, <1>6, <1>8, <2>1, <2>3 DEF In
    <3>2. e = i + 1
      <4> SUFFICES ASSUME e # i + 1 PROVE FALSE
        OBVIOUS
      <4>1. e + 1 <= i + 1
        BY <1>1
      <4>2. Begin(c, e + 1) <= Begin(c, i + 1)
        BY <1>5, <2>1, <4>1
      <4> QED BY <2>2, <3>1, <4>2
    <3> QED BY <1>2, <2>3, <3>2 DEF x
  <2>4. CASE k # L + 1
    <3>1. k \in 1..L /\ k + 1 \in 1..(L + 1)
      BY <1>1, <2>4
    <3>2. In(acc, k, r)
      BY <1>3, <1>8, <3>1 DEF In
    <3>3. Begin(acc, k + 1) <= Begin(acc, L + 1) /\ Begin(acc, k + 1) \in Nat
      BY <1>1, <1>4, <2>1, <3>1
    <3>4. r < Begin(c, i + 1)
      BY <1>6, <2>2, <3>2, <3>3 DEF In
    <3>5. e \in 1..i
      BY <1>1, <2>2, <3>4
    <3>6. acc[k].open = c[e].open
      BY <1>8, <3>1, <3>2, <3>5 DEF Merged, L
    <3> QED BY <1>2, <3>1, <3>6
  <2> QED BY <2>3, <2>4
<1>9. res[1].open = c[1].open /\ res[L + 1].open = c[i + 1].open
  <2>1. 1 \in 1..L
    BY <1>1
  <2>2. acc[1].open = c[1].open
    BY DEF Merged
  <2> QED BY <1>2, <2>1, <2>2 DEF x
<1>10. \A k \in 1..((L + 1) - 1) : res[k + 1].open # res[k].open
  <2>0. (L + 1) - 1 = L
    BY <1>1
  <2> SUFFICES ASSUME NEW k \in 1..L PROVE res[k + 1].open # res[k].open
    BY <2>0
  <2>1. CASE k = L
    <3>1. acc[L].open # x.open
      BY DEF L, x
    <3> QED BY <1>2, <2>1, <3>1
  <2>2. CASE k # L
    <3>1. k \in 1..(L - 1) /\ k + 1 \in 1..L
      BY <1>1, <2>2
    <3>2. acc[k + 1].open # acc[k].open
      BY <3>1 DEF Merged, L
    <3> QED BY <1>2, <3>1, <3>2
  <2> QED BY <2>1, <2>2
<1>11. \A k \in 1..(L + 1), e \in 1..(i + 1), r \in Nat :
         In(res, k, r) /\ In(c, e, r) => res[k].open = c[e].open
  BY <1>8
<1>12. L + 1 > 0
  BY <1>1
<1> QED BY ONLY <1>2, <1>7, <1>9, <1>10, <1>11, <1>12 DEF Merged

\* The recursion of the baking loop: what is merged after i entries.
Merges(g, c, n) ==
  g = [i \in 0..n |-> IF i = 0 THEN <<[open |-> c[1].open, dur |-> 0]>> ELSE Merge(g[i - 1], c[i])]

\* There is such a function.
LEMMA MergesExist ==
  ASSUME NEW c, NEW n \in Nat
  PROVE  \E g : Merges(g, c, n)
<1> DEFINE T == {k \in 1..(n + 1) : \E g : Merges(g, c, k - 1)}
           z == <<[open |-> c[1].open, dur |-> 0]>>
<1>1. 1 \in T
  <2>1. Merges([i \in 0..0 |-> z], c, 0)
    BY DEF Merges
  <2>2. 1 - 1 = 0 /\ 1 \in 1..(n + 1)
    OBVIOUS
  <2> QED BY <2>1, <2>2
<1>2. ASSUME NEW k \in 1..((n + 1) - 1), k \in T PROVE k + 1 \in T
  <2>1. PICK g : Merges(g, c, k - 1)
    BY <1>2
  <2> DEFINE h == [i \in 0..k |-> IF i < k THEN g[i] ELSE Merge(g[k - 1], c[k])]
  <2>2. Merges(h, c, k)
    <3> SUFFICES ASSUME NEW i \in 0..k
                 PROVE  h[i] = IF i = 0 THEN z ELSE Merge(h[i - 1], c[i])
      BY DEF Merges
    <3>1. CASE i = k
      <4>1. k - 1 \in 0..k /\ k - 1 < k /\ i # 0
        BY <3>1
      <4> QED BY <3>1, <4>1
    <3>2. CASE i < k
      <4>1. g[i] = IF i = 0 THEN z ELSE Merge(g[i - 1], c[i])
        BY <2>1, <3>2 DEF Merges
      <4>2. i # 0 => i - 1 \in 0..k /\ i - 1 < k
        BY <3>2
      <4> QED BY <3>2, <4>1, <4>2
    <3> QED BY <3>1, <3>2
  <2>3. (k + 1) - 1 = k /\ k + 1 \in 1..(n + 1)
    OBVIOUS
  <2> HIDE DEF h
  <2> QED BY <2>2, <2>3
<1> HIDE DEF T
<1>3. n + 1 \in Nat /\ n + 1 \in 1..(n + 1) /\ (n + 1) - 1 = n
  OBVIOUS
<1>4. 1..(n + 1) \subseteq T
  BY ONLY <1>1, <1>2, <1>3, Reaches
<1>5. n + 1 \in T
  BY <1>3, <1>4
<1> QED BY <1>3, <1>5 DEF T

\* One round of the loop.
LEMMA MergeStep ==
  ASSUME NEW c \in Gate, NEW i \in 1..(Len(c) - 1), NEW acc, Merged(c, i, acc),
         NEW res, res = Merge(acc, c[i + 1])
  PROVE  Merged(c, i + 1, res)
<1>1. CASE Last(acc).open = c[i + 1].open
  <2>1. acc[Len(acc)].open = c[i + 1].open
    BY <1>1 DEF Last
  <2>2. res = [acc EXCEPT ![Len(acc)].dur = @ + c[i + 1].dur]
    BY <1>1 DEF Merge
  <2> QED BY <2>1, <2>2, MergeLonger
<1>2. CASE Last(acc).open # c[i + 1].open
  <2>1. acc[Len(acc)].open # c[i + 1].open
    BY <1>2 DEF Last
  <2>2. res = Append(acc, c[i + 1])
    BY <1>2 DEF Merge
  <2> QED BY <2>1, <2>2, MergeAppend
<1> QED BY <1>1, <1>2

\* The whole loop.
LEMMA MergeAll ==
  ASSUME NEW c \in Gate, Len(c) > 0, NEW g, Merges(g, c, Len(c))
  PROVE  Merged(c, Len(c), g[Len(c)])
<1> DEFINE n == Len(c)
           T == {i \in 1..n : Merged(c, i, g[i])}
<1>0. n \in Nat /\ n > 0
  BY GateSlot
<1> HIDE DEF n
<1>1. 1 \in T
  <2>1. g[0] = <<[open |-> c[1].open, dur |-> 0]>> /\ g[1] = Merge(g[1 - 1], c[1]) /\ 1 - 1 = 0
    BY <1>0 DEF Merges, n
  <2>2. Merged(c, 1, g[1])
    BY <2>1, MergeFirst
  <2> QED BY <1>0, <2>2
<1>2. ASSUME NEW i \in 1..(n - 1), i \in T PROVE i + 1 \in T
  <2>1. i + 1 \in 1..n /\ i + 1 \in 0..n /\ i + 1 # 0 /\ (i + 1) - 1 = i
    BY <1>0
  <2>2. g[i + 1] = Merge(g[i], c[i + 1])
    BY <2>1 DEF Merges, n
  <2>3. Merged(c, i, g[i])
    BY <1>2
  <2>4. Merged(c, i + 1, g[i + 1])
    BY <2>2, <2>3, MergeStep DEF n
  <2> QED BY <2>1, <2>4
<1> HIDE DEF T
<1>3. 1..n \subseteq T
  BY ONLY <1>0, <1>1, <1>2, Reaches
<1>4. n \in T
  BY <1>0, <1>3
<1> QED BY <1>4 DEF T, n

\* The slots BakePrio gives: pairs of alternating slots, of which only the last may be
\* empty, that stand for the gate of class tc.
BakedFor(s, sched, tc) ==
  /\ Len(s) \in Nat /\ Len(s) >= 2 /\ Len(s) % 2 = 0 /\ DOMAIN s = 1..Len(s)
  /\ \A k \in 1..Len(s) : s[k].open \in BOOLEAN /\ s[k].dur \in Nat
  /\ \A k \in 1..(Len(s) - 1) : s[k].dur > 0 /\ s[k + 1].open # s[k].open
  /\ s[1].open = (tc \in sched[1].open)
  /\ s[Len(s)].dur = 0 => s[Len(s) - 1].open = (tc \in Last(sched).open)
  /\ Begin(s, Len(s) + 1) = CycleNs(sched)
  /\ \A k \in 1..Len(s), e \in 1..Len(sched), r \in Nat :
       In(s, k, r) /\ In(sched, e, r) => s[k].open = (tc \in sched[e].open)

\* The column of a class.
LEMMA ColumnGate ==
  ASSUME NEW sched \in Schedule, NEW tc
  PROVE  /\ Column(sched, tc) \in Gate
         /\ Len(Column(sched, tc)) = Len(sched) /\ Len(sched) \in Nat /\ Len(sched) > 0
         /\ DOMAIN sched = 1..Len(sched)
         /\ \A i \in 1..Len(sched) :
              /\ sched[i].dur \in Nat /\ sched[i].dur > 0
              /\ Column(sched, tc)[i].open = (tc \in sched[i].open)
         /\ \A k \in 1..(Len(sched) + 1) : Begin(Column(sched, tc), k) = Begin(sched, k)
<1> DEFINE R == [dur : Nat \ {0}, open : SUBSET TCs]
           c == Column(sched, tc)
           n == Len(sched)
<1>1. sched \in Seq(R) /\ n \in Nat /\ n > 0
  BY DEF Schedule
<1>2. DOMAIN sched = 1..n /\ \A i \in 1..n : sched[i] \in R
  <2> HIDE DEF R
  <2> QED BY <1>1
<1>3. \A i \in 1..n : sched[i].dur \in Nat \ {0}
  BY <1>2
<1>4. c = [i \in 1..n |-> [open |-> tc \in sched[i].open, dur |-> sched[i].dur]]
  BY <1>2 DEF Column
<1>5. \A i \in 1..n : [open |-> tc \in sched[i].open, dur |-> sched[i].dur] \in Slot
  BY <1>3 DEF Slot
<1> HIDE DEF c, n
<1>6. c \in [1..n -> Slot]
  BY <1>4, <1>5
<1>7. c \in Seq(Slot)
  BY <1>1, <1>6
<1>8. Len(c) = n
  <2>1. Len(c) \in Nat /\ DOMAIN c = 1..Len(c) /\ DOMAIN c = 1..n
    BY <1>6, <1>7
  <2>2. n \in 1..n
    BY <1>1
  <2>3. n \in 1..Len(c)
    BY <2>1, <2>2
  <2>4. Len(c) \in 1..Len(c)
    BY <2>1, <2>3
  <2>5. Len(c) \in 1..n
    BY <2>1, <2>4
  <2>6. \A k, l \in Nat : k \in 1..l /\ l \in 1..k => k = l
    OBVIOUS
  <2> QED BY ONLY <1>1, <2>1, <2>3, <2>5, <2>6
<1>9. \A i \in 1..n : c[i].open = (tc \in sched[i].open) /\ c[i].dur = sched[i].dur
  BY <1>4
<1>10. ASSUME NEW k \in 1..(n + 1) PROVE Begin(c, k) = Begin(sched, k)
  <2>1. k \in Nat \ {0} /\ \A i \in 1..(k - 1) : c[i].dur = sched[i].dur
    BY <1>1, <1>9
  <2> QED BY ONLY <2>1, BeginPrefix
<1> QED BY <1>1, <1>2, <1>3, <1>7, <1>8, <1>9, <1>10 DEF Gate, c, n

\* Slots that alternate and are even in number end with the other gate than they begin.
LEMMA EndsDiffer ==
  ASSUME NEW sched, NEW tc, NEW s, BakedFor(s, sched, tc)
  PROVE  s[1].open # s[Len(s)].open
<1> DEFINE L == Len(s)
           T == {k \in 1..L : (s[k].open = s[1].open) <=> (k % 2 = 1)}
<1>1. /\ L \in Nat /\ L >= 2 /\ L % 2 = 0
      /\ \A k \in 1..L : s[k].open \in BOOLEAN
      /\ \A k \in 1..(L - 1) : s[k + 1].open # s[k].open
  BY DEF BakedFor
<1> HIDE DEF L
<1>2. 1 \in T
  BY <1>1
<1>3. ASSUME NEW k \in 1..(L - 1), k \in T PROVE k + 1 \in T
  <2>1. k \in 1..L /\ k + 1 \in 1..L /\ 1 \in 1..L
    BY <1>1
  <2>2. ((k + 1) % 2 = 1) <=> ~(k % 2 = 1)
    BY <1>1
  <2>3. s[k].open \in BOOLEAN /\ s[k + 1].open \in BOOLEAN /\ s[1].open \in BOOLEAN
    BY <1>1, <2>1
  <2>4. (s[k + 1].open = s[1].open) <=> ~(s[k].open = s[1].open)
    BY <1>1, <2>3
  <2>5. (s[k].open = s[1].open) <=> (k % 2 = 1)
    BY <1>3
  <2> QED BY <2>1, <2>2, <2>4, <2>5
<1> HIDE DEF T
<1>4. 1..L \subseteq T
  BY ONLY <1>1, <1>2, <1>3, Reaches
<1>5. L \in T
  BY <1>1, <1>4
<1>6. s[L].open = s[1].open <=> L % 2 = 1
  BY <1>5 DEF T
<1> QED BY <1>1, <1>6 DEF L

\* bake_qos_config: whatever the schedule, the slots of a class alternate, take as long as
\* the cycle, and are open exactly when the entries of the schedule open the gate.
THEOREM BakeCorrect ==
  ASSUME NEW sched \in Schedule, NEW tc
  PROVE  BakedFor(BakePrio(sched, tc), sched, tc)
<1> DEFINE c == Column(sched, tc)
           n == Len(c)
           b == CHOOSE g : g = [i \in 0..n |-> IF i = 0 THEN <<[open |-> c[1].open, dur |-> 0]>>
                                               ELSE Merge(g[i - 1], c[i])]
           m == b[n]
<1>1. c \in Gate /\ n = Len(sched) /\ n \in Nat /\ n > 0
  BY ColumnGate
<1>2. Merges(b, c, n)
  <2>1. \E g : g = [i \in 0..n |-> IF i = 0 THEN <<[open |-> c[1].open, dur |-> 0]>>
                                   ELSE Merge(g[i - 1], c[i])]
    <3> HIDE DEF c, n
    <3> QED BY <1>1, MergesExist DEF Merges
  <2> QED BY <2>1 DEF Merges
<1>3. BakePrio(sched, tc) = IF Len(m) % 2 = 1 THEN Append(m, [open |-> ~Last(m).open, dur |-> 0]) ELSE m
  BY DEF BakePrio
<1>4. Merged(c, n, m)
  <2> HIDE DEF b
  <2> QED BY <1>1, <1>2, MergeAll
<1> DEFINE L == Len(m)
<1>5. /\ c[1].open = (tc \in sched[1].open) /\ c[n].open = (tc \in Last(sched).open)
      /\ \A k \in 1..(n + 1) : Begin(c, k) = Begin(sched, k)
      /\ \A k \in 1..n : c[k].open = (tc \in sched[k].open)
  <2>1. 1 \in 1..n /\ n \in 1..n
    BY <1>1
  <2> QED BY <1>1, <2>1, ColumnGate DEF Last
<1>6. \A k \in 1..n, r \in Nat : In(sched, k, r) => In(c, k, r)
  <2> SUFFICES ASSUME NEW k \in 1..n, NEW r \in Nat, In(sched, k, r) PROVE In(c, k, r)
    OBVIOUS
  <2>1. k \in 1..(n + 1) /\ k + 1 \in 1..(n + 1)
    BY <1>1
  <2> QED BY <1>5, <2>1 DEF In
<1> HIDE DEF b, m, c, n
<1>7. /\ L \in Nat /\ L > 0 /\ m \in Seq(Slot) /\ DOMAIN m = 1..L
      /\ \A k \in 1..L : m[k].open \in BOOLEAN /\ m[k].dur \in Nat /\ m[k].dur > 0
  BY <1>4, GateSlot DEF Merged, Gate
<1>8. /\ Begin(m, L + 1) = CycleNs(sched)
      /\ m[1].open = (tc \in sched[1].open)
      /\ m[L].open = (tc \in Last(sched).open)
      /\ \A k \in 1..(L - 1) : m[k + 1].open # m[k].open
  <2>1. n + 1 \in 1..(n + 1)
    BY <1>1
  <2> QED BY <1>1, <1>4, <1>5, <2>1 DEF Merged, CycleNs
<1>9. \A k \in 1..L, e \in 1..Len(sched), r \in Nat :
        In(m, k, r) /\ In(sched, e, r) => m[k].open = (tc \in sched[e].open)
  BY <1>1, <1>4, <1>5, <1>6 DEF Merged
<1>10. CASE L % 2 = 0
  <2>1. BakePrio(sched, tc) = m
    BY <1>3, <1>10
  <2>2. L >= 2
    BY <1>7, <1>10
  <2>3. L \in 1..L /\ \A k \in 1..(L - 1) : k \in 1..L
    BY <1>7
  <2>4. m[L].dur > 0 /\ m[L].dur \in Nat
    BY <1>7, <2>3
  <2>5. m[L].dur # 0
    BY <2>4
  <2> HIDE DEF L
  <2>6. L = Len(m)
    BY DEF L
  <2>7. BakedFor(m, sched, tc)
    BY <1>7, <1>8, <1>9, <1>10, <2>2, <2>3, <2>5, <2>6 DEF BakedFor
  <2> QED BY <2>1, <2>7
<1>11. CASE L % 2 = 1
  <2> DEFINE x == [open |-> ~m[L].open, dur |-> 0]
  <2>0. L \in 1..L /\ m[L].open \in BOOLEAN
    BY <1>7
  <2>1. BakePrio(sched, tc) = Append(m, x)
    BY <1>3, <1>11 DEF Last
  <2>2. PICK s : s = Append(m, x)
    OBVIOUS
  <2>3. x.open = ~m[L].open /\ x.dur = 0 /\ x \in [open : BOOLEAN, dur : Nat]
    BY <2>0
  <2> HIDE DEF x
  <2>4. /\ Len(s) = L + 1 /\ DOMAIN s = 1..(L + 1)
        /\ \A k \in 1..L : s[k] = m[k]
        /\ s[L + 1] = x
    <3> DEFINE W == [open : BOOLEAN, dur : Nat]
    <3>1. Slot \subseteq W
      BY DEF Slot
    <3>2. m \in Seq(W)
      <4> HIDE DEF W
      <4> QED BY <1>7, <3>1
    <3> HIDE DEF W
    <3> QED BY <1>7, <2>2, <2>3, <3>2, AppendProperties DEF W
  <2> HIDE DEF L
  <2>5. \A k \in 1..(L + 1) : Begin(s, k) = Begin(m, k)
    <3> SUFFICES ASSUME NEW k \in 1..(L + 1) PROVE Begin(s, k) = Begin(m, k)
      OBVIOUS
    <3>1. \A i \in 1..(k - 1) : s[i].dur = m[i].dur
      BY <1>7, <2>4
    <3>2. k \in Nat \ {0}
      BY <1>7
    <3> QED BY ONLY <3>1, <3>2, BeginPrefix
  <2>6. Begin(m, L + 1) \in Nat
    <3>1. L \in Nat /\ \A i \in 1..L : m[i].dur \in Nat
      BY <1>7
    <3>2. L + 1 \in 1..(L + 1)
      BY <1>7
    <3> QED BY ONLY <3>1, <3>2, BeginOrder
  <2>7. Begin(s, (L + 1) + 1) = Begin(m, L + 1) /\ Begin(s, L + 1) = Begin(m, L + 1)
    <3>1. L + 1 \in Nat \ {0} /\ L + 1 \in 1..(L + 1)
      BY <1>7
    <3>2. Begin(s, (L + 1) + 1) = Begin(s, L + 1) + s[L + 1].dur
      BY ONLY <3>1, BeginNext
    <3> QED BY <2>3, <2>4, <2>5, <2>6, <3>1, <3>2
  <2>8. ASSUME NEW k \in 1..(L + 1), NEW e \in 1..Len(sched), NEW r \in Nat,
               In(s, k, r), In(sched, e, r)
        PROVE  s[k].open = (tc \in sched[e].open)
    <3>1. k # L + 1
      BY <2>6, <2>7, <2>8 DEF In
    <3>2. k \in 1..L /\ k + 1 \in 1..(L + 1)
      BY <1>7, <3>1
    <3>3. In(m, k, r)
      BY <2>5, <2>8, <3>2 DEF In
    <3> QED BY <1>9, <2>4, <2>8, <3>2, <3>3
  <2>9. ASSUME NEW k \in 1..L PROVE s[k].dur > 0 /\ s[k + 1].open # s[k].open
    <3>1. s[k] = m[k] /\ m[k].dur > 0
      BY <1>7, <2>4
    <3>2. CASE k = L
      BY <2>0, <2>3, <2>4, <3>1, <3>2
    <3>3. CASE k # L
      <4>1. k \in 1..(L - 1) /\ k + 1 \in 1..L
        BY <1>7, <3>3
      <4> QED BY <1>8, <2>4, <3>1, <4>1
    <3> QED BY <3>1, <3>2, <3>3
  <2>10. ASSUME NEW k \in 1..(L + 1) PROVE s[k].open \in BOOLEAN /\ s[k].dur \in Nat
    <3>1. CASE k = L + 1
      BY <2>0, <2>3, <2>4, <3>1
    <3>2. CASE k # L + 1
      <4>1. k \in 1..L
        BY <1>7, <3>2
      <4> QED BY <1>7, <2>4, <4>1
    <3> QED BY <3>1, <3>2
  <2>11. /\ L + 1 \in Nat /\ L + 1 >= 2 /\ (L + 1) % 2 = 0 /\ (L + 1) - 1 = L
         /\ 1 \in 1..L
    BY <1>7, <1>11
  <2>12. s[1].open = (tc \in sched[1].open) /\ s[L].open = (tc \in Last(sched).open)
    BY <1>8, <2>0, <2>4, <2>11
  <2>13. Begin(s, (L + 1) + 1) = CycleNs(sched)
    BY <1>8, <2>7
  <2>14. BakedFor(s, sched, tc)
    BY ONLY <2>4, <2>8, <2>9, <2>10, <2>11, <2>12, <2>13 DEF BakedFor
  <2> QED BY <2>1, <2>2, <2>14
<1> QED BY <1>7, <1>10, <1>11

----------------------------------------------------------------------------
(* The slots on the axis of time.                                          *)

\* The slots of a class with the facts about where they begin.
LEMMA Shape ==
  ASSUME NEW sched \in Schedule, NEW tc, NEW s, BakedFor(s, sched, tc)
  PROVE  /\ Len(s) \in Nat /\ Len(s) >= 2
         /\ \A k \in 1..(Len(s) + 1) : Begin(s, k) \in Nat
         /\ \A i, k \in 1..(Len(s) + 1) : i <= k => Begin(s, i) <= Begin(s, k)
         /\ Begin(s, 1) = 0
         /\ \A k \in 1..Len(s) : /\ Begin(s, k + 1) = Begin(s, k) + s[k].dur
                                 /\ s[k].dur \in Nat /\ s[k].open \in BOOLEAN
         /\ CycleNs(sched) = Begin(s, Len(s) + 1)
         /\ CycleNs(sched) \in Nat \ {0}
<1> DEFINE L == Len(s)
<1>1. /\ L \in Nat /\ L >= 2 /\ \A k \in 1..L : s[k].dur \in Nat /\ s[k].open \in BOOLEAN
      /\ s[1].dur > 0 /\ CycleNs(sched) = Begin(s, L + 1)
  <2>1. /\ L \in Nat /\ L >= 2 /\ \A k \in 1..L : s[k].dur \in Nat /\ s[k].open \in BOOLEAN
        /\ \A k \in 1..(L - 1) : s[k].dur > 0
        /\ CycleNs(sched) = Begin(s, L + 1)
    BY DEF BakedFor
  <2>2. 1 \in 1..(L - 1)
    BY <2>1
  <2> QED BY <2>1, <2>2
<1> HIDE DEF L
<1>2. /\ \A k \in 1..(L + 1) : Begin(s, k) \in Nat
      /\ \A i, k \in 1..(L + 1) : i <= k => Begin(s, i) <= Begin(s, k)
  <2>1. L \in Nat /\ \A k \in 1..L : s[k].dur \in Nat
    BY <1>1
  <2> QED BY ONLY <2>1, BeginOrder
<1>3. Begin(s, 1) = 0 /\ \A k \in 1..L : Begin(s, k + 1) = Begin(s, k) + s[k].dur
  <2>1. 1 \in Nat \ {0} /\ \A k \in 1..L : k \in Nat \ {0}
    BY <1>1
  <2> QED BY ONLY <2>1, BeginNext
<1>4. Begin(s, L + 1) > 0
  <2>1. 1 \in 1..L /\ 1 + 1 = 2 /\ 2 \in 1..(L + 1) /\ L + 1 \in 1..(L + 1) /\ 2 <= L + 1
    BY <1>1
  <2>2. Begin(s, 2) = Begin(s, 1) + s[1].dur
    BY <1>3, <2>1
  <2>3. Begin(s, 2) <= Begin(s, L + 1) /\ Begin(s, L + 1) \in Nat /\ s[1].dur \in Nat
    BY <1>1, <1>2, <2>1
  <2> QED BY <1>1, <1>3, <2>2, <2>3
<1>5. Begin(s, L + 1) \in Nat
  <2>1. L + 1 \in 1..(L + 1)
    BY <1>1
  <2> QED BY <1>2, <2>1
<1>6. CycleNs(sched) \in Nat \ {0}
  BY <1>1, <1>4, <1>5
<1> QED BY <1>1, <1>2, <1>3, <1>6 DEF L

\* The search of get_timestamps finds a slot that is not empty, which a time of the cycle
\* lies in or at the end of.
LEMMA SlotFound ==
  ASSUME NEW sched \in Schedule, NEW tc, NEW s, BakedFor(s, sched, tc),
         NEW r \in Nat, r < CycleNs(sched), NEW at, at = SlotAt(s, r)
  PROVE  /\ at \in 1..Len(s) /\ s[at].dur > 0
         /\ Begin(s, at) <= r /\ r <= Begin(s, at + 1)
<1> DEFINE L == Len(s)
           S == {k \in DOMAIN s : r <= Begin(s, k + 1)}
<1>1. /\ L \in Nat /\ L >= 2 /\ DOMAIN s = 1..L
      /\ \A k \in 1..(L - 1) : s[k].dur > 0
  BY DEF BakedFor
<1>2. /\ \A k \in 1..(L + 1) : Begin(s, k) \in Nat
      /\ Begin(s, 1) = 0
      /\ \A k \in 1..L : Begin(s, k + 1) = Begin(s, k) + s[k].dur /\ s[k].dur \in Nat
      /\ r < Begin(s, L + 1)
  BY Shape
<1>3. at = Min(S)
  BY DEF SlotAt
<1> HIDE DEF L
<1>4. S \in SUBSET (1..L) /\ S # {}
  <2>1. L \in 1..L /\ L + 1 \in 1..(L + 1)
    BY <1>1
  <2>2. r <= Begin(s, L + 1)
    BY <1>2, <2>1
  <2> QED BY <1>1, <2>1, <2>2
<1>5. at \in S /\ \A y \in S : at <= y
  <2> HIDE DEF S
  <2>1. Min(S) \in S /\ \A y \in S : Min(S) <= y
    BY ONLY <1>1, <1>4, LeastElement
  <2> QED BY <1>3, <2>1
<1>6. at \in 1..L /\ r <= Begin(s, at + 1)
  BY <1>4, <1>5
<1>7. at = 1 \/ Begin(s, at) < r
  <2> SUFFICES ASSUME at # 1 PROVE Begin(s, at) < r
    OBVIOUS
  <2>1. at - 1 \in 1..L /\ (at - 1) + 1 = at /\ at \in 1..(L + 1)
    BY <1>1, <1>6
  <2>2. ~(at <= at - 1)
    BY <2>1
  <2>3. at - 1 \notin S
    BY <1>5, <2>2
  <2>4. ~(r <= Begin(s, at))
    BY <1>1, <2>1, <2>3
  <2> QED BY <1>2, <2>1, <2>4
<1>8. Begin(s, at) <= r
  <2>1. at \in 1..(L + 1)
    BY <1>1, <1>6
  <2>2. Begin(s, at) \in Nat
    BY <1>2, <2>1
  <2> QED BY <1>2, <1>7, <2>2
<1>9. s[at].dur > 0
  <2>1. CASE at = L
    <3>1. at + 1 = L + 1 /\ at \in 1..(L + 1)
      BY <1>1, <2>1
    <3> QED BY <1>2, <1>6, <1>8, <2>1, <3>1
  <2>2. CASE at # L
    <3>1. at \in 1..(L - 1)
      BY <1>1, <1>6, <2>2
    <3> QED BY <1>1, <3>1
  <2> QED BY <2>1, <2>2
<1> QED BY <1>6, <1>8, <1>9 DEF L

\* Where slot k begins in cycle w.
Edge(s, start, w, k) == start + Begin(s, Len(s) + 1) * w + Begin(s, k)

\* The gate during a slot is the gate of the schedule at that time.
LEMMA OpenInSlot ==
  ASSUME NEW sched \in Schedule, NEW tc, NEW s, BakedFor(s, sched, tc),
         NEW start \in Int, NEW w \in Int, NEW k \in 1..Len(s), NEW t \in Int,
         Edge(s, start, w, k) <= t, t < Edge(s, start, w, k + 1)
  PROVE  /\ OpenAt(sched, start, tc, t) <=> s[k].open
         /\ (t - start) % CycleNs(sched) = t - Edge(s, start, w, 1)
<1> DEFINE L == Len(s)
           C == CycleNs(sched)
           p == C * w
           r == t - start - p
           n == Len(sched)
<1>1. /\ L \in Nat /\ C = Begin(s, L + 1) /\ C \in Nat \ {0} /\ p \in Int
      /\ \A i \in 1..(L + 1) : Begin(s, i) \in Nat
      /\ \A i, j \in 1..(L + 1) : i <= j => Begin(s, i) <= Begin(s, j)
      /\ Begin(s, 1) = 0
  BY Shape
<1>2. /\ Edge(s, start, w, k) = start + p + Begin(s, k)
      /\ Edge(s, start, w, k + 1) = start + p + Begin(s, k + 1)
      /\ Edge(s, start, w, 1) = start + p
  BY <1>1 DEF Edge
<1> HIDE DEF L, C, n
<1>3. k \in 1..(L + 1) /\ k + 1 \in 1..(L + 1) /\ L + 1 \in 1..(L + 1) /\ k + 1 <= L + 1
  BY <1>1 DEF L
<1>4. /\ Begin(s, k) \in Nat /\ Begin(s, k + 1) \in Nat /\ Begin(s, L + 1) \in Nat
      /\ Begin(s, k + 1) <= Begin(s, L + 1)
  BY <1>1, <1>3
<1> DEFINE q == start + p
<1>5. q \in Int /\ r = t - q /\ r \in Int
  <2>1. p \in Int /\ start \in Int /\ t \in Int
    BY <1>1
  <2> HIDE DEF p
  <2> QED BY ONLY <2>1 DEF r, q
<1> HIDE DEF p, q, r
<1>6. Begin(s, k) <= r /\ r < Begin(s, k + 1) /\ r \in Nat /\ r < C
  <2>1. PICK x \in Nat, y \in Nat : /\ x = Begin(s, k) /\ y = Begin(s, k + 1) /\ y <= C
                                    /\ C \in Nat
    BY ONLY <1>1, <1>4
  <2>2. q + x <= t /\ t < q + y
    BY <1>2, <2>1 DEF q
  <2>3. x <= r /\ r < y /\ r \in Nat /\ r < C
    BY ONLY <1>5, <2>1, <2>2, t \in Int
  <2> QED BY ONLY <2>1, <2>3
<1>7. (t - start) % C = r
  <2>0. t - start = p + r
    BY <1>1, <1>5 DEF q
  <2>1. t - start = C * w + r
    BY <2>0 DEF p
  <2>2. (C * w + r) % C = r
    <3>1. C \in Nat \ {0} /\ w \in Int /\ r \in Nat /\ r < C
      BY <1>1, <1>6
    <3> QED BY ONLY <3>1, ModUnique
  <2> QED BY <2>1, <2>2
<1>8. /\ n \in Nat /\ DOMAIN sched = 1..n /\ \A i \in 1..n : sched[i].dur \in Nat
      /\ C = Begin(sched, n + 1)
  BY ColumnGate DEF n, C, CycleNs
<1>9. PICK e \in 1..n : In(sched, e, r)
  BY <1>6, <1>8, SlotExists
<1>10. s[k].open = (tc \in sched[e].open)
  BY <1>6, <1>9 DEF BakedFor, In, L, n
<1>11. OpenAt(sched, start, tc, t) <=> \E i \in 1..n : In(sched, i, r) /\ tc \in sched[i].open
  BY <1>7, <1>8 DEF OpenAt, In, C
<1>12. \A i \in 1..n : In(sched, i, r) => i = e
  <2> SUFFICES ASSUME NEW i \in 1..n, In(sched, i, r) PROVE i = e
    OBVIOUS
  <2>1. r \in Int
    BY <1>6
  <2> QED BY <1>8, <1>9, <2>1, SlotUnique
<1>13. OpenAt(sched, start, tc, t) <=> tc \in sched[e].open
  BY <1>9, <1>11, <1>12
<1>14. r = t - Edge(s, start, w, 1)
  BY <1>2, <1>5 DEF q
<1>15. s[k].open <=> tc \in sched[e].open
  BY <1>10
<1> QED BY <1>7, <1>13, <1>14, <1>15 DEF C

\* A slot ends its duration after it begins.
LEMMA EdgeNext ==
  ASSUME NEW sched \in Schedule, NEW tc, NEW s, BakedFor(s, sched, tc),
         NEW start \in Int, NEW w \in Int, NEW k \in 1..Len(s)
  PROVE  /\ Edge(s, start, w, k) \in Int /\ Edge(s, start, w, k + 1) \in Int
         /\ Edge(s, start, w, k + 1) = Edge(s, start, w, k) + s[k].dur
         /\ s[k].dur \in Nat /\ s[k].open \in BOOLEAN
<1> DEFINE p == Begin(s, Len(s) + 1) * w
<1>1. k \in 1..(Len(s) + 1) /\ k + 1 \in 1..(Len(s) + 1) /\ Len(s) + 1 \in 1..(Len(s) + 1)
  BY Shape
<1>2. p \in Int
  <2> DEFINE c == Begin(s, Len(s) + 1)
  <2>1. c \in Nat
    BY <1>1, Shape
  <2> HIDE DEF c
  <2>2. c * w \in Int
    BY <2>1, SMT
  <2> QED BY <2>2 DEF c
<1>3. Begin(s, k) \in Nat
  BY <1>1, Shape
<1>4. /\ Begin(s, k + 1) = Begin(s, k) + s[k].dur /\ s[k].dur \in Nat /\ s[k].open \in BOOLEAN
  BY Shape
<1>5. /\ Edge(s, start, w, k) = start + p + Begin(s, k)
      /\ Edge(s, start, w, k + 1) = start + p + Begin(s, k + 1)
  BY DEF Edge
<1> HIDE DEF p
<1> DEFINE b == Begin(s, k)
           d == s[k].dur
<1>6. /\ b \in Nat /\ d \in Nat /\ Begin(s, k + 1) = b + d
  BY <1>3, <1>4
<1>7. /\ Edge(s, start, w, k) = start + p + b
      /\ Edge(s, start, w, k + 1) = start + p + (b + d)
  BY <1>5, <1>6
<1> HIDE DEF b, d
<1>8. /\ start + p + b \in Int /\ start + p + (b + d) \in Int
      /\ start + p + (b + d) = (start + p + b) + d
  BY <1>2, <1>6, SMT
<1> QED BY <1>4, <1>7, <1>8 DEF d

\* It is the next one, or the first one.
LEMMA FollowingSlot ==
  ASSUME NEW L \in Nat, L >= 2, NEW s, L = Len(s), NEW k \in 1..L
  PROVE  /\ k = L => Following(s, k) = 1
         /\ k # L => Following(s, k) = k + 1
         /\ Following(s, k) \in 1..L
<1>1. L % L = 0 /\ (k # L => k % L = k)
  OBVIOUS
<1> QED BY <1>1 DEF Following

\* It has the other gate.
LEMMA NextGate ==
  ASSUME NEW sched \in Schedule, NEW tc, NEW s, BakedFor(s, sched, tc), NEW k \in 1..Len(s)
  PROVE  /\ Following(s, k) \in 1..Len(s)
         /\ s[Following(s, k)].open <=> ~s[k].open
<1>1. PICK L : L = Len(s)
  OBVIOUS
<1>2. /\ L \in Nat /\ L >= 2 /\ \A i \in 1..L : s[i].open \in BOOLEAN
      /\ \A i \in 1..(L - 1) : s[i + 1].open # s[i].open
  BY <1>1 DEF BakedFor
<1>3. PICK f : f = Following(s, k)
  OBVIOUS
<1>4. k \in 1..L /\ f \in 1..L /\ (k = L => f = 1) /\ (k # L => f = k + 1)
  BY <1>1, <1>2, <1>3, FollowingSlot
<1>5. s[f].open # s[k].open
  <2>1. CASE k = L
    BY <1>1, <1>4, <2>1, EndsDiffer
  <2>2. CASE k # L
    <3>1. k \in 1..(L - 1)
      BY <1>2, <1>4, <2>2
    <3> QED BY <1>2, <1>4, <2>2, <3>1
  <2> QED BY <2>1, <2>2
<1>6. s[f].open \in BOOLEAN /\ s[k].open \in BOOLEAN
  BY <1>2, <1>4
<1> QED BY <1>1, <1>3, <1>4, <1>5, <1>6

\* The cycle it lies in, when slot k lies in cycle w.
CycleAfter(s, w, k) == IF k = Len(s) THEN w + 1 ELSE w

\* It begins where slot k ends, perhaps in the next cycle.
LEMMA NextEdge ==
  ASSUME NEW sched \in Schedule, NEW tc, NEW s, BakedFor(s, sched, tc),
         NEW start \in Int, NEW w \in Int, NEW k \in 1..Len(s)
  PROVE  /\ CycleAfter(s, w, k) \in Int
         /\ Edge(s, start, CycleAfter(s, w, k), Following(s, k)) = Edge(s, start, w, k + 1)
<1> DEFINE L == Len(s)
           C == Begin(s, L + 1)
<1>1. L \in Nat /\ L >= 2 /\ C \in Nat /\ Begin(s, 1) = 0
  BY Shape
<1> HIDE DEF L, C
<1>2. CASE k = L
  <2>1. Following(s, k) = 1
    BY <1>1, <1>2, FollowingSlot DEF L
  <2>2. Edge(s, start, w + 1, 1) = Edge(s, start, w, L + 1)
    <3>1. C * (w + 1) = C * w + C /\ C * w \in Int
      BY <1>1
    <3>2. Edge(s, start, w + 1, 1) = start + C * (w + 1) + Begin(s, 1)
      BY DEF Edge, C, L
    <3>3. Edge(s, start, w, L + 1) = start + C * w + C
      BY DEF Edge, C, L
    <3> QED BY <1>1, <3>1, <3>2, <3>3
  <2>3. CycleAfter(s, w, k) = w + 1 /\ w + 1 \in Int
    BY <1>2 DEF CycleAfter, L
  <2> QED BY <1>2, <2>1, <2>2, <2>3
<1>3. CASE k # L
  <2>1. Following(s, k) = k + 1
    BY <1>1, <1>3, FollowingSlot DEF L
  <2>2. CycleAfter(s, w, k) = w
    BY <1>3 DEF CycleAfter, L
  <2> QED BY <2>1, <2>2
<1> QED BY <1>2, <1>3

\* One slot only: the gate never moves.
LEMMA OneSlot ==
  ASSUME NEW sched \in Schedule, NEW tc, NEW s, BakedFor(s, sched, tc),
         Len(s) = 2, s[2].dur = 0
  PROVE  /\ s[1].open => AlwaysOpen(sched, tc)
         /\ ~s[1].open => AlwaysClosed(sched, tc)
<1> DEFINE n == Len(sched)
<1>1. /\ n \in Nat /\ DOMAIN sched = 1..n
      /\ \A i \in 1..n : sched[i].dur \in Nat /\ sched[i].dur > 0
      /\ CycleNs(sched) = Begin(sched, n + 1)
  BY ColumnGate DEF CycleNs
<1> HIDE DEF n
<1>2. /\ \A k \in 1..(n + 1) : Begin(sched, k) \in Nat
      /\ \A i, k \in 1..(n + 1) : i <= k => Begin(sched, i) <= Begin(sched, k)
  <2>1. n \in Nat /\ \A i \in 1..n : sched[i].dur \in Nat
    BY <1>1
  <2> QED BY ONLY <2>1, BeginOrder
<1>3. Begin(s, 1) = 0 /\ Begin(s, 2) = Begin(sched, n + 1)
  <2>1. 1 \in 1..2 /\ 2 \in 1..2 /\ 1 + 1 = 2 /\ 2 \in 1..(2 + 1)
    OBVIOUS
  <2>2. /\ Begin(s, 1) = 0 /\ Begin(s, 2 + 1) = Begin(s, 2) + s[2].dur
        /\ CycleNs(sched) = Begin(s, 2 + 1) /\ Begin(s, 2) \in Nat
    <3>1. PICK l : l = Len(s)
      OBVIOUS
    <3>2. /\ Begin(s, 1) = 0 /\ CycleNs(sched) = Begin(s, l + 1)
          /\ \A k \in 1..(l + 1) : Begin(s, k) \in Nat
          /\ \A k \in 1..l : Begin(s, k + 1) = Begin(s, k) + s[k].dur
      BY <3>1, Shape
    <3>3. l = 2
      BY <3>1
    <3> QED BY ONLY <2>1, <3>2, <3>3
  <2> QED BY <1>1, <2>2
<1>4. ASSUME NEW e \in 1..n PROVE s[1].open = (tc \in sched[e].open)
  <2> DEFINE r == Begin(sched, e)
  <2>1. e \in 1..(n + 1) /\ e + 1 \in 1..(n + 1) /\ n + 1 \in 1..(n + 1) /\ e + 1 <= n + 1
        /\ e \in Nat \ {0}
    BY <1>1
  <2>2. /\ r \in Nat /\ Begin(sched, e + 1) \in Nat /\ Begin(sched, n + 1) \in Nat
        /\ Begin(sched, e + 1) <= Begin(sched, n + 1)
    BY <1>2, <2>1
  <2>3. Begin(sched, e + 1) = r + sched[e].dur /\ sched[e].dur \in Nat /\ sched[e].dur > 0
    BY <1>1, <2>1, BeginNext
  <2> HIDE DEF r
  <2>4. r < Begin(sched, e + 1) /\ r < Begin(sched, n + 1)
    BY <2>2, <2>3
  <2>5. In(sched, e, r)
    BY <2>2, <2>4 DEF In, r
  <2>6. In(s, 1, r)
    <3>1. 1 + 1 = 2
      OBVIOUS
    <3> QED BY <1>3, <2>2, <2>4, <3>1 DEF In
  <2>7. 1 \in 1..Len(s)
    OBVIOUS
  <2> QED BY <2>2, <2>5, <2>6, <2>7 DEF BakedFor, n
<1> QED BY <1>1, <1>4 DEF AlwaysOpen, AlwaysClosed

----------------------------------------------------------------------------
(* get_timestamps.                                                         *)

\* What a frame that is ready at `from` may use of the time before t: nothing.
NothingBefore(sched, start, tc, sending, from, t) ==
  \A u \in from .. (t - 1) : ~(OpenDuring(sched, start, tc, u, sending)
                               /\ WithinCycle(sched, start, u, sending))

\* No frame starts while the gate is closed.
LEMMA NoneWhileClosed ==
  ASSUME NEW sched \in Schedule, NEW tc, NEW s, BakedFor(s, sched, tc),
         NEW start \in Int, NEW w \in Int, NEW k \in 1..Len(s), ~s[k].open,
         NEW sending \in Nat \ {0}, NEW t \in Int,
         Edge(s, start, w, k) <= t, t < Edge(s, start, w, k + 1)
  PROVE  ~OpenDuring(sched, start, tc, t, sending)
<1>1. ~OpenAt(sched, start, tc, t)
  BY OpenInSlot
<1>2. t \in t .. (t + sending - 1)
  OBVIOUS
<1> QED BY <1>1, <1>2 DEF OpenDuring

\* No frame starts in an opening with too little time left, either: it would meet the
\* closed gate, or the end of the cycle.
LEMMA NoneWhenLate ==
  ASSUME NEW sched \in Schedule, NEW tc, NEW s, BakedFor(s, sched, tc),
         NEW start \in Int, NEW w \in Int, NEW k \in 1..Len(s), s[k].open,
         NEW sending \in Nat \ {0}, NEW t \in Int,
         Edge(s, start, w, k) <= t, t < Edge(s, start, w, k + 1),
         Edge(s, start, w, k + 1) < t + sending
  PROVE  ~(OpenDuring(sched, start, tc, t, sending) /\ WithinCycle(sched, start, t, sending))
<1> DEFINE L == Len(s)
           x == Edge(s, start, w, k + 1)
           f == Following(s, k)
<1>1. f \in 1..L /\ ~s[f].open
  BY NextGate
<1>2. PICK v \in Int : Edge(s, start, v, f) = x
  <2>1. /\ CycleAfter(s, w, k) \in Int
        /\ Edge(s, start, CycleAfter(s, w, k), Following(s, k)) = Edge(s, start, w, k + 1)
    BY NextEdge
  <2> QED BY ONLY <2>1 DEF f, x
<1>3. /\ x \in Int /\ Edge(s, start, v, f + 1) = x + s[f].dur /\ s[f].dur \in Nat
  <2>1. Edge(s, start, w, k + 1) \in Int
    BY EdgeNext
  <2>2. f \in 1..Len(s)
    BY <1>1
  <2> HIDE DEF f
  <2>3. BakedFor(s, sched, tc) /\ sched \in Schedule /\ start \in Int /\ v \in Int
    OBVIOUS
  <2>4. Edge(s, start, v, f + 1) = Edge(s, start, v, f) + s[f].dur /\ s[f].dur \in Nat
    BY ONLY <2>2, <2>3, EdgeNext
  <2> QED BY ONLY <1>2, <2>1, <2>4 DEF x
<1>4. CASE s[f].dur > 0
  <2> HIDE DEF x, f
  <2>1. Edge(s, start, v, f) <= x /\ x < Edge(s, start, v, f + 1)
    BY ONLY <1>2, <1>3, <1>4
  <2>2. ~OpenAt(sched, start, tc, x)
    BY <1>1, <1>2, <1>3, <2>1, OpenInSlot DEF L
  <2>3. x \in t .. (t + sending - 1)
    BY <1>3 DEF x
  <2> QED BY <2>2, <2>3 DEF OpenDuring
<1>5. CASE s[f].dur = 0
  <2> DEFINE C == CycleNs(sched)
             e == Edge(s, start, w, 1)
  <2>1. L \in Nat /\ L >= 2 /\ \A i \in 1..(L - 1) : s[i].dur > 0
    BY DEF BakedFor
  <2>2. f = L
    <3> HIDE DEF f, L
    <3>1. f \notin 1..(L - 1)
      BY <1>5, <2>1
    <3> QED BY <1>1, <2>1, <3>1
  <2>3. k + 1 = L
    <3>1. k \in 1..L /\ f = (k % L) + 1
      BY DEF Following
    <3> HIDE DEF L, f
    <3>2. L % L = 0
      BY <2>1
    <3>3. k # L
      BY <2>1, <2>2, <3>1, <3>2
    <3>4. k % L = k
      BY <2>1, <3>1, <3>3
    <3> QED BY <2>2, <3>1, <3>4
  <2>4. Begin(s, L + 1) = Begin(s, L) + s[L].dur /\ Begin(s, L) \in Nat /\ Begin(s, 1) = 0
    <3>1. L \in 1..L /\ L \in 1..(L + 1)
      BY <2>1
    <3> QED BY <3>1, Shape
  <2>5. C = Begin(s, L) /\ C \in Nat
    <3>1. C = Begin(s, L + 1) /\ s[L].dur = 0
      BY <1>5, <2>2, Shape
    <3> QED BY <2>4, <3>1
  <2>6. x = e + C /\ e \in Int
    <3> DEFINE p == Begin(s, Len(s) + 1) * w
    <3>1. x = start + p + Begin(s, L) /\ e = start + p + 0
      BY <2>3, <2>4 DEF Edge
    <3>2. p \in Int
      BY Shape
    <3> HIDE DEF p, e, x
    <3> QED BY <2>5, <3>1, <3>2
  <2>7. (t - start) % C = t - e
    BY OpenInSlot
  <2>8. ~((t - e) + sending <= C)
    <3>1. x < t + sending
      OBVIOUS
    <3> HIDE DEF x, e, C
    <3> QED BY <2>5, <2>6, <3>1
  <2> QED BY <2>7, <2>8 DEF WithinCycle
<1>6. s[f].dur > 0 \/ s[f].dur = 0
  <2>1. PICK d \in Nat : d = s[f].dur
    BY ONLY <1>3
  <2> QED BY ONLY <2>1
<1> QED BY ONLY <1>4, <1>5, <1>6

\* A frame that is ready while the gate is closed can use nothing before it opens.
LEMMA NothingWhileClosed ==
  ASSUME NEW sched \in Schedule, NEW tc, NEW s, BakedFor(s, sched, tc),
         NEW start \in Int, NEW from \in Int, NEW sending \in Nat \ {0},
         NEW w \in Int, NEW at \in 1..Len(s), ~s[at].open, Edge(s, start, w, at) <= from
  PROVE  NothingBefore(sched, start, tc, sending, from, Edge(s, start, w, at + 1))
<1> SUFFICES ASSUME NEW u \in from .. (Edge(s, start, w, at + 1) - 1)
             PROVE  ~OpenDuring(sched, start, tc, u, sending)
  BY DEF NothingBefore
<1>1. Edge(s, start, w, at) \in Int /\ Edge(s, start, w, at + 1) \in Int
  BY EdgeNext
<1>2. u \in Int /\ Edge(s, start, w, at) <= u /\ u < Edge(s, start, w, at + 1)
  BY <1>1
<1> QED BY <1>2, NoneWhileClosed

\* A frame that is ready too late in an opening can use nothing before the next one.
LEMMA NothingWhenLate ==
  ASSUME NEW sched \in Schedule, NEW tc, NEW s, BakedFor(s, sched, tc),
         NEW start \in Int, NEW from \in Int, NEW sending \in Nat \ {0},
         NEW w \in Int, NEW at \in 1..Len(s), s[at].open, Edge(s, start, w, at) <= from,
         Edge(s, start, w, at + 1) < from + sending,
         NEW v \in Int, NEW f \in 1..Len(s), ~s[f].open,
         Edge(s, start, v, f) = Edge(s, start, w, at + 1)
  PROVE  NothingBefore(sched, start, tc, sending, from, Edge(s, start, v, f + 1))
<1> SUFFICES ASSUME NEW u \in from .. (Edge(s, start, v, f + 1) - 1)
             PROVE  ~(OpenDuring(sched, start, tc, u, sending) /\ WithinCycle(sched, start, u, sending))
  BY DEF NothingBefore
<1>1. Edge(s, start, w, at) \in Int /\ Edge(s, start, w, at + 1) \in Int
  BY EdgeNext
<1>2. Edge(s, start, v, f) \in Int /\ Edge(s, start, v, f + 1) \in Int
  BY EdgeNext
<1>3. u \in Int /\ from <= u /\ u < Edge(s, start, v, f + 1)
  BY <1>2
<1>4. CASE u < Edge(s, start, w, at + 1)
  <2>1. Edge(s, start, w, at) <= u /\ Edge(s, start, w, at + 1) < u + sending
    BY <1>1, <1>3
  <2> QED BY <1>3, <1>4, <2>1, NoneWhenLate
<1>5. CASE Edge(s, start, v, f) <= u
  BY <1>3, <1>5, NoneWhileClosed
<1> QED BY <1>1, <1>3, <1>4, <1>5

\* The slot a frame is given, when it is ready in slot `at`: by the slots it skips.
LEMMA WindowsCases ==
  ASSUME NEW s, NEW from, NEW left, NEW at, NEW sending, NEW delay, NEW ts,
         ts = WindowsFrom(s, at, left, from, sending, delay)
  PROVE  /\ s[at].open /\ ~(left < sending) =>
              ts = Windows(s, at, from + left - s[at].dur, from, sending, delay)
         /\ ~s[at].open =>
              ts = Windows(s, Following(s, at), from + left, from, sending, delay)
         /\ s[at].open /\ left < sending =>
              ts = Windows(s, Following(s, Following(s, at)),
                           from + left + s[Following(s, at)].dur, from, sending, delay)
<1>1. ASSUME s[at].open /\ ~(left < sending)
      PROVE  ts = Windows(s, at, from + left - s[at].dur, from, sending, delay)
  <2>1. Skipped(s[at].open, left, sending) = 0
    BY <1>1 DEF Skipped
  <2> QED BY <2>1 DEF WindowsFrom
<1>2. ASSUME ~s[at].open
      PROVE  ts = Windows(s, Following(s, at), from + left, from, sending, delay)
  <2>1. Skipped(s[at].open, left, sending) = 1 /\ 1 # 0
    BY <1>2 DEF Skipped
  <2> QED BY <2>1 DEF WindowsFrom
<1>3. ASSUME s[at].open /\ left < sending
      PROVE  ts = Windows(s, Following(s, Following(s, at)),
                          from + left + s[Following(s, at)].dur, from, sending, delay)
  <2>1. Skipped(s[at].open, left, sending) = 2 /\ 2 # 0 /\ 2 # 1
    BY <1>3 DEF Skipped
  <2> QED BY <2>1 DEF WindowsFrom
<1> QED BY <1>1, <1>2, <1>3

\* Intervals of lengths x and y, one after the other, within 0..c.
LEMMA TwoFit ==
  ASSUME NEW a \in Nat, NEW x \in Nat, NEW b \in Nat, NEW y \in Nat, NEW c \in Nat,
         a + x <= b, b + y <= c
  PROVE  x + y <= c
OBVIOUS

\* What begins no later than t and lasts x + y ends within c of t.
LEMMA EndsWithin ==
  ASSUME NEW a \in Int, NEW x \in Nat, NEW y \in Nat, NEW c \in Nat, NEW t \in Int,
         x + y <= c, a <= t
  PROVE  a + x + y <= t + c
OBVIOUS

\* A time within a cycle of c, with at most x to go in a slot of length x and y in the next.
LEMMA OpensWithin ==
  ASSUME NEW from \in Int, NEW left \in Nat, NEW x \in Nat, NEW y \in Nat, NEW c \in Nat,
         x + y <= c, left <= x
  PROVE  /\ from + left - x \in Int /\ from + left - x <= from + c
         /\ from + left \in Int /\ from + left <= from + c
         /\ from + left + y \in Int /\ from + left + y <= from + c
OBVIOUS

\* Two slots fit into the cycle.
LEMMA SlotPair ==
  ASSUME NEW sched \in Schedule, NEW tc, NEW s, BakedFor(s, sched, tc),
         NEW i \in 1..Len(s), NEW k \in 1..Len(s), i # k
  PROVE  s[i].dur + s[k].dur <= CycleNs(sched)
<1> DEFINE L == Len(s)
           C == CycleNs(sched)
<1>1. /\ L \in Nat /\ \A j \in 1..(L + 1) : Begin(s, j) \in Nat
      /\ \A j, h \in 1..(L + 1) : j <= h => Begin(s, j) <= Begin(s, h)
      /\ \A j \in 1..L : Begin(s, j + 1) = Begin(s, j) + s[j].dur /\ s[j].dur \in Nat
      /\ C = Begin(s, L + 1)
  BY Shape
<1> HIDE DEF L, C
<1>2. ASSUME NEW a \in 1..L, NEW b \in 1..L, a < b PROVE s[a].dur + s[b].dur <= C
  <2>1. /\ a \in 1..(L + 1) /\ a + 1 \in 1..(L + 1) /\ b \in 1..(L + 1) /\ b + 1 \in 1..(L + 1)
        /\ L + 1 \in 1..(L + 1) /\ a + 1 <= b /\ b + 1 <= L + 1
    BY ONLY <1>1, <1>2
  <2>2. PICK b0 \in Nat, b1 \in Nat, b2 \in Nat, b3 \in Nat, c \in Nat :
          /\ b0 = Begin(s, a) /\ b1 = Begin(s, a + 1) /\ b2 = Begin(s, b)
          /\ b3 = Begin(s, b + 1) /\ c = C
    BY ONLY <1>1, <2>1
  <2>3. PICK x \in Nat, y \in Nat : x = s[a].dur /\ y = s[b].dur
    BY ONLY <1>1, <1>2
  <2>4. b0 + x <= b2 /\ b2 + y <= c
    <3>1. b1 = b0 + x /\ b3 = b2 + y /\ b1 <= b2 /\ b3 <= c
      BY ONLY <1>1, <1>2, <2>1, <2>2, <2>3
    <3> QED BY ONLY <3>1
  <2>5. x + y <= c
    BY ONLY b0 \in Nat, x \in Nat, b2 \in Nat, y \in Nat, c \in Nat, <2>4, TwoFit
  <2> QED BY ONLY <2>2, <2>3, <2>5
<1>3. i \in 1..L /\ k \in 1..L /\ (i < k \/ k < i)
  BY <1>1 DEF L
<1>4. s[i].dur \in Nat /\ s[k].dur \in Nat
  BY ONLY <1>1, <1>3
<1>5. s[i].dur + s[k].dur = s[k].dur + s[i].dur
  BY ONLY <1>4
<1>6. CASE i < k
  BY ONLY <1>2, <1>3, <1>6 DEF C
<1>7. CASE k < i
  <2>1. s[k].dur + s[i].dur <= C
    BY ONLY <1>2, <1>3, <1>7
  <2> QED BY ONLY <1>5, <2>1 DEF C
<1> QED BY <1>3, <1>6, <1>7

\* The wait for the gate and for its next opening, of a frame ready at `from`.
WaitBounded(sched, from, delay, ts) ==
  /\ ts.from <= from + CycleNs(sched)
  /\ delay => ts.dfrom <= ts.from + CycleNs(sched)

\* ... when a slot that opens within a cycle is found.
LEMMA NextOpening ==
  ASSUME NEW sched \in Schedule, NEW tc, NEW s, BakedFor(s, sched, tc),
         NEW slot \in 1..Len(s), NEW opens \in Int, NEW from \in Int,
         opens <= from + CycleNs(sched), NEW sending, NEW delay, NEW ts,
         ts = Windows(s, slot, opens, from, sending, delay)
  PROVE  WaitBounded(sched, from, delay, ts)
<1>1. PICK f, C : f = Following(s, slot) /\ C = CycleNs(sched)
  OBVIOUS
<1>2. f \in 1..Len(s) /\ f # slot
  BY <1>1, NextGate
<1>3. C \in Nat /\ s[slot].dur \in Nat /\ s[f].dur \in Nat
  BY <1>1, <1>2, Shape
<1>4. s[slot].dur + s[f].dur <= C
  BY <1>1, <1>2, SlotPair
<1>5. ts.from = Max({opens, from})
  BY DEF Windows
<1>6. ts.from \in {opens, from} /\ opens <= ts.from
  <2>1. Max({opens, from}) \in {opens, from} /\ Max({opens, from}) >= opens
    BY ONLY opens \in Int, from \in Int, MaxOfTwo
  <2>2. PICK m : m = Max({opens, from})
    OBVIOUS
  <2>3. m \in {opens, from} /\ m >= opens
    BY ONLY <2>1, <2>2
  <2>4. opens <= m
    BY ONLY <2>3, opens \in Int, from \in Int
  <2> QED BY ONLY <1>5, <2>2, <2>3, <2>4
<1>7. delay => ts.dfrom = opens + s[slot].dur + s[f].dur
  BY <1>1 DEF Windows
<1>8. PICK x \in Nat, y \in Nat, c \in Nat, t \in Int :
        x = s[slot].dur /\ y = s[f].dur /\ c = C /\ t = ts.from
  BY ONLY <1>3, <1>6, opens \in Int, from \in Int
<1>9. t <= from + c
  <2>1. t \in {opens, from} /\ opens <= from + c
    BY <1>1, <1>6, <1>8
  <2> QED BY ONLY <1>8, <2>1, from \in Int
<1>10. opens + x + y <= t + c
  <2>1. x + y <= c /\ opens <= t
    BY ONLY <1>4, <1>6, <1>8
  <2>2. x \in Nat /\ y \in Nat /\ c \in Nat /\ t \in Int
    OBVIOUS
  <2> QED BY ONLY <2>1, <2>2, opens \in Int, EndsWithin
<1>11. delay => ts.dfrom <= ts.from + C
  BY ONLY <1>7, <1>8, <1>10
<1> QED BY <1>1, <1>8, <1>9, <1>11 DEF WaitBounded

\* ... and the search finds one.
LEMMA SearchWait ==
  ASSUME NEW sched \in Schedule, NEW tc, NEW s, BakedFor(s, sched, tc),
         NEW at \in 1..Len(s), NEW from \in Int, NEW left \in Nat, left <= s[at].dur,
         NEW sending \in Nat, NEW delay, NEW ts,
         ts = WindowsFrom(s, at, left, from, sending, delay)
  PROVE  WaitBounded(sched, from, delay, ts)
<1>1. PICK f, g, C : f = Following(s, at) /\ g = Following(s, f) /\ C = CycleNs(sched)
  OBVIOUS
<1>2. f \in 1..Len(s) /\ f # at
  BY <1>1, NextGate
<1>3. g \in 1..Len(s)
  BY <1>1, <1>2, NextGate
<1>4. C \in Nat /\ s[at].dur \in Nat /\ s[f].dur \in Nat /\ s[at].open \in BOOLEAN
  BY <1>1, <1>2, Shape
<1>5. s[at].dur + s[f].dur <= C
  BY <1>1, <1>2, SlotPair
<1>6. PICK x \in Nat, y \in Nat, c \in Nat : x = s[at].dur /\ y = s[f].dur /\ c = C
  BY ONLY <1>4
<1>7. x + y <= c /\ left <= x
  BY ONLY <1>5, <1>6, left <= s[at].dur
<1>8. /\ from + left - x \in Int /\ from + left - x <= from + c
      /\ from + left \in Int /\ from + left <= from + c
      /\ from + left + y \in Int /\ from + left + y <= from + c
  <2>1. x \in Nat /\ y \in Nat /\ c \in Nat /\ from \in Int /\ left \in Nat
    OBVIOUS
  <2> QED BY ONLY <1>7, <2>1, OpensWithin
<1>9. CASE s[at].open /\ ~(left < sending)
  <2>1. ts = Windows(s, at, from + left - x, from, sending, delay)
    BY <1>6, <1>9, WindowsCases
  <2> QED BY <1>1, <1>6, <1>8, <2>1, NextOpening
<1>10. CASE ~s[at].open
  <2>1. ts = Windows(s, f, from + left, from, sending, delay)
    BY <1>1, <1>10, WindowsCases
  <2> QED BY <1>1, <1>2, <1>6, <1>8, <2>1, NextOpening
<1>11. CASE s[at].open /\ left < sending
  <2>1. ts = Windows(s, g, from + left + y, from, sending, delay)
    BY <1>1, <1>6, <1>11, WindowsCases
  <2> QED BY <1>1, <1>3, <1>6, <1>8, <2>1, NextOpening
<1> QED BY <1>4, <1>9, <1>10, <1>11

\* What is left of a slot of length d from x to y, and from when.
LEMMA RestOfSlot ==
  ASSUME NEW x \in Int, NEW d \in Nat, NEW from \in Int, NEW y \in Int, y = x + d
  PROVE  y - from \in Int /\ from + (y - from) = y /\ from + (y - from) - d = x
OBVIOUS

\* A frame started from a to b, b being its length before the end of the opening.
LEMMA StartedIn ==
  ASSUME NEW a \in Int, NEW b \in Int, NEW t \in a .. b, NEW opens \in Int, NEW closes \in Int,
         NEW sending \in Nat, opens <= a, b = closes - sending
  PROVE  t \in Int /\ opens <= t /\ t + sending <= closes
OBVIOUS

\* The slot it finds: the gate is open during it, and nothing before it is of use.
LEMMA Chosen ==
  ASSUME NEW sched \in Schedule, NEW tc, NEW s, BakedFor(s, sched, tc),
         NEW start \in Int, NEW from \in Int, NEW sending \in Nat \ {0}, NEW delay, NEW ts,
         NEW w \in Int, NEW at \in 1..Len(s),
         Edge(s, start, w, at) <= from, from <= Edge(s, start, w, at + 1),
         NEW left, left = Edge(s, start, w, at + 1) - from,
         ts = WindowsFrom(s, at, left, from, sending, delay)
  PROVE  \E slot \in 1..Len(s), v \in Int :
           /\ s[slot].open
           /\ NothingBefore(sched, start, tc, sending, from, Edge(s, start, v, slot))
           /\ from <= Edge(s, start, v, slot) \/ from + sending <= Edge(s, start, v, slot + 1)
           /\ ts = Windows(s, slot, Edge(s, start, v, slot), from, sending, delay)
<1>1. PICK now0, now1 : now0 = Edge(s, start, w, at) /\ now1 = Edge(s, start, w, at + 1)
  OBVIOUS
<1>2. /\ now0 \in Int /\ now1 \in Int /\ now1 = now0 + s[at].dur
      /\ s[at].dur \in Nat /\ s[at].open \in BOOLEAN
  <2>1. /\ Edge(s, start, w, at) \in Int /\ Edge(s, start, w, at + 1) \in Int
        /\ Edge(s, start, w, at + 1) = Edge(s, start, w, at) + s[at].dur
        /\ s[at].dur \in Nat /\ s[at].open \in BOOLEAN
    BY EdgeNext
  <2> QED BY <1>1, <2>1
<1>3. now0 <= from /\ from <= now1 /\ left = now1 - from
  BY <1>1
<1>4. left \in Int /\ from + left = now1 /\ from + left - s[at].dur = now0
  <2>1. PICK x \in Int, y \in Int, d \in Nat : now0 = x /\ now1 = y /\ s[at].dur = d /\ y = x + d
    BY ONLY <1>2
  <2>2. y - from \in Int /\ from + (y - from) = y /\ from + (y - from) - d = x
    BY ONLY <2>1, from \in Int, RestOfSlot
  <2> QED BY ONLY <1>3, <2>1, <2>2
<1>5. PICK f : f = Following(s, at)
  OBVIOUS
<1>6. f \in 1..Len(s) /\ (s[f].open <=> ~s[at].open)
  BY <1>5, NextGate
<1>7. PICK v1 \in Int : Edge(s, start, v1, f) = now1
  <2>0. BakedFor(s, sched, tc) /\ sched \in Schedule /\ start \in Int /\ w \in Int /\ at \in 1..Len(s)
    OBVIOUS
  <2>1. /\ CycleAfter(s, w, at) \in Int
        /\ Edge(s, start, CycleAfter(s, w, at), Following(s, at)) = Edge(s, start, w, at + 1)
    BY ONLY <2>0, NextEdge
  <2> QED BY ONLY <1>1, <1>5, <2>1
<1>8. CASE s[at].open /\ ~(left < sending)
  <2>1. ts = Windows(s, at, from + left - s[at].dur, from, sending, delay)
    BY <1>8, WindowsCases
  <2>2. ts = Windows(s, at, now0, from, sending, delay)
    BY <1>4, <2>1
  <2>3. from .. (now0 - 1) = {}
    BY <1>2, <1>3
  <2>4. NothingBefore(sched, start, tc, sending, from, now0)
    BY <2>3 DEF NothingBefore
  <2>5. from + sending <= now1
    BY <1>2, <1>3, <1>4, <1>8
  <2> QED BY <1>1, <1>8, <2>2, <2>4, <2>5
<1>9. CASE ~s[at].open
  <2>1. ts = Windows(s, Following(s, at), from + left, from, sending, delay)
    BY <1>9, WindowsCases
  <2>2. ts = Windows(s, f, now1, from, sending, delay)
    BY <1>4, <1>5, <2>1
  <2>3. NothingBefore(sched, start, tc, sending, from, Edge(s, start, w, at + 1))
    BY <1>9, NothingWhileClosed
  <2> QED BY <1>1, <1>3, <1>6, <1>7, <1>9, <2>2, <2>3
<1>10. CASE s[at].open /\ left < sending
  <2>1. PICK g, x : g = Following(s, f) /\ x = Edge(s, start, v1, f + 1)
    OBVIOUS
  <2>2. x = now1 + s[f].dur
    BY <1>6, <1>7, <2>1, EdgeNext
  <2>3. g \in 1..Len(s) /\ (s[g].open <=> ~s[f].open)
    BY <1>6, <2>1, NextGate
  <2>4. PICK v2 \in Int : Edge(s, start, v2, g) = x
    <3>1. BakedFor(s, sched, tc) /\ sched \in Schedule /\ start \in Int /\ v1 \in Int /\ f \in 1..Len(s)
      BY <1>6, <1>7
    <3>2. /\ CycleAfter(s, v1, f) \in Int
          /\ Edge(s, start, CycleAfter(s, v1, f), Following(s, f)) = Edge(s, start, v1, f + 1)
      BY ONLY <3>1, NextEdge
    <3> QED BY ONLY <2>1, <3>2
  <2>5. ts = Windows(s, Following(s, Following(s, at)),
                   from + left + s[Following(s, at)].dur, from, sending, delay)
    BY <1>10, WindowsCases
  <2>6. ts = Windows(s, g, x, from, sending, delay)
    BY <1>4, <1>5, <2>1, <2>2, <2>5
  <2>7. Edge(s, start, w, at + 1) < from + sending
    BY <1>1, <1>2, <1>3, <1>10
  <2>8. NothingBefore(sched, start, tc, sending, from, Edge(s, start, v1, f + 1))
    BY <1>1, <1>6, <1>7, <1>10, <2>7, NothingWhenLate
  <2>9. from <= x
    <3>1. PICK d : d = s[f].dur
      OBVIOUS
    <3>2. d \in Nat
      BY <1>6, <3>1, EdgeNext
    <3>3. x = now1 + d /\ now1 \in Int /\ from <= now1 /\ from \in Int
      BY <1>2, <1>3, <2>2, <3>1
    <3> QED BY ONLY <3>2, <3>3
  <2> QED BY <1>6, <1>10, <2>1, <2>3, <2>4, <2>6, <2>8, <2>9
<1> QED BY <1>2, <1>8, <1>9, <1>10

\* Time `from`, rem after the start of its cycle, lies in slot `at` of cycle w.
LiesIn(s, start, from, rem, at, w) ==
  /\ Edge(s, start, w, at) <= from /\ from <= Edge(s, start, w, at + 1)
  /\ Begin(s, at + 1) - rem = Edge(s, start, w, at + 1) - from

\* The frame is ready in the slot that the search finds.
LEMMA ReadyIn ==
  ASSUME NEW sched \in Schedule, NEW tc, NEW s, BakedFor(s, sched, tc),
         NEW start \in Int, NEW from \in Int,
         NEW rem, rem = (from - start) % CycleNs(sched), NEW at, at = SlotAt(s, rem)
  PROVE  /\ at \in 1..Len(s)
         /\ \E w \in Int : LiesIn(s, start, from, rem, at, w)
<1>1. PICK C : C = CycleNs(sched)
  OBVIOUS
<1>2. C \in Nat \ {0} /\ C = Begin(s, Len(s) + 1)
  BY <1>1, Shape
<1>3. PICK d : d = from - start
  OBVIOUS
<1>4. /\ d \in Int /\ d \div C \in Int /\ d % C \in Int
      /\ 0 <= d % C /\ d % C < C /\ d = C * (d \div C) + (d % C)
  <2>1. C \in Nat \ {0} /\ d \in Int
    BY <1>2, <1>3
  <2> QED BY ONLY <2>1, ModSplit
<1>5. PICK w, p : w = d \div C /\ p = C * w
  OBVIOUS
<1>6. rem = d % C
  BY <1>1, <1>3
<1>7. w \in Int /\ p \in Int /\ d = p + rem /\ rem \in Nat /\ rem < C
  <2>1. w \in Int
    BY ONLY <1>4, <1>5
  <2>2. p \in Int
    BY ONLY <1>2, <1>5, <2>1
  <2>3. d = p + rem
    BY ONLY <1>4, <1>5, <1>6
  <2>4. rem \in Nat /\ rem < C
    <3>1. rem \in Int /\ 0 <= rem /\ rem < C
      BY ONLY <1>4, <1>6
    <3> QED BY ONLY <3>1
  <2> QED BY ONLY <2>1, <2>2, <2>3, <2>4
<1>8. from = start + p + rem
  BY <1>3, <1>7
<1>9. at \in 1..Len(s) /\ Begin(s, at) <= rem /\ rem <= Begin(s, at + 1)
  BY <1>1, <1>7, SlotFound
<1>10. PICK b0, b1 : b0 = Begin(s, at) /\ b1 = Begin(s, at + 1)
  OBVIOUS
<1>11. b0 \in Nat /\ b1 \in Nat
  <2>1. Len(s) \in Nat /\ at \in 1..(Len(s) + 1) /\ at + 1 \in 1..(Len(s) + 1)
    BY <1>9, Shape
  <2> QED BY <1>10, <2>1, Shape
<1>12. Edge(s, start, w, at) = start + p + b0 /\ Edge(s, start, w, at + 1) = start + p + b1
  BY <1>2, <1>5, <1>10 DEF Edge
<1>13. b0 <= rem /\ rem <= b1
  BY <1>9, <1>10
<1>14. start \in Int /\ from \in Int
  OBVIOUS
<1>15. start + p + b0 <= from /\ from <= start + p + b1 /\ b1 - rem = (start + p + b1) - from
  BY ONLY <1>7, <1>8, <1>11, <1>13, <1>14
<1> QED BY <1>7, <1>9, <1>10, <1>12, <1>15 DEF LiesIn

\* get_timestamps gives it those windows, unless the gate never moves.
LEMMA Computes ==
  ASSUME NEW sched, NEW tc \in TCs, NEW start \in Int, NEW from \in Int,
         start <= from, from - start < Word, NEW sending, NEW delay,
         NEW s, s = BakePrio(sched, tc), ~(Len(s) = 2 /\ s[2].dur = 0),
         NEW ts, ts = GetTimestamps(Baked(sched, TCs), start, from, tc, sending, delay),
         NEW rem, rem = (from - start) % CycleNs(sched), NEW at, at = SlotAt(s, rem)
  PROVE  ts = WindowsFrom(s, at, Begin(s, at + 1) - rem, from, sending, delay)
<1>1. ((from - start) % Word) % CycleNs(sched) = rem
  <2>1. (from - start) % Word = from - start
    BY WordAssumption
  <2> QED BY <2>1
<1>2. PICK b : b = Baked(sched, TCs)
  OBVIOUS
<1>3. b.cycle = CycleNs(sched) /\ b.prios[tc] = s
  BY <1>2 DEF Baked
<1>4. ts = GetTimestamps(b, start, from, tc, sending, delay)
  BY <1>2
<1> QED BY <1>1, <1>3, <1>4 DEF GetTimestamps

\* A frame that is sent within an open slot meets no closed gate.
LEMMA OpenWithin ==
  ASSUME NEW sched \in Schedule, NEW tc, NEW s, BakedFor(s, sched, tc),
         NEW start \in Int, NEW w \in Int, NEW k \in 1..Len(s), s[k].open,
         NEW sending \in Nat \ {0}, NEW t \in Int,
         Edge(s, start, w, k) <= t, t + sending <= Edge(s, start, w, k + 1)
  PROVE  OpenDuring(sched, start, tc, t, sending)
<1> SUFFICES ASSUME NEW u \in t .. (t + sending - 1) PROVE OpenAt(sched, start, tc, u)
  BY DEF OpenDuring
<1>1. Edge(s, start, w, k) \in Int /\ Edge(s, start, w, k + 1) \in Int
  BY EdgeNext
<1>2. u \in Int /\ Edge(s, start, w, k) <= u /\ u < Edge(s, start, w, k + 1)
  BY <1>1
<1> QED BY <1>2, OpenInSlot

\* An open slot may only be empty when the cycle begins and ends with a closed gate.
LEMMA OpenHolds ==
  ASSUME NEW sched \in Schedule, NEW tc, NEW s, BakedFor(s, sched, tc),
         NEW k \in 1..Len(s), s[k].open, ~ClosedAtBothEnds(sched, tc)
  PROVE  s[k].dur > 0
<1>1. PICK L : L = Len(s)
  OBVIOUS
<1>2. /\ L \in Nat /\ L >= 2 /\ k \in 1..L
      /\ \A i \in 1..(L - 1) : s[i].dur > 0 /\ s[i + 1].open # s[i].open
      /\ \A i \in 1..L : s[i].open \in BOOLEAN /\ s[i].dur \in Nat
      /\ s[1].open = (tc \in sched[1].open)
      /\ s[L].dur = 0 => s[L - 1].open = (tc \in Last(sched).open)
  BY <1>1 DEF BakedFor
<1>3. CASE k # L
  <2>1. k \in 1..(L - 1)
    BY <1>2, <1>3
  <2> QED BY <1>2, <2>1
<1>4. CASE k = L
  <2> SUFFICES ASSUME s[L].dur = 0 PROVE FALSE
    BY <1>2, <1>4
  <2>1. L - 1 \in 1..(L - 1) /\ L - 1 \in 1..L /\ (L - 1) + 1 = L /\ L \in 1..L /\ 1 \in 1..L
    BY <1>2
  <2>2. s[L].open # s[L - 1].open /\ s[L].open # s[1].open
    <3>1. s[L].open # s[1].open
      BY <1>1, EndsDiffer
    <3> QED BY <1>2, <2>1, <3>1
  <2>3. s[L - 1].open \in BOOLEAN /\ s[1].open \in BOOLEAN /\ s[L].open = TRUE
    BY <1>2, <1>4, <2>1
  <2>4. s[L - 1].open = FALSE /\ s[1].open = FALSE
    BY <2>2, <2>3
  <2>5. tc \notin sched[1].open /\ tc \notin Last(sched).open
    BY <1>2, <2>4
  <2> QED BY <2>5 DEF ClosedAtBothEnds
<1> QED BY <1>3, <1>4

\* Where an open slot ends, the gate closes or the schedule starts over.
LEMMA OpeningEnds ==
  ASSUME NEW sched \in Schedule, NEW tc, NEW s, BakedFor(s, sched, tc),
         NEW start \in Int, NEW w \in Int, NEW k \in 1..Len(s), s[k].open,
         NEW t, t = Edge(s, start, w, k + 1)
  PROVE  ClosesAt(sched, start, tc, t)
<1>1. PICK f, v : f = Following(s, k) /\ v = CycleAfter(s, w, k)
  OBVIOUS
<1>2. v \in Int /\ Edge(s, start, v, f) = t
  <2>1. /\ CycleAfter(s, w, k) \in Int
        /\ Edge(s, start, CycleAfter(s, w, k), Following(s, k)) = Edge(s, start, w, k + 1)
    BY NextEdge
  <2> QED BY ONLY <1>1, <2>1, t = Edge(s, start, w, k + 1)
<1>3. f \in 1..Len(s) /\ ~s[f].open
  BY <1>1, NextGate
<1>4. /\ t \in Int /\ Edge(s, start, v, f + 1) \in Int
      /\ Edge(s, start, v, f + 1) = t + s[f].dur /\ s[f].dur \in Nat
  BY <1>2, <1>3, EdgeNext
<1>5. CASE s[f].dur > 0
  <2>1. Edge(s, start, v, f) <= t /\ t < Edge(s, start, v, f + 1)
    <3>1. PICK d \in Nat : d = s[f].dur /\ d > 0
      BY <1>4, <1>5
    <3> QED BY ONLY <1>2, <1>4, <3>1
  <2>2. OpenAt(sched, start, tc, t) <=> s[f].open
    BY <1>2, <1>3, <1>4, <2>1, OpenInSlot
  <2> QED BY <1>3, <2>2 DEF ClosesAt
<1>6. CASE s[f].dur = 0
  <2>1. PICK L : L = Len(s)
    OBVIOUS
  <2>2. L \in Nat /\ L >= 2 /\ \A i \in 1..(L - 1) : s[i].dur > 0
    BY <2>1 DEF BakedFor
  <2>3. f = L /\ 1 \in 1..(L - 1) /\ 1 \in 1..L
    BY <1>3, <1>6, <2>1, <2>2
  <2>4. Following(s, f) = 1
    BY <2>1, <2>2, <2>3, FollowingSlot
  <2>5. PICK u \in Int : Edge(s, start, u, 1) = t
    <3>1. /\ CycleAfter(s, v, f) \in Int
          /\ Edge(s, start, CycleAfter(s, v, f), Following(s, f)) = Edge(s, start, v, f + 1)
      BY <1>2, <1>3, NextEdge
    <3>2. Edge(s, start, v, f + 1) = t
      BY <1>4, <1>6
    <3> QED BY <2>4, <3>1, <3>2
  <2>6. /\ Edge(s, start, u, 1 + 1) \in Int /\ Edge(s, start, u, 1 + 1) = t + s[1].dur
        /\ s[1].dur \in Nat
    BY <2>1, <2>3, <2>5, EdgeNext
  <2>7. Edge(s, start, u, 1) <= t /\ t < Edge(s, start, u, 1 + 1)
    <3>1. PICK d \in Nat : d = s[1].dur /\ d > 0
      BY <2>2, <2>3, <2>6
    <3> QED BY ONLY <1>4, <2>5, <2>6, <3>1
  <2>8. (t - start) % CycleNs(sched) = t - Edge(s, start, u, 1)
    BY <1>4, <2>1, <2>3, <2>7, OpenInSlot
  <2>9. (t - start) % CycleNs(sched) = 0
    BY ONLY <1>4, <2>5, <2>8
  <2> QED BY <2>9 DEF ClosesAt
<1> QED BY <1>4, <1>5, <1>6

\* What the properties ask of the windows of a frame.
WindowsRight(sched, start, tc, from, sending, delay, ts) ==
  /\ ts.from \in Int /\ ts.to \in Int /\ ts.from >= from
  /\ NothingBefore(sched, start, tc, sending, from, ts.from)
  /\ ~AlwaysOpen(sched, tc) =>
       \A t \in ts.from .. ts.to : OpenDuring(sched, start, tc, t, sending)
  /\ delay /\ ~AlwaysOpen(sched, tc) =>
       \A t \in ts.dfrom .. ts.dto : OpenDuring(sched, start, tc, t, sending)
  /\ ~ClosedAtBothEnds(sched, tc) /\ Fits(BakePrio(sched, tc), sending) =>
       \/ AlwaysOpen(sched, tc) /\ ts.to = ts.from - 1
       \/ /\ ts.from <= ts.to
          /\ \A t \in ts.from .. ts.to : OpenDuring(sched, start, tc, t, sending)
          /\ ClosesAt(sched, start, tc, ts.to + sending)
  /\ delay /\ ~AlwaysOpen(sched, tc) /\ ~ClosedAtBothEnds(sched, tc)
           /\ Fits(BakePrio(sched, tc), sending) =>
       /\ ts.to + sending <= ts.dfrom
       /\ ts.dfrom <= ts.dto
       /\ ClosesAt(sched, start, tc, ts.dto + sending)

\* A slot and its successors give such windows.
LEMMA SlotWindows ==
  ASSUME NEW sched \in Schedule, NEW tc, NEW s, BakedFor(s, sched, tc), s = BakePrio(sched, tc),
         NEW start \in Int, NEW from \in Int, NEW sending \in Nat \ {0}, NEW delay \in BOOLEAN,
         NEW slot \in 1..Len(s), NEW v \in Int, s[slot].open,
         NothingBefore(sched, start, tc, sending, from, Edge(s, start, v, slot)),
         from <= Edge(s, start, v, slot) \/ from + sending <= Edge(s, start, v, slot + 1),
         NEW ts, ts = Windows(s, slot, Edge(s, start, v, slot), from, sending, delay)
  PROVE  WindowsRight(sched, start, tc, from, sending, delay, ts)
<1>1. PICK opens, closes : opens = Edge(s, start, v, slot) /\ closes = Edge(s, start, v, slot + 1)
  OBVIOUS
<1>2. opens \in Int /\ closes \in Int /\ closes = opens + s[slot].dur /\ s[slot].dur \in Nat
  <2>1. /\ Edge(s, start, v, slot) \in Int /\ Edge(s, start, v, slot + 1) \in Int
        /\ Edge(s, start, v, slot + 1) = Edge(s, start, v, slot) + s[slot].dur
        /\ s[slot].dur \in Nat
    BY EdgeNext
  <2> QED BY <1>1, <2>1
<1>3. PICK f, g : f = Following(s, slot) /\ g = Following(s, f)
  OBVIOUS
<1>4. /\ ts.from = Max({opens, from}) /\ ts.to = closes - sending
      /\ delay => /\ ts.dfrom = closes + s[f].dur
                  /\ ts.dto = (closes + s[f].dur + s[g].dur) - sending
  <2>1. ts = Windows(s, slot, opens, from, sending, delay)
    BY <1>1
  <2>2. ts.from = Max({opens, from})
    BY <2>1 DEF Windows
  <2>3. ts.to = (opens + s[slot].dur) - sending
    BY <2>1 DEF Windows
  <2>4. delay => ts.dfrom = opens + s[slot].dur + s[f].dur
    BY <1>3, <2>1 DEF Windows
  <2>5. delay => ts.dto = (opens + s[slot].dur + s[f].dur + s[g].dur) - sending
    BY <1>3, <2>1 DEF Windows
  <2> QED BY ONLY <1>2, <2>2, <2>3, <2>4, <2>5
<1>5. ts.from \in {opens, from} /\ ts.from >= opens /\ ts.from >= from
  <2>1. opens \in Int /\ from \in Int
    BY <1>2
  <2>2. Max({opens, from}) \in {opens, from} /\ Max({opens, from}) >= opens /\ Max({opens, from}) >= from
    BY ONLY <2>1, MaxOfTwo
  <2> QED BY <1>4, <2>2
<1>6. NothingBefore(sched, start, tc, sending, from, ts.from)
  <2>1. CASE ts.from = opens
    BY <1>1, <2>1
  <2>2. CASE ts.from = from
    <3>1. from .. (ts.from - 1) = {}
      BY <2>2
    <3> QED BY <3>1 DEF NothingBefore
  <2> QED BY <1>5, <2>1, <2>2
<1>7. ASSUME NEW t \in ts.from .. ts.to PROVE OpenDuring(sched, start, tc, t, sending)
  <2>1. /\ ts.from \in Int /\ ts.to \in Int /\ opens <= ts.from /\ ts.to = closes - sending
        /\ opens \in Int /\ closes \in Int /\ sending \in Nat
    BY <1>2, <1>4, <1>5
  <2>2. t \in Int /\ opens <= t /\ t + sending <= closes
    BY ONLY <1>7, <2>1, StartedIn
  <2>3. Edge(s, start, v, slot) <= t /\ t + sending <= Edge(s, start, v, slot + 1)
    BY ONLY <1>1, <2>2
  <2> QED BY <2>2, <2>3, OpenWithin
<1>8. ASSUME delay
      PROVE  /\ \A t \in ts.dfrom .. ts.dto : OpenDuring(sched, start, tc, t, sending)
             /\ ClosesAt(sched, start, tc, ts.dto + sending)
             /\ ts.to + sending <= ts.dfrom
             /\ ~ClosedAtBothEnds(sched, tc) /\ Fits(s, sending) => ts.dfrom <= ts.dto
  <2>1. f \in 1..Len(s) /\ ~s[f].open
    BY <1>3, NextGate
  <2>2. g \in 1..Len(s) /\ s[g].open
    BY <1>3, <2>1, NextGate
  <2>3. PICK v1 \in Int : Edge(s, start, v1, f) = closes
    <3>1. /\ CycleAfter(s, v, slot) \in Int
          /\ Edge(s, start, CycleAfter(s, v, slot), Following(s, slot))
               = Edge(s, start, v, slot + 1)
      BY NextEdge
    <3> QED BY ONLY <1>1, <1>3, <3>1
  <2>4. PICK reopens : reopens = Edge(s, start, v1, f + 1)
    OBVIOUS
  <2>5. reopens \in Int /\ reopens = closes + s[f].dur /\ s[f].dur \in Nat
    BY <2>1, <2>3, <2>4, EdgeNext
  <2>6. PICK v2 \in Int : Edge(s, start, v2, g) = reopens
    <3>1. BakedFor(s, sched, tc) /\ sched \in Schedule /\ start \in Int /\ v1 \in Int /\ f \in 1..Len(s)
      BY <2>1, <2>3
    <3>2. /\ CycleAfter(s, v1, f) \in Int
          /\ Edge(s, start, CycleAfter(s, v1, f), Following(s, f)) = Edge(s, start, v1, f + 1)
      BY ONLY <3>1, NextEdge
    <3> QED BY ONLY <1>3, <2>4, <3>2
  <2>7. PICK recloses : recloses = Edge(s, start, v2, g + 1)
    OBVIOUS
  <2>8. recloses \in Int /\ recloses = reopens + s[g].dur /\ s[g].dur \in Nat
    BY <2>2, <2>6, <2>7, EdgeNext
  <2>9. ASSUME ~ClosedAtBothEnds(sched, tc), Fits(s, sending) PROVE s[g].dur >= sending
    <3>1. s[g].dur > 0
      BY <2>2, <2>9, OpenHolds
    <3>2. DOMAIN s = 1..Len(s)
      BY DEF BakedFor
    <3> QED BY <2>2, <2>9, <3>1, <3>2 DEF Fits
  <2>10. ts.dfrom = reopens /\ ts.dto = recloses - sending
    <3>1. ts.dfrom = closes + s[f].dur /\ ts.dto = (closes + s[f].dur + s[g].dur) - sending
      BY ONLY <1>4, <1>8
    <3> QED BY ONLY <2>5, <2>8, <3>1
  <2>11. ASSUME NEW t \in ts.dfrom .. ts.dto PROVE OpenDuring(sched, start, tc, t, sending)
    <3>1. t \in Int /\ reopens <= t /\ t + sending <= recloses
      <4>1. /\ ts.dfrom \in Int /\ ts.dto \in Int /\ reopens <= ts.dfrom /\ ts.dto = recloses - sending
            /\ reopens \in Int /\ recloses \in Int /\ sending \in Nat
        <5>1. reopens \in Int /\ recloses \in Int /\ sending \in Nat
          BY <2>5, <2>8
        <5>2. reopens <= reopens /\ recloses - sending \in Int
          BY ONLY <5>1
        <5> QED BY ONLY <2>10, <5>1, <5>2
      <4> QED BY ONLY <2>11, <4>1, StartedIn
    <3>2. Edge(s, start, v2, g) <= t /\ t + sending <= Edge(s, start, v2, g + 1)
      BY <2>6, <2>7, <3>1
    <3> QED BY <2>2, <2>6, <3>1, <3>2, OpenWithin
  <2>12. ts.to + sending <= ts.dfrom
    <3>1. sending \in Nat /\ closes \in Int /\ ts.to = closes - sending
      BY <1>2, <1>4
    <3>2. reopens \in Int /\ closes <= reopens /\ ts.dfrom = reopens
      BY ONLY <2>5, <2>10, <3>1
    <3> QED BY ONLY <3>1, <3>2
  <2>13. ASSUME ~ClosedAtBothEnds(sched, tc), Fits(s, sending) PROVE ts.dfrom <= ts.dto
    <3>1. sending \in Nat
      OBVIOUS
    <3>2. PICK d \in Nat : d = s[g].dur /\ d >= sending
      BY <2>8, <2>9, <2>13
    <3>3. reopens \in Int /\ recloses = reopens + d
      BY ONLY <2>5, <2>8, <3>2
    <3>4. reopens <= recloses - sending
      BY ONLY <3>1, <3>2, <3>3
    <3> QED BY ONLY <2>10, <3>4
  <2>14. ClosesAt(sched, start, tc, ts.dto + sending)
    <3>1. ts.dto + sending = recloses
      <4>1. sending \in Nat
        OBVIOUS
      <4> QED BY ONLY <2>8, <2>10, <4>1
    <3>2. ClosesAt(sched, start, tc, recloses)
      BY <2>2, <2>6, <2>7, OpeningEnds
    <3> QED BY <3>1, <3>2
  <2> QED BY <2>11, <2>12, <2>13, <2>14
<1>9. ASSUME ~ClosedAtBothEnds(sched, tc), Fits(s, sending) PROVE ts.from <= ts.to
  <2>1. s[slot].dur >= sending
    <3>1. s[slot].dur > 0
      BY <1>9, OpenHolds
    <3>2. DOMAIN s = 1..Len(s)
      BY DEF BakedFor
    <3> QED BY <1>9, <3>1, <3>2 DEF Fits
  <2>2. from <= opens \/ from + sending <= closes
    BY <1>1
  <2>3. ts.from \in {opens, from} /\ ts.to = closes - sending
    BY ONLY <1>4, <1>5
  <2>4. PICK d \in Nat : d = s[slot].dur /\ d >= sending
    BY <1>2, <2>1
  <2>5. opens \in Int /\ closes = opens + d /\ sending \in Nat /\ from \in Int
    BY <1>2, <2>4
  <2>6. opens <= closes - sending
    BY ONLY <2>4, <2>5
  <2>7. from <= closes - sending
    BY ONLY <2>2, <2>5, <2>6
  <2> QED BY ONLY <2>3, <2>6, <2>7
<1>10. ts.from \in Int /\ ts.to \in Int
  <2>1. opens \in Int /\ closes \in Int /\ from \in Int /\ sending \in Int
    BY <1>2
  <2> QED BY ONLY <1>4, <1>5, <2>1
<1>11. ClosesAt(sched, start, tc, ts.to + sending)
  <2>1. ts.to + sending = closes
    <3>1. sending \in Nat
      OBVIOUS
    <3> QED BY ONLY <1>2, <1>4, <3>1
  <2>2. ClosesAt(sched, start, tc, closes)
    BY <1>1, OpeningEnds
  <2> QED BY <2>1, <2>2
<1> QED BY <1>5, <1>6, <1>7, <1>8, <1>9, <1>10, <1>11 DEF WindowsRight

\* get_timestamps, for every schedule, every time before the clock wraps and every frame:
\* a class whose gate opens at all gets a window without a closed gate, not before the
\* frame is ready and no later than it must be; and, when every opening holds the frame,
\* this window is not empty (or the gate never moves, which to = from - 1 stands for), and
\* a second window without a closed gate lies behind it.
THEOREM GateWindows ==
  ASSUME NEW sched \in Schedule, NEW tc \in TCs, NEW start \in Int, NEW from \in Int,
         start <= from, from - start < Word,
         NEW sending \in Nat \ {0}, NEW delay \in BOOLEAN, ~AlwaysClosed(sched, tc)
  PROVE  WindowsRight(sched, start, tc, from, sending, delay,
                      GetTimestamps(Baked(sched, TCs), start, from, tc, sending, delay))
<1>1. PICK s : s = BakePrio(sched, tc)
  OBVIOUS
<1>2. BakedFor(s, sched, tc)
  BY <1>1, BakeCorrect
<1>3. PICK ts : ts = GetTimestamps(Baked(sched, TCs), start, from, tc, sending, delay)
  OBVIOUS
<1>4. CASE Len(s) = 2 /\ s[2].dur = 0
  <2>1. s[1].open /\ AlwaysOpen(sched, tc)
    <3>1. (s[1].open => AlwaysOpen(sched, tc)) /\ (~s[1].open => AlwaysClosed(sched, tc))
      BY <1>2, <1>4, OneSlot
    <3> QED BY <3>1
  <2>2. Baked(sched, TCs).prios[tc] = s
    BY <1>1 DEF Baked
  <2>3. ts.from = from
    BY <1>3, <1>4, <2>1, <2>2 DEF GetTimestamps
  <2>4. from .. (ts.from - 1) = {}
    BY <2>3
  <2>5. NothingBefore(sched, start, tc, sending, from, ts.from)
    BY <2>4 DEF NothingBefore
  <2>6. ts.from >= from
    BY <2>3
  <2>7. ts.to = ts.from - 1
    <3>1. ts.to = from - 1
      BY <1>3, <1>4, <2>1, <2>2 DEF GetTimestamps
    <3> QED BY <2>3, <3>1
  <2>8. ts.from \in Int /\ ts.to \in Int
    <3>1. PICK a, b : a = ts.from /\ b = ts.to
      OBVIOUS
    <3>2. a = from /\ b = a - 1 /\ from \in Int
      BY <2>3, <2>7, <3>1
    <3>3. a \in Int /\ b \in Int
      BY ONLY <3>2
    <3> QED BY <3>1, <3>3
  <2>9. /\ ~AlwaysOpen(sched, tc) => FALSE
        /\ AlwaysOpen(sched, tc) /\ ts.to = ts.from - 1
    BY <2>1, <2>7
  <2>10. WindowsRight(sched, start, tc, from, sending, delay, ts)
    BY <2>5, <2>6, <2>8, <2>9 DEF WindowsRight
  <2> QED BY <1>3, <2>10
<1>5. CASE ~(Len(s) = 2 /\ s[2].dur = 0)
  <2>1. PICK rem : rem = (from - start) % CycleNs(sched)
    OBVIOUS
  <2>2. PICK at : at = SlotAt(s, rem)
    OBVIOUS
  <2>3. PICK left : left = Begin(s, at + 1) - rem
    OBVIOUS
  <2>4. ts = WindowsFrom(s, at, left, from, sending, delay)
    BY <1>1, <1>3, <1>5, <2>1, <2>2, <2>3, Computes
  <2>5. PICK w \in Int : /\ at \in 1..Len(s)
                         /\ Edge(s, start, w, at) <= from /\ from <= Edge(s, start, w, at + 1)
                         /\ left = Edge(s, start, w, at + 1) - from
    <3>1. BakedFor(s, sched, tc) /\ sched \in Schedule /\ start \in Int /\ from \in Int
      BY <1>2
    <3>2. at \in 1..Len(s) /\ \E x \in Int : LiesIn(s, start, from, rem, at, x)
      BY ONLY <2>1, <2>2, <3>1, ReadyIn
    <3> QED BY <2>3, <3>2 DEF LiesIn
  <2>6. PICK slot \in 1..Len(s), v \in Int :
          /\ s[slot].open
          /\ NothingBefore(sched, start, tc, sending, from, Edge(s, start, v, slot))
          /\ from <= Edge(s, start, v, slot) \/ from + sending <= Edge(s, start, v, slot + 1)
          /\ ts = Windows(s, slot, Edge(s, start, v, slot), from, sending, delay)
    BY <1>2, <2>4, <2>5, Chosen
  <2>7. WindowsRight(sched, start, tc, from, sending, delay, ts)
    BY <1>1, <1>2, <2>6, SlotWindows
  <2> QED BY <1>3, <2>7
<1> QED BY <1>4, <1>5

\* get_timestamps makes no frame wait longer than a cycle for its window, and another one
\* for the next, for every schedule that opens its gate: also when the opening it is ready
\* in is too short for it, or all are.
THEOREM GateWait ==
  ASSUME NEW sched \in Schedule, NEW tc \in TCs, NEW start \in Int, NEW from \in Int,
         start <= from, from - start < Word,
         NEW sending \in Nat \ {0}, NEW delay \in BOOLEAN, ~AlwaysClosed(sched, tc)
  PROVE  WaitBounded(sched, from, delay,
                     GetTimestamps(Baked(sched, TCs), start, from, tc, sending, delay))
<1>1. PICK s : s = BakePrio(sched, tc)
  OBVIOUS
<1>2. BakedFor(s, sched, tc)
  BY <1>1, BakeCorrect
<1>3. PICK ts : ts = GetTimestamps(Baked(sched, TCs), start, from, tc, sending, delay)
  OBVIOUS
<1>4. CASE Len(s) = 2 /\ s[2].dur = 0
  <2>1. s[1].open
    BY <1>2, <1>4, OneSlot
  <2>2. Baked(sched, TCs).prios[tc] = s
    BY <1>1 DEF Baked
  <2>3. ts.from = from /\ (delay => ts.dfrom = from)
    BY <1>3, <1>4, <2>1, <2>2 DEF GetTimestamps
  <2>4. PICK c \in Nat : c = CycleNs(sched)
    BY <1>2, Shape
  <2>5. from <= from + c
    BY ONLY <2>4, from \in Int
  <2> QED BY <1>3, <2>3, <2>4, <2>5 DEF WaitBounded
<1>5. CASE ~(Len(s) = 2 /\ s[2].dur = 0)
  <2>1. PICK rem : rem = (from - start) % CycleNs(sched)
    OBVIOUS
  <2>2. PICK at : at = SlotAt(s, rem)
    OBVIOUS
  <2>3. PICK left : left = Begin(s, at + 1) - rem
    OBVIOUS
  <2>4. ts = WindowsFrom(s, at, left, from, sending, delay)
    BY <1>1, <1>3, <1>5, <2>1, <2>2, <2>3, Computes
  <2>5. PICK w \in Int : at \in 1..Len(s) /\ LiesIn(s, start, from, rem, at, w)
    <3>1. BakedFor(s, sched, tc) /\ sched \in Schedule /\ start \in Int /\ from \in Int
      BY <1>2
    <3> QED BY ONLY <2>1, <2>2, <3>1, ReadyIn
  <2>6. PICK x \in Int, y \in Int, d \in Nat :
          /\ x = Edge(s, start, w, at) /\ y = Edge(s, start, w, at + 1) /\ d = s[at].dur
          /\ y = x + d
    <3>1. BakedFor(s, sched, tc) /\ sched \in Schedule /\ start \in Int /\ at \in 1..Len(s)
      BY <1>2, <2>5
    <3>2. /\ Edge(s, start, w, at) \in Int /\ Edge(s, start, w, at + 1) \in Int
          /\ Edge(s, start, w, at + 1) = Edge(s, start, w, at) + s[at].dur /\ s[at].dur \in Nat
      BY ONLY <3>1, w \in Int, EdgeNext
    <3> QED BY ONLY <3>2
  <2>7. x <= from /\ from <= y /\ left = y - from
    BY <2>3, <2>5, <2>6 DEF LiesIn
  <2>8. left \in Nat /\ left <= d
    BY ONLY <2>6, <2>7, from \in Int
  <2>9. left <= s[at].dur
    BY ONLY <2>6, <2>8
  <2> QED BY <1>2, <1>3, <2>4, <2>5, <2>8, <2>9, SearchWait
<1> QED BY <1>4, <1>5

----------------------------------------------------------------------------
(* The frames of the driver.                                               *)

\* The inductive invariant: the slots get_timestamps looks at are those of the schedule
\* that is installed, and the last frame got its times from them.
GateInv ==
  /\ qbv.slots \in Schedule /\ qbv.start \in Nat
  /\ baked = Baked(qbv.slots, TCs)
  /\ out # NoOut =>
       /\ out.tc \in TCs /\ out.ready \in Int
       /\ out.sending \in Nat \ {0} /\ out.delay \in BOOLEAN
       /\ out.gated => out.ts = GetTimestamps(baked, qbv.start, out.ready, out.tc,
                                              out.sending, out.delay)

\* Sending takes time.
LEMMA SendingTakes ==
  ASSUME NEW bytes \in Nat
  PROVE  BytesToNs(bytes) \in Nat \ {0}
<1>1. MinBytes \in Nat \ {0} /\ NsPerByte \in Nat \ {0}
  BY QosAssumption
<1>2. PICK m : m = Max({bytes, MinBytes})
  OBVIOUS
<1>3. m \in Nat \ {0}
  <2>1. m \in {bytes, MinBytes} /\ m >= MinBytes
    BY <1>1, <1>2, MaxOfTwo
  <2> QED BY <1>1, <2>1
<1>4. m * NsPerByte \in Nat \ {0}
  BY <1>1, <1>3
<1> QED BY <1>2, <1>4 DEF BytesToNs

\* The schedule of the driver without tc.
LEMMA OpenIsSchedule == OpenSchedule \in Schedule
<1>1. [dur |-> 1, open |-> TCs] \in [dur : Nat \ {0}, open : SUBSET TCs]
  OBVIOUS
<1> HIDE DEF OpenSchedule
<1>2. OpenSchedule = <<[dur |-> 1, open |-> TCs]>>
  BY DEF OpenSchedule
<1> DEFINE R == [dur : Nat \ {0}, open : SUBSET TCs]
           e == [dur |-> 1, open |-> TCs]
<1> HIDE DEF R, e
<1>3. e \in R /\ OpenSchedule = <<e>>
  BY <1>1, <1>2 DEF R, e
<1>4. OpenSchedule \in Seq(R) /\ Len(OpenSchedule) > 0
  BY <1>3
<1> QED BY <1>4 DEF Schedule, R

\* bake_qos_config keeps a schedule, or puts that one in its place.
LEMMA ForcedSchedule ==
  ASSUME NEW q, NEW credits, q.slots \in Schedule, q.start \in Nat
  PROVE  ForcedQbv(q, credits).slots \in Schedule /\ ForcedQbv(q, credits).start \in Nat
BY OpenIsSchedule DEF ForcedQbv

\* A change of the schedule or the credits.
LEMMA BakeGate ==
  ASSUME NEW q, NEW credits, q.slots \in Schedule, q.start \in Nat, BakeQosConfig(q, credits)
  PROVE  GateInv'
<1>1. PICK f : f = ForcedQbv(q, credits)
  OBVIOUS
<1>2. f.slots \in Schedule /\ f.start \in Nat
  BY <1>1, ForcedSchedule
<1>3. qbv' = f /\ baked' = Baked(f.slots, TCs) /\ out' = NoOut
  BY <1>1 DEF BakeQosConfig
<1> QED BY <1>2, <1>3 DEF GateInv

\* The driver begins with the open schedule.
LEMMA GateInit == Init => GateInv
<1> SUFFICES ASSUME Init PROVE GateInv
  OBVIOUS
<1>1. /\ qbv = ForcedQbv(NoQbv, qav) /\ baked = Baked(OpenSchedule, TCs) /\ out = NoOut
  BY DEF Init
<1>2. qbv.slots = OpenSchedule /\ qbv.start = 0
  BY <1>1 DEF ForcedQbv, NoQbv
<1> QED BY <1>1, <1>2, OpenIsSchedule DEF GateInv

\* A frame gets its times from the schedule.
LEMMA FillGate ==
  ASSUME CreditInv, GateInv, NEW skb \in Offered, Fill(skb), UNCHANGED <<qbv, baked>>
  PROVE  GateInv'
<1>1. SkbOK(skb)
  BY FramesOK
<1>2. TcOf(skb) \in TCs /\ Ready(skb) \in Int
  BY <1>1, ReadyAvailable
<1>3. Length(skb) \in Nat
  BY <1>1, LengthNat DEF SkbOK
<1>4. PICK d : d = BytesToNs(Length(skb))
  OBVIOUS
<1>5. d \in Nat \ {0}
  BY <1>3, <1>4, SendingTakes
<1>6. /\ out'.tc = TcOf(skb) /\ out'.ready = Ready(skb) /\ out'.sending = d
      /\ out'.delay = ~BestEffort(skb) /\ out'.gated = qbv.enabled /\ out'.ts = Timestamps(skb)
  BY <1>4 DEF Fill
<1>7. qbv.enabled => Timestamps(skb) = GetTimestamps(baked, qbv.start, Ready(skb), TcOf(skb), d,
                                                     ~BestEffort(skb))
  BY <1>4 DEF Timestamps, DontCare
<1>8. out'.delay \in BOOLEAN
  BY <1>6
<1>9. out'.gated => out'.ts = GetTimestamps(baked, qbv.start, out'.ready, out'.tc,
                                            out'.sending, out'.delay)
  BY <1>6, <1>7
<1> QED BY <1>2, <1>5, <1>6, <1>8, <1>9 DEF GateInv

\* Every step keeps the invariant.
LEMMA GateNext == CreditInv /\ GateInv /\ [Next]_vars => GateInv'
<1> SUFFICES ASSUME CreditInv, GateInv, [Next]_vars PROVE GateInv'
  OBVIOUS
<1>0. qbv.slots \in Schedule /\ qbv.start \in Nat
  BY DEF GateInv
<1>1. CASE Configure
  <2>1. ASSUME NEW m \in TcMaps, SetMqprio(m) PROVE GateInv'
    BY <2>1 DEF SetMqprio, GateInv
  <2>2. ASSUME NEW tc \in TCs, NEW on \in BOOLEAN, NEW o \in Offloads, SetQav(tc, on, o) PROVE GateInv'
    <3>1. BakeQosConfig(qbv, qav')
      BY <2>2 DEF SetQav
    <3> QED BY <1>0, <3>1, BakeGate
  <2>3. ASSUME NEW s \in Schedules, NEW t \in Starts, SetQbv(s, t) PROVE GateInv'
    <3>1. PICK q : q = [enabled |-> TRUE, start |-> t, slots |-> s]
      OBVIOUS
    <3>2. BakeQosConfig(q, qav)
      BY <2>3, <3>1 DEF SetQbv
    <3>3. s \in Schedule /\ t \in Nat
      BY ScheduleAssumption, QosAssumption DEF Schedule
    <3>4. q.slots \in Schedule /\ q.start \in Nat
      BY <3>1, <3>3
    <3> QED BY <3>2, <3>4, BakeGate
  <2>4. ASSUME DestroyQbv PROVE GateInv'
    <3>1. PICK q : q = [qbv EXCEPT !.enabled = FALSE]
      OBVIOUS
    <3>2. BakeQosConfig(q, qav)
      BY <2>4, <3>1 DEF DestroyQbv
    <3>3. q.slots = qbv.slots /\ q.start = qbv.start
      BY <3>1
    <3>4. q.slots \in Schedule /\ q.start \in Nat
      BY <1>0, <3>3
    <3> QED BY <3>2, <3>4, BakeGate
  <2> QED BY <1>1, <2>1, <2>2, <2>3, <2>4 DEF Configure
<1>2. CASE Xmit
  <2>1. PICK skb \in Offered : \/ XmitFreed(skb) \/ XmitRefused(skb) \/ XmitFull(skb)
                               \/ XmitSent(skb) \/ XmitUnmapped(skb)
    BY <1>2 DEF Xmit
  <2>2. CASE XmitFreed(skb) \/ XmitRefused(skb) \/ XmitFull(skb)
    <3>1. UNCHANGED <<qbv, baked, out>>
      BY <2>2 DEF XmitFreed, XmitRefused, XmitFull, configVars
    <3> QED BY <3>1 DEF GateInv
  <2>3. CASE XmitSent(skb) \/ XmitUnmapped(skb)
    <3>1. Fill(skb) /\ UNCHANGED <<qbv, baked>>
      BY <2>3 DEF XmitSent, XmitUnmapped
    <3> QED BY <2>1, <3>1, FillGate
  <2> QED BY <2>1, <2>2, <2>3
<1>3. CASE \/ TxIsr \/ \E c \in {"be", "tsn"} : HwSends(c) \/ HwDrops(c)
           \/ \E d \in Deltas : Tick(d)
  <2>1. UNCHANGED <<qbv, baked, out>>
    BY <1>3 DEF TxIsr, HwSends, HwDrops, Tick, vars, configVars
  <2> QED BY <2>1 DEF GateInv
<1>4. CASE UNCHANGED vars
  <2>1. UNCHANGED <<qbv, baked, out>>
    BY <1>4 DEF vars, configVars
  <2> QED BY <2>1 DEF GateInv
<1> QED BY <1>1, <1>2, <1>3, <1>4 DEF Next

\* The slots the driver looks at are always those of the schedule that is installed, and
\* the times of its last frame are those of the schedule.
THEOREM GateInvariant == Spec => []GateInv
BY GateInit, GateNext, CreditInvariant, PTL DEF Spec

\* The time since the schedule's base fits into a timestamp_t (2^64 ns are 584 years).
BeforeWrap == out # NoOut => out.ready - qbv.start < Word

\* What the last frame got, when it has a schedule that opens its gate.
LEMMA OutRight ==
  ASSUME GateInv, BeforeWrap, out # NoOut, out.gated, out.ready >= qbv.start,
         ~AlwaysClosed(qbv.slots, out.tc)
  PROVE  /\ WindowsRight(qbv.slots, qbv.start, out.tc, out.ready, out.sending, out.delay, out.ts)
         /\ baked.prios[out.tc] = BakePrio(qbv.slots, out.tc)
<1>1. /\ qbv.slots \in Schedule /\ qbv.start \in Int /\ out.tc \in TCs /\ out.ready \in Int
      /\ out.sending \in Nat \ {0} /\ out.delay \in BOOLEAN
      /\ qbv.start <= out.ready /\ out.ready - qbv.start < Word
      /\ baked = Baked(qbv.slots, TCs)
      /\ out.ts = GetTimestamps(baked, qbv.start, out.ready, out.tc, out.sending, out.delay)
  BY DEF GateInv, BeforeWrap
<1>2. WindowsRight(qbv.slots, qbv.start, out.tc, out.ready, out.sending, out.delay,
                   GetTimestamps(Baked(qbv.slots, TCs), qbv.start, out.ready, out.tc,
                                 out.sending, out.delay))
  BY <1>1, GateWindows
<1> QED BY <1>1, <1>2 DEF Baked

\* The frame is never held back longer than the schedule asks for.
THEOREM NeverHeldBack == Spec => [](BeforeWrap => WindowEarliest)
<1>1. GateInv /\ BeforeWrap => WindowEarliest
  <2> SUFFICES ASSUME GateInv, BeforeWrap, Usable
               PROVE  /\ out.ts.from >= out.ready
                      /\ \A t \in out.ready .. (out.ts.from - 1) :
                           ~(OpenWhile(t) /\ WithinCycle(qbv.slots, qbv.start, t, out.sending))
    BY DEF WindowEarliest
  <2>1. WindowsRight(qbv.slots, qbv.start, out.tc, out.ready, out.sending, out.delay, out.ts)
    BY OutRight DEF Usable
  <2> QED BY <2>1 DEF WindowsRight, NothingBefore, OpenWhile
<1> QED BY <1>1, GateInvariant, PTL

\* The second chance lies in a later opening and is as safe as the first one.
THEOREM SecondChanceSafe == Spec => [](BeforeWrap => DelayWindowOpen)
<1>1. GateInv /\ BeforeWrap => DelayWindowOpen
  <2> SUFFICES ASSUME GateInv, BeforeWrap, Usable, out.delay, ~AlwaysOpen(qbv.slots, out.tc)
               PROVE  /\ out.ts.to + out.sending <= out.ts.dfrom
                      /\ out.ts.dfrom <= out.ts.dto
                      /\ \A t \in out.ts.dfrom .. out.ts.dto : OpenWhile(t)
                      /\ ClosesAt(qbv.slots, qbv.start, out.tc, out.ts.dto + out.sending)
    BY DEF DelayWindowOpen
  <2>1. /\ WindowsRight(qbv.slots, qbv.start, out.tc, out.ready, out.sending, out.delay, out.ts)
        /\ baked.prios[out.tc] = BakePrio(qbv.slots, out.tc)
    BY OutRight DEF Usable
  <2> QED BY <2>1 DEF WindowsRight, OpenWhile, Usable
<1> QED BY <1>1, GateInvariant, PTL

\* The gate holds no frame up for more than a cycle, nor its second chance for more than
\* another one.
THEOREM NeverStarved == Spec => [](BeforeWrap => WindowSoon)
<1>1. GateInv /\ BeforeWrap => WindowSoon
  <2> SUFFICES ASSUME GateInv, BeforeWrap, out # NoOut, out.gated, out.ready >= qbv.start,
                      ~AlwaysClosed(qbv.slots, out.tc)
               PROVE  /\ out.ts.from <= out.ready + CycleNs(qbv.slots)
                      /\ out.delay => out.ts.dfrom <= out.ts.from + CycleNs(qbv.slots)
    BY DEF WindowSoon
  <2>1. /\ qbv.slots \in Schedule /\ qbv.start \in Int /\ out.tc \in TCs /\ out.ready \in Int
        /\ out.sending \in Nat \ {0} /\ out.delay \in BOOLEAN
        /\ qbv.start <= out.ready /\ out.ready - qbv.start < Word
        /\ baked = Baked(qbv.slots, TCs)
        /\ out.ts = GetTimestamps(baked, qbv.start, out.ready, out.tc, out.sending, out.delay)
    BY DEF GateInv, BeforeWrap
  <2>2. WaitBounded(qbv.slots, out.ready, out.delay, out.ts)
    BY <2>1, GateWait
  <2> QED BY <2>2 DEF WaitBounded
<1> QED BY <1>1, GateInvariant, PTL

\* A gate that never opens: get_timestamps finds the pair of slots it answers false for.
LEMMA NeverOpens ==
  ASSUME NEW sched \in Schedule, NEW tc, NEW s, BakedFor(s, sched, tc), AlwaysClosed(sched, tc)
  PROVE  Len(s) = 2 /\ s[2].dur = 0 /\ ~s[1].open
<1>1. PICK L : L = Len(s)
  OBVIOUS
<1>2. /\ L \in Nat /\ L >= 2 /\ 1 \in 1..L /\ 2 \in 1..L /\ 1 \in 1..(L - 1) /\ 1 + 1 = 2
      /\ L > 2 => 2 \in 1..(L - 1)
      /\ \A i \in 1..(L - 1) : s[i].dur > 0
      /\ s[2].open # s[1].open
      /\ \A i \in 1..L : s[i].open \in BOOLEAN /\ s[i].dur \in Nat
  BY <1>1 DEF BakedFor
<1>3. ASSUME NEW k \in 1..L, s[k].dur > 0 PROVE ~s[k].open
  <2>1. PICK t : t = Edge(s, 0, 0, k)
    OBVIOUS
  <2>2. t \in Int /\ t <= t /\ t < Edge(s, 0, 0, k + 1)
    <3>1. /\ t \in Int /\ Edge(s, 0, 0, k + 1) = t + s[k].dur
      BY <1>1, <2>1, EdgeNext
    <3>2. PICK d \in Nat : d = s[k].dur /\ d > 0
      BY <1>2, <1>3
    <3> QED BY ONLY <3>1, <3>2
  <2>3. OpenAt(sched, 0, tc, t) <=> s[k].open
    BY <1>1, <2>1, <2>2, OpenInSlot
  <2>4. ~OpenAt(sched, 0, tc, t)
    BY DEF OpenAt, AlwaysClosed
  <2> QED BY <2>3, <2>4
<1>4. ~s[1].open
  BY <1>2, <1>3
<1>5. ~(s[2].dur > 0)
  BY <1>2, <1>3, <1>4
<1>6. L = 2 /\ s[2].dur = 0
  BY <1>2, <1>5
<1> QED BY <1>1, <1>4, <1>6

\* A frame meets a closed gate in none of its windows, however long it is, unless its
\* gate never opens: for such a frame get_timestamps answers false, "for drop" (which
\* tsn_fill_metadata does not look at: the frame is sent all the same).
NoClosedGate ==
  out # NoOut /\ out.gated /\ out.ready >= qbv.start /\ ~AlwaysOpen(qbv.slots, out.tc) =>
    IF AlwaysClosed(qbv.slots, out.tc)
    THEN ~out.ts.ok
    ELSE /\ \A t \in out.ts.from .. out.ts.to : OpenWhile(t)
         /\ out.delay => \A t \in out.ts.dfrom .. out.ts.dto : OpenWhile(t)

\* get_timestamps, looking at what bake_qos_config made of the schedule last installed,
\* gives a frame only windows in which the gate stays open until the last bit is sent, and
\* answers false for a gate that never opens.
THEOREM GateRespected == Spec => [](BeforeWrap => NoClosedGate)
<1>1. GateInv /\ BeforeWrap => NoClosedGate
  <2> SUFFICES ASSUME GateInv, BeforeWrap, out # NoOut, out.gated, out.ready >= qbv.start,
                      ~AlwaysOpen(qbv.slots, out.tc)
               PROVE  IF AlwaysClosed(qbv.slots, out.tc)
                      THEN ~out.ts.ok
                      ELSE /\ \A t \in out.ts.from .. out.ts.to : OpenWhile(t)
                           /\ out.delay => \A t \in out.ts.dfrom .. out.ts.dto : OpenWhile(t)
    BY DEF NoClosedGate
  <2>1. CASE AlwaysClosed(qbv.slots, out.tc)
    <3>1. PICK s : s = BakePrio(qbv.slots, out.tc)
      OBVIOUS
    <3>2. /\ qbv.slots \in Schedule /\ out.tc \in TCs /\ baked = Baked(qbv.slots, TCs)
          /\ out.ts = GetTimestamps(baked, qbv.start, out.ready, out.tc, out.sending, out.delay)
      BY DEF GateInv
    <3>3. BakedFor(s, qbv.slots, out.tc)
      BY <3>1, <3>2, BakeCorrect
    <3>4. Len(s) = 2 /\ s[2].dur = 0 /\ ~s[1].open
      BY <2>1, <3>2, <3>3, NeverOpens
    <3>5. baked.prios[out.tc] = s
      BY <3>1, <3>2 DEF Baked
    <3>6. ~out.ts.ok
      BY <3>2, <3>4, <3>5 DEF GetTimestamps
    <3> QED BY <2>1, <3>6
  <2>2. CASE ~AlwaysClosed(qbv.slots, out.tc)
    <3>1. WindowsRight(qbv.slots, qbv.start, out.tc, out.ready, out.sending, out.delay, out.ts)
      BY <2>2, OutRight
    <3> QED BY <2>2, <3>1 DEF WindowsRight, OpenWhile
  <2> QED BY <2>1, <2>2
<1> QED BY <1>1, GateInvariant, PTL
============================================================================

---------------------------- MODULE CbsCredits ----------------------------
(***************************************************************************)
(* The credit-based shaper's parameters: what calc_credits (src/src/cbs.rs) *)
(* gives to `tc qdisc ... cbs`, and what tsn_set_qav of the driver makes of *)
(* them.  Kilo is 1000 and the link speed Kilo^3 bits per second in the     *)
(* code, so that a bit takes a nanosecond.                                  *)
(***************************************************************************)
EXTENDS Integers

CONSTANT Kilo

\* f64::ceil(a / b) and f64::floor(a / b), and C's division, for b > 0
CeilDiv(a, b) == -((-a) \div b)
FloorDiv(a, b) == a \div b
TruncDiv(a, b) == IF a >= 0 THEN a \div b ELSE -((-a) \div b)

\* calc_credits, the credits of class a: bandwidth in bits per second, max_frame
\* in BITS.
CalcCredits(bandwidth, maxFrame, linkspeed) ==
  [idleslope |-> FloorDiv(bandwidth, Kilo),
   sendslope |-> FloorDiv(bandwidth - linkspeed, Kilo),
   hicredit |-> CeilDiv(bandwidth * maxFrame, linkspeed),
   locredit |-> CeilDiv((bandwidth - linkspeed) * maxFrame, linkspeed)]

\* calc_credits, the credits of class b, which waits for class a as well.
CalcCreditsB(bandwidthA, maxFrameA, bandwidth, maxFrame, linkspeed) ==
  LET rest == linkspeed - bandwidthA
  IN  [CalcCredits(bandwidth, maxFrame, linkspeed) EXCEPT
         !.hicredit = CeilDiv(bandwidth * (maxFrame * linkspeed + maxFrameA * rest),
                              rest * linkspeed)]

\* tsn_set_qav: credits per ns, and credits.
QavSlopes(offload) ==
  [idle |-> TruncDiv(offload.idleslope, Kilo),
   send |-> TruncDiv(offload.sendslope, Kilo),
   hi |-> offload.hicredit * Kilo,
   lo |-> offload.locredit * Kilo]
============================================================================

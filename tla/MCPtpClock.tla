----------------------------- MODULE MCPtpClock -----------------------------
(* Two nanoseconds per tick, and rates a quarter slower and faster; a second *)
(* of eight nanoseconds; halves of two bits.                                *)
EXTENDS PtpClock

TheDeltas == {-1, 3}
=============================================================================

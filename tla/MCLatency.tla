------------------------------ MODULE MCLatency ------------------------------
(* Two runs of two packets.                                                 *)
EXTENDS Latency
=============================================================================

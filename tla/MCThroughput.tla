---------------------------- MODULE MCThroughput ----------------------------
(* Two clients, each asking for a test once.                                *)
EXTENDS Throughput
=============================================================================

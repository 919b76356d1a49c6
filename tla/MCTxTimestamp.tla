---------------------------- MODULE MCTxTimestamp ----------------------------
(* Small instances of TxTimestamp for TLC. *)
EXTENDS TxTimestamp, TLC

Symmetry == Permutations(Skbs)

\* An always open gate, and a window of two ticks.
SomeWindows == {[lead |-> 1, len |-> -1], [lead |-> 0, len |-> 1]}
\* The window of two ticks alone.
OneWindow == {[lead |-> 0, len |-> 1]}
============================================================================

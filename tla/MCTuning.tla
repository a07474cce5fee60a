------------------------------ MODULE MCTuning ------------------------------
(* A small instance of Tuning: a broker created without compression, tuned  *)
(* by the optimizer alone.                                                  *)
EXTENDS Tuning

Created == {[CompressionType |-> 0, NumIOGoroutines |-> 4]}

=============================================================================

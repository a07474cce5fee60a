---------------------------- MODULE MCPartition ----------------------------
(* Small instances of Partition.                                           *)
EXTENDS Partition, TLC

H(p, t, s) == [pri |-> p, ts |-> t, size |-> s]

(* A compressed batch, a plain message whose priority is equal to          *)
(* walBatchMagic, and an ordinary one; priorities below and above the      *)
(* clamp, old and fresh timestamps.                                        *)
MixedBatches ==
  "a" :> <<H(1, 2, 1), H(12, 1, 2), H(9, 1, 1)>>
    @@ "b" :> <<H(186, 1, 1)>>
    @@ "c" :> <<H(5, 2, 1)>>

AllModes == [indexed : BOOLEAN, noSync : BOOLEAN]

=============================================================================

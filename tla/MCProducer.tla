----------------------------- MODULE MCProducer -----------------------------
(* Small instances of Producer.                                            *)
EXTENDS Producer, TLC

(* Of a limit of 4, b and c are too much together; of a limit of 2, c is.  *)
Sizes == "a" :> 1 @@ "b" :> 2 @@ "c" :> 3

=============================================================================

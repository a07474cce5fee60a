----------------------------- MODULE MCDelivery -----------------------------
(* Small instances of Delivery.                                            *)
EXTENDS Delivery

H(p) == [pri |-> p, ts |-> 1, size |-> 1]

(* Three messages of two priorities, more than fit in one response.        *)
OneRequest == "a" :> <<H(0), H(1), H(0)>>

SyncedModes == [indexed : BOOLEAN, noSync : {FALSE}]

(* The two workers consume for different groups, or for the same.          *)
TwoWorkers == {"w1" :> "g1" @@ "w2" :> "g2", "w1" :> "g1" @@ "w2" :> "g1"}

(* One worker asks for two messages at a time, the other for one.          *)
FetchSizes == "w1" :> 2 @@ "w2" :> 1

=============================================================================

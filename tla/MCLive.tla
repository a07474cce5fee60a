------------------------------- MODULE MCLive -------------------------------
(* Liveness on small instances: the control loop with one partition in each *)
(* of two topics, and the priority index with two entries.  focus names the *)
(* component that moves; the other stays where it starts.                   *)
EXTENDS Integers, TLC

VARIABLES
    focus,
    live, pending, produced, consumed, tick, history, rank, predicted, system,
    level, holder, count, total, adder, pop, promo, popped, evicted

control == <<live, pending, produced, consumed, tick, history, rank, predicted, system>>
index == <<level, holder, count, total, adder, pop, promo, popped, evicted>>

C == INSTANCE Control WITH
        Topics <- <<1, 1>>, Deletable <- {2}, Window <- 2, MaxRecords <- 1, MaxPending <- 1

I == INSTANCE PriorityIndex WITH
        Entries <- {"a", "b"}, Priority <- "a" :> 0 @@ "b" :> 1,
        Arrived <- "a" :> 2 @@ "b" :> 1, Poppers <- {"p1", "p2"}, Thresholds <- {2},
        Promoters <- {"m1"}, Deadlines <- {2}, MaxPriority <- 2, LevelCap <- 2,
        None <- "nobody"

Init ==
    /\ focus \in {"control", "index"}
    /\ C!Init /\ I!Init
    /\ focus # "control" => rank = <<0, 1>>

Next ==
    \/ focus = "control" /\ C!Next /\ UNCHANGED <<focus, index>>
    \/ focus = "index" /\ I!Next /\ UNCHANGED <<focus, control>>

Turn(component, A) == focus = component /\ A

(* The fairness of Control!Spec and of PriorityIndex!FairSpec.              *)
Spec ==
    /\ Init /\ [][Next]_<<focus, control, index>>
    /\ WF_control(Turn("control", C!Tick))
    /\ \A e \in {"a", "b"} : /\ SF_index(Turn("index", I!AddLocked(e)))
                            /\ WF_index(Turn("index", I!AddTotal(e)))
    /\ \A t \in {"p1", "p2"} : SF_index(Turn("index", I!PopStep(t)))
    /\ SF_index(Turn("index", I!PromoStep("m1")))

ThrottlingEnds == C!ThrottlingEnds
CallsReturn == I!CallsReturn

=============================================================================

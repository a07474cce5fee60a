----------------------------- MODULE MCQueueing -----------------------------
(* Small instances of three parts that share no state: the priority index,  *)
(* with priorities inside and outside the range and arrival times that do   *)
(* not follow them, the scheduler's latency feedback, and the benchmark     *)
(* driver.  focus names the one that moves in a behaviour; the others stay  *)
(* where they start.                                                        *)
EXTENDS PriorityIndex, Feedback, Experiment, TLC

MCPriority == "a" :> 0 @@ "b" :> 1 @@ "c" :> 7
MCArrived  == "a" :> 2 @@ "b" :> 1 @@ "c" :> 2

MCPriorityOf == "m1" :> 0 @@ "m2" :> 3 @@ "m3" :> 1
MCLatencyOf  == "m1" :> 1 @@ "m2" :> 2 @@ "m3" :> 1

Planned(scenario, external, dqn) ==
    [scenario |-> scenario, external |-> external, dqn |-> dqn]
MCPlan == <<Planned("s1", FALSE, FALSE), Planned("s1", FALSE, FALSE),
            Planned("s2", TRUE, TRUE)>>

VARIABLE focus

QueueingInit ==
    /\ focus \in {"index", "feedback", "experiment"}
    /\ Init /\ FeedbackInit /\ ExperimentInit

(* The feedback may stop, at its bounds; the other two must not.            *)
QueueingNext ==
    /\ \/ focus = "index" /\ Next /\ UNCHANGED <<feedbackVars, experimentVars>>
       \/ focus = "feedback" /\ FeedbackNext /\ UNCHANGED <<vars, experimentVars>>
       \/ focus = "feedback" /\ UNCHANGED <<feedbackVars, vars, experimentVars>>
       \/ focus = "experiment" /\ ExperimentNext /\ UNCHANGED <<vars, feedbackVars>>
    /\ UNCHANGED focus

QueueingSpec == QueueingInit /\ [][QueueingNext]_<<focus, vars, feedbackVars, experimentVars>>

=============================================================================

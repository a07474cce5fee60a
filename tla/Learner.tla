------------------------------- MODULE Learner -------------------------------
(* The learning components: DQNBalancer, DQNScheduler and the optimizer's   *)
(* DDPG.  States, actions, rewards and weights are abstracted to the        *)
(* generation they were taken at; kept are the loops, the snapshots they    *)
(* exchange, the experience channel, the replay buffer, the count of weight *)
(* updates, and the balancer's fallback.                                    *)
(*   snaps     prevSnap and currSnap (prevMetrics for the optimizer), by    *)
(*             generation; 0 is nil                                         *)
(*   feed      OnMetrics: where the metrics loop is and what it has loaded  *)
(*   fallback  the hysteresis counters and the two flags they drive         *)
(*   verdicts  the last ExitTicks verdicts on the metrics, oldest first     *)
(*   crisis    how many transitions the scheduler's crisis buffer holds     *)
EXTENDS Integers, Sequences, Functions

CONSTANTS
    EnterTicks, ExitTicks,   \* fallbackEnterTicks, fallbackExitTicks
    ChannelCap, ReplayCap,   \* capacities of expCh and of the replay buffer
    MinReplay, TrainEvery,   \* when a received transition leads to training
    BatchSize, CrisisShare,  \* transitions per training, of them from crises
    SyncEvery,               \* weight updates per update of the target network
    MaxGen, MaxTicks         \* bounds: policy ticks and metrics ticks

VARIABLES kind, gen, snaps, policy, feed, lastGen, fallback, verdicts, channel,
          trainer, replay, crisis, net, cancelled

learnerVars == <<kind, gen, snaps, policy, feed, lastGen, fallback, verdicts, channel,
                 trainer, replay, crisis, net, cancelled>>

Bad == TRUE
Good == FALSE
Waiting == [pc |-> "wait", ticks |-> 0]
Running == [pc |-> "run", steps |-> 0]

NewDQNBalancer == [policy |-> "wait", replay |-> <<>>]
NewDDPG == [policy |-> "wait", replay |-> <<>>]

(* Expert transitions, older than anything observed.                        *)
seedExpertTransitions == <<[from |-> 0, to |-> 0]>>

(* The scheduler's policy is idle until a consumer has shown it a           *)
(* PriorityIndex.                                                           *)
NewDQNScheduler == [policy |-> "blind", replay |-> seedExpertTransitions]

LearnerInit ==
    /\ kind \in {"balancer", "scheduler", "optimizer"}
    /\ LET new == CASE kind = "balancer" -> NewDQNBalancer
                    [] kind = "scheduler" -> NewDQNScheduler
                    [] kind = "optimizer" -> NewDDPG
       IN  policy = new.policy /\ replay = new.replay
    /\ gen = 0
    /\ snaps = [prev |-> 0, curr |-> 0]
    /\ feed = Waiting
    /\ lastGen = 0
    /\ fallback = [bad |-> 0, good |-> 0, active |-> FALSE, suppressed |-> FALSE]
    /\ verdicts = <<>>
    /\ channel = <<>>
    /\ trainer = Running
    /\ crisis = 0
    /\ net = [updates |-> 0, target |-> 0]
    /\ cancelled = FALSE

(* Push of the replay buffers: the oldest transition makes room.            *)
Remember(seq, cap, x) == LET s == Append(seq, x) IN IF Len(s) > cap THEN Tail(s) ELSE s

(* ------------------------------ policy loop ---------------------------- *)

(* Next: a consumer's read remembers the partition's PriorityIndex.         *)
SchedulerNext ==
    /\ kind = "scheduler" /\ policy = "blind"
    /\ policy' = "wait"
    /\ UNCHANGED <<kind, gen, snaps, feed, lastGen, fallback, verdicts, channel, trainer,
                   replay, crisis, net, cancelled>>

(* A tick builds the state, runs the network and takes a new generation;    *)
(* prevSnap and currSnap are then stored one after the other.               *)
BalancerTick ==
    /\ kind = "balancer" /\ policy = "wait" /\ gen < MaxGen
    /\ gen' = gen + 1
    /\ policy' = "prev"
    /\ UNCHANGED <<kind, snaps, feed, lastGen, fallback, verdicts, channel, trainer, replay,
                   crisis, net, cancelled>>

SchedulerTick ==
    /\ kind = "scheduler" /\ policy = "wait" /\ gen < MaxGen
    /\ gen' = gen + 1
    /\ policy' = "prev"
    /\ UNCHANGED <<kind, snaps, feed, lastGen, fallback, verdicts, channel, trainer, replay,
                   crisis, net, cancelled>>

PolicyStoresPrev ==
    /\ policy = "prev"
    /\ snaps' = [snaps EXCEPT !.prev = snaps.curr]
    /\ policy' = "curr"
    /\ UNCHANGED <<kind, gen, feed, lastGen, fallback, verdicts, channel, trainer, replay,
                   crisis, net, cancelled>>

PolicyStoresCurr ==
    /\ policy = "curr"
    /\ snaps' = [snaps EXCEPT !.curr = gen]
    /\ policy' = IF kind = "scheduler" THEN "epsilon" ELSE "wait"
    /\ UNCHANGED <<kind, gen, feed, lastGen, fallback, verdicts, channel, trainer, replay,
                   crisis, net, cancelled>>

(* The scheduler then stops exploring while the index is deep and growing.  *)
SchedulerEpsilon(overload) ==
    /\ policy = "epsilon"
    /\ fallback' = [fallback EXCEPT !.suppressed = overload]
    /\ policy' = "wait"
    /\ UNCHANGED <<kind, gen, snaps, feed, lastGen, verdicts, channel, trainer, replay, crisis, net,
                   cancelled>>

PolicyStops ==
    /\ cancelled /\ policy \in {"wait", "blind"}
    /\ policy' = "done"
    /\ UNCHANGED <<kind, gen, snaps, feed, lastGen, fallback, verdicts, channel, trainer,
                   replay, crisis, net, cancelled>>

(* -------------------------------- OnMetrics ----------------------------- *)

(* Mutant: a bad tick does not end the run of good ones.                    *)
Judge_KeepsRun(f, v) ==
    IF v = Bad
    THEN [bad |-> f.bad + 1, good |-> f.good, suppressed |-> TRUE,
          active |-> f.active \/ f.bad + 1 >= EnterTicks]
    ELSE [bad |-> 0, good |-> f.good + 1,
          suppressed |-> f.suppressed /\ f.good + 1 < ExitTicks,
          active |-> f.active /\ f.good + 1 < ExitTicks]

(* Exploration stops at the first bad tick, the network is bypassed after   *)
(* EnterTicks bad ones in a row, both come back after ExitTicks good ones.  *)
Judge(f, v) ==
    IF v = Bad
    THEN [bad |-> f.bad + 1, good |-> 0, suppressed |-> TRUE,
          active |-> f.active \/ f.bad + 1 >= EnterTicks]
    ELSE [bad |-> 0, good |-> f.good + 1,
          suppressed |-> f.suppressed /\ f.good + 1 < ExitTicks,
          active |-> f.active /\ f.good + 1 < ExitTicks]

(* The balancer judges throughput against the base throughput, and the mean *)
(* load against its threshold.                                              *)
BalancerOnMetrics(v) ==
    /\ kind = "balancer" /\ feed.pc = "wait" /\ feed.ticks < MaxTicks
    /\ feed' = [feed EXCEPT !.pc = "first", !.ticks = @ + 1]
    /\ fallback' = Judge(fallback, v)
    /\ verdicts' = Remember(verdicts, ExitTicks, v)
    /\ UNCHANGED <<kind, gen, snaps, policy, lastGen, channel, trainer, replay, crisis, net,
                   cancelled>>

(* The scheduler notes the rates.                                           *)
SchedulerOnMetrics ==
    /\ kind = "scheduler" /\ feed.pc = "wait" /\ feed.ticks < MaxTicks
    /\ feed' = [feed EXCEPT !.pc = "first", !.ticks = @ + 1]
    /\ UNCHANGED <<kind, gen, snaps, policy, lastGen, fallback, verdicts, channel, trainer,
                   replay, crisis, net, cancelled>>

(* Mutant: currSnap is loaded before prevSnap.                              *)
LoadOrder_CurrFirst == <<"to", "from">>

LoadOrder == <<"from", "to">>

Snapshot(field) == IF field = "from" THEN snaps.prev ELSE snaps.curr

(* The two snapshots are loaded one after the other, without a lock.        *)
MetricsLoadFirst ==
    /\ feed.pc = "first"
    /\ feed' = [pc |-> "second", ticks |-> feed.ticks, loaded |-> Snapshot(LoadOrder[1])]
    /\ UNCHANGED <<kind, gen, snaps, policy, lastGen, fallback, verdicts, channel, trainer,
                   replay, crisis, net, cancelled>>

Read(field) == IF LoadOrder[1] = field THEN feed.loaded ELSE Snapshot(field)
Loaded == [from |-> Read("from"), to |-> Read("to")]

(* Only the balancer checks that currSnap is one it has not used before.    *)
Usable(t) == t.from # 0 /\ t.to # 0 /\ (kind = "balancer" => t.to > lastGen)

MetricsLoadSecond ==
    /\ feed.pc = "second"
    /\ feed' = IF Usable(Loaded)
               THEN [pc |-> "send", ticks |-> feed.ticks, transition |-> Loaded]
               ELSE [pc |-> "wait", ticks |-> feed.ticks]
    /\ lastGen' = IF Usable(Loaded) /\ kind = "balancer" THEN Loaded.to ELSE lastGen
    /\ UNCHANGED <<kind, gen, snaps, policy, fallback, verdicts, channel, trainer, replay,
                   crisis, net, cancelled>>

(* A full channel drops the transition.                                     *)
MetricsSend ==
    /\ feed.pc = "send"
    /\ channel' = IF Len(channel) < ChannelCap THEN Append(channel, feed.transition)
                  ELSE channel
    /\ feed' = [pc |-> "wait", ticks |-> feed.ticks]
    /\ UNCHANGED <<kind, gen, snaps, policy, lastGen, fallback, verdicts, trainer, replay,
                   crisis, net, cancelled>>

(* ------------------------------- training ------------------------------- *)

(* A batch of n is drawn from all of the buffer, or not at all.             *)
Sample(buffer, n) == IF Len(buffer) < n THEN {} ELSE Range(buffer)

(* DDPG keeps its own, unprioritised buffer.                                *)
Store(buffer, t) == Remember(buffer, ReplayCap, t)
SampleUniform(buffer, n) == IF Len(buffer) < n THEN {} ELSE Range(buffer)

(* One more weight update; every SyncEvery of them the target follows.      *)
TargetStep == [updates |-> net.updates + 1,
         target |-> IF (net.updates + 1) % SyncEvery = 0 THEN net.updates + 1
                    ELSE net.target]

BalancerTrainStep(buffer) ==
    IF Len(buffer) < MinReplay \/ Sample(buffer, BatchSize) = {} THEN net ELSE TargetStep

(* With crises on record a part of the batch comes from them.               *)
SchedulerTrainStep(buffer, crises) ==
    LET mainSize == IF crises > 0 THEN BatchSize - CrisisShare ELSE BatchSize
    IN  IF Len(buffer) < MinReplay \/ Sample(buffer, mainSize) = {} THEN net ELSE TargetStep

(* Every training of the actor and the critic moves their targets.          *)
softUpdate(updates) == [updates |-> updates, target |-> updates]

Train(buffer) ==
    IF SampleUniform(buffer, BatchSize) = {} THEN net ELSE softUpdate(net.updates + 1)

BalancerReceives ==
    /\ kind = "balancer" /\ trainer.pc = "run" /\ channel # <<>>
    /\ channel' = Tail(channel)
    /\ replay' = Remember(replay, ReplayCap, Head(channel))
    /\ trainer' = [trainer EXCEPT !.steps = (@ + 1) % TrainEvery]
    /\ net' = IF trainer'.steps = 0 THEN BalancerTrainStep(replay') ELSE net
    /\ UNCHANGED <<kind, gen, snaps, policy, feed, lastGen, fallback, verdicts, crisis,
                   cancelled>>

(* The crisis buffer takes a copy of an overload transition.                *)
SchedulerReceives(overload) ==
    /\ kind = "scheduler" /\ trainer.pc = "run" /\ channel # <<>>
    /\ channel' = Tail(channel)
    /\ replay' = Remember(replay, ReplayCap, Head(channel))
    /\ crisis' = IF overload /\ crisis < ReplayCap THEN crisis + 1 ELSE crisis
    /\ trainer' = [trainer EXCEPT !.steps = (@ + 1) % TrainEvery]
    /\ net' = IF trainer'.steps = 0 THEN SchedulerTrainStep(replay', crisis') ELSE net
    /\ UNCHANGED <<kind, gen, snaps, policy, feed, lastGen, fallback, verdicts, cancelled>>

(* Once cancelled, the loop only empties the channel into the buffer.       *)
TrainCancelled ==
    /\ cancelled /\ trainer.pc = "run"
    /\ trainer' = [trainer EXCEPT !.pc = "drain"]
    /\ UNCHANGED <<kind, gen, snaps, policy, feed, lastGen, fallback, verdicts, channel,
                   replay, crisis, net, cancelled>>

TrainDrains ==
    /\ trainer.pc = "drain"
    /\ IF channel = <<>>
       THEN trainer' = [trainer EXCEPT !.pc = "done"] /\ UNCHANGED <<channel, replay>>
       ELSE /\ channel' = Tail(channel)
            /\ replay' = Remember(replay, ReplayCap, Head(channel))
            /\ UNCHANGED trainer
    /\ UNCHANGED <<kind, gen, snaps, policy, feed, lastGen, fallback, verdicts, crisis, net, cancelled>>

(* The optimizer does it all in one step under its lock, with the metrics   *)
(* of this tick and of the one before.                                      *)
OptimizerTick ==
    /\ kind = "optimizer" /\ ~cancelled /\ gen < MaxGen
    /\ gen' = gen + 1
    /\ snaps' = [snaps EXCEPT !.prev = gen + 1]
    /\ IF snaps.prev = 0 THEN UNCHANGED <<replay, net>>
       ELSE /\ replay' = Store(replay, [from |-> snaps.prev, to |-> gen + 1])
            /\ net' = Train(replay')
    /\ UNCHANGED <<kind, policy, feed, lastGen, fallback, verdicts, channel, trainer, crisis, cancelled>>

Stop ==
    /\ ~cancelled
    /\ cancelled' = TRUE
    /\ UNCHANGED <<kind, gen, snaps, policy, feed, lastGen, fallback, verdicts, channel,
                   trainer, replay, crisis, net>>

LearnerNext ==
    \/ SchedulerNext
    \/ BalancerTick \/ SchedulerTick
    \/ PolicyStoresPrev \/ PolicyStoresCurr \/ PolicyStops
    \/ \E overload \in BOOLEAN : SchedulerEpsilon(overload) \/ SchedulerReceives(overload)
    \/ \E v \in {Bad, Good} : BalancerOnMetrics(v)
    \/ SchedulerOnMetrics \/ MetricsLoadFirst \/ MetricsLoadSecond \/ MetricsSend
    \/ BalancerReceives \/ TrainCancelled \/ TrainDrains
    \/ OptimizerTick
    \/ Stop

LearnerSpec == LearnerInit /\ [][LearnerNext]_learnerVars

(* ------------------------------ properties ----------------------------- *)

Experience == replay \o channel

(* No learner is taught time running backwards, although policyLoop stores  *)
(* and OnMetrics loads the two snapshots without a lock: a transition never *)
(* leads to an older state than it starts from, transitions stay in order   *)
(* from OnMetrics through the channel into the buffer, and the balancer and *)
(* the optimizer never learn from the same outcome twice.                   *)
ExperienceForward ==
    /\ \A i \in DOMAIN Experience : Experience[i].from <= Experience[i].to
    /\ \A i \in 2 .. Len(Experience) :
          IF kind = "scheduler" THEN Experience[i - 1].to <= Experience[i].to
          ELSE Experience[i - 1].to < Experience[i].to

LastAll(n, v) ==
    Len(verdicts) >= n /\ \A i \in Len(verdicts) - n + 1 .. Len(verdicts) : verdicts[i] = v

(* DQNBalancer.OnMetrics has the hysteresis its constants promise: a bad    *)
(* tick keeps exploration off for ExitTicks ticks, EnterTicks bad ticks in  *)
(* a row force the round-robin fallback, the fallback never explores, and   *)
(* ExitTicks good ticks in a row end both.                                  *)
FallbackHysteresis ==
    /\ (\E i \in DOMAIN verdicts : verdicts[i] = Bad) => fallback.suppressed
    /\ LastAll(EnterTicks, Bad) => fallback.active
    /\ fallback.active => fallback.suppressed
    /\ LastAll(ExitTicks, Good) => ~fallback.active /\ ~fallback.suppressed

=============================================================================

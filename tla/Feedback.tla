------------------------------ MODULE Feedback ------------------------------
(* The latency feedback of DQNScheduler: consumers add the latency of every *)
(* message they deliver to two atomic accumulators per level, a sum and a   *)
(* count, and the reward of OnMetrics empties them level by level.  Nothing *)
(* ties a sum to its count.  An accumulator is modelled by the set of the   *)
(* messages in it.                                                          *)
EXTENDS Integers, FiniteSetsExt

CONSTANTS
    Consumers,
    Messages,
    PriorityOf, LatencyOf,   \* of each message
    NumLevels,               \* MaxPriority: levels 0 .. NumLevels - 1
    MaxRewards               \* bound

VARIABLES queued, consumers, sums, counts, metrics, prevDepth, last,
          inSums, inCounts   \* history: rewards that used a message's latency

feedbackVars == <<queued, consumers, sums, counts, metrics, prevDepth, last,
                  inSums, inCounts>>

LatencyLevels == 0 .. NumLevels - 1
NotReading == [pc |-> "idle"]
Empty == [l \in LatencyLevels |-> {}]
Never == [m \in Messages |-> 0]

(* A consumer has found the index empty, which made it known to the policy, *)
(* and both snapshots have been taken.                                      *)
FeedbackInit ==
    /\ queued = {}
    /\ consumers = [c \in Consumers |-> NotReading]
    /\ sums = Empty /\ counts = Empty
    /\ metrics = [pc |-> "wait", rewards |-> 0]
    /\ prevDepth = 0
    /\ last = [active |-> {}, bonus |-> FALSE, penalty |-> 0]
    /\ inSums = Never /\ inCounts = Never

Seen == queued \cup {m \in Messages : inSums[m] > 0} \cup (UNION {sums[l] : l \in LatencyLevels})
          \cup {consumers[c].msg : c \in {d \in Consumers : consumers[d].pc # "idle"}}

Arrives(m) ==
    /\ m \notin Seen
    /\ queued' = queued \cup {m}
    /\ UNCHANGED <<consumers, sums, counts, metrics, prevDepth, last, inSums, inCounts>>

(* The message is popped and read; when it cannot be read it is lost.       *)
Pops(c, m) ==
    /\ consumers[c].pc = "idle" /\ m \in queued
    /\ queued' = queued \ {m}
    /\ \/ consumers' = [consumers EXCEPT ![c] = [pc |-> "read", msg |-> m]]
       \/ UNCHANGED consumers
    /\ UNCHANGED <<sums, counts, metrics, prevDepth, last, inSums, inCounts>>

Level(m) == Min({PriorityOf[m], NumLevels - 1})

(* latencySums[level].Add, then latencyCounts[level].Add.                   *)
AddsSum(c) ==
    LET m == consumers[c].msg IN
    /\ consumers[c].pc = "read"
    /\ sums' = [sums EXCEPT ![Level(m)] = @ \cup {m}]
    /\ consumers' = [consumers EXCEPT ![c].pc = "summed"]
    /\ UNCHANGED <<queued, counts, metrics, prevDepth, last, inSums, inCounts>>

AddsCount(c) ==
    LET m == consumers[c].msg IN
    /\ consumers[c].pc = "summed"
    /\ counts' = [counts EXCEPT ![Level(m)] = @ \cup {m}]
    /\ consumers' = [consumers EXCEPT ![c] = NotReading]
    /\ UNCHANGED <<queued, sums, metrics, prevDepth, last, inSums, inCounts>>

(* OnMetrics comes to the reward.                                           *)
OnMetrics ==
    /\ metrics.pc = "wait" /\ metrics.rewards < MaxRewards
    /\ metrics' = [pc |-> "sum", rewards |-> metrics.rewards + 1, level |-> 0,
                   s |-> Empty, c |-> Empty]
    /\ UNCHANGED <<queued, consumers, sums, counts, prevDepth, last, inSums, inCounts>>

Used(f, S) == [m \in Messages |-> f[m] + IF m \in S THEN 1 ELSE 0]

(* Mutant: the accumulator is loaded, and not reset.                        *)
Swapped_Loaded(a, l) == a

Swapped(a, l) == [a EXCEPT ![l] = {}]

TakesSum ==
    LET l == metrics.level IN
    /\ metrics.pc = "sum"
    /\ metrics' = [metrics EXCEPT !.pc = "count", !.s[l] = sums[l]]
    /\ sums' = Swapped(sums, l)
    /\ inSums' = Used(inSums, sums[l])
    /\ UNCHANGED <<queued, consumers, counts, prevDepth, last, inCounts>>

TakesCount ==
    LET l == metrics.level IN
    /\ metrics.pc = "count"
    /\ metrics' = [metrics EXCEPT !.c[l] = counts[l], !.level = l + 1,
                                  !.pc = IF l + 1 = NumLevels THEN "reward" ELSE "sum"]
    /\ counts' = Swapped(counts, l)
    /\ inCounts' = Used(inCounts, counts[l])
    /\ UNCHANGED <<queued, consumers, sums, prevDepth, last, inSums>>

TotalLatency(S) == MapThenSumSet(LAMBDA m : LatencyOf[m], S)

(* The mean latency of level h is below that of level l.                    *)
MeanBelow(h, l) ==
    TotalLatency(metrics.s[h]) * Cardinality(metrics.c[l])
        < TotalLatency(metrics.s[l]) * Cardinality(metrics.c[h])

(* A level whose count is zero is left out, whatever its sum.  The bonus    *)
(* compares the first and the last level that are in; the penalty grows     *)
(* with the index since the reward before.                                  *)
computePerPriorityReward ==
    LET active == {l \in LatencyLevels : metrics.c[l] # {}}
        depth == Cardinality(queued)
    IN
    /\ metrics.pc = "reward"
    /\ last' = [active |-> active,
                bonus |-> active # {} /\ MeanBelow(Min(active), Max(active)),
                penalty |-> Max({0, depth - prevDepth})]
    /\ prevDepth' = depth
    /\ metrics' = [pc |-> "wait", rewards |-> metrics.rewards]
    /\ UNCHANGED <<queued, consumers, sums, counts, inSums, inCounts>>

FeedbackNext ==
    \/ \E m \in Messages : Arrives(m)
    \/ \E c \in Consumers :
          (\E m \in Messages : Pops(c, m)) \/ AddsSum(c) \/ AddsCount(c)
    \/ OnMetrics \/ TakesSum \/ TakesCount \/ computePerPriorityReward

FeedbackSpec == FeedbackInit /\ [][FeedbackNext]_feedbackVars

-----------------------------------------------------------------------------
Between(m) == \E c \in Consumers : consumers[c].pc = "summed" /\ consumers[c].msg = m

One(b) == IF b THEN 1 ELSE 0

(* No latency is lost or used twice, however deliveries interleave with the *)
(* reward's loop over the levels (Next, computePerPriorityReward): once a   *)
(* consumer has added it, its sum and its count are each in the accumulator *)
(* of the level or were taken by exactly one reward - not necessarily both  *)
(* by the same one.                                                         *)
LatencyOnce ==
    \A m \in Messages :
        LET sum == inSums[m] + One(m \in sums[Level(m)])
            count == inCounts[m] + One(m \in counts[Level(m)])
        IN  /\ sum <= 1
            /\ count = sum - One(Between(m))

=============================================================================

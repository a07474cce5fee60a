----------------------------- MODULE Experiment -----------------------------
(* The benchmark driver (experiments/): RunAll goes through its plan, one    *)
(* run at a time.  A run makes its topic, warms up the learning algorithms   *)
(* on it, and measures: producers fill and flush batches, one consumer per   *)
(* partition fetches, all of them count in one collector, and the result is  *)
(* a snapshot of its counters.  Messages are counted, not told apart.  A run *)
(* drives a broker in its own process or an external one, through a client   *)
(* whose calls can fail after the broker has served them, or be served after *)
(* they have failed.                                                         *)
EXTENDS Integers, Sequences, SequencesExt

CONSTANTS
    Producers, Partitions,
    Plan,                \* the runs: [scenario, external, dqn]
    Target,              \* items that fill a batch
    MaxFetch,            \* messages of one ConsumeBatch
    failFastThreshold,
    MaxItems, MaxErrors  \* bounds, per scenario

VARIABLES
    main,                \* RunAll and the run it is in
    topic,               \* the run's topic: messages not yet delivered
    producer, consumer,
    stop,                \* the contexts that were cancelled
    orphans,             \* items of requests given up that may still be served
    collector,
    history,             \* of the scenario: what happened, counted or not
    result

experimentVars == <<main, topic, producer, consumer, stop, orphans, collector,
                    history, result>>
workers == <<producer, consumer>>

Kinds == {TRUE, FALSE}   \* external or in-process
Gone == [exists |-> FALSE, queue |-> [q \in Partitions |-> 0]]
NoCounts == [produced |-> 0, failed |-> 0, consumed |-> 0]
NoHistory == [generated |-> 0, stored |-> 0, left |-> 0, again |-> 0]
NoResult == [pc |-> "none"]

ExperimentInit ==
    /\ main = [pc |-> "next", at |-> 1, fails |-> [k \in Kinds |-> 0], disabled |-> {}]
    /\ topic = Gone
    /\ producer = [p \in Producers |-> [pc |-> "done", batch |-> 0, ok |-> 0]]
    /\ consumer = [q \in Partitions |-> [pc |-> "done", got |-> 0]]
    /\ stop = {}
    /\ orphans = 0
    /\ collector = NoCounts /\ history = NoHistory /\ result = NoResult

Run == Plan[main.at]
Goto(pc) == main' = [main EXCEPT !.pc = pc]
Total(f) == FoldFunction(+, 0, f)

(* ------------------------------- RunAll -------------------------------- *)

(* The failures of a mode are counted afresh in every scenario.             *)
NextAt(fails, disabled) ==
    LET new == main.at < Len(Plan) /\ Plan[main.at + 1].scenario # Run.scenario IN
    main' = [pc |-> "next", at |-> main.at + 1, disabled |-> disabled,
             fails |-> IF new THEN [k \in Kinds |-> 0] ELSE fails]

Skip ==
    /\ main.pc = "next" /\ main.at <= Len(Plan)
    /\ Run.external \in main.disabled
    /\ NextAt(main.fails, main.disabled)
    /\ UNCHANGED <<topic, workers, stop, orphans, collector, history, result>>

(* NewHarness.  An in-process broker starts on an empty directory; on an    *)
(* external one the topic may be left from an earlier execution.            *)
BeginRun ==
    /\ main.pc = "next" /\ main.at <= Len(Plan)
    /\ Run.external \notin main.disabled
    /\ \/ /\ ~Run.external /\ topic' = Gone /\ Goto("create")
       \/ /\ Run.external /\ "all" \notin stop
          /\ topic' \in {Gone, [exists |-> TRUE, queue |-> [q \in Partitions |-> 1]]}
          /\ Goto("delete")
       \/ Goto("failed") /\ topic' = Gone
    /\ orphans' = 0
    /\ UNCHANGED <<workers, stop, collector, history, result>>

(* The stale topic must be gone; an attempt that fails is repeated, or ends *)
(* the run, whether the broker had served it or not.                        *)
DeleteStale ==
    /\ main.pc = "delete"
    /\ \/ topic' = Gone /\ Goto("create")
       \/ topic' \in {Gone, topic} /\ Goto("delete")
       \/ topic' \in {Gone, topic} /\ Goto("failed")
    /\ UNCHANGED <<workers, stop, orphans, collector, history, result>>

(* A topic that exists, from before or from a try whose answer was lost, is *)
(* deleted, and the next try makes it.                                      *)
CreateTopic ==
    /\ main.pc = "create"
    /\ \/ /\ ~topic.exists
          /\ topic' = [Gone EXCEPT !.exists = TRUE]
          /\ \/ Goto(IF Run.dqn THEN "warmup" ELSE "measure")
             \/ Run.external /\ Goto("create")
       \/ topic.exists /\ topic' \in {Gone, topic} /\ Goto("create")
       \/ Goto("failed") /\ UNCHANGED topic
    /\ UNCHANGED <<workers, stop, orphans, collector, history, result>>

(* A mode is given up after so many failures in a row.                      *)
RunFails ==
    LET n == main.fails[Run.external] + 1 IN
    /\ main.pc = "failed"
    /\ NextAt([main.fails EXCEPT ![Run.external] = n],
              IF n >= failFastThreshold THEN main.disabled \cup {Run.external}
              ELSE main.disabled)
    /\ UNCHANGED <<topic, workers, stop, orphans, collector, history, result>>

(* drainQueues only waits, as all consumers have stopped; Close deletes the *)
(* topic if it can.                                                         *)
RunEnds ==
    /\ main.pc = "close"
    /\ NextAt([main.fails EXCEPT ![Run.external] = 0], main.disabled)
    /\ topic' \in {Gone, topic}
    /\ result' = NoResult
    /\ UNCHANGED <<workers, stop, orphans, collector, history>>

(* ----------------------------- runScenario ----------------------------- *)

(* A new collector and new contexts; the topic is the run's, with whatever  *)
(* the warm-up left in it.                                                  *)
BeginScenario ==
    /\ main.pc \in {"warmup", "measure"}
    /\ collector' = NoCounts
    /\ history' = [NoHistory EXCEPT !.left = Total(topic.queue)]
    /\ stop' = stop \ {"produce", "consume"}
    /\ producer' = [p \in Producers |-> [pc |-> "loop", batch |-> 0, ok |-> 0]]
    /\ consumer' = [q \in Partitions |-> [pc |-> "loop", got |-> 0]]
    /\ main' = [pc |-> "run", at |-> main.at, fails |-> main.fails,
                disabled |-> main.disabled, phase |-> main.pc]
    /\ result' = NoResult
    /\ UNCHANGED <<topic, orphans>>

Cancelled(what) == stop \cap {what, "all"} # {}

(* The whole program is interrupted; the runs that are left are still made. *)
Interrupt ==
    /\ main.pc \in {"run", "producers", "consumers"} /\ "all" \notin stop
    /\ stop' = stop \cup {"all"}
    /\ UNCHANGED <<main, topic, workers, orphans, collector, history, result>>

StopProducers ==
    /\ main.pc = "run"
    /\ stop' = stop \cup {"produce"}
    /\ Goto("producers")
    /\ UNCHANGED <<topic, workers, orphans, collector, history, result>>

(* Mutant: the producers are not waited for.                                *)
WaitProducers_Not ==
    /\ main.pc = "producers"
    /\ stop' = stop \cup {"consume"}
    /\ Goto("consumers")
    /\ UNCHANGED <<topic, workers, orphans, collector, history, result>>

(* producerPool.StopAndWait and the grace period for the consumers.         *)
WaitProducers ==
    /\ main.pc = "producers"
    /\ \A p \in Producers : producer[p].pc = "done"
    /\ stop' = stop \cup {"consume"}
    /\ Goto("consumers")
    /\ UNCHANGED <<topic, workers, orphans, collector, history, result>>

(* Snapshot, once the consumers are gone.  The warm-up's result is thrown    *)
(* away.                                                                    *)
Snapshot ==
    /\ main.pc = "consumers"
    /\ \A q \in Partitions : consumer[q].pc = "done"
    /\ result' = [pc |-> main.phase, dqn |-> Run.dqn, external |-> Run.external,
                  counts |-> collector, was |-> history]
    /\ main' = [pc |-> IF main.phase = "warmup" THEN "measure" ELSE "close",
                at |-> main.at, fails |-> main.fails, disabled |-> main.disabled]
    /\ collector' = NoCounts /\ history' = NoHistory
    /\ UNCHANGED <<topic, workers, stop, orphans>>

(* ------------------------------ producers ------------------------------ *)

Generate(p) ==
    /\ producer[p].pc = "loop" /\ ~Cancelled("produce")
    /\ producer[p].batch < Target /\ history.generated < MaxItems
    /\ producer' = [producer EXCEPT ![p].batch = @ + 1]
    /\ history' = [history EXCEPT !.generated = @ + 1]
    /\ UNCHANGED <<main, topic, consumer, stop, orphans, collector, result>>

(* A batch goes out when it is full, when its linger time is over, and when *)
(* the producer is told to stop.                                            *)
Flush(p) ==
    /\ producer[p].pc = "loop" /\ producer[p].batch > 0
    /\ producer' = [producer EXCEPT ![p].pc = "call"]
    /\ UNCHANGED <<main, topic, consumer, stop, orphans, collector, history, result>>

ProducerReturns(p) ==
    /\ producer[p].pc = "loop" /\ producer[p].batch = 0 /\ Cancelled("produce")
    /\ producer' = [producer EXCEPT ![p].pc = "done"]
    /\ UNCHANGED <<main, topic, consumer, stop, orphans, collector, history, result>>

(* The broker takes n messages, each into a partition of its choice.        *)
Store(n) ==
    \E to \in [Partitions -> 0..n] :
        /\ Total(to) = n
        /\ topic' = [topic EXCEPT !.queue = [q \in Partitions |-> @[q] + to[q]]]
        /\ history' = [history EXCEPT !.stored = @ + n]

(* Broker.PublishBatch, for the harness or for the server's handler.        *)
Publish(p) ==
    /\ producer[p].pc = "call"
    /\ \E ok \in 0..producer[p].batch :
          /\ Store(ok)
          /\ producer' = [producer EXCEPT ![p].pc = "answer", ![p].ok = ok]
    /\ UNCHANGED <<main, consumer, stop, orphans, collector, result>>

(* n items are produced; the others count as throttled, or as errors, by    *)
(* the first of them that failed.                                           *)
Flushed(p, n) ==
    /\ collector' = [collector EXCEPT !.produced = @ + n,
                                      !.failed = @ + producer[p].batch - n]
    /\ producer' = [producer EXCEPT ![p] = [pc |-> "loop", batch |-> 0, ok |-> 0]]

(* In-process the results are counted one by one.  A server answers with a  *)
(* result for every item unless all of them failed, so that the client      *)
(* takes a batch that was stored in part for a success.                     *)
Answered(p) ==
    LET ok == producer[p].ok IN
    /\ producer[p].pc = "answer"
    /\ Flushed(p, IF Run.external /\ ok > 0 THEN producer[p].batch ELSE ok)
    /\ UNCHANGED <<main, topic, consumer, stop, orphans, history, result>>

(* The call is cancelled or the connection breaks: the items count as       *)
(* failed, while the server may have stored them, or do so later.           *)
GiveUp(p) ==
    /\ producer[p].pc \in {"call", "answer"} /\ Run.external
    /\ Flushed(p, 0)
    /\ orphans' \in IF producer[p].pc = "call" THEN {orphans, orphans + producer[p].batch}
                    ELSE {orphans}
    /\ UNCHANGED <<main, topic, consumer, stop, history, result>>

ServeOrphans ==
    /\ orphans > 0 /\ topic.exists
    /\ \E n \in 0..orphans : Store(n)
    /\ orphans' = 0
    /\ UNCHANGED <<main, workers, stop, collector, result>>

(* ------------------------- consumers ----------------------------------- *)

(* ConsumeBatch takes what is there; when a server cannot commit the offset *)
(* it answers all the same, and will hand the messages out again.           *)
Fetch(q) ==
    /\ consumer[q].pc = "loop" /\ ~Cancelled("consume")
    /\ \E n \in 1..Min({MaxFetch, topic.queue[q]}) :
          /\ consumer' = [consumer EXCEPT ![q] = [pc |-> "got", got |-> n]]
          /\ \/ topic' = [topic EXCEPT !.queue[q] = @ - n] /\ UNCHANGED history
             \/ /\ Run.external /\ history.again < MaxErrors
                /\ history' = [history EXCEPT !.again = @ + n] /\ UNCHANGED topic
    /\ UNCHANGED <<main, producer, stop, orphans, collector, result>>

(* A message without a sane timestamp is an error.                          *)
Consumed(q) ==
    /\ consumer[q].pc = "got"
    /\ \E n \in 0..consumer[q].got :
          collector' = [collector EXCEPT !.consumed = @ + n]
    /\ consumer' = [consumer EXCEPT ![q] = [pc |-> "loop", got |-> 0]]
    /\ UNCHANGED <<main, topic, producer, stop, orphans, history, result>>

(* The call fails and the messages are dropped.                             *)
FetchFails(q) ==
    /\ consumer[q].pc = "got"
    /\ consumer' = [consumer EXCEPT ![q] = [pc |-> "loop", got |-> 0]]
    /\ UNCHANGED <<main, topic, producer, stop, orphans, collector, history, result>>

ConsumerReturns(q) ==
    /\ consumer[q].pc = "loop" /\ Cancelled("consume")
    /\ consumer' = [consumer EXCEPT ![q].pc = "done"]
    /\ UNCHANGED <<main, topic, producer, stop, orphans, collector, history, result>>

Ended == main.at > Len(Plan) /\ UNCHANGED experimentVars

ExperimentNext ==
    \/ Skip \/ BeginRun \/ DeleteStale \/ CreateTopic \/ RunFails \/ RunEnds
    \/ BeginScenario \/ Interrupt \/ StopProducers \/ WaitProducers \/ Snapshot
    \/ \E p \in Producers :
          Generate(p) \/ Flush(p) \/ ProducerReturns(p) \/ Publish(p) \/ Answered(p)
             \/ GiveUp(p)
    \/ ServeOrphans
    \/ \E q \in Partitions : Fetch(q) \/ Consumed(q) \/ FetchFails(q) \/ ConsumerReturns(q)
    \/ Ended

ExperimentSpec == ExperimentInit /\ [][ExperimentNext]_experimentVars

-----------------------------------------------------------------------------
(* A result accounts for its run, however it was stopped: every item that   *)
(* the producers generated is counted as produced, throttled or failed,     *)
(* exactly once; with an in-process broker the produced ones are those that *)
(* were stored; nothing is consumed that was not stored in the scenario,    *)
(* left by the warm-up, or handed out again; and the first scenario on a    *)
(* topic finds nothing left of an earlier execution (runScenario, flush,    *)
(* PublishBatch and Snapshot, with runNyaQueue's deletion of a stale topic).*)
ResultAccounts ==
    result.pc # "none" =>
        LET n == result.counts  h == result.was IN
        /\ n.produced + n.failed = h.generated
        /\ ~result.external => n.produced = h.stored
        /\ n.consumed <= h.stored + h.left + h.again
        /\ (result.pc = "warmup" \/ ~result.dqn) => h.left = 0

=============================================================================

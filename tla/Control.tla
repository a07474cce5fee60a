------------------------------- MODULE Control -------------------------------
(* The control loop around publishing: counters, the metrics tick, the load *)
(* predictor and backpressure, with topics being deleted underneath.        *)
(*   produced, consumed  partition counters since the last savePrev         *)
(*   history             LoadPredictor.history, keyed by position           *)
(*   predicted, system   what BackpressureController was last given         *)
(* Counters are kept per partition id, shared by all topics; loads are      *)
(* listed by position, topic after topic.  Of a load the model keeps whether *)
(* it is zero, of a prediction whether it is over the threshold.            *)
EXTENDS Integers, FiniteSets, SequencesExt

CONSTANTS
    Topics,       \* the partition count of each topic, in the map's order
    Deletable,    \* the topics that may be deleted
    Window,       \* predictor window
    MaxRecords,   \* bound on what is recorded between two ticks
    MaxPending    \* bound on concurrent publishes

VARIABLES live, pending, produced, consumed, tick, history, rank, predicted,
          system

controlVars == <<live, pending, produced, consumed, tick, history, rank, predicted,
                 system>>

Ids == 0 .. Max({Topics[t] : t \in DOMAIN Topics}) - 1
MaxPositions == FoldFunction(LAMBDA a, b : a + b, 0, Topics)
Positions == 0 .. MaxPositions - 1
Ready == [pc |-> "wait"]

(* Partition ids by position, topic after topic.                            *)
Listing == FlattenSeq([t \in DOMAIN Topics |->
              IF t \in live THEN [i \in 1 .. Topics[t] |-> i - 1] ELSE <<>>])

(* rank is the order in which the predictor's map yields its keys.          *)
Init ==
    /\ live = DOMAIN Topics
    /\ pending = [p \in Ids |-> 0]
    /\ produced = [p \in Ids |-> 0]
    /\ consumed = [p \in Ids |-> 0]
    /\ tick = Ready
    /\ history = [i \in {} |-> <<>>]
    /\ rank \in {r \in [1 .. MaxPositions -> Positions] : Range(r) = Positions}
    /\ predicted = <<>>
    /\ system = [over |-> FALSE, slow |-> FALSE]

(* ------------------------- publish and consume ------------------------- *)

(* BackpressureController.evaluate: closed by the system-wide average; a    *)
(* slow log flush only warns, before the partition is looked at.            *)
OverThreshold(p) == p < Len(predicted) /\ predicted[p + 1].over

Closed(p) == system.over \/ (~system.slow /\ OverThreshold(p))

Publish(p) ==
    /\ \E t \in live : p < Topics[t]
    /\ pending[p] < MaxPending /\ produced[p] + pending[p] < MaxRecords
    /\ ~Closed(p)
    /\ pending' = [pending EXCEPT ![p] = @ + 1]
    /\ UNCHANGED <<live, produced, consumed, tick, history, rank, predicted, system>>

(* RecordProduce, after the append.                                         *)
RecordProduce(p) ==
    /\ pending[p] > 0
    /\ pending' = [pending EXCEPT ![p] = @ - 1]
    /\ produced' = [produced EXCEPT ![p] = @ + 1]
    /\ UNCHANGED <<live, consumed, tick, history, rank, predicted, system>>

RecordConsume(p) ==
    /\ consumed[p] < MaxRecords
    /\ consumed' = [consumed EXCEPT ![p] = @ + 1]
    /\ UNCHANGED <<live, pending, produced, tick, history, rank, predicted, system>>

(* ------------------------------ metrics tick --------------------------- *)

(* Collect lists the topics first ...                                       *)
TickBegins ==
    /\ tick = Ready
    /\ tick' = [pc |-> "read", ids |-> Listing, loads |-> <<>>]
    /\ UNCHANGED <<live, pending, produced, consumed, history, rank, predicted, system>>

Loaded(p) == produced[p] > consumed[p]

(* ... reads the counters of one partition at a time ...                    *)
TickReads ==
    LET p == tick.ids[Len(tick.loads) + 1] IN
    /\ tick.pc = "read" /\ Len(tick.loads) < Len(tick.ids)
    /\ tick' = [tick EXCEPT !.loads = Append(@, Loaded(p))]
    /\ UNCHANGED <<live, pending, produced, consumed, history, rank, predicted, system>>

(* ... and then takes the counters as they are by now for the next delta.   *)
TickSaves ==
    /\ tick.pc = "read" /\ Len(tick.loads) = Len(tick.ids)
    /\ produced' = [p \in Ids |-> 0]
    /\ consumed' = [p \in Ids |-> 0]
    /\ tick' = [pc |-> "predict", loads |-> tick.loads]
    /\ UNCHANGED <<live, pending, history, rank, predicted, system>>

(* Mutant: a full ring no longer takes new values.                          *)
Push_Full(ring, load) == IF Len(ring) = Window THEN ring ELSE Append(ring, load)

Push(ring, load) ==
    IF Len(ring) = Window THEN Append(Tail(ring), load) ELSE Append(ring, load)

History(i) == IF i \in DOMAIN history THEN history[i] ELSE <<>>

(* Update: push every load.  No loads, and the predictor is left alone.     *)
Updated(loads) ==
    [i \in DOMAIN history \cup 0 .. Len(loads) - 1 |->
        IF i < Len(loads) THEN Push(History(i), loads[i + 1]) ELSE history[i]]

(* arPredictInto: a window of zeros predicts zero; from any other the model *)
(* may come out anywhere in the clamped range.                              *)
MayExceed(ring) == TRUE \in Range(ring)

(* PredictAll lists the forecasts in the order of the map, not by position. *)
Ordered(keys, over) ==
    LET order == SelectSeq(rank, LAMBDA i : i \in keys)
    IN  [k \in DOMAIN order |-> [of |-> order[k], over |-> order[k] \in over]]

TickPredicts ==
    /\ tick.pc = "predict"
    /\ history' = Updated(tick.loads)
    /\ \E over \in SUBSET {i \in DOMAIN history' : MayExceed(history'[i])} :
          tick' = [pc |-> "publish",
                   predicted |-> IF tick.loads = <<>> THEN <<>>
                                 ELSE Ordered(DOMAIN history', over)]
    /\ UNCHANGED <<live, pending, produced, consumed, rank, predicted, system>>

(* UpdatePredictions, then, separately, UpdateSystem with the average.      *)
TickPublishes ==
    /\ tick.pc = "publish"
    /\ predicted' = tick.predicted
    /\ tick' = [tick EXCEPT !.pc = "system"]
    /\ UNCHANGED <<live, pending, produced, consumed, history, rank, system>>

AverageOver(loads) ==
    LET over == {loads[k].over : k \in DOMAIN loads}
    IN  IF TRUE \notin over THEN {FALSE} ELSE IF over = {TRUE} THEN {TRUE} ELSE BOOLEAN

TickEnds ==
    /\ tick.pc = "system"
    /\ \E over \in AverageOver(tick.predicted), slow \in BOOLEAN :
          system' = [over |-> over, slow |-> slow]
    /\ tick' = Ready
    /\ UNCHANGED <<live, pending, produced, consumed, history, rank, predicted>>

Tick == TickBegins \/ TickReads \/ TickSaves \/ TickPredicts \/ TickPublishes \/ TickEnds

(* DeleteTopic clears, by partition id, the history and the counters.       *)
RemovePartitions(t) ==
    LET ids == 0 .. Topics[t] - 1 IN
    /\ t \in live \cap Deletable
    /\ live' = live \ {t}
    /\ history' = [i \in DOMAIN history \ ids |-> history[i]]
    /\ produced' = [p \in Ids |-> IF p \in ids THEN 0 ELSE produced[p]]
    /\ consumed' = [p \in Ids |-> IF p \in ids THEN 0 ELSE consumed[p]]
    /\ UNCHANGED <<pending, tick, rank, predicted, system>>

Next ==
    \/ \E p \in Ids : Publish(p) \/ RecordProduce(p) \/ RecordConsume(p)
    \/ Tick
    \/ \E t \in DOMAIN Topics : RemovePartitions(t)

(* The ticker fires again and again; publishers and consumers may stop.     *)
Spec == Init /\ [][Next]_controlVars /\ WF_controlVars(Tick)

(* ------------------------------ properties ----------------------------- *)

(* Backpressure does not lock producers out for good: as long as no topic   *)
(* has been deleted, again and again some partition accepts messages,       *)
(* because a throttled topic records nothing, its loads fall to zero and    *)
(* within a window the predictions follow (metricsLoop, Collect, Push,      *)
(* arPredictInto, evaluate).                                                *)
ThrottlingEnds ==
    []<>(live # DOMAIN Topics \/ \E p \in Ids : ~Closed(p))

(* With one topic a partition is refused on its own account only when the   *)
(* load predicted for it is over the threshold ("throttles producers based  *)
(* on predicted partition loads", BackpressureController).                  *)
ThrottledByOwnLoad ==
    \A p \in Ids : OverThreshold(p) =>
        \E k \in DOMAIN predicted : predicted[k].of = p /\ predicted[k].over

=============================================================================
